------------------------ MODULE BackendSemaphoreProofs ------------------------
(* Theorems about BackendSemaphore for every set of requests and every        *)
(* maxConcurrency: no slot leaks, no slot idles while a request waits, nothing *)
(* queued is left unarmed, and the whole implements SlotService.               *)
EXTENDS BackendSemaphore, SequencesExt, SequenceTheorems, FiniteSetTheorems, TLAPS

(* Queues whose members are all different, and what happens to the members    *)
(* when one joins, leaves from any place or is served.                         *)
DuplicateFree(q) == \A i, j \in 1..Len(q) : q[i] = q[j] => i = j
Member(x, q) == \E i \in 1..Len(q) : q[i] = x

(* Removing one position keeps the others, in order. *)
LEMMA RemoveAtElements ==
    ASSUME NEW S, NEW q \in Seq(S), NEW k \in 1..Len(q)
    PROVE  /\ RemoveAt(q, k) \in Seq(S)
           /\ Len(RemoveAt(q, k)) = Len(q) - 1
           /\ \A j \in 1..(Len(q) - 1) :
                RemoveAt(q, k)[j] = IF j < k THEN q[j] ELSE q[j + 1]
<1> DEFINE a == SubSeq(q, 1, k - 1)
           b == SubSeq(q, k + 1, Len(q))
<1>0. Len(q) \in Nat /\ k \in Int
  OBVIOUS
<1>1. a \in Seq(S) /\ Len(a) = k - 1 /\ \A j \in 1..(k - 1) : a[j] = q[j]
  BY SubSeqProperties
<1>2. b \in Seq(S) /\ Len(b) = Len(q) - k /\ \A j \in 1..(Len(q) - k) : b[j] = q[k + j]
  BY SubSeqProperties
<1>3. RemoveAt(q, k) = a \o b
  BY DEF RemoveAt
<1> HIDE DEF a, b
<1>4. /\ a \o b \in Seq(S)
      /\ Len(a \o b) = Len(a) + Len(b)
      /\ \A j \in 1..(Len(a) + Len(b)) :
            (a \o b)[j] = IF j <= Len(a) THEN a[j] ELSE b[j - Len(a)]
  BY <1>1, <1>2, ConcatProperties, ZenonT(30)
<1> DEFINE c == a \o b
<1> HIDE DEF c
<1>5. ASSUME NEW j \in 1..(Len(q) - 1)
      PROVE  c[j] = IF j < k THEN q[j] ELSE q[j + 1]
  <2>1. Len(a) + Len(b) = Len(q) - 1
    BY <1>0, <1>1, <1>2
  <2>2. c[j] = IF j <= Len(a) THEN a[j] ELSE b[j - Len(a)]
    BY <2>1, <1>4 DEF c
  <2>3. CASE j < k
    <3>1. j \in 1..(k - 1) /\ j <= Len(a)
      BY <2>3, <1>0, <1>1
    <3> QED BY <3>1, <2>2, <2>3, <1>1
  <2>4. CASE j >= k
    <3>1. /\ j - Len(a) \in 1..(Len(q) - k) /\ ~(j <= Len(a)) /\ ~(j < k)
          /\ k + (j - Len(a)) = j + 1
      BY <2>4, <1>0, <1>1
    <3>2. c[j] = b[j - Len(a)]
      BY <3>1, <2>2
    <3> QED BY <3>1, <3>2, <1>2
  <2> QED BY <2>3, <2>4, <1>0
<1>6. c \in Seq(S) /\ Len(c) = Len(q) - 1
  BY <1>0, <1>1, <1>2, <1>4 DEF c
<1> QED BY <1>3, <1>5, <1>6 DEF c

(* Removing r from a duplicate-free queue leaves exactly the other requests. *)
LEMMA RemoveAtDuplicateFree ==
    ASSUME NEW S, NEW q \in Seq(S), NEW k \in 1..Len(q),
           DuplicateFree(q)
    PROVE  /\ DuplicateFree(RemoveAt(q, k))
           /\ \A x : Member(x, RemoveAt(q, k)) <=> (x # q[k] /\ Member(x, q))
<1> DEFINE p == RemoveAt(q, k)
<1>1. /\ Len(p) = Len(q) - 1
      /\ \A j \in 1..(Len(q) - 1) : p[j] = IF j < k THEN q[j] ELSE q[j + 1]
  BY RemoveAtElements
<1> HIDE DEF p
<1>0. Len(q) \in Nat /\ k \in Int
  OBVIOUS
<1>2. DuplicateFree(p)
  BY <1>0, <1>1 DEF DuplicateFree
<1>3. ASSUME NEW x, NEW i \in 1..Len(p), p[i] = x
      PROVE  x # q[k] /\ \E j \in 1..Len(q) : q[j] = x
  BY <1>0, <1>1, <1>3 DEF DuplicateFree
<1>4. ASSUME NEW x, x # q[k], NEW j \in 1..Len(q), q[j] = x
      PROVE  \E i \in 1..Len(p) : p[i] = x
  <2>1. CASE j < k
    BY <2>1, <1>0, <1>1, <1>4
  <2>2. CASE j > k
    <3>1. j - 1 \in 1..Len(p) /\ p[j - 1] = q[j]
      BY <2>2, <1>0, <1>1
    <3> QED BY <3>1, <1>4
  <2> QED BY <2>1, <2>2, <1>0, <1>4
<1> QED BY <1>2, <1>3, <1>4 DEF p, Member

(* Serving the head leaves exactly the other requests. *)
LEMMA TailDuplicateFree ==
    ASSUME NEW S, NEW q \in Seq(S), q # <<>>, DuplicateFree(q)
    PROVE  /\ Head(q) \in S /\ Member(Head(q), q)
           /\ Tail(q) \in Seq(S)
           /\ DuplicateFree(Tail(q))
           /\ \A x : Member(x, Tail(q)) <=> (x # Head(q) /\ Member(x, q))
<1> DEFINE p == Tail(q)
<1>1. /\ p \in Seq(S)
      /\ Len(p) = Len(q) - 1
      /\ \A i \in 1..(Len(q) - 1) : p[i] = q[i + 1]
      /\ Head(q) = q[1]
      /\ Len(q) \in Nat /\ Len(q) >= 1
  BY HeadTailProperties
<1> HIDE DEF p
<1>2. Head(q) \in S /\ Member(Head(q), q)
  BY <1>1 DEF Member
<1>3. DuplicateFree(p)
  BY <1>1 DEF DuplicateFree
<1>4. ASSUME NEW x, NEW i \in 1..Len(p), p[i] = x
      PROVE  x # Head(q) /\ Member(x, q)
  <2>1. i + 1 \in 1..Len(q) /\ q[i + 1] = x /\ i + 1 # 1 /\ 1 \in 1..Len(q)
    BY <1>1, <1>4
  <2> QED BY <2>1, <1>1 DEF DuplicateFree, Member
<1>5. ASSUME NEW x, x # Head(q), NEW i \in 1..Len(q), q[i] = x
      PROVE  Member(x, p)
  <2>1. i - 1 \in 1..(Len(q) - 1) /\ (i - 1) + 1 = i
    BY <1>1, <1>5
  <2>2. p[i - 1] = x /\ i - 1 \in 1..Len(p)
    BY <2>1, <1>1, <1>5
  <2> QED BY <2>2 DEF Member
<1> QED BY <1>1, <1>2, <1>3, <1>4, <1>5 DEF p, Member

(* A newcomer joins the others at the end. *)
LEMMA AppendDuplicateFree ==
    ASSUME NEW S, NEW q \in Seq(S), NEW r \in S, DuplicateFree(q), ~Member(r, q)
    PROVE  /\ Append(q, r) \in Seq(S)
           /\ DuplicateFree(Append(q, r))
           /\ \A x : Member(x, Append(q, r)) <=> (x = r \/ Member(x, q))
<1> DEFINE p == Append(q, r)
<1>1. /\ p \in Seq(S)
      /\ Len(p) = Len(q) + 1
      /\ \A i \in 1..Len(q) : p[i] = q[i]
      /\ p[Len(q) + 1] = r
      /\ Len(q) \in Nat
  BY AppendProperties
<1> HIDE DEF p
<1>2. DuplicateFree(p)
  BY <1>1 DEF DuplicateFree, Member
<1>3. \A x : Member(x, p) <=> (x = r \/ Member(x, q))
  BY <1>1 DEF Member
<1> QED BY <1>1, <1>2, <1>3 DEF p

(* A request is queued at most once: acquire() pushes one waiter per call. *)
NoDuplicates == DuplicateFree(waiters)

(* A release closure exists exactly for the promises that resolved. *)
ReleaseBuilt ==
    \A r \in Requests : release[r] # "unbuilt" <=> promise[r] = "granted"

(* The inductive invariant. *)
IInv ==
    /\ TypeOK
    /\ NoDuplicates
    /\ ReleaseBuilt
    /\ QueuedIsArmed
    /\ SlotsAccounted
    /\ NoIdleSlot

-----------------------------------------------------------------------------
(* The invariant, action by action *)

(* What each action does to the set of slot holders. *)
LEMMA HoldersStep ==
    ASSUME IInv, NEW r \in Requests
    PROVE  /\ AcquireFree(r) => r \notin Holders /\ Holders' = Holders \cup {r}
           /\ AcquireAborted(r) \/ AcquireQueued(r) => Holders' = Holders
           /\ Timeout(r) \/ Abort(r) => Holders' = Holders
<1> USE DEF IInv, TypeOK, Outcomes, Holders, Settle
<1>1. AcquireFree(r) => r \notin Holders /\ Holders' = Holders \cup {r}
  BY DEF AcquireFree
<1>2. AcquireAborted(r) \/ AcquireQueued(r) => Holders' = Holders
  BY DEF AcquireAborted, AcquireQueued
<1>3. Timeout(r) => Holders' = Holders
  <2> SUFFICES ASSUME Timeout(r) PROVE Holders' = Holders
    OBVIOUS
  <2>1. promise[r] = "pending"
    BY DEF Timeout, QueuedIsArmed
  <2> QED BY <2>1 DEF Timeout
<1>4. Abort(r) => Holders' = Holders
  <2> SUFFICES ASSUME Abort(r) PROVE Holders' = Holders
    OBVIOUS
  <2>1. listener[r] => promise[r] = "pending"
    BY DEF QueuedIsArmed
  <2> QED BY <2>1 DEF Abort
<1> QED BY <1>1, <1>2, <1>3, <1>4

(* A queued request is a request, its promise is pending, and it holds no slot. *)
LEMMA QueuedRequest ==
    ASSUME IInv, NEW i \in 1..Len(waiters)
    PROVE  /\ waiters[i] \in Requests
           /\ promise[waiters[i]] = "pending"
           /\ waiters[i] \notin Holders
<1>1. waiters[i] \in Requests
  BY DEF IInv, TypeOK
<1> QED BY <1>1 DEF IInv, QueuedIsArmed, Queued, Holders

(* The release of a live closure: with nobody waiting the slot becomes free,   *)
(* otherwise it passes to the head of the queue.                               *)
LEMMA ReleaseCases ==
    ASSUME IInv, NEW r \in Requests, Release(r), release[r] # "released"
    PROVE  /\ r \in Holders
           /\ \/ /\ waiters = <<>>
                 /\ inFlight' = inFlight - 1
                 /\ Holders' = Holders \ {r}
                 /\ release' = [release EXCEPT ![r] = "released"]
                 /\ UNCHANGED <<waiters, promise, timer, listener, aborted>>
              \/ /\ waiters # <<>>
                 /\ inFlight' = inFlight
                 /\ waiters' = Tail(waiters)
                 /\ Holders' = (Holders \ {r}) \cup {Head(waiters)}
                 /\ release' = [release EXCEPT ![r] = "released", ![Head(waiters)] = "live"]
                 /\ promise' = [promise EXCEPT ![Head(waiters)] = "granted"]
                 /\ timer' = [timer EXCEPT ![Head(waiters)] = FALSE]
                 /\ listener' = [listener EXCEPT ![Head(waiters)] = FALSE]
                 /\ UNCHANGED aborted
<1> USE DEF IInv, TypeOK, Outcomes
<1>1. /\ release[r] = "live" /\ promise[r] = "granted" /\ r \in Holders
      /\ Drain(inFlight - 1, [release EXCEPT ![r] = "released"])
      /\ UNCHANGED aborted
  BY DEF Release, Holders
<1>2. inFlight - 1 < MaxConcurrency
  BY SemaphoreAssumption
<1>3. CASE waiters = <<>>
  BY <1>1, <1>2, <1>3, SemaphoreAssumption DEF Drain, Holders
<1>4. CASE waiters # <<>>
  <2> DEFINE h == Head(waiters)
  <2>1. 1 \in 1..Len(waiters) /\ h = waiters[1]
    BY <1>4
  <2>2. h \in Requests /\ promise[h] = "pending" /\ h \notin Holders /\ h # r
    BY <2>1, <1>1, QueuedRequest
  <2>3. /\ inFlight' = (inFlight - 1) + 1
        /\ waiters' = Tail(waiters)
        /\ timer' = [timer EXCEPT ![h] = FALSE]
        /\ listener' = [listener EXCEPT ![h] = FALSE]
        /\ release' = [[release EXCEPT ![r] = "released"] EXCEPT ![h] = "live"]
        /\ promise' = [promise EXCEPT ![h] = "granted"]
    BY <1>1, <1>2, <1>4, <2>2, SemaphoreAssumption DEF Drain, Settle
  <2>4. Holders' = (Holders \ {r}) \cup {h}
    BY <2>2, <2>3, <1>1 DEF Holders
  <2> HIDE DEF h
  <2> QED BY <2>2, <2>3, <2>4, <1>1, <1>4 DEF h
<1> QED BY <1>3, <1>4, <1>1

(* A timed-out or aborted waiter is removed, and only it. *)
LEMMA RemoveWaiterStep ==
    ASSUME IInv, NEW r \in Requests, RemoveWaiter(r)
    PROVE  /\ waiters' \in Seq(Requests)
           /\ NoDuplicates'
           /\ \A x \in Requests : Queued(x)' <=> (x # r /\ Queued(x))
           /\ waiters' # <<>> => waiters # <<>>
<1> USE DEF IInv, TypeOK
<1>1. CASE ~Queued(r)
  <2>1. UNCHANGED waiters
    BY <1>1 DEF RemoveWaiter, Queued
  <2> QED BY <1>1, <2>1 DEF NoDuplicates, Queued
<1>2. CASE Queued(r)
  <2>1. PICK k \in 1..Len(waiters) : waiters[k] = r /\ waiters' = RemoveAt(waiters, k)
    BY <1>2 DEF RemoveWaiter
  <2>2. RemoveAt(waiters, k) \in Seq(Requests)
    BY RemoveAtElements
  <2>3. /\ DuplicateFree(RemoveAt(waiters, k))
        /\ \A x : Member(x, RemoveAt(waiters, k)) <=> (x # waiters[k] /\ Member(x, waiters))
    BY RemoveAtDuplicateFree DEF NoDuplicates
  <2>4. waiters # <<>>
    BY <2>1
  <2> QED BY <2>1, <2>2, <2>3, <2>4 DEF NoDuplicates, Queued, Member
<1> QED BY <1>1, <1>2

(* The head leaves the queue, the others stay. *)
LEMMA TailStep ==
    ASSUME IInv, waiters # <<>>, waiters' = Tail(waiters)
    PROVE  /\ waiters' \in Seq(Requests)
           /\ NoDuplicates'
           /\ \A x \in Requests : Queued(x)' <=> (x # Head(waiters) /\ Queued(x))
  BY TailDuplicateFree DEF IInv, TypeOK, NoDuplicates, Queued, Member

(* The new waiter is the last of the queue. *)
LEMMA AppendStep ==
    ASSUME IInv, NEW r \in Requests, ~Queued(r), waiters' = Append(waiters, r)
    PROVE  /\ waiters' \in Seq(Requests)
           /\ NoDuplicates'
           /\ \A x \in Requests : Queued(x)' <=> (x = r \/ Queued(x))
  BY AppendDuplicateFree DEF IInv, TypeOK, NoDuplicates, Queued, Member

(* Holders is finite, so its cardinality counts. *)
LEMMA HoldersFinite ==
    IsFiniteSet(Holders) /\ Cardinality(Holders) \in Nat
<1>1. Holders \subseteq Requests
  BY DEF Holders
<1> QED BY <1>1, SemaphoreAssumption, FS_Subset, FS_CardinalityType

(* The invariant holds of an idle backend.                                     *)
LEMMA InitInvariant == Init => IInv
<1> SUFFICES ASSUME Init PROVE IInv
  OBVIOUS
<1>1. Holders = {}
  BY DEF Init, Holders
<1>2. Cardinality({}) = 0
  BY FS_EmptySet
<1>3. waiters = <<>> /\ Len(waiters) = 0
  BY DEF Init
<1>4. TypeOK
  BY SemaphoreAssumption DEF Init, TypeOK, Outcomes
<1>5. QueuedIsArmed /\ NoDuplicates /\ ReleaseBuilt
  BY <1>3 DEF Init, QueuedIsArmed, NoDuplicates, ReleaseBuilt, Queued, DuplicateFree
<1> QED BY <1>1, <1>2, <1>3, <1>4, <1>5 DEF Init, IInv, SlotsAccounted, NoIdleSlot

(* The three ways through acquire keep it.                                     *)
LEMMA AcquireInvariant ==
    ASSUME IInv, NEW r \in Requests,
           AcquireFree(r) \/ AcquireAborted(r) \/ AcquireQueued(r)
    PROVE  IInv'
<1> USE DEF IInv
<1>1. CASE AcquireFree(r)
  <2>1. ~Queued(r) /\ waiters = <<>>
    BY <1>1, SemaphoreAssumption DEF AcquireFree, QueuedIsArmed, NoIdleSlot, TypeOK
  <2>2. Holders' = Holders \cup {r} /\ r \notin Holders
    BY <1>1, HoldersStep
  <2>3. SlotsAccounted'
    BY <1>1, <2>2, HoldersFinite, FS_AddElement DEF AcquireFree, SlotsAccounted
  <2>4. TypeOK'
    BY <1>1, SemaphoreAssumption DEF AcquireFree, TypeOK, Settle, Outcomes
  <2>5. QueuedIsArmed' /\ NoDuplicates' /\ ReleaseBuilt' /\ NoIdleSlot'
    BY <1>1, <2>1 DEF AcquireFree, TypeOK, Settle, QueuedIsArmed, NoDuplicates,
                      ReleaseBuilt, NoIdleSlot, Queued
  <2> QED BY <2>3, <2>4, <2>5
<1>2. CASE AcquireAborted(r)
  <2>1. Holders' = Holders
    BY <1>2, HoldersStep
  <2>2. TypeOK' /\ SlotsAccounted'
    BY <1>2, <2>1 DEF AcquireAborted, TypeOK, Settle, Outcomes, SlotsAccounted
  <2>3. QueuedIsArmed' /\ NoDuplicates' /\ ReleaseBuilt' /\ NoIdleSlot'
    BY <1>2 DEF AcquireAborted, TypeOK, Settle, QueuedIsArmed, NoDuplicates,
                ReleaseBuilt, NoIdleSlot, Queued
  <2> QED BY <2>2, <2>3
<1>3. CASE AcquireQueued(r)
  <2>1. ~Queued(r) /\ waiters' = Append(waiters, r) /\ inFlight' = inFlight
    BY <1>3 DEF AcquireQueued, QueuedIsArmed
  <2>2. /\ waiters' \in Seq(Requests) /\ NoDuplicates'
        /\ \A x \in Requests : Queued(x)' <=> (x = r \/ Queued(x))
    BY <2>1, AppendStep
  <2>3. Holders' = Holders
    BY <1>3, HoldersStep
  <2>4. inFlight = MaxConcurrency
    BY <1>3, SemaphoreAssumption DEF AcquireQueued, TypeOK
  <2>5. TypeOK' /\ SlotsAccounted' /\ NoIdleSlot'
    BY <1>3, <2>2, <2>3, <2>4
       DEF AcquireQueued, TypeOK, Settle, Outcomes, SlotsAccounted, NoIdleSlot
  <2>6. QueuedIsArmed' /\ ReleaseBuilt'
    BY <1>3, <2>2 DEF AcquireQueued, TypeOK, Settle, QueuedIsArmed, ReleaseBuilt
  <2> QED BY <2>2, <2>5, <2>6
<1> QED BY <1>1, <1>2, <1>3

(* A waiter that leaves, by its timer or its signal, keeps it.                 *)
LEMMA GiveUpInvariant ==
    ASSUME IInv, NEW r \in Requests, Timeout(r) \/ Abort(r)
    PROVE  IInv'
<1> USE DEF IInv
<1>1. Holders' = Holders /\ inFlight' = inFlight
  BY HoldersStep DEF Timeout, Abort
<1>2. CASE Timeout(r) \/ (Abort(r) /\ listener[r])
  <2>1. RemoveWaiter(r) /\ promise[r] = "pending"
    BY <1>2 DEF Timeout, Abort, QueuedIsArmed
  <2>2. /\ waiters' \in Seq(Requests) /\ NoDuplicates'
        /\ \A x \in Requests : Queued(x)' <=> (x # r /\ Queued(x))
        /\ waiters' # <<>> => waiters # <<>>
    BY <2>1, RemoveWaiterStep
  <2>3. /\ timer' = [timer EXCEPT ![r] = FALSE]
        /\ listener' = [listener EXCEPT ![r] = FALSE]
        /\ \/ promise' = [promise EXCEPT ![r] = "saturated"]
           \/ promise' = [promise EXCEPT ![r] = "aborted"]
        /\ release' = release
        /\ aborted' \in [Requests -> BOOLEAN]
    BY <1>2, <2>1 DEF Timeout, Abort, Settle, TypeOK
  <2>4. TypeOK' /\ SlotsAccounted' /\ NoIdleSlot'
    BY <1>1, <2>2, <2>3 DEF TypeOK, Outcomes, SlotsAccounted, NoIdleSlot
  <2>5. QueuedIsArmed' /\ ReleaseBuilt'
    BY <2>1, <2>2, <2>3 DEF TypeOK, QueuedIsArmed, ReleaseBuilt
  <2> QED BY <2>2, <2>4, <2>5
<1>3. CASE Abort(r) /\ ~listener[r]
  <2>1. UNCHANGED <<inFlight, waiters, promise, release, timer, listener>>
        /\ aborted' \in [Requests -> BOOLEAN]
    BY <1>3 DEF Abort, TypeOK
  <2> QED BY <1>1, <2>1 DEF TypeOK, SlotsAccounted, NoIdleSlot, QueuedIsArmed,
                            ReleaseBuilt, NoDuplicates, Queued
<1> QED BY <1>2, <1>3

(* A release keeps it, whether or not a waiter takes the slot over.            *)
LEMMA ReleaseInvariant ==
    ASSUME IInv, NEW r \in Requests, Release(r)
    PROVE  IInv'
<1> USE DEF IInv
<1>1. CASE release[r] = "released"
  <2>1. UNCHANGED vars
    BY <1>1 DEF Release
  <2> QED BY <2>1 DEF vars, TypeOK, SlotsAccounted, NoIdleSlot, QueuedIsArmed,
                      ReleaseBuilt, NoDuplicates, Queued, Holders
<1>2. CASE release[r] # "released"
  <2>1. /\ r \in Holders /\ promise[r] = "granted" /\ release[r] = "live"
        /\ Cardinality(Holders \ {r}) = Cardinality(Holders) - 1
        /\ IsFiniteSet(Holders \ {r})
    BY <1>2, ReleaseCases, HoldersFinite, FS_RemoveElement DEF Holders
  <2>2. CASE waiters = <<>>
    <3>1. /\ inFlight' = inFlight - 1
          /\ Holders' = Holders \ {r}
          /\ release' = [release EXCEPT ![r] = "released"]
          /\ UNCHANGED <<waiters, promise, timer, listener, aborted>>
      BY <1>2, <2>2, ReleaseCases
    <3>2. SlotsAccounted' /\ NoIdleSlot'
      BY <2>1, <2>2, <3>1 DEF SlotsAccounted, NoIdleSlot
    <3>3. inFlight \in Nat /\ inFlight # 0
      BY <2>1, HoldersFinite, FS_EmptySet DEF SlotsAccounted, TypeOK
    <3>4. TypeOK'
      BY <3>1, <3>3, SemaphoreAssumption DEF TypeOK
    <3>5. QueuedIsArmed' /\ ReleaseBuilt' /\ NoDuplicates'
      BY <2>1, <3>1 DEF TypeOK, QueuedIsArmed, ReleaseBuilt, NoDuplicates, Queued
    <3> QED BY <3>2, <3>4, <3>5
  <2>3. CASE waiters # <<>>
    <3> DEFINE h == Head(waiters)
    <3>1. /\ inFlight' = inFlight
          /\ waiters' = Tail(waiters)
          /\ Holders' = (Holders \ {r}) \cup {h}
          /\ release' = [release EXCEPT ![r] = "released", ![h] = "live"]
          /\ promise' = [promise EXCEPT ![h] = "granted"]
          /\ timer' = [timer EXCEPT ![h] = FALSE]
          /\ listener' = [listener EXCEPT ![h] = FALSE]
          /\ UNCHANGED aborted
      BY <1>2, <2>3, ReleaseCases
    <3>2. 1 \in 1..Len(waiters) /\ h = waiters[1]
      BY <2>3 DEF TypeOK
    <3>3. h \in Requests /\ promise[h] = "pending" /\ h \notin Holders /\ h # r
      BY <2>1, <3>2, QueuedRequest
    <3>4. /\ waiters' \in Seq(Requests) /\ NoDuplicates'
          /\ \A x \in Requests : Queued(x)' <=> (x # h /\ Queued(x))
      BY <2>3, <3>1, TailStep
    <3> HIDE DEF h
    <3>5. SlotsAccounted'
      <4>1. h \notin Holders \ {r}
        BY <3>3
      <4>2. Cardinality((Holders \ {r}) \cup {h}) = Cardinality(Holders)
        <5>1. Cardinality((Holders \ {r}) \cup {h}) = Cardinality(Holders \ {r}) + 1
          BY <2>1, <4>1, FS_AddElement, ZenonT(30)
        <5> QED BY <5>1, <2>1, HoldersFinite
      <4> QED BY <3>1, <4>2 DEF SlotsAccounted
    <3>6. TypeOK' /\ NoIdleSlot'
      BY <2>3, <3>1, <3>3, <3>4 DEF TypeOK, Outcomes, NoIdleSlot
    <3>7. QueuedIsArmed' /\ ReleaseBuilt'
      BY <2>1, <3>1, <3>3, <3>4 DEF TypeOK, QueuedIsArmed, ReleaseBuilt
    <3> QED BY <3>4, <3>5, <3>6, <3>7
  <2> QED BY <2>2, <2>3
<1> QED BY <1>1, <1>2

(* The invariant holds in every reachable state. *)
THEOREM Invariance == Spec => []IInv
<1>1. IInv /\ [Next]_vars => IInv'
  <2> SUFFICES ASSUME IInv, [Next]_vars PROVE IInv'
    OBVIOUS
  <2>1. ASSUME NEW r \in Requests,
               AcquireFree(r) \/ AcquireAborted(r) \/ AcquireQueued(r)
        PROVE  IInv'
    BY <2>1, AcquireInvariant
  <2>2. ASSUME NEW r \in Requests, Timeout(r) \/ Abort(r)
        PROVE  IInv'
    BY <2>2, GiveUpInvariant
  <2>3. ASSUME NEW r \in Requests, Release(r)
        PROVE  IInv'
    BY <2>3, ReleaseInvariant
  <2>4. CASE UNCHANGED vars
    BY <2>4 DEF vars, IInv, TypeOK, SlotsAccounted, NoIdleSlot, QueuedIsArmed,
                ReleaseBuilt, NoDuplicates, Queued, Holders
  <2> QED BY <2>1, <2>2, <2>3, <2>4 DEF Next
<1> QED BY <1>1, InitInvariant, PTL DEF Spec

(* TypeOK: the counter never leaves 0..maxConcurrency. *)
THEOREM TypeCorrect == Spec => []TypeOK
<1>1. IInv => TypeOK
  BY DEF IInv
<1> QED BY <1>1, Invariance, PTL

(* SlotsAndWaiters: no slot leaks and none is given out twice, a request waits *)
(* only while every slot is in use, and timers and listeners belong to queued  *)
(* requests only.                                                              *)
THEOREM NoSlotLeaks == Spec => []SlotsAndWaiters
<1>1. IInv => SlotsAndWaiters
  BY DEF IInv, SlotsAndWaiters
<1> QED BY <1>1, Invariance, PTL

-----------------------------------------------------------------------------
(* ImplementsSlotService: every step of the semaphore is a step of the slot   *)
(* service or leaves its holders and its queue alone.                         *)
THEOREM Refinement == Spec => ImplementsSlotService
<1> DEFINE AbsNext == [Slots!Next]_(Slots!slotVars)
<1>1. Init => Slots!Init
  BY DEF Init, Slots!Init, Holders
<1>2. IInv /\ [Next]_vars => AbsNext
  <2> SUFFICES ASSUME IInv, [Next]_vars PROVE AbsNext
    OBVIOUS
  <2> USE DEF Slots!slotVars
  <2>1. ASSUME NEW r \in Requests, AcquireFree(r)
        PROVE  AbsNext
    <3>1. r \notin Holders /\ Holders' = Holders \cup {r} /\ UNCHANGED waiters
      BY <2>1, HoldersStep DEF AcquireFree
    <3>2. waiters = <<>> /\ Cardinality(Holders) < MaxConcurrency
      BY <2>1, SemaphoreAssumption
         DEF AcquireFree, IInv, TypeOK, NoIdleSlot, SlotsAccounted
    <3>3. Slots!Take(r)
      BY <3>1, <3>2 DEF Slots!Take, Slots!Cardinality, Cardinality
    <3> QED BY <3>3 DEF Slots!Next
  <2>2. ASSUME NEW r \in Requests, AcquireAborted(r)
        PROVE  AbsNext
    BY <2>2, HoldersStep DEF AcquireAborted
  <2>3. ASSUME NEW r \in Requests, AcquireQueued(r)
        PROVE  AbsNext
    <3>1. Holders' = Holders /\ waiters' = Append(waiters, r) /\ r \notin Holders
      BY <2>3, HoldersStep DEF AcquireQueued, Holders
    <3>2. Cardinality(Holders) = MaxConcurrency
      BY <2>3, SemaphoreAssumption DEF AcquireQueued, IInv, TypeOK, SlotsAccounted
    <3>3. Slots!Wait(r)
      BY <3>1, <3>2 DEF Slots!Wait, Slots!Cardinality, Cardinality
    <3> QED BY <3>3 DEF Slots!Next
  <2>4. ASSUME NEW r \in Requests, Timeout(r) \/ Abort(r)
        PROVE  AbsNext
    <3>1. Holders' = Holders
      BY <2>4, HoldersStep
    <3>2. \/ UNCHANGED waiters
          \/ \E i \in 1..Len(waiters) : waiters[i] = r /\ waiters' = RemoveAt(waiters, i)
      BY <2>4 DEF Timeout, Abort, RemoveWaiter
    <3>3. UNCHANGED waiters \/ Slots!GiveUp(r)
      BY <3>1, <3>2 DEF Slots!GiveUp, Slots!RemoveAt, RemoveAt
    <3> QED BY <3>1, <3>3 DEF Slots!Next
  <2>5. ASSUME NEW r \in Requests, Release(r)
        PROVE  AbsNext
    <3>1. CASE release[r] = "released"
      <4>1. UNCHANGED <<waiters, Holders>>
        BY <2>5, <3>1 DEF Release, vars, Holders
      <4> QED BY <4>1
    <3>2. CASE release[r] # "released"
      <4>1. Slots!Return(r)
        BY <2>5, <3>2, ReleaseCases DEF Slots!Return
      <4> QED BY <4>1 DEF Slots!Next
    <3> QED BY <3>1, <3>2
  <2>6. CASE UNCHANGED vars
    BY <2>6 DEF vars, Holders
  <2> QED BY <2>1, <2>2, <2>3, <2>4, <2>5, <2>6 DEF Next
<1> QED BY <1>1, <1>2, Invariance, PTL DEF Spec, ImplementsSlotService, Slots!Spec
=============================================================================
