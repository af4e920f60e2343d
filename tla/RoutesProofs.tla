---------------------------- MODULE RoutesProofs -----------------------------
(* Theorems about Routes for any number of requests and slots: slots follow    *)
(* the work, a request leaves one row, one consistent account of itself, and   *)
(* no listener.                                                                *)
EXTENDS Routes, SequencesExt, SequenceTheorems, TLAPS

(* Queues whose members are all different, and what happens to the members    *)
(* when one joins, leaves from any place or is served.                         *)
DuplicateFree(q) == \A i, j \in 1..Len(q) : q[i] = q[j] => i = j
Member(x, q) == \E i \in 1..Len(q) : q[i] = x

(* Removing one position keeps the others, in order. *)
LEMMA RemoveAtElements ==
    ASSUME NEW S, NEW q \in Seq(S), NEW k \in 1..Len(q)
    PROVE  /\ RemoveAt(q, k) \in Seq(S)
           /\ Len(RemoveAt(q, k)) = Len(q) - 1
           /\ \A j \in 1..(Len(q) - 1) :
                RemoveAt(q, k)[j] = IF j < k THEN q[j] ELSE q[j + 1]
<1> DEFINE a == SubSeq(q, 1, k - 1)
           b == SubSeq(q, k + 1, Len(q))
<1>0. Len(q) \in Nat /\ k \in Int
  OBVIOUS
<1>1. a \in Seq(S) /\ Len(a) = k - 1 /\ \A j \in 1..(k - 1) : a[j] = q[j]
  BY SubSeqProperties
<1>2. b \in Seq(S) /\ Len(b) = Len(q) - k /\ \A j \in 1..(Len(q) - k) : b[j] = q[k + j]
  BY SubSeqProperties
<1>3. RemoveAt(q, k) = a \o b
  BY DEF RemoveAt
<1> HIDE DEF a, b
<1>4. /\ a \o b \in Seq(S)
      /\ Len(a \o b) = Len(a) + Len(b)
      /\ \A j \in 1..(Len(a) + Len(b)) :
            (a \o b)[j] = IF j <= Len(a) THEN a[j] ELSE b[j - Len(a)]
  BY <1>1, <1>2, ConcatProperties, ZenonT(30)
<1> DEFINE c == a \o b
<1> HIDE DEF c
<1>5. ASSUME NEW j \in 1..(Len(q) - 1)
      PROVE  c[j] = IF j < k THEN q[j] ELSE q[j + 1]
  <2>1. Len(a) + Len(b) = Len(q) - 1
    BY <1>0, <1>1, <1>2
  <2>2. c[j] = IF j <= Len(a) THEN a[j] ELSE b[j - Len(a)]
    BY <2>1, <1>4 DEF c
  <2>3. CASE j < k
    <3>1. j \in 1..(k - 1) /\ j <= Len(a)
      BY <2>3, <1>0, <1>1
    <3> QED BY <3>1, <2>2, <2>3, <1>1
  <2>4. CASE j >= k
    <3>1. /\ j - Len(a) \in 1..(Len(q) - k) /\ ~(j <= Len(a)) /\ ~(j < k)
          /\ k + (j - Len(a)) = j + 1
      BY <2>4, <1>0, <1>1
    <3>2. c[j] = b[j - Len(a)]
      BY <3>1, <2>2
    <3> QED BY <3>1, <3>2, <1>2
  <2> QED BY <2>3, <2>4, <1>0
<1>6. c \in Seq(S) /\ Len(c) = Len(q) - 1
  BY <1>0, <1>1, <1>2, <1>4 DEF c
<1> QED BY <1>3, <1>5, <1>6 DEF c

(* Removing r from a duplicate-free queue leaves exactly the other requests. *)
LEMMA RemoveAtDuplicateFree ==
    ASSUME NEW S, NEW q \in Seq(S), NEW k \in 1..Len(q),
           DuplicateFree(q)
    PROVE  /\ DuplicateFree(RemoveAt(q, k))
           /\ \A x : Member(x, RemoveAt(q, k)) <=> (x # q[k] /\ Member(x, q))
<1> DEFINE p == RemoveAt(q, k)
<1>1. /\ Len(p) = Len(q) - 1
      /\ \A j \in 1..(Len(q) - 1) : p[j] = IF j < k THEN q[j] ELSE q[j + 1]
  BY RemoveAtElements
<1> HIDE DEF p
<1>0. Len(q) \in Nat /\ k \in Int
  OBVIOUS
<1>2. DuplicateFree(p)
  BY <1>0, <1>1 DEF DuplicateFree
<1>3. ASSUME NEW x, NEW i \in 1..Len(p), p[i] = x
      PROVE  x # q[k] /\ \E j \in 1..Len(q) : q[j] = x
  BY <1>0, <1>1, <1>3 DEF DuplicateFree
<1>4. ASSUME NEW x, x # q[k], NEW j \in 1..Len(q), q[j] = x
      PROVE  \E i \in 1..Len(p) : p[i] = x
  <2>1. CASE j < k
    BY <2>1, <1>0, <1>1, <1>4
  <2>2. CASE j > k
    <3>1. j - 1 \in 1..Len(p) /\ p[j - 1] = q[j]
      BY <2>2, <1>0, <1>1
    <3> QED BY <3>1, <1>4
  <2> QED BY <2>1, <2>2, <1>0, <1>4
<1> QED BY <1>2, <1>3, <1>4 DEF p, Member

(* Serving the head leaves exactly the other requests. *)
LEMMA TailDuplicateFree ==
    ASSUME NEW S, NEW q \in Seq(S), q # <<>>, DuplicateFree(q)
    PROVE  /\ Head(q) \in S /\ Member(Head(q), q)
           /\ Tail(q) \in Seq(S)
           /\ DuplicateFree(Tail(q))
           /\ \A x : Member(x, Tail(q)) <=> (x # Head(q) /\ Member(x, q))
<1> DEFINE p == Tail(q)
<1>1. /\ p \in Seq(S)
      /\ Len(p) = Len(q) - 1
      /\ \A i \in 1..(Len(q) - 1) : p[i] = q[i + 1]
      /\ Head(q) = q[1]
      /\ Len(q) \in Nat /\ Len(q) >= 1
  BY HeadTailProperties
<1> HIDE DEF p
<1>2. Head(q) \in S /\ Member(Head(q), q)
  BY <1>1 DEF Member
<1>3. DuplicateFree(p)
  BY <1>1 DEF DuplicateFree
<1>4. ASSUME NEW x, NEW i \in 1..Len(p), p[i] = x
      PROVE  x # Head(q) /\ Member(x, q)
  <2>1. i + 1 \in 1..Len(q) /\ q[i + 1] = x /\ i + 1 # 1 /\ 1 \in 1..Len(q)
    BY <1>1, <1>4
  <2> QED BY <2>1, <1>1 DEF DuplicateFree, Member
<1>5. ASSUME NEW x, x # Head(q), NEW i \in 1..Len(q), q[i] = x
      PROVE  Member(x, p)
  <2>1. i - 1 \in 1..(Len(q) - 1) /\ (i - 1) + 1 = i
    BY <1>1, <1>5
  <2>2. p[i - 1] = x /\ i - 1 \in 1..Len(p)
    BY <2>1, <1>1, <1>5
  <2> QED BY <2>2 DEF Member
<1> QED BY <1>1, <1>2, <1>3, <1>4, <1>5 DEF p, Member

(* A newcomer joins the others at the end. *)
LEMMA AppendDuplicateFree ==
    ASSUME NEW S, NEW q \in Seq(S), NEW r \in S, DuplicateFree(q), ~Member(r, q)
    PROVE  /\ Append(q, r) \in Seq(S)
           /\ DuplicateFree(Append(q, r))
           /\ \A x : Member(x, Append(q, r)) <=> (x = r \/ Member(x, q))
<1> DEFINE p == Append(q, r)
<1>1. /\ p \in Seq(S)
      /\ Len(p) = Len(q) + 1
      /\ \A i \in 1..Len(q) : p[i] = q[i]
      /\ p[Len(q) + 1] = r
      /\ Len(q) \in Nat
  BY AppendProperties
<1> HIDE DEF p
<1>2. DuplicateFree(p)
  BY <1>1 DEF DuplicateFree, Member
<1>3. \A x : Member(x, p) <=> (x = r \/ Member(x, q))
  BY <1>1 DEF Member
<1> QED BY <1>1, <1>2, <1>3 DEF p

(* The waiters of the slot service are distinct and hold no slot. *)
SlotsOK == DuplicateFree(queue) /\ \A x \in Requests : Waiting(x) => x \notin holders

(* What a request has told the others before it is finished: nothing, but for  *)
(* the verdict on a call that was answered.                                    *)
NothingSaid(r) ==
    /\ rows[r] = <<>> /\ marker[r] = "none" /\ ~turns[r]
    /\ verdicts[r] = IF pc[r] = "publishing" THEN <<"success">> ELSE <<>>

(* ... and once it is. *)
AllSaid(r) ==
    /\ \E class \in Classes : rows[r] = <<class>>
    /\ role[r] = "leader" => Agree(r)
    /\ role[r] # "none" => ~listening[r]

(* A tool call is never in the places the routes wait at, and what its end has *)
(* told the others is settled.                                                 *)
ToolSaid(r) ==
    /\ rows[r] = <<"success">> =>
            verdicts[r] = IF surface[r] = "chat_completion" THEN <<>> ELSE <<"success">>
    /\ rows[r] = <<"error">> => verdicts[r] \in {<<>>, <<"failure">>}
    /\ rows[r] = <<"disconnect">> <=> aborted[r]
    /\ marker[r] = "none" /\ ~turns[r]

ToolAccount(r) ==
    surface[r] \in ToolSurfaces =>
        /\ role[r] = "none" /\ pc[r] \in {"idle", "preflight", "tooling", "ended"}
        /\ pc[r] = "ended" => ToolSaid(r)

Account(r) ==
    /\ ToolAccount(r)
    /\ pc[r] \in {"idle", "preflight", "acquiring", "tooling"} => role[r] = "none"
    /\ pc[r] = "publishing" /\ surface[r] # "embeddings" => ~listening[r]
    /\ pc[r] = "following" => role[r] = "follower"
    /\ pc[r] \in {"queued", "calling", "publishing"} => role[r] = "leader"
    /\ ~Finished(r) => NothingSaid(r)
    /\ Finished(r) => AllSaid(r)

Accounts == \A r \in Requests : Account(r)

(* The inductive invariant. *)
IInv == TypeOK /\ SlotsOK /\ SlotsFollowWork /\ Accounts

Places ==
    {"idle", "preflight", "acquiring", "queued", "calling", "publishing", "following", "tooling", "ended"}

(* A step of r changes r's own variables and nobody else's, and keeps them in  *)
(* their types.                                                                *)
Framed(r) ==
    /\ surface' = surface /\ stream' = stream
    /\ role' = [role EXCEPT ![r] = role'[r]]
    /\ pc' = [pc EXCEPT ![r] = pc'[r]]
    /\ pump' = [pump EXCEPT ![r] = pump'[r]]
    /\ connected' = [connected EXCEPT ![r] = connected'[r]]
    /\ listening' = [listening EXCEPT ![r] = listening'[r]]
    /\ aborted' = [aborted EXCEPT ![r] = aborted'[r]]
    /\ generating' = [generating EXCEPT ![r] = generating'[r]]

Reported(r) ==
    /\ rows' = [rows EXCEPT ![r] = rows'[r]]
    /\ verdicts' = [verdicts EXCEPT ![r] = verdicts'[r]]
    /\ marker' = [marker EXCEPT ![r] = marker'[r]]
    /\ turns' = [turns EXCEPT ![r] = turns'[r]]

ControlTyped(r) ==
    /\ role'[r] \in {"none", "leader", "follower"}
    /\ pc'[r] \in Places
    /\ pump'[r] \in {"none", "flowing", "ended"}
    /\ pump'[r] # "none" => stream[r] /\ pc'[r] = "ended"
    /\ connected'[r] \in BOOLEAN /\ listening'[r] \in BOOLEAN
    /\ aborted'[r] \in BOOLEAN /\ generating'[r] \in BOOLEAN

ReportTyped(r) ==
    /\ rows'[r] = <<>> \/ \E class \in Classes : rows'[r] = <<class>>
    /\ \/ verdicts'[r] = <<>>
       \/ \E outcome \in {"success", "failure"} : verdicts'[r] = <<outcome>>
    /\ marker'[r] \in {"none", "done", "error", "aborted"}
    /\ turns'[r] \in BOOLEAN

(* What other requests see of it. *)
Alone(r) ==
    \A x \in Requests \ {r} :
        /\ surface'[x] = surface[x] /\ stream'[x] = stream[x] /\ role'[x] = role[x] /\ pc'[x] = pc[x] /\ pump'[x] = pump[x]
        /\ listening'[x] = listening[x] /\ aborted'[x] = aborted[x]
        /\ rows'[x] = rows[x] /\ verdicts'[x] = verdicts[x]
        /\ marker'[x] = marker[x] /\ turns'[x] = turns[x]

-----------------------------------------------------------------------------
(* The slot service *)

(* Waiting for a slot is membership of the queue.                              *)
LEMMA WaitingIsMember == \A x : Waiting(x) <=> Member(x, queue)
  BY DEF Waiting, Member

(* A request served at once takes a slot and passes nobody.                    *)
LEMMA TakeEffect ==
    ASSUME TypeOK, SlotsOK, NEW r \in Requests, Slots!Take(r)
    PROVE  /\ holders' = holders \cup {r} /\ queue' = queue /\ ~Waiting(r)
           /\ SlotsOK'
           /\ \A x \in Requests : Waiting(x)' <=> Waiting(x)
<1>1. /\ r \notin holders /\ queue = <<>>
      /\ holders' = holders \cup {r} /\ queue' = queue
  BY DEF Slots!Take
<1>2. Len(queue) = 0 /\ Len(queue') = 0
  BY <1>1
<1>3. \A x \in Requests : ~Waiting(x) /\ ~Waiting(x)'
  BY <1>2 DEF Waiting
<1> QED
  BY <1>1, <1>2, <1>3 DEF SlotsOK, DuplicateFree

(* A request that waits joins the queue and holds nothing.                     *)
LEMMA WaitEffect ==
    ASSUME TypeOK, SlotsOK, NEW r \in Requests, Slots!Wait(r), ~Waiting(r)
    PROVE  /\ holders' = holders /\ queue' \in Seq(Requests) /\ r \notin holders
           /\ SlotsOK'
           /\ \A x \in Requests : Waiting(x)' <=> (x = r \/ Waiting(x))
<1>1. r \notin holders /\ holders' = holders /\ queue' = Append(queue, r)
  BY DEF Slots!Wait
<1>2. queue \in Seq(Requests) /\ DuplicateFree(queue) /\ ~Member(r, queue)
  BY WaitingIsMember DEF TypeOK, SlotsOK
<1>3. /\ queue' \in Seq(Requests) /\ DuplicateFree(queue')
      /\ \A x : Member(x, queue') <=> (x = r \/ Member(x, queue))
  BY <1>1, <1>2, AppendDuplicateFree
<1>4. \A x \in Requests : Waiting(x)' <=> (x = r \/ Waiting(x))
  BY <1>3 DEF Waiting, Member
<1> QED
  BY <1>1, <1>3, <1>4 DEF SlotsOK

(* A request that gives up leaves the queue, and only it does.                 *)
LEMMA GiveUpEffect ==
    ASSUME TypeOK, SlotsOK, NEW r \in Requests, Slots!GiveUp(r)
    PROVE  /\ holders' = holders /\ queue' \in Seq(Requests) /\ r \notin holders
           /\ SlotsOK'
           /\ \A x \in Requests : Waiting(x)' <=> (x # r /\ Waiting(x))
<1>1. PICK k \in 1..Len(queue) : queue[k] = r /\ queue' = RemoveAt(queue, k)
  BY DEF Slots!GiveUp, Slots!RemoveAt, RemoveAt
<1>2. holders' = holders
  BY DEF Slots!GiveUp
<1>3. queue \in Seq(Requests) /\ DuplicateFree(queue)
  BY DEF TypeOK, SlotsOK
<1>4. /\ queue' \in Seq(Requests) /\ DuplicateFree(queue')
      /\ \A x : Member(x, queue') <=> (x # r /\ Member(x, queue))
  BY <1>1, <1>3, RemoveAtElements, RemoveAtDuplicateFree
<1>5. \A x \in Requests : Waiting(x)' <=> (x # r /\ Waiting(x))
  BY <1>4 DEF Waiting, Member
<1>6. Waiting(r)
  BY <1>1 DEF Waiting
<1> QED
  BY <1>2, <1>4, <1>5, <1>6 DEF SlotsOK

(* A release takes the slot from r, gives it at most to a waiter, and takes    *)
(* that one out of the queue.                                                  *)
LEMMA ReleaseEffect ==
    ASSUME TypeOK, SlotsOK, NEW r \in Requests, SafeRelease(r)
    PROVE  /\ holders' \subseteq Requests /\ queue' \in Seq(Requests)
           /\ SlotsOK'
           /\ r \notin holders'
           /\ \A x \in Requests :
                /\ x # r /\ x \in holders => x \in holders'
                /\ x \in holders' => x \in holders \/ Waiting(x)
                /\ Waiting(x)' => Waiting(x)
<1>0. holders \subseteq Requests /\ queue \in Seq(Requests) /\ DuplicateFree(queue)
  BY DEF TypeOK, SlotsOK
<1>1. CASE r \notin holders
  <2>1. holders' = holders /\ queue' = queue
    BY <1>1 DEF SafeRelease, slots
  <2>2. \A x \in Requests : Waiting(x)' <=> Waiting(x)
    BY <2>1 DEF Waiting
  <2> QED
    BY <1>0, <1>1, <2>1, <2>2 DEF SlotsOK
<1>2. CASE r \in holders /\ queue = <<>>
  <2>1. holders' = holders \ {r} /\ queue' = queue
    BY <1>2 DEF SafeRelease, Slots!Return
  <2>2. \A x \in Requests : Waiting(x)' <=> Waiting(x)
    BY <2>1 DEF Waiting
  <2> QED
    BY <1>0, <2>1, <2>2 DEF SlotsOK
<1>3. CASE r \in holders /\ queue # <<>>
  <2> DEFINE h == Head(queue)
  <2>1. holders' = (holders \ {r}) \cup {h} /\ queue' = Tail(queue)
    BY <1>3 DEF SafeRelease, Slots!Return
  <2>2. /\ h \in Requests /\ Member(h, queue)
        /\ queue' \in Seq(Requests) /\ DuplicateFree(queue')
        /\ \A x : Member(x, queue') <=> (x # h /\ Member(x, queue))
    BY <1>0, <1>3, <2>1, TailDuplicateFree
  <2> HIDE DEF h
  <2>3. Waiting(h) /\ h \notin holders
    BY <2>2, WaitingIsMember DEF SlotsOK
  <2>4. \A x \in Requests : Waiting(x)' <=> (x # h /\ Waiting(x))
    BY <2>2 DEF Waiting, Member
  <2> QED
    BY <1>0, <1>3, <2>1, <2>2, <2>3, <2>4 DEF SlotsOK
<1> QED
  BY <1>1, <1>2, <1>3

-----------------------------------------------------------------------------
(* One request's step and the invariant *)

(* A step of r keeps the invariant if it keeps r's account and the slots.      *)
LEMMA Lift ==
    ASSUME IInv, NEW r \in Requests, Alone(r),
           TypeOK', SlotsOK', SlotsFollowWork', Account(r)'
    PROVE  IInv'
<1>1. ASSUME NEW x \in Requests, x # r
      PROVE  Account(x)'
  <2>1. Account(x)
    BY DEF IInv, Accounts
  <2>2. x \in Requests \ {r}
    BY <1>1
  <2>3. Finished(x)' <=> Finished(x)
    BY <2>2 DEF Alone, Finished
  <2>4. NothingSaid(x)' <=> NothingSaid(x)
    BY <2>2 DEF Alone, NothingSaid
  <2>5. AllSaid(x)' <=> AllSaid(x)
    BY <2>2 DEF Alone, AllSaid, Agree, MayBeSilent, Streams
  <2>6. ToolAccount(x)' <=> ToolAccount(x)
    BY <2>2 DEF Alone, ToolAccount, ToolSaid
  <2> QED
    BY <2>1, <2>2, <2>3, <2>4, <2>5, <2>6 DEF Alone, Account
<1> QED
  BY <1>1 DEF IInv, Accounts

(* Whether another request works is not r's to change. *)
LEMMA OthersWork ==
    ASSUME NEW r \in Requests, Alone(r)
    PROVE  \A x \in Requests : x # r => (Working(x)' <=> Working(x)) /\ pc'[x] = pc[x]
  BY DEF Alone, Working

(* The slots stay where they are: r's new place must agree with them. *)
LEMMA SlotsStay ==
    ASSUME IInv, NEW r \in Requests, Alone(r), UNCHANGED slots,
           /\ Working(r)' => r \in holders
           /\ r \in holders => Working(r)' \/ pc'[r] = "queued"
           /\ Waiting(r) => pc'[r] = "queued"
    PROVE  SlotsOK' /\ SlotsFollowWork'
<1>1. holders' = holders /\ queue' = queue /\ \A x \in Requests : Waiting(x)' <=> Waiting(x)
  BY DEF slots, Waiting
<1>2. SlotsOK'
  BY <1>1 DEF IInv, SlotsOK
<1>3. SlotsFollowWork'
  BY <1>1, OthersWork DEF IInv, SlotsFollowWork
<1> QED
  BY <1>2, <1>3

(* r lets its slot go. *)
LEMMA SlotGoes ==
    ASSUME IInv, NEW r \in Requests, Alone(r), SafeRelease(r), ~Waiting(r), ~Working(r)'
    PROVE  /\ SlotsOK' /\ SlotsFollowWork'
           /\ holders' \subseteq Requests /\ queue' \in Seq(Requests)
<1>1. /\ holders' \subseteq Requests /\ queue' \in Seq(Requests)
      /\ SlotsOK'
      /\ r \notin holders'
      /\ \A x \in Requests :
            /\ x # r /\ x \in holders => x \in holders'
            /\ x \in holders' => x \in holders \/ Waiting(x)
            /\ Waiting(x)' => Waiting(x)
  BY ReleaseEffect DEF IInv
<1>2. ~Waiting(r)'
  BY <1>1
<1>3. ASSUME NEW x \in Requests, x # r
      PROVE  /\ Working(x)' => x \in holders'
             /\ x \in holders' => Working(x)' \/ pc'[x] = "queued"
             /\ Waiting(x)' => pc'[x] = "queued" /\ x \notin holders'
  <2>1. pc'[x] = pc[x] /\ (Working(x)' <=> Working(x))
    BY <1>3, OthersWork
  <2>2. Waiting(x)' => x \notin holders'
    BY <1>1 DEF SlotsOK
  <2> QED
    BY <1>1, <1>3, <2>1, <2>2 DEF IInv, SlotsFollowWork
<1>4. SlotsFollowWork'
  BY <1>1, <1>2, <1>3 DEF SlotsFollowWork
<1> QED
  BY <1>1, <1>4

(* r leaves the queue. *)
LEMMA PlaceGoes ==
    ASSUME IInv, NEW r \in Requests, Alone(r), Slots!GiveUp(r), ~Working(r)'
    PROVE  /\ SlotsOK' /\ SlotsFollowWork'
           /\ holders' = holders /\ queue' \in Seq(Requests)
<1>1. /\ holders' = holders /\ queue' \in Seq(Requests) /\ r \notin holders
      /\ SlotsOK'
      /\ \A x \in Requests : Waiting(x)' <=> (x # r /\ Waiting(x))
  BY GiveUpEffect DEF IInv
<1>2. SlotsFollowWork'
  BY <1>1, OthersWork DEF IInv, SlotsFollowWork
<1> QED
  BY <1>1, <1>2

(* Where a request that waits for a slot, or holds one, can be. *)
LEMMA WaitingIsQueued ==
    ASSUME IInv, NEW r \in Requests
    PROVE  /\ Waiting(r) => pc[r] = "queued"
           /\ pc[r] = "calling" => r \in holders
           /\ Working(r) => r \in holders
           /\ r \in holders => Working(r) \/ pc[r] = "queued"
           /\ pc[r] \in {"idle", "preflight", "acquiring", "following", "tooling"} => r \notin holders
           /\ pc[r] \in {"following", "ended"} /\ role[r] # "leader" => r \notin holders
  BY DEF IInv, SlotsFollowWork, Working, TypeOK

(* The invariant holds before any request arrives.                             *)
LEMMA InitHolds == Init => IInv
<1> SUFFICES ASSUME Init PROVE IInv
  OBVIOUS
<1>1. holders = {} /\ queue = <<>> /\ Len(queue) = 0
  BY DEF Init, Slots!Init
<1>2. \A x : ~Waiting(x)
  BY <1>1 DEF Waiting
<1>3. SlotsOK /\ SlotsFollowWork
  BY <1>1, <1>2 DEF Init, SlotsOK, SlotsFollowWork, Working, DuplicateFree
<1>4. TypeOK
  BY <1>1 DEF Init, TypeOK, Classes
<1>5. Accounts
  BY DEF Init, Accounts, Account, ToolAccount, Finished, NothingSaid
<1> QED
  BY <1>3, <1>4, <1>5 DEF IInv

(* Facts about sequences of at most one element.                               *)
LEMMA First == ASSUME NEW x PROVE Append(<<>>, x) = <<x>>
  OBVIOUS

(* One element of a set makes a sequence over it. *)
LEMMA OneLong == ASSUME NEW S, NEW x \in S PROVE <<x>> \in Seq(S)
  OBVIOUS

(* The empty sequence is one over any set. *)
LEMMA Empty == ASSUME NEW S PROVE <<>> \in Seq(S)
  OBVIOUS

(* A step of r that is framed and reports only on r leaves the others alone.   *)
LEMMA FramedAlone ==
    ASSUME TypeOK, NEW r \in Requests, Framed(r), Reported(r) \/ UNCHANGED reports
    PROVE  Alone(r)
<1>1. CASE Reported(r)
  BY <1>1 DEF TypeOK, Framed, Reported, Alone
<1>2. CASE UNCHANGED reports
  BY <1>2 DEF TypeOK, Framed, reports, Alone
<1> QED
  BY <1>1, <1>2

(* ... and keeps every variable in its type.                                   *)
LEMMA FramedType ==
    ASSUME TypeOK, NEW r \in Requests, Framed(r), ControlTyped(r),
           \/ Reported(r) /\ ReportTyped(r)
           \/ UNCHANGED reports,
           holders' \subseteq Requests, queue' \in Seq(Requests)
    PROVE  TypeOK'
<1>1. stream' \in [Requests -> BOOLEAN] /\ surface' \in [Requests -> Surfaces]
  BY DEF TypeOK, Framed
<1>2. role' \in [Requests -> {"none", "leader", "follower"}]
  BY DEF TypeOK, Framed, ControlTyped
<1>3. pc' \in [Requests -> Places]
  BY DEF TypeOK, Framed, ControlTyped, Places
<1>4. pump' \in [Requests -> {"none", "flowing", "ended"}]
  BY DEF TypeOK, Framed, ControlTyped
<1>5. \A x \in Requests : pump'[x] # "none" => stream'[x] /\ pc'[x] = "ended"
  BY DEF TypeOK, Framed, ControlTyped
<1>6. connected' \in [Requests -> BOOLEAN] /\ listening' \in [Requests -> BOOLEAN]
  BY DEF TypeOK, Framed, ControlTyped
<1>7. aborted' \in [Requests -> BOOLEAN] /\ generating' \in [Requests -> BOOLEAN]
  BY DEF TypeOK, Framed, ControlTyped
<1>8. /\ rows' \in [Requests -> Seq(Classes)]
      /\ verdicts' \in [Requests -> Seq({"success", "failure"})]
      /\ marker' \in [Requests -> {"none", "done", "error", "aborted"}]
      /\ turns' \in [Requests -> BOOLEAN]
  <2>1. CASE UNCHANGED reports
    BY <2>1 DEF reports, TypeOK
  <2>2. CASE Reported(r) /\ ReportTyped(r)
    <3>1. rows'[r] \in Seq(Classes)
      BY <2>2, OneLong, Empty, Zenon DEF ReportTyped
    <3>2. verdicts'[r] \in Seq({"success", "failure"})
      BY <2>2, OneLong, Empty, Zenon DEF ReportTyped
    <3>3. marker'[r] \in {"none", "done", "error", "aborted"} /\ turns'[r] \in BOOLEAN
      BY <2>2 DEF ReportTyped
    <3>4. /\ rows \in [Requests -> Seq(Classes)]
          /\ verdicts \in [Requests -> Seq({"success", "failure"})]
          /\ marker \in [Requests -> {"none", "done", "error", "aborted"}]
          /\ turns \in [Requests -> BOOLEAN]
      BY DEF TypeOK
    <3>5. rows' \in [Requests -> Seq(Classes)]
      BY <2>2, <3>1, <3>4, Zenon DEF Reported
    <3>6. verdicts' \in [Requests -> Seq({"success", "failure"})]
      BY <2>2, <3>2, <3>4, Zenon DEF Reported
    <3>7. /\ marker' \in [Requests -> {"none", "done", "error", "aborted"}]
          /\ turns' \in [Requests -> BOOLEAN]
      BY <2>2, <3>3, <3>4 DEF Reported
    <3> QED
      BY <3>5, <3>6, <3>7
  <2> QED
    BY <2>1, <2>2
<1>9. \A x \in Requests : stream'[x] => surface'[x] \in SessionSurfaces
  BY DEF TypeOK, Framed
<1> QED
  BY <1>1, <1>2, <1>3, <1>4, <1>5, <1>6, <1>7, <1>8, <1>9 DEF TypeOK, Places

(* A step of r that reports nothing and does not finish it. *)
LEMMA QuietAccount ==
    ASSUME IInv, NEW r \in Requests, UNCHANGED reports, ~Finished(r), ~Finished(r)', surface' = surface,
           pc'[r] \in {"queued", "calling", "publishing"} => role'[r] = "leader",
           pc'[r] = "publishing" <=> pc[r] = "publishing",
           pc'[r] = "publishing" /\ surface[r] # "embeddings" => ~listening'[r],
           pc'[r] = "following" => role'[r] = "follower",
           pc'[r] \in {"idle", "preflight", "acquiring", "tooling"} => role'[r] = "none",
           surface[r] \in ToolSurfaces =>
               role'[r] = "none" /\ pc'[r] \in {"idle", "preflight", "tooling"}
    PROVE  Account(r)'
<1>1. NothingSaid(r)
  BY DEF IInv, Accounts, Account
<1>2. NothingSaid(r)'
  BY <1>1 DEF NothingSaid, reports
<1>3. ToolAccount(r)'
  BY DEF ToolAccount
<1> QED
  BY <1>2, <1>3 DEF Account

(* Only tool calls go without a role; only they are "tooling".                 *)
LEMMA NotATool ==
    ASSUME IInv, NEW r \in Requests,
           \/ pc[r] \in {"acquiring", "queued", "calling", "publishing", "following"}
           \/ role[r] # "none" \/ pump[r] = "flowing"
    PROVE  surface[r] \notin ToolSurfaces
<1>1. pump[r] # "none" => surface[r] \in SessionSurfaces
  BY DEF IInv, TypeOK
<1>2. surface[r] \in SessionSurfaces => surface[r] \notin ToolSurfaces
  BY DEF SessionSurfaces, ToolSurfaces
<1>3. ToolAccount(r)
  BY DEF IInv, Accounts, Account
<1> QED
  BY <1>1, <1>2, <1>3 DEF ToolAccount

(* A request nobody has heard of. *)
LEMMA Unheard ==
    ASSUME IInv, NEW r \in Requests, ~Finished(r), pc[r] # "publishing"
    PROVE  /\ rows[r] = <<>> /\ marker[r] = "none" /\ turns[r] = FALSE /\ verdicts[r] = <<>>
  BY DEF IInv, Accounts, Account, NothingSaid, TypeOK

(* A request that is not streamed to yet. *)
LEMMA NotFinished ==
    ASSUME IInv, NEW r \in Requests, pc[r] # "ended" \/ pump[r] = "flowing"
    PROVE  ~Finished(r) /\ (pc[r] # "ended" => pump[r] = "none")
  BY DEF IInv, TypeOK, Finished

(* A step of r that ends its part in the story, with everything said. *)
LEMMA LastStep ==
    ASSUME IInv, NEW r \in Requests, Framed(r), Reported(r), ControlTyped(r), ReportTyped(r),
           SlotsOK', SlotsFollowWork', holders' \subseteq Requests, queue' \in Seq(Requests),
           pc'[r] = "ended", pump'[r] # "flowing", AllSaid(r)',
           surface[r] \in ToolSurfaces => role'[r] = "none" /\ ToolSaid(r)'
    PROVE  IInv'
<1>1. TypeOK' /\ Alone(r)
  BY FramedType, FramedAlone DEF IInv
<1>2. ToolAccount(r)'
  BY DEF Framed, ToolAccount
<1>3. Account(r)'
  BY <1>2 DEF Account, Finished
<1> QED
  BY <1>1, <1>3, Lift

(* A step of r that says nothing, before it is finished. *)
LEMMA QuietStep ==
    ASSUME IInv, NEW r \in Requests, Framed(r), UNCHANGED reports, ControlTyped(r),
           SlotsOK', SlotsFollowWork', holders' \subseteq Requests, queue' \in Seq(Requests),
           ~Finished(r), ~Finished(r)',
           pc'[r] \in {"queued", "calling", "publishing"} => role'[r] = "leader",
           pc'[r] = "publishing" <=> pc[r] = "publishing",
           pc'[r] = "publishing" /\ surface[r] # "embeddings" => ~listening'[r],
           pc'[r] = "following" => role'[r] = "follower",
           pc'[r] \in {"idle", "preflight", "acquiring", "tooling"} => role'[r] = "none",
           surface[r] \in ToolSurfaces =>
               role'[r] = "none" /\ pc'[r] \in {"idle", "preflight", "tooling"}
    PROVE  IInv'
<1>1. TypeOK' /\ Alone(r)
  BY FramedType, FramedAlone DEF IInv
<1>2. Account(r)'
  BY QuietAccount DEF Framed
<1> QED
  BY <1>1, <1>2, Lift

(* The slots of a step that leaves them alone, with the types they have. *)
LEMMA SlotsAlone ==
    ASSUME IInv, NEW r \in Requests, Framed(r), Reported(r) \/ UNCHANGED reports, UNCHANGED slots,
           /\ Working(r)' => r \in holders
           /\ r \in holders => Working(r)' \/ pc'[r] = "queued"
           /\ Waiting(r) => pc'[r] = "queued"
    PROVE  /\ SlotsOK' /\ SlotsFollowWork'
           /\ holders' \subseteq Requests /\ queue' \in Seq(Requests)
<1>1. Alone(r)
  BY FramedAlone DEF IInv
<1>2. SlotsOK' /\ SlotsFollowWork'
  BY <1>1, SlotsStay
<1> QED
  BY <1>2 DEF IInv, TypeOK, slots

(* A request that has not opened its stream, or has closed it, works only in a *)
(* call or on its answer.                                                      *)
LEMMA AtRest ==
    ASSUME NEW r \in Requests, pc'[r] \notin {"calling", "publishing"}, pump'[r] # "flowing"
    PROVE  ~Working(r)'
  BY DEF Working

(* What a failing handler may tell the breaker. *)
Tells(r) ==
    \/ verdicts' = [verdicts EXCEPT ![r] = Append(@, "failure")]
    \/ UNCHANGED verdicts /\ MayBeSilent(r)

(* What a failing handler leaves behind, whatever it tells the breaker. *)
LEMMA FailEffect ==
    ASSUME IInv, NEW r \in Requests, Fail(r), pc[r] \in {"acquiring", "queued", "calling", "following"},
           role' = role \/ role' = [role EXCEPT ![r] = "leader"],
           Tells(r)
    PROVE  /\ Framed(r) /\ Reported(r) /\ ControlTyped(r) /\ ReportTyped(r)
           /\ Alone(r) /\ ~Working(r)'
           /\ pc'[r] = "ended" /\ pump'[r] = "none" /\ listening'[r] = FALSE
           /\ rows'[r] = <<"error">> /\ marker'[r] = "none" /\ turns'[r] = FALSE
           /\ \/ verdicts'[r] = <<"failure">>
              \/ verdicts'[r] = <<>> /\ MayBeSilent(r)
<1>0. TypeOK /\ pump[r] = "none" /\ rows[r] = <<>> /\ marker[r] = "none" /\ turns[r] = FALSE
      /\ verdicts[r] = <<>>
  BY Unheard, NotFinished DEF IInv
<1>1. /\ rows' = [rows EXCEPT ![r] = <<"error">>]
      /\ marker' = marker /\ turns' = turns
  <2>1. RecordThrown(r) /\ marker' = marker /\ turns' = turns
    BY <1>0 DEF Fail
  <2>2. Recorded(Recorded(<<>>, "error"), "error") = <<"error">>
    BY DEF Recorded
  <2> QED
    BY <1>0, <2>1, <2>2 DEF RecordThrown
<1>2. \/ verdicts' = [verdicts EXCEPT ![r] = <<"failure">>]
      \/ verdicts' = verdicts /\ MayBeSilent(r)
  BY <1>0, First DEF Tells
<1>4. Framed(r)
  BY <1>0 DEF Fail, Goto, StopListening, HangUp, Framed, TypeOK
<1>5. Reported(r)
  <2>1. /\ rows' = [rows EXCEPT ![r] = rows'[r]]
        /\ marker' = [marker EXCEPT ![r] = marker'[r]]
        /\ turns' = [turns EXCEPT ![r] = turns'[r]]
    BY <1>0, <1>1 DEF TypeOK
  <2>2. verdicts' = [verdicts EXCEPT ![r] = verdicts'[r]]
    BY <1>0, <1>2 DEF TypeOK
  <2> QED
    BY <2>1, <2>2 DEF Reported
<1>6. /\ rows'[r] = <<"error">> /\ marker'[r] = "none" /\ turns'[r] = FALSE
      /\ \/ verdicts'[r] = <<"failure">>
         \/ verdicts'[r] = <<>> /\ MayBeSilent(r)
  <2>1. rows'[r] = <<"error">> /\ marker'[r] = "none" /\ turns'[r] = FALSE
    BY <1>0, <1>1 DEF TypeOK
  <2>2. \/ verdicts'[r] = <<"failure">>
        \/ verdicts'[r] = <<>> /\ MayBeSilent(r)
    BY <1>0, <1>2 DEF TypeOK
  <2> QED
    BY <2>1, <2>2
<1>7. pc'[r] = "ended" /\ pump'[r] = "none" /\ listening'[r] = FALSE
  BY <1>0 DEF Fail, Goto, StopListening, TypeOK
<1>8. ControlTyped(r)
  <2>1. role'[r] \in {"none", "leader", "follower"}
    BY <1>0 DEF TypeOK
  <2>2. generating' = [generating EXCEPT ![r] = FALSE] /\ UNCHANGED <<connected, aborted>>
    BY DEF Fail, HangUp
  <2>3. generating'[r] \in BOOLEAN /\ connected'[r] \in BOOLEAN /\ aborted'[r] \in BOOLEAN
    BY <1>0, <2>2 DEF TypeOK
  <2> QED
    BY <1>7, <2>1, <2>3 DEF ControlTyped, Places
<1>9. ReportTyped(r)
  BY <1>6 DEF ReportTyped, Classes
<1>10. Alone(r) /\ ~Working(r)'
  BY <1>0, <1>4, <1>5, <1>7, FramedAlone, AtRest
<1> QED
  BY <1>4, <1>5, <1>6, <1>7, <1>8, <1>9, <1>10

(* A handler that throws, with or without a word to the breaker, and is not in *)
(* the queue.                                                                  *)
LEMMA ExitStep ==
    ASSUME IInv, NEW r \in Requests, Exit(r), ~Waiting(r),
           pc[r] \in {"acquiring", "queued", "calling", "following"},
           role' = role \/ role' = [role EXCEPT ![r] = "leader"],
           Tells(r)
    PROVE  IInv'
<1>1. /\ Framed(r) /\ Reported(r) /\ ControlTyped(r) /\ ReportTyped(r)
      /\ Alone(r) /\ ~Working(r)'
      /\ pc'[r] = "ended" /\ pump'[r] = "none" /\ listening'[r] = FALSE
      /\ rows'[r] = <<"error">> /\ marker'[r] = "none" /\ turns'[r] = FALSE
      /\ \/ verdicts'[r] = <<"failure">>
         \/ verdicts'[r] = <<>> /\ MayBeSilent(r)
  BY FailEffect DEF Exit
<1>2. /\ SlotsOK' /\ SlotsFollowWork'
      /\ holders' \subseteq Requests /\ queue' \in Seq(Requests)
  BY <1>1, SlotGoes DEF Exit
<1>3. surface' = surface /\ stream' = stream
  BY DEF Exit, Fail
<1>4. AllSaid(r)'
  BY <1>1, <1>3 DEF AllSaid, Agree, MayBeSilent, Streams, Classes
<1>5. surface[r] \notin ToolSurfaces
  BY NotATool
<1> QED
  BY <1>1, <1>2, <1>4, <1>5, LastStep

-----------------------------------------------------------------------------
(* The actions *)

(* A request or a tool call arrives, passes the checks and listens, or calls.  *)
LEMMA ArriveStep ==
    ASSUME IInv, NEW r \in Requests,
           \/ Arrive(r) \/ ToolArrives(r) \/ ToolCalls(r)
           \/ Attach(r) /\ surface[r] \notin ToolSurfaces
    PROVE  IInv'
<1>0. /\ TypeOK /\ pc[r] \in {"idle", "preflight"} /\ pump[r] = "none" /\ role[r] = "none"
      /\ ~Finished(r) /\ r \notin holders /\ ~Waiting(r)
  BY NotFinished, WaitingIsQueued
  DEF IInv, Accounts, Account, Arrive, Attach, ToolArrives, ToolCalls
<1>1. Framed(r) /\ UNCHANGED reports /\ UNCHANGED slots
  BY <1>0 DEF Arrive, Attach, ToolArrives, ToolCalls, Goto, Framed, TypeOK
<1>2. /\ pc'[r] \in {"preflight", "acquiring", "tooling"} /\ pump'[r] = "none" /\ role'[r] = "none"
      /\ connected'[r] = connected[r] /\ listening'[r] \in BOOLEAN
      /\ aborted'[r] = aborted[r] /\ generating'[r] \in BOOLEAN
  <2> USE <1>0
  <2>1. CASE Arrive(r) BY <2>1 DEF Arrive, Goto, TypeOK
  <2>2. CASE Attach(r) BY <2>2 DEF Attach, Goto, TypeOK
  <2>3. CASE ToolArrives(r) BY <2>3 DEF ToolArrives, Goto, TypeOK
  <2>4. CASE ToolCalls(r) BY <2>4 DEF ToolCalls, Goto, TypeOK
  <2> QED BY <2>1, <2>2, <2>3, <2>4
<1>3. ControlTyped(r)
  BY <1>0, <1>2 DEF ControlTyped, TypeOK, Places
<1>4. /\ SlotsOK' /\ SlotsFollowWork'
      /\ holders' \subseteq Requests /\ queue' \in Seq(Requests)
  BY <1>0, <1>1, <1>2, SlotsAlone, AtRest
<1>5. ~Finished(r)'
  BY <1>2 DEF Finished
<1>6. surface[r] \in ToolSurfaces => pc'[r] \in {"preflight", "tooling"}
  BY <1>0 DEF Arrive, ToolArrives, ToolCalls, Goto, TypeOK
<1> QED
  BY <1>0, <1>1, <1>2, <1>3, <1>4, <1>5, <1>6, QuietStep

(* The end of a tool call, however it ends. *)
ToolLast(r) ==
    \/ ToolRefused(r) \/ LacksCapability(r)
    \/ ChatTool(r) \/ ResponseTool(r) \/ EmbeddingTool(r) \/ RerankTool(r)

(* What a call that ended so tells the breaker. *)
ToolTells(r, outcome) ==
    \/ outcome = "success" /\ surface[r] = "chat_completion" /\ UNCHANGED verdicts
    \/ outcome = "success" /\ surface[r] # "chat_completion" /\ Verdict(r, "success")
    \/ outcome = "error" /\ UNCHANGED verdicts
    \/ outcome = "error" /\ Verdict(r, "failure")

(* Whichever tool it is, its end changes the same variables. *)
LEMMA ToolLastEffect ==
    ASSUME NEW r \in Requests, ToolLast(r)
    PROVE  \E outcome \in {"success", "error"} :
             /\ pc[r] \in {"preflight", "tooling"} /\ surface[r] \in ToolSurfaces
             /\ Goto(r, "ended") /\ HangUp(r)
             /\ Record(r, IF aborted[r] THEN "disconnect" ELSE outcome)
             /\ StopListening(r) \/ UNCHANGED listening
             /\ ToolTells(r, outcome)
             /\ UNCHANGED <<surface, stream, role, pump, connected, aborted, slots, marker, turns>>
<1>1. pc[r] \in {"preflight", "tooling"} /\ surface[r] \in ToolSurfaces
  BY DEF ToolLast, ToolRefused, LacksCapability, ChatTool, ResponseTool, EmbeddingTool, RerankTool,
     ToolSurfaces
<1>2. PICK outcome \in {"success", "error"} :
         (ToolEnds(r, outcome) \/ EmbeddingEnds(r, outcome)) /\ ToolTells(r, outcome)
  <2>1. CASE ToolRefused(r) \/ LacksCapability(r)
    BY <2>1 DEF ToolRefused, LacksCapability, Ends, ToolTells
  <2>2. CASE ChatTool(r)
    BY <2>2 DEF ChatTool, ToolTells
  <2>3. CASE ResponseTool(r) \/ EmbeddingTool(r) \/ RerankTool(r)
    BY <2>3 DEF ResponseTool, EmbeddingTool, RerankTool, ToolTells
  <2> QED
    BY <2>1, <2>2, <2>3 DEF ToolLast
<1>3. /\ Goto(r, "ended") /\ HangUp(r)
      /\ Record(r, IF aborted[r] THEN "disconnect" ELSE outcome)
      /\ StopListening(r) \/ UNCHANGED listening
      /\ UNCHANGED <<surface, stream, role, pump, connected, aborted, slots, marker, turns>>
  BY <1>2 DEF ToolEnds, EmbeddingEnds
<1> QED
  BY <1>1, <1>2, <1>3

(* A tool call ends. *)
LEMMA ToolLastStep == ASSUME IInv, NEW r \in Requests, ToolLast(r) PROVE IInv'
<1>ends. PICK outcome \in {"success", "error"} :
             /\ pc[r] \in {"preflight", "tooling"} /\ surface[r] \in ToolSurfaces
             /\ Goto(r, "ended") /\ HangUp(r)
             /\ Record(r, IF aborted[r] THEN "disconnect" ELSE outcome)
             /\ StopListening(r) \/ UNCHANGED listening
             /\ ToolTells(r, outcome)
             /\ UNCHANGED <<surface, stream, role, pump, connected, aborted, slots, marker, turns>>
  BY ToolLastEffect
<1> DEFINE class == IF aborted[r] THEN "disconnect" ELSE outcome
<1>0. /\ TypeOK /\ pump[r] = "none" /\ role[r] = "none"
      /\ r \notin holders /\ ~Waiting(r)
      /\ rows[r] = <<>> /\ marker[r] = "none" /\ turns[r] = FALSE /\ verdicts[r] = <<>>
  BY <1>ends, Unheard, NotFinished, WaitingIsQueued DEF IInv, Accounts, Account
<1>1. /\ rows' = [rows EXCEPT ![r] = <<class>>] /\ marker' = marker /\ turns' = turns
  BY <1>0, <1>ends DEF Record, Recorded
<1>2. Framed(r) /\ UNCHANGED slots
  BY <1>0, <1>ends DEF Goto, HangUp, StopListening, Framed, TypeOK
<1>3. class \in Classes /\ (class = "disconnect" <=> aborted[r])
      /\ (class # "disconnect" => class = outcome)
  BY DEF Classes
<1> HIDE DEF class
<1>4. /\ outcome = "success" =>
            verdicts'[r] = IF surface[r] = "chat_completion" THEN <<>> ELSE <<"success">>
      /\ outcome = "error" => verdicts'[r] \in {<<>>, <<"failure">>}
      /\ verdicts' = [verdicts EXCEPT ![r] = verdicts'[r]]
  <2>1. CASE UNCHANGED verdicts
    BY <1>0, <1>ends, <2>1, First DEF ToolTells, Verdict, TypeOK
  <2>2. ASSUME NEW v \in {"success", "failure"}, Verdict(r, v)
        PROVE  verdicts'[r] = <<v>> /\ verdicts' = [verdicts EXCEPT ![r] = verdicts'[r]]
    <3>1. verdicts' = [verdicts EXCEPT ![r] = <<v>>]
      BY <1>0, <2>2, First DEF Verdict
    <3> QED
      BY <1>0, <3>1 DEF TypeOK
  <2> QED
    BY <1>ends, <2>1, <2>2 DEF ToolTells
<1>5. Reported(r) /\ rows'[r] = <<class>> /\ marker'[r] = "none" /\ turns'[r] = FALSE
  BY <1>0, <1>1, <1>4 DEF Reported, TypeOK
<1>6. /\ pc'[r] = "ended" /\ pump'[r] = "none" /\ role'[r] = "none"
      /\ connected'[r] = connected[r] /\ listening'[r] \in BOOLEAN
      /\ aborted'[r] = aborted[r] /\ generating'[r] = FALSE /\ surface' = surface
  <2>1. listening'[r] \in BOOLEAN
    BY <1>0, <1>ends DEF StopListening, TypeOK
  <2> QED
    BY <1>0, <1>ends, <2>1 DEF Goto, HangUp, TypeOK
<1>7. ControlTyped(r)
  BY <1>0, <1>6 DEF ControlTyped, TypeOK, Places
<1>8. /\ SlotsOK' /\ SlotsFollowWork'
      /\ holders' \subseteq Requests /\ queue' \in Seq(Requests)
  BY <1>0, <1>2, <1>5, <1>6, SlotsAlone, AtRest
<1>9. ReportTyped(r)
  BY <1>3, <1>4, <1>5 DEF ReportTyped
<1>10. AllSaid(r)'
  BY <1>3, <1>5, <1>6 DEF AllSaid
<1>11. ToolSaid(r)'
  <2>1. class = "success" => outcome = "success"
    BY <1>3
  <2>2. class = "error" => outcome = "error"
    BY <1>3
  <2> QED
    BY <1>3, <1>4, <1>5, <1>6, <2>1, <2>2 DEF ToolSaid
<1> QED
  BY <1>2, <1>5, <1>6, <1>7, <1>8, <1>9, <1>10, <1>11, LastStep

(* Turned away before the listener, with an invalid key just after it, or by a *)
(* multiplexer that fails a Responses stream.                                  *)
LEMMA TurnedAwayStep ==
    ASSUME IInv, NEW r \in Requests, surface[r] \notin ToolSurfaces,
           TurnedAway(r) \/ BadKey(r) \/ StreamKeyFails(r)
    PROVE  IInv'
<1>0. /\ TypeOK /\ pc[r] \in {"preflight", "acquiring"} /\ pump[r] = "none" /\ role[r] = "none"
      /\ r \notin holders /\ ~Waiting(r)
      /\ rows[r] = <<>> /\ marker[r] = "none" /\ turns[r] = FALSE /\ verdicts[r] = <<>>
  BY NotFinished, Unheard, WaitingIsQueued
  DEF IInv, Accounts, Account, TurnedAway, BadKey, StreamKeyFails
<1>1. /\ rows' = [rows EXCEPT ![r] = <<"error">>]
      /\ verdicts' = verdicts /\ marker' = marker /\ turns' = turns
  BY <1>0, First DEF TurnedAway, BadKey, StreamKeyFails, Record, Recorded
<1>2. Framed(r) /\ UNCHANGED slots
  BY <1>0 DEF TurnedAway, BadKey, StreamKeyFails, Goto, Framed, TypeOK
<1>3. Reported(r)
  BY <1>0, <1>1 DEF Reported, TypeOK
<1>4. /\ rows'[r] = <<"error">> /\ verdicts'[r] = <<>> /\ marker'[r] = "none" /\ turns'[r] = FALSE
  BY <1>0, <1>1 DEF TypeOK
<1>5. /\ pc'[r] = "ended" /\ pump'[r] = "none" /\ role'[r] = "none"
      /\ connected'[r] = connected[r] /\ listening'[r] \in BOOLEAN
      /\ aborted'[r] = aborted[r] /\ generating'[r] = generating[r]
  <2> USE <1>0
  <2>1. CASE TurnedAway(r) BY <2>1 DEF TurnedAway, Goto, TypeOK
  <2>2. CASE BadKey(r) BY <2>2 DEF BadKey, Goto, TypeOK
  <2>3. CASE StreamKeyFails(r) BY <2>3 DEF StreamKeyFails, Goto, TypeOK
  <2> QED BY <2>1, <2>2, <2>3
<1>6. ControlTyped(r)
  BY <1>0, <1>5 DEF ControlTyped, TypeOK, Places
<1>7. /\ SlotsOK' /\ SlotsFollowWork'
      /\ holders' \subseteq Requests /\ queue' \in Seq(Requests)
  BY <1>0, <1>2, <1>3, <1>5, SlotsAlone, AtRest
<1>8. ReportTyped(r)
  BY <1>4 DEF ReportTyped, Classes
<1>9. AllSaid(r)'
  BY <1>4, <1>5 DEF AllSaid, Classes
<1> QED
  BY <1>2, <1>3, <1>5, <1>6, <1>7, <1>8, <1>9, LastStep

(* A leader gets a slot. *)
LEMMA TakeStep == ASSUME IInv, NEW r \in Requests, TakeSlot(r) PROVE IInv'
<1>0. /\ TypeOK /\ SlotsOK /\ pc[r] = "acquiring" /\ pump[r] = "none"
      /\ ~Finished(r) /\ r \notin holders /\ ~Waiting(r)
      /\ role' = [role EXCEPT ![r] = "leader"] /\ role'[r] = "leader"
  BY NotFinished, WaitingIsQueued DEF IInv, TakeSlot, BecomeLeader, TypeOK
<1>1. Framed(r) /\ UNCHANGED reports
  BY <1>0 DEF TakeSlot, Call, Goto, Framed, TypeOK
<1>2. /\ pc'[r] = "calling" /\ pump'[r] = "none" /\ generating'[r] \in BOOLEAN
      /\ connected'[r] = connected[r] /\ listening'[r] = listening[r] /\ aborted'[r] = aborted[r]
  BY <1>0 DEF TakeSlot, Call, Goto, TypeOK
<1>3. ControlTyped(r)
  BY <1>0, <1>2 DEF ControlTyped, TypeOK, Places
<1>4. /\ holders' = holders \cup {r} /\ queue' = queue
      /\ SlotsOK'
      /\ \A x \in Requests : Waiting(x)' <=> Waiting(x)
  BY <1>0, TakeEffect DEF TakeSlot
<1>5. Alone(r) /\ Working(r)'
  BY <1>0, <1>1, <1>2, FramedAlone DEF Working
<1>6. SlotsFollowWork'
  BY <1>0, <1>4, <1>5, OthersWork DEF IInv, SlotsFollowWork
<1>7. holders' \subseteq Requests /\ queue' \in Seq(Requests)
  BY <1>0, <1>4 DEF TypeOK
<1>8. ~Finished(r)'
  BY <1>2 DEF Finished
<1> QED
  BY <1>0, <1>1, <1>2, <1>3, <1>4, <1>6, <1>7, <1>8, NotATool, QuietStep

(* ... or a place in the queue. *)
LEMMA WaitStep == ASSUME IInv, NEW r \in Requests, WaitForSlot(r) PROVE IInv'
<1>0. /\ TypeOK /\ SlotsOK /\ pc[r] = "acquiring" /\ pump[r] = "none"
      /\ ~Finished(r) /\ r \notin holders /\ ~Waiting(r)
      /\ role' = [role EXCEPT ![r] = "leader"] /\ role'[r] = "leader"
  BY NotFinished, WaitingIsQueued DEF IInv, WaitForSlot, BecomeLeader, TypeOK
<1>1. Framed(r) /\ UNCHANGED reports
  BY <1>0 DEF WaitForSlot, Goto, Framed, TypeOK
<1>2. /\ pc'[r] = "queued" /\ pump'[r] = "none" /\ generating'[r] = generating[r]
      /\ connected'[r] = connected[r] /\ listening'[r] = listening[r] /\ aborted'[r] = aborted[r]
  BY <1>0 DEF WaitForSlot, Goto, TypeOK
<1>3. ControlTyped(r)
  BY <1>0, <1>2 DEF ControlTyped, TypeOK, Places
<1>4. /\ holders' = holders /\ queue' \in Seq(Requests)
      /\ SlotsOK'
      /\ \A x \in Requests : Waiting(x)' <=> (x = r \/ Waiting(x))
  BY <1>0, WaitEffect DEF WaitForSlot
<1>5. Alone(r) /\ ~Working(r)'
  BY <1>0, <1>1, <1>2, FramedAlone, AtRest
<1>6. SlotsFollowWork'
  BY <1>0, <1>2, <1>4, <1>5, OthersWork DEF IInv, SlotsFollowWork
<1>7. holders' \subseteq Requests
  BY <1>0, <1>4 DEF TypeOK
<1>8. ~Finished(r)'
  BY <1>2 DEF Finished
<1> QED
  BY <1>0, <1>1, <1>2, <1>3, <1>4, <1>6, <1>7, <1>8, NotATool, QuietStep

(* A granted waiter starts its call.                                           *)
LEMMA GrantedStep == ASSUME IInv, NEW r \in Requests, Granted(r) PROVE IInv'
<1>0. /\ TypeOK /\ pc[r] = "queued" /\ pump[r] = "none" /\ ~Finished(r) /\ r \in holders
      /\ ~Waiting(r) /\ role[r] = "leader"
  BY NotFinished DEF IInv, Granted, SlotsFollowWork, Accounts, Account
<1>1. Framed(r) /\ UNCHANGED reports /\ UNCHANGED slots
  BY <1>0 DEF Granted, Call, Goto, Framed, TypeOK
<1>2. /\ pc'[r] = "calling" /\ pump'[r] = "none" /\ generating'[r] \in BOOLEAN
      /\ connected'[r] = connected[r] /\ listening'[r] = listening[r] /\ aborted'[r] = aborted[r]
      /\ role'[r] = role[r]
  BY <1>0 DEF Granted, Call, Goto, TypeOK
<1>3. ControlTyped(r)
  BY <1>0, <1>2 DEF ControlTyped, TypeOK, Places
<1>4. /\ SlotsOK' /\ SlotsFollowWork'
      /\ holders' \subseteq Requests /\ queue' \in Seq(Requests)
  BY <1>0, <1>1, <1>2, SlotsAlone DEF Working
<1>5. ~Finished(r)'
  BY <1>2 DEF Finished
<1> QED
  BY <1>0, <1>1, <1>2, <1>3, <1>4, <1>5, NotATool, QuietStep

(* A timed-out waiter fails like the others, but gives up a place, not a slot. *)
LEMMA TimesOutStep ==
    ASSUME IInv, NEW r \in Requests, TimesOut(r),
           Tells(r)
    PROVE  IInv'
<1>0. TypeOK /\ pc[r] = "queued" /\ role' = role /\ surface' = surface /\ stream' = stream
  BY DEF IInv, TimesOut, Fail
<1>1. /\ Framed(r) /\ Reported(r) /\ ControlTyped(r) /\ ReportTyped(r)
      /\ Alone(r) /\ ~Working(r)'
      /\ pc'[r] = "ended" /\ pump'[r] = "none" /\ listening'[r] = FALSE
      /\ rows'[r] = <<"error">> /\ marker'[r] = "none" /\ turns'[r] = FALSE
      /\ \/ verdicts'[r] = <<"failure">>
         \/ verdicts'[r] = <<>> /\ MayBeSilent(r)
  BY <1>0, FailEffect DEF TimesOut
<1>2. /\ SlotsOK' /\ SlotsFollowWork'
      /\ holders' = holders /\ queue' \in Seq(Requests)
  BY <1>1, PlaceGoes DEF TimesOut
<1>3. holders' \subseteq Requests
  BY <1>0, <1>2 DEF TypeOK
<1>4. AllSaid(r)'
  BY <1>0, <1>1 DEF AllSaid, Agree, MayBeSilent, Streams, Classes
<1>5. surface[r] \notin ToolSurfaces
  BY <1>0, NotATool
<1> QED
  BY <1>1, <1>2, <1>3, <1>4, <1>5, LastStep

(* A client that leaves takes its request out of the queue at most.            *)
LEMMA DisconnectStep == ASSUME IInv, NEW r \in Requests, Disconnect(r) PROVE IInv'
<1>0. TypeOK /\ ~Finished(r)
  BY DEF IInv, Disconnect, Finished
<1>1. Framed(r) /\ UNCHANGED reports
  BY <1>0 DEF Disconnect, Framed, TypeOK
<1>2. /\ pc' = pc /\ pump' = pump /\ role' = role /\ listening' = listening
      /\ generating' = generating /\ connected'[r] = FALSE /\ aborted'[r] \in BOOLEAN
  BY <1>0 DEF Disconnect, TypeOK
<1>3. ControlTyped(r)
  BY <1>0, <1>2 DEF ControlTyped, TypeOK, Places
<1>7. Working(r)' <=> Working(r)
  BY <1>1, <1>2 DEF Framed, Working
<1>4. /\ SlotsOK' /\ SlotsFollowWork'
      /\ holders' \subseteq Requests /\ queue' \in Seq(Requests)
  <2>1. CASE UNCHANGED slots
    BY <1>1, <1>2, <1>7, <2>1, SlotsAlone, WaitingIsQueued
  <2>2. CASE Waiting(r) /\ Slots!GiveUp(r)
    <3>1. pc[r] = "queued" /\ ~Working(r)
      BY <1>0, <2>2, WaitingIsQueued DEF Working, TypeOK
    <3>2. /\ SlotsOK' /\ SlotsFollowWork'
          /\ holders' = holders /\ queue' \in Seq(Requests)
      BY <1>0, <1>1, <1>7, <2>2, <3>1, FramedAlone, PlaceGoes
    <3> QED
      BY <1>0, <3>2 DEF TypeOK
  <2> QED
    BY <2>1, <2>2 DEF Disconnect
<1>5. ~Finished(r)'
  BY <1>0, <1>2 DEF Finished
<1>6. Account(r)
  BY DEF IInv, Accounts
<1>8. surface[r] \in ToolSurfaces => role[r] = "none" /\ pc[r] \in {"idle", "preflight", "tooling"}
  BY <1>0, <1>6, NotATool DEF IInv, TypeOK, Account, ToolAccount, Finished
<1> QED
  BY <1>0, <1>1, <1>2, <1>3, <1>4, <1>5, <1>6, <1>8, QuietStep DEF Account, Framed

(* The one report that is not the last: the verdict on a call that answered. *)
LEMMA AnswerStep ==
    ASSUME IInv, NEW r \in Requests, Framed(r), ControlTyped(r), Verdict(r, "success"),
           UNCHANGED <<rows, marker, turns>>,
           pc[r] \in {"acquiring", "calling"}, pc'[r] = "publishing", pump'[r] = "none",
           role'[r] = "leader",
           surface[r] = "embeddings" \/ ~listening'[r],
           SlotsOK', SlotsFollowWork', holders' \subseteq Requests, queue' \in Seq(Requests)
    PROVE  IInv'
<1>0. /\ TypeOK /\ surface' = surface
      /\ rows[r] = <<>> /\ marker[r] = "none" /\ turns[r] = FALSE /\ verdicts[r] = <<>>
  BY Unheard, NotFinished DEF IInv, Framed
<1>1. /\ verdicts' = [verdicts EXCEPT ![r] = <<"success">>]
      /\ rows' = rows /\ marker' = marker /\ turns' = turns
  BY <1>0, First DEF Verdict
<1>2. Reported(r)
  BY <1>0, <1>1 DEF Reported, TypeOK
<1>3. /\ rows'[r] = <<>> /\ verdicts'[r] = <<"success">> /\ marker'[r] = "none"
      /\ turns'[r] = FALSE
  BY <1>0, <1>1 DEF TypeOK
<1>4. ReportTyped(r)
  BY <1>3 DEF ReportTyped
<1>5. TypeOK' /\ Alone(r)
  BY <1>0, <1>2, <1>4, FramedType, FramedAlone
<1>6. Account(r)'
  BY <1>0, <1>3, NotATool DEF Account, ToolAccount, Finished, NothingSaid
<1> QED
  BY <1>5, <1>6, Lift

(* A call that answers keeps its slot, but for an embeddings call.             *)
LEMMA CallAnswersStep ==
    ASSUME IInv, NEW r \in Requests, surface[r] # "embeddings", CallAnswers(r)
    PROVE  IInv'
<1>0. /\ TypeOK /\ pc[r] = "calling" /\ pump[r] = "none" /\ r \in holders /\ ~Waiting(r)
      /\ role[r] = "leader"
  BY NotFinished, WaitingIsQueued DEF IInv, CallAnswers, Accounts, Account
<1>1. Framed(r) /\ UNCHANGED slots /\ Verdict(r, "success") /\ UNCHANGED <<rows, marker, turns>>
  BY <1>0 DEF CallAnswers, Goto, StopListening, HangUp, Framed, TypeOK
<1>2. /\ pc'[r] = "publishing" /\ pump'[r] = "none" /\ listening'[r] = FALSE
      /\ role'[r] = role[r] /\ connected'[r] = connected[r] /\ surface' = surface
      /\ aborted'[r] = aborted[r] /\ generating'[r] = FALSE
  BY <1>0 DEF CallAnswers, Goto, StopListening, HangUp, TypeOK
<1>3. ControlTyped(r)
  BY <1>0, <1>2 DEF ControlTyped, TypeOK, Places
<1>4. Alone(r) /\ Working(r)'
  BY <1>0, <1>1, <1>2 DEF Alone, Framed, Verdict, TypeOK, Working
<1>5. /\ SlotsOK' /\ SlotsFollowWork'
      /\ holders' \subseteq Requests /\ queue' \in Seq(Requests)
  BY <1>0, <1>1, <1>4, SlotsStay DEF TypeOK, slots
<1> QED
  BY <1>0, <1>1, <1>2, <1>3, <1>5, AnswerStep

(* Embeddings answered by the cache had no slot; the others let theirs go.     *)
LEMMA EmbedAnswersStep ==
    ASSUME IInv, NEW r \in Requests, EmbedFromCache(r) \/ EmbedAnswers(r)
    PROVE  IInv'
<1>0. /\ TypeOK /\ pc[r] \in {"acquiring", "calling"} /\ pump[r] = "none" /\ ~Waiting(r)
      /\ surface[r] = "embeddings"
      /\ pc[r] = "acquiring" => r \notin holders
      /\ pc[r] = "calling" => role[r] = "leader"
  BY NotFinished, WaitingIsQueued
  DEF IInv, Accounts, Account, EmbedFromCache, EmbedAnswers, OnEmbeddings, BecomeLeader
<1>1. Framed(r) /\ Verdict(r, "success") /\ UNCHANGED <<rows, marker, turns>>
  BY <1>0 DEF EmbedFromCache, EmbedAnswers, BecomeLeader, Goto, HangUp, Framed, TypeOK
<1>2. /\ pc'[r] = "publishing" /\ pump'[r] = "none" /\ listening'[r] = listening[r]
      /\ role'[r] = "leader" /\ connected'[r] = connected[r] /\ surface' = surface
      /\ aborted'[r] = aborted[r] /\ generating'[r] \in BOOLEAN
  <2>1. CASE EmbedFromCache(r)
    BY <1>0, <2>1 DEF EmbedFromCache, BecomeLeader, Goto, TypeOK
  <2>2. CASE EmbedAnswers(r)
    BY <1>0, <2>2 DEF EmbedAnswers, Goto, HangUp, TypeOK
  <2> QED BY <2>1, <2>2
<1>3. ControlTyped(r)
  BY <1>0, <1>2 DEF ControlTyped, TypeOK, Places
<1>4. Alone(r) /\ ~Working(r)'
  BY <1>0, <1>1, <1>2 DEF Alone, Framed, Verdict, TypeOK, Working
<1>5. SafeRelease(r)
  BY <1>0 DEF EmbedFromCache, EmbedAnswers, SafeRelease, BecomeLeader
<1>6. /\ SlotsOK' /\ SlotsFollowWork'
      /\ holders' \subseteq Requests /\ queue' \in Seq(Requests)
  BY <1>0, <1>4, <1>5, SlotGoes
<1> QED
  BY <1>0, <1>1, <1>2, <1>3, <1>6, AnswerStep

(* The reply of a non-streaming call, with turns for a session. *)
LEMMA ReplyStep ==
    ASSUME IInv, NEW r \in Requests,
           \/ surface[r] \in SessionSurfaces /\ Reply(r)
           \/ EmbedReply(r) \/ RerankReply(r)
    PROVE  IInv'
<1> DEFINE inSession == surface[r] \in SessionSurfaces
<1>0. /\ TypeOK /\ pc[r] = "publishing" /\ pump[r] = "none" /\ ~Waiting(r)
      /\ ~Finished(r) /\ (surface[r] = "embeddings" => r \notin holders)
  BY NotFinished, WaitingIsQueued DEF IInv, Reply, EmbedReply, RerankReply, Working
<1>1. rows[r] = <<>> /\ verdicts[r] = <<"success">> /\ turns[r] = FALSE
  BY <1>0 DEF IInv, Accounts, Account, NothingSaid, TypeOK
<1>2. /\ rows' = [rows EXCEPT ![r] = <<"success">>] /\ verdicts' = verdicts
      /\ marker' = [marker EXCEPT ![r] = "done"] /\ turns' = [turns EXCEPT ![r] = inSession]
  <2>1. /\ rows' = [rows EXCEPT ![r] = <<"success">>] /\ verdicts' = verdicts
        /\ marker' = [marker EXCEPT ![r] = "done"]
    BY <1>1, First DEF Reply, EmbedReply, RerankReply, Record, Recorded, Finalize
  <2>2. CASE inSession /\ Reply(r)
    BY <2>1, <2>2 DEF Reply
  <2>3. CASE EmbedReply(r) \/ RerankReply(r)
    <3>1. ~inSession /\ turns' = turns
      BY <2>3 DEF EmbedReply, RerankReply, OnEmbeddings, OnRerank, SessionSurfaces
    <3> QED
      BY <1>0, <1>1, <2>1, <3>1 DEF TypeOK
  <2> QED
    BY <2>2, <2>3
<1>3. Framed(r) /\ surface' = surface
  BY <1>0 DEF Reply, EmbedReply, RerankReply, StopListening, Goto, Framed, TypeOK
<1>4. inSession \in BOOLEAN /\ (inSession <=> surface[r] \in SessionSurfaces)
  OBVIOUS
<1>5. surface[r] = "embeddings" \/ ~listening[r]
  BY <1>0 DEF IInv, Accounts, Account
<1> HIDE DEF inSession
<1>6. Reported(r)
  BY <1>0, <1>2 DEF Reported, TypeOK
<1>7. /\ rows'[r] = <<"success">> /\ verdicts'[r] = <<"success">> /\ marker'[r] = "done"
      /\ turns'[r] = inSession
  BY <1>0, <1>1, <1>2 DEF TypeOK
<1>8. /\ pc'[r] = "ended" /\ pump'[r] = "none" /\ listening'[r] = FALSE
      /\ role'[r] = role[r] /\ connected'[r] = connected[r]
      /\ aborted'[r] = aborted[r] /\ generating'[r] = generating[r]
  BY <1>0, <1>5 DEF Reply, EmbedReply, RerankReply, OnRerank, SessionSurfaces, StopListening, Goto, TypeOK
<1>9. SafeRelease(r)
  BY <1>0 DEF Reply, EmbedReply, RerankReply, OnEmbeddings, SafeRelease
<1>10. /\ SlotsOK' /\ SlotsFollowWork'
       /\ holders' \subseteq Requests /\ queue' \in Seq(Requests)
  BY <1>0, <1>3, <1>6, <1>8, <1>9, FramedAlone, AtRest, SlotGoes
<1>11. ControlTyped(r)
  BY <1>0, <1>8 DEF ControlTyped, TypeOK, Places
<1>12. ReportTyped(r)
  BY <1>4, <1>7 DEF ReportTyped, Classes
<1>13. AllSaid(r)'
  BY <1>3, <1>4, <1>7, <1>8 DEF AllSaid, Agree, Classes
<1>14. surface[r] \notin ToolSurfaces
  BY <1>0, NotATool
<1> QED
  BY <1>3, <1>6, <1>8, <1>10, <1>11, <1>12, <1>13, <1>14, LastStep

(* A streaming call that fails before its first event.                         *)
LEMMA PreStreamErrorStep == ASSUME IInv, NEW r \in Requests, PreStreamError(r) PROVE IInv'
<1>0. /\ TypeOK /\ pc[r] = "calling" /\ pump[r] = "none" /\ ~Waiting(r)
      /\ rows[r] = <<>> /\ marker[r] = "none" /\ turns[r] = FALSE /\ verdicts[r] = <<>>
  BY Unheard, NotFinished, WaitingIsQueued DEF IInv, PreStreamError
<1> DEFINE class == IF aborted[r] THEN "disconnect" ELSE "error"
<1>1. /\ rows' = [rows EXCEPT ![r] = <<class>>]
      /\ verdicts' = [verdicts EXCEPT ![r] = <<"failure">>]
      /\ marker' = [marker EXCEPT ![r] = "error"] /\ turns' = turns
  BY <1>0, First DEF PreStreamError, Record, Recorded, Verdict, Finalize
<1>2. Framed(r)
  BY <1>0 DEF PreStreamError, Goto, StopListening, HangUp, Framed, TypeOK
<1>3. class \in Classes /\ (class = "disconnect" <=> aborted[r]) /\ class # "success"
  BY DEF Classes
<1> HIDE DEF class
<1>4. Reported(r)
  BY <1>0, <1>1 DEF Reported, TypeOK
<1>5. /\ rows'[r] = <<class>> /\ verdicts'[r] = <<"failure">> /\ marker'[r] = "error"
      /\ turns'[r] = FALSE
  BY <1>0, <1>1 DEF TypeOK
<1>6. /\ pc'[r] = "ended" /\ pump'[r] = "none" /\ listening'[r] = FALSE
      /\ role'[r] = role[r] /\ connected'[r] = connected[r]
      /\ aborted'[r] = aborted[r] /\ generating'[r] = FALSE
  BY <1>0 DEF PreStreamError, Goto, StopListening, HangUp, TypeOK
<1>7. /\ SlotsOK' /\ SlotsFollowWork'
      /\ holders' \subseteq Requests /\ queue' \in Seq(Requests)
  BY <1>0, <1>2, <1>4, <1>6, FramedAlone, AtRest, SlotGoes DEF PreStreamError
<1>8. ControlTyped(r)
  BY <1>0, <1>6 DEF ControlTyped, TypeOK, Places
<1>9. ReportTyped(r)
  BY <1>3, <1>5 DEF ReportTyped
<1>10. AllSaid(r)'
  BY <1>3, <1>5, <1>6 DEF AllSaid, Agree, Classes
<1>11. surface[r] \notin ToolSurfaces
  BY <1>0, NotATool
<1> QED
  BY <1>2, <1>4, <1>6, <1>7, <1>8, <1>9, <1>10, <1>11, LastStep

(* The handler ends while its stream flows; a Responses stream keeps its slot. *)
LEMMA StreamOpensStep ==
    ASSUME IInv, NEW r \in Requests,
           \/ (StreamOpens(r) /\ surface[r] # "responses")
           \/ StreamOpensHolding(r)
    PROVE  IInv'
<1>0. /\ TypeOK /\ pc[r] = "calling" /\ stream[r] /\ ~Finished(r) /\ ~Waiting(r)
      /\ r \in holders
  BY NotFinished, WaitingIsQueued DEF IInv, StreamOpens, StreamOpensHolding, Streams
<1>1. Framed(r) /\ UNCHANGED reports
  BY <1>0 DEF StreamOpens, StreamOpensHolding, Goto, Framed, TypeOK
<1>2. /\ pc'[r] = "ended" /\ pump'[r] = "flowing" /\ role'[r] = role[r] /\ surface' = surface
      /\ connected'[r] = connected[r] /\ listening'[r] = listening[r]
      /\ aborted'[r] = aborted[r] /\ generating'[r] = generating[r]
  BY <1>0 DEF StreamOpens, StreamOpensHolding, Goto, TypeOK
<1>3. ControlTyped(r)
  BY <1>0, <1>2 DEF ControlTyped, TypeOK, Places
<1>4. /\ SlotsOK' /\ SlotsFollowWork'
      /\ holders' \subseteq Requests /\ queue' \in Seq(Requests)
  <2>1. CASE StreamOpens(r) /\ surface[r] # "responses"
    <3>1. ~Working(r)'
      BY <1>2, <2>1 DEF Working
    <3> QED
      BY <1>0, <1>1, <2>1, <3>1, FramedAlone, SlotGoes DEF StreamOpens
  <2>2. CASE StreamOpensHolding(r)
    <3>1. Working(r)'
      BY <1>0, <1>2, <2>2 DEF Working, StreamOpensHolding, Streams, IInv, Accounts, Account
    <3>2. UNCHANGED slots
      BY <2>2 DEF StreamOpensHolding, slots
    <3> QED
      BY <1>0, <1>1, <3>1, <3>2, SlotsAlone
  <2> QED
    BY <2>1, <2>2
<1>5. ~Finished(r)'
  BY <1>2 DEF Finished
<1> QED
  BY <1>0, <1>1, <1>2, <1>3, <1>4, <1>5, NotATool, QuietStep

(* The stream ends, and sseCleanup says everything at once.                    *)
LEMMA StreamEndsStep ==
    ASSUME IInv, NEW r \in Requests, NEW failed \in BOOLEAN, StreamEnds(r, failed)
    PROVE  IInv'
<1>0. /\ TypeOK /\ pc[r] = "ended" /\ pump[r] = "flowing" /\ ~Waiting(r)
      /\ rows[r] = <<>> /\ marker[r] = "none" /\ turns[r] = FALSE /\ verdicts[r] = <<>>
  BY Unheard, NotFinished, WaitingIsQueued DEF IInv, TypeOK, StreamEnds
<1> DEFINE class == IF failed THEN "error" ELSE IF aborted[r] THEN "disconnect" ELSE "success"
           outcome == IF failed THEN "failure" ELSE "success"
           status == IF failed THEN "error" ELSE IF aborted[r] THEN "aborted" ELSE "done"
           said == ~failed /\ ~aborted[r]
<1>1. /\ rows' = [rows EXCEPT ![r] = <<class>>]
      /\ verdicts' = [verdicts EXCEPT ![r] = <<outcome>>]
      /\ marker' = [marker EXCEPT ![r] = status] /\ turns' = [turns EXCEPT ![r] = said]
  BY <1>0, First DEF StreamEnds, SseCleanup, Record, Recorded, Verdict, Finalize
<1>2. Framed(r)
  BY <1>0 DEF StreamEnds, StopListening, HangUp, Framed, TypeOK
<1>3. /\ class \in Classes /\ outcome \in {"success", "failure"}
      /\ status \in {"none", "done", "error", "aborted"} /\ said \in BOOLEAN
      /\ class = "success" <=> said
      /\ said => outcome = "success" /\ status = "done"
      /\ class = "error" => outcome = "failure" /\ status = "error"
      /\ class = "disconnect" => aborted[r] /\ status = "aborted"
  BY DEF Classes
<1> HIDE DEF class, outcome, status, said
<1>4. Reported(r)
  BY <1>0, <1>1 DEF Reported, TypeOK
<1>5. /\ rows'[r] = <<class>> /\ verdicts'[r] = <<outcome>> /\ marker'[r] = status
      /\ turns'[r] = said
  BY <1>0, <1>1 DEF TypeOK
<1>6. /\ pc'[r] = "ended" /\ pump'[r] = "ended" /\ listening'[r] = FALSE
      /\ role'[r] = role[r] /\ connected'[r] = connected[r] /\ stream[r]
      /\ surface' = surface /\ surface[r] \in SessionSurfaces
      /\ aborted'[r] = aborted[r] /\ generating'[r] = FALSE
  BY <1>0 DEF StreamEnds, StopListening, HangUp, TypeOK
<1>7. /\ SlotsOK' /\ SlotsFollowWork'
      /\ holders' \subseteq Requests /\ queue' \in Seq(Requests)
  BY <1>0, <1>2, <1>4, <1>6, FramedAlone, AtRest, SlotGoes DEF StreamEnds
<1>8. ControlTyped(r)
  BY <1>0, <1>6 DEF ControlTyped, TypeOK, Places
<1>9. ReportTyped(r)
  BY <1>3, <1>5 DEF ReportTyped
<1>10. AllSaid(r)'
  BY <1>0, <1>3, <1>5, <1>6 DEF AllSaid, Agree
<1>11. surface[r] \notin ToolSurfaces
  BY <1>0, NotATool
<1> QED
  BY <1>2, <1>4, <1>6, <1>7, <1>8, <1>9, <1>10, <1>11, LastStep

(* A follower starts to follow.                                                *)
LEMMA FollowStep == ASSUME IInv, NEW r \in Requests, Follow(r) PROVE IInv'
<1>0. /\ TypeOK /\ pc[r] = "acquiring" /\ pump[r] = "none" /\ ~Finished(r)
      /\ r \notin holders /\ ~Waiting(r)
  BY NotFinished, WaitingIsQueued DEF IInv, Follow
<1>1. Framed(r) /\ UNCHANGED reports /\ UNCHANGED slots
  BY <1>0 DEF Follow, Goto, Framed, TypeOK
<1>2. /\ \/ pc'[r] = "ended" /\ pump'[r] = "flowing" /\ stream[r]
         \/ pc'[r] = "following" /\ pump'[r] = "none"
      /\ role'[r] = "follower"
      /\ connected'[r] = connected[r] /\ listening'[r] = listening[r]
      /\ aborted'[r] = aborted[r] /\ generating'[r] = generating[r]
  BY <1>0 DEF Follow, Goto, TypeOK
<1>3. ControlTyped(r)
  BY <1>0, <1>2 DEF ControlTyped, TypeOK, Places
<1>4. /\ SlotsOK' /\ SlotsFollowWork'
      /\ holders' \subseteq Requests /\ queue' \in Seq(Requests)
  BY <1>0, <1>1, <1>2, SlotsAlone DEF Working
<1>5. ~Finished(r)'
  BY <1>2 DEF Finished
<1> QED
  BY <1>0, <1>1, <1>2, <1>3, <1>4, <1>5, NotATool, QuietStep

(* A follower that got the leader's body, or the end of its stream. *)
LEMMA FollowerStep ==
    ASSUME IInv, NEW r \in Requests,
           BodyArrives(r) \/ \E status \in MuxEndings : FollowerEnds(r, status)
    PROVE  IInv'
<1>0. /\ TypeOK /\ role[r] = "follower" /\ pc[r] \in {"following", "ended"}
      /\ pump[r] \in {"none", "flowing"} /\ r \notin holders /\ ~Waiting(r)
      /\ rows[r] = <<>> /\ marker[r] = "none" /\ turns[r] = FALSE /\ verdicts[r] = <<>>
  BY Unheard, NotFinished, WaitingIsQueued
  DEF IInv, Accounts, Account, TypeOK, BodyArrives, FollowerEnds
<1>1. /\ \E class \in Classes : rows' = [rows EXCEPT ![r] = <<class>>]
      /\ verdicts' = verdicts /\ marker' = marker /\ turns' = turns
  BY <1>0, First DEF BodyArrives, FollowerEnds, Record, Recorded, Classes
<1>2. Framed(r) /\ UNCHANGED slots
  BY <1>0 DEF BodyArrives, FollowerEnds, Goto, StopListening, Framed, TypeOK
<1>3. Reported(r)
  BY <1>0, <1>1 DEF Reported, TypeOK
<1>4. /\ \E class \in Classes : rows'[r] = <<class>>
      /\ verdicts'[r] = <<>> /\ marker'[r] = "none" /\ turns'[r] = FALSE
  BY <1>0, <1>1 DEF TypeOK
<1>5. /\ pc'[r] = "ended" /\ pump'[r] \in {"none", "ended"} /\ listening'[r] = FALSE
      /\ pump'[r] = "ended" => stream[r]
      /\ role'[r] = "follower" /\ connected'[r] = connected[r]
      /\ aborted'[r] = aborted[r] /\ generating'[r] = generating[r]
  BY <1>0 DEF BodyArrives, FollowerEnds, Goto, StopListening, TypeOK
<1>6. ControlTyped(r)
  BY <1>0, <1>5 DEF ControlTyped, TypeOK, Places
<1>7. /\ SlotsOK' /\ SlotsFollowWork'
      /\ holders' \subseteq Requests /\ queue' \in Seq(Requests)
  BY <1>0, <1>2, <1>3, <1>5, AtRest, SlotsAlone
<1>8. ReportTyped(r)
  BY <1>4 DEF ReportTyped
<1>9. AllSaid(r)'
  BY <1>4, <1>5 DEF AllSaid
<1>10. surface[r] \notin ToolSurfaces
  BY <1>0, NotATool
<1> QED
  BY <1>2, <1>3, <1>5, <1>6, <1>7, <1>8, <1>9, <1>10, LastStep

(* The exits that only throw. *)
LEMMA ThrowingStep ==
    ASSUME IInv, NEW r \in Requests,
           \/ KeyFails(r) \/ LeftQueue(r) \/ CallFails(r) \/ BodyFails(r)
           \/ NoSlotForAborted(r) /\ Throw(r)
    PROVE  IInv'
<1>1. /\ Exit(r) /\ Tells(r)
      /\ role' = role \/ role' = [role EXCEPT ![r] = "leader"]
      /\ pc[r] \in {"acquiring", "queued", "calling", "following"}
  BY DEF KeyFails, LeftQueue, ThrownOut, CallFails, BodyFails, NoSlotForAborted, BecomeLeader, Throw,
     Verdict, Tells
<1>2. ~Waiting(r)
  BY <1>1, WaitingIsQueued
  DEF KeyFails, LeftQueue, ThrownOut, CallFails, BodyFails, NoSlotForAborted, BecomeLeader
<1> QED
  BY <1>1, <1>2, ExitStep

(* ... and those that throw without a word to the breaker.                     *)
LEMMA SilentStep ==
    ASSUME IInv, NEW r \in Requests,
           \/ StreamGate(r) \/ StreamLeftQueue(r)
           \/ Streams(r) /\ NoSlotForAborted(r) /\ Exit(r) /\ UNCHANGED verdicts
           \/ EmbedGate(r) \/ EmbedDimsMismatch(r)
    PROVE  IInv'
<1>1. /\ Exit(r) /\ Tells(r)
      /\ role' = role \/ role' = [role EXCEPT ![r] = "leader"]
      /\ pc[r] \in {"acquiring", "queued", "calling", "following"}
  BY DEF StreamGate, StreamLeftQueue, ThrownOut, NoSlotForAborted, BecomeLeader, EmbedGate,
     EmbedDimsMismatch, OnEmbeddings, MayBeSilent, Tells
<1>2. ~Waiting(r)
  BY <1>1, WaitingIsQueued
  DEF StreamGate, StreamLeftQueue, ThrownOut, NoSlotForAborted, BecomeLeader, EmbedGate,
      EmbedDimsMismatch
<1> QED
  BY <1>1, <1>2, ExitStep

(* A step that changes nothing.                                                *)
LEMMA Idles == ASSUME IInv, UNCHANGED vars PROVE IInv'
<1>1. /\ UNCHANGED <<surface, stream, role, pc, pump, connected, listening, aborted, generating>>
      /\ UNCHANGED <<holders, queue>> /\ UNCHANGED <<rows, verdicts, marker, turns>>
  BY DEF vars, slots, reports
<1>2. TypeOK'
  BY <1>1 DEF IInv, TypeOK
<1>3. \A x \in Requests : Waiting(x)' <=> Waiting(x)
  BY <1>1 DEF Waiting
<1>4. SlotsOK' /\ SlotsFollowWork'
  BY <1>1, <1>3 DEF IInv, SlotsOK, SlotsFollowWork, Working
<1>5. Accounts'
  BY <1>1 DEF IInv, Accounts, Account, ToolAccount, ToolSaid, Finished, NothingSaid, AllSaid, Agree,
             MayBeSilent, Streams
<1> QED
  BY <1>2, <1>4, <1>5 DEF IInv

(* The steps the routes share, on the routes that take them. *)
SharedStep(r) == surface[r] \notin ToolSurfaces /\
    \/ TurnedAway(r) \/ Attach(r) \/ BadKey(r) \/ KeyFails(r) \/ Follow(r) \/ Lead(r)
    \/ Granted(r) \/ Saturated(r) \/ LeftQueue(r) \/ BodyArrives(r) \/ BodyFails(r)
    \/ CallFails(r) \/ PreStreamError(r)
    \/ CallAnswers(r) /\ surface[r] # "embeddings"
    \/ Reply(r) /\ surface[r] \in SessionSurfaces
    \/ StreamOpens(r) /\ surface[r] # "responses"
    \/ \E failed \in BOOLEAN : StreamEnds(r, failed)
    \/ \E status \in MuxEndings : FollowerEnds(r, status)

(* A shared step keeps the invariant. *)
LEMMA SharedHolds == ASSUME IInv, NEW r \in Requests, SharedStep(r) PROVE IInv'
<1>1. CASE TurnedAway(r) \/ Attach(r) \/ BadKey(r) \/ KeyFails(r) \/ Follow(r)
  BY <1>1, ArriveStep, TurnedAwayStep, ThrowingStep, FollowStep DEF SharedStep
<1>2. CASE Lead(r)
  BY <1>2, TakeStep, WaitStep, ThrowingStep DEF Lead
<1>3. CASE Saturated(r)
  BY <1>3, TimesOutStep DEF Saturated, Verdict, Tells
<1>4. CASE Granted(r) \/ LeftQueue(r) \/ BodyArrives(r) \/ BodyFails(r) \/ CallFails(r)
  BY <1>4, GrantedStep, ThrowingStep, FollowerStep
<1>5. CASE \/ CallAnswers(r) /\ surface[r] # "embeddings"
           \/ Reply(r) /\ surface[r] \in SessionSurfaces
           \/ StreamOpens(r) /\ surface[r] # "responses"
           \/ PreStreamError(r)
  BY <1>5, CallAnswersStep, ReplyStep, StreamOpensStep, PreStreamErrorStep
<1>6. CASE \/ \E failed \in BOOLEAN : StreamEnds(r, failed)
           \/ \E status \in MuxEndings : FollowerEnds(r, status)
  BY <1>6, StreamEndsStep, FollowerStep
<1> QED
  BY <1>1, <1>2, <1>3, <1>4, <1>5, <1>6 DEF SharedStep

(* Every step of chat and messages is a shared one. *)
LEMMA ChatHolds == ASSUME IInv, NEW r \in Requests, ChatStep(r) \/ MessagesStep(r) PROVE IInv'
<1>1. CASE ChatStep(r)
  BY <1>1, SharedHolds DEF ChatStep, SharedStep, SessionSurfaces, ToolSurfaces
<1>2. CASE MessagesStep(r)
  <2>1. SharedStep(r)
    BY <1>2 DEF MessagesStep, OnMessages, MessagesTurnedAway, MessagesAttach, MessagesBadKey,
       MessagesKeyFails, MessagesFollow, MessagesLead, MessagesGranted, MessagesRefused,
       MessagesBodyArrives, MessagesBodyFails, MessagesFollowerEnds, MessagesPreStreamError,
       MessagesStreamOpens, MessagesStreamEnds, MessagesCallFails, MessagesCallAnswers,
       MessagesReply, SharedStep, SessionSurfaces, ToolSurfaces
  <2> QED
    BY <2>1, SharedHolds
<1> QED
  BY <1>1, <1>2

(* Responses adds its streams. *)
LEMMA ResponsesHolds == ASSUME IInv, NEW r \in Requests, ResponsesStep(r) PROVE IInv'
<1>1. CASE \/ ResponsesTurnedAway(r) \/ ResponsesAttach(r)
           \/ StreamFollow(r) \/ StreamGranted(r) \/ StreamPreError(r)
           \/ \E status \in MuxEndings : StreamFollowerEnds(r, status)
           \/ \E failed \in BOOLEAN : StreamDone(r, failed)
           \/ PlainKeyFails(r) \/ PlainFollow(r) \/ PlainBodyEnds(r) \/ PlainLead(r) \/ PlainGranted(r)
           \/ PlainRefused(r) \/ PlainCallFails(r) \/ PlainCallAnswers(r) \/ PlainReply(r)
  <2>1. SharedStep(r)
    BY <1>1 DEF ResponsesTurnedAway, ResponsesAttach, StreamFollow, StreamGranted, StreamPreError,
       StreamFollowerEnds, StreamDone, PlainKeyFails, PlainFollow, PlainBodyEnds, PlainLead,
       PlainGranted, PlainRefused, PlainCallFails, PlainCallAnswers, PlainReply, Plain, Streams,
       SharedStep, SessionSurfaces, ToolSurfaces
  <2> QED
    BY <2>1, SharedHolds
<1>2. CASE StreamGate(r) \/ StreamKeyFails(r) \/ StreamLeftQueue(r)
  BY <1>2, SilentStep, TurnedAwayStep DEF StreamKeyFails, Streams, ToolSurfaces
<1>3. CASE StreamLead(r)
  BY <1>3, TakeStep, WaitStep, SilentStep DEF StreamLead
<1>4. CASE StreamSaturated(r)
  BY <1>4, TimesOutStep DEF StreamSaturated, MayBeSilent, Tells
<1>5. CASE StreamOpensHolding(r)
  BY <1>5, StreamOpensStep
<1> QED
  BY <1>1, <1>2, <1>3, <1>4, <1>5 DEF ResponsesStep

(* Embeddings and rerank add their own ends of a call. *)
LEMMA VectorHolds == ASSUME IInv, NEW r \in Requests, VectorStep(r) PROVE IInv'
<1>1. CASE \/ EmbedAttach(r) \/ EmbedKeyFails(r) \/ EmbedFollow(r) \/ EmbedLead(r) \/ EmbedRefused(r)
           \/ EmbedCallFails(r)
           \/ RerankAttach(r) \/ RerankKeyFails(r) \/ RerankFollow(r) \/ RerankLead(r)
           \/ RerankThrows(r) \/ RerankAnswers(r)
  <2>1. SharedStep(r)
    BY <1>1 DEF EmbedAttach, EmbedKeyFails, EmbedFollow, EmbedLead, EmbedRefused, EmbedCallFails,
       RerankAttach, RerankKeyFails, RerankFollow, RerankLead, RerankThrows, RerankAnswers,
       OnEmbeddings, OnRerank, SharedStep, ToolSurfaces
  <2> QED
    BY <2>1, SharedHolds
<1>2. CASE EmbedGate(r) \/ EmbedDimsMismatch(r)
  BY <1>2, SilentStep
<1>3. CASE EmbedFromCache(r) \/ EmbedAnswers(r)
  BY <1>3, EmbedAnswersStep
<1>4. CASE EmbedReply(r) \/ RerankReply(r)
  BY <1>4, ReplyStep
<1> QED
  BY <1>1, <1>2, <1>3, <1>4 DEF VectorStep

(* A tool call arrives, calls and ends. *)
LEMMA ToolHolds == ASSUME IInv, NEW r \in Requests, ToolStep(r) PROVE IInv'
<1>1. CASE ToolArrives(r) \/ ToolCalls(r)
  BY <1>1, ArriveStep
<1>2. CASE ToolLast(r)
  BY <1>2, ToolLastStep
<1> QED
  BY <1>1, <1>2 DEF ToolStep, ToolLast

(* Every step keeps the invariant.                                             *)
LEMMA StepHolds == IInv /\ [Next]_vars => IInv'
<1> SUFFICES ASSUME IInv, [Next]_vars PROVE IInv'
  OBVIOUS
<1>1. CASE UNCHANGED vars
  BY <1>1, Idles
<1>2. ASSUME NEW r \in Requests,
             \/ Arrive(r) \/ Disconnect(r)
             \/ ChatStep(r) \/ MessagesStep(r) \/ ResponsesStep(r) \/ VectorStep(r) \/ ToolStep(r)
      PROVE  IInv'
  BY <1>2, ArriveStep, DisconnectStep, ChatHolds, ResponsesHolds, VectorHolds, ToolHolds
<1> QED
  BY <1>1, <1>2 DEF Next

-----------------------------------------------------------------------------
(* The theorems *)

(* The invariant holds in every state the handlers can reach. *)
THEOREM Invariance == Spec => []IInv
  BY InitHolds, StepHolds, PTL DEF Spec

(* Every variable keeps its type. *)
THEOREM TypeCorrect == Spec => []TypeOK
<1>1. IInv => TypeOK
  BY DEF IInv
<1> QED
  BY <1>1, Invariance, PTL

(* A request holds a slot of its backend while it works in it and at no other  *)
(* time but between the grant and its resumption, whichever exit ends the work:*)
(* the outer finally, the pre-stream catch, the abort in the queue, the queue  *)
(* timeout, the embeddings provider or a Responses stream's sseCleanup.        *)
THEOREM SlotsFollow == Spec => []SlotsFollowWork
<1>1. IInv => SlotsFollowWork
  BY DEF IInv
<1> QED
  BY <1>1, Invariance, PTL

(* The finally block, sseCleanup, the pre-stream catch and the error handler   *)
(* write one request_log row between them, and none before the request ended;  *)
(* and no request that got past the Idempotency-Key check leaves its close     *)
(* listener on a socket that may carry the next one.                           *)
THEOREM ClosedOnce == Spec => []ClosesOnce
<1>1. ASSUME IInv PROVE OneRow
  <2>1. ASSUME NEW r \in Requests PROVE Len(rows[r]) = IF Finished(r) THEN 1 ELSE 0
    <3>1. Finished(r) => \E class \in Classes : rows[r] = <<class>>
      BY <1>1 DEF IInv, Accounts, Account, AllSaid
    <3>2. ~Finished(r) => rows[r] = <<>>
      BY <1>1 DEF IInv, Accounts, Account, NothingSaid
    <3> QED
      BY <3>1, <3>2
  <2> QED
    BY <2>1 DEF OneRow
<1>2. IInv => ListenersRemoved
  BY DEF IInv, Accounts, Account, AllSaid, ListenersRemoved
<1>3. IInv => ClosesOnce
  BY <1>1, <1>2 DEF ClosesOnce
<1> QED
  BY <1>3, Invariance, PTL

(* A finished leader told its breaker, its followers, its session and the      *)
(* request_log the same story.                                                 *)
THEOREM OneStory == Spec => []AccountsAgree
<1>1. IInv => AccountsAgree
  BY DEF IInv, Accounts, Account, AllSaid, AccountsAgree
<1> QED
  BY <1>1, Invariance, PTL

(* Of a finished tool call the breaker heard what the request_log says, or, of *)
(* a failure and from the chat tool, nothing; a disconnect is just what a      *)
(* cancelled call is; and it holds no slot, led no key and appended no turns.  *)
THEOREM ToolsTellTheTruth == Spec => []ToolsAgree
<1>1. ASSUME IInv, NEW r \in Requests, Finished(r), surface[r] \in ToolSurfaces
      PROVE  ToolAgrees(r)
  <2>1. pc[r] = "ended" /\ pump[r] # "flowing" /\ role[r] = "none" /\ ToolSaid(r)
    BY <1>1 DEF Finished, IInv, Accounts, Account, ToolAccount
  <2>2. r \notin holders /\ ~Waiting(r)
    BY <1>1, <2>1, WaitingIsQueued
  <2> QED
    BY <2>1, <2>2 DEF ToolSaid, ToolAgrees
<1>2. IInv => ToolsAgree
  BY <1>1 DEF ToolsAgree
<1> QED
  BY <1>2, Invariance, PTL
=============================================================================
