------------------------- MODULE CircuitBreakerProofs -------------------------
(* Theorems about CircuitBreaker for every set of requests and every           *)
(* configuration: a backend that fails is shielded and one that may be back is *)
(* probed, and no race of two checks admits two probes at once.                *)
(*                                                                             *)
(* Nothing but the order of the commands on the connection keeps the second    *)
(* probe out: GET, SET NX and SET of one check() are three round trips, between *)
(* which the commands of other calls execute.                                  *)
EXTENDS CircuitBreaker, SequenceTheorems, TLAPS

(* Queues whose members are all different, and what happens to the members    *)
(* when one joins, leaves from any place or is served.                         *)
DuplicateFree(q) == \A i, j \in 1..Len(q) : q[i] = q[j] => i = j
Member(x, q) == \E i \in 1..Len(q) : q[i] = x

(* Serving the head leaves exactly the other requests. *)
LEMMA TailDuplicateFree ==
    ASSUME NEW S, NEW q \in Seq(S), q # <<>>, DuplicateFree(q)
    PROVE  /\ Head(q) \in S /\ Member(Head(q), q)
           /\ Tail(q) \in Seq(S)
           /\ DuplicateFree(Tail(q))
           /\ \A x : Member(x, Tail(q)) <=> (x # Head(q) /\ Member(x, q))
<1> DEFINE p == Tail(q)
<1>1. /\ p \in Seq(S)
      /\ Len(p) = Len(q) - 1
      /\ \A i \in 1..(Len(q) - 1) : p[i] = q[i + 1]
      /\ Head(q) = q[1]
      /\ Len(q) \in Nat /\ Len(q) >= 1
  BY HeadTailProperties
<1> HIDE DEF p
<1>2. Head(q) \in S /\ Member(Head(q), q)
  BY <1>1 DEF Member
<1>3. DuplicateFree(p)
  BY <1>1 DEF DuplicateFree
<1>4. ASSUME NEW x, NEW i \in 1..Len(p), p[i] = x
      PROVE  x # Head(q) /\ Member(x, q)
  <2>1. i + 1 \in 1..Len(q) /\ q[i + 1] = x /\ i + 1 # 1 /\ 1 \in 1..Len(q)
    BY <1>1, <1>4
  <2> QED BY <2>1, <1>1 DEF DuplicateFree, Member
<1>5. ASSUME NEW x, x # Head(q), NEW i \in 1..Len(q), q[i] = x
      PROVE  Member(x, p)
  <2>1. i - 1 \in 1..(Len(q) - 1) /\ (i - 1) + 1 = i
    BY <1>1, <1>5
  <2>2. p[i - 1] = x /\ i - 1 \in 1..Len(p)
    BY <2>1, <1>1, <1>5
  <2> QED BY <2>2 DEF Member
<1> QED BY <1>1, <1>2, <1>3, <1>4, <1>5 DEF p, Member

(* A newcomer joins the others at the end. *)
LEMMA AppendDuplicateFree ==
    ASSUME NEW S, NEW q \in Seq(S), NEW r \in S, DuplicateFree(q), ~Member(r, q)
    PROVE  /\ Append(q, r) \in Seq(S)
           /\ DuplicateFree(Append(q, r))
           /\ \A x : Member(x, Append(q, r)) <=> (x = r \/ Member(x, q))
<1> DEFINE p == Append(q, r)
<1>1. /\ p \in Seq(S)
      /\ Len(p) = Len(q) + 1
      /\ \A i \in 1..Len(q) : p[i] = q[i]
      /\ p[Len(q) + 1] = r
      /\ Len(q) \in Nat
  BY AppendProperties
<1> HIDE DEF p
<1>2. DuplicateFree(p)
  BY <1>1 DEF DuplicateFree, Member
<1>3. \A x : Member(x, p) <=> (x = r \/ Member(x, q))
  BY <1>1 DEF Member
<1> QED BY <1>1, <1>2, <1>3 DEF p

Places == Commands \cup {"idle", "calling", "probing"}

(* Exactly the calls that await a reply have a command on the wire, one each.  *)
OnWire ==
    /\ DuplicateFree(wire)
    /\ \A r \in Requests : Member(r, wire) <=> pc[r] \in Commands

Base == TypeOK /\ OnWire

(* The types the arguments below are about. *)
LEMMA Typed ==
    ASSUME Base
    PROVE  /\ pc \in [Requests -> Places] /\ age \in [Requests -> 0..MaxCall]
           /\ \A r \in Requests : age[r] \in Nat
           /\ MaxCall \in Nat /\ Cooldown \in Nat \ {0} /\ StateTTL = Cooldown + Cooldown
           /\ ProbeLockTTL \in Nat /\ ProbeLockTTL >= Cooldown
           /\ {stateTTL, probeIn, probeTTL, lockTTL} \subseteq Nat
<1>0. /\ {Cooldown, AdapterTimeout} \subseteq Nat \ {0} /\ MaxCall \in Nat /\ TypeOK
  BY BreakerAssumption DEF Base
<1>1. pc \in [Requests -> Places] /\ age \in [Requests -> 0..MaxCall]
  BY <1>0 DEF TypeOK, Places
<1>2. /\ StateTTL = Cooldown + Cooldown /\ StateTTL \in Nat
      /\ ProbeLockTTL \in Nat /\ ProbeLockTTL >= Cooldown
  BY <1>0 DEF StateTTL, ProbeLockTTL
<1>3. {stateTTL, probeIn, probeTTL, lockTTL} \subseteq Nat
  <2>1. stateTTL \in 0..StateTTL /\ probeIn \in 0..Cooldown /\ probeTTL \in 0..StateTTL
        /\ lockTTL \in 0..ProbeLockTTL
    BY <1>0 DEF TypeOK
  <2> QED BY <1>0, <1>2, <2>1
<1>4. \A r \in Requests : age[r] \in Nat BY <1>0, <1>1
<1> QED BY <1>0, <1>1, <1>2, <1>3, <1>4

(* The wire and the calls on it. *)
LEMMA Wired ==
    ASSUME Base
    PROVE  /\ wire \in Seq(Requests) /\ DuplicateFree(wire) /\ pc \in [Requests -> Places]
           /\ Len(wire) \in Nat
           /\ \A i \in 1..Len(wire) : wire[i] \in Requests /\ pc[wire[i]] \in Commands
<1>1. wire \in Seq(Requests) /\ DuplicateFree(wire) BY DEF Base, TypeOK, OnWire
<1>2. \A i \in 1..Len(wire) : wire[i] \in Requests BY <1>1
<1>3. \A r \in Requests : Member(r, wire) => pc[r] \in Commands BY DEF Base, OnWire
<1>4. \A i \in 1..Len(wire) : Member(wire[i], wire) BY DEF Member
<1> QED BY Typed, <1>1, <1>2, <1>3, <1>4

-----------------------------------------------------------------------------
(* The connection *)

(* A call that had none puts its first command on the wire. *)
LEMMA Sent ==
    ASSUME Base, NEW r \in Requests, NEW c \in Commands, pc[r] \notin Commands, Send(r, c)
    PROVE  /\ pc' \in [Requests -> Places] /\ wire' \in Seq(Requests) /\ OnWire'
           /\ Len(wire') = Len(wire) + 1 /\ wire'[Len(wire) + 1] = r
           /\ \A i \in 1..Len(wire) : wire'[i] = wire[i]
<1>0. wire \in Seq(Requests) /\ pc \in [Requests -> Places] /\ Len(wire) \in Nat
  BY DEF Base, TypeOK, Places
<1>1. ~Member(r, wire) BY DEF Base, OnWire
<1>2. pc' = [pc EXCEPT ![r] = c] /\ wire' = Append(wire, r) BY DEF Send
<1>3. /\ wire' \in Seq(Requests) /\ DuplicateFree(wire')
      /\ \A x : Member(x, wire') <=> (x = r \/ Member(x, wire))
  BY <1>0, <1>1, <1>2, AppendDuplicateFree DEF Base, OnWire
<1>4. OnWire' BY <1>0, <1>2, <1>3 DEF Base, OnWire
<1>5. pc' \in [Requests -> Places] BY <1>0, <1>2 DEF Places
<1>6. /\ Len(wire') = Len(wire) + 1 /\ wire'[Len(wire) + 1] = r
      /\ \A i \in 1..Len(wire) : wire'[i] = wire[i]
  BY <1>0, <1>2, AppendProperties
<1> QED BY <1>3, <1>4, <1>5, <1>6

(* The wire without its oldest command. *)
LEMMA Executed ==
    ASSUME Base, wire # <<>>
    PROVE  /\ Head(wire) = wire[1] /\ Head(wire) \in Requests /\ pc[Head(wire)] \in Commands
           /\ Tail(wire) \in Seq(Requests) /\ DuplicateFree(Tail(wire))
           /\ \A x : Member(x, Tail(wire)) <=> (x # Head(wire) /\ Member(x, wire))
           /\ Len(wire) \in Nat \ {0} /\ Len(Tail(wire)) = Len(wire) - 1
           /\ \A i \in 1..(Len(wire) - 1) : Tail(wire)[i] = wire[i + 1]
<1>0. wire \in Seq(Requests) /\ DuplicateFree(wire) BY DEF Base, TypeOK, OnWire
<1>1. /\ Head(wire) \in Requests /\ Member(Head(wire), wire)
      /\ Tail(wire) \in Seq(Requests) /\ DuplicateFree(Tail(wire))
      /\ \A x : Member(x, Tail(wire)) <=> (x # Head(wire) /\ Member(x, wire))
  BY <1>0, TailDuplicateFree
<1>2. /\ Len(Tail(wire)) = Len(wire) - 1 /\ Len(wire) \in Nat \ {0}
      /\ \A i \in 1..(Len(wire) - 1) : Tail(wire)[i] = wire[i + 1]
  BY <1>0, HeadTailProperties, EmptySeq
<1>3. Head(wire) = wire[1] BY <1>0
<1> QED BY <1>1, <1>2, <1>3 DEF Base, OnWire

(* The caller of the oldest command sends its next one. *)
LEMMA Continued ==
    ASSUME Base, NEW r \in Requests, NEW c \in Commands, wire # <<>>, Head(wire) = r,
           Continue(r, c)
    PROVE  /\ pc' \in [Requests -> Places] /\ wire' \in Seq(Requests) /\ OnWire'
           /\ Len(wire) \in Nat \ {0} /\ wire[1] = r
           /\ Len(wire') = Len(wire) /\ wire'[Len(wire)] = r
           /\ \A i \in 1..(Len(wire) - 1) : wire'[i] = wire[i + 1]
<1> DEFINE t == Tail(wire)
<1>1. /\ r = wire[1] /\ t \in Seq(Requests) /\ DuplicateFree(t)
      /\ \A x : Member(x, t) <=> (x # r /\ Member(x, wire))
      /\ Len(wire) \in Nat \ {0} /\ Len(t) = Len(wire) - 1
      /\ \A i \in 1..(Len(wire) - 1) : t[i] = wire[i + 1]
      /\ pc[r] \in Commands
  BY Executed
<1>2. pc' = [pc EXCEPT ![r] = c] /\ wire' = Append(t, r) BY DEF Continue
<1> HIDE DEF t
<1>3. /\ wire' \in Seq(Requests) /\ DuplicateFree(wire')
      /\ \A x : Member(x, wire') <=> (x = r \/ Member(x, t))
  BY <1>1, <1>2, AppendDuplicateFree
<1>4. pc \in [Requests -> Places] BY DEF Base, TypeOK, Places
<1>5. pc' \in [Requests -> Places] BY <1>2, <1>4 DEF Places
<1>6. OnWire' BY <1>1, <1>2, <1>3, <1>4 DEF Base, OnWire
<1>7. /\ Len(wire') = Len(t) + 1 /\ wire'[Len(t) + 1] = r
      /\ \A i \in 1..Len(t) : wire'[i] = t[i]
  BY <1>1, <1>2, AppendProperties
<1> QED BY <1>1, <1>3, <1>5, <1>6, <1>7

(* Its call returns. *)
LEMMA Returned ==
    ASSUME Base, NEW r \in Requests, NEW where \in {"idle", "calling", "probing"},
           wire # <<>>, Head(wire) = r, Return(r, where)
    PROVE  /\ pc' \in [Requests -> Places] /\ wire' \in Seq(Requests) /\ OnWire'
           /\ Len(wire) \in Nat \ {0} /\ wire[1] = r /\ Len(wire') = Len(wire) - 1
           /\ \A i \in 1..(Len(wire) - 1) : wire'[i] = wire[i + 1]
<1>1. /\ r = wire[1] /\ wire' \in Seq(Requests) /\ DuplicateFree(wire')
      /\ \A x : Member(x, wire') <=> (x # r /\ Member(x, wire))
      /\ Len(wire) \in Nat \ {0} /\ Len(wire') = Len(wire) - 1
      /\ \A i \in 1..(Len(wire) - 1) : wire'[i] = wire[i + 1]
  BY Executed DEF Return
<1>2. pc' = [pc EXCEPT ![r] = where] BY DEF Return
<1>3. pc \in [Requests -> Places] /\ where \notin Commands BY DEF Base, TypeOK, Places, Commands
<1>4. pc' \in [Requests -> Places] BY <1>2, <1>3 DEF Places
<1>5. OnWire' BY <1>1, <1>2, <1>3 DEF Base, OnWire
<1> QED BY <1>1, <1>4, <1>5
-----------------------------------------------------------------------------
(* Types and the connection, action by action *)

(* check() *)
LEMMA CheckBase == ASSUME Base, NEW r \in Requests, Check(r) \/ CheckGet(r) \/ ProbeLock(r) \/ HalfOpen(r)
                   PROVE  Base'
<1> USE DEF Reply
<1>0. TypeOK /\ {Cooldown, AdapterTimeout} \subseteq Nat \ {0} BY BreakerAssumption DEF Base
<1>1. CASE Check(r)
  <2>1. Send(r, "check") /\ pc[r] \notin Commands BY <1>1 DEF Check, Commands
  <2>2. pc' \in [Requests -> Places] /\ wire' \in Seq(Requests) /\ OnWire'
    BY <2>1, Sent DEF Commands
  <2> QED BY <1>0, <1>1, <2>2 DEF Check, valkey, Base, TypeOK, Places
<1>2. CASE CheckGet(r)
  <2>1. CASE state = "open" /\ probeIn = 0 /\ Continue(r, "lock") /\ UNCHANGED age
    <3>1. pc' \in [Requests -> Places] /\ wire' \in Seq(Requests) /\ OnWire'
      BY <1>2, <2>1, Continued DEF Commands, CheckGet
    <3> QED BY <1>0, <1>2, <2>1, <3>1 DEF CheckGet, valkey, Base, TypeOK, Places
  <2>2. ASSUME NEW verdict \in {"open", "closed"}, Admit(r, verdict) PROVE Base'
    <3>1. PICK where \in {"idle", "calling", "probing"} : Return(r, where) /\ UNCHANGED age
      BY <2>2 DEF Admit
    <3>2. pc' \in [Requests -> Places] /\ wire' \in Seq(Requests) /\ OnWire'
      BY <1>2, <3>1, Returned DEF CheckGet
    <3>3. UNCHANGED <<valkey, crashes>> BY <1>2 DEF CheckGet
    <3> QED BY <1>0, <3>1, <3>2, <3>3 DEF valkey, Base, TypeOK, Places
  <2> QED BY <1>2, <2>1, <2>2 DEF CheckGet
<1>3. CASE ProbeLock(r)
  <2>1. lockTTL' \in 0..ProbeLockTTL /\ UNCHANGED age
    BY <1>0, <1>3 DEF ProbeLock, Admit, TypeOK, ProbeLockTTL
  <2>2. pc' \in [Requests -> Places] /\ wire' \in Seq(Requests) /\ OnWire'
    <3>1. CASE Continue(r, "halfOpen") BY <1>3, <3>1, Continued DEF ProbeLock, Commands
    <3>2. CASE Admit(r, "open") BY <1>3, <3>2, Returned DEF ProbeLock, Admit
    <3> QED BY <1>3, <3>1, <3>2 DEF ProbeLock
  <2> QED BY <1>0, <1>3, <2>1, <2>2 DEF ProbeLock, Base, TypeOK, Places
<1>4. CASE HalfOpen(r)
  <2>1. Return(r, "probing") /\ UNCHANGED age BY <1>4 DEF HalfOpen, Admit
  <2>2. pc' \in [Requests -> Places] /\ wire' \in Seq(Requests) /\ OnWire'
    BY <1>4, <2>1, Returned DEF HalfOpen
  <2>3. stateTTL' \in 0..StateTTL /\ stateTTL' # 0 BY <1>0, <1>4 DEF HalfOpen, StateTTL
  <2> QED BY <1>0, <1>4, <2>1, <2>2, <2>3 DEF HalfOpen, Base, TypeOK, Places
<1> QED BY <1>1, <1>2, <1>3, <1>4

(* The backend call *)
LEMMA EndCallBase == ASSUME Base, NEW r \in Requests, EndCall(r) PROVE Base'
<1>0. TypeOK /\ MaxCall \in Nat /\ pc[r] \notin Commands
  BY BreakerAssumption DEF Base, EndCall, TripFailure, Success, Unrecorded, InCall, Commands
<1>1. age' \in [Requests -> 0..MaxCall]
  <2>1. age' = [age EXCEPT ![r] = 0] BY DEF EndCall, TripFailure, Success, Unrecorded
  <2> QED BY <1>0, <2>1, Typed
<1>2. pc' \in [Requests -> Places] /\ wire' \in Seq(Requests) /\ OnWire'
  <2>1. CASE TripFailure(r) BY <1>0, <2>1, Sent DEF TripFailure, Commands
  <2>2. CASE Success(r) BY <1>0, <2>2, Sent DEF Success, Commands
  <2>3. CASE Unrecorded(r)
    <3>1. pc' = [pc EXCEPT ![r] = "idle"] /\ wire' = wire BY <2>3 DEF Unrecorded
    <3>2. pc' \in [Requests -> Places] /\ wire' \in Seq(Requests)
      BY <1>0, <3>1 DEF TypeOK, Places
    <3>3. \A x \in Requests : pc'[x] \in Commands <=> pc[x] \in Commands
      BY <1>0, <3>1 DEF TypeOK, Commands
    <3> QED BY <3>1, <3>2, <3>3 DEF Base, OnWire
  <2> QED BY <2>1, <2>2, <2>3 DEF EndCall
<1> QED
  BY <1>0, <1>1, <1>2 DEF EndCall, TripFailure, Success, Unrecorded, valkey, Base, TypeOK, Places

(* recordFailure() and recordSuccess() *)
LEMMA RecordBase ==
    ASSUME Base, NEW r \in Requests,
           \/ FailureGet(r) \/ Reopen(r) \/ FailureIncr(r) \/ FailureExpire(r) \/ Open(r)
           \/ SuccessGet(r) \/ Close(r)
    PROVE  Base'
<1> USE DEF Reply
<1>0. TypeOK /\ {Threshold, Window, Cooldown, AdapterTimeout} \subseteq Nat \ {0}
  BY BreakerAssumption DEF Base
<1>1. wire # <<>> /\ Head(wire) = r /\ UNCHANGED <<age, crashes>>
  BY DEF FailureGet, Reopen, FailureIncr, FailureExpire, Open, SuccessGet, Close
<1>2. Return(r, "idle") \/ \E c \in Commands : Continue(r, c)
  BY DEF FailureGet, Reopen, FailureIncr, FailureExpire, Open, SuccessGet, Close, Commands
<1>3. pc' \in [Requests -> Places] /\ wire' \in Seq(Requests) /\ OnWire'
  BY <1>1, <1>2, Continued, Returned
<1>4. /\ state' \in {"none", "open", "half-open"} /\ stateTTL' \in 0..StateTTL
      /\ state' = "none" <=> stateTTL' = 0
      /\ probeIn' \in 0..Cooldown /\ probeTTL' \in 0..StateTTL /\ lockTTL' \in 0..ProbeLockTTL
  <2>0. StateTTL \in Nat \ {0} /\ ProbeLockTTL \in Nat BY <1>0 DEF StateTTL, ProbeLockTTL
  <2>1. CASE UNCHANGED <<state, stateTTL, probeIn, probeTTL, lockTTL>>
    BY <1>0, <2>1 DEF TypeOK
  <2>2. CASE OpenFor(StateTTL) /\ lockTTL' \in {0, lockTTL}
    BY <1>0, <2>0, <2>2 DEF OpenFor, TypeOK
  <2>3. CASE Close(r) BY <1>0, <2>0, <2>3 DEF Close
  <2> QED
    BY <2>1, <2>2, <2>3 DEF FailureGet, Reopen, FailureIncr, FailureExpire, Open, SuccessGet, valkey
<1>5. fails' \in 0..Threshold /\ failsTTL' \in 0..Window
  <2>1. CASE FailureIncr(r)
    <3>1. fails \in 0..Threshold /\ failsTTL' = failsTTL /\ failsTTL \in 0..Window
      BY <1>0, <2>1 DEF FailureIncr, TypeOK
    <3>2. fails' = IF fails + 1 > Threshold THEN Threshold ELSE fails + 1
      BY <2>1 DEF FailureIncr
    <3> QED BY <1>0, <3>1, <3>2
  <2>2. CASE FailureExpire(r) BY <1>0, <2>2 DEF FailureExpire, TypeOK
  <2>3. CASE Close(r) BY <1>0, <2>3 DEF Close
  <2>4. CASE UNCHANGED <<fails, failsTTL>> BY <1>0, <2>4 DEF TypeOK
  <2> QED BY <2>1, <2>2, <2>3, <2>4 DEF FailureGet, Reopen, Open, SuccessGet, valkey
<1> QED BY <1>0, <1>1, <1>3, <1>4, <1>5 DEF Base, TypeOK, Places

(* Time *)
LEMMA TickBase == ASSUME Base, Tick PROVE Base'
<1>0. TypeOK /\ {Threshold, Window, Cooldown, AdapterTimeout} \subseteq Nat \ {0} /\ MaxCall \in Nat
  BY BreakerAssumption DEF Base
<1>1. ASSUME NEW n \in Nat, NEW ttl \in 0..n PROVE Less(ttl) \in 0..n /\ (Less(ttl) = 0 <=> ttl \in {0, 1})
  BY DEF Less
<1>2. /\ stateTTL' = Less(stateTTL) /\ probeTTL' = Less(probeTTL) /\ lockTTL' = Less(lockTTL)
      /\ state' = (IF stateTTL = 1 THEN "none" ELSE state)
      /\ probeIn' = (IF probeTTL = 1 THEN 0 ELSE Less(probeIn))
  BY DEF Tick
<1>3. /\ state' \in {"none", "open", "half-open"} /\ stateTTL' \in 0..StateTTL
      /\ state' = "none" <=> stateTTL' = 0
      /\ probeIn' \in 0..Cooldown /\ probeTTL' \in 0..StateTTL /\ lockTTL' \in 0..ProbeLockTTL
  <2>1. stateTTL \in 0..StateTTL /\ probeTTL \in 0..StateTTL /\ lockTTL \in 0..ProbeLockTTL
        /\ probeIn \in 0..Cooldown /\ state \in {"none", "open", "half-open"}
        /\ (state = "none" <=> stateTTL = 0)
    BY <1>0 DEF TypeOK
  <2>2. StateTTL \in Nat /\ ProbeLockTTL \in Nat BY Typed
  <2> QED BY <1>0, <1>1, <1>2, <2>1, <2>2
<1>4. fails' \in 0..Threshold /\ failsTTL' \in 0..Window
  BY <1>0 DEF Tick, Less, TypeOK
<1>5. age' \in [Requests -> 0..MaxCall]
  <2>1. \A r \in Requests : (IF InCall(r) THEN age[r] + 1 ELSE 0) \in 0..MaxCall
    BY <1>0, Typed DEF Tick
  <2>2. age' = [r \in Requests |-> IF InCall(r) THEN age[r] + 1 ELSE 0] BY DEF Tick
  <2> QED BY <2>1, <2>2
<1>6. UNCHANGED <<pc, wire, crashes>> /\ OnWire' BY DEF Tick, Base, OnWire
<1> QED BY <1>0, <1>1, <1>2, <1>3, <1>4, <1>5, <1>6 DEF Base, TypeOK

(* A restart *)
LEMMA CrashBase == ASSUME Base, Crash PROVE Base'
<1>0. TypeOK /\ MaxCall \in Nat BY BreakerAssumption DEF Base
<1>1. pc' = [r \in Requests |-> "idle"] /\ age' = [r \in Requests |-> 0] /\ wire' = <<>>
      /\ UNCHANGED valkey
  BY DEF Crash
<1>2. crashes' \in 0..MaxCrashes
  <2>1. crashes \in 0..MaxCrashes BY <1>0 DEF TypeOK
  <2>2. MaxCrashes \in Nat BY BreakerAssumption
  <2> QED BY <2>1, <2>2 DEF Crash
<1>3. TypeOK' BY <1>0, <1>1, <1>2 DEF TypeOK, valkey
<1>4. OnWire' BY <1>1 DEF OnWire, DuplicateFree, Member, Commands
<1> QED BY <1>3, <1>4 DEF Base

(* All of it *)
LEMMA NextBase == ASSUME Base, [Next]_vars PROVE Base'
<1>1. ASSUME NEW r \in Requests, Check(r) \/ Execute(r) \/ EndCall(r) PROVE Base'
  BY <1>1, CheckBase, EndCallBase, RecordBase DEF Execute
<1>2. CASE UNCHANGED vars
  BY <1>2 DEF vars, valkey, Base, TypeOK, OnWire
<1> QED BY <1>1, <1>2, TickBase, CrashBase DEF Next

(* It holds when the router first boots. *)
LEMMA InitBase == Init => Base
<1> SUFFICES ASSUME Init PROVE Base OBVIOUS
<1>0. {Threshold, Window, Cooldown, AdapterTimeout} \subseteq Nat \ {0}
      /\ MaxCall \in Nat /\ MaxCrashes \in Nat
  BY BreakerAssumption
<1>1. TypeOK BY <1>0 DEF Init, TypeOK, StateTTL, ProbeLockTTL
<1>2. OnWire BY DEF Init, OnWire, DuplicateFree, Member, Commands
<1> QED BY <1>1, <1>2 DEF Base

(* TypeOK, and the connection's discipline *)
LEMMA BaseHolds == Spec => []Base
<1>1. Base /\ [Next]_vars => Base' BY NextBase
<1> QED BY InitBase, <1>1, PTL DEF Spec

(* Every key keeps its type; a state key never lives without a TTL, however the *)
(* commands of different calls follow each other.                              *)
THEOREM TypeCorrect == Spec => []TypeOK
<1>1. Base => TypeOK BY DEF Base
<1> QED BY BaseHolds, <1>1, PTL

-----------------------------------------------------------------------------
(* The state key outlives probe_at *)

(* What a step does to the two keys an open breaker lives by. *)
LEMMA OutlivesStep ==
    ASSUME Base, OpenOutlivesCooldown, [Next]_vars
    PROVE  OpenOutlivesCooldown'
<1>0. TypeOK /\ Cooldown \in Nat \ {0} /\ StateTTL = Cooldown + Cooldown
  BY BreakerAssumption DEF Base, StateTTL
<1>1. ASSUME NEW r \in Requests, Check(r) \/ Execute(r) \/ EndCall(r)
      PROVE  OpenOutlivesCooldown'
  <2>1. CASE UNCHANGED <<state, stateTTL, probeIn, probeTTL>>
    BY <2>1 DEF OpenOutlivesCooldown
  <2>2. CASE OpenFor(StateTTL) BY <1>0, <2>2 DEF OpenFor, OpenOutlivesCooldown
  <2>3. CASE HalfOpen(r) BY <2>3 DEF HalfOpen, OpenOutlivesCooldown
  <2>4. CASE Close(r) BY <2>4 DEF Close, OpenOutlivesCooldown
  <2>5. Check(r) \/ EndCall(r) => UNCHANGED <<state, stateTTL, probeIn, probeTTL>>
    BY DEF Check, EndCall, TripFailure, Success, Unrecorded, valkey
  <2>6. CASE Execute(r)
    BY <2>6, <2>1, <2>2, <2>3, <2>4
       DEF Execute, CheckGet, ProbeLock, FailureGet, Reopen, FailureIncr, FailureExpire, Open,
           SuccessGet, valkey
  <2> QED BY <1>1, <2>1, <2>5, <2>6
<1>2. CASE Tick
  <2>1. state = "open" => probeTTL = stateTTL /\ (probeIn > 0 => stateTTL = probeIn + Cooldown)
    BY DEF OpenOutlivesCooldown
  <2>2. state' = "open" => state = "open" /\ stateTTL # 1 BY <1>2 DEF Tick
  <2> QED BY <1>0, <1>2, <2>1, <2>2 DEF Tick, Less, TypeOK, OpenOutlivesCooldown
<1>3. CASE Crash BY <1>3 DEF Crash, valkey, OpenOutlivesCooldown
<1>4. CASE UNCHANGED vars BY <1>4 DEF vars, valkey, OpenOutlivesCooldown
<1> QED BY <1>1, <1>2, <1>3, <1>4 DEF Next

-----------------------------------------------------------------------------
(* The failure counter *)

(* A count has a TTL, or its PEXPIRE is on the wire. *)
CountExpires ==
    /\ fails = 0 => failsTTL = 0
    /\ crashes = 0 /\ fails > 0 /\ failsTTL = 0 => \E r \in Requests : pc[r] = "expire"

(* Every PEXPIRE on the wire has a SET state open behind it. *)
OpenFollows ==
    \A i \in 1..Len(wire) : pc[wire[i]] = "expire" =>
        \E j \in 1..Len(wire) : i < j /\ pc[wire[j]] = "open"

(* A full count: the breaker is about to open, or will stay open (or half-open) *)
(* for as long as the count lasts. A PEXPIRE that still waits then prolongs the *)
(* count, but an opening behind it prolongs the state.                         *)
Opening ==
    \E r \in Requests : pc[r] = "open" \/ (Threshold = 1 /\ pc[r] = "expire")
FullCount ==
    crashes = 0 /\ fails >= Threshold =>
        /\ Opening \/ (state # "none" /\ failsTTL <= stateTTL)
        /\ Threshold > 1 => OpenFollows

(* How the wire moves under a step of one request that sends nothing, or a     *)
(* command that is not a PEXPIRE.                                              *)
LEMMA StillFollows ==
    ASSUME Base, OpenFollows, NEW r \in Requests,
           \/ \E c \in Commands \ {"expire"} : pc[r] \notin Commands /\ Send(r, c)
           \/ wire # <<>> /\ Head(wire) = r /\ \E c \in Commands \ {"expire"} : Continue(r, c)
           \/ wire # <<>> /\ Head(wire) = r
              /\ \E where \in {"idle", "calling", "probing"} : Return(r, where)
           \/ pc[r] \notin Commands /\ wire' = wire /\ pc' = [pc EXCEPT ![r] = "idle"]
    PROVE  OpenFollows'
<1>0. /\ wire \in Seq(Requests) /\ DuplicateFree(wire) /\ pc \in [Requests -> Places]
      /\ Len(wire) \in Nat
      /\ \A i \in 1..Len(wire) : wire[i] \in Requests /\ pc[wire[i]] \in Commands
  BY Wired
<1>1. ASSUME NEW c \in Commands \ {"expire"}, pc[r] \notin Commands, Send(r, c)
      PROVE  OpenFollows'
  <2>1. /\ Len(wire') = Len(wire) + 1 /\ wire'[Len(wire) + 1] = r
        /\ \A i \in 1..Len(wire) : wire'[i] = wire[i]
    BY <1>1, Sent
  <2>2. pc' = [pc EXCEPT ![r] = c] BY <1>1 DEF Send
  <2>3. \A i \in 1..Len(wire) : pc'[wire'[i]] = pc[wire[i]]
    BY <1>0, <1>1, <2>1, <2>2
  <2>4. pc'[wire'[Len(wire) + 1]] # "expire" BY <1>0, <1>1, <2>1, <2>2
  <2> QED BY <1>0, <2>1, <2>3, <2>4 DEF OpenFollows
<1>2. ASSUME NEW n \in {0, 1}, Len(wire') = Len(wire) - 1 + n, Len(wire) > 0, wire[1] = r,
             \A i \in 1..(Len(wire) - 1) : wire'[i] = wire[i + 1],
             n = 1 => pc'[wire'[Len(wire)]] # "expire",
             \A x \in Requests : x # r => pc'[x] = pc[x]
      PROVE  OpenFollows'
  <2>1. \A i \in 1..(Len(wire) - 1) : pc'[wire'[i]] = pc[wire[i + 1]]
    BY <1>0, <1>2 DEF DuplicateFree
  <2>2. ASSUME NEW i \in 1..Len(wire'), pc'[wire'[i]] = "expire"
        PROVE  \E j \in 1..Len(wire') : i < j /\ pc'[wire'[j]] = "open"
    <3>1. i \in 1..(Len(wire) - 1) BY <1>0, <1>2, <2>2
    <3>2. PICK j \in 1..Len(wire) : i + 1 < j /\ pc[wire[j]] = "open"
      BY <1>0, <2>1, <2>2, <3>1 DEF OpenFollows
    <3>3. j - 1 \in 1..(Len(wire) - 1) /\ i < j - 1 /\ (j - 1) + 1 = j BY <1>0, <3>1, <3>2
    <3>4. pc'[wire'[j - 1]] = pc[wire[(j - 1) + 1]] /\ (j - 1) + 1 = j BY <2>1, <3>3
    <3>5. j - 1 \in 1..Len(wire') BY <1>0, <1>2, <3>3
    <3> QED BY <3>2, <3>3, <3>4, <3>5
  <2> QED BY <2>2 DEF OpenFollows
<1>3. ASSUME NEW c \in Commands \ {"expire"}, wire # <<>>, Head(wire) = r, Continue(r, c)
      PROVE  OpenFollows'
  <2>1. pc' = [pc EXCEPT ![r] = c] BY <1>3 DEF Continue
  <2>2. /\ Len(wire) \in Nat \ {0} /\ wire[1] = r
        /\ Len(wire') = Len(wire) /\ wire'[Len(wire)] = r
        /\ \A i \in 1..(Len(wire) - 1) : wire'[i] = wire[i + 1]
    BY <1>3, Continued
  <2>3. Len(wire') = Len(wire) - 1 + 1 /\ Len(wire) > 0 /\ pc'[wire'[Len(wire)]] # "expire"
    BY <1>0, <1>3, <2>1, <2>2
  <2>4. \A x \in Requests : x # r => pc'[x] = pc[x] BY <1>0, <2>1
  <2> QED BY <1>2, <2>2, <2>3, <2>4
<1>4. ASSUME NEW where \in {"idle", "calling", "probing"}, wire # <<>>, Head(wire) = r, Return(r, where)
      PROVE  OpenFollows'
  <2>1. pc' = [pc EXCEPT ![r] = where] BY <1>4 DEF Return
  <2>2. /\ Len(wire) \in Nat \ {0} /\ wire[1] = r /\ Len(wire') = Len(wire) - 1
        /\ \A i \in 1..(Len(wire) - 1) : wire'[i] = wire[i + 1]
    BY <1>4, Returned
  <2>3. Len(wire') = Len(wire) - 1 + 0 /\ Len(wire) > 0 /\ 0 \in {0, 1} /\ 0 # 1 BY <2>2
  <2>4. \A x \in Requests : x # r => pc'[x] = pc[x] BY <1>0, <2>1
  <2> QED BY <1>2, <2>2, <2>3, <2>4
<1>5. CASE pc[r] \notin Commands /\ wire' = wire /\ pc' = [pc EXCEPT ![r] = "idle"]
  <2>1. \A i \in 1..Len(wire) : pc'[wire'[i]] = pc[wire[i]] BY <1>0, <1>5
  <2> QED BY <1>5, <2>1 DEF OpenFollows
<1> QED BY <1>1, <1>3, <1>4, <1>5

(* An opening that is put on the wire is behind everything. *)
LEMMA NowFollows ==
    ASSUME Base, NEW r \in Requests, wire # <<>>, Head(wire) = r, Continue(r, "open")
    PROVE  OpenFollows'
<1>1. /\ Len(wire) \in Nat \ {0} /\ Len(wire') = Len(wire) /\ wire'[Len(wire)] = r
      /\ pc' \in [Requests -> Places]
  BY Continued DEF Commands
<1>2. pc'[r] = "open" BY DEF Continue, Base, TypeOK
<1>3. ASSUME NEW i \in 1..Len(wire'), pc'[wire'[i]] = "expire"
      PROVE  \E j \in 1..Len(wire') : i < j /\ pc'[wire'[j]] = "open"
  <2>1. i # Len(wire) /\ Len(wire) \in 1..Len(wire') BY <1>1, <1>2, <1>3
  <2> QED BY <1>1, <1>2, <2>1
<1> QED BY <1>3 DEF OpenFollows

(* INCR and PEXPIRE *)
LEMMA CountStep ==
    ASSUME Base, CountExpires, FullCount, NEW r \in Requests,
           FailureIncr(r) \/ FailureExpire(r)
    PROVE  CountExpires' /\ FullCount'
<1>0. /\ TypeOK /\ Threshold \in Nat \ {0} /\ Window \in Nat \ {0}
      /\ wire # <<>> /\ Head(wire) = r /\ UNCHANGED <<state, stateTTL, crashes>>
  BY BreakerAssumption DEF Base, FailureIncr, FailureExpire, Reply
<1>1. CASE FailureIncr(r) /\ fails = 0
  <2>1. fails' = 1 /\ failsTTL' = 0 /\ Continue(r, "expire")
    BY <1>0, <1>1 DEF FailureIncr, CountExpires
  <2>2. pc'[r] = "expire" BY <1>0, <2>1 DEF Continue, TypeOK
  <2>3. CountExpires' BY <2>1, <2>2 DEF CountExpires
  <2>4. fails' >= Threshold => Threshold = 1 BY <1>0, <2>1
  <2> QED BY <1>0, <2>2, <2>3, <2>4 DEF FullCount, Opening
<1>2. CASE FailureIncr(r) /\ fails # 0
  <2>1. fails' \in Nat \ {0} /\ fails \in Nat \ {0} /\ UNCHANGED failsTTL
    BY <1>0, <1>2 DEF FailureIncr, TypeOK
  <2>2. \A x \in Requests : x # r => pc'[x] = pc[x]
    BY <1>0, <1>2 DEF FailureIncr, Continue, Return, TypeOK
  <2>3. pc[r] = "incr" BY <1>2 DEF FailureIncr, Reply
  <2>4. CountExpires'
    <3>1. fails > 0 /\ fails' # 0 BY <2>1
    <3>2. ASSUME crashes = 0, failsTTL = 0 PROVE \E x \in Requests : pc'[x] = "expire"
      BY <2>2, <2>3, <3>1, <3>2 DEF CountExpires
    <3> QED BY <1>0, <2>1, <3>1, <3>2 DEF CountExpires
  <2>5. CASE fails + 1 >= Threshold
    <3>1. Continue(r, "open") BY <1>0, <1>2, <2>5 DEF FailureIncr, AfterCount, TypeOK
    <3>2. pc'[r] = "open" BY <1>0, <3>1 DEF Continue, TypeOK
    <3>3. OpenFollows' BY <1>0, <3>1, NowFollows
    <3> QED BY <2>4, <3>2, <3>3 DEF FullCount, Opening
  <2>6. CASE fails + 1 < Threshold
    <3>1. fails' = fails + 1 BY <1>0, <1>2, <2>1, <2>6 DEF FailureIncr
    <3>2. ~(fails' >= Threshold) BY <1>0, <2>1, <2>6, <3>1
    <3> QED BY <2>4, <3>2 DEF FullCount
  <2> QED BY <1>0, <2>5, <2>6 DEF TypeOK
<1>3. CASE FailureExpire(r)
  <2>1. fails' = fails /\ failsTTL' = (IF fails = 0 THEN 0 ELSE Window) BY <1>3 DEF FailureExpire
  <2>2. CountExpires' BY <1>0, <2>1 DEF CountExpires, TypeOK
  <2>3. CASE Threshold = 1
    <3>1. Continue(r, "open") BY <1>3, <2>3 DEF FailureExpire, AfterCount
    <3>2. pc'[r] = "open" BY <1>0, <3>1 DEF Continue, TypeOK
    <3> QED BY <2>2, <2>3, <3>2 DEF FullCount, Opening
  <2>4. CASE Threshold > 1 /\ crashes = 0 /\ fails >= Threshold
    <3>1. Return(r, "idle") BY <1>0, <1>3, <2>4 DEF FailureExpire, AfterCount
    <3>2. OpenFollows BY <2>4 DEF FullCount
    <3>3. OpenFollows' BY <1>0, <3>1, <3>2, StillFollows
    <3>4. 1 \in 1..Len(wire) /\ wire[1] = r /\ pc[r] = "expire"
          /\ \A i \in 1..Len(wire) : wire[i] \in Requests
      BY <1>0, <1>3, Executed DEF FailureExpire, Reply, TypeOK
    <3>5. PICK j \in 1..Len(wire) : pc[wire[j]] = "open" BY <3>2, <3>4 DEF OpenFollows
    <3>6. wire[j] \in Requests /\ wire[j] # r BY <3>4, <3>5
    <3>7. pc'[wire[j]] = "open" BY <1>0, <3>1, <3>5, <3>6 DEF Return, TypeOK
    <3> QED BY <2>2, <3>3, <3>6, <3>7 DEF FullCount, Opening
  <2>5. CASE ~(crashes = 0 /\ fails >= Threshold)
    BY <1>0, <2>1, <2>2, <2>5 DEF FullCount
  <2> QED BY <1>0, <2>3, <2>4, <2>5
<1> QED BY <1>1, <1>2, <1>3

(* Every other command, and the steps of the backend call *)
LEMMA OtherCountStep ==
    ASSUME Base, CountExpires, FullCount, Window <= StateTTL, NEW r \in Requests,
           Check(r) \/ Execute(r) \/ EndCall(r), ~FailureIncr(r), ~FailureExpire(r)
    PROVE  CountExpires' /\ FullCount'
<1>0. /\ TypeOK /\ Threshold \in Nat \ {0} /\ Window \in Nat \ {0} /\ StateTTL \in Nat \ {0}
      /\ UNCHANGED crashes
  BY BreakerAssumption
     DEF Base, StateTTL, Check, Execute, EndCall, CheckGet, ProbeLock, HalfOpen, TripFailure,
         Success, Unrecorded, FailureGet, Reopen, Open, SuccessGet, Close
<1>1. CASE Close(r)
  <2>1. fails' = 0 /\ failsTTL' = 0 BY <1>1 DEF Close
  <2> QED BY <1>0, <2>1 DEF CountExpires, FullCount
<1>2. CASE ~Close(r)
  <2>1. UNCHANGED <<fails, failsTTL>>
    BY <1>2 DEF Check, Execute, EndCall, CheckGet, ProbeLock, HalfOpen, TripFailure,
                Success, Unrecorded, FailureGet, Reopen, Open, SuccessGet, valkey
  <2>2. /\ pc[r] # "expire"
        /\ \A x \in Requests : x # r => pc'[x] = pc[x]
    BY <1>0, <1>2 DEF Check, Execute, EndCall, CheckGet, ProbeLock, HalfOpen, TripFailure,
                Success, Unrecorded, FailureGet, Reopen, Open, SuccessGet, Reply, InCall,
                Send, Continue, Return, Admit, TypeOK
  <2>3. CountExpires' BY <1>0, <2>1, <2>2 DEF CountExpires
  <2>4. OpenFollows => OpenFollows'
    <3>1. \/ \E c \in Commands \ {"expire"} : pc[r] \notin Commands /\ Send(r, c)
          \/ wire # <<>> /\ Head(wire) = r /\ \E c \in Commands \ {"expire"} : Continue(r, c)
          \/ wire # <<>> /\ Head(wire) = r
             /\ \E where \in {"idle", "calling", "probing"} : Return(r, where)
          \/ pc[r] \notin Commands /\ wire' = wire /\ pc' = [pc EXCEPT ![r] = "idle"]
      <4>1. CASE Check(r) \/ EndCall(r)
        BY <4>1 DEF Check, EndCall, TripFailure, Success, Unrecorded, InCall, Commands
      <4>2. CASE Execute(r)
        <5>1. wire # <<>> /\ Head(wire) = r
          BY <1>2, <4>2 DEF Execute, CheckGet, ProbeLock, HalfOpen, FailureGet, Reopen, Open,
                            SuccessGet, Reply
        <5>2. \/ \E c \in Commands \ {"expire"} : Continue(r, c)
              \/ \E where \in {"idle", "calling", "probing"} : Return(r, where)
          BY <1>2, <4>2 DEF Execute, CheckGet, ProbeLock, HalfOpen, FailureGet, Reopen, Open,
                            SuccessGet, Admit, Commands
        <5> QED BY <5>1, <5>2
      <4> QED BY <4>1, <4>2
    <3> QED BY <3>1, StillFollows
  <2>5. CASE crashes = 0 /\ fails >= Threshold
    <3>1. CASE OpenFor(StateTTL)
      <4>1. failsTTL <= StateTTL /\ StateTTL # 0 BY <1>0 DEF TypeOK
      <4> QED BY <2>1, <2>3, <2>4, <2>5, <3>1, <4>1 DEF OpenFor, FullCount
    <3>2. CASE HalfOpen(r)
      <4>1. failsTTL <= StateTTL BY <1>0 DEF TypeOK
      <4> QED BY <2>1, <2>3, <2>4, <2>5, <3>2, <4>1 DEF HalfOpen, FullCount
    <3>3. CASE UNCHANGED <<state, stateTTL>> /\ pc[r] # "open"
      BY <2>1, <2>2, <2>3, <2>4, <2>5, <3>3 DEF FullCount, Opening
    <3>4. CASE Execute(r)
      BY <1>2, <3>1, <3>2, <3>3, <3>4
         DEF Execute, CheckGet, ProbeLock, FailureGet, Reopen, Open, SuccessGet, Reply, valkey
    <3>5. CASE Check(r) \/ EndCall(r)
      BY <3>3, <3>5 DEF Check, EndCall, TripFailure, Success, Unrecorded, InCall, valkey
    <3> QED BY <3>4, <3>5
  <2>6. CASE ~(crashes = 0 /\ fails >= Threshold)
    BY <1>0, <2>1, <2>3, <2>6 DEF FullCount
  <2> QED BY <2>5, <2>6
<1> QED BY <1>1, <1>2

(* Time passes when the wire is empty: the count has a TTL, not longer than the *)
(* state's.                                                                     *)
LEMMA TickCount ==
    ASSUME Base, CountExpires, FullCount, Tick
    PROVE  CountExpires' /\ FullCount'
<1>0. /\ TypeOK /\ OnWire /\ wire = <<>> /\ UNCHANGED <<crashes, wire, pc>>
      /\ Threshold \in Nat \ {0} /\ Window \in Nat /\ StateTTL \in Nat
  BY BreakerAssumption DEF Base, StateTTL, Tick
<1>1. \A r \in Requests : pc[r] \notin {"expire", "open"}
  BY <1>0 DEF OnWire, Member, Commands
<1>2. fails \in Nat /\ failsTTL \in Nat /\ stateTTL \in Nat
  BY <1>0 DEF TypeOK
<1>3. fails' = (IF failsTTL = 1 THEN 0 ELSE fails) /\ failsTTL' = Less(failsTTL)
      /\ state' = (IF stateTTL = 1 THEN "none" ELSE state) /\ stateTTL' = Less(stateTTL)
  BY DEF Tick
<1>4. CountExpires'
  <2>1. crashes = 0 /\ fails > 0 => failsTTL # 0 BY <1>1 DEF CountExpires
  <2>2. fails' = 0 => failsTTL' = 0 BY <1>2, <1>3 DEF Less, CountExpires
  <2>3. crashes = 0 /\ fails' > 0 => failsTTL' # 0 BY <1>2, <1>3, <2>1 DEF Less
  <2> QED BY <1>0, <2>2, <2>3 DEF CountExpires
<1>5. ASSUME crashes' = 0, fails' >= Threshold
      PROVE  state' # "none" /\ failsTTL' <= stateTTL'
  <2>1. fails >= Threshold /\ fails > 0 /\ failsTTL # 1 BY <1>0, <1>2, <1>3, <1>5
  <2>2. failsTTL # 0 BY <1>0, <1>1, <1>5, <2>1 DEF CountExpires
  <2>3. state # "none" /\ failsTTL <= stateTTL
    BY <1>0, <1>1, <1>5, <2>1 DEF FullCount, Opening
  <2> QED BY <1>2, <1>3, <2>1, <2>2, <2>3 DEF Less
<1>6. OpenFollows' BY <1>0 DEF OpenFollows
<1> QED BY <1>4, <1>5, <1>6 DEF FullCount

(* If a failure is not counted for longer than the breaker stays open (by      *)
(* default 30 s and 120 s), then an open breaker reaches its probe, and while   *)
(* the router does not die Threshold counted failures keep the breaker from    *)
(* being closed.                                                               *)
THEOREM Shields == ASSUME Window <= StateTTL PROVE Spec => []ShieldsBackend
<1> DEFINE Inv == Base /\ OpenOutlivesCooldown /\ CountExpires /\ FullCount
<1>1. Init => Inv
  <2> SUFFICES ASSUME Init PROVE Inv OBVIOUS
  <2>1. OpenOutlivesCooldown /\ CountExpires /\ FullCount
    BY BreakerAssumption DEF Init, OpenOutlivesCooldown, CountExpires, FullCount
  <2> QED BY <2>1, InitBase
<1>2. Inv /\ [Next]_vars => Inv'
  <2> SUFFICES ASSUME Inv, [Next]_vars PROVE Inv' OBVIOUS
  <2>1. Base' /\ OpenOutlivesCooldown' BY NextBase, OutlivesStep
  <2>2. CountExpires' /\ FullCount'
    <3>1. ASSUME NEW r \in Requests, Check(r) \/ Execute(r) \/ EndCall(r)
          PROVE  CountExpires' /\ FullCount'
      BY <3>1, CountStep, OtherCountStep
    <3>2. CASE Crash
      <4>1. crashes' # 0 BY <3>2 DEF Crash, Base, TypeOK
      <4> QED BY <3>2, <4>1 DEF Crash, valkey, CountExpires, FullCount
    <3>3. CASE UNCHANGED vars
      BY <3>3 DEF vars, valkey, CountExpires, FullCount, Opening, OpenFollows
    <3> QED BY <3>1, <3>2, <3>3, TickCount DEF Next
  <2> QED BY <2>1, <2>2
<1>3. Inv => ShieldsBackend
  BY DEF ShieldsBackend, CountedOut, FullCount, Opening
<1> QED BY <1>1, <1>2, <1>3, PTL DEF Spec

-----------------------------------------------------------------------------
(* The probe lock *)

(* A request from the moment it has the probe lock until its call ends. *)
Attempt(r) == pc[r] \in {"halfOpen", "probing"}
(* A request about to delete the lock. *)
Deleting(r) == pc[r] \in {"reopen", "close"}

(* Only a call to the backend takes time. *)
AgesInCalls == \A r \in Requests : ~InCall(r) => age[r] = 0

(* Who is about to delete the lock found a half-open breaker; if it is open by  *)
(* now, its cooldown has only begun.                                           *)
DeletesWait ==
    \A r \in Requests : Deleting(r) => state \in {"half-open", "none"} \/ probeIn = Cooldown

(* So no check that found the probe due comes after a deletion on the wire, nor *)
(* what it goes on to do.                                                      *)
LocksFirst ==
    \A i, j \in 1..Len(wire) :
        i < j /\ Deleting(wire[i]) => pc[wire[j]] \notin {"lock", "halfOpen"}

(* The lock lives while its owner makes the breaker half-open. *)
FreshLock == \A r \in Requests : pc[r] = "halfOpen" => lockTTL = ProbeLockTTL

(* A check that asks for the lock too late finds it taken. *)
LockedOut ==
    \A r \in Requests : pc[r] = "lock" =>
        (state = "half-open" => lockTTL > 0) /\ \A t \in Requests : Deleting(t) => lockTTL > 0

(* While a probe is younger than a cooldown, the lock or the cooldown itself    *)
(* stands before the next one; and the lock alone, where a check is past the    *)
(* cooldown.                                                                   *)
Guarded ==
    \A p \in Requests : Attempt(p) =>
        /\ state = "half-open" => lockTTL + age[p] >= Cooldown
        /\ state = "open" => lockTTL + age[p] >= Cooldown \/ probeIn + age[p] >= Cooldown
        /\ \A r \in Requests : pc[r] = "lock" => lockTTL + age[p] >= Cooldown

Apart ==
    \A p, q \in Requests : Attempt(p) /\ Attempt(q) /\ p # q =>
        age[p] - age[q] >= Cooldown \/ age[q] - age[p] >= Cooldown

ProbeInv ==
    /\ OpenOutlivesCooldown
    /\ AgesInCalls /\ DeletesWait /\ LocksFirst /\ FreshLock /\ LockedOut
    /\ Guarded /\ Apart

(* The deletion of the lock finds nobody who asks for it or has just got it. *)
LEMMA HeadDeletes ==
    ASSUME Base, LocksFirst, NEW r \in Requests, wire # <<>>, Head(wire) = r, Deleting(r)
    PROVE  \A x \in Requests : pc[x] \notin {"lock", "halfOpen"}
<1>0. wire[1] = r /\ Len(wire) \in Nat \ {0} BY Executed
<1> SUFFICES ASSUME NEW x \in Requests, pc[x] \in {"lock", "halfOpen"} PROVE FALSE
  OBVIOUS
<1>1. Member(x, wire) BY DEF Base, OnWire, Commands
<1>2. PICK j \in 1..Len(wire) : wire[j] = x BY <1>1 DEF Member
<1>3. j # 1 /\ 1 \in 1..Len(wire) BY <1>0, <1>2 DEF Deleting
<1> QED BY <1>0, <1>2, <1>3 DEF LocksFirst

(* A step of one request on the wire keeps the order, unless it asks for the    *)
(* lock, or has it, while somebody is about to delete it.                      *)
LEMMA LocksStayFirst ==
    ASSUME Base, LocksFirst, NEW r \in Requests, NEW to \in Places,
           to \in {"lock", "halfOpen"} => \A x \in Requests : ~Deleting(x),
           \/ pc[r] \notin Commands /\ to \in Commands /\ Send(r, to)
           \/ wire # <<>> /\ Head(wire) = r /\ to \in Commands /\ Continue(r, to)
           \/ wire # <<>> /\ Head(wire) = r /\ to \notin Commands /\ Return(r, to)
           \/ pc[r] \notin Commands /\ to \notin Commands /\ wire' = wire /\ pc' = [pc EXCEPT ![r] = to]
    PROVE  LocksFirst'
<1>0. /\ wire \in Seq(Requests) /\ DuplicateFree(wire) /\ pc \in [Requests -> Places]
      /\ Len(wire) \in Nat
      /\ \A i \in 1..Len(wire) : wire[i] \in Requests /\ pc[wire[i]] \in Commands
  BY Wired
<1>1. pc' = [pc EXCEPT ![r] = to] BY DEF Send, Continue, Return
<1>2. pc'[r] = to /\ \A x \in Requests : x # r => pc'[x] = pc[x] BY <1>0, <1>1
<1>3. CASE pc[r] \notin Commands /\ to \in Commands /\ Send(r, to)
  <2>1. /\ Len(wire') = Len(wire) + 1 /\ wire'[Len(wire) + 1] = r
        /\ \A i \in 1..Len(wire) : wire'[i] = wire[i]
    BY <1>3, Sent
  <2>2. ASSUME NEW i \in 1..Len(wire'), NEW j \in 1..Len(wire'), i < j,
                    pc'[wire'[i]] \in {"reopen", "close"}
        PROVE  pc'[wire'[j]] \notin {"lock", "halfOpen"}
    <3>1. i \in 1..Len(wire) /\ wire'[i] = wire[i] /\ wire[i] # r BY <1>0, <1>3, <2>1, <2>2
    <3>2. Deleting(wire[i]) BY <1>0, <1>2, <2>2, <3>1 DEF Deleting
    <3>3. CASE j = Len(wire) + 1
      <4>1. pc'[wire'[j]] = to BY <1>2, <2>1, <3>3
      <4>2. \E x \in Requests : Deleting(x) BY <1>0, <3>1, <3>2
      <4> QED BY <4>1, <4>2
    <3>4. CASE j \in 1..Len(wire)
      <4>1. pc[wire[j]] \notin {"lock", "halfOpen"} BY <2>2, <3>1, <3>2, <3>4 DEF LocksFirst
      <4> QED BY <1>0, <1>2, <1>3, <2>1, <3>4, <4>1
    <3> QED BY <1>0, <2>1, <3>3, <3>4
  <2> QED BY <2>2 DEF LocksFirst, Deleting
<1>4. ASSUME NEW n \in {0, 1}, Len(wire') = Len(wire) - 1 + n, Len(wire) > 0, wire[1] = r,
             n = 1 => wire'[Len(wire)] = r,
             \A i \in 1..(Len(wire) - 1) : wire'[i] = wire[i + 1]
      PROVE  LocksFirst'
  <2>1. \A i \in 1..(Len(wire) - 1) :
            /\ pc'[wire'[i]] = pc[wire[i + 1]] /\ wire[i + 1] \in Requests
            /\ wire'[i] = wire[i + 1]
    BY <1>0, <1>2, <1>4 DEF DuplicateFree
  <2>2. ASSUME NEW i \in 1..Len(wire'), NEW j \in 1..Len(wire'), i < j,
                    pc'[wire'[i]] \in {"reopen", "close"}
        PROVE  pc'[wire'[j]] \notin {"lock", "halfOpen"}
    <3>1. i \in 1..(Len(wire) - 1) /\ i + 1 \in 1..Len(wire) BY <1>0, <1>4, <2>2
    <3>2. Deleting(wire[i + 1]) BY <2>1, <2>2, <3>1 DEF Deleting
    <3>3. CASE j \in 1..(Len(wire) - 1)
      <4>1. j + 1 \in 1..Len(wire) /\ i + 1 < j + 1 BY <1>0, <2>2, <3>1, <3>3
      <4>2. pc[wire[j + 1]] \notin {"lock", "halfOpen"} BY <3>1, <3>2, <4>1 DEF LocksFirst
      <4> QED BY <2>1, <3>3, <4>2
    <3>4. CASE j = Len(wire) /\ n = 1
      <4>1. pc'[wire'[j]] = to BY <1>2, <1>4, <3>4
      <4> QED BY <2>1, <3>1, <3>2, <4>1
    <3> QED BY <1>0, <1>4, <3>3, <3>4
  <2> QED BY <2>2 DEF LocksFirst, Deleting
<1>5. CASE wire # <<>> /\ Head(wire) = r /\ to \in Commands /\ Continue(r, to)
  <2>1. /\ Len(wire) \in Nat \ {0} /\ wire[1] = r /\ Len(wire') = Len(wire) /\ wire'[Len(wire)] = r
        /\ \A i \in 1..(Len(wire) - 1) : wire'[i] = wire[i + 1]
    BY <1>5, Continued
  <2>2. Len(wire') = Len(wire) - 1 + 1 BY <2>1
  <2> QED BY <1>4, <2>1, <2>2
<1>6. CASE wire # <<>> /\ Head(wire) = r /\ to \notin Commands /\ Return(r, to)
  <2>1. /\ Len(wire) \in Nat \ {0} /\ wire[1] = r /\ Len(wire') = Len(wire) - 1
        /\ \A i \in 1..(Len(wire) - 1) : wire'[i] = wire[i + 1]
    BY <1>6, Returned DEF Places
  <2>2. Len(wire') = Len(wire) - 1 + 0 BY <2>1
  <2> QED BY <1>4, <2>1, <2>2
<1>7. CASE pc[r] \notin Commands /\ to \notin Commands /\ wire' = wire
  <2>1. \A i \in 1..Len(wire) : pc'[wire'[i]] = pc[wire[i]] /\ wire'[i] = wire[i] BY <1>0, <1>2, <1>7
  <2> QED BY <1>7, <2>1 DEF LocksFirst, Deleting
<1> QED BY <1>3, <1>5, <1>6, <1>7

(* A step of r that leaves the keys alone and takes it to none of the places    *)
(* the probe lock is about.                                                    *)
LEMMA QuietStep ==
    ASSUME Base, ProbeInv, LocksFirst', NEW r \in Requests,
           NEW to \in Places \ {"lock", "halfOpen", "probing", "reopen", "close"},
           pc' = [pc EXCEPT ![r] = to],
           UNCHANGED <<state, stateTTL, probeIn, probeTTL, lockTTL>>,
           \/ age' = age /\ ~InCall(r)
           \/ age' = [age EXCEPT ![r] = 0]
    PROVE  ProbeInv'
<1>0. pc \in [Requests -> Places] /\ age \in [Requests -> 0..MaxCall]
  BY Typed
<1>1. pc'[r] = to /\ \A x \in Requests : x # r => pc'[x] = pc[x] BY <1>0
<1>2. age'[r] \in {0, age[r]} /\ \A x \in Requests : x # r => age'[x] = age[x] BY <1>0
<1>3. AgesInCalls'
  <2>1. ~InCall(r) => age[r] = 0 BY DEF ProbeInv, AgesInCalls
  <2>2. age'[r] = 0 BY <1>0, <2>1
  <2> QED BY <1>1, <1>2, <2>2 DEF ProbeInv, AgesInCalls, InCall
<1>4. \A x \in Requests : (Deleting(x)' => Deleting(x)) /\ (pc'[x] \in {"lock", "halfOpen"} => pc'[x] = pc[x])
  BY <1>1 DEF Deleting
<1>5. OpenOutlivesCooldown' /\ DeletesWait' /\ FreshLock' /\ LockedOut'
  BY <1>4 DEF ProbeInv, OpenOutlivesCooldown, DeletesWait, FreshLock, LockedOut
<1>6. \A x \in Requests : Attempt(x)' => Attempt(x) /\ age'[x] = age[x]
  BY <1>1, <1>2 DEF Attempt
<1>7. Guarded' /\ Apart' BY <1>4, <1>6 DEF ProbeInv, Guarded, Apart
<1> QED BY <1>3, <1>5, <1>7 DEF ProbeInv

(* A check that finds the probe due asks for the lock: nobody is about to       *)
(* delete it, and a younger probe still holds it.                              *)
LEMMA AsksForLock ==
    ASSUME Base, ProbeInv, NEW r \in Requests, Reply(r, "check"),
           state = "open", probeIn = 0, Continue(r, "lock"), UNCHANGED <<valkey, age>>
    PROVE  ProbeInv'
<1>0. /\ pc \in [Requests -> Places] /\ age \in [Requests -> 0..MaxCall] /\ lockTTL \in Nat
      /\ Cooldown \in Nat \ {0} /\ wire # <<>> /\ Head(wire) = r /\ pc[r] = "check"
      /\ MaxCall \in Nat
  BY Typed DEF Reply
<1>1. pc'[r] = "lock" /\ \A x \in Requests : x # r => pc'[x] = pc[x] BY <1>0 DEF Continue
<1>2. \A x \in Requests : ~Deleting(x) BY <1>0 DEF ProbeInv, DeletesWait
<1>3. LocksFirst' BY <1>0, <1>2, LocksStayFirst DEF ProbeInv, Places, Commands
<1>4. \A x \in Requests : ~Deleting(x)' BY <1>0, <1>1, <1>2 DEF Deleting
<1>5. AgesInCalls' BY <1>0, <1>1 DEF ProbeInv, AgesInCalls, InCall
<1>6. OpenOutlivesCooldown' /\ DeletesWait' /\ FreshLock' /\ LockedOut'
  BY <1>0, <1>1, <1>4 DEF ProbeInv, OpenOutlivesCooldown, DeletesWait, FreshLock, LockedOut, valkey
<1>7. \A x \in Requests : Attempt(x)' <=> Attempt(x) BY <1>0, <1>1 DEF Attempt
<1>8. \A p \in Requests : Attempt(p) => lockTTL + age[p] >= Cooldown
  <2> SUFFICES ASSUME NEW p \in Requests, Attempt(p) PROVE lockTTL + age[p] >= Cooldown OBVIOUS
  <2>1. lockTTL + age[p] >= Cooldown \/ probeIn + age[p] >= Cooldown BY DEF ProbeInv, Guarded
  <2> QED BY <1>0, <2>1
<1>9. Guarded' /\ Apart' BY <1>7, <1>8 DEF ProbeInv, Guarded, Apart, valkey
<1> QED BY <1>3, <1>5, <1>6, <1>9 DEF ProbeInv

(* The lock is free: every other probe is a cooldown old.                      *)
LEMMA TakesLock ==
    ASSUME Base, ProbeInv, NEW r \in Requests, Reply(r, "lock"), lockTTL = 0,
           lockTTL' = ProbeLockTTL, Continue(r, "halfOpen"),
           UNCHANGED <<state, stateTTL, probeIn, probeTTL, age>>
    PROVE  ProbeInv'
<1>0. /\ pc \in [Requests -> Places] /\ age \in [Requests -> 0..MaxCall] /\ probeIn \in Nat
      /\ Cooldown \in Nat \ {0} /\ wire # <<>> /\ Head(wire) = r /\ pc[r] = "lock"
      /\ ProbeLockTTL \in Nat /\ ProbeLockTTL >= Cooldown /\ MaxCall \in Nat
  BY Typed DEF Reply
<1>1. pc'[r] = "halfOpen" /\ \A x \in Requests : x # r => pc'[x] = pc[x] BY <1>0 DEF Continue
<1>2. state # "half-open" /\ \A x \in Requests : ~Deleting(x)
  BY <1>0 DEF ProbeInv, LockedOut
<1>3. LocksFirst' BY <1>0, <1>2, LocksStayFirst DEF ProbeInv, Places, Commands
<1>4. \A x \in Requests : ~Deleting(x)' BY <1>0, <1>1, <1>2 DEF Deleting
<1>5. AgesInCalls' /\ age[r] = 0 BY <1>0, <1>1 DEF ProbeInv, AgesInCalls, InCall
<1>6. FreshLock'
  <2>1. \A x \in Requests : pc[x] # "halfOpen" BY <1>0 DEF ProbeInv, FreshLock
  <2> QED BY <1>1, <2>1 DEF FreshLock, ProbeLockTTL
<1>7. OpenOutlivesCooldown' /\ DeletesWait' /\ LockedOut'
  BY <1>0, <1>1, <1>2, <1>4 DEF ProbeInv, OpenOutlivesCooldown, DeletesWait, LockedOut
<1>8. \A x \in Requests : age[x] \in Nat BY <1>0
<1>9. Guarded' BY <1>0, <1>8 DEF Guarded
<1>10. \A p \in Requests : Attempt(p) => age[p] >= Cooldown
  <2> SUFFICES ASSUME NEW p \in Requests, Attempt(p) PROVE age[p] >= Cooldown OBVIOUS
  <2>1. lockTTL + age[p] >= Cooldown BY <1>0 DEF ProbeInv, Guarded
  <2> QED BY <1>8, <2>1
<1>11. \A p \in Requests : p # r /\ Attempt(p)' => Attempt(p) BY <1>1 DEF Attempt
<1>12. Apart' BY <1>0, <1>5, <1>8, <1>10, <1>11 DEF ProbeInv, Apart
<1> QED BY <1>3, <1>5, <1>6, <1>7, <1>9, <1>12 DEF ProbeInv

(* The breaker turns half-open while the lock is as fresh as it was set.       *)
LEMMA TurnsHalfOpen ==
    ASSUME Base, ProbeInv, NEW r \in Requests, HalfOpen(r)
    PROVE  ProbeInv'
<1>0. /\ pc \in [Requests -> Places] /\ age \in [Requests -> 0..MaxCall] /\ MaxCall \in Nat
      /\ Cooldown \in Nat \ {0} /\ wire # <<>> /\ Head(wire) = r /\ pc[r] = "halfOpen"
      /\ ProbeLockTTL \in Nat /\ ProbeLockTTL >= Cooldown
  BY Typed DEF HalfOpen, Reply
<1>1. Return(r, "probing") /\ UNCHANGED age /\ UNCHANGED lockTTL /\ state' = "half-open"
  BY DEF HalfOpen, Admit
<1>2. pc'[r] = "probing" /\ \A x \in Requests : x # r => pc'[x] = pc[x] BY <1>0, <1>1 DEF Return
<1>3. lockTTL = ProbeLockTTL BY <1>0 DEF ProbeInv, FreshLock
<1>4. LocksFirst' BY <1>0, <1>1, LocksStayFirst DEF ProbeInv, Places, Commands
<1>5. AgesInCalls' BY <1>0, <1>1, <1>2 DEF ProbeInv, AgesInCalls, InCall
<1>6. FreshLock' BY <1>0, <1>1, <1>2 DEF ProbeInv, FreshLock, ProbeLockTTL
<1>7. OpenOutlivesCooldown' /\ DeletesWait' BY <1>1 DEF OpenOutlivesCooldown, DeletesWait
<1>8. LockedOut' BY <1>0, <1>1, <1>3 DEF LockedOut
<1>9. \A x \in Requests : age[x] \in Nat BY <1>0
<1>10. Guarded' BY <1>0, <1>1, <1>3, <1>9 DEF Guarded
<1>11. \A x \in Requests : Attempt(x)' <=> Attempt(x) BY <1>0, <1>2 DEF Attempt
<1>12. Apart' BY <1>1, <1>11 DEF ProbeInv, Apart
<1> QED BY <1>4, <1>5, <1>6, <1>7, <1>8, <1>10, <1>12 DEF ProbeInv

(* A recorded outcome finds the breaker half-open: it is about to delete the    *)
(* lock. Whoever is still asking for the lock finds it taken.                  *)
LEMMA DeletesNext ==
    ASSUME Base, ProbeInv, NEW r \in Requests, NEW c \in {"failure", "success"},
           NEW to \in {"reopen", "close"}, Reply(r, c), state = "half-open", Continue(r, to),
           UNCHANGED <<valkey, age>>
    PROVE  ProbeInv'
<1>0. /\ pc \in [Requests -> Places] /\ age \in [Requests -> 0..MaxCall]
      /\ wire # <<>> /\ Head(wire) = r /\ pc[r] = c
  BY Typed DEF Reply
<1>1. pc'[r] = to /\ \A x \in Requests : x # r => pc'[x] = pc[x] BY <1>0 DEF Continue
<1>2. LocksFirst' BY <1>0, LocksStayFirst DEF ProbeInv, Places, Commands
<1>3. AgesInCalls' BY <1>0, <1>1 DEF ProbeInv, AgesInCalls, InCall
<1>4. OpenOutlivesCooldown' /\ DeletesWait' /\ FreshLock'
  BY <1>1 DEF ProbeInv, OpenOutlivesCooldown, DeletesWait, FreshLock, valkey
<1>5. LockedOut' BY <1>0, <1>1 DEF ProbeInv, LockedOut, Deleting, valkey
<1>6. \A x \in Requests : Attempt(x)' <=> Attempt(x) BY <1>0, <1>1 DEF Attempt
<1>7. \A x \in Requests : pc'[x] = "lock" => pc[x] = "lock" BY <1>1
<1>8. Guarded' /\ Apart' BY <1>6, <1>7 DEF ProbeInv, Guarded, Apart, valkey
<1> QED BY <1>2, <1>3, <1>4, <1>5, <1>8 DEF ProbeInv

(* The lock is deleted: nobody asks for it, and the breaker is closed or its    *)
(* cooldown begins.                                                            *)
LEMMA DeletesLock ==
    ASSUME Base, ProbeInv, NEW r \in Requests, Reopen(r) \/ Close(r)
    PROVE  ProbeInv'
<1>0. /\ pc \in [Requests -> Places] /\ age \in [Requests -> 0..MaxCall] /\ MaxCall \in Nat
      /\ Cooldown \in Nat \ {0} /\ wire # <<>> /\ Head(wire) = r /\ Deleting(r)
      /\ StateTTL = Cooldown + Cooldown
  BY Typed DEF Reopen, Close, Reply, Deleting
<1>1. /\ Return(r, "idle") /\ UNCHANGED age /\ lockTTL' = 0
      /\ OpenFor(StateTTL) \/ state' = "none"
  BY DEF Reopen, Close
<1>2. pc'[r] = "idle" /\ \A x \in Requests : x # r => pc'[x] = pc[x] BY <1>0, <1>1 DEF Return
<1>3. \A x \in Requests : pc[x] \notin {"lock", "halfOpen"} BY <1>0, HeadDeletes DEF ProbeInv
<1>4. \A x \in Requests : pc'[x] \notin {"lock", "halfOpen"} BY <1>2, <1>3
<1>5. LocksFirst' BY <1>0, <1>1, LocksStayFirst DEF ProbeInv, Places, Commands
<1>6. AgesInCalls' BY <1>0, <1>1, <1>2 DEF ProbeInv, AgesInCalls, InCall, Deleting
<1>7. FreshLock' /\ LockedOut' BY <1>4 DEF FreshLock, LockedOut
<1>8. OpenOutlivesCooldown' /\ DeletesWait'
  BY <1>0, <1>1 DEF OpenFor, OpenOutlivesCooldown, DeletesWait
<1>9. \A x \in Requests : age[x] \in Nat BY <1>0
<1>10. Guarded' BY <1>0, <1>1, <1>4, <1>9 DEF OpenFor, Guarded
<1>11. \A x \in Requests : Attempt(x)' => Attempt(x) BY <1>2 DEF Attempt
<1>12. Apart' BY <1>1, <1>11 DEF ProbeInv, Apart
<1> QED BY <1>5, <1>6, <1>7, <1>8, <1>10, <1>12 DEF ProbeInv

(* The breaker opens: its cooldown begins.                                     *)
LEMMA OpensBreaker ==
    ASSUME Base, ProbeInv, NEW r \in Requests, Open(r)
    PROVE  ProbeInv'
<1>0. /\ pc \in [Requests -> Places] /\ age \in [Requests -> 0..MaxCall] /\ MaxCall \in Nat
      /\ Cooldown \in Nat \ {0} /\ wire # <<>> /\ Head(wire) = r /\ pc[r] = "open"
      /\ StateTTL = Cooldown + Cooldown /\ lockTTL \in Nat
  BY Typed DEF Open, Reply
<1>1. Return(r, "idle") /\ UNCHANGED <<age, lockTTL>> /\ OpenFor(StateTTL) BY DEF Open
<1>2. pc'[r] = "idle" /\ \A x \in Requests : x # r => pc'[x] = pc[x] BY <1>0, <1>1 DEF Return
<1>3. LocksFirst' BY <1>0, <1>1, LocksStayFirst DEF ProbeInv, Places, Commands
<1>4. AgesInCalls' BY <1>0, <1>1, <1>2 DEF ProbeInv, AgesInCalls, InCall
<1>5. FreshLock' BY <1>1, <1>2 DEF ProbeInv, FreshLock, ProbeLockTTL
<1>6. LockedOut' BY <1>1, <1>2 DEF OpenFor, ProbeInv, LockedOut, Deleting
<1>7. OpenOutlivesCooldown' /\ DeletesWait'
  BY <1>0, <1>1 DEF OpenFor, OpenOutlivesCooldown, DeletesWait
<1>8. \A x \in Requests : age[x] \in Nat BY <1>0
<1>9. \A x \in Requests : (Attempt(x)' => Attempt(x)) /\ (pc'[x] = "lock" => pc[x] = "lock")
  BY <1>2 DEF Attempt
<1>10. Guarded' BY <1>0, <1>1, <1>8, <1>9 DEF OpenFor, ProbeInv, Guarded
<1>11. Apart' BY <1>1, <1>9 DEF ProbeInv, Apart
<1> QED BY <1>3, <1>4, <1>5, <1>6, <1>7, <1>10, <1>11 DEF ProbeInv

(* A unit of time passes when no command is on the wire: probes age as the     *)
(* lock and the cooldown run down.                                             *)
LEMMA TickProbes ==
    ASSUME Base, ProbeInv, Tick
    PROVE  ProbeInv'
<1>0. /\ pc \in [Requests -> Places] /\ age \in [Requests -> 0..MaxCall] /\ MaxCall \in Nat
      /\ Cooldown \in Nat \ {0} /\ lockTTL \in Nat /\ probeIn \in Nat /\ probeTTL \in Nat
      /\ stateTTL \in Nat
  BY Typed
<1>1. wire = <<>> /\ wire' = wire /\ pc' = pc BY DEF Tick
<1>2. \A x \in Requests : pc[x] \notin {"lock", "halfOpen", "reopen", "close"}
  BY <1>1 DEF Base, OnWire, Member, Commands
<1>3. \A x \in Requests : age'[x] = IF InCall(x) THEN age[x] + 1 ELSE 0 BY DEF Tick
<1>4. \A x \in Requests : Attempt(x) => InCall(x) /\ age'[x] = age[x] + 1 /\ age[x] \in Nat
  BY <1>0, <1>2, <1>3 DEF Attempt, InCall
<1>5. AgesInCalls' BY <1>1, <1>3 DEF AgesInCalls, InCall
<1>6. DeletesWait' /\ FreshLock' /\ LockedOut' /\ LocksFirst'
  BY <1>1, <1>2 DEF DeletesWait, FreshLock, LockedOut, LocksFirst, Deleting
<1>7. OpenOutlivesCooldown'
  <2>1. OpenOutlivesCooldown /\ [Next]_vars BY DEF ProbeInv, Next
  <2> QED BY <2>1, OutlivesStep
<1>8. Guarded'
  <2> SUFFICES ASSUME NEW p \in Requests, Attempt(p)
               PROVE  /\ state' = "half-open" => lockTTL' + age'[p] >= Cooldown
                      /\ state' = "open" => \/ lockTTL' + age'[p] >= Cooldown
                                            \/ probeIn' + age'[p] >= Cooldown
    BY <1>1, <1>2 DEF Guarded, Attempt
  <2>1. /\ state = "half-open" => lockTTL + age[p] >= Cooldown
        /\ state = "open" => lockTTL + age[p] >= Cooldown \/ probeIn + age[p] >= Cooldown
    BY DEF ProbeInv, Guarded
  <2>2. lockTTL' = Less(lockTTL) /\ age'[p] = age[p] + 1 /\ age[p] \in Nat BY <1>4 DEF Tick
  <2>3. CASE state' = "half-open"
    BY <1>0, <2>1, <2>2, <2>3 DEF Tick, Less
  <2>4. CASE state' = "open"
    <3>1. state = "open" /\ stateTTL # 1 BY <2>4 DEF Tick
    <3>2. probeTTL # 1 BY <3>1 DEF ProbeInv, OpenOutlivesCooldown
    <3>3. probeIn' = Less(probeIn) BY <3>2 DEF Tick
    <3> QED BY <1>0, <2>1, <2>2, <2>4, <3>1, <3>3 DEF Less
  <2> QED BY <2>3, <2>4
<1>9. Apart'
  <2>1. \A x \in Requests : Attempt(x)' <=> Attempt(x) BY <1>1 DEF Attempt
  <2>2. \A p, q \in Requests : Attempt(p) /\ Attempt(q) /\ p # q =>
            age[p] - age[q] >= Cooldown \/ age[q] - age[p] >= Cooldown
    BY DEF ProbeInv, Apart
  <2> QED BY <1>0, <1>4, <2>1, <2>2 DEF Apart
<1> QED BY <1>5, <1>6, <1>7, <1>8, <1>9 DEF ProbeInv

(* A crash leaves nobody to probe. *)
LEMMA CrashProbes == ASSUME Base, ProbeInv, Crash PROVE ProbeInv'
<1>1. /\ pc' = [r \in Requests |-> "idle"] /\ age' = [r \in Requests |-> 0] /\ wire' = <<>>
      /\ UNCHANGED valkey
  BY DEF Crash
<1>2. \A r \in Requests : pc'[r] = "idle" /\ age'[r] = 0 BY <1>1
<1>3. OpenOutlivesCooldown' BY <1>1 DEF ProbeInv, OpenOutlivesCooldown, valkey
<1>4. AgesInCalls' /\ DeletesWait' /\ FreshLock' /\ LockedOut' /\ Guarded' /\ Apart'
  BY <1>2 DEF AgesInCalls, DeletesWait, FreshLock, LockedOut, Guarded, Apart, Deleting, Attempt
<1>5. LocksFirst' BY <1>1 DEF LocksFirst
<1> QED BY <1>3, <1>4, <1>5 DEF ProbeInv

(* Every step of one request. *)
LEMMA RequestProbes ==
    ASSUME Base, ProbeInv, NEW r \in Requests, Check(r) \/ Execute(r) \/ EndCall(r)
    PROVE  ProbeInv'
<1> DEFINE Quiet == Places \ {"lock", "halfOpen", "probing", "reopen", "close"}
           KeysStay == UNCHANGED <<state, stateTTL, probeIn, probeTTL, lockTTL>>
<1>0. LocksFirst BY DEF ProbeInv
<1>1. ASSUME NEW c \in Commands, NEW to \in Quiet, Reply(r, c), KeysStay, UNCHANGED age,
             (to \in Commands /\ Continue(r, to)) \/ (to \notin Commands /\ Return(r, to))
      PROVE  ProbeInv'
  <2>1. LocksFirst' BY <1>0, <1>1, LocksStayFirst DEF Reply
  <2>2. pc' = [pc EXCEPT ![r] = to] /\ ~InCall(r)
    BY <1>1 DEF Continue, Return, Reply, InCall, Commands
  <2> QED BY <1>1, <2>1, <2>2, QuietStep
<1>2. ASSUME NEW to \in Quiet, pc[r] \notin Commands, KeysStay,
             \/ age' = age /\ ~InCall(r)
             \/ age' = [age EXCEPT ![r] = 0],
             \/ to \in Commands /\ Send(r, to)
             \/ to \notin Commands /\ wire' = wire /\ pc' = [pc EXCEPT ![r] = to]
      PROVE  ProbeInv'
  <2>1. LocksFirst' BY <1>0, <1>2, LocksStayFirst
  <2>2. pc' = [pc EXCEPT ![r] = to] BY <1>2 DEF Send
  <2> QED BY <1>2, <2>1, <2>2, QuietStep
<1>3. {"check", "failure", "success", "incr", "expire", "open"} \subseteq Quiet \cap Commands
      /\ {"idle", "calling"} \subseteq Quiet /\ {"idle", "calling"} \cap Commands = {}
  BY DEF Places, Commands
<1> HIDE DEF Quiet
<1>4. CASE Check(r) BY <1>2, <1>3, <1>4 DEF Check, valkey, InCall, Commands
<1>5. CASE EndCall(r)
  BY <1>2, <1>3, <1>5 DEF EndCall, TripFailure, Success, Unrecorded, valkey, InCall, Commands
<1>6. CASE CheckGet(r)
  <2>1. CASE Admit(r, "open") BY <1>1, <1>3, <1>6, <2>1 DEF CheckGet, Admit, valkey, Commands
  <2>2. CASE Admit(r, "closed") BY <1>1, <1>3, <1>6, <2>2 DEF CheckGet, Admit, valkey, Commands
  <2> QED BY <1>6, <2>1, <2>2, AsksForLock DEF CheckGet
<1>7. CASE ProbeLock(r)
  <2>1. CASE Admit(r, "open") /\ UNCHANGED lockTTL
    BY <1>1, <1>3, <1>7, <2>1 DEF ProbeLock, Admit, Commands
  <2> QED BY <1>7, <2>1, TakesLock DEF ProbeLock
<1>8. CASE FailureGet(r)
  <2>1. CASE state = "half-open" BY <1>8, <2>1, DeletesNext DEF FailureGet
  <2>2. CASE state # "half-open" BY <1>1, <1>3, <1>8, <2>2 DEF FailureGet, valkey, Commands
  <2> QED BY <2>1, <2>2
<1>9. CASE SuccessGet(r)
  <2>1. CASE state = "half-open" BY <1>9, <2>1, DeletesNext DEF SuccessGet
  <2>2. CASE state # "half-open" BY <1>1, <1>3, <1>9, <2>2 DEF SuccessGet, valkey, Commands
  <2> QED BY <2>1, <2>2
<1>10. CASE FailureIncr(r) BY <1>1, <1>3, <1>10 DEF FailureIncr, AfterCount, Commands
<1>11. CASE FailureExpire(r) BY <1>1, <1>3, <1>11 DEF FailureExpire, Commands
<1> QED
  BY <1>4, <1>5, <1>6, <1>7, <1>8, <1>9, <1>10, <1>11, TurnsHalfOpen, DeletesLock, OpensBreaker
     DEF Execute

(* No interleaving of two checks, nor of a check with the outcomes of calls     *)
(* still in flight, admits two probes within one cooldown - with any number of *)
(* requests, any configuration and any number of restarts.                     *)
THEOREM ProbesApart == Spec => []ProbesAreACooldownApart
<1> DEFINE Inv == Base /\ ProbeInv
<1>1. Init => Inv
  <2> SUFFICES ASSUME Init PROVE Inv OBVIOUS
  <2>1. wire = <<>> /\ state = "none" /\ \A r \in Requests : pc[r] = "idle" /\ age[r] = 0
    BY DEF Init
  <2>2. ProbeInv
    BY <2>1 DEF ProbeInv, OpenOutlivesCooldown, AgesInCalls, DeletesWait, LocksFirst, FreshLock,
                LockedOut, Guarded, Apart, Deleting, Attempt
  <2> QED BY <2>2, InitBase
<1>2. Inv /\ [Next]_vars => Inv'
  <2> SUFFICES ASSUME Inv, [Next]_vars PROVE Inv' OBVIOUS
  <2>1. CASE UNCHANGED vars
    BY <2>1, NextBase
       DEF vars, valkey, ProbeInv, OpenOutlivesCooldown, AgesInCalls, DeletesWait, LocksFirst,
           FreshLock, LockedOut, Guarded, Apart, Deleting, Attempt, InCall
  <2> QED BY <2>1, NextBase, RequestProbes, TickProbes, CrashProbes DEF Next
<1>3. Inv => ProbesAreACooldownApart
  BY DEF ProbeInv, Apart, Attempt, ProbesAreACooldownApart, Probes
<1> QED BY <1>1, <1>2, <1>3, PTL DEF Spec
=============================================================================
