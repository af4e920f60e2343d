-------------------------- MODULE SessionStoreProofs --------------------------
(* Theorems about SessionStore for any number of requests, agents and          *)
(* maintainers: the turns of a session are a log that grows at its end, and    *)
(* numbers, counters and order are what the requests have said.                *)
EXTENDS SessionStore, FiniteSetTheorems, SequenceTheorems, WellFoundedInduction, TLAPS

Places == {"idle", "creating", "loading", "reading", "answering",
           "user", "assistant", "refused", "invalid", "done"}
Stages == {"none", "waiting", "checked", "counted", "inserted", "ended"}
Replies == {"none", "persisted", "timeout", "error", "duplicate"}
Turns == [index : Nat, agent : Agents, by : Calls]
SessionRows == [agent : Agents, count : Nat, pending : BOOLEAN]

(* At most one row, and finitely many turns; none without the row.             *)
Tables ==
    /\ row = {} \/ \E s \in SessionRows : row = {s}
    /\ IsFiniteSet(turns)
    /\ row = {} => turns = {}

(* The transactions that hold the advisory lock: at most one.                  *)
Active == {"checked", "counted", "inserted"}
Locked ==
    /\ \A t \in Calls : t \in lock <=> tx[t] \in Active
    /\ \A t, u \in lock : t = u
    /\ \A t \in Compactions : tx[t] \in {"none", "checked", "ended"}

(* A handler begins its two appends one after the other.                       *)
Begun ==
    \A r \in Requests :
        /\ pc[r] \notin {"user", "assistant", "done"} =>
                tx[<<r, "user">>] = "none" /\ tx[<<r, "assistant">>] = "none"
        /\ pc[r] = "user" => tx[<<r, "assistant">>] = "none"
        /\ tx[<<r, "user">>] # "none" /\ reply[<<r, "user">>] = "none" =>
                tx[<<r, "assistant">>] = "none"

(* What is stored, or said to be, comes of a transaction that has ended.       *)
Settled ==
    /\ \A t \in Calls : reply[t] = "persisted" => tx[t] = "ended"
    /\ \A turn \in turns : tx[turn.by] = "ended"

(* Who has read MAX(turn_index) is the only one to add a turn.                 *)
Ahead ==
    /\ \A t \in Appends : tx[t] \in {"counted", "inserted"} => \A j \in Indexes : j < work.index
    /\ \A t \in Appends : tx[t] = "inserted" => row # {}
    /\ \A t \in Calls : reply[t] # "duplicate"

(* What an append has read is what is there, but for a deletion in its midst.  *)
Current ==
    ~torn => \A t \in Appends : tx[t] \in Active =>
        row = {[agent |-> agent[t[1]], count |-> work.count, pending |-> work.pending]}

Counted ==
    ~torn => /\ Indexes = 1..Cardinality(turns)
             /\ \A s \in row : s.count = Cardinality(turns) /\ s.pending = PendingTools
             /\ \A t \in Appends : tx[t] \in {"counted", "inserted"} =>
                    work.index = Cardinality(turns) + 1

(* A question that is stored is stored before its answer; one that was reported *)
(* stored is, unless it has gone with the session or into its summary.         *)
QuestionBefore ==
    \A r \in Requests : \A a \in turns :
        /\ a.by = <<r, "assistant">>
        /\ reply[<<r, "user">>] = "persisted"
        => \A u \in turns : u.by = <<r, "user">> => u.index < a.index
QuestionKept ==
    \A r \in Requests : reply[<<r, "user">>] = "persisted" =>
        r \in removed \/ \E u \in turns : u.by = <<r, "user">>

(* The inductive invariant, to which QuestionKept is added once it is shown.   *)
Base == TypeOK /\ Tables /\ Locked
IInv == Base /\ Begun /\ Settled /\ Ahead /\ Current /\ Counted /\ QuestionBefore

-----------------------------------------------------------------------------
(* Types, the two tables, and the lock *)

(* TypeOK, in the names above. *)
LEMMA Typed ==
    TypeOK <=> /\ agent \in [Requests -> Agents]
               /\ pc \in [Requests -> Places]
               /\ history \in [Requests -> SUBSET Turns]
               /\ tx \in [Calls -> Stages]
               /\ reply \in [Calls -> Replies]
               /\ lock \subseteq Calls
               /\ work \in [count : Nat, pending : BOOLEAN, index : Nat]
               /\ row \subseteq SessionRows
               /\ Cardinality(row) <= 1
               /\ turns \subseteq Turns
               /\ torn \in BOOLEAN
               /\ removed \subseteq Requests
  BY DEF TypeOK, Places, Turns, Stages, Replies, SessionRows

(* A call is an append, of a request and a role, or a compaction.              *)
LEMMA CallKinds ==
    /\ \A t \in Appends : t \in Calls /\ t[1] \in Requests /\ t[2] \in Roles /\ t = <<t[1], t[2]>>
    /\ \A r \in Requests, role \in Roles : <<r, role>> \in Appends /\ <<r, role>> \in Calls
    /\ \A a \in Maintainers : <<a, "summary">> \in Compactions /\ <<a, "summary">> \in Calls
    /\ \A t \in Compactions : t \in Calls /\ t[1] \in Maintainers /\ t[2] = "summary" /\ t \notin Appends
    /\ \A t \in Calls : t \in Appends \/ t \in Compactions
  BY DEF Appends, Compactions, Calls, Roles

(* One row or none is what TypeOK counts.                                      *)
LEMMA OneRow ==
    ASSUME row' = {} \/ \E s \in SessionRows : row' = {s}
    PROVE  row' \subseteq SessionRows /\ Cardinality(row') <= 1
<1>1. CASE row' = {}
  BY <1>1, FS_EmptySet
<1>2. ASSUME NEW s \in SessionRows, row' = {s}
      PROVE  row' \subseteq SessionRows /\ Cardinality(row') <= 1
  <2>1. Cardinality({s}) = 1 BY FS_Singleton
  <2> QED BY <1>2, <2>1
<1> QED BY <1>1, <1>2

(* The same of the state after a step.                                         *)
LEMMA TypedNext ==
    ASSUME agent' \in [Requests -> Agents], pc' \in [Requests -> Places],
           history' \in [Requests -> SUBSET Turns],
           tx' \in [Calls -> Stages], reply' \in [Calls -> Replies], lock' \subseteq Calls,
           work' \in [count : Nat, pending : BOOLEAN, index : Nat],
           row' = {} \/ \E s \in SessionRows : row' = {s},
           turns' \subseteq Turns, torn' \in BOOLEAN, removed' \subseteq Requests
    PROVE  TypeOK'
  BY OneRow DEF TypeOK, Places, Turns, Stages, Replies, SessionRows

-----------------------------------------------------------------------------
(* The attach and the handler *)

(* What a handler's step does to the rest: at most it begins a transaction, of *)
(* an append that had none, or it creates the session where there is none.     *)
LEMMA HandlerEffect ==
    ASSUME IInv, NEW r \in Requests, Attach(r) \/ Answer(r) \/ NextTurn(r) \/ LastTurn(r)
    PROVE  /\ UNCHANGED <<agent, reply, lock, work, turns, torn, removed>>
           /\ pc' \in [Requests -> Places] /\ \A x \in Requests : x # r => pc'[x] = pc[x]
           /\ history' \in [Requests -> SUBSET Turns]
           /\ \/ row' = row
              \/ row = {} /\ row' = {[agent |-> agent[r], count |-> 0, pending |-> FALSE]}
           /\ \/ /\ tx' = tx /\ pc'[r] \notin {"user", "assistant"}
                 /\ pc'[r] # "done" => pc[r] \notin {"user", "assistant", "done"}
              \/ \E role \in Roles :
                    /\ pc'[r] = role /\ tx[<<r, role>>] = "none"
                    /\ tx' = [tx EXCEPT ![<<r, role>>] = "waiting"]
                    /\ role = "user" => tx[<<r, "assistant">>] = "none"
                    /\ role = "assistant" => \/ tx[<<r, "user">>] = "none"
                                             \/ reply[<<r, "user">>] # "none"
<1>0. TypeOK /\ Begun BY DEF IInv, Base
<1> USE <1>0
<1>1. \A where \in Places : Goto(r, where) =>
        /\ pc'[r] = where /\ pc' \in [Requests -> Places]
        /\ \A x \in Requests : x # r => pc'[x] = pc[x]
  BY Typed DEF Goto
<1>2. Own(r) \subseteq Turns BY Typed DEF Own
<1>3. history' \in [Requests -> SUBSET Turns]
  <2>1. CASE UNCHANGED history BY <2>1, Typed
  <2>2. CASE history' = [history EXCEPT ![r] = Own(r)] BY <1>2, <2>2, Typed
  <2>3. CASE history' = [history EXCEPT ![r] = {}] BY <2>3, Typed
  <2> QED
    BY <2>1, <2>2, <2>3 DEF Attach, CreateSelect, CreateInsert, CreateFails, LoadSelect, LoadTurns,
                            Answer, NextTurn, LastTurn
<1>4. CASE Attach(r) \/ LastTurn(r)
  <2>1. PICK where \in Places \ {"user", "assistant"} : Goto(r, where)
    BY <1>4 DEF Attach, CreateSelect, CreateInsert, CreateFails, LoadSelect, LoadTurns, LastTurn, Places
  <2>2. pc'[r] \notin {"user", "assistant"} BY <1>1, <2>1
  <2>3. pc'[r] # "done" => pc[r] \notin {"user", "assistant", "done"}
    <3>1. CASE LastTurn(r) BY <1>1, <3>1 DEF LastTurn, Places
    <3>2. CASE Attach(r)
      BY <3>2 DEF Attach, CreateSelect, CreateInsert, CreateFails, LoadSelect, LoadTurns
    <3> QED BY <1>4, <3>1, <3>2
  <2>4. /\ UNCHANGED <<agent, tx, reply, lock, work, turns, torn, removed>>
        /\ \/ row' = row
           \/ row = {} /\ row' = {[agent |-> agent[r], count |-> 0, pending |-> FALSE]}
    BY <1>4 DEF Attach, CreateSelect, CreateInsert, CreateFails, LoadSelect, LoadTurns, LastTurn,
                call, tables
  <2> QED BY <1>1, <1>3, <2>1, <2>2, <2>3, <2>4
<1>5. CASE Answer(r) /\ Goto(r, "done") /\ UNCHANGED tx
  <2>1. UNCHANGED <<agent, reply, lock, work, row, turns, torn, removed>> BY <1>5 DEF Answer, tables
  <2>2. pc'[r] = "done" /\ "done" \in Places BY <1>1, <1>5 DEF Places
  <2> QED BY <1>1, <1>3, <1>5, <2>1, <2>2
<1>6. ASSUME NEW role \in Roles, Goto(r, role), Begin(<<r, role>>),
             Answer(r) \/ (NextTurn(r) /\ role = "assistant")
      PROVE  /\ UNCHANGED <<agent, reply, lock, work, row, turns, torn, removed>>
             /\ pc'[r] = role /\ tx[<<r, role>>] = "none"
             /\ tx' = [tx EXCEPT ![<<r, role>>] = "waiting"]
             /\ role = "user" => tx[<<r, "assistant">>] = "none"
             /\ role = "assistant" => tx[<<r, "user">>] = "none" \/ reply[<<r, "user">>] # "none"
             /\ pc' \in [Requests -> Places] /\ \A x \in Requests : x # r => pc'[x] = pc[x]
  <2>1. role \in Places BY DEF Roles, Places
  <2>2. UNCHANGED <<agent, reply, lock, work, row, turns, torn, removed>>
    BY <1>6 DEF Answer, NextTurn, tables
  <2>3. tx[<<r, role>>] = "none" /\ (role = "user" => tx[<<r, "assistant">>] = "none")
        /\ (role = "assistant" => tx[<<r, "user">>] = "none" \/ reply[<<r, "user">>] # "none")
    BY <1>6 DEF Answer, NextTurn, Begun, Roles
  <2> QED BY <1>1, <1>6, <2>1, <2>2, <2>3 DEF Begin
<1>7. CASE Answer(r)
  <2>1. DEFINE role == IF HasQuestion(r) THEN "user" ELSE "assistant"
  <2>2. role \in Roles BY DEF Roles
  <2>3. \/ Goto(r, "done") /\ UNCHANGED tx
        \/ Goto(r, role) /\ Begin(<<r, role>>)
    BY <1>7 DEF Answer
  <2> HIDE DEF role
  <2>4. CASE Goto(r, "done") /\ UNCHANGED tx BY <1>5, <1>7, <2>4
  <2>5. CASE Goto(r, role) /\ Begin(<<r, role>>) BY <1>3, <1>6, <1>7, <2>2, <2>5
  <2> QED BY <2>3, <2>4, <2>5
<1>8. CASE NextTurn(r)
  <2>1. "assistant" \in Roles /\ Goto(r, "assistant") /\ Begin(<<r, "assistant">>)
    BY <1>8 DEF NextTurn, Roles
  <2> QED BY <1>3, <1>6, <1>8, <2>1
<1> QED BY <1>4, <1>7, <1>8

(* So the handlers keep the invariant. *)
LEMMA HandlerStep ==
    ASSUME IInv, NEW r \in Requests, Attach(r) \/ Answer(r) \/ NextTurn(r) \/ LastTurn(r)
    PROVE  IInv'
<1>0. TypeOK /\ Tables /\ Locked BY DEF IInv, Base
<1>1. /\ UNCHANGED <<agent, reply, lock, work, turns, torn, removed>>
      /\ pc' \in [Requests -> Places] /\ \A x \in Requests : x # r => pc'[x] = pc[x]
      /\ history' \in [Requests -> SUBSET Turns]
      /\ \/ row' = row
         \/ row = {} /\ row' = {[agent |-> agent[r], count |-> 0, pending |-> FALSE]}
  BY HandlerEffect
<1>2. /\ tx' \in [Calls -> Stages] /\ Begun'
      /\ \A t \in Calls : \/ tx'[t] = tx[t]
                          \/ tx[t] = "none" /\ tx'[t] = "waiting" /\ t \in Appends
  <2>1. CASE /\ tx' = tx /\ pc'[r] \notin {"user", "assistant"}
             /\ pc'[r] # "done" => pc[r] \notin {"user", "assistant", "done"}
    <3>1. tx' \in [Calls -> Stages] BY <1>0, <2>1, Typed
    <3>2. Begun' BY <1>1, <2>1 DEF IInv, Begun
    <3> QED BY <2>1, <3>1, <3>2
  <2>2. ASSUME NEW role \in Roles, pc'[r] = role, tx[<<r, role>>] = "none",
               tx' = [tx EXCEPT ![<<r, role>>] = "waiting"],
               role = "user" => tx[<<r, "assistant">>] = "none",
               role = "assistant" => tx[<<r, "user">>] = "none" \/ reply[<<r, "user">>] # "none"
        PROVE  /\ tx' \in [Calls -> Stages] /\ Begun'
               /\ \A t \in Calls : \/ tx'[t] = tx[t]
                                   \/ tx[t] = "none" /\ tx'[t] = "waiting" /\ t \in Appends
    <3>1. <<r, role>> \in Calls /\ <<r, role>> \in Appends BY CallKinds
    <3>2. tx \in [Calls -> Stages] BY <1>0, Typed
    <3>3. tx' \in [Calls -> Stages] BY <2>2, <3>1, <3>2 DEF Stages
    <3>4. tx'[<<r, role>>] = "waiting" /\ \A t \in Calls : t # <<r, role>> => tx'[t] = tx[t]
      BY <2>2, <3>1, <3>2
    <3>5. ASSUME NEW x \in Requests, x # r
          PROVE  tx'[<<x, "user">>] = tx[<<x, "user">>] /\ tx'[<<x, "assistant">>] = tx[<<x, "assistant">>]
      BY <3>4, <3>5, CallKinds DEF Roles
    <3>6. CASE role = "user"
      <4>1. tx'[<<r, "assistant">>] = "none" BY <2>2, <3>4, <3>6, CallKinds DEF Roles
      <4> QED BY <1>1, <2>2, <3>1, <3>2, <3>3, <3>4, <3>5, <3>6, <4>1 DEF IInv, Begun
    <3>7. CASE role = "assistant"
      <4>1. tx'[<<r, "user">>] = tx[<<r, "user">>] BY <3>4, <3>7, CallKinds DEF Roles
      <4> QED BY <1>1, <2>2, <3>1, <3>2, <3>3, <3>4, <3>5, <3>7, <4>1 DEF IInv, Begun
    <3> QED BY <3>6, <3>7 DEF Roles
  <2> QED BY <2>1, <2>2, HandlerEffect
<1>3. [agent |-> agent[r], count |-> 0, pending |-> FALSE] \in SessionRows
  BY <1>0, Typed DEF SessionRows
<1>4. Tables' BY <1>0, <1>1, <1>3 DEF Tables
<1>5. TypeOK'
  <2>1. /\ agent' \in [Requests -> Agents] /\ reply' \in [Calls -> Replies] /\ lock' \subseteq Calls
        /\ work' \in [count : Nat, pending : BOOLEAN, index : Nat]
        /\ turns' \subseteq Turns /\ torn' \in BOOLEAN /\ removed' \subseteq Requests
    BY <1>0, <1>1, Typed
  <2> QED BY <1>1, <1>2, <1>4, <2>1, TypedNext DEF Tables
<1>6. Locked' BY <1>0, <1>1, <1>2, CallKinds DEF Locked, Active
<1>7. Settled' BY <1>0, <1>1, <1>2, Typed DEF IInv, Settled, Turns
<1>8. \A t \in Appends : /\ tx'[t] \in {"counted", "inserted"} => tx'[t] = tx[t]
                         /\ tx'[t] \in Active => tx'[t] = tx[t]
  BY <1>2, CallKinds DEF Active
<1>9. Ahead' BY <1>1, <1>8 DEF IInv, Ahead, Indexes
<1>10. Current' BY <1>1, <1>8 DEF IInv, Current
<1>11. Counted'
  <2>1. row = {} => Cardinality(turns) = 0 /\ PendingTools = FALSE
    BY <1>0, FS_EmptySet DEF Tables, PendingTools, Answers
  <2>2. UNCHANGED <<Indexes, Cardinality(turns), PendingTools, torn, work>>
    BY <1>1 DEF Indexes, PendingTools, Answers
  <2>3. ASSUME ~torn'
        PROVE  /\ Indexes' = 1..Cardinality(turns')
               /\ \A s \in row' : s.count = Cardinality(turns') /\ s.pending = PendingTools'
               /\ \A t \in Appends : tx'[t] \in {"counted", "inserted"} =>
                      work'.index = Cardinality(turns') + 1
    <3>1. /\ Indexes = 1..Cardinality(turns)
          /\ \A s \in row : s.count = Cardinality(turns) /\ s.pending = PendingTools
          /\ \A t \in Appends : tx[t] \in {"counted", "inserted"} => work.index = Cardinality(turns) + 1
      BY <2>2, <2>3 DEF IInv, Counted
    <3>2. \A s \in row' : s.count = Cardinality(turns) /\ s.pending = PendingTools
      <4>1. CASE row' = row BY <3>1, <4>1
      <4>2. CASE row = {} /\ row' = {[agent |-> agent[r], count |-> 0, pending |-> FALSE]}
        <5>1. Cardinality(turns) = 0 /\ PendingTools = FALSE BY <2>1, <4>2
        <5>2. \A s \in row' : s.count = 0 /\ s.pending = FALSE BY <4>2
        <5> QED BY <5>1, <5>2
      <4> QED BY <1>1, <4>1, <4>2
    <3> QED BY <1>8, <2>2, <3>1, <3>2
  <2> QED BY <2>3 DEF Counted
<1>12. QuestionBefore' BY <1>1 DEF IInv, QuestionBefore
<1> QED BY <1>2, <1>4, <1>5, <1>6, <1>7, <1>9, <1>10, <1>11, <1>12 DEF IInv, Base

-----------------------------------------------------------------------------
(* appendTurn and replaceTurns: the steps that store nothing *)

(* Such a step keeps the invariant if it ends no call as persisted, revives no *)
(* transaction that ended, and leaves in "work" what the holder has read.      *)
LEMMA QuietStep ==
    ASSUME IInv, UNCHANGED <<agent, handler, row, turns, torn, removed>>,
           tx' \in [Calls -> Stages], reply' \in [Calls -> Replies], lock' \subseteq Calls,
           work' \in [count : Nat, pending : BOOLEAN, index : Nat], Locked',
           \A u \in Calls : \/ reply'[u] = reply[u]
                            \/ reply[u] = "none" /\ reply'[u] \in {"timeout", "error"},
           \A u \in Calls : \/ tx'[u] = tx[u]
                            \/ tx[u] \notin {"none", "ended"} /\ tx'[u] # "none"
                            \/ tx[u] = "none" /\ u \in Compactions,
           \A u \in Appends : tx'[u] \in Active /\ ~torn =>
               row = {[agent |-> agent[u[1]], count |-> work'.count, pending |-> work'.pending]},
           \A u \in Appends : tx'[u] \in {"counted", "inserted"} =>
               /\ \A j \in Indexes : j < work'.index
               /\ ~torn => work'.index = Cardinality(turns) + 1,
           \A u \in Appends : tx'[u] = "inserted" => row # {}
    PROVE  IInv'
<1>0. TypeOK /\ Tables BY DEF IInv, Base
<1>1. UNCHANGED <<agent, pc, history, row, turns, torn, removed>> BY DEF handler
<1>2. Tables' BY <1>0, <1>1 DEF Tables
<1>3. TypeOK'
  <2>1. /\ agent' \in [Requests -> Agents] /\ pc' \in [Requests -> Places]
        /\ history' \in [Requests -> SUBSET Turns]
        /\ turns' \subseteq Turns /\ torn' \in BOOLEAN /\ removed' \subseteq Requests
    BY <1>0, <1>1, Typed
  <2> QED BY <1>2, <2>1, TypedNext DEF Tables
<1>4. Begun'
  <2>1. \A u \in Appends : /\ tx'[u] = "none" <=> tx[u] = "none"
                           /\ reply'[u] = "none" => reply[u] = "none"
    BY CallKinds
  <2>2. \A r \in Requests : <<r, "user">> \in Appends /\ <<r, "assistant">> \in Appends
    BY CallKinds DEF Roles
  <2> QED BY <1>1, <2>1, <2>2 DEF IInv, Begun
<1>5. Settled'
  <2>1. \A turn \in turns : turn.by \in Calls BY <1>0, Typed DEF Turns
  <2> QED BY <1>1, <2>1 DEF IInv, Settled
<1>6. Ahead' BY <1>1 DEF IInv, Ahead, Indexes
<1>7. Current' BY <1>1 DEF Current
<1>8. Counted'
  <2>1. UNCHANGED <<Indexes, Cardinality(turns), PendingTools>>
    BY <1>1 DEF Indexes, PendingTools, Answers
  <2> QED BY <1>1, <2>1 DEF IInv, Counted
<1>9. QuestionBefore'
  <2>1. \A r \in Requests : reply'[<<r, "user">>] = "persisted" => reply[<<r, "user">>] = "persisted"
    BY CallKinds DEF Roles
  <2> QED BY <1>1, <2>1 DEF IInv, QuestionBefore
<1> QED BY <1>2, <1>3, <1>4, <1>5, <1>6, <1>7, <1>8, <1>9 DEF IInv, Base

(* A call that returns: it is the only one, and only if nothing returned yet.  *)
LEMMA ReturnEffect ==
    ASSUME TypeOK, NEW t \in Calls, NEW result \in Replies, Return(t, result)
    PROVE  /\ reply' \in [Calls -> Replies]
           /\ \A u \in Calls : u # t => reply'[u] = reply[u]
           /\ reply'[t] = IF reply[t] = "none" THEN result ELSE reply[t]
  BY Typed DEF Return

(* A transaction that ends: nobody else holds the lock if it did.              *)
LEMMA RollbackEffect ==
    ASSUME TypeOK, Locked, NEW t \in Calls, Rollback(t)
    PROVE  /\ tx' \in [Calls -> Stages] /\ lock' \subseteq Calls /\ Locked'
           /\ work' \in [count : Nat, pending : BOOLEAN, index : Nat]
           /\ tx'[t] = "ended" /\ \A u \in Calls : u # t => tx'[u] = tx[u]
           /\ \A u \in Calls : tx'[u] \in Active => u # t /\ tx'[u] = tx[u] /\ work' = work
           /\ tx[t] \in Active => \A u \in Calls : tx'[u] \notin Active
<1>1. tx \in [Calls -> Stages] /\ lock \subseteq Calls BY Typed
<1>2. tx' \in [Calls -> Stages] BY <1>1 DEF Rollback, Stages
<1>3. tx'[t] = "ended" /\ \A u \in Calls : u # t => tx'[u] = tx[u] BY <1>1 DEF Rollback
<1>4. work' \in [count : Nat, pending : BOOLEAN, index : Nat] BY Typed DEF Rollback, NoWork
<1>5. lock' = lock \ {t} BY DEF Rollback
<1>6. Locked' BY <1>1, <1>3, <1>5, CallKinds DEF Locked, Active
<1>7. tx[t] \in Active => \A u \in Calls : tx'[u] \notin Active
  BY <1>3 DEF Locked, Active
<1>8. \A u \in Calls : tx'[u] \in Active => u # t /\ tx'[u] = tx[u] /\ work' = work
  BY <1>3, <1>7 DEF Locked, Active, Rollback
<1> QED BY <1>1, <1>2, <1>3, <1>4, <1>5, <1>6, <1>7, <1>8

(* A transaction that ends with an error, or says nothing.                     *)
LEMMA RolledBack ==
    ASSUME IInv, NEW t \in Calls, tx[t] \notin {"none", "ended"}, Rollback(t),
           Return(t, "error") \/ reply' = reply,
           UNCHANGED <<agent, handler, row, turns, torn, removed>>
    PROVE  IInv'
<1>0. TypeOK /\ Locked BY DEF IInv, Base
<1>1. /\ tx' \in [Calls -> Stages] /\ lock' \subseteq Calls /\ Locked'
      /\ work' \in [count : Nat, pending : BOOLEAN, index : Nat]
      /\ tx'[t] = "ended" /\ \A u \in Calls : u # t => tx'[u] = tx[u]
      /\ \A u \in Calls : tx'[u] \in Active => tx'[u] = tx[u] /\ work' = work
  BY <1>0, RollbackEffect
<1>2. /\ reply' \in [Calls -> Replies]
      /\ \A u \in Calls : \/ reply'[u] = reply[u]
                          \/ reply[u] = "none" /\ reply'[u] \in {"timeout", "error"}
  <2>1. CASE reply' = reply BY <1>0, <2>1, Typed
  <2>2. CASE Return(t, "error")
    <3>1. "error" \in Replies BY DEF Replies
    <3>2. /\ reply' \in [Calls -> Replies]
          /\ \A u \in Calls : u # t => reply'[u] = reply[u]
          /\ reply'[t] = IF reply[t] = "none" THEN "error" ELSE reply[t]
      BY <1>0, <2>2, <3>1, ReturnEffect
    <3> QED BY <3>2
  <2> QED BY <2>1, <2>2
<1>3. \A u \in Appends : tx'[u] \in Active => u \in Calls /\ tx[u] \in Active /\ tx'[u] = tx[u] /\ work' = work
  BY <1>1, CallKinds
<1>4. \A u \in Appends : tx'[u] \in Active /\ ~torn =>
        row = {[agent |-> agent[u[1]], count |-> work'.count, pending |-> work'.pending]}
  BY <1>3 DEF IInv, Current
<1>5. \A u \in Appends : tx'[u] \in {"counted", "inserted"} =>
        /\ \A j \in Indexes : j < work'.index
        /\ ~torn => work'.index = Cardinality(turns) + 1
  BY <1>3 DEF IInv, Ahead, Counted, Active
<1>6. \A u \in Appends : tx'[u] = "inserted" => row # {}
  BY <1>3 DEF IInv, Ahead, Active
<1>7. \A u \in Calls : \/ tx'[u] = tx[u]
                       \/ tx[u] \notin {"none", "ended"} /\ tx'[u] # "none"
                       \/ tx[u] = "none" /\ u \in Compactions
  BY <1>1
<1> QED BY <1>1, <1>2, <1>4, <1>5, <1>6, <1>7, QuietStep

(* The timer. *)
LEMMA TimeoutStep == ASSUME IInv, NEW t \in Appends, Timeout(t) PROVE IInv'
<1>0. TypeOK /\ Locked /\ t \in Calls /\ "timeout" \in Replies
  BY CallKinds DEF IInv, Base, Replies
<1>1. UNCHANGED <<agent, handler, tx, lock, work, row, turns, torn, removed>> BY DEF Timeout, tables
<1>2. /\ reply' \in [Calls -> Replies]
      /\ \A u \in Calls : \/ reply'[u] = reply[u]
                          \/ reply[u] = "none" /\ reply'[u] \in {"timeout", "error"}
  <2>1. /\ reply' \in [Calls -> Replies]
        /\ \A u \in Calls : u # t => reply'[u] = reply[u]
        /\ reply'[t] = IF reply[t] = "none" THEN "timeout" ELSE reply[t]
    BY <1>0, ReturnEffect DEF Timeout
  <2> QED BY <2>1
<1>3. /\ tx' \in [Calls -> Stages] /\ lock' \subseteq Calls
      /\ work' \in [count : Nat, pending : BOOLEAN, index : Nat] /\ Locked'
  BY <1>0, <1>1, Typed DEF Locked
<1>4. \A u \in Appends : tx'[u] \in Active /\ ~torn =>
        row = {[agent |-> agent[u[1]], count |-> work'.count, pending |-> work'.pending]}
  BY <1>1 DEF IInv, Current
<1>5. \A u \in Appends : tx'[u] \in {"counted", "inserted"} =>
        /\ \A j \in Indexes : j < work'.index
        /\ ~torn => work'.index = Cardinality(turns) + 1
  BY <1>1 DEF IInv, Ahead, Counted
<1>6. \A u \in Appends : tx'[u] = "inserted" => row # {}
  BY <1>1 DEF IInv, Ahead
<1>7. \A u \in Calls : tx'[u] = tx[u] BY <1>1
<1> QED BY <1>1, <1>2, <1>3, <1>4, <1>5, <1>6, <1>7, QuietStep

(* A statement of the transaction of t, which takes the lock or holds it: what *)
(* it has to have read by its next stage.                                      *)
LEMMA HolderStep ==
    ASSUME IInv, NEW t \in Calls, NEW stage \in Active,
           tx[t] \in Active \/ lock = {}, tx[t] # "none" \/ t \in Compactions, tx[t] # "ended",
           t \in Compactions => stage = "checked",
           UNCHANGED <<agent, handler, reply, row, turns, torn, removed>>,
           lock' = {t}, tx' = [tx EXCEPT ![t] = stage],
           work' \in [count : Nat, pending : BOOLEAN, index : Nat],
           t \in Appends /\ ~torn =>
               row = {[agent |-> agent[t[1]], count |-> work'.count, pending |-> work'.pending]},
           t \in Appends /\ stage # "checked" => /\ \A j \in Indexes : j < work'.index
                                                 /\ ~torn => work'.index = Cardinality(turns) + 1,
           stage = "inserted" => row # {}
    PROVE  IInv'
<1>0. TypeOK /\ Locked BY DEF IInv, Base
<1>1. tx \in [Calls -> Stages] /\ stage \in Stages BY <1>0, Typed DEF Active, Stages
<1>2. tx' \in [Calls -> Stages] BY <1>1
<1>3. tx'[t] = stage /\ \A u \in Calls : u # t => tx'[u] = tx[u] BY <1>1
<1>4. \A u \in Calls : tx'[u] \in Active => u = t
  BY <1>0, <1>3 DEF Locked
<1>5. Locked' BY <1>0, <1>3, <1>4 DEF Locked, Active
<1>6. /\ reply' \in [Calls -> Replies] /\ lock' \subseteq Calls
      /\ \A u \in Calls : reply'[u] = reply[u]
  BY <1>0, Typed
<1>7. \A u \in Appends : tx'[u] \in Active => u = t /\ tx'[u] = stage
  BY <1>3, <1>4, CallKinds
<1>8. \A u \in Appends : tx'[u] \in Active /\ ~torn =>
        row = {[agent |-> agent[u[1]], count |-> work'.count, pending |-> work'.pending]}
  BY <1>7
<1>9. \A u \in Appends : tx'[u] \in {"counted", "inserted"} =>
        /\ \A j \in Indexes : j < work'.index
        /\ ~torn => work'.index = Cardinality(turns) + 1
  BY <1>7 DEF Active
<1>10. \A u \in Appends : tx'[u] = "inserted" => row # {}
  BY <1>7 DEF Active
<1>11. \A u \in Calls : \/ tx'[u] = tx[u]
                        \/ tx[u] \notin {"none", "ended"} /\ tx'[u] # "none"
                        \/ tx[u] = "none" /\ u \in Compactions
  BY <1>3 DEF Active
<1> QED BY <1>2, <1>5, <1>6, <1>8, <1>9, <1>10, <1>11, QuietStep

(* The lock and the session row. *)
LEMMA CheckStep == ASSUME IInv, NEW t \in Appends, Check(t) PROVE IInv'
<1>0. TypeOK /\ Tables /\ Locked BY DEF IInv, Base
<1>1. /\ t \in Calls /\ t \notin Compactions /\ tx[t] = "waiting" /\ lock = {}
      /\ UNCHANGED <<agent, handler, row, turns, torn, removed>>
  BY CallKinds DEF Check, LockFree, tables
<1>2. ASSUME NEW s \in row, s.agent = agent[t[1]], lock' = {t},
             work' = [work EXCEPT !.count = s.count, !.pending = s.pending],
             tx' = [tx EXCEPT ![t] = "checked"], UNCHANGED reply
      PROVE  IInv'
  <2>1. /\ s \in SessionRows /\ row = {s}
        /\ s = [agent |-> s.agent, count |-> s.count, pending |-> s.pending]
        /\ s.count \in Nat /\ s.pending \in BOOLEAN
    BY <1>0, <1>2 DEF Tables, SessionRows
  <2>2. work \in [count : Nat, pending : BOOLEAN, index : Nat] BY <1>0, Typed
  <2>3. work' \in [count : Nat, pending : BOOLEAN, index : Nat]
    BY <1>2, <2>1, <2>2
  <2>4. work'.count = s.count /\ work'.pending = s.pending BY <1>2, <2>2
  <2>5. row = {[agent |-> agent[t[1]], count |-> work'.count, pending |-> work'.pending]}
    BY <1>2, <2>1, <2>4
  <2>6. "checked" \in Active BY DEF Active
  <2> QED BY <1>1, <1>2, <2>3, <2>5, <2>6, HolderStep
<1>3. CASE Rollback(t) /\ Return(t, "error")
  BY <1>1, <1>3, RolledBack
<1> QED BY <1>2, <1>3 DEF Check

(* MAX(turn_index): the first number above all others. *)
LEMMA SelectMaxStep == ASSUME IInv, NEW t \in Appends, SelectMax(t) PROVE IInv'
<1>0. TypeOK /\ Tables /\ Locked BY DEF IInv, Base
<1>1. /\ t \in Calls /\ t \notin Compactions /\ tx[t] = "checked"
      /\ UNCHANGED <<agent, handler, reply, lock, row, turns, torn, removed>>
      /\ tx' = [tx EXCEPT ![t] = "counted"]
  BY CallKinds DEF SelectMax, tables
<1>2. PICK j \in {0} \cup Indexes : NextIndex(j + 1) /\ work' = [work EXCEPT !.index = j + 1]
  BY DEF SelectMax
<1>3. lock' = {t} BY <1>0, <1>1 DEF Locked, Active
<1>4. work \in [count : Nat, pending : BOOLEAN, index : Nat] /\ Indexes \subseteq Nat
  BY <1>0, Typed DEF Indexes, Turns
<1>5. /\ j \in Nat /\ work' \in [count : Nat, pending : BOOLEAN, index : Nat]
      /\ work'.index = j + 1 /\ work'.count = work.count /\ work'.pending = work.pending
  BY <1>2, <1>4
<1>6. \A i \in Indexes : i < work'.index BY <1>2, <1>5 DEF NextIndex
<1>7. ASSUME ~torn PROVE work'.index = Cardinality(turns) + 1
  <2>1. Indexes = 1..Cardinality(turns) BY <1>7 DEF IInv, Counted
  <2>2. Cardinality(turns) \in Nat BY <1>0, FS_CardinalityType DEF Tables
  <2>3. CASE Cardinality(turns) = 0 BY <1>2, <1>5, <2>1, <2>3
  <2>4. CASE Cardinality(turns) # 0
    <3>1. Cardinality(turns) \in Indexes BY <2>1, <2>2, <2>4
    <3>2. Cardinality(turns) < j + 1 BY <1>5, <1>6, <3>1
    <3>3. j <= Cardinality(turns) BY <1>2, <2>1, <2>2
    <3> QED BY <1>5, <2>2, <3>2, <3>3
  <2> QED BY <2>3, <2>4
<1>8. "checked" \in Active /\ "counted" \in Active BY DEF Active
<1>9. ~torn => row = {[agent |-> agent[t[1]], count |-> work'.count, pending |-> work'.pending]}
  BY <1>1, <1>5, <1>8 DEF IInv, Current
<1> QED BY <1>1, <1>3, <1>5, <1>6, <1>7, <1>8, <1>9, HolderStep

(* The INSERT: no number it has is taken. *)
LEMMA InsertStep == ASSUME IInv, NEW t \in Appends, Insert(t) PROVE IInv'
<1>0. TypeOK /\ Tables /\ Locked BY DEF IInv, Base
<1>1. /\ t \in Calls /\ t \notin Compactions /\ tx[t] = "counted"
      /\ UNCHANGED <<agent, handler, row, turns, torn, removed>>
  BY CallKinds DEF Insert, tables
<1>2. /\ work \in [count : Nat, pending : BOOLEAN, index : Nat] /\ Indexes \subseteq Nat
      /\ \A j \in Indexes : j < work.index
  BY <1>0, <1>1, Typed DEF IInv, Ahead, Indexes, Turns
<1>3. work.index \notin Indexes BY <1>2
<1>4. CASE row = {}
  BY <1>1, <1>4, RolledBack DEF Insert
<1>5. CASE row # {}
  <2>1. tx' = [tx EXCEPT ![t] = "inserted"] /\ UNCHANGED <<reply, lock, work>>
    BY <1>3, <1>5 DEF Insert
  <2>2. lock' = {t} BY <1>0, <1>1, <2>1 DEF Locked, Active
  <2>3. "counted" \in Active /\ "inserted" \in Active BY DEF Active
  <2>4. ~torn => row = {[agent |-> agent[t[1]], count |-> work'.count, pending |-> work'.pending]}
    BY <1>1, <2>1, <2>3 DEF IInv, Current
  <2>5. /\ \A j \in Indexes : j < work'.index
        /\ ~torn => work'.index = Cardinality(turns) + 1
    BY <1>1, <2>1 DEF IInv, Ahead, Counted
  <2>6. work' \in [count : Nat, pending : BOOLEAN, index : Nat] BY <1>2, <2>1
  <2> QED BY <1>1, <1>5, <2>1, <2>2, <2>3, <2>4, <2>5, <2>6, HolderStep
<1> QED BY <1>4, <1>5

(* A failure. *)
LEMMA FailsStep == ASSUME IInv, NEW t \in Calls, Fails(t) PROVE IInv'
<1>1. /\ tx[t] \notin {"none", "ended"} /\ Rollback(t) /\ Return(t, "error")
      /\ UNCHANGED <<agent, handler, row, turns, torn, removed>>
  BY DEF Fails, tables
<1> QED BY <1>1, RolledBack

(* The lock and the check of a compaction. *)
LEMMA CompactStep == ASSUME IInv, NEW a \in Maintainers, Compact(a) PROVE IInv'
<1>1. DEFINE t == <<a, "summary">>
<1>2. t \in Calls /\ t \in Compactions /\ t \notin Appends BY CallKinds
<1>3. /\ tx[t] = "none" /\ lock = {} /\ lock' = {t} /\ tx' = [tx EXCEPT ![t] = "checked"]
      /\ UNCHANGED <<agent, handler, reply, work, row, turns, torn, removed>>
  BY DEF Compact, tables
<1>4. work' \in [count : Nat, pending : BOOLEAN, index : Nat]
  BY <1>3, Typed DEF IInv, Base
<1>5. "checked" \in Active BY DEF Active
<1> HIDE DEF t
<1> QED BY <1>2, <1>3, <1>4, <1>5, HolderStep

-----------------------------------------------------------------------------
(* The steps that change the turns *)

(* COMMIT adds one turn, behind all others. *)
LEMMA CommitEffect ==
    ASSUME IInv, NEW t \in Appends, Commit(t)
    PROVE  /\ UNCHANGED <<agent, pc, history, torn, removed>>
           /\ turns' = turns \cup {Turn(t)} /\ Turn(t) \in Turns
           /\ \A other \in turns : other.index < Turn(t).index
           /\ Turn(t).index = work.index /\ Turn(t).by = t
           /\ row # {} /\ tx[t] = "inserted" /\ t \in Calls
           /\ \A u \in Appends : tx'[u] \notin Active
           /\ tx' \in [Calls -> Stages] /\ lock' \subseteq Calls /\ Locked'
           /\ work' \in [count : Nat, pending : BOOLEAN, index : Nat]
           /\ tx'[t] = "ended" /\ \A u \in Calls : u # t => tx'[u] = tx[u]
           /\ reply' \in [Calls -> Replies]
           /\ \A u \in Calls : u # t => reply'[u] = reply[u]
           /\ reply'[t] \in {"persisted", "error", reply[t]}
           /\ reply[t] # "none" => reply'[t] = reply[t]
<1>0. TypeOK /\ Tables /\ Locked BY DEF IInv, Base
<1>1. t \in Calls /\ t[1] \in Requests BY CallKinds
<1>2. UNCHANGED <<agent, pc, history, torn, removed>> BY DEF Commit, Store, handler
<1>3. turns' = turns \cup {Turn(t)} /\ tx[t] = "inserted" BY DEF Commit, Store
<1>4. Turn(t) \in Turns BY <1>0, <1>1, Typed DEF Turn, Turns
<1>5. Turn(t).index = work.index /\ Turn(t).by = t BY DEF Turn
<1>6. (\A j \in Indexes : j < work.index) /\ row # {} BY <1>3 DEF IInv, Ahead
<1>7. \A other \in turns : other.index < Turn(t).index BY <1>5, <1>6 DEF Indexes
<1>8. tx[t] \in Active BY <1>3 DEF Active
<1>9. /\ tx' \in [Calls -> Stages] /\ lock' \subseteq Calls /\ Locked'
      /\ work' \in [count : Nat, pending : BOOLEAN, index : Nat]
      /\ tx'[t] = "ended" /\ \A u \in Calls : u # t => tx'[u] = tx[u]
      /\ \A u \in Appends : tx'[u] \notin Active
  BY <1>0, <1>1, <1>8, RollbackEffect, CallKinds DEF Commit
<1>10. PICK result \in {"persisted", "error"} : Return(t, result) BY DEF Commit
<1>11. result \in Replies BY DEF Replies
<1>12. /\ reply' \in [Calls -> Replies]
       /\ \A u \in Calls : u # t => reply'[u] = reply[u]
       /\ reply'[t] = IF reply[t] = "none" THEN result ELSE reply[t]
  BY <1>0, <1>1, <1>10, <1>11, ReturnEffect
<1> QED BY <1>1, <1>2, <1>3, <1>4, <1>5, <1>6, <1>7, <1>9, <1>12

(* The row of the agent it was checked for carries on its count.               *)
LEMMA CommitRow ==
    ASSUME IInv, NEW t \in Appends, Commit(t)
    PROVE  /\ \E s \in SessionRows : row' = {s}
           /\ ~torn => row' = {[agent |-> agent[t[1]], count |-> work.count + 1, pending |-> Pending(t)]}
<1>0. TypeOK /\ Tables BY DEF IInv, Base
<1>1. tx[t] = "inserted" /\ row # {} BY DEF Commit, IInv, Ahead
<1>2. work.count + 1 \in Nat /\ Pending(t) \in BOOLEAN
  <2>1. work.count \in Nat /\ work.pending \in BOOLEAN BY <1>0, Typed
  <2>2. CASE t[2] = "assistant"
    <3>1. Pending(t) = (t[1] \in ToolCallers) BY <2>2 DEF Pending
    <3> QED BY <2>1, <3>1
  <2>3. CASE t[2] # "assistant" BY <2>1, <2>3 DEF Pending
  <2> QED BY <2>2, <2>3
<1>3. PICK s \in SessionRows : row = {s} BY <1>0, <1>1 DEF Tables
<1>4. DEFINE new == IF s.agent = agent[t[1]]
                    THEN [s EXCEPT !.count = work.count + 1, !.pending = Pending(t)] ELSE s
<1>5. row' = {new} BY <1>3 DEF Commit, Store
<1>6. new \in SessionRows BY <1>2, <1>3 DEF SessionRows
<1>7. ASSUME ~torn
      PROVE  new = [agent |-> agent[t[1]], count |-> work.count + 1, pending |-> Pending(t)]
  <2>1. s = [agent |-> agent[t[1]], count |-> work.count, pending |-> work.pending]
    BY <1>1, <1>3, <1>7 DEF IInv, Current, Active
  <2> QED BY <2>1
<1> QED BY <1>5, <1>6, <1>7

(* What the answers say of pending tools, once the turn of t is among them.    *)
LEMMA CommitPending ==
    ASSUME IInv, NEW t \in Appends, Commit(t), work.pending = PendingTools
    PROVE  PendingTools' = Pending(t)
<1>1. /\ turns' = turns \cup {Turn(t)} /\ Turn(t) \in Turns /\ Turn(t).by = t
      /\ \A other \in turns : other.index < Turn(t).index
  BY CommitEffect
<1>2. turns \subseteq Turns BY Typed DEF IInv, Base
<1>3. CASE t[2] = "assistant"
  <2>1. Answers' = Answers \cup {Turn(t)} BY <1>1, <1>3 DEF Answers
  <2>2. \A other \in Answers' : other.index <= Turn(t).index
    BY <1>1, <1>2, <2>1 DEF Answers, Turns
  <2>3. \A turn \in Answers : ~(Turn(t).index <= turn.index)
    BY <1>1, <1>2 DEF Answers, Turns
  <2>4. PendingTools' = (t[1] \in ToolCallers)
    <3>1. PendingTools' <=> \E turn \in Answers' : /\ turn.by[1] \in ToolCallers
                                                   /\ \A other \in Answers' : other.index <= turn.index
      BY DEF PendingTools
    <3>2. \A turn \in Answers' : (\A other \in Answers' : other.index <= turn.index) => turn = Turn(t)
      BY <2>1, <2>3
    <3>3. Turn(t) \in Answers' BY <2>1
    <3>4. PendingTools' <=> t[1] \in ToolCallers BY <1>1, <2>2, <3>1, <3>2, <3>3
    <3> QED BY <3>4
  <2>5. Pending(t) = (t[1] \in ToolCallers) BY <1>3 DEF Pending
  <2> QED BY <2>4, <2>5
<1>4. CASE t[2] # "assistant"
  <2>1. Answers' = Answers BY <1>1, <1>4 DEF Answers
  <2>2. PendingTools' = PendingTools BY <2>1 DEF PendingTools
  <2>3. Pending(t) = work.pending BY <1>4 DEF Pending
  <2> QED BY <2>2, <2>3
<1> QED BY <1>3, <1>4

(* A commit keeps an exchange in order: its question is stored, or its caller  *)
(* was told so, before the transaction of the answer begins.                   *)
LEMMA CommitOrder == ASSUME IInv, NEW t \in Appends, Commit(t) PROVE QuestionBefore'
<1>0. turns \subseteq Turns BY Typed DEF IInv, Base
<1>1. /\ turns' = turns \cup {Turn(t)} /\ Turn(t).by = t /\ tx[t] = "inserted"
      /\ \A other \in turns : other.index < Turn(t).index
      /\ \A u \in Calls : u # t => reply'[u] = reply[u]
      /\ reply[t] # "none" => reply'[t] = reply[t]
  BY CommitEffect
<1>2. SUFFICES ASSUME NEW r \in Requests, NEW a \in turns', NEW q \in turns',
                      a.by = <<r, "assistant">>, q.by = <<r, "user">>,
                      reply'[<<r, "user">>] = "persisted"
               PROVE  q.index < a.index
  BY DEF QuestionBefore
<1>3. <<r, "user">> \in Calls /\ <<r, "assistant">> \in Calls BY CallKinds DEF Roles
<1>4. CASE t = <<r, "user">>
  <2>1. a # Turn(t) BY <1>1, <1>2, <1>4
  <2>2. tx[<<r, "assistant">>] = "ended" BY <1>1, <1>2, <2>1 DEF IInv, Settled
  <2>3. reply[t] # "none" BY <1>1, <1>4, <2>2 DEF IInv, Begun
  <2>4. reply[t] = "persisted" BY <1>1, <1>2, <1>4, <2>3
  <2>5. tx[t] = "ended" BY <1>3, <1>4, <2>4 DEF IInv, Settled
  <2> QED BY <1>1, <2>5
<1>5. CASE t # <<r, "user">>
  <2>1. q \in turns BY <1>1, <1>2, <1>5
  <2>2. CASE a = Turn(t) BY <1>1, <2>1, <2>2
  <2>3. CASE a # Turn(t)
    <3>1. a \in turns /\ reply[<<r, "user">>] = "persisted" BY <1>1, <1>2, <1>3, <1>5, <2>3
    <3> QED BY <1>2, <2>1, <3>1 DEF IInv, QuestionBefore
  <2> QED BY <2>2, <2>3
<1> QED BY <1>4, <1>5

(* COMMIT. *)
LEMMA CommitStep == ASSUME IInv, NEW t \in Appends, Commit(t) PROVE IInv'
<1>0. TypeOK /\ Tables /\ Locked BY DEF IInv, Base
<1>1. /\ UNCHANGED <<agent, pc, history, torn, removed>>
      /\ turns' = turns \cup {Turn(t)} /\ Turn(t) \in Turns
      /\ \A other \in turns : other.index < Turn(t).index
      /\ Turn(t).index = work.index /\ Turn(t).by = t
      /\ tx[t] = "inserted" /\ t \in Calls
      /\ \A u \in Appends : tx'[u] \notin Active
      /\ tx' \in [Calls -> Stages] /\ lock' \subseteq Calls /\ Locked'
      /\ work' \in [count : Nat, pending : BOOLEAN, index : Nat]
      /\ tx'[t] = "ended" /\ \A u \in Calls : u # t => tx'[u] = tx[u]
      /\ reply' \in [Calls -> Replies]
      /\ \A u \in Calls : u # t => reply'[u] = reply[u]
      /\ reply'[t] \in {"persisted", "error", reply[t]}
      /\ reply[t] # "none" => reply'[t] = reply[t]
  BY CommitEffect
<1>2. \E s \in SessionRows : row' = {s} BY CommitRow
<1>3. IsFiniteSet(turns') BY <1>0, <1>1, FS_AddElement DEF Tables
<1>4. Tables' BY <1>2, <1>3 DEF Tables
<1>5. TypeOK'
  <2>1. /\ agent' \in [Requests -> Agents] /\ pc' \in [Requests -> Places]
        /\ history' \in [Requests -> SUBSET Turns]
        /\ turns' \subseteq Turns /\ torn' \in BOOLEAN /\ removed' \subseteq Requests
    BY <1>0, <1>1, Typed
  <2> QED BY <1>1, <1>2, <2>1, TypedNext
<1>6. Begun'
  <2>1. \A u \in Calls : /\ tx'[u] = "none" <=> tx[u] = "none"
                         /\ reply'[u] = "none" => reply[u] = "none"
    BY <1>1
  <2>2. \A r \in Requests : <<r, "user">> \in Calls /\ <<r, "assistant">> \in Calls
    BY CallKinds DEF Roles
  <2> QED BY <1>1, <2>1, <2>2 DEF IInv, Begun
<1>7. Settled'
  <2>1. \A turn \in turns : turn.by \in Calls BY <1>0, Typed DEF Turns
  <2>2. \A u \in Calls : reply'[u] = "persisted" => tx'[u] = "ended"
    BY <1>1 DEF IInv, Settled
  <2>3. \A turn \in turns' : tx'[turn.by] = "ended"
    BY <1>1, <2>1 DEF IInv, Settled
  <2> QED BY <2>2, <2>3 DEF Settled
<1>8. Ahead' BY <1>1 DEF IInv, Ahead, Active
<1>9. Current' BY <1>1 DEF Current
<1>10. Counted'
  <2>1. SUFFICES ASSUME ~torn
                 PROVE  /\ Indexes' = 1..Cardinality(turns')
                        /\ \A s \in row' : s.count = Cardinality(turns') /\ s.pending = PendingTools'
    BY <1>1 DEF Counted, Active
  <2>2. Cardinality(turns) \in Nat BY <1>0, FS_CardinalityType DEF Tables
  <2>3. Indexes = 1..Cardinality(turns) /\ work.index = Cardinality(turns) + 1
    BY <1>1, <2>1, CallKinds DEF IInv, Counted
  <2>4. Turn(t) \notin turns BY <1>0, <1>1, Typed DEF Turns
  <2>5. Cardinality(turns') = Cardinality(turns) + 1
    BY <1>0, <1>1, <2>4, FS_AddElement DEF Tables
  <2>6. Indexes' = Indexes \cup {work.index} BY <1>1 DEF Indexes
  <2>7. Indexes' = 1..Cardinality(turns') BY <2>2, <2>3, <2>5, <2>6
  <2>8. row = {[agent |-> agent[t[1]], count |-> work.count, pending |-> work.pending]}
    BY <1>1, <2>1 DEF IInv, Current, Active
  <2>9. \A s \in row : s.count = Cardinality(turns) /\ s.pending = PendingTools
    BY <2>1 DEF IInv, Counted
  <2>10. work.count = Cardinality(turns) BY <2>8, <2>9
  <2>11. work.pending = PendingTools BY <2>8, <2>9
  <2>12. PendingTools' = Pending(t) BY <2>11, CommitPending
  <2>13. row' = {[agent |-> agent[t[1]], count |-> work.count + 1, pending |-> Pending(t)]}
    BY <2>1, CommitRow
  <2>14. \A s \in row' : s.count = work.count + 1 /\ s.pending = Pending(t) BY <2>13
  <2> QED BY <2>5, <2>7, <2>10, <2>12, <2>14
<1>11. QuestionBefore' BY CommitOrder
<1> QED BY <1>1, <1>4, <1>5, <1>6, <1>7, <1>8, <1>9, <1>10, <1>11 DEF IInv, Base

(* deleteSession: who has read the row is torn, or has stored nothing yet.     *)
LEMMA DeleteStep == ASSUME IInv, NEW a \in Maintainers, Delete(a) PROVE IInv'
<1>0. TypeOK /\ Tables /\ Locked BY DEF IInv, Base
<1>1. /\ UNCHANGED <<agent, pc, history, tx, reply, lock, work>>
      /\ row' = {} /\ turns' = {} /\ \A t \in Appends : tx[t] # "inserted"
      /\ torn' = (torn \/ \E t \in Calls : tx[t] \in {"checked", "counted"})
      /\ Removes
  BY DEF Delete, handler, call
<1>2. IsFiniteSet(turns') /\ Cardinality(turns') = 0 BY <1>1, FS_EmptySet
<1>3. Tables' BY <1>1, <1>2 DEF Tables
<1>4. TypeOK'
  <2>1. /\ agent' \in [Requests -> Agents] /\ pc' \in [Requests -> Places]
        /\ history' \in [Requests -> SUBSET Turns]
        /\ tx' \in [Calls -> Stages] /\ reply' \in [Calls -> Replies] /\ lock' \subseteq Calls
        /\ work' \in [count : Nat, pending : BOOLEAN, index : Nat]
        /\ turns' \subseteq Turns /\ torn \in BOOLEAN
    BY <1>0, <1>1, Typed
  <2>2. torn' \in BOOLEAN /\ removed' \subseteq Requests BY <1>0, <1>1, <2>1, Typed DEF Removes
  <2> QED BY <1>1, <2>1, <2>2, TypedNext
<1>5. Locked' BY <1>0, <1>1 DEF Locked
<1>6. Begun' BY <1>1 DEF IInv, Begun
<1>7. Settled' BY <1>1 DEF IInv, Settled
<1>8. Ahead' BY <1>1 DEF IInv, Ahead, Indexes
<1>9. ~torn' => \A t \in Appends : tx'[t] \notin Active
  BY <1>1, CallKinds DEF Active
<1>10. Current' BY <1>9 DEF Current
<1>11. Counted'
  <2>1. Indexes' = {} BY <1>1 DEF Indexes
  <2>2. Indexes' = 1..Cardinality(turns') BY <1>2, <2>1
  <2> QED BY <1>1, <1>9, <2>2 DEF Counted, Active
<1>12. QuestionBefore' BY <1>1 DEF QuestionBefore
<1> QED BY <1>3, <1>4, <1>5, <1>6, <1>7, <1>8, <1>10, <1>11, <1>12 DEF IInv, Base

(* replaceTurns: one turn, of nobody's answer. *)
LEMMA CompactStoreEffect ==
    ASSUME IInv, NEW a \in Maintainers, CompactStore(a)
    PROVE  /\ UNCHANGED <<agent, handler, reply, torn>>
           /\ tx[<<a, "summary">>] = "checked" /\ Rollback(<<a, "summary">>)
           /\ \/ UNCHANGED <<row, turns, removed>>
              \/ /\ row # {} /\ Removes /\ turns' = {[index |-> 1, agent |-> a, by |-> <<a, "summary">>]}
                 /\ row' = {[s EXCEPT !.count = 1, !.pending = FALSE] : s \in row}
  BY DEF CompactStore

(* So compacting keeps the invariant. *)
LEMMA CompactStoreStep == ASSUME IInv, NEW a \in Maintainers, CompactStore(a) PROVE IInv'
<1>0. TypeOK /\ Tables /\ Locked BY DEF IInv, Base
<1>1. DEFINE t == <<a, "summary">>
             summary == [index |-> 1, agent |-> a, by |-> t]
<1>2. t \in Calls /\ t \in Compactions /\ t[2] = "summary" BY CallKinds
<1>3. /\ UNCHANGED <<agent, handler, reply, torn>>
      /\ tx[t] = "checked" /\ Rollback(t)
      /\ \/ UNCHANGED <<row, turns, removed>>
         \/ /\ row # {} /\ Removes /\ turns' = {summary}
            /\ row' = {[s EXCEPT !.count = 1, !.pending = FALSE] : s \in row}
  BY CompactStoreEffect
<1>4. summary \in Turns BY <1>2, SessionAssumption DEF Turns
<1>5. summary.index = 1 /\ summary.by = t OBVIOUS
<1>6. \A r \in Requests : t # <<r, "assistant">> BY DEF Compactions
<1> HIDE DEF t, summary
<1>7. CASE UNCHANGED <<row, turns, removed>>
  BY <1>2, <1>3, <1>7, RolledBack
<1>8. CASE /\ row # {} /\ Removes /\ turns' = {summary}
           /\ row' = {[s EXCEPT !.count = 1, !.pending = FALSE] : s \in row}
  <2>1. PICK s \in SessionRows : row = {s} BY <1>0, <1>8 DEF Tables
  <2>2. row' = {[s EXCEPT !.count = 1, !.pending = FALSE]} BY <1>8, <2>1
  <2>3. [s EXCEPT !.count = 1, !.pending = FALSE] \in SessionRows BY <2>1 DEF SessionRows
  <2>4. \A x \in row' : x.count = 1 /\ x.pending = FALSE BY <2>1, <2>2 DEF SessionRows
  <2>5. IsFiniteSet(turns') /\ Cardinality(turns') = 1 BY <1>8, FS_Singleton
  <2>6. Tables' BY <2>2, <2>3, <2>5 DEF Tables
  <2>7. /\ tx' \in [Calls -> Stages] /\ lock' \subseteq Calls /\ Locked'
        /\ work' \in [count : Nat, pending : BOOLEAN, index : Nat]
        /\ tx'[t] = "ended" /\ \A u \in Calls : u # t => tx'[u] = tx[u]
        /\ \A u \in Appends : tx'[u] \notin Active
    <3>1. tx[t] \in Active BY <1>3 DEF Active
    <3> QED BY <1>0, <1>2, <1>3, <3>1, RollbackEffect, CallKinds
  <2>8. TypeOK'
    <3>1. /\ agent' \in [Requests -> Agents] /\ pc' \in [Requests -> Places]
          /\ history' \in [Requests -> SUBSET Turns]
          /\ reply' \in [Calls -> Replies] /\ turns' \subseteq Turns /\ torn' \in BOOLEAN
          /\ removed' \subseteq Requests
      BY <1>0, <1>3, <1>4, <1>8, Typed DEF handler, Removes
    <3> QED BY <2>2, <2>3, <2>7, <3>1, TypedNext
  <2>9. Begun'
    <3>1. \A r \in Requests : /\ tx'[<<r, "user">>] = tx[<<r, "user">>]
                              /\ tx'[<<r, "assistant">>] = tx[<<r, "assistant">>]
      BY <1>2, <2>7, CallKinds DEF Roles
    <3> QED BY <1>3, <3>1 DEF IInv, Begun, handler
  <2>10. Settled' BY <1>3, <1>5, <1>8, <2>7 DEF IInv, Settled
  <2>11. Ahead' BY <1>3, <2>7 DEF IInv, Ahead, Active
  <2>12. Current' BY <2>7 DEF Current
  <2>13. Counted'
    <3>1. Indexes' = {1} BY <1>5, <1>8 DEF Indexes
    <3>2. Indexes' = 1..Cardinality(turns') BY <2>5, <3>1
    <3>3. Answers' = {} BY <1>2, <1>5, <1>8 DEF Answers
    <3>4. PendingTools' = FALSE BY <3>3 DEF PendingTools
    <3>5. \A x \in row' : x.count = Cardinality(turns') /\ x.pending = PendingTools'
      BY <2>4, <2>5, <3>4
    <3> QED BY <2>7, <3>2, <3>5 DEF Counted, Active
  <2>14. QuestionBefore' BY <1>5, <1>6, <1>8 DEF QuestionBefore
  <2> QED BY <2>6, <2>7, <2>8, <2>9, <2>10, <2>11, <2>12, <2>13, <2>14 DEF IInv, Base
<1> QED BY <1>3, <1>7, <1>8

-----------------------------------------------------------------------------
(* The theorems *)

(* What a step does to the invariant. *)
LEMMA Invariant == IInv /\ [Next]_vars => IInv'
<1> SUFFICES ASSUME IInv, [Next]_vars PROVE IInv'
  OBVIOUS
<1>1. ASSUME NEW r \in Requests, Attach(r) \/ Answer(r) \/ NextTurn(r) \/ LastTurn(r)
      PROVE  IInv'
  BY <1>1, HandlerStep
<1>2. ASSUME NEW t \in Appends, AppendTurn(t) PROVE IInv'
  BY <1>2, TimeoutStep, CheckStep, SelectMaxStep, InsertStep, CommitStep DEF AppendTurn
<1>3. ASSUME NEW t \in Calls, Fails(t) PROVE IInv'
  BY <1>3, FailsStep
<1>4. ASSUME NEW a \in Maintainers, Delete(a) \/ Compact(a) \/ CompactStore(a) PROVE IInv'
  BY <1>4, DeleteStep, CompactStep, CompactStoreStep
<1>5. CASE UNCHANGED vars
  <2>1. UNCHANGED <<agent, pc, history, tx, reply, lock, work, row, turns, torn, removed>>
    BY <1>5 DEF vars, handler, call, tables
  <2>2. TypeOK' /\ Tables' /\ Locked'
    BY <2>1 DEF IInv, Base, TypeOK, Tables, Locked
  <2>3. Begun' /\ Settled' /\ Ahead' /\ Current'
    BY <2>1 DEF IInv, Begun, Settled, Ahead, Current, Indexes
  <2>4. Counted' /\ QuestionBefore'
    BY <2>1 DEF IInv, Counted, Indexes, PendingTools, Answers, QuestionBefore
  <2> QED BY <2>2, <2>3, <2>4 DEF IInv, Base
<1> QED BY <1>1, <1>2, <1>3, <1>4, <1>5 DEF Next

(* Only a commit reports a turn stored, and only a removal takes turns away.   *)
LEMMA KeptStep == IInv /\ QuestionKept /\ [Next]_vars => QuestionKept'
<1> SUFFICES ASSUME IInv, QuestionKept, [Next]_vars, NEW r \in Requests,
                    reply'[<<r, "user">>] = "persisted"
             PROVE  r \in removed' \/ \E u \in turns' : u.by = <<r, "user">>
  BY DEF QuestionKept
<1>0. TypeOK /\ <<r, "user">> \in Calls BY CallKinds DEF IInv, Base, Roles
<1>1. CASE UNCHANGED <<reply, turns, removed>> BY <1>1 DEF QuestionKept
<1>2. ASSUME NEW t \in Calls, NEW result \in Replies \ {"persisted"}, Return(t, result),
             UNCHANGED <<turns, removed>>
      PROVE  r \in removed' \/ \E u \in turns' : u.by = <<r, "user">>
  <2>1. reply[<<r, "user">>] = "persisted" BY <1>0, <1>2, ReturnEffect
  <2> QED BY <1>2, <2>1 DEF QuestionKept
<1>3. ASSUME NEW t \in Appends, Commit(t)
      PROVE  r \in removed' \/ \E u \in turns' : u.by = <<r, "user">>
  <2>1. /\ turns' = turns \cup {Turn(t)} /\ Turn(t).by = t
        /\ \A u \in Calls : u # t => reply'[u] = reply[u]
    BY <1>3, CommitEffect
  <2>2. removed' = removed BY <1>3 DEF Commit, Store
  <2>3. CASE t = <<r, "user">> BY <2>1, <2>3
  <2>4. CASE t # <<r, "user">>
    <3>1. reply[<<r, "user">>] = "persisted" BY <1>0, <2>1, <2>4
    <3> QED BY <2>1, <2>2, <3>1 DEF QuestionKept
  <2> QED BY <2>3, <2>4
<1>4. CASE Removes /\ UNCHANGED reply
  BY <1>4 DEF QuestionKept, Removes
<1>5. CASE Next
  <2>1. ASSUME NEW x \in Requests, Attach(x) \/ Answer(x) \/ NextTurn(x) \/ LastTurn(x)
        PROVE  UNCHANGED <<reply, turns, removed>>
    BY <2>1, HandlerEffect
  <2>2. ASSUME NEW t \in Appends, AppendTurn(t)
        PROVE  r \in removed' \/ \E u \in turns' : u.by = <<r, "user">>
    <3>1. CASE Timeout(t) BY <1>2, <3>1, CallKinds DEF Timeout, tables, Replies
    <3>2. CASE Check(t)
      <4>1. UNCHANGED <<turns, removed>> /\ (UNCHANGED reply \/ Return(t, "error"))
        BY <3>2 DEF Check, tables
      <4> QED BY <1>1, <1>2, <4>1, CallKinds DEF Replies
    <3>3. CASE SelectMax(t) BY <1>1, <3>3 DEF SelectMax, tables
    <3>4. CASE Insert(t)
      <4>1. UNCHANGED <<turns, removed>> /\ (\/ UNCHANGED reply \/ Return(t, "error")
                                            \/ Return(t, "duplicate"))
        BY <3>4 DEF Insert, tables
      <4> QED BY <1>1, <1>2, <4>1, CallKinds DEF Replies
    <3>5. CASE Commit(t) BY <1>3, <3>5
    <3> QED BY <2>2, <3>1, <3>2, <3>3, <3>4, <3>5 DEF AppendTurn
  <2>3. ASSUME NEW t \in Calls, Fails(t)
        PROVE  r \in removed' \/ \E u \in turns' : u.by = <<r, "user">>
    BY <1>2, <2>3 DEF Fails, tables, Replies
  <2>4. ASSUME NEW a \in Maintainers, Delete(a) \/ Compact(a) \/ CompactStore(a)
        PROVE  UNCHANGED <<reply, turns, removed>> \/ (Removes /\ UNCHANGED reply)
    <3>1. CASE Delete(a) BY <3>1 DEF Delete, call
    <3>2. CASE Compact(a) BY <3>2 DEF Compact, tables
    <3>3. CASE CompactStore(a) BY <3>3, CompactStoreEffect
    <3> QED BY <2>4, <3>1, <3>2, <3>3
  <2> QED BY <1>1, <1>4, <1>5, <2>1, <2>2, <2>3, <2>4 DEF Next
<1>6. CASE UNCHANGED vars BY <1>1, <1>6 DEF vars, call, tables
<1> QED BY <1>5, <1>6

(* An empty database. *)
LEMMA Initially == Init => IInv
<1> SUFFICES ASSUME Init PROVE IInv
  OBVIOUS
<1>1. IsFiniteSet({}) /\ Cardinality({}) = 0 BY FS_EmptySet
<1>2. TypeOK
  <2>1. agent \in [Requests -> Agents] /\ pc \in [Requests -> Places]
    BY DEF Init, Places
  <2>2. history \in [Requests -> SUBSET Turns] BY DEF Init
  <2>3. tx \in [Calls -> Stages] /\ reply \in [Calls -> Replies]
    BY DEF Init, Stages, Replies
  <2>4. work \in [count : Nat, pending : BOOLEAN, index : Nat] BY DEF Init, NoWork
  <2>5. /\ lock \subseteq Calls /\ row \subseteq SessionRows /\ turns \subseteq Turns
        /\ torn \in BOOLEAN /\ removed \subseteq Requests
    BY DEF Init
  <2>6. row = {} /\ Cardinality({}) <= 1 BY <1>1 DEF Init
  <2> QED BY <2>1, <2>2, <2>3, <2>4, <2>5, <2>6, Typed
<1>3. Tables BY <1>1 DEF Init, Tables
<1>4. Locked BY DEF Init, Locked, Active, Compactions, Calls
<1>5. Begun BY CallKinds DEF Init, Begun, Roles
<1>6. Settled BY DEF Init, Settled
<1>7. \A t \in Appends : tx[t] = "none" BY CallKinds DEF Init
<1>8. Ahead BY <1>7 DEF Init, Ahead
<1>9. Current BY <1>7 DEF Current, Active
<1>10. Counted
  <2>1. Indexes = {} /\ Cardinality(turns) = 0 BY <1>1 DEF Init, Indexes
  <2>2. Indexes = 1..Cardinality(turns) BY <2>1
  <2> QED BY <1>7, <2>2 DEF Init, Counted
<1>11. QuestionBefore BY DEF Init, QuestionBefore
<1> QED BY <1>2, <1>3, <1>4, <1>5, <1>6, <1>8, <1>9, <1>10, <1>11 DEF IInv, Base

(* The invariant holds of every state. *)
LEMMA Inductive == Spec => []IInv
  BY Initially, Invariant, PTL DEF Spec

(* Every variable has its type; in particular there is one session row at most, *)
(* though sessions are created, deleted and created again.                     *)
THEOREM TypeCorrect == Spec => []TypeOK
<1>1. IInv => TypeOK BY DEF IInv, Base
<1> QED BY <1>1, Inductive, PTL

(* Unless a deletion met a transaction that had read the row, the numbers have *)
(* no gaps, turn_count counts the turns, has_pending_tool_call is what the     *)
(* last answer says and no append is refused as a duplicate; and an answer     *)
(* whose question was reported stored comes behind it, or finds that it has    *)
(* gone with the session or into its summary.                                  *)
THEOREM StoresInOrder == Spec => []Ordered
<1>1. ASSUME IInv, QuestionKept PROVE Ordered
  <2>1. QuestionFirst BY <1>1 DEF IInv, QuestionBefore, QuestionKept, QuestionFirst
  <2>2. \A t \in Appends : reply[t] # "duplicate" BY <1>1, CallKinds DEF IInv, Ahead
  <2>3. Numbered BY <1>1, <2>2 DEF IInv, Counted, Numbered
  <2> QED BY <2>1, <2>3 DEF Ordered
<1>2. Init => QuestionKept BY CallKinds DEF Init, QuestionKept, Roles
<1> QED BY <1>1, <1>2, KeptStep, Inductive, PTL DEF Spec

(* P4-03: the turns a handler holds are its agent's own, though the session may *)
(* have been deleted and created by another since it was checked.              *)
THEOREM ShownItsOwn == Spec => []OwnHistory
<1>1. Init => OwnHistory BY DEF Init, OwnHistory
<1>2. IInv /\ OwnHistory /\ [Next]_vars => OwnHistory'
  <2> SUFFICES ASSUME IInv, OwnHistory, [Next]_vars PROVE OwnHistory'
    OBVIOUS
  <2>1. history \in [Requests -> SUBSET Turns] BY Typed DEF IInv, Base
  <2>2. \/ UNCHANGED <<agent, history>>
        \/ \E r \in Requests : /\ history' \in {[history EXCEPT ![r] = {}], [history EXCEPT ![r] = Own(r)]}
                               /\ agent' = agent
    BY DEF Next, Attach, CreateSelect, CreateInsert, CreateFails, LoadSelect, LoadTurns, Answer,
           NextTurn, LastTurn, AppendTurn, Timeout, Check, SelectMax, Insert, Commit, Fails, Delete,
           Compact, CompactStore, handler, vars
  <2> QED BY <2>1, <2>2 DEF OwnHistory, Own
<1> QED BY <1>1, <1>2, Inductive, PTL DEF Spec

(* A turn is added behind all others or not at all, and turns go only all      *)
(* together, however the transactions of the appends interleave.               *)
LEMMA LogStep == IInv /\ [Next]_vars => [Log!Next]_turns
<1> SUFFICES ASSUME IInv, [Next]_vars PROVE Log!Next \/ turns' = turns
  OBVIOUS
<1>1. ASSUME NEW r \in Requests, Attach(r) \/ Answer(r) \/ NextTurn(r) \/ LastTurn(r)
      PROVE  turns' = turns
  BY <1>1, HandlerEffect
<1>2. ASSUME NEW t \in Appends, Commit(t) PROVE Log!Append
  <2>1. /\ turns' = turns \cup {Turn(t)} /\ Turn(t) \in Turns
        /\ \A other \in turns : other.index < Turn(t).index
    BY <1>2, CommitEffect
  <2>2. Turn(t) \notin turns BY <2>1 DEF Turns
  <2> QED BY <2>1, <2>2 DEF Log!Append
<1>3. ASSUME NEW t \in Appends, AppendTurn(t) PROVE Log!Next \/ turns' = turns
  BY <1>2, <1>3 DEF AppendTurn, Timeout, Check, SelectMax, Insert, tables, Log!Next
<1>4. ASSUME NEW t \in Calls, Fails(t) PROVE turns' = turns
  BY <1>4 DEF Fails, tables
<1>5. ASSUME NEW a \in Maintainers, Delete(a) \/ Compact(a) PROVE Log!Clear \/ turns' = turns
  BY <1>5 DEF Delete, Compact, tables, Log!Clear
<1>6. ASSUME NEW a \in Maintainers, CompactStore(a) PROVE Log!Replace \/ turns' = turns
  <2>1. \/ turns' = turns
        \/ turns' = {[index |-> 1, agent |-> a, by |-> <<a, "summary">>]}
    BY <1>6, CompactStoreEffect
  <2>2. DEFINE summary == [index |-> 1, agent |-> a, by |-> <<a, "summary">>]
  <2>3. summary.index = 1 OBVIOUS
  <2> HIDE DEF summary
  <2>4. turns' = {summary} => Log!Replace BY <2>3 DEF Log!Replace
  <2> QED BY <2>1, <2>4 DEF summary
<1>7. CASE UNCHANGED vars BY <1>7 DEF vars, tables
<1> QED BY <1>1, <1>3, <1>4, <1>5, <1>6, <1>7 DEF Next, Log!Next

(* P4-02: the conversation_turns of a session implement the log.               *)
THEOREM Refinement == Spec => ImplementsSessionLog
<1>1. Init => Log!Init BY DEF Init, Log!Init
<1> QED BY <1>1, LogStep, Inductive, PTL DEF Spec, ImplementsSessionLog, Log!Spec

-----------------------------------------------------------------------------
(* The prompt                                                                  *)

(* The least of some numbers.                                                  *)
LEMMA LeastNat ==
    ASSUME NEW T \in SUBSET Nat, T # {}
    PROVE  \E x \in T : \A y \in T : x <= y
<1>1. \E x \in T : \A y \in T : ~(<<y, x>> \in OpToRel(<, Nat))
  BY WFMin, NatLessThanWellFounded, Zenon
<1>2. \E x \in T : \A y \in T : ~(y < x)
  BY <1>1, Zenon DEF OpToRel
<1> QED BY <1>2

(* The Min of a set of numbers is a member, and the least. *)
LEMMA MinOf ==
    ASSUME NEW T \in SUBSET Nat, T # {}
    PROVE  Min(T) \in T /\ \A y \in T : Min(T) <= y
<1>1. \E x \in T : \A y \in T : x <= y BY LeastNat
<1> QED BY <1>1 DEF Min

(* Finitely many numbers have a bound: a smallest set without one would have    *)
(* none without its last member either.                                        *)
LEMMA FiniteBounded ==
    ASSUME NEW S \in SUBSET Nat, IsFiniteSet(S)
    PROVE  \E m \in Nat : \A i \in S : i <= m
<1> DEFINE Bounded(A) == \E m \in Nat : \A i \in A : i <= m
           T == {n \in Nat : \E A \in SUBSET S : Cardinality(A) = n /\ ~Bounded(A)}
<1>1. SUFFICES ASSUME ~Bounded(S) PROVE FALSE
  OBVIOUS
<1>2. Cardinality(S) \in T
  BY <1>1, FS_CardinalityType
<1>3. PICK n \in T : \A y \in T : n <= y
  BY <1>2, LeastNat
<1>4. PICK A \in SUBSET S : Cardinality(A) = n /\ ~Bounded(A)
  BY <1>3
<1>5. IsFiniteSet(A)
  BY <1>4, FS_Subset
<1>6. PICK x \in A : TRUE
  <2>1. A = {} => Bounded(A)
    OBVIOUS
  <2> QED BY <1>4, <2>1
<1> HIDE DEF T
<1>7. Cardinality(A \ {x}) = n - 1 /\ Cardinality(A \ {x}) \in Nat /\ A \ {x} \in SUBSET S
  BY <1>4, <1>5, <1>6, FS_RemoveElement, FS_CardinalityType
<1>8. Bounded(A \ {x})
  <2>1. n - 1 \in Nat /\ n \in Nat
    BY <1>3, <1>7 DEF T
  <2>2. n - 1 \notin T
    BY <1>3, <2>1
  <2> QED BY <1>7, <2>1, <2>2 DEF T
<1>9. PICK m \in Nat : \A i \in A \ {x} : i <= m
  BY <1>8
<1>10. x \in Nat /\ m + x \in Nat
  BY <1>4, <1>6
<1>11. ASSUME NEW i \in A PROVE i <= m + x
  BY <1>4, <1>9, <1>10
<1> HIDE DEF Bounded
<1>12. Bounded(A)
  BY <1>10, <1>11 DEF Bounded
<1> QED BY <1>4, <1>12

(* Every place up to the number of members is some member's.                    *)
LEMMA AscendingIs ==
    ASSUME NEW S \in SUBSET Nat, IsFiniteSet(S)
    PROVE  /\ Cardinality(S) \in Nat
           /\ Ascending(S) \in [1..Cardinality(S) -> S]
           /\ \A k \in 1..Cardinality(S) : Cardinality({j \in S : j <= Ascending(S)[k]}) = k
<1>0. Cardinality(S) \in Nat
  BY FS_CardinalityType
<1> DEFINE Upto(i) == {j \in S : j <= i}
<1>1. ASSUME NEW k \in 1..Cardinality(S)
      PROVE  \E i \in S : Cardinality(Upto(i)) = k
  <2> DEFINE T == {i \in Nat : Cardinality(Upto(i)) >= k}
  <2>1. T # {}
    <3>1. PICK m \in Nat : \A i \in S : i <= m
      BY FiniteBounded
    <3>2. Upto(m) = S
      BY <3>1
    <3> QED BY <3>2, <1>0, <1>1
  <2>2. PICK i \in T : \A y \in T : i <= y
    BY <2>1, LeastNat
  <2> DEFINE B == {j \in S : j < i}
  <2>3. i \in Nat /\ Cardinality(Upto(i)) >= k /\ k \in Nat /\ k >= 1
    BY <2>2, <1>0
  <2>a. \A j \in S : /\ (j <= i) <=> (j < i \/ j = i)
                     /\ (j <= i - 1) <=> (j < i)
                     /\ i = 0 => ~(j < i)
    BY <2>3
  <2>4. IsFiniteSet(B) /\ Cardinality(B) \in Nat
    <3>1. B \in SUBSET S
      OBVIOUS
    <3> QED BY <3>1, FS_Subset, FS_CardinalityType
  <2>5. Cardinality(B) < k
    <3>1. CASE i = 0
      <4>1. B = {}
        BY <2>a, <3>1
      <4> QED BY <4>1, <2>3, FS_EmptySet
    <3>2. CASE i # 0
      <4>1. i - 1 \in Nat /\ ~(i <= i - 1)
        BY <2>3, <3>2
      <4>2. ~(Cardinality(Upto(i - 1)) >= k)
        BY <2>2, <4>1
      <4>3. Upto(i - 1) = B
        BY <2>a
      <4> QED BY <2>3, <2>4, <4>2, <4>3
    <3> QED BY <3>1, <3>2
  <2>6. CASE i \notin S
    <3>1. Upto(i) = B
      BY <2>a, <2>6
    <3> QED BY <2>3, <2>4, <2>5, <3>1
  <2>7. CASE i \in S
    <3>0. i \notin B
      BY <2>3
    <3>1. Upto(i) = B \cup {i} /\ i \notin B
      BY <2>a, <2>7, <3>0, Zenon
    <3> HIDE DEF B, Upto
    <3>2. Cardinality(Upto(i)) = Cardinality(B) + 1
      BY <2>4, <3>1, FS_AddElement
    <3>3. Cardinality(Upto(i)) = k
      BY <2>3, <2>4, <2>5, <3>2
    <3> QED BY <2>7, <3>3
  <2> QED BY <2>6, <2>7
<1>2. ASSUME NEW k \in 1..Cardinality(S)
      PROVE  Ascending(S)[k] \in S /\ Cardinality({j \in S : j <= Ascending(S)[k]}) = k
  BY <1>1 DEF Ascending
<1>3. Ascending(S) \in [1..Cardinality(S) -> S]
  BY <1>2 DEF Ascending
<1> QED BY <1>0, <1>2, <1>3

(* The turns that may be evicted are a sequence.                               *)
LEMMA OthersAreASeq ==
    ASSUME NEW n \in Nat, NEW past, DOMAIN past = 1..n
    PROVE  \E S : OthersOf(past) \in Seq(S)
<1> DEFINE P == {i \in DOMAIN past : past[i].role # "system"}
           order == Ascending(P)
           k == Cardinality(P)
<1>1. P \in SUBSET Nat /\ IsFiniteSet(P)
  <2>1. P \in SUBSET (1..n)
    OBVIOUS
  <2>2. IsFiniteSet(1..n)
    BY FS_Interval
  <2> QED BY <2>1, <2>2, FS_Subset
<1>2. k \in Nat /\ order \in [1..k -> P]
  BY <1>1, AscendingIs
<1>3. OthersOf(past) = [i \in 1..k |-> past[order[i]]]
  <2>1. DOMAIN order = 1..k
    BY <1>2
  <2> QED BY <2>1 DEF OthersOf, At
<1> HIDE DEF P, order, k
<1> DEFINE Values == {past[order[i]] : i \in 1..k}
<1>4. [i \in 1..k |-> past[order[i]]] \in Seq(Values)
  <2>1. \A i \in 1..k : past[order[i]] \in Values
    OBVIOUS
  <2> HIDE DEF Values
  <2> QED BY <1>2, <2>1
<1> QED BY <1>3, <1>4

(* What a loop leaves is a rest of the sequence: no more is shifted out than    *)
(* must be, and nothing of the request.                                        *)
LEMMA ShiftIs ==
    ASSUME NEW S, NEW messages \in Seq(S), NEW incoming, Len(incoming) \in Nat,
           Len(incoming) <= Len(messages), NEW fitting
    PROVE  \E n \in 0..(Len(messages) - Len(incoming)) :
              /\ Shift(messages, incoming, fitting) = SubSeq(messages, n + 1, Len(messages))
              /\ n = Len(messages) - Len(incoming) \/ n \in fitting
              /\ n > 0 => n - 1 \notin fitting
<1> DEFINE T == {n \in 0..Len(messages) :
                    Len(messages) - n <= Len(incoming) \/ n \in fitting}
           n == Min(T)
<1>0. Len(messages) \in Nat
  OBVIOUS
<1>1. T \in SUBSET Nat /\ Len(messages) - Len(incoming) \in T
  BY <1>0
<1>2. n \in T /\ \A y \in T : n <= y
  BY <1>1, MinOf
<1>3. Shift(messages, incoming, fitting) = SubSeq(messages, n + 1, Len(messages))
  BY DEF Shift, Floor
<1>4. n \in Nat /\ n <= Len(messages) - Len(incoming)
  BY <1>1, <1>2
<1>5. n = Len(messages) - Len(incoming) \/ n \in fitting
  BY <1>0, <1>2, <1>4
<1>6. ASSUME n > 0 PROVE n - 1 \notin fitting
  <2>1. n - 1 \in 0..Len(messages) /\ ~(n <= n - 1)
    BY <1>0, <1>4, <1>6
  <2>2. n - 1 \notin T
    BY <1>2, <2>1
  <2> QED BY <2>1, <2>2
<1> HIDE DEF n
<1>7. n \in 0..(Len(messages) - Len(incoming))
  BY <1>0, <1>4
<1> QED BY <1>3, <1>5, <1>6, <1>7

(* What is left of a sequence after a shifts.                                   *)
LEMMA RestIs ==
    ASSUME NEW S, NEW s \in Seq(S), NEW a \in 0..Len(s)
    PROVE  /\ SubSeq(s, a + 1, Len(s)) \in Seq(S)
           /\ Len(SubSeq(s, a + 1, Len(s))) = Len(s) - a
           /\ \A i \in 1..(Len(s) - a) : SubSeq(s, a + 1, Len(s))[i] = s[a + i]
<1> DEFINE l == Len(s)
           r == SubSeq(s, a + 1, l)
<1>0. l \in Nat /\ a \in Nat /\ a <= l
  OBVIOUS
<1>1. a + 1 \in Int /\ l \in Int /\ (\A i \in (a + 1)..l : s[i] \in S)
  BY <1>0
<1>2. r \in Seq(S) /\ Len(r) = (IF a + 1 <= l THEN l - (a + 1) + 1 ELSE 0)
      /\ \A i \in 1..(l - (a + 1) + 1) : r[i] = s[(a + 1) + i - 1]
  BY <1>1, SubSeqProperties
<1> HIDE DEF l, r
<1>3. r \in Seq(S) /\ Len(r) = l - a /\ \A i \in 1..(l - a) : r[i] = s[a + i]
  BY <1>0, <1>2
<1> QED BY <1>3 DEF l, r

(* The rest of a rest is one.                                                   *)
LEMMA RestOfRest ==
    ASSUME NEW S, NEW s \in Seq(S), NEW a \in 0..Len(s), NEW b \in 0..(Len(s) - a)
    PROVE  SubSeq(SubSeq(s, a + 1, Len(s)), b + 1, Len(s) - a) = SubSeq(s, a + b + 1, Len(s))
<1> DEFINE l == Len(s)
           r == SubSeq(s, a + 1, l)
           q == SubSeq(r, b + 1, Len(r))
           c == a + b
           t == SubSeq(s, c + 1, l)
<1>0. l \in Nat /\ a \in Nat /\ b \in Nat /\ c \in 0..Len(s) /\ b <= l - a
  OBVIOUS
<1>1. r \in Seq(S) /\ Len(r) = l - a /\ \A i \in 1..(l - a) : r[i] = s[a + i]
  BY RestIs
<1> HIDE DEF c
<1>2. t \in Seq(S) /\ Len(t) = l - c /\ \A i \in 1..(l - c) : t[i] = s[c + i]
  BY <1>0, RestIs
<1> HIDE DEF r, t
<1>3. q \in Seq(S) /\ Len(q) = Len(r) - b /\ \A i \in 1..(Len(r) - b) : q[i] = r[b + i]
  <2>1. b \in 0..Len(r)
    BY <1>1
  <2> QED BY <1>1, <2>1, RestIs
<1> HIDE DEF q, l
<1>4. c = a + b
  BY DEF c
<1>5. Len(q) = Len(t)
  <2>1. Len(q) = Len(r) - b /\ Len(r) = l - a /\ Len(t) = l - c
    BY <1>1, <1>2, <1>3
  <2> QED BY <1>0, <1>4, <2>1
<1>6. \A i \in 1..Len(q) : q[i] = t[i]
  <2> SUFFICES ASSUME NEW i \in 1..Len(q) PROVE q[i] = t[i]
    OBVIOUS
  <2>1. i \in 1..(Len(r) - b) /\ b + i \in 1..(l - a) /\ i \in 1..(l - c)
        /\ a + (b + i) = c + i
    BY <1>0, <1>1, <1>3, <1>4
  <2>2. q[i] = r[b + i] /\ r[b + i] = s[a + (b + i)] /\ t[i] = s[c + i]
    BY <1>1, <1>2, <1>3, <2>1
  <2> QED BY <2>1, <2>2
<1>7. q = t
  BY <1>2, <1>3, <1>5, <1>6, SeqEqual
<1>8. SubSeq(r, b + 1, l - a) = t
  BY <1>1, <1>7 DEF q
<1> QED BY <1>8 DEF l, r, t, c

(* The two loops of provideContext leave the newest turns that fit, and the     *)
(* request's own messages whatever they weigh.                                  *)
LEMMA ContextIsRecent ==
    ASSUME NEW S, NEW past, OthersOf(past) \in Seq(S),
           NEW incoming \in Seq(S), NEW system
    PROVE  IsRecent(ProvideContext(past, incoming, system), past, incoming, system)
<1> DEFINE others    == OthersOf(past)
           all       == others \o incoming
           pinned    == SystemOf(past) \o system
           WithinCap == {n \in 0..Len(all) : Len(all) - n <= TurnCap}
           capped    == IF Truncate THEN Shift(all, incoming, WithinCap) ELSE all
           WithinBudget ==
               {n \in 0..Len(capped) :
                   Tokens(pinned) + Tokens(SubSeq(capped, n + 1, Len(capped))) <= Budget}
           kept      == Shift(capped, incoming, WithinBudget)
           l         == Len(all)
           h         == Len(others)
           Within(messages) == Tokens(pinned) + Tokens(messages) <= Budget
<1>1. /\ all \in Seq(S) /\ l \in Nat /\ h \in Nat /\ Len(incoming) \in Nat /\ l = h + Len(incoming)
      /\ \A i \in 1..l : all[i] = IF i <= h THEN others[i] ELSE incoming[i - h]
  <2>1. Len(others) \in Nat /\ Len(incoming) \in Nat
    OBVIOUS
  <2> QED BY <2>1, ConcatProperties
<1>2. PICK a \in 0..h :
         /\ capped = SubSeq(all, a + 1, l)
         /\ Truncate => a = h \/ a \in WithinCap
         /\ a > 0 => Truncate /\ a - 1 \notin WithinCap
  <2>1. CASE Truncate
    <3>1. PICK n \in 0..(l - Len(incoming)) :
             /\ Shift(all, incoming, WithinCap) = SubSeq(all, n + 1, l)
             /\ n = l - Len(incoming) \/ n \in WithinCap
             /\ n > 0 => n - 1 \notin WithinCap
      <4>1. Len(incoming) <= Len(all)
        BY <1>1
      <4> HIDE DEF WithinCap, all
      <4> QED BY <1>1, <4>1, ShiftIs
    <3>2. l - Len(incoming) = h
      BY <1>1
    <3> HIDE DEF WithinCap, all, h, l
    <3> QED BY <2>1, <3>1, <3>2
  <2>2. CASE ~Truncate
    <3>1. SubSeq(all, 0 + 1, l) = all /\ 0 \in 0..h
      <4>1. 0 \in 0..Len(all)
        BY <1>1
      <4> HIDE DEF all
      <4>2. /\ SubSeq(all, 0 + 1, l) \in Seq(S) /\ Len(SubSeq(all, 0 + 1, l)) = l - 0
            /\ \A i \in 1..(l - 0) : SubSeq(all, 0 + 1, l)[i] = all[0 + i]
        BY <1>1, <4>1, RestIs
      <4>3. \A i \in 1..l : 0 + i = i
        OBVIOUS
      <4>4. SubSeq(all, 0 + 1, l) = all
        BY <1>1, <4>2, <4>3, SeqEqual
      <4> QED BY <1>1, <4>4
    <3> HIDE DEF WithinCap, all, h, l
    <3> QED BY <2>2, <3>1
  <2> QED BY <2>1, <2>2
<1> HIDE DEF capped
<1>3. capped \in Seq(S) /\ Len(capped) = l - a /\ Len(incoming) <= Len(capped)
  <2>1. a \in 0..Len(all)
    BY <1>1
  <2> HIDE DEF all
  <2>2. capped \in Seq(S) /\ Len(capped) = l - a
    BY <1>1, <1>2, <2>1, RestIs
  <2> QED BY <1>1, <2>2
<1>4. PICK b \in 0..(h - a) :
         /\ kept = SubSeq(capped, b + 1, l - a)
         /\ b = h - a \/ b \in WithinBudget
         /\ b > 0 => b - 1 \notin WithinBudget
  <2>1. PICK n \in 0..(Len(capped) - Len(incoming)) :
           /\ kept = SubSeq(capped, n + 1, Len(capped))
           /\ n = Len(capped) - Len(incoming) \/ n \in WithinBudget
           /\ n > 0 => n - 1 \notin WithinBudget
    <3> HIDE DEF WithinBudget
    <3> QED BY <1>1, <1>3, ShiftIs
  <2>2. Len(capped) - Len(incoming) = h - a
    BY <1>1, <1>3
  <2> HIDE DEF kept, WithinBudget
  <2> QED BY <1>3, <2>1, <2>2
<1> DEFINE n == a + b
<1>5. /\ n \in 0..h /\ a \in Nat /\ b \in Nat /\ n \in 0..l
      /\ kept = SubSeq(all, n + 1, l) /\ kept \in Seq(S) /\ Len(kept) = l - n
  <2>1. /\ n \in 0..h /\ a \in Nat /\ b \in Nat /\ n \in 0..l /\ n = a + b
        /\ a \in 0..Len(all) /\ b \in 0..(Len(all) - a)
    BY <1>1
  <2> HIDE DEF all, n, kept
  <2>2. SubSeq(SubSeq(all, a + 1, l), b + 1, l - a) = SubSeq(all, n + 1, l)
    BY <1>1, <2>1, RestOfRest
  <2>3. kept = SubSeq(all, n + 1, l)
    BY <1>2, <1>4, <2>2
  <2>4. SubSeq(all, n + 1, l) \in Seq(S) /\ Len(SubSeq(all, n + 1, l)) = l - n
    BY <1>1, <2>1, RestIs
  <2> QED BY <2>1, <2>3, <2>4
<1>6. n = h => kept = incoming
  <2> SUFFICES ASSUME n = h PROVE kept = incoming
    OBVIOUS
  <2>1. n \in 0..Len(all) /\ l - n = Len(incoming) /\ n \in Nat
    BY <1>1, <1>5
  <2> HIDE DEF all, kept, n
  <2>2. \A i \in 1..(l - n) : kept[i] = all[n + i]
    BY <1>1, <1>5, <2>1, RestIs
  <2>3. ASSUME NEW i \in 1..Len(incoming) PROVE kept[i] = incoming[i]
    <3>1. n + i \in 1..l /\ ~(n + i <= h) /\ (n + i) - h = i
      BY <1>1, <2>1
    <3> QED BY <1>1, <2>1, <2>2, <3>1
  <2>4. Len(kept) = Len(incoming)
    BY <1>5, <2>1
  <2> QED BY <1>5, <2>3, <2>4, SeqEqual
<1>7. \/ (Truncate => Len(kept) <= TurnCap) /\ Within(kept)
      \/ kept = incoming
  <2>1. n # h => b \in WithinBudget /\ (Truncate => a \in WithinCap)
    BY <1>2, <1>4, <1>5
  <2>2. b \in WithinBudget => Within(kept)
    <3>1. b \in WithinBudget => Within(SubSeq(capped, b + 1, Len(capped)))
      OBVIOUS
    <3> HIDE DEF Within, WithinBudget, kept
    <3> QED BY <1>3, <1>4, <3>1
  <2>3. a \in WithinCap => Len(kept) <= TurnCap
    <3>1. a \in WithinCap => l - a <= TurnCap
      OBVIOUS
    <3> HIDE DEF WithinCap, kept
    <3> QED BY <1>1, <1>5, <3>1, ContextAssumption
  <2> HIDE DEF Within, WithinBudget, WithinCap, kept
  <2> QED BY <1>6, <2>1, <2>2, <2>3
<1>8. ASSUME n > 0
      PROVE  ~((Truncate => Len(SubSeq(all, n, l)) <= TurnCap) /\ Within(SubSeq(all, n, l)))
  <2>1. CASE b > 0
    <3> DEFINE c == b - 1
    <3>1. c \in 0..Len(capped) /\ c \in 0..(Len(all) - a) /\ a \in 0..Len(all)
          /\ c + 1 = b /\ a + c + 1 = n
      BY <1>1, <1>3, <1>5, <2>1
    <3> HIDE DEF c
    <3>2. c \notin WithinBudget
      BY <1>4, <2>1 DEF c
    <3>3. ~Within(SubSeq(capped, c + 1, Len(capped)))
      BY <3>1, <3>2
    <3> HIDE DEF all, n, Within, WithinBudget
    <3>4. SubSeq(SubSeq(all, a + 1, l), c + 1, l - a) = SubSeq(all, a + c + 1, l)
      BY <1>1, <3>1, RestOfRest
    <3> QED BY <1>2, <1>3, <3>1, <3>3, <3>4
  <2>2. CASE b = 0
    <3> DEFINE c == a - 1
    <3>1. a > 0 /\ n = a /\ c \in 0..Len(all) /\ c + 1 = n /\ c \in Nat
      BY <1>1, <1>5, <1>8, <2>2
    <3>2. Truncate /\ c \notin WithinCap
      BY <1>2, <3>1
    <3> HIDE DEF c, n
    <3>3. ~(l - c <= TurnCap)
      BY <3>1, <3>2
    <3> HIDE DEF all
    <3>4. Len(SubSeq(all, c + 1, l)) = l - c
      BY <1>1, <3>1, RestIs
    <3> QED BY <3>1, <3>2, <3>3, <3>4
  <2> QED BY <1>5, <2>1, <2>2
<1> DEFINE context == ProvideContext(past, incoming, system)
<1>9. context = [messages |-> kept, system |-> pinned, dropped |-> l - Len(kept)]
  BY DEF ProvideContext, capped
<1>10. context.messages = kept /\ context.system = pinned /\ context.dropped = n
  <2>1. l - Len(kept) = n
    BY <1>1, <1>5
  <2> HIDE DEF kept, pinned, n
  <2> QED BY <1>9, <2>1
<1> HIDE DEF context, kept, n, capped, WithinBudget, WithinCap, all, others, pinned
<1>11. /\ context.system = pinned /\ context.dropped \in 0..h
       /\ context.messages = SubSeq(all, context.dropped + 1, l)
  BY <1>5, <1>10
<1>12. \/ (Truncate => Len(context.messages) <= TurnCap) /\ Within(context.messages)
       \/ context.messages = incoming
  BY <1>7, <1>10
<1>13. context.dropped > 0 =>
          ~(/\ Truncate => Len(SubSeq(all, context.dropped, l)) <= TurnCap
            /\ Within(SubSeq(all, context.dropped, l)))
  BY <1>8, <1>10
<1>14. IsRecent(context, past, incoming, system)
  BY <1>11, <1>12, <1>13 DEF IsRecent, all, others, pinned
<1> QED BY <1>14 DEF context

(* Whatever turns a handler loads, the context it makes of them is recent.      *)
LEMMA Prompts == ASSUME IInv PROVE PromptIsRecent
<1> SUFFICES ASSUME NEW r \in Requests
             PROVE  IsRecent(Context(r, Own(r)), History(Own(r)), Incoming(r), OwnSystem(r))
  BY DEF PromptIsRecent
<1> DEFINE loaded == Own(r)
           P == {turn.index : turn \in loaded}
           past == History(loaded)
<1>1. loaded \in SUBSET Turns /\ IsFiniteSet(loaded)
  <2>1. turns \subseteq Turns /\ IsFiniteSet(turns)
    BY Typed DEF IInv, Base, Tables
  <2>2. loaded \in SUBSET turns
    BY DEF Own
  <2> QED BY <2>1, <2>2, FS_Subset
<1> HIDE DEF loaded
<1>2. P \in SUBSET Nat /\ IsFiniteSet(P)
  <2>1. P \in SUBSET Nat
    BY <1>1 DEF Turns
  <2>2. [turn \in loaded |-> turn.index] \in Surjection(loaded, P)
    BY DEF Surjection
  <2> HIDE DEF P
  <2> QED BY <1>1, <2>1, <2>2, FS_Surjection
<1>3. Cardinality(P) \in Nat /\ DOMAIN Ascending(P) = 1..Cardinality(P)
  <2> HIDE DEF P
  <2> QED BY <1>2, AscendingIs
<1>4. DOMAIN past = 1..Cardinality(P)
  BY <1>3 DEF History
<1>5. PICK S : OthersOf(past) \in Seq(S)
  <2> HIDE DEF P, past
  <2> QED BY <1>3, <1>4, OthersAreASeq
<1>6. PICK R : Incoming(r) \in Seq(R)
  <2>1. PICK m : Input(r) = <<m>>
    BY DEF Input
  <2>2. CASE r \in OnMessages
    <3>1. <<m>> \in Seq({m})
      OBVIOUS
    <3> QED BY <2>1, <2>2, <3>1 DEF Incoming
  <2>3. CASE r \notin OnMessages
    <3> DEFINE w == OpenAIMessagesToCanonical(<<m>>)
    <3>1. Incoming(r) = w
      BY <2>1, <2>3 DEF Incoming
    <3>2. DOMAIN <<m>> = 1..1
      OBVIOUS
    <3>3. DOMAIN w = 1..1 /\ w = [i \in 1..1 |-> w[i]]
      BY <3>2, Zenon DEF OpenAIMessagesToCanonical
    <3> HIDE DEF w
    <3>4. w \in Seq({w[1]})
      BY <3>3
    <3> QED BY <3>1, <3>4
  <2> QED BY <2>2, <2>3
<1>7. OthersOf(past) \in Seq(S \cup R) /\ Incoming(r) \in Seq(S \cup R)
  <2> HIDE DEF past
  <2> QED BY <1>5, <1>6
<1>8. IsRecent(ProvideContext(past, Incoming(r), OwnSystem(r)), past, Incoming(r), OwnSystem(r))
  <2> HIDE DEF past
  <2> QED BY <1>7, ContextIsRecent
<1> QED BY <1>8 DEF Context, loaded

(* An agent is shown its own turns only, and the model is sent the newest of    *)
(* them that fit, all of the system turns and all that the request brought.     *)
THEOREM PromptsWell == Spec => []Prompted
<1>1. IInv /\ OwnHistory => Prompted
  BY Prompts DEF Prompted
<1> QED BY <1>1, Inductive, ShownItsOwn, PTL
=============================================================================
