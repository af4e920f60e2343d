------------------------- MODULE IdempotencyMuxProofs -------------------------
(* Theorems about IdempotencyMux for any number of requests and events and any *)
(* TTLs: one generation to a lock, and what its followers emit is its own.      *)
(*                                                                             *)
(* A stream event takes three hops on the leader's connection at most (RPUSH,  *)
(* EXPIRE for the first one, PUBLISH), the terminal marker three (SET, EXPIRE, *)
(* PUBLISH): as the marker is sent last, no event is published after it.       *)
EXTENDS IdempotencyMux, SequenceTheorems, FiniteSetTheorems, TLAPS

Stations == {"idle", "acquiring", "leading", "following", "subscribed",
             "replaying", "getting", "waiting", "ended"}
Ends == Statuses \cup {"none", "failed", "timeout", "crashed"}
Commands == [op : Ops, by : Requests, msg : Messages]

EventOps == {"rpush", "expireFirst", "publish"}   \* of one event, in this order
EndOps == {"setResult", "expireChunks", "setBody", "publishEnd"}   \* of the end

W == 1..Len(wire)
Ev(i) == wire[i].msg.event
Carries(i) == wire[i].op \in EventOps

(* An event some request has made. *)
Made(e) == e[2] \in 1..made[e[1]]

(* What a command on the wire says, and of whom a query is.                    *)
Says(c) ==
    /\ c.op \in EventOps => c.msg.status = "none" /\ Made(c.msg.event)
    /\ c.op = "rpush" => c.msg.seq = NoSeq
    /\ c.op \in EndOps => c.msg.status \in Statuses /\ c.msg.event = <<c.by, 0>>
    /\ c.op = "setBody" => ~streaming
    /\ c.op = "lock" => pc[c.by] = "acquiring"
    /\ c.op = "lrange" => pc[c.by] = "replaying"
    /\ c.op = "get" => pc[c.by] = "getting"
Queries == {"lock", "lrange", "get"}
Awaiting == {"acquiring", "replaying", "getting"}
Wired ==
    /\ \A i \in W : Says(wire[i])
    /\ \A i, j \in W :
         wire[i].op \in Queries /\ wire[j].op \in Queries /\ wire[i].by = wire[j].by => i = j

-----------------------------------------------------------------------------
(* Types *)

(* The types the arguments below are about. *)
LEMMA Typed ==
    ASSUME TypeOK
    PROVE  /\ wire \in Seq(Commands) /\ Len(wire) \in Nat
           /\ \A i \in W : /\ wire[i] \in Commands /\ wire[i].op \in Ops /\ wire[i].by \in Requests
                           /\ wire[i].msg \in Messages
           /\ pc \in [Requests -> Stations] /\ made \in [Requests -> 0..Events]
           /\ inbox \in [Requests -> Seq(Messages)] /\ out \in [Requests -> Seq(Event)]
           /\ watermark \in [Requests -> {NoSeq} \cup Nat] /\ ended \in [Requests -> Ends]
           /\ via \in [Requests -> {"none", "channel", "result"}]
           /\ chunks \in Seq(Event) /\ Len(chunks) \in Nat
           /\ Events \in Nat \ {0} /\ LockTTL \in Nat \ {0} /\ DataTTL \in Nat \ {0} /\ DataTTL <= LockTTL
<1>1. wire \in Seq(Commands) /\ Len(wire) \in Nat BY DEF TypeOK, Commands
<1>2. \A i \in W : wire[i] \in Commands BY <1>1 DEF W
<1>3. \A c \in Commands : c.op \in Ops /\ c.by \in Requests /\ c.msg \in Messages BY DEF Commands
<1>4. /\ pc \in [Requests -> Stations] /\ made \in [Requests -> 0..Events]
      /\ inbox \in [Requests -> Seq(Messages)] /\ out \in [Requests -> Seq(Event)]
      /\ watermark \in [Requests -> {NoSeq} \cup Nat] /\ ended \in [Requests -> Ends]
      /\ via \in [Requests -> {"none", "channel", "result"}] /\ chunks \in Seq(Event)
  BY DEF TypeOK, Stations, Ends
<1>5. Len(chunks) \in Nat BY <1>4
<1>6. Events \in Nat \ {0} /\ LockTTL \in Nat \ {0} /\ DataTTL \in Nat \ {0} /\ DataTTL <= LockTTL
  BY MuxAssumption
<1> QED BY <1>1, <1>2, <1>3, <1>4, <1>5, <1>6

(* A message. *)
LEMMA MessageTypes ==
    ASSUME NEW m \in Messages
    PROVE  /\ m.event \in Event /\ m.seq \in Int /\ m.seq \in {NoSeq} \cup Nat
           /\ m.status \in Statuses \cup {"none"}
           /\ m.event[1] \in Requests /\ m.event[2] \in 0..Events
           /\ m.event = <<m.event[1], m.event[2]>>
           /\ IsTerminal(m) <=> m.status # "none"
<1>1. m.event \in Event /\ m.seq \in {NoSeq} \cup Nat /\ m.status \in Statuses \cup {"none"}
  BY DEF Messages
<1>2. m.event[1] \in Requests /\ m.event[2] \in 0..Events /\ m.event = <<m.event[1], m.event[2]>>
  BY <1>1 DEF Event
<1> QED BY <1>1, <1>2 DEF NoSeq, IsTerminal

(* What the helpers build. *)
LEMMA BuiltMessages ==
    /\ \A r \in Requests, i \in 0..Events :
          /\ EventOf(r, i) \in Messages
          /\ EventOf(r, i).event = <<r, i>> /\ EventOf(r, i).seq = NoSeq /\ EventOf(r, i).status = "none"
    /\ \A r \in Requests, status \in Statuses \cup {"none"} :
          /\ Terminal(r, status) \in Messages
          /\ Terminal(r, status).event = <<r, 0>> /\ Terminal(r, status).status = status
    /\ \A m \in Messages, n \in Nat :
          /\ Numbered(m, n) \in Messages
          /\ Numbered(m, n).event = m.event /\ Numbered(m, n).seq = n /\ Numbered(m, n).status = m.status
    /\ \A op \in Ops, r \in Requests, m \in Messages :
          /\ Command(op, r, m) \in Commands
          /\ Command(op, r, m).op = op /\ Command(op, r, m).by = r /\ Command(op, r, m).msg = m
<1>1. Events \in Nat \ {0} BY MuxAssumption
<1>2. ASSUME NEW r \in Requests, NEW i \in 0..Events
      PROVE  /\ EventOf(r, i) \in Messages
             /\ EventOf(r, i).event = <<r, i>> /\ EventOf(r, i).seq = NoSeq
             /\ EventOf(r, i).status = "none"
  BY DEF EventOf, Messages, Event
<1>3. ASSUME NEW r \in Requests, NEW status \in Statuses \cup {"none"}
      PROVE  /\ Terminal(r, status) \in Messages
             /\ Terminal(r, status).event = <<r, 0>> /\ Terminal(r, status).status = status
  <2>1. <<r, 0>> \in Event BY <1>1 DEF Event
  <2> QED BY <2>1 DEF Terminal, Messages
<1>4. ASSUME NEW m \in Messages, NEW n \in Nat
      PROVE  /\ Numbered(m, n) \in Messages
             /\ Numbered(m, n).event = m.event /\ Numbered(m, n).seq = n
             /\ Numbered(m, n).status = m.status
  BY DEF Numbered, Messages
<1>5. ASSUME NEW op \in Ops, NEW r \in Requests, NEW m \in Messages
      PROVE  /\ Command(op, r, m) \in Commands
             /\ Command(op, r, m).op = op /\ Command(op, r, m).by = r /\ Command(op, r, m).msg = m
  BY DEF Command, Commands
<1> QED BY <1>2, <1>3, <1>4, <1>5

-----------------------------------------------------------------------------
(* The connection *)

Popped ==
    /\ Len(wire) >= 1 /\ Len(wire') = Len(wire) - 1
    /\ \A i \in 1..(Len(wire) - 1) : wire'[i] = wire[i + 1]
Replaced(c) ==
    /\ Len(wire) >= 1 /\ Len(wire') = Len(wire) /\ wire'[Len(wire)] = c
    /\ \A i \in 1..(Len(wire) - 1) : wire'[i] = wire[i + 1]
Added(c) ==
    /\ Len(wire') = Len(wire) + 1 /\ wire'[Len(wire) + 1] = c
    /\ \A i \in 1..Len(wire) : wire'[i] = wire[i]

(* The oldest command. *)
LEMMA Oldest ==
    ASSUME TypeOK, wire # <<>>
    PROVE  /\ Head(wire) = wire[1] /\ Caller = wire[1].by /\ Message = wire[1].msg
           /\ 1 \in W /\ Caller \in Requests /\ Message \in Messages /\ wire[1].op \in Ops
<1>1. wire \in Seq(Commands) /\ Len(wire) \in Nat BY Typed
<1>2. Len(wire) >= 1 /\ Head(wire) = wire[1] BY <1>1, EmptySeq
<1>3. 1 \in W BY <1>1, <1>2 DEF W
<1> QED BY <1>2, <1>3, Typed DEF Caller, Message

(* What becomes of the wire. *)
LEMMA WireSteps ==
    ASSUME TypeOK
    PROVE  /\ \A c \in Commands : Send(c) => wire' \in Seq(Commands) /\ Added(c)
           /\ wire # <<>> /\ NoMore => wire' \in Seq(Commands) /\ Popped
           /\ \A op \in Ops, m \in Messages : wire # <<>> /\ Then(op, m) =>
                 wire' \in Seq(Commands) /\ Replaced(Command(op, Caller, m))
<1>1. wire \in Seq(Commands) /\ Len(wire) \in Nat BY Typed
<1>2. ASSUME NEW c \in Commands, Send(c) PROVE wire' \in Seq(Commands) /\ Added(c)
  BY <1>1, <1>2, AppendProperties DEF Send, Added
<1>3. ASSUME wire # <<>>
      PROVE  /\ Len(wire) >= 1 /\ Tail(wire) \in Seq(Commands) /\ Len(Tail(wire)) = Len(wire) - 1
             /\ \A i \in 1..(Len(wire) - 1) : Tail(wire)[i] = wire[i + 1]
  BY <1>1, <1>3, HeadTailProperties, EmptySeq
<1>4. ASSUME wire # <<>>, NoMore PROVE wire' \in Seq(Commands) /\ Popped
  BY <1>3, <1>4 DEF NoMore, Popped
<1>5. ASSUME NEW op \in Ops, NEW m \in Messages, wire # <<>>, Then(op, m)
      PROVE  wire' \in Seq(Commands) /\ Replaced(Command(op, Caller, m))
  <2>1. DEFINE c == Command(op, Caller, m)
  <2>2. c \in Commands BY <1>5, Oldest, BuiltMessages
  <2>3. wire' = Append(Tail(wire), c) BY <1>5 DEF Then
  <2> HIDE DEF c
  <2>4. /\ wire' \in Seq(Commands) /\ Len(wire') = Len(Tail(wire)) + 1
        /\ wire'[Len(Tail(wire)) + 1] = c
        /\ \A i \in 1..Len(Tail(wire)) : wire'[i] = Tail(wire)[i]
    BY <1>3, <1>5, <2>2, <2>3, AppendProperties
  <2>5. Replaced(c) BY <1>1, <1>3, <1>5, <2>4 DEF Replaced
  <2> QED BY <2>4, <2>5 DEF c
<1> QED BY <1>2, <1>4, <1>5

-----------------------------------------------------------------------------
(* Type correctness *)

(* TypeOK, in the names above. *)
LEMMA TypeNames ==
    TypeOK <=> /\ streaming \in BOOLEAN
               /\ lockTTL \in 0..LockTTL /\ age \in [Requests -> 0..LockTTL]
               /\ result \in Statuses \cup {"none"} /\ resultTTL \in 0..DataTTL
               /\ result = "none" <=> resultTTL = 0
               /\ chunks \in Seq(Event) /\ chunksTTL \in 0..LockTTL
               /\ wire \in Seq(Commands)
               /\ pc \in [Requests -> Stations]
               /\ made \in [Requests -> 0..Events]
               /\ inbox \in [Requests -> Seq(Messages)]
               /\ watermark \in [Requests -> {NoSeq} \cup Nat]
               /\ out \in [Requests -> Seq(Event)]
               /\ ended \in [Requests -> Ends]
               /\ via \in [Requests -> {"none", "channel", "result"}]
               /\ faults \subseteq Ops \cup {"crash", "lapse"}
  BY DEF TypeOK, Commands, Stations, Ends

(* The commands that execute. *)
LEMMA TypeExecute ==
    ASSUME TypeOK, Wired, Execute
    PROVE  TypeOK'
<1>1. wire # <<>> /\ Head(wire).op \in Ops
  BY DEF Execute, Lock, Rpush, ExpireFirst, Publish, SetResult, ExpireChunks, SetBody, Lrange, Get,
         Executes, Ops
<1>2. /\ Caller \in Requests /\ Message \in Messages /\ 1 \in W /\ Message = wire[1].msg
      /\ Head(wire) = wire[1]
  BY <1>1, Oldest
<1>3. /\ Message.event \in Event /\ Message.status \in Statuses \cup {"none"}
      /\ Head(wire).op \in EndOps => Message.status \in Statuses
  BY <1>2, MessageTypes DEF Wired, Says
<1>4. NoMore => wire' \in Seq(Commands) BY <1>1, WireSteps
<1>5. \A op \in Ops, m \in Messages : Then(op, m) => wire' \in Seq(Commands) BY <1>1, WireSteps
<1>6. LockTTL \in 0..LockTTL /\ DataTTL \in 0..LockTTL /\ DataTTL \in 0..DataTTL /\ DataTTL # 0 /\ 0 \in 0..LockTTL
  BY MuxAssumption
<1>7. \A where \in Stations : Goto(Caller, where) => pc' \in [Requests -> Stations]
  BY <1>2, Typed DEF Goto
<1>8. \A status \in Ends : End(Caller, status) =>
        pc' \in [Requests -> Stations] /\ ended' \in [Requests -> Ends]
  BY <1>2, Typed DEF End, Goto, Stations
<1>9. Len(chunks) \in Nat /\ chunks \in Seq(Event) BY Typed
<1>10. CASE Lock
  <2>1. "leading" \in Stations /\ "following" \in Stations BY DEF Stations
  <2>2. pc' \in [Requests -> Stations] BY <1>7, <1>10, <2>1 DEF Lock, Locks
  <2>3. wire' \in Seq(Commands) BY <1>4, <1>10 DEF Lock
  <2>4. lockTTL' \in 0..LockTTL /\ age' \in [Requests -> 0..LockTTL]
    <3>1. \/ lockTTL' = LockTTL /\ age' = [age EXCEPT ![Caller] = 0]
          \/ lockTTL' = lockTTL /\ age' = age
      BY <1>10 DEF Lock, Locks, lock
    <3> QED BY <1>2, <1>6, <3>1, TypeNames
  <2> QED BY <1>10, <2>2, <2>3, <2>4 DEF Lock, TypeOK, Commands, Stations, follower, lock
<1>11. CASE Rpush
  <2>1. Numbered(Message, Len(chunks)) \in Messages BY <1>2, <1>9, BuiltMessages
  <2>2. wire' \in Seq(Commands) BY <1>5, <1>11, <2>1 DEF Rpush, Ops
  <2>3. chunks' \in Seq(Event) BY <1>3, <1>9, <1>11, AppendProperties DEF Rpush
  <2> QED BY <1>11, <2>2, <2>3 DEF Rpush, TypeOK, Commands, follower, lock
<1>12. CASE ExpireFirst
  <2>1. wire' \in Seq(Commands) BY <1>2, <1>5, <1>12 DEF ExpireFirst, Ops
  <2>2. chunksTTL' \in 0..LockTTL BY <1>6, <1>12 DEF ExpireFirst
  <2> QED BY <1>12, <2>1, <2>2 DEF ExpireFirst, TypeOK, Commands, follower, lock
<1>13. CASE Publish
  <2>1. wire' \in Seq(Commands) BY <1>4, <1>13 DEF Publish
  <2>2. inbox \in [Requests -> Seq(Messages)] BY Typed
  <2>3. \A f \in Requests : Append(inbox[f], Message) \in Seq(Messages) BY <1>2, <2>2, AppendProperties
  <2>4. inbox' \in [Requests -> Seq(Messages)] BY <1>13, <2>2, <2>3 DEF Publish, Deliver
  <2> QED BY <1>13, <2>1, <2>4 DEF Publish, TypeOK, Commands, data, lock
<1>14. CASE SetResult \/ SetBody
  <2>1. /\ wire' \in Seq(Commands)
        /\ result' = Message.status /\ resultTTL' = DataTTL
        /\ UNCHANGED <<streaming, lock, chunks, chunksTTL, pc, made, follower, ended, faults>>
    BY <1>2, <1>5, <1>14 DEF SetResult, SetBody, Ops
  <2>2. Message.status \in Statuses BY <1>3, <1>14 DEF SetResult, SetBody, Executes, EndOps
  <2>3. /\ result' \in Statuses \cup {"none"} /\ resultTTL' \in 0..DataTTL
        /\ result' = "none" <=> resultTTL' = 0
    BY <1>6, <2>1, <2>2 DEF Statuses
  <2> QED BY <2>1, <2>3 DEF TypeOK, Commands, follower, lock
<1>15. CASE ExpireChunks
  <2>1. wire' \in Seq(Commands) BY <1>2, <1>5, <1>15 DEF ExpireChunks, Ops
  <2>2. chunksTTL' \in 0..LockTTL BY <1>6, <1>15 DEF ExpireChunks
  <2> QED BY <1>15, <2>1, <2>2 DEF ExpireChunks, TypeOK, Commands, follower, lock
<1>16. CASE Lrange
  <2>1. Terminal(Caller, "none") \in Messages BY <1>2, BuiltMessages
  <2>2. wire' \in Seq(Commands) BY <1>5, <1>16, <2>1 DEF Lrange, Ops
  <2>3. pc' \in [Requests -> Stations] BY <1>7, <1>16 DEF Lrange, Stations
  <2>4. out' \in [Requests -> Seq(Event)] BY <1>2, <1>9, <1>16, Typed DEF Lrange
  <2>5. Len(chunks) - 1 \in {NoSeq} \cup Nat BY <1>9 DEF NoSeq
  <2>6. watermark' \in [Requests -> {NoSeq} \cup Nat] BY <1>2, <1>16, <2>5, Typed DEF Lrange
  <2> QED BY <1>16, <2>2, <2>3, <2>4, <2>6 DEF Lrange, TypeOK, Commands, Stations, data, lock
<1>17. CASE Get
  <2>1. wire' \in Seq(Commands) BY <1>4, <1>17 DEF Get
  <2>2. result \in Statuses \cup {"none"} BY TypeNames
  <2>3. /\ pc' \in [Requests -> Stations] /\ ended' \in [Requests -> Ends]
        /\ via' \in [Requests -> {"none", "channel", "result"}]
    <3>1. CASE result # "none"
      <4>1. End(Caller, result) /\ via' = [via EXCEPT ![Caller] = "result"] BY <1>17, <3>1 DEF Get
      <4>2. result \in Ends BY <2>2 DEF Ends
      <4> QED BY <1>2, <1>8, <4>1, <4>2, Typed
    <3>2. CASE result = "none"
      <4>1. Goto(Caller, "waiting") /\ UNCHANGED <<via, ended>> BY <1>17, <3>2 DEF Get
      <4>2. "waiting" \in Stations BY DEF Stations
      <4> QED BY <1>7, <4>1, <4>2, Typed
    <3> QED BY <3>1, <3>2
  <2> QED BY <1>17, <2>1, <2>3 DEF Get, TypeOK, Commands, Stations, Ends, data, lock
<1> QED BY <1>10, <1>11, <1>12, <1>13, <1>14, <1>15, <1>16, <1>17 DEF Execute

(* The requests. *)
LEMMA TypeRequest ==
    ASSUME TypeOK, NEW r \in Requests, Arrive(r) \/ Generate(r) \/ Follow(r) \/ Timeout(r)
    PROVE  TypeOK'
<1>1. \A c \in Commands : Send(c) => wire' \in Seq(Commands) BY WireSteps
<1>2. \A where \in Stations : Goto(r, where) => pc' \in [Requests -> Stations]
  BY Typed DEF Goto
<1>3. \A status \in Ends : End(r, status) =>
        pc' \in [Requests -> Stations] /\ ended' \in [Requests -> Ends]
  BY Typed DEF End, Goto, Stations
<1>4. \A op \in Ops, status \in Statuses \cup {"none"} :
        Command(op, r, Terminal(r, status)) \in Commands /\ Query(op, r) \in Commands
  BY BuiltMessages DEF Query
<1>5. CASE Arrive(r)
  <2>1. wire' \in Seq(Commands) BY <1>1, <1>4, <1>5 DEF Arrive, Ops
  <2>2. pc' \in [Requests -> Stations] BY <1>2, <1>5 DEF Arrive, Stations
  <2> QED BY <1>5, <2>1, <2>2 DEF Arrive, TypeOK, Commands, Stations, follower, data, lock
<1>6. CASE Produce(r)
  <2>1. made[r] \in 0..Events /\ made[r] < Events /\ Events \in Nat BY <1>6, Typed DEF Produce
  <2>2. made[r] + 1 \in 0..Events BY <2>1
  <2>3. EventOf(r, made[r] + 1) \in Messages BY <2>2, BuiltMessages
  <2>4. Command("rpush", r, EventOf(r, made[r] + 1)) \in Commands BY <2>3, BuiltMessages DEF Ops
  <2>5. wire' \in Seq(Commands) BY <1>1, <1>6, <2>4 DEF Produce
  <2>6. made' \in [Requests -> 0..Events] BY <1>6, <2>2, Typed DEF Produce
  <2> QED BY <1>6, <2>5, <2>6 DEF Produce, TypeOK, Commands, follower, data, lock
<1>7. ASSUME NEW status \in Statuses, StreamEnds(r, status) PROVE TypeOK'
  <2>1. wire' \in Seq(Commands) BY <1>1, <1>4, <1>7 DEF StreamEnds, Ops
  <2>2. pc' \in [Requests -> Stations] /\ ended' \in [Requests -> Ends]
    BY <1>3, <1>7 DEF StreamEnds, Ends
  <2> QED BY <1>7, <2>1, <2>2 DEF StreamEnds, TypeOK, Commands, Stations, Ends, follower, data, lock
<1>8. CASE Answer(r)
  <2>1. "done" \in Statuses BY DEF Statuses
  <2>2. wire' \in Seq(Commands) BY <1>1, <1>4, <1>8, <2>1 DEF Answer, Ops
  <2>3. pc' \in [Requests -> Stations] /\ ended' \in [Requests -> Ends]
    BY <1>3, <1>8, <2>1 DEF Answer, Ends
  <2> QED BY <1>8, <2>2, <2>3 DEF Answer, TypeOK, Commands, Stations, Ends, follower, data, lock
<1>9. CASE LeaderThrows(r) \/ Timeout(r)
  <2>1. "failed" \in Ends /\ "timeout" \in Ends BY DEF Ends
  <2>2. /\ pc' \in [Requests -> Stations] /\ ended' \in [Requests -> Ends]
        /\ UNCHANGED <<streaming, data, wire, made, follower, faults>>
    BY <1>3, <1>9, <2>1 DEF LeaderThrows, Timeout
  <2> QED BY <2>2 DEF TypeOK, Stations, Ends, follower, data, lock
<1>10. CASE Subscribe(r)
  <2>1. pc' \in [Requests -> Stations] BY <1>2, <1>10 DEF Subscribe, Stations
  <2> QED BY <1>10, <2>1 DEF Subscribe, TypeOK, Stations, follower, data, lock
<1>11. CASE Replay(r)
  <2>1. "lrange" \in Ops /\ "get" \in Ops /\ "replaying" \in Stations /\ "getting" \in Stations
    BY DEF Ops, Stations
  <2>2. wire' \in Seq(Commands) BY <1>1, <1>4, <1>11, <2>1 DEF Replay
  <2>3. pc' \in [Requests -> Stations] BY <1>2, <1>11, <2>1 DEF Replay
  <2> QED BY <1>11, <2>2, <2>3 DEF Replay, TypeOK, Commands, Stations, follower, data, lock
<1>12. CASE TakeMessage(r)
  <2>1. inbox[r] \in Seq(Messages) /\ inbox[r] # <<>> /\ out[r] \in Seq(Event)
    BY <1>12, Typed DEF TakeMessage
  <2>2. Head(inbox[r]) \in Messages /\ Tail(inbox[r]) \in Seq(Messages)
    BY <2>1, HeadTailProperties
  <2>3. Head(inbox[r]).event \in Event /\ Head(inbox[r]).status \in Ends
    BY <2>2, MessageTypes DEF Ends
  <2>4. inbox' \in [Requests -> Seq(Messages)] BY <1>12, <2>2, Typed DEF TakeMessage
  <2>5. CASE IsTerminal(Head(inbox[r]))
    <3>1. /\ End(r, Head(inbox[r]).status) /\ via' = [via EXCEPT ![r] = "channel"]
          /\ UNCHANGED <<streaming, data, wire, made, watermark, faults, out>>
      BY <1>12, <2>5 DEF TakeMessage
    <3>2. /\ pc' \in [Requests -> Stations] /\ ended' \in [Requests -> Ends]
          /\ via' \in [Requests -> {"none", "channel", "result"}]
      BY <1>3, <2>3, <3>1, Typed
    <3> QED BY <2>4, <3>1, <3>2 DEF TypeOK, Stations, Ends, data, lock
  <2>6. CASE ~IsTerminal(Head(inbox[r]))
    <3>1. /\ out' = [out EXCEPT ![r] = IF Duplicate(r, Head(inbox[r])) THEN @
                                       ELSE Append(@, Head(inbox[r]).event)]
          /\ UNCHANGED <<streaming, data, wire, made, watermark, faults, pc, via, ended>>
      BY <1>12, <2>6 DEF TakeMessage
    <3>2. Append(out[r], Head(inbox[r]).event) \in Seq(Event)
      BY <2>1, <2>3, AppendProperties
    <3>3. out' \in [Requests -> Seq(Event)] BY <3>1, <3>2, Typed
    <3> QED BY <2>4, <3>1, <3>3 DEF TypeOK, data, lock
  <2> QED BY <2>5, <2>6
<1> QED BY <1>5, <1>6, <1>7, <1>8, <1>9, <1>10, <1>11, <1>12 DEF Generate, Follow

(* Failures and time. *)
LEMMA TypeDisturbed ==
    ASSUME TypeOK, CommandFails \/ Crash \/ Tick
    PROVE  TypeOK'
<1>1. CASE CommandFails
  <2>1. wire # <<>> /\ UNCHANGED <<streaming, data, made, follower>> BY <1>1 DEF CommandFails
  <2>2. /\ Caller \in Requests /\ Message \in Messages /\ Head(wire).op \in Ops
    BY <2>1, Oldest
  <2>3. faults' \subseteq Ops \cup {"crash", "lapse"} BY <1>1, <2>2, TypeNames DEF CommandFails
  <2>4. NoMore => wire' \in Seq(Commands) BY <2>1, WireSteps
  <2>5. \A op \in Ops : Then(op, Message) => wire' \in Seq(Commands) BY <2>1, <2>2, WireSteps
  <2>6. wire' \in Seq(Commands) BY <1>1, <2>4, <2>5 DEF CommandFails, Ops
  <2>7. End(Caller, "failed") => pc' \in [Requests -> Stations] /\ ended' \in [Requests -> Ends]
    BY <2>2, Typed DEF End, Goto, Stations, Ends
  <2>8. UNCHANGED <<pc, ended>> => pc' \in [Requests -> Stations] /\ ended' \in [Requests -> Ends]
    BY Typed
  <2>9. pc' \in [Requests -> Stations] /\ ended' \in [Requests -> Ends]
    BY <1>1, <2>7, <2>8 DEF CommandFails
  <2> QED BY <2>1, <2>3, <2>6, <2>9 DEF TypeOK, Commands, Stations, Ends, data, follower, lock
<1>2. CASE Crash
  <2>1. /\ wire' \in Seq(Commands) /\ inbox' \in [Requests -> Seq(Messages)]
    BY <1>2 DEF Crash
  <2>2. pc' \in [Requests -> Stations] /\ ended' \in [Requests -> Ends]
    BY <1>2, Typed DEF Crash, Stations, Ends
  <2>3. faults' \subseteq Ops \cup {"crash", "lapse"} BY <1>2, TypeNames DEF Crash
  <2> QED BY <1>2, <2>1, <2>2, <2>3 DEF Crash, TypeOK, Commands, Stations, Ends, data, lock
<1>3. CASE Tick
  <2>1. \A b \in Nat : \A n \in 0..b : Less(n) \in 0..b /\ (Less(n) = 0 <=> n \in {0, 1})
    BY DEF Less
  <2>2. /\ LockTTL \in Nat /\ DataTTL \in Nat
        /\ lockTTL \in 0..LockTTL /\ resultTTL \in 0..DataTTL /\ chunksTTL \in 0..LockTTL
    BY MuxAssumption, TypeNames
  <2>3. /\ lockTTL' = Less(lockTTL) /\ resultTTL' = Less(resultTTL) /\ chunksTTL' = Less(chunksTTL)
        /\ result' = IF resultTTL = 1 THEN "none" ELSE result
    BY <1>3 DEF Tick
  <2>4. lockTTL' \in 0..LockTTL /\ resultTTL' \in 0..DataTTL /\ chunksTTL' \in 0..LockTTL
    BY <2>1, <2>2, <2>3
  <2>5. result' \in Statuses \cup {"none"} /\ (result' = "none" <=> resultTTL' = 0)
    BY <2>1, <2>2, <2>3, TypeNames
  <2>6. chunks' \in Seq(Event) BY <1>3, Typed DEF Tick
  <2>7. age' \in [Requests -> 0..LockTTL]
    <3>1. age' = [r \in Requests |-> IF age[r] = LockTTL THEN LockTTL ELSE age[r] + 1] BY <1>3 DEF Tick
    <3>2. \A r \in Requests : age[r] \in 0..LockTTL BY TypeNames
    <3> QED BY <2>2, <3>1, <3>2
  <2>8. faults' \subseteq Ops \cup {"crash", "lapse"} BY <1>3, TypeNames DEF Tick
  <2> QED BY <1>3, <2>4, <2>5, <2>6, <2>7, <2>8 DEF Tick, TypeOK, follower
<1> QED BY <1>1, <1>2, <1>3

(* Types, all steps. *)
LEMMA TypeStep ==
    ASSUME TypeOK, Wired, [Next]_vars
    PROVE  TypeOK'
<1>1. CASE UNCHANGED vars BY <1>1 DEF TypeOK, vars, data, follower, lock
<1> QED BY <1>1, TypeExecute, TypeRequest, TypeDisturbed DEF Next

-----------------------------------------------------------------------------
(* What the commands say *)

(* What a command said it says still, if its caller waits or has made more.    *)
LEMMA SaysStill ==
    ASSUME TypeOK, NEW c \in Commands, Says(c), streaming' = streaming,
           \A x \in Requests : made'[x] \in Nat /\ made[x] <= made'[x],
           c.op \in Queries => pc'[c.by] = pc[c.by]
    PROVE  Says(c)'
<1>1. c.by \in Requests /\ c.msg.event[1] \in Requests /\ c.msg.event[2] \in Nat
  BY MessageTypes, MuxAssumption DEF Commands
<1>2. made[c.msg.event[1]] \in Nat BY <1>1, Typed
<1>3. Made(c.msg.event) => Made(c.msg.event)' BY <1>1, <1>2 DEF Made
<1> QED BY <1>3 DEF Says, Queries

(* What the commands on the wire have to say after a step.                     *)
LEMMA WiredNext ==
    ASSUME \A i \in W' : \A c : c = wire'[i] => Says(c)',
           \A i, j \in W' :
              wire'[i].op \in Queries /\ wire'[j].op \in Queries /\ wire'[i].by = wire'[j].by => i = j
    PROVE  Wired'
<1>1. ASSUME NEW i \in W'
      PROVE  /\ wire'[i].op \in EventOps => wire'[i].msg.status = "none" /\ Made(wire[i].msg.event)'
             /\ wire'[i].op = "rpush" => wire'[i].msg.seq = NoSeq
             /\ wire'[i].op \in EndOps => /\ wire'[i].msg.status \in Statuses
                                          /\ wire'[i].msg.event = <<wire'[i].by, 0>>
             /\ wire'[i].op = "setBody" => ~streaming'
             /\ wire'[i].op = "lock" => pc'[wire'[i].by] = "acquiring"
             /\ wire'[i].op = "lrange" => pc'[wire'[i].by] = "replaying"
             /\ wire'[i].op = "get" => pc'[wire'[i].by] = "getting"
  <2>1. PICK c : c = wire'[i] OBVIOUS
  <2>2. Says(c)' BY <2>1
  <2> QED BY <2>1, <2>2 DEF Says, Made
<1> QED BY <1>1 DEF Wired, Says

(* A request that sends a command, or none. *)
LEMMA WiredSend ==
    ASSUME TypeOK, TypeOK', Wired, NEW r \in Requests, pc[r] \notin Awaiting,
           streaming' = streaming, \A x \in Requests : made[x] <= made'[x],
           \A x \in Requests : x # r => pc'[x] = pc[x],
           \/ wire' = wire
           \/ \E c \in Commands : Added(c) /\ Says(c)' /\ (c.op \in Queries => c.by = r)
    PROVE  Wired'
<1>1. \A x \in Requests : made'[x] \in Nat BY MuxAssumption DEF TypeOK
<1>2. \A i \in W : wire[i] \in Commands /\ wire[i].by \in Requests /\ wire[i].op \in Ops BY Typed
<1>3. \A i \in W : wire[i].op \in Queries => wire[i].by # r
  BY DEF Wired, Says, Queries, Awaiting
<1>4. ASSUME NEW i \in W, NEW c, c = wire[i] PROVE Says(c)'
  <2>1. c \in Commands /\ Says(c) /\ (c.op \in Queries => c.by # r /\ c.by \in Requests)
    BY <1>2, <1>3, <1>4 DEF Wired
  <2> QED BY <1>1, <2>1, SaysStill
<1>5. CASE wire' = wire
  BY <1>4, <1>5, WiredNext DEF Wired, W
<1>6. ASSUME NEW c \in Commands, Added(c), Says(c)', c.op \in Queries => c.by = r PROVE Wired'
  <2>1. Len(wire) \in Nat BY Typed
  <2>2. \A i \in W' : (i \in W /\ wire'[i] = wire[i]) \/ (i = Len(wire) + 1 /\ wire'[i] = c)
    BY <1>6, <2>1 DEF Added, W
  <2>3. \A i \in W' : \A d : d = wire'[i] => Says(d)' BY <1>4, <1>6, <2>2
  <2>4. ASSUME NEW i \in W', NEW j \in W', wire'[i].op \in Queries, wire'[j].op \in Queries,
               wire'[i].by = wire'[j].by
        PROVE  i = j
    BY <1>3, <1>6, <2>2, <2>4 DEF Wired
  <2> QED BY <2>3, <2>4, WiredNext
<1> QED BY <1>5, <1>6

(* The oldest command executes or fails: its caller goes on, if it waited, and *)
(* may send the next one.                                                      *)
LEMMA WiredExecute ==
    ASSUME TypeOK, Wired, wire # <<>>, UNCHANGED <<streaming, made>>,
           \A x \in Requests : x # Caller => pc'[x] = pc[x],
           pc' = pc \/ wire[1].op \in Queries,
           \/ Popped
           \/ \E c \in Commands : Replaced(c) /\ Says(c)'
                                  /\ (c.op \in Queries => c.by = Caller /\ wire[1].op \in Queries)
    PROVE  Wired'
<1>0. Caller = wire[1].by /\ 1 \in W /\ Len(wire) \in Nat BY Oldest, Typed
<1>1. \A x \in Requests : made'[x] \in Nat /\ made[x] <= made'[x] BY Typed, MuxAssumption
<1>2. \A i \in W : wire[i] \in Commands /\ wire[i].by \in Requests /\ wire[i].op \in Ops BY Typed
<1>3. \A i \in W : i # 1 /\ wire[i].op \in Queries /\ wire[1].op \in Queries => wire[i].by # Caller
  BY <1>0 DEF Wired
<1>4. ASSUME NEW i \in W, i # 1, NEW c, c = wire[i] PROVE Says(c)'
  <2>1. c \in Commands /\ Says(c) /\ (c.op \in Queries => pc'[c.by] = pc[c.by])
    BY <1>2, <1>3, <1>4 DEF Wired
  <2> QED BY <1>1, <2>1, SaysStill
<1>5. CASE Popped
  <2>1. \A i \in W' : i + 1 \in W /\ i + 1 # 1 /\ wire'[i] = wire[i + 1]
    BY <1>0, <1>5 DEF Popped, W
  <2>2. \A i \in W' : \A d : d = wire'[i] => Says(d)' BY <1>4, <2>1
  <2>3. ASSUME NEW i \in W', NEW j \in W', wire'[i].op \in Queries, wire'[j].op \in Queries,
               wire'[i].by = wire'[j].by
        PROVE  i = j
    <3>1. i + 1 = j + 1 BY <2>1, <2>3 DEF Wired
    <3> QED BY <3>1 DEF W
  <2> QED BY <2>2, <2>3, WiredNext
<1>6. ASSUME NEW c \in Commands, Replaced(c), Says(c)',
             c.op \in Queries => c.by = Caller /\ wire[1].op \in Queries
      PROVE  Wired'
  <2>1. \A i \in W' : \/ i + 1 \in W /\ i + 1 # 1 /\ wire'[i] = wire[i + 1]
                      \/ i = Len(wire) /\ wire'[i] = c
    BY <1>0, <1>6 DEF Replaced, W
  <2>2. \A i \in W' : \A d : d = wire'[i] => Says(d)' BY <1>4, <1>6, <2>1
  <2>3. ASSUME NEW i \in W', NEW j \in W', wire'[i].op \in Queries, wire'[j].op \in Queries,
               wire'[i].by = wire'[j].by
        PROVE  i = j
    <3>1. CASE wire'[i] = wire[i + 1] /\ i + 1 \in W /\ wire'[j] = wire[j + 1] /\ j + 1 \in W
      <4>1. i + 1 = j + 1 BY <2>3, <3>1 DEF Wired
      <4> QED BY <4>1 DEF W
    <3>2. CASE (wire'[i] = c /\ i = Len(wire)) \/ (wire'[j] = c /\ j = Len(wire))
      BY <1>3, <1>6, <2>1, <2>3, <3>2
    <3> QED BY <2>1, <3>1, <3>2
  <2> QED BY <2>2, <2>3, WiredNext
<1> QED BY <1>5, <1>6

-----------------------------------------------------------------------------
(* What each step does to the wire *)

(* RPUSH chunks. *)
LEMMA RpushEffect ==
    ASSUME TypeOK, Rpush
    PROVE  /\ wire # <<>> /\ wire[1].op = "rpush"
           /\ UNCHANGED <<streaming, lockTTL, result, resultTTL, chunksTTL, pc, made, inbox,
                          watermark, out, via, ended, faults>>
           /\ chunks' = Append(chunks, wire[1].msg.event)
           /\ \E c \in Commands :
                 /\ Replaced(c) /\ c.by = wire[1].by
                 /\ c.op = IF Len(chunks) = 0 THEN "expireFirst" ELSE "publish"
                 /\ c.msg.event = wire[1].msg.event /\ c.msg.seq = Len(chunks)
                 /\ c.msg.status = wire[1].msg.status
<1>1. wire # <<>> /\ Head(wire).op = "rpush" BY DEF Rpush, Executes
<1>2. /\ Head(wire) = wire[1] /\ Message = wire[1].msg /\ Caller = wire[1].by
      /\ Message \in Messages /\ Caller \in Requests
  BY <1>1, Oldest
<1>3. chunks \in Seq(Event) /\ Len(chunks) \in Nat /\ Message.event \in Event
  BY <1>2, Typed, MessageTypes
<1>4. chunks' = Append(chunks, Message.event) /\ Len(chunks') = Len(chunks) + 1
  BY <1>3, AppendProperties DEF Rpush
<1>5. DEFINE op == IF Len(chunks) = 0 THEN "expireFirst" ELSE "publish"
             m == Numbered(Message, Len(chunks))
<1>6. op \in Ops BY DEF Ops
<1>7. /\ m \in Messages /\ m.event = Message.event /\ m.seq = Len(chunks)
      /\ m.status = Message.status
  <2>1. \A x \in Messages, n \in Nat :
          /\ Numbered(x, n) \in Messages /\ Numbered(x, n).event = x.event /\ Numbered(x, n).seq = n
          /\ Numbered(x, n).status = x.status
    BY BuiltMessages
  <2> QED BY <1>2, <1>3, <2>1
<1>8. Then(op, m)
  <2>1. (IF Len(chunks') = 1 THEN "expireFirst" ELSE "publish") = op BY <1>3, <1>4
  <2> QED BY <2>1 DEF Rpush
<1> HIDE DEF op, m
<1>9. /\ Replaced(Command(op, Caller, m)) /\ Command(op, Caller, m) \in Commands
      /\ Command(op, Caller, m).op = op /\ Command(op, Caller, m).by = Caller
      /\ Command(op, Caller, m).msg = m
  <2>1. m \in Messages /\ Caller \in Requests BY <1>2, <1>7
  <2>2. Replaced(Command(op, Caller, m)) BY <1>1, <1>6, <1>8, <2>1, WireSteps
  <2> QED BY <1>6, <2>1, <2>2, BuiltMessages
<1>10. UNCHANGED <<streaming, lockTTL, result, resultTTL, chunksTTL, pc, made, inbox,
                   watermark, out, via, ended, faults>>
  BY DEF Rpush, follower, lock
<1> QED BY <1>1, <1>2, <1>4, <1>7, <1>9, <1>10 DEF op

(* A command that replaces the oldest one and says the same. *)
LEMMA ThenEffect ==
    ASSUME TypeOK, wire # <<>>, NEW op \in Ops, Then(op, Message)
    PROVE  \E c \in Commands :
              Replaced(c) /\ c.op = op /\ c.by = wire[1].by /\ c.msg = wire[1].msg
<1>1. /\ Head(wire) = wire[1] /\ Message = wire[1].msg /\ Caller = wire[1].by
      /\ Message \in Messages /\ Caller \in Requests
  BY Oldest
<1>2. /\ Replaced(Command(op, Caller, Message)) /\ Command(op, Caller, Message) \in Commands
      /\ Command(op, Caller, Message).op = op /\ Command(op, Caller, Message).by = Caller
      /\ Command(op, Caller, Message).msg = Message
  BY <1>1, WireSteps, BuiltMessages
<1> QED BY <1>1, <1>2

(* EXPIRE of the first one. *)
LEMMA ExpireFirstEffect ==
    ASSUME TypeOK, ExpireFirst
    PROVE  /\ wire # <<>> /\ wire[1].op = "expireFirst"
           /\ UNCHANGED <<streaming, lockTTL, result, resultTTL, chunks, pc, made, inbox,
                          watermark, out, via, ended, faults>>
           /\ chunksTTL' = IF chunks = <<>> THEN 0 ELSE LockTTL
           /\ \E c \in Commands :
                 Replaced(c) /\ c.op = "publish" /\ c.by = wire[1].by /\ c.msg = wire[1].msg
<1>1. /\ wire # <<>> /\ Head(wire).op = "expireFirst" /\ Then("publish", Message) /\ "publish" \in Ops
  BY DEF ExpireFirst, Executes, Ops
<1> QED BY <1>1, ThenEffect, Oldest DEF ExpireFirst, follower, lock

(* A message on the channel. *)
LEMMA PublishEffect ==
    ASSUME TypeOK, Publish
    PROVE  /\ wire # <<>> /\ wire[1].op \in {"publish", "publishEnd"} /\ wire[1].msg \in Messages
           /\ Popped
           /\ UNCHANGED <<streaming, lockTTL, result, resultTTL, chunks, chunksTTL, pc, made,
                          watermark, out, via, ended, faults>>
           /\ \A f \in Requests :
                 inbox'[f] = IF Subscribed(f) THEN Append(inbox[f], wire[1].msg) ELSE inbox[f]
<1>1. wire # <<>> /\ Head(wire).op \in {"publish", "publishEnd"} /\ NoMore BY DEF Publish, Executes
<1>2. Head(wire) = wire[1] /\ Message = wire[1].msg /\ Message \in Messages BY <1>1, Oldest
<1> QED BY <1>1, <1>2, WireSteps DEF Publish, Deliver, data, lock

(* finalizeStream and publishNonStream, up to their PUBLISH. *)
LEMMA EndEffect ==
    ASSUME TypeOK, SetResult \/ ExpireChunks \/ SetBody
    PROVE  /\ wire # <<>> /\ wire[1].op \in EndOps
           /\ UNCHANGED <<streaming, lockTTL, chunks, pc, made, inbox, watermark, out, via, ended, faults>>
           /\ chunksTTL' \in {chunksTTL, IF chunks = <<>> THEN 0 ELSE DataTTL}
           /\ \/ wire[1].op = "setResult" /\ chunksTTL' = chunksTTL
              \/ wire[1].op = "expireChunks" /\ chunksTTL' = IF chunks = <<>> THEN 0 ELSE DataTTL
              \/ wire[1].op = "setBody" /\ chunksTTL' = chunksTTL
           /\ \E c \in Commands :
                 /\ Replaced(c) /\ c.by = wire[1].by /\ c.msg = wire[1].msg
                 /\ c.op = IF wire[1].op = "setResult" THEN "expireChunks" ELSE "publishEnd"
<1>1. "expireChunks" \in Ops /\ "publishEnd" \in Ops BY DEF Ops
<1>2. CASE SetResult
  <2>1. wire # <<>> /\ Head(wire).op = "setResult" /\ Then("expireChunks", Message)
    BY <1>2 DEF SetResult, Executes
  <2> QED BY <1>1, <1>2, <2>1, ThenEffect, Oldest DEF SetResult, follower, EndOps, lock
<1>3. CASE ExpireChunks
  <2>1. wire # <<>> /\ Head(wire).op = "expireChunks" /\ Then("publishEnd", Message)
    BY <1>3 DEF ExpireChunks, Executes
  <2> QED BY <1>1, <1>3, <2>1, ThenEffect, Oldest DEF ExpireChunks, follower, EndOps, lock
<1>4. CASE SetBody
  <2>1. wire # <<>> /\ Head(wire).op = "setBody" /\ Then("publishEnd", Message)
    BY <1>4 DEF SetBody, Executes
  <2> QED BY <1>1, <1>4, <2>1, ThenEffect, Oldest DEF SetBody, follower, EndOps, lock
<1> QED BY <1>2, <1>3, <1>4

(* LRANGE chunks. *)
LEMMA LrangeEffect ==
    ASSUME TypeOK, Lrange
    PROVE  /\ wire # <<>> /\ wire[1].op = "lrange" /\ wire[1].by \in Requests
           /\ UNCHANGED <<streaming, lockTTL, result, resultTTL, chunks, chunksTTL, made, inbox, via,
                          ended, faults>>
           /\ out' = [out EXCEPT ![wire[1].by] = chunks]
           /\ watermark' = [watermark EXCEPT ![wire[1].by] = Len(chunks) - 1]
           /\ pc' = [pc EXCEPT ![wire[1].by] = "getting"]
           /\ \E c \in Commands : Replaced(c) /\ c.op = "get" /\ c.by = wire[1].by
<1>1. wire # <<>> /\ Head(wire).op = "lrange" /\ Then("get", Terminal(Caller, "none")) /\ "get" \in Ops
  BY DEF Lrange, Executes, Ops
<1>2. Head(wire) = wire[1] /\ Caller = wire[1].by /\ Caller \in Requests BY <1>1, Oldest
<1>3. Terminal(Caller, "none") \in Messages BY <1>2, BuiltMessages
<1>4. DEFINE c == Command("get", Caller, Terminal(Caller, "none"))
<1>5. c \in Commands /\ c.op = "get" /\ c.by = Caller BY <1>1, <1>2, <1>3, BuiltMessages
<1>6. Replaced(c) BY <1>1, <1>3, WireSteps
<1> HIDE DEF c
<1> QED BY <1>1, <1>2, <1>5, <1>6 DEF Lrange, Goto, data, lock

(* GET result. *)
LEMMA GetEffect ==
    ASSUME TypeOK, Get
    PROVE  /\ wire # <<>> /\ wire[1].op = "get" /\ wire[1].by \in Requests /\ Popped
           /\ UNCHANGED <<streaming, lockTTL, result, resultTTL, chunks, chunksTTL, made, inbox,
                          watermark, out, faults>>
           /\ \/ /\ pc' = [pc EXCEPT ![wire[1].by] = "ended"]
                 /\ via' = [via EXCEPT ![wire[1].by] = "result"]
                 /\ \A x \in Requests : x # wire[1].by => ended'[x] = ended[x]
              \/ pc' = [pc EXCEPT ![wire[1].by] = "waiting"] /\ UNCHANGED <<via, ended>>
<1>1. wire # <<>> /\ Head(wire).op = "get" /\ NoMore BY DEF Get, Executes
<1>2. Head(wire) = wire[1] /\ Caller = wire[1].by /\ Caller \in Requests BY <1>1, Oldest
<1>3. \A x \in Requests : x # Caller => (End(Caller, result) => ended'[x] = ended[x])
  BY Typed DEF End
<1> QED BY <1>1, <1>2, <1>3, WireSteps DEF Get, End, Goto, data, lock

(* SET lock NX. *)
LEMMA LockEffect ==
    ASSUME TypeOK, Lock
    PROVE  /\ wire # <<>> /\ wire[1].op = "lock" /\ wire[1].by \in Requests /\ Popped
           /\ UNCHANGED <<streaming, result, resultTTL, chunks, chunksTTL, made, inbox,
                          watermark, out, via, ended, faults>>
           /\ \/ lockTTL = 0 /\ lockTTL' = LockTTL /\ pc' = [pc EXCEPT ![wire[1].by] = "leading"]
              \/ lockTTL > 0 /\ lockTTL' = lockTTL /\ pc' = [pc EXCEPT ![wire[1].by] = "following"]
<1>1. wire # <<>> /\ Head(wire).op = "lock" /\ NoMore BY DEF Lock, Executes
<1>2. Head(wire) = wire[1] /\ Caller = wire[1].by /\ Caller \in Requests BY <1>1, Oldest
<1> QED BY <1>1, <1>2, WireSteps DEF Lock, Locks, Goto, follower, lock

(* A command that fails. *)
LEMMA FailsEffect ==
    ASSUME TypeOK, CommandFails
    PROVE  /\ wire # <<>>
           /\ UNCHANGED <<streaming, lockTTL, result, resultTTL, chunks, chunksTTL, made, inbox,
                          watermark, out, via>>
           /\ faults' = faults \cup {wire[1].op}
           /\ \/ /\ wire[1].op \in Queries /\ Popped
                 /\ pc' = [pc EXCEPT ![wire[1].by] = "ended"]
                 /\ \A x \in Requests : x # wire[1].by => ended'[x] = ended[x]
                 /\ ended'[wire[1].by] = "failed"
              \/ /\ wire[1].op \in {"rpush", "expireFirst"} /\ UNCHANGED <<pc, ended>>
                 /\ \E c \in Commands :
                       Replaced(c) /\ c.op = "publish" /\ c.by = wire[1].by /\ c.msg = wire[1].msg
              \/ /\ wire[1].op \in {"expireChunks", "setBody"} /\ UNCHANGED <<pc, ended>>
                 /\ \E c \in Commands :
                       Replaced(c) /\ c.op = "publishEnd" /\ c.by = wire[1].by /\ c.msg = wire[1].msg
              \/ /\ wire[1].op \in {"publish", "publishEnd", "setResult"} /\ UNCHANGED <<pc, ended>>
                 /\ Popped
<1>1. wire # <<>> /\ faults' = faults \cup {Head(wire).op} BY DEF CommandFails
<1>2. Head(wire) = wire[1] /\ Caller = wire[1].by /\ Caller \in Requests BY <1>1, Oldest
<1>3. UNCHANGED <<streaming, lockTTL, result, resultTTL, chunks, chunksTTL, made, inbox,
                  watermark, out, via>>
  BY DEF CommandFails, data, follower, lock
<1>4. "publish" \in Ops /\ "publishEnd" \in Ops BY DEF Ops
<1>5. CASE Head(wire).op \in Queries /\ End(Caller, "failed") /\ NoMore
  <2>1. Popped BY <1>1, <1>5, WireSteps
  <2>2. pc' = [pc EXCEPT ![Caller] = "ended"] BY <1>5 DEF End, Goto
  <2>3. /\ ended'[Caller] = "failed"
        /\ \A x \in Requests : x # Caller => ended'[x] = ended[x]
    BY <1>2, <1>5, Typed DEF End
  <2> QED BY <1>1, <1>2, <1>3, <1>5, <2>1, <2>2, <2>3
<1>6. CASE /\ Head(wire).op \in {"rpush", "expireFirst"} /\ Then("publish", Message)
           /\ UNCHANGED <<pc, ended>>
  <2>1. \E c \in Commands :
           Replaced(c) /\ c.op = "publish" /\ c.by = wire[1].by /\ c.msg = wire[1].msg
    BY <1>1, <1>4, <1>6, ThenEffect
  <2> QED BY <1>1, <1>2, <1>3, <1>6, <2>1
<1>7. CASE /\ Head(wire).op \in {"expireChunks", "setBody"} /\ Then("publishEnd", Message)
           /\ UNCHANGED <<pc, ended>>
  <2>1. \E c \in Commands :
           Replaced(c) /\ c.op = "publishEnd" /\ c.by = wire[1].by /\ c.msg = wire[1].msg
    BY <1>1, <1>4, <1>7, ThenEffect
  <2> QED BY <1>1, <1>2, <1>3, <1>7, <2>1
<1>8. CASE /\ Head(wire).op \in {"publish", "publishEnd", "setResult"} /\ NoMore
           /\ UNCHANGED <<pc, ended>>
  <2>1. Popped BY <1>1, <1>8, WireSteps
  <2> QED BY <1>1, <1>2, <1>3, <1>8, <2>1
<1> QED BY <1>5, <1>6, <1>7, <1>8 DEF CommandFails, Queries

(* The next event of the generation. *)
LEMMA ProduceEffect ==
    ASSUME TypeOK, NEW r \in Requests, Produce(r)
    PROVE  /\ pc[r] = "leading" /\ streaming /\ made[r] \in Nat /\ made[r] < Events
           /\ UNCHANGED <<streaming, lockTTL, result, resultTTL, chunks, chunksTTL, pc, inbox,
                          watermark, out, via, ended, faults>>
           /\ made' = [made EXCEPT ![r] = made[r] + 1]
           /\ \E c \in Commands :
                 /\ Added(c) /\ c.op = "rpush" /\ c.by = r
                 /\ c.msg.event = <<r, made[r] + 1>> /\ c.msg.seq = NoSeq /\ c.msg.status = "none"
<1>1. made[r] \in 0..Events /\ made[r] < Events /\ Events \in Nat BY Typed DEF Produce
<1>2. made[r] + 1 \in 0..Events BY <1>1
<1>3. DEFINE m == EventOf(r, made[r] + 1)
<1>4. m \in Messages /\ m.event = <<r, made[r] + 1>> /\ m.seq = NoSeq /\ m.status = "none"
  BY <1>2, BuiltMessages
<1>5. Send(Command("rpush", r, m)) BY DEF Produce
<1> HIDE DEF m
<1>6. /\ Command("rpush", r, m) \in Commands /\ Command("rpush", r, m).op = "rpush"
      /\ Command("rpush", r, m).by = r /\ Command("rpush", r, m).msg = m
  BY <1>4, BuiltMessages DEF Ops
<1>7. Added(Command("rpush", r, m)) BY <1>5, <1>6, WireSteps
<1>8. \E c \in Commands :
         /\ Added(c) /\ c.op = "rpush" /\ c.by = r
         /\ c.msg.event = <<r, made[r] + 1>> /\ c.msg.seq = NoSeq /\ c.msg.status = "none"
  BY <1>4, <1>6, <1>7
<1> QED BY <1>1, <1>8 DEF Produce, data, follower, lock

(* The command it sends. *)
LEMMA ProduceSends ==
    ASSUME TypeOK, NEW r \in Requests, Produce(r)
    PROVE  \E c \in Commands :
              /\ Added(c) /\ c.op = "rpush" /\ c.by = r
              /\ c.msg.event = <<r, made[r] + 1>> /\ c.msg.seq = NoSeq /\ c.msg.status = "none"
BY ProduceEffect

(* The generation ends, in either mode. *)
LEMMA EndsEffect ==
    ASSUME TypeOK, NEW r \in Requests, Answer(r) \/ \E status \in Statuses : StreamEnds(r, status)
    PROVE  /\ pc[r] = "leading"
           /\ UNCHANGED <<streaming, lockTTL, result, resultTTL, chunks, chunksTTL, made, inbox,
                          watermark, out, via, faults>>
           /\ pc' = [pc EXCEPT ![r] = "ended"]
           /\ \A x \in Requests : x # r => ended'[x] = ended[x]
           /\ \E c \in Commands :
                 /\ Added(c) /\ c.by = r /\ c.msg.event = <<r, 0>> /\ c.msg.status \in Statuses
                 /\ c.msg.status = "done" /\ streaming => made[r] = Events
                 /\ c.op \in {"setResult", "setBody"} /\ (c.op = "setBody" => ~streaming)
<1>1. PICK status \in Statuses : StreamEnds(r, status) \/ (status = "done" /\ Answer(r))
  BY DEF Statuses
<1>2. DEFINE m == Terminal(r, status)
<1>3. m \in Messages /\ m.event = <<r, 0>> /\ m.status = status BY BuiltMessages
<1> HIDE DEF m
<1>4. ASSUME NEW op \in {"setResult", "setBody"}
      PROVE  /\ Command(op, r, m) \in Commands /\ Command(op, r, m).op = op
             /\ Command(op, r, m).by = r /\ Command(op, r, m).msg = m
             /\ Send(Command(op, r, m)) => Added(Command(op, r, m))
  <2>1. op \in Ops BY <1>4 DEF Ops
  <2>2. /\ Command(op, r, m) \in Commands /\ Command(op, r, m).op = op
        /\ Command(op, r, m).by = r /\ Command(op, r, m).msg = m
    BY <1>3, <2>1, BuiltMessages
  <2> QED BY <2>2, WireSteps
<1>5. \A x \in Requests : x # r => (End(r, status) => ended'[x] = ended[x]) BY Typed DEF End
<1>6. /\ pc[r] = "leading" /\ End(r, status)
      /\ UNCHANGED <<streaming, data, made, follower, faults>>
      /\ status = "done" /\ streaming => made[r] = Events
      /\ \/ Send(Command("setResult", r, m))
         \/ ~streaming /\ Send(Command("setBody", r, m))
  BY <1>1 DEF StreamEnds, Answer, m
<1>7. PICK c \in Commands : Added(c) /\ c.by = r /\ c.msg = m
                            /\ c.op \in {"setResult", "setBody"} /\ (c.op = "setBody" => ~streaming)
  <2>1. CASE Send(Command("setResult", r, m)) BY <1>4, <2>1
  <2>2. CASE ~streaming /\ Send(Command("setBody", r, m)) BY <1>4, <2>2
  <2> QED BY <1>6, <2>1, <2>2
<1>8. \E d \in Commands :
         /\ Added(d) /\ d.by = r /\ d.msg.event = <<r, 0>> /\ d.msg.status \in Statuses
         /\ d.msg.status = "done" /\ streaming => made[r] = Events
         /\ d.op \in {"setResult", "setBody"} /\ (d.op = "setBody" => ~streaming)
  BY <1>3, <1>6, <1>7
<1> QED BY <1>5, <1>6, <1>8 DEF End, Goto, data, follower, lock

(* A request asks Valkey. *)
LEMMA QueryEffect ==
    ASSUME TypeOK, NEW r \in Requests, Arrive(r) \/ Replay(r)
    PROVE  /\ UNCHANGED <<streaming, lockTTL, result, resultTTL, chunks, chunksTTL, made, inbox,
                          watermark, out, via, ended, faults>>
           /\ \E c \in Commands, where \in Awaiting :
                 /\ Added(c) /\ c.by = r /\ pc' = [pc EXCEPT ![r] = where]
                 /\ \/ pc[r] = "idle" /\ c.op = "lock" /\ where = "acquiring"
                    \/ pc[r] = "subscribed" /\ streaming /\ c.op = "lrange" /\ where = "replaying"
                    \/ pc[r] = "subscribed" /\ ~streaming /\ c.op = "get" /\ where = "getting"
<1>1. ASSUME NEW op \in Queries
      PROVE  /\ Query(op, r) \in Commands /\ Query(op, r).op = op /\ Query(op, r).by = r
             /\ Send(Query(op, r)) => Added(Query(op, r))
  <2>1. Terminal(r, "none") \in Messages BY BuiltMessages
  <2>2. Query(op, r) \in Commands /\ Query(op, r).op = op /\ Query(op, r).by = r
    <3>1. op \in Ops BY <1>1 DEF Queries, Ops
    <3> QED BY <2>1, <3>1, BuiltMessages DEF Query
  <2> QED BY <2>2, WireSteps
<1>2. \/ pc[r] = "idle" /\ Send(Query("lock", r)) /\ Goto(r, "acquiring")
      \/ pc[r] = "subscribed" /\ streaming /\ Send(Query("lrange", r)) /\ Goto(r, "replaying")
      \/ pc[r] = "subscribed" /\ ~streaming /\ Send(Query("get", r)) /\ Goto(r, "getting")
  BY DEF Arrive, Replay
<1>3. UNCHANGED <<streaming, lockTTL, result, resultTTL, chunks, chunksTTL, made, inbox,
                  watermark, out, via, ended, faults>>
  BY DEF Arrive, Replay, data, follower, lock
<1>4. {"lock", "lrange", "get"} = Queries /\ Awaiting = {"acquiring", "replaying", "getting"}
  BY DEF Queries, Awaiting
<1> QED BY <1>1, <1>2, <1>3, <1>4 DEF Goto

(* The commands go on saying what they say.                                    *)
LEMMA WiredStep ==
    ASSUME TypeOK, Wired, [Next]_vars
    PROVE  Wired'
<1>0. TypeOK' BY TypeStep
<1>1. wire # <<>> => /\ 1 \in W /\ wire[1] \in Commands /\ Says(wire[1]) /\ Caller = wire[1].by
                     /\ wire[1].op \in Ops /\ wire[1].by \in Requests
  <2>1. wire # <<>> => 1 \in W /\ wire[1] \in Commands /\ Caller = wire[1].by BY Oldest, Typed
  <2> QED BY <2>1, Typed DEF Wired
<1>2. pc \in [Requests -> Stations] /\ made \in [Requests -> 0..Events] BY Typed
<1>3. \A x \in Requests : made[x] \in Nat BY <1>2, MuxAssumption
<1>4. ASSUME wire # <<>>, wire[1].op \in EventOps, UNCHANGED <<streaming, made, pc>>,
             NEW c \in Commands, Replaced(c), c.op \in {"expireFirst", "publish"},
             c.msg.event = wire[1].msg.event, c.msg.status = wire[1].msg.status
      PROVE  Wired'
  <2>1. Made(c.msg.event) /\ c.msg.status = "none" BY <1>1, <1>4 DEF Says
  <2>2. Says(c)' BY <1>4, <2>1 DEF Says, Made, EndOps
  <2>3. c.op \notin Queries BY <1>4 DEF Queries
  <2> QED BY <1>4, <2>2, <2>3, WiredExecute
<1>5. ASSUME wire # <<>>, wire[1].op \in EndOps, UNCHANGED <<streaming, made, pc>>,
             NEW c \in Commands, Replaced(c), c.op \in {"expireChunks", "publishEnd"},
             c.by = wire[1].by, c.msg = wire[1].msg
      PROVE  Wired'
  <2>1. c.msg.status \in Statuses /\ c.msg.event = <<c.by, 0>> BY <1>1, <1>5 DEF Says
  <2>2. Says(c)' BY <1>5, <2>1 DEF Says, EventOps
  <2>3. c.op \notin Queries BY <1>5 DEF Queries
  <2> QED BY <1>5, <2>2, <2>3, WiredExecute
<1>6. ASSUME wire # <<>>, Popped, UNCHANGED <<streaming, made>>, wire[1].op \in Queries,
             NEW where, pc' = [pc EXCEPT ![wire[1].by] = where]
      PROVE  Wired'
  BY <1>1, <1>2, <1>6, WiredExecute
<1>7. ASSUME NEW r \in Requests, pc[r] \notin Awaiting, wire' = wire, UNCHANGED <<streaming, made>>,
             \A x \in Requests : x # r => pc'[x] = pc[x]
      PROVE  Wired'
  BY <1>0, <1>3, <1>7, WiredSend
<1>8. CASE Lock \/ Get
  BY <1>6, <1>8, LockEffect, GetEffect DEF Queries
<1>9. CASE Rpush \/ ExpireFirst
  BY <1>4, <1>9, RpushEffect, ExpireFirstEffect DEF EventOps
<1>10. CASE Publish
  BY <1>10, <1>2, PublishEffect, WiredExecute
<1>11. CASE SetResult \/ ExpireChunks \/ SetBody
  BY <1>5, <1>11, EndEffect
<1>12. CASE Lrange
  <2>1. PICK c \in Commands : Replaced(c) /\ c.op = "get" /\ c.by = wire[1].by
    BY <1>12, LrangeEffect
  <2>2. /\ wire # <<>> /\ wire[1].op = "lrange" /\ UNCHANGED <<streaming, made>>
        /\ pc' = [pc EXCEPT ![wire[1].by] = "getting"]
    BY <1>12, LrangeEffect
  <2>3. pc'[c.by] = "getting" BY <1>1, <1>2, <2>1, <2>2
  <2>4. Says(c)' BY <2>1, <2>3 DEF Says, EventOps, EndOps
  <2> QED BY <1>1, <1>2, <2>1, <2>2, <2>4, WiredExecute DEF Queries
<1>13. CASE CommandFails
  BY <1>1, <1>2, <1>4, <1>5, <1>6, <1>13, FailsEffect, WiredExecute DEF EventOps, EndOps
<1>14. CASE Crash
  <2>1. wire' = <<>> BY <1>14 DEF Crash
  <2>2. W' = {} BY <2>1 DEF W
  <2> QED BY <2>2 DEF Wired
<1>15. CASE Tick \/ UNCHANGED vars
  <2>1. wire' = wire /\ pc' = pc /\ UNCHANGED <<streaming, made>> BY <1>15 DEF Tick, vars
  <2> QED BY <2>1 DEF Wired, W, Says, Made
<1>16. ASSUME NEW r \in Requests, Arrive(r) \/ Replay(r) PROVE Wired'
  <2>1. PICK c \in Commands, where \in Awaiting :
           /\ Added(c) /\ c.by = r /\ pc' = [pc EXCEPT ![r] = where]
           /\ \/ pc[r] = "idle" /\ c.op = "lock" /\ where = "acquiring"
              \/ pc[r] = "subscribed" /\ streaming /\ c.op = "lrange" /\ where = "replaying"
              \/ pc[r] = "subscribed" /\ ~streaming /\ c.op = "get" /\ where = "getting"
    BY <1>16, QueryEffect
  <2>2. UNCHANGED <<streaming, made>> /\ pc[r] \notin Awaiting
    BY <1>16, <2>1, QueryEffect DEF Awaiting
  <2>3. pc'[r] = where /\ \A x \in Requests : x # r => pc'[x] = pc[x] BY <1>2, <2>1
  <2>4. Says(c)' BY <2>1, <2>3 DEF Says, EventOps, EndOps
  <2> QED BY <1>0, <1>3, <2>1, <2>2, <2>3, <2>4, WiredSend
<1>17. ASSUME NEW r \in Requests, Produce(r) PROVE Wired'
  <2>1. /\ pc[r] = "leading" /\ made[r] \in Nat /\ UNCHANGED <<streaming, pc>>
        /\ made' = [made EXCEPT ![r] = made[r] + 1]
    BY <1>17, ProduceEffect
  <2>2. PICK c \in Commands :
           /\ Added(c) /\ c.op = "rpush" /\ c.by = r
           /\ c.msg.event = <<r, made[r] + 1>> /\ c.msg.seq = NoSeq /\ c.msg.status = "none"
    BY <1>17, ProduceEffect
  <2>3. made'[r] = made[r] + 1 /\ \A x \in Requests : made[x] <= made'[x] BY <1>2, <1>3, <2>1
  <2>4. Made(c.msg.event)' BY <2>1, <2>2, <2>3 DEF Made
  <2>5. Says(c)' BY <2>2, <2>4 DEF Says, EndOps
  <2> QED BY <1>0, <2>1, <2>2, <2>3, <2>5, WiredSend DEF Awaiting, Queries
<1>18. ASSUME NEW r \in Requests, Answer(r) \/ \E status \in Statuses : StreamEnds(r, status)
       PROVE  Wired'
  <2>1. /\ pc[r] = "leading" /\ UNCHANGED <<streaming, made>> /\ pc' = [pc EXCEPT ![r] = "ended"]
    BY <1>18, EndsEffect
  <2>2. PICK c \in Commands :
           /\ Added(c) /\ c.by = r /\ c.msg.event = <<r, 0>> /\ c.msg.status \in Statuses
           /\ c.msg.status = "done" /\ streaming => made[r] = Events
           /\ c.op \in {"setResult", "setBody"} /\ (c.op = "setBody" => ~streaming)
    BY <1>18, EndsEffect
  <2>3. Says(c)' BY <2>1, <2>2 DEF Says, EventOps
  <2>4. \A x \in Requests : x # r => pc'[x] = pc[x] BY <1>2, <2>1
  <2> QED BY <1>0, <1>3, <2>1, <2>2, <2>3, <2>4, WiredSend DEF Awaiting, Queries
<1>19. ASSUME NEW r \in Requests, LeaderThrows(r) \/ Subscribe(r) \/ TakeMessage(r) \/ Timeout(r)
       PROVE  Wired'
  <2>1. pc[r] \notin Awaiting /\ wire' = wire /\ UNCHANGED <<streaming, made>>
    BY <1>19 DEF LeaderThrows, Subscribe, TakeMessage, Timeout, Awaiting
  <2>2. \A x \in Requests : x # r => pc'[x] = pc[x]
    BY <1>2, <1>19 DEF LeaderThrows, Subscribe, TakeMessage, Timeout, End, Goto
  <2> QED BY <1>7, <2>1, <2>2
<1>20. ASSUME NEW r \in Requests, Arrive(r) \/ Generate(r) \/ Follow(r) \/ Timeout(r) PROVE Wired'
  BY <1>16, <1>17, <1>18, <1>19, <1>20 DEF Generate, Follow
<1> QED BY <1>8, <1>9, <1>10, <1>11, <1>12, <1>13, <1>14, <1>15, <1>20 DEF Next, Execute

(* Where the commands on the wire come from. *)
LEMMA WirePlaces ==
    ASSUME TypeOK
    PROVE  /\ Popped => \A i \in W' : i + 1 \in W /\ wire'[i] = wire[i + 1]
           /\ \A c : Replaced(c) => /\ W' = W
                                    /\ \A i \in W' : \/ i + 1 \in W /\ wire'[i] = wire[i + 1]
                                                     \/ i = Len(wire) /\ wire'[i] = c
           /\ \A c : Added(c) => /\ Len(wire) + 1 \in W' /\ wire'[Len(wire) + 1] = c
                                 /\ \A i \in W : i \in W' /\ wire'[i] = wire[i]
                                 /\ \A i \in W' : i \in W \/ i = Len(wire) + 1
<1>1. Len(wire) \in Nat BY Typed
<1> QED BY <1>1 DEF Popped, Replaced, Added, W

-----------------------------------------------------------------------------
(* The locks, by their ages *)

Lapsed == "lapse" \in faults

(* The lock was got by one request at most within its TTL, and lives for what  *)
(* remains of that; unless a leader has outlived its lock, leaders hold theirs. *)
Locked ==
    /\ \A r, s \in Requests : age[r] < LockTTL /\ age[s] < LockTTL => r = s
    /\ \A r \in Requests : age[r] < LockTTL => lockTTL = LockTTL - age[r]
    /\ ~Lapsed => \A r \in Requests : pc[r] = "leading" => age[r] < LockTTL

(* A leader holds the lock, alone.                                             *)
Alone ==
    /\ \A r, s \in Requests : pc[r] = "leading" /\ pc[s] = "leading" => r = s
    /\ \A r \in Requests : pc[r] = "leading" => lockTTL > 0

(* So it does while no leader has outlived its lock.                           *)
LEMMA LockedAlone ==
    ASSUME TypeOK, Locked, ~Lapsed
    PROVE  Alone
<1>1. LockTTL \in Nat /\ \A r \in Requests : age[r] \in 0..LockTTL BY MuxAssumption, TypeNames
<1> QED BY <1>1 DEF Locked, Alone

(* Only a grant and time change the lock and its age; only a grant makes a     *)
(* leader, and a lapse is never undone.                                        *)
LEMMA LockSteps ==
    ASSUME TypeOK, Wired, [Next]_vars
    PROVE  /\ faults \subseteq faults'
           /\ \/ /\ UNCHANGED <<lockTTL, age>> /\ (Lapsed' => Lapsed)
                 /\ \A r \in Requests : pc'[r] = "leading" => pc[r] = "leading"
              \/ Tick /\ pc' = pc
              \/ \E r \in Requests :
                    /\ lockTTL = 0 /\ lockTTL' = LockTTL /\ age' = [age EXCEPT ![r] = 0]
                    /\ pc' = [pc EXCEPT ![r] = "leading"] /\ faults' = faults
<1>1. pc \in [Requests -> Stations] BY Typed
<1>2. wire # <<>> => wire[1].by \in Requests /\ Head(wire) = wire[1] /\ Caller = wire[1].by BY Oldest
<1>3. CASE Rpush \/ ExpireFirst \/ Publish \/ SetResult \/ ExpireChunks \/ SetBody
  BY <1>3 DEF Rpush, ExpireFirst, Publish, SetResult, ExpireChunks, SetBody, data, lock, Lapsed
<1>4. CASE Lrange \/ Get
  <2>1. UNCHANGED <<lockTTL, age, faults>> BY <1>4 DEF Lrange, Get, data, lock
  <2>2. wire # <<>> /\ \E where \in {"getting", "ended", "waiting"} : pc' = [pc EXCEPT ![wire[1].by] = where]
    BY <1>4, LrangeEffect, GetEffect
  <2>3. \A r \in Requests : pc'[r] = "leading" => pc[r] = "leading" BY <1>1, <1>2, <2>2
  <2> QED BY <2>1, <2>3 DEF Lapsed
<1>5. CASE Lock
  <2>1. wire # <<>> /\ faults' = faults BY <1>5, LockEffect
  <2>2. CASE lockTTL = 0 /\ Locks(Caller)
    BY <1>2, <2>1, <2>2 DEF Locks, Goto
  <2>3. CASE UNCHANGED lock /\ Goto(Caller, "following")
    <3>1. \A r \in Requests : pc'[r] = "leading" => pc[r] = "leading" BY <1>1, <1>2, <2>1, <2>3 DEF Goto
    <3> QED BY <2>1, <2>3, <3>1 DEF lock, Lapsed
  <2> QED BY <1>5, <2>2, <2>3 DEF Lock
<1>6. CASE CommandFails
  <2>1. UNCHANGED <<lockTTL, age>> BY <1>6 DEF CommandFails, data, lock
  <2>2. /\ wire # <<>> /\ faults' = faults \cup {wire[1].op} /\ wire[1].op \in Ops
        /\ pc' = pc \/ pc' = [pc EXCEPT ![wire[1].by] = "ended"]
    BY <1>6, FailsEffect, Oldest
  <2>3. "lapse" \notin Ops BY DEF Ops
  <2>4. \A r \in Requests : pc'[r] = "leading" => pc[r] = "leading" BY <1>1, <1>2, <2>2
  <2> QED BY <2>1, <2>2, <2>3, <2>4 DEF Lapsed
<1>7. CASE Crash
  <2>1. UNCHANGED <<lockTTL, age>> /\ faults' = faults \cup {"crash"} BY <1>7 DEF Crash, data, lock
  <2>2. \A r \in Requests : pc'[r] = "leading" => pc[r] = "leading" BY <1>7 DEF Crash
  <2> QED BY <2>1, <2>2 DEF Lapsed
<1>8. CASE Tick BY <1>8 DEF Tick
<1>9. CASE UNCHANGED vars BY <1>9 DEF vars, data, lock, Lapsed
<1>10. ASSUME NEW r \in Requests, Arrive(r) \/ Generate(r) \/ Follow(r) \/ Timeout(r)
       PROVE  /\ UNCHANGED <<lockTTL, age, faults>>
              /\ \A x \in Requests : pc'[x] = "leading" => pc[x] = "leading"
  <2>1. UNCHANGED <<lockTTL, age, faults>>
    BY <1>10 DEF Arrive, Generate, Produce, Answer, LeaderThrows, StreamEnds, Follow, Subscribe, Replay,
                 TakeMessage, Timeout, data, lock
  <2>2. pc' = pc \/ \E where \in {"acquiring", "ended", "subscribed", "replaying", "getting"} :
                        pc' = [pc EXCEPT ![r] = where]
    BY <1>10 DEF Arrive, Generate, Produce, Answer, LeaderThrows, StreamEnds, Follow, Subscribe, Replay,
                 TakeMessage, Timeout, End, Goto
  <2> QED BY <1>1, <2>1, <2>2
<1>11. (\E r \in Requests : Arrive(r) \/ Generate(r) \/ Follow(r) \/ Timeout(r)) =>
         /\ UNCHANGED <<lockTTL, age, faults>>
         /\ \A x \in Requests : pc'[x] = "leading" => pc[x] = "leading"
  BY <1>10
<1>12. CASE \E r \in Requests : Arrive(r) \/ Generate(r) \/ Follow(r) \/ Timeout(r)
  BY <1>11, <1>12 DEF Lapsed
<1> QED BY <1>3, <1>4, <1>5, <1>6, <1>7, <1>8, <1>9, <1>12 DEF Next, Execute

(* The ages follow the lock: a request gets it when the last one's has expired.*)
LEMMA LockedStep ==
    ASSUME TypeOK, Wired, Locked, [Next]_vars
    PROVE  Locked'
<1>1. /\ LockTTL \in Nat \ {0} /\ lockTTL \in 0..LockTTL /\ age \in [Requests -> 0..LockTTL]
      /\ pc \in [Requests -> Stations]
  BY MuxAssumption, TypeNames
<1>2. CASE /\ UNCHANGED <<lockTTL, age>> /\ (Lapsed' => Lapsed)
           /\ \A r \in Requests : pc'[r] = "leading" => pc[r] = "leading"
  <2>1. Lapsed => Lapsed' BY LockSteps DEF Lapsed
  <2> QED BY <1>2, <2>1 DEF Locked
<1>3. CASE Tick /\ pc' = pc
  <2>1. /\ lockTTL' = Less(lockTTL)
        /\ \A r \in Requests : age'[r] = IF age[r] = LockTTL THEN LockTTL ELSE age[r] + 1
        /\ ~Lapsed' => ~Lapsed /\ \A r \in Requests : pc[r] = "leading" => age'[r] # LockTTL
    BY <1>3 DEF Tick, Lapsed
  <2>2. \A r \in Requests : age[r] \in 0..LockTTL BY <1>1
  <2>3. \A r \in Requests : age'[r] < LockTTL => age[r] < LockTTL /\ age'[r] = age[r] + 1
    BY <1>1, <2>1, <2>2
  <2>4. \A r, s \in Requests : age'[r] < LockTTL /\ age'[s] < LockTTL => r = s BY <2>3 DEF Locked
  <2>5. ASSUME NEW r \in Requests, age'[r] < LockTTL PROVE lockTTL' = LockTTL - age'[r]
    <3>1. lockTTL = LockTTL - age[r] /\ age'[r] = age[r] + 1 BY <2>3, <2>5 DEF Locked
    <3> QED BY <1>1, <2>1, <2>2, <2>5, <3>1 DEF Less
  <2>6. ~Lapsed' => \A r \in Requests : pc'[r] = "leading" => age'[r] < LockTTL
    BY <1>1, <1>3, <2>1, <2>2 DEF Locked
  <2> QED BY <2>4, <2>5, <2>6 DEF Locked
<1>4. ASSUME NEW r \in Requests, lockTTL = 0, lockTTL' = LockTTL, age' = [age EXCEPT ![r] = 0],
             pc' = [pc EXCEPT ![r] = "leading"], faults' = faults
      PROVE  Locked'
  <2>1. \A x \in Requests : age[x] \in 0..LockTTL BY <1>1
  <2>2. \A x \in Requests : ~(age[x] < LockTTL) BY <1>1, <1>4, <2>1 DEF Locked
  <2>3. /\ age'[r] = 0 /\ \A x \in Requests : x # r => age'[x] = age[x]
        /\ \A x \in Requests : x # r => pc'[x] = pc[x]
    BY <1>1, <1>4
  <2>4. \A x \in Requests : age'[x] < LockTTL => x = r BY <2>2, <2>3
  <2>5. lockTTL' = LockTTL - age'[r] /\ age'[r] < LockTTL BY <1>1, <1>4, <2>3
  <2>6. ~Lapsed' => ~Lapsed BY <1>4 DEF Lapsed
  <2>7. ~Lapsed' => \A x \in Requests : x # r => pc'[x] # "leading" BY <2>2, <2>3, <2>6 DEF Locked
  <2> QED BY <2>4, <2>5, <2>7 DEF Locked
<1> QED BY <1>2, <1>3, <1>4, LockSteps

-----------------------------------------------------------------------------
(* Who leads, and who follows *)

(* A request that makes events streams them as a leader, and follows nobody.   *)
Roles ==
    \A r \in Requests :
         /\ made[r] > 0 => streaming /\ pc[r] \in {"leading", "ended"}
         /\ pc[r] \in {"idle", "acquiring", "leading", "following"} => inbox[r] = <<>> /\ out[r] = <<>>
         /\ via[r] # "none" => pc[r] = "ended"
         /\ pc[r] # "ended" => ended[r] = "none"

(* While a generation is being finalized, its lock still keeps others out,     *)
(* unless some leader has outlived its lock.                                   *)
Closed ==
    \A i \in W : wire[i].op \in EndOps =>
        lockTTL > 0 /\ \A r \in Requests : pc[r] # "leading"

(* A step that adds no end of a generation, no leader and no lock.             *)
LEMMA ClosedStill ==
    ASSUME Closed,
           \A i \in W' : wire'[i].op \in EndOps =>
              \E j \in W : wire[j].op \in EndOps,
           lockTTL > 0 => lockTTL' > 0,
           \A r \in Requests : pc'[r] = "leading" => pc[r] = "leading" \/ lockTTL = 0
    PROVE  Closed'
<1>1. SUFFICES ASSUME NEW i \in W', wire'[i].op \in EndOps
      PROVE  lockTTL' > 0 /\ \A r \in Requests : pc'[r] # "leading"
  BY DEF Closed, W
<1>2. PICK j \in W : wire[j].op \in EndOps BY <1>1
<1>3. lockTTL > 0 /\ \A r \in Requests : pc[r] # "leading" BY <1>2 DEF Closed
<1> QED BY <1>3

(* The lock and the ends of a generation keep leaders apart.                   *)
LEMMA ClosedStep ==
    ASSUME TypeOK, Wired, Locked, ~Lapsed, Closed, [Next]_vars
    PROVE  Closed'
<1>1. pc \in [Requests -> Stations] BY Typed
<1>2. LockTTL > 0 /\ LockTTL \in Nat BY MuxAssumption
<1>3. wire # <<>> => 1 \in W /\ wire[1].by \in Requests BY Oldest, Typed
<1>4. Popped => \A i \in W' : wire'[i].op \in EndOps => \E j \in W : wire[j].op \in EndOps
  <2>1. Popped => \A i \in W' : i + 1 \in W /\ wire'[i] = wire[i + 1] BY WirePlaces
  <2> QED BY <2>1
<1>5. ASSUME NEW c, Replaced(c), c.op \in EndOps => wire[1].op \in EndOps, wire # <<>>
      PROVE  \A i \in W' : wire'[i].op \in EndOps => \E j \in W : wire[j].op \in EndOps
  <2>1. \A i \in W' : (i + 1 \in W /\ wire'[i] = wire[i + 1]) \/ (i = Len(wire) /\ wire'[i] = c)
    BY <1>5, WirePlaces
  <2> QED BY <1>3, <1>5, <2>1
<1>6. ASSUME NEW c, Added(c), c.op \notin EndOps
      PROVE  \A i \in W' : wire'[i].op \in EndOps => \E j \in W : wire[j].op \in EndOps
  BY <1>6, WirePlaces
<1>7. wire' = wire => \A i \in W' : wire'[i].op \in EndOps => \E j \in W : wire[j].op \in EndOps
  BY DEF W
<1>8. CASE Lock
  <2>1. Popped /\ wire # <<>> BY <1>8, LockEffect
  <2>2. \/ lockTTL = 0 /\ lockTTL' = LockTTL
        \/ lockTTL' = lockTTL /\ pc' = [pc EXCEPT ![wire[1].by] = "following"]
    BY <1>8, LockEffect
  <2>3. lockTTL > 0 => lockTTL' > 0 BY <1>2, <2>2
  <2>4. \A r \in Requests : pc'[r] = "leading" => pc[r] = "leading" \/ lockTTL = 0
    BY <1>1, <1>3, <2>1, <2>2
  <2> QED BY <1>4, <2>1, <2>3, <2>4, ClosedStill
<1>9. CASE Rpush \/ ExpireFirst
  <2>1. /\ wire # <<>> /\ UNCHANGED <<lockTTL, pc>>
        /\ \E c \in Commands : Replaced(c) /\ c.op \notin EndOps
    BY <1>9, RpushEffect, ExpireFirstEffect DEF EndOps
  <2> QED BY <1>5, <2>1, ClosedStill
<1>10. CASE Publish
  <2>1. Popped /\ UNCHANGED <<lockTTL, pc>> BY <1>10, PublishEffect
  <2> QED BY <1>4, <2>1, ClosedStill
<1>11. CASE SetResult \/ ExpireChunks \/ SetBody
  <2>1. /\ wire # <<>> /\ wire[1].op \in EndOps /\ UNCHANGED <<lockTTL, pc>>
        /\ \E c \in Commands : Replaced(c)
    BY <1>11, EndEffect
  <2> QED BY <1>5, <2>1, ClosedStill
<1>12. CASE Lrange
  <2>1. /\ wire # <<>> /\ UNCHANGED <<lockTTL>> /\ pc' = [pc EXCEPT ![wire[1].by] = "getting"]
        /\ \E c \in Commands : Replaced(c) /\ c.op \notin EndOps
    BY <1>12, LrangeEffect DEF EndOps
  <2>2. \A r \in Requests : pc'[r] = "leading" => pc[r] = "leading" BY <1>1, <1>3, <2>1
  <2> QED BY <1>5, <2>1, <2>2, ClosedStill
<1>13. CASE Get
  <2>1. /\ wire # <<>> /\ Popped /\ UNCHANGED <<lockTTL>>
        /\ \/ pc' = [pc EXCEPT ![wire[1].by] = "ended"]
           \/ pc' = [pc EXCEPT ![wire[1].by] = "waiting"]
    BY <1>13, GetEffect
  <2>2. \A r \in Requests : pc'[r] = "leading" => pc[r] = "leading" BY <1>1, <1>3, <2>1
  <2> QED BY <1>4, <2>1, <2>2, ClosedStill
<1>14. CASE CommandFails
  <2>1. /\ wire # <<>> /\ UNCHANGED <<lockTTL>>
        /\ pc' = pc \/ pc' = [pc EXCEPT ![wire[1].by] = "ended"]
        /\ \/ Popped
           \/ \E c \in Commands : Replaced(c) /\ (c.op \in EndOps => wire[1].op \in EndOps)
    BY <1>14, FailsEffect DEF EndOps
  <2>2. \A r \in Requests : pc'[r] = "leading" => pc[r] = "leading" BY <1>1, <1>3, <2>1
  <2>3. \A i \in W' : wire'[i].op \in EndOps => \E j \in W : wire[j].op \in EndOps
    BY <1>4, <1>5, <2>1
  <2> QED BY <2>1, <2>2, <2>3, ClosedStill
<1>15. CASE Crash \/ Tick
  <2>1. wire' = <<>> BY <1>15 DEF Crash, Tick
  <2>2. W' = {} BY <2>1 DEF W
  <2> QED BY <2>2 DEF Closed
<1>16. CASE UNCHANGED vars
  <2>1. wire' = wire /\ lockTTL' = lockTTL /\ pc' = pc BY <1>16 DEF vars, data, lock
  <2> QED BY <2>1 DEF Closed, W
<1>17. ASSUME NEW r \in Requests, Arrive(r) \/ Replay(r) PROVE Closed'
  <2>1. PICK c \in Commands, where \in Awaiting :
           /\ Added(c) /\ c.by = r /\ pc' = [pc EXCEPT ![r] = where]
           /\ \/ pc[r] = "idle" /\ c.op = "lock" /\ where = "acquiring"
              \/ pc[r] = "subscribed" /\ streaming /\ c.op = "lrange" /\ where = "replaying"
              \/ pc[r] = "subscribed" /\ ~streaming /\ c.op = "get" /\ where = "getting"
    BY <1>17, QueryEffect
  <2>2. lockTTL' = lockTTL /\ c.op \notin EndOps BY <1>17, <2>1, QueryEffect DEF EndOps
  <2>3. \A x \in Requests : pc'[x] = "leading" => pc[x] = "leading" BY <1>1, <2>1 DEF Awaiting
  <2> QED BY <1>6, <2>1, <2>2, <2>3, ClosedStill
<1>18. ASSUME NEW r \in Requests, Produce(r) PROVE Closed'
  <2>1. UNCHANGED <<lockTTL, pc>> /\ \E c \in Commands : Added(c) /\ c.op \notin EndOps
    BY <1>18, ProduceEffect DEF EndOps
  <2> QED BY <1>6, <2>1, ClosedStill
<1>19. ASSUME NEW r \in Requests, Answer(r) \/ \E status \in Statuses : StreamEnds(r, status)
       PROVE  Closed'
  <2>1. pc[r] = "leading" /\ lockTTL' = lockTTL /\ pc' = [pc EXCEPT ![r] = "ended"]
    BY <1>19, EndsEffect
  <2>2. lockTTL > 0 /\ \A x \in Requests : pc[x] = "leading" => x = r BY <2>1, LockedAlone DEF Alone
  <2>3. lockTTL' > 0 /\ \A x \in Requests : pc'[x] # "leading" BY <1>1, <2>1, <2>2
  <2> QED BY <2>3 DEF Closed
<1>20. ASSUME NEW r \in Requests, LeaderThrows(r) \/ Subscribe(r) \/ TakeMessage(r) \/ Timeout(r)
       PROVE  Closed'
  <2>1. wire' = wire /\ lockTTL' = lockTTL
    BY <1>20 DEF LeaderThrows, Subscribe, TakeMessage, Timeout, data, lock
  <2>2. \A x \in Requests : pc'[x] = "leading" => pc[x] = "leading"
    BY <1>1, <1>20 DEF LeaderThrows, Subscribe, TakeMessage, Timeout, End, Goto
  <2> QED BY <1>7, <2>1, <2>2, ClosedStill
<1>21. ASSUME NEW r \in Requests, Arrive(r) \/ Generate(r) \/ Follow(r) \/ Timeout(r) PROVE Closed'
  BY <1>17, <1>18, <1>19, <1>20, <1>21 DEF Generate, Follow
<1> QED BY <1>8, <1>9, <1>10, <1>11, <1>12, <1>13, <1>14, <1>15, <1>16, <1>21 DEF Next, Execute

(* A request moves on, when it may, and the others stay as they are.           *)
LEMMA RolesMove ==
    ASSUME TypeOK, Roles, NEW r \in Requests, NEW where \in Stations,
           pc' = [pc EXCEPT ![r] = where], streaming' = streaming, made' = made,
           where \notin {"idle", "acquiring", "leading"},
           where = "following" => inbox[r] = <<>> /\ out[r] = <<>>,
           pc[r] # "ended", made[r] > 0 => where = "ended",
           \A x \in Requests : \/ inbox'[x] = inbox[x] /\ out'[x] = out[x]
                               \/ x = r /\ where # "following",
           \A x \in Requests : x # r => via'[x] = via[x] /\ ended'[x] = ended[x],
           where # "ended" => via'[r] = via[r] /\ ended'[r] = ended[r]
    PROVE  Roles'
<1>1. pc \in [Requests -> Stations] BY Typed
<1>2. /\ pc'[r] = where /\ \A x \in Requests : x # r => pc'[x] = pc[x]
  BY <1>1
<1>4. ASSUME NEW x \in Requests, x # r
      PROVE  /\ made'[x] > 0 => streaming' /\ pc'[x] \in {"leading", "ended"}
             /\ pc'[x] \in {"idle", "acquiring", "leading", "following"} =>
                    inbox'[x] = <<>> /\ out'[x] = <<>>
             /\ via'[x] # "none" => pc'[x] = "ended"
             /\ pc'[x] # "ended" => ended'[x] = "none"
  BY <1>2, <1>4 DEF Roles
<1>5. /\ made'[r] > 0 => streaming' /\ pc'[r] \in {"leading", "ended"}
      /\ pc'[r] \in {"idle", "acquiring", "leading", "following"} => inbox'[r] = <<>> /\ out'[r] = <<>>
      /\ via'[r] # "none" => pc'[r] = "ended"
      /\ pc'[r] # "ended" => ended'[r] = "none"
  BY <1>2 DEF Roles
<1> QED BY <1>4, <1>5 DEF Roles

(* Requests keep their roles.                                                  *)
LEMMA RolesStep ==
    ASSUME TypeOK, Wired, Roles, [Next]_vars
    PROVE  Roles'
<1>1. pc \in [Requests -> Stations] /\ made \in [Requests -> 0..Events] /\ inbox \in [Requests -> Seq(Messages)]
      /\ out \in [Requests -> Seq(Event)] /\ via \in [Requests -> {"none", "channel", "result"}]
      /\ ended \in [Requests -> Ends]
  BY Typed
<1>3. wire # <<>> => 1 \in W /\ wire[1].by \in Requests /\ Says(wire[1]) BY Oldest, Typed DEF Wired
<1>4. CASE Lock
  <2>1. /\ wire # <<>> /\ wire[1].op = "lock"
        /\ UNCHANGED <<streaming, made, inbox, out, via, ended>>
    BY <1>4, LockEffect
  <2>2. DEFINE r == wire[1].by
  <2>3. r \in Requests /\ pc[r] = "acquiring" BY <1>3, <2>1 DEF Says
  <2> HIDE DEF r
  <2>4. /\ inbox[r] = <<>> /\ out[r] = <<>> /\ ~(made[r] > 0) /\ via[r] = "none" /\ ended[r] = "none"
    BY <2>3 DEF Roles
  <2>5. CASE pc' = [pc EXCEPT ![r] = "following"]
    <3>1. "following" \in Stations BY DEF Stations
    <3> QED BY <2>1, <2>3, <2>4, <2>5, <3>1, RolesMove
  <2>6. CASE pc' = [pc EXCEPT ![r] = "leading"]
    <3>2. pc'[r] = "leading" /\ \A x \in Requests : x # r => pc'[x] = pc[x] BY <1>1, <2>3, <2>6
    <3>5. ASSUME NEW x \in Requests
          PROVE  /\ made'[x] > 0 => streaming' /\ pc'[x] \in {"leading", "ended"}
                 /\ pc'[x] \in {"idle", "acquiring", "leading", "following"} =>
                       inbox'[x] = <<>> /\ out'[x] = <<>>
                 /\ via'[x] # "none" => pc'[x] = "ended"
                 /\ pc'[x] # "ended" => ended'[x] = "none"
      BY <2>1, <2>4, <3>2 DEF Roles
    <3> QED BY <3>5 DEF Roles
  <2> QED BY <1>4, <2>5, <2>6, LockEffect DEF r
<1>5. CASE Rpush \/ ExpireFirst \/ SetResult \/ ExpireChunks \/ SetBody
  <2>1. UNCHANGED <<streaming, made, pc, inbox, out, via, ended>>
    BY <1>5, RpushEffect, ExpireFirstEffect, EndEffect
  <2> QED BY <2>1 DEF Roles
<1>6. CASE Publish
  <2>1. UNCHANGED <<streaming, made, pc, out, via, ended>> BY <1>6, PublishEffect
  <2>2. ASSUME NEW x \in Requests, pc[x] \in {"idle", "acquiring", "leading", "following"}
        PROVE  inbox'[x] = <<>>
    <3>1. ~Subscribed(x) BY <2>2 DEF Subscribed
    <3>2. inbox'[x] = inbox[x] BY <1>6, <3>1, PublishEffect
    <3> QED BY <2>2, <3>2 DEF Roles
  <2> QED BY <2>1, <2>2 DEF Roles
<1>7. CASE Lrange
  <2>1. /\ wire # <<>> /\ wire[1].op = "lrange" /\ UNCHANGED <<streaming, made, inbox, via, ended>>
        /\ pc' = [pc EXCEPT ![wire[1].by] = "getting"] /\ out' = [out EXCEPT ![wire[1].by] = chunks]
    BY <1>7, LrangeEffect
  <2>2. PICK r \in Requests : r = wire[1].by BY <1>3, <2>1
  <2>3. pc[r] = "replaying" /\ pc' = [pc EXCEPT ![r] = "getting"] BY <1>3, <2>1, <2>2 DEF Says
  <2>4. \A x \in Requests : x # r => out'[x] = out[x] BY <1>1, <2>1, <2>2
  <2>5. pc[r] # "ended" /\ ~(made[r] > 0) BY <2>3 DEF Roles
  <2>6. \A x \in Requests : inbox'[x] = inbox[x] /\ via'[x] = via[x] /\ ended'[x] = ended[x]
    BY <2>1
  <2>7. UNCHANGED <<streaming, made>> /\ "getting" \in Stations BY <2>1 DEF Stations
  <2>8. \A x \in Requests : \/ inbox'[x] = inbox[x] /\ out'[x] = out[x]
                            \/ x = r /\ "getting" # "following"
    BY <2>4, <2>6
  <2>9. \A x \in Requests : via'[x] = via[x] /\ ended'[x] = ended[x] BY <2>6
  <2> QED BY <2>3, <2>5, <2>7, <2>8, <2>9, RolesMove
<1>8. CASE Get
  <2>1. /\ wire # <<>> /\ wire[1].op = "get" /\ UNCHANGED <<streaming, made, inbox, out>>
        /\ \/ /\ pc' = [pc EXCEPT ![wire[1].by] = "ended"] /\ via' = [via EXCEPT ![wire[1].by] = "result"]
              /\ \A x \in Requests : x # wire[1].by => ended'[x] = ended[x]
           \/ pc' = [pc EXCEPT ![wire[1].by] = "waiting"] /\ UNCHANGED <<via, ended>>
    BY <1>8, GetEffect
  <2>2. PICK r \in Requests : r = wire[1].by BY <1>3, <2>1
  <2>3. pc[r] = "getting" BY <1>3, <2>1, <2>2 DEF Says
  <2>4. pc[r] # "ended" /\ ~(made[r] > 0) BY <2>3 DEF Roles
  <2>5. "waiting" \in Stations /\ "ended" \in Stations BY DEF Stations
  <2>6. CASE /\ pc' = [pc EXCEPT ![r] = "ended"] /\ via' = [via EXCEPT ![r] = "result"]
             /\ \A x \in Requests : x # r => ended'[x] = ended[x]
    <3>1. \A x \in Requests : x # r => via'[x] = via[x] BY <1>1, <2>6
    <3> QED BY <2>1, <2>4, <2>5, <2>6, <3>1, RolesMove
  <2>7. CASE pc' = [pc EXCEPT ![r] = "waiting"] /\ UNCHANGED <<via, ended>>
    BY <2>1, <2>4, <2>5, <2>7, RolesMove
  <2> QED BY <2>1, <2>2, <2>6, <2>7
<1>9. CASE CommandFails
  <2>1. /\ wire # <<>> /\ UNCHANGED <<streaming, made, inbox, out, via>>
        /\ \/ UNCHANGED <<pc, ended>>
           \/ /\ wire[1].op \in Queries /\ pc' = [pc EXCEPT ![wire[1].by] = "ended"]
              /\ \A x \in Requests : x # wire[1].by => ended'[x] = ended[x]
    BY <1>9, FailsEffect
  <2>2. CASE UNCHANGED <<pc, ended>> BY <2>1, <2>2 DEF Roles
  <2>3. CASE /\ wire[1].op \in Queries /\ pc' = [pc EXCEPT ![wire[1].by] = "ended"]
             /\ \A x \in Requests : x # wire[1].by => ended'[x] = ended[x]
    <3>1. wire[1].by \in Requests /\ pc[wire[1].by] \in Awaiting
      BY <1>3, <2>1, <2>3 DEF Says, Queries, Awaiting
    <3>2. PICK r \in Requests : r = wire[1].by BY <3>1
    <3>3. pc[r] # "ended" /\ pc' = [pc EXCEPT ![r] = "ended"] BY <2>3, <3>1, <3>2 DEF Awaiting
    <3>4. "ended" \in Stations BY DEF Stations
    <3>5. \A x \in Requests : inbox'[x] = inbox[x] /\ out'[x] = out[x] BY <2>1
    <3>6. \A x \in Requests : x # r => via'[x] = via[x] /\ ended'[x] = ended[x] BY <2>1, <2>3, <3>2
    <3>7. UNCHANGED <<streaming, made>> BY <2>1
    <3> QED BY <3>3, <3>4, <3>5, <3>6, <3>7, RolesMove
  <2> QED BY <2>1, <2>2, <2>3
<1>10. CASE Crash
  <2>1. \A x \in Requests : /\ pc'[x] = IF pc[x] = "idle" THEN "idle" ELSE "ended"
                            /\ inbox'[x] = <<>>
                            /\ ended'[x] = IF pc[x] \in {"idle", "ended"} THEN ended[x] ELSE "crashed"
    BY <1>10 DEF Crash
  <2>2. UNCHANGED <<streaming, made, out, via>> BY <1>10 DEF Crash, data, lock
  <2> QED BY <2>1, <2>2 DEF Roles
<1>11. CASE Tick
  <2>1. UNCHANGED <<streaming, made, pc, inbox, out, via, ended>> BY <1>11 DEF Tick, follower
  <2> QED BY <2>1 DEF Roles
<1>12. CASE UNCHANGED vars
  BY <1>12 DEF Roles, vars, data, follower, lock
<1>13. ASSUME NEW r \in Requests, Arrive(r) \/ Replay(r) PROVE Roles'
  <2>1. UNCHANGED <<streaming, made, inbox, out, via, ended>> BY <1>13, QueryEffect
  <2>2. PICK where \in Awaiting : /\ pc' = [pc EXCEPT ![r] = where]
                                  /\ \/ pc[r] = "idle" /\ where = "acquiring"
                                     \/ pc[r] = "subscribed" /\ where # "acquiring"
    BY <1>13, QueryEffect
  <2>3. CASE where = "acquiring"
    <3>1. /\ pc[r] = "idle" /\ pc'[r] = "acquiring" /\ \A x \in Requests : x # r => pc'[x] = pc[x]
      BY <1>1, <2>2, <2>3
    <3>2. /\ inbox[r] = <<>> /\ out[r] = <<>> /\ ~(made[r] > 0) /\ via[r] = "none" /\ ended[r] = "none"
      BY <3>1 DEF Roles
    <3> QED BY <2>1, <3>1, <3>2 DEF Roles
  <2>4. CASE where # "acquiring"
    <3>1. where \in Stations /\ where \notin {"idle", "acquiring", "leading", "following", "ended"}
      BY <2>4 DEF Awaiting, Stations
    <3>2. pc[r] = "subscribed" BY <2>2, <2>4
    <3>3. ~(made[r] > 0) BY <3>2 DEF Roles
    <3> QED BY <2>1, <2>2, <3>1, <3>2, <3>3, RolesMove
  <2> QED BY <2>3, <2>4
<1>14. ASSUME NEW r \in Requests, Produce(r) PROVE Roles'
  <2>1. /\ pc[r] = "leading" /\ streaming /\ UNCHANGED <<streaming, pc, inbox, out, via, ended>>
        /\ made' = [made EXCEPT ![r] = made[r] + 1]
    BY <1>14, ProduceEffect
  <2>2. \A x \in Requests : x # r => made'[x] = made[x] BY <1>1, <2>1
  <2> QED BY <2>1, <2>2 DEF Roles
<1>15. ASSUME NEW r \in Requests, Answer(r) \/ \E status \in Statuses : StreamEnds(r, status)
       PROVE  Roles'
  <2>1. /\ pc[r] = "leading" /\ UNCHANGED <<streaming, made, inbox, out, via>>
        /\ pc' = [pc EXCEPT ![r] = "ended"] /\ \A x \in Requests : x # r => ended'[x] = ended[x]
    BY <1>15, EndsEffect
  <2>2. "ended" \in Stations BY DEF Stations
  <2> QED BY <2>1, <2>2, RolesMove
<1>16. ASSUME NEW r \in Requests, LeaderThrows(r) \/ Timeout(r) \/ Subscribe(r) \/ TakeMessage(r)
       PROVE  Roles'
  <2>1. CASE LeaderThrows(r) \/ Timeout(r)
    <3>1. /\ pc[r] \in {"leading", "waiting"} /\ UNCHANGED <<streaming, made, inbox, out, via>>
          /\ End(r, "failed") \/ End(r, "timeout")
      BY <2>1 DEF LeaderThrows, Timeout, data, follower, lock
    <3>2. pc' = [pc EXCEPT ![r] = "ended"] /\ \A x \in Requests : x # r => ended'[x] = ended[x]
      BY <1>1, <3>1 DEF End, Goto
    <3>3. "ended" \in Stations BY DEF Stations
    <3> QED BY <3>1, <3>2, <3>3, RolesMove
  <2>2. CASE Subscribe(r)
    <3>1. /\ pc[r] = "following" /\ pc' = [pc EXCEPT ![r] = "subscribed"]
          /\ UNCHANGED <<streaming, made, inbox, out, via, ended>>
      BY <2>2 DEF Subscribe, Goto, data, follower, lock
    <3>2. ~(made[r] > 0) BY <3>1 DEF Roles
    <3>3. "subscribed" \in Stations BY DEF Stations
    <3> QED BY <3>1, <3>2, <3>3, RolesMove
  <2>3. CASE TakeMessage(r)
    <3>1. /\ pc[r] = "waiting" /\ UNCHANGED <<streaming, made>>
          /\ \A x \in Requests : x # r => inbox'[x] = inbox[x] /\ out'[x] = out[x]
      BY <1>1, <2>3 DEF TakeMessage, data, lock
    <3>2. ~(made[r] > 0) BY <3>1 DEF Roles
    <3>3. CASE IsTerminal(Head(inbox[r]))
      <4>1. End(r, Head(inbox[r]).status) /\ via' = [via EXCEPT ![r] = "channel"]
        BY <2>3, <3>3 DEF TakeMessage
      <4>2. /\ pc' = [pc EXCEPT ![r] = "ended"]
            /\ \A x \in Requests : x # r => ended'[x] = ended[x] /\ via'[x] = via[x]
        BY <1>1, <4>1 DEF End, Goto
      <4>3. "ended" \in Stations BY DEF Stations
      <4> QED BY <3>1, <3>2, <4>2, <4>3, RolesMove
    <3>4. CASE ~IsTerminal(Head(inbox[r]))
      <4>1. UNCHANGED <<pc, via, ended>> BY <2>3, <3>4 DEF TakeMessage
      <4> QED BY <3>1, <4>1 DEF Roles
    <3> QED BY <3>3, <3>4
  <2> QED BY <1>16, <2>1, <2>2, <2>3
<1>17. ASSUME NEW r \in Requests, Arrive(r) \/ Generate(r) \/ Follow(r) \/ Timeout(r) PROVE Roles'
  BY <1>13, <1>14, <1>15, <1>16, <1>17 DEF Generate, Follow
<1> QED BY <1>4, <1>5, <1>6, <1>7, <1>8, <1>9, <1>10, <1>11, <1>12, <1>17 DEF Next, Execute

-----------------------------------------------------------------------------
(* The types, the leaders and the list's TTL *)

(* Nothing has happened yet. *)
LEMMA BaseInit ==
    ASSUME Init
    PROVE  TypeOK /\ Wired /\ Locked /\ Roles /\ Closed
<1>1. wire = <<>> /\ W = {} BY DEF Init, W
<1>2. MuxAssumption BY MuxAssumption
<1>3. Wired /\ Closed BY <1>1 DEF Wired, Closed
<1>4. Roles BY DEF Init, Roles
<1>7. Locked BY <1>2 DEF Init, Locked, MuxAssumption
<1>5. 0 \in 0..LockTTL /\ 0 \in 0..DataTTL /\ 0 \in 0..Events
  BY <1>2 DEF MuxAssumption
<1>6. TypeOK
  <2>1. LockTTL \in 0..LockTTL BY <1>2 DEF MuxAssumption
  <2>2. age \in [Requests -> 0..LockTTL] BY <2>1 DEF Init
  <2> QED BY <1>5, <2>2 DEF Init, TypeOK, Stations, Ends, NoSeq
<1> QED BY <1>3, <1>4, <1>6, <1>7

Base == TypeOK /\ Wired /\ Locked /\ Roles /\ (~Lapsed => Closed)

(* Types, commands and roles hold together. *)
LEMMA BaseInvariant == Spec => []Base
<1>1. Init => Base BY BaseInit DEF Base
<1>2. Base /\ [Next]_vars => Base'
  <2> SUFFICES ASSUME Base, [Next]_vars PROVE Base' OBVIOUS
  <2>1. TypeOK /\ Wired /\ Locked /\ Roles /\ (~Lapsed => Closed) BY DEF Base
  <2>2. TypeOK' BY <2>1, TypeStep
  <2>3. Wired' BY <2>1, WiredStep
  <2>4. Roles' BY <2>1, RolesStep
  <2>5. Locked' BY <2>1, LockedStep
  <2>6. ~Lapsed' => Closed'
    <3>1. ~Lapsed' => ~Lapsed BY <2>1, LockSteps DEF Lapsed
    <3> QED BY <2>1, <3>1, ClosedStep
  <2> QED BY <2>2, <2>3, <2>4, <2>5, <2>6 DEF Base
<1> QED BY <1>1, <1>2, PTL DEF Spec

(* Every variable keeps its type, and a result its TTL, in every behaviour.    *)
THEOREM TypeCorrect == Spec => []TypeOK
<1>1. Base => TypeOK BY DEF Base
<1> QED BY <1>1, BaseInvariant, PTL

(* For any number of requests, any TTLs and whatever fails, no second          *)
(* generation starts within the TTL of the first one's lock: the lock lives    *)
(* for exactly what its holder's age leaves of the TTL, whatever becomes of    *)
(* the holder, and SET NX refuses it until then.                               *)
THEOREM OneAtATime == Spec => []OneLeader
<1>1. Base => OneLeader
  <2> SUFFICES ASSUME Base PROVE OneLeader OBVIOUS
  <2>1. DEFINE L == {r \in Requests : age[r] < LockTTL}
  <2>2. \A r, s \in L : r = s BY DEF Base, Locked
  <2>3. Cardinality(L) <= 1
    <3>1. CASE L = {} BY <3>1, FS_EmptySet
    <3>2. CASE L # {}
      <4>1. PICK r : r \in L BY <3>2
      <4>2. L = {r} BY <2>2, <4>1
      <4> HIDE DEF L
      <4>3. Cardinality({r}) = 1 BY FS_Singleton
      <4> QED BY <4>2, <4>3
    <3> QED BY <3>1, <3>2
  <2> QED BY <2>3 DEF OneLeader
<1> QED BY <1>1, BaseInvariant, PTL

(* What remains on the wire. *)
LEMMA WireRemains ==
    ASSUME TypeOK
    PROVE  /\ Popped => \A i \in W : i # 1 => i - 1 \in W' /\ wire'[i - 1] = wire[i]
           /\ \A c : Replaced(c) => /\ Len(wire) \in W' /\ wire'[Len(wire)] = c
                                    /\ \A i \in W : i # 1 => i - 1 \in W' /\ wire'[i - 1] = wire[i]
<1>1. Len(wire) \in Nat BY Typed
<1> QED BY <1>1 DEF Popped, Replaced, W

Expiring == \E i \in W : wire[i].op = "expireFirst"
Lasting == chunks # <<>> /\ chunksTTL = 0 /\ faults \cap {"crash", "expireFirst"} = {} => Expiring

(* Lasting is ChunksExpire, with positions on the wire. *)
LEMMA LastingIs ==
    ASSUME TypeOK
    PROVE  Lasting <=> ChunksExpire
<1>1. wire \in Seq(Commands) BY Typed
<1>2. Expiring <=> \E c \in ToSet(wire) : c.op = "expireFirst" BY <1>1 DEF Expiring, W, ToSet
<1> QED BY <1>2 DEF Lasting, ChunksExpire

(* The list never lacks both its TTL and the command that sets it.             *)
LEMMA LastingStep ==
    ASSUME TypeOK, TypeOK', Wired, Lasting, [Next]_vars
    PROVE  Lasting'
<1>1. SUFFICES ASSUME chunks' # <<>>, chunksTTL' = 0, faults' \cap {"crash", "expireFirst"} = {}
      PROVE  Expiring'
  BY DEF Lasting, Expiring, W
<1>2. LockTTL > 0 /\ DataTTL > 0 /\ chunksTTL \in Nat BY MuxAssumption, TypeNames
<1>3. wire # <<>> => 1 \in W BY Oldest
<1>4. ASSUME Expiring, wire # <<>>, wire[1].op # "expireFirst", Popped \/ \E c \in Commands : Replaced(c)
      PROVE  Expiring'
  <2>1. PICK i \in W : wire[i].op = "expireFirst" BY <1>4 DEF Expiring
  <2>2. i - 1 \in W' /\ wire'[i - 1] = wire[i] BY <1>4, <2>1, WireRemains
  <2> QED BY <2>1, <2>2 DEF Expiring, W
<1>5. ASSUME Expiring, wire' = wire \/ \E c \in Commands : Added(c) PROVE Expiring'
  <2>1. PICK i \in W : wire[i].op = "expireFirst" BY <1>5 DEF Expiring
  <2>2. i \in W' /\ wire'[i] = wire[i] BY <1>5, <2>1, WirePlaces DEF W
  <2> QED BY <2>1, <2>2 DEF Expiring, W
<1>6. UNCHANGED <<chunks, chunksTTL, faults>> => Expiring BY <1>1 DEF Lasting
<1>7. CASE Rpush
  <2>1. /\ wire # <<>> /\ wire[1].op = "rpush" /\ UNCHANGED <<chunksTTL, faults>>
    BY <1>7, RpushEffect
  <2>2. PICK c \in Commands : Replaced(c) /\ c.op = IF Len(chunks) = 0 THEN "expireFirst" ELSE "publish"
    BY <1>7, RpushEffect
  <2>3. CASE Len(chunks) = 0
    <3>1. Len(wire) \in W' /\ wire'[Len(wire)] = c BY <2>2, WireRemains
    <3> QED BY <2>2, <2>3, <3>1 DEF Expiring, W
  <2>4. CASE Len(chunks) # 0
    <3>1. chunks # <<>> BY <2>4
    <3>2. Expiring BY <1>1, <2>1, <3>1 DEF Lasting
    <3> QED BY <1>4, <2>1, <2>2, <3>2
  <2> QED BY <2>3, <2>4
<1>8. CASE ExpireFirst
  <2>1. chunks' = chunks /\ chunksTTL' = IF chunks = <<>> THEN 0 ELSE LockTTL
    BY <1>8, ExpireFirstEffect
  <2> QED BY <1>1, <1>2, <2>1
<1>9. CASE SetResult \/ ExpireChunks \/ SetBody
  <2>1. /\ wire # <<>> /\ wire[1].op \in EndOps /\ UNCHANGED <<chunks, faults>>
        /\ chunksTTL' \in {chunksTTL, IF chunks = <<>> THEN 0 ELSE DataTTL}
        /\ \E c \in Commands : Replaced(c)
    BY <1>9, EndEffect
  <2>2. chunksTTL' = chunksTTL BY <1>1, <1>2, <2>1
  <2>3. wire[1].op # "expireFirst" BY <2>1 DEF EndOps
  <2> QED BY <1>4, <1>6, <2>1, <2>2, <2>3
<1>10. CASE Publish \/ Lock \/ Get
  <2>1. wire # <<>> /\ wire[1].op # "expireFirst" /\ Popped /\ UNCHANGED <<chunks, chunksTTL, faults>>
    BY <1>10, PublishEffect, LockEffect, GetEffect
  <2> QED BY <1>4, <1>6, <2>1
<1>11. CASE Lrange
  <2>1. /\ wire # <<>> /\ wire[1].op # "expireFirst" /\ UNCHANGED <<chunks, chunksTTL, faults>>
        /\ \E c \in Commands : Replaced(c)
    BY <1>11, LrangeEffect
  <2> QED BY <1>4, <1>6, <2>1
<1>12. CASE CommandFails
  <2>1. /\ wire # <<>> /\ UNCHANGED <<chunks, chunksTTL>> /\ faults' = faults \cup {wire[1].op}
        /\ Popped \/ \E c \in Commands : Replaced(c)
    BY <1>12, FailsEffect
  <2>2. wire[1].op # "expireFirst" /\ faults \cap {"crash", "expireFirst"} = {} BY <1>1, <2>1
  <2>3. Expiring BY <1>1, <2>1, <2>2 DEF Lasting
  <2> QED BY <1>4, <2>1, <2>2, <2>3
<1>13. CASE Crash
  BY <1>1, <1>13 DEF Crash
<1>14. CASE Tick
  <2>1. /\ wire = <<>> /\ faults \subseteq faults' /\ chunksTTL' = Less(chunksTTL)
        /\ chunks' = IF chunksTTL = 1 THEN <<>> ELSE chunks
    BY <1>14 DEF Tick
  <2>2. chunksTTL # 1 /\ chunks' = chunks BY <1>1, <2>1
  <2>3. chunksTTL = 0 BY <1>1, <1>2, <2>1, <2>2 DEF Less
  <2>4. W = {} BY <2>1 DEF W
  <2> QED BY <1>1, <2>1, <2>2, <2>3, <2>4 DEF Lasting, Expiring
<1>15. CASE UNCHANGED vars
  BY <1>5, <1>6, <1>15 DEF vars, data, lock
<1>16. ASSUME NEW r \in Requests, Arrive(r) \/ Generate(r) \/ Follow(r) \/ Timeout(r) PROVE Expiring'
  <2>1. UNCHANGED <<chunks, chunksTTL, faults>> /\ (wire' = wire \/ \E c \in Commands : Added(c))
    <3>1. CASE Arrive(r) \/ Replay(r) BY <3>1, QueryEffect
    <3>2. CASE Produce(r) BY <3>2, ProduceEffect
    <3>3. CASE Answer(r) \/ \E status \in Statuses : StreamEnds(r, status) BY <3>3, EndsEffect
    <3>4. CASE LeaderThrows(r) \/ Subscribe(r) \/ TakeMessage(r) \/ Timeout(r)
      BY <3>4 DEF LeaderThrows, Subscribe, TakeMessage, Timeout, data, lock
    <3> QED BY <1>16, <3>1, <3>2, <3>3, <3>4 DEF Generate, Follow
  <2> QED BY <1>5, <1>6, <2>1
<1> QED BY <1>7, <1>8, <1>9, <1>10, <1>11, <1>12, <1>13, <1>14, <1>15, <1>16 DEF Next, Execute

(* WR-04: the chunk list is never left without a TTL, unless the router died   *)
(* or Valkey failed between the first RPUSH and its EXPIRE: while the list has *)
(* none, the command that sets it is on the wire.                              *)
THEOREM ListExpires == Spec => []ChunksExpire
<1>1. Init => Base /\ Lasting
  <2>1. Init => Lasting BY DEF Init, Lasting
  <2> QED BY <2>1, BaseInit DEF Base
<1>2. Base /\ Lasting /\ [Next]_vars /\ Base' => Lasting'
  BY LastingStep DEF Base
<1>3. Base /\ Lasting => ChunksExpire BY LastingIs DEF Base
<1> QED BY <1>1, <1>2, <1>3, BaseInvariant, PTL DEF Spec

-----------------------------------------------------------------------------
(* No event twice *)

C == {i \in W : wire[i].op \in EventOps}                        \* events on the wire
P == 1..Len(chunks)
Box(r) == {n \in 1..Len(inbox[r]) : inbox[r][n].status = "none"}  \* events received
Q(r) == 1..Len(out[r])

(* Each event is on the wire once and in the list once, at its number.         *)
Distinct ==
    /\ \A i, j \in C : Ev(i) = Ev(j) => i = j
    /\ \A p, q \in P : chunks[p] = chunks[q] => p = q
    /\ \A p \in P : Made(chunks[p])
    /\ \A i \in C, p \in P : chunks[p] = Ev(i) => wire[i].msg.seq = p - 1

(* A subscription receives an event once, and no longer once it is published.  *)
BoxOnce(r) ==
    /\ \A n, m \in Box(r) : inbox[r][n].event = inbox[r][m].event => n = m
    /\ \A n \in Box(r) : Made(inbox[r][n].event)
    /\ \A n \in Box(r), i \in C : inbox[r][n].event # Ev(i)
    /\ \A n \in Box(r), p \in P : chunks[p] = inbox[r][n].event => inbox[r][n].seq = p - 1

(* What a follower has emitted and may still receive, it will recognize.       *)
OutOnce(r) ==
    /\ \A p, q \in Q(r) : out[r][p] = out[r][q] => p = q
    /\ \A p \in Q(r) : Made(out[r][p])
    /\ \A p \in Q(r), i \in C : out[r][p] = Ev(i) => Duplicate(r, wire[i].msg)
    /\ \A p \in Q(r), n \in Box(r) : out[r][p] = inbox[r][n].event => Duplicate(r, inbox[r][n])

Once == Distinct /\ \A r \in Requests : BoxOnce(r) /\ OutOnce(r)

(* A step that makes no event, and keeps those on the wire apart.              *)
LEMMA OnceKeep ==
    ASSUME TypeOK, Once, NEW phi,
           \A i \in C' : phi[i] \in C /\ wire'[i].msg = wire[phi[i]].msg,
           \A i, j \in C' : phi[i] = phi[j] => i = j,
           \A p \in P' : p \in P /\ chunks'[p] = chunks[p],
           \A r \in Requests : \A n \in Box(r)' : n \in Box(r) /\ inbox'[r][n] = inbox[r][n],
           UNCHANGED <<made, out, watermark>>
    PROVE  Once'
<1>1. Distinct' BY DEF Once, Distinct, Ev, Made
<1>2. ASSUME NEW r \in Requests PROVE BoxOnce(r)'
  <2>1. BoxOnce(r) BY DEF Once
  <2>2. \A n \in Box(r)' : n \in Box(r) /\ inbox'[r][n] = inbox[r][n] OBVIOUS
  <2> QED BY <2>1, <2>2 DEF BoxOnce, Ev, Made
<1>3. ASSUME NEW r \in Requests PROVE OutOnce(r)'
  <2>1. OutOnce(r) BY DEF Once
  <2>2. \A n \in Box(r)' : n \in Box(r) /\ inbox'[r][n] = inbox[r][n] OBVIOUS
  <2> QED BY <2>1, <2>2 DEF OutOnce, Q, Ev, Made, Duplicate
<1> QED BY <1>1, <1>2, <1>3 DEF Once

(* The events named by the state. *)
LEMMA EventTypes ==
    ASSUME TypeOK
    PROVE  /\ \A i \in W : Ev(i) \in Event
           /\ \A p \in P : chunks[p] \in Event
           /\ \A r \in Requests : \A n \in 1..Len(inbox[r]) :
                 inbox[r][n] \in Messages /\ inbox[r][n].event \in Event
           /\ \A r \in Requests : \A p \in Q(r) : out[r][p] \in Event
           /\ \A r \in Requests : Len(inbox[r]) \in Nat /\ Len(out[r]) \in Nat
<1>1. \A i \in W : Ev(i) \in Event BY Typed, MessageTypes DEF Ev
<1>2. chunks \in Seq(Event) BY Typed
<1>3. \A p \in P : chunks[p] \in Event BY <1>2 DEF P
<1>4. ASSUME NEW r \in Requests
      PROVE  /\ \A n \in 1..Len(inbox[r]) : inbox[r][n] \in Messages /\ inbox[r][n].event \in Event
             /\ \A p \in Q(r) : out[r][p] \in Event
             /\ Len(inbox[r]) \in Nat /\ Len(out[r]) \in Nat
  <2>1. inbox[r] \in Seq(Messages) /\ out[r] \in Seq(Event) BY Typed
  <2>2. \A n \in 1..Len(inbox[r]) : inbox[r][n] \in Messages BY <2>1
  <2>3. \A p \in Q(r) : out[r][p] \in Event BY <2>1 DEF Q
  <2> QED BY <2>1, <2>2, <2>3, MessageTypes
<1> QED BY <1>1, <1>3, <1>4

(* A new event is not one already made. *)
LEMMA MadeMore ==
    ASSUME TypeOK, NEW r \in Requests, made' = [made EXCEPT ![r] = made[r] + 1], NEW e \in Event, Made(e)
    PROVE  Made(e)' /\ e # <<r, made[r] + 1>>
<1>1. e[1] \in Requests /\ e[2] \in Nat /\ made \in [Requests -> 0..Events] /\ Events \in Nat
  BY MuxAssumption, Typed DEF Event
<1>2. \A x \in Requests : made[x] \in Nat BY <1>1
<1>3. made'[e[1]] = IF e[1] = r THEN made[r] + 1 ELSE made[e[1]] BY <1>1
<1> QED BY <1>1, <1>2, <1>3 DEF Made

(* The leader makes an event. *)
LEMMA OnceProduce ==
    ASSUME TypeOK, Wired, Once, NEW r \in Requests, Produce(r)
    PROVE  Once'
<1>1. /\ UNCHANGED <<chunks, inbox, watermark, out>>
      /\ made' = [made EXCEPT ![r] = made[r] + 1]
  BY ProduceEffect
<1>2. PICK c \in Commands :
         /\ Added(c) /\ c.op = "rpush" /\ c.by = r
         /\ c.msg.event = <<r, made[r] + 1>> /\ c.msg.seq = NoSeq /\ c.msg.status = "none"
  BY ProduceEffect
<1>3. DEFINE new == <<r, made[r] + 1>>
<1>4. \A e \in Event : Made(e) => Made(e)' /\ e # new BY <1>1, MadeMore
<1> HIDE DEF new
<1>5. \A i \in C' : \/ i \in C /\ wire'[i] = wire[i]
                    \/ i = Len(wire) + 1 /\ wire'[i].msg.event = new
  <2>1. \A i \in W' : (i \in W /\ wire'[i] = wire[i]) \/ (i = Len(wire) + 1 /\ wire'[i] = c)
    BY <1>2, WirePlaces
  <2> QED BY <1>2, <2>1 DEF C, new
<1>6. \A i \in C : Ev(i) \in Event /\ Made(Ev(i)) BY EventTypes DEF C, Wired, Says, Ev
<1>7. \A p \in P : chunks[p] \in Event /\ Made(chunks[p]) BY EventTypes DEF Once, Distinct
<1>8. Distinct'
  <2>1. ASSUME NEW i \in C', NEW j \in C', Ev(i)' = Ev(j)' PROVE i = j
    BY <1>4, <1>5, <1>6, <2>1 DEF Once, Distinct, Ev
  <2>2. \A p, q \in P' : chunks'[p] = chunks'[q] => p = q BY <1>1 DEF Once, Distinct, P
  <2>3. ASSUME NEW p \in P' PROVE Made(chunks[p])'
    <3>1. p \in P /\ chunks'[p] = chunks[p] BY <1>1 DEF P
    <3>2. Made(chunks[p])' = (chunks'[p][2] \in 1..made'[chunks'[p][1]]) BY DEF Made
    <3>3. chunks[p][2] \in 1..made'[chunks[p][1]] BY <1>4, <1>7, <3>1 DEF Made
    <3> QED BY <3>1, <3>3 DEF Made
  <2>4. ASSUME NEW i \in C', NEW p \in P', chunks'[p] = Ev(i)' PROVE wire'[i].msg.seq = p - 1
    <3>1. p \in P /\ chunks'[p] = chunks[p] BY <1>1 DEF P
    <3>2. CASE i \in C /\ wire'[i] = wire[i] BY <2>4, <3>1, <3>2 DEF Once, Distinct, Ev
    <3>3. CASE wire'[i].msg.event = new BY <1>4, <1>7, <2>4, <3>1, <3>3 DEF Ev
    <3> QED BY <1>5, <3>2, <3>3
  <2> QED BY <2>1, <2>2, <2>3, <2>4 DEF Distinct
<1>9. ASSUME NEW f \in Requests PROVE BoxOnce(f)'
  <2>1. BoxOnce(f) BY DEF Once
  <2>2. Box(f)' = Box(f) BY <1>1 DEF Box
  <2>3. \A n \in Box(f) : inbox[f][n].event \in Event /\ Made(inbox[f][n].event)
    BY <2>1, EventTypes DEF BoxOnce, Box
  <2>4. \A n \in Box(f) : inbox[f][n].event[2] \in 1..made'[inbox[f][n].event[1]]
    BY <1>4, <2>3 DEF Made
  <2>5. \A n \in Box(f), i \in C' : inbox[f][n].event # wire'[i].msg.event
    BY <1>4, <1>5, <2>1, <2>3 DEF BoxOnce, Ev
  <2> QED BY <1>1, <2>1, <2>2, <2>4, <2>5 DEF BoxOnce, Ev, Made, P
<1>10. ASSUME NEW f \in Requests PROVE OutOnce(f)'
  <2>1. OutOnce(f) BY DEF Once
  <2>2. Box(f)' = Box(f) /\ Q(f)' = Q(f) BY <1>1 DEF Box, Q
  <2>3. \A p \in Q(f) : out[f][p] \in Event /\ Made(out[f][p]) BY <2>1, EventTypes DEF OutOnce
  <2>4. \A p \in Q(f) : out[f][p][2] \in 1..made'[out[f][p][1]] BY <1>4, <2>3 DEF Made
  <2>5. \A p \in Q(f), i \in C' : out[f][p] = wire'[i].msg.event => Duplicate(f, wire'[i].msg)
    BY <1>4, <1>5, <2>1, <2>3 DEF OutOnce, Ev
  <2>6. \A m : Duplicate(f, m) => m.seq # NoSeq /\ m.seq <= watermark'[f] BY <1>1 DEF Duplicate
  <2> QED BY <1>1, <2>1, <2>2, <2>4, <2>5, <2>6 DEF OutOnce, Ev, Made, Duplicate
<1> QED BY <1>8, <1>9, <1>10 DEF Once

(* RPUSH gives an event its number. *)
LEMMA OnceRpush ==
    ASSUME TypeOK, Wired, Once, Rpush
    PROVE  Once'
<1>1. /\ wire # <<>> /\ wire[1].op = "rpush" /\ UNCHANGED <<made, inbox, watermark, out>>
      /\ chunks' = Append(chunks, wire[1].msg.event)
  BY RpushEffect
<1>2. PICK c \in Commands :
         /\ Replaced(c) /\ c.op = IF Len(chunks) = 0 THEN "expireFirst" ELSE "publish"
         /\ c.msg.event = wire[1].msg.event /\ c.msg.seq = Len(chunks)
  BY RpushEffect
<1>3. 1 \in W /\ 1 \in C /\ wire[1].msg.seq = NoSeq /\ Made(Ev(1)) /\ Ev(1) \in Event
  <2>1. 1 \in W BY <1>1, Oldest
  <2>2. 1 \in C BY <1>1, <2>1 DEF C, EventOps
  <2> QED BY <1>1, <2>1, <2>2, EventTypes DEF Wired, Says, Ev, C
<1>4. chunks \in Seq(Event) /\ Len(chunks) \in Nat /\ Len(wire) \in Nat BY Typed
<1>5. /\ P' = 1..(Len(chunks) + 1) /\ \A p \in P : p \in P' /\ chunks'[p] = chunks[p]
      /\ chunks'[Len(chunks) + 1] = Ev(1)
      /\ \A p \in P' : p \in P \/ p = Len(chunks) + 1
  <2>1. /\ Len(chunks') = Len(chunks) + 1 /\ chunks'[Len(chunks) + 1] = Ev(1)
        /\ \A p \in P : chunks'[p] = chunks[p]
    BY <1>1, <1>3, <1>4, AppendProperties DEF Ev, P
  <2> QED BY <1>4, <2>1 DEF P
<1>6. \A i \in C' : \/ i # Len(wire) /\ i + 1 \in C /\ i + 1 # 1 /\ wire'[i] = wire[i + 1]
                    \/ i = Len(wire) /\ wire'[i] = c
  <2>1. /\ W' = W
        /\ \A i \in W' : (i + 1 \in W /\ wire'[i] = wire[i + 1]) \/ (i = Len(wire) /\ wire'[i] = c)
    BY <1>2, WirePlaces
  <2> QED BY <1>4, <2>1 DEF C, W
<1>7. \A p \in P : chunks[p] # Ev(1)
  <2>1. \A p \in P : chunks[p] = Ev(1) => wire[1].msg.seq = p - 1 BY <1>3 DEF Once, Distinct
  <2> QED BY <1>3, <2>1 DEF P, NoSeq
<1>8. Distinct'
  <2>1. ASSUME NEW i \in C', NEW j \in C', wire'[i].msg.event = wire'[j].msg.event PROVE i = j
    BY <1>2, <1>3, <1>6, <2>1 DEF Once, Distinct, Ev, C, W
  <2>2. ASSUME NEW p \in P', NEW q \in P', chunks'[p] = chunks'[q] PROVE p = q
    BY <1>5, <1>7, <2>2 DEF Once, Distinct
  <2>3. ASSUME NEW p \in P' PROVE chunks'[p][2] \in 1..made'[chunks'[p][1]]
    BY <1>1, <1>3, <1>5 DEF Once, Distinct, Made
  <2>4. ASSUME NEW i \in C', NEW p \in P', chunks'[p] = wire'[i].msg.event
        PROVE  wire'[i].msg.seq = p - 1
    <3>1. CASE p \in P
      <4>1. chunks[p] = wire'[i].msg.event /\ chunks[p] # Ev(1) BY <1>5, <1>7, <2>4, <3>1
      <4>2. i + 1 \in C /\ wire'[i] = wire[i + 1]
        <5>1. ~(i = Len(wire) /\ wire'[i] = c) BY <1>2, <4>1 DEF Ev
        <5> QED BY <1>6, <5>1
      <4>3. chunks[p] = Ev(i + 1) BY <4>1, <4>2 DEF Ev
      <4>4. wire[i + 1].msg.seq = p - 1 BY <3>1, <4>2, <4>3 DEF Once, Distinct
      <4> QED BY <4>2, <4>4
    <3>2. CASE p = Len(chunks) + 1
      <4>1. wire'[i].msg.event = Ev(1) BY <1>5, <2>4, <3>2
      <4>2. i = Len(wire) /\ wire'[i] = c
        BY <1>3, <1>6, <4>1 DEF Once, Distinct, Ev
      <4> QED BY <1>2, <1>4, <3>2, <4>2
    <3> QED BY <1>5, <3>1, <3>2
  <2> QED BY <2>1, <2>2, <2>3, <2>4 DEF Distinct, Ev, Made
<1>9. ASSUME NEW f \in Requests PROVE BoxOnce(f)'
  <2>1. BoxOnce(f) BY DEF Once
  <2>2. Box(f)' = Box(f) BY <1>1 DEF Box
  <2>3. \A n \in Box(f), i \in C' : inbox[f][n].event # wire'[i].msg.event
    BY <1>2, <1>3, <1>6, <2>1 DEF BoxOnce, Ev
  <2>4. \A n \in Box(f), p \in P' : chunks'[p] = inbox[f][n].event => inbox[f][n].seq = p - 1
    BY <1>3, <1>5, <2>1 DEF BoxOnce
  <2> QED BY <1>1, <2>1, <2>2, <2>3, <2>4 DEF BoxOnce, Ev, Made
<1>10. ASSUME NEW f \in Requests PROVE OutOnce(f)'
  <2>1. OutOnce(f) BY DEF Once
  <2>2. Box(f)' = Box(f) /\ Q(f)' = Q(f) BY <1>1 DEF Box, Q
  <2>3. \A p \in Q(f) : out[f][p] # Ev(1) BY <1>3, <2>1 DEF OutOnce, Duplicate
  <2>4. \A p \in Q(f), i \in C' : out[f][p] = wire'[i].msg.event => Duplicate(f, wire'[i].msg)
    BY <1>2, <1>6, <2>1, <2>3 DEF OutOnce, Ev
  <2>5. \A m : Duplicate(f, m) => m.seq # NoSeq /\ m.seq <= watermark'[f] BY <1>1 DEF Duplicate
  <2> QED BY <1>1, <2>1, <2>2, <2>4, <2>5 DEF OutOnce, Ev, Made, Duplicate
<1> QED BY <1>8, <1>9, <1>10 DEF Once

(* The commands that are not the oldest one keep their events. *)
LEMMA CarriedOn ==
    ASSUME TypeOK
    PROVE  /\ Popped => \A i \in C' : i + 1 \in C /\ i + 1 # 1 /\ wire'[i] = wire[i + 1]
           /\ \A c : Replaced(c) =>
                 \A i \in C' : \/ i # Len(wire) /\ i + 1 \in C /\ i + 1 # 1 /\ wire'[i] = wire[i + 1]
                               \/ i = Len(wire) /\ wire'[i] = c /\ c.op \in EventOps
           /\ \A c : Added(c) =>
                 \A i \in C' : \/ i # Len(wire) + 1 /\ i \in C /\ wire'[i] = wire[i]
                               \/ i = Len(wire) + 1 /\ wire'[i] = c /\ c.op \in EventOps
           /\ wire' = wire => \A i \in C' : i \in C /\ wire'[i] = wire[i]
<1>1. Len(wire) \in Nat BY Typed
<1>2. Popped => \A i \in C' : i + 1 \in C /\ i + 1 # 1 /\ wire'[i] = wire[i + 1]
  <2>1. Popped => \A i \in W' : i + 1 \in W /\ i \in Nat /\ i # 0 /\ wire'[i] = wire[i + 1]
    BY WirePlaces DEF W
  <2> QED BY <2>1 DEF C
<1>3. ASSUME NEW c, Replaced(c)
      PROVE  \A i \in C' : \/ i # Len(wire) /\ i + 1 \in C /\ i + 1 # 1 /\ wire'[i] = wire[i + 1]
                           \/ i = Len(wire) /\ wire'[i] = c /\ c.op \in EventOps
  <2>1. \A i \in W' : \/ i + 1 \in W /\ wire'[i] = wire[i + 1]
                      \/ i = Len(wire) /\ wire'[i] = c
    BY <1>3, WirePlaces
  <2>2. \A i \in W' : i + 1 \in W => i # Len(wire) /\ i + 1 # 1 BY <1>1 DEF W
  <2> QED BY <2>1, <2>2 DEF C
<1>4. ASSUME NEW c, Added(c)
      PROVE  \A i \in C' : \/ i # Len(wire) + 1 /\ i \in C /\ wire'[i] = wire[i]
                           \/ i = Len(wire) + 1 /\ wire'[i] = c /\ c.op \in EventOps
  <2>1. \A i \in W' : i \in W \/ i = Len(wire) + 1 BY <1>4, WirePlaces
  <2>2. \A i \in W : wire'[i] = wire[i] /\ i # Len(wire) + 1 BY <1>1, <1>4, WirePlaces DEF W
  <2>3. wire'[Len(wire) + 1] = c BY <1>4, WirePlaces
  <2> QED BY <2>1, <2>2, <2>3 DEF C
<1>5. wire' = wire => \A i \in C' : i \in C /\ wire'[i] = wire[i] BY DEF C, W
<1> QED BY <1>2, <1>3, <1>4, <1>5

(* A step that leaves the list, or clears it, and what the followers have. *)
LEMMA OnceQuiet ==
    ASSUME TypeOK, Once,
           \/ wire' = wire \/ Popped \/ wire' = <<>>
           \/ \E c \in Commands : Added(c) /\ c.op \notin EventOps
           \/ \E c \in Commands : Replaced(c) /\ c.op \notin EventOps
           \/ \E c \in Commands : Replaced(c) /\ 1 \in C /\ c.msg = wire[1].msg,
           chunks' = chunks \/ chunks' = <<>>,
           \A r \in Requests : \A n \in Box(r)' : n \in Box(r) /\ inbox'[r][n] = inbox[r][n],
           UNCHANGED <<made, out, watermark>>
    PROVE  Once'
<1>1. Len(wire) \in Nat /\ Len(chunks) \in Nat BY Typed
<1>2. \A p \in P' : p \in P /\ chunks'[p] = chunks[p] BY DEF P
<1>3. ASSUME NEW d \in {0, 1}, \A i \in C' : i + d \in C /\ wire'[i] = wire[i + d] PROVE Once'
  <2>1. DEFINE phi == [i \in C' |-> i + d]
  <2>2. \A i \in C' : phi[i] = i + d /\ i \in Nat BY DEF C, W
  <2> HIDE DEF phi
  <2>3. \A i \in C' : phi[i] \in C /\ wire'[i].msg = wire[phi[i]].msg BY <1>3, <2>2
  <2>4. \A i, j \in C' : phi[i] = phi[j] => i = j BY <2>2
  <2> QED BY <1>2, <2>3, <2>4, OnceKeep
<1>4. CASE wire' = wire \/ wire' = <<>> \/ \E c \in Commands : Added(c) /\ c.op \notin EventOps
  <2>1. \A i \in C' : i \in C /\ wire'[i] = wire[i]
    <3>1. wire' = <<>> => C' = {} BY DEF C, W
    <3> QED BY <1>4, <3>1, CarriedOn
  <2>2. \A i \in C' : i + 0 = i BY DEF C, W
  <2> QED BY <1>3, <2>1, <2>2
<1>5. CASE Popped \/ \E c \in Commands : Replaced(c) /\ c.op \notin EventOps
  <2>1. \A i \in C' : i + 1 \in C /\ wire'[i] = wire[i + 1] BY <1>5, CarriedOn
  <2> QED BY <1>3, <2>1
<1>6. ASSUME NEW c \in Commands, Replaced(c), 1 \in C, c.msg = wire[1].msg PROVE Once'
  <2>1. \A i \in C' : \/ i # Len(wire) /\ i + 1 \in C /\ i + 1 # 1 /\ wire'[i] = wire[i + 1]
                      \/ i = Len(wire) /\ wire'[i] = c
    BY <1>6, CarriedOn
  <2>2. DEFINE phi == [i \in C' |-> IF i = Len(wire) THEN 1 ELSE i + 1]
  <2>3. \A i \in C' : phi[i] = (IF i = Len(wire) THEN 1 ELSE i + 1) /\ i \in Nat BY DEF C, W
  <2> HIDE DEF phi
  <2>4. \A i \in C' : phi[i] \in C /\ wire'[i].msg = wire[phi[i]].msg BY <1>6, <2>1, <2>3
  <2>5. \A i, j \in C' : phi[i] = phi[j] => i = j BY <1>1, <2>1, <2>3
  <2> QED BY <1>2, <2>4, <2>5, OnceKeep
<1> QED BY <1>4, <1>5, <1>6

(* An event leaves the wire for the mailboxes. *)
LEMMA OncePublish ==
    ASSUME TypeOK, Wired, Once, Publish
    PROVE  Once'
<1>1. /\ wire # <<>> /\ wire[1].op \in {"publish", "publishEnd"} /\ wire[1].msg \in Messages /\ Popped
      /\ UNCHANGED <<chunks, made, out, watermark>>
      /\ \A f \in Requests :
            inbox'[f] = IF Subscribed(f) THEN Append(inbox[f], wire[1].msg) ELSE inbox[f]
  BY PublishEffect
<1>2. 1 \in W /\ Says(wire[1]) BY <1>1, Oldest DEF Wired
<1>3. ASSUME NEW f \in Requests
      PROVE  /\ \A n \in Box(f)' : \/ n \in Box(f) /\ inbox'[f][n] = inbox[f][n]
                                   \/ /\ n = Len(inbox[f]) + 1 /\ n \notin Box(f)
                                      /\ inbox'[f][n] = wire[1].msg /\ wire[1].msg.status = "none"
  <2>1. inbox[f] \in Seq(Messages) /\ Len(inbox[f]) \in Nat BY Typed
  <2>2. CASE inbox'[f] = inbox[f] BY <2>2 DEF Box
  <2>3. CASE inbox'[f] = Append(inbox[f], wire[1].msg)
    <3>1. /\ Len(inbox'[f]) = Len(inbox[f]) + 1 /\ inbox'[f][Len(inbox[f]) + 1] = wire[1].msg
          /\ \A n \in 1..Len(inbox[f]) : inbox'[f][n] = inbox[f][n]
      BY <1>1, <2>1, <2>3, AppendProperties
    <3> QED BY <2>1, <3>1 DEF Box
  <2> QED BY <1>1, <2>2, <2>3
<1>4. CASE wire[1].op = "publishEnd"
  <2>1. wire[1].msg.status # "none" BY <1>2, <1>4 DEF Says, EndOps, Statuses
  <2>2. \A r \in Requests : \A n \in Box(r)' : n \in Box(r) /\ inbox'[r][n] = inbox[r][n]
    BY <1>3, <2>1
  <2> QED BY <1>1, <2>2, OnceQuiet
<1>5. CASE wire[1].op = "publish"
  <2>1. 1 \in C /\ Made(Ev(1)) BY <1>2, <1>5 DEF C, EventOps, Says, Ev
  <2>2. \A i \in C' : i + 1 \in C /\ i + 1 # 1 /\ wire'[i] = wire[i + 1] BY <1>1, CarriedOn
  <2>3. P' = P BY <1>1 DEF P
  <2>4. Distinct'
    <3>1. ASSUME NEW i \in C', NEW j \in C', wire'[i].msg.event = wire'[j].msg.event PROVE i = j
      <4>1. i + 1 = j + 1 BY <2>2, <3>1 DEF Once, Distinct, Ev
      <4> QED BY <4>1 DEF C, W
    <3> QED BY <1>1, <2>2, <2>3, <3>1 DEF Once, Distinct, Ev, Made
  <2>5. \A i \in C' : wire'[i].msg.event # Ev(1) BY <2>1, <2>2 DEF Once, Distinct, Ev
  <2>6. ASSUME NEW f \in Requests PROVE BoxOnce(f)'
    <3>1. BoxOnce(f) BY DEF Once
    <3>2. \A n \in Box(f)' : \/ n \in Box(f) /\ inbox'[f][n] = inbox[f][n]
                             \/ n = Len(inbox[f]) + 1 /\ n \notin Box(f) /\ inbox'[f][n] = wire[1].msg
      BY <1>3
    <3>3. ASSUME NEW n \in Box(f)', NEW m \in Box(f)', inbox'[f][n].event = inbox'[f][m].event
          PROVE  n = m
      BY <2>1, <3>1, <3>2, <3>3 DEF BoxOnce, Ev
    <3>4. ASSUME NEW n \in Box(f)' PROVE inbox'[f][n].event[2] \in 1..made'[inbox'[f][n].event[1]]
      BY <1>1, <2>1, <3>1, <3>2 DEF BoxOnce, Ev, Made
    <3>5. ASSUME NEW n \in Box(f)', NEW i \in C' PROVE inbox'[f][n].event # wire'[i].msg.event
      BY <2>2, <2>5, <3>1, <3>2 DEF BoxOnce, Ev
    <3>6. ASSUME NEW n \in Box(f)', NEW p \in P, chunks[p] = inbox'[f][n].event
          PROVE  inbox'[f][n].seq = p - 1
      BY <2>1, <3>1, <3>2, <3>6 DEF BoxOnce, Once, Distinct, Ev
    <3> QED BY <1>1, <2>3, <3>3, <3>4, <3>5, <3>6 DEF BoxOnce, Ev, Made
  <2>7. ASSUME NEW f \in Requests PROVE OutOnce(f)'
    <3>1. OutOnce(f) /\ Q(f)' = Q(f) BY <1>1 DEF Once, Q
    <3>2. \A n \in Box(f)' : \/ n \in Box(f) /\ inbox'[f][n] = inbox[f][n]
                             \/ n = Len(inbox[f]) + 1 /\ inbox'[f][n] = wire[1].msg
      BY <1>3
    <3>3. \A p \in Q(f), n \in Box(f)' : out[f][p] = inbox'[f][n].event => Duplicate(f, inbox'[f][n])
      BY <2>1, <3>1, <3>2 DEF OutOnce, Ev
    <3>4. \A p \in Q(f), i \in C' : out[f][p] = wire'[i].msg.event => Duplicate(f, wire'[i].msg)
      BY <2>2, <3>1 DEF OutOnce, Ev
    <3>5. \A m : Duplicate(f, m) => m.seq # NoSeq /\ m.seq <= watermark'[f] BY <1>1 DEF Duplicate
    <3> QED BY <1>1, <3>1, <3>3, <3>4, <3>5 DEF OutOnce, Ev, Made, Duplicate
  <2> QED BY <2>4, <2>6, <2>7 DEF Once
<1> QED BY <1>1, <1>4, <1>5

(* A follower replays the list: it will recognize what is in it. *)
LEMMA OnceLrange ==
    ASSUME TypeOK, Once, Lrange
    PROVE  Once'
<1>1. /\ wire[1].by \in Requests /\ UNCHANGED <<chunks, made, inbox>>
      /\ out' = [out EXCEPT ![wire[1].by] = chunks]
      /\ watermark' = [watermark EXCEPT ![wire[1].by] = Len(chunks) - 1]
      /\ \E c \in Commands : Replaced(c) /\ c.op \notin EventOps
  BY LrangeEffect DEF EventOps
<1>2. PICK r \in Requests : r = wire[1].by BY <1>1
<1>3. \A i \in C' : i + 1 \in C /\ wire'[i] = wire[i + 1] BY <1>1, CarriedOn
<1>4. P' = P /\ Len(chunks) \in Nat /\ \A f \in Requests : Box(f)' = Box(f)
  BY <1>1, Typed DEF P, Box
<1>5. /\ out'[r] = chunks /\ watermark'[r] = Len(chunks) - 1
      /\ \A f \in Requests : f # r => out'[f] = out[f] /\ watermark'[f] = watermark[f]
  BY <1>1, <1>2, Typed
<1>6. Distinct'
  <2>1. ASSUME NEW i \in C', NEW j \in C', wire'[i].msg.event = wire'[j].msg.event PROVE i = j
    <3>1. i + 1 = j + 1 BY <1>3, <2>1 DEF Once, Distinct, Ev
    <3> QED BY <3>1 DEF C, W
  <2> QED BY <1>1, <1>3, <1>4, <2>1 DEF Once, Distinct, Ev, Made
<1>7. ASSUME NEW f \in Requests PROVE BoxOnce(f)'
  <2>1. BoxOnce(f) BY DEF Once
  <2> QED BY <1>1, <1>3, <1>4, <2>1 DEF BoxOnce, Ev, Made
<1>8. ASSUME NEW f \in Requests, f # r PROVE OutOnce(f)'
  <2>1. OutOnce(f) /\ Q(f)' = Q(f) BY <1>5, <1>8 DEF Once, Q
  <2> QED BY <1>1, <1>3, <1>4, <1>5, <1>8, <2>1 DEF OutOnce, Ev, Made, Duplicate
<1>9. OutOnce(r)'
  <2>1. Q(r)' = P BY <1>5 DEF Q, P
  <2>2. \A p \in P, i \in C : chunks[p] = Ev(i) => wire[i].msg.seq = p - 1 BY DEF Once, Distinct
  <2>3. \A p \in P, n \in Box(r) : chunks[p] = inbox[r][n].event => inbox[r][n].seq = p - 1
    BY DEF Once, BoxOnce
  <2>4. \A p \in P : p \in Int /\ p - 1 # NoSeq /\ p - 1 <= Len(chunks) - 1 BY <1>4 DEF P, NoSeq
  <2>5. ASSUME NEW p \in P, NEW i \in C', chunks[p] = wire'[i].msg.event
        PROVE  wire'[i].msg.seq # NoSeq /\ wire'[i].msg.seq <= watermark'[r]
    BY <1>3, <1>5, <2>2, <2>4, <2>5 DEF Ev
  <2>6. ASSUME NEW p \in P, NEW n \in Box(r), chunks[p] = inbox[r][n].event
        PROVE  inbox[r][n].seq # NoSeq /\ inbox[r][n].seq <= watermark'[r]
    BY <1>5, <2>3, <2>4, <2>6
  <2> QED BY <1>1, <1>4, <1>5, <2>1, <2>5, <2>6 DEF OutOnce, Ev, Made, Duplicate, Once, Distinct
<1> QED BY <1>6, <1>7, <1>8, <1>9 DEF Once

(* A follower reads its oldest message. *)
LEMMA TakeEffect ==
    ASSUME TypeOK, NEW r \in Requests, TakeMessage(r)
    PROVE  /\ pc[r] = "waiting" /\ 1 \in 1..Len(inbox[r])
           /\ UNCHANGED <<streaming, lockTTL, result, resultTTL, chunks, chunksTTL, wire, made,
                          watermark, faults>>
           /\ \A f \in Requests : f # r => inbox'[f] = inbox[f] /\ out'[f] = out[f] /\ pc'[f] = pc[f]
                                           /\ via'[f] = via[f] /\ ended'[f] = ended[f]
           /\ Len(inbox'[r]) = Len(inbox[r]) - 1
           /\ \A n \in 1..Len(inbox'[r]) :
                 n + 1 \in 1..Len(inbox[r]) /\ n + 1 # 1 /\ inbox'[r][n] = inbox[r][n + 1]
           /\ \/ /\ inbox[r][1].status # "none" /\ pc'[r] = "ended" /\ via'[r] = "channel"
                 /\ ended'[r] = inbox[r][1].status /\ out'[r] = out[r]
              \/ /\ inbox[r][1].status = "none" /\ Duplicate(r, inbox[r][1]) /\ out'[r] = out[r]
                 /\ pc'[r] = pc[r] /\ via'[r] = via[r] /\ ended'[r] = ended[r]
              \/ /\ inbox[r][1].status = "none" /\ ~Duplicate(r, inbox[r][1])
                 /\ Len(out'[r]) = Len(out[r]) + 1 /\ out'[r][Len(out[r]) + 1] = inbox[r][1].event
                 /\ \A p \in Q(r) : out'[r][p] = out[r][p]
                 /\ pc'[r] = pc[r] /\ via'[r] = via[r] /\ ended'[r] = ended[r]
<1>1. /\ inbox[r] \in Seq(Messages) /\ out[r] \in Seq(Event) /\ inbox[r] # <<>>
      /\ inbox \in [Requests -> Seq(Messages)] /\ out \in [Requests -> Seq(Event)]
      /\ pc \in [Requests -> Stations] /\ via \in [Requests -> {"none", "channel", "result"}]
      /\ ended \in [Requests -> Ends]
  BY Typed DEF TakeMessage
<1>2. /\ Len(inbox[r]) \in Nat /\ Len(inbox[r]) >= 1 /\ Head(inbox[r]) = inbox[r][1]
      /\ Head(inbox[r]) \in Messages
      /\ Tail(inbox[r]) \in Seq(Messages) /\ Len(Tail(inbox[r])) = Len(inbox[r]) - 1
      /\ \A n \in 1..(Len(inbox[r]) - 1) : Tail(inbox[r])[n] = inbox[r][n + 1]
  BY <1>1, HeadTailProperties, EmptySeq
<1>3. /\ inbox'[r] = Tail(inbox[r]) /\ \A f \in Requests : f # r => inbox'[f] = inbox[f]
      /\ pc[r] = "waiting"
      /\ UNCHANGED <<streaming, lockTTL, result, resultTTL, chunks, chunksTTL, wire, made,
                     watermark, faults>>
  BY <1>1 DEF TakeMessage, data, lock
<1>4. /\ 1 \in 1..Len(inbox[r]) /\ Len(inbox'[r]) = Len(inbox[r]) - 1
      /\ \A n \in 1..Len(inbox'[r]) :
            n + 1 \in 1..Len(inbox[r]) /\ n + 1 # 1 /\ inbox'[r][n] = inbox[r][n + 1]
  BY <1>2, <1>3
<1>5. CASE IsTerminal(Head(inbox[r]))
  <2>1. /\ End(r, Head(inbox[r]).status) /\ via' = [via EXCEPT ![r] = "channel"] /\ out' = out
    BY <1>5 DEF TakeMessage
  <2>2. /\ pc'[r] = "ended" /\ via'[r] = "channel" /\ ended'[r] = inbox[r][1].status
        /\ \A f \in Requests : f # r => pc'[f] = pc[f] /\ via'[f] = via[f] /\ ended'[f] = ended[f]
    BY <1>1, <1>2, <2>1 DEF End, Goto
  <2>3. inbox[r][1].status # "none" BY <1>2, <1>5 DEF IsTerminal
  <2> QED BY <1>3, <1>4, <2>1, <2>2, <2>3
<1>6. CASE ~IsTerminal(Head(inbox[r]))
  <2>1. /\ out' = [out EXCEPT ![r] = IF Duplicate(r, Head(inbox[r])) THEN @
                                     ELSE Append(@, Head(inbox[r]).event)]
        /\ UNCHANGED <<pc, via, ended>>
    BY <1>6 DEF TakeMessage
  <2>2. inbox[r][1].status = "none" BY <1>2, <1>6 DEF IsTerminal
  <2>3. \A f \in Requests : f # r => out'[f] = out[f] BY <1>1, <2>1
  <2>4. CASE Duplicate(r, inbox[r][1])
    <3>1. out'[r] = out[r] BY <1>1, <1>2, <2>1, <2>4
    <3> QED BY <1>3, <1>4, <2>1, <2>2, <2>3, <2>4, <3>1
  <2>5. CASE ~Duplicate(r, inbox[r][1])
    <3>1. out'[r] = Append(out[r], inbox[r][1].event) BY <1>1, <1>2, <2>1, <2>5
    <3>2. inbox[r][1].event \in Event BY <1>2, MessageTypes
    <3>3. /\ Len(out'[r]) = Len(out[r]) + 1 /\ out'[r][Len(out[r]) + 1] = inbox[r][1].event
          /\ \A p \in Q(r) : out'[r][p] = out[r][p]
      BY <1>1, <3>1, <3>2, AppendProperties DEF Q
    <3> QED BY <1>3, <1>4, <2>1, <2>2, <2>3, <2>5, <3>3
  <2> QED BY <2>4, <2>5
<1> QED BY <1>5, <1>6

(* An event it does not recognize is one it has not emitted. *)
LEMMA OnceTake ==
    ASSUME TypeOK, Once, NEW r \in Requests, TakeMessage(r)
    PROVE  Once'
<1>1. /\ 1 \in 1..Len(inbox[r]) /\ UNCHANGED <<chunks, wire, made, watermark>>
      /\ \A f \in Requests : f # r => inbox'[f] = inbox[f] /\ out'[f] = out[f]
      /\ \A n \in 1..Len(inbox'[r]) :
            n + 1 \in 1..Len(inbox[r]) /\ n + 1 # 1 /\ inbox'[r][n] = inbox[r][n + 1]
      /\ \/ out'[r] = out[r]
         \/ /\ inbox[r][1].status = "none" /\ ~Duplicate(r, inbox[r][1])
            /\ Len(out'[r]) = Len(out[r]) + 1 /\ out'[r][Len(out[r]) + 1] = inbox[r][1].event
            /\ \A p \in Q(r) : out'[r][p] = out[r][p]
  BY TakeEffect
<1>2. C' = C /\ P' = P /\ Len(out[r]) \in Nat BY <1>1, EventTypes DEF C, P, W
<1>3. Distinct' BY <1>1, <1>2 DEF Once, Distinct, Ev, Made
<1>4. \A f \in Requests : f # r => Box(f)' = Box(f) /\ Q(f)' = Q(f) BY <1>1 DEF Box, Q
<1>5. ASSUME NEW f \in Requests, f # r PROVE BoxOnce(f)' /\ OutOnce(f)'
  <2>1. BoxOnce(f) /\ OutOnce(f) BY DEF Once
  <2>2. inbox'[f] = inbox[f] /\ out'[f] = out[f] /\ Box(f)' = Box(f) /\ Q(f)' = Q(f)
    BY <1>1, <1>4, <1>5
  <2>3. BoxOnce(f)' BY <1>1, <1>2, <2>1, <2>2 DEF BoxOnce, Ev, Made
  <2>4. OutOnce(f)' BY <1>1, <1>2, <2>1, <2>2 DEF OutOnce, Ev, Made, Duplicate
  <2> QED BY <2>3, <2>4
<1>6. BoxOnce(r) /\ OutOnce(r) BY DEF Once
<1>7. \A n \in Box(r)' : n \in Nat /\ n + 1 \in Box(r) /\ n + 1 # 1 /\ inbox'[r][n] = inbox[r][n + 1]
  BY <1>1 DEF Box
<1>8. BoxOnce(r)'
  <2>1. ASSUME NEW n \in Box(r)', NEW m \in Box(r)', inbox'[r][n].event = inbox'[r][m].event
        PROVE  n = m
    <3>1. n + 1 = m + 1 BY <1>6, <1>7, <2>1 DEF BoxOnce
    <3> QED BY <1>7, <3>1
  <2>2. ASSUME NEW n \in Box(r)' PROVE inbox'[r][n].event[2] \in 1..made'[inbox'[r][n].event[1]]
    BY <1>1, <1>6, <1>7 DEF BoxOnce, Made
  <2>3. ASSUME NEW n \in Box(r)', NEW i \in C PROVE inbox'[r][n].event # wire[i].msg.event
    BY <1>6, <1>7 DEF BoxOnce, Ev
  <2>4. ASSUME NEW n \in Box(r)', NEW p \in P, chunks[p] = inbox'[r][n].event
        PROVE  inbox'[r][n].seq = p - 1
    BY <1>6, <1>7, <2>4 DEF BoxOnce
  <2> QED BY <1>1, <1>2, <2>1, <2>2, <2>3, <2>4 DEF BoxOnce, Ev, Made
<1>9. OutOnce(r)'
  <2>1. CASE out'[r] = out[r]
    <3>1. Q(r)' = Q(r) BY <2>1 DEF Q
    <3> QED BY <1>1, <1>2, <1>6, <1>7, <2>1, <3>1 DEF OutOnce, Ev, Made, Duplicate
  <2>2. CASE /\ inbox[r][1].status = "none" /\ ~Duplicate(r, inbox[r][1])
             /\ Len(out'[r]) = Len(out[r]) + 1 /\ out'[r][Len(out[r]) + 1] = inbox[r][1].event
             /\ \A p \in Q(r) : out'[r][p] = out[r][p]
    <3>1. 1 \in Box(r) BY <1>1, <2>2 DEF Box
    <3>2. \A p \in Q(r)' : \/ p \in Q(r) /\ out'[r][p] = out[r][p]
                           \/ p = Len(out[r]) + 1 /\ p \notin Q(r) /\ out'[r][p] = inbox[r][1].event
      BY <1>2, <2>2 DEF Q
    <3>3. \A p \in Q(r) : out[r][p] # inbox[r][1].event BY <1>6, <2>2, <3>1 DEF OutOnce
    <3>4. ASSUME NEW p \in Q(r)', NEW q \in Q(r)', out'[r][p] = out'[r][q] PROVE p = q
      BY <1>6, <3>2, <3>3, <3>4 DEF OutOnce
    <3>5. ASSUME NEW p \in Q(r)' PROVE out'[r][p][2] \in 1..made'[out'[r][p][1]]
      BY <1>1, <1>6, <3>1, <3>2 DEF OutOnce, BoxOnce, Made
    <3>6. ASSUME NEW p \in Q(r)', NEW i \in C, out'[r][p] = Ev(i) PROVE Duplicate(r, wire[i].msg)
      BY <1>6, <3>1, <3>2, <3>6 DEF OutOnce, BoxOnce
    <3>7. ASSUME NEW p \in Q(r)', NEW n \in Box(r)', out'[r][p] = inbox'[r][n].event
          PROVE  Duplicate(r, inbox'[r][n])
      <4>1. n + 1 \in Box(r) /\ n + 1 # 1 /\ inbox'[r][n] = inbox[r][n + 1] BY <1>7
      <4>2. inbox[r][n + 1].event # inbox[r][1].event BY <1>6, <3>1, <4>1 DEF BoxOnce
      <4> QED BY <1>6, <3>2, <3>7, <4>1, <4>2 DEF OutOnce
    <3>8. \A m : Duplicate(r, m) => m.seq # NoSeq /\ m.seq <= watermark'[r] BY <1>1 DEF Duplicate
    <3> QED BY <1>1, <1>2, <3>4, <3>5, <3>6, <3>7, <3>8 DEF OutOnce, Ev, Made, Duplicate
  <2> QED BY <1>1, <2>1, <2>2
<1> QED BY <1>3, <1>5, <1>8, <1>9 DEF Once

(* No step makes a follower emit an event twice. *)
LEMMA OnceStep ==
    ASSUME TypeOK, Wired, Once, [Next]_vars
    PROVE  Once'
<1>1. wire # <<>> => 1 \in W BY Oldest
<1>2. wire # <<>> /\ wire[1].op \in EventOps => 1 \in C BY <1>1 DEF C
<1>3. UNCHANGED inbox => \A r \in Requests : \A n \in Box(r)' : n \in Box(r) /\ inbox'[r][n] = inbox[r][n]
  BY DEF Box
<1>4. CASE ExpireFirst
  <2>1. /\ wire # <<>> /\ wire[1].op = "expireFirst" /\ UNCHANGED <<chunks, made, inbox, watermark, out>>
        /\ \E c \in Commands : Replaced(c) /\ c.msg = wire[1].msg
    BY <1>4, ExpireFirstEffect
  <2>2. 1 \in C BY <1>2, <2>1 DEF EventOps
  <2> QED BY <1>3, <2>1, <2>2, OnceQuiet
<1>5. CASE SetResult \/ ExpireChunks \/ SetBody
  <2>1. /\ UNCHANGED <<chunks, made, inbox, watermark, out>>
        /\ \E c \in Commands : Replaced(c) /\ c.op \notin EventOps
    BY <1>5, EndEffect DEF EventOps
  <2> QED BY <1>3, <2>1, OnceQuiet
<1>6. CASE Lock \/ Get
  <2>1. Popped /\ UNCHANGED <<chunks, made, inbox, watermark, out>> BY <1>6, LockEffect, GetEffect
  <2> QED BY <1>3, <2>1, OnceQuiet
<1>7. CASE CommandFails
  <2>1. /\ wire # <<>> /\ UNCHANGED <<chunks, made, inbox, watermark, out>>
        /\ \/ Popped
           \/ \E c \in Commands : Replaced(c) /\ c.op \notin EventOps
           \/ \E c \in Commands : Replaced(c) /\ wire[1].op \in EventOps /\ c.msg = wire[1].msg
    BY <1>7, FailsEffect DEF EventOps
  <2> QED BY <1>2, <1>3, <2>1, OnceQuiet
<1>8. CASE Crash
  <2>1. wire' = <<>> /\ UNCHANGED <<chunks, made, watermark, out>> /\ \A r \in Requests : inbox'[r] = <<>>
    BY <1>8 DEF Crash, data, lock
  <2>2. \A r \in Requests : \A n \in Box(r)' : n \in Box(r) /\ inbox'[r][n] = inbox[r][n]
    BY <2>1 DEF Box
  <2> QED BY <2>1, <2>2, OnceQuiet
<1>9. CASE Tick \/ UNCHANGED vars
  <2>1. wire' = wire /\ UNCHANGED <<made, inbox, watermark, out>> /\ (chunks' = chunks \/ chunks' = <<>>)
    BY <1>9 DEF Tick, vars, data, follower, lock
  <2> QED BY <1>3, <2>1, OnceQuiet
<1>10. ASSUME NEW r \in Requests, Arrive(r) \/ Generate(r) \/ Follow(r) \/ Timeout(r) PROVE Once'
  <2>1. CASE Arrive(r) \/ Replay(r)
    <3>1. /\ UNCHANGED <<chunks, made, inbox, watermark, out>>
          /\ \E c \in Commands : Added(c) /\ c.op \notin EventOps
      BY <2>1, QueryEffect DEF EventOps
    <3> QED BY <1>3, <3>1, OnceQuiet
  <2>2. CASE Answer(r) \/ \E status \in Statuses : StreamEnds(r, status)
    <3>1. /\ UNCHANGED <<chunks, made, inbox, watermark, out>>
          /\ \E c \in Commands : Added(c) /\ c.op \notin EventOps
      BY <2>2, EndsEffect DEF EventOps
    <3> QED BY <1>3, <3>1, OnceQuiet
  <2>3. CASE LeaderThrows(r) \/ Subscribe(r) \/ Timeout(r)
    <3>1. wire' = wire /\ UNCHANGED <<chunks, made, inbox, watermark, out>>
      BY <2>3 DEF LeaderThrows, Subscribe, Timeout, data, follower, lock
    <3> QED BY <1>3, <3>1, OnceQuiet
  <2> QED BY <1>10, <2>1, <2>2, <2>3, OnceProduce, OnceTake DEF Generate, Follow
<1> QED BY <1>4, <1>5, <1>6, <1>7, <1>8, <1>9, <1>10, OnceRpush, OncePublish, OnceLrange DEF Next, Execute

(* No behaviour ever does. *)
LEMMA OnceInvariant == Spec => []Once
<1>1. Init => Once
  <2> SUFFICES ASSUME Init PROVE Once OBVIOUS
  <2>1. C = {} /\ P = {} BY DEF Init, C, P, W
  <2>2. \A r \in Requests : Box(r) = {} /\ Q(r) = {} BY DEF Init, Box, Q
  <2> QED BY <2>1, <2>2 DEF Once, Distinct, BoxOnce, OutOnce
<1>2. Base /\ Once /\ [Next]_vars => Once' BY OnceStep DEF Base
<1> QED BY <1>1, <1>2, BaseInvariant, PTL DEF Spec

(* CR-02: whatever fails, and whenever a follower replays the list and reads   *)
(* its channel, it emits no event twice: an event it may still receive after   *)
(* emitting it carries its number in the list, at most the watermark.          *)
THEOREM NothingTwice == Spec => []NoEventTwice
<1>1. Base /\ Once => NoEventTwice
  <2> SUFFICES ASSUME Base, Once, NEW r \in Requests PROVE IsInjective(out[r]) BY DEF NoEventTwice
  <2>1. out[r] \in Seq(Event) BY Typed DEF Base
  <2>2. \A p, q \in Q(r) : out[r][p] = out[r][q] => p = q BY DEF Once, OutOnce
  <2>3. DOMAIN out[r] = Q(r) BY <2>1 DEF Q
  <2> QED BY <2>2, <2>3 DEF IsInjective
<1> QED BY <1>1, OnceInvariant, BaseInvariant, PTL

-----------------------------------------------------------------------------
(* An undisturbed generation, in order *)

Calm == Undisturbed /\ streaming

R == {i \in W : wire[i].op = "rpush"}
Pub == {i \in W : wire[i].op = "publish"}
EndsOn == {i \in W : wire[i].op \in EndOps}
Carried(e) == \E i \in C : Ev(i) = e
InList(e) == \E p \in P : chunks[p] = e
InBox(r, e) == \E n \in Box(r) : inbox[r][n].event = e
Emitted(r, e) == \E p \in Q(r) : out[r][p] = e

(* A terminal message tells of a request that is over, as it ended.            *)
Over(m) ==
    /\ pc[m.event[1]] = "ended"
    /\ m.status = "done" /\ streaming => made[m.event[1]] = Events
Marked ==
    /\ \A i \in EndsOn : Over(wire[i].msg)
    /\ \A r \in Requests : \A n \in 1..Len(inbox[r]) :
         inbox[r][n].status # "none" => Over(inbox[r][n])

(* The generation goes on, or its last commands are on the wire.               *)
Live(l) == pc[l] = "leading" \/ \E i \in C \cup EndsOn : Ev(i)[1] = l

(* RPUSH puts the events in the list in order, and the list outlives the lock. *)
Pushing ==
    /\ \A p \in P : chunks[p][2] = p
    /\ \A i \in R : Ev(i)[2] > Len(chunks)
    /\ \A i, j \in R : i < j => Ev(i)[2] < Ev(j)[2]
    /\ \A l \in Requests : Live(l) =>
         \A k \in (Len(chunks) + 1)..made[l] : \E i \in R : Ev(i) = <<l, k>>
    /\ \A l \in Requests : pc[l] = "leading" /\ made[l] > 0 /\ chunks # <<>> =>
         Expiring \/ chunksTTL >= lockTTL

(* Of two events only the first one may come second.                           *)
Before(x, y) == x[2] < y[2] \/ y[2] = 1
Publishing ==
    /\ \A i \in C : wire[i].op # "rpush" => wire[i].msg.seq = Ev(i)[2] - 1 /\ Ev(i)[2] <= Len(chunks)
    /\ \A i \in C : wire[i].op = "expireFirst" => Ev(i)[2] = 1
    /\ \A i, j \in Pub : i < j => Before(Ev(i), Ev(j))

(* The hops a command has left: the end of a generation has as many as its     *)
(* last event, and comes after it.                                             *)
Hops(c) ==
    CASE c.op \in {"rpush", "setResult"} -> 3
      [] c.op \in {"expireFirst", "expireChunks", "setBody"} -> 2
      [] OTHER -> 1
EndsLast ==
    \A i \in C, j \in EndsOn :
        Hops(wire[i]) < Hops(wire[j]) \/ (Hops(wire[i]) = Hops(wire[j]) /\ i < j)

(* What a subscription has received, in order and before what comes.           *)
BoxOrder(r) ==
    /\ \A n \in Box(r) : inbox[r][n].seq = inbox[r][n].event[2] - 1
    /\ \A n, m \in Box(r) : n < m => Before(inbox[r][n].event, inbox[r][m].event)
    /\ \A n \in Box(r), i \in C : Before(inbox[r][n].event, Ev(i))

(* What a follower has emitted, in order and before what it will not drop.     *)
OutOrder(r) ==
    /\ \A p, q \in Q(r) : p < q => Before(out[r][p], out[r][q])
    /\ \A p \in Q(r), n \in Box(r) : Before(out[r][p], inbox[r][n].event) \/ Duplicate(r, inbox[r][n])
    /\ \A p \in Q(r), i \in C : Before(out[r][p], Ev(i)) \/ Duplicate(r, wire[i].msg)

(* What a follower replayed is the list, up to its watermark.                  *)
Replayed(r) ==
    /\ pc[r] = "getting" \/ via[r] = "result" => \A p \in Q(r) : out[r][p][2] = p
    /\ pc[r] \in {"getting", "waiting"} =>
         watermark[r] + 1 <= Len(out[r]) /\ \A p \in 1..(watermark[r] + 1) : out[r][p][2] = p

(* Every event of a generation reaches the followers, before its end does.     *)
Reaches(r) ==
    pc[r] \in {"getting", "waiting"} =>
        \A l \in Requests : Live(l) => \A k \in 1..made[l] :
            Carried(<<l, k>>) \/ InBox(r, <<l, k>>) \/ Emitted(r, <<l, k>>)
Has(r, e) == IF pc[r] \in {"subscribed", "replaying"} THEN InList(e) ELSE Emitted(r, e)
ReachesEnd(r) ==
    Subscribed(r) => \A n \in 1..Len(inbox[r]) : inbox[r][n].status # "none" =>
        \A k \in 1..made[inbox[r][n].event[1]] :
            \/ \E m \in Box(r) : m < n /\ inbox[r][m].event = <<inbox[r][n].event[1], k>>
            \/ Has(r, <<inbox[r][n].event[1], k>>)
Finished(r) ==
    ended[r] = "done" /\ via[r] = "channel" =>
        \E l \in Requests : made[l] = Events /\ \A k \in 1..Events : Emitted(r, <<l, k>>)

Follows(r) == BoxOrder(r) /\ OutOrder(r) /\ Replayed(r) /\ Reaches(r) /\ ReachesEnd(r) /\ Finished(r)

InStep == Calm => Pushing /\ Publishing /\ EndsLast /\ \A r \in Requests : Follows(r)

(* What every step keeps. *)
LEMMA StepKeeps ==
    ASSUME TypeOK, Wired, [Next]_vars
    PROVE  /\ streaming' = streaming
           /\ \A x \in Requests : pc[x] = "ended" => pc'[x] = "ended" /\ made'[x] = made[x]
           /\ \A x \in Requests : made[x] \in Nat /\ made'[x] \in Nat /\ made[x] <= made'[x]
<1>1. /\ pc \in [Requests -> Stations] /\ made \in [Requests -> 0..Events] /\ Events \in Nat
      /\ \A x \in Requests : made[x] \in Nat
  BY Typed, MuxAssumption
<1>2. wire # <<>> => 1 \in W /\ wire[1].by \in Requests /\ Says(wire[1])
  BY Oldest, Typed DEF Wired
<1>3. wire # <<>> /\ wire[1].op \in Queries => pc[wire[1].by] # "ended"
  BY <1>2 DEF Says, Queries
<1>4. CASE Execute \/ CommandFails
  <2>1. /\ UNCHANGED <<streaming, made>>
        /\ \/ pc' = pc
           \/ /\ wire # <<>> /\ wire[1].op \in Queries
              /\ \E where \in Stations : pc' = [pc EXCEPT ![wire[1].by] = where]
    <3>1. CASE Rpush \/ ExpireFirst \/ Publish \/ SetResult \/ ExpireChunks \/ SetBody
      BY <3>1, RpushEffect, ExpireFirstEffect, PublishEffect, EndEffect
    <3>2. CASE Lock BY <3>2, LockEffect DEF Queries, Stations
    <3>3. CASE Lrange BY <3>3, LrangeEffect DEF Queries, Stations
    <3>4. CASE Get BY <3>4, GetEffect DEF Queries, Stations
    <3>5. CASE CommandFails BY <3>5, FailsEffect DEF Queries, Stations
    <3> QED BY <1>4, <3>1, <3>2, <3>3, <3>4, <3>5 DEF Execute
  <2>2. \A x \in Requests : pc[x] = "ended" => pc'[x] = "ended" BY <1>1, <1>2, <1>3, <2>1
  <2> QED BY <1>1, <2>1, <2>2
<1>5. CASE Crash \/ Tick \/ UNCHANGED vars
  <2>1. UNCHANGED <<streaming, made>> BY <1>5 DEF Crash, Tick, vars
  <2>2. \A x \in Requests : pc[x] = "ended" => pc'[x] = "ended" BY <1>1, <1>5 DEF Crash, Tick, vars
  <2> QED BY <1>1, <2>1, <2>2
<1>6. ASSUME NEW r \in Requests, Arrive(r) \/ Generate(r) \/ Follow(r) \/ Timeout(r)
      PROVE  /\ streaming' = streaming
             /\ \A x \in Requests : pc[x] = "ended" => pc'[x] = "ended" /\ made'[x] = made[x]
             /\ \A x \in Requests : made[x] \in Nat /\ made'[x] \in Nat /\ made[x] <= made'[x]
  <2>1. CASE Produce(r)
    <3>1. /\ pc[r] = "leading" /\ UNCHANGED <<streaming, pc>> /\ made' = [made EXCEPT ![r] = made[r] + 1]
      BY <2>1, ProduceEffect
    <3>2. made'[r] = made[r] + 1 /\ \A x \in Requests : x # r => made'[x] = made[x] BY <1>1, <3>1
    <3> QED BY <1>1, <3>1, <3>2
  <2>2. CASE Arrive(r) \/ Answer(r) \/ LeaderThrows(r) \/ (\E status \in Statuses : StreamEnds(r, status))
             \/ Follow(r) \/ Timeout(r)
    <3>1. UNCHANGED <<streaming, made>> /\ pc[r] # "ended" /\ \A x \in Requests : x # r => pc'[x] = pc[x]
      BY <1>1, <2>2 DEF Arrive, Answer, LeaderThrows, StreamEnds, Follow, Subscribe, Replay, TakeMessage,
                        Timeout, End, Goto
    <3> QED BY <1>1, <3>1
  <2> QED BY <1>6, <2>1, <2>2 DEF Generate
<1> QED BY <1>4, <1>5, <1>6 DEF Next

(* What has been disturbed stays so. *)
LEMMA StillUndisturbed ==
    ASSUME TypeOK, Wired, [Next]_vars, Undisturbed'
    PROVE  Undisturbed /\ faults' = {} /\ ~CommandFails /\ ~Crash
<1>1. faults' = {} BY DEF Undisturbed
<1>2. ~CommandFails /\ ~Crash BY <1>1 DEF CommandFails, Crash
<1>3. faults = {}
  <2>1. faults \subseteq faults'
    BY <1>2 DEF Next, Execute, Lock, Rpush, ExpireFirst, Publish, SetResult, ExpireChunks, SetBody,
                Lrange, Get, Arrive, Generate, Produce, Answer, LeaderThrows, StreamEnds, Follow,
                Subscribe, Replay, TakeMessage, Timeout, Tick, vars
  <2> QED BY <1>1, <2>1
<1>4. DEFINE S == {r \in Requests : made[r] > 0}
             T == {r \in Requests : made'[r] > 0}
<1>5. S \subseteq T BY StepKeeps
<1>6. IsFiniteSet(T) BY MuxAssumption, FS_Subset
<1>7. Cardinality(T) <= 1 BY DEF Undisturbed
<1> HIDE DEF S, T
<1>8. IsFiniteSet(S) /\ Cardinality(S) <= Cardinality(T) BY <1>5, <1>6, FS_Subset
<1>9. Cardinality(S) \in Nat /\ Cardinality(T) \in Nat BY <1>6, <1>8, FS_CardinalityType
<1>10. Cardinality(S) <= 1 BY <1>7, <1>8, <1>9
<1> QED BY <1>1, <1>2, <1>3, <1>10 DEF Undisturbed, S

(* Undisturbed, all events are of one request. *)
LEMMA OneMaker ==
    ASSUME NEW f, Cardinality({x \in Requests : f[x] > 0}) <= 1,
           NEW r \in Requests, NEW s \in Requests, f[r] > 0, f[s] > 0
    PROVE  r = s
<1>1. SUFFICES ASSUME r # s PROVE FALSE OBVIOUS
<1>2. DEFINE S == {x \in Requests : f[x] > 0}
<1>3. IsFiniteSet(S) BY MuxAssumption, FS_Subset
<1>4. {r, s} \subseteq S OBVIOUS
<1>5. Cardinality(S) <= 1 OBVIOUS
<1> HIDE DEF S
<1>6. Cardinality({r}) = 1 /\ IsFiniteSet({r}) BY FS_Singleton
<1>7. Cardinality({r} \cup {s}) = 2 BY <1>1, <1>6, FS_AddElement
<1>8. {r} \cup {s} = {r, s} OBVIOUS
<1>9. Cardinality({r, s}) <= Cardinality(S) BY <1>3, <1>4, FS_Subset
<1>10. Cardinality(S) \in Nat BY <1>3, FS_CardinalityType
<1> QED BY <1>5, <1>7, <1>8, <1>9, <1>10

(* The events an undisturbed generation has made are told apart by number.     *)
LEMMA SameMaker ==
    ASSUME TypeOK, Undisturbed, NEW e \in Event, Made(e)
    PROVE  /\ e[1] \in Requests /\ e[2] \in Nat /\ 1 <= e[2] /\ e[2] <= made[e[1]] /\ made[e[1]] > 0
           /\ e = <<e[1], e[2]>>
           /\ \A l \in Requests : made[l] > 0 => e[1] = l
           /\ \A f \in Event : Made(f) => e[1] = f[1] /\ (e[2] = f[2] => e = f)
<1>1. \A x \in Requests : made[x] \in Nat BY Typed, MuxAssumption
<1>2. \A f \in Event : Made(f) =>
        /\ f[1] \in Requests /\ f[2] \in Nat /\ 1 <= f[2] /\ f[2] <= made[f[1]] /\ made[f[1]] > 0
        /\ f = <<f[1], f[2]>>
  BY <1>1, MuxAssumption DEF Event, Made
<1>3. \A l \in Requests : made[l] > 0 => e[1] = l BY <1>2, OneMaker DEF Undisturbed
<1> QED BY <1>2, <1>3

(* Terminal messages tell the truth from the end of the generation on. *)
LEMMA MarkedStep ==
    ASSUME TypeOK, Wired, Marked, [Next]_vars
    PROVE  Marked'
<1>1. \A m \in Messages : Over(m) => Over(m)'
  <2> SUFFICES ASSUME NEW m \in Messages, Over(m) PROVE Over(m)' OBVIOUS
  <2>1. m.event[1] \in Requests BY MessageTypes
  <2> QED BY <2>1, StepKeeps DEF Over
<1>2. wire # <<>> => 1 \in W /\ wire[1].msg \in Messages /\ Says(wire[1]) BY Oldest, Typed DEF Wired
<1>3. \A i \in W : wire[i].msg \in Messages BY Typed
<1>4. Len(wire) \in Nat BY Typed
<1>5. \A r \in Requests : \A n \in 1..Len(inbox[r]) : inbox[r][n] \in Messages BY EventTypes
<1>6. ASSUME \A i \in W' : wire'[i].op \in EndOps =>
                \/ \E j \in EndsOn : wire'[i].msg = wire[j].msg
                \/ \E m \in Messages : wire'[i].msg = m /\ Over(m)',
             \A r \in Requests : \A n \in 1..Len(inbox'[r]) : inbox'[r][n].status # "none" =>
                \/ \E k \in 1..Len(inbox[r]) : inbox'[r][n] = inbox[r][k]
                \/ \E j \in EndsOn : inbox'[r][n] = wire[j].msg
      PROVE  Marked'
  <2>1. \A j \in EndsOn : Over(wire[j].msg) /\ wire[j].msg \in Messages BY <1>3 DEF Marked, EndsOn
  <2>2. ASSUME NEW i \in EndsOn' PROVE \E m \in Messages : wire'[i].msg = m /\ Over(m)'
    <3>1. i \in W' /\ wire'[i].op \in EndOps BY <2>2 DEF EndsOn
    <3>2. CASE \E j \in EndsOn : wire'[i].msg = wire[j].msg
      <4>1. PICK j \in EndsOn : wire'[i].msg = wire[j].msg BY <3>2
      <4>2. PICK m \in Messages : m = wire[j].msg BY <2>1
      <4>3. Over(m)' BY <1>1, <2>1, <4>2
      <4> QED BY <4>1, <4>2, <4>3
    <3> QED BY <1>6, <3>1, <3>2
  <2>3. ASSUME NEW r \in Requests, NEW n \in 1..Len(inbox'[r]), inbox'[r][n].status # "none"
        PROVE  \E m \in Messages : inbox'[r][n] = m /\ Over(m)'
    <3>1. CASE \E k \in 1..Len(inbox[r]) : inbox'[r][n] = inbox[r][k]
      <4>1. PICK k \in 1..Len(inbox[r]) : inbox'[r][n] = inbox[r][k] BY <3>1
      <4>2. PICK m \in Messages : m = inbox[r][k] BY <1>5
      <4>3. Over(m) BY <2>3, <4>1, <4>2 DEF Marked
      <4> QED BY <1>1, <4>1, <4>2, <4>3
    <3>2. CASE \E j \in EndsOn : inbox'[r][n] = wire[j].msg
      <4>1. PICK j \in EndsOn : inbox'[r][n] = wire[j].msg BY <3>2
      <4>2. PICK m \in Messages : m = wire[j].msg BY <2>1
      <4>3. Over(m)' BY <1>1, <2>1, <4>2
      <4> QED BY <4>1, <4>2, <4>3
    <3> QED BY <1>6, <2>3, <3>1, <3>2
  <2> QED BY <2>2, <2>3 DEF Marked, Over
<1>7. UNCHANGED inbox => \A r \in Requests : \A n \in 1..Len(inbox'[r]) : inbox'[r][n].status # "none" =>
                            \E k \in 1..Len(inbox[r]) : inbox'[r][n] = inbox[r][k]
  OBVIOUS
<1>8. Popped => \A i \in W' : wire'[i].op \in EndOps => \E j \in EndsOn : wire'[i].msg = wire[j].msg
  <2>1. Popped => \A i \in W' : i + 1 \in W /\ wire'[i] = wire[i + 1] BY WirePlaces
  <2> QED BY <2>1 DEF EndsOn
<1>9. \A c : Replaced(c) /\ c.op \notin EndOps =>
        \A i \in W' : wire'[i].op \in EndOps => \E j \in EndsOn : wire'[i].msg = wire[j].msg
  <2>1. \A c : Replaced(c) =>
          \A i \in W' : (i + 1 \in W /\ wire'[i] = wire[i + 1]) \/ (i = Len(wire) /\ wire'[i] = c)
    BY WirePlaces
  <2> QED BY <2>1 DEF EndsOn
<1>10. \A c : Replaced(c) /\ wire # <<>> /\ wire[1].op \in EndOps /\ c.msg = wire[1].msg =>
        \A i \in W' : wire'[i].op \in EndOps => \E j \in EndsOn : wire'[i].msg = wire[j].msg
  <2>1. \A c : Replaced(c) =>
          \A i \in W' : (i + 1 \in W /\ wire'[i] = wire[i + 1]) \/ (i = Len(wire) /\ wire'[i] = c)
    BY WirePlaces
  <2> QED BY <1>2, <2>1 DEF EndsOn
<1>11. \A c : Added(c) => \A i \in W' : (i \in W /\ wire'[i] = wire[i]) \/ wire'[i] = c
  BY WirePlaces
<1>12. \A c : Added(c) /\ c.op \notin EndOps =>
        \A i \in W' : wire'[i].op \in EndOps => \E j \in EndsOn : wire'[i].msg = wire[j].msg
  BY <1>11 DEF EndsOn
<1>13. wire' = wire => \A i \in W' : wire'[i].op \in EndOps => \E j \in EndsOn : wire'[i].msg = wire[j].msg
  BY DEF EndsOn, W
<1>14. CASE Rpush \/ ExpireFirst \/ Lrange
  <2>1. UNCHANGED inbox /\ \E c : Replaced(c) /\ c.op \notin EndOps
    BY <1>14, RpushEffect, ExpireFirstEffect, LrangeEffect DEF EndOps
  <2> QED BY <1>6, <1>7, <1>9, <2>1
<1>15. CASE SetResult \/ ExpireChunks \/ SetBody
  <2>1. UNCHANGED inbox /\ wire # <<>> /\ wire[1].op \in EndOps /\ \E c : Replaced(c) /\ c.msg = wire[1].msg
    BY <1>15, EndEffect
  <2> QED BY <1>6, <1>7, <1>10, <2>1
<1>16. CASE Lock \/ Get
  <2>1. UNCHANGED inbox /\ Popped BY <1>16, LockEffect, GetEffect
  <2> QED BY <1>6, <1>7, <1>8, <2>1
<1>17. CASE Publish
  <2>1. /\ Popped /\ wire # <<>> /\ wire[1].op \in {"publish", "publishEnd"}
        /\ \A f \in Requests :
              inbox'[f] = IF Subscribed(f) THEN Append(inbox[f], wire[1].msg) ELSE inbox[f]
    BY <1>17, PublishEffect
  <2>2. ASSUME NEW r \in Requests, NEW n \in 1..Len(inbox'[r]), inbox'[r][n].status # "none"
        PROVE  \/ \E k \in 1..Len(inbox[r]) : inbox'[r][n] = inbox[r][k]
               \/ \E j \in EndsOn : inbox'[r][n] = wire[j].msg
    <3>1. inbox[r] \in Seq(Messages) /\ Len(inbox[r]) \in Nat BY Typed
    <3>2. CASE inbox'[r] = inbox[r] BY <2>2, <3>2
    <3>3. CASE inbox'[r] = Append(inbox[r], wire[1].msg)
      <4>1. /\ Len(inbox'[r]) = Len(inbox[r]) + 1 /\ inbox'[r][Len(inbox[r]) + 1] = wire[1].msg
            /\ \A k \in 1..Len(inbox[r]) : inbox'[r][k] = inbox[r][k]
        BY <1>2, <2>1, <3>1, <3>3, AppendProperties
      <4>2. n \in 1..Len(inbox[r]) \/ inbox'[r][n] = wire[1].msg BY <2>2, <3>1, <4>1
      <4>3. inbox'[r][n] = wire[1].msg => 1 \in EndsOn
        BY <1>2, <2>1, <2>2 DEF EndsOn, EndOps, Says, EventOps
      <4> QED BY <4>1, <4>2, <4>3
    <3> QED BY <2>1, <3>2, <3>3
  <2> QED BY <1>6, <1>8, <2>1, <2>2
<1>18. CASE CommandFails
  <2>1. /\ wire # <<>> /\ UNCHANGED inbox
        /\ \/ Popped
           \/ \E c : Replaced(c) /\ c.op \notin EndOps
           \/ \E c : Replaced(c) /\ wire[1].op \in EndOps /\ c.msg = wire[1].msg
    BY <1>18, FailsEffect DEF EndOps
  <2> QED BY <1>6, <1>7, <1>8, <1>9, <1>10, <2>1
<1>19. CASE Crash
  <2>1. wire' = <<>> /\ \A r \in Requests : inbox'[r] = <<>> BY <1>19 DEF Crash
  <2>2. W' = {} /\ \A r \in Requests : 1..Len(inbox'[r]) = {} BY <2>1 DEF W
  <2> QED BY <1>6, <2>2
<1>20. CASE Tick \/ UNCHANGED vars
  <2>1. wire' = wire /\ UNCHANGED inbox BY <1>20 DEF Tick, vars, follower
  <2> QED BY <1>6, <1>7, <1>13, <2>1
<1>21. ASSUME NEW r \in Requests, Arrive(r) \/ Generate(r) \/ Follow(r) \/ Timeout(r) PROVE Marked'
  <2>1. CASE Arrive(r) \/ Replay(r) \/ Produce(r)
    <3>1. UNCHANGED inbox /\ \E c : Added(c) /\ c.op \notin EndOps
      BY <2>1, QueryEffect, ProduceEffect DEF EndOps
    <3> QED BY <1>6, <1>7, <1>12, <3>1
  <2>2. CASE Answer(r) \/ \E status \in Statuses : StreamEnds(r, status)
    <3>1. UNCHANGED <<inbox, streaming, made>> /\ pc' = [pc EXCEPT ![r] = "ended"]
      BY <2>2, EndsEffect
    <3>2. PICK c \in Commands :
             /\ Added(c) /\ c.msg.event = <<r, 0>>
             /\ c.msg.status = "done" /\ streaming => made[r] = Events
      BY <2>2, EndsEffect
    <3>3. pc'[r] = "ended" BY <3>1, Typed
    <3>4. c.msg \in Messages BY DEF Commands
    <3>5. Over(c.msg)' BY <3>1, <3>2, <3>3 DEF Over
    <3>6. \A i \in W' : wire'[i].op \in EndOps =>
             \/ \E j \in EndsOn : wire'[i].msg = wire[j].msg
             \/ \E m \in Messages : wire'[i].msg = m /\ Over(m)'
      <4>1. \A i \in W' : (i \in W /\ wire'[i] = wire[i]) \/ wire'[i] = c BY <1>11, <3>2
      <4> QED BY <3>4, <3>5, <4>1 DEF EndsOn
    <3> QED BY <1>6, <1>7, <3>1, <3>6
  <2>3. CASE LeaderThrows(r) \/ Subscribe(r) \/ Timeout(r)
    <3>1. wire' = wire /\ UNCHANGED inbox BY <2>3 DEF LeaderThrows, Subscribe, Timeout, follower
    <3> QED BY <1>6, <1>7, <1>13, <3>1
  <2>4. CASE TakeMessage(r)
    <3>1. /\ wire' = wire /\ \A f \in Requests : f # r => inbox'[f] = inbox[f]
          /\ \A n \in 1..Len(inbox'[r]) : n + 1 \in 1..Len(inbox[r]) /\ inbox'[r][n] = inbox[r][n + 1]
      BY <2>4, TakeEffect
    <3>2. \A f \in Requests : \A n \in 1..Len(inbox'[f]) :
             \E k \in 1..Len(inbox[f]) : inbox'[f][n] = inbox[f][k]
      BY <3>1
    <3> QED BY <1>6, <1>13, <3>1, <3>2
  <2> QED BY <1>21, <2>1, <2>2, <2>3, <2>4 DEF Generate, Follow
<1> QED BY <1>14, <1>15, <1>16, <1>17, <1>18, <1>19, <1>20, <1>21 DEF Next, Execute

(* A generation that goes on went on before, or has made nothing yet.          *)
LEMMA LiveStep ==
    ASSUME TypeOK, Wired, Roles, [Next]_vars, ~CommandFails, ~Crash
    PROVE  \A l \in Requests : Live(l)' => Live(l) \/ made'[l] = 0
<1>1. pc \in [Requests -> Stations] /\ made \in [Requests -> 0..Events] /\ Events \in Nat
  BY Typed, MuxAssumption
<1>2. wire # <<>> => 1 \in W /\ wire[1].by \in Requests /\ Says(wire[1]) BY Oldest, Typed DEF Wired
<1>3. ASSUME \A l \in Requests : pc'[l] = "leading" => pc[l] = "leading" \/ made'[l] = 0,
             \A i \in W' : wire'[i].op \in EventOps \cup EndOps =>
                \/ \E j \in W : wire[j].op \in EventOps \cup EndOps /\ wire'[i].msg.event = Ev(j)
                \/ \E r \in Requests : pc[r] = "leading" /\ wire'[i].msg.event[1] = r
      PROVE  \A l \in Requests : Live(l)' => Live(l) \/ made'[l] = 0
  BY <1>3 DEF Live, C, EndsOn, Ev
<1>4. Popped => \A i \in W' : wire'[i].op \in EventOps \cup EndOps =>
        \E j \in W : wire[j].op \in EventOps \cup EndOps /\ wire'[i].msg.event = Ev(j)
  <2>1. Popped => \A i \in W' : i + 1 \in W /\ wire'[i] = wire[i + 1] BY WirePlaces
  <2> QED BY <2>1 DEF Ev
<1>5. \A c : Replaced(c) /\ wire # <<>>
             /\ (c.op \in EventOps \cup EndOps =>
                   wire[1].op \in EventOps \cup EndOps /\ c.msg.event = wire[1].msg.event) =>
        \A i \in W' : wire'[i].op \in EventOps \cup EndOps =>
          \E j \in W : wire[j].op \in EventOps \cup EndOps /\ wire'[i].msg.event = Ev(j)
  <2>1. \A c : Replaced(c) =>
          \A i \in W' : (i + 1 \in W /\ wire'[i] = wire[i + 1]) \/ (i = Len(wire) /\ wire'[i] = c)
    BY WirePlaces
  <2> QED BY <1>2, <2>1 DEF Ev
<1>6. \A c : Added(c) =>
        \A i \in W' : (i \in W /\ wire'[i] = wire[i]) \/ wire'[i] = c
  BY WirePlaces
<1>7. wire' = wire => \A i \in W' : wire'[i].op \in EventOps \cup EndOps =>
        \E j \in W : wire[j].op \in EventOps \cup EndOps /\ wire'[i].msg.event = Ev(j)
  BY DEF Ev, W
<1>8. UNCHANGED pc => \A l \in Requests : pc'[l] = "leading" => pc[l] = "leading" \/ made'[l] = 0
  OBVIOUS
<1>9. CASE Rpush \/ ExpireFirst \/ SetResult \/ ExpireChunks \/ SetBody
  <2>1. /\ UNCHANGED pc /\ wire # <<>> /\ wire[1].op \in EventOps \cup EndOps
        /\ \E c : Replaced(c) /\ c.msg.event = wire[1].msg.event
    BY <1>9, RpushEffect, ExpireFirstEffect, EndEffect DEF EventOps, EndOps
  <2> QED BY <1>3, <1>5, <1>8, <2>1
<1>10. CASE Publish
  <2>1. UNCHANGED pc /\ Popped BY <1>10, PublishEffect
  <2> QED BY <1>3, <1>4, <1>8, <2>1
<1>11. CASE Lock
  <2>1. /\ Popped /\ wire # <<>> /\ wire[1].op = "lock" /\ made' = made
        /\ \/ pc' = [pc EXCEPT ![wire[1].by] = "leading"]
           \/ pc' = [pc EXCEPT ![wire[1].by] = "following"]
    BY <1>11, LockEffect
  <2>2. ~(made[wire[1].by] > 0) BY <1>2, <2>1 DEF Says, Roles
  <2>3. \A l \in Requests : pc'[l] = "leading" => pc[l] = "leading" \/ made'[l] = 0
    BY <1>1, <1>2, <2>1, <2>2
  <2> QED BY <1>3, <1>4, <2>1, <2>3
<1>12. CASE Get
  <2>1. /\ Popped /\ wire # <<>>
        /\ pc' = [pc EXCEPT ![wire[1].by] = "ended"] \/ pc' = [pc EXCEPT ![wire[1].by] = "waiting"]
    BY <1>12, GetEffect
  <2>2. \A l \in Requests : pc'[l] = "leading" => pc[l] = "leading" BY <1>1, <1>2, <2>1
  <2> QED BY <1>3, <1>4, <2>1, <2>2
<1>13. CASE Lrange
  <2>1. /\ wire # <<>> /\ pc' = [pc EXCEPT ![wire[1].by] = "getting"]
        /\ \E c : Replaced(c) /\ c.op \notin EventOps \cup EndOps
    BY <1>13, LrangeEffect DEF EventOps, EndOps
  <2>2. \A l \in Requests : pc'[l] = "leading" => pc[l] = "leading" BY <1>1, <1>2, <2>1
  <2> QED BY <1>3, <1>5, <2>1, <2>2
<1>14. CASE Tick \/ UNCHANGED vars
  <2>1. UNCHANGED <<pc, wire>> BY <1>14 DEF Tick, vars
  <2> QED BY <1>3, <1>7, <1>8, <2>1
<1>15. ASSUME NEW r \in Requests, Arrive(r) \/ Generate(r) \/ Follow(r) \/ Timeout(r)
       PROVE  \A l \in Requests : Live(l)' => Live(l) \/ made'[l] = 0
  <2>1. CASE Arrive(r) \/ Replay(r)
    <3>1. \E c : Added(c) /\ c.op \notin EventOps \cup EndOps
      BY <2>1, QueryEffect DEF EventOps, EndOps
    <3>2. \E where \in Awaiting : pc' = [pc EXCEPT ![r] = where] BY <2>1, QueryEffect
    <3>3. \A l \in Requests : pc'[l] = "leading" => pc[l] = "leading" BY <1>1, <3>2 DEF Awaiting
    <3>4. \A i \in W' : wire'[i].op \in EventOps \cup EndOps =>
             \E j \in W : wire[j].op \in EventOps \cup EndOps /\ wire'[i].msg.event = Ev(j)
      BY <1>6, <3>1 DEF Ev
    <3> QED BY <1>3, <3>3, <3>4
  <2>2. CASE Produce(r) \/ Answer(r) \/ \E status \in Statuses : StreamEnds(r, status)
    <3>1. pc[r] = "leading" /\ (pc' = pc \/ pc' = [pc EXCEPT ![r] = "ended"])
      BY <2>2, ProduceEffect, EndsEffect
    <3>2. \E c : Added(c) /\ c.msg.event[1] = r
      <4>1. ASSUME Produce(r) PROVE \E c : Added(c) /\ c.msg.event[1] = r
        <5>1. PICK c \in Commands :
                 /\ Added(c) /\ c.op = "rpush" /\ c.by = r
                 /\ c.msg.event = <<r, made[r] + 1>> /\ c.msg.seq = NoSeq /\ c.msg.status = "none"
          BY <4>1, ProduceSends
        <5> QED BY <5>1
      <4>2. ASSUME Answer(r) \/ \E status \in Statuses : StreamEnds(r, status)
            PROVE  \E c : Added(c) /\ c.msg.event[1] = r
        <5>1. \E c \in Commands : Added(c) /\ c.msg.event = <<r, 0>> BY <4>2, EndsEffect
        <5> QED BY <5>1
      <4> QED BY <2>2, <4>1, <4>2
    <3>3. \A l \in Requests : pc'[l] = "leading" => pc[l] = "leading" BY <1>1, <3>1
    <3>4. \A i \in W' : wire'[i].op \in EventOps \cup EndOps =>
             \/ \E j \in W : wire[j].op \in EventOps \cup EndOps /\ wire'[i].msg.event = Ev(j)
             \/ pc[r] = "leading" /\ wire'[i].msg.event[1] = r
      BY <1>6, <3>1, <3>2 DEF Ev
    <3> QED BY <1>3, <3>3, <3>4
  <2>3. CASE LeaderThrows(r) \/ Subscribe(r) \/ Timeout(r) \/ TakeMessage(r)
    <3>1. wire' = wire BY <2>3 DEF LeaderThrows, Subscribe, Timeout, TakeMessage
    <3>2. \A l \in Requests : pc'[l] = "leading" => pc[l] = "leading"
      BY <1>1, <2>3 DEF LeaderThrows, Subscribe, Timeout, TakeMessage, End, Goto
    <3> QED BY <1>3, <1>7, <3>1, <3>2
  <2> QED BY <1>15, <2>1, <2>2, <2>3 DEF Generate, Follow
<1> QED BY <1>9, <1>10, <1>11, <1>12, <1>13, <1>14, <1>15 DEF Next, Execute

(* The commands of one kind stay on the wire, in order, in a step about others. *)
Shifted(K, d) ==
    /\ \A i \in W' : wire'[i].op = K => i + d \in W /\ wire'[i] = wire[i + d]
    /\ \A i \in W : wire[i].op = K => i - d \in W' /\ wire'[i - d] = wire[i]

(* A step that neither adds nor removes a command of kind K shifts them. *)
LEMMA KindStays ==
    ASSUME TypeOK, NEW K,
           \/ wire' = wire
           \/ Popped /\ wire # <<>> /\ wire[1].op # K
           \/ wire # <<>> /\ wire[1].op # K /\ \E c \in Commands : Replaced(c) /\ c.op # K
           \/ \E c \in Commands : Added(c) /\ c.op # K
    PROVE  \E d \in {0, 1} : Shifted(K, d)
<1>1. Len(wire) \in Nat BY Typed
<1>2. CASE wire' = wire
  <2>1. \A i \in W : i + 0 = i /\ i - 0 = i BY DEF W
  <2>2. Shifted(K, 0) BY <1>2, <2>1 DEF Shifted, W
  <2> QED BY <2>2
<1>3. CASE Popped /\ wire # <<>> /\ wire[1].op # K
  <2>1. \A i \in W' : i + 1 \in W /\ wire'[i] = wire[i + 1] BY <1>3, WirePlaces
  <2>2. \A i \in W : i # 1 => i - 1 \in W' /\ wire'[i - 1] = wire[i] BY <1>3, WireRemains
  <2>3. Shifted(K, 1) BY <1>3, <2>1, <2>2 DEF Shifted
  <2> QED BY <2>3
<1>4. ASSUME wire # <<>>, wire[1].op # K, NEW c \in Commands, Replaced(c), c.op # K
      PROVE  \E d \in {0, 1} : Shifted(K, d)
  <2>1. \A i \in W' : (i + 1 \in W /\ wire'[i] = wire[i + 1]) \/ (i = Len(wire) /\ wire'[i] = c)
    BY <1>4, WirePlaces
  <2>2. \A i \in W : i # 1 => i - 1 \in W' /\ wire'[i - 1] = wire[i] BY <1>4, WireRemains
  <2>3. Shifted(K, 1) BY <1>4, <2>1, <2>2 DEF Shifted
  <2> QED BY <2>3
<1>5. ASSUME NEW c \in Commands, Added(c), c.op # K
      PROVE  \E d \in {0, 1} : Shifted(K, d)
  <2>1. \A i \in W : i \in W' /\ wire'[i] = wire[i] BY <1>5, WirePlaces
  <2>2. \A i \in W' : i \in W \/ (i = Len(wire) + 1 /\ wire'[i] = c) BY <1>5, WirePlaces
  <2>3. \A i \in W : i + 0 = i /\ i - 0 = i BY DEF W
  <2>4. Shifted(K, 0) BY <1>5, <2>1, <2>2, <2>3 DEF Shifted
  <2> QED BY <2>4
<1> QED BY <1>2, <1>3, <1>4, <1>5

(* A step about other things leaves the list as ordered as it was. *)
LEMMA PushingKeep ==
    ASSUME TypeOK, Pushing, NEW d \in {0, 1}, Shifted("rpush", d), chunks' = chunks, made' = made,
           \A l \in Requests : Live(l)' => Live(l) \/ made'[l] = 0,
           \A l \in Requests : pc'[l] = "leading" /\ made[l] > 0 /\ chunks # <<>> =>
              Expiring' \/ chunksTTL' >= lockTTL'
    PROVE  Pushing'
<1>1. Len(chunks) \in Nat /\ P' = P BY Typed DEF P
<1>2. \A i \in R' : i \in Nat /\ i + d \in R /\ wire'[i] = wire[i + d] BY DEF R, Shifted, W
<1>3. \A i \in R : i - d \in R' /\ wire'[i - d] = wire[i] BY DEF R, Shifted
<1>4. \A i \in R' : wire'[i].msg.event[2] > Len(chunks) BY <1>2 DEF Pushing, Ev
<1>5. ASSUME NEW i \in R', NEW j \in R', i < j PROVE wire'[i].msg.event[2] < wire'[j].msg.event[2]
  <2>1. i + d < j + d BY <1>2, <1>5
  <2> QED BY <1>2, <2>1 DEF Pushing, Ev
<1>6. ASSUME NEW l \in Requests, Live(l)', NEW k \in (Len(chunks) + 1)..made'[l]
      PROVE  \E i \in R' : wire'[i].msg.event = <<l, k>>
  <2>1. made[l] \in Nat BY Typed, MuxAssumption
  <2>2. Live(l) BY <1>1, <1>6, <2>1
  <2>3. k \in (Len(chunks) + 1)..made[l] BY <1>6
  <2>4. PICK i \in R : Ev(i) = <<l, k>> BY <2>2, <2>3 DEF Pushing
  <2>5. i - d \in R' /\ wire'[i - d].msg.event = <<l, k>> BY <1>3, <2>4 DEF Ev
  <2> QED BY <2>5
<1> QED BY <1>1, <1>4, <1>5, <1>6 DEF Pushing, Ev, Expiring, W

(* The oldest RPUSH is of the next event. *)
LEMMA PushingRpush ==
    ASSUME TypeOK, Wired, Roles, Once, Undisturbed, Pushing, Rpush,
           \A l \in Requests : Live(l)' => Live(l) \/ made'[l] = 0
    PROVE  Pushing'
<1>1. /\ wire # <<>> /\ wire[1].op = "rpush" /\ UNCHANGED <<lockTTL, chunksTTL, pc, made>>
      /\ chunks' = Append(chunks, wire[1].msg.event)
  BY RpushEffect
<1>2. PICK c \in Commands : Replaced(c) /\ c.op = IF Len(chunks) = 0 THEN "expireFirst" ELSE "publish"
  BY RpushEffect
<1>3. 1 \in R /\ 1 \in C /\ Made(Ev(1)) /\ Ev(1) \in Event
  <2>1. 1 \in W BY <1>1, Oldest
  <2> QED BY <1>1, <2>1, EventTypes DEF R, C, EventOps, Wired, Says, Ev
<1>4. chunks \in Seq(Event) /\ Len(chunks) \in Nat /\ \A l \in Requests : made[l] \in Nat
  BY Typed, MuxAssumption
<1>5. PICK l \in Requests : l = Ev(1)[1] BY <1>3, SameMaker
<1>6. Ev(1)[2] \in Nat /\ Ev(1)[2] <= made[l] /\ Ev(1) = <<l, Ev(1)[2]>> BY <1>3, <1>5, SameMaker
<1>7. Live(l) BY <1>3, <1>5 DEF Live
<1>8. \A i \in R : i \in Nat /\ i >= 1 /\ Ev(i)[2] \in Nat /\ Ev(i)[2] > Len(chunks)
  BY EventTypes, MuxAssumption DEF R, W, Event, Pushing
<1>9. Ev(1)[2] = Len(chunks) + 1
  <2>1. Len(chunks) + 1 \in (Len(chunks) + 1)..made[l] BY <1>3, <1>4, <1>6, <1>8
  <2>2. PICK i \in R : Ev(i) = <<l, Len(chunks) + 1>> BY <1>7, <2>1 DEF Pushing
  <2>3. CASE i = 1 BY <2>2, <2>3
  <2>4. CASE 1 < i
    <3>1. Ev(1)[2] < Len(chunks) + 1 BY <1>3, <2>2, <2>4 DEF Pushing
    <3> QED BY <1>3, <1>4, <1>8, <3>1
  <2> QED BY <1>8, <2>3, <2>4
<1>10. /\ Len(chunks') = Len(chunks) + 1 /\ chunks'[Len(chunks) + 1] = Ev(1)
       /\ \A p \in P : chunks'[p] = chunks[p]
  BY <1>1, <1>3, <1>4, AppendProperties DEF Ev, P
<1>11. \A i \in R' : i \in Nat /\ i + 1 \in R /\ 1 < i + 1 /\ wire'[i] = wire[i + 1]
  <2>1. \A i \in W' : (i + 1 \in W /\ wire'[i] = wire[i + 1]) \/ wire'[i] = c BY <1>2, WirePlaces
  <2> QED BY <1>2, <2>1 DEF R, W
<1>12. \A i \in R : i # 1 => i - 1 \in R' /\ wire'[i - 1] = wire[i]
  BY <1>2, WireRemains DEF R
<1>13. \A p \in P' : chunks'[p][2] = p
  BY <1>4, <1>9, <1>10 DEF Pushing, P
<1>14. ASSUME NEW i \in R' PROVE wire'[i].msg.event[2] > Len(chunks')
  <2>1. Ev(1)[2] < Ev(i + 1)[2] BY <1>3, <1>11 DEF Pushing
  <2> QED BY <1>4, <1>8, <1>9, <1>10, <1>11, <2>1 DEF Ev
<1>15. ASSUME NEW i \in R', NEW j \in R', i < j PROVE wire'[i].msg.event[2] < wire'[j].msg.event[2]
  <2>1. i + 1 < j + 1 BY <1>11, <1>15
  <2> QED BY <1>11, <2>1 DEF Pushing, Ev
<1>16. ASSUME NEW x \in Requests, Live(x)', NEW k \in (Len(chunks') + 1)..made'[x]
       PROVE  \E i \in R' : wire'[i].msg.event = <<x, k>>
  <2>1. k \in (Len(chunks) + 1)..made[x] /\ k # Len(chunks) + 1 BY <1>1, <1>4, <1>10, <1>16
  <2>2. Live(x) BY <1>1, <1>4, <1>16, <2>1
  <2>3. PICK i \in R : Ev(i) = <<x, k>> BY <2>1, <2>2 DEF Pushing
  <2>4. i # 1 BY <1>9, <2>1, <2>3
  <2>5. i - 1 \in R' /\ wire'[i - 1].msg.event = <<x, k>> BY <1>12, <2>3, <2>4 DEF Ev
  <2> QED BY <2>5
<1>17. ASSUME NEW x \in Requests, pc'[x] = "leading", made'[x] > 0
       PROVE  (\E i \in W' : wire'[i].op = "expireFirst") \/ chunksTTL' >= lockTTL'
  <2>1. CASE Len(chunks) = 0
    <3>1. Len(wire) \in W' /\ wire'[Len(wire)] = c BY <1>2, WireRemains
    <3> QED BY <1>2, <2>1, <3>1
  <2>2. CASE Len(chunks) # 0
    <3>1. Expiring \/ chunksTTL >= lockTTL
      <4>1. chunks # <<>> BY <2>2
      <4> QED BY <1>1, <1>17, <4>1 DEF Pushing
    <3>2. CASE Expiring
      <4>1. PICK i \in W : wire[i].op = "expireFirst" BY <3>2 DEF Expiring
      <4>2. i # 1 BY <1>1, <4>1
      <4>3. i - 1 \in W' /\ wire'[i - 1] = wire[i] BY <1>2, <4>1, <4>2, WireRemains
      <4> QED BY <4>1, <4>3
    <3> QED BY <1>1, <3>1, <3>2
  <2> QED BY <2>1, <2>2
<1> QED BY <1>13, <1>14, <1>15, <1>16, <1>17 DEF Pushing, Ev, Expiring

(* The leader sends the RPUSH of its next event after the others. *)
LEMMA PushingProduce ==
    ASSUME TypeOK, TypeOK', Wired, Once, Undisturbed, Undisturbed', Pushing, NEW r \in Requests, Produce(r)
    PROVE  Pushing'
<1>1. /\ pc[r] = "leading" /\ UNCHANGED <<lockTTL, chunks, chunksTTL, pc>> /\ made[r] \in Nat
      /\ made' = [made EXCEPT ![r] = made[r] + 1]
  BY ProduceEffect
<1>2. PICK c \in Commands :
         /\ Added(c) /\ c.op = "rpush" /\ c.by = r
         /\ c.msg.event = <<r, made[r] + 1>> /\ c.msg.seq = NoSeq /\ c.msg.status = "none"
  BY ProduceSends
<1>3. /\ made'[r] = made[r] + 1 /\ \A x \in Requests : x # r => made'[x] = made[x]
      /\ \A x \in Requests : made[x] \in Nat
  BY <1>1, Typed, MuxAssumption
<1>4. \A x \in Requests : x # r => made'[x] = 0
  <2>1. Cardinality({x \in Requests : made'[x] > 0}) <= 1 BY DEF Undisturbed
  <2>2. made'[r] > 0 BY <1>1, <1>3
  <2>3. \A x \in Requests : made'[x] > 0 => x = r BY <2>1, <2>2, OneMaker
  <2> QED BY <1>3, <2>3
<1>5. \A e \in Event : Made(e) => e[1] = r /\ e[2] \in Nat /\ e[2] <= made[r]
  BY <1>3, <1>4, SameMaker
<1>6. Len(chunks) \in Nat /\ Len(chunks) <= made[r] /\ (chunks # <<>> => made[r] > 0)
  <2>1. Len(chunks) \in Nat BY Typed
  <2>2. CASE Len(chunks) = 0
    <3>1. chunks = <<>> BY <2>2, Typed, EmptySeq
    <3> QED BY <1>3, <2>2, <3>1
  <2>3. CASE Len(chunks) # 0
    <3>1. Len(chunks) \in P BY <2>1, <2>3 DEF P
    <3>2. Made(chunks[Len(chunks)]) /\ chunks[Len(chunks)] \in Event /\ chunks[Len(chunks)][2] = Len(chunks)
      BY <3>1, EventTypes DEF Once, Distinct, Pushing
    <3>3. Len(chunks) <= made[r] BY <1>5, <3>2
    <3> QED BY <1>3, <2>1, <2>3, <3>3
  <2> QED BY <2>2, <2>3
<1>7. \A i \in R : Ev(i) \in Event /\ Made(Ev(i)) BY EventTypes DEF R, Wired, Says, EventOps, Ev
<1>8. Len(wire) \in Nat /\ \A i \in R : i \in Nat /\ i <= Len(wire) BY Typed DEF R, W
<1>9. /\ \A i \in R : i \in R' /\ wire'[i] = wire[i]
      /\ Len(wire) + 1 \in R' /\ wire'[Len(wire) + 1] = c
      /\ \A i \in R' : i \in R \/ i = Len(wire) + 1
  <2>1. /\ Len(wire) + 1 \in W' /\ wire'[Len(wire) + 1] = c
        /\ \A i \in W : i \in W' /\ wire'[i] = wire[i]
        /\ \A i \in W' : i \in W \/ i = Len(wire) + 1
    BY <1>2, WirePlaces
  <2> QED BY <1>2, <2>1 DEF R
<1>10. \A p \in P' : chunks'[p][2] = p BY <1>1 DEF Pushing, P
<1>11. ASSUME NEW i \in R' PROVE wire'[i].msg.event[2] > Len(chunks')
  BY <1>1, <1>2, <1>6, <1>9 DEF Pushing, Ev
<1>12. ASSUME NEW i \in R', NEW j \in R', i < j PROVE wire'[i].msg.event[2] < wire'[j].msg.event[2]
  <2>1. CASE i \in R /\ j \in R BY <1>9, <1>12, <2>1 DEF Pushing, Ev
  <2>2. CASE i \in R /\ j = Len(wire) + 1
    <3>1. Ev(i)[2] \in Nat /\ Ev(i)[2] <= made[r] BY <1>5, <1>7, <2>2
    <3> QED BY <1>1, <1>2, <1>9, <2>2, <3>1 DEF Ev
  <2>3. ~(i = Len(wire) + 1) BY <1>8, <1>9, <1>12
  <2> QED BY <1>9, <2>1, <2>2, <2>3
<1>13. ASSUME NEW x \in Requests, NEW k \in (Len(chunks') + 1)..made'[x]
       PROVE  \E i \in R' : wire'[i].msg.event = <<x, k>>
  <2>1. x = r BY <1>1, <1>4, <1>6, <1>13
  <2>2. CASE k = made[r] + 1 BY <1>2, <1>9, <2>1, <2>2
  <2>3. CASE k # made[r] + 1
    <3>1. k \in (Len(chunks) + 1)..made[r] BY <1>1, <1>3, <1>6, <1>13, <2>1, <2>3
    <3>2. Live(r) BY <1>1 DEF Live
    <3>3. PICK i \in R : Ev(i) = <<r, k>> BY <3>1, <3>2 DEF Pushing
    <3> QED BY <1>9, <2>1, <3>3 DEF Ev
  <2> QED BY <2>2, <2>3
<1>14. ASSUME NEW x \in Requests, pc'[x] = "leading", made'[x] > 0, chunks' # <<>>
       PROVE  (\E i \in W' : wire'[i].op = "expireFirst") \/ chunksTTL' >= lockTTL'
  <2>1. x = r /\ made[r] > 0 /\ chunks # <<>> BY <1>1, <1>3, <1>4, <1>6, <1>14
  <2>2. Expiring \/ chunksTTL >= lockTTL BY <1>1, <2>1 DEF Pushing
  <2>3. \A i \in W : i \in W' /\ wire'[i] = wire[i] BY <1>2, WirePlaces
  <2> QED BY <1>1, <2>2, <2>3 DEF Expiring
<1> QED BY <1>10, <1>11, <1>12, <1>13, <1>14 DEF Pushing, Ev, Expiring

(* Every step of an undisturbed generation keeps the list in order.            *)
LEMMA PushingStep ==
    ASSUME TypeOK, TypeOK', Wired, Locked, Roles, Closed, Once, Undisturbed, Undisturbed',
           ~CommandFails, ~Crash, Pushing, [Next]_vars
    PROVE  Pushing'
<1>0. ~Lapsed /\ ~Lapsed' /\ Alone
  <2>1. ~Lapsed /\ ~Lapsed' BY DEF Undisturbed, Lapsed
  <2> QED BY <2>1, LockedAlone
<1>1. \A l \in Requests : Live(l)' => Live(l) \/ made'[l] = 0 BY LiveStep
<1>2. wire # <<>> => 1 \in W /\ wire[1].by \in Requests /\ Says(wire[1]) BY Oldest, Typed DEF Wired
<1>3. /\ pc \in [Requests -> Stations] /\ lockTTL \in 0..LockTTL /\ chunksTTL \in 0..LockTTL
      /\ LockTTL \in Nat /\ \A l \in Requests : made[l] \in Nat
  BY Typed, TypeNames, MuxAssumption
<1>4. ASSUME \E d \in {0, 1} : Shifted("rpush", d), chunks' = chunks, made' = made,
             \A l \in Requests : pc'[l] = "leading" /\ made[l] > 0 /\ chunks # <<>> =>
                Expiring' \/ chunksTTL' >= lockTTL'
      PROVE  Pushing'
  BY <1>1, <1>4, PushingKeep
<1>5. ASSUME \E d \in {0, 1} : Shifted("expireFirst", d), chunksTTL' = chunksTTL, lockTTL' = lockTTL,
             \A l \in Requests : pc'[l] = "leading" => pc[l] = "leading"
      PROVE  \A l \in Requests : pc'[l] = "leading" /\ made[l] > 0 /\ chunks # <<>> =>
                Expiring' \/ chunksTTL' >= lockTTL'
  <2>1. Expiring => Expiring' BY <1>5 DEF Expiring, Shifted
  <2> QED BY <1>5, <2>1 DEF Pushing
<1>6. CASE Rpush BY <1>1, <1>6, PushingRpush
<1>7. CASE ExpireFirst
  <2>1. /\ wire # <<>> /\ wire[1].op = "expireFirst" /\ UNCHANGED <<lockTTL, chunks, pc, made>>
        /\ chunksTTL' = IF chunks = <<>> THEN 0 ELSE LockTTL
        /\ \E c \in Commands : Replaced(c) /\ c.op = "publish"
    BY <1>7, ExpireFirstEffect
  <2>2. \E d \in {0, 1} : Shifted("rpush", d) BY <2>1, KindStays
  <2>3. chunks # <<>> => chunksTTL' >= lockTTL' BY <1>3, <2>1
  <2> QED BY <1>4, <2>1, <2>2, <2>3
<1>8. CASE Publish
  <2>1. /\ wire # <<>> /\ wire[1].op \in {"publish", "publishEnd"} /\ Popped
        /\ UNCHANGED <<lockTTL, chunks, chunksTTL, pc, made>>
    BY <1>8, PublishEffect
  <2>2. (\E d \in {0, 1} : Shifted("rpush", d)) /\ \E d \in {0, 1} : Shifted("expireFirst", d)
    BY <2>1, KindStays
  <2> QED BY <1>4, <1>5, <2>1, <2>2
<1>9. CASE SetResult \/ ExpireChunks \/ SetBody
  <2>1. /\ wire # <<>> /\ wire[1].op \in EndOps /\ UNCHANGED <<chunks, pc, made>>
        /\ \E c \in Commands : Replaced(c) /\ c.op # "rpush"
    BY <1>9, EndEffect
  <2>2. \E d \in {0, 1} : Shifted("rpush", d) BY <2>1, KindStays DEF EndOps
  <2>3. \A l \in Requests : pc[l] # "leading" BY <1>2, <2>1 DEF Closed
  <2> QED BY <1>4, <2>1, <2>2, <2>3
<1>10. CASE Lock
  <2>1. /\ wire # <<>> /\ wire[1].op = "lock" /\ Popped
        /\ UNCHANGED <<chunks, chunksTTL, made>>
        /\ \/ lockTTL = 0 /\ lockTTL' = LockTTL /\ pc' = [pc EXCEPT ![wire[1].by] = "leading"]
           \/ lockTTL' = lockTTL /\ pc' = [pc EXCEPT ![wire[1].by] = "following"]
    BY <1>10, LockEffect
  <2>2. (\E d \in {0, 1} : Shifted("rpush", d)) /\ \E d \in {0, 1} : Shifted("expireFirst", d)
    BY <2>1, KindStays
  <2>3. CASE lockTTL = 0 /\ pc' = [pc EXCEPT ![wire[1].by] = "leading"]
    <3>1. \A l \in Requests : pc[l] # "leading" BY <1>0, <2>3 DEF Alone
    <3>2. ~(made[wire[1].by] > 0) BY <1>2, <2>1 DEF Says, Roles
    <3>3. \A l \in Requests : pc'[l] = "leading" => ~(made[l] > 0) BY <1>2, <1>3, <2>1, <2>3, <3>1, <3>2
    <3> QED BY <1>4, <2>1, <2>2, <3>3
  <2>4. CASE lockTTL' = lockTTL /\ pc' = [pc EXCEPT ![wire[1].by] = "following"]
    <3>1. \A l \in Requests : pc'[l] = "leading" => pc[l] = "leading" BY <1>2, <1>3, <2>1, <2>4
    <3> QED BY <1>4, <1>5, <2>1, <2>2, <2>4, <3>1
  <2> QED BY <2>1, <2>3, <2>4
<1>11. CASE Get \/ Lrange
  <2>1. /\ wire # <<>> /\ wire[1].op \in {"get", "lrange"} /\ UNCHANGED <<lockTTL, chunks, chunksTTL, made>>
        /\ Popped \/ \E c \in Commands : Replaced(c) /\ c.op = "get"
        /\ \E where \in {"ended", "waiting", "getting"} : pc' = [pc EXCEPT ![wire[1].by] = where]
    BY <1>11, GetEffect, LrangeEffect
  <2>2. (\E d \in {0, 1} : Shifted("rpush", d)) /\ \E d \in {0, 1} : Shifted("expireFirst", d)
    BY <2>1, KindStays
  <2>3. \A l \in Requests : pc'[l] = "leading" => pc[l] = "leading" BY <1>2, <1>3, <2>1
  <2> QED BY <1>4, <1>5, <2>1, <2>2, <2>3
<1>12. CASE Tick
  <2>1. /\ wire = <<>> /\ wire' = wire /\ made' = made /\ pc' = pc
        /\ lockTTL' = Less(lockTTL) /\ chunksTTL' = Less(chunksTTL)
        /\ chunks' = IF chunksTTL = 1 THEN <<>> ELSE chunks
    BY <1>12 DEF Tick
  <2>0. \A l \in Requests : pc[l] = "leading" => lockTTL > 1
    <3>1. \A l \in Requests : pc[l] = "leading" => lockTTL' > 0
      <4>1. Locked' BY LockedStep
      <4>2. \A l \in Requests : age'[l] \in 0..LockTTL BY DEF TypeOK
      <4> QED BY <1>0, <1>3, <2>1, <4>1, <4>2 DEF Locked
    <3> QED BY <1>3, <2>1, <3>1 DEF Less
  <2>2. W = {} /\ W' = {} BY <2>1 DEF W
  <2>3. \A l \in Requests : pc[l] = "leading" /\ made[l] > 0 /\ chunks # <<>> => chunksTTL >= lockTTL
    BY <2>2 DEF Pushing, Expiring
  <2>4. CASE chunks' = chunks
    <3>1. \E d \in {0, 1} : Shifted("rpush", d) BY <2>1, KindStays
    <3>2. \A l \in Requests : pc[l] = "leading" /\ made[l] > 0 /\ chunks # <<>> => chunksTTL' >= lockTTL'
      BY <1>3, <2>1, <2>3 DEF Less
    <3> QED BY <1>4, <2>1, <2>4, <3>1, <3>2
  <2>5. CASE chunks' # chunks
    <3>1. chunksTTL = 1 /\ chunks' = <<>> /\ chunks # <<>> BY <2>1, <2>5
    <3>2. \A l \in Requests : pc[l] = "leading" => ~(made[l] > 0) BY <1>3, <2>0, <2>3, <3>1
    <3>3. P' = {} /\ R' = {} /\ C' = {} /\ EndsOn' = {} BY <2>2, <3>1 DEF P, R, C, EndsOn
    <3>4. \A l \in Requests : Live(l)' => made'[l] = 0 BY <1>3, <2>1, <3>2, <3>3 DEF Live
    <3>5. \A l \in Requests : Live(l)' => (Len(chunks') + 1)..made'[l] = {} BY <3>1, <3>4
    <3>6. \A l \in Requests : pc'[l] = "leading" /\ made'[l] > 0 => FALSE BY <2>1, <3>2
    <3> QED BY <3>1, <3>3, <3>5, <3>6 DEF Pushing
  <2> QED BY <2>4, <2>5
<1>13. CASE UNCHANGED vars
  <2>1. UNCHANGED <<wire, chunks, made, pc, chunksTTL, lockTTL>> BY <1>13 DEF vars, data, lock
  <2>2. (\E d \in {0, 1} : Shifted("rpush", d)) /\ \E d \in {0, 1} : Shifted("expireFirst", d)
    BY <2>1, KindStays
  <2> QED BY <1>4, <1>5, <2>1, <2>2
<1>14. ASSUME NEW r \in Requests, Arrive(r) \/ Generate(r) \/ Follow(r) \/ Timeout(r)
       PROVE  Pushing'
  <2>1. CASE Produce(r) BY <2>1, PushingProduce
  <2>2. CASE Arrive(r) \/ Replay(r)
    <3>1. UNCHANGED <<lockTTL, chunks, chunksTTL, made>> BY <2>2, QueryEffect
    <3>2. \E c \in Commands : Added(c) /\ c.op \in Queries BY <2>2, QueryEffect DEF Queries
    <3>3. \E where \in Awaiting : pc' = [pc EXCEPT ![r] = where] BY <2>2, QueryEffect
    <3>4. (\E d \in {0, 1} : Shifted("rpush", d)) /\ \E d \in {0, 1} : Shifted("expireFirst", d)
      BY <3>2, KindStays DEF Queries
    <3>5. \A l \in Requests : pc'[l] = "leading" => pc[l] = "leading" BY <1>3, <3>3 DEF Awaiting
    <3> QED BY <1>4, <1>5, <3>1, <3>4, <3>5
  <2>3. CASE Answer(r) \/ \E status \in Statuses : StreamEnds(r, status)
    <3>1. UNCHANGED <<lockTTL, chunks, chunksTTL, made>> /\ pc' = [pc EXCEPT ![r] = "ended"]
      BY <2>3, EndsEffect
    <3>2. \E c \in Commands : Added(c) /\ c.op \in {"setResult", "setBody"} BY <2>3, EndsEffect
    <3>3. (\E d \in {0, 1} : Shifted("rpush", d)) /\ \E d \in {0, 1} : Shifted("expireFirst", d)
      BY <3>2, KindStays
    <3>4. \A l \in Requests : pc'[l] = "leading" => pc[l] = "leading" BY <1>3, <3>1
    <3> QED BY <1>4, <1>5, <3>1, <3>3, <3>4
  <2>4. CASE LeaderThrows(r) \/ Subscribe(r) \/ Timeout(r) \/ TakeMessage(r)
    <3>1. UNCHANGED <<wire, lockTTL, chunks, chunksTTL, made>>
      BY <2>4 DEF LeaderThrows, Subscribe, Timeout, TakeMessage, data, lock
    <3>2. \A l \in Requests : pc'[l] = "leading" => pc[l] = "leading"
      BY <1>3, <2>4 DEF LeaderThrows, Subscribe, Timeout, TakeMessage, End, Goto
    <3>3. (\E d \in {0, 1} : Shifted("rpush", d)) /\ \E d \in {0, 1} : Shifted("expireFirst", d)
      BY <3>1, KindStays
    <3> QED BY <1>4, <1>5, <3>1, <3>2, <3>3
  <2> QED BY <1>14, <2>1, <2>2, <2>3, <2>4 DEF Generate, Follow
<1> QED BY <1>6, <1>7, <1>8, <1>9, <1>10, <1>11, <1>12, <1>13, <1>14 DEF Next, Execute

(* How many hops each command has left. *)
LEMMA HopsLeft ==
    /\ \A c : c.op \in {"rpush", "setResult"} => Hops(c) = 3
    /\ \A c : c.op \in {"expireFirst", "expireChunks", "setBody"} => Hops(c) = 2
    /\ \A c : c.op \in {"publish", "publishEnd"} => Hops(c) = 1
    /\ \A c : c.op \in EventOps \cup EndOps => Hops(c) \in {1, 2, 3}
<1>1. \A c : c.op \in {"rpush", "setResult"} => Hops(c) = 3 BY DEF Hops
<1>2. \A c : c.op \in {"expireFirst", "expireChunks", "setBody"} => Hops(c) = 2 BY DEF Hops
<1>3. \A c : c.op \in {"publish", "publishEnd"} => Hops(c) = 1 BY DEF Hops
<1>4. EventOps \cup EndOps = {"rpush", "setResult"} \cup {"expireFirst", "expireChunks", "setBody"}
                             \cup {"publish", "publishEnd"}
  BY DEF EventOps, EndOps
<1> QED BY <1>1, <1>2, <1>3, <1>4

(* The leader's commands that are on the wire were there before the step.      *)
Moved(d) ==
    \A i \in W' : wire'[i].op \in EventOps \cup EndOps => i + d \in W /\ wire'[i] = wire[i + d]

(* Steps about the requests' own queries. *)
LEMMA QueriesMove ==
    ASSUME TypeOK,
           \/ wire' = wire \/ Popped
           \/ \E c \in Commands : Replaced(c) /\ c.op \in Queries
           \/ \E c \in Commands : Added(c) /\ c.op \in Queries
    PROVE  \E d \in {0, 1} : Moved(d)
<1>1. Queries \cap (EventOps \cup EndOps) = {} BY DEF Queries, EventOps, EndOps
<1>2. CASE wire' = wire
  <2>1. \A i \in W : i + 0 = i BY DEF W
  <2>2. Moved(0) BY <1>2, <2>1 DEF Moved, W
  <2> QED BY <2>2
<1>3. CASE Popped
  <2>1. Moved(1) BY <1>3, WirePlaces DEF Moved
  <2> QED BY <2>1
<1>4. ASSUME NEW c \in Commands, Replaced(c), c.op \in Queries PROVE \E d \in {0, 1} : Moved(d)
  <2>1. \A i \in W' : (i + 1 \in W /\ wire'[i] = wire[i + 1]) \/ wire'[i] = c BY <1>4, WirePlaces
  <2>2. Moved(1) BY <1>1, <1>4, <2>1 DEF Moved
  <2> QED BY <2>2
<1>5. ASSUME NEW c \in Commands, Added(c), c.op \in Queries PROVE \E d \in {0, 1} : Moved(d)
  <2>1. \A i \in W' : (i \in W /\ wire'[i] = wire[i]) \/ wire'[i] = c BY <1>5, WirePlaces
  <2>2. \A i \in W : i + 0 = i BY DEF W
  <2>3. Moved(0) BY <1>1, <1>5, <2>1, <2>2 DEF Moved
  <2> QED BY <2>3
<1> QED BY <1>2, <1>3, <1>4, <1>5

(* Where the positions moved to are. *)
LEMMA MovedPlaces ==
    ASSUME TypeOK, NEW d \in {0, 1}, Moved(d)
    PROVE  /\ \A i \in C' : i \in Nat /\ i + d \in C /\ wire'[i] = wire[i + d]
           /\ \A i \in EndsOn' : i \in Nat /\ i + d \in EndsOn /\ wire'[i] = wire[i + d]
           /\ \A i, j \in C' : i < j => i + d < j + d
           /\ \A i \in C', j \in EndsOn' : i + d < j + d => i < j
<1>1. \A i \in C' : i \in Nat /\ i + d \in C /\ wire'[i] = wire[i + d]
  BY DEF C, Moved, W
<1>2. \A i \in EndsOn' : i \in Nat /\ i + d \in EndsOn /\ wire'[i] = wire[i + d]
  BY DEF EndsOn, Moved, W
<1> QED BY <1>1, <1>2

(* Such steps keep the order of the hops. *)
LEMMA HopsKeep ==
    ASSUME TypeOK, Publishing, EndsLast, NEW d \in {0, 1}, Moved(d),
           Len(chunks') = Len(chunks) \/ W' = {}
    PROVE  Publishing' /\ EndsLast'
<1>1. /\ \A i \in C' : i \in Nat /\ i + d \in C /\ wire'[i] = wire[i + d]
      /\ \A i \in EndsOn' : i \in Nat /\ i + d \in EndsOn /\ wire'[i] = wire[i + d]
      /\ \A i, j \in C' : i < j => i + d < j + d
      /\ \A i \in C', j \in EndsOn' : i + d < j + d => i < j
  BY MovedPlaces
<1>2. \A i \in Pub' : i \in C' /\ i + d \in Pub
  <2>1. \A i \in Pub' : i \in C' BY DEF Pub, C, EventOps
  <2> QED BY <1>1, <2>1 DEF Pub, C
<1>3. ASSUME NEW i \in C', wire'[i].op # "rpush"
      PROVE  /\ wire'[i].msg.seq = wire'[i].msg.event[2] - 1
             /\ wire'[i].msg.event[2] <= Len(chunks')
  <2>1. Len(chunks') = Len(chunks) BY DEF C
  <2> QED BY <1>1, <1>3, <2>1 DEF Publishing, Ev
<1>4. ASSUME NEW i \in C', wire'[i].op = "expireFirst" PROVE wire'[i].msg.event[2] = 1
  BY <1>1, <1>4 DEF Publishing, Ev
<1>5. ASSUME NEW i \in Pub', NEW j \in Pub', i < j PROVE Before(wire'[i].msg.event, wire'[j].msg.event)
  BY <1>1, <1>2, <1>5 DEF Publishing, Ev
<1>6. EndsLast' BY <1>1 DEF EndsLast, Hops
<1> QED BY <1>3, <1>4, <1>5, <1>6 DEF Publishing, Ev, Before

(* Every step of an undisturbed generation publishes the events in order, but  *)
(* for the first, and the end after them.                                      *)
LEMMA PublishingStep ==
    ASSUME TypeOK, TypeOK', Wired, Closed, Calm, Calm', ~CommandFails, ~Crash,
           Pushing', Publishing, EndsLast, [Next]_vars
    PROVE  Publishing' /\ EndsLast'
<1>1. wire # <<>> => 1 \in W /\ Says(wire[1]) /\ wire[1].msg \in Messages BY Oldest DEF Wired
<1>2. Len(wire) \in Nat /\ Len(chunks) \in Nat /\ chunks \in Seq(Event) BY Typed
<1>3. ASSUME \E d \in {0, 1} : Moved(d), Len(chunks') = Len(chunks) \/ W' = {}
      PROVE  Publishing' /\ EndsLast'
  BY <1>3, HopsKeep
<1>4. /\ \A i \in C : Hops(wire[i]) \in {1, 2, 3} /\ i \in W /\ i \in Nat /\ i >= 1
      /\ \A j \in EndsOn : Hops(wire[j]) \in {1, 2, 3} /\ j \in W /\ j \in Nat /\ j >= 1
  BY HopsLeft DEF C, EndsOn, W
<1>5. ASSUME NEW c \in Commands, Replaced(c), wire # <<>>, c.op \notin EndOps
      PROVE  \A j \in EndsOn' : j \in Nat /\ j < Len(wire) /\ j + 1 \in EndsOn /\ wire'[j] = wire[j + 1]
  <2>1. \A j \in W' : \/ j + 1 \in W /\ wire'[j] = wire[j + 1]
                      \/ j = Len(wire) /\ wire'[j] = c
    BY <1>5, WirePlaces
  <2> QED BY <1>2, <1>5, <2>1 DEF EndsOn, W
<1>6. CASE Rpush \/ ExpireFirst
  <2>1. PICK c \in Commands :
           /\ wire # <<>> /\ Replaced(c) /\ c.msg.event = wire[1].msg.event
           /\ \/ /\ Rpush /\ wire[1].op = "rpush" /\ chunks' = Append(chunks, wire[1].msg.event)
                 /\ c.op = IF Len(chunks) = 0 THEN "expireFirst" ELSE "publish"
                 /\ c.msg.seq = Len(chunks)
              \/ /\ ExpireFirst /\ wire[1].op = "expireFirst" /\ chunks' = chunks /\ c.op = "publish"
                 /\ c.msg = wire[1].msg
    BY <1>6, RpushEffect, ExpireFirstEffect
  <2>2. 1 \in C /\ wire[1].msg.event \in Event BY <1>1, <2>1, EventTypes DEF C, EventOps, Ev
  <2>3. c.op \in EventOps /\ c.op \notin EndOps /\ c.op # "rpush" BY <2>1 DEF EventOps, EndOps
  <2>4. \A i \in C' : \/ i \in Nat /\ i < Len(wire) /\ i + 1 \in C /\ wire'[i] = wire[i + 1]
                      \/ i = Len(wire) /\ wire'[i] = c
    <3>1. \A i \in C' : \/ i # Len(wire) /\ i + 1 \in C /\ wire'[i] = wire[i + 1]
                        \/ i = Len(wire) /\ wire'[i] = c
      BY <2>1, CarriedOn
    <3>2. \A i \in C' : i \in 1..Len(wire) BY <2>1 DEF C, W, Replaced
    <3> QED BY <1>2, <3>1, <3>2
  <2>5. Len(chunks') \in Nat /\ Len(chunks) <= Len(chunks')
    BY <1>2, <2>1, <2>2, AppendProperties
  <2>6. /\ c.msg.seq = c.msg.event[2] - 1 /\ c.msg.event[2] <= Len(chunks')
        /\ c.op = "expireFirst" => c.msg.event[2] = 1
        /\ c.op = "publish" => c.msg.event[2] = 1 \/ \A i \in Pub : Ev(i)[2] < c.msg.event[2]
    <3>1. CASE Rpush
      <4>1. /\ Len(chunks') = Len(chunks) + 1 /\ chunks'[Len(chunks) + 1] = wire[1].msg.event
            /\ c.op = IF Len(chunks) = 0 THEN "expireFirst" ELSE "publish"
            /\ c.msg.seq = Len(chunks)
        <5>1. wire[1].op = "rpush" BY <3>1, RpushEffect
        <5>2. chunks' = Append(chunks, wire[1].msg.event) BY <3>1, RpushEffect
        <5> QED BY <1>2, <2>1, <2>2, <5>1, <5>2, AppendProperties
      <4>2. Len(chunks) + 1 \in P' BY <1>2, <4>1 DEF P
      <4>3. c.msg.event[2] = Len(chunks) + 1 BY <2>1, <4>1, <4>2 DEF Pushing
      <4>4. \A i \in Pub : i \in C /\ wire[i].op # "rpush" BY DEF Pub, C, EventOps
      <4>5. \A i \in Pub : Ev(i)[2] \in Nat /\ Ev(i)[2] <= Len(chunks)
        <5>1. \A i \in Pub : Ev(i) \in Event BY EventTypes DEF Pub
        <5> QED BY <4>4, <5>1, MuxAssumption DEF Publishing, Event
      <4> QED BY <1>2, <4>1, <4>3, <4>5
    <3>2. CASE ExpireFirst
      <4>1. wire[1].op = "expireFirst" BY <3>2, ExpireFirstEffect
      <4>2. c.op = "publish" /\ c.msg = wire[1].msg /\ chunks' = chunks BY <2>1, <4>1
      <4> QED BY <2>2, <4>1, <4>2 DEF Publishing, Ev
    <3> QED BY <1>6, <3>1, <3>2
  <2>7. ASSUME NEW i \in C', wire'[i].op # "rpush"
        PROVE  /\ wire'[i].msg.seq = wire'[i].msg.event[2] - 1
               /\ wire'[i].msg.event[2] <= Len(chunks')
    <3>1. CASE wire'[i] = c BY <2>6, <3>1
    <3>2. CASE i + 1 \in C /\ wire'[i] = wire[i + 1]
      <4>1. Ev(i + 1) \in Event BY <3>2, EventTypes DEF C
      <4>2. wire[i + 1].msg.seq = Ev(i + 1)[2] - 1 /\ Ev(i + 1)[2] <= Len(chunks)
        BY <2>7, <3>2 DEF Publishing
      <4>3. Ev(i + 1)[2] \in Nat BY <4>1, MuxAssumption DEF Event
      <4> QED BY <1>2, <2>5, <3>2, <4>2, <4>3 DEF Ev
    <3> QED BY <2>4, <3>1, <3>2
  <2>8. ASSUME NEW i \in C', wire'[i].op = "expireFirst" PROVE wire'[i].msg.event[2] = 1
    BY <2>4, <2>6, <2>8 DEF Publishing, Ev
  <2>9. ASSUME NEW i \in Pub', NEW j \in Pub', i < j PROVE Before(wire'[i].msg.event, wire'[j].msg.event)
    <3>1. i \in C' /\ j \in C' /\ wire'[i].op = "publish" /\ wire'[j].op = "publish"
      BY <2>9 DEF Pub, C, EventOps
    <3>2. i \in Nat /\ i + 1 \in Pub /\ wire'[i] = wire[i + 1]
      <4>1. j <= Len(wire) BY <1>2, <2>4, <3>1
      <4>2. i < Len(wire) BY <1>2, <2>4, <2>9, <3>1, <4>1
      <4>3. i \in Nat /\ i + 1 \in C /\ wire'[i] = wire[i + 1] BY <2>4, <3>1, <4>2
      <4> QED BY <3>1, <4>3 DEF Pub, C
    <3>3. CASE wire'[j] = c BY <2>6, <3>1, <3>2, <3>3 DEF Before, Ev
    <3>4. CASE j \in Nat /\ j + 1 \in C /\ wire'[j] = wire[j + 1]
      <4>1. j + 1 \in Pub /\ i + 1 < j + 1 BY <2>9, <3>1, <3>2, <3>4 DEF Pub, C
      <4> QED BY <3>2, <3>4, <4>1 DEF Publishing, Ev
    <3> QED BY <2>4, <3>1, <3>3, <3>4
  <2>10. ASSUME NEW i \in C', NEW j \in EndsOn'
         PROVE  Hops(wire'[i]) < Hops(wire'[j]) \/ (Hops(wire'[i]) = Hops(wire'[j]) /\ i < j)
    <3>1. j \in Nat /\ j < Len(wire) /\ j + 1 \in EndsOn /\ wire'[j] = wire[j + 1]
      BY <1>5, <2>1, <2>3
    <3>2. CASE wire'[i] = c
      <4>1. /\ Hops(wire[1]) \in {2, 3} /\ Hops(c) < Hops(wire[1])
        <5>1. \/ wire[1].op = "rpush" /\ c.op \in {"expireFirst", "publish"}
              \/ wire[1].op = "expireFirst" /\ c.op = "publish"
          BY <2>1
        <5> QED BY <5>1, HopsLeft
      <4>2. Hops(wire[1]) <= Hops(wire[j + 1]) BY <1>4, <2>2, <3>1 DEF EndsLast
      <4>3. Hops(wire[j + 1]) \in {1, 2, 3} /\ Hops(c) \in {1, 2, 3}
        BY <1>4, <2>3, <3>1, HopsLeft
      <4> QED BY <3>1, <3>2, <4>1, <4>2, <4>3
    <3>3. CASE i \in Nat /\ i + 1 \in C /\ wire'[i] = wire[i + 1]
      BY <3>1, <3>3 DEF EndsLast
    <3> QED BY <2>4, <3>2, <3>3
  <2> QED BY <2>7, <2>8, <2>9, <2>10 DEF Publishing, EndsLast, Ev
<1>7. CASE SetResult \/ ExpireChunks \/ SetBody
  <2>1. /\ wire # <<>> /\ wire[1].op \in {"setResult", "expireChunks"} /\ chunks' = chunks
        /\ 1 \in EndsOn
    <3>1. wire # <<>> /\ chunks' = chunks /\ wire[1].op \in {"setResult", "expireChunks", "setBody"}
      BY <1>7, EndEffect
    <3>2. wire[1].op # "setBody" BY <1>1, <3>1 DEF Says, Calm
    <3> QED BY <1>1, <3>1, <3>2 DEF EndsOn, EndOps
  <2>2. PICK c \in Commands :
           Replaced(c) /\ c.op = IF wire[1].op = "setResult" THEN "expireChunks" ELSE "publishEnd"
    BY <1>7, EndEffect
  <2>3. c.op \notin EventOps /\ c.op \in EndOps /\ Hops(c) \in {1, 2}
        /\ Hops(wire[1]) = Hops(c) + 1
    <3>1. \/ wire[1].op = "setResult" /\ c.op = "expireChunks"
          \/ wire[1].op = "expireChunks" /\ c.op = "publishEnd"
      BY <2>1, <2>2
    <3>2. /\ wire[1].op = "setResult" => Hops(wire[1]) = 3
          /\ wire[1].op = "expireChunks" => Hops(wire[1]) = 2
          /\ c.op = "expireChunks" => Hops(c) = 2
          /\ c.op = "publishEnd" => Hops(c) = 1
      BY HopsLeft
    <3> QED BY <3>1, <3>2 DEF EventOps, EndOps
  <2>4. \A i \in C' : i \in Nat /\ i < Len(wire) /\ i + 1 \in C /\ wire'[i] = wire[i + 1]
    <3>1. \A i \in C' : i # Len(wire) /\ i + 1 \in C /\ wire'[i] = wire[i + 1]
      BY <2>2, <2>3, CarriedOn
    <3>2. \A i \in C' : i \in 1..Len(wire) BY <2>2 DEF C, W, Replaced
    <3> QED BY <1>2, <3>1, <3>2
  <2>5. \A j \in EndsOn' : \/ j \in Nat /\ j + 1 \in EndsOn /\ wire'[j] = wire[j + 1]
                           \/ j = Len(wire) /\ wire'[j] = c
    <3>1. \A j \in W' : \/ j + 1 \in W /\ wire'[j] = wire[j + 1]
                        \/ j = Len(wire) /\ wire'[j] = c
      BY <2>2, WirePlaces
    <3> QED BY <3>1 DEF EndsOn, W
  <2>6. ASSUME NEW i \in C', NEW j \in EndsOn'
        PROVE  Hops(wire'[i]) < Hops(wire'[j]) \/ (Hops(wire'[i]) = Hops(wire'[j]) /\ i < j)
    <3>1. i \in Nat /\ i < Len(wire) /\ i + 1 \in C /\ wire'[i] = wire[i + 1] BY <2>4
    <3>2. CASE j \in Nat /\ j + 1 \in EndsOn /\ wire'[j] = wire[j + 1] BY <3>1, <3>2 DEF EndsLast
    <3>3. CASE j = Len(wire) /\ wire'[j] = c
      <4>1. Hops(wire[i + 1]) < Hops(wire[1])
        <5>1. ~(i + 1 < 1) BY <3>1
        <5> QED BY <2>1, <3>1, <5>1 DEF EndsLast
      <4>2. Hops(wire[i + 1]) \in {1, 2, 3} BY <1>4, <3>1
      <4> QED BY <2>3, <3>1, <3>3, <4>1, <4>2
    <3> QED BY <2>5, <3>2, <3>3
  <2>7. ASSUME NEW i \in C', wire'[i].op # "rpush"
        PROVE  /\ wire'[i].msg.seq = wire'[i].msg.event[2] - 1
               /\ wire'[i].msg.event[2] <= Len(chunks')
    BY <2>1, <2>4, <2>7 DEF Publishing, Ev
  <2>8. ASSUME NEW i \in C', wire'[i].op = "expireFirst" PROVE wire'[i].msg.event[2] = 1
    BY <2>4, <2>8 DEF Publishing, Ev
  <2>9. ASSUME NEW i \in Pub', NEW j \in Pub', i < j PROVE Before(wire'[i].msg.event, wire'[j].msg.event)
    <3>1. i \in C' /\ j \in C' BY <2>9 DEF Pub, C, EventOps
    <3>2. /\ i + 1 \in Pub /\ j + 1 \in Pub /\ i + 1 < j + 1
          /\ wire'[i] = wire[i + 1] /\ wire'[j] = wire[j + 1]
      BY <2>4, <2>9, <3>1 DEF Pub, C
    <3> QED BY <3>2 DEF Publishing, Ev
  <2> QED BY <2>6, <2>7, <2>8, <2>9 DEF Publishing, EndsLast, Ev
<1>8. CASE Publish \/ Lock \/ Get \/ Lrange
  <2>1. chunks' = chunks BY <1>8, PublishEffect, LockEffect, GetEffect, LrangeEffect
  <2>2. Popped \/ \E c \in Commands : Replaced(c) /\ c.op \in Queries
    BY <1>8, PublishEffect, LockEffect, GetEffect, LrangeEffect DEF Queries
  <2> QED BY <1>3, <2>1, <2>2, QueriesMove
<1>9. CASE Tick \/ UNCHANGED vars
  <2>1. wire' = wire BY <1>9 DEF Tick, vars
  <2>2. Len(chunks') = Len(chunks) \/ W' = {} BY <1>9, <2>1 DEF Tick, vars, data, W, lock
  <2> QED BY <1>3, <2>1, <2>2, QueriesMove
<1>10. ASSUME NEW r \in Requests, Arrive(r) \/ Generate(r) \/ Follow(r) \/ Timeout(r)
       PROVE  Publishing' /\ EndsLast'
  <2>1. CASE Arrive(r) \/ Replay(r)
    <3>1. chunks' = chunks /\ \E c \in Commands : Added(c) /\ c.op \in Queries
      BY <2>1, QueryEffect DEF Queries
    <3> QED BY <1>3, <3>1, QueriesMove
  <2>2. CASE LeaderThrows(r) \/ Subscribe(r) \/ Timeout(r) \/ TakeMessage(r)
    <3>1. wire' = wire /\ chunks' = chunks
      BY <2>2 DEF LeaderThrows, Subscribe, Timeout, TakeMessage, data, lock
    <3> QED BY <1>3, <3>1, QueriesMove
  <2>3. CASE Produce(r)
    <3>1. pc[r] = "leading" /\ chunks' = chunks BY <2>3, ProduceEffect
    <3>2. PICK c \in Commands : Added(c) /\ c.op = "rpush" BY <2>3, ProduceEffect
    <3>3. EndsOn' = {}
      <4>1. EndsOn = {} BY <3>1 DEF EndsOn, Closed
      <4>2. \A i \in W' : (i \in W /\ wire'[i] = wire[i]) \/ wire'[i] = c BY <3>2, WirePlaces
      <4>3. "rpush" \notin EndOps BY DEF EndOps
      <4> QED BY <3>2, <4>1, <4>2, <4>3 DEF EndsOn
    <3>4. \A i \in C' : wire'[i].op # "rpush" => i \in C /\ wire'[i] = wire[i]
      BY <3>2, CarriedOn
    <3>5. ASSUME NEW i \in C', wire'[i].op # "rpush"
          PROVE  /\ wire'[i].msg.seq = wire'[i].msg.event[2] - 1
                 /\ wire'[i].msg.event[2] <= Len(chunks')
      BY <3>1, <3>4, <3>5 DEF Publishing, Ev
    <3>6. ASSUME NEW i \in C', wire'[i].op = "expireFirst" PROVE wire'[i].msg.event[2] = 1
      BY <3>4, <3>6 DEF Publishing, Ev
    <3>7. ASSUME NEW i \in Pub', NEW j \in Pub', i < j
          PROVE  Before(wire'[i].msg.event, wire'[j].msg.event)
      <4>1. \A x \in Pub' : x \in C' /\ wire'[x].op = "publish" BY DEF Pub, C, EventOps
      <4>2. \A x \in Pub' : x \in Pub /\ wire'[x] = wire[x] BY <3>4, <4>1 DEF Pub, C
      <4> QED BY <3>7, <4>2 DEF Publishing, Ev
    <3> QED BY <3>3, <3>5, <3>6, <3>7 DEF Publishing, EndsLast, Ev
  <2>4. CASE Answer(r) \/ \E status \in Statuses : StreamEnds(r, status)
    <3>1. chunks' = chunks BY <2>4, EndsEffect
    <3>2. PICK c \in Commands : Added(c) /\ c.op = "setResult" BY <2>4, EndsEffect DEF Calm
    <3>3. Hops(c) = 3 /\ c.op \notin EventOps BY <3>2, HopsLeft DEF EventOps
    <3>4. \A i \in C' : i \in C /\ wire'[i] = wire[i] BY <3>2, <3>3, CarriedOn
    <3>5. \A j \in EndsOn' : \/ j \in EndsOn /\ wire'[j] = wire[j]
                             \/ j = Len(wire) + 1 /\ wire'[j] = c
      <4>1. \A j \in W' : j \in W \/ j = Len(wire) + 1 BY <3>2, WirePlaces
      <4>2. wire'[Len(wire) + 1] = c /\ \A j \in W : wire'[j] = wire[j] BY <3>2, WirePlaces
      <4> QED BY <4>1, <4>2 DEF EndsOn
    <3>6. ASSUME NEW i \in C', NEW j \in EndsOn'
          PROVE  Hops(wire'[i]) < Hops(wire'[j]) \/ (Hops(wire'[i]) = Hops(wire'[j]) /\ i < j)
      <4>1. i \in C /\ wire'[i] = wire[i] BY <3>4
      <4>2. Hops(wire[i]) \in {1, 2, 3} /\ i \in 1..Len(wire) BY <1>4, <4>1 DEF W
      <4>3. CASE j \in EndsOn /\ wire'[j] = wire[j] BY <4>1, <4>3 DEF EndsLast
      <4>4. CASE j = Len(wire) + 1 /\ wire'[j] = c BY <1>2, <3>3, <4>1, <4>2, <4>4
      <4> QED BY <3>5, <4>3, <4>4
    <3>7. \A i \in C' : wire'[i].op # "rpush" =>
             wire'[i].msg.seq = wire'[i].msg.event[2] - 1 /\ wire'[i].msg.event[2] <= Len(chunks')
      BY <3>1, <3>4 DEF Publishing, Ev
    <3>8. \A i \in C' : wire'[i].op = "expireFirst" => wire'[i].msg.event[2] = 1
      BY <3>4 DEF Publishing, Ev
    <3>9. ASSUME NEW i \in Pub', NEW j \in Pub', i < j
          PROVE  Before(wire'[i].msg.event, wire'[j].msg.event)
      <4>1. \A x \in Pub' : x \in C' /\ wire'[x].op = "publish" BY DEF Pub, C, EventOps
      <4>2. \A x \in Pub' : x \in Pub /\ wire'[x] = wire[x] BY <3>4, <4>1 DEF Pub, C
      <4> QED BY <3>9, <4>2 DEF Publishing, Ev
    <3> QED BY <3>6, <3>7, <3>8, <3>9 DEF Publishing, EndsLast, Ev
  <2> QED BY <1>10, <2>1, <2>2, <2>3, <2>4 DEF Generate, Follow
<1> QED BY <1>6, <1>7, <1>8, <1>9, <1>10 DEF Next, Execute

(* What a step does with a follower that neither receives nor emits.           *)
Moves(r) ==
    \/ pc'[r] = pc[r] /\ via'[r] = via[r] /\ ended'[r] = ended[r]
    \/ /\ ~Subscribed(r)' /\ via'[r] # "channel"
       /\ via'[r] = "result" => pc[r] = "getting"
    \/ /\ via'[r] = "none"
       /\ \/ pc[r] = "following" /\ pc'[r] = "subscribed"
          \/ pc[r] = "subscribed" /\ pc'[r] = "replaying"
          \/ pc[r] = "getting" /\ pc'[r] = "waiting"

(* Such a step keeps the follower's place in the generation. *)
LEMMA FollowsKeep ==
    ASSUME TypeOK, Roles, NEW r \in Requests, Follows(r), Moves(r), made' = made,
           inbox'[r] = inbox[r], out'[r] = out[r], watermark'[r] = watermark[r],
           \A i \in C' : \E k \in C :
              /\ wire'[i].msg.event = Ev(k)
              /\ wire'[i].msg.seq = wire[k].msg.seq \/ wire[k].msg.seq = NoSeq,
           Subscribed(r)' => \A i \in C : \E k \in C' : wire'[k].msg.event = Ev(i),
           pc[r] \in {"subscribed", "replaying"} => \A p \in P : p \in P' /\ chunks'[p] = chunks[p],
           \A l \in Requests : Live(l)' => Live(l) \/ made'[l] = 0
    PROVE  Follows(r)'
<1>1. Box(r)' = Box(r) /\ Q(r)' = Q(r) BY DEF Box, Q
<1>3. BoxOrder(r)'
  <2>1. BoxOrder(r) BY DEF Follows
  <2> QED BY <1>1, <2>1 DEF BoxOrder, Ev, Before
<1>4. OutOrder(r)'
  <2>1. OutOrder(r) BY DEF Follows
  <2>2. ASSUME NEW p \in Q(r), NEW i \in C'
        PROVE  Before(out[r][p], wire'[i].msg.event) \/ Duplicate(r, wire'[i].msg)
    <3>1. PICK k \in C : /\ wire'[i].msg.event = Ev(k)
                         /\ wire'[i].msg.seq = wire[k].msg.seq \/ wire[k].msg.seq = NoSeq
      OBVIOUS
    <3>2. Before(out[r][p], Ev(k)) \/ Duplicate(r, wire[k].msg) BY <2>1 DEF OutOrder
    <3> QED BY <3>1, <3>2 DEF Duplicate
  <2>3. \A m : Duplicate(r, m) => m.seq # NoSeq /\ m.seq <= watermark'[r] BY DEF Duplicate
  <2>4. \A p, q \in Q(r) : p < q => Before(out'[r][p], out'[r][q]) BY <2>1 DEF OutOrder
  <2>5. \A p \in Q(r), n \in Box(r) :
           \/ Before(out'[r][p], inbox'[r][n].event)
           \/ inbox'[r][n].seq # NoSeq /\ inbox'[r][n].seq <= watermark'[r]
    BY <2>1, <2>3 DEF OutOrder
  <2>6. \A p \in Q(r), i \in C' :
           \/ Before(out'[r][p], wire'[i].msg.event)
           \/ wire'[i].msg.seq # NoSeq /\ wire'[i].msg.seq <= watermark'[r]
    BY <2>2, <2>3
  <2> QED BY <1>1, <2>4, <2>5, <2>6 DEF OutOrder, Ev, Before, Duplicate
<1>5. Replayed(r)'
  <2>1. pc'[r] = "getting" \/ via'[r] = "result" => pc[r] = "getting" \/ via[r] = "result"
    BY DEF Moves, Subscribed
  <2>2. pc'[r] \in {"getting", "waiting"} => pc[r] \in {"getting", "waiting"} BY DEF Moves, Subscribed
  <2> QED BY <1>1, <2>1, <2>2 DEF Follows, Replayed
<1>6. Reaches(r)'
  <2> SUFFICES ASSUME pc'[r] \in {"getting", "waiting"}, NEW l \in Requests, Live(l)',
                      NEW k \in 1..made'[l]
               PROVE  (Carried(<<l, k>>) \/ InBox(r, <<l, k>>) \/ Emitted(r, <<l, k>>))'
    BY DEF Reaches
  <2>1. pc[r] \in {"getting", "waiting"} BY DEF Moves, Subscribed
  <2>2. made[l] \in Nat /\ Live(l) BY Typed, MuxAssumption
  <2>3. Carried(<<l, k>>) \/ InBox(r, <<l, k>>) \/ Emitted(r, <<l, k>>)
    BY <2>1, <2>2 DEF Follows, Reaches
  <2>4. Carried(<<l, k>>) => Carried(<<l, k>>)' BY DEF Carried, Subscribed, Ev
  <2>5. InBox(r, <<l, k>>) => InBox(r, <<l, k>>)' BY <1>1 DEF InBox
  <2>6. Emitted(r, <<l, k>>) => Emitted(r, <<l, k>>)' BY <1>1 DEF Emitted
  <2> QED BY <2>3, <2>4, <2>5, <2>6
<1>7. ReachesEnd(r)'
  <2> SUFFICES ASSUME Subscribed(r)', NEW n \in 1..Len(inbox'[r]), inbox'[r][n].status # "none",
                      NEW k \in 1..made'[inbox'[r][n].event[1]]
               PROVE  (\/ \E m \in Box(r) : m < n /\ inbox[r][m].event = <<inbox[r][n].event[1], k>>
                       \/ Has(r, <<inbox[r][n].event[1], k>>))'
    BY DEF ReachesEnd
  <2>1. PICK e : e = <<inbox[r][n].event[1], k>> OBVIOUS
  <2>2. pc[r] # "following"
    <3>1. inbox[r] \in Seq(Messages) BY Typed
    <3>2. Len(inbox[r]) # 0 BY <3>1
    <3>3. inbox[r] # <<>> BY <3>2
    <3> QED BY <3>3 DEF Roles
  <2>3. Subscribed(r) BY <2>2 DEF Moves, Subscribed
  <2>4. (\E m \in Box(r) : m < n /\ inbox[r][m].event = e) \/ Has(r, e)
    BY <2>1, <2>3 DEF Follows, ReachesEnd
  <2>5. pc'[r] \in {"subscribed", "replaying"} <=> pc[r] \in {"subscribed", "replaying"}
    BY <2>2, <2>3 DEF Moves, Subscribed
  <2>6. Has(r, e) => Has(r, e)'
    <3>1. InList(e) /\ pc[r] \in {"subscribed", "replaying"} => InList(e)' BY DEF InList
    <3>2. Emitted(r, e) => Emitted(r, e)' BY <1>1 DEF Emitted
    <3> QED BY <2>5, <3>1, <3>2 DEF Has
  <2>7. CASE \E m \in Box(r) : m < n /\ inbox[r][m].event = e BY <1>1, <2>1, <2>7
  <2>8. CASE Has(r, e)'
    <3>1. e = <<inbox'[r][n].event[1], k>> BY <2>1
    <3> QED BY <2>8, <3>1 DEF Has, InList, Emitted
  <2> QED BY <2>4, <2>6, <2>7, <2>8
<1>8. Finished(r)'
  <2> SUFFICES ASSUME ended'[r] = "done", via'[r] = "channel"
               PROVE  (\E l \in Requests : made[l] = Events /\ \A k \in 1..Events : Emitted(r, <<l, k>>))'
    BY DEF Finished
  <2>1. ended[r] = "done" /\ via[r] = "channel" BY DEF Moves
  <2>2. PICK l \in Requests : made[l] = Events /\ \A k \in 1..Events : Emitted(r, <<l, k>>)
    BY <2>1 DEF Follows, Finished
  <2>3. \A k \in 1..Events : Emitted(r, <<l, k>>)' BY <1>1, <2>2 DEF Emitted
  <2> QED BY <2>2, <2>3
<1> QED BY <1>3, <1>4, <1>5, <1>6, <1>7, <1>8 DEF Follows

(* All events there are have been made. *)
LEMMA AllMade ==
    ASSUME TypeOK, Wired, Once, NEW r \in Requests
    PROVE  /\ \A i \in C : Ev(i) \in Event /\ Made(Ev(i)) /\ Ev(i)[2] \in Nat /\ Ev(i)[2] >= 1
           /\ \A p \in P : chunks[p] \in Event /\ Made(chunks[p])
           /\ \A n \in Box(r) : /\ inbox[r][n].event \in Event /\ Made(inbox[r][n].event)
                                /\ inbox[r][n].event[2] \in Nat /\ inbox[r][n].event[2] >= 1
           /\ \A p \in Q(r) : out[r][p] \in Event /\ Made(out[r][p]) /\ out[r][p][2] \in Nat
<1>1. \A e \in Event : e[1] \in Requests /\ e[2] \in Nat BY MuxAssumption DEF Event
<1>2. \A e \in Event : Made(e) => e[2] >= 1
  <2>1. \A l \in Requests : made[l] \in Nat BY Typed, MuxAssumption
  <2> QED BY <1>1, <2>1 DEF Made
<1>3. \A i \in C : Ev(i) \in Event /\ Made(Ev(i))
  <2>1. \A i \in C : i \in W /\ Says(wire[i]) /\ wire[i].op \in EventOps BY DEF C, Wired
  <2> QED BY <2>1, EventTypes DEF Says, Ev
<1>4. \A p \in P : chunks[p] \in Event /\ Made(chunks[p]) BY EventTypes DEF Once, Distinct
<1>5. \A n \in Box(r) : inbox[r][n].event \in Event /\ Made(inbox[r][n].event)
  <2>1. BoxOnce(r) BY DEF Once
  <2> QED BY <2>1, EventTypes DEF BoxOnce, Box
<1>6. \A p \in Q(r) : out[r][p] \in Event /\ Made(out[r][p])
  <2>1. OutOnce(r) BY DEF Once
  <2> QED BY <2>1, EventTypes DEF OutOnce
<1> QED BY <1>1, <1>2, <1>3, <1>4, <1>5, <1>6

(* The leader's next event comes after all others. *)
LEMMA FollowsProduce ==
    ASSUME TypeOK, TypeOK', Wired, Roles, Once, Marked, Undisturbed, NEW r \in Requests, Follows(r),
           NEW x \in Requests, Produce(x), \A l \in Requests : Live(l)' => Live(l) \/ made'[l] = 0
    PROVE  Follows(r)'
<1>1. /\ pc[x] = "leading" /\ made[x] \in Nat /\ made[x] < Events
      /\ UNCHANGED <<chunks, pc, inbox, watermark, out, via, ended>>
      /\ made' = [made EXCEPT ![x] = made[x] + 1]
  BY ProduceEffect
<1>2. PICK c \in Commands :
         /\ Added(c) /\ c.op = "rpush" /\ c.by = x
         /\ c.msg.event = <<x, made[x] + 1>> /\ c.msg.seq = NoSeq /\ c.msg.status = "none"
  BY ProduceSends
<1>3. /\ made'[x] = made[x] + 1 /\ \A l \in Requests : l # x => made'[l] = made[l]
      /\ \A l \in Requests : made[l] \in Nat
  BY <1>1, Typed, MuxAssumption
<1>4. /\ \A i \in C' : (i \in C /\ wire'[i] = wire[i]) \/ wire'[i] = c
      /\ Len(wire) + 1 \in C' /\ wire'[Len(wire) + 1] = c /\ \A i \in C : i \in C' /\ wire'[i] = wire[i]
  <2>1. \A i \in C' : (i \in C /\ wire'[i] = wire[i]) \/ wire'[i] = c BY <1>2, CarriedOn
  <2>2. /\ Len(wire) + 1 \in W' /\ wire'[Len(wire) + 1] = c
        /\ \A i \in W : i \in W' /\ wire'[i] = wire[i]
    BY <1>2, WirePlaces
  <2> QED BY <1>2, <2>1, <2>2 DEF C, EventOps
<1>5. \A e \in Event : Made(e) => Before(e, c.msg.event)
  <2> SUFFICES ASSUME NEW e \in Event, Made(e) PROVE Before(e, c.msg.event) OBVIOUS
  <2>1. CASE made[x] = 0 BY <1>2, <2>1 DEF Before
  <2>2. CASE made[x] > 0
    <3>1. e[1] = x /\ e[2] \in Nat /\ e[2] <= made[e[1]] BY <2>2, SameMaker
    <3> QED BY <1>1, <1>2, <3>1 DEF Before
  <2> QED BY <1>1, <2>1, <2>2
<1>6. Box(r)' = Box(r) /\ Q(r)' = Q(r) BY <1>1 DEF Box, Q
<1>7. BoxOrder(r)'
  <2>1. BoxOrder(r) BY DEF Follows
  <2>2. \A n \in Box(r), i \in C' : Before(inbox[r][n].event, wire'[i].msg.event)
    BY <1>4, <1>5, <2>1, AllMade DEF BoxOrder, Ev
  <2> QED BY <1>1, <1>6, <2>1, <2>2 DEF BoxOrder, Ev, Before
<1>8. OutOrder(r)'
  <2>1. OutOrder(r) BY DEF Follows
  <2>2. \A p \in Q(r), i \in C' : Before(out[r][p], wire'[i].msg.event) \/ Duplicate(r, wire'[i].msg)
    BY <1>4, <1>5, <2>1, AllMade DEF OutOrder, Ev
  <2>3. \A m : Duplicate(r, m) => m.seq # NoSeq /\ m.seq <= watermark'[r] BY <1>1 DEF Duplicate
  <2>4. \A p, q \in Q(r) : p < q => Before(out'[r][p], out'[r][q]) BY <1>1, <2>1 DEF OutOrder
  <2>5. \A p \in Q(r), n \in Box(r) :
           \/ Before(out'[r][p], inbox'[r][n].event)
           \/ inbox'[r][n].seq # NoSeq /\ inbox'[r][n].seq <= watermark'[r]
    BY <1>1, <2>1, <2>3 DEF OutOrder
  <2>6. \A p \in Q(r), i \in C' :
           \/ Before(out'[r][p], wire'[i].msg.event)
           \/ wire'[i].msg.seq # NoSeq /\ wire'[i].msg.seq <= watermark'[r]
    BY <1>1, <2>2, <2>3
  <2> QED BY <1>6, <2>4, <2>5, <2>6 DEF OutOrder, Ev, Before, Duplicate
<1>9. Replayed(r)' BY <1>1, <1>6 DEF Follows, Replayed
<1>10. Reaches(r)'
  <2> SUFFICES ASSUME pc'[r] \in {"getting", "waiting"}, NEW l \in Requests, Live(l)',
                      NEW k \in 1..made'[l]
               PROVE  (Carried(<<l, k>>) \/ InBox(r, <<l, k>>) \/ Emitted(r, <<l, k>>))'
    BY DEF Reaches
  <2>1. CASE l = x /\ k = made[x] + 1
    <3>1. wire'[Len(wire) + 1].msg.event = <<l, k>> BY <1>2, <1>4, <2>1
    <3> QED BY <1>4, <3>1 DEF Carried, Ev
  <2>2. CASE ~(l = x /\ k = made[x] + 1)
    <3>1. k \in 1..made[l] BY <1>3, <2>2
    <3>2. Live(l) BY <1>1, <1>3, <3>1 DEF Live
    <3>3. Carried(<<l, k>>) \/ InBox(r, <<l, k>>) \/ Emitted(r, <<l, k>>)
      BY <1>1, <3>1, <3>2 DEF Follows, Reaches
    <3>4. Carried(<<l, k>>) => Carried(<<l, k>>)' BY <1>4 DEF Carried, Ev
    <3>5. InBox(r, <<l, k>>) => InBox(r, <<l, k>>)' BY <1>1, <1>6 DEF InBox
    <3>6. Emitted(r, <<l, k>>) => Emitted(r, <<l, k>>)' BY <1>1, <1>6 DEF Emitted
    <3> QED BY <3>3, <3>4, <3>5, <3>6
  <2> QED BY <2>1, <2>2
<1>11. ReachesEnd(r)'
  <2> SUFFICES ASSUME Subscribed(r)', NEW n \in 1..Len(inbox'[r]), inbox'[r][n].status # "none",
                      NEW k \in 1..made'[inbox'[r][n].event[1]]
               PROVE  (\/ \E m \in Box(r) : m < n /\ inbox[r][m].event = <<inbox[r][n].event[1], k>>
                       \/ Has(r, <<inbox[r][n].event[1], k>>))'
    BY DEF ReachesEnd
  <2>1. PICK e : e = <<inbox[r][n].event[1], k>> OBVIOUS
  <2>2. n \in 1..Len(inbox[r]) /\ inbox[r][n].status # "none" /\ inbox'[r] = inbox[r] BY <1>1
  <2>3. inbox[r][n].event[1] \in Requests BY <2>2, EventTypes, MessageTypes
  <2>4. pc[inbox[r][n].event[1]] = "ended" BY <2>2 DEF Marked, Over
  <2>5. k \in 1..made[inbox[r][n].event[1]] BY <1>1, <1>3, <2>2, <2>3, <2>4
  <2>6. (\E m \in Box(r) : m < n /\ inbox[r][m].event = e) \/ Has(r, e)
    BY <1>1, <2>1, <2>2, <2>5 DEF Follows, ReachesEnd, Subscribed
  <2>7. CASE \E m \in Box(r) : m < n /\ inbox[r][m].event = e BY <1>6, <2>1, <2>2, <2>7
  <2>8. CASE Has(r, e)
    <3>1. e = <<inbox'[r][n].event[1], k>> BY <2>1, <2>2
    <3> QED BY <1>1, <2>8, <3>1 DEF Has, InList, Emitted, P, Q
  <2> QED BY <2>6, <2>7, <2>8
<1>12. Finished(r)'
  <2> SUFFICES ASSUME ended'[r] = "done", via'[r] = "channel"
               PROVE  (\E l \in Requests : made[l] = Events /\ \A k \in 1..Events : Emitted(r, <<l, k>>))'
    BY DEF Finished
  <2>1. PICK l \in Requests : made[l] = Events /\ \A k \in 1..Events : Emitted(r, <<l, k>>)
    BY <1>1 DEF Follows, Finished
  <2>2. l # x BY <1>1, <2>1
  <2>3. \A k \in 1..Events : Emitted(r, <<l, k>>)' BY <1>1, <1>6, <2>1 DEF Emitted
  <2> QED BY <1>3, <2>1, <2>2, <2>3
<1> QED BY <1>7, <1>8, <1>9, <1>10, <1>11, <1>12 DEF Follows

(* The list is the first part of the generation. *)
LEMMA ListHas ==
    ASSUME TypeOK, Wired, Once, Undisturbed, Pushing, NEW l \in Requests, NEW k \in 1..made[l],
           k <= Len(chunks)
    PROVE  k \in P /\ chunks[k] = <<l, k>>
<1>1. made[l] \in Nat /\ made[l] > 0 /\ Len(chunks) \in Nat BY Typed, MuxAssumption
<1>2. k \in P BY <1>1 DEF P
<1>3. chunks[k] \in Event /\ Made(chunks[k]) BY <1>2, AllMade
<1>4. chunks[k][1] = l /\ chunks[k] = <<chunks[k][1], chunks[k][2]>> BY <1>1, <1>3, SameMaker
<1>5. chunks[k][2] = k BY <1>2 DEF Pushing
<1> QED BY <1>2, <1>4, <1>5

(* A follower replays the list: the rest of the generation is on the wire.     *)
LEMMA FollowsLrange ==
    ASSUME TypeOK, Wired, Roles, Once, Undisturbed, Pushing, Publishing, NEW r \in Requests, Follows(r),
           Lrange, wire[1].by = r, \A l \in Requests : Live(l)' => Live(l) \/ made'[l] = 0
    PROVE  Follows(r)'
<1>1. /\ wire # <<>> /\ UNCHANGED <<chunks, made, inbox, via, ended>>
      /\ out' = [out EXCEPT ![r] = chunks]
      /\ watermark' = [watermark EXCEPT ![r] = Len(chunks) - 1]
      /\ pc' = [pc EXCEPT ![r] = "getting"]
  BY LrangeEffect
<1>2. /\ out'[r] = chunks /\ watermark'[r] = Len(chunks) - 1 /\ pc'[r] = "getting"
      /\ Len(chunks) \in Nat /\ \A l \in Requests : made[l] \in Nat
  BY <1>1, Typed, MuxAssumption
<1>3. pc[r] = "replaying"
  <2>1. 1 \in W /\ Says(wire[1]) BY <1>1, Oldest DEF Wired
  <2>2. wire[1].op = "lrange" BY LrangeEffect
  <2> QED BY <2>1, <2>2 DEF Says
<1>4. \E c \in Commands : Replaced(c) /\ c.op = "get" BY LrangeEffect
<1>5. \E d \in {0, 1} : Moved(d) BY <1>4, QueriesMove DEF Queries
<1>6. \A i \in C' : \E k \in C : wire'[i] = wire[k] BY <1>5, MovedPlaces
<1>7. Box(r)' = Box(r) /\ Q(r)' = P BY <1>1, <1>2 DEF Box, Q, P
<1>8. \A p \in P : p \in Nat /\ p <= Len(chunks) /\ chunks[p][2] = p BY <1>2 DEF P, Pushing
<1>9. BoxOrder(r)'
  <2>1. BoxOrder(r) BY DEF Follows
  <2> QED BY <1>1, <1>6, <1>7, <2>1 DEF BoxOrder, Ev, Before
<1>10. OutOrder(r)'
  <2>1. \A p, q \in P : p < q => Before(chunks[p], chunks[q]) BY <1>8 DEF Before
  <2>2. ASSUME NEW p \in P, NEW n \in Box(r)
        PROVE  \/ Before(chunks[p], inbox[r][n].event)
               \/ inbox[r][n].seq # NoSeq /\ inbox[r][n].seq <= watermark'[r]
    <3>1. inbox[r][n].event[2] \in Nat /\ inbox[r][n].event[2] >= 1 BY AllMade
    <3>2. inbox[r][n].seq = inbox[r][n].event[2] - 1 BY DEF Follows, BoxOrder
    <3>3. CASE inbox[r][n].event[2] <= Len(chunks) BY <1>2, <3>1, <3>2, <3>3 DEF NoSeq
    <3>4. CASE inbox[r][n].event[2] > Len(chunks) BY <1>2, <1>8, <3>1, <3>4 DEF Before
    <3> QED BY <1>2, <3>1, <3>3, <3>4
  <2>3. ASSUME NEW p \in P, NEW i \in C
        PROVE  \/ Before(chunks[p], Ev(i))
               \/ wire[i].msg.seq # NoSeq /\ wire[i].msg.seq <= watermark'[r]
    <3>1. Ev(i)[2] \in Nat /\ Ev(i)[2] >= 1 BY AllMade
    <3>2. CASE wire[i].op = "rpush"
      <4>1. i \in R BY <3>2 DEF C, R
      <4>2. Ev(i)[2] > Len(chunks) BY <4>1 DEF Pushing
      <4> QED BY <1>2, <1>8, <3>1, <4>2 DEF Before
    <3>3. CASE wire[i].op # "rpush"
      <4>1. wire[i].msg.seq = Ev(i)[2] - 1 /\ Ev(i)[2] <= Len(chunks) BY <3>3 DEF Publishing
      <4> QED BY <1>2, <3>1, <4>1 DEF NoSeq
    <3> QED BY <3>2, <3>3
  <2>4. \A p, q \in P : p < q => Before(out'[r][p], out'[r][q]) BY <1>2, <2>1
  <2>5. \A p \in P, n \in Box(r) :
           \/ Before(out'[r][p], inbox'[r][n].event)
           \/ inbox'[r][n].seq # NoSeq /\ inbox'[r][n].seq <= watermark'[r]
    BY <1>1, <1>2, <2>2
  <2>6. \A p \in P, i \in C' :
           \/ Before(out'[r][p], wire'[i].msg.event)
           \/ wire'[i].msg.seq # NoSeq /\ wire'[i].msg.seq <= watermark'[r]
    <3>1. ASSUME NEW p \in P, NEW i \in C'
          PROVE  \/ Before(out'[r][p], wire'[i].msg.event)
                 \/ wire'[i].msg.seq # NoSeq /\ wire'[i].msg.seq <= watermark'[r]
      <4>1. PICK k \in C : wire'[i] = wire[k] BY <1>6
      <4>2. Before(chunks[p], Ev(k)) \/ (wire[k].msg.seq # NoSeq /\ wire[k].msg.seq <= watermark'[r])
        BY <2>3
      <4> QED BY <1>2, <4>1, <4>2 DEF Ev
    <3> QED BY <3>1
  <2> QED BY <1>7, <2>4, <2>5, <2>6 DEF OutOrder, Ev, Before, Duplicate
<1>11. Replayed(r)'
  <2>1. \A p \in P : out'[r][p][2] = p BY <1>2, <1>8
  <2>2. watermark'[r] + 1 = Len(out'[r]) /\ 1..(watermark'[r] + 1) = P BY <1>2 DEF P
  <2> QED BY <1>2, <1>7, <2>1, <2>2 DEF Replayed
<1>12. \A e : InList(e) => Emitted(r, e)' BY <1>2, <1>7 DEF InList, Emitted
<1>13. Reaches(r)'
  <2> SUFFICES ASSUME NEW l \in Requests, Live(l)', NEW k \in 1..made'[l]
               PROVE  (Carried(<<l, k>>) \/ InBox(r, <<l, k>>) \/ Emitted(r, <<l, k>>))'
    BY DEF Reaches
  <2>1. Live(l) /\ k \in 1..made[l] /\ k \in Nat BY <1>1, <1>2
  <2>2. CASE k <= Len(chunks)
    <3>1. k \in P /\ chunks[k] = <<l, k>> BY <2>1, <2>2, ListHas
    <3>2. Emitted(r, <<l, k>>)' BY <1>12, <3>1 DEF InList
    <3> QED BY <3>2
  <2>3. CASE k > Len(chunks)
    <3>1. k \in (Len(chunks) + 1)..made[l] BY <1>2, <2>1, <2>3
    <3>2. PICK i \in R : Ev(i) = <<l, k>> BY <2>1, <3>1 DEF Pushing
    <3>3. wire[1].op # "rpush" BY LrangeEffect
    <3>4. i \in W /\ i # 1 /\ wire[i].op = "rpush" BY <3>2, <3>3 DEF R
    <3>5. i - 1 \in W' /\ wire'[i - 1] = wire[i] BY <1>4, <3>4, WireRemains
    <3>6. i - 1 \in C' /\ wire'[i - 1].msg.event = <<l, k>> BY <3>2, <3>4, <3>5 DEF C, EventOps, Ev
    <3> QED BY <3>6 DEF Carried, Ev
  <2> QED BY <1>2, <2>1, <2>2, <2>3
<1>14. ReachesEnd(r)'
  <2> SUFFICES ASSUME NEW n \in 1..Len(inbox'[r]), inbox'[r][n].status # "none",
                      NEW k \in 1..made'[inbox'[r][n].event[1]]
               PROVE  (\/ \E m \in Box(r) : m < n /\ inbox[r][m].event = <<inbox[r][n].event[1], k>>
                       \/ Has(r, <<inbox[r][n].event[1], k>>))'
    BY DEF ReachesEnd
  <2>1. PICK e : e = <<inbox[r][n].event[1], k>> OBVIOUS
  <2>2. (\E m \in Box(r) : m < n /\ inbox[r][m].event = e) \/ Has(r, e)
    BY <1>1, <1>3, <2>1 DEF Follows, ReachesEnd, Subscribed
  <2>3. CASE \E m \in Box(r) : m < n /\ inbox[r][m].event = e BY <1>1, <1>7, <2>1, <2>3
  <2>4. CASE Has(r, e)
    <3>1. e = <<inbox'[r][n].event[1], k>> BY <1>1, <2>1
    <3>2. Emitted(r, e)' BY <1>3, <1>12, <2>4 DEF Has
    <3> QED BY <1>2, <3>1, <3>2 DEF Has, Emitted
  <2> QED BY <2>2, <2>3, <2>4
<1>15. Finished(r)'
  <2>1. ended'[r] # "done" BY <1>1, <1>3 DEF Roles
  <2> QED BY <2>1 DEF Finished
<1> QED BY <1>9, <1>10, <1>11, <1>13, <1>14, <1>15 DEF Follows

(* The end of a generation is published after all of its events. *)
LEMMA EndIsLast ==
    ASSUME TypeOK, EndsLast, wire # <<>>, wire[1].op = "publishEnd"
    PROVE  C = {} /\ 1 \in EndsOn
<1>1. 1 \in EndsOn BY Oldest DEF EndsOn, EndOps
<1>2. ASSUME NEW i \in C PROVE FALSE
  <2>1. i \in Nat /\ i >= 1 /\ Hops(wire[i]) \in {1, 2, 3} BY HopsLeft DEF C, W
  <2>2. Hops(wire[1]) = 1 BY HopsLeft
  <2> QED BY <1>1, <2>1, <2>2 DEF EndsLast
<1> QED BY <1>1, <1>2

(* A follower's subscription receives an event, or the end. *)
LEMMA FollowsPublish ==
    ASSUME TypeOK, Wired, Roles, Once, Marked, Undisturbed, Pushing, Publishing, EndsLast,
           NEW r \in Requests, Follows(r), Subscribed(r), Publish,
           \A l \in Requests : Live(l)' => Live(l) \/ made'[l] = 0
    PROVE  Follows(r)'
<1>1. /\ wire # <<>> /\ wire[1].op \in {"publish", "publishEnd"} /\ wire[1].msg \in Messages /\ Popped
      /\ UNCHANGED <<chunks, pc, made, watermark, out, via, ended>>
      /\ inbox'[r] = Append(inbox[r], wire[1].msg)
  BY PublishEffect
<1>2. 1 \in W /\ Says(wire[1]) BY <1>1, Oldest DEF Wired
<1>3. PICK L \in Nat : L = Len(inbox[r]) /\ inbox[r] \in Seq(Messages) BY Typed
<1>4. /\ Len(inbox'[r]) = L + 1 /\ inbox'[r][L + 1] = wire[1].msg
      /\ \A n \in 1..L : inbox'[r][n] = inbox[r][n]
  BY <1>1, <1>3, AppendProperties
<1>5. \A n \in 1..Len(inbox'[r]) :
         \/ n \in 1..L /\ inbox'[r][n] = inbox[r][n]
         \/ n = L + 1 /\ inbox'[r][n] = wire[1].msg
  BY <1>3, <1>4
<1>6. \A n \in Box(r) : n \in Box(r)' /\ inbox'[r][n] = inbox[r][n] /\ n \in 1..L
  BY <1>3, <1>4 DEF Box
<1>7. wire[1].msg.status = "none" => 1 \in Pub /\ 1 \in C /\ L + 1 \in Box(r)'
  BY <1>1, <1>2, <1>3, <1>4 DEF Says, Statuses, EndOps, Pub, C, EventOps, Box
<1>8. \A n \in Box(r)' : \/ n \in Box(r) /\ n \in 1..L /\ inbox'[r][n] = inbox[r][n]
                         \/ n = L + 1 /\ inbox'[r][n] = wire[1].msg /\ wire[1].msg.status = "none"
  BY <1>3, <1>5 DEF Box
<1>9. \A i \in C' : i + 1 \in C /\ i + 1 > 1 /\ wire'[i] = wire[i + 1]
  <2>1. \A i \in C' : i \in Nat /\ i >= 1 BY DEF C, W
  <2> QED BY <1>1, <2>1, CarriedOn
<1>10. \A i \in C : i # 1 => i - 1 \in C' /\ wire'[i - 1] = wire[i]
  BY <1>1, WireRemains DEF C
<1>11. Q(r)' = Q(r) BY <1>1 DEF Q
<1>12. BoxOrder(r) BY DEF Follows
<1>13. BoxOrder(r)'
  <2>1. ASSUME NEW n \in Box(r)' PROVE inbox'[r][n].seq = inbox'[r][n].event[2] - 1
    <3>1. CASE n \in Box(r) /\ inbox'[r][n] = inbox[r][n] BY <1>12, <3>1 DEF BoxOrder
    <3>2. CASE inbox'[r][n] = wire[1].msg /\ wire[1].msg.status = "none"
      BY <1>7, <3>2 DEF Publishing, Pub, Ev
    <3> QED BY <1>8, <3>1, <3>2
  <2>2. ASSUME NEW n \in Box(r)', NEW m \in Box(r)', n < m
        PROVE  Before(inbox'[r][n].event, inbox'[r][m].event)
    <3>1. n \in Box(r) /\ n \in 1..L /\ inbox'[r][n] = inbox[r][n]
      <4>1. m <= L + 1 /\ m \in Nat /\ n \in Nat BY <1>3, <1>4 DEF Box
      <4> QED BY <1>3, <1>8, <2>2, <4>1
    <3>2. CASE m \in Box(r) /\ inbox'[r][m] = inbox[r][m] BY <1>12, <2>2, <3>1, <3>2 DEF BoxOrder
    <3>3. CASE inbox'[r][m] = wire[1].msg /\ wire[1].msg.status = "none"
      BY <1>7, <1>12, <3>1, <3>3 DEF BoxOrder, Ev
    <3> QED BY <1>8, <3>2, <3>3
  <2>3. ASSUME NEW n \in Box(r)', NEW i \in C' PROVE Before(inbox'[r][n].event, wire'[i].msg.event)
    <3>1. i + 1 \in C /\ i + 1 > 1 /\ wire'[i] = wire[i + 1] BY <1>9
    <3>2. CASE n \in Box(r) /\ inbox'[r][n] = inbox[r][n] BY <1>12, <3>1, <3>2 DEF BoxOrder, Ev
    <3>3. CASE inbox'[r][n] = wire[1].msg /\ wire[1].msg.status = "none"
      <4>1. 1 \in Pub /\ 1 \in C /\ wire[1].op # "rpush" BY <1>7, <3>3 DEF Pub
      <4>2. Ev(1)[2] <= Len(chunks) /\ Ev(1)[2] \in Nat /\ Len(chunks) \in Nat
        BY <4>1, AllMade, Typed DEF Publishing
      <4>3. Ev(i + 1)[2] \in Nat BY <3>1, AllMade
      <4>4. CASE wire[i + 1].op = "publish"
        <5>1. i + 1 \in Pub BY <3>1, <4>4 DEF Pub, C
        <5>2. Before(Ev(1), Ev(i + 1)) BY <3>1, <4>1, <5>1 DEF Publishing
        <5> QED BY <3>1, <3>3, <5>2 DEF Ev
      <4>5. CASE wire[i + 1].op = "expireFirst"
        <5>1. Ev(i + 1)[2] = 1 BY <3>1, <4>5 DEF Publishing
        <5> QED BY <3>1, <5>1 DEF Ev, Before
      <4>6. CASE wire[i + 1].op = "rpush"
        <5>1. i + 1 \in R BY <3>1, <4>6 DEF R, C
        <5>2. Ev(i + 1)[2] > Len(chunks) BY <5>1 DEF Pushing
        <5> QED BY <3>1, <3>3, <4>2, <4>3, <5>2 DEF Ev, Before
      <4> QED BY <3>1, <4>4, <4>5, <4>6 DEF C, EventOps
    <3> QED BY <1>8, <3>2, <3>3
  <2> QED BY <2>1, <2>2, <2>3 DEF BoxOrder, Ev, Before
<1>14. OutOrder(r)'
  <2>1. OutOrder(r) BY DEF Follows
  <2>2. \A m : Duplicate(r, m) => m.seq # NoSeq /\ m.seq <= watermark'[r] BY <1>1 DEF Duplicate
  <2>3. ASSUME NEW p \in Q(r), NEW n \in Box(r)'
        PROVE  \/ Before(out'[r][p], inbox'[r][n].event)
               \/ inbox'[r][n].seq # NoSeq /\ inbox'[r][n].seq <= watermark'[r]
    <3>1. CASE n \in Box(r) /\ inbox'[r][n] = inbox[r][n]
      <4>1. Before(out[r][p], inbox[r][n].event) \/ Duplicate(r, inbox[r][n]) BY <2>1, <3>1 DEF OutOrder
      <4> QED BY <1>1, <2>2, <3>1, <4>1
    <3>2. CASE inbox'[r][n] = wire[1].msg /\ wire[1].msg.status = "none"
      <4>1. Before(out[r][p], Ev(1)) \/ Duplicate(r, wire[1].msg) BY <1>7, <2>1, <3>2 DEF OutOrder
      <4> QED BY <1>1, <2>2, <3>2, <4>1 DEF Ev
    <3> QED BY <1>8, <3>1, <3>2
  <2>4. ASSUME NEW p \in Q(r), NEW i \in C'
        PROVE  \/ Before(out'[r][p], wire'[i].msg.event)
               \/ wire'[i].msg.seq # NoSeq /\ wire'[i].msg.seq <= watermark'[r]
    <3>1. i + 1 \in C /\ wire'[i] = wire[i + 1] BY <1>9
    <3>2. Before(out[r][p], Ev(i + 1)) \/ Duplicate(r, wire[i + 1].msg) BY <2>1, <3>1 DEF OutOrder
    <3> QED BY <1>1, <2>2, <3>1, <3>2 DEF Ev
  <2>5. \A p, q \in Q(r) : p < q => Before(out'[r][p], out'[r][q]) BY <1>1, <2>1 DEF OutOrder
  <2> QED BY <1>11, <2>3, <2>4, <2>5 DEF OutOrder, Ev, Before, Duplicate
<1>15. Replayed(r)' BY <1>1, <1>11 DEF Follows, Replayed
<1>16. Reaches(r)'
  <2> SUFFICES ASSUME pc'[r] \in {"getting", "waiting"}, NEW l \in Requests, Live(l)',
                      NEW k \in 1..made'[l]
               PROVE  (Carried(<<l, k>>) \/ InBox(r, <<l, k>>) \/ Emitted(r, <<l, k>>))'
    BY DEF Reaches
  <2>1. made[l] \in Nat BY Typed, MuxAssumption
  <2>2. Live(l) /\ k \in 1..made[l] BY <1>1, <2>1
  <2>3. Carried(<<l, k>>) \/ InBox(r, <<l, k>>) \/ Emitted(r, <<l, k>>)
    BY <1>1, <2>2 DEF Follows, Reaches
  <2>4. ASSUME Carried(<<l, k>>) PROVE Carried(<<l, k>>)' \/ InBox(r, <<l, k>>)'
    <3>1. PICK i \in C : Ev(i) = <<l, k>> BY <2>4 DEF Carried
    <3>2. CASE i = 1
      <4>1. wire[1].msg.status = "none" BY <1>2, <3>1, <3>2 DEF C, Says
      <4>2. L + 1 \in Box(r)' /\ inbox'[r][L + 1].event = <<l, k>> BY <1>4, <1>7, <3>1, <3>2, <4>1 DEF Ev
      <4> QED BY <4>2 DEF InBox
    <3>3. CASE i # 1
      <4>1. i - 1 \in C' /\ wire'[i - 1].msg.event = <<l, k>> BY <1>10, <3>1, <3>3 DEF Ev
      <4> QED BY <4>1 DEF Carried, Ev
    <3> QED BY <3>2, <3>3
  <2>5. InBox(r, <<l, k>>) => InBox(r, <<l, k>>)' BY <1>6 DEF InBox
  <2>6. Emitted(r, <<l, k>>) => Emitted(r, <<l, k>>)' BY <1>1, <1>11 DEF Emitted
  <2> QED BY <2>3, <2>4, <2>5, <2>6
<1>17. ReachesEnd(r)'
  <2> SUFFICES ASSUME NEW n \in 1..Len(inbox'[r]), inbox'[r][n].status # "none",
                      NEW k \in 1..made'[inbox'[r][n].event[1]]
               PROVE  (\/ \E m \in Box(r) : m < n /\ inbox[r][m].event = <<inbox[r][n].event[1], k>>
                       \/ Has(r, <<inbox[r][n].event[1], k>>))'
    BY DEF ReachesEnd
  <2>1. PICK e : e = <<inbox'[r][n].event[1], k>> OBVIOUS
  <2>2. (\E m \in Box(r) : m < n /\ inbox[r][m].event = e) \/ Has(r, e)
    <3>1. CASE n \in 1..L /\ inbox'[r][n] = inbox[r][n]
      BY <1>1, <1>3, <2>1, <3>1 DEF Follows, ReachesEnd
    <3>2. CASE n = L + 1 /\ inbox'[r][n] = wire[1].msg
      <4>1. wire[1].op = "publishEnd" BY <1>1, <1>2, <3>2 DEF Says, EventOps
      <4>2. C = {} /\ 1 \in EndsOn BY <1>1, <4>1, EndIsLast
      <4>3. PICK l \in Requests : l = Ev(1)[1] BY <1>1, MessageTypes DEF Ev
      <4>4. Live(l) /\ e = <<l, k>> /\ k \in 1..made[l]
        BY <1>1, <2>1, <3>2, <4>2, <4>3 DEF Live, Ev
      <4>5. CASE pc[r] \in {"getting", "waiting"}
        <5>1. Carried(e) \/ InBox(r, e) \/ Emitted(r, e) BY <4>4, <4>5 DEF Follows, Reaches
        <5>2. ~Carried(e) BY <4>2 DEF Carried
        <5>3. InBox(r, e) => \E m \in Box(r) : m < n /\ inbox[r][m].event = e
          <6>1. \A m \in Box(r) : m < n BY <1>3, <1>6, <3>2
          <6> QED BY <6>1 DEF InBox
        <5>4. Emitted(r, e) => Has(r, e) BY <4>5 DEF Has
        <5> QED BY <5>1, <5>2, <5>3, <5>4
      <4>6. CASE pc[r] \in {"subscribed", "replaying"}
        <5>1. k \in Nat /\ Len(chunks) \in Nat /\ made[l] \in Nat BY <4>4, Typed, MuxAssumption
        <5>2. k <= Len(chunks)
          <6>1. SUFFICES ASSUME k > Len(chunks) PROVE FALSE BY <5>1
          <6>2. k \in (Len(chunks) + 1)..made[l] BY <4>4, <5>1, <6>1
          <6>3. \E i \in R : Ev(i) = <<l, k>> BY <4>4, <6>2 DEF Pushing
          <6>4. R \subseteq C BY DEF R, C, EventOps
          <6> QED BY <4>2, <6>3, <6>4
        <5>3. k \in P /\ chunks[k] = <<l, k>> BY <4>4, <5>2, ListHas
        <5> QED BY <4>4, <4>6, <5>3 DEF Has, InList
      <4> QED BY <4>5, <4>6 DEF Subscribed
    <3> QED BY <1>5, <3>1, <3>2
  <2>3. CASE \E m \in Box(r) : m < n /\ inbox[r][m].event = e
    <3>1. PICK m \in Box(r) : m < n /\ inbox[r][m].event = e BY <2>3
    <3>2. m \in Box(r)' /\ inbox'[r][m].event = <<inbox'[r][n].event[1], k>> BY <1>6, <2>1, <3>1
    <3> QED BY <3>1, <3>2
  <2>4. CASE Has(r, e) BY <1>1, <1>11, <2>1, <2>4 DEF Has, InList, Emitted, P
  <2> QED BY <2>2, <2>3, <2>4
<1>18. Finished(r)'
  <2>1. via'[r] # "channel" BY <1>1 DEF Roles, Subscribed
  <2> QED BY <2>1 DEF Finished
<1> QED BY <1>13, <1>14, <1>15, <1>16, <1>17, <1>18 DEF Follows

(* A follower reads a message: its event has then been emitted. *)
LEMMA TakenIsEmitted ==
    ASSUME TypeOK, Wired, Once, Undisturbed, NEW r \in Requests, Follows(r), TakeMessage(r),
           inbox[r][1].status = "none"
    PROVE  /\ \E p \in Q(r)' : out'[r][p] = inbox[r][1].event
           /\ \A e : Emitted(r, e) => \E p \in Q(r)' : out'[r][p] = e
<1>1. /\ pc[r] = "waiting" /\ 1 \in 1..Len(inbox[r])
      /\ \/ Duplicate(r, inbox[r][1]) /\ out'[r] = out[r]
         \/ /\ Len(out'[r]) = Len(out[r]) + 1 /\ out'[r][Len(out[r]) + 1] = inbox[r][1].event
            /\ \A p \in Q(r) : out'[r][p] = out[r][p]
  BY TakeEffect
<1>2. Len(out[r]) \in Nat BY EventTypes
<1>3. CASE Duplicate(r, inbox[r][1]) /\ out'[r] = out[r]
  <2>1. 1 \in Box(r) BY <1>1 DEF Box
  <2>2. PICK k \in Nat : k = inbox[r][1].event[2] /\ k >= 1 BY <2>1, AllMade
  <2>3. inbox[r][1].seq = k - 1 BY <2>1, <2>2 DEF Follows, BoxOrder
  <2>4. watermark[r] \in Int /\ k - 1 <= watermark[r] BY <1>3, <2>3, Typed DEF Duplicate, NoSeq
  <2>5. watermark[r] + 1 <= Len(out[r]) /\ \A p \in 1..(watermark[r] + 1) : out[r][p][2] = p
    BY <1>1 DEF Follows, Replayed
  <2>6. k \in Q(r) /\ out[r][k][2] = k
    <3>1. k \in 1..(watermark[r] + 1) BY <2>2, <2>4
    <3>2. out[r][k][2] = k BY <2>5, <3>1
    <3>3. k <= Len(out[r]) BY <1>2, <2>2, <2>4, <2>5
    <3> QED BY <1>2, <2>2, <3>2, <3>3 DEF Q
  <2>7. /\ out[r][k] \in Event /\ Made(out[r][k])
        /\ inbox[r][1].event \in Event /\ Made(inbox[r][1].event)
    BY <2>1, <2>6, AllMade
  <2>8. out[r][k] = inbox[r][1].event BY <2>2, <2>6, <2>7, SameMaker
  <2>9. Q(r)' = Q(r) BY <1>3 DEF Q
  <2> QED BY <1>3, <2>6, <2>8, <2>9 DEF Emitted
<1>4. CASE /\ Len(out'[r]) = Len(out[r]) + 1 /\ out'[r][Len(out[r]) + 1] = inbox[r][1].event
           /\ \A p \in Q(r) : out'[r][p] = out[r][p]
  <2>1. Len(out[r]) + 1 \in Q(r)' /\ \A p \in Q(r) : p \in Q(r)' BY <1>2, <1>4 DEF Q
  <2> QED BY <1>4, <2>1 DEF Emitted
<1> QED BY <1>1, <1>3, <1>4

(* A follower reads a message. *)
LEMMA FollowsTake ==
    ASSUME TypeOK, Wired, Roles, Once, Marked, Calm, NEW r \in Requests, Follows(r), TakeMessage(r),
           \A l \in Requests : Live(l)' => Live(l) \/ made'[l] = 0
    PROVE  Follows(r)'
<1>1. /\ pc[r] = "waiting" /\ 1 \in 1..Len(inbox[r]) /\ UNCHANGED <<chunks, wire, made, watermark>>
      /\ \A n \in 1..Len(inbox'[r]) :
            n + 1 \in 1..Len(inbox[r]) /\ n + 1 # 1 /\ inbox'[r][n] = inbox[r][n + 1]
      /\ Len(inbox'[r]) = Len(inbox[r]) - 1
      /\ \/ /\ inbox[r][1].status # "none" /\ pc'[r] = "ended" /\ via'[r] = "channel"
            /\ ended'[r] = inbox[r][1].status /\ out'[r] = out[r]
         \/ /\ inbox[r][1].status = "none" /\ Duplicate(r, inbox[r][1]) /\ out'[r] = out[r]
            /\ pc'[r] = pc[r] /\ via'[r] = via[r] /\ ended'[r] = ended[r]
         \/ /\ inbox[r][1].status = "none" /\ ~Duplicate(r, inbox[r][1])
            /\ Len(out'[r]) = Len(out[r]) + 1 /\ out'[r][Len(out[r]) + 1] = inbox[r][1].event
            /\ \A p \in Q(r) : out'[r][p] = out[r][p]
            /\ pc'[r] = pc[r] /\ via'[r] = via[r] /\ ended'[r] = ended[r]
  BY TakeEffect
<1>2. Len(out[r]) \in Nat /\ Len(inbox[r]) \in Nat BY EventTypes
<1>3. C' = C BY <1>1 DEF C, W
<1>4. \A n \in Box(r)' : n \in Nat /\ n >= 1 /\ n + 1 \in Box(r) /\ inbox'[r][n] = inbox[r][n + 1]
  BY <1>1 DEF Box
<1>5. \A n \in Box(r) : n # 1 => n \in Nat /\ n - 1 \in Box(r)' /\ inbox'[r][n - 1] = inbox[r][n]
  <2>1. ASSUME NEW n \in Box(r), n # 1
        PROVE  n \in Nat /\ n - 1 \in 1..Len(inbox'[r]) /\ inbox[r][n].status = "none"
    BY <1>1, <1>2, <2>1 DEF Box
  <2>2. ASSUME NEW n \in Box(r), n # 1 PROVE inbox'[r][n - 1] = inbox[r][n]
    <3>1. n \in Nat /\ n - 1 \in 1..Len(inbox'[r]) /\ (n - 1) + 1 = n BY <2>1, <2>2
    <3>2. inbox'[r][n - 1] = inbox[r][(n - 1) + 1] BY <1>1, <3>1
    <3> QED BY <3>1, <3>2
  <2> QED BY <2>1, <2>2 DEF Box
<1>6. BoxOrder(r) /\ OutOrder(r) BY DEF Follows
<1>7. \/ Q(r)' = Q(r) /\ out'[r] = out[r]
      \/ /\ inbox[r][1].status = "none" /\ ~Duplicate(r, inbox[r][1]) /\ 1 \in Box(r)
         /\ Q(r) \subseteq Q(r)'
         /\ \A p \in Q(r)' : \/ p \in Q(r) /\ out'[r][p] = out[r][p]
                             \/ p = Len(out[r]) + 1 /\ out'[r][p] = inbox[r][1].event
         /\ \A p \in Q(r)', q \in Q(r)' : p < q => p \in Q(r) /\ out'[r][p] = out[r][p]
  BY <1>1, <1>2 DEF Q, Box
<1>8. BoxOrder(r)'
  <2>1. ASSUME NEW n \in Box(r)', NEW m \in Box(r)', n < m
        PROVE  Before(inbox'[r][n].event, inbox'[r][m].event)
    <3>1. n + 1 < m + 1 BY <1>4, <2>1
    <3> QED BY <1>4, <1>6, <3>1 DEF BoxOrder
  <2>2. \A n \in Box(r)' : inbox'[r][n].seq = inbox'[r][n].event[2] - 1 BY <1>4, <1>6 DEF BoxOrder
  <2>3. \A n \in Box(r)', i \in C' : Before(inbox'[r][n].event, wire'[i].msg.event)
    BY <1>1, <1>3, <1>4, <1>6 DEF BoxOrder, Ev
  <2> QED BY <2>1, <2>2, <2>3 DEF BoxOrder, Ev, Before
<1>9. OutOrder(r)'
  <2>1. \A m : Duplicate(r, m) => m.seq # NoSeq /\ m.seq <= watermark'[r] BY <1>1 DEF Duplicate
  <2>2. ASSUME NEW p \in Q(r)', NEW q \in Q(r)', p < q PROVE Before(out'[r][p], out'[r][q])
    <3>1. CASE Q(r)' = Q(r) /\ out'[r] = out[r] BY <1>6, <2>2, <3>1 DEF OutOrder
    <3>2. CASE ~(Q(r)' = Q(r) /\ out'[r] = out[r])
      <4>1. p \in Q(r) /\ out'[r][p] = out[r][p] BY <1>7, <2>2, <3>2
      <4>2. CASE q \in Q(r) /\ out'[r][q] = out[r][q] BY <1>6, <2>2, <4>1, <4>2 DEF OutOrder
      <4>3. CASE out'[r][q] = inbox[r][1].event
        <5>1. 1 \in Box(r) /\ ~Duplicate(r, inbox[r][1]) BY <1>7, <3>2
        <5> QED BY <1>6, <4>1, <4>3, <5>1 DEF OutOrder
      <4> QED BY <1>7, <3>2, <4>2, <4>3
    <3> QED BY <3>1, <3>2
  <2>3. ASSUME NEW p \in Q(r)', NEW n \in Box(r)'
        PROVE  \/ Before(out'[r][p], inbox'[r][n].event)
               \/ inbox'[r][n].seq # NoSeq /\ inbox'[r][n].seq <= watermark'[r]
    <3>1. n + 1 \in Box(r) /\ 1 < n + 1 /\ inbox'[r][n] = inbox[r][n + 1] BY <1>4
    <3>2. CASE p \in Q(r) /\ out'[r][p] = out[r][p]
      <4>1. Before(out[r][p], inbox[r][n + 1].event) \/ Duplicate(r, inbox[r][n + 1])
        BY <1>6, <3>1, <3>2 DEF OutOrder
      <4> QED BY <2>1, <3>1, <3>2, <4>1
    <3>3. CASE 1 \in Box(r) /\ out'[r][p] = inbox[r][1].event
      BY <1>6, <3>1, <3>3 DEF BoxOrder
    <3> QED BY <1>7, <3>2, <3>3
  <2>4. ASSUME NEW p \in Q(r)', NEW i \in C
        PROVE  \/ Before(out'[r][p], wire'[i].msg.event)
               \/ wire'[i].msg.seq # NoSeq /\ wire'[i].msg.seq <= watermark'[r]
    <3>1. CASE p \in Q(r) /\ out'[r][p] = out[r][p]
      <4>1. Before(out[r][p], Ev(i)) \/ Duplicate(r, wire[i].msg) BY <1>6, <3>1 DEF OutOrder
      <4> QED BY <1>1, <2>1, <3>1, <4>1 DEF Ev
    <3>2. CASE 1 \in Box(r) /\ out'[r][p] = inbox[r][1].event
      BY <1>1, <1>6, <3>2 DEF BoxOrder, Ev
    <3> QED BY <1>7, <3>1, <3>2
  <2> QED BY <1>3, <2>2, <2>3, <2>4 DEF OutOrder, Ev, Before, Duplicate
<1>10. Replayed(r)'
  <2>1. via[r] = "none" BY <1>1 DEF Roles
  <2>2. ~(pc'[r] = "getting" \/ via'[r] = "result") BY <1>1, <2>1
  <2>3. ASSUME pc'[r] \in {"getting", "waiting"}
        PROVE  watermark'[r] + 1 <= Len(out'[r]) /\ \A p \in 1..(watermark'[r] + 1) : out'[r][p][2] = p
    <3>1. watermark[r] + 1 <= Len(out[r]) /\ \A p \in 1..(watermark[r] + 1) : out[r][p][2] = p
      BY <1>1 DEF Follows, Replayed
    <3>2. watermark[r] \in Int BY Typed DEF NoSeq
    <3>3. Len(out'[r]) >= Len(out[r]) /\ Len(out'[r]) \in Nat BY <1>1, <1>2
    <3>4. \A p \in 1..(watermark[r] + 1) : p \in Q(r) BY <1>2, <3>1, <3>2 DEF Q
    <3>5. \A p \in Q(r) : out'[r][p] = out[r][p] BY <1>1
    <3>6. watermark'[r] = watermark[r] BY <1>1
    <3>7. watermark'[r] + 1 <= Len(out'[r]) BY <1>2, <3>1, <3>2, <3>3, <3>6
    <3>8. \A p \in 1..(watermark'[r] + 1) : out'[r][p][2] = p BY <3>1, <3>4, <3>5, <3>6
    <3> QED BY <3>7, <3>8
  <2> QED BY <2>2, <2>3 DEF Replayed
<1>11. inbox[r][1].status = "none" =>
          /\ \E p \in Q(r)' : out'[r][p] = inbox[r][1].event
          /\ \A e : Emitted(r, e) => \E p \in Q(r)' : out'[r][p] = e
  BY TakenIsEmitted DEF Calm
<1>12. Reaches(r)'
  <2> SUFFICES ASSUME pc'[r] \in {"getting", "waiting"}, NEW l \in Requests, Live(l)',
                      NEW k \in 1..made'[l]
               PROVE  (Carried(<<l, k>>) \/ InBox(r, <<l, k>>) \/ Emitted(r, <<l, k>>))'
    BY DEF Reaches
  <2>1. made[l] \in Nat /\ inbox[r][1].status = "none" BY <1>1, Typed, MuxAssumption
  <2>2. Live(l) /\ k \in 1..made[l] BY <1>1, <2>1
  <2>3. Carried(<<l, k>>) \/ InBox(r, <<l, k>>) \/ Emitted(r, <<l, k>>)
    BY <1>1, <2>2 DEF Follows, Reaches
  <2>4. Carried(<<l, k>>) => Carried(<<l, k>>)' BY <1>1, <1>3 DEF Carried, Ev
  <2>5. Emitted(r, <<l, k>>) => Emitted(r, <<l, k>>)' BY <1>11, <2>1 DEF Emitted
  <2>6. ASSUME InBox(r, <<l, k>>) PROVE (InBox(r, <<l, k>>) \/ Emitted(r, <<l, k>>))'
    <3>1. PICK n \in Box(r) : inbox[r][n].event = <<l, k>> BY <2>6 DEF InBox
    <3>2. CASE n = 1 BY <1>11, <2>1, <3>1, <3>2 DEF Emitted
    <3>3. CASE n # 1
      <4>1. n - 1 \in Box(r)' /\ inbox'[r][n - 1].event = <<l, k>> BY <1>5, <3>1, <3>3
      <4> QED BY <4>1 DEF InBox
    <3> QED BY <3>2, <3>3
  <2> QED BY <2>3, <2>4, <2>5, <2>6
<1>13. ReachesEnd(r)'
  <2> SUFFICES ASSUME Subscribed(r)', NEW n \in 1..Len(inbox'[r]), inbox'[r][n].status # "none",
                      NEW k \in 1..made'[inbox'[r][n].event[1]]
               PROVE  (\/ \E m \in Box(r) : m < n /\ inbox[r][m].event = <<inbox[r][n].event[1], k>>
                       \/ Has(r, <<inbox[r][n].event[1], k>>))'
    BY DEF ReachesEnd
  <2>1. PICK e : e = <<inbox'[r][n].event[1], k>> OBVIOUS
  <2>2. inbox[r][1].status = "none" /\ pc'[r] = "waiting" BY <1>1 DEF Subscribed
  <2>3. n + 1 \in 1..Len(inbox[r]) /\ inbox'[r][n] = inbox[r][n + 1] /\ n \in Nat BY <1>1
  <2>4. (\E m \in Box(r) : m < n + 1 /\ inbox[r][m].event = e) \/ Has(r, e)
    BY <1>1, <2>1, <2>3 DEF Follows, ReachesEnd, Subscribed
  <2>5. CASE Has(r, e)
    <3>1. Emitted(r, e) BY <1>1, <2>5 DEF Has
    <3>2. \E p \in Q(r)' : out'[r][p] = e BY <1>11, <2>2, <3>1
    <3> QED BY <2>1, <2>2, <3>2 DEF Has, Emitted
  <2>6. CASE \E m \in Box(r) : m < n + 1 /\ inbox[r][m].event = e
    <3>1. PICK m \in Box(r) : m < n + 1 /\ inbox[r][m].event = e BY <2>6
    <3>2. CASE m = 1
      <4>1. \E p \in Q(r)' : out'[r][p] = e BY <1>11, <2>2, <3>1, <3>2
      <4> QED BY <2>1, <2>2, <4>1 DEF Has, Emitted
    <3>3. CASE m # 1
      <4>1. m \in Nat /\ m - 1 \in Box(r)' /\ inbox'[r][m - 1].event = e BY <1>5, <3>1, <3>3
      <4>2. m - 1 < n BY <2>3, <3>1, <4>1
      <4> QED BY <2>1, <4>1, <4>2
    <3> QED BY <3>2, <3>3
  <2> QED BY <2>4, <2>5, <2>6
<1>14. Finished(r)'
  <2> SUFFICES ASSUME ended'[r] = "done", via'[r] = "channel"
               PROVE  (\E l \in Requests : made[l] = Events /\ \A k \in 1..Events : Emitted(r, <<l, k>>))'
    BY DEF Finished
  <2>1. /\ inbox[r][1].status = "done" /\ out'[r] = out[r]
    BY <1>1 DEF Roles
  <2>2. PICK l \in Requests : l = inbox[r][1].event[1] BY <1>1, EventTypes, MessageTypes
  <2>3. made[l] = Events BY <1>1, <2>1, <2>2 DEF Marked, Over, Calm
  <2>4. ASSUME NEW k \in 1..Events PROVE Emitted(r, <<l, k>>)
    <3>1. \/ \E m \in Box(r) : m < 1 /\ inbox[r][m].event = <<l, k>>
          \/ Has(r, <<l, k>>)
      BY <1>1, <2>1, <2>2, <2>3 DEF Follows, ReachesEnd, Subscribed
    <3>2. \A m \in Box(r) : ~(m < 1) BY DEF Box
    <3> QED BY <1>1, <3>1, <3>2 DEF Has
  <2>5. \A k \in 1..Events : Emitted(r, <<l, k>>)' BY <2>1, <2>4 DEF Emitted, Q
  <2> QED BY <1>1, <2>3, <2>5
<1> QED BY <1>8, <1>9, <1>10, <1>12, <1>13, <1>14 DEF Follows

(* Where the events on the wire are after a step that publishes none. *)
LEMMA CarriesOn ==
    ASSUME TypeOK,
           \/ wire' = wire
           \/ Popped /\ wire # <<>> /\ wire[1].op \notin EventOps
           \/ /\ wire # <<>>
              /\ \E c \in Commands :
                    /\ Replaced(c)
                    /\ \/ c.op \notin EventOps /\ wire[1].op \notin EventOps
                       \/ /\ c.op \in EventOps /\ wire[1].op \in EventOps
                          /\ c.msg.event = wire[1].msg.event
                          /\ c.msg.seq = wire[1].msg.seq \/ wire[1].msg.seq = NoSeq
           \/ \E c \in Commands : Added(c) /\ c.op \notin EventOps
    PROVE  /\ \A i \in C' : \E k \in C :
                 /\ wire'[i].msg.event = Ev(k)
                 /\ wire'[i].msg.seq = wire[k].msg.seq \/ wire[k].msg.seq = NoSeq
           /\ \A i \in C : \E k \in C' : wire'[k].msg.event = Ev(i)
<1>1. wire # <<>> => 1 \in W BY Oldest
<1>2. CASE wire' = wire BY <1>2 DEF C, W, Ev
<1>3. CASE Popped /\ wire # <<>> /\ wire[1].op \notin EventOps
  <2>1. \A i \in C' : i + 1 \in C /\ wire'[i] = wire[i + 1] BY <1>3, CarriedOn
  <2>2. \A i \in C : i - 1 \in C' /\ wire'[i - 1] = wire[i] BY <1>3, WireRemains DEF C
  <2> QED BY <2>1, <2>2 DEF Ev
<1>4. ASSUME wire # <<>>, NEW c \in Commands, Replaced(c), c.op \notin EventOps, wire[1].op \notin EventOps
      PROVE  /\ \A i \in C' : \E k \in C :
                   /\ wire'[i].msg.event = Ev(k)
                   /\ wire'[i].msg.seq = wire[k].msg.seq \/ wire[k].msg.seq = NoSeq
             /\ \A i \in C : \E k \in C' : wire'[k].msg.event = Ev(i)
  <2>1. \A i \in C' : i + 1 \in C /\ wire'[i] = wire[i + 1] BY <1>4, CarriedOn
  <2>2. \A i \in C : i - 1 \in C' /\ wire'[i - 1] = wire[i] BY <1>4, WireRemains DEF C
  <2> QED BY <2>1, <2>2 DEF Ev
<1>5. ASSUME wire # <<>>, NEW c \in Commands, Replaced(c), c.op \in EventOps, wire[1].op \in EventOps,
             c.msg.event = wire[1].msg.event, c.msg.seq = wire[1].msg.seq \/ wire[1].msg.seq = NoSeq
      PROVE  /\ \A i \in C' : \E k \in C :
                   /\ wire'[i].msg.event = Ev(k)
                   /\ wire'[i].msg.seq = wire[k].msg.seq \/ wire[k].msg.seq = NoSeq
             /\ \A i \in C : \E k \in C' : wire'[k].msg.event = Ev(i)
  <2>1. 1 \in C BY <1>1, <1>5 DEF C
  <2>2. \A i \in C' : (i + 1 \in C /\ wire'[i] = wire[i + 1]) \/ wire'[i] = c BY <1>5, CarriedOn
  <2>3. \A i \in C : i # 1 => i - 1 \in C' /\ wire'[i - 1] = wire[i] BY <1>5, WireRemains DEF C
  <2>4. Len(wire) \in C' /\ wire'[Len(wire)] = c BY <1>5, WireRemains DEF C
  <2>5. ASSUME NEW i \in C'
        PROVE  \E k \in C : /\ wire'[i].msg.event = Ev(k)
                            /\ wire'[i].msg.seq = wire[k].msg.seq \/ wire[k].msg.seq = NoSeq
    BY <1>5, <2>1, <2>2 DEF Ev
  <2>6. ASSUME NEW i \in C PROVE \E k \in C' : wire'[k].msg.event = Ev(i)
    BY <1>5, <2>3, <2>4 DEF Ev
  <2> QED BY <2>5, <2>6
<1>6. ASSUME NEW c \in Commands, Added(c), c.op \notin EventOps
      PROVE  /\ \A i \in C' : \E k \in C :
                   /\ wire'[i].msg.event = Ev(k)
                   /\ wire'[i].msg.seq = wire[k].msg.seq \/ wire[k].msg.seq = NoSeq
             /\ \A i \in C : \E k \in C' : wire'[k].msg.event = Ev(i)
  <2>1. \A i \in C' : i \in C /\ wire'[i] = wire[i] BY <1>6, CarriedOn
  <2>2. \A i \in C : i \in C' /\ wire'[i] = wire[i] BY <1>6, WirePlaces DEF C
  <2> QED BY <2>1, <2>2 DEF Ev
<1> QED BY <1>2, <1>3, <1>4, <1>5, <1>6

(* Every step keeps every follower's place in an undisturbed generation. *)
LEMMA FollowsStep ==
    ASSUME TypeOK, TypeOK', Wired, Roles, Closed, Once, Marked, Calm, ~CommandFails, ~Crash,
           Pushing, Publishing, EndsLast, NEW r \in Requests, Follows(r), [Next]_vars
    PROVE  Follows(r)'
<1>1. \A l \in Requests : Live(l)' => Live(l) \/ made'[l] = 0 BY LiveStep
<1>2. wire # <<>> => 1 \in W /\ wire[1].by \in Requests /\ Says(wire[1]) BY Oldest, Typed DEF Wired
<1>3. /\ pc \in [Requests -> Stations] /\ via \in [Requests -> {"none", "channel", "result"}]
      /\ ended \in [Requests -> Ends] /\ out \in [Requests -> Seq(Event)]
      /\ watermark \in [Requests -> {NoSeq} \cup Nat]
  BY Typed
<1>4. ASSUME /\ \A i \in C' : \E k \in C :
                   /\ wire'[i].msg.event = Ev(k)
                   /\ wire'[i].msg.seq = wire[k].msg.seq \/ wire[k].msg.seq = NoSeq
             /\ \A i \in C : \E k \in C' : wire'[k].msg.event = Ev(i),
             Moves(r), made' = made,
             inbox'[r] = inbox[r], out'[r] = out[r], watermark'[r] = watermark[r],
             pc[r] \in {"subscribed", "replaying"} => \A p \in P : p \in P' /\ chunks'[p] = chunks[p]
      PROVE  Follows(r)'
  BY <1>1, <1>4, FollowsKeep
<1>5. chunks' = chunks => \A p \in P : p \in P' /\ chunks'[p] = chunks[p] BY DEF P
<1>6. pc'[r] = pc[r] /\ via'[r] = via[r] /\ ended'[r] = ended[r] => Moves(r) BY DEF Moves
<1>7. CASE Rpush
  <2>1. /\ wire # <<>> /\ wire[1].op = "rpush" /\ UNCHANGED <<pc, via, ended, made, inbox, out, watermark>>
        /\ chunks' = Append(chunks, wire[1].msg.event)
    BY <1>7, RpushEffect
  <2>2. wire[1].msg.seq = NoSeq /\ wire[1].op \in EventOps BY <1>2, <2>1 DEF Says, EventOps
  <2>3. \E c \in Commands : Replaced(c) /\ c.op \in EventOps /\ c.msg.event = wire[1].msg.event
    BY <1>7, RpushEffect DEF EventOps
  <2>4. \A p \in P : p \in P' /\ chunks'[p] = chunks[p]
    <3>1. chunks \in Seq(Event) /\ Len(chunks) \in Nat /\ wire[1].msg.event \in Event
      BY <1>2, <2>1, EventTypes, Typed DEF Ev
    <3> QED BY <2>1, <3>1, AppendProperties DEF P
  <2> QED BY <1>4, <1>6, <2>1, <2>2, <2>3, <2>4, CarriesOn
<1>8. CASE ExpireFirst
  <2>1. /\ wire # <<>> /\ wire[1].op = "expireFirst"
        /\ UNCHANGED <<pc, via, ended, made, inbox, out, watermark, chunks>>
    BY <1>8, ExpireFirstEffect
  <2>2. \E c \in Commands : /\ Replaced(c) /\ c.op \in EventOps /\ c.msg.event = wire[1].msg.event
                            /\ c.msg.seq = wire[1].msg.seq
    BY <1>8, ExpireFirstEffect DEF EventOps
  <2>3. wire[1].op \in EventOps BY <2>1 DEF EventOps
  <2> QED BY <1>4, <1>5, <1>6, <2>1, <2>2, <2>3, CarriesOn
<1>9. CASE Publish
  <2>1. /\ Popped /\ UNCHANGED <<pc, via, ended, made, out, watermark, chunks>>
        /\ ~Subscribed(r) => inbox'[r] = inbox[r]
    BY <1>9, PublishEffect
  <2>2. CASE Subscribed(r) BY <1>1, <1>9, <2>2, FollowsPublish DEF Calm
  <2>3. CASE ~Subscribed(r)
    <3>1. ~Subscribed(r)' BY <2>1, <2>3 DEF Subscribed
    <3>2. \A i \in C' : i + 1 \in C /\ wire'[i] = wire[i + 1] BY <2>1, CarriedOn
    <3>3. \A i \in C' : \E k \in C :
             /\ wire'[i].msg.event = Ev(k)
             /\ wire'[i].msg.seq = wire[k].msg.seq \/ wire[k].msg.seq = NoSeq
      BY <3>2 DEF Ev
    <3> QED BY <1>1, <1>5, <1>6, <2>1, <2>3, <3>1, <3>3, FollowsKeep
  <2> QED BY <2>2, <2>3
<1>10. CASE SetResult \/ ExpireChunks \/ SetBody
  <2>1. /\ wire # <<>> /\ wire[1].op \in EndOps
        /\ UNCHANGED <<pc, via, ended, made, inbox, out, watermark, chunks>>
        /\ \E c \in Commands : Replaced(c) /\ c.op \in {"expireChunks", "publishEnd"}
    BY <1>10, EndEffect
  <2> QED BY <1>4, <1>5, <1>6, <2>1, CarriesOn DEF EndOps, EventOps
<1>11. CASE Lock
  <2>1. /\ wire # <<>> /\ wire[1].op = "lock" /\ Popped
        /\ UNCHANGED <<via, ended, made, inbox, out, watermark, chunks>>
        /\ \/ pc' = [pc EXCEPT ![wire[1].by] = "leading"]
           \/ pc' = [pc EXCEPT ![wire[1].by] = "following"]
    BY <1>11, LockEffect
  <2>2. Moves(r)
    <3>1. CASE r # wire[1].by BY <1>2, <1>3, <2>1, <3>1 DEF Moves
    <3>2. CASE r = wire[1].by
      <4>1. pc[r] = "acquiring" BY <1>2, <2>1, <3>2 DEF Says
      <4>2. via[r] = "none" BY <4>1 DEF Roles
      <4>3. pc'[r] \in {"leading", "following"} BY <1>3, <2>1, <3>2
      <4> QED BY <2>1, <4>2, <4>3 DEF Moves, Subscribed
    <3> QED BY <3>1, <3>2
  <2> QED BY <1>4, <1>5, <2>1, <2>2, CarriesOn DEF EventOps
<1>12. CASE Get
  <2>1. /\ wire # <<>> /\ wire[1].op = "get" /\ Popped
        /\ UNCHANGED <<made, inbox, out, watermark, chunks>>
        /\ \/ /\ pc' = [pc EXCEPT ![wire[1].by] = "ended"]
              /\ via' = [via EXCEPT ![wire[1].by] = "result"]
              /\ \A x \in Requests : x # wire[1].by => ended'[x] = ended[x]
           \/ pc' = [pc EXCEPT ![wire[1].by] = "waiting"] /\ UNCHANGED <<via, ended>>
    BY <1>12, GetEffect
  <2>2. Moves(r)
    <3>1. CASE r # wire[1].by BY <1>2, <1>3, <2>1, <3>1 DEF Moves
    <3>2. CASE r = wire[1].by
      <4>1. pc[r] = "getting" BY <1>2, <2>1, <3>2 DEF Says
      <4>2. via[r] = "none" BY <4>1 DEF Roles
      <4> QED BY <1>3, <2>1, <3>2, <4>1, <4>2 DEF Moves, Subscribed
    <3> QED BY <3>1, <3>2
  <2> QED BY <1>4, <1>5, <2>1, <2>2, CarriesOn DEF EventOps
<1>13. CASE Lrange
  <2>1. /\ wire # <<>> /\ wire[1].op = "lrange" /\ UNCHANGED <<chunks, made, inbox, via, ended>>
        /\ out' = [out EXCEPT ![wire[1].by] = chunks]
        /\ watermark' = [watermark EXCEPT ![wire[1].by] = Len(chunks) - 1]
        /\ pc' = [pc EXCEPT ![wire[1].by] = "getting"]
        /\ \E c \in Commands : Replaced(c) /\ c.op = "get"
    BY <1>13, LrangeEffect
  <2>2. CASE r = wire[1].by BY <1>1, <1>13, <2>2, FollowsLrange DEF Calm
  <2>3. CASE r # wire[1].by
    <3>1. pc'[r] = pc[r] /\ out'[r] = out[r] /\ watermark'[r] = watermark[r]
      BY <1>2, <1>3, <2>1, <2>3
    <3> QED BY <1>4, <1>5, <1>6, <2>1, <3>1, CarriesOn DEF EventOps
  <2> QED BY <2>2, <2>3
<1>14. CASE Tick
  <2>1. /\ UNCHANGED <<wire, pc, via, ended, made, inbox, out, watermark>>
        /\ pc[r] \in {"idle", "leading", "ended", "waiting"}
    BY <1>14 DEF Tick, follower
  <2> QED BY <1>4, <1>6, <2>1, CarriesOn
<1>15. CASE UNCHANGED vars
  <2>1. UNCHANGED <<wire, pc, via, ended, made, inbox, out, watermark, chunks>>
    BY <1>15 DEF vars, data, follower, lock
  <2> QED BY <1>4, <1>5, <1>6, <2>1, CarriesOn
<1>16. ASSUME NEW x \in Requests, Arrive(x) \/ Generate(x) \/ Follow(x) \/ Timeout(x)
       PROVE  Follows(r)'
  <2>1. CASE Produce(x) BY <1>1, <2>1, FollowsProduce DEF Calm
  <2>2. CASE Arrive(x) \/ Replay(x)
    <3>1. UNCHANGED <<chunks, made, inbox, watermark, out, via, ended>> BY <2>2, QueryEffect
    <3>2. \E c \in Commands : Added(c) /\ c.op \in Queries BY <2>2, QueryEffect DEF Queries
    <3>3. Queries \cap EventOps = {} BY DEF Queries, EventOps
    <3>4. Moves(r)
      <4>1. CASE r # x
        <5>1. \E where \in Awaiting : pc' = [pc EXCEPT ![x] = where] BY <2>2, QueryEffect
        <5>2. pc'[r] = pc[r] BY <1>3, <4>1, <5>1
        <5> QED BY <1>6, <3>1, <5>2
      <4>2. CASE r = x
        <5>1. \/ pc[x] = "idle" /\ pc' = [pc EXCEPT ![x] = "acquiring"]
              \/ pc[x] = "subscribed" /\ pc' = [pc EXCEPT ![x] = "replaying"]
          BY <2>2 DEF Arrive, Replay, Goto, Calm
        <5>2. \/ pc[r] = "idle" /\ pc'[r] = "acquiring"
              \/ pc[r] = "subscribed" /\ pc'[r] = "replaying"
          BY <1>3, <4>2, <5>1
        <5>3. via'[r] = "none" BY <3>1, <5>2 DEF Roles
        <5> QED BY <5>2, <5>3 DEF Moves, Subscribed
      <4> QED BY <4>1, <4>2
    <3> QED BY <1>4, <1>5, <3>1, <3>2, <3>3, <3>4, CarriesOn
  <2>3. CASE Answer(x) \/ \E status \in Statuses : StreamEnds(x, status)
    <3>1. /\ UNCHANGED <<chunks, made, inbox, watermark, out, via>> /\ pc[x] = "leading"
          /\ pc' = [pc EXCEPT ![x] = "ended"]
          /\ \A y \in Requests : y # x => ended'[y] = ended[y]
      BY <2>3, EndsEffect
    <3>2. \E c \in Commands : Added(c) /\ c.op \in {"setResult", "setBody"} BY <2>3, EndsEffect
    <3>3. Moves(r)
      <4>1. CASE r # x BY <1>3, <1>6, <3>1, <4>1
      <4>2. CASE r = x
        <5>1. via'[r] = "none" /\ pc'[r] = "ended" BY <1>3, <3>1, <4>2 DEF Roles
        <5> QED BY <5>1 DEF Moves, Subscribed
      <4> QED BY <4>1, <4>2
    <3> QED BY <1>4, <1>5, <3>1, <3>2, <3>3, CarriesOn DEF EventOps
  <2>4. CASE LeaderThrows(x) \/ Timeout(x) \/ Subscribe(x)
    <3>1. UNCHANGED <<wire, chunks, made, inbox, watermark, out, via>>
      BY <2>4 DEF LeaderThrows, Timeout, Subscribe, data, follower, lock
    <3>2. Moves(r)
      <4>1. CASE r # x
        <5>1. pc'[r] = pc[r] /\ ended'[r] = ended[r]
          BY <1>3, <2>4, <4>1 DEF LeaderThrows, Timeout, Subscribe, End, Goto
        <5> QED BY <1>6, <3>1, <5>1
      <4>2. CASE r = x
        <5>1. \/ pc[r] \in {"leading", "waiting"} /\ pc'[r] = "ended"
              \/ pc[r] = "following" /\ pc'[r] = "subscribed"
          BY <1>3, <2>4, <4>2 DEF LeaderThrows, Timeout, Subscribe, End, Goto
        <5>2. via'[r] = "none" BY <3>1, <5>1 DEF Roles
        <5> QED BY <5>1, <5>2 DEF Moves, Subscribed
      <4> QED BY <4>1, <4>2
    <3> QED BY <1>4, <1>5, <3>1, <3>2, CarriesOn
  <2>5. CASE TakeMessage(x)
    <3>1. /\ UNCHANGED <<wire, chunks, made, watermark>>
          /\ \A f \in Requests : f # x => inbox'[f] = inbox[f] /\ out'[f] = out[f] /\ pc'[f] = pc[f]
                                          /\ via'[f] = via[f] /\ ended'[f] = ended[f]
      BY <2>5, TakeEffect
    <3>2. CASE r = x BY <1>1, <2>5, <3>2, FollowsTake
    <3>3. CASE r # x BY <1>4, <1>5, <1>6, <3>1, <3>3, CarriesOn
    <3> QED BY <3>2, <3>3
  <2> QED BY <1>16, <2>1, <2>2, <2>3, <2>4, <2>5 DEF Generate, Follow
<1> QED BY <1>7, <1>8, <1>9, <1>10, <1>11, <1>12, <1>13, <1>14, <1>15, <1>16 DEF Next, Execute

(* The order of an undisturbed generation is kept. *)
LEMMA InStepStep ==
    ASSUME TypeOK, TypeOK', Wired, Locked, Roles, ~Lapsed => Closed, Once, Marked, InStep, [Next]_vars
    PROVE  InStep'
<1> SUFFICES ASSUME Calm'
             PROVE  Pushing' /\ Publishing' /\ EndsLast' /\ \A r \in Requests : Follows(r)'
  BY DEF InStep
<1>1. Undisturbed' BY DEF Calm
<1>2. Undisturbed /\ ~CommandFails /\ ~Crash BY <1>1, StillUndisturbed
<1>3. streaming' = streaming BY StepKeeps
<1>4. Calm /\ Closed BY <1>2, <1>3 DEF Calm, Undisturbed, Lapsed
<1>5. Pushing /\ Publishing /\ EndsLast /\ \A r \in Requests : Follows(r) BY <1>4 DEF InStep
<1>6. Pushing' BY <1>1, <1>2, <1>4, <1>5, PushingStep
<1>7. Publishing' /\ EndsLast' BY <1>2, <1>4, <1>5, <1>6, PublishingStep
<1>8. \A r \in Requests : Follows(r)' BY <1>2, <1>4, <1>5, FollowsStep
<1> QED BY <1>6, <1>7, <1>8

(* The order is kept from the start. *)
LEMMA InStepInvariant == Spec => [](Marked /\ InStep)
<1>1. Init => Marked /\ InStep
  <2> SUFFICES ASSUME Init PROVE Marked /\ InStep OBVIOUS
  <2>1. W = {} /\ C = {} /\ P = {} /\ R = {} /\ Pub = {} /\ EndsOn = {}
    BY DEF Init, W, C, P, R, Pub, EndsOn
  <2>2. \A r \in Requests : /\ Box(r) = {} /\ Q(r) = {} /\ 1..Len(inbox[r]) = {}
                            /\ pc[r] = "idle" /\ made[r] = 0 /\ via[r] = "none"
    BY DEF Init, Box, Q
  <2>3. Pushing
    <3>1. \A l \in Requests : pc[l] # "leading" /\ ~Live(l) BY <2>1, <2>2 DEF Live
    <3> QED BY <2>1, <3>1 DEF Pushing
  <2>4. \A r \in Requests : Follows(r)
    BY <2>1, <2>2 DEF Follows, BoxOrder, OutOrder, Replayed, Reaches, ReachesEnd, Finished, Subscribed
  <2> QED BY <2>1, <2>2, <2>3, <2>4 DEF Marked, InStep, Publishing, EndsLast
<1>2. Base /\ Base' /\ Once /\ Marked /\ InStep /\ [Next]_vars => (Marked /\ InStep)'
  BY MarkedStep, InStepStep DEF Base
<1> QED BY <1>1, <1>2, BaseInvariant, OnceInvariant, PTL DEF Spec

(* What a follower emits is made by one request. *)
LEMMA OutIsOfOne ==
    ASSUME TypeOK, Wired, Once, Undisturbed, NEW r \in Requests, NEW l \in Requests, made[l] > 0,
           NEW p \in Q(r)
    PROVE  /\ out[r][p][2] \in 1..Events /\ out[r][p] = <<l, out[r][p][2]>>
<1>1. out[r][p] \in Event /\ Made(out[r][p]) BY AllMade
<1>2. /\ out[r][p][1] = l /\ out[r][p] = <<out[r][p][1], out[r][p][2]>>
      /\ out[r][p][2] \in Nat /\ 1 <= out[r][p][2] /\ out[r][p][2] <= made[l]
  BY <1>1, SameMaker
<1>3. made[l] <= Events /\ made[l] \in Nat /\ Events \in Nat BY Typed, MuxAssumption
<1> QED BY <1>2, <1>3

(* What a follower emits is the leader's generation, in streams of any length, *)
(* with any number of followers: whoever waited for the terminal marker has    *)
(* emitted all of it, whoever found the result a first part of it, only the    *)
(* first event out of order and none twice.                                    *)
THEOREM FollowersAgree == Spec => []FollowerConsistent
<1>1. Base /\ Once /\ InStep => WaitingMissesNothing
  <2> SUFFICES ASSUME Base, Once, InStep, Undisturbed, streaming, NEW r \in Requests,
                      ended[r] = "done", via[r] = "channel"
               PROVE  \E l \in Requests : ToSet(out[r]) = ToSet(Generation(l))
    BY DEF WaitingMissesNothing
  <2>1. TypeOK /\ Wired BY DEF Base
  <2>2. Follows(r) BY DEF InStep, Calm
  <2>3. PICK l \in Requests : made[l] = Events /\ \A k \in 1..Events : Emitted(r, <<l, k>>)
    BY <2>2 DEF Follows, Finished
  <2>4. made[l] > 0 BY <2>3, MuxAssumption
  <2>5. ToSet(out[r]) = {out[r][p] : p \in Q(r)}
    <3>1. out[r] \in Seq(Event) BY <2>1, Typed
    <3>2. DOMAIN out[r] = Q(r) BY <3>1 DEF Q
    <3> QED BY <3>2 DEF ToSet
  <2>6. ToSet(Generation(l)) = {<<l, k>> : k \in 1..Events} BY DEF ToSet, Generation
  <2>7. \A p \in Q(r) : out[r][p][2] \in 1..Events /\ out[r][p] = <<l, out[r][p][2]>>
    BY <2>1, <2>4, OutIsOfOne
  <2>8. \A k \in 1..Events : \E p \in Q(r) : out[r][p] = <<l, k>> BY <2>3 DEF Emitted
  <2>9. \A x : x \in {out[r][p] : p \in Q(r)} <=> x \in {<<l, k>> : k \in 1..Events}
    BY <2>7, <2>8
  <2> QED BY <2>5, <2>6, <2>9
<1>2. Base /\ Once /\ InStep => LateFollowerGetsAPrefix
  <2> SUFFICES ASSUME Base, Once, InStep, Undisturbed, streaming, NEW r \in Requests, via[r] = "result"
               PROVE  \E l \in Requests : IsPrefix(out[r], Generation(l))
    BY DEF LateFollowerGetsAPrefix
  <2>1. TypeOK /\ Wired BY DEF Base
  <2>2. Follows(r) BY DEF InStep, Calm
  <2>3. \A p \in Q(r) : out[r][p][2] = p BY <2>2 DEF Follows, Replayed
  <2>4. out[r] \in Seq(Event) /\ Len(out[r]) \in Nat /\ Events \in Nat BY <2>1, Typed, MuxAssumption
  <2>5. \E l \in Requests : \A p \in Q(r) : p \in 1..Events /\ out[r][p] = <<l, p>>
    <3>1. CASE Q(r) = {} BY <3>1
    <3>2. CASE Q(r) # {}
      <4>1. PICK q : q \in Q(r) BY <3>2
      <4>2. out[r][q] \in Event /\ Made(out[r][q]) BY <2>1, <4>1, AllMade
      <4>3. PICK l \in Requests : l = out[r][q][1] /\ made[l] > 0 BY <2>1, <4>2, SameMaker
      <4>4. \A p \in Q(r) : out[r][p][2] \in 1..Events /\ out[r][p] = <<l, out[r][p][2]>>
        BY <2>1, <4>3, OutIsOfOne
      <4> QED BY <2>3, <4>4
    <3> QED BY <3>1, <3>2
  <2>6. PICK l \in Requests : \A p \in Q(r) : p \in 1..Events /\ out[r][p] = <<l, p>> BY <2>5
  <2>7. DEFINE G == Generation(l)
  <2>8. G = [i \in 1..Events |-> <<l, i>>] BY DEF Generation
  <2>9. G \in Seq(Requests \X (1..Events)) /\ Len(G) = Events BY <2>4, <2>8
  <2> HIDE DEF G
  <2>10. Len(out[r]) <= Len(G)
    <3>1. CASE Len(out[r]) = 0 BY <2>4, <2>9, <3>1
    <3>2. CASE Len(out[r]) # 0
      <4>1. Len(out[r]) \in Q(r) BY <2>4, <3>2 DEF Q
      <4> QED BY <2>4, <2>6, <2>9, <4>1
    <3> QED BY <3>1, <3>2
  <2>11. SubSeq(out[r], 1, Len(out[r])) = SubSeq(G, 1, Len(out[r]))
    <3>1. \A i \in 1..Len(out[r]) : out[r][i] = G[i] BY <2>6, <2>8 DEF Q
    <3>2. SubSeq(out[r], 1, Len(out[r])) = [i \in 1..Len(out[r]) |-> out[r][i]] BY <2>4
    <3>3. SubSeq(G, 1, Len(out[r])) = [i \in 1..Len(out[r]) |-> G[i]] BY <2>4, <2>9, <2>10
    <3> QED BY <3>1, <3>2, <3>3
  <2> QED BY <2>10, <2>11 DEF IsPrefix, G
<1>3. Base /\ Once /\ InStep => OnlyFirstIsOvertaken
  <2> SUFFICES ASSUME Base, Once, InStep, Undisturbed, NEW r \in Requests,
                      NEW i \in 1..Len(out[r]), NEW j \in 1..Len(out[r]),
                      i < j, out[r][i][2] > out[r][j][2]
               PROVE  out[r][j][2] = 1
    BY DEF OnlyFirstIsOvertaken
  <2>1. TypeOK /\ Wired /\ Roles BY DEF Base
  <2>2. i \in Q(r) /\ j \in Q(r) BY DEF Q
  <2>3. /\ out[r][i] \in Event /\ Made(out[r][i]) /\ out[r][i][2] \in Nat /\ out[r][j][2] \in Nat
    BY <2>1, <2>2, AllMade
  <2>4. streaming BY <2>1, <2>3, SameMaker DEF Roles
  <2>5. OutOrder(r) BY <2>4 DEF InStep, Calm, Follows
  <2>6. Before(out[r][i], out[r][j]) BY <2>2, <2>5 DEF OutOrder
  <2> QED BY <2>3, <2>6 DEF Before
<1>4. Base /\ Once /\ InStep /\ NoEventTwice => FollowerConsistent
  BY <1>1, <1>2, <1>3 DEF FollowerConsistent
<1> QED BY <1>4, BaseInvariant, OnceInvariant, InStepInvariant, NothingTwice, PTL
=============================================================================
