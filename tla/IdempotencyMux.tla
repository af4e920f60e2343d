---------------------------- MODULE IdempotencyMux ----------------------------
(* The Idempotency-Key multiplexer of router/src/resilience/idempotency.ts,    *)
(* driven as routes/v1/chat-completions.ts drives it, for the requests that    *)
(* carry one key: the first becomes the leader and generates, the others       *)
(* follow it through Valkey. As in CircuitBreaker the router's commands share  *)
(* one connection and execute in the order sent; a call sends its next command *)
(* when the previous reply arrives, and the leader does not await the calls    *)
(* that publish its events, so they overlap. Followers SUBSCRIBE on a          *)
(* connection of their own.                                                    *)
EXTENDS Integers, Sequences, FiniteSets, SequencesExt

CONSTANTS
    Requests,   \* requests with this key
    Events,     \* canonical events of one generation
    LockTTL,    \* IDEMPOTENCY_LOCK_TTL_SEC, in units
    DataTTL,    \* IDEMPOTENCY_DATA_TTL_SEC, in units
    MaxWire,    \* bound: commands on the connection after an event's
    MaxFaults   \* bound: kinds of things that go wrong

ASSUME MuxAssumption ==
    /\ IsFiniteSet(Requests)
    /\ {Events, LockTTL, DataTTL, MaxWire} \subseteq Nat \ {0}
    /\ DataTTL <= LockTTL
    /\ MaxFaults \in Nat

VARIABLES
    streaming,  \* whether these requests ask for a stream
    lockTTL,    \* units until idempotency:key:lock expires, 0 when absent
    age,        \* history: units since the request got the lock, LockTTL for longer
                \* ago or never
    result,     \* terminal status in idempotency:key:result, "none" when absent
    resultTTL,
    chunks,     \* idempotency:key:chunks
    chunksTTL,  \* units until chunks expires, 0 when it has no TTL
    wire,       \* commands on the router's connection, oldest first
    pc,         \* where each request is
    made,       \* events the request, as leader, has handed to publishStreamEvent
    inbox,      \* messages a follower's subscription has received
    watermark,  \* maxReplayedSeq
    out,        \* history: the events a follower has emitted
    ended,      \* history: how the request ended, "none" before
    via,        \* history: where a follower learned that, "channel" or "result"
    faults      \* history: the kinds of command that failed, "crash", and "lapse"
                \* when a leader has outlived its lock

lock == <<lockTTL, age>>
data == <<lock, result, resultTTL, chunks, chunksTTL>>
follower == <<inbox, watermark, out, via>>
vars == <<streaming, data, wire, pc, made, follower, ended, faults>>

(* "error" stands for "aborted" too: the followers end alike on both. *)
Statuses == {"done", "error"}

(* A channel message: an event with the sequence number RPUSH gave it (NoSeq   *)
(* if that failed), or a terminal marker.                                      *)
NoSeq == -1
EventOf(r, i) == [event |-> <<r, i>>, seq |-> NoSeq, status |-> "none"]
Terminal(r, status) == [event |-> <<r, 0>>, seq |-> NoSeq, status |-> status]
IsTerminal(m) == m.status # "none"

Command(op, r, m) == [op |-> op, by |-> r, msg |-> m]
Query(op, r) == Command(op, r, Terminal(r, "none"))

Init ==
    /\ streaming \in BOOLEAN
    /\ lockTTL = 0 /\ age = [r \in Requests |-> LockTTL]
    /\ result = "none" /\ resultTTL = 0
    /\ chunks = <<>> /\ chunksTTL = 0
    /\ wire = <<>>
    /\ pc = [r \in Requests |-> "idle"]
    /\ made = [r \in Requests |-> 0]
    /\ inbox = [r \in Requests |-> <<>>]
    /\ watermark = [r \in Requests |-> NoSeq]
    /\ out = [r \in Requests |-> <<>>]
    /\ ended = [r \in Requests |-> "none"]
    /\ via = [r \in Requests |-> "none"]
    /\ faults = {}

-----------------------------------------------------------------------------
(* The connection *)

Send(c) == wire' = Append(wire, c)

(* The oldest command executes; its caller sends the next one, or is done. *)
Executes(op) == wire # <<>> /\ Head(wire).op = op
Caller == Head(wire).by
Message == Head(wire).msg
Then(op, m) == wire' = Append(Tail(wire), Command(op, Caller, m))
NoMore == wire' = Tail(wire)

Goto(r, where) == pc' = [pc EXCEPT ![r] = where]
End(r, status) ==
    /\ Goto(r, "ended")
    /\ ended' = [ended EXCEPT ![r] = status]

-----------------------------------------------------------------------------
(* acquire(): SET lock NX EX *)

Arrive(r) ==
    /\ pc[r] = "idle"
    /\ Goto(r, "acquiring")
    /\ Send(Query("lock", r))
    /\ UNCHANGED <<streaming, data, made, follower, ended, faults>>

Locks(r) ==
    /\ lockTTL' = LockTTL /\ age' = [age EXCEPT ![r] = 0]
    /\ Goto(r, "leading")
Lock_Always ==
    /\ Executes("lock")
    /\ Locks(Caller)
    /\ NoMore
    /\ UNCHANGED <<streaming, result, resultTTL, chunks, chunksTTL, made, follower, ended, faults>>
Lock ==
    /\ Executes("lock")
    /\ \/ lockTTL = 0 /\ Locks(Caller)
       \/ lockTTL > 0 /\ UNCHANGED lock /\ Goto(Caller, "following")
    /\ NoMore
    /\ UNCHANGED <<streaming, result, resultTTL, chunks, chunksTTL, made, follower, ended, faults>>

-----------------------------------------------------------------------------
(* The leader's generation *)

(* An event of the upstream: void publishStreamEvent(), which RPUSHes first. *)
Produce(r) ==
    /\ pc[r] = "leading" /\ streaming
    /\ made[r] < Events /\ Len(wire) < MaxWire
    /\ made' = [made EXCEPT ![r] = @ + 1]
    /\ Send(Command("rpush", r, EventOf(r, made[r] + 1)))
    /\ UNCHANGED <<streaming, data, pc, follower, ended, faults>>

(* The stream ends, fails before or after its first event, or loses its        *)
(* client: sseCleanup calls void finalizeStream().                             *)
StreamEnds(r, status) ==
    /\ pc[r] = "leading" /\ streaming
    /\ status = "done" => made[r] = Events
    /\ End(r, status)
    /\ Send(Command("setResult", r, Terminal(r, status)))
    /\ UNCHANGED <<streaming, data, made, follower, faults>>

(* The backend answers a non-stream leader: publishNonStream(). *)
Answer(r) ==
    /\ pc[r] = "leading" /\ ~streaming
    /\ End(r, "done")
    /\ Send(Command("setBody", r, Terminal(r, "done")))
    /\ UNCHANGED <<streaming, data, made, follower, faults>>

(* A leader throws with no terminal marker, and the lock stays: its backend is *)
(* saturated, or it is a non-stream leader and its backend call fails.         *)
LeaderThrows(r) ==
    /\ pc[r] = "leading"
    /\ streaming => made[r] = 0
    /\ End(r, "failed")
    /\ UNCHANGED <<streaming, data, wire, made, follower, faults>>

-----------------------------------------------------------------------------
(* publishStreamEvent() after its RPUSH is sent *)

(* The event's index in the list is its sequence number; the first one also    *)
(* gives the list a TTL, and is published only after that.                     *)
Numbered(m, n) == [m EXCEPT !.seq = n]

Rpush_Lpush ==
    /\ Executes("rpush")
    /\ chunks' = <<Message.event>> \o chunks
    /\ Then(IF Len(chunks') = 1 THEN "expireFirst" ELSE "publish", Numbered(Message, Len(chunks)))
    /\ UNCHANGED <<streaming, lock, result, resultTTL, chunksTTL, pc, made, follower, ended, faults>>
Rpush_NoExpire ==
    /\ Executes("rpush")
    /\ chunks' = Append(chunks, Message.event)
    /\ Then("publish", Numbered(Message, Len(chunks)))
    /\ UNCHANGED <<streaming, lock, result, resultTTL, chunksTTL, pc, made, follower, ended, faults>>
Rpush ==
    /\ Executes("rpush")
    /\ chunks' = Append(chunks, Message.event)
    /\ Then(IF Len(chunks') = 1 THEN "expireFirst" ELSE "publish", Numbered(Message, Len(chunks)))
    /\ UNCHANGED <<streaming, lock, result, resultTTL, chunksTTL, pc, made, follower, ended, faults>>

ExpireFirst ==
    /\ Executes("expireFirst")
    /\ chunksTTL' = IF chunks = <<>> THEN 0 ELSE LockTTL
    /\ Then("publish", Message)
    /\ UNCHANGED <<streaming, lock, result, resultTTL, chunks, pc, made, follower, ended, faults>>

(* PUBLISH reaches every subscription. *)
Subscribed(f) == pc[f] \in {"subscribed", "replaying", "getting", "waiting"}
Deliver ==
    inbox' = [f \in Requests |-> IF Subscribed(f) THEN Append(inbox[f], Message) ELSE inbox[f]]

Publish ==
    /\ Executes("publish") \/ Executes("publishEnd")
    /\ Deliver
    /\ NoMore
    /\ UNCHANGED <<streaming, data, pc, made, watermark, out, via, ended, faults>>

-----------------------------------------------------------------------------
(* finalizeStream(): SET result EX, EXPIRE chunks, PUBLISH the terminal marker *)

SetResult_NoEX ==
    /\ Executes("setResult")
    /\ result' = Message.status /\ resultTTL' = 0
    /\ Then("expireChunks", Message)
    /\ UNCHANGED <<streaming, lock, chunks, chunksTTL, pc, made, follower, ended, faults>>
SetResult ==
    /\ Executes("setResult")
    /\ result' = Message.status /\ resultTTL' = DataTTL
    /\ Then("expireChunks", Message)
    /\ UNCHANGED <<streaming, lock, chunks, chunksTTL, pc, made, follower, ended, faults>>

ExpireChunks ==
    /\ Executes("expireChunks")
    /\ chunksTTL' = IF chunks = <<>> THEN 0 ELSE DataTTL
    /\ Then("publishEnd", Message)
    /\ UNCHANGED <<streaming, lock, result, resultTTL, chunks, pc, made, follower, ended, faults>>

(* publishNonStream(): SET result EX, PUBLISH it *)
SetBody ==
    /\ Executes("setBody")
    /\ result' = Message.status /\ resultTTL' = DataTTL
    /\ Then("publishEnd", Message)
    /\ UNCHANGED <<streaming, lock, chunks, chunksTTL, pc, made, follower, ended, faults>>

-----------------------------------------------------------------------------
(* awaitStreamResult() and awaitNonStreamResult() *)

Subscribe(r) ==
    /\ pc[r] = "following"
    /\ Goto(r, "subscribed")
    /\ UNCHANGED <<streaming, data, wire, made, follower, ended, faults>>

(* Once subscribed: LRANGE for a stream, GET result otherwise. *)
Replay(r) ==
    /\ pc[r] = "subscribed"
    /\ IF streaming THEN Goto(r, "replaying") /\ Send(Query("lrange", r))
       ELSE Goto(r, "getting") /\ Send(Query("get", r))
    /\ UNCHANGED <<streaming, data, made, follower, ended, faults>>

(* LRANGE chunks: all of it is emitted and the watermark set. *)
Lrange_OffByOne ==
    /\ Executes("lrange")
    /\ out' = [out EXCEPT ![Caller] = chunks]
    /\ watermark' = [watermark EXCEPT ![Caller] = Len(chunks)]
    /\ Goto(Caller, "getting")
    /\ Then("get", Terminal(Caller, "none"))
    /\ UNCHANGED <<streaming, data, made, inbox, via, ended, faults>>
Lrange ==
    /\ Executes("lrange")
    /\ out' = [out EXCEPT ![Caller] = chunks]
    /\ watermark' = [watermark EXCEPT ![Caller] = Len(chunks) - 1]
    /\ Goto(Caller, "getting")
    /\ Then("get", Terminal(Caller, "none"))
    /\ UNCHANGED <<streaming, data, made, inbox, via, ended, faults>>

(* GET result: a leader that has finalized ends the follower at once, and the  *)
(* messages its subscription received are not read.                            *)
Get ==
    /\ Executes("get")
    /\ IF result # "none"
       THEN End(Caller, result) /\ via' = [via EXCEPT ![Caller] = "result"]
       ELSE Goto(Caller, "waiting") /\ UNCHANGED <<via, ended>>
    /\ NoMore
    /\ UNCHANGED <<streaming, data, made, inbox, watermark, out, faults>>

(* next(): the oldest message received is the terminal marker, an event the    *)
(* replay already emitted, or an event to emit.                                *)
Duplicate_Strict(r, m) == m.seq # NoSeq /\ m.seq < watermark[r]
Duplicate(r, m) == m.seq # NoSeq /\ m.seq <= watermark[r]

TakeMessage_Pop(r) ==
    LET m == Last(inbox[r]) IN
    /\ pc[r] = "waiting" /\ inbox[r] # <<>>
    /\ inbox' = [inbox EXCEPT ![r] = Front(@)]
    /\ IF IsTerminal(m)
       THEN End(r, m.status) /\ via' = [via EXCEPT ![r] = "channel"] /\ UNCHANGED out
       ELSE /\ out' = [out EXCEPT ![r] = IF Duplicate(r, m) THEN @ ELSE Append(@, m.event)]
            /\ UNCHANGED <<pc, via, ended>>
    /\ UNCHANGED <<streaming, data, wire, made, watermark, faults>>
TakeMessage(r) ==
    LET m == Head(inbox[r]) IN
    /\ pc[r] = "waiting" /\ inbox[r] # <<>>
    /\ inbox' = [inbox EXCEPT ![r] = Tail(@)]
    /\ IF IsTerminal(m)
       THEN End(r, m.status) /\ via' = [via EXCEPT ![r] = "channel"] /\ UNCHANGED out
       ELSE /\ out' = [out EXCEPT ![r] = IF Duplicate(r, m) THEN @ ELSE Append(@, m.event)]
            /\ UNCHANGED <<pc, via, ended>>
    /\ UNCHANGED <<streaming, data, wire, made, watermark, faults>>

(* 30 s without a message: far longer than a command takes. *)
Timeout_FirstOnly(r) ==
    /\ pc[r] = "waiting" /\ inbox[r] = <<>>
    /\ wire = <<>> /\ out[r] = <<>>
    /\ End(r, "timeout")
    /\ UNCHANGED <<streaming, data, wire, made, follower, faults>>
Timeout(r) ==
    /\ pc[r] = "waiting" /\ inbox[r] = <<>>
    /\ wire = <<>>
    /\ End(r, "timeout")
    /\ UNCHANGED <<streaming, data, wire, made, follower, faults>>

-----------------------------------------------------------------------------
(* Failures and time *)

(* The oldest command is rejected instead of executed. acquire and the         *)
(* followers' reads throw; publishStreamEvent goes on without a sequence       *)
(* number; finalizeStream gives up unless only its EXPIRE failed;              *)
(* publishNonStream still publishes.                                           *)
CommandFails ==
    /\ wire # <<>>
    /\ faults' = faults \cup {Head(wire).op}
    /\ Cardinality(faults') <= MaxFaults
    /\ \/ /\ Head(wire).op \in {"lock", "lrange", "get"}
          /\ End(Caller, "failed")
          /\ NoMore
       \/ /\ Head(wire).op \in {"rpush", "expireFirst"}
          /\ Then("publish", Message)
          /\ UNCHANGED <<pc, ended>>
       \/ /\ Head(wire).op \in {"expireChunks", "setBody"}
          /\ Then("publishEnd", Message)
          /\ UNCHANGED <<pc, ended>>
       \/ /\ Head(wire).op \in {"publish", "publishEnd", "setResult"}
          /\ NoMore
          /\ UNCHANGED <<pc, ended>>
    /\ UNCHANGED <<streaming, data, made, follower>>

(* The router dies: its requests and the commands on the wire are gone. *)
Crash ==
    /\ "crash" \notin faults
    /\ faults' = faults \cup {"crash"}
    /\ Cardinality(faults') <= MaxFaults
    /\ pc' = [r \in Requests |-> IF pc[r] = "idle" THEN "idle" ELSE "ended"]
    /\ ended' = [r \in Requests |->
                    IF pc[r] \in {"idle", "ended"} THEN ended[r] ELSE "crashed"]
    /\ inbox' = [r \in Requests |-> <<>>]
    /\ wire' = <<>>
    /\ UNCHANGED <<streaming, data, made, watermark, out, via>>

Less(n) == IF n = 0 THEN 0 ELSE n - 1

(* A unit of time, minutes long: no command is on the wire, and a follower has *)
(* read its messages and, without a leader, timed out. A generation may go on  *)
(* for longer than its lock lives: nothing renews the lock or stops the        *)
(* generation, and the chunk list may expire under it.                         *)
Tick ==
    /\ wire = <<>>
    /\ \A r \in Requests :
        \/ pc[r] \in {"idle", "leading", "ended"}
        \/ /\ pc[r] = "waiting" /\ inbox[r] = <<>>
           /\ \E l \in Requests : pc[l] = "leading"
    /\ lockTTL' = Less(lockTTL)
    /\ age' = [r \in Requests |-> IF age[r] = LockTTL THEN LockTTL ELSE age[r] + 1]
    /\ result' = IF resultTTL = 1 THEN "none" ELSE result
    /\ resultTTL' = Less(resultTTL)
    /\ chunks' = IF chunksTTL = 1 THEN <<>> ELSE chunks
    /\ chunksTTL' = Less(chunksTTL)
    /\ faults' = IF \E r \in Requests : pc[r] = "leading" /\ age'[r] = LockTTL
                 THEN faults \cup {"lapse"} ELSE faults
    /\ Cardinality(faults') <= MaxFaults
    /\ UNCHANGED <<streaming, wire, pc, made, follower, ended>>

Execute ==
    \/ Lock
    \/ Rpush \/ ExpireFirst \/ Publish
    \/ SetResult \/ ExpireChunks \/ SetBody
    \/ Lrange \/ Get

Generate(r) ==
    \/ Produce(r) \/ Answer(r) \/ LeaderThrows(r)
    \/ \E status \in Statuses : StreamEnds(r, status)

Follow(r) == Subscribe(r) \/ Replay(r) \/ TakeMessage(r)

Next ==
    \/ Execute
    \/ \E r \in Requests : Arrive(r) \/ Generate(r) \/ Follow(r) \/ Timeout(r)
    \/ CommandFails
    \/ Crash
    \/ Tick

(* Valkey executes what it is sent, generations end, followers read what they  *)
(* receive, their timers fire, and time passes.                                *)
Fairness ==
    /\ WF_vars(Execute)
    /\ \A r \in Requests :
        WF_vars(Generate(r)) /\ WF_vars(Follow(r)) /\ WF_vars(Timeout(r))
    /\ WF_vars(Tick)

Spec == Init /\ [][Next]_vars /\ Fairness

-----------------------------------------------------------------------------
(* Properties *)

Ops == {"lock", "rpush", "expireFirst", "publish", "publishEnd", "setResult",
        "expireChunks", "setBody", "lrange", "get"}
Event == Requests \X (0..Events)
Messages == [event : Event, seq : {NoSeq} \cup Nat, status : Statuses \cup {"none"}]

(* Every variable has its type, and the result never lives without a TTL.      *)
TypeOK ==
    /\ streaming \in BOOLEAN
    /\ lockTTL \in 0..LockTTL /\ age \in [Requests -> 0..LockTTL]
    /\ result \in Statuses \cup {"none"} /\ resultTTL \in 0..DataTTL
    /\ result = "none" <=> resultTTL = 0
    /\ chunks \in Seq(Event) /\ chunksTTL \in 0..LockTTL
    /\ wire \in Seq([op : Ops, by : Requests, msg : Messages])
    /\ pc \in [Requests -> {"idle", "acquiring", "leading", "following", "subscribed",
                            "replaying", "getting", "waiting", "ended"}]
    /\ made \in [Requests -> 0..Events]
    /\ inbox \in [Requests -> Seq(Messages)]
    /\ watermark \in [Requests -> {NoSeq} \cup Nat]
    /\ out \in [Requests -> Seq(Event)]
    /\ ended \in [Requests -> Statuses \cup {"none", "failed", "timeout", "crashed"}]
    /\ via \in [Requests -> {"none", "channel", "result"}]
    /\ faults \subseteq Ops \cup {"crash", "lapse"}

(* WR-04 (lines 419-427): the list is never left without a TTL, unless the     *)
(* router died or Valkey failed between the first RPUSH and its EXPIRE.        *)
ChunksExpire ==
    chunks # <<>> /\ chunksTTL = 0 /\ faults \cap {"crash", "expireFirst"} = {} =>
        \E c \in ToSet(wire) : c.op = "expireFirst"

(* Within the TTL of one lock no second generation of the key starts, even if  *)
(* the first one has ended, failed or crashed: so two run at once only when    *)
(* the older has outlived its lock, which "Only ONE upstream generation runs   *)
(* at a time" (lines 3-5) leaves out.                                          *)
OneLeader == Cardinality({r \in Requests : age[r] < LockTTL}) <= 1

(* CR-02 (lines 386-402): no follower emits an event twice, though it may both *)
(* replay it from the list and receive it from the channel.                    *)
NoEventTwice == \A r \in Requests : IsInjective(out[r])

(* Valkey never failed, no generation outlived its lock, and the list only     *)
(* ever held one: its TTL is set later than the lock's and again at the end,   *)
(* so a second generation may find the first one's events (against lines       *)
(* 425-427), and a list that expires under its leader numbers from 0 again.    *)
Undisturbed == faults = {} /\ Cardinality({r \in Requests : made[r] > 0}) <= 1

Generation(l) == [i \in 1..Events |-> <<l, i>>]

(* A follower that waited until the terminal marker of a complete generation   *)
(* came over the channel has emitted every event of it.                        *)
WaitingMissesNothing ==
    Undisturbed /\ streaming => \A r \in Requests :
        ended[r] = "done" /\ via[r] = "channel" =>
            \E l \in Requests : ToSet(out[r]) = ToSet(Generation(l))

(* A follower that found the generation finalized has emitted some first part  *)
(* of it in order, and nothing of its own subscription.                        *)
LateFollowerGetsAPrefix ==
    Undisturbed /\ streaming => \A r \in Requests :
        via[r] = "result" => \E l \in Requests : IsPrefix(out[r], Generation(l))

(* Only the first event, whose PUBLISH waits for an EXPIRE, can be overtaken.  *)
OnlyFirstIsOvertaken ==
    Undisturbed => \A r \in Requests : \A i, j \in 1..Len(out[r]) :
        i < j /\ out[r][i][2] > out[r][j][2] => out[r][j][2] = 1

(* The four together: what a follower emits is the leader's generation, but for *)
(* the two races that OnlyFirstIsOvertaken and LateFollowerGetsAPrefix bound.   *)
FollowerConsistent ==
    NoEventTwice /\ WaitingMissesNothing /\ LateFollowerGetsAPrefix /\ OnlyFirstIsOvertaken

(* Every follower ends, with the leader's outcome or within its timeout, even  *)
(* when its leader throws, crashes or never finalizes (lines 41-43).           *)
FollowersEnd == \A r \in Requests : pc[r] = "following" ~> pc[r] = "ended"
=============================================================================
