---------------------------- MODULE CircuitBreaker ----------------------------
(* The per-backend circuit breaker of router/src/resilience/circuitBreaker.ts: *)
(* check, recordFailure and recordSuccess as the Valkey commands they send, in *)
(* order, run by every request of one backend. One router process talks to     *)
(* Valkey over one connection, so commands execute in the order they are sent  *)
(* and the next command of a call is sent when the reply of the previous one   *)
(* arrives; commands issued together by a Promise.all execute together.        *)
(*                                                                             *)
(* Time is counted in units; every TTL is kept as the units it has left, so    *)
(* the model needs no absolute clock. With a unit of 30 s the defaults are     *)
(* Window = 1, Cooldown = 2, AdapterTimeout = 4.                               *)
EXTENDS Integers, Sequences, FiniteSets, SequencesExt

CONSTANTS
    Requests,        \* requests that may be in flight at once
    Threshold,       \* CIRCUIT_FAILURE_THRESHOLD
    Window,          \* CIRCUIT_WINDOW_MS
    Cooldown,        \* CIRCUIT_COOLDOWN_MS
    AdapterTimeout,  \* CLOUD_ADAPTER_TIMEOUT_MS
    MaxCall,         \* bound: longest time a request spends past the breaker
    MaxCrashes       \* bound: router crashes

ASSUME BreakerAssumption ==
    /\ IsFiniteSet(Requests)
    /\ {Threshold, Window, Cooldown, AdapterTimeout} \subseteq Nat \ {0}
    /\ MaxCall \in Nat /\ MaxCrashes \in Nat

VARIABLES
    state,      \* breaker:state, "none" when the key is absent
    stateTTL,   \* units until that key expires
    probeIn,    \* breaker:probe_at - now, 0 once that time has passed
    probeTTL,   \* units until breaker:probe_at expires, 0 when absent
    lockTTL,    \* units until breaker:probe_lock expires, 0 when absent
    fails,      \* breaker:fail_count, counted up to Threshold
    failsTTL,   \* units until it expires, 0 when it has no TTL
    pc,         \* where each request is: its command on the wire, or its backend call
    age,        \* units since check() let it pass
    wire,       \* requests with a command on the connection, oldest first
    crashes     \* history: router crashes so far

valkey == <<state, stateTTL, probeIn, probeTTL, lockTTL, fails, failsTTL>>
vars == <<valkey, pc, age, wire, crashes>>

StateTTL == 2 * Cooldown
ProbeLockTTL == IF Cooldown > AdapterTimeout THEN Cooldown ELSE AdapterTimeout

Commands == {"check", "lock", "halfOpen", "failure", "reopen", "incr", "expire",
             "open", "success", "close"}

Init ==
    /\ state = "none" /\ stateTTL = 0
    /\ probeIn = 0 /\ probeTTL = 0
    /\ lockTTL = 0
    /\ fails = 0 /\ failsTTL = 0
    /\ pc = [r \in Requests |-> "idle"]
    /\ age = [r \in Requests |-> 0]
    /\ wire = <<>>
    /\ crashes = 0

-----------------------------------------------------------------------------
(* The connection *)

(* r sends the first command of a breaker call. *)
Send(r, command) ==
    /\ pc' = [pc EXCEPT ![r] = command]
    /\ wire' = Append(wire, r)

(* The oldest command on the wire, r's, executes, and r sends the next one. *)
Reply(r, command) == wire # <<>> /\ Head(wire) = r /\ pc[r] = command
Continue(r, command) ==
    /\ pc' = [pc EXCEPT ![r] = command]
    /\ wire' = Append(Tail(wire), r)

(* ... or r's breaker call returns. *)
Return(r, where) ==
    /\ pc' = [pc EXCEPT ![r] = where]
    /\ wire' = Tail(wire)

(* check() returns its verdict: "open" turns the request away (503), "closed"  *)
(* and "half-open" let it call the backend, the latter as the probe.           *)
Admit(r, verdict) ==
    /\ Return(r, CASE verdict = "open" -> "idle"
                   [] verdict = "closed" -> "calling"
                   [] verdict = "half-open" -> "probing")
    /\ UNCHANGED age

-----------------------------------------------------------------------------
(* check() *)

Check(r) ==
    /\ pc[r] = "idle"
    /\ Send(r, "check")
    /\ UNCHANGED <<valkey, age, crashes>>

(* GET state and GET probe_at. An absent probe_at reads as 0: the probe is due. *)
CheckGet(r) ==
    /\ Reply(r, "check")
    /\ \/ state = "none" /\ Admit(r, "closed")
       \/ state = "half-open" /\ Admit(r, "open")
       \/ state = "open" /\ probeIn > 0 /\ Admit(r, "open")
       \/ /\ state = "open" /\ probeIn = 0
          /\ Continue(r, "lock")
          /\ UNCHANGED age
    /\ UNCHANGED <<valkey, crashes>>

(* SET probe_lock PX NX *)
ProbeLock_Always(r) ==
    /\ Reply(r, "lock")
    /\ lockTTL' = ProbeLockTTL
    /\ Continue(r, "halfOpen")
    /\ UNCHANGED <<state, stateTTL, probeIn, probeTTL, fails, failsTTL, age, crashes>>
ProbeLock(r) ==
    /\ Reply(r, "lock")
    /\ \/ /\ lockTTL = 0
          /\ lockTTL' = ProbeLockTTL
          /\ Continue(r, "halfOpen")
          /\ UNCHANGED age
       \/ /\ lockTTL > 0
          /\ Admit(r, "open")
          /\ UNCHANGED lockTTL
    /\ UNCHANGED <<state, stateTTL, probeIn, probeTTL, fails, failsTTL, crashes>>

(* SET state half-open PX; the caller is the probe. *)
HalfOpen_NoTTL(r) ==
    /\ Reply(r, "halfOpen")
    /\ state' = "half-open"
    /\ stateTTL' = 0
    /\ Admit(r, "half-open")
    /\ UNCHANGED <<probeIn, probeTTL, lockTTL, fails, failsTTL, crashes>>
HalfOpen(r) ==
    /\ Reply(r, "halfOpen")
    /\ state' = "half-open"
    /\ stateTTL' = StateTTL
    /\ Admit(r, "half-open")
    /\ UNCHANGED <<probeIn, probeTTL, lockTTL, fails, failsTTL, crashes>>

-----------------------------------------------------------------------------
(* The backend call, between check() and the outcome the route records *)

InCall(r) == pc[r] \in {"calling", "probing"}

(* The call fails with an error isBreakerTrip accepts: a connection error, a   *)
(* timeout or a status >= 500.                                                 *)
TripFailure(r) ==
    /\ InCall(r)
    /\ Send(r, "failure")
    /\ age' = [age EXCEPT ![r] = 0]
    /\ UNCHANGED <<valkey, crashes>>

Success(r) ==
    /\ InCall(r)
    /\ Send(r, "success")
    /\ age' = [age EXCEPT ![r] = 0]
    /\ UNCHANGED <<valkey, crashes>>

(* Nothing is recorded: the error is not a trip (client abort, 4xx, validation)*)
(* so recordFailure returns at once, or the request was turned away after      *)
(* preflight (capability or token-cap error, saturated semaphore, idempotency  *)
(* follower) and never reached the backend. A probe leaks here.                *)
Unrecorded(r) ==
    /\ InCall(r)
    /\ pc' = [pc EXCEPT ![r] = "idle"]
    /\ age' = [age EXCEPT ![r] = 0]
    /\ UNCHANGED <<valkey, wire, crashes>>

-----------------------------------------------------------------------------
(* recordFailure() *)

FailureGet(r) ==
    /\ Reply(r, "failure")
    /\ Continue(r, IF state = "half-open" THEN "reopen" ELSE "incr")
    /\ UNCHANGED <<valkey, age, crashes>>

OpenFor(ttl) ==
    /\ state' = "open" /\ stateTTL' = ttl
    /\ probeIn' = Cooldown /\ probeTTL' = StateTTL

(* Promise.all: SET state open, SET probe_at, DEL probe_lock *)
Reopen(r) ==
    /\ Reply(r, "reopen")
    /\ OpenFor(StateTTL)
    /\ lockTTL' = 0
    /\ Return(r, "idle")
    /\ UNCHANGED <<fails, failsTTL, age, crashes>>

(* INCR fail_count: the first failure of a window sets its TTL next, and the   *)
(* Threshold-th one opens the breaker. (Counting stops at Threshold: the code  *)
(* tests only count = 1 and count >= Threshold.)                               *)
AfterCount_OffByOne(count) ==
    IF count > Threshold THEN "open" ELSE "idle"
AfterCount(count) ==
    IF count >= Threshold THEN "open" ELSE "idle"

FailureIncr(r) ==
    /\ Reply(r, "incr")
    /\ LET count == fails + 1 IN
       /\ fails' = IF count > Threshold THEN Threshold ELSE count
       /\ IF count = 1 THEN Continue(r, "expire")
          ELSE IF AfterCount(count) = "open" THEN Continue(r, "open")
          ELSE Return(r, "idle")
    /\ UNCHANGED <<state, stateTTL, probeIn, probeTTL, lockTTL, failsTTL, age, crashes>>

(* PEXPIRE fail_count (a no-op on a key that is gone) *)
FailureExpire(r) ==
    /\ Reply(r, "expire")
    /\ failsTTL' = IF fails = 0 THEN 0 ELSE Window
    /\ IF AfterCount(1) = "open" THEN Continue(r, "open") ELSE Return(r, "idle")
    /\ UNCHANGED <<state, stateTTL, probeIn, probeTTL, lockTTL, fails, age, crashes>>

(* Promise.all: SET state open, SET probe_at *)
Open_ShortTTL(r) ==
    /\ Reply(r, "open")
    /\ OpenFor(Cooldown)
    /\ Return(r, "idle")
    /\ UNCHANGED <<lockTTL, fails, failsTTL, age, crashes>>
Open(r) ==
    /\ Reply(r, "open")
    /\ OpenFor(StateTTL)
    /\ Return(r, "idle")
    /\ UNCHANGED <<lockTTL, fails, failsTTL, age, crashes>>

-----------------------------------------------------------------------------
(* recordSuccess() *)

SuccessGet(r) ==
    /\ Reply(r, "success")
    /\ IF state = "half-open" THEN Continue(r, "close") ELSE Return(r, "idle")
    /\ UNCHANGED <<valkey, age, crashes>>

(* Promise.all: DEL the four keys *)
Close(r) ==
    /\ Reply(r, "close")
    /\ state' = "none" /\ stateTTL' = 0
    /\ probeIn' = 0 /\ probeTTL' = 0
    /\ lockTTL' = 0
    /\ fails' = 0 /\ failsTTL' = 0
    /\ Return(r, "idle")
    /\ UNCHANGED <<age, crashes>>

-----------------------------------------------------------------------------
(* Time and crashes *)

Less(n) == IF n = 0 THEN 0 ELSE n - 1

(* A unit of time passes. A round trip to Valkey takes next to none of it, so  *)
(* no command is on the wire; a call that reached MaxCall has ended by then.   *)
Tick ==
    /\ wire = <<>>
    /\ \A r \in Requests : InCall(r) => age[r] < MaxCall
    /\ state' = IF stateTTL = 1 THEN "none" ELSE state
    /\ stateTTL' = Less(stateTTL)
    /\ probeIn' = IF probeTTL = 1 THEN 0 ELSE Less(probeIn)
    /\ probeTTL' = Less(probeTTL)
    /\ lockTTL' = Less(lockTTL)
    /\ fails' = IF failsTTL = 1 THEN 0 ELSE fails
    /\ failsTTL' = Less(failsTTL)
    /\ age' = [r \in Requests |-> IF InCall(r) THEN age[r] + 1 ELSE 0]
    /\ UNCHANGED <<pc, wire, crashes>>

(* The router dies and restarts: its requests and the commands still on the    *)
(* wire are gone, the keys stay.                                               *)
Crash ==
    /\ crashes < MaxCrashes
    /\ crashes' = crashes + 1
    /\ pc' = [r \in Requests |-> "idle"]
    /\ age' = [r \in Requests |-> 0]
    /\ wire' = <<>>
    /\ UNCHANGED valkey

Execute(r) ==
    \/ CheckGet(r) \/ ProbeLock(r) \/ HalfOpen(r)
    \/ FailureGet(r) \/ Reopen(r) \/ FailureIncr(r) \/ FailureExpire(r) \/ Open(r)
    \/ SuccessGet(r) \/ Close(r)

EndCall(r) == TripFailure(r) \/ Success(r) \/ Unrecorded(r)

Next ==
    \/ \E r \in Requests : Check(r) \/ Execute(r) \/ EndCall(r)
    \/ Tick
    \/ Crash

(* Requests keep arriving, Valkey answers, calls end (the adapters have        *)
(* timeouts), the connection is idle again and again (commands take            *)
(* milliseconds), and time passes whenever it is.                              *)
Fairness ==
    /\ \A r \in Requests : WF_vars(Check(r)) /\ WF_vars(Execute(r)) /\ WF_vars(EndCall(r))
    /\ []<>(wire = <<>>)
    /\ SF_vars(Tick)

Spec == Init /\ [][Next]_vars /\ Fairness

-----------------------------------------------------------------------------
(* Properties *)

(* Every key has its type, and a state key never lives without a TTL. *)
TypeOK ==
    /\ state \in {"none", "open", "half-open"}
    /\ stateTTL \in 0..StateTTL
    /\ state = "none" <=> stateTTL = 0
    /\ probeIn \in 0..Cooldown /\ probeTTL \in 0..StateTTL
    /\ lockTTL \in 0..ProbeLockTTL
    /\ fails \in 0..Threshold /\ failsTTL \in 0..Window
    /\ pc \in [Requests -> Commands \cup {"idle", "calling", "probing"}]
    /\ age \in [Requests -> 0..MaxCall]
    /\ wire \in Seq(Requests)
    /\ crashes \in 0..MaxCrashes

Probes == {r \in Requests : pc[r] = "probing"}

(* An open breaker always reaches its probe: the state key outlives probe_at   *)
(* by a whole cooldown, so it never lapses to closed at the very moment a      *)
(* probe becomes due (header, lines 12-20).                                    *)
OpenOutlivesCooldown ==
    state = "open" => probeTTL = stateTTL /\ (probeIn > 0 => stateTTL = probeIn + Cooldown)

(* Barring a crash, Threshold counted failures protect the backend: the        *)
(* breaker is not closed, or the call that makes it so is on the wire.         *)
CountedOut ==
    crashes = 0 /\ fails >= Threshold =>
        \/ state # "none"
        \/ \E r \in Requests : pc[r] \in {"open", "expire"}

(* Both: the backend is shielded when it fails, and probed when it may be back. *)
ShieldsBackend == OpenOutlivesCooldown /\ CountedOut

(* Two probes are in flight together only if they started a whole cooldown     *)
(* apart: no race between two checks ever admits a second probe at once.       *)
ProbesAreACooldownApart ==
    \A p, q \in Probes : p # q => age[p] - age[q] >= Cooldown \/ age[q] - age[p] >= Cooldown

(* The breaker never shuts a backend out for good, though probes leak, the     *)
(* router crashes, and stale outcomes are recorded (header, lines 34-39).      *)
RequestsGetThrough == []<>(\E r \in Requests : InCall(r))
=============================================================================
