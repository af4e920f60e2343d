----------------------------- MODULE RouteSteps -----------------------------
(* The steps of the routes that call a backend (router/src/routes/v1): chat    *)
(* completions, whose lines are the ones translated here, and messages,        *)
(* responses, embeddings, rerank and the tools of the MCP host, whose modules  *)
(* say which of the steps are theirs and add their own. Slots are those of the *)
(* service the semaphore implements (BackendSemaphoreProofs, theorem           *)
(* Refinement). The multiplexer and the adapters answer as they like. An       *)
(* action is what a handler runs between two awaits. reply.sse() returns as    *)
(* soon as it has piped the iterable (lines 1331-1339), so a streaming handler *)
(* ends, finally block and all, while its stream still flows; sseCleanup runs  *)
(* when that ends.                                                             *)
EXTENDS Integers, Sequences, FiniteSets

CONSTANTS Requests,        \* requests routed to the backend
          MaxConcurrency   \* slots of the backend

ASSUME RouteAssumption ==
    /\ IsFiniteSet(Requests)
    /\ MaxConcurrency \in Nat \ {0}

VARIABLES
    surface,     \* the route
    stream,      \* body.stream
    role,        \* idempotencyRole; a request without a key is its own "leader"
    pc,          \* what the handler awaits
    pump,        \* the response stream reply.sse() started
    connected,   \* the client's socket is open
    listening,   \* onClose is registered on it
    aborted,     \* controller.signal.aborted
    generating,  \* the backend works on the request's call
    holders,     \* slots of the backend
    queue,       \* requests waiting for one
    rows,        \* request_log rows recorded for the request
    verdicts,    \* what the request told the breaker
    marker,      \* the terminal marker it published as leader
    turns        \* its turns were appended to the session

slots == <<holders, queue>>
reports == <<rows, verdicts, marker, turns>>
vars == <<surface, stream, role, pc, pump, connected, listening, aborted, generating, slots, reports>>

Slots == INSTANCE SlotService

(* The chat-like surfaces stream, and append their turns to a session. *)
SessionSurfaces == {"chat", "messages", "responses"}
(* The tools of the MCP host, whose steps are all their own (HostTools).       *)
ToolSurfaces == {"chat_completion", "create_response", "create_embedding", "rerank_tool"}
Surfaces == SessionSurfaces \cup {"embeddings", "rerank"} \cup ToolSurfaces

Waiting(r) == \E i \in 1..Len(queue) : queue[i] = r

Init ==
    /\ surface \in [Requests -> Surfaces]
    /\ stream \in [Requests -> BOOLEAN]
    /\ \A r \in Requests : stream[r] => surface[r] \in SessionSurfaces
    /\ role = [r \in Requests |-> "none"]
    /\ pc = [r \in Requests |-> "idle"]
    /\ pump = [r \in Requests |-> "none"]
    /\ connected = [r \in Requests |-> TRUE]
    /\ listening = [r \in Requests |-> FALSE]
    /\ aborted = [r \in Requests |-> FALSE]
    /\ generating = [r \in Requests |-> FALSE]
    /\ Slots!Init
    /\ rows = [r \in Requests |-> <<>>]
    /\ verdicts = [r \in Requests |-> <<>>]
    /\ marker = [r \in Requests |-> "none"]
    /\ turns = [r \in Requests |-> FALSE]

-----------------------------------------------------------------------------
(* The closures of the handler *)

Goto(r, where) == pc' = [pc EXCEPT ![r] = where]

(* safeRelease: at most one release, and only of a slot the request holds. *)
SafeRelease(r) ==
    \/ r \in holders /\ Slots!Return(r)
    \/ r \notin holders /\ UNCHANGED slots

(* safeRecord: the first row is the only one. *)
Recorded_Unguarded(log, class) == Append(log, class)
Recorded(log, class) == IF log = <<>> THEN <<class>> ELSE log
Record(r, class) == rows' = [rows EXCEPT ![r] = Recorded(@, class)]

Verdict(r, outcome) == verdicts' = [verdicts EXCEPT ![r] = Append(@, outcome)]
Finalize(r, status) == marker' = [marker EXCEPT ![r] = status]
StopListening(r) == listening' = [listening EXCEPT ![r] = FALSE]
HangUp(r) == generating' = [generating EXCEPT ![r] = FALSE]

(* The outer catch and finally: stop listening, release and record. The error  *)
(* handler of the app then gets the exception, and records it unless that was  *)
(* done. An abort is an error like any other here, and told to the breaker.    *)
RecordThrown(r) ==
    rows' = [rows EXCEPT ![r] = Recorded(Recorded(@, "error"), "error")]

Fail(r) ==
    /\ Goto(r, "ended")
    /\ StopListening(r)
    /\ HangUp(r)
    /\ RecordThrown(r)
    /\ UNCHANGED <<surface, stream, pump, connected, aborted, marker, turns>>

Exit_KeepsSlot(r) == Fail(r) /\ UNCHANGED slots
Exit(r) == Fail(r) /\ SafeRelease(r)

Throw(r) == Exit(r) /\ Verdict(r, "failure")

-----------------------------------------------------------------------------
(* Up to the slot *)

Arrive(r) ==
    /\ surface[r] \notin ToolSurfaces /\ pc[r] = "idle"
    /\ Goto(r, "preflight")
    /\ UNCHANGED <<surface, stream, role, pump, connected, listening, aborted, generating, slots, reports>>

(* Preflight, breaker, session attach, hooks and capability checks may throw   *)
(* before there is a listener; the error handler records the row.              *)
TurnedAway(r) ==
    /\ pc[r] = "preflight"
    /\ Goto(r, "ended")
    /\ Record(r, "error")
    /\ UNCHANGED <<surface, stream, role, pump, connected, listening, aborted, generating, slots,
                   verdicts, marker, turns>>

(* They pass: the handler listens for the client's disconnect and goes on to   *)
(* the multiplexer. A socket that closed during the awaits above never says so.*)
Attach(r) ==
    /\ pc[r] = "preflight"
    /\ Goto(r, "acquiring")
    /\ listening' = [listening EXCEPT ![r] = TRUE]
    /\ UNCHANGED <<surface, stream, role, pump, connected, aborted, generating, slots, reports>>

(* ... unless the Idempotency-Key is invalid: thrown outside the try block.    *)
BadKey(r) ==
    /\ pc[r] = "preflight"
    /\ Goto(r, "ended")
    /\ listening' = [listening EXCEPT ![r] = TRUE]
    /\ Record(r, "error")
    /\ UNCHANGED <<surface, stream, role, pump, connected, aborted, generating, slots,
                   verdicts, marker, turns>>

(* multiplexer.acquire() fails. *)
KeyFails(r) ==
    /\ pc[r] = "acquiring"
    /\ Throw(r)
    /\ UNCHANGED role

(* The adapter call starts, with the request's signal. *)
Call(r) ==
    /\ Goto(r, "calling")
    /\ generating' = [generating EXCEPT ![r] = ~aborted[r]]

(* The leader takes a slot, waits for one, or is refused: its client is gone.  *)
BecomeLeader(r) ==
    /\ pc[r] = "acquiring"
    /\ role' = [role EXCEPT ![r] = "leader"]

TakeSlot(r) ==
    /\ BecomeLeader(r)
    /\ Slots!Take(r)
    /\ Call(r)
    /\ UNCHANGED <<surface, stream, pump, connected, listening, aborted, reports>>

WaitForSlot(r) ==
    /\ BecomeLeader(r)
    /\ ~aborted[r]
    /\ Slots!Wait(r)
    /\ Goto(r, "queued")
    /\ UNCHANGED <<surface, stream, pump, connected, listening, aborted, generating, reports>>

NoSlotForAborted(r) ==
    /\ BecomeLeader(r)
    /\ aborted[r]
    /\ Cardinality(holders) = MaxConcurrency

Lead(r) ==
    \/ TakeSlot(r)
    \/ WaitForSlot(r)
    \/ NoSlotForAborted(r) /\ Throw(r)

(* A release granted the slot, and the handler resumes. *)
Granted(r) ==
    /\ pc[r] = "queued" /\ r \in holders
    /\ Call(r)
    /\ UNCHANGED <<surface, stream, role, pump, connected, listening, aborted, slots, reports>>

(* The queue timeout. *)
TimesOut(r) == pc[r] = "queued" /\ Slots!GiveUp(r) /\ Fail(r) /\ UNCHANGED role
Saturated(r) == TimesOut(r) /\ Verdict(r, "failure")

(* The semaphore rejected the waiter its client left. *)
ThrownOut(r) == pc[r] = "queued" /\ r \notin holders /\ ~Waiting(r) /\ UNCHANGED role
LeftQueue(r) == ThrownOut(r) /\ Throw(r)

-----------------------------------------------------------------------------
(* The client goes away: onClose aborts the signal, and the semaphore's own    *)
(* listener takes the request out of its queue.                                *)
Disconnect_StaysQueued(r) ==
    /\ connected[r]
    /\ pc[r] # "idle"
    /\ pc[r] = "ended" => pump[r] = "flowing"
    /\ connected' = [connected EXCEPT ![r] = FALSE]
    /\ aborted' = [aborted EXCEPT ![r] = listening[r]]
    /\ UNCHANGED <<surface, stream, role, pc, pump, listening, generating, slots, reports>>
Disconnect(r) ==
    /\ connected[r]
    /\ pc[r] # "idle"
    /\ pc[r] = "ended" => pump[r] = "flowing"
    /\ connected' = [connected EXCEPT ![r] = FALSE]
    /\ aborted' = [aborted EXCEPT ![r] = listening[r]]
    /\ IF listening[r] /\ Waiting(r) THEN Slots!GiveUp(r) ELSE UNCHANGED slots
    /\ UNCHANGED <<surface, stream, role, pc, pump, listening, generating, reports>>

-----------------------------------------------------------------------------
(* The leader's call *)

(* A non-stream call fails, or its JSON does not validate after one repair.    *)
CallFails(r) ==
    /\ pc[r] = "calling" /\ ~stream[r]
    /\ Throw(r)
    /\ UNCHANGED role

(* It answers: the client's disconnect no longer matters. *)
CallAnswers_KeepsListening(r) ==
    /\ pc[r] = "calling" /\ ~stream[r]
    /\ Goto(r, "publishing")
    /\ Verdict(r, "success")
    /\ HangUp(r)
    /\ UNCHANGED <<surface, stream, role, pump, connected, listening, aborted, slots, rows, marker, turns>>
CallAnswers(r) ==
    /\ pc[r] = "calling" /\ ~stream[r]
    /\ Goto(r, "publishing")
    /\ Verdict(r, "success")
    /\ StopListening(r)
    /\ HangUp(r)
    /\ UNCHANGED <<surface, stream, role, pump, connected, aborted, slots, rows, marker, turns>>

(* The slot is kept while the answer is published and the turns appended,      *)
(* neither of which can fail the request.                                      *)
Reply(r) ==
    /\ pc[r] = "publishing"
    /\ Finalize(r, "done")
    /\ turns' = [turns EXCEPT ![r] = TRUE]
    /\ Goto(r, "ended")
    /\ SafeRelease(r)
    /\ Record(r, "success")
    /\ UNCHANGED <<surface, stream, role, pump, connected, listening, aborted, generating, verdicts>>

(* A streaming call fails before its first event: answered here, with no throw.*)
PreStreamError(r) ==
    /\ pc[r] = "calling" /\ stream[r]
    /\ Verdict(r, "failure")
    /\ Finalize(r, "error")
    /\ StopListening(r)
    /\ HangUp(r)
    /\ Record(r, IF aborted[r] THEN "disconnect" ELSE "error")
    /\ Goto(r, "ended")
    /\ SafeRelease(r)
    /\ UNCHANGED <<surface, stream, role, pump, connected, aborted, turns>>

(* The stream opens and is piped; the handler ends. Its finally block leaves   *)
(* the row to sseCleanup, but not the slot.                                    *)
StreamOpens_Always(r) ==
    /\ pc[r] = "calling"
    /\ pump' = [pump EXCEPT ![r] = "flowing"]
    /\ Goto(r, "ended")
    /\ SafeRelease(r)
    /\ UNCHANGED <<surface, stream, role, connected, listening, aborted, generating, reports>>
StreamOpens(r) ==
    /\ pc[r] = "calling" /\ stream[r]
    /\ pump' = [pump EXCEPT ![r] = "flowing"]
    /\ Goto(r, "ended")
    /\ SafeRelease(r)
    /\ UNCHANGED <<surface, stream, role, connected, listening, aborted, generating, reports>>

(* The stream ends: complete, or cut short by its client (which the translator *)
(* reports as no error), or failed; the client may leave while the error is    *)
(* written to it. sseCleanup.                                                  *)
SseCleanup_IgnoresError(r, failed) ==
    /\ Verdict(r, IF failed THEN "failure" ELSE "success")
    /\ Finalize(r, IF failed THEN "error" ELSE IF aborted[r] THEN "aborted" ELSE "done")
    /\ Record(r, IF aborted[r] THEN "disconnect" ELSE "success")
    /\ turns' = [turns EXCEPT ![r] = ~failed /\ ~aborted[r]]
SseCleanup(r, failed) ==
    /\ Verdict(r, IF failed THEN "failure" ELSE "success")
    /\ Finalize(r, IF failed THEN "error" ELSE IF aborted[r] THEN "aborted" ELSE "done")
    /\ Record(r, IF failed THEN "error" ELSE IF aborted[r] THEN "disconnect" ELSE "success")
    /\ turns' = [turns EXCEPT ![r] = ~failed /\ ~aborted[r]]

StreamEnds(r, failed) ==
    /\ pump[r] = "flowing" /\ role[r] = "leader"
    /\ pump' = [pump EXCEPT ![r] = "ended"]
    /\ HangUp(r)
    /\ StopListening(r)
    /\ SafeRelease(r)
    /\ SseCleanup(r, failed)
    /\ UNCHANGED <<surface, stream, role, pc, connected, aborted>>

-----------------------------------------------------------------------------
(* Followers: no slot, no breaker verdict, no turns *)

(* A follower awaits the leader's body, or pipes the leader's events.          *)
Follow(r) ==
    /\ pc[r] = "acquiring"
    /\ role' = [role EXCEPT ![r] = "follower"]
    /\ IF stream[r]
       THEN Goto(r, "ended") /\ pump' = [pump EXCEPT ![r] = "flowing"]
       ELSE Goto(r, "following") /\ UNCHANGED pump
    /\ UNCHANGED <<surface, stream, connected, listening, aborted, generating, slots, reports>>

BodyArrives(r) ==
    /\ pc[r] = "following"
    /\ StopListening(r)
    /\ Goto(r, "ended")
    /\ Record(r, "success")
    /\ UNCHANGED <<surface, stream, role, pump, connected, aborted, generating, slots, verdicts, marker, turns>>

(* The leader failed, or said nothing for 30 s. *)
BodyFails(r) ==
    /\ pc[r] = "following"
    /\ Throw(r)
    /\ UNCHANGED role

MuxEndings == {"done", "error", "aborted", "failed"}

(* The follower's stream ends with the leader's terminal marker, or failed:    *)
(* the multiplexer threw. An "error" marker ends it like "done".               *)
FollowerEnds(r, status) ==
    /\ pump[r] = "flowing" /\ role[r] = "follower"
    /\ pump' = [pump EXCEPT ![r] = "ended"]
    /\ StopListening(r)
    /\ Record(r, IF aborted[r] \/ status = "aborted" THEN "disconnect"
                 ELSE IF status = "failed" THEN "error" ELSE "success")
    /\ UNCHANGED <<surface, stream, role, pc, connected, aborted, generating, slots, verdicts, marker, turns>>

=============================================================================
