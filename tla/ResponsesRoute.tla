--------------------------- MODULE ResponsesRoute ----------------------------
(* POST /v1/responses (router/src/routes/v1/responses.ts). A plain request     *)
(* takes the shared steps. A streaming one runs outside the handler's          *)
(* try/catch/finally: whoever refuses it a slot or a key only throws, so the   *)
(* breaker hears nothing of it, and its slot is kept until sseCleanup.         *)
EXTENDS RouteSteps

Plain(r) == surface[r] = "responses" /\ ~stream[r]
Streams(r) == surface[r] = "responses" /\ stream[r]

(* Preflight, the session attach and the hooks, up to the key. *)
ResponsesTurnedAway(r) == surface[r] = "responses" /\ TurnedAway(r)
ResponsesAttach(r) == surface[r] = "responses" /\ (Attach(r) \/ BadKey(r))

-----------------------------------------------------------------------------
(* Streaming *)

(* The model has no chat capability: the gate takes its listener back. *)
StreamGate(r) ==
    /\ Streams(r) /\ pc[r] = "acquiring"
    /\ Exit(r)
    /\ UNCHANGED <<role, verdicts>>

(* The multiplexer fails: thrown with the listener still on the socket. *)
StreamKeyFails(r) ==
    /\ Streams(r) /\ pc[r] = "acquiring"
    /\ Goto(r, "ended")
    /\ Record(r, "error")
    /\ UNCHANGED <<surface, stream, role, pump, connected, listening, aborted, generating,
                   slots, verdicts, marker, turns>>

StreamFollow(r) == Streams(r) /\ Follow(r)
StreamFollowerEnds(r, status) == Streams(r) /\ FollowerEnds(r, status)

(* acquire() takes a slot, waits for one or rejects, at once or later. *)
StreamLead(r) ==
    /\ Streams(r)
    /\ \/ TakeSlot(r)
       \/ WaitForSlot(r)
       \/ NoSlotForAborted(r) /\ Exit(r) /\ UNCHANGED verdicts
StreamGranted(r) == Streams(r) /\ Granted(r)
StreamLeftQueue(r) == Streams(r) /\ ThrownOut(r) /\ Exit(r) /\ UNCHANGED verdicts
StreamSaturated(r) == Streams(r) /\ TimesOut(r) /\ UNCHANGED verdicts

StreamPreError(r) == Streams(r) /\ PreStreamError(r)

(* The iterable is piped and the handler returns, with nothing to release.     *)
StreamOpensHolding(r) ==
    /\ Streams(r) /\ pc[r] = "calling"
    /\ pump' = [pump EXCEPT ![r] = "flowing"]
    /\ Goto(r, "ended")
    /\ UNCHANGED <<surface, stream, role, connected, listening, aborted, generating, slots, reports>>

StreamDone(r, failed) == Streams(r) /\ StreamEnds(r, failed)

-----------------------------------------------------------------------------
(* Plain requests: the capability gate throws inside the try like a key fails. *)
PlainKeyFails(r) == Plain(r) /\ KeyFails(r)
PlainFollow(r) == Plain(r) /\ Follow(r)
PlainBodyEnds(r) == Plain(r) /\ (BodyArrives(r) \/ BodyFails(r))
PlainLead(r) == Plain(r) /\ Lead(r)
PlainGranted(r) == Plain(r) /\ Granted(r)
PlainRefused(r) == Plain(r) /\ (Saturated(r) \/ LeftQueue(r))
PlainCallFails(r) == Plain(r) /\ CallFails(r)
PlainCallAnswers(r) == Plain(r) /\ CallAnswers(r)
PlainReply(r) == Plain(r) /\ Reply(r)

ResponsesStep(r) ==
    \/ ResponsesTurnedAway(r) \/ ResponsesAttach(r)
    \/ StreamGate(r) \/ StreamKeyFails(r) \/ StreamFollow(r) \/ StreamLead(r) \/ StreamGranted(r)
    \/ StreamLeftQueue(r) \/ StreamSaturated(r) \/ StreamPreError(r) \/ StreamOpensHolding(r)
    \/ \E status \in MuxEndings : StreamFollowerEnds(r, status)
    \/ \E failed \in BOOLEAN : StreamDone(r, failed)
    \/ PlainKeyFails(r) \/ PlainFollow(r) \/ PlainBodyEnds(r) \/ PlainLead(r) \/ PlainGranted(r)
    \/ PlainRefused(r) \/ PlainCallFails(r) \/ PlainCallAnswers(r) \/ PlainReply(r)
=============================================================================
