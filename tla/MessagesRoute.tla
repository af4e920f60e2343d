---------------------------- MODULE MessagesRoute ----------------------------
(* POST /v1/messages (router/src/routes/v1/messages.ts). The Anthropic handler *)
(* is a copy of the chat one with its own translators and envelopes: each step *)
(* below is the shared step its lines repeat.                                  *)
EXTENDS RouteSteps

OnMessages(r) == surface[r] = "messages"

(* Preflight, the cloud token cap, the session attach, the translation to      *)
(* canonical form, the hooks and the vision check pass or throw.               *)
MessagesTurnedAway(r) == OnMessages(r) /\ TurnedAway(r)
MessagesAttach(r) == OnMessages(r) /\ Attach(r)
MessagesBadKey(r) == OnMessages(r) /\ BadKey(r)

(* The multiplexer fails, or makes the request a leader or a follower. *)
MessagesKeyFails(r) == OnMessages(r) /\ KeyFails(r)
MessagesFollow(r) == OnMessages(r) /\ Follow(r)
MessagesBodyArrives(r) == OnMessages(r) /\ BodyArrives(r)
MessagesBodyFails(r) == OnMessages(r) /\ BodyFails(r)
MessagesFollowerEnds(r, status) == OnMessages(r) /\ FollowerEnds(r, status)
MessagesLead(r) == OnMessages(r) /\ Lead(r)

(* A leader that waited gets its slot, or is refused one. *)
MessagesGranted(r) == OnMessages(r) /\ Granted(r)
MessagesRefused(r) == OnMessages(r) /\ (Saturated(r) \/ LeftQueue(r))

(* Its streaming call fails before the stream, or opens one that ends. *)
MessagesPreStreamError(r) == OnMessages(r) /\ PreStreamError(r)
MessagesStreamOpens(r) == OnMessages(r) /\ StreamOpens(r)
MessagesStreamEnds(r, failed) == OnMessages(r) /\ StreamEnds(r, failed)

(* Its plain call, a loop of them with external tools, fails or is answered. *)
MessagesCallFails(r) == OnMessages(r) /\ CallFails(r)
MessagesCallAnswers(r) == OnMessages(r) /\ CallAnswers(r)
MessagesReply(r) == OnMessages(r) /\ Reply(r)

MessagesStep(r) ==
    \/ MessagesTurnedAway(r) \/ MessagesAttach(r) \/ MessagesBadKey(r)
    \/ MessagesKeyFails(r) \/ MessagesFollow(r) \/ MessagesLead(r)
    \/ MessagesGranted(r) \/ MessagesRefused(r)
    \/ MessagesBodyArrives(r) \/ MessagesBodyFails(r)
    \/ \E status \in MuxEndings : MessagesFollowerEnds(r, status)
    \/ MessagesPreStreamError(r) \/ MessagesStreamOpens(r)
    \/ \E failed \in BOOLEAN : MessagesStreamEnds(r, failed)
    \/ MessagesCallFails(r) \/ MessagesCallAnswers(r) \/ MessagesReply(r)
=============================================================================
