----------------------------- MODULE HostTools -------------------------------
(* The tools of the MCP host that call a backend (router/src/mcp/host/tools).  *)
(* A tool call takes no slot and leads no idempotency key: it has no role. Its *)
(* signal is bridged to the transport's at once, so a cancelled call, a closed *)
(* session and a shutdown all abort it from its first step.                    *)
EXTENDS RouteSteps

(* A call comes in, with arguments the SDK has validated.                      *)
ToolArrives(r) ==
    /\ surface[r] \in ToolSurfaces /\ pc[r] = "idle"
    /\ Goto(r, "preflight")
    /\ listening' = [listening EXCEPT ![r] = TRUE]
    /\ UNCHANGED <<surface, stream, role, pump, connected, aborted, generating, slots, reports>>

(* The finally block. An abort counts as a disconnect whatever came of the     *)
(* call.                                                                       *)
ToolEnds_ReadsNoSignal(r, outcome) ==
    /\ Goto(r, "ended")
    /\ StopListening(r)
    /\ HangUp(r)
    /\ Record(r, outcome)
    /\ UNCHANGED <<surface, stream, role, pump, connected, aborted, slots, marker, turns>>
ToolEnds(r, outcome) ==
    /\ Goto(r, "ended")
    /\ StopListening(r)
    /\ HangUp(r)
    /\ Record(r, IF aborted[r] THEN "disconnect" ELSE outcome)
    /\ UNCHANGED <<surface, stream, role, pump, connected, aborted, slots, marker, turns>>

(* create_embedding leaves its listener on the signal. *)
EmbeddingEnds(r, outcome) ==
    /\ Goto(r, "ended")
    /\ HangUp(r)
    /\ Record(r, IF aborted[r] THEN "disconnect" ELSE outcome)
    /\ UNCHANGED <<surface, stream, role, pump, connected, listening, aborted, slots, marker, turns>>

Ends(r, outcome) ==
    IF surface[r] = "create_embedding" THEN EmbeddingEnds(r, outcome) ELSE ToolEnds(r, outcome)

(* The model is unknown or not allowed, or its breaker is open. (The rerank    *)
(* tool tells a breaker all the same, but that of a backend named "unknown".)  *)
ToolRefused(r) ==
    /\ surface[r] \in ToolSurfaces /\ pc[r] = "preflight"
    /\ Ends(r, "error")
    /\ UNCHANGED verdicts

(* The model lacks the capability: a failure of its backend, by this account.  *)
LacksCapability(r) ==
    /\ surface[r] \in ToolSurfaces \ {"chat_completion"} /\ pc[r] = "preflight"
    /\ Ends(r, "error")
    /\ Verdict(r, "failure")

ToolCalls(r) ==
    /\ surface[r] \in ToolSurfaces /\ pc[r] = "preflight"
    /\ Goto(r, "tooling")
    /\ generating' = [generating EXCEPT ![r] = ~aborted[r]]
    /\ UNCHANGED <<surface, stream, role, pump, connected, listening, aborted, slots, reports>>

(* The call returns or throws. The chat tool tells the breaker neither.        *)
ChatTool(r) ==
    /\ surface[r] = "chat_completion" /\ pc[r] = "tooling"
    /\ \E outcome \in {"success", "error"} : ToolEnds(r, outcome)
    /\ UNCHANGED verdicts

ResponseTool(r) ==
    /\ surface[r] = "create_response" /\ pc[r] = "tooling"
    /\ \/ ToolEnds(r, "success") /\ Verdict(r, "success")
       \/ ToolEnds(r, "error") /\ Verdict(r, "failure")

EmbeddingTool(r) ==
    /\ surface[r] = "create_embedding" /\ pc[r] = "tooling"
    /\ \/ EmbeddingEnds(r, "success") /\ Verdict(r, "success")
       \/ EmbeddingEnds(r, "error") /\ Verdict(r, "failure")

RerankTool(r) ==
    /\ surface[r] = "rerank_tool" /\ pc[r] = "tooling"
    /\ \/ ToolEnds(r, "success") /\ Verdict(r, "success")
       \/ ToolEnds(r, "error") /\ Verdict(r, "failure")

ToolStep(r) ==
    \/ ToolArrives(r) \/ ToolRefused(r) \/ LacksCapability(r) \/ ToolCalls(r)
    \/ ChatTool(r) \/ ResponseTool(r) \/ EmbeddingTool(r) \/ RerankTool(r)
=============================================================================
