------------------------------- MODULE Routes --------------------------------
(* The requests of one backend, on whichever routes they come, sharing its     *)
(* slots.                                                                      *)
EXTENDS MessagesRoute, ResponsesRoute, VectorRoutes, HostTools

ChatStep(r) == surface[r] = "chat" /\
    \/ TurnedAway(r) \/ Attach(r) \/ BadKey(r) \/ KeyFails(r) \/ Follow(r) \/ Lead(r)
    \/ Granted(r) \/ Saturated(r) \/ LeftQueue(r) \/ BodyArrives(r) \/ BodyFails(r)
    \/ CallFails(r) \/ CallAnswers(r) \/ Reply(r) \/ PreStreamError(r) \/ StreamOpens(r)
    \/ \E failed \in BOOLEAN : StreamEnds(r, failed)
    \/ \E status \in MuxEndings : FollowerEnds(r, status)

Next == \E r \in Requests :
    \/ Arrive(r) \/ Disconnect(r)
    \/ ChatStep(r) \/ MessagesStep(r) \/ ResponsesStep(r) \/ VectorStep(r) \/ ToolStep(r)

(* Resumed handlers run, replies are sent, and an adapter call rejects once    *)
(* its signal aborts. Nothing else is fair: a backend may stay silent.         *)
Resumes(r) ==
    \/ Granted(r)
    \/ ~Streams(r) /\ LeftQueue(r)
    \/ StreamLeftQueue(r)
    \/ surface[r] \in SessionSurfaces /\ Reply(r)
    \/ EmbedReply(r) \/ RerankReply(r)
Rejects(r) == aborted[r] /\ (CallFails(r) \/ PreStreamError(r))
Fairness == \A r \in Requests : WF_vars(Resumes(r)) /\ WF_vars(Rejects(r))

Spec == Init /\ [][Next]_vars /\ Fairness

-----------------------------------------------------------------------------
(* Properties *)

Classes == {"success", "error", "disconnect"}

(* Every variable has its type, and only streaming requests are streamed to. *)
TypeOK ==
    /\ surface \in [Requests -> Surfaces]
    /\ stream \in [Requests -> BOOLEAN]
    /\ role \in [Requests -> {"none", "leader", "follower"}]
    /\ pc \in [Requests -> {"idle", "preflight", "acquiring", "queued", "calling",
                            "publishing", "following", "tooling", "ended"}]
    /\ pump \in [Requests -> {"none", "flowing", "ended"}]
    /\ \A r \in Requests : stream[r] => surface[r] \in SessionSurfaces
    /\ \A r \in Requests : pump[r] # "none" => stream[r] /\ pc[r] = "ended"
    /\ connected \in [Requests -> BOOLEAN]
    /\ listening \in [Requests -> BOOLEAN]
    /\ aborted \in [Requests -> BOOLEAN]
    /\ generating \in [Requests -> BOOLEAN]
    /\ holders \subseteq Requests /\ queue \in Seq(Requests)
    /\ rows \in [Requests -> Seq(Classes)]
    /\ verdicts \in [Requests -> Seq({"success", "failure"})]
    /\ marker \in [Requests -> {"none", "done", "error", "aborted"}]
    /\ turns \in [Requests -> BOOLEAN]

Finished(r) == pc[r] = "ended" /\ pump[r] # "flowing"

(* A request that works in a slot: from the grant to the end of its handler;   *)
(* of its backend call, for embeddings; of its stream, for a Responses stream. *)
Working(r) ==
    \/ pc[r] = "calling"
    \/ pc[r] = "publishing" /\ surface[r] # "embeddings"
    \/ surface[r] = "responses" /\ role[r] = "leader" /\ pump[r] = "flowing"

(* Slots follow the work, whichever exit ends it, and a request waits for one  *)
(* only inside acquire().                                                      *)
SlotsFollowWork ==
    \A r \in Requests :
        /\ Working(r) => r \in holders
        /\ r \in holders => Working(r) \/ pc[r] = "queued"
        /\ Waiting(r) => pc[r] = "queued" /\ r \notin holders

(* One request_log row per request, written when it ends and not before: the   *)
(* finally block, sseCleanup, the pre-stream catch and the error handler all   *)
(* try (CR-02, CR-03).                                                         *)
OneRow == \A r \in Requests : Len(rows[r]) = IF Finished(r) THEN 1 ELSE 0

(* A leader may leave the breaker without a verdict: an embeddings error that  *)
(* is the request's own, or a Responses stream that was refused its slot.      *)
MayBeSilent(r) == surface[r] = "embeddings" \/ Streams(r)

(* A finished leader told its breaker, its followers, its session and the      *)
(* request_log the same story: one verdict, or silence of an error before the  *)
(* call; turns only of a success; an error is a failure for all; and           *)
(* "disconnect" only if its client's signal aborted.                           *)
Agree(r) ==
    /\ \/ \E outcome \in {"success", "failure"} : verdicts[r] = <<outcome>>
       \/ verdicts[r] = <<>> /\ MayBeSilent(r) /\ rows[r] = <<"error">> /\ marker[r] = "none"
    /\ turns[r] <=> rows[r] = <<"success">> /\ surface[r] \in SessionSurfaces
    /\ rows[r] = <<"success">> => verdicts[r] = <<"success">> /\ marker[r] = "done"
    /\ rows[r] = <<"error">> => verdicts[r] # <<"success">> /\ marker[r] \in {"none", "error"}
    /\ rows[r] = <<"disconnect">> => aborted[r] /\ marker[r] \in {"error", "aborted"}

AccountsAgree == \A r \in Requests : Finished(r) /\ role[r] = "leader" => Agree(r)

(* A finished tool call is a success for the breaker if it is one for the      *)
(* request_log, and none if it failed; only the chat tool tells it nothing. A  *)
(* disconnect is just what a cancelled call is. It never held a slot, and left *)
(* the multiplexer and the session alone.                                      *)
ToolAgrees(r) ==
    /\ rows[r] = <<"success">> =>
            verdicts[r] = IF surface[r] = "chat_completion" THEN <<>> ELSE <<"success">>
    /\ rows[r] = <<"error">> => verdicts[r] \in {<<>>, <<"failure">>}
    /\ rows[r] = <<"disconnect">> <=> aborted[r]
    /\ r \notin holders /\ ~Waiting(r) /\ marker[r] = "none" /\ ~turns[r]

ToolsAgree == \A r \in Requests : Finished(r) /\ surface[r] \in ToolSurfaces => ToolAgrees(r)

(* A request that got past the Idempotency-Key leaves no listener on its       *)
(* socket, which may carry the next request.                                   *)
ListenersRemoved ==
    \A r \in Requests : Finished(r) /\ role[r] # "none" => ~listening[r]

(* A request closes its accounts once: both of these.                          *)
ClosesOnce == OneRow /\ ListenersRemoved

(* SC3: an abort takes the request out of the queue or frees its slot, though  *)
(* neither the backend nor the queue timeout ever acts; unless its Responses   *)
(* stream is open, which nothing here makes end.                               *)
AbortFreesSlot ==
    \A r \in Requests : aborted[r] ~> (r \notin holders /\ ~Waiting(r)) \/ pump[r] = "flowing"

(* D-B4 (concurrency.stream.test.ts, line 109): a chat stream holds its slot to *)
(* the last byte, so a backend never generates for more of them than it has slots.    *)
ChatStreams == {r \in Requests : surface[r] = "chat" /\ stream[r] /\ generating[r]}
ConcurrencyCapped == Cardinality(ChatStreams) <= MaxConcurrency
=============================================================================
