---------------------------- MODULE VectorRoutes -----------------------------
(* POST /v1/embeddings and /v1/rerank (router/src/routes/v1): no streams and   *)
(* no sessions. A rerank takes the shared steps. An embeddings request takes   *)
(* its slot inside provider.embed() (router/src/providers/                     *)
(* embedding-provider.ts), around the backend call alone and not at all when   *)
(* every input is cached; and its catch tells the breaker nothing of errors    *)
(* that are the request's own.                                                 *)
EXTENDS RouteSteps

OnEmbeddings(r) == surface[r] = "embeddings"
OnRerank(r) == surface[r] = "rerank"

-----------------------------------------------------------------------------
(* Embeddings *)

EmbedAttach(r) == OnEmbeddings(r) /\ (TurnedAway(r) \/ Attach(r) \/ BadKey(r))

(* The model has no embeddings capability, or dropped out of the registry. *)
EmbedGate(r) ==
    /\ OnEmbeddings(r) /\ pc[r] = "acquiring"
    /\ Exit(r)
    /\ UNCHANGED <<role, verdicts>>

EmbedKeyFails(r) == OnEmbeddings(r) /\ KeyFails(r)
EmbedFollow(r) == OnEmbeddings(r) /\ (Follow(r) \/ BodyArrives(r) \/ BodyFails(r))

(* Every input is cached: no slot and no call, and a success for the breaker.  *)
EmbedFromCache(r) ==
    /\ OnEmbeddings(r)
    /\ BecomeLeader(r)
    /\ Goto(r, "publishing")
    /\ Verdict(r, "success")
    /\ UNCHANGED <<surface, stream, pump, connected, listening, aborted, generating, slots,
                   rows, marker, turns>>

(* Some are not, or the cache failed: a slot, at once or later, or none.       *)
EmbedLead(r) == OnEmbeddings(r) /\ (Lead(r) \/ Granted(r))
EmbedRefused(r) == OnEmbeddings(r) /\ (Saturated(r) \/ LeftQueue(r))
EmbedCallFails(r) == OnEmbeddings(r) /\ CallFails(r)

(* The vectors, cached or not, have the wrong length: not the breaker's fault. *)
EmbedDimsMismatch(r) ==
    /\ OnEmbeddings(r)
    /\ \/ BecomeLeader(r)
       \/ pc[r] = "calling" /\ UNCHANGED role
    /\ Exit(r)
    /\ UNCHANGED verdicts

(* The provider lets the slot go; the client is still listened to.             *)
EmbedAnswers(r) ==
    /\ OnEmbeddings(r) /\ pc[r] = "calling"
    /\ SafeRelease(r)
    /\ HangUp(r)
    /\ Verdict(r, "success")
    /\ Goto(r, "publishing")
    /\ UNCHANGED <<surface, stream, role, pump, connected, listening, aborted, rows, marker, turns>>

EmbedReply(r) ==
    /\ OnEmbeddings(r) /\ pc[r] = "publishing"
    /\ Finalize(r, "done")
    /\ StopListening(r)
    /\ Goto(r, "ended")
    /\ Record(r, "success")
    /\ UNCHANGED <<surface, stream, role, pump, connected, aborted, generating, slots, verdicts, turns>>

-----------------------------------------------------------------------------
(* Rerank *)

RerankAttach(r) == OnRerank(r) /\ (TurnedAway(r) \/ Attach(r) \/ BadKey(r))
RerankKeyFails(r) == OnRerank(r) /\ KeyFails(r)
RerankFollow(r) == OnRerank(r) /\ (Follow(r) \/ BodyArrives(r) \/ BodyFails(r))
RerankLead(r) == OnRerank(r) /\ (Lead(r) \/ Granted(r))
RerankThrows(r) == OnRerank(r) /\ (Saturated(r) \/ LeftQueue(r) \/ CallFails(r))
RerankAnswers(r) == OnRerank(r) /\ CallAnswers(r)
RerankReply(r) ==
    /\ OnRerank(r) /\ pc[r] = "publishing"
    /\ Finalize(r, "done")
    /\ Goto(r, "ended")
    /\ SafeRelease(r)
    /\ Record(r, "success")
    /\ UNCHANGED <<surface, stream, role, pump, connected, listening, aborted, generating, verdicts, turns>>

VectorStep(r) ==
    \/ EmbedAttach(r) \/ EmbedGate(r) \/ EmbedKeyFails(r) \/ EmbedFollow(r) \/ EmbedFromCache(r)
    \/ EmbedLead(r) \/ EmbedRefused(r) \/ EmbedCallFails(r) \/ EmbedDimsMismatch(r)
    \/ EmbedAnswers(r) \/ EmbedReply(r)
    \/ RerankAttach(r) \/ RerankKeyFails(r) \/ RerankFollow(r) \/ RerankLead(r)
    \/ RerankThrows(r) \/ RerankAnswers(r) \/ RerankReply(r)
=============================================================================
