---------------------------- MODULE SessionContext ---------------------------
(* What a request of a session sends to the model: the ContextProvider         *)
(* (router/src/providers/context-provider.ts), the projections around it       *)
(* (routes/v1/helpers/session-attach.ts), and what the translators of the two  *)
(* validated surfaces then accept. A message is its role, the kind of its      *)
(* content block and what it comes from; a token is the weight of a text.      *)
EXTENDS Integers, Sequences, FiniteSets, SequencesExt

CONSTANTS Budget,      \* ctx_size less the reserve
          Truncate,    \* context_strategy is "truncate"
          TurnCap      \* TRUNCATE_MAX_TURNS

ASSUME ContextAssumption == Budget \in Nat /\ TurnCap \in Nat /\ Truncate \in BOOLEAN

Message(role, block, from) == [role |-> role, block |-> block, from |-> from]

(* The numbers of a set, least first; and what a sequence has at them.         *)
Ascending(S) ==
    [k \in 1..Cardinality(S) |-> CHOOSE i \in S : Cardinality({j \in S : j <= i}) = k]
At(messages, places) ==
    LET order == Ascending(places) IN [i \in DOMAIN order |-> messages[order[i]]]

SystemOf(messages) == At(messages, {i \in DOMAIN messages : messages[i].role = "system"})
OthersOf(messages) == At(messages, {i \in DOMAIN messages : messages[i].role # "system"})

(* The last user message of an input is the turn that is appended, if any.     *)
UserIndexes(messages) == {i \in DOMAIN messages : messages[i].role = "user"}
LastUser(messages) ==
    CHOOSE m \in {messages[i] : i \in UserIndexes(messages)} :
        \A j \in UserIndexes(messages) : \E i \in UserIndexes(messages) : i >= j /\ messages[i] = m

-----------------------------------------------------------------------------
(* In and out of the canonical form *)

(* A tool result becomes a user message; an assistant's tool_calls are left    *)
(* behind.                                                                     *)
OpenAIMessagesToCanonical(messages) ==
    [i \in DOMAIN messages |->
        CASE messages[i].role = "assistant" -> [messages[i] EXCEPT !.block = "text"]
          [] messages[i].role = "tool" -> [messages[i] EXCEPT !.role = "user"]
          [] OTHER -> messages[i]]

(* A user message that is a tool result becomes one again.                     *)
CanonicalToOpenAIMessages(messages) ==
    [i \in DOMAIN messages |->
        IF messages[i].role = "user" /\ messages[i].block = "tool_result"
        THEN [messages[i] EXCEPT !.role = "tool"]
        ELSE messages[i]]

(* openAIRequestToCanonical throws on a content block it does not know.        *)
OpenAIAccepts(messages) == \A i \in DOMAIN messages :
    messages[i].role \in {"user", "assistant"} => messages[i].block = "text"

(* anthropicRequestToCanonical wants a user first and alternating roles.       *)
AnthropicAccepts(messages) ==
    /\ messages # <<>>
    /\ messages[1].role = "user"
    /\ \A i \in 2..Len(messages) : messages[i].role # messages[i - 1].role

-----------------------------------------------------------------------------
(* The ContextProvider *)

Weight(m) == IF m.block = "text" THEN 1 ELSE 2
Tokens(messages) == FoldLeft(LAMBDA sum, m : sum + Weight(m), 0, messages)

(* Both loops shift messages out at the front until the rest fits (fitting is  *)
(* the set of numbers of shifts after which it does), or only what the request *)
(* brought itself is left.                                                     *)
Floor_None(incoming) == 0
Floor(incoming) == Len(incoming)

Shift(messages, incoming, fitting) ==
    LET Stops(n) == Len(messages) - n <= Floor(incoming) \/ n \in fitting
        shifted  == Min({n \in 0..Len(messages) : Stops(n)})
    IN  SubSeq(messages, shifted + 1, Len(messages))

(* History in turn order, its system turns pinned and joined in front of the   *)
(* request's own; the request's messages at the end.                           *)
ProvideContext(history, incoming, system) ==
    LET pinned    == SystemOf(history) \o system
        evictable == OthersOf(history) \o incoming
        WithinCap == {n \in 0..Len(evictable) : Len(evictable) - n <= TurnCap}
        capped    == IF Truncate THEN Shift(evictable, incoming, WithinCap) ELSE evictable
        Rest(n)   == SubSeq(capped, n + 1, Len(capped))
        WithinBudget ==
            {n \in 0..Len(capped) : Tokens(pinned) + Tokens(Rest(n)) <= Budget}
        kept      == Shift(capped, incoming, WithinBudget)
    IN  [messages |-> kept, system |-> pinned, dropped |-> Len(evictable) - Len(kept)]

(* What the comments promise of it. CTXP-03: no system turn is evicted.        *)
(* Pitfall 17-G: no message of the request is. The rest are the newest turns   *)
(* that fit, and no turn is dropped that would.                                *)
IsRecent(context, history, incoming, system) ==
    LET all  == OthersOf(history) \o incoming
        n    == context.dropped
        Fits(messages) ==
            /\ Truncate => Len(messages) <= TurnCap
            /\ Tokens(context.system) + Tokens(messages) <= Budget
    IN  /\ context.system = SystemOf(history) \o system
        /\ n \in 0..Len(OthersOf(history))
        /\ context.messages = SubSeq(all, n + 1, Len(all))
        /\ Fits(context.messages) \/ context.messages = incoming
        /\ n > 0 => ~Fits(SubSeq(all, n, Len(all)))
=============================================================================
