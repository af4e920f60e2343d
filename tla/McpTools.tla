------------------------------- MODULE McpTools -------------------------------
(* One external MCP server as the requests see it: the lazily made connection   *)
(* they share and the cached tool list (mcp/client/registry.ts), the injection  *)
(* of its tools (routes/v1/helpers/pre-completion.ts), the model-tool-model     *)
(* loop (mcp/client/tool-loop.ts), and the dispose that follows a changed       *)
(* models.yaml (index.ts onReload). Servers share nothing but the code.         *)
EXTENDS Integers, FiniteSets, Sequences

CONSTANTS Requests,    \* requests for a model that enables the server
          Callers,     \* bound: those whose model calls tools
          Tools,       \* the tools it lists
          OwnTools,    \* tools that the requests bring themselves
          LoopMax,     \* MCP_TOOL_LOOP_MAX
          MaxReloads,  \* bound: reloads that change its entry
          Transports   \* SDK clients with their transports: numbers

ASSUME McpAssumption ==
    /\ LoopMax \in Nat \ {0} /\ MaxReloads \in Nat /\ Transports \subseteq Nat
    /\ Tools \cap OwnTools = {}

Reloads == 1..MaxReloads

VARIABLES
    state,      \* of a transport
    entry,      \* connections.get(alias): a set of at most one transport
    listed,     \* mcp:tools:{alias} holds a list
    reloads,    \* how often the entry of models.yaml changed
    dispose,    \* where the dispose() of a reload is
    popped,     \* the promise it took out of the map
    pc,         \* what a request awaits
    on,         \* the connection it awaits or uses
    loops,      \* mcpToolLoopEnabled
    iter,       \* rounds of the loop
    resp,       \* the tools that its answer calls
    calls,      \* what has become of the calls of the server's
    messages,   \* what the loop adds to canonical.messages: two turns a round, the
                \* calls of an answer and the results
    evicted     \* history: a failed connect removed somebody else's connection

connections == <<state, entry>>
disposal == <<dispose, popped>>
request == <<on, loops, iter, resp, calls, messages>>
mcpVars == <<connections, listed, reloads, disposal, pc, request, evicted>>

McpInit ==
    /\ state = [c \in Transports |-> "free"]
    /\ entry = {}
    /\ listed = FALSE
    /\ reloads = 0
    /\ dispose = [d \in Reloads |-> "none"]
    /\ popped = [d \in Reloads |-> {}]
    /\ pc = [r \in Requests |-> "idle"]
    /\ on = [r \in Requests |-> {}]
    /\ loops = [r \in Requests |-> FALSE]
    /\ iter = [r \in Requests |-> 0]
    /\ calls = [r \in Requests |-> [t \in Tools |-> "none"]]
    /\ resp = [r \in Requests |-> {}]
    /\ messages = [r \in Requests |-> <<>>]
    /\ evicted = FALSE

Goto(r, where) == pc' = [pc EXCEPT ![r] = where]
Held == entry \cup UNION {on[r] : r \in Requests} \cup UNION {popped[d] : d \in Reloads}

-----------------------------------------------------------------------------
(* The shared connection                                                       *)

(* Clients of ended or never started connections nobody refers to.             *)
Unused == {c \in Transports : state[c] \in {"free", "failed", "closed"} /\ c \notin Held}
Fresh == CHOOSE c \in Unused : TRUE

(* getOrConnect: the promise in the map, or a new one. Its configuration is     *)
(* that of the servers Map, which index.ts built once, before any reload.       *)
(* Unused # {} bounds the model: the program makes as many clients as it needs. *)
GetOrConnect(r) ==
    \/ entry # {} /\ on' = [on EXCEPT ![r] = entry] /\ UNCHANGED connections
    \/ /\ entry = {} /\ Unused # {}
       /\ on' = [on EXCEPT ![r] = {Fresh}]
       /\ state' = [state EXCEPT ![Fresh] = "connecting"]
       /\ entry' = {Fresh}

(* The handshake succeeds, or fails (the SDK has a timeout): then the map       *)
(* forgets the alias, whatever connection it has by now.                        *)
ConnectEnds(c) ==
    /\ state[c] = "connecting"
    /\ \/ state' = [state EXCEPT ![c] = "open"] /\ UNCHANGED <<entry, evicted>>
       \/ /\ state' = [state EXCEPT ![c] = "failed"]
          /\ entry' = {}
          /\ evicted' = (evicted \/ entry \ {c} # {})
    /\ UNCHANGED <<listed, reloads, disposal, pc, request>>

(* The server forgets the session; the map does not notice. *)
Lost(c) ==
    /\ state[c] = "open"
    /\ state' = [state EXCEPT ![c] = "lost"]
    /\ UNCHANGED <<entry, listed, reloads, disposal, pc, request, evicted>>

Settled(r) == \E c \in on[r] : state[c] # "connecting"
Usable(r) == \E c \in on[r] : state[c] = "open"

-----------------------------------------------------------------------------
(* getOrFetchTools and the injection: any failure leaves the request without    *)
(* the server's tools.                                                          *)

Without(r) == Goto(r, "model") /\ on' = [on EXCEPT ![r] = {}] /\ UNCHANGED loops
With(r) ==
    /\ Goto(r, "model")
    /\ on' = [on EXCEPT ![r] = {}]
    /\ loops' = [loops EXCEPT ![r] = TRUE]

FetchHit(r) ==
    /\ pc[r] = "idle" /\ listed
    /\ With(r)
    /\ UNCHANGED <<connections, listed, reloads, disposal, iter, resp, calls, messages,
                   evicted>>

(* A miss, or Valkey does not answer. *)
FetchMiss(r) ==
    /\ pc[r] = "idle"
    /\ GetOrConnect(r)
    /\ Goto(r, "listing")
    /\ UNCHANGED <<listed, reloads, disposal, loops, iter, resp, calls, messages, evicted>>

(* The connection failed, or listTools() did. *)
FetchFails(r) ==
    /\ pc[r] = "listing" /\ Settled(r)
    /\ Without(r)
    /\ UNCHANGED <<connections, listed, reloads, disposal, iter, resp, calls, messages,
                   evicted>>

List(r) ==
    /\ pc[r] = "listing" /\ Usable(r)
    /\ Goto(r, "caching")
    /\ UNCHANGED <<connections, listed, reloads, disposal, request, evicted>>

(* The list is written to the cache, if Valkey answers, even when a dispose     *)
(* has come in between.                                                         *)
FetchDone(r) ==
    /\ pc[r] = "caching"
    /\ listed' \in {listed, TRUE}
    /\ With(r)
    /\ UNCHANGED <<connections, reloads, disposal, iter, resp, calls, messages,
                   evicted>>

ListExpires ==
    /\ listed
    /\ listed' = FALSE
    /\ UNCHANGED <<connections, reloads, disposal, pc, request, evicted>>

-----------------------------------------------------------------------------
(* runMcpToolLoop                                                              *)

End(r) ==
    /\ Goto(r, "done")
    /\ loops' = [loops EXCEPT ![r] = FALSE]
    /\ iter' = [iter EXCEPT ![r] = 0]
    /\ messages' = [messages EXCEPT ![r] = <<>>]
    /\ UNCHANGED <<connections, listed, reloads, disposal, on, resp, calls, evicted>>

(* The model answers without a call of the server's tools, or there is no loop; *)
(* or the backend fails, or the client has left.                                *)
Finish(r) == pc[r] = "model" /\ End(r)

(* It calls some, and perhaps some of the request's own: the former are         *)
(* dispatched at once, each through callTool, the latter are ignored.           *)
MayLoop_OneMore(r) == iter[r] <= LoopMax
MayLoop(r) == iter[r] < LoopMax

Dispatch(r) ==
    /\ pc[r] = "model" /\ loops[r] /\ r \in Callers /\ MayLoop(r)
    /\ GetOrConnect(r)
    /\ \E asked \in SUBSET (Tools \cup OwnTools) :
          /\ asked \cap Tools # {}
          /\ resp' = [resp EXCEPT ![r] = asked]
          /\ calls' = [calls EXCEPT ![r] = [t \in Tools |-> IF t \in asked THEN "waiting" ELSE "none"]]
    /\ iter' = [iter EXCEPT ![r] = @ + 1]
    /\ Goto(r, "tools")
    /\ UNCHANGED <<listed, reloads, disposal, loops, messages, evicted>>

(* It still calls some after the last round: McpToolLoopExceededError. *)
Exceeded(r) ==
    /\ pc[r] = "model" /\ loops[r] /\ r \in Callers /\ ~MayLoop(r)
    /\ End(r)

Settle(r, t, status) ==
    /\ calls' = [calls EXCEPT ![r][t] = status]
    /\ UNCHANGED <<connections, listed, reloads, disposal, pc, on, loops, iter,
                   resp, messages, evicted>>

CallStarts(r, t) == calls[r][t] = "waiting" /\ Usable(r) /\ Settle(r, t, "running")

CallAnswers(r, t) == calls[r][t] = "running" /\ Usable(r) /\ Settle(r, t, "result")

(* The connection could not be made or is gone, or timeout_ms is over: the      *)
(* model gets an error result.                                                  *)
CallFails_OnlyRunning(r, t) == calls[r][t] = "running" /\ Settle(r, t, "error")
CallFails(r, t) ==
    /\ \/ calls[r][t] = "waiting" /\ Settled(r)
       \/ calls[r][t] = "running"
    /\ Settle(r, t, "error")

Open(r) == {t \in Tools : calls[r][t] \in {"waiting", "running"}}

(* All results are in: the whole answer and theirs join the transcript that     *)
(* the model is sent.                                                           *)
AllIn_Any(r) == \E t \in Tools : calls[r][t] \in {"result", "error"}
AllIn(r) == Open(r) = {}

Round(r) ==
    [asked |-> resp[r],
     results |-> {t \in Tools : calls[r][t] \in {"result", "error"}}]

NextRound(r) ==
    /\ pc[r] = "tools" /\ AllIn(r)
    /\ messages' = [messages EXCEPT ![r] = Append(@, Round(r))]
    /\ resp' = [resp EXCEPT ![r] = {}]
    /\ calls' = [calls EXCEPT ![r] = [t \in Tools |-> "none"]]
    /\ on' = [on EXCEPT ![r] = {}]
    /\ Goto(r, "model")
    /\ UNCHANGED <<connections, listed, reloads, disposal, loops, iter, evicted>>

-----------------------------------------------------------------------------
(* dispose()                                                                   *)

(* A reload changed the entry: the promise leaves the map at once. *)
Dispose(d) ==
    /\ d = reloads + 1
    /\ reloads' = d
    /\ popped' = [popped EXCEPT ![d] = entry]
    /\ entry' = {}
    /\ dispose' = [dispose EXCEPT ![d] = "deleting"]
    /\ UNCHANGED <<state, listed, pc, request, evicted>>

(* DEL of the cached list, which may fail. *)
Delete(d) ==
    /\ dispose[d] = "deleting"
    /\ listed' \in {listed, FALSE}
    /\ dispose' = [dispose EXCEPT ![d] = "closing"]
    /\ UNCHANGED <<connections, reloads, popped, pc, request, evicted>>

(* The promise settles, and its transport is closed. *)
Popped_Unsettled(d) == TRUE
Popped(d) == \A c \in popped[d] : state[c] # "connecting"

CloseTransport(d) ==
    /\ dispose[d] = "closing" /\ Popped(d)
    /\ state' = [c \in Transports |->
                    IF c \in popped[d] /\ state[c] \in {"open", "lost"} THEN "closed" ELSE state[c]]
    /\ popped' = [popped EXCEPT ![d] = {}]
    /\ dispose' = [dispose EXCEPT ![d] = "done"]
    /\ UNCHANGED <<entry, listed, reloads, pc, request, evicted>>

-----------------------------------------------------------------------------
RequestStep(r) ==
    \/ FetchHit(r) \/ FetchMiss(r) \/ FetchFails(r) \/ List(r) \/ FetchDone(r)
    \/ Finish(r) \/ Dispatch(r) \/ Exceeded(r) \/ NextRound(r)
    \/ \E t \in Tools : CallStarts(r, t) \/ CallAnswers(r, t) \/ CallFails(r, t)

McpNext ==
    \/ \E r \in Requests : RequestStep(r)
    \/ \E c \in Transports : ConnectEnds(c) \/ Lost(c)
    \/ ListExpires
    \/ \E d \in Reloads : Dispose(d) \/ Delete(d) \/ CloseTransport(d)

(* Every await of a request ends: connect, listTools and callTool time out.     *)
McpFairness ==
    /\ \A r \in Requests : WF_mcpVars(RequestStep(r))
    /\ \A c \in Transports : WF_mcpVars(ConnectEnds(c))

McpSpec == McpInit /\ [][McpNext]_mcpVars /\ McpFairness

-----------------------------------------------------------------------------
(* Types; the loop never runs more than its MCP_TOOL_LOOP_MAX rounds.          *)
Rounds == [asked : SUBSET (Tools \cup OwnTools), results : SUBSET Tools]
McpTypeOK ==
    /\ state \in [Transports -> {"free", "connecting", "open", "lost", "failed", "closed"}]
    /\ entry \in SUBSET Transports /\ \A c, d \in entry : c = d
    /\ listed \in BOOLEAN /\ evicted \in BOOLEAN
    /\ reloads \in 0..MaxReloads
    /\ dispose \in [Reloads -> {"none", "deleting", "closing", "done"}]
    /\ popped \in [Reloads -> SUBSET Transports]
    /\ pc \in [Requests -> {"idle", "listing", "caching", "model", "tools", "done"}]
    /\ on \in [Requests -> SUBSET Transports]
    /\ loops \in [Requests -> BOOLEAN]
    /\ iter \in [Requests -> 0..LoopMax]
    /\ calls \in [Requests -> [Tools -> {"none", "waiting", "running", "result", "error"}]]
    /\ resp \in [Requests -> SUBSET (Tools \cup OwnTools)]
    /\ messages \in [Requests -> Seq(Rounds)]

(* Requests share one connection: a live one is either the map's or in the      *)
(* hands of a dispose that will close it. Only a connect that failed after a    *)
(* dispose, and took its successor out of the map, can leave one behind.        *)
Live == {c \in Transports : state[c] \in {"connecting", "open", "lost"}}
NoStrayConnection ==
    ~evicted => Live \subseteq entry \cup UNION {popped[d] : d \in Reloads}

(* Whatever connections failed, were lost or were disposed of under its calls,  *)
(* the transcript that the model is sent has every round so far and, right      *)
(* after an answer, one result for each of its calls of the server's tools. It  *)
(* has none for the request's own tools: an answer that mixes the two is sent   *)
(* back with those calls open, where the loop's header says that they "pass     *)
(* through unchanged so the caller / route can surface them" (tool-loop.ts:57). *)
Answered(round) == round.results = round.asked \cap Tools
CallsAnswered ==
    \A r \in Requests :
        /\ Len(messages[r]) = IF pc[r] = "tools" THEN iter[r] - 1 ELSE iter[r]
        /\ \A i \in DOMAIN messages[r] : Answered(messages[r][i])

(* A request ends, whatever happens to the connections it waits for. *)
LoopEnds == \A r \in Requests : pc[r] # "idle" ~> pc[r] = "done"
===============================================================================
