-------------------------------- MODULE Streams --------------------------------
(* One streamed answer on its way to the client: the chunks of the backend      *)
(* become canonical events (translation/openai-out.ts, ollama-native-out.ts),   *)
(* which the client's surface turns into its own SSE frames (openai-out.ts,     *)
(* anthropic-out.ts, responses-stream.ts). The backend may fail or the client   *)
(* leave at any point. A text is known by its number of fragments, a fragment   *)
(* of a tool call's arguments by the call it belongs to.                        *)
EXTENDS Integers, Sequences, FiniteSets, SequencesExt

CONSTANTS Calls,     \* upstream tool_calls[] slots
          MaxChunks  \* bound: chunks of the answer

ASSUME StreamsAssumption == MaxChunks \in Nat /\ "text" \notin Calls /\ IsFiniteSet(Calls)

Surfaces == {"openai", "anthropic", "responses"}
Finishes == {"stop", "length", "tool_calls"}
NoFinish == "none"

VARIABLES
    surface,  \* the route's surface
    backend,  \* the adapter's translator: "openai" (chunks) or "ollama" (NDJSON lines)
    chunks,   \* how many the backend sent
    sent,     \* history: fragments the backend sent of the text and of each named call
    src,      \* local state of the source translator
    events,   \* what it yielded and the sink has not pulled
    aborted,  \* the client left: opts.signal.aborted
    heard,    \* history: what the canonical events said so far
    fsm,      \* canonicalToResponsesSse: position of the current output item, 0 when idle
    stop,     \* stop reason of the last message_delta
    client,   \* what the client received
    cleanup   \* what onCleanup reported: at most one of "fine", "error"

upstream == <<chunks, sent, src>>
sink == <<heard, fsm, stop, client, cleanup>>
vars == <<surface, backend, upstream, events, aborted, sink>>

Init ==
    /\ surface \in Surfaces
    /\ backend \in {"openai", "ollama"}
    /\ chunks = 0
    /\ sent = [k \in Calls \cup {"text"} |-> 0]
    /\ src = [started |-> FALSE, text |-> FALSE, block |-> [k \in Calls |-> 0], open |-> <<>>,
              finish |-> NoFinish, usage |-> FALSE, returned |-> FALSE]
    /\ events = <<>>
    /\ aborted = FALSE
    /\ heard = [phase |-> "new", open |-> {}, last |-> [type |-> "none", index |-> 0]]
    /\ fsm = 0
    /\ stop = NoFinish
    /\ client = [created |-> FALSE, items |-> <<>>, texts |-> 0, finish |-> NoFinish,
                 ends |-> <<>>, overlap |-> FALSE]
    /\ cleanup = {}

-----------------------------------------------------------------------------
(* The source: an async generator, resumed when the sink has consumed what it   *)
(* yielded                                                                      *)

Event(type, index, of) == [type |-> type, index |-> index, of |-> of]
BlockStart(i, of) == Event("content_block_start", i, of)
BlockDelta(i, of) == Event("content_block_delta", i, of)
BlockStop(i) == Event("content_block_stop", i, "any")
MessageStart == Event("message_start", 0, "any")
MessageDelta(reason) == Event("message_delta", 0, reason)
MessageStop == Event("message_stop", 0, "any")
Return == Event("return", 0, "any")           \* the generator is done
Throw(error) == Event("throw", 0, error)

Resumed == events = <<>> /\ ~src.returned
Arrives == Resumed /\ ~src.usage /\ chunks < MaxChunks /\ chunks' = chunks + 1
Yield(es) == events' = es /\ UNCHANGED <<surface, backend, aborted, sink>>
Started == IF src.started THEN <<>> ELSE <<MessageStart>>
Closing == IF src.text THEN <<BlockStop(0)>> ELSE <<>>

(* Mutant: the tool blocks are left open *)
ClosingAll_TextOnly == Closing

(* The tool blocks are closed in the order the map got them                     *)
ClosingAll == Closing \o [n \in 1..Len(src.open) |-> BlockStop(src.block[src.open[n]])]

(* delta.content                                                                *)
TextChunk ==
    /\ Arrives
    /\ sent' = [sent EXCEPT !["text"] = @ + 1]
    /\ src' = [src EXCEPT !.started = TRUE, !.text = TRUE]
    /\ Yield(Started \o (IF src.text THEN <<>> ELSE <<BlockStart(0, "text")>>)
                     \o <<BlockDelta(0, "text")>>)

(* delta.tool_calls[]: a call not seen before and without its name is skipped   *)
UnnamedChunk ==
    /\ Arrives
    /\ src' = [src EXCEPT !.started = TRUE]
    /\ Yield(Started)
    /\ UNCHANGED sent

(* Mutant: the index is taken before it is incremented *)
NextBlock_PostIncrement == Cardinality({k \in Calls : src.block[k] # 0})

NextBlock == Cardinality({k \in Calls : src.block[k] # 0}) + 1

CallChunk(k, args) ==
    LET opened == k \in Range(src.open)
        i == IF src.block[k] = 0 THEN NextBlock ELSE src.block[k]
        opening == IF opened THEN <<>> ELSE Closing \o <<BlockStart(i, k)>>
    IN  /\ Arrives
        /\ sent' = [sent EXCEPT ![k] = @ + args]
        /\ src' = [src EXCEPT !.started = TRUE, !.block[k] = i, !.text = @ /\ opened,
                              !.open = IF opened THEN @ ELSE Append(@, k)]
        /\ Yield(Started \o opening \o [n \in 1..args |-> BlockDelta(i, k)])

FinishChunk(f) ==
    /\ Arrives
    /\ src' = [src EXCEPT !.started = TRUE, !.finish = f]
    /\ Yield(Started)
    /\ UNCHANGED sent

ToStop(f) == CASE f = "length" -> "max_tokens" [] f = "tool_calls" -> "tool_use" [] OTHER -> "end_turn"

(* The backends are asked for a usage chunk, and it is their last               *)
UsageChunk ==
    /\ Arrives
    /\ src' = [src EXCEPT !.started = TRUE, !.text = FALSE, !.open = <<>>, !.usage = TRUE]
    /\ Yield(Started \o ClosingAll \o <<MessageDelta(ToStop(src.finish))>>)
    /\ UNCHANGED sent

(* The chunks end, with usage or without, for the SDK also when it is aborted   *)
ChunksEnd ==
    /\ Resumed
    /\ src' = [src EXCEPT !.text = FALSE, !.open = <<>>, !.returned = TRUE]
    /\ Yield(ClosingAll \o <<MessageStop, Return>>)
    /\ UNCHANGED <<chunks, sent>>

OpenAISource ==
    \/ TextChunk
    \/ UnnamedChunk /\ \E k \in Calls : src.block[k] = 0
    \/ \E k \in Calls, args \in {0, 1} : CallChunk(k, args)
    \/ \E f \in Finishes : FinishChunk(f)
    \/ UsageChunk
    \/ ChunksEnd

FirstLine == IF src.started THEN <<>> ELSE <<MessageStart, BlockStart(0, "text")>>
EndTurn == <<BlockStop(0), MessageDelta("end_turn"), MessageStop, Return>>

Line(tokens) ==
    /\ Arrives
    /\ sent' = [sent EXCEPT !["text"] = @ + tokens]
    /\ src' = [src EXCEPT !.started = TRUE, !.text = TRUE]
    /\ Yield(FirstLine \o [n \in 1..tokens |-> BlockDelta(0, "text")])

DoneLine ==
    /\ Arrives
    /\ src' = [src EXCEPT !.started = TRUE, !.text = FALSE, !.usage = TRUE, !.returned = TRUE]
    /\ Yield(FirstLine \o EndTurn)
    /\ UNCHANGED sent

(* The body ends without a done line                                            *)
LinesEnd ==
    /\ Resumed
    /\ src' = [src EXCEPT !.text = FALSE, !.returned = TRUE]
    /\ Yield(IF src.started THEN EndTurn ELSE <<Throw("error")>>)
    /\ UNCHANGED <<chunks, sent>>

(* The generator looks at the signal before it reads, and when a read fails     *)
LinesAborted ==
    /\ Resumed
    /\ aborted
    /\ src' = [src EXCEPT !.returned = TRUE]
    /\ Yield(<<Return>>)
    /\ UNCHANGED <<chunks, sent>>

OllamaSource == (\E tokens \in {0, 1} : Line(tokens)) \/ DoneLine \/ LinesEnd \/ LinesAborted

(* A lost connection, a malformed chunk; "userAbort" is the SDK's own abort,    *)
(* which has no error envelope                                                  *)
UpstreamFails(error) ==
    /\ Resumed
    /\ src' = [src EXCEPT !.returned = TRUE]
    /\ Yield(<<Throw(error)>>)
    /\ UNCHANGED <<chunks, sent>>

Source ==
    \/ backend = "openai" /\ OpenAISource
    \/ backend = "ollama" /\ OllamaSource
    \/ \E error \in {"error", "userAbort"} : UpstreamFails(error)

-----------------------------------------------------------------------------
(* The sinks: one step per event pulled                                         *)

Running == cleanup = {}
e == Head(events)

Hear(type) == heard' =
    [phase |-> CASE type = "message_start" -> "started" [] type = "message_stop" -> "stopped"
                 [] OTHER -> heard.phase,
     open  |-> CASE type = "content_block_start" -> heard.open \cup {e.index}
                 [] type = "content_block_stop" -> heard.open \ {e.index}
                 [] OTHER -> heard.open,
     last  |-> [type |-> type, index |-> e.index]]

Pulls(type) == Running /\ events # <<>> /\ e.type = type /\ events' = Tail(events)
Pull(type) ==
    /\ Pulls(type)
    /\ Hear(type)
    /\ UNCHANGED <<surface, backend, upstream, aborted, cleanup>>

(* What a client collects                                                       *)
Newest == Len(client.items)
Add == [client EXCEPT !.items = Append(@, [of |-> e.of, index |-> e.index, got |-> <<>>, done |-> FALSE])]
Receive(n) == [client EXCEPT !.items[n].got = Append(@, e.of), !.texts = IF e.of = "text" THEN @ + 1 ELSE @]
Finish(how) == [client EXCEPT !.finish = how]
End(how) == [client EXCEPT !.ends = Append(@, how)]
Gets(what) == client' = what

(* The newest item of a block index                                             *)
NewestAt(index) == CHOOSE n \in 1..Newest : /\ client.items[n].index = index
                                            /\ \A m \in n+1..Newest : client.items[m].index # index

(* canonicalToOpenAISse: text needs no announcement, a block's end no frame     *)
OpenAIBlockStart ==
    /\ Pull("content_block_start")
    /\ Gets(IF e.of = "text" THEN client ELSE Add)
    /\ UNCHANGED <<fsm, stop>>

(* Mutant: every fragment goes to the first call *)
OpenAIBlockDelta_First ==
    /\ Pull("content_block_delta")
    /\ Gets(IF e.of = "text" THEN [client EXCEPT !.texts = @ + 1] ELSE Receive(1))
    /\ UNCHANGED <<fsm, stop>>

(* toolCallIndexByBlockIndex leads a fragment to its call                       *)
OpenAIBlockDelta ==
    /\ Pull("content_block_delta")
    /\ Gets(IF e.of = "text" THEN [client EXCEPT !.texts = @ + 1] ELSE Receive(NewestAt(e.index)))
    /\ UNCHANGED <<fsm, stop>>

ToFinish(reason) ==
    CASE reason = "max_tokens" -> "length" [] reason = "tool_use" -> "tool_calls" [] OTHER -> "stop"

OpenAIMessageDelta ==
    /\ Pull("message_delta")
    /\ Gets(Finish(ToFinish(e.of)))
    /\ UNCHANGED <<fsm, stop>>

OpenAIMessageStop == Pull("message_stop") /\ Gets(End("completed")) /\ UNCHANGED <<fsm, stop>>
OpenAISilent == (Pull("message_start") \/ Pull("content_block_stop")) /\ UNCHANGED <<client, fsm, stop>>

OpenAISink ==
    \/ OpenAIBlockStart \/ OpenAIBlockDelta \/ OpenAIMessageDelta \/ OpenAIMessageStop \/ OpenAISilent

(* canonicalToAnthropicSse: one frame per event                                 *)
AnthropicSink ==
    /\ \/ Pull("message_start") /\ Gets([client EXCEPT !.created = TRUE])
       \/ Pull("content_block_start") /\ Gets(Add)
       \/ Pull("content_block_delta") /\ Gets(Receive(NewestAt(e.index)))
       \/ Pull("content_block_stop") /\ Gets([client EXCEPT !.items[NewestAt(e.index)].done = TRUE])
       \/ Pull("message_delta") /\ Gets(Finish(e.of))
       \/ Pull("message_stop") /\ Gets(End("completed"))
    /\ UNCHANGED <<fsm, stop>>

(* canonicalToResponsesSse: the new item becomes the current one whatever was   *)
(* current; a delta that does not fit the kind of the current item is dropped;  *)
(* a block's end closes the current item, whatever the event's index            *)
ResponsesMessageStart ==
    Pull("message_start") /\ Gets([client EXCEPT !.created = TRUE]) /\ UNCHANGED <<fsm, stop>>

ResponsesBlockStart ==
    /\ Pull("content_block_start")
    /\ Gets([Add EXCEPT !.overlap = @ \/ fsm # 0])
    /\ fsm' = Newest + 1
    /\ UNCHANGED stop

Fits == fsm # 0 /\ (e.of = "text" <=> client.items[fsm].of = "text")

ResponsesBlockDelta ==
    /\ Pull("content_block_delta")
    /\ Gets(IF Fits THEN Receive(fsm) ELSE client)
    /\ UNCHANGED <<fsm, stop>>

ResponsesBlockStop ==
    /\ Pull("content_block_stop")
    /\ Gets(IF fsm = 0 THEN client ELSE [client EXCEPT !.items[fsm].done = TRUE])
    /\ fsm' = 0
    /\ UNCHANGED stop

ResponsesMessageDelta == Pull("message_delta") /\ stop' = e.of /\ UNCHANGED <<client, fsm>>

ResponsesMessageStop ==
    /\ Pull("message_stop")
    /\ Gets([End("completed") EXCEPT !.finish = IF stop = "tool_use" THEN "incomplete" ELSE "completed"])
    /\ UNCHANGED <<fsm, stop>>

ResponsesSink ==
    \/ ResponsesMessageStart \/ ResponsesBlockStart \/ ResponsesBlockDelta \/ ResponsesBlockStop
    \/ ResponsesMessageDelta \/ ResponsesMessageStop

(* finally: the route's onCleanup is told of an error or of none                *)
CleansUp(how) ==
    /\ cleanup' = {how}
    /\ UNCHANGED <<surface, backend, upstream, aborted, heard, fsm, stop>>

Finally == Pulls("return") /\ CleansUp("fine") /\ UNCHANGED client

(* catch: nothing for a client that left, one error frame otherwise; an abort   *)
(* that is not the client's ends in a bare [DONE] or, on the Anthropic surface, *)
(* in silence                                                                   *)
ThrowAborted == aborted /\ CleansUp("fine") /\ UNCHANGED client

OpenAIThrow_IgnoresSignal ==   \* mutant: the signal is not looked at
    CleansUp("error") /\ Gets(End(IF e.of = "userAbort" THEN "completed" ELSE "failed"))

OpenAIThrow ==
    \/ ThrowAborted
    \/ ~aborted /\ CleansUp("error") /\ Gets(End(IF e.of = "userAbort" THEN "completed" ELSE "failed"))

AnthropicThrow ==
    \/ ThrowAborted
    \/ ~aborted /\ e.of = "userAbort" /\ CleansUp("fine") /\ UNCHANGED client
    \/ ~aborted /\ e.of # "userAbort" /\ CleansUp("error") /\ Gets(End("failed"))

ResponsesThrow == ThrowAborted \/ (~aborted /\ CleansUp("error") /\ Gets(End("failed")))

Sink ==
    \/ surface = "openai" /\ (OpenAISink \/ (Pulls("throw") /\ OpenAIThrow))
    \/ surface = "anthropic" /\ (AnthropicSink \/ (Pulls("throw") /\ AnthropicThrow))
    \/ surface = "responses" /\ (ResponsesSink \/ (Pulls("throw") /\ ResponsesThrow))
    \/ Finally

(* The client's close aborts the signal; the pipe may also return the generator *)
ClientLeaves ==
    /\ Running
    /\ ~aborted
    /\ aborted' = TRUE
    /\ UNCHANGED <<surface, backend, upstream, events, sink>>

Dropped ==
    /\ Running
    /\ aborted
    /\ events' = <<>>
    /\ src' = [src EXCEPT !.returned = TRUE]
    /\ cleanup' = {"fine"}
    /\ UNCHANGED <<surface, backend, chunks, sent, aborted, heard, fsm, stop, client>>

Next == Source \/ Sink \/ ClientLeaves \/ Dropped
Spec == Init /\ [][Next]_vars

-----------------------------------------------------------------------------
(* Properties                                                                  *)

Blocks == 0..Cardinality(Calls)
EventTypes == {"message_start", "content_block_start", "content_block_delta", "content_block_stop",
               "message_delta", "message_stop", "return", "throw"}
Reasons == {"end_turn", "max_tokens", "tool_use"}

Sources == Calls \cup {"text"}
Events == [type : EventTypes, index : Blocks,
           of : Sources \cup Reasons \cup {"any", "error", "userAbort"}]
Items == [of : Sources, index : Blocks, got : Seq(Sources), done : BOOLEAN]

(* Types, with the discipline of the source's flags: a call is open only once   *)
(* it has a block, no two calls share one, and block 0 is the text's.           *)
TypeOK ==
    /\ surface \in Surfaces /\ backend \in {"openai", "ollama"}
    /\ chunks \in 0..MaxChunks
    /\ sent \in [Sources -> 0..MaxChunks]
    /\ src \in [started : BOOLEAN, text : BOOLEAN, block : [Calls -> Blocks], open : Seq(Calls),
               finish : Finishes \cup {NoFinish}, usage : BOOLEAN, returned : BOOLEAN]
    /\ \A k \in Range(src.open) : src.block[k] # 0
    /\ \A j, k \in Calls : src.block[j] = src.block[k] /\ j # k => src.block[j] = 0
    /\ events \in Seq(Events)
    /\ aborted \in BOOLEAN
    /\ heard \in [phase : {"new", "started", "stopped"}, open : SUBSET Blocks,
                 last : [type : EventTypes \cup {"none"}, index : Blocks]]
    /\ fsm \in 0..Newest
    /\ stop \in Reasons \cup {NoFinish}
    /\ client \in [created : BOOLEAN, items : Seq(Items), texts : Nat,
                  finish : Finishes \cup Reasons \cup {NoFinish, "completed", "incomplete"},
                  ends : Seq({"completed", "failed"}), overlap : BOOLEAN]
    /\ cleanup \in {{}, {"fine"}, {"error"}}

(* Both source translators keep the contract of the canonical events, whatever  *)
(* order text, parallel tool calls, finish and usage arrive in and wherever the *)
(* chunks stop: no delta outside its block, no block left open or opened twice. *)
Contract == INSTANCE CanonicalEvents
    WITH phase <- heard.phase, open <- heard.open, last <- heard.last
ImplementsContract == Contract!Spec

(* Fragments reach the client in the item they were sent for, and an answer the *)
(* client takes for complete has all of them, every call once, and the backend's*)
(* finish reason where it came before the usage. (On the Responses surface: so  *)
(* long as no item starts while another is current.)                            *)
OwnFragments == \A n \in 1..Newest : \A f \in Range(client.items[n].got) : f = client.items[n].of
ItemsOf(k) == {n \in 1..Newest : client.items[n].of = k}
AllArrived ==
    /\ client.texts = sent["text"]
    /\ \A k \in Calls : src.block[k] # 0 =>
          \E n \in ItemsOf(k) : ItemsOf(k) = {n} /\ Len(client.items[n].got) = sent[k]
Reported ==
    CASE surface = "openai" -> src.finish = NoFinish \/ client.finish = src.finish
      [] surface = "anthropic" -> client.finish = ToStop(src.finish)
      [] OTHER -> client.finish = "incomplete" <=> src.finish = "tool_calls"
Faithful ==
    ~client.overlap =>
        /\ OwnFragments
        /\ heard.phase = "stopped" =>
              AllArrived /\ (src.usage => Reported)

(* A stream ends once: the client gets one terminator at most and nothing after *)
(* it; one that saw a failure is recorded as failed, one that stayed and saw no *)
(* terminator exists on the Anthropic surface only (the SDK's own abort); and a *)
(* client that left is never recorded as an upstream failure.                   *)
EndsRight ==
    /\ Len(client.ends) <= 1
    /\ client.ends = <<"failed">> => cleanup = {"error"}
    /\ cleanup = {"error"} => client.ends # <<>> /\ heard.phase # "stopped" /\ ~aborted
    /\ cleanup = {"fine"} /\ client.ends = <<>> => aborted \/ surface = "anthropic"
EndsOnce == [][EndsRight' /\ (client.ends # <<>> => UNCHANGED client)]_vars

(* Every output item announced on the Responses surface is completed, and so is *)
(* in response.completed.response.output ("each tool_use item turns into a      *)
(* function_call snapshot", responses-stream.ts). Two tool calls whose blocks   *)
(* are open together break it.                                                  *)
EveryItemCompleted ==
    surface = "responses" /\ client.ends = <<"completed">> =>
        \A n \in 1..Newest : client.items[n].done
=============================================================================
