# A verification of the local-llms router

`src/router/src` is a TypeScript/Fastify service (about 25 000 lines without its
tests) that puts one authenticated front - OpenAI chat completions, Anthropic
messages, OpenAI responses, embeddings, rerank, MCP - before several model
servers: Ollama, llama.cpp, vLLM and Ollama Cloud. It keeps its shared state in
Valkey (breaker, idempotency, rate limit, cached registry and tool lists) and
Postgres (request log, sessions) and the rest in the memory of one Node process.
This directory holds TLA+ models of it, the TLC configurations that check them
on small instances, and proofs for every instance.

Source paths below are relative to `src/router/src`; "K" stands for
`routes/v1/chat-completions.ts`.

## 1. Inventory

What each component keeps, what can be done to it, whom it talks to, what makes
it hard and what makes it correct. `PROJECT.json` lists the same components with
their files, and every hazard at its line.

| Component | State | Operations | Interacts with | Hard part | Correct when |
|---|---|---|---|---|---|
| Backend semaphore, `concurrency/semaphore.ts` | counter, FIFO of waiters, a timer and an abort listener per waiter | acquire, release, timer, abort, drain | every generating route | three ways to settle one waiter | slots are counted exactly; no idle slot beside a waiter; FIFO; every wait ends |
| Circuit breaker, `resilience/circuitBreaker.ts` | four Valkey keys per backend, with TTLs | check, recordFailure, recordSuccess, (reset) | preflight, every route | no transaction spans its commands; late outcomes; leaked probes | opens after the threshold, stays open for its cooldown, never shuts a backend out for good |
| Request-log writer, `db/bufferedWriter.ts` | buffer, flush lock, timer, microtask, drop counter | push, flush, drain | recordOutcome, Postgres, shutdown | re-entrant flush; a failed batch returning to a full buffer; shutdown | bounded, ordered, every loss counted, empties |
| Idempotency multiplexer, `resilience/idempotency.ts` | Valkey lock, result, chunk list, a channel, a subscription per follower | acquire, publishStreamEvent, finalizeStream, publishNonStream, awaitStreamResult, awaitNonStreamResult | chat, messages, responses and embeddings routes | fire-and-forget publishing; replay against live; TTLs of three keys | one generation to a lock; a follower gets what the leader sent, once; every follower ends |
| Chat, messages, responses, embeddings and rerank routes, `routes/v1/` | per request: abort controller, close listener, `released`, `recorded` | one handler each with about ten exits, `sseCleanup` | all of the above, session store, adapters | the handler ends before its stream does; the same exits written five times, not quite alike | slot returned, one row, consistent accounts, listener removed, aborts take effect |
| MCP host, `mcp/host/` | session map, GC timer; per tool call a bridged signal | open, touch, close, GC, shutdown; four tools that call a backend, one that reads | the adapters, breaker and log of the routes | exits written once more, without slot or key | a tool call leaves one row and says the same to breaker and log |
| Preflight and policy gate, `dispatch/preflight.ts`, `policy/gate.ts` | none | applyPreflight | registry, breaker | a check that has an effect (the probe lock) before later guards | rejected requests leave nothing behind |
| Session store and context, `providers/`, `routes/v1/helpers/session-attach.ts` | sessions, turns | createSession, appendTurn, loadHistory, deleteSession, replaceTurns, (listSessions, listExpired); provideContext | chat and messages routes | advisory lock, a one-second race whose transaction goes on, deletion under an append, two surfaces with different validators | turns numbered without gaps, own turns only, the prompt is the newest that fits |
| MCP client registry and tool loop, `mcp/client/` | connections, tools cache | getOrConnect, listTools, callTool, dispose, loop | chat, messages routes, hot reload | connects and fetches in flight across dispose | one shared connection, none left behind; every call of a server's tool gets its result in the transcript |
| Registry and hot reload, `config/`, `index.ts` | current registry, cached copy, watch, debounce timer | load, warm, reload, listener, shutdown | liveness, MCP client | rename under a watch, edits that do not validate, a cache written without waiting and trusted at boot | a noticed edit is served, the cache holds what is served |
| Liveness, `backends/liveness.ts` | status cache, timers, overlap guard | start, probe, stop | readyz, hot reload | a probe in flight when its URL goes and comes back | timers are those of the registry, no two probes of one URL |
| Protocol translation, `translation/` | per-stream block state | fold chunks into canonical events, events into wire frames | adapters, routes | block grammar of three protocols, parallel tool calls, streams cut short | every start has its stop, nothing lost from a complete answer, one ending |
| Read-only routes | none | - | registry, liveness cache | - | - |
| Rate limit and identity, `middleware/` | Valkey counters | onRequest hook | every route | INCR then EXPIRE | at most N per minute, counters expire |
| Hook chains, `hooks/` | none | run | chat, messages routes | fail-open and fail-closed with timeouts | order and failure mode respected |
| Adapters, SSE plumbing, metrics, errors, rollup, migrations, GC script | a timer; counters | - | routes | - | - |

How they meet in one chat request: rate limit and identity hooks; preflight,
which asks the breaker; session attach and hooks; the close listener; the
multiplexer, which makes the request leader or follower; a leader's slot; the
adapter call, in a loop when external tools are injected; then, in an order that
depends on the exit, slot, verdict to the breaker, terminal marker to the
followers, row to the log writer, turns to the session. Most of what can go
wrong lies in these orders.

## 2. Modules

| Module | Models | Extends or instantiates |
|---|---|---|
| `SlotService` | what a concurrency limit promises: holders and a queue (abstract) | |
| `BackendSemaphore` | `concurrency/semaphore.ts` | `SlotService`, as its abstraction |
| `BackendSemaphoreProofs` | theorems about it | `BackendSemaphore` |
| `CircuitBreaker` | `resilience/circuitBreaker.ts`, driven by preflight and the chat route | |
| `CircuitBreakerProofs` | theorems about it | `CircuitBreaker` |
| `BufferedWriter`, `BufferedWriterProofs` | `db/bufferedWriter.ts`, theorems about it | |
| `IdempotencyMux` | `resilience/idempotency.ts`, driven by the chat route | |
| `IdempotencyMuxProofs` | theorems about it | `IdempotencyMux` |
| `RouteSteps` | the steps the routes share, translated from K | `SlotService`, as its semaphore |
| `MessagesRoute`, `ResponsesRoute`, `VectorRoutes`, `HostTools` | `messages.ts`, `responses.ts`, `embeddings.ts` and `rerank.ts`, the tools of `mcp/host/tools/` | `RouteSteps` |
| `Routes` | the requests of one backend, on any of these | the four above |
| `RoutesProofs` | theorems about it | `Routes` |
| `SessionLog` | what the store promises of a session (abstract) | |
| `SessionContext` | `providers/context-provider.ts`, the projections of `session-attach.ts`, what the inbound translators accept | |
| `SessionStore` | `providers/postgres-session-store.ts` and the session attach of two routes | `SessionContext`; `SessionLog`, as its abstraction |
| `SessionStoreProofs` | theorems about it | `SessionStore` |
| `HotReload` | `config/registry.ts`, `config/registryCache.ts`, `backends/liveness.ts`, `main()` and `onReload` of `index.ts` | |
| `McpTools` | `mcp/client/registry.ts`, `mcp/client/tool-loop.ts` | |
| `ReloadProofs` | theorems about what a reload of models.yaml changes | `HotReload`, `McpTools` |
| `CanonicalEvents` | what the canonical event stream promises (abstract) | |
| `Streams` | the streaming translators of `translation/` | `CanonicalEvents`, as its abstraction |
| `StreamsProofs` | theorems about it | `Streams` |

Each specification is also the module TLC runs: its constants are given in the
`.cfg` beside it, as model values and small numbers. No symmetry is used, because
most runs check liveness.

### Conventions

An action is what the JavaScript runs between two awaits, or one Valkey command
or SQL statement with what its caller does next. Node is single-threaded, so
nothing interleaves inside an action. History variables are marked as such where
they are declared. A definition named `X_Something` just before `X` is `X` with
a plausible mistake; nothing uses it in the specification. It is there to show
that the property named with it in `PROJECT.json` notices. The specification of
`McpTools` has the prefix `Mcp` on its common names, because `ReloadProofs`
extends it together with `HotReload`.

### BackendSemaphore

| Model | Code |
|---|---|
| `inFlight`, `waiters` | the fields of the same name |
| `promise`, `release` | the promise acquire returned; whether its closure was built and run |
| `timer`, `listener`, `aborted` | `setTimeout`, the listener on the signal, the signal |
| `AcquireFree`, `AcquireAborted`, `AcquireQueued` | the three ways through `acquire` (43-95) |
| `Timeout`, `Abort`, `Release`, `Drain` | the callbacks and `drain` |

The code leaves the order of timers, aborts and releases open and so does the
model. A request acquires once, as the routes do.

### CircuitBreaker

The four keys are variables, their TTLs count the units they have left. `wire`
is the one connection to Valkey: commands execute in the order sent, and a call
sends its next command when the previous reply is in, so two calls interleave
between commands and nowhere else. `Promise.all` of several commands is one
step. `TripFailure`, `Success` and `Unrecorded` are what K does after the check;
`Unrecorded` stands for aborts, 4xx, every rejection after preflight, and
followers. `Tick` passes a unit; no command is under way then, since a command
takes milliseconds and a unit seconds. `Crash` drops the process and its commands.
Counting stops at the threshold because the code only asks for 1 and for at
least the threshold.

### BufferedWriter

One synchronous stretch per action; only the INSERT takes time. `drain` holds
the shutdown's progress; `InsertLostAck` is an INSERT Postgres committed while its
answer was lost. A microtask runs before any timer or I/O callback, so
everything except further pushes waits while `scheduled`.

### IdempotencyMux

The requests of one key. `wire` is the router's connection as above, except
that the leader does not await `publishStreamEvent` or `finalizeStream`, so
several of its calls are on the wire at once, each advancing command by
command. `inbox` is what a follower's own subscription has received. Events are
`<<leader, index>>`, their sequence number is the index RPUSH answers.
`CommandFails` rejects a command and continues as the code's catch blocks do;
`Crash` kills the router. A behaviour has requests of one mode, streamed or not,
chosen initially; mixing modes under one key is listed as a hazard.

`Tick` passes a unit of the TTLs. It lets a generation go on for as long as it
likes: nothing in the code renews the lock, or ends a generation when its 1800
seconds are over (a comment at idempotency.ts:57 only says that they cover the
worst case). The lock may then lapse under its leader (`faults` notes it as
"lapse") and a second generation start beside the first; and the chunk list may
expire under it, after which RPUSH numbers from 0 again. `age` is the time since
a request got the lock, for `OneLeader`: two generations never start within one
lock's TTL. That is what the code keeps of "only ONE upstream generation runs"
(lines 3-5).

### RouteSteps and the routes

The handler from arrival to its last row. `surface` says which route a request
is on. `pc` is the await the handler is in, `pump` the response stream that
outlives it: `reply.sse()` returns as soon as it has piped its iterable (K
1331-1339), so `StreamOpens` ends the handler, finally block included, and
`StreamEnds` later runs `sseCleanup`. `SafeRelease`, `Record`, `Verdict`,
`Finalize` and `StopListening` are the closures and calls the exits share;
`Throw` is the outer catch, the finally block and the application's error
handler, which run without an await between them that matters to anything
modelled. The semaphore is `SlotService`, which `BackendSemaphore` implements
(theorem `Refinement`). A request without a key behaves as a leader whose
marker nobody reads. Which of leader and follower a request becomes is left open
here; that the multiplexer makes one leader is `IdempotencyMux`'s business. The
guards before the listener, the JSON repair with its second call, and the tool
loop (`McpTools`) are one step each.

The other handlers are copies of the chat one with differences, and the models
say exactly which steps they share:

| Route | Differs from chat in |
|---|---|
| messages | nothing that is modelled: `MessagesX` is the shared step its lines repeat |
| responses, plain | nothing that is modelled |
| responses, streamed | runs outside the try block: refusals before the call tell the breaker nothing (`StreamGate`, `StreamLeftQueue`, `StreamSaturated`), a failing key leaves its listener on the socket (`StreamKeyFails`), and the slot is kept to the end of the stream (`StreamOpensHolding`) |
| embeddings | no slot when every input is cached (`EmbedFromCache`, a success for the breaker); the slot surrounds the backend call alone (`EmbedAnswers`); errors that are the request's own are not the breaker's (`EmbedGate`, `EmbedDimsMismatch`) |
| rerank | no turns (`RerankReply`) |
| MCP tools | no slot, key or session; the signal is bridged at once (`ToolArrives`); a call ends as "disconnect" whenever its signal aborted (`ToolEnds`); the chat tool tells the breaker nothing (`ChatTool`); `create_embedding` keeps its listener (`EmbeddingEnds`) |

### SessionStore and SessionContext

One session id. Each SQL statement is a step and reads what is committed; a
transaction's writes show at its commit.

| Model | Code |
|---|---|
| `row`, `turns` | the session's row of `sessions` and its `conversation_turns` |
| `lock` | the advisory lock, taken by appendTurn and replaceTurns only |
| `tx`, `work` | where a call's transaction is, and what it has read |
| `reply` | how the caller's promise settled: the transaction goes on after the one-second `Timeout` |
| `CreateSelect`, `CreateInsert`, `LoadSelect`, `LoadTurns` | the attach: createSession, loadHistory, and the translation of what came of them |
| `Check`, `SelectMax`, `Insert`, `Commit` | appendTurn |
| `Delete`, `Compact`, `CompactStore` | deleteSession, replaceTurns |
| `Answer`, `NextTurn`, `LastTurn` | the route appends the question's turn, then the answer's |

An uncommitted INSERT of a turn holds a key-share lock on its session row, so a
deletion waits for it; before the INSERT nothing does, and the model lets the
row vanish (`torn` remembers). A message is its role, the kind of its content
block and its origin; its weight stands for its tokens. `ProvideContext` gives
back what the two `shift` loops leave, `IsRecent` says without a loop what
that should be. `Ascending` is a sort by number and `At` a filter that keeps the
order; both are said without recursion, so that they can be proved about.

### HotReload

A registry is the set of backend URLs of its models; the empty set is a text
that does not validate, or a missing file. `phase` follows `main()` and `closeGracefully()`; `Exit`
is a crash, an exit or a config-only deploy at any phase. Two exits are the
registry's own doing: `main()` refuses a cloud entry without an API key after
the cache was filled (index.ts:160), and when a reload brings such an entry, the
probe of its URL throws where nobody catches it (app.ts:637, factory.ts:88,
liveness.ts:67), which ends Node, where the comment at index.ts:330-345 expects
failing requests only. `cached` is the blob in Valkey, which another version of
the schema may have left (`OlderSchema`). A boot waits for its write of the
cache; a reload fires it and goes on (index.ts:361), so the writes in `pending`
are applied later, in order, or fail (`CacheWrites`).
`orphan` is a watch whose inode was renamed away: `fs.watch` then says nothing of
later edits, and neither does the model; or one that could not be opened, since
`fs.watch` throws on a missing file and the error is only logged. `Start` is the scheduler's
`start(urls)`, given the whole new list by the reload listener; `inFlight` is its
guard, `probing` the number of probes that really run.

### McpTools

One external server. `entry` is the connection map's promise for the alias,
`on` the promise a request has in hand, `popped` the one a `dispose` took out
of the map. A failed connect deletes the alias whatever is there by then
(registry.ts:186); `evicted` remembers if that was a successor. `Dispatch` starts
all calls of a round at once, as the loop's `Promise.all` does. An answer may call
the request's own tools too (`OwnTools`); the loop ignores those calls and yet
sends the whole answer back (tool-loop.ts:137). `messages` is what the loop has
appended to the transcript, one entry per round: the answer's calls and the
results beside them. `Callers` bounds the requests whose model calls tools; the
others finish after their first answer. A connection
needs an `Unused` client: the program makes as many as it needs, the model has
`Transports` of them, and the run enough.

### Streams

`Source` is one of the two source generators (OpenAI chunks, Ollama lines), which
appends canonical events; the sink of the request's surface pulls them one by
one. A generator is resumed only when its events are consumed, as `for await`
does. The three sinks keep what their code keeps: the Responses sink has a
single current item (`fsm`), the others none. `Dropped` is the pipe's return of
the generator after a close. `heard` follows the events pulled; the refinement
to `CanonicalEvents` reads it.

## 3. Runs

| Run | Instance | States | Checks | Result |
|---|---|---|---|---|
| `semaphore` | 4 requests, 2 slots | 4 224 | `TypeOK`, `SlotsAndWaiters`, `ImplementsSlotService`, `EveryWaitEnds` | hold |
| `breaker` | 3 requests, threshold 2, window 1, cooldown 2, adapter timeout 4, one crash | 157 623 | `TypeOK`, `ShieldsBackend`, `ProbesAreACooldownApart`, `RequestsGetThrough` | hold |
| `writer` | capacity 3, batches of 2, trigger at 3, 6 rows | 7 909 | `TypeOK`, `FifoOrder`, `RowsAccounted`, `BufferEmpties` | hold |
| `mux` | 2 requests, 3 events, lock TTL 2, data TTL 1, 3 commands ahead of an event, one fault | 1 182 381 | `TypeOK`, `ChunksExpire`, `OneLeader`, `FollowerConsistent`, `FollowersEnd` | hold |
| `routes` | 2 requests on any two of 9 routes and tools, 1 slot | 124 335 | `TypeOK`, `SlotsFollowWork`, `ClosesOnce`, `AccountsAgree`, `ToolsAgree`, `AbortFreesSlot` | hold |
| `sessions` | 2 requests, one on each surface, 2 agents, 1 maintainer, budget 3 | 802 331 | `TypeOK`, `Ordered`, `Prompted`, `ImplementsSessionLog`, `AppendsEnd` | hold |
| `reload` | 2 URLs and the pool's, 3 edits | 217 469 | `TypeOK`, `ProbesFollowRegistry`, `ServesTheFile`, `EveryUrlIsProbed` | hold |
| `mcp` | 2 requests, one calling 2 tools and 1 of its own, 2 rounds, 1 reload, 3 transports | 471 828 | `McpTypeOK`, `NoStrayConnection`, `CallsAnswered`, `LoopEnds` | hold |
| `streams` | 2 tool calls and the text, 5 chunks, 2 sources, 3 sinks | 192 798 | `TypeOK`, `ImplementsContract`, `Faithful`, `EndsOnce` | hold |
| `routes_cap` | 2 requests, 1 slot | | `ConcurrencyCapped` | violated |
| `streams_parallel` | 2 tool calls, 5 chunks | | `EveryItemCompleted` | violated |
| `sessions_refused` | 2 chat completions of one agent | | `AttachedIsAccepted` | violated |

**Why these bounds.** The semaphore needs two holders and two waiters for a
waiter to leave from behind another and for a release to choose. The breaker
needs three requests for a stale outcome, a probe and a second probe to coexist,
and its window, cooldown and adapter timeout keep the order of their defaults
(30 s : 60 s : 120 s). The writer's buffer holds more than one INSERT and its
rows exceed the capacity twice over, so it overflows both on a push and on a
returning batch. Three events give the multiplexer a first event, which takes a
round trip more, a second that may overtake it, and one that may not. At most
`MaxWire` (3) commands wait when an event is made, enough for the marker's and
the first event's to overlap with it. The one fault is a kind of command
that fails, a crash, or a lock that lapses under its leader. Two leaders of one
key and a follower need a third request: that is only proved. Two
requests on one slot are the holder and the waiter of every pair of routes, with
the grant, the queue timeout and both disconnects racing; the theorems cover more
requests. A session needs an exchange that reads what another wrote, two agents
for a deletion and a re-creation under an append, and a budget (3) that neither
the whole history nor, with a summary in it, the request itself fits; the
truncation cap (`Truncate`) is off here; `PromptsWell` covers both strategies. Two
URLs and three edits let a URL go and come back while a probe of it runs, with an
invalid edit in between, before and after a rename. Two rounds make a transcript with an earlier entry;
one of the two requests calls tools while the other connects, fetches and leaves
beside it. Three transports are the
most that are referred to at once: the map's, a disposed one, and a failing
one's. In five chunks a block can be opened, overtaken by both other kinds and
closed with fragments of each in between. Crashes and failing commands are
bounded by `MaxCrashes` and `MaxFaults`, rows by `MaxRows`, a call's length by
`MaxCall`, edits by `MaxEdits`, reloads by `MaxReloads`, chunks by `MaxChunks`,
requests whose model calls tools by `Callers`.

**Deadlock** is checked for the semaphore, the breaker and the reload. The
others may rightly stop: the writer after drain, the rest when every request
or stream has ended.

**What the violated properties say.** Each is a sentence of the repository that
the code does not keep; `PROJECT.json` quotes it.

- *ConcurrencyCapped.* It counts streaming chat completions alone. The slot of
  such a stream is returned when the handler ends, which is when the stream
  starts, so the next one gets it while the first still flows; messages do the
  same, Responses do not. The test that names this promise bounds the total time by less than one stream
  takes.
- *EveryItemCompleted.* The Responses sink has one current item; the sources
  leave all tool blocks open to the end. The second parallel call replaces the
  first, which is never completed.
- *AttachedIsAccepted.* An answer with tool calls is stored with its `tool_use`
  blocks; the next chat completion of that session attaches it and is refused by
  the translator with a 400, as will be every later one.

### Fairness

- Semaphore: only the queue timers. Holders may keep their slot for ever.
- Breaker: requests keep arriving, Valkey answers, calls end because every
  adapter has a timeout, the connection is idle again and again and time passes
  whenever it is. `RequestsGetThrough` is about arrivals, so they are fair.
- Writer: timer and microtask run; an INSERT that is tried for ever
  succeeds once (strong fairness of `InsertOk`), so Postgres may fail any number
  of times in a row.
- Multiplexer: Valkey executes, generations end, followers read and time out.
  Commands may still fail: their failure is not fair, their execution is.
- Routes: handlers resume after a grant, a rejection or an answer, and an
  adapter call rejects after its signal aborts, since every adapter hands the
  signal to its HTTP client. Nothing obliges a backend to answer or a stream to
  end.
- Sessions: the one-second timers fire and handlers resume. No SQL statement
  ever has to return.
- Reload: a probe answers or is aborted after its two seconds. Boots, edits and
  reloads need not happen.
- Tools: requests go on and connects end, because every SDK call has a timeout.
- Streams: none. What is checked is safety.

## 4. Proofs

`tlapm` checks eight modules of theorems. Every invariant, refinement and action
property that a passing run checks is a theorem; what they prove holds
for every value of the constants, the bounds that only keep TLC's state space
finite included.

| Module | Theorem | States | Assumes |
|---|---|---|---|
| `BackendSemaphoreProofs` | `TypeCorrect` | `TypeOK` | `SemaphoreAssumption`: finitely many requests, at least one slot |
| | `NoSlotLeaks` | `SlotsAndWaiters` | |
| | `Refinement` | `ImplementsSlotService` | |
| `BufferedWriterProofs` | `TypeCorrect` | `TypeOK` | `WriterAssumption`: positive capacity and batch size, a batch fits the buffer |
| | `OrderKept` | `FifoOrder` | |
| | `EveryRowCounted` | `RowsAccounted` | |
| `CircuitBreakerProofs` | `TypeCorrect` | `TypeOK` | `BreakerAssumption`: finitely many requests, positive settings |
| | `ProbesApart` | `ProbesAreACooldownApart` | |
| | `Shields` | `ShieldsBackend` | also `Window <= StateTTL`, see below |
| `RoutesProofs` | `TypeCorrect` | `TypeOK` | nothing: any number of requests and slots |
| | `SlotsFollow` | `SlotsFollowWork` | |
| | `ClosedOnce` | `ClosesOnce` | |
| | `OneStory` | `AccountsAgree` | |
| | `ToolsTellTheTruth` | `ToolsAgree` | |
| `SessionStoreProofs` | `TypeCorrect` | `TypeOK` | `SessionAssumption`: finitely many requests; a maintainer is one of the agents |
| | `StoresInOrder` | `Ordered` | |
| | `ShownItsOwn` | `OwnHistory` | |
| | `PromptsWell` | `Prompted` | also `ContextAssumption`: budget and cap are numbers |
| | `Refinement` | `ImplementsSessionLog` | |
| `IdempotencyMuxProofs` | `TypeCorrect` | `TypeOK` | `MuxAssumption`: finitely many requests, positive length and TTLs, and a lock that outlives the data; nothing of how long a generation takes |
| | `OneAtATime` | `OneLeader` | |
| | `ListExpires` | `ChunksExpire` | |
| | `NothingTwice` | `NoEventTwice` | |
| | `FollowersAgree` | `FollowerConsistent` | in its definition, but for `NoEventTwice`: `Undisturbed`, no fault, no lapse, one generation in the list |
| `ReloadProofs` | `TypeCorrect` | `TypeOK` | `ReloadAssumption`: finitely many URLs, the pool's not among them; the number of edits is a number |
| | `ProbesFollow` | `ProbesFollowRegistry` | |
| | `EditsServed` | `ServesTheFile` | |
| | `McpTypeCorrect` | `McpTypeOK` | `McpAssumption`: at least one round; reloads are counted; a request's own tools have other names |
| | `NoneLeftBehind` | `NoStrayConnection` | |
| | `EveryCallAnswered` | `CallsAnswered` | |
| `StreamsProofs` | `TypeCorrect` | `TypeOK` | `StreamsAssumption`: finitely many tool calls |
| | `Refinement` | `ImplementsContract` | |
| | `FaithfulStream` | `Faithful` | |
| | `EndsOnceHolds` | `EndsOnce` | |

The modules about the semaphore, the breaker and the routes begin with what they
need of queues without duplicates: removing a position, the head, or appending a
newcomer keeps them so and changes the members by exactly that one.

**The semaphore.** The counter alone says nothing about who holds a slot, so
`SlotsAccounted`, which ties it to the holders' promises, is not inductive by
itself: a release grants the head of the queue, which must be a pending promise
(`QueuedIsArmed`) that is not in the queue a second time (`NoDuplicates`), and
only a granted promise has a release closure (`ReleaseBuilt`). With these, each
action changes the holders by one element or by an exchange; cardinalities do
the rest. `NoIdleSlot` turns the same facts into work conservation, which the
refinement needs for `Wait`. The refinement maps each action to `Take`, `Wait`,
`GiveUp`, `Return` or a stutter; a release and the `drain` it calls are one
`Return`, which hands the slot to the oldest waiter in the same step.

**The log writer.** `IInv` is `TypeOK`, `WithinCapacity`, `Ordered`,
`HeldOnce` and `DropsCounted`. That the buffer never exceeds its capacity when a
failed batch comes back needs the batch to be no longer than the buffer may be;
that order survives needs every row of the batch to be older than every row of
the buffer (`Before`), not only each of the two in order. `DropsCounted` counts
rows that are nowhere, so it needs the dropped ones to be distinct (order) and
stored nowhere (`HeldOnce`, which only a lost acknowledgement breaks).

**The breaker.** `Base` adds to the types that exactly the calls awaiting a reply
have a command on the wire, one each. What keeps the second probe out is not the
lock, which a late failure deletes, but the order on the wire: nobody who has
found the probe due has a command behind a deletion of the lock (`LocksFirst`),
since a deletion is decided in half-open, or on an open breaker whose cooldown
has just begun (`DeletesWait`). While a probe is younger than a cooldown, the lock or
the cooldown itself stands between it and the next one (`Guarded`), also for a
check whose SET NX is already on its way. `ShieldsBackend` has two halves. That
an open breaker always reaches its probe (`OpenOutlivesCooldown`) holds in every
configuration. That `Threshold` counted failures keep it from being closed is an
argument about TTLs (`FullCount`): the count must not outlive the state, also
when a PEXPIRE that waits behind others prolongs the count (then an opening
waits behind it, `OpenFollows`). This half is false when the window is longer than twice
the cooldown: TLC finds it with threshold 1, window 5, cooldown 2, where the
state expires while the count stands. `env.ts` (54-55) bounds the two settings
from below and does not relate them; its defaults, 30 s and 60 s, are well
inside. So the theorem has `Window <= StateTTL` as its hypothesis, and the run
checks the defaults' order.

**The routes.** The invariant is an account of each request: until it is
finished it said nothing, but for the breaker verdict of a call that was
answered; once finished it said everything, consistently (`NothingSaid`,
`AllSaid`). `ClosesOnce` and `AccountsAgree` alone are not inductive, because
they do not say that the reports are still empty when an exit is taken. Each exit
is shown to lead from nothing to everything in one step, whichever slot action
goes with it, and the routes' own exits are brought to the shared ones; a framing
lemma says that nobody else's account changes. The slots need what the
semaphore promises: distinct waiters that hold nothing. The tools take the same
way with an account of their own (`ToolAccount`): a call says nothing until it
ends, and ends in one step that says everything.

**Sessions.** The advisory lock has one holder at a time (`Locked`); a turn in the
table comes of a transaction that has ended (`Settled`), so no transaction can
have stored it twice. Who has read MAX(turn_index) is the only one to add a turn
(`Ahead`), and what it has read is what is there, unless a deletion came between (`Current`,
under `~torn`); with these the INSERT lands at the end and `turn_count` grows with
it (`Counted`). `QuestionFirst` is about an answer whose question was reported
stored: the question is in the table with a smaller number, or it went with a
deletion or into a summary, which `removed` remembers; the code stores the
answer all the same, so nothing stronger holds. It needs the order in which a
handler begins its two appends (`Begun`), because the first may go on after its
caller stopped waiting, and that a stored question leaves the table only by
being removed (`QuestionKept`). The refinement maps a commit to `Append`, a deletion to `Delete`, a
compaction's commit to `Replace` and everything else to a stutter; that a commit
is an `Append` is `Ahead` again.

`Prompted` has two halves. `ShownItsOwn`: the turns a handler holds are its
agent's, through any deletion and re-creation in between. `ContextIsRecent`: for
every history, input, budget and cap, `ProvideContext` is `IsRecent`. A loop
stops at the least number of shifts with which it may (`ShiftIs`), which leaves
the request's own messages alone since what is left of the history ends before
them; the second loop's rest is a rest of the whole (`RestOfRest`). If something
was dropped, one shift less was refused, by the budget if the second loop
shifted, else by the cap. For this a filter must give a sequence
(`AscendingIs`): a finite set of numbers has a k-th member for each k up to its
cardinality, by the least counterexample (`LeastNat`), since the library's
induction theorems cannot be instantiated here.

**The multiplexer.** The commands of several fire-and-forget calls share one
connection, so the invariant speaks of positions on it. `Wired` says what a
command carries, `Roles` what a request has done in its place, `Locked` that the
lock is held for as long as `age` of its newest owner says; that is `OneLeader`,
because a new leader needs the lock to be free, and it holds though generations
outlive their locks. `Closed`, that a generation's end which is still on the
wire has the lock to itself, holds only until one does (`~Lapsed`); what
followers emit rests on it. `Lasting` is `ChunksExpire` with
positions: while the list has no TTL, the EXPIRE that sets it is on the wire. `Once`
follows one event from the wire to the list, an inbox and a follower's output: it
is in one of them, or, where it is in two, its number is at most the follower's
watermark, which is why the follower skips it; this needs no assumption about
faults. `FollowersAgree` is about undisturbed generations, and is one invariant
(`InStep`) of where each event may be. An event takes at most three hops on the
connection (RPUSH, EXPIRE for the first, PUBLISH) and the terminal marker three
(SET, EXPIRE, PUBLISH), and the marker is sent last: so whatever of the
generation is on the wire has fewer hops to go than the marker, or as many and
stands before it (`EndsLast`), and no follower hears of the end before the
rest. RPUSHes keep the order of the events; a PUBLISH may overtake only that of
the first event, which has a hop more (`Publishing`). For a follower, every event made
is on its way, in its inbox, or emitted (`Reaches`), the replay gave it the first
events up to its watermark (`Replayed`), and what is to come is later than what it
emitted, but for the first event and for duplicates (`BoxOrder`, `OutOrder`).

**Hot reload.** The invariant is `TypeOK`, `ProbesFollowRegistry`,
`WarmCacheFollows`, `NoticedEditsServed`, `Watched` and `LastWritten`. The watch
and its debounce timer belong to a process that is "up", which has an open watch
unless it is an orphan; no probe is in flight before `buildApp`; and the last
write of the cache under way is that of the served registry. Without `Watched` a
reload might fire in a process that has no registry yet; without `LastWritten`
the last write to arrive might be an older one. That no URL is probed twice rests
on `inFlight` surviving a restart of the scheduler: the count of running probes
is 1 exactly inside the guard.

**External tools.** `NoStrayConnection` needs to know that a dispose which has
not begun holds nothing (`NotYet`): it moves the map's connection into its own
hands and must not lose another there. A connect that fails removes the map's
entry whatever it is; while that was always its own (`~evicted`), no other
connection loses its owner. A dispose closes only what has settled, so it leaves
no handshake behind. `CallsAnswered` needs the calls on their way to be those the
answer makes of the server's tools (`Asked`); then what a round adds to the
transcript when all are in is complete, and earlier rounds stay as they are.

**Streams.** The source yields several events at once and the sink pulls them
one by one, so an invariant about the next event says too little: what is on its
way must be legal as a whole. A *reading* is what the events up to a place have
said: the phase, the open blocks, the calls announced, the fragments of each, the
reason. `Says` allows an event after a reading and gives the next one; a queue
is `Legal` if it is a path of readings, from what the sink has heard (`Told`) to
what the source's flags say (`Ready`). A path is a function of the places of the
queue, so no recursion is needed; queues join (`LegalJoin`), lose their head and
gain an event. Each action of a source is shown to append a legal queue, which
needs the discipline of its flags: the next block is free because the highest
index is at most the number of blocks taken (`Flags`). Each action of a sink
takes one event, and the client's record follows the reading (`Matches`,
`Reports`): every open block has a newest item, which is its call's (`Shown`),
and the Responses sink's one current item is the one open block for as long as
none was replaced (`OneCurrent`). A `message_stop` is allowed only where the
reading is complete; that, and not the sinks, is why an answer that ends well has
everything. `EndsOnce` is a step property and follows from `Ended` before and
after it. The refinement maps each event pulled to the action of
`CanonicalEvents` that its type names.

## 5. What is only model-checked, and what is not modelled

Only model-checked:

- every liveness property (`EveryWaitEnds`, `RequestsGetThrough`,
  `BufferEmpties`, `FollowersEnd`, `AbortFreesSlot`, `AppendsEnd`,
  `EveryUrlIsProbed`, `LoopEnds`): fairness and ENABLED are outside what the
  proofs reach;
- what a sort and a filter give beyond being sequences: that `Ascending` is
  strictly ascending follows from `AscendingIs`, but `IsRecent` speaks of the
  same `OthersOf` as `ProvideContext` and does not ask.

### Seen while modelling, and not a property of a run

The models do these things because the code does; the properties are worded
around them, and nothing above claims otherwise.

- A failure in half-open frees the probe lock whoever reports it
  (circuitBreaker.ts:257), so a second probe may join a slow first one after a
  cooldown. `ProbesAreACooldownApart` is what is left of "a single probe".
- `drain` flushes once (bufferedWriter.ts:180): not at all while another flush is
  in flight, and one INSERT's worth otherwise.
- A follower reads the chunk list and then the result; if the leader finalizes
  in between it ends with a prefix (idempotency.ts:594). A chunk list outlives
  its lock, so a later generation of the key may append to it (430, 467).
- A generation may outlive its lock, and a second one of the same key then runs
  beside it, on the same channel and chunk list (idempotency.ts:57-58).
- An answer whose question was deleted or summarised between the two appends of
  its exchange is stored alone.
- An answer that calls a server's tool and one of the request's own goes back to
  the model with the second call unanswered (tool-loop.ts:137-148); the header
  says that such calls "pass through unchanged so the caller / route can surface
  them" (57-60).
- A warm boot trusts the cached registry for up to 300 s, and a config-only
  deploy deletes keys that do not include it (registryCache.ts:40,
  `deploy-router.sh`).
- The MCP client registry is built with the servers of the first registry
  (index.ts:190): after a changed entry is disposed of, the alias reconnects
  with the old one, where the comment at index.ts:380 says "against the new
  config".
- The Anthropic translator wants alternating roles, which a merged history need
  not have; such a request is answered 400.
- Embeddings served from the cache are a success for a backend that was not
  asked; a missing capability is a failure of a tool's backend; the chat tool
  may take the probe and never report; the rerank tool's early failures go to a
  backend called "unknown".
- `create_embedding` leaves its abort listener on the signal, and an embeddings
  or streamed Responses request whose key fails leaves one on its socket until
  the socket goes.
- A Responses stream keeps its slot for as long as the client neither reads nor
  leaves.
- An empty OpenAI upstream yields an end without a start; text after a tool call
  opens block 0 again.
- The semaphores are built once from the first registry (app.ts:732); entries
  that are disabled are still probed and gate `/readyz`.
- `IdempotencyTimeoutError` is documented as a 504 and `errors/envelope.ts` gives
  it a 500.

### Not modelled, and why

- Payloads: schemas, prices, the fields of a request that carry no control.
- `CircuitBreaker.reset`, the rollup, migrations and the model GC script: tests
  or one-shot programs call them.
- `listSessions` and `listExpired` read pages and change nothing. The summary and retriever providers have no caller.
- The MCP host's session map and its collector: a session's end is seen as what
  aborts the calls made in it. `list_models` reads only.
- The rate limiter is one INCR and one EXPIRE and fails open. Hook chains are empty in this repository.
- SSE plumbing: the heartbeat is stopped as soon as `reply.sse()` returns, and
  `sse/stream.ts` has no production caller. How a stream ends is in `Streams`.
- Metrics and logging: nothing reads them back.
- Several router processes: the deployment runs one. The Valkey models would
  take a second connection as a second `wire`.

## 6. Plan

Done: the path of every request (semaphore, breaker, writer, multiplexer, the
routes and tools), and around it sessions, reload, external tools and streams.

Next, all of it models: the MCP host's session map against its collector,
followers and leaders of mixed modes under one key, the semaphore map across a
reload, the rate limiter with failures between its two commands.
