------------------------------ MODULE HotReload -------------------------------
(* models.yaml and everything that follows it: the boot from the cached         *)
(* snapshot or the file (index.ts main), the cached snapshot in Valkey          *)
(* (config/registryCache.ts), the watch with its debounce (config/registry.ts   *)
(* watchRegistry), the registry store, and the liveness probes of the backends  *)
(* (backends/liveness.ts), across restarts and config-only deploys.             *)
(*                                                                              *)
(* A registry is the set of the backend URLs of its models: its only part the   *)
(* probes depend on. The set of no URL stands for a text that does not validate *)
(* and for a file that is missing.                                              *)
EXTENDS Integers, FiniteSets, Sequences

CONSTANTS Urls,       \* backend URLs of the models
          Postgres,   \* POSTGRES_PROBE_URL, the synthetic URL of the pool's probe
          Polling,    \* MODELS_YAML_WATCH=poll
          MaxEdits    \* bound: edits of the file

ASSUME ReloadAssumption ==
    IsFiniteSet(Urls) /\ Postgres \notin Urls /\ Polling \in BOOLEAN /\ MaxEdits \in Nat

Registries == SUBSET Urls
Invalid == {}
Probed == Urls \cup {Postgres}
Phases == {"down", "loaded", "built", "up", "closing", "closed"}

VARIABLES
    file,      \* models.yaml as it would be read now
    edits,     \* how many times it was edited
    cached,    \* the blob of CACHE_KEY: a set of at most one registry
    pending,   \* the snapshots whose write to the cache is under way, in order
    phase,     \* how far main() or closeGracefully() is
    store,     \* the snapshot of the registry store
    watching,  \* the watch is open
    orphan,    \* it cannot see the file: it is on an inode that the path no longer
               \* names, or could not be opened
    timer,     \* the debounce timer is armed
    timers,    \* the URLs with an interval timer
    results,   \* the URLs with a cached probe result
    inFlight,  \* the guard against overlapping probes
    probing,   \* how many probes of a URL are really under way
    lost,      \* history: the last write of the cache failed
    seen       \* history: the last edit was made under the watch of this process

volatile == <<pending, store, watching, orphan, timer, timers, results, inFlight, probing>>
vars == <<file, edits, cached, phase, volatile, lost, seen>>

Gone ==
    /\ phase' = "down"
    /\ pending' = <<>>
    /\ store' = Invalid
    /\ watching' = FALSE /\ orphan' = FALSE /\ timer' = FALSE
    /\ timers' = {} /\ results' = {} /\ inFlight' = {}
    /\ probing' = [u \in Probed |-> 0]
    /\ seen' = FALSE

Init ==
    /\ file \in Registries
    /\ edits = 0
    /\ cached = {}
    /\ phase = "down"
    /\ pending = <<>>
    /\ store = Invalid
    /\ watching = FALSE /\ orphan = FALSE /\ timer = FALSE
    /\ timers = {} /\ results = {} /\ inFlight = {}
    /\ probing = [u \in Probed |-> 0]
    /\ lost = FALSE /\ seen = FALSE

-----------------------------------------------------------------------------
(* The cached snapshot. A write that fails is logged and forgotten.            *)

CacheSet_Skipped(registry) == UNCHANGED <<cached, lost>>
CacheSet(registry) ==
    \/ cached' = {registry} /\ lost' = FALSE
    \/ lost' = TRUE /\ UNCHANGED cached

(* The oldest write under way is applied or fails: one connection, no queue of  *)
(* commands while it is down.                                                   *)
CacheWrites ==
    /\ pending # <<>>
    /\ CacheSet(Head(pending))
    /\ pending' = Tail(pending)
    /\ UNCHANGED <<file, edits, phase, store, watching, orphan, timer, timers, results,
                   inFlight, probing, seen>>

(* The 300 seconds are over. *)
CacheExpires ==
    /\ cached # {}
    /\ cached' = {} /\ lost' = FALSE
    /\ UNCHANGED <<file, edits, phase, volatile, seen>>

(* An image with another schema ran before this one. *)
OlderSchema ==
    /\ phase = "down"
    /\ cached' = {Invalid}
    /\ UNCHANGED <<file, edits, phase, volatile, lost, seen>>

-----------------------------------------------------------------------------
(* The probe scheduler                                                         *)

(* runOne for each of a set of URLs: nothing for one that is being probed.     *)
RunOne(urls, guard) ==
    /\ inFlight' = guard \cup urls
    /\ probing' = [u \in Probed |-> probing[u] + IF u \in urls \ guard THEN 1 ELSE 0]

(* start(urls): the removed ones lose timer and result, but a probe of theirs   *)
(* goes on; the new ones get a timer and a first probe.                         *)
Start_ForgetsGuard(urls) ==
    /\ timers' = urls
    /\ results' = results \ (timers \ urls)
    /\ RunOne(urls \ timers, inFlight \ (timers \ urls))
Start(urls) ==
    /\ timers' = urls
    /\ results' = results \ (timers \ urls)
    /\ RunOne(urls \ timers, inFlight)

(* An interval timer fires. *)
Tick(u) ==
    /\ u \in timers \ inFlight
    /\ RunOne({u}, inFlight)
    /\ UNCHANGED <<file, edits, cached, pending, phase, store, watching, orphan, timer, timers,
                   results, lost, seen>>

(* A probe answers or times out; its result is kept even when its URL is gone. *)
ProbeEnds_KeepsGuard(u) ==
    /\ probing[u] > 0
    /\ probing' = [probing EXCEPT ![u] = @ - 1]
    /\ results' = results \cup {u}
    /\ UNCHANGED <<file, edits, cached, pending, phase, store, watching, orphan, timer, timers,
                   inFlight, lost, seen>>
ProbeEnds(u) ==
    /\ probing[u] > 0
    /\ probing' = [probing EXCEPT ![u] = @ - 1]
    /\ results' = results \cup {u}
    /\ inFlight' = inFlight \ {u}
    /\ UNCHANGED <<file, edits, cached, pending, phase, store, watching, orphan, timer, timers,
                   lost, seen>>

-----------------------------------------------------------------------------
(* main()                                                                      *)

(* A snapshot in the cache that validates is trusted: the file is not read.    *)
BootWarm_Unvalidated ==
    /\ phase = "down"
    /\ \E registry \in cached : store' = registry
    /\ phase' = "loaded"
    /\ UNCHANGED <<file, edits, cached, pending, watching, orphan, timer, timers, results,
                   inFlight, probing, lost, seen>>
BootWarm ==
    /\ phase = "down"
    /\ \E registry \in cached \ {Invalid} : store' = registry
    /\ phase' = "loaded"
    /\ lost' = FALSE
    /\ UNCHANGED <<file, edits, cached, pending, watching, orphan, timer, timers, results,
                   inFlight, probing, seen>>

(* No usable snapshot, or Valkey does not answer: the file, if it is valid, and  *)
(* the cache is filled from it.                                                 *)
BootCold ==
    /\ phase = "down" /\ file # Invalid
    /\ store' = file
    /\ phase' = "loaded"
    /\ CacheSet(file)
    /\ UNCHANGED <<file, edits, pending, watching, orphan, timer, timers, results, inFlight,
                   probing, seen>>

(* buildApp starts the probes. *)
Build ==
    /\ phase = "loaded"
    /\ phase' = "built"
    /\ Start(store \cup {Postgres})
    /\ UNCHANGED <<file, edits, cached, pending, store, watching, orphan, timer, lost, seen>>

(* Only now the file is watched: an edit since it was read is not noticed. When  *)
(* the file is missing fs.watch throws; that is logged, and the router runs on   *)
(* without a watch. fs.watchFile takes a missing file.                           *)
Watch ==
    /\ phase = "built"
    /\ phase' = "up"
    /\ \/ watching' = TRUE /\ UNCHANGED orphan
       \/ ~Polling /\ file = Invalid /\ orphan' = TRUE /\ UNCHANGED watching
    /\ UNCHANGED <<file, edits, cached, pending, store, timer, timers, results, inFlight,
                   probing, lost, seen>>

(* SIGTERM: the watch and its timer stop first, *)
Shutdown ==
    /\ phase = "up"
    /\ phase' = "closing"
    /\ watching' = FALSE /\ timer' = FALSE
    /\ UNCHANGED <<file, edits, cached, pending, store, orphan, timers, results, inFlight, probing,
                   lost, seen>>

(* then, in app.close, the probes: those under way still answer. *)
Close ==
    /\ phase = "closing"
    /\ phase' = "closed"
    /\ timers' = {}
    /\ UNCHANGED <<file, edits, cached, pending, store, watching, orphan, timer, results, inFlight,
                   probing, lost, seen>>

(* The process exits or crashes, or deploy-router.sh config-only recreates its  *)
(* container: it deletes model-registry:*, which does not match CACHE_KEY.      *)
(* Two ways out that the registry itself opens: main() refuses a loaded registry *)
(* with a cloud entry and no API key, its snapshot then being in the cache; and  *)
(* the probe of a cloud URL that a reload brought without the key rejects with   *)
(* nobody to catch it, which ends the process.                                   *)
Exit ==
    /\ phase # "down"
    /\ Gone
    /\ UNCHANGED <<file, edits, cached, lost>>

-----------------------------------------------------------------------------
(* Edits and reloads                                                           *)

(* The operator writes the file, in place or as another file renamed to its     *)
(* name, after which fs.watch is left on the old inode.                         *)
Edit(registry, replaced) ==
    /\ edits < MaxEdits /\ registry # file
    /\ file' = registry
    /\ edits' = edits + 1
    /\ timer' = (timer \/ (watching /\ ~orphan))
    /\ orphan' = (orphan \/ (replaced /\ watching /\ ~Polling))
    /\ seen' = (phase = "up" /\ ~orphan)
    /\ UNCHANGED <<cached, pending, phase, store, watching, timers, results, inFlight,
                   probing, lost>>

(* onReload: the write of the cache is fired and not awaited; the probes follow *)
(* the new snapshot at once.                                                    *)
OnReload_ForgetsPostgres(registry) ==
    pending' = Append(pending, registry) /\ Start(registry)
OnReload(registry) ==
    pending' = Append(pending, registry) /\ Start(registry \cup {Postgres})

(* The debounce is over: a valid file is swapped in, any other is reported and  *)
(* the previous snapshot stays.                                                 *)
Reload_StopsOnError ==
    /\ timer
    /\ timer' = FALSE
    /\ IF file = Invalid
       THEN /\ watching' = FALSE
            /\ UNCHANGED <<pending, store, timers, results, inFlight, probing>>
       ELSE store' = file /\ OnReload(file) /\ UNCHANGED watching
    /\ UNCHANGED <<file, edits, cached, phase, orphan, lost, seen>>
Reload ==
    /\ timer
    /\ timer' = FALSE
    /\ IF file = Invalid
       THEN UNCHANGED <<pending, store, timers, results, inFlight, probing>>
       ELSE store' = file /\ OnReload(file)
    /\ UNCHANGED <<file, edits, cached, phase, watching, orphan, lost, seen>>

Next ==
    \/ CacheWrites \/ CacheExpires \/ OlderSchema
    \/ BootWarm \/ BootCold \/ Build \/ Watch \/ Shutdown \/ Close \/ Exit
    \/ \E registry \in Registries, replaced \in BOOLEAN : Edit(registry, replaced)
    \/ Reload
    \/ \E u \in Probed : Tick(u) \/ ProbeEnds(u)

(* A probe answers or is aborted after two seconds. *)
Fairness == \A u \in Probed : WF_vars(ProbeEnds(u))

Spec == Init /\ [][Next]_vars /\ Fairness

-----------------------------------------------------------------------------
(* Types; a process that has loaded a registry never serves an invalid one,     *)
(* whatever blob it found (registryCache.get validates again).                  *)
TypeOK ==
    /\ file \in Registries /\ edits \in 0..MaxEdits
    /\ cached \in SUBSET Registries /\ \A r, s \in cached : r = s
    /\ pending \in Seq(Registries)
    /\ phase \in Phases
    /\ store \in Registries /\ (phase # "down" => store # Invalid)
    /\ watching \in BOOLEAN /\ orphan \in BOOLEAN /\ timer \in BOOLEAN
    /\ lost \in BOOLEAN /\ seen \in BOOLEAN
    /\ timers \subseteq Probed /\ results \subseteq Probed /\ inFlight \subseteq Probed
    /\ probing \in [Probed -> Nat]

(* While a router runs, exactly the backends of its registry and the Postgres   *)
(* pool have a probe timer, through any number of reloads (the comment at        *)
(* onReload); none is left after the shutdown.                                  *)
TimersFollow ==
    timers = IF phase \in {"built", "up", "closing"} THEN store \cup {Postgres} ELSE {}

(* No URL is probed twice at once, also when a reload removes it and another     *)
(* adds it back while a probe of it is under way (liveness.ts guard A9).         *)
OneProbePerUrl ==
    \A u \in Probed : probing[u] = IF u \in inFlight THEN 1 ELSE 0

(* The probes follow the registry: both of these.                              *)
ProbesFollowRegistry == TimersFollow /\ OneProbePerUrl

(* Once the writes fired by the reloads are over, what the next process would   *)
(* boot from is what this one serves, unless the last write failed (index.ts:    *)
(* any future warm restart sees the latest shape).                               *)
WarmCacheFollows ==
    phase # "down" /\ pending = <<>> /\ ~lost => cached \subseteq {store}

(* An edit made under the watch is served once the debounce is over, also after *)
(* edits that did not validate (keep previous, watch on).                       *)
NoticedEditsServed ==
    phase = "up" /\ seen /\ ~timer /\ file # Invalid => store = file

(* Both: this process serves the file, and so will the next.                    *)
ServesTheFile == WarmCacheFollows /\ NoticedEditsServed

(* A URL that keeps its timer gets a probe result: neither a reload nor a probe  *)
(* in flight at the time starves it (/readyz would stay at "never probed").      *)
EveryUrlIsProbed == \A u \in Probed : u \in timers ~> (u \in results \/ u \notin timers)
===============================================================================
