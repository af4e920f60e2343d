---------------------------- MODULE ReloadProofs -----------------------------
(* Theorems about what follows models.yaml.                                    *)
(* HotReload: its safety invariants hold for every set of URLs, polled or      *)
(* watched, and any number of edits. They are not inductive alone: the watch    *)
(* and its debounce must be known to belong to a process that is up (Watched),  *)
(* and the last write of the cache that is under way to be that of the served    *)
(* registry (LastWritten).                                                      *)
(* McpTools: its safety invariants hold for any number of requests, tools,      *)
(* rounds, reloads and clients.                                                *)
EXTENDS HotReload, McpTools, TLAPS

Watched ==
    /\ watching => phase = "up"
    /\ phase = "up" /\ ~orphan => watching
    /\ timer => phase = "up"
    /\ seen => phase \in {"up", "closing", "closed"}
    /\ phase \in {"down", "loaded"} => inFlight = {}

LastWritten ==
    /\ phase \in {"down", "loaded"} => pending = <<>>
    /\ pending # <<>> => pending[Len(pending)] = store

Inv ==
    /\ TypeOK
    /\ ProbesFollowRegistry
    /\ WarmCacheFollows
    /\ NoticedEditsServed
    /\ Watched
    /\ LastWritten

(* What is left of a process that is gone satisfies all of it. *)
LEMMA GoneInv ==
    ASSUME Inv, Gone, UNCHANGED <<file, edits, cached, lost>>
    PROVE  Inv'
<1>0. TypeOK /\ Invalid = {} BY DEF Inv, Invalid
<1>1. TypeOK'
  <2>1. probing' \in [Probed -> Nat] BY DEF Gone
  <2>2. store' \in Registries BY DEF Gone, Registries, Invalid
  <2>3. pending' \in Seq(Registries) BY DEF Gone
  <2>4. timers' \subseteq Probed /\ results' \subseteq Probed /\ inFlight' \subseteq Probed
    BY DEF Gone
  <2> QED BY <1>0, <2>1, <2>2, <2>3, <2>4 DEF Gone, TypeOK, Phases
<1>2. ProbesFollowRegistry'
  BY DEF Gone, ProbesFollowRegistry, TimersFollow, OneProbePerUrl
<1>3. WarmCacheFollows' /\ NoticedEditsServed'
  BY DEF Gone, WarmCacheFollows, NoticedEditsServed
<1>4. Watched' /\ LastWritten' BY DEF Gone, Watched, LastWritten
<1> QED BY <1>1, <1>2, <1>3, <1>4 DEF Inv

(* A guarded probe start keeps the guard exact. *)
LEMMA RunOneGuard ==
    ASSUME NEW urls \in SUBSET Probed, TypeOK, OneProbePerUrl, RunOne(urls, inFlight)
    PROVE  /\ OneProbePerUrl'
           /\ inFlight' \in SUBSET Probed
           /\ probing' \in [Probed -> Nat]
<1>1. inFlight' = inFlight \cup urls BY DEF RunOne
<1>2. inFlight' \in SUBSET Probed BY <1>1 DEF TypeOK
<1>3. \A u \in Probed : probing'[u] = IF u \in inFlight' THEN 1 ELSE 0
  BY <1>1 DEF RunOne, OneProbePerUrl, TypeOK
<1>4. probing' \in [Probed -> Nat]
  BY DEF RunOne, TypeOK
<1> QED BY <1>2, <1>3, <1>4 DEF OneProbePerUrl

(* start() leaves exactly the given timers, and the guard exact. *)
LEMMA StartProbes ==
    ASSUME NEW urls \in SUBSET Probed, TypeOK, OneProbePerUrl, Start(urls)
    PROVE  /\ timers' = urls
           /\ results' \in SUBSET Probed
           /\ OneProbePerUrl'
           /\ inFlight' \in SUBSET Probed
           /\ probing' \in [Probed -> Nat]
<1>1. urls \ timers \in SUBSET Probed OBVIOUS
<1>2. RunOne(urls \ timers, inFlight) BY DEF Start
<1>3. timers' = urls /\ results' \in SUBSET Probed BY DEF Start, TypeOK
<1> QED BY <1>1, <1>2, <1>3, RunOneGuard

(* A write of the cache leaves at most the given registry, or is marked lost. *)
LEMMA CacheFollows ==
    ASSUME NEW registry \in Registries, TypeOK, CacheSet(registry)
    PROVE  /\ cached' \in SUBSET Registries
           /\ \A r, s \in cached' : r = s
           /\ lost' \in BOOLEAN
           /\ ~lost' => cached' \subseteq {registry}
<1>1. CASE cached' = {registry} /\ lost' = FALSE BY <1>1
<1>2. CASE lost' = TRUE /\ UNCHANGED cached BY <1>2 DEF TypeOK
<1> QED BY <1>1, <1>2 DEF CacheSet

(* The steps of the environment on the cache. *)
LEMMA EnvironmentInv == ASSUME Inv, CacheWrites \/ CacheExpires \/ OlderSchema PROVE Inv'
<1>0. TypeOK BY DEF Inv
<1>w. CASE CacheWrites
  <2>1. /\ pending \in Seq(Registries) /\ pending # <<>> /\ CacheSet(Head(pending))
        /\ pending' = Tail(pending)
    BY <1>0, <1>w DEF CacheWrites, TypeOK
  <2>2. Head(pending) \in Registries /\ pending' \in Seq(Registries)
    BY <2>1
  <2>3. /\ cached' \in SUBSET Registries /\ \A r, s \in cached' : r = s
        /\ lost' \in BOOLEAN /\ (~lost' => cached' \subseteq {Head(pending)})
    BY <1>0, <2>1, <2>2, CacheFollows
  <2>4. TypeOK' BY <1>0, <1>w, <2>2, <2>3 DEF CacheWrites, TypeOK
  <2>5. ProbesFollowRegistry' /\ NoticedEditsServed' /\ Watched'
    BY <1>w DEF Inv, CacheWrites, ProbesFollowRegistry, TimersFollow, OneProbePerUrl,
                NoticedEditsServed, Watched
  <2>6. pending[Len(pending)] = store BY <2>1 DEF Inv, LastWritten
  <2>7. LastWritten'
    <3>1. pending' # <<>> => pending'[Len(pending')] = pending[Len(pending)]
      BY <2>1
    <3> QED BY <1>w, <2>1, <2>6, <3>1 DEF Inv, CacheWrites, LastWritten
  <2>8. WarmCacheFollows'
    <3>1. Len(pending) \in Nat /\ Len(pending) # 0 BY <2>1
    <3>2. pending' = <<>> => Len(pending) = 1
      <4>1. Len(pending') = Len(pending) - 1 BY <2>1
      <4>2. pending' = <<>> => Len(pending') = 0 OBVIOUS
      <4> QED BY <3>1, <4>1, <4>2
    <3>3. Head(pending) = pending[1] BY <2>1
    <3> QED BY <1>w, <2>3, <2>6, <3>2, <3>3 DEF CacheWrites, WarmCacheFollows
  <2> QED BY <2>4, <2>5, <2>7, <2>8 DEF Inv
<1>1. CASE CacheExpires
  <2>1. TypeOK' BY <1>0, <1>1 DEF CacheExpires, volatile, TypeOK
  <2>2. ProbesFollowRegistry' /\ NoticedEditsServed' /\ Watched' /\ LastWritten'
    BY <1>1 DEF Inv, CacheExpires, volatile, ProbesFollowRegistry, TimersFollow,
                OneProbePerUrl, NoticedEditsServed, Watched, LastWritten
  <2>3. WarmCacheFollows' BY <1>1 DEF CacheExpires, volatile, WarmCacheFollows
  <2> QED BY <2>1, <2>2, <2>3 DEF Inv
<1>2. CASE OlderSchema
  <2>1. TypeOK' BY <1>0, <1>2 DEF OlderSchema, volatile, TypeOK, Registries, Invalid
  <2>2. ProbesFollowRegistry' /\ NoticedEditsServed' /\ Watched' /\ LastWritten'
    BY <1>2 DEF Inv, OlderSchema, volatile, ProbesFollowRegistry, TimersFollow,
                OneProbePerUrl, NoticedEditsServed, Watched, LastWritten
  <2>3. WarmCacheFollows' BY <1>2 DEF OlderSchema, volatile, WarmCacheFollows
  <2> QED BY <2>1, <2>2, <2>3 DEF Inv
<1> QED BY <1>w, <1>1, <1>2

(* A boot from either source. *)
LEMMA BootInv == ASSUME Inv, BootWarm \/ BootCold PROVE Inv'
<1>0. TypeOK BY DEF Inv
<1>1. CASE BootWarm
  <2>1. PICK registry \in cached \ {Invalid} : store' = registry BY <1>1 DEF BootWarm
  <2>2. store' \in Registries /\ store' # Invalid /\ cached' \subseteq {store'}
    BY <1>0, <1>1, <2>1 DEF BootWarm, TypeOK
  <2>3. TypeOK' BY <1>0, <1>1, <2>2 DEF BootWarm, TypeOK, Phases
  <2>4. ProbesFollowRegistry' /\ Watched' /\ LastWritten'
    BY <1>1 DEF Inv, BootWarm, ProbesFollowRegistry, TimersFollow, OneProbePerUrl, Watched,
                LastWritten
  <2>5. WarmCacheFollows' /\ NoticedEditsServed'
    BY <1>1, <2>2 DEF BootWarm, WarmCacheFollows, NoticedEditsServed
  <2> QED BY <2>3, <2>4, <2>5 DEF Inv
<1>2. CASE BootCold
  <2>1. CacheSet(file) /\ file \in Registries BY <1>0, <1>2 DEF BootCold, TypeOK
  <2>2. /\ cached' \in SUBSET Registries /\ \A r, s \in cached' : r = s
        /\ lost' \in BOOLEAN /\ (~lost' => cached' \subseteq {file})
    BY <1>0, <2>1, CacheFollows
  <2>3. TypeOK' BY <1>0, <1>2, <2>2 DEF BootCold, TypeOK, Phases
  <2>4. ProbesFollowRegistry' /\ Watched' /\ LastWritten'
    BY <1>2 DEF Inv, BootCold, ProbesFollowRegistry, TimersFollow, OneProbePerUrl, Watched,
                LastWritten
  <2>5. WarmCacheFollows' /\ NoticedEditsServed'
    BY <1>2, <2>2 DEF BootCold, WarmCacheFollows, NoticedEditsServed
  <2> QED BY <2>3, <2>4, <2>5 DEF Inv
<1> QED BY <1>1, <1>2

(* buildApp, the watch, and the two steps of a shutdown. *)
LEMMA LifecycleInv == ASSUME Inv, Build \/ Watch \/ Shutdown \/ Close PROVE Inv'
<1>0. TypeOK /\ OneProbePerUrl BY DEF Inv, ProbesFollowRegistry
<1>1. CASE Build
  <2>1. store \cup {Postgres} \in SUBSET Probed /\ Start(store \cup {Postgres})
    BY <1>0, <1>1 DEF Build, TypeOK, Registries, Probed
  <2>2. /\ timers' = store \cup {Postgres} /\ results' \in SUBSET Probed
        /\ OneProbePerUrl' /\ inFlight' \in SUBSET Probed /\ probing' \in [Probed -> Nat]
    BY <1>0, <2>1, StartProbes
  <2>3. TypeOK' BY <1>0, <1>1, <2>1, <2>2 DEF Build, TypeOK, Phases
  <2>4. ProbesFollowRegistry'
    BY <1>1, <2>2 DEF Build, ProbesFollowRegistry, TimersFollow
  <2>5. WarmCacheFollows' /\ NoticedEditsServed' /\ Watched' /\ LastWritten'
    BY <1>1 DEF Inv, Build, WarmCacheFollows, NoticedEditsServed, Watched, LastWritten
  <2> QED BY <2>3, <2>4, <2>5 DEF Inv
<1>2. CASE Watch
  <2>1. TypeOK' BY <1>0, <1>2 DEF Watch, TypeOK, Phases
  <2>2. ProbesFollowRegistry'
    BY <1>2 DEF Inv, Watch, ProbesFollowRegistry, TimersFollow, OneProbePerUrl
  <2>3. WarmCacheFollows' /\ NoticedEditsServed' /\ Watched' /\ LastWritten'
    BY <1>2 DEF Inv, Watch, WarmCacheFollows, NoticedEditsServed, Watched, LastWritten
  <2> QED BY <2>1, <2>2, <2>3 DEF Inv
<1>3. CASE Shutdown
  <2>1. TypeOK' BY <1>0, <1>3 DEF Shutdown, TypeOK, Phases
  <2>2. ProbesFollowRegistry'
    BY <1>3 DEF Inv, Shutdown, ProbesFollowRegistry, TimersFollow, OneProbePerUrl
  <2>3. WarmCacheFollows' /\ NoticedEditsServed' /\ Watched' /\ LastWritten'
    BY <1>3 DEF Inv, Shutdown, WarmCacheFollows, NoticedEditsServed, Watched, LastWritten
  <2> QED BY <2>1, <2>2, <2>3 DEF Inv
<1>4. CASE Close
  <2>1. TypeOK' BY <1>0, <1>4 DEF Close, TypeOK, Phases
  <2>2. ProbesFollowRegistry'
    BY <1>4 DEF Inv, Close, ProbesFollowRegistry, TimersFollow, OneProbePerUrl
  <2>3. WarmCacheFollows' /\ NoticedEditsServed' /\ Watched' /\ LastWritten'
    BY <1>4 DEF Inv, Close, WarmCacheFollows, NoticedEditsServed, Watched, LastWritten
  <2> QED BY <2>1, <2>2, <2>3 DEF Inv
<1> QED BY <1>1, <1>2, <1>3, <1>4

(* An edit; it is noticed only under an open watch that names the file. *)
LEMMA EditInv ==
    ASSUME Inv, NEW registry \in Registries, NEW replaced \in BOOLEAN, Edit(registry, replaced)
    PROVE  Inv'
<1>0. TypeOK /\ Watched BY DEF Inv
<1>1. TypeOK'
  <2>1. edits' \in 0..MaxEdits BY <1>0, ReloadAssumption DEF Edit, TypeOK
  <2>2. timer' \in BOOLEAN /\ orphan' \in BOOLEAN /\ seen' \in BOOLEAN
    BY <1>0 DEF Edit, TypeOK
  <2> QED BY <1>0, <2>1, <2>2 DEF Edit, TypeOK
<1>2. ProbesFollowRegistry' /\ WarmCacheFollows'
  BY DEF Inv, Edit, ProbesFollowRegistry, TimersFollow, OneProbePerUrl, WarmCacheFollows
<1>3. NoticedEditsServed' BY <1>0 DEF Edit, NoticedEditsServed, Watched
<1>4. Watched' /\ LastWritten' BY <1>0 DEF Inv, Edit, Watched, LastWritten
<1> QED BY <1>1, <1>2, <1>3, <1>4 DEF Inv

(* A reload: nothing, or the new snapshot in the store and the probes at once,  *)
(* and as the last write of the cache.                                          *)
LEMMA ReloadInv == ASSUME Inv, Reload PROVE Inv'
<1>0. TypeOK /\ OneProbePerUrl /\ phase = "up"
  BY DEF Inv, ProbesFollowRegistry, Watched, Reload
<1>u. UNCHANGED <<file, edits, cached, phase, watching, orphan, lost, seen>> /\ timer' = FALSE
  BY DEF Reload
<1>1. CASE file = Invalid
  <2>1. UNCHANGED <<pending, store, timers, results, inFlight, probing>>
    BY <1>1 DEF Reload
  <2>2. TypeOK' BY <1>0, <1>u, <2>1 DEF TypeOK
  <2>3. ProbesFollowRegistry' /\ WarmCacheFollows' /\ Watched' /\ LastWritten'
    BY <1>u, <2>1 DEF Inv, ProbesFollowRegistry, TimersFollow, OneProbePerUrl,
                WarmCacheFollows, Watched, LastWritten
  <2>4. NoticedEditsServed' BY <1>1, <1>u DEF NoticedEditsServed
  <2> QED BY <2>2, <2>3, <2>4 DEF Inv
<1>2. CASE file # Invalid
  <2>1. /\ store' = file /\ pending' = Append(pending, file) /\ Start(file \cup {Postgres})
        /\ file \in Registries /\ file \cup {Postgres} \in SUBSET Probed
    BY <1>0, <1>2 DEF Reload, OnReload, TypeOK, Registries, Probed
  <2>2. /\ timers' = file \cup {Postgres} /\ results' \in SUBSET Probed
        /\ OneProbePerUrl' /\ inFlight' \in SUBSET Probed /\ probing' \in [Probed -> Nat]
    BY <1>0, <2>1, StartProbes
  <2>3. /\ pending' \in Seq(Registries) /\ pending' # <<>>
        /\ pending'[Len(pending')] = file
    <3>1. pending \in Seq(Registries) BY <1>0 DEF TypeOK
    <3> QED BY <2>1, <3>1
  <2>5. TypeOK'
    <3>1. /\ file' \in Registries /\ edits' \in 0..MaxEdits /\ phase' \in Phases
          /\ cached' \in SUBSET Registries /\ \A r, s \in cached' : r = s
      BY <1>0, <1>u DEF TypeOK
    <3>2. store' \in Registries /\ (phase' # "down" => store' # Invalid) BY <1>2, <2>1
    <3>3. timers' \subseteq Probed /\ results' \subseteq Probed /\ inFlight' \subseteq Probed
      BY <2>1, <2>2
    <3> QED BY <1>0, <1>u, <2>2, <2>3, <3>1, <3>2, <3>3 DEF TypeOK
  <2>6. ProbesFollowRegistry'
    BY <1>0, <1>u, <2>1, <2>2 DEF ProbesFollowRegistry, TimersFollow
  <2>7. WarmCacheFollows' /\ NoticedEditsServed' /\ LastWritten'
    BY <1>0, <1>u, <2>1, <2>3 DEF WarmCacheFollows, NoticedEditsServed, LastWritten
  <2>8. Watched' BY <1>0, <1>u DEF Inv, Watched
  <2> QED BY <2>5, <2>6, <2>7, <2>8 DEF Inv
<1> QED BY <1>1, <1>2

(* A timer fires, or a probe ends. *)
LEMMA ProbeInv == ASSUME Inv, NEW u \in Probed, Tick(u) \/ ProbeEnds(u) PROVE Inv'
<1>0. TypeOK /\ OneProbePerUrl /\ Watched BY DEF Inv, ProbesFollowRegistry
<1>1. CASE Tick(u)
  <2>1. RunOne({u}, inFlight) /\ {u} \in SUBSET Probed /\ u \in timers BY <1>1 DEF Tick
  <2>2. OneProbePerUrl' /\ inFlight' \in SUBSET Probed /\ probing' \in [Probed -> Nat]
    BY <1>0, <2>1, RunOneGuard
  <2>3. TypeOK' BY <1>0, <1>1, <2>2 DEF Tick, TypeOK
  <2>4. phase \notin {"down", "loaded"}
    BY <2>1 DEF Inv, ProbesFollowRegistry, TimersFollow
  <2>5. ProbesFollowRegistry' /\ WarmCacheFollows' /\ NoticedEditsServed'
    BY <1>1, <2>2 DEF Inv, Tick, ProbesFollowRegistry, TimersFollow, WarmCacheFollows,
                      NoticedEditsServed
  <2>6. Watched' /\ LastWritten' BY <1>0, <1>1, <2>4 DEF Inv, Tick, Watched, LastWritten
  <2> QED BY <2>3, <2>5, <2>6 DEF Inv
<1>2. CASE ProbeEnds(u)
  <2>1. probing' = [probing EXCEPT ![u] = probing[u] - 1] /\ probing[u] = 1
    BY <1>0, <1>2 DEF ProbeEnds, OneProbePerUrl
  <2>2. OneProbePerUrl' BY <1>0, <1>2, <2>1 DEF ProbeEnds, OneProbePerUrl, TypeOK
  <2>3. probing' \in [Probed -> Nat] BY <1>0, <2>1 DEF TypeOK
  <2>4. TypeOK' BY <1>0, <1>2, <2>3 DEF ProbeEnds, TypeOK
  <2>5. ProbesFollowRegistry' /\ WarmCacheFollows' /\ NoticedEditsServed'
    BY <1>2, <2>2 DEF Inv, ProbeEnds, ProbesFollowRegistry, TimersFollow, WarmCacheFollows,
                      NoticedEditsServed
  <2>6. Watched' /\ LastWritten' BY <1>0, <1>2 DEF Inv, ProbeEnds, Watched, LastWritten
  <2> QED BY <2>4, <2>5, <2>6 DEF Inv
<1> QED BY <1>1, <1>2

(* The invariant is inductive. *)
THEOREM Inductive == Spec => []Inv
<1>1. Init => Inv
  <2> SUFFICES ASSUME Init PROVE Inv OBVIOUS
  <2>1. TypeOK
    <3>1. probing \in [Probed -> Nat] /\ store \in Registries
      BY DEF Init, Registries, Invalid
    <3>2. edits \in 0..MaxEdits BY ReloadAssumption DEF Init
    <3>3. pending \in Seq(Registries) BY DEF Init
    <3>4. timers \subseteq Probed /\ results \subseteq Probed /\ inFlight \subseteq Probed
      BY DEF Init
    <3> QED BY <3>1, <3>2, <3>3, <3>4 DEF Init, TypeOK, Phases
  <2>2. ProbesFollowRegistry
    BY DEF Init, ProbesFollowRegistry, TimersFollow, OneProbePerUrl
  <2>3. WarmCacheFollows /\ NoticedEditsServed /\ Watched /\ LastWritten
    BY DEF Init, WarmCacheFollows, NoticedEditsServed, Watched, LastWritten
  <2> QED BY <2>1, <2>2, <2>3 DEF Inv
<1>2. Inv /\ [Next]_vars => Inv'
  <2> SUFFICES ASSUME Inv, [Next]_vars PROVE Inv' OBVIOUS
  <2>1. CASE CacheWrites \/ CacheExpires \/ OlderSchema BY <2>1, EnvironmentInv
  <2>2. CASE BootWarm \/ BootCold BY <2>2, BootInv
  <2>3. CASE Build \/ Watch \/ Shutdown \/ Close BY <2>3, LifecycleInv
  <2>4. CASE Exit BY <2>4, GoneInv DEF Exit
  <2>5. CASE \E registry \in Registries, replaced \in BOOLEAN : Edit(registry, replaced)
    BY <2>5, EditInv
  <2>6. CASE Reload BY <2>6, ReloadInv
  <2>7. CASE \E u \in Probed : Tick(u) \/ ProbeEnds(u) BY <2>7, ProbeInv
  <2>8. CASE UNCHANGED vars
    BY <2>8 DEF vars, volatile, Inv, TypeOK, ProbesFollowRegistry, TimersFollow,
                OneProbePerUrl, WarmCacheFollows, NoticedEditsServed, Watched, LastWritten
  <2> QED BY <2>1, <2>2, <2>3, <2>4, <2>5, <2>6, <2>7, <2>8 DEF Next
<1> QED BY <1>1, <1>2, PTL DEF Spec

(* TypeOK: no process ever serves a registry that did not validate. *)
THEOREM TypeCorrect == Spec => []TypeOK
BY Inductive, PTL DEF Inv

(* The probe timers are those of the served registry and of the pool, and no   *)
(* URL is probed twice at once.                                                *)
THEOREM ProbesFollow == Spec => []ProbesFollowRegistry
BY Inductive, PTL DEF Inv

(* Once the writes under way are over a cached snapshot is the served one,     *)
(* unless the last write was lost, and an edit the watch noticed is served      *)
(* after the debounce.                                                          *)
THEOREM EditsServed == Spec => []ServesTheFile
<1>1. Inv => ServesTheFile BY DEF Inv, ServesTheFile
<1> QED BY <1>1, Inductive, PTL

-----------------------------------------------------------------------------
(* McpTools *)

(* A disposal takes nothing out of the map before its reload.                  *)
NotYet == \A d \in Reloads : d > reloads => popped[d] = {}

(* The calls on their way are those that the answer makes of the server's tools. *)
Asked == \A r \in Requests : {t \in Tools : calls[r][t] # "none"} = resp[r] \cap Tools

Transcribed == Asked /\ CallsAnswered

McpInv == McpTypeOK /\ NotYet /\ NoStrayConnection /\ Transcribed

(* CallsAnswered, one request at a time.                                       *)
Told(r) ==
    /\ Len(messages[r]) = IF pc[r] = "tools" THEN iter[r] - 1 ELSE iter[r]
    /\ \A i \in DOMAIN messages[r] : Answered(messages[r][i])
(* CallsAnswered says it of every request. *)
LEMMA CallsTold == CallsAnswered <=> \A r \in Requests : Told(r)
BY DEF CallsAnswered, Told

(* Somebody is to use or to close the connection.                               *)
Owned(c) == c \in entry \/ \E d \in Reloads : c \in popped[d]
IsLive(c) == state[c] \in {"connecting", "open", "lost"}

(* NoStrayConnection, one connection at a time.                                *)
LEMMA StrayIs == NoStrayConnection <=> (~evicted => \A c \in Transports : IsLive(c) => Owned(c))
BY DEF NoStrayConnection, Live, Owned, IsLive

(* A new connection is one of the clients, in use by nobody.                    *)
LEMMA FreshIsUnused ==
    ASSUME Unused # {}
    PROVE  Fresh \in Transports /\ ~IsLive(Fresh)
<1>1. Fresh \in Unused BY DEF Fresh
<1> QED BY <1>1 DEF Unused, IsLive

(* A request that needs the connection finds it or makes it the map's.          *)
LEMMA ConnectInv ==
    ASSUME McpInv, NEW r \in Requests, GetOrConnect(r), UNCHANGED <<popped, evicted, reloads>>
    PROVE  /\ state' \in [Transports -> {"free", "connecting", "open", "lost", "failed", "closed"}]
           /\ entry' \in SUBSET Transports /\ \A c, d \in entry' : c = d
           /\ on' \in [Requests -> SUBSET Transports]
           /\ NotYet' /\ NoStrayConnection'
<1> USE DEF McpInv
<1>0. ~evicted => \A c \in Transports : IsLive(c) => Owned(c)
  BY StrayIs
<1>1. CASE entry # {}
  <2>1. on' = [on EXCEPT ![r] = entry] /\ UNCHANGED <<state, entry>>
    BY <1>1 DEF GetOrConnect, connections
  <2> QED BY <2>1 DEF McpTypeOK, NotYet, NoStrayConnection, Live
<1>2. CASE entry = {}
  <2> DEFINE f == Fresh
  <2>1. on' = [on EXCEPT ![r] = {f}] /\ state' = [state EXCEPT ![f] = "connecting"] /\ entry' = {f}
    BY <1>2 DEF GetOrConnect
  <2>2. f \in Transports /\ ~IsLive(f)
    BY <1>2, FreshIsUnused DEF GetOrConnect
  <2> HIDE DEF f
  <2>3. ~evicted' => \A c \in Transports : IsLive(c)' => Owned(c)'
    <3> SUFFICES ASSUME ~evicted, NEW c \in Transports, IsLive(c)' PROVE Owned(c)'
      OBVIOUS
    <3>1. CASE c = f
      BY <3>1, <2>1 DEF Owned
    <3>2. CASE c # f
      <4>1. IsLive(c)
        BY <3>2, <2>1, <2>2 DEF IsLive, McpTypeOK
      <4> QED BY <4>1, <1>0, <1>2 DEF Owned
    <3> QED BY <3>1, <3>2
  <2>4. NoStrayConnection'
    BY <2>3 DEF NoStrayConnection, Live, Owned, IsLive
  <2> QED BY <2>1, <2>2, <2>4 DEF McpTypeOK, NotYet
<1> QED BY <1>1, <1>2

(* The connection ends up open or, forgotten by the map, failed; or it is lost. *)
LEMMA TransportInv ==
    ASSUME McpInv, NEW c \in Transports, ConnectEnds(c) \/ Lost(c)
    PROVE  McpInv'
<1> USE DEF McpInv
<1>0. ~evicted => \A x \in Transports : IsLive(x) => Owned(x)
  BY StrayIs
<1>1. PICK s \in {"open", "failed", "lost"} :
         /\ state' = [state EXCEPT ![c] = s]
         /\ IsLive(c)
         /\ \/ s # "failed" /\ UNCHANGED <<entry, evicted>>
            \/ s = "failed" /\ entry' = {} /\ evicted' = (evicted \/ entry \ {c} # {})
  BY DEF ConnectEnds, Lost, IsLive
<1>e. ~evicted' => ~evicted /\ (s = "failed" => entry \subseteq {c})
  <2>1. CASE s # "failed"
    BY <1>1, <2>1
  <2>2. CASE s = "failed"
    <3>1. evicted' = (evicted \/ entry \ {c} # {})
      BY <1>1, <2>2
    <3>2. ~evicted' => ~evicted /\ entry \ {c} = {}
      BY <3>1, Zenon
    <3> QED BY <3>2
  <2> QED BY <2>1, <2>2
<1>2. UNCHANGED <<listed, reloads, disposal, pc, request>>
  BY DEF ConnectEnds, Lost
<1>3. McpTypeOK'
  BY <1>1, <1>2 DEF McpTypeOK, disposal, request
<1>4. NotYet' /\ Transcribed'
  BY <1>2 DEF NotYet, Transcribed, Asked, CallsAnswered, disposal, request
<1>5. ~evicted' => \A x \in Transports : IsLive(x)' => Owned(x)'
  <2> SUFFICES ASSUME ~evicted', NEW x \in Transports, IsLive(x)' PROVE Owned(x)'
    OBVIOUS
  <2>1. ~evicted /\ (s = "failed" => entry \subseteq {c})
    BY <1>e
  <2>2. IsLive(x)
    BY <1>1 DEF IsLive, McpTypeOK
  <2>3. s = "failed" => x # c
    BY <1>1 DEF IsLive, McpTypeOK
  <2> QED BY <1>0, <1>1, <1>2, <2>1, <2>2, <2>3 DEF Owned, disposal
<1>6. NoStrayConnection'
  BY <1>5 DEF NoStrayConnection, Live, Owned, IsLive
<1> QED BY <1>3, <1>4, <1>6

(* A dispose moves the connection from the map into its own hands and closes it *)
(* there, once it is known to be one.                                          *)
LEMMA DisposeInv ==
    ASSUME McpInv, NEW d \in Reloads, Dispose(d) \/ Delete(d) \/ CloseTransport(d)
    PROVE  McpInv'
<1> USE DEF McpInv
<1>0. ~evicted => \A x \in Transports : IsLive(x) => Owned(x)
  BY StrayIs
<1>a. MaxReloads \in Nat /\ d \in Int /\ reloads \in Int
  BY McpAssumption DEF Reloads, McpTypeOK
<1>1. CASE Dispose(d)
  <2>1. /\ d = reloads + 1 /\ reloads' = d /\ popped' = [popped EXCEPT ![d] = entry] /\ entry' = {}
        /\ dispose' = [dispose EXCEPT ![d] = "deleting"]
        /\ UNCHANGED <<state, listed, pc, request, evicted>>
    BY <1>1 DEF Dispose
  <2>2. McpTypeOK'
    BY <1>a, <2>1 DEF McpTypeOK, request, Reloads
  <2>3. NotYet' /\ Transcribed'
    BY <1>a, <2>1 DEF NotYet, Transcribed, Asked, CallsAnswered, request, McpTypeOK, Reloads
  <2>4. popped[d] = {}
    BY <1>a, <2>1 DEF NotYet
  <2>5. ASSUME NEW x, Owned(x) PROVE Owned(x)'
    BY <2>1, <2>4, <2>5 DEF Owned, McpTypeOK
  <2>6. NoStrayConnection'
    BY <1>0, <2>1, <2>5 DEF NoStrayConnection, Live, Owned, IsLive
  <2> QED BY <2>2, <2>3, <2>6
<1>2. CASE Delete(d)
  <2>1. /\ listed' \in {listed, FALSE} /\ dispose' = [dispose EXCEPT ![d] = "closing"]
        /\ UNCHANGED <<state, entry, reloads, popped, pc, request, evicted>>
    BY <1>2 DEF Delete, connections
  <2>2. McpTypeOK'
    BY <2>1 DEF McpTypeOK, request
  <2>3. NotYet' /\ Transcribed' /\ NoStrayConnection'
    BY <2>1 DEF NotYet, Transcribed, Asked, CallsAnswered, NoStrayConnection, Live, request
  <2> QED BY <2>2, <2>3
<1>3. CASE CloseTransport(d)
  <2>1. /\ \A c \in popped[d] : state[c] # "connecting"
        /\ state' = [c \in Transports |->
                        IF c \in popped[d] /\ state[c] \in {"open", "lost"} THEN "closed" ELSE state[c]]
        /\ popped' = [popped EXCEPT ![d] = {}]
        /\ dispose' = [dispose EXCEPT ![d] = "done"]
        /\ UNCHANGED <<entry, listed, reloads, pc, request, evicted>>
    BY <1>3 DEF CloseTransport, Popped
  <2>2. McpTypeOK'
    BY <2>1 DEF McpTypeOK, request
  <2>3. NotYet' /\ Transcribed'
    BY <2>1 DEF NotYet, Transcribed, Asked, CallsAnswered, request, McpTypeOK
  <2>4. ASSUME NEW x \in Transports, IsLive(x)' PROVE IsLive(x) /\ x \notin popped[d]
    BY <2>1, <2>4 DEF IsLive
  <2>5. ASSUME NEW x, Owned(x), x \notin popped[d] PROVE Owned(x)'
    BY <2>1, <2>5 DEF Owned, McpTypeOK
  <2>6. ~evicted' => \A x \in Transports : IsLive(x)' => Owned(x)'
    BY <1>0, <2>1, <2>4, <2>5
  <2>7. NoStrayConnection'
    BY <2>6 DEF NoStrayConnection, Live, Owned, IsLive
  <2> QED BY <2>2, <2>3, <2>7
<1> QED BY <1>1, <1>2, <1>3

(* What a request holds and is told of its calls does not touch the map.        *)
LEMMA ApartInv ==
    ASSUME McpInv, UNCHANGED <<state, entry, reloads, disposal, evicted>>
    PROVE  NotYet' /\ NoStrayConnection'
BY DEF McpInv, NotYet, NoStrayConnection, Live, disposal

(* The tools of a server, asked for by a request: from the cache or over the    *)
(* connection; and the end of its loop.                                         *)
LEMMA FetchInv ==
    ASSUME McpInv, NEW r \in Requests,
           FetchHit(r) \/ FetchMiss(r) \/ FetchFails(r) \/ List(r) \/ FetchDone(r)
    PROVE  McpInv'
<1> USE DEF McpInv
<1>1. CASE FetchHit(r)
  <2>1. McpTypeOK' /\ Transcribed' /\ UNCHANGED <<state, entry, reloads, disposal, evicted>>
    BY <1>1 DEF FetchHit, With, Goto, McpTypeOK, Transcribed, Asked, CallsAnswered, connections, disposal
  <2> QED BY <2>1, ApartInv
<1>2. CASE FetchMiss(r)
  <2>1. /\ GetOrConnect(r) /\ pc[r] = "idle" /\ pc' = [pc EXCEPT ![r] = "listing"]
        /\ UNCHANGED <<listed, reloads, dispose, popped, loops, iter, resp, calls, messages, evicted>>
    BY <1>2 DEF FetchMiss, Goto, disposal
  <2>2. /\ state' \in [Transports -> {"free", "connecting", "open", "lost", "failed", "closed"}]
        /\ entry' \in SUBSET Transports /\ \A c, d \in entry' : c = d
        /\ on' \in [Requests -> SUBSET Transports]
        /\ NotYet' /\ NoStrayConnection'
    BY <2>1, ConnectInv
  <2>3. McpTypeOK'
    BY <2>1, <2>2 DEF McpTypeOK
  <2>4. Transcribed'
    <3>1. \A x \in Requests : pc'[x] = "tools" <=> pc[x] = "tools"
      BY <2>1 DEF McpTypeOK
    <3> QED BY <2>1, <3>1 DEF Transcribed, Asked, CallsAnswered
  <2> QED BY <2>2, <2>3, <2>4
<1>3. CASE FetchFails(r)
  <2>1. McpTypeOK' /\ Transcribed' /\ UNCHANGED <<state, entry, reloads, disposal, evicted>>
    BY <1>3 DEF FetchFails, Without, Goto, McpTypeOK, Transcribed, Asked, CallsAnswered, connections, disposal
  <2> QED BY <2>1, ApartInv
<1>4. CASE List(r)
  <2>1. McpTypeOK' /\ Transcribed' /\ UNCHANGED <<state, entry, reloads, disposal, evicted>>
    BY <1>4 DEF List, Goto, McpTypeOK, Transcribed, Asked, CallsAnswered, connections, disposal, request
  <2> QED BY <2>1, ApartInv
<1>5. CASE FetchDone(r)
  <2>1. McpTypeOK' /\ Transcribed' /\ UNCHANGED <<state, entry, reloads, disposal, evicted>>
    BY <1>5 DEF FetchDone, With, Goto, McpTypeOK, Transcribed, Asked, CallsAnswered, connections, disposal
  <2> QED BY <2>1, ApartInv
<1> QED BY <1>1, <1>2, <1>3, <1>4, <1>5

(* The loop of a request: a round starts while there are rounds left, and the   *)
(* model is asked again when every call has its result.                         *)
LEMMA LoopInv ==
    ASSUME McpInv, NEW r \in Requests,
           \/ Finish(r) \/ Dispatch(r) \/ Exceeded(r) \/ NextRound(r)
           \/ \E t \in Tools : CallStarts(r, t) \/ CallAnswers(r, t) \/ CallFails(r, t)
    PROVE  McpInv'
<1> USE DEF McpInv
<1>1. CASE Finish(r) \/ Exceeded(r)
  <2>1. End(r) BY <1>1 DEF Finish, Exceeded
  <2>2. 0 \in 0..LoopMax BY McpAssumption
  <2>3. McpTypeOK' /\ UNCHANGED <<state, entry, reloads, disposal, evicted>>
    BY <2>1, <2>2 DEF End, Goto, McpTypeOK, connections, disposal
  <2>4. /\ messages' = [messages EXCEPT ![r] = <<>>] /\ iter' = [iter EXCEPT ![r] = 0]
        /\ pc' = [pc EXCEPT ![r] = "done"] /\ UNCHANGED <<resp, calls>>
    BY <2>1 DEF End, Goto
  <2>5. Transcribed'
    <3>1. Asked' BY <2>4 DEF Transcribed, Asked
    <3>2. ASSUME NEW x \in Requests PROVE Told(x)'
      <4>1. Told(x) BY CallsTold DEF Transcribed
      <4>2. CASE x = r
        <5>1. messages'[x] = <<>> /\ iter'[x] = 0 /\ pc'[x] = "done"
          BY <2>4, <4>2 DEF McpTypeOK
        <5> QED BY <5>1 DEF Told
      <4>3. CASE x # r
        <5>1. messages'[x] = messages[x] /\ iter'[x] = iter[x] /\ pc'[x] = pc[x]
          BY <2>4, <4>3 DEF McpTypeOK
        <5> QED BY <4>1, <5>1 DEF Told
      <4> QED BY <4>2, <4>3
    <3> QED BY <3>1, <3>2 DEF Transcribed, CallsAnswered, Told
  <2> QED BY <2>3, <2>5, ApartInv
<1>2. CASE Dispatch(r)
  <2>1. /\ GetOrConnect(r) /\ pc[r] = "model" /\ pc' = [pc EXCEPT ![r] = "tools"]
        /\ iter' = [iter EXCEPT ![r] = @ + 1] /\ iter[r] < LoopMax
        /\ UNCHANGED <<listed, reloads, dispose, popped, loops, messages, evicted>>
    BY <1>2 DEF Dispatch, Goto, disposal, MayLoop
  <2>2. /\ state' \in [Transports -> {"free", "connecting", "open", "lost", "failed", "closed"}]
        /\ entry' \in SUBSET Transports /\ \A c, d \in entry' : c = d
        /\ on' \in [Requests -> SUBSET Transports]
        /\ NotYet' /\ NoStrayConnection'
    BY <2>1, ConnectInv
  <2>3. iter' \in [Requests -> 0..LoopMax]
    <3>1. iter[r] \in 0..LoopMax BY DEF McpTypeOK
    <3>2. iter[r] + 1 \in 0..LoopMax BY <2>1, <3>1, McpAssumption
    <3> QED BY <2>1, <3>2 DEF McpTypeOK
  <2>4. PICK asked \in SUBSET (Tools \cup OwnTools) :
           /\ resp' = [resp EXCEPT ![r] = asked]
           /\ calls' = [calls EXCEPT ![r] = [t \in Tools |-> IF t \in asked THEN "waiting" ELSE "none"]]
    BY <1>2 DEF Dispatch
  <2>5. calls' \in [Requests -> [Tools -> {"none", "waiting", "running", "result", "error"}]]
    BY <2>4 DEF McpTypeOK
  <2>6. McpTypeOK'
    BY <2>1, <2>2, <2>3, <2>4, <2>5 DEF McpTypeOK
  <2>7. Asked'
    BY <2>4 DEF Asked, Transcribed, McpTypeOK
  <2>8. ASSUME NEW x \in Requests PROVE Told(x)'
    <3>1. Told(x) BY CallsTold DEF Transcribed
    <3>2. CASE x = r
      <4>1. messages'[x] = messages[x] /\ iter'[x] = iter[x] + 1 /\ pc'[x] = "tools"
            /\ pc[x] = "model" /\ iter[x] \in Int
        BY <2>1, <3>2 DEF McpTypeOK
      <4> QED BY <3>1, <4>1 DEF Told
    <3>3. CASE x # r
      <4>1. messages'[x] = messages[x] /\ iter'[x] = iter[x] /\ pc'[x] = pc[x]
        BY <2>1, <3>3 DEF McpTypeOK
      <4> QED BY <3>1, <4>1 DEF Told
    <3> QED BY <3>2, <3>3
  <2>9. Transcribed' BY <2>7, <2>8 DEF Transcribed, CallsAnswered, Told
  <2> QED BY <2>2, <2>6, <2>9
<1>3. CASE NextRound(r)
  <2>1. /\ pc[r] = "tools" /\ pc' = [pc EXCEPT ![r] = "model"] /\ Open(r) = {}
        /\ messages' = [messages EXCEPT ![r] = Append(@, Round(r))]
        /\ resp' = [resp EXCEPT ![r] = {}]
        /\ calls' = [calls EXCEPT ![r] = [t \in Tools |-> "none"]]
        /\ on' = [on EXCEPT ![r] = {}]
        /\ UNCHANGED <<connections, listed, reloads, disposal, loops, iter, evicted>>
    BY <1>3 DEF NextRound, AllIn, Goto
  <2>2. calls' \in [Requests -> [Tools -> {"none", "waiting", "running", "result", "error"}]]
    BY <2>1 DEF McpTypeOK
  <2>3. Round(r) \in Rounds /\ Answered(Round(r))
    <3>1. \A t \in Tools : calls[r][t] \in {"none", "result", "error"}
      BY <2>1 DEF Open, McpTypeOK
    <3>2. {t \in Tools : calls[r][t] \in {"result", "error"}} = resp[r] \cap Tools
      BY <3>1 DEF Transcribed, Asked
    <3> QED BY <3>2 DEF Round, Rounds, Answered, McpTypeOK
  <2>4. messages[r] \in Seq(Rounds) /\ messages' \in [Requests -> Seq(Rounds)]
    BY <2>1, <2>3 DEF McpTypeOK
  <2>5. McpTypeOK' /\ UNCHANGED <<state, entry, reloads, disposal, evicted>>
    BY <2>1, <2>2, <2>4 DEF McpTypeOK, connections, disposal
  <2>6. Asked'
    BY <2>1 DEF Asked, Transcribed, McpTypeOK
  <2>7. ASSUME NEW x \in Requests PROVE Told(x)'
    <3>1. Told(x) BY CallsTold DEF Transcribed
    <3>2. CASE x = r
      <4>1. messages'[x] = Append(messages[x], Round(r)) /\ iter'[x] = iter[x] /\ pc'[x] = "model"
            /\ pc[x] = "tools" /\ iter[x] \in Int /\ messages[x] \in Seq(Rounds)
        BY <2>1, <2>4, <3>2 DEF McpTypeOK
      <4>2. Len(messages[x]) = iter[x] - 1 BY <3>1, <4>1 DEF Told
      <4>3. Len(messages'[x]) = iter[x] BY <2>3, <4>1, <4>2
      <4>4. ASSUME NEW i \in DOMAIN messages'[x] PROVE Answered(messages'[x][i])
        <5> DEFINE m == messages[x]
                   last == Round(r)
        <5>1. m \in Seq(Rounds) /\ last \in Rounds /\ i \in DOMAIN Append(m, last)
          BY <2>3, <4>1, <4>4
        <5>2. \A j \in DOMAIN m : Answered(m[j]) BY <3>1 DEF Told
        <5>3. Answered(last) BY <2>3
        <5> HIDE DEF m, last
        <5>4. \/ i \in DOMAIN m /\ Append(m, last)[i] = m[i]
              \/ Append(m, last)[i] = last
          BY <5>1
        <5>5. Answered(Append(m, last)[i]) BY <5>2, <5>3, <5>4
        <5> QED BY <4>1, <5>5 DEF m, last
      <4> QED BY <4>1, <4>3, <4>4 DEF Told
    <3>3. CASE x # r
      <4>1. messages'[x] = messages[x] /\ iter'[x] = iter[x] /\ pc'[x] = pc[x]
        BY <2>1, <3>3 DEF McpTypeOK
      <4> QED BY <3>1, <4>1 DEF Told
    <3> QED BY <3>2, <3>3
  <2>8. Transcribed' BY <2>6, <2>7 DEF Transcribed, CallsAnswered, Told
  <2> QED BY <2>5, <2>8, ApartInv
<1>4. CASE \E t \in Tools : CallStarts(r, t) \/ CallAnswers(r, t) \/ CallFails(r, t)
  <2>1. PICK t \in Tools, status \in {"running", "result", "error"} :
           calls[r][t] # "none" /\ Settle(r, t, status)
    BY <1>4 DEF CallStarts, CallAnswers, CallFails
  <2>2. calls' \in [Requests -> [Tools -> {"none", "waiting", "running", "result", "error"}]]
    BY <2>1 DEF Settle, McpTypeOK
  <2>3. McpTypeOK' /\ UNCHANGED <<state, entry, reloads, disposal, evicted>>
    BY <2>1, <2>2 DEF Settle, McpTypeOK, connections, disposal
  <2>4. \A x \in Requests, u \in Tools : calls'[x][u] # "none" <=> calls[x][u] # "none"
    BY <2>1 DEF Settle, McpTypeOK
  <2>5. Transcribed'
    <3>1. UNCHANGED <<resp, messages, iter, pc>> BY <2>1 DEF Settle
    <3> QED BY <2>4, <3>1 DEF Transcribed, Asked, CallsAnswered
  <2> QED BY <2>3, <2>5, ApartInv
<1> QED BY <1>1, <1>2, <1>3, <1>4

(* The inductive invariant of McpTools.                                        *)
THEOREM McpInductive == McpSpec => []McpInv
<1>1. McpInit => McpInv
  <2> SUFFICES ASSUME McpInit PROVE McpInv OBVIOUS
  <2>1. 0 \in 0..MaxReloads /\ 0 \in 0..LoopMax BY McpAssumption
  <2>2. McpTypeOK
    <3>1. messages \in [Requests -> Seq(Rounds)]
      <4>1. <<>> \in Seq(Rounds) OBVIOUS
      <4> QED BY <4>1 DEF McpInit
    <3>2. calls \in [Requests -> [Tools -> {"none", "waiting", "running", "result", "error"}]]
      BY DEF McpInit
    <3> QED BY <2>1, <3>1, <3>2 DEF McpInit, McpTypeOK
  <2>3. NotYet /\ Transcribed BY DEF McpInit, NotYet, Transcribed, Asked, CallsAnswered
  <2>4. NoStrayConnection BY DEF McpInit, NoStrayConnection, Live
  <2> QED BY <2>2, <2>3, <2>4 DEF McpInv
<1>2. McpInv /\ [McpNext]_mcpVars => McpInv'
  <2> SUFFICES ASSUME McpInv, [McpNext]_mcpVars PROVE McpInv' OBVIOUS
  <2>1. ASSUME NEW r \in Requests, RequestStep(r) PROVE McpInv'
    BY <2>1, FetchInv, LoopInv DEF RequestStep
  <2>2. ASSUME NEW c \in Transports, ConnectEnds(c) \/ Lost(c) PROVE McpInv'
    BY <2>2, TransportInv
  <2>3. CASE ListExpires
    <3>1. McpTypeOK' /\ Transcribed' /\ UNCHANGED <<state, entry, reloads, disposal, evicted>>
      BY <2>3 DEF ListExpires, McpInv, McpTypeOK, Transcribed, Asked, CallsAnswered, connections, disposal, request
    <3> QED BY <3>1, ApartInv DEF McpInv
  <2>4. ASSUME NEW d \in Reloads, Dispose(d) \/ Delete(d) \/ CloseTransport(d) PROVE McpInv'
    BY <2>4, DisposeInv
  <2>5. CASE UNCHANGED mcpVars
    <3>1. McpTypeOK' /\ Transcribed' /\ UNCHANGED <<state, entry, reloads, disposal, evicted>>
      BY <2>5 DEF mcpVars, McpInv, McpTypeOK, Transcribed, Asked, CallsAnswered, connections, disposal, request
    <3> QED BY <3>1, ApartInv DEF McpInv
  <2> QED BY <2>1, <2>2, <2>3, <2>4, <2>5 DEF McpNext
<1> QED BY <1>1, <1>2, PTL DEF McpSpec

(* McpTypeOK: the map never holds two connections, and a loop never runs more   *)
(* than its rounds.                                                            *)
THEOREM McpTypeCorrect == McpSpec => []McpTypeOK
BY McpInductive, PTL DEF McpInv

(* A live connection is the map's or a dispose will close it, unless a connect  *)
(* that failed late took another's entry out of the map.                        *)
THEOREM NoneLeftBehind == McpSpec => []NoStrayConnection
BY McpInductive, PTL DEF McpInv

(* However many rounds a loop has run, and whatever became of its connections,  *)
(* the transcript that the model is sent has them all, and right after each     *)
(* answer one result for each call it makes of the server's tools.              *)
THEOREM EveryCallAnswered == McpSpec => []CallsAnswered
BY McpInductive, PTL DEF McpInv, Transcribed
===============================================================================
