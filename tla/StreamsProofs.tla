----------------------------- MODULE StreamsProofs -----------------------------
(* Theorems about Streams for any number of tool calls and chunks: whatever the *)
(* source yields keeps the contract of the canonical events, what the client    *)
(* takes for complete is complete, and a stream ends once.                      *)
(*                                                                              *)
(* The source yields several events at a time, so what is on its way is a queue *)
(* that must be legal as a whole: it leads from what the sink has heard to what *)
(* the flags of the source say, each event allowed where it stands.             *)
EXTENDS Streams, SequenceTheorems, FiniteSetTheorems, TLAPS

(* What the events up to some place said of the message.                        *)
Readings == [phase : {"new", "started", "stopped"}, open : SUBSET Blocks, named : SUBSET Calls,
             count : [Sources -> Nat], told : Reasons \cup {NoFinish}]

(* What the source knows while its events are on their way.                     *)
World == [block |-> src.block, sent |-> sent, usage |-> src.usage, finish |-> src.finish,
          returned |-> src.returned, left |-> aborted]

Owns(w, k, i) == IF k = "text" THEN i = 0 ELSE k \in Calls /\ i # 0 /\ w.block[k] = i
Complete(w, s) ==
    /\ s.count = w.sent
    /\ s.named = {k \in Calls : w.block[k] # 0}
    /\ w.usage => s.told = ToStop(w.finish)

(* Event a is allowed after reading s, and leads to reading t.                  *)
Says(w, s, a, t) ==
    \/ /\ a.type = "message_start" /\ a.index = 0 /\ s.phase = "new"
       /\ t = [s EXCEPT !.phase = "started"]
    \/ /\ a.type = "content_block_start" /\ Owns(w, a.of, a.index)
       /\ s.phase = "started" /\ a.index \notin s.open /\ a.of \notin s.named
       /\ t = [s EXCEPT !.open = @ \cup {a.index}, !.named = @ \cup ({a.of} \cap Calls)]
    \/ /\ a.type = "content_block_delta" /\ Owns(w, a.of, a.index) /\ a.index \in s.open
       /\ t = [s EXCEPT !.count[a.of] = @ + 1]
    \/ /\ a.type = "content_block_stop" /\ a.index \in s.open
       /\ t = [s EXCEPT !.open = @ \ {a.index}]
    \/ /\ a.type = "message_delta" /\ a.index = 0 /\ a.of \in Reasons
       /\ s.phase = "started" /\ s.open = {}
       /\ t = [s EXCEPT !.told = a.of]
    \/ /\ a.type = "message_stop" /\ a.index = 0
       /\ s.phase # "stopped" /\ s.open = {} /\ w.returned /\ Complete(w, s)
       /\ t = [s EXCEPT !.phase = "stopped"]
    \/ /\ a.type = "return" /\ w.returned /\ (s.phase = "stopped" \/ w.left) /\ t = s
    \/ /\ a.type = "throw" /\ a.of \in {"error", "userAbort"}
       /\ w.returned /\ s.phase # "stopped" /\ t = s

(* Queue q leads from reading s to reading t.                                   *)
Legal(w, q, s, t) ==
    /\ q \in Seq(Events)
    /\ \E path \in [0..Len(q) -> Readings] :
          /\ path[0] = s /\ path[Len(q)] = t
          /\ \A n \in 1..Len(q) : Says(w, path[n - 1], q[n], path[n])

-----------------------------------------------------------------------------
(* The invariant *)

(* The flags of the source. Only a call that has just got its block, or none,   *)
(* has the highest index, so the next one is free.                              *)
Taken == {k \in Calls : src.block[k] # 0}
Flags ==
    /\ ~src.started => ~src.text /\ src.open = <<>>
    /\ src.usage => ~src.text /\ src.open = <<>>
    /\ \A i, j \in 1..Len(src.open) : src.open[i] = src.open[j] => i = j
    /\ backend = "openai" /\ ~src.usage /\ ~src.returned => Taken \subseteq Range(src.open)
    /\ \A k \in Calls : src.block[k] <= Cardinality(Taken)
    /\ backend = "ollama" => /\ src.open = <<>> /\ Taken = {} /\ src.finish = NoFinish
                             /\ ~src.returned => ~src.usage /\ src.text = src.started
    /\ cleanup # {} => src.returned
    /\ \A k \in Sources : sent[k] <= chunks

(* Where the source stands when its queue is read.                              *)
OpenBlocks == {i \in Blocks : (i = 0 /\ src.text) \/ \E k \in Range(src.open) : src.block[k] = i}
Ready(t) ==
    /\ Complete(World, t)
    /\ t.phase = IF src.started THEN "started" ELSE "new"
    /\ t.open = OpenBlocks

(* What the client collected is what the events said.                           *)
Collected(s) ==
    /\ client.texts = s.count["text"]
    /\ \A k \in s.named : \E n \in ItemsOf(k) :
          ItemsOf(k) = {n} /\ Len(client.items[n].got) = s.count[k]
Matches(s) ==
    /\ ~client.overlap => Collected(s)
    /\ \A n \in 1..Newest : client.items[n].of \in Calls => client.items[n].of \in s.named
    /\ \A k \in Calls \ s.named : s.count[k] = 0
Reports(s) ==
    s.told # NoFinish =>
        /\ surface = "openai" => client.finish = ToFinish(s.told)
        /\ surface = "anthropic" => client.finish = s.told
        /\ surface = "responses" => stop = s.told
Told(s) == s.phase = heard.phase /\ s.open = heard.open /\ Matches(s) /\ Reports(s)

Reading ==
    \E s, t \in Readings :
        Legal(World, events, s, t) /\ Told(s) /\ (~src.returned => Ready(t))

(* The items the client has, and the newest one of every open block.            *)
Latest(n, i) == client.items[n].index = i /\ \A m \in (n+1)..Newest : client.items[m].index # i
Shown ==
    /\ \A n \in 1..Newest : Owns(World, client.items[n].of, client.items[n].index)
    /\ \A i \in heard.open : (surface = "openai" /\ i = 0) \/ \E n \in 1..Newest : Latest(n, i)
    /\ ~client.overlap => OwnFragments

(* The Responses translator's current item, while none was replaced.            *)
OneCurrent ==
    surface = "responses" /\ ~client.overlap =>
        heard.open = IF fsm = 0 THEN {} ELSE {client.items[fsm].index}

(* How a stream ends.                                                           *)
Ended ==
    /\ heard.phase = "stopped" => heard.open = {} /\ src.returned /\ client.ends = <<"completed">>
    /\ heard.phase # "stopped" /\ cleanup # {"error"} => client.ends = <<>>
    /\ cleanup = {"error"} =>
          client.ends \in {<<"completed">>, <<"failed">>} /\ heard.phase # "stopped" /\ ~aborted
    /\ cleanup = {"fine"} /\ client.ends = <<>> => aborted \/ surface = "anthropic"

IInv == TypeOK /\ Flags /\ (Running => Reading) /\ Shown /\ OneCurrent /\ Ended /\ Faithful

-----------------------------------------------------------------------------
(* Legal queues *)

(* The empty queue leads nowhere.                                               *)
LEMMA LegalStill ==
  ASSUME NEW w, NEW s \in Readings
  PROVE  Legal(w, <<>>, s, s)
<1> DEFINE path == [n \in 0..0 |-> s]
<1>1. path \in [0..Len(<<>>) -> Readings] /\ path[0] = s /\ path[Len(<<>>)] = s
  OBVIOUS
<1>2. \A n \in 1..Len(<<>>) : Says(w, path[n - 1], <<>>[n], path[n])
  OBVIOUS
<1>3. <<>> \in Seq(Events)
  OBVIOUS
<1> HIDE DEF path
<1> QED BY <1>1, <1>2, <1>3 DEF Legal

(* And it comes from nowhere else.                                              *)
LEMMA LegalEmpty ==
  ASSUME NEW w, NEW s, NEW t, Legal(w, <<>>, s, t)
  PROVE  s = t
<1>1. Len(<<>>) = 0
  OBVIOUS
<1> QED BY <1>1 DEF Legal

(* A queue of one event.                                                        *)
LEMMA LegalOne ==
  ASSUME NEW w, NEW s \in Readings, NEW t \in Readings, NEW a \in Events, Says(w, s, a, t)
  PROVE  Legal(w, <<a>>, s, t)
<1> DEFINE path == [n \in 0..1 |-> IF n = 0 THEN s ELSE t]
<1>1. Len(<<a>>) = 1 /\ <<a>>[1] = a /\ <<a>> \in Seq(Events)
  OBVIOUS
<1>2. path \in [0..1 -> Readings] /\ path[0] = s /\ path[1] = t
  OBVIOUS
<1> HIDE DEF path
<1>3. \A n \in 1..1 : Says(w, path[n - 1], <<a>>[n], path[n])
  <2> TAKE n \in 1..1
  <2>1. n = 1 /\ n - 1 = 0
    OBVIOUS
  <2> QED BY <2>1, <1>1, <1>2
<1> QED BY <1>1, <1>2, <1>3 DEF Legal

(* One queue after another.                                                     *)
LEMMA LegalJoin ==
  ASSUME NEW w, NEW p, NEW q, NEW r, NEW s, NEW t, Legal(w, p, r, s), Legal(w, q, s, t)
  PROVE  Legal(w, p \o q, r, t)
<1>1. p \in Seq(Events) /\ q \in Seq(Events)
  BY DEF Legal
<1>2. PICK f \in [0..Len(p) -> Readings] :
          /\ f[0] = r /\ f[Len(p)] = s
          /\ \A n \in 1..Len(p) : Says(w, f[n - 1], p[n], f[n])
  BY DEF Legal
<1>3. PICK g \in [0..Len(q) -> Readings] :
          /\ g[0] = s /\ g[Len(q)] = t
          /\ \A n \in 1..Len(q) : Says(w, g[n - 1], q[n], g[n])
  BY DEF Legal
<1>4. /\ p \o q \in Seq(Events) /\ Len(p \o q) = Len(p) + Len(q)
      /\ \A n \in 1..(Len(p) + Len(q)) : (p \o q)[n] = IF n <= Len(p) THEN p[n] ELSE q[n - Len(p)]
      /\ Len(p) \in Nat /\ Len(q) \in Nat
  BY <1>1
<1> DEFINE path == [n \in 0..(Len(p) + Len(q)) |-> IF n <= Len(p) THEN f[n] ELSE g[n - Len(p)]]
<1>5. path \in [0..(Len(p) + Len(q)) -> Readings]
  <2> SUFFICES ASSUME NEW n \in 0..(Len(p) + Len(q)) PROVE path[n] \in Readings
    OBVIOUS
  <2>1. CASE n <= Len(p)
    BY <2>1, <1>4
  <2>2. CASE ~(n <= Len(p))
    <3>1. n - Len(p) \in 0..Len(q)
      BY <2>2, <1>4
    <3> QED BY <3>1, <2>2
  <2> QED BY <2>1, <2>2
<1>6. path[0] = r
  BY <1>2, <1>4
<1>7. path[Len(p) + Len(q)] = t
  <2>1. CASE Len(q) = 0
    BY <2>1, <1>2, <1>3, <1>4
  <2>2. CASE Len(q) # 0
    <3>1. ~(Len(p) + Len(q) <= Len(p)) /\ (Len(p) + Len(q)) - Len(p) = Len(q)
      BY <2>2, <1>4
    <3> QED BY <3>1, <1>3, <1>4
  <2> QED BY <2>1, <2>2
<1>8. \A n \in 1..(Len(p) + Len(q)) : Says(w, path[n - 1], (p \o q)[n], path[n])
  <2> TAKE n \in 1..(Len(p) + Len(q))
  <2>1. CASE n <= Len(p)
    <3>1. n \in 1..Len(p) /\ n - 1 <= Len(p) /\ n - 1 \in 0..(Len(p) + Len(q))
      BY <2>1, <1>4
    <3>2. path[n - 1] = f[n - 1] /\ path[n] = f[n] /\ (p \o q)[n] = p[n]
      BY <3>1, <2>1, <1>4
    <3> QED BY <3>1, <3>2, <1>2
  <2>2. CASE ~(n <= Len(p))
    <3> DEFINE m == n - Len(p)
    <3>1. m \in 1..Len(q) /\ n - 1 \in 0..(Len(p) + Len(q))
      BY <2>2, <1>4
    <3>2. path[n] = g[m] /\ (p \o q)[n] = q[m]
      BY <2>2, <1>4
    <3>3. path[n - 1] = g[m - 1]
      <4>1. CASE n - 1 = Len(p)
        <5>1. m - 1 = 0 /\ path[n - 1] = f[Len(p)]
          BY <4>1, <3>1, <1>4
        <5> QED BY <5>1, <1>2, <1>3
      <4>2. CASE n - 1 # Len(p)
        <5>1. ~(n - 1 <= Len(p)) /\ (n - 1) - Len(p) = m - 1
          BY <4>2, <2>2, <1>4
        <5> QED BY <5>1, <3>1
      <4> QED BY <2>1, <4>1, <4>2
    <3> HIDE DEF m
    <3>4. Says(w, g[m - 1], q[m], g[m])
      BY <3>1, <1>3
    <3> QED BY <3>2, <3>3, <3>4
  <2> QED BY <2>1, <2>2
<1> HIDE DEF path
<1> QED BY <1>4, <1>5, <1>6, <1>7, <1>8 DEF Legal

(* An event in front of a queue.                                                *)
LEMMA LegalCons ==
  ASSUME NEW w, NEW s \in Readings, NEW m \in Readings, NEW t, NEW a \in Events, NEW q,
         Says(w, s, a, m), Legal(w, q, m, t)
  PROVE  Legal(w, <<a>> \o q, s, t)
BY LegalOne, LegalJoin

(* What pulling the head of a queue leaves.                                     *)
LEMMA LegalHead ==
  ASSUME NEW w, NEW q, NEW s, NEW t, Legal(w, q, s, t), q # <<>>
  PROVE  /\ Head(q) \in Events
         /\ \E m \in Readings : Says(w, s, Head(q), m) /\ Legal(w, Tail(q), m, t)
<1>1. q \in Seq(Events)
  BY DEF Legal
<1>2. /\ Len(q) \in Nat /\ Len(q) >= 1 /\ Head(q) = q[1] /\ Head(q) \in Events
      /\ Tail(q) \in Seq(Events) /\ Len(Tail(q)) = Len(q) - 1
      /\ \A n \in 1..(Len(q) - 1) : Tail(q)[n] = q[n + 1]
  BY <1>1
<1>3. PICK f \in [0..Len(q) -> Readings] :
          /\ f[0] = s /\ f[Len(q)] = t
          /\ \A n \in 1..Len(q) : Says(w, f[n - 1], q[n], f[n])
  BY DEF Legal
<1>4. f[1] \in Readings /\ Says(w, s, Head(q), f[1])
  <2>1. 1 \in 1..Len(q) /\ 1 - 1 = 0 /\ 1 \in 0..Len(q)
    BY <1>2
  <2>2. Says(w, f[1 - 1], q[1], f[1])
    BY <2>1, <1>3
  <2> QED BY <2>1, <2>2, <1>2, <1>3
<1> DEFINE path == [n \in 0..(Len(q) - 1) |-> f[n + 1]]
<1>5. path \in [0..(Len(q) - 1) -> Readings] /\ path[0] = f[1] /\ path[Len(q) - 1] = t
  <2>1. \A n \in 0..(Len(q) - 1) : n + 1 \in 0..Len(q)
    BY <1>2
  <2>2. 0 \in 0..(Len(q) - 1) /\ Len(q) - 1 \in 0..(Len(q) - 1) /\ (Len(q) - 1) + 1 = Len(q) /\ 0 + 1 = 1
    BY <1>2
  <2> QED BY <2>1, <2>2, <1>3
<1>6. \A n \in 1..(Len(q) - 1) : Says(w, path[n - 1], Tail(q)[n], path[n])
  <2> TAKE n \in 1..(Len(q) - 1)
  <2>1. /\ n + 1 \in 1..Len(q) /\ (n + 1) - 1 = n /\ (n - 1) + 1 = n
        /\ n - 1 \in 0..(Len(q) - 1) /\ n \in 0..(Len(q) - 1)
    BY <1>2
  <2>2. Says(w, f[(n + 1) - 1], q[n + 1], f[n + 1])
    BY <2>1, <1>3
  <2> QED BY <2>1, <2>2, <1>2
<1> HIDE DEF path
<1>7. Legal(w, Tail(q), f[1], t)
  BY <1>2, <1>5, <1>6 DEF Legal
<1> QED BY <1>2, <1>4, <1>7

(* A client that leaves makes no event illegal.                                 *)
LEMMA LegalLeft ==
  ASSUME NEW v, NEW w, NEW q, NEW s, NEW t, Legal(w, q, s, t),
         v.block = w.block, v.sent = w.sent, v.usage = w.usage, v.finish = w.finish,
         v.returned = w.returned, w.left => v.left
  PROVE  Legal(v, q, s, t)
<1>1. ASSUME NEW r, NEW a, NEW u, Says(w, r, a, u)
      PROVE  Says(v, r, a, u)
  BY <1>1 DEF Says, Owns, Complete
<1> QED BY <1>1 DEF Legal

-----------------------------------------------------------------------------
(* What the source yields *)

(* Blocks are numbers, the text's among them.                                   *)
LEMMA BlockNumbers == Cardinality(Calls) \in Nat /\ 0 \in Blocks /\ Blocks \subseteq Nat
BY StreamsAssumption, FS_CardinalityType DEF Blocks

(* The events of the source are events.                                         *)
LEMMA EventsAre ==
  /\ MessageStart \in Events /\ MessageStop \in Events /\ Return \in Events
  /\ Throw("error") \in Events /\ Throw("userAbort") \in Events
  /\ \A reason \in Reasons : MessageDelta(reason) \in Events
  /\ \A i \in Blocks : BlockStop(i) \in Events
  /\ \A i \in Blocks, k \in Sources : BlockStart(i, k) \in Events /\ BlockDelta(i, k) \in Events
BY BlockNumbers DEF Events, EventTypes, MessageStart, MessageStop, Return, Throw, MessageDelta,
   BlockStop, BlockStart, BlockDelta, Event

(* Two sequences of one element each.                                           *)
LEMMA PairOf ==
  ASSUME NEW a, NEW b
  PROVE  <<a>> \o <<b>> = <<a, b>>
<1>1. <<a>> \in Seq({a, b}) /\ <<b>> \in Seq({a, b}) /\ <<a, b>> \in Seq({a, b})
  OBVIOUS
<1>2. Len(<<a>>) = 1 /\ Len(<<b>>) = 1 /\ Len(<<a, b>>) = 2 /\ <<a>>[1] = a /\ <<b>>[1] = b
      /\ <<a, b>>[1] = a /\ <<a, b>>[2] = b
  OBVIOUS
<1>3. /\ <<a>> \o <<b>> \in Seq({a, b}) /\ Len(<<a>> \o <<b>>) = 1 + 1
      /\ \A i \in 1..(1 + 1) : (<<a>> \o <<b>>)[i] = IF i <= 1 THEN <<a>>[i] ELSE <<b>>[i - 1]
  BY <1>1, <1>2, ConcatProperties
<1>4. \A i \in 1..2 : (<<a>> \o <<b>>)[i] = <<a, b>>[i]
  <2>1. (<<a>> \o <<b>>)[1] = a /\ (<<a>> \o <<b>>)[2] = b
    BY <1>2, <1>3
  <2> QED BY <2>1, <1>2
<1>5. Len(<<a>> \o <<b>>) = 2
  BY <1>3
<1> QED BY <1>1, <1>2, <1>3, <1>4, <1>5, SeqEqual

(* The start of the message.                                                    *)
LEMMA YieldsStart ==
  ASSUME NEW w, NEW s \in Readings, s.phase = "new"
  PROVE  \E t \in Readings :
            /\ Legal(w, <<MessageStart>>, s, t)
            /\ t.phase = "started" /\ t.open = s.open /\ t.named = s.named
            /\ t.count = s.count /\ t.told = s.told
<1> DEFINE t == [s EXCEPT !.phase = "started"]
<1>1. /\ t \in Readings /\ t.phase = "started" /\ t.open = s.open /\ t.named = s.named
      /\ t.count = s.count /\ t.told = s.told
  BY DEF Readings
<1>2. Says(w, s, MessageStart, t)
  BY DEF Says, MessageStart, Event
<1> HIDE DEF t
<1>3. Legal(w, <<MessageStart>>, s, t)
  BY <1>1, <1>2, LegalOne, EventsAre
<1> QED BY <1>1, <1>3

(* The start of the message, if there was none.                                 *)
LEMMA YieldsStarted ==
  ASSUME NEW w, NEW s \in Readings, s.phase = IF src.started THEN "started" ELSE "new"
  PROVE  \E t \in Readings :
            /\ Legal(w, Started, s, t)
            /\ t.phase = "started" /\ t.open = s.open /\ t.named = s.named
            /\ t.count = s.count /\ t.told = s.told
<1>1. CASE src.started
  BY <1>1, LegalStill DEF Started
<1>2. CASE ~src.started
  BY <1>2, YieldsStart DEF Started
<1> QED BY <1>1, <1>2

(* The start of a call's block.                                                 *)
LEMMA YieldsBlock ==
  ASSUME NEW w, NEW s \in Readings, NEW i \in Blocks, NEW k \in Calls, Owns(w, k, i),
         s.phase = "started", i \notin s.open, k \notin s.named
  PROVE  \E t \in Readings :
            /\ Legal(w, <<BlockStart(i, k)>>, s, t)
            /\ t.phase = "started" /\ t.open = s.open \cup {i}
            /\ t.named = s.named \cup {k} /\ t.count = s.count /\ t.told = s.told
<1> DEFINE t == [s EXCEPT !.open = @ \cup {i}, !.named = @ \cup ({k} \cap Calls)]
<1>1. /\ t \in Readings /\ t.phase = "started" /\ t.open = s.open \cup {i}
      /\ t.named = s.named \cup {k} /\ t.count = s.count /\ t.told = s.told
  BY DEF Readings
<1>2. Says(w, s, BlockStart(i, k), t)
  BY DEF Says, BlockStart, Event
<1>3. BlockStart(i, k) \in Events
  BY EventsAre DEF Sources
<1> HIDE DEF t
<1>4. Legal(w, <<BlockStart(i, k)>>, s, t)
  BY <1>1, <1>2, <1>3, LegalOne
<1> QED BY <1>1, <1>4

(* The start of the text block.                                                 *)
LEMMA YieldsTextBlock ==
  ASSUME NEW w, NEW s \in Readings, s.phase = "started", 0 \notin s.open, "text" \notin s.named
  PROVE  \E t \in Readings :
            /\ Legal(w, <<BlockStart(0, "text")>>, s, t)
            /\ t.phase = "started" /\ t.open = s.open \cup {0}
            /\ t.named = s.named /\ t.count = s.count /\ t.told = s.told
<1> DEFINE t == [s EXCEPT !.open = @ \cup {0}, !.named = @ \cup ({"text"} \cap Calls)]
<1>1. {"text"} \cap Calls = {}
  BY StreamsAssumption
<1>2. /\ t \in Readings /\ t.phase = "started" /\ t.open = s.open \cup {0}
      /\ t.named = s.named /\ t.count = s.count /\ t.told = s.told
  BY <1>1, BlockNumbers DEF Readings
<1>3. Says(w, s, BlockStart(0, "text"), t)
  BY DEF Says, BlockStart, Event, Owns
<1>4. BlockStart(0, "text") \in Events
  BY EventsAre, BlockNumbers DEF Sources
<1> HIDE DEF t
<1>5. Legal(w, <<BlockStart(0, "text")>>, s, t)
  BY <1>2, <1>3, <1>4, LegalOne
<1> QED BY <1>2, <1>5

(* Fragments counted.                                                           *)
Counted(count, k, args) == [count EXCEPT ![k] = @ + args]

(* A fragment of a call's arguments, or none.                                   *)
Deltas(i, k, args) == [n \in 1..args |-> BlockDelta(i, k)]

(* A fragment, or none.                                                         *)
LEMMA YieldsDeltas ==
  ASSUME NEW w, NEW s \in Readings, NEW i \in Blocks, NEW k \in Sources, Owns(w, k, i), i \in s.open,
         NEW args \in {0, 1}
  PROVE  \E t \in Readings :
            /\ Legal(w, Deltas(i, k, args), s, t)
            /\ t.phase = s.phase /\ t.open = s.open /\ t.named = s.named
            /\ t.count = Counted(s.count, k, args) /\ t.told = s.told
<1> DEFINE q == Deltas(i, k, args)
<1> DEFINE t == [s EXCEPT !.count[k] = @ + args]
<1>1. /\ t \in Readings /\ t.phase = s.phase /\ t.open = s.open /\ t.named = s.named
      /\ t.count = Counted(s.count, k, args) /\ t.told = s.told
  BY DEF Readings, Counted
<1>2. CASE args = 0
  <2>1. q = <<>>
    BY <1>2 DEF Deltas
  <2>2. t = s
    BY <1>2 DEF Readings
  <2> HIDE DEF q, t
  <2>3. Legal(w, q, s, t)
    BY <2>1, <2>2, LegalStill
  <2> QED BY <1>1, <2>3 DEF q
<1>3. CASE args = 1
  <2>1. q = <<BlockDelta(i, k)>>
    BY <1>3 DEF Deltas
  <2>2. Says(w, s, BlockDelta(i, k), t)
    BY <1>3 DEF Says, BlockDelta, Event
  <2> HIDE DEF q, t
  <2>3. Legal(w, q, s, t)
    BY <1>1, <2>1, <2>2, LegalOne, EventsAre
  <2> QED BY <1>1, <2>3 DEF q
<1> QED BY <1>2, <1>3

(* A fragment of the text.                                                      *)
LEMMA YieldsText ==
  ASSUME NEW w, NEW s \in Readings, 0 \in s.open
  PROVE  \E t \in Readings :
            /\ Legal(w, <<BlockDelta(0, "text")>>, s, t)
            /\ t.phase = s.phase /\ t.open = s.open /\ t.named = s.named
            /\ t.count = [s.count EXCEPT !["text"] = @ + 1] /\ t.told = s.told
<1> DEFINE t == [s EXCEPT !.count["text"] = @ + 1]
<1>1. /\ t \in Readings /\ t.phase = s.phase /\ t.open = s.open /\ t.named = s.named
      /\ t.count = [s.count EXCEPT !["text"] = @ + 1] /\ t.told = s.told
  BY DEF Readings, Sources
<1>2. Says(w, s, BlockDelta(0, "text"), t)
  BY DEF Says, BlockDelta, Event, Owns
<1>3. BlockDelta(0, "text") \in Events
  BY EventsAre, BlockNumbers DEF Sources
<1> HIDE DEF t
<1>4. Legal(w, <<BlockDelta(0, "text")>>, s, t)
  BY <1>1, <1>2, <1>3, LegalOne
<1> QED BY <1>1, <1>4

(* The end of a block.                                                          *)
LEMMA YieldsStop ==
  ASSUME NEW w, NEW s \in Readings, NEW i \in Blocks, i \in s.open
  PROVE  \E t \in Readings :
            /\ Legal(w, <<BlockStop(i)>>, s, t)
            /\ t.phase = s.phase /\ t.open = s.open \ {i} /\ t.named = s.named
            /\ t.count = s.count /\ t.told = s.told
<1> DEFINE t == [s EXCEPT !.open = @ \ {i}]
<1>1. /\ t \in Readings /\ t.phase = s.phase /\ t.open = s.open \ {i} /\ t.named = s.named
      /\ t.count = s.count /\ t.told = s.told
  BY DEF Readings
<1>2. Says(w, s, BlockStop(i), t)
  BY DEF Says, BlockStop, Event
<1> HIDE DEF t
<1>3. Legal(w, <<BlockStop(i)>>, s, t)
  BY <1>1, <1>2, LegalOne, EventsAre
<1> QED BY <1>1, <1>3

(* The message's delta.                                                         *)
LEMMA YieldsMessageDelta ==
  ASSUME NEW w, NEW s \in Readings, NEW reason \in Reasons, s.phase = "started", s.open = {}
  PROVE  \E t \in Readings :
            /\ Legal(w, <<MessageDelta(reason)>>, s, t)
            /\ t.phase = "started" /\ t.open = {} /\ t.named = s.named
            /\ t.count = s.count /\ t.told = reason
<1> DEFINE t == [s EXCEPT !.told = reason]
<1>1. /\ t \in Readings /\ t.phase = "started" /\ t.open = {} /\ t.named = s.named
      /\ t.count = s.count /\ t.told = reason
  BY DEF Readings
<1>2. Says(w, s, MessageDelta(reason), t)
  BY DEF Says, MessageDelta, Event
<1> HIDE DEF t
<1>3. Legal(w, <<MessageDelta(reason)>>, s, t)
  BY <1>1, <1>2, LegalOne, EventsAre
<1> QED BY <1>1, <1>3

(* The end of the message and of the generator.                                 *)
LEMMA YieldsEnd ==
  ASSUME NEW w, NEW s \in Readings, s.phase # "stopped", s.open = {}, w.returned, Complete(w, s)
  PROVE  \E t \in Readings : Legal(w, <<MessageStop, Return>>, s, t)
<1> DEFINE t == [s EXCEPT !.phase = "stopped"]
<1>1. t \in Readings /\ t.phase = "stopped"
  BY DEF Readings
<1>2. Says(w, s, MessageStop, t)
  BY DEF Says, MessageStop, Event
<1> HIDE DEF t
<1>3. Says(w, t, Return, t)
  BY <1>1 DEF Says, Return, Event
<1>4. Legal(w, <<MessageStop>>, s, t) /\ Legal(w, <<Return>>, t, t)
  BY <1>1, <1>2, <1>3, LegalOne, EventsAre
<1>5. Legal(w, <<MessageStop>> \o <<Return>>, s, t)
  BY <1>4, LegalJoin
<1>6. <<MessageStop>> \o <<Return>> = <<MessageStop, Return>>
  BY PairOf
<1> QED BY <1>1, <1>5, <1>6

(* A reading with other open blocks.                                            *)
WithOpen(s, blocks) == [s EXCEPT !.open = blocks]

(* Nothing else changes.                                                        *)
LEMMA WithOpenIs ==
  ASSUME NEW s \in Readings, NEW blocks \in SUBSET Blocks
  PROVE  /\ WithOpen(s, blocks) \in Readings
         /\ WithOpen(s, blocks).open = blocks
         /\ WithOpen(s, blocks).phase = s.phase
         /\ WithOpen(s, blocks).named = s.named
         /\ WithOpen(s, blocks).count = s.count
         /\ WithOpen(s, blocks).told = s.told
         /\ s.open = blocks => WithOpen(s, blocks) = s
BY DEF WithOpen, Readings

(* The end of one of them.                                                      *)
LEMMA WithOpenStops ==
  ASSUME NEW w, NEW s \in Readings, NEW blocks \in SUBSET Blocks, NEW i \in blocks
  PROVE  Says(w, WithOpen(s, blocks), BlockStop(i), WithOpen(s, blocks \ {i}))
<1>1. [WithOpen(s, blocks) EXCEPT !.open = @ \ {i}] = WithOpen(s, blocks \ {i})
  BY DEF WithOpen, Readings
<1> QED BY <1>1, WithOpenIs DEF Says, BlockStop, Event

(* The ends of a list of different blocks, one after another.                   *)
LEMMA YieldsStops ==
  ASSUME NEW w, NEW s \in Readings, NEW b \in Seq(Blocks), s.open = {b[n] : n \in 1..Len(b)},
         \A m, n \in 1..Len(b) : b[m] = b[n] => m = n
  PROVE  Legal(w, [n \in 1..Len(b) |-> BlockStop(b[n])], s, WithOpen(s, {}))
<1> DEFINE rest == [n \in 0..Len(b) |-> {b[m] : m \in (n + 1)..Len(b)}]
           path == [n \in 0..Len(b) |-> WithOpen(s, rest[n])]
           q == [n \in 1..Len(b) |-> BlockStop(b[n])]
<1>1. Len(b) \in Nat /\ \A n \in 1..Len(b) : b[n] \in Blocks
  OBVIOUS
<1>2. q \in Seq(Events) /\ Len(q) = Len(b)
  BY <1>1, EventsAre
<1>3. \A n \in 0..Len(b) : rest[n] \subseteq Blocks
  BY <1>1
<1>4. path \in [0..Len(b) -> Readings]
  <2> SUFFICES ASSUME NEW n \in 0..Len(b) PROVE WithOpen(s, rest[n]) \in Readings
    OBVIOUS
  <2> HIDE DEF rest
  <2> QED BY <1>3, WithOpenIs
<1>5. \A n \in 0..Len(b) : path[n] = WithOpen(s, rest[n])
  OBVIOUS
<1>6. 0 \in 0..Len(b) /\ Len(b) \in 0..Len(b) /\ rest[0] = s.open /\ rest[Len(b)] = {}
  BY <1>1
<1> HIDE DEF path
<1>7. path[0] = s /\ path[Len(b)] = WithOpen(s, {})
  <2>1. path[0] = WithOpen(s, s.open) /\ path[Len(b)] = WithOpen(s, {})
    BY <1>5, <1>6
  <2>2. s.open \in SUBSET Blocks
    BY DEF Readings
  <2> QED BY <2>1, <2>2, WithOpenIs
<1>8. \A n \in 1..Len(b) : Says(w, path[n - 1], q[n], path[n])
  <2> TAKE n \in 1..Len(b)
  <2>1. n - 1 \in 0..Len(b) /\ n \in 0..Len(b) /\ (n - 1) + 1 = n
    BY <1>1
  <2>2. b[n] \in rest[n - 1]
    BY <2>1, <1>1
  <2>3. rest[n] = rest[n - 1] \ {b[n]}
    <3>1. ASSUME NEW i \in rest[n] PROVE i \in rest[n - 1] /\ i # b[n]
      <4>1. PICK m \in (n + 1)..Len(b) : i = b[m]
        BY <2>1
      <4>2. m \in n..Len(b) /\ m \in 1..Len(b) /\ m # n
        BY <1>1
      <4> QED BY <4>1, <4>2, <2>1
    <3>2. ASSUME NEW i \in rest[n - 1], i # b[n] PROVE i \in rest[n]
      <4>1. PICK m \in n..Len(b) : i = b[m]
        BY <2>1, <3>2
      <4>2. m \in (n + 1)..Len(b)
        BY <4>1, <3>2, <1>1
      <4> QED BY <2>1, <4>1, <4>2
    <3> HIDE DEF rest
    <3> QED BY <3>1, <3>2
  <2> HIDE DEF rest
  <2>4. path[n - 1] = WithOpen(s, rest[n - 1]) /\ path[n] = WithOpen(s, rest[n])
    BY <1>5, <2>1
  <2>5. rest[n - 1] \in SUBSET Blocks
    BY <1>3, <2>1
  <2>6. q[n] = BlockStop(b[n])
    OBVIOUS
  <2>7. Says(w, WithOpen(s, rest[n - 1]), BlockStop(b[n]), WithOpen(s, rest[n - 1] \ {b[n]}))
    BY <2>2, <2>5, WithOpenStops
  <2> HIDE DEF q
  <2> QED BY <2>3, <2>4, <2>6, <2>7
<1> HIDE DEF q
<1>9. Legal(w, q, s, WithOpen(s, {}))
  BY <1>2, <1>4, <1>7, <1>8 DEF Legal
<1> QED BY <1>9 DEF q

(* The text block is closed, if it is open.                                     *)
LEMMA YieldsClosing ==
  ASSUME NEW w, NEW s \in Readings, 0 \in s.open <=> src.text
  PROVE  \E t \in Readings :
            /\ Legal(w, Closing, s, t)
            /\ t.phase = s.phase /\ t.open = s.open \ {0} /\ t.named = s.named
            /\ t.count = s.count /\ t.told = s.told
<1>1. CASE src.text
  BY <1>1, YieldsStop, BlockNumbers DEF Closing
<1>2. CASE ~src.text
  <2>1. s.open \ {0} = s.open
    BY <1>2
  <2> QED BY <1>2, <2>1, LegalStill DEF Closing
<1> QED BY <1>1, <1>2

(* The open blocks, by the flags of the source.                                 *)
LEMMA OpenBlocksAre ==
  ASSUME TypeOK
  PROVE  /\ 0 \in OpenBlocks <=> src.text
         /\ OpenBlocks \ {0} = {src.block[src.open[n]] : n \in 1..Len(src.open)}
         /\ OpenBlocks \in SUBSET Blocks
<1>1. /\ src.open \in Seq(Calls) /\ src.block \in [Calls -> Blocks]
      /\ \A k \in Range(src.open) : src.block[k] # 0
  BY DEF TypeOK
<1>2. Range(src.open) = {src.open[n] : n \in 1..Len(src.open)}
  BY <1>1 DEF Range
<1>3. \A n \in 1..Len(src.open) : src.open[n] \in Calls
  BY <1>1
<1> QED BY <1>1, <1>2, <1>3, BlockNumbers DEF OpenBlocks

(* All blocks are closed.                                                       *)
LEMMA YieldsClosingAll ==
  ASSUME TypeOK, Flags, NEW w, NEW s \in Readings, s.open = OpenBlocks
  PROVE  \E t \in Readings :
            /\ Legal(w, ClosingAll, s, t)
            /\ t.phase = s.phase /\ t.open = {} /\ t.named = s.named
            /\ t.count = s.count /\ t.told = s.told
<1>1. PICK r \in Readings :
            /\ Legal(w, Closing, s, r)
            /\ r.phase = s.phase /\ r.open = s.open \ {0} /\ r.named = s.named
            /\ r.count = s.count /\ r.told = s.told
  BY YieldsClosing, OpenBlocksAre
<1> DEFINE b == [n \in 1..Len(src.open) |-> src.block[src.open[n]]]
<1>2. /\ src.open \in Seq(Calls) /\ src.block \in [Calls -> Blocks]
      /\ \A k \in Range(src.open) : src.block[k] # 0
      /\ \A j, k \in Calls : src.block[j] = src.block[k] /\ j # k => src.block[j] = 0
  BY DEF TypeOK
<1>3. Len(src.open) \in Nat /\ \A n \in 1..Len(src.open) : src.open[n] \in Calls
  BY <1>2
<1>4. b \in Seq(Blocks) /\ Len(b) = Len(src.open)
  BY <1>2, <1>3
<1>5. \A n \in 1..Len(src.open) : b[n] = src.block[src.open[n]] /\ b[n] # 0
  BY <1>2, <1>3 DEF Range
<1>6. \A m, n \in 1..Len(b) : b[m] = b[n] => m = n
  <2> TAKE m, n \in 1..Len(b)
  <2> HAVE b[m] = b[n]
  <2>1. m \in 1..Len(src.open) /\ n \in 1..Len(src.open)
    BY <1>4
  <2> HIDE DEF b
  <2>2. src.open[m] = src.open[n]
    BY <2>1, <1>2, <1>3, <1>5
  <2> QED BY <2>1, <2>2 DEF Flags
<1>7. r.open = {b[n] : n \in 1..Len(b)}
  <2>1. r.open = {src.block[src.open[n]] : n \in 1..Len(src.open)}
    BY <1>1, OpenBlocksAre
  <2> QED BY <2>1, <1>4
<1>8. ClosingAll = Closing \o [n \in 1..Len(b) |-> BlockStop(b[n])]
  <2>1. [n \in 1..Len(src.open) |-> BlockStop(src.block[src.open[n]])]
           = [n \in 1..Len(b) |-> BlockStop(b[n])]
    BY <1>4
  <2> HIDE DEF b
  <2> QED BY <2>1 DEF ClosingAll
<1> HIDE DEF b
<1>9. Legal(w, [n \in 1..Len(b) |-> BlockStop(b[n])], r, WithOpen(r, {}))
  BY <1>4, <1>6, <1>7, YieldsStops
<1>10. Legal(w, ClosingAll, s, WithOpen(r, {}))
  BY <1>1, <1>8, <1>9, LegalJoin
<1>11. {} \in SUBSET Blocks
  OBVIOUS
<1> QED BY <1>1, <1>10, <1>11, WithOpenIs

-----------------------------------------------------------------------------
(* The steps of the source *)

(* The source is resumed when its queue is read: the reading is what it says.   *)
LEMMA Resumes ==
  ASSUME Reading, Resumed
  PROVE  \E s \in Readings : Told(s) /\ Ready(s)
<1>1. PICK s \in Readings, t \in Readings :
         Legal(World, events, s, t) /\ Told(s) /\ (~src.returned => Ready(t))
  BY DEF Reading
<1>2. s = t
  BY <1>1, LegalEmpty DEF Resumed
<1> QED BY <1>1, <1>2 DEF Resumed

(* What is ready, in terms of the flags.                                        *)
LEMMA ReadyIs ==
  ASSUME TypeOK, NEW s \in Readings, Ready(s)
  PROVE  /\ s.phase = IF src.started THEN "started" ELSE "new"
         /\ s.open = OpenBlocks /\ s.count = sent /\ s.named = Taken
         /\ src.usage => s.told = ToStop(src.finish)
         /\ "text" \notin s.named /\ Taken \subseteq Calls
BY StreamsAssumption DEF Ready, Complete, World, Taken

(* A text chunk.                                                                *)
LEMMA TextChunkReads ==
  ASSUME TypeOK, Flags, NEW s \in Readings, Ready(s), TextChunk
  PROVE  \E t \in Readings : Legal(World', events', s, t) /\ Ready(t)'
<1> DEFINE w == World'
<1>1. /\ src' = [src EXCEPT !.started = TRUE, !.text = TRUE]
      /\ sent' = [sent EXCEPT !["text"] = @ + 1] /\ ~src.usage
      /\ events' = (Started \o (IF src.text THEN <<>> ELSE <<BlockStart(0, "text")>>))
                     \o <<BlockDelta(0, "text")>>
  BY DEF TextChunk, Arrives, Yield
<1>2. PICK r \in Readings :
            /\ Legal(w, Started, s, r)
            /\ r.phase = "started" /\ r.open = s.open /\ r.named = s.named
            /\ r.count = s.count /\ r.told = s.told
  <2> HIDE DEF w
  <2> QED BY YieldsStarted, ReadyIs
<1>3. \E u \in Readings :
            /\ Legal(w, IF src.text THEN <<>> ELSE <<BlockStart(0, "text")>>, r, u)
            /\ u.phase = "started" /\ u.open = s.open \cup {0} /\ u.named = s.named
            /\ u.count = s.count /\ u.told = s.told
  <2> HIDE DEF w
  <2>1. CASE src.text
    <3>1. r.open = s.open \cup {0}
      BY <2>1, <1>2, ReadyIs, OpenBlocksAre
    <3> QED BY <2>1, <3>1, <1>2, LegalStill
  <2>2. CASE ~src.text
    <3>1. 0 \notin r.open /\ "text" \notin r.named /\ r.phase = "started"
      BY <2>2, <1>2, ReadyIs, OpenBlocksAre
    <3>2. PICK u \in Readings :
            /\ Legal(w, <<BlockStart(0, "text")>>, r, u)
            /\ u.phase = "started" /\ u.open = r.open \cup {0}
            /\ u.named = r.named /\ u.count = r.count /\ u.told = r.told
      BY <3>1, YieldsTextBlock
    <3> QED BY <2>2, <3>2, <1>2
  <2> QED BY <2>1, <2>2
<1>4. PICK u \in Readings :
            /\ Legal(w, IF src.text THEN <<>> ELSE <<BlockStart(0, "text")>>, r, u)
            /\ u.phase = "started" /\ u.open = s.open \cup {0} /\ u.named = s.named
            /\ u.count = s.count /\ u.told = s.told
  BY <1>3
<1>5. PICK t \in Readings :
            /\ Legal(w, <<BlockDelta(0, "text")>>, u, t)
            /\ t.phase = u.phase /\ t.open = u.open /\ t.named = u.named
            /\ t.count = [u.count EXCEPT !["text"] = @ + 1] /\ t.told = u.told
  <2> HIDE DEF w
  <2>1. 0 \in u.open
    BY <1>4
  <2> QED BY <2>1, YieldsText
<1>6. Legal(w, events', s, t)
  <2> HIDE DEF w
  <2> QED BY <1>1, <1>2, <1>4, <1>5, LegalJoin
<1>7. Ready(t)'
  <2>1. t.count = sent' /\ t.phase = "started" /\ t.named = Taken /\ t.open = OpenBlocks \cup {0}
    BY <1>1, <1>4, <1>5, ReadyIs
  <2>2. src'.started /\ src'.block = src.block /\ src'.open = src.open /\ ~src'.usage /\ src'.text
    BY <1>1 DEF TypeOK
  <2>3. OpenBlocks' = OpenBlocks \cup {0}
    BY <2>2, BlockNumbers DEF OpenBlocks
  <2> QED BY <2>1, <2>2, <2>3 DEF Ready, Complete, World, Taken
<1> QED BY <1>6, <1>7

(* A chunk that only starts the message.                                        *)
LEMMA StartReads ==
  ASSUME TypeOK, Flags, NEW s \in Readings, Ready(s), events' = Started, sent' = sent, ~src.usage,
         src'.started, src'.text = src.text, src'.block = src.block, src'.open = src.open,
         src'.usage = src.usage
  PROVE  \E t \in Readings : Legal(World', events', s, t) /\ Ready(t)'
<1> DEFINE w == World'
<1>1. PICK t \in Readings :
            /\ Legal(w, Started, s, t)
            /\ t.phase = "started" /\ t.open = s.open /\ t.named = s.named
            /\ t.count = s.count /\ t.told = s.told
  <2> HIDE DEF w
  <2> QED BY YieldsStarted, ReadyIs
<1>2. Ready(t)'
  <2>1. t.count = sent' /\ t.phase = "started" /\ t.named = Taken /\ t.open = OpenBlocks
    BY <1>1, ReadyIs
  <2>2. OpenBlocks' = OpenBlocks
    BY DEF OpenBlocks
  <2> QED BY <2>1, <2>2 DEF Ready, Complete, World, Taken
<1> QED BY <1>1, <1>2

(* A call's chunk without its name.                                             *)
LEMMA UnnamedChunkReads ==
  ASSUME TypeOK, Flags, NEW s \in Readings, Ready(s), UnnamedChunk
  PROVE  \E t \in Readings : Legal(World', events', s, t) /\ Ready(t)'
<1>1. /\ events' = Started /\ sent' = sent /\ ~src.usage
      /\ src' = [src EXCEPT !.started = TRUE]
  BY DEF UnnamedChunk, Arrives, Yield
<1>2. /\ src'.started /\ src'.text = src.text /\ src'.block = src.block /\ src'.open = src.open
      /\ src'.usage = src.usage
  BY <1>1 DEF TypeOK
<1> QED BY <1>1, <1>2, StartReads

(* The finish reason.                                                           *)
LEMMA FinishChunkReads ==
  ASSUME TypeOK, Flags, NEW s \in Readings, Ready(s), NEW f \in Finishes, FinishChunk(f)
  PROVE  \E t \in Readings : Legal(World', events', s, t) /\ Ready(t)'
<1>1. /\ events' = Started /\ sent' = sent /\ ~src.usage
      /\ src' = [src EXCEPT !.started = TRUE, !.finish = f]
  BY DEF FinishChunk, Arrives, Yield
<1>2. /\ src'.started /\ src'.text = src.text /\ src'.block = src.block /\ src'.open = src.open
      /\ src'.usage = src.usage
  BY <1>1 DEF TypeOK
<1> QED BY <1>1, <1>2, StartReads

(* The usage chunk.                                                             *)
LEMMA UsageChunkReads ==
  ASSUME TypeOK, Flags, NEW s \in Readings, Ready(s), UsageChunk
  PROVE  \E t \in Readings : Legal(World', events', s, t) /\ Ready(t)'
<1> DEFINE w == World'
<1>1. /\ events' = (Started \o ClosingAll) \o <<MessageDelta(ToStop(src.finish))>> /\ sent' = sent
      /\ src' = [src EXCEPT !.started = TRUE, !.text = FALSE, !.open = <<>>, !.usage = TRUE]
  BY DEF UsageChunk, Arrives, Yield
<1>2. PICK r \in Readings :
            /\ Legal(w, Started, s, r)
            /\ r.phase = "started" /\ r.open = s.open /\ r.named = s.named
            /\ r.count = s.count /\ r.told = s.told
  <2> HIDE DEF w
  <2> QED BY YieldsStarted, ReadyIs
<1>3. PICK u \in Readings :
            /\ Legal(w, ClosingAll, r, u)
            /\ u.phase = r.phase /\ u.open = {} /\ u.named = r.named
            /\ u.count = r.count /\ u.told = r.told
  <2> HIDE DEF w
  <2>1. r.open = OpenBlocks
    BY <1>2, ReadyIs
  <2> QED BY <2>1, YieldsClosingAll
<1>4. PICK t \in Readings :
            /\ Legal(w, <<MessageDelta(ToStop(src.finish))>>, u, t)
            /\ t.phase = "started" /\ t.open = {} /\ t.named = u.named
            /\ t.count = u.count /\ t.told = ToStop(src.finish)
  <2> HIDE DEF w
  <2>1. ToStop(src.finish) \in Reasons
    BY DEF ToStop, Reasons
  <2>2. u.phase = "started"
    BY <1>2, <1>3
  <2> QED BY <1>3, <2>1, <2>2, YieldsMessageDelta
<1>5. Legal(w, events', s, t)
  <2> HIDE DEF w
  <2> QED BY <1>1, <1>2, <1>3, <1>4, LegalJoin
<1>6. Ready(t)'
  <2>1. /\ t.count = sent' /\ t.phase = "started" /\ t.named = Taken /\ t.open = {}
        /\ t.told = ToStop(src.finish)
    BY <1>1, <1>2, <1>3, <1>4, ReadyIs
  <2>2. /\ src'.started /\ src'.block = src.block /\ src'.open = <<>> /\ ~src'.text
        /\ src'.finish = src.finish
    BY <1>1 DEF TypeOK
  <2>3. OpenBlocks' = {}
    BY <2>2 DEF OpenBlocks, Range
  <2> QED BY <2>1, <2>2, <2>3 DEF Ready, Complete, World, Taken
<1> QED BY <1>5, <1>6

(* The chunks end.                                                              *)
LEMMA ChunksEndReads ==
  ASSUME TypeOK, Flags, NEW s \in Readings, Ready(s), ChunksEnd
  PROVE  src'.returned /\ \E t \in Readings : Legal(World', events', s, t)
<1> DEFINE w == World'
<1>1. /\ events' = ClosingAll \o <<MessageStop, Return>> /\ sent' = sent
      /\ src' = [src EXCEPT !.text = FALSE, !.open = <<>>, !.returned = TRUE]
  BY DEF ChunksEnd, Yield
<1>2. PICK u \in Readings :
            /\ Legal(w, ClosingAll, s, u)
            /\ u.phase = s.phase /\ u.open = {} /\ u.named = s.named
            /\ u.count = s.count /\ u.told = s.told
  <2> HIDE DEF w
  <2>1. s.open = OpenBlocks
    BY ReadyIs
  <2> QED BY <2>1, YieldsClosingAll
<1>3. /\ src'.returned /\ src'.block = src.block /\ src'.usage = src.usage
      /\ src'.finish = src.finish
  BY <1>1 DEF TypeOK
<1>4. w.returned /\ Complete(w, u)
  BY <1>1, <1>2, <1>3, ReadyIs DEF Complete, World, Taken
<1>5. u.phase # "stopped"
  BY <1>2, ReadyIs
<1>6. PICK t \in Readings : Legal(w, <<MessageStop, Return>>, u, t)
  <2> HIDE DEF w
  <2> QED BY <1>2, <1>4, <1>5, YieldsEnd
<1>7. Legal(w, events', s, t)
  <2> HIDE DEF w
  <2> QED BY <1>1, <1>2, <1>6, LegalJoin
<1> QED BY <1>3, <1>7

(* A read fails.                                                                *)
LEMMA FailureReads ==
  ASSUME NEW s \in Readings, s.phase # "stopped", NEW error \in {"error", "userAbort"},
         src'.returned, events' = <<Throw(error)>>
  PROVE  \E t \in Readings : Legal(World', events', s, t)
<1>1. Says(World', s, Throw(error), s)
  BY DEF Says, Throw, Event, World
<1>2. Throw(error) \in Events
  BY EventsAre
<1> DEFINE w == World'
<1> HIDE DEF w
<1>3. ASSUME Says(w, s, Throw(error), s)
      PROVE  Legal(w, <<Throw(error)>>, s, s)
  BY <1>2, <1>3, LegalOne
<1>4. Legal(World', <<Throw(error)>>, s, s)
  BY <1>1, <1>3 DEF w
<1> QED BY <1>4

(* The next block index is free, and there is one for every call.               *)
LEMMA NextBlockIs ==
  ASSUME TypeOK, Flags, NEW k \in Calls, k \notin Taken
  PROVE  /\ NextBlock \in Blocks /\ NextBlock # 0
         /\ \A j \in Calls : src.block[j] < NextBlock
         /\ Cardinality(Taken \cup {k}) = NextBlock
<1>1. IsFiniteSet(Calls) /\ Taken \subseteq Calls
  BY StreamsAssumption DEF Taken
<1>2. IsFiniteSet(Taken) /\ Cardinality(Taken) \in Nat
  BY <1>1, FS_Subset, FS_CardinalityType
<1>3. Cardinality(Taken \cup {k}) = Cardinality(Taken) + 1
  BY <1>2, FS_AddElement
<1>4. Cardinality(Taken \cup {k}) <= Cardinality(Calls)
  <2>1. Taken \cup {k} \subseteq Calls
    BY <1>1
  <2> QED BY <1>1, <2>1, FS_Subset
<1>5. NextBlock = Cardinality(Taken) + 1
  BY DEF NextBlock, Taken
<1>6. \A j \in Calls : src.block[j] \in Nat /\ src.block[j] <= Cardinality(Taken)
  <2>1. \A j \in Calls : src.block[j] \in Blocks
    BY DEF TypeOK
  <2> QED BY <2>1, BlockNumbers DEF Flags
<1> QED BY <1>2, <1>3, <1>4, <1>5, <1>6, BlockNumbers DEF Blocks

(* A chunk of a call that is open.                                              *)
LEMMA OpenCallReads ==
  ASSUME TypeOK, Flags, NEW s \in Readings, Ready(s), NEW k \in Calls, NEW args \in {0, 1},
         k \in Range(src.open), CallChunk(k, args)
  PROVE  \E t \in Readings : Legal(World', events', s, t) /\ Ready(t)'
<1> DEFINE w == World'
           i == src.block[k]
<1>1. i \in Blocks /\ i # 0 /\ i \in OpenBlocks /\ src.block \in [Calls -> Blocks] /\ k \in Sources
  BY DEF TypeOK, OpenBlocks, Sources
<1>2. /\ sent' = [sent EXCEPT ![k] = @ + args] /\ ~src.usage
      /\ src' = [src EXCEPT !.started = TRUE, !.block[k] = i, !.text = @ /\ TRUE, !.open = @]
      /\ events' = (Started \o <<>>) \o Deltas(i, k, args)
  BY <1>1 DEF CallChunk, Arrives, Yield, Deltas
<1>3. /\ src'.started /\ src'.text = src.text /\ src'.block = src.block /\ src'.open = src.open
      /\ src'.usage = src.usage
  BY <1>1, <1>2 DEF TypeOK
<1>4. Owns(w, k, i)
  BY <1>1, <1>3, StreamsAssumption DEF Owns, World
<1> HIDE DEF i
<1>5. PICK r \in Readings :
            /\ Legal(w, Started, s, r)
            /\ r.phase = "started" /\ r.open = s.open /\ r.named = s.named
            /\ r.count = s.count /\ r.told = s.told
  <2> HIDE DEF w
  <2> QED BY YieldsStarted, ReadyIs
<1>6. Legal(w, Started \o <<>>, s, r)
  <2> HIDE DEF w
  <2> QED BY <1>5, LegalStill, LegalJoin
<1>7. PICK t \in Readings :
            /\ Legal(w, Deltas(i, k, args), r, t)
            /\ t.phase = r.phase /\ t.open = r.open /\ t.named = r.named
            /\ t.count = Counted(r.count, k, args) /\ t.told = r.told
  <2> HIDE DEF w
  <2>1. i \in r.open /\ k \in Sources
    BY <1>1, <1>5, ReadyIs
  <2>2. \A b \in Blocks : Owns(w, k, b) /\ b \in r.open =>
           \E t \in Readings :
              /\ Legal(w, Deltas(b, k, args), r, t)
              /\ t.phase = r.phase /\ t.open = r.open /\ t.named = r.named
              /\ t.count = Counted(r.count, k, args) /\ t.told = r.told
    BY <2>1, YieldsDeltas
  <2> QED BY <1>1, <1>4, <2>1, <2>2
<1>8. Legal(w, events', s, t)
  <2> HIDE DEF w
  <2> QED BY <1>2, <1>6, <1>7, LegalJoin
<1>9. Ready(t)'
  <2>1. t.count = sent' /\ t.phase = "started" /\ t.named = Taken /\ t.open = OpenBlocks
    BY <1>2, <1>5, <1>7, ReadyIs DEF Counted
  <2>2. OpenBlocks' = OpenBlocks
    BY <1>3 DEF OpenBlocks
  <2> QED BY <1>2, <1>3, <2>1, <2>2 DEF Ready, Complete, World, Taken
<1> QED BY <1>8, <1>9

(* What the first chunk of a call does to the flags.                            *)
LEMMA NewCallFlags ==
  ASSUME TypeOK, Flags, NEW k \in Calls, NEW args \in {0, 1}, backend = "openai",
         k \notin Range(src.open), CallChunk(k, args)
  PROVE  /\ k \notin Taken
         /\ sent' = [sent EXCEPT ![k] = @ + args] /\ ~src.usage /\ ~src.returned
         /\ src'.started /\ ~src'.text /\ src'.usage = src.usage /\ src'.returned = src.returned
         /\ src'.finish = src.finish
         /\ src'.block = [src.block EXCEPT ![k] = NextBlock] /\ src'.open = Append(src.open, k)
         /\ src' = [started |-> TRUE, text |-> FALSE, block |-> [src.block EXCEPT ![k] = NextBlock],
                    open |-> Append(src.open, k), finish |-> src.finish, usage |-> src.usage,
                    returned |-> src.returned]
         /\ events' = (Started \o (Closing \o <<BlockStart(NextBlock, k)>>))
                         \o Deltas(NextBlock, k, args)
<1>1. ~src.usage /\ ~src.returned
  BY DEF CallChunk, Arrives, Resumed
<1>2. k \notin Taken /\ src.block[k] = 0
  BY <1>1 DEF Flags, Taken
<1>3. /\ sent' = [sent EXCEPT ![k] = @ + args]
      /\ src' = [src EXCEPT !.started = TRUE, !.block[k] = NextBlock, !.text = @ /\ FALSE,
                            !.open = Append(@, k)]
      /\ events' = (Started \o (Closing \o <<BlockStart(NextBlock, k)>>))
                         \o Deltas(NextBlock, k, args)
  BY <1>2 DEF CallChunk, Yield, Deltas
<1>4. src' = [started |-> TRUE, text |-> FALSE, block |-> [src.block EXCEPT ![k] = NextBlock],
              open |-> Append(src.open, k), finish |-> src.finish, usage |-> src.usage,
              returned |-> src.returned]
  BY <1>3 DEF TypeOK
<1> QED BY <1>1, <1>2, <1>3, <1>4

(* The elements of a sequence and one more.                                     *)
LEMMA RangeAppend ==
  ASSUME NEW S, NEW q \in Seq(S), NEW a \in S
  PROVE  Range(Append(q, a)) = Range(q) \cup {a}
<1>1. /\ Append(q, a) \in Seq(S) /\ Len(Append(q, a)) = Len(q) + 1 /\ Len(q) \in Nat
      /\ \A n \in 1..Len(q) : Append(q, a)[n] = q[n]
      /\ Append(q, a)[Len(q) + 1] = a
  BY AppendProperties
<1>2. Range(q) = {q[n] : n \in 1..Len(q)}
  BY DEF Range
<1>3. Range(Append(q, a)) = {Append(q, a)[n] : n \in 1..(Len(q) + 1)}
  BY <1>1 DEF Range
<1>4. ASSUME NEW e0 \in Range(Append(q, a)) PROVE e0 \in Range(q) \cup {a}
  <2>1. PICK n \in 1..(Len(q) + 1) : e0 = Append(q, a)[n]
    BY <1>3
  <2>2. n = Len(q) + 1 \/ n \in 1..Len(q)
    BY <1>1
  <2> QED BY <1>1, <1>2, <2>1, <2>2
<1>5. ASSUME NEW e0 \in Range(q) \cup {a} PROVE e0 \in Range(Append(q, a))
  <2>1. CASE e0 = a
    <3>1. Len(q) + 1 \in 1..(Len(q) + 1)
      BY <1>1
    <3> QED BY <2>1, <3>1, <1>1, <1>3
  <2>2. CASE e0 \in Range(q)
    <3>1. PICK n \in 1..Len(q) : e0 = q[n]
      BY <2>2, <1>2
    <3>2. n \in 1..(Len(q) + 1) /\ Append(q, a)[n] = e0
      BY <3>1, <1>1
    <3> QED BY <3>2, <1>3
  <2> QED BY <2>1, <2>2
<1> QED BY <1>4, <1>5

(* The first chunk of a call.                                                   *)
LEMMA NewCallReads ==
  ASSUME TypeOK, Flags, NEW s \in Readings, Ready(s), NEW k \in Calls, NEW args \in {0, 1},
         backend = "openai", k \notin Range(src.open), CallChunk(k, args)
  PROVE  \E t \in Readings : Legal(World', events', s, t) /\ Ready(t)'
<1> DEFINE w == World'
<1>1. /\ k \notin Taken
      /\ sent' = [sent EXCEPT ![k] = @ + args] /\ ~src.usage
      /\ src'.started /\ ~src'.text /\ src'.usage = src.usage
      /\ src'.block = [src.block EXCEPT ![k] = NextBlock] /\ src'.open = Append(src.open, k)
      /\ events' = (Started \o (Closing \o <<BlockStart(NextBlock, k)>>))
                      \o Deltas(NextBlock, k, args)
  BY NewCallFlags
<1>2. /\ NextBlock \in Blocks /\ NextBlock # 0 /\ NextBlock \in Nat
      /\ \A j \in Calls : src.block[j] < NextBlock
  BY <1>1, NextBlockIs, BlockNumbers
<1>3. /\ src.block \in [Calls -> Blocks] /\ src.open \in Seq(Calls) /\ k \in Sources
      /\ \A j \in Calls : src.block[j] \in Nat
  BY BlockNumbers DEF TypeOK, Sources
<1>4. Owns(w, k, NextBlock)
  BY <1>1, <1>2, <1>3, StreamsAssumption DEF Owns, World
<1>5. PICK r \in Readings :
            /\ Legal(w, Started, s, r)
            /\ r.phase = "started" /\ r.open = s.open /\ r.named = s.named
            /\ r.count = s.count /\ r.told = s.told
  <2> HIDE DEF w
  <2> QED BY YieldsStarted, ReadyIs
<1>6. PICK u \in Readings :
            /\ Legal(w, Closing, r, u)
            /\ u.phase = r.phase /\ u.open = r.open \ {0} /\ u.named = r.named
            /\ u.count = r.count /\ u.told = r.told
  <2> HIDE DEF w
  <2>1. 0 \in r.open <=> src.text
    BY <1>5, ReadyIs, OpenBlocksAre
  <2> QED BY <2>1, YieldsClosing
<1>7. NextBlock \notin u.open /\ k \notin u.named /\ u.phase = "started"
  <2>1. NextBlock \notin OpenBlocks
    <3> SUFFICES ASSUME NextBlock \in OpenBlocks PROVE FALSE
      OBVIOUS
    <3>1. PICK j \in Range(src.open) : src.block[j] = NextBlock
      BY <1>2 DEF OpenBlocks
    <3>2. j \in Calls
      BY <1>3 DEF Range
    <3> QED BY <3>1, <3>2, <1>2, <1>3
  <2> QED BY <1>1, <1>5, <1>6, <2>1, ReadyIs
<1>8. PICK v \in Readings :
            /\ Legal(w, <<BlockStart(NextBlock, k)>>, u, v)
            /\ v.phase = "started" /\ v.open = u.open \cup {NextBlock}
            /\ v.named = u.named \cup {k} /\ v.count = u.count /\ v.told = u.told
  <2> HIDE DEF w
  <2>1. \A i \in Blocks : Owns(w, k, i) /\ i \notin u.open =>
           \E v \in Readings :
              /\ Legal(w, <<BlockStart(i, k)>>, u, v)
              /\ v.phase = "started" /\ v.open = u.open \cup {i}
              /\ v.named = u.named \cup {k} /\ v.count = u.count /\ v.told = u.told
    BY <1>7, YieldsBlock
  <2> QED BY <1>2, <1>4, <1>7, <2>1
<1>9. PICK t \in Readings :
            /\ Legal(w, Deltas(NextBlock, k, args), v, t)
            /\ t.phase = v.phase /\ t.open = v.open /\ t.named = v.named
            /\ t.count = Counted(v.count, k, args) /\ t.told = v.told
  <2> HIDE DEF w
  <2>1. NextBlock \in v.open /\ k \in Sources
    BY <1>3, <1>8
  <2>2. \A b \in Blocks : Owns(w, k, b) /\ b \in v.open =>
           \E t \in Readings :
              /\ Legal(w, Deltas(b, k, args), v, t)
              /\ t.phase = v.phase /\ t.open = v.open /\ t.named = v.named
              /\ t.count = Counted(v.count, k, args) /\ t.told = v.told
    BY <2>1, YieldsDeltas
  <2> QED BY <1>2, <1>3, <1>4, <2>1, <2>2
<1>10. Legal(w, events', s, t)
  <2> HIDE DEF w
  <2>1. Legal(w, Closing \o <<BlockStart(NextBlock, k)>>, r, v)
    BY <1>6, <1>8, LegalJoin
  <2>2. Legal(w, Started \o (Closing \o <<BlockStart(NextBlock, k)>>), s, v)
    BY <1>5, <2>1, LegalJoin
  <2> QED BY <1>1, <1>9, <2>2, LegalJoin
<1>11. Ready(t)'
  <2>1. /\ t.count = sent' /\ t.phase = "started" /\ t.named = Taken \cup {k}
        /\ t.open = (OpenBlocks \ {0}) \cup {NextBlock}
    <3>1. t.count = Counted(sent, k, args)
      BY <1>5, <1>6, <1>8, <1>9, ReadyIs
    <3>2. t.phase = "started" /\ t.named = Taken \cup {k}
      BY <1>5, <1>6, <1>8, <1>9, ReadyIs
    <3>3. t.open = (OpenBlocks \ {0}) \cup {NextBlock}
      BY <1>5, <1>6, <1>8, <1>9, ReadyIs
    <3> QED BY <1>1, <3>1, <3>2, <3>3 DEF Counted
  <2>2. Taken' = Taken \cup {k}
    BY <1>1, <1>2, <1>3 DEF Taken
  <2>3. OpenBlocks' = (OpenBlocks \ {0}) \cup {NextBlock}
    <3>1. Range(src'.open) = Range(src.open) \cup {k}
      BY <1>1, <1>3, RangeAppend
    <3>2. \A j \in Range(src.open) : j \in Calls /\ j # k /\ src.block[j] # 0
      BY <1>1, <1>3 DEF Range, TypeOK, Taken
    <3>3. \A j \in Range(src.open) : src'.block[j] = src.block[j]
      BY <1>1, <1>3, <3>2
    <3>4. src'.block[k] = NextBlock
      BY <1>1, <1>3
    <3> QED BY <1>1, <1>2, <3>1, <3>2, <3>3, <3>4 DEF OpenBlocks
  <2> QED BY <1>1, <2>1, <2>2, <2>3 DEF Ready, Complete, World, Taken
<1> QED BY <1>10, <1>11

(* The first line opens the message and its text.                               *)
LEMMA YieldsFirstLine ==
  ASSUME NEW w, NEW s \in Readings, s.phase = IF src.started THEN "started" ELSE "new",
         0 \in s.open <=> src.started, "text" \notin s.named
  PROVE  \E t \in Readings :
            /\ Legal(w, FirstLine, s, t)
            /\ t.phase = "started" /\ t.open = s.open \cup {0} /\ t.named = s.named
            /\ t.count = s.count /\ t.told = s.told
<1>1. CASE src.started
  <2>1. s.open \cup {0} = s.open
    BY <1>1
  <2> QED BY <1>1, <2>1, LegalStill DEF FirstLine
<1>2. CASE ~src.started
  <2>1. PICK r \in Readings :
            /\ Legal(w, <<MessageStart>>, s, r)
            /\ r.phase = "started" /\ r.open = s.open /\ r.named = s.named
            /\ r.count = s.count /\ r.told = s.told
    BY <1>2, YieldsStart
  <2>2. 0 \notin r.open /\ "text" \notin r.named
    BY <1>2, <2>1
  <2>3. PICK t \in Readings :
            /\ Legal(w, <<BlockStart(0, "text")>>, r, t)
            /\ t.phase = "started" /\ t.open = r.open \cup {0}
            /\ t.named = r.named /\ t.count = r.count /\ t.told = r.told
    BY <2>1, <2>2, YieldsTextBlock
  <2>4. Legal(w, <<MessageStart>> \o <<BlockStart(0, "text")>>, s, t)
    BY <2>1, <2>3, LegalJoin
  <2>5. <<MessageStart>> \o <<BlockStart(0, "text")>> = FirstLine
    BY <1>2, PairOf DEF FirstLine
  <2> QED BY <2>1, <2>3, <2>4, <2>5
<1> QED BY <1>1, <1>2

(* Two sequences of two elements each.                                          *)
LEMMA FourOf ==
  ASSUME NEW a, NEW b, NEW c, NEW d
  PROVE  <<a, b>> \o <<c, d>> = <<a, b, c, d>>
<1> DEFINE S == {a, b, c, d}
<1>1. <<a, b>> \in Seq(S) /\ <<c, d>> \in Seq(S) /\ <<a, b, c, d>> \in Seq(S)
  OBVIOUS
<1>2. Len(<<a, b>>) = 2 /\ Len(<<c, d>>) = 2 /\ Len(<<a, b, c, d>>) = 4
  OBVIOUS
<1>3. /\ <<a, b>> \o <<c, d>> \in Seq(S) /\ Len(<<a, b>> \o <<c, d>>) = 2 + 2
      /\ \A i \in 1..(2 + 2) : (<<a, b>> \o <<c, d>>)[i] = IF i <= 2 THEN <<a, b>>[i] ELSE <<c, d>>[i - 2]
  BY <1>1, <1>2, ConcatProperties
<1>4. \A i \in 1..4 : (<<a, b>> \o <<c, d>>)[i] = <<a, b, c, d>>[i]
  <2>1. /\ (<<a, b>> \o <<c, d>>)[1] = a /\ (<<a, b>> \o <<c, d>>)[2] = b
        /\ (<<a, b>> \o <<c, d>>)[3] = c /\ (<<a, b>> \o <<c, d>>)[4] = d
    BY <1>3
  <2> QED BY <2>1
<1>5. Len(<<a, b>> \o <<c, d>>) = 4
  BY <1>3
<1> HIDE DEF S
<1> QED BY <1>1, <1>2, <1>3, <1>4, <1>5, SeqEqual

(* The end of an Ollama answer.                                                 *)
LEMMA YieldsEndTurn ==
  ASSUME NEW w, NEW s \in Readings, s.phase = "started", s.open = {0}, w.returned,
         s.count = w.sent, s.named = {k \in Calls : w.block[k] # 0}, ToStop(w.finish) = "end_turn"
  PROVE  \E t \in Readings : Legal(w, EndTurn, s, t)
<1>1. PICK r \in Readings :
            /\ Legal(w, <<BlockStop(0)>>, s, r)
            /\ r.phase = s.phase /\ r.open = s.open \ {0} /\ r.named = s.named
            /\ r.count = s.count /\ r.told = s.told
  <2>1. 0 \in s.open
    OBVIOUS
  <2> QED BY <2>1, BlockNumbers, YieldsStop
<1>2. PICK u \in Readings :
            /\ Legal(w, <<MessageDelta("end_turn")>>, r, u)
            /\ u.phase = "started" /\ u.open = {} /\ u.named = r.named
            /\ u.count = r.count /\ u.told = "end_turn"
  <2>1. r.phase = "started" /\ r.open = {}
    BY <1>1
  <2>2. SUFFICES ASSUME NEW reason \in Reasons
                 PROVE  \E u \in Readings :
                           /\ Legal(w, <<MessageDelta(reason)>>, r, u)
                           /\ u.phase = "started" /\ u.open = {} /\ u.named = r.named
                           /\ u.count = r.count /\ u.told = reason
    BY DEF Reasons
  <2> QED BY <2>1, YieldsMessageDelta, SMTT(30)
<1>3. Complete(w, u) /\ u.phase # "stopped"
  BY <1>1, <1>2 DEF Complete
<1>4. PICK t \in Readings : Legal(w, <<MessageStop, Return>>, u, t)
  BY <1>2, <1>3, YieldsEnd
<1>5. Legal(w, (<<BlockStop(0)>> \o <<MessageDelta("end_turn")>>) \o <<MessageStop, Return>>, s, t)
  BY <1>1, <1>2, <1>4, LegalJoin
<1>6. (<<BlockStop(0)>> \o <<MessageDelta("end_turn")>>) \o <<MessageStop, Return>> = EndTurn
  <2>1. <<BlockStop(0)>> \o <<MessageDelta("end_turn")>> = <<BlockStop(0), MessageDelta("end_turn")>>
    BY PairOf
  <2>2. <<BlockStop(0), MessageDelta("end_turn")>> \o <<MessageStop, Return>>
           = <<BlockStop(0), MessageDelta("end_turn"), MessageStop, Return>>
    BY FourOf
  <2> QED BY <2>1, <2>2 DEF EndTurn
<1> QED BY <1>5, <1>6

(* The flags of an Ollama source before a line.                                 *)
LEMMA OllamaIs ==
  ASSUME TypeOK, Flags, NEW s \in Readings, Ready(s), backend = "ollama", ~src.returned
  PROVE  /\ s.phase = IF src.started THEN "started" ELSE "new"
         /\ 0 \in s.open <=> src.started
         /\ s.open = (IF src.started THEN {0} ELSE {})
         /\ s.named = {} /\ s.count = sent
         /\ Taken = {} /\ ~src.usage /\ src.finish = NoFinish /\ src.open = <<>>
<1>1. src.open = <<>> /\ Taken = {} /\ src.finish = NoFinish /\ ~src.usage /\ src.text = src.started
  BY DEF Flags
<1>2. OpenBlocks = IF src.started THEN {0} ELSE {}
  BY <1>1, BlockNumbers DEF OpenBlocks, Range
<1> QED BY <1>1, <1>2, ReadyIs

(* A line of an answer.                                                         *)
LEMMA LineReads ==
  ASSUME TypeOK, Flags, NEW s \in Readings, Ready(s), backend = "ollama", NEW tokens \in {0, 1},
         Line(tokens)
  PROVE  \E t \in Readings : Legal(World', events', s, t) /\ Ready(t)'
<1> DEFINE w == World'
<1>1. /\ src' = [src EXCEPT !.started = TRUE, !.text = TRUE] /\ ~src.returned
      /\ sent' = [sent EXCEPT !["text"] = @ + tokens]
      /\ events' = FirstLine \o Deltas(0, "text", tokens)
  BY DEF Line, Arrives, Resumed, Yield, Deltas
<1>2. PICK u \in Readings :
            /\ Legal(w, FirstLine, s, u)
            /\ u.phase = "started" /\ u.open = s.open \cup {0} /\ u.named = s.named
            /\ u.count = s.count /\ u.told = s.told
  <2> HIDE DEF w
  <2>1. /\ s.phase = (IF src.started THEN "started" ELSE "new")
        /\ 0 \in s.open <=> src.started
        /\ "text" \notin s.named
    BY <1>1, OllamaIs
  <2> QED BY <2>1, YieldsFirstLine
<1>3. PICK t \in Readings :
            /\ Legal(w, Deltas(0, "text", tokens), u, t)
            /\ t.phase = u.phase /\ t.open = u.open /\ t.named = u.named
            /\ t.count = Counted(u.count, "text", tokens) /\ t.told = u.told
  <2> HIDE DEF w
  <2>1. 0 \in Blocks /\ "text" \in Sources /\ Owns(w, "text", 0) /\ 0 \in u.open
    BY <1>2, BlockNumbers DEF Sources, Owns
  <2> QED BY <2>1, YieldsDeltas
<1>4. Legal(w, events', s, t)
  <2> HIDE DEF w
  <2> QED BY <1>1, <1>2, <1>3, LegalJoin
<1>5. Ready(t)'
  <2>1. t.count = Counted(sent, "text", tokens) /\ t.named = {} /\ t.open = {0} /\ t.phase = "started"
    BY <1>1, <1>2, <1>3, OllamaIs
  <2>2. /\ src'.started /\ src'.text /\ src'.block = src.block /\ src'.open = <<>> /\ ~src'.usage
    BY <1>1, OllamaIs DEF TypeOK
  <2>3. OpenBlocks' = {0}
    BY <2>2, BlockNumbers DEF OpenBlocks, Range
  <2>4. Taken = {}
    BY <1>1, OllamaIs
  <2> QED BY <1>1, <2>1, <2>2, <2>3, <2>4 DEF Ready, Complete, World, Taken, Counted
<1> QED BY <1>4, <1>5

(* The done line.                                                               *)
LEMMA DoneLineReads ==
  ASSUME TypeOK, Flags, NEW s \in Readings, Ready(s), backend = "ollama", DoneLine
  PROVE  src'.returned /\ \E t \in Readings : Legal(World', events', s, t)
<1> DEFINE w == World'
<1>1. /\ src' = [src EXCEPT !.started = TRUE, !.text = FALSE, !.usage = TRUE, !.returned = TRUE]
      /\ ~src.returned /\ sent' = sent /\ events' = FirstLine \o EndTurn
  BY DEF DoneLine, Arrives, Resumed, Yield
<1>2. PICK u \in Readings :
            /\ Legal(w, FirstLine, s, u)
            /\ u.phase = "started" /\ u.open = s.open \cup {0} /\ u.named = s.named
            /\ u.count = s.count /\ u.told = s.told
  <2> HIDE DEF w
  <2>1. /\ s.phase = (IF src.started THEN "started" ELSE "new")
        /\ 0 \in s.open <=> src.started
        /\ "text" \notin s.named
    BY <1>1, OllamaIs
  <2> QED BY <2>1, YieldsFirstLine
<1>3. src'.returned /\ src'.block = src.block /\ src'.finish = src.finish
  BY <1>1 DEF TypeOK
<1>4. /\ w.returned /\ u.count = w.sent /\ u.named = {k \in Calls : w.block[k] # 0}
      /\ ToStop(w.finish) = "end_turn" /\ u.open = {0}
  BY <1>1, <1>2, <1>3, OllamaIs DEF World, Taken, ToStop, NoFinish
<1>5. PICK t \in Readings : Legal(w, EndTurn, u, t)
  <2> HIDE DEF w
  <2> QED BY <1>2, <1>4, YieldsEndTurn
<1>6. Legal(w, events', s, t)
  <2> HIDE DEF w
  <2> QED BY <1>1, <1>2, <1>5, LegalJoin
<1> QED BY <1>3, <1>6

(* The lines end without it.                                                    *)
LEMMA LinesEndReads ==
  ASSUME TypeOK, Flags, NEW s \in Readings, Ready(s), backend = "ollama", LinesEnd
  PROVE  src'.returned /\ \E t \in Readings : Legal(World', events', s, t)
<1> DEFINE w == World'
<1>1. /\ src' = [src EXCEPT !.text = FALSE, !.returned = TRUE]
      /\ ~src.returned /\ sent' = sent
      /\ events' = IF src.started THEN EndTurn ELSE <<Throw("error")>>
  BY DEF LinesEnd, Resumed, Yield
<1>2. src'.returned /\ src'.block = src.block /\ src'.finish = src.finish
  BY <1>1 DEF TypeOK
<1>3. CASE src.started
  <2>1. /\ w.returned /\ s.count = w.sent /\ s.named = {k \in Calls : w.block[k] # 0}
        /\ ToStop(w.finish) = "end_turn" /\ s.open = {0} /\ s.phase = "started"
    BY <1>1, <1>2, <1>3, OllamaIs DEF World, Taken, ToStop, NoFinish
  <2>2. \E t \in Readings : Legal(w, EndTurn, s, t)
    <3> HIDE DEF w
    <3> QED BY <2>1, YieldsEndTurn
  <2> QED BY <1>1, <1>2, <1>3, <2>2
<1>4. CASE ~src.started
  <2>1. s.phase # "stopped"
    BY ReadyIs
  <2>2. events' = <<Throw("error")>>
    BY <1>1, <1>4
  <2> QED BY <1>2, <2>1, <2>2, FailureReads
<1> QED BY <1>3, <1>4

(* The lines stop for a client that left.                                       *)
LEMMA LinesAbortedReads ==
  ASSUME TypeOK, Flags, NEW s \in Readings, LinesAborted
  PROVE  src'.returned /\ \E t \in Readings : Legal(World', events', s, t)
<1>1. src'.returned /\ events' = <<Return>> /\ aborted' /\ Return \in Events
  BY EventsAre DEF LinesAborted, Yield, TypeOK
<1>2. Says(World', s, Return, s)
  BY <1>1 DEF Says, Return, Event, World
<1>3. ASSUME NEW w, Says(w, s, Return, s)
      PROVE  Legal(w, <<Return>>, s, s)
  BY <1>1, <1>3, LegalOne
<1>4. Legal(World', <<Return>>, s, s)
  BY <1>2, <1>3
<1> QED BY <1>1, <1>4

(* Whatever the source does, its queue leads from what was heard to what it     *)
(* says.                                                                        *)
LEMMA SourceReads ==
  ASSUME TypeOK, Flags, Reading, Source
  PROVE  Reading'
<1>1. Resumed /\ UNCHANGED <<surface, backend, aborted, sink>>
  BY DEF Source, OpenAISource, OllamaSource, TextChunk, UnnamedChunk, CallChunk, FinishChunk,
     UsageChunk, ChunksEnd, Line, DoneLine, LinesEnd, LinesAborted, UpstreamFails, Arrives, Yield
<1>2. PICK s \in Readings : Told(s) /\ Ready(s)
  BY <1>1, Resumes
<1>3. Told(s)'
  BY <1>1, <1>2 DEF Told, Matches, Reports, Collected, ItemsOf, Newest, sink
<1>4. SUFFICES \E t \in Readings : Legal(World', events', s, t) /\ (~src'.returned => Ready(t)')
  BY <1>3 DEF Reading
<1>5. CASE backend = "openai" /\ OpenAISource
  <2>1. CASE TextChunk
    BY <1>2, <2>1, TextChunkReads
  <2>2. CASE UnnamedChunk
    BY <1>2, <2>2, UnnamedChunkReads
  <2>3. ASSUME NEW k \in Calls, NEW args \in {0, 1}, CallChunk(k, args)
        PROVE  \E t \in Readings : Legal(World', events', s, t) /\ Ready(t)'
    <3>1. CASE k \in Range(src.open)
      BY <1>2, <2>3, <3>1, OpenCallReads
    <3>2. CASE k \notin Range(src.open)
      BY <1>2, <1>5, <2>3, <3>2, NewCallReads
    <3> QED BY <3>1, <3>2
  <2>4. ASSUME NEW f \in Finishes, FinishChunk(f)
        PROVE  \E t \in Readings : Legal(World', events', s, t) /\ Ready(t)'
    BY <1>2, <2>4, FinishChunkReads
  <2>5. CASE UsageChunk
    BY <1>2, <2>5, UsageChunkReads
  <2>6. CASE ChunksEnd
    BY <1>2, <2>6, ChunksEndReads
  <2>7. \/ TextChunk \/ UnnamedChunk \/ UsageChunk \/ ChunksEnd
        \/ \E k \in Calls, args \in {0, 1} : CallChunk(k, args)
        \/ \E f \in Finishes : FinishChunk(f)
    BY <1>5 DEF OpenAISource
  <2> QED BY <2>1, <2>2, <2>3, <2>4, <2>5, <2>6, <2>7
<1>6. CASE backend = "ollama" /\ OllamaSource
  <2>1. ASSUME NEW tokens \in {0, 1}, Line(tokens)
        PROVE  \E t \in Readings : Legal(World', events', s, t) /\ Ready(t)'
    BY <1>2, <1>6, <2>1, LineReads
  <2>2. CASE DoneLine
    BY <1>2, <1>6, <2>2, DoneLineReads
  <2>3. CASE LinesEnd
    BY <1>2, <1>6, <2>3, LinesEndReads
  <2>4. CASE LinesAborted
    BY <1>2, <2>4, LinesAbortedReads
  <2>5. DoneLine \/ LinesEnd \/ LinesAborted \/ \E tokens \in {0, 1} : Line(tokens)
    BY <1>6 DEF OllamaSource
  <2> QED BY <2>1, <2>2, <2>3, <2>4, <2>5
<1>7. ASSUME NEW error \in {"error", "userAbort"}, UpstreamFails(error)
      PROVE  \E t \in Readings : Legal(World', events', s, t) /\ (~src'.returned => Ready(t)')
  <2>1. src'.returned /\ events' = <<Throw(error)>>
    BY <1>7 DEF UpstreamFails, Yield, TypeOK
  <2>2. s.phase # "stopped"
    BY <1>2, ReadyIs
  <2> QED BY <2>1, <2>2, FailureReads
<1>8. \/ backend = "openai" /\ OpenAISource
      \/ backend = "ollama" /\ OllamaSource
      \/ \E error \in {"error", "userAbort"} : UpstreamFails(error)
  BY DEF Source
<1> QED BY <1>5, <1>6, <1>7, <1>8

-----------------------------------------------------------------------------
(* The flags of the source *)

(* The types, of the source and of the sink.                                    *)
SourceTyped ==
  /\ surface \in Surfaces /\ backend \in {"openai", "ollama"}
  /\ chunks \in 0..MaxChunks
  /\ sent \in [Sources -> 0..MaxChunks]
  /\ src \in [started : BOOLEAN, text : BOOLEAN, block : [Calls -> Blocks], open : Seq(Calls),
             finish : Finishes \cup {NoFinish}, usage : BOOLEAN, returned : BOOLEAN]
  /\ \A k \in Range(src.open) : src.block[k] # 0
  /\ \A j, k \in Calls : src.block[j] = src.block[k] /\ j # k => src.block[j] = 0
HeardTyped ==
  heard \in [phase : {"new", "started", "stopped"}, open : SUBSET Blocks,
            last : [type : EventTypes \cup {"none"}, index : Blocks]]
ClientTyped ==
  client \in [created : BOOLEAN, items : Seq(Items), texts : Nat,
             finish : Finishes \cup Reasons \cup {NoFinish, "completed", "incomplete"},
             ends : Seq({"completed", "failed"}), overlap : BOOLEAN]
RestTyped ==
  /\ events \in Seq(Events) /\ aborted \in BOOLEAN
  /\ fsm \in 0..Newest /\ stop \in Reasons \cup {NoFinish}
  /\ cleanup \in {{}, {"fine"}, {"error"}}

(* They are all there is.                                                       *)
LEMMA Typed == TypeOK <=> SourceTyped /\ HeardTyped /\ ClientTyped /\ RestTyped
BY DEF TypeOK, SourceTyped, HeardTyped, ClientTyped, RestTyped

(* What is known of the client while it gets nothing.                           *)
LEMMA SameClient ==
  ASSUME client' = client
  PROVE  /\ Newest' = Newest
         /\ OwnFragments' <=> OwnFragments
         /\ \A n, i : Latest(n, i)' <=> Latest(n, i)
         /\ \A k : ItemsOf(k)' = ItemsOf(k)
<1>1. Newest' = Newest
  BY DEF Newest
<1> QED BY <1>1 DEF OwnFragments, Latest, ItemsOf

(* The flags hold at first.                                                     *)
LEMMA InitFlags ==
  ASSUME Init
  PROVE  TypeOK /\ Flags
<1>1. src = [started |-> FALSE, text |-> FALSE, block |-> [k \in Calls |-> 0], open |-> <<>>,
             finish |-> NoFinish, usage |-> FALSE, returned |-> FALSE]
  BY DEF Init
<1>2. Range(src.open) = {} /\ Taken = {}
  BY <1>1 DEF Range, Taken
<1>3. Cardinality(Taken) = 0
  BY <1>2, FS_EmptySet
<1>4. TypeOK
  <2>1. /\ src \in [started : BOOLEAN, text : BOOLEAN, block : [Calls -> Blocks], open : Seq(Calls),
                   finish : Finishes \cup {NoFinish}, usage : BOOLEAN, returned : BOOLEAN]
        /\ \A k \in Range(src.open) : src.block[k] # 0
        /\ \A j, k \in Calls : src.block[j] = src.block[k] /\ j # k => src.block[j] = 0
    BY <1>1, <1>2, BlockNumbers
  <2>2. /\ heard \in [phase : {"new", "started", "stopped"}, open : SUBSET Blocks,
                      last : [type : EventTypes \cup {"none"}, index : Blocks]]
        /\ events \in Seq(Events)
    BY BlockNumbers DEF Init
  <2>3. /\ client \in [created : BOOLEAN, items : Seq(Items), texts : Nat,
                      finish : Finishes \cup Reasons \cup {NoFinish, "completed", "incomplete"},
                      ends : Seq({"completed", "failed"}), overlap : BOOLEAN]
        /\ client.items = <<>>
    BY DEF Init
  <2>4. fsm \in 0..Newest
    BY <2>3 DEF Init, Newest
  <2>5. chunks \in 0..MaxChunks /\ sent \in [Sources -> 0..MaxChunks]
    BY StreamsAssumption DEF Init, Sources
  <2>6. /\ surface \in Surfaces /\ backend \in {"openai", "ollama"}
        /\ aborted \in BOOLEAN /\ stop \in Reasons \cup {NoFinish}
    BY DEF Init
  <2>7. cleanup \in {{}, {"fine"}, {"error"}}
    BY DEF Init
  <2> QED BY <2>1, <2>2, <2>3, <2>4, <2>5, <2>6, <2>7 DEF TypeOK
<1>5. Flags
  BY <1>1, <1>2, <1>3 DEF Init, Flags, Sources
<1> QED BY <1>4, <1>5

(* What a step of the source may do to the flags when no call gets a block.     *)
LEMMA SameBlocksFlags ==
  ASSUME TypeOK, Flags, Resumed, backend' = backend, src'.block = src.block,
         src'.open = src.open \/ src'.open = <<>>, src.usage => src'.usage,
         src'.started \/ (src'.started = src.started /\ (src'.text => src.text)),
         src'.usage => ~src'.text /\ (src'.open = <<>> \/ src.usage),
         ~src'.returned => src'.open = src.open \/ src'.usage,
         backend = "ollama" => src'.finish = src.finish /\ (~src'.returned => ~src'.usage /\ src'.text = src'.started),
         cleanup' = cleanup,
         \A k \in Sources : sent'[k] <= chunks'
  PROVE  Flags'
<1>1. Taken' = Taken
  BY DEF Taken
<1>2. cleanup = {} /\ ~src.returned
  BY DEF Flags, Resumed
<1>3. \A i, j \in 1..Len(src'.open) : src'.open[i] = src'.open[j] => i = j
  <2>1. CASE src'.open = src.open
    BY <2>1 DEF Flags
  <2>2. CASE src'.open = <<>>
    BY <2>2
  <2> QED BY <2>1, <2>2
<1>4. ~src'.started => ~src'.text /\ src'.open = <<>>
  BY DEF Flags
<1>5. src'.usage => ~src'.text /\ src'.open = <<>>
  BY DEF Flags
<1>6. backend' = "openai" /\ ~src'.usage /\ ~src'.returned => Taken' \subseteq Range(src'.open)
  BY <1>1, <1>2 DEF Flags
<1>7. \A k \in Calls : src'.block[k] <= Cardinality(Taken')
  BY <1>1 DEF Flags
<1>8. backend' = "ollama" => /\ src'.open = <<>> /\ Taken' = {} /\ src'.finish = NoFinish
                             /\ ~src'.returned => ~src'.usage /\ src'.text = src'.started
  BY <1>1 DEF Flags
<1>9. cleanup' # {} => src'.returned
  BY <1>2
<1> HIDE DEF Flags
<1> QED BY <1>3, <1>4, <1>5, <1>6, <1>7, <1>8, <1>9 DEF Flags

(* The flags after the first chunk of a call.                                   *)
LEMMA NewCallKeepsFlags ==
  ASSUME TypeOK, Flags, NEW k \in Calls, NEW args \in {0, 1}, backend = "openai", Resumed,
         k \notin Range(src.open), CallChunk(k, args)
  PROVE  /\ Flags'
         /\ src'.block \in [Calls -> Blocks]
         /\ src'.open \in Seq(Calls) /\ \A j \in Range(src'.open) : src'.block[j] # 0
         /\ \A i, j \in Calls : src'.block[i] = src'.block[j] /\ i # j => src'.block[i] = 0
<1>1. /\ k \notin Taken
      /\ sent' = [sent EXCEPT ![k] = @ + args] /\ ~src.usage /\ ~src.returned
      /\ src'.started /\ ~src'.text /\ src'.usage = src.usage /\ src'.returned = src.returned
      /\ src'.block = [src.block EXCEPT ![k] = NextBlock] /\ src'.open = Append(src.open, k)
  BY NewCallFlags
<1>2. /\ NextBlock \in Blocks /\ NextBlock # 0 /\ NextBlock \in Nat
      /\ \A j \in Calls : src.block[j] < NextBlock /\ src.block[j] \in Nat
      /\ Cardinality(Taken \cup {k}) = NextBlock
  <2>1. \A j \in Calls : src.block[j] \in Blocks
    BY DEF TypeOK
  <2> QED BY <1>1, <2>1, NextBlockIs, BlockNumbers
<1>3. /\ src.block \in [Calls -> Blocks] /\ src.open \in Seq(Calls)
      /\ sent \in [Sources -> 0..MaxChunks] /\ chunks \in 0..MaxChunks /\ MaxChunks \in Nat
      /\ \A j \in Range(src.open) : src.block[j] # 0
      /\ \A i, j \in Calls : src.block[i] = src.block[j] /\ i # j => src.block[i] = 0
  BY StreamsAssumption DEF TypeOK
<1>4. chunks' = chunks + 1 /\ backend' = backend /\ cleanup' = cleanup
  BY DEF CallChunk, Arrives, Yield, sink
<1>5. src'.block \in [Calls -> Blocks] /\ src'.open \in Seq(Calls)
  BY <1>1, <1>2, <1>3, AppendProperties
<1>6. Range(src'.open) = Range(src.open) \cup {k}
  BY <1>1, <1>3, RangeAppend
<1>7. \A j \in Calls : src'.block[j] = IF j = k THEN NextBlock ELSE src.block[j]
  BY <1>1, <1>3
<1>8. \A j \in Range(src'.open) : src'.block[j] # 0
  <2>1. Range(src.open) \subseteq Calls
    BY <1>3 DEF Range
  <2> QED BY <1>2, <1>3, <1>6, <1>7, <2>1
<1>9. \A i, j \in Calls : src'.block[i] = src'.block[j] /\ i # j => src'.block[i] = 0
  BY <1>2, <1>3, <1>7
<1>10. Taken' = Taken \cup {k}
  BY <1>2, <1>7 DEF Taken
<1>11. \A i, j \in 1..Len(src'.open) : src'.open[i] = src'.open[j] => i = j
  <2> TAKE i, j \in 1..Len(src'.open)
  <2> HAVE src'.open[i] = src'.open[j]
  <2>1. /\ Len(src'.open) = Len(src.open) + 1 /\ Len(src.open) \in Nat
        /\ \A n \in 1..Len(src.open) : src'.open[n] = src.open[n] /\ src.open[n] # k
        /\ src'.open[Len(src.open) + 1] = k
    BY <1>1, <1>3, AppendProperties DEF Range
  <2>2. /\ i \in 1..Len(src.open) \/ i = Len(src.open) + 1
        /\ j \in 1..Len(src.open) \/ j = Len(src.open) + 1
    BY <2>1
  <2>3. CASE i \in 1..Len(src.open) /\ j \in 1..Len(src.open)
    BY <2>1, <2>3 DEF Flags
  <2>4. CASE ~(i \in 1..Len(src.open) /\ j \in 1..Len(src.open))
    BY <2>1, <2>2, <2>4
  <2> QED BY <2>3, <2>4
<1>12. \A j \in Sources : sent'[j] <= chunks'
  <2>1. \A j \in Sources : sent[j] <= chunks /\ sent[j] \in Nat
    BY <1>3 DEF Flags
  <2>2. chunks \in Nat
    BY <1>3
  <2> QED BY <1>1, <1>3, <1>4, <2>1, <2>2
<1>13. Taken' \subseteq Range(src'.open)
  <2>1. Taken \subseteq Range(src.open)
    BY <1>1 DEF Flags
  <2> QED BY <1>6, <1>10, <2>1
<1>14. \A j \in Calls : src'.block[j] <= Cardinality(Taken')
  BY <1>2, <1>7, <1>10
<1>15. cleanup = {}
  BY <1>1 DEF Flags
<1>16. Flags'
  BY <1>1, <1>4, <1>11, <1>12, <1>13, <1>14, <1>15 DEF Flags
<1> QED BY <1>5, <1>8, <1>9, <1>16

(* What a step of the source does to the types when no call gets a block.       *)
LEMMA CountedIn ==
  ASSUME TypeOK, Flags, NEW k \in Sources, NEW n \in {0, 1},
         sent' = [sent EXCEPT ![k] = @ + n], chunks' = chunks + 1
  PROVE  \A j \in Sources : sent'[j] <= chunks'
<1>1. sent \in [Sources -> 0..MaxChunks] /\ chunks \in Nat /\ MaxChunks \in Nat
  BY StreamsAssumption DEF TypeOK
<1>2. \A j \in Sources : sent[j] <= chunks /\ sent[j] \in Nat
  BY <1>1 DEF Flags
<1> QED BY <1>1, <1>2

(* No chunk, or one that carries nothing.                                       *)
LEMMA NothingCounted ==
  ASSUME TypeOK, Flags, sent' = sent, chunks' = chunks \/ chunks' = chunks + 1
  PROVE  \A j \in Sources : sent'[j] <= chunks'
<1>1. sent \in [Sources -> 0..MaxChunks] /\ chunks \in Nat
  BY DEF TypeOK
<1>2. \A j \in Sources : sent[j] <= chunks /\ sent[j] \in Nat
  BY <1>1 DEF Flags
<1> QED BY <1>1, <1>2

(* What a step of the source leaves alone, and the type of its flags.           *)
SourceTypes ==
  /\ UNCHANGED <<surface, backend, aborted, sink>>
  /\ chunks' \in 0..MaxChunks /\ sent' \in [Sources -> Nat]
  /\ src' \in [started : BOOLEAN, text : BOOLEAN, block : [Calls -> Blocks], open : Seq(Calls),
               finish : Finishes \cup {NoFinish}, usage : BOOLEAN, returned : BOOLEAN]
  /\ \A j \in Range(src'.open) : src'.block[j] # 0
  /\ \A i, j \in Calls : src'.block[i] = src'.block[j] /\ i # j => src'.block[i] = 0
  /\ \A j \in Calls : src.block[j] # 0 => src'.block[j] = src.block[j]

(* A step of the source that gives no call a block.                             *)
LEMMA SameBlocksTypes ==
  ASSUME TypeOK, UNCHANGED <<surface, backend, aborted, sink>>, NEW st \in BOOLEAN, NEW tx \in BOOLEAN,
         NEW op \in {src.open, <<>>}, NEW fi \in Finishes \cup {NoFinish}, NEW us \in BOOLEAN,
         NEW re \in BOOLEAN,
         src' = [started |-> st, text |-> tx, block |-> src.block, open |-> op, finish |-> fi,
                 usage |-> us, returned |-> re],
         chunks' \in 0..MaxChunks, sent' \in [Sources -> Nat]
  PROVE  SourceTypes
<1>1. /\ src.block \in [Calls -> Blocks] /\ src.open \in Seq(Calls)
      /\ \A k \in Range(src.open) : src.block[k] # 0
      /\ \A j, k \in Calls : src.block[j] = src.block[k] /\ j # k => src.block[j] = 0
  BY DEF TypeOK
<1>2. \A j \in Range(op) : src.block[j] # 0
  <2>1. CASE op = src.open
    BY <1>1, <2>1
  <2>2. CASE op = <<>>
    BY <2>2 DEF Range
  <2> QED BY <2>1, <2>2
<1>3. src' \in [started : BOOLEAN, text : BOOLEAN, block : [Calls -> Blocks], open : Seq(Calls),
                finish : Finishes \cup {NoFinish}, usage : BOOLEAN, returned : BOOLEAN]
  <2>1. CASE op = src.open
    BY <1>1, <2>1
  <2>2. CASE op = <<>>
    <3>1. <<>> \in Seq(Calls)
      OBVIOUS
    <3> QED BY <1>1, <2>2, <3>1
  <2> QED BY <2>1, <2>2
<1>4. src'.block = src.block /\ src'.open = op
  OBVIOUS
<1>5. \A j \in Range(src'.open) : src'.block[j] # 0
  BY <1>1, <1>2, <1>4
<1> QED BY <1>1, <1>3, <1>4, <1>5 DEF SourceTypes

(* A flag of the source as a record.                                            *)
LEMMA SrcIs ==
  ASSUME TypeOK
  PROVE  /\ src = [started |-> src.started, text |-> src.text, block |-> src.block, open |-> src.open,
                   finish |-> src.finish, usage |-> src.usage, returned |-> src.returned]
         /\ src.started \in BOOLEAN /\ src.text \in BOOLEAN /\ src.usage \in BOOLEAN
         /\ src.returned \in BOOLEAN /\ src.finish \in Finishes \cup {NoFinish}
BY DEF TypeOK

(* What the client's stream keeps for the source.                               *)
LEMMA SentTypes ==
  ASSUME TypeOK
  PROVE  /\ sent \in [Sources -> Nat] /\ chunks \in 0..MaxChunks /\ MaxChunks \in Nat
         /\ \A k \in Sources, n \in {0, 1} : [sent EXCEPT ![k] = @ + n] \in [Sources -> Nat]
<1>1. sent \in [Sources -> 0..MaxChunks] /\ chunks \in 0..MaxChunks /\ MaxChunks \in Nat
  BY StreamsAssumption DEF TypeOK
<1>2. sent \in [Sources -> Nat]
  BY <1>1
<1> QED BY <1>1, <1>2

(* The source gives up.                                                         *)
LEMMA ReturnedFlags ==
  ASSUME TypeOK, Flags, Resumed, UNCHANGED <<surface, backend, aborted, sink>>,
         src' = [src EXCEPT !.returned = TRUE], UNCHANGED <<chunks, sent>>
  PROVE  Flags' /\ SourceTypes
<1>1. \A j \in Sources : sent'[j] <= chunks'
  BY NothingCounted
<1>2. /\ src'.started = src.started /\ src'.text = src.text /\ src'.block = src.block
      /\ src'.open = src.open /\ src'.usage = src.usage /\ src'.returned /\ src'.finish = src.finish
  BY DEF TypeOK
<1>3. backend' = backend /\ cleanup' = cleanup
  BY DEF sink
<1>4. src.usage => ~src.text /\ src.open = <<>>
  BY DEF Flags
<1>5. Flags'
  BY <1>1, <1>2, <1>3, <1>4, SameBlocksFlags
<1>6. chunks' \in 0..MaxChunks /\ sent' \in [Sources -> Nat]
  BY SentTypes
<1>7. src' = [started |-> src.started, text |-> src.text, block |-> src.block, open |-> src.open,
              finish |-> src.finish, usage |-> src.usage, returned |-> TRUE]
  BY SrcIs
<1>8. SourceTypes
  BY <1>6, <1>7, SrcIs, SameBlocksTypes
<1> QED BY <1>5, <1>8

(* Every step of the source keeps the flags.                                    *)
LEMMA SourceFlags ==
  ASSUME TypeOK, Flags, Source
  PROVE  Flags' /\ SourceTypes
<1> USE SrcIs, SentTypes
<1>1. Resumed /\ UNCHANGED <<surface, backend, aborted, sink>> /\ backend' = backend /\ cleanup' = cleanup
  BY DEF Source, OpenAISource, OllamaSource, TextChunk, UnnamedChunk, CallChunk, FinishChunk,
     UsageChunk, ChunksEnd, Line, DoneLine, LinesEnd, LinesAborted, UpstreamFails, Arrives, Yield, sink
<1>2. CASE backend = "openai" /\ OpenAISource
  <2>1. CASE TextChunk
    <3>1. /\ src' = [src EXCEPT !.started = TRUE, !.text = TRUE] /\ ~src.usage
          /\ sent' = [sent EXCEPT !["text"] = @ + 1] /\ chunks' = chunks + 1 /\ chunks < MaxChunks
      BY <2>1 DEF TextChunk, Arrives
    <3>2. "text" \in Sources
      BY DEF Sources
    <3>3. \A j \in Sources : sent'[j] <= chunks'
      BY <3>1, <3>2, CountedIn
    <3>4. /\ src'.started /\ src'.text /\ src'.block = src.block /\ src'.open = src.open
          /\ ~src'.usage /\ src'.usage = src.usage /\ src'.returned = src.returned
      BY <3>1 DEF TypeOK
    <3>5. Flags'
      BY <1>1, <1>2, <3>3, <3>4, SameBlocksFlags
    <3>6. chunks' \in 0..MaxChunks /\ sent' \in [Sources -> Nat]
      BY <3>1, <3>2
    <3>7. src' = [started |-> TRUE, text |-> TRUE, block |-> src.block, open |-> src.open,
                  finish |-> src.finish, usage |-> src.usage, returned |-> src.returned]
      BY <3>1
    <3>8. SourceTypes
      BY <1>1, <3>6, <3>7, SameBlocksTypes
    <3> QED BY <3>5, <3>8
  <2>2. CASE UnnamedChunk
    <3>1. /\ src' = [src EXCEPT !.started = TRUE] /\ ~src.usage
          /\ sent' = sent /\ chunks' = chunks + 1 /\ chunks < MaxChunks
      BY <2>2 DEF UnnamedChunk, Arrives
    <3>2. \A j \in Sources : sent'[j] <= chunks'
      BY <3>1, NothingCounted
    <3>3. /\ src'.started /\ src'.text = src.text /\ src'.block = src.block /\ src'.open = src.open
          /\ ~src'.usage /\ src'.usage = src.usage /\ src'.returned = src.returned
      BY <3>1 DEF TypeOK
    <3>4. Flags'
      BY <1>1, <1>2, <3>2, <3>3, SameBlocksFlags
    <3>5. chunks' \in 0..MaxChunks /\ sent' \in [Sources -> Nat]
      BY <3>1
    <3>6. src' = [started |-> TRUE, text |-> src.text, block |-> src.block, open |-> src.open,
                  finish |-> src.finish, usage |-> src.usage, returned |-> src.returned]
      BY <3>1
    <3>7. SourceTypes
      BY <1>1, <3>5, <3>6, SameBlocksTypes
    <3> QED BY <3>4, <3>7
  <2>3. ASSUME NEW k \in Calls, NEW args \in {0, 1}, CallChunk(k, args)
        PROVE  Flags' /\ SourceTypes
    <3>1. /\ sent' = [sent EXCEPT ![k] = @ + args] /\ chunks' = chunks + 1 /\ chunks < MaxChunks
          /\ ~src.usage /\ k \in Sources
      BY <2>3 DEF CallChunk, Arrives, Sources
    <3>2. chunks' \in 0..MaxChunks /\ sent' \in [Sources -> Nat]
      BY <3>1
    <3>3. CASE k \in Range(src.open)
      <4>1. src.block[k] # 0 /\ src.block \in [Calls -> Blocks]
        BY <3>3 DEF TypeOK
      <4>2. src' = [src EXCEPT !.started = TRUE, !.block[k] = src.block[k], !.text = @ /\ TRUE, !.open = @]
        BY <2>3, <3>3, <4>1 DEF CallChunk
      <4>3. src' = [started |-> TRUE, text |-> src.text, block |-> src.block, open |-> src.open,
                    finish |-> src.finish, usage |-> src.usage, returned |-> src.returned]
        BY <4>1, <4>2
      <4>4. \A j \in Sources : sent'[j] <= chunks'
        BY <3>1, CountedIn
      <4>5. /\ src'.started /\ src'.text = src.text /\ src'.block = src.block /\ src'.open = src.open
            /\ ~src'.usage /\ src'.usage = src.usage /\ src'.returned = src.returned
        BY <3>1, <4>3
      <4>6. Flags'
        BY <1>1, <1>2, <4>4, <4>5, SameBlocksFlags
      <4>7. SourceTypes
        BY <1>1, <3>2, <4>3, SameBlocksTypes
      <4> QED BY <4>6, <4>7
    <3>4. CASE k \notin Range(src.open)
      <4>1. /\ Flags'
            /\ src'.block \in [Calls -> Blocks]
            /\ src'.open \in Seq(Calls) /\ \A j \in Range(src'.open) : src'.block[j] # 0
            /\ \A i, j \in Calls : src'.block[i] = src'.block[j] /\ i # j => src'.block[i] = 0
        BY <1>1, <1>2, <2>3, <3>4, NewCallKeepsFlags
      <4>2. src' = [started |-> TRUE, text |-> FALSE, block |-> [src.block EXCEPT ![k] = NextBlock],
                    open |-> Append(src.open, k), finish |-> src.finish, usage |-> src.usage,
                    returned |-> src.returned]
        BY <1>2, <2>3, <3>4, NewCallFlags
      <4>3. src' \in [started : BOOLEAN, text : BOOLEAN, block : [Calls -> Blocks], open : Seq(Calls),
                      finish : Finishes \cup {NoFinish}, usage : BOOLEAN, returned : BOOLEAN]
        BY <4>1, <4>2
      <4>4. \A j \in Calls : src.block[j] # 0 => src'.block[j] = src.block[j]
        <5>1. k \notin Taken /\ src'.block = [src.block EXCEPT ![k] = NextBlock]
          BY <1>2, <2>3, <3>4, NewCallFlags
        <5> QED BY <5>1 DEF Taken, TypeOK
      <4> QED BY <1>1, <3>2, <4>1, <4>3, <4>4 DEF SourceTypes
    <3> QED BY <3>3, <3>4
  <2>4. ASSUME NEW f \in Finishes, FinishChunk(f)
        PROVE  Flags' /\ SourceTypes
    <3>1. /\ src' = [src EXCEPT !.started = TRUE, !.finish = f] /\ ~src.usage
          /\ sent' = sent /\ chunks' = chunks + 1 /\ chunks < MaxChunks
      BY <2>4 DEF FinishChunk, Arrives
    <3>2. \A j \in Sources : sent'[j] <= chunks'
      BY <3>1, NothingCounted
    <3>3. /\ src'.started /\ src'.text = src.text /\ src'.block = src.block /\ src'.open = src.open
          /\ ~src'.usage /\ src'.usage = src.usage /\ src'.returned = src.returned
      BY <3>1 DEF TypeOK
    <3>4. Flags'
      BY <1>1, <1>2, <3>2, <3>3, SameBlocksFlags
    <3>5. chunks' \in 0..MaxChunks /\ sent' \in [Sources -> Nat]
      BY <3>1
    <3>6. src' = [started |-> TRUE, text |-> src.text, block |-> src.block, open |-> src.open,
                  finish |-> f, usage |-> src.usage, returned |-> src.returned]
      BY <3>1
    <3>7. SourceTypes
      BY <1>1, <3>5, <3>6, SameBlocksTypes
    <3> QED BY <3>4, <3>7
  <2>5. CASE UsageChunk
    <3>1. /\ src' = [src EXCEPT !.started = TRUE, !.text = FALSE, !.open = <<>>, !.usage = TRUE]
          /\ sent' = sent /\ chunks' = chunks + 1 /\ chunks < MaxChunks
      BY <2>5 DEF UsageChunk, Arrives
    <3>2. \A j \in Sources : sent'[j] <= chunks'
      BY <3>1, NothingCounted
    <3>3. /\ src'.started /\ ~src'.text /\ src'.block = src.block /\ src'.open = <<>>
          /\ src'.usage /\ src'.returned = src.returned
      BY <3>1 DEF TypeOK
    <3>4. Flags'
      BY <1>1, <1>2, <3>2, <3>3, SameBlocksFlags
    <3>5. chunks' \in 0..MaxChunks /\ sent' \in [Sources -> Nat]
      BY <3>1
    <3>6. src' = [started |-> TRUE, text |-> FALSE, block |-> src.block, open |-> <<>>,
                  finish |-> src.finish, usage |-> TRUE, returned |-> src.returned]
      BY <3>1
    <3>7. SourceTypes
      BY <1>1, <3>5, <3>6, SameBlocksTypes
    <3> QED BY <3>4, <3>7
  <2>6. CASE ChunksEnd
    <3>1. /\ src' = [src EXCEPT !.text = FALSE, !.open = <<>>, !.returned = TRUE]
          /\ sent' = sent /\ chunks' = chunks
      BY <2>6 DEF ChunksEnd
    <3>2. \A j \in Sources : sent'[j] <= chunks'
      BY <3>1, NothingCounted
    <3>3. /\ src'.started = src.started /\ ~src'.text /\ src'.block = src.block /\ src'.open = <<>>
          /\ src'.usage = src.usage /\ src'.returned
      BY <3>1 DEF TypeOK
    <3>4. Flags'
      BY <1>1, <1>2, <3>2, <3>3, SameBlocksFlags
    <3>5. chunks' \in 0..MaxChunks /\ sent' \in [Sources -> Nat]
      BY <3>1
    <3>6. src' = [started |-> src.started, text |-> FALSE, block |-> src.block, open |-> <<>>,
                  finish |-> src.finish, usage |-> src.usage, returned |-> TRUE]
      BY <3>1
    <3>7. SourceTypes
      BY <1>1, <3>5, <3>6, SameBlocksTypes
    <3> QED BY <3>4, <3>7
  <2>7. \/ TextChunk \/ UnnamedChunk \/ UsageChunk \/ ChunksEnd
        \/ \E k \in Calls, args \in {0, 1} : CallChunk(k, args)
        \/ \E f \in Finishes : FinishChunk(f)
    BY <1>2 DEF OpenAISource
  <2> QED BY <2>1, <2>2, <2>3, <2>4, <2>5, <2>6, <2>7
<1>3. CASE backend = "ollama" /\ OllamaSource
  <2>1. ASSUME NEW tokens \in {0, 1}, Line(tokens)
        PROVE  Flags' /\ SourceTypes
    <3>1. /\ src' = [src EXCEPT !.started = TRUE, !.text = TRUE] /\ ~src.usage
          /\ sent' = [sent EXCEPT !["text"] = @ + tokens] /\ chunks' = chunks + 1 /\ chunks < MaxChunks
      BY <2>1 DEF Line, Arrives
    <3>2. "text" \in Sources
      BY DEF Sources
    <3>3. \A j \in Sources : sent'[j] <= chunks'
      BY <3>1, <3>2, CountedIn
    <3>4. /\ src'.started = TRUE /\ src'.text = TRUE /\ src'.block = src.block /\ src'.open = src.open
          /\ ~src'.usage /\ src'.usage = src.usage /\ src'.returned = src.returned
          /\ src'.finish = src.finish
      BY <3>1 DEF TypeOK
    <3>5. Flags'
      BY <1>1, <1>3, <3>3, <3>4, SameBlocksFlags
    <3>6. chunks' \in 0..MaxChunks /\ sent' \in [Sources -> Nat]
      BY <3>1, <3>2
    <3>7. src' = [started |-> TRUE, text |-> TRUE, block |-> src.block, open |-> src.open,
                  finish |-> src.finish, usage |-> src.usage, returned |-> src.returned]
      BY <3>1
    <3>8. SourceTypes
      BY <1>1, <3>6, <3>7, SameBlocksTypes
    <3> QED BY <3>5, <3>8
  <2>2. CASE DoneLine
    <3>1. /\ src' = [src EXCEPT !.started = TRUE, !.text = FALSE, !.usage = TRUE, !.returned = TRUE]
          /\ sent' = sent /\ chunks' = chunks + 1 /\ chunks < MaxChunks
      BY <2>2 DEF DoneLine, Arrives
    <3>2. \A j \in Sources : sent'[j] <= chunks'
      BY <3>1, NothingCounted
    <3>3. /\ src'.started /\ ~src'.text /\ src'.block = src.block /\ src'.open = src.open
          /\ src'.returned /\ src'.finish = src.finish /\ src'.usage
      BY <3>1 DEF TypeOK
    <3>4. src'.open = <<>>
      BY <1>3, <3>3 DEF Flags
    <3>5. Flags'
      BY <1>1, <1>3, <3>2, <3>3, <3>4, SameBlocksFlags
    <3>6. chunks' \in 0..MaxChunks /\ sent' \in [Sources -> Nat]
      BY <3>1
    <3>7. src' = [started |-> TRUE, text |-> FALSE, block |-> src.block, open |-> src.open,
                  finish |-> src.finish, usage |-> TRUE, returned |-> TRUE]
      BY <3>1
    <3>8. SourceTypes
      BY <1>1, <3>6, <3>7, SameBlocksTypes
    <3> QED BY <3>5, <3>8
  <2>3. CASE LinesEnd
    <3>1. /\ src' = [src EXCEPT !.text = FALSE, !.returned = TRUE]
          /\ sent' = sent /\ chunks' = chunks
      BY <2>3 DEF LinesEnd
    <3>2. \A j \in Sources : sent'[j] <= chunks'
      BY <3>1, NothingCounted
    <3>3. /\ src'.started = src.started /\ ~src'.text /\ src'.block = src.block /\ src'.open = src.open
          /\ src'.returned /\ src'.finish = src.finish /\ src'.usage = src.usage
      BY <3>1 DEF TypeOK
    <3>4. Flags'
      BY <1>1, <1>3, <3>2, <3>3, SameBlocksFlags
    <3>5. chunks' \in 0..MaxChunks /\ sent' \in [Sources -> Nat]
      BY <3>1
    <3>6. src' = [started |-> src.started, text |-> FALSE, block |-> src.block, open |-> src.open,
                  finish |-> src.finish, usage |-> src.usage, returned |-> TRUE]
      BY <3>1
    <3>7. SourceTypes
      BY <1>1, <3>5, <3>6, SameBlocksTypes
    <3> QED BY <3>4, <3>7
  <2>4. CASE LinesAborted
    BY <1>1, <2>4, ReturnedFlags DEF LinesAborted
  <2>5. DoneLine \/ LinesEnd \/ LinesAborted \/ \E tokens \in {0, 1} : Line(tokens)
    BY <1>3 DEF OllamaSource
  <2> QED BY <2>1, <2>2, <2>3, <2>4, <2>5
<1>4. ASSUME NEW error \in {"error", "userAbort"}, UpstreamFails(error)
      PROVE  Flags' /\ SourceTypes
  BY <1>1, <1>4, ReturnedFlags DEF UpstreamFails
<1>5. \/ backend = "openai" /\ OpenAISource
      \/ backend = "ollama" /\ OllamaSource
      \/ \E error \in {"error", "userAbort"} : UpstreamFails(error)
  BY DEF Source
<1> QED BY <1>2, <1>3, <1>4, <1>5

(* The source keeps the whole invariant: what the sink has is about events that *)
(* were pulled.                                                                 *)
LEMMA SourceKeeps ==
  ASSUME IInv, Source
  PROVE  IInv'
<1>1. TypeOK /\ Flags /\ Shown /\ OneCurrent /\ Ended /\ Faithful
  BY DEF IInv
<1>2. Flags' /\ SourceTypes
  BY <1>1, SourceFlags
<1>3. Resumed
  BY DEF Source, OpenAISource, OllamaSource, TextChunk, UnnamedChunk, CallChunk, FinishChunk,
     UsageChunk, ChunksEnd, Line, DoneLine, LinesEnd, LinesAborted, UpstreamFails, Arrives
<1>4. Running /\ heard.phase # "stopped"
  BY <1>1, <1>3 DEF Flags, Ended, Resumed, Running
<1>5. Reading'
  BY <1>1, <1>4, SourceReads DEF IInv
<1>6. UNCHANGED <<surface, backend, aborted, heard, fsm, stop, client, cleanup>>
  BY <1>2 DEF SourceTypes, sink
<1>7. TypeOK'
  <2>1. sent' \in [Sources -> 0..MaxChunks]
    <3>1. /\ sent' \in [Sources -> Nat] /\ chunks' \in 0..MaxChunks /\ MaxChunks \in Nat
          /\ \A k \in Sources : sent'[k] <= chunks'
      BY <1>2, StreamsAssumption DEF SourceTypes, Flags
    <3>2. \A k \in Sources : sent'[k] \in 0..MaxChunks
      BY <3>1
    <3> QED BY <3>1, <3>2
  <2>2. events' \in Seq(Events)
    BY <1>5 DEF Reading, Legal
  <2>3. SourceTyped'
    BY <1>1, <1>2, <1>6, <2>1, Typed DEF SourceTyped, SourceTypes
  <2>4. HeardTyped' /\ ClientTyped'
    BY <1>1, <1>6, Typed DEF HeardTyped, ClientTyped
  <2>5. RestTyped'
    BY <1>1, <1>6, <2>2, Typed DEF RestTyped, Newest
  <2> QED BY <2>3, <2>4, <2>5, Typed, PTL
<1>8. \A n \in 1..Newest : Owns(World', client.items[n].of, client.items[n].index)
  <2>1. \A k \in Calls : src.block[k] # 0 => src'.block[k] = src.block[k]
    BY <1>2 DEF SourceTypes
  <2>2. ASSUME NEW k, NEW i, Owns(World, k, i)
        PROVE  Owns(World', k, i)
    BY <2>1, <2>2 DEF Owns, World
  <2> QED BY <1>1, <2>2 DEF Shown
<1>9. Shown'
  BY <1>1, <1>6, <1>8, SameClient DEF Shown
<1>10. OneCurrent'
  BY <1>1, <1>6 DEF OneCurrent
<1>11. Ended'
  BY <1>1, <1>4, <1>6 DEF Ended, Running
<1>12. Faithful'
  BY <1>1, <1>4, <1>6 DEF Faithful, OwnFragments, Newest
<1> QED BY <1>2, <1>5, <1>7, <1>9, <1>10, <1>11, <1>12 DEF IInv

-----------------------------------------------------------------------------
(* The client leaves *)

(* A client that leaves changes nothing of what is on its way.                  *)
LEMMA LeavingKeeps ==
  ASSUME IInv, ClientLeaves
  PROVE  IInv'
<1>1. TypeOK /\ Flags /\ Shown /\ OneCurrent /\ Ended /\ Faithful /\ Reading
  BY DEF IInv, ClientLeaves
<1>2. /\ aborted' = TRUE /\ cleanup = {}
      /\ UNCHANGED <<surface, backend, chunks, sent, src, events, heard, fsm, stop, client, cleanup>>
  BY DEF ClientLeaves, Running, upstream, sink
<1>3. TypeOK' /\ Flags'
  <2>1. SourceTyped' /\ HeardTyped' /\ ClientTyped'
    BY <1>1, <1>2, Typed DEF SourceTyped, HeardTyped, ClientTyped
  <2>2. RestTyped'
    BY <1>1, <1>2, Typed DEF RestTyped, Newest
  <2>3. TypeOK'
    BY <2>1, <2>2, Typed, PTL
  <2>4. Flags'
    BY <1>1, <1>2 DEF Flags, Taken
  <2> QED BY <2>3, <2>4
<1>4. Reading'
  <2>1. PICK s \in Readings, t \in Readings :
           Legal(World, events, s, t) /\ Told(s) /\ (~src.returned => Ready(t))
    BY <1>1 DEF Reading
  <2>2. /\ World'.block = World.block /\ World'.sent = World.sent /\ World'.usage = World.usage
        /\ World'.finish = World.finish /\ World'.returned = World.returned
        /\ World.left => World'.left
    BY <1>2 DEF World
  <2>3. ASSUME NEW v, NEW w, v.block = w.block, v.sent = w.sent, v.usage = w.usage,
               v.finish = w.finish, v.returned = w.returned, w.left => v.left,
               Legal(w, events, s, t)
        PROVE  Legal(v, events, s, t)
    BY <2>3, LegalLeft
  <2>4. Legal(World', events, s, t)
    BY <2>1, <2>2, <2>3
  <2>5. Told(s)'
    BY <1>2, <2>1 DEF Told, Matches, Reports, Collected, ItemsOf, Newest
  <2>6. ~src'.returned => Ready(t)'
    BY <1>2, <2>1 DEF Ready, Complete, World, OpenBlocks
  <2> QED BY <1>2, <2>4, <2>5, <2>6 DEF Reading
<1>5. Shown'
  BY <1>1, <1>2 DEF Shown, Latest, OwnFragments, Newest, Owns, World
<1>6. OneCurrent' /\ Ended'
  BY <1>1, <1>2 DEF OneCurrent, Ended
<1>7. Faithful'
  BY <1>1, <1>2 DEF Faithful, OwnFragments, Newest, AllArrived, ItemsOf, Reported
<1> QED BY <1>3, <1>4, <1>5, <1>6, <1>7 DEF IInv

(* Its stream may be dropped then.                                              *)
LEMMA DroppedKeeps ==
  ASSUME IInv, Dropped
  PROVE  IInv'
<1>1. TypeOK /\ Flags /\ Shown /\ OneCurrent /\ Ended /\ Faithful
  BY DEF IInv
<1>2. /\ aborted /\ cleanup = {} /\ cleanup' = {"fine"} /\ events' = <<>>
      /\ src' = [src EXCEPT !.returned = TRUE]
      /\ UNCHANGED <<surface, backend, chunks, sent, aborted, heard, fsm, stop, client>>
  BY DEF Dropped, Running
<1>3. /\ src'.started = src.started /\ src'.text = src.text /\ src'.block = src.block
      /\ src'.open = src.open /\ src'.usage = src.usage /\ src'.returned /\ src'.finish = src.finish
      /\ src' \in [started : BOOLEAN, text : BOOLEAN, block : [Calls -> Blocks], open : Seq(Calls),
                   finish : Finishes \cup {NoFinish}, usage : BOOLEAN, returned : BOOLEAN]
  BY <1>1, <1>2 DEF TypeOK
<1>4. TypeOK'
  <2>1. cleanup' \in {{}, {"fine"}, {"error"}} /\ events' \in Seq(Events)
    BY <1>2
  <2>2. HeardTyped' /\ ClientTyped'
    BY <1>1, <1>2, Typed DEF HeardTyped, ClientTyped
  <2>3. /\ \A k \in Range(src'.open) : src'.block[k] # 0
        /\ \A j, k \in Calls : src'.block[j] = src'.block[k] /\ j # k => src'.block[j] = 0
    BY <1>1, <1>3 DEF TypeOK
  <2>4. SourceTyped'
    <3>1. SourceTyped
      BY <1>1, Typed
    <3> QED BY <1>2, <1>3, <2>3, <3>1 DEF SourceTyped
  <2>5. RestTyped'
    BY <1>1, <1>2, <2>1, Typed DEF RestTyped, Newest
  <2> QED BY <2>2, <2>4, <2>5, Typed, PTL
<1>5. Flags'
  BY <1>1, <1>2, <1>3 DEF Flags, Taken
<1>6. ~Running'
  BY <1>2 DEF Running
<1>7. Shown'
  BY <1>1, <1>2, <1>3 DEF Shown, Latest, OwnFragments, Newest, Owns, World
<1>8. OneCurrent'
  BY <1>1, <1>2 DEF OneCurrent
<1>9. Ended'
  <2>1. {"fine"} # {"error"} /\ {} # {"error"}
    OBVIOUS
  <2> QED BY <1>1, <1>2, <1>3, <2>1 DEF Ended
<1>10. Faithful'
  BY <1>1, <1>2, <1>3 DEF Faithful, OwnFragments, Newest, AllArrived, ItemsOf, Reported
<1> QED BY <1>4, <1>5, <1>6, <1>7, <1>8, <1>9, <1>10 DEF IInv

-----------------------------------------------------------------------------
(* The steps of the sink *)

(* The start of the message.                                                  *)
LEMMA MessageStartSays ==
  ASSUME NEW w, NEW s \in Readings, NEW m \in Readings, NEW a \in Events, Says(w, s, a, m),
         a.type = "message_start"
  PROVE  /\ a.index = 0 /\ s.phase = "new" /\ m.phase = "started" /\ m.open = s.open
         /\ m.named = s.named /\ m.count = s.count /\ m.told = s.told
BY DEF Says, Readings

(* The start of a block.                                                      *)
LEMMA BlockStartSays ==
  ASSUME NEW w, NEW s \in Readings, NEW m \in Readings, NEW a \in Events, Says(w, s, a, m),
         a.type = "content_block_start"
  PROVE  /\ Owns(w, a.of, a.index) /\ s.phase = "started" /\ a.index \notin s.open
         /\ a.of \notin s.named /\ a.of \in Sources
         /\ m.phase = "started" /\ m.open = s.open \cup {a.index}
         /\ m.named = s.named \cup ({a.of} \cap Calls) /\ m.count = s.count /\ m.told = s.told
BY DEF Says, Readings, Owns, Sources, Counted

(* A fragment.                                                                *)
LEMMA BlockDeltaSays ==
  ASSUME NEW w, NEW s \in Readings, NEW m \in Readings, NEW a \in Events, Says(w, s, a, m),
         a.type = "content_block_delta"
  PROVE  /\ Owns(w, a.of, a.index) /\ a.index \in s.open /\ a.of \in Sources
         /\ m.phase = s.phase /\ m.open = s.open /\ m.named = s.named
         /\ m.count = Counted(s.count, a.of, 1) /\ m.told = s.told
BY DEF Says, Readings, Owns, Sources, Counted

(* The end of a block.                                                        *)
LEMMA BlockStopSays ==
  ASSUME NEW w, NEW s \in Readings, NEW m \in Readings, NEW a \in Events, Says(w, s, a, m),
         a.type = "content_block_stop"
  PROVE  /\ a.index \in s.open
         /\ m.phase = s.phase /\ m.open = s.open \ {a.index} /\ m.named = s.named
         /\ m.count = s.count /\ m.told = s.told
BY DEF Says, Readings

(* The stop reason.                                                           *)
LEMMA MessageDeltaSays ==
  ASSUME NEW w, NEW s \in Readings, NEW m \in Readings, NEW a \in Events, Says(w, s, a, m),
         a.type = "message_delta"
  PROVE  /\ a.index = 0 /\ a.of \in Reasons /\ s.phase = "started" /\ s.open = {}
         /\ m.phase = "started" /\ m.open = {} /\ m.named = s.named
         /\ m.count = s.count /\ m.told = a.of
BY DEF Says, Readings

(* The end of the message.                                                    *)
LEMMA MessageStopSays ==
  ASSUME NEW w, NEW s \in Readings, NEW m \in Readings, NEW a \in Events, Says(w, s, a, m),
         a.type = "message_stop"
  PROVE  /\ a.index = 0 /\ s.phase # "stopped" /\ s.open = {} /\ w.returned /\ Complete(w, s)
         /\ m.phase = "stopped" /\ m.open = {} /\ m.named = s.named
         /\ m.count = s.count /\ m.told = s.told
BY DEF Says, Readings

(* The generator returns.                                                     *)
LEMMA ReturnSays ==
  ASSUME NEW w, NEW s \in Readings, NEW m \in Readings, NEW a \in Events, Says(w, s, a, m),
         a.type = "return"
  PROVE  w.returned /\ (s.phase = "stopped" \/ w.left)
BY DEF Says, Readings

(* The generator throws.                                                      *)
LEMMA ThrowSays ==
  ASSUME NEW w, NEW s \in Readings, NEW m \in Readings, NEW a \in Events, Says(w, s, a, m),
         a.type = "throw"
  PROVE  a.of \in {"error", "userAbort"} /\ w.returned /\ s.phase # "stopped"
BY DEF Says, Readings

(* What the sink pulls is what it hears next.                                   *)
LEMMA NextReading ==
  ASSUME Reading, events # <<>>
  PROVE  \E s, m, t \in Readings :
            /\ e \in Events /\ Told(s) /\ Says(World, s, e, m)
            /\ Legal(World, Tail(events), m, t) /\ (~src.returned => Ready(t))
<1>1. PICK s \in Readings, t \in Readings :
         Legal(World, events, s, t) /\ Told(s) /\ (~src.returned => Ready(t))
  BY DEF Reading
<1> DEFINE w == World
<1>2. e \in Events /\ \E m \in Readings : Says(w, s, e, m) /\ Legal(w, Tail(events), m, t)
  <2>1. Legal(w, events, s, t)
    BY <1>1
  <2> HIDE DEF w
  <2> QED BY <2>1, LegalHead DEF e
<1> QED BY <1>1, <1>2

(* And what remains is legal after it.                                          *)
LEMMA ReadingAfter ==
  ASSUME NEW m \in Readings, NEW t \in Readings, Legal(World, Tail(events), m, t),
         ~src.returned => Ready(t), events' = Tail(events),
         UNCHANGED <<upstream, aborted>>, Told(m)'
  PROVE  Reading'
<1>1. World' = World /\ src' = src /\ sent' = sent
  BY DEF World, upstream
<1>2. Legal(World', events', m, t)
  BY <1>1
<1>3. ~src'.returned => Ready(t)'
  BY <1>1 DEF Ready, Complete, OpenBlocks
<1> QED BY <1>2, <1>3 DEF Reading

(* Where the sink stands when it pulls an event.                                *)
Pulling(s, m) ==
  /\ TypeOK /\ Shown /\ OneCurrent /\ Ended /\ Faithful /\ Running
  /\ s \in Readings /\ m \in Readings /\ Told(s) /\ e \in Events /\ Says(World, s, e, m)

(* The sink hears what the event says.                                          *)
LEMMA Hears ==
  ASSUME NEW s, NEW m, Pulling(s, m), NEW type \in EventTypes \ {"return", "throw"}, Pull(type)
  PROVE  /\ m.phase = heard'.phase /\ m.open = heard'.open
         /\ HeardTyped' /\ s.phase # "stopped" /\ (heard'.phase = "stopped" <=> type = "message_stop")
<1> USE DEF Pulling
<1>1. /\ e.type = type /\ e \in Events /\ s.phase = heard.phase /\ s.open = heard.open
  BY DEF Pull, Pulls, Told
<1>2. heard' = [phase |-> CASE type = "message_start" -> "started" [] type = "message_stop" -> "stopped"
                               [] OTHER -> heard.phase,
                   open  |-> CASE type = "content_block_start" -> heard.open \cup {e.index}
                               [] type = "content_block_stop" -> heard.open \ {e.index}
                               [] OTHER -> heard.open,
                   last  |-> [type |-> type, index |-> e.index]]
  BY DEF Pull, Hear
<1>3. s.phase = "stopped" => s.open = {}
  BY <1>1 DEF Ended
<1>4. e.index \in Blocks
  BY <1>1 DEF Events
<1>5. heard \in [phase : {"new", "started", "stopped"}, open : SUBSET Blocks,
                 last : [type : EventTypes \cup {"none"}, index : Blocks]]
  BY DEF TypeOK
<1> HIDE DEF Pulling
<1>6. s \in Readings /\ m \in Readings /\ Says(World, s, e, m)
  BY DEF Pulling
<1> DEFINE w == World
<1>7. Says(w, s, e, m)
  BY <1>6
<1> HIDE DEF w
<1>8. CASE type = "message_start"
  <2>1. heard' = [phase |-> "started", open |-> heard.open,
                  last |-> [type |-> "message_start", index |-> e.index]]
    BY <1>2, <1>8
  <2>2. m.phase = heard'.phase /\ m.open = heard'.open /\ s.phase # "stopped"
    BY <1>1, <1>3, <1>6, <1>7, <1>8, <2>1, MessageStartSays
  <2>3. HeardTyped'
    BY <1>4, <1>5, <2>1 DEF HeardTyped, EventTypes
  <2> QED BY <1>1, <1>8, <2>1, <2>2, <2>3
<1>9. CASE type = "content_block_start"
  <2>1. heard' = [phase |-> heard.phase, open |-> heard.open \cup {e.index},
                  last |-> [type |-> "content_block_start", index |-> e.index]]
    BY <1>2, <1>9
  <2>2. m.phase = heard'.phase /\ m.open = heard'.open /\ s.phase # "stopped"
    BY <1>1, <1>3, <1>6, <1>7, <1>9, <2>1, BlockStartSays
  <2>3. HeardTyped'
    BY <1>4, <1>5, <2>1 DEF HeardTyped, EventTypes
  <2> QED BY <1>1, <1>9, <2>1, <2>2, <2>3
<1>10. CASE type = "content_block_delta"
  <2>1. heard' = [phase |-> heard.phase, open |-> heard.open,
                  last |-> [type |-> "content_block_delta", index |-> e.index]]
    BY <1>2, <1>10
  <2>2. m.phase = heard'.phase /\ m.open = heard'.open /\ s.phase # "stopped"
    BY <1>1, <1>3, <1>6, <1>7, <1>10, <2>1, BlockDeltaSays
  <2>3. HeardTyped'
    BY <1>4, <1>5, <2>1 DEF HeardTyped, EventTypes
  <2> QED BY <1>1, <1>10, <2>1, <2>2, <2>3
<1>11. CASE type = "content_block_stop"
  <2>1. heard' = [phase |-> heard.phase, open |-> heard.open \ {e.index},
                  last |-> [type |-> "content_block_stop", index |-> e.index]]
    BY <1>2, <1>11
  <2>2. m.phase = heard'.phase /\ m.open = heard'.open /\ s.phase # "stopped"
    BY <1>1, <1>3, <1>6, <1>7, <1>11, <2>1, BlockStopSays
  <2>3. HeardTyped'
    BY <1>4, <1>5, <2>1 DEF HeardTyped, EventTypes
  <2> QED BY <1>1, <1>11, <2>1, <2>2, <2>3
<1>12. CASE type = "message_delta"
  <2>1. heard' = [phase |-> heard.phase, open |-> heard.open,
                  last |-> [type |-> "message_delta", index |-> e.index]]
    BY <1>2, <1>12
  <2>2. m.phase = heard'.phase /\ m.open = heard'.open /\ s.phase # "stopped"
    <3>1. e \in Events /\ e.type = "message_delta" /\ s \in Readings /\ m \in Readings
      BY <1>1, <1>6, <1>12
    <3>2. s.phase = "started" /\ s.open = {} /\ m.phase = "started" /\ m.open = {}
      BY <3>1, <1>7, MessageDeltaSays, Zenon
    <3> QED BY <1>1, <2>1, <3>2
  <2>3. HeardTyped'
    BY <1>4, <1>5, <2>1 DEF HeardTyped, EventTypes
  <2> QED BY <1>1, <1>12, <2>1, <2>2, <2>3
<1>13. CASE type = "message_stop"
  <2>1. heard' = [phase |-> "stopped", open |-> heard.open,
                  last |-> [type |-> "message_stop", index |-> e.index]]
    BY <1>2, <1>13
  <2>2. m.phase = heard'.phase /\ m.open = heard'.open /\ s.phase # "stopped"
    <3>1. s.phase # "stopped" /\ s.open = {} /\ m.phase = "stopped" /\ m.open = {}
      BY <1>1, <1>6, <1>7, <1>13, MessageStopSays
    <3> QED BY <1>1, <2>1, <3>1
  <2>3. HeardTyped'
    BY <1>4, <1>5, <2>1 DEF HeardTyped, EventTypes
  <2> QED BY <1>1, <1>13, <2>1, <2>2, <2>3
<1> QED BY <1>8, <1>9, <1>10, <1>11, <1>12, <1>13 DEF EventTypes

-----------------------------------------------------------------------------
(* What the client collects *)

(* The items of the client.                                                     *)
LEMMA ItemsAre ==
  ASSUME TypeOK
  PROVE  /\ client.items \in Seq(Items) /\ Newest \in Nat /\ client.texts \in Nat
         /\ \A n \in 1..Newest : /\ client.items[n] \in Items
                                 /\ client.items[n].of \in Sources /\ client.items[n].index \in Blocks
                                 /\ client.items[n].got \in Seq(Sources)
<1>1. client.items \in Seq(Items) /\ Newest = Len(client.items) /\ client.texts \in Nat
  BY DEF TypeOK, Newest
<1>2. \A n \in 1..Newest : client.items[n] \in Items
  BY <1>1
<1> QED BY <1>1, <1>2 DEF Items

(* A block belongs to one source.                                               *)
LEMMA OwnsOne ==
  ASSUME TypeOK, NEW j, NEW k, NEW i, Owns(World, j, i), Owns(World, k, i)
  PROVE  j = k
BY DEF TypeOK, Owns, World

(* The newest item of an open block is found.                                   *)
LEMMA NewestAtIs ==
  ASSUME TypeOK, NEW i, NEW n \in 1..Newest, Latest(n, i)
  PROVE  NewestAt(i) \in 1..Newest /\ client.items[NewestAt(i)].index = i
<1>1. \E x \in 1..Newest : /\ client.items[x].index = i
                           /\ \A y \in x+1..Newest : client.items[y].index # i
  BY DEF Latest
<1> QED BY <1>1 DEF NewestAt

(* A step that changes neither what the items are of nor where they are.        *)
LEMMA SameShape ==
  ASSUME Newest' = Newest,
         \A n \in 1..Newest : /\ client'.items[n].of = client.items[n].of
                              /\ client'.items[n].index = client.items[n].index
  PROVE  /\ \A k : ItemsOf(k)' = ItemsOf(k)
         /\ \A n \in 1..Newest : \A i : Latest(n, i) => Latest(n, i)'
<1>1. \A k : ItemsOf(k)' = ItemsOf(k)
  BY DEF ItemsOf
<1>2. ASSUME NEW n \in 1..Newest, NEW i, Latest(n, i)
      PROVE  Latest(n, i)'
  <2>1. client'.items[n].index = i
    BY <1>2 DEF Latest
  <2>2. ASSUME NEW y \in (n+1)..Newest PROVE client'.items[y].index # i
    <3>1. y \in 1..Newest
      BY DEF Newest
    <3> QED BY <1>2, <3>1 DEF Latest
  <2> QED BY <2>1, <2>2 DEF Latest
<1> QED BY <1>1, <1>2

(* The client gets nothing that counts.                                         *)
LEMMA QuietMatches ==
  ASSUME NEW s, NEW m, Matches(s), m.count = s.count, m.named = s.named,
         client'.items = client.items, client'.texts = client.texts,
         client'.overlap = client.overlap
  PROVE  Matches(m)'
<1>1. Newest' = Newest
  BY DEF Newest
<1>2. \A k : ItemsOf(k)' = ItemsOf(k)
  BY <1>1 DEF ItemsOf
<1> QED BY <1>1, <1>2 DEF Matches, Collected

(* And what it has stays as it is.                                              *)
LEMMA QuietShown ==
  ASSUME Shown, UNCHANGED <<surface, upstream, aborted>>,
         client'.items = client.items, client'.overlap = client.overlap,
         \A i \in heard'.open : i \in heard.open \/ (surface = "openai" /\ i = 0)
  PROVE  Shown'
<1>1. Newest' = Newest /\ World' = World
  BY DEF Newest, World, upstream
<1>2. \A n, i : Latest(n, i)' <=> Latest(n, i)
  BY <1>1 DEF Latest
<1>3. OwnFragments' <=> OwnFragments
  BY <1>1 DEF OwnFragments
<1> QED BY <1>1, <1>2, <1>3 DEF Shown

(* A new item, and the ones before it.                                          *)
LEMMA AddIs ==
  ASSUME TypeOK, NEW it \in Items, client'.items = Append(client.items, it)
  PROVE  /\ Newest' = Newest + 1 /\ Newest \in Nat
         /\ client'.items \in Seq(Items)
         /\ \A n \in 1..Newest : client'.items[n] = client.items[n]
         /\ client'.items[Newest + 1] = it
<1>1. client.items \in Seq(Items) /\ Newest = Len(client.items) /\ Newest \in Nat
  BY ItemsAre DEF Newest
<1>2. /\ client'.items \in Seq(Items) /\ Len(client'.items) = Len(client.items) + 1
      /\ \A n \in 1..Len(client.items) : client'.items[n] = client.items[n]
      /\ client'.items[Len(client.items) + 1] = it
  BY <1>1, AppendProperties
<1> QED BY <1>1, <1>2 DEF Newest

(* The first of a call, or text on a surface that announces it.                 *)
LEMMA AddMatches ==
  ASSUME TypeOK, NEW s \in Readings, NEW m \in Readings, Matches(s), m.count = s.count,
         NEW k \in Sources, m.named = s.named \cup ({k} \cap Calls), k \notin s.named,
         NEW it \in Items, client'.items = Append(client.items, it), it.of = k, it.got = <<>>,
         client'.texts = client.texts, client.overlap => client'.overlap
  PROVE  Matches(m)'
<1>1. /\ Newest' = Newest + 1 /\ Newest \in Nat
      /\ \A n \in 1..Newest : client'.items[n] = client.items[n]
      /\ client'.items[Newest + 1] = it
  BY AddIs
<1>2. /\ \A n \in 1..Newest' : n \in 1..Newest \/ n = Newest + 1
      /\ \A n \in 1..Newest : n \in 1..Newest'
      /\ Newest + 1 \in 1..Newest'
  BY <1>1
<1>3. ASSUME NEW j, j # k PROVE ItemsOf(j)' = ItemsOf(j)
  BY <1>1, <1>2, <1>3 DEF ItemsOf
<1>4. ASSUME k \in Calls PROVE ItemsOf(k)' = {Newest + 1} /\ s.count[k] = 0
  <2>1. \A n \in 1..Newest : client.items[n].of # k
    BY <1>4 DEF Matches
  <2>2. s.count[k] = 0
    BY <1>4 DEF Matches
  <2> QED BY <1>1, <1>2, <2>1, <2>2 DEF ItemsOf
<1>5. ASSUME ~client'.overlap PROVE Collected(m)'
  <2>1. Collected(s)
    BY <1>5 DEF Matches
  <2>2. client'.texts = m.count["text"]
    BY <2>1 DEF Collected
  <2>3. ASSUME NEW j \in m.named
        PROVE  \E n \in ItemsOf(j)' : ItemsOf(j)' = {n} /\ Len(client'.items[n].got) = m.count[j]
    <3>1. CASE j = k
      <4>1. j \in Calls
        BY <2>3, <3>1 DEF Readings
      <4>2. Len(client'.items[Newest + 1].got) = 0
        <5>1. Len(<<>>) = 0
          OBVIOUS
        <5> QED BY <1>1, <5>1
      <4>3. ItemsOf(j)' = {Newest + 1} /\ m.count[j] = 0
        BY <1>4, <3>1, <4>1
      <4> QED BY <4>2, <4>3
    <3>2. CASE j # k
      <4>1. j \in s.named
        BY <2>3, <3>2
      <4>2. PICK n \in ItemsOf(j) : ItemsOf(j) = {n} /\ Len(client.items[n].got) = s.count[j]
        BY <2>1, <4>1 DEF Collected
      <4>3. n \in 1..Newest
        BY <4>2 DEF ItemsOf
      <4>4. ItemsOf(j)' = {n} /\ client'.items[n] = client.items[n]
        BY <1>1, <1>3, <3>2, <4>2, <4>3
      <4> QED BY <4>2, <4>4
    <3> QED BY <3>1, <3>2
  <2> QED BY <2>2, <2>3 DEF Collected
<1>6. \A n \in 1..Newest' : client'.items[n].of \in Calls => client'.items[n].of \in m.named
  <2>1. ASSUME NEW n \in 1..Newest', client'.items[n].of \in Calls
        PROVE  client'.items[n].of \in m.named
    <3>1. CASE n \in 1..Newest
      <4>1. client'.items[n] = client.items[n]
        BY <1>1, <3>1
      <4>2. client.items[n].of \in s.named
        BY <2>1, <3>1, <4>1 DEF Matches
      <4> QED BY <4>1, <4>2
    <3>2. CASE n = Newest + 1
      BY <1>1, <2>1, <3>2
    <3> QED BY <1>2, <3>1, <3>2
  <2> QED BY <2>1
<1>7. \A j \in Calls \ m.named : m.count[j] = 0
  BY DEF Matches
<1> QED BY <1>5, <1>6, <1>7 DEF Matches

(* It is the newest of its block.                                               *)
LEMMA AddShown ==
  ASSUME TypeOK, Shown, UNCHANGED <<surface, upstream, aborted>>,
         NEW k \in Sources, NEW i \in Blocks, Owns(World, k, i),
         NEW it \in Items, client'.items = Append(client.items, it),
         it.of = k, it.index = i, it.got = <<>>,
         client.overlap => client'.overlap, heard'.open = heard.open \cup {i}
  PROVE  Shown'
<1>1. /\ Newest' = Newest + 1 /\ Newest \in Nat
      /\ \A n \in 1..Newest : client'.items[n] = client.items[n]
      /\ client'.items[Newest + 1] = it
  BY AddIs
<1>2. /\ \A n \in 1..Newest' : n \in 1..Newest \/ n = Newest + 1
      /\ \A n \in 1..Newest : n \in 1..Newest'
      /\ Newest + 1 \in 1..Newest' /\ ((Newest + 1) + 1)..Newest' = {}
  BY <1>1
<1>3. World' = World
  BY DEF World, upstream
<1>4. \A n \in 1..Newest' : Owns(World, client'.items[n].of, client'.items[n].index)
  <2>1. \A n \in 1..Newest : Owns(World, client.items[n].of, client.items[n].index)
    BY DEF Shown
  <2> QED BY <1>1, <1>2, <2>1
<1>5. \E n \in 1..Newest' : Latest(n, i)'
  <2>1. PICK n \in 1..Newest' : n = Newest + 1
    BY <1>2
  <2>2. client'.items[n].index = i
    BY <1>1, <2>1
  <2>3. (n + 1)..Newest' = {}
    BY <1>2, <2>1
  <2>4. Latest(n, i)'
    BY <2>2, <2>3 DEF Latest
  <2> QED BY <2>4
<1>6. ASSUME NEW b \in heard'.open
      PROVE  (surface = "openai" /\ b = 0) \/ \E n \in 1..Newest' : Latest(n, b)'
  <2>1. CASE b = i
    BY <1>2, <1>5, <2>1
  <2>2. CASE b # i /\ ~(surface = "openai" /\ b = 0)
    <3>1. b \in heard.open
      BY <1>6, <2>2
    <3>2. PICK n \in 1..Newest : Latest(n, b)
      BY <2>2, <3>1 DEF Shown
    <3>3. n \in 1..Newest' /\ client'.items[n].index = b
      BY <1>1, <1>2, <3>2 DEF Latest
    <3>4. ASSUME NEW y \in (n+1)..Newest' PROVE client'.items[y].index # b
      <4>1. (y \in (n+1)..Newest /\ y \in 1..Newest) \/ y = Newest + 1
        BY <1>1
      <4>2. CASE y \in (n+1)..Newest /\ y \in 1..Newest
        <5>1. client'.items[y] = client.items[y] /\ client.items[y].index # b
          BY <1>1, <3>2, <4>2 DEF Latest
        <5> QED BY <5>1
      <4> QED BY <1>1, <2>2, <4>1, <4>2
    <3>5. Latest(n, b)'
      BY <3>3, <3>4 DEF Latest
    <3> QED BY <3>3, <3>5
  <2> QED BY <2>1, <2>2
<1>7. ASSUME ~client'.overlap PROVE OwnFragments'
  <2>1. OwnFragments
    BY <1>7 DEF Shown
  <2>2. ASSUME NEW n \in 1..Newest', NEW f \in Range(client'.items[n].got)
        PROVE  f = client'.items[n].of
    <3>1. CASE n \in 1..Newest
      <4>1. client'.items[n] = client.items[n]
        BY <1>1, <3>1
      <4> QED BY <2>1, <2>2, <3>1, <4>1 DEF OwnFragments
    <3>2. CASE n = Newest + 1
      <4>1. client'.items[n].got = <<>>
        BY <1>1, <3>2
      <4>2. Range(<<>>) = {}
        BY DEF Range
      <4> QED BY <2>2, <4>1, <4>2
    <3> QED BY <1>2, <3>1, <3>2
  <2> QED BY <2>2 DEF OwnFragments
<1>8. surface' = surface
  OBVIOUS
<1> QED BY <1>3, <1>4, <1>6, <1>7, <1>8 DEF Shown

(* A fragment of source k, wherever it goes.                                    *)
LEMMA DeltaMatches ==
  ASSUME TypeOK, NEW s \in Readings, NEW m \in Readings, Matches(s), m.named = s.named,
         NEW k \in Sources, m.count = Counted(s.count, k, 1), k \in Calls => k \in s.named,
         Newest' = Newest, client'.overlap = client.overlap,
         \A x \in 1..Newest : /\ client'.items[x].of = client.items[x].of
                              /\ client'.items[x].index = client.items[x].index,
         ~client.overlap =>
            /\ client'.texts = IF k = "text" THEN client.texts + 1 ELSE client.texts
            /\ \A x \in 1..Newest : client.items[x].of \in Calls =>
                  Len(client'.items[x].got) = Len(client.items[x].got)
                                              + (IF client.items[x].of = k THEN 1 ELSE 0)
  PROVE  Matches(m)'
<1>1. \A j : ItemsOf(j)' = ItemsOf(j)
  BY SameShape
<1>2. /\ s.count \in [Sources -> Nat] /\ s.named \subseteq Calls
      /\ \A j \in Sources : m.count[j] = s.count[j] + (IF j = k THEN 1 ELSE 0)
  BY DEF Readings, Counted
<1>3. "text" \in Sources /\ Calls \subseteq Sources
  BY DEF Sources
<1>4. ASSUME ~client'.overlap PROVE Collected(m)'
  <2>1. ~client.overlap
    BY <1>4
  <2>2. Collected(s)
    BY <2>1 DEF Matches
  <2>3. client'.texts = m.count["text"]
    <3>1. client.texts = s.count["text"]
      BY <2>2 DEF Collected
    <3>2. m.count["text"] = s.count["text"] + (IF "text" = k THEN 1 ELSE 0) /\ s.count["text"] \in Nat
      BY <1>2, <1>3
    <3>3. client'.texts = IF k = "text" THEN client.texts + 1 ELSE client.texts
      BY <2>1
    <3>4. CASE k = "text"
      BY <3>1, <3>2, <3>3, <3>4
    <3>5. CASE k # "text"
      BY <3>1, <3>2, <3>3, <3>5
    <3> QED BY <3>4, <3>5
  <2>4. ASSUME NEW j \in m.named
        PROVE  \E n \in ItemsOf(j)' : ItemsOf(j)' = {n} /\ Len(client'.items[n].got) = m.count[j]
    <3>1. j \in s.named /\ j \in Calls /\ j \in Sources
      BY <1>2, <1>3, <2>4
    <3>2. PICK n \in ItemsOf(j) : ItemsOf(j) = {n} /\ Len(client.items[n].got) = s.count[j]
      BY <2>2, <3>1 DEF Collected
    <3>3. n \in 1..Newest /\ client.items[n].of = j
      BY <3>2 DEF ItemsOf
    <3>4. Len(client'.items[n].got) = Len(client.items[n].got) + (IF j = k THEN 1 ELSE 0)
      BY <2>1, <3>1, <3>3
    <3> QED BY <1>1, <1>2, <3>1, <3>2, <3>4
  <2> QED BY <2>3, <2>4 DEF Collected
<1>5. \A n \in 1..Newest' : client'.items[n].of \in Calls => client'.items[n].of \in m.named
  BY DEF Matches
<1>6. ASSUME NEW j \in Calls \ m.named PROVE m.count[j] = 0
  <2>1. j \in Sources /\ j # k /\ j \in Calls \ s.named
    BY <1>3
  <2>2. s.count[j] = 0
    BY <2>1 DEF Matches
  <2>3. m.count[j] = s.count[j] + 0
    BY <1>2, <2>1
  <2> QED BY <2>2, <2>3
<1> QED BY <1>4, <1>5, <1>6 DEF Matches

(* No item gets what was not sent for it.                                       *)
LEMMA SameShapeShown ==
  ASSUME Shown, UNCHANGED <<surface, upstream, aborted>>,
         Newest' = Newest, client'.overlap = client.overlap,
         \A x \in 1..Newest : /\ client'.items[x].of = client.items[x].of
                              /\ client'.items[x].index = client.items[x].index,
         ~client.overlap =>
            \A x \in 1..Newest : \A f \in Range(client'.items[x].got) :
               f \in Range(client.items[x].got) \/ f = client.items[x].of,
         heard'.open \subseteq heard.open
  PROVE  Shown'
<1>1. World' = World
  BY DEF World, upstream
<1>2. \A n \in 1..Newest : \A i : Latest(n, i) => Latest(n, i)'
  BY SameShape
<1>3. \A n \in 1..Newest' : Owns(World', client'.items[n].of, client'.items[n].index)
  BY <1>1 DEF Shown
<1>4. \A i \in heard'.open : (surface' = "openai" /\ i = 0) \/ \E n \in 1..Newest' : Latest(n, i)'
  BY <1>2 DEF Shown
<1>5. ~client'.overlap => OwnFragments'
  BY DEF Shown, OwnFragments
<1> QED BY <1>3, <1>4, <1>5 DEF Shown

(* What a client gets with a fragment in its nth item.                          *)
LEMMA ReceiveIs ==
  ASSUME TypeOK, NEW n \in 1..Newest, e.of \in Sources, client' = Receive(n)
  PROVE  /\ Newest' = Newest /\ ClientTyped' /\ client'.overlap = client.overlap
         /\ client'.ends = client.ends
         /\ client'.texts = IF e.of = "text" THEN client.texts + 1 ELSE client.texts
         /\ \A x \in 1..Newest : /\ client'.items[x].of = client.items[x].of
                                 /\ client'.items[x].index = client.items[x].index
                                 /\ x # n => client'.items[x].got = client.items[x].got
         /\ client'.items[n].got = Append(client.items[n].got, e.of)
<1>1. ClientTyped /\ client.items \in Seq(Items) /\ Newest = Len(client.items)
  BY Typed, ItemsAre DEF Newest
<1>2. client.items[n] \in Items /\ client.items[n].got \in Seq(Sources)
  BY ItemsAre
<1> DEFINE k == e.of
<1>3. k \in Sources
  OBVIOUS
<1>4. client' = [client EXCEPT !.items[n].got = Append(@, k), !.texts = IF k = "text" THEN @ + 1 ELSE @]
  BY DEF Receive
<1> HIDE DEF k
<1> DEFINE got == Append(client.items[n].got, k)
           it == [client.items[n] EXCEPT !.got = got]
<1>5. got \in Seq(Sources)
  BY <1>2, <1>3
<1>6. client' = [client EXCEPT !.items = [client.items EXCEPT ![n] = it],
                               !.texts = IF k = "text" THEN @ + 1 ELSE @]
  BY <1>1, <1>4 DEF ClientTyped
<1> HIDE DEF got
<1>7. /\ it \in Items /\ it.of = client.items[n].of /\ it.index = client.items[n].index
      /\ it.got = got
  BY <1>2, <1>5 DEF Items
<1> HIDE DEF it
<1> DEFINE items == [client.items EXCEPT ![n] = it]
<1>8. /\ items \in Seq(Items) /\ Len(items) = Len(client.items)
      /\ \A x \in 1..Len(client.items) : items[x] = IF x = n THEN it ELSE client.items[x]
  BY <1>1, <1>7
<1> HIDE DEF items
<1> DEFINE texts == IF k = "text" THEN client.texts + 1 ELSE client.texts
<1>9. texts \in Nat /\ client' = [client EXCEPT !.items = items, !.texts = texts]
  <2>1. client.texts \in Nat
    BY ItemsAre
  <2>2. texts \in Nat
    BY <2>1
  <2>3. client' = [client EXCEPT !.items = items, !.texts = texts]
    BY <1>6 DEF items
  <2> QED BY <2>2, <2>3
<1> HIDE DEF texts
<1>10. /\ client'.items = items /\ client'.overlap = client.overlap /\ client'.ends = client.ends
       /\ client'.texts = texts /\ ClientTyped'
  BY <1>1, <1>8, <1>9 DEF ClientTyped
<1>11. Newest' = Newest
  BY <1>1, <1>8, <1>10 DEF Newest
<1>12. \A x \in 1..Newest : client'.items[x] = IF x = n THEN it ELSE client.items[x]
  BY <1>1, <1>8, <1>10
<1>13. client'.items[n].got = Append(client.items[n].got, e.of)
  BY <1>7, <1>12 DEF got, k
<1> QED BY <1>7, <1>10, <1>11, <1>12, <1>13 DEF k, texts

(* The end of the client's nth item.                                            *)
LEMMA DoneIs ==
  ASSUME TypeOK, NEW n \in 1..Newest, client' = [client EXCEPT !.items[n].done = TRUE]
  PROVE  /\ Newest' = Newest /\ ClientTyped' /\ client'.overlap = client.overlap
         /\ client'.ends = client.ends /\ client'.texts = client.texts /\ client'.finish = client.finish
         /\ \A x \in 1..Newest : /\ client'.items[x].of = client.items[x].of
                                 /\ client'.items[x].index = client.items[x].index
                                 /\ client'.items[x].got = client.items[x].got
<1>1. ClientTyped /\ client.items \in Seq(Items) /\ Newest = Len(client.items)
  BY Typed, ItemsAre DEF Newest
<1>2. client.items[n] \in Items
  BY ItemsAre
<1> DEFINE it == [client.items[n] EXCEPT !.done = TRUE]
<1>3. client' = [client EXCEPT !.items = [client.items EXCEPT ![n] = it]]
  BY <1>1 DEF ClientTyped
<1>4. /\ it \in Items /\ it.of = client.items[n].of /\ it.index = client.items[n].index
      /\ it.got = client.items[n].got
  BY <1>2 DEF Items
<1> HIDE DEF it
<1> DEFINE items == [client.items EXCEPT ![n] = it]
<1>5. /\ items \in Seq(Items) /\ Len(items) = Len(client.items)
      /\ \A x \in 1..Len(client.items) : items[x] = IF x = n THEN it ELSE client.items[x]
  BY <1>1, <1>4
<1> HIDE DEF items
<1>6. client' = [client EXCEPT !.items = items]
  BY <1>3 DEF items
<1>7. /\ client'.items = items /\ client'.overlap = client.overlap /\ client'.ends = client.ends
      /\ client'.texts = client.texts /\ client'.finish = client.finish /\ ClientTyped'
  BY <1>1, <1>5, <1>6 DEF ClientTyped
<1>8. Newest' = Newest
  BY <1>1, <1>5, <1>7 DEF Newest
<1>9. \A x \in 1..Newest : client'.items[x] = IF x = n THEN it ELSE client.items[x]
  BY <1>1, <1>5, <1>7
<1> QED BY <1>4, <1>7, <1>8, <1>9

(* A new item.                                                                  *)
LEMMA AddedIs ==
  ASSUME TypeOK, NEW overlap \in BOOLEAN, e.of \in Sources, e.index \in Blocks,
         client' = [Add EXCEPT !.overlap = overlap]
  PROVE  /\ ClientTyped' /\ client'.overlap = overlap /\ client'.ends = client.ends
         /\ client'.texts = client.texts /\ client'.finish = client.finish
         /\ \E it \in Items : /\ client'.items = Append(client.items, it)
                              /\ it.of = e.of /\ it.index = e.index /\ it.got = <<>>
<1>1. ClientTyped /\ client.items \in Seq(Items)
  BY Typed, ItemsAre
<1> DEFINE it == [of |-> e.of, index |-> e.index, got |-> <<>>, done |-> FALSE]
           items == Append(client.items, it)
<1>2. client' = [[client EXCEPT !.items = items] EXCEPT !.overlap = overlap]
  BY DEF Add
<1>3. it \in Items /\ it.of = e.of /\ it.index = e.index /\ it.got = <<>>
  BY DEF Items
<1> HIDE DEF it
<1>4. items \in Seq(Items)
  BY <1>1, <1>3
<1> HIDE DEF items
<1>5. /\ ClientTyped' /\ client'.items = items /\ client'.overlap = overlap
      /\ client'.ends = client.ends
      /\ client'.texts = client.texts /\ client'.finish = client.finish
  BY <1>1, <1>2, <1>4 DEF ClientTyped
<1> QED BY <1>3, <1>5 DEF items

(* Where nothing is said of the overlap it stays.                               *)
LEMMA AddIsAdded ==
  ASSUME TypeOK
  PROVE  client.overlap \in BOOLEAN /\ Add = [Add EXCEPT !.overlap = client.overlap]
<1>1. ClientTyped
  BY Typed
<1> DEFINE items == Append(client.items, [of |-> e.of, index |-> e.index, got |-> <<>>, done |-> FALSE])
<1>2. Add = [client EXCEPT !.items = items]
  BY DEF Add
<1> HIDE DEF items
<1> QED BY <1>1, <1>2 DEF ClientTyped

(* The other frames of the client.                                              *)
LEMMA FrameIs ==
  ASSUME TypeOK,
         NEW created \in BOOLEAN,
         NEW finish \in Finishes \cup Reasons \cup {NoFinish, "completed", "incomplete"},
         NEW ends \in Seq({"completed", "failed"}),
         client' = [client EXCEPT !.created = created, !.finish = finish, !.ends = ends]
  PROVE  /\ ClientTyped' /\ client'.items = client.items /\ client'.overlap = client.overlap
         /\ client'.texts = client.texts /\ client'.ends = ends /\ client'.finish = finish
<1>1. ClientTyped
  BY Typed
<1> QED BY <1>1 DEF ClientTyped

-----------------------------------------------------------------------------
(* What a sink does with an event *)

(* What holds after an event that led to reading m.                             *)
Pulled(m) ==
  /\ Matches(m)' /\ Reports(m)'
  /\ Shown' /\ OneCurrent' /\ Ended' /\ Faithful'
  /\ ClientTyped' /\ fsm' \in 0..Newest' /\ stop' \in Reasons \cup {NoFinish}

(* What it means to pull the start of a block.                                  *)
LEMMA StartSaid ==
  ASSUME NEW s, NEW m, Pulling(s, m), e.type = "content_block_start"
  PROVE  /\ Owns(World, e.of, e.index) /\ e.of \notin s.named /\ e.of \in Sources
         /\ m.open = s.open \cup {e.index}
         /\ m.named = s.named \cup ({e.of} \cap Calls) /\ m.count = s.count /\ m.told = s.told
         /\ e.index \in Blocks
<1> DEFINE w == World
           a == e
<1>1. Says(w, s, a, m) /\ a \in Events /\ a.type = "content_block_start" /\ s \in Readings /\ m \in Readings
  BY DEF Pulling
<1>2. /\ Owns(w, a.of, a.index) /\ a.of \notin s.named /\ a.of \in Sources
      /\ m.open = s.open \cup {a.index}
      /\ m.named = s.named \cup ({a.of} \cap Calls) /\ m.count = s.count /\ m.told = s.told
  <2> HIDE DEF w, a
  <2> QED BY <1>1 DEF Says, Readings, Owns, Sources, Counted
<1>3. e.index \in Blocks
  BY <1>1 DEF Events
<1> QED BY <1>2, <1>3

(* A fragment.                                                                  *)
LEMMA DeltaSaid ==
  ASSUME NEW s, NEW m, Pulling(s, m), e.type = "content_block_delta"
  PROVE  /\ Owns(World, e.of, e.index) /\ e.index \in s.open /\ e.of \in Sources
         /\ m.open = s.open /\ m.named = s.named
         /\ m.count = Counted(s.count, e.of, 1) /\ m.told = s.told
         /\ e.index \in Blocks
<1> DEFINE w == World
           a == e
<1>1. Says(w, s, a, m) /\ a \in Events /\ a.type = "content_block_delta" /\ s \in Readings /\ m \in Readings
  BY DEF Pulling
<1>2. /\ Owns(w, a.of, a.index) /\ a.index \in s.open /\ a.of \in Sources
      /\ m.open = s.open /\ m.named = s.named
      /\ m.count = Counted(s.count, a.of, 1) /\ m.told = s.told
  <2> HIDE DEF w, a
  <2> QED BY <1>1, BlockDeltaSays
<1>3. e.index \in Blocks
  BY <1>1 DEF Events
<1> QED BY <1>2, <1>3

(* The end of a block.                                                          *)
LEMMA StopSaid ==
  ASSUME NEW s, NEW m, Pulling(s, m), e.type = "content_block_stop"
  PROVE  /\ e.index \in s.open /\ m.open = s.open \ {e.index}
         /\ m.named = s.named /\ m.count = s.count /\ m.told = s.told
         /\ e.index \in Blocks
<1> DEFINE w == World
           a == e
<1>1. Says(w, s, a, m) /\ a \in Events /\ a.type = "content_block_stop" /\ s \in Readings /\ m \in Readings
  BY DEF Pulling
<1>2. /\ a.index \in s.open /\ m.open = s.open \ {a.index}
      /\ m.named = s.named /\ m.count = s.count /\ m.told = s.told
  <2> HIDE DEF w, a
  <2> QED BY <1>1 DEF Says, Readings
<1>3. e.index \in Blocks
  BY <1>1 DEF Events
<1> QED BY <1>2, <1>3

(* The stop reason.                                                             *)
LEMMA ReasonSaid ==
  ASSUME NEW s, NEW m, Pulling(s, m), e.type = "message_delta"
  PROVE  /\ e.of \in Reasons /\ s.open = {} /\ m.open = {}
         /\ m.named = s.named /\ m.count = s.count /\ m.told = e.of
         /\ e.index \in Blocks
<1> DEFINE w == World
           a == e
<1>1. Says(w, s, a, m) /\ a \in Events /\ a.type = "message_delta" /\ s \in Readings /\ m \in Readings
  BY DEF Pulling
<1>2. /\ a.of \in Reasons /\ s.open = {} /\ m.open = {}
      /\ m.named = s.named /\ m.count = s.count /\ m.told = a.of
  <2> HIDE DEF w, a
  <2> QED BY <1>1 DEF Says, Readings
<1>3. e.index \in Blocks
  BY <1>1 DEF Events
<1> QED BY <1>2, <1>3

(* The end of the message.                                                      *)
LEMMA EndSaid ==
  ASSUME NEW s, NEW m, Pulling(s, m), e.type = "message_stop"
  PROVE  /\ World.returned /\ Complete(World, s) /\ s.open = {} /\ m.open = {}
         /\ m.named = s.named /\ m.count = s.count /\ m.told = s.told
         /\ e.index \in Blocks
<1> DEFINE w == World
           a == e
<1>1. Says(w, s, a, m) /\ a \in Events /\ a.type = "message_stop" /\ s \in Readings /\ m \in Readings
  BY DEF Pulling
<1>2. /\ w.returned /\ Complete(w, s) /\ s.open = {} /\ m.open = {}
      /\ m.named = s.named /\ m.count = s.count /\ m.told = s.told
  <2> HIDE DEF w, a
  <2> QED BY <1>1, MessageStopSays
<1>3. e.index \in Blocks
  BY <1>1 DEF Events
<1> QED BY <1>2, <1>3

(* The start of the message.                                                    *)
LEMMA BeginSaid ==
  ASSUME NEW s, NEW m, Pulling(s, m), e.type = "message_start"
  PROVE  /\ m.open = s.open /\ m.named = s.named /\ m.count = s.count /\ m.told = s.told
         /\ e.index \in Blocks
<1> DEFINE w == World
           a == e
<1>1. Says(w, s, a, m) /\ a \in Events /\ a.type = "message_start" /\ s \in Readings /\ m \in Readings
  BY DEF Pulling
<1>2. /\ m.open = s.open /\ m.named = s.named /\ m.count = s.count /\ m.told = s.told
  <2> HIDE DEF w, a
  <2> QED BY <1>1, MessageStartSays
<1>3. e.index \in Blocks
  BY <1>1 DEF Events
<1> QED BY <1>2, <1>3

(* Before the message stops the stream does not end, and nothing is complete.   *)
LEMMA GoesOn ==
  ASSUME NEW s, NEW m, Pulling(s, m), Shown', client'.ends = client.ends,
         NEW type \in EventTypes \ {"return", "throw", "message_stop"}, Pull(type)
  PROVE  Ended' /\ Faithful'
<1>1. heard'.phase # "stopped" /\ s.phase # "stopped"
  BY Hears
<1>2. heard.phase # "stopped" /\ client.ends = <<>>
  BY <1>1 DEF Pulling, Told, Ended, Running
<1>3. cleanup' = {}
  BY DEF Pull, Pulls, Running
<1>4. Ended'
  BY <1>1, <1>2, <1>3 DEF Ended
<1>5. Faithful'
  BY <1>1 DEF Faithful, Shown
<1> QED BY <1>4, <1>5

(* The finish the client was told is still what the events said.                *)
LEMMA SameReports ==
  ASSUME NEW s, NEW m, Reports(s), m.told = s.told, client'.finish = client.finish,
         stop' = stop, surface' = surface
  PROVE  Reports(m)'
BY DEF Reports

(* An event after which the client has what it had.                             *)
LEMMA QuietPull ==
  ASSUME NEW s, NEW m, Pulling(s, m),
         NEW type \in EventTypes \ {"return", "throw", "message_stop"}, Pull(type),
         m.count = s.count, m.named = s.named, m.told = s.told,
         ClientTyped', client'.items = client.items, client'.texts = client.texts,
         client'.overlap = client.overlap, client'.ends = client.ends,
         client'.finish = client.finish, UNCHANGED <<fsm, stop>>,
         \/ heard'.open = heard.open
         \/ surface = "openai" /\ \A i \in heard'.open : i \in heard.open \/ i = 0
  PROVE  Pulled(m)
<1>1. TypeOK /\ Matches(s) /\ Reports(s) /\ Shown /\ OneCurrent
  BY DEF Pulling, Told
<1>2. UNCHANGED <<surface, upstream, aborted>>
  BY DEF Pull
<1>3. Matches(m)'
  BY <1>1, QuietMatches
<1>4. Reports(m)'
  BY <1>1, <1>2, SameReports
<1>5. Shown'
  BY <1>1, <1>2, QuietShown
<1>6. Newest' = Newest
  BY DEF Newest
<1>7. OneCurrent'
  BY <1>1, <1>2 DEF OneCurrent
<1>8. Ended' /\ Faithful'
  BY <1>5, GoesOn
<1>9. fsm' \in 0..Newest' /\ stop' \in Reasons \cup {NoFinish}
  BY <1>1, <1>6 DEF TypeOK
<1> QED BY <1>3, <1>4, <1>5, <1>7, <1>8, <1>9 DEF Pulled

(* An event that adds an item.                                                  *)
LEMMA AddPull ==
  ASSUME NEW s, NEW m, Pulling(s, m), Pull("content_block_start"), NEW overlap \in BOOLEAN,
         client' = [Add EXCEPT !.overlap = overlap], client.overlap => overlap,
         fsm' = fsm \/ fsm' = Newest + 1, stop' = stop,
         surface = "responses" => fsm' = Newest + 1 /\ (~overlap => fsm = 0)
  PROVE  Pulled(m)
<1>1. TypeOK /\ Matches(s) /\ Reports(s) /\ Shown /\ OneCurrent /\ s \in Readings /\ m \in Readings
  BY DEF Pulling, Told
<1>2. UNCHANGED <<surface, upstream, aborted>> /\ e.type = "content_block_start"
  BY DEF Pull, Pulls
<1>3. e \in Events /\ Says(World, s, e, m) /\ s.open = heard.open
  BY DEF Pulling, Told
<1>4. /\ Owns(World, e.of, e.index) /\ e.of \notin s.named /\ e.of \in Sources
      /\ m.open = heard.open \cup {e.index}
      /\ m.named = s.named \cup ({e.of} \cap Calls) /\ m.count = s.count /\ m.told = s.told
  BY <1>2, <1>3, StartSaid
<1>5. e.index \in Blocks
  BY <1>3 DEF Events
<1>6. m.open = heard'.open
  BY Hears DEF EventTypes
<1>7. /\ ClientTyped' /\ client'.overlap = overlap /\ client'.ends = client.ends
      /\ client'.texts = client.texts /\ client'.finish = client.finish
  BY <1>1, <1>4, <1>5, AddedIs
<1>8. PICK it \in Items : /\ client'.items = Append(client.items, it)
                          /\ it.of = e.of /\ it.index = e.index /\ it.got = <<>>
  BY <1>1, <1>4, <1>5, AddedIs
<1> DEFINE k == e.of
           i == e.index
<1>9. k \in Sources /\ i \in Blocks /\ Owns(World, k, i) /\ k \notin s.named
      /\ m.named = s.named \cup ({k} \cap Calls) /\ it.of = k /\ it.index = i
      /\ heard'.open = heard.open \cup {i}
  BY <1>4, <1>5, <1>6, <1>8
<1> HIDE DEF k, i
<1>10. Matches(m)'
  BY <1>1, <1>4, <1>7, <1>8, <1>9, AddMatches
<1>11. Shown'
  BY <1>1, <1>2, <1>7, <1>8, <1>9, AddShown
<1>12. Reports(m)'
  BY <1>1, <1>2, <1>4, <1>7, SameReports
<1>13. Newest' = Newest + 1 /\ Newest \in Nat /\ client'.items[Newest + 1] = it
  BY <1>1, <1>8, AddIs
<1>14. OneCurrent'
  <2> SUFFICES ASSUME surface = "responses", ~overlap
               PROVE  heard'.open = IF fsm' = 0 THEN {} ELSE {client'.items[fsm'].index}
    BY <1>2, <1>7 DEF OneCurrent
  <2>1. heard.open = {} /\ fsm' = Newest + 1
    BY <1>1 DEF OneCurrent
  <2> QED BY <1>9, <1>13, <2>1
<1>15. Ended' /\ Faithful'
  BY <1>7, <1>11, GoesOn DEF EventTypes
<1>16. fsm' \in 0..Newest' /\ stop' \in Reasons \cup {NoFinish}
  BY <1>1, <1>13 DEF TypeOK
<1> QED BY <1>7, <1>10, <1>11, <1>12, <1>14, <1>15, <1>16 DEF Pulled

(* The item of the open block an event is for.                                  *)
LEMMA ItsItem ==
  ASSUME NEW s, NEW m, Pulling(s, m), e.index \in heard.open,
         ~(surface = "openai" /\ e.index = 0)
  PROVE  /\ NewestAt(e.index) \in 1..Newest /\ client.items[NewestAt(e.index)].index = e.index
         /\ \A k : Owns(World, k, e.index) =>
               client.items[NewestAt(e.index)].of = k /\ (k \in Calls => k \in s.named)
<1>1. TypeOK /\ Shown /\ Matches(s)
  BY DEF Pulling, Told
<1> DEFINE i == e.index
           n == NewestAt(i)
<1>2. i \in heard.open /\ ~(surface = "openai" /\ i = 0)
  OBVIOUS
<1> HIDE DEF i
<1>3. \E x \in 1..Newest : Latest(x, i)
  BY <1>1, <1>2 DEF Shown
<1>4. n \in 1..Newest /\ client.items[n].index = i
  BY <1>1, <1>3, NewestAtIs
<1> HIDE DEF n
<1>5. ASSUME NEW k, Owns(World, k, i)
      PROVE  client.items[n].of = k /\ (k \in Calls => k \in s.named)
  <2>1. Owns(World, client.items[n].of, i)
    BY <1>1, <1>4 DEF Shown
  <2> DEFINE j == client.items[n].of
  <2>2. Owns(World, j, i)
    BY <2>1
  <2> HIDE DEF j
  <2>3. j = k
    BY <1>1, <1>5, <2>2, OwnsOne
  <2> QED BY <1>1, <1>4, <2>3 DEF Matches, j
<1> QED BY <1>4, <1>5 DEF n, i

(* The current item is the event's, while none was replaced.                    *)
LEMMA ItsCurrent ==
  ASSUME NEW s, NEW m, Pulling(s, m), e.index \in heard.open,
         surface = "responses", ~client.overlap
  PROVE  /\ fsm \in 1..Newest /\ client.items[fsm].index = e.index
         /\ heard.open = {e.index}
         /\ \A k : Owns(World, k, e.index) => client.items[fsm].of = k
<1>1. TypeOK /\ Shown /\ OneCurrent
  BY DEF Pulling
<1>2. fsm # 0 /\ heard.open = {client.items[fsm].index}
  BY <1>1 DEF OneCurrent
<1>3. fsm \in 1..Newest /\ client.items[fsm].index = e.index
  BY <1>1, <1>2 DEF TypeOK
<1>4. Owns(World, client.items[fsm].of, e.index)
  BY <1>1, <1>3 DEF Shown
<1>5. ASSUME NEW k, Owns(World, k, e.index)
      PROVE  client.items[fsm].of = k
  <2> DEFINE j == client.items[fsm].of
             i == e.index
  <2>1. Owns(World, j, i) /\ Owns(World, k, i)
    BY <1>4, <1>5
  <2> HIDE DEF j, i
  <2>2. j = k
    BY <1>1, <2>1, OwnsOne
  <2> QED BY <2>2 DEF j
<1> QED BY <1>2, <1>3, <1>5

(* A step after which the current item is where it was.                         *)
LEMMA SameCurrent ==
  ASSUME TypeOK, OneCurrent, surface' = surface, fsm' = fsm, heard'.open = heard.open,
         client'.overlap = client.overlap,
         \A x \in 1..Newest : client'.items[x].index = client.items[x].index
  PROVE  OneCurrent'
<1> SUFFICES ASSUME surface = "responses", ~client.overlap
             PROVE  heard.open = IF fsm = 0 THEN {} ELSE {client'.items[fsm].index}
  BY DEF OneCurrent
<1>1. heard.open = IF fsm = 0 THEN {} ELSE {client.items[fsm].index}
  BY DEF OneCurrent
<1>2. fsm = 0 \/ fsm \in 1..Newest
  BY DEF TypeOK
<1> QED BY <1>1, <1>2

(* A fragment, for the item it was sent for or for any while items overlap.     *)
LEMMA ReceivePull ==
  ASSUME NEW s, NEW m, Pulling(s, m), Pull("content_block_delta"), NEW n \in 1..Newest,
         client' = Receive(n), UNCHANGED <<fsm, stop>>,
         client.items[n].of = e.of \/ client.overlap,
         ~(surface = "openai" /\ e.index = 0)
  PROVE  Pulled(m)
<1>1. /\ TypeOK /\ Matches(s) /\ Reports(s) /\ Shown /\ OneCurrent /\ s \in Readings /\ m \in Readings
      /\ s.open = heard.open
  BY DEF Pulling, Told
<1>2. UNCHANGED <<surface, upstream, aborted>> /\ e.type = "content_block_delta"
  BY DEF Pull, Pulls
<1>3. /\ Owns(World, e.of, e.index) /\ e.index \in heard.open /\ e.of \in Sources
      /\ m.open = heard.open /\ m.named = s.named
      /\ m.count = Counted(s.count, e.of, 1) /\ m.told = s.told
  BY <1>1, <1>2, DeltaSaid
<1>4. e.of \in Calls => e.of \in s.named
  BY <1>3, ItsItem
<1>5. heard'.open = heard.open
  BY <1>3, Hears DEF EventTypes
<1> DEFINE k == e.of
<1>6. /\ Newest' = Newest /\ ClientTyped' /\ client'.overlap = client.overlap
      /\ client'.ends = client.ends
      /\ client'.texts = IF k = "text" THEN client.texts + 1 ELSE client.texts
      /\ \A x \in 1..Newest : /\ client'.items[x].of = client.items[x].of
                              /\ client'.items[x].index = client.items[x].index
                              /\ x # n => client'.items[x].got = client.items[x].got
      /\ client'.items[n].got = Append(client.items[n].got, k)
  BY <1>1, <1>3, ReceiveIs
<1>7. client'.finish = client.finish
  <2>1. ClientTyped
    BY <1>1, Typed
  <2> QED BY <2>1 DEF ClientTyped, Receive
<1>8. k \in Sources /\ (k \in Calls => k \in s.named) /\ m.count = Counted(s.count, k, 1)
      /\ (client.items[n].of = k \/ client.overlap)
  BY <1>3, <1>4
<1> HIDE DEF k
<1>9. /\ client.items[n].got \in Seq(Sources)
      /\ \A x \in 1..Newest : client.items[x].got \in Seq(Sources)
  BY <1>1, ItemsAre
<1>10. Len(client'.items[n].got) = Len(client.items[n].got) + 1
  BY <1>6, <1>8, <1>9, AppendProperties
<1>11. ASSUME ~client.overlap, NEW x \in 1..Newest, client.items[x].of \in Calls
       PROVE  Len(client'.items[x].got) = Len(client.items[x].got) + (IF client.items[x].of = k THEN 1 ELSE 0)
  <2>1. Len(client.items[x].got) \in Nat
    BY <1>9
  <2>2. CASE x = n
    BY <1>8, <1>10, <1>11, <2>2
  <2>3. CASE x # n
    <3>1. client.items[x].of # k
      <4>1. SUFFICES ASSUME client.items[x].of = k PROVE FALSE
        OBVIOUS
      <4>2. Collected(s) /\ k \in s.named
        BY <1>1, <1>8, <1>11, <4>1 DEF Matches
      <4>3. \E y \in ItemsOf(k) : ItemsOf(k) = {y}
        BY <4>2 DEF Collected
      <4>4. x \in ItemsOf(k) /\ n \in ItemsOf(k)
        BY <1>8, <1>11, <4>1 DEF ItemsOf
      <4> QED BY <2>3, <4>3, <4>4
    <3>2. Len(client'.items[x].got) = Len(client.items[x].got)
      BY <1>6, <2>3
    <3> QED BY <2>1, <3>1, <3>2
  <2> QED BY <2>2, <2>3
<1>12. Matches(m)'
  BY <1>1, <1>3, <1>6, <1>8, <1>11, DeltaMatches
<1>13. ASSUME ~client.overlap, NEW x \in 1..Newest, NEW f \in Range(client'.items[x].got)
       PROVE  f \in Range(client.items[x].got) \/ f = client.items[x].of
  <2>1. CASE x = n
    <3>1. Range(client'.items[n].got) = Range(client.items[n].got) \cup {k}
      BY <1>6, <1>8, <1>9, RangeAppend
    <3> QED BY <1>8, <1>13, <2>1, <3>1
  <2>2. CASE x # n
    BY <1>6, <1>13, <2>2
  <2> QED BY <2>1, <2>2
<1>14. Shown'
  BY <1>1, <1>2, <1>5, <1>6, <1>13, SameShapeShown
<1>15. Reports(m)'
  BY <1>1, <1>2, <1>3, <1>7, SameReports
<1>16. OneCurrent'
  BY <1>1, <1>2, <1>5, <1>6, SameCurrent
<1>17. Ended' /\ Faithful'
  BY <1>6, <1>14, GoesOn DEF EventTypes
<1>18. fsm' \in 0..Newest' /\ stop' \in Reasons \cup {NoFinish}
  BY <1>1, <1>6 DEF TypeOK
<1> QED BY <1>6, <1>12, <1>14, <1>15, <1>16, <1>17, <1>18 DEF Pulled

(* Text on the surface that does not announce it.                               *)
LEMMA TextPull ==
  ASSUME NEW s, NEW m, Pulling(s, m), Pull("content_block_delta"), surface = "openai", e.of = "text",
         client' = [client EXCEPT !.texts = @ + 1], UNCHANGED <<fsm, stop>>
  PROVE  Pulled(m)
<1>1. /\ TypeOK /\ Matches(s) /\ Reports(s) /\ Shown /\ OneCurrent /\ s \in Readings /\ m \in Readings
      /\ s.open = heard.open
  BY DEF Pulling, Told
<1>2. UNCHANGED <<surface, upstream, aborted>> /\ e.type = "content_block_delta"
  BY DEF Pull, Pulls
<1>3. /\ m.open = heard.open /\ m.named = s.named
      /\ m.count = Counted(s.count, "text", 1) /\ m.told = s.told
  BY <1>1, <1>2, DeltaSaid
<1>4. heard'.open = heard.open
  BY <1>3, Hears DEF EventTypes
<1>5. ClientTyped
  BY <1>1, Typed
<1>6. /\ ClientTyped' /\ client'.items = client.items /\ client'.overlap = client.overlap
      /\ client'.ends = client.ends /\ client'.finish = client.finish /\ client'.texts = client.texts + 1
  <2> DEFINE texts == client.texts + 1
  <2>1. texts \in Nat /\ client' = [client EXCEPT !.texts = texts]
    <3>1. client.texts \in Nat
      BY <1>1, ItemsAre
    <3> QED BY <3>1
  <2> HIDE DEF texts
  <2>2. /\ ClientTyped' /\ client'.items = client.items /\ client'.overlap = client.overlap
        /\ client'.ends = client.ends /\ client'.finish = client.finish /\ client'.texts = texts
    BY <1>5, <2>1 DEF ClientTyped
  <2> QED BY <2>2 DEF texts
<1>7. Newest' = Newest
  BY <1>6 DEF Newest
<1>8. "text" \in Sources /\ "text" \notin Calls
  BY StreamsAssumption DEF Sources
<1>9. \A x \in 1..Newest : client.items[x].of \in Calls =>
         Len(client.items[x].got) = Len(client.items[x].got) + (IF client.items[x].of = "text" THEN 1 ELSE 0)
  <2> SUFFICES ASSUME NEW x \in 1..Newest, client.items[x].of \in Calls
               PROVE  Len(client.items[x].got) = Len(client.items[x].got) + 0
    BY <1>8
  <2>1. Len(client.items[x].got) \in Nat
    BY <1>1, ItemsAre
  <2> QED BY <2>1
<1>10. Matches(m)'
  BY <1>1, <1>3, <1>6, <1>7, <1>8, <1>9, DeltaMatches
<1>11. Shown'
  BY <1>1, <1>2, <1>4, <1>6, <1>7, SameShapeShown
<1>12. Reports(m)'
  BY <1>1, <1>2, <1>3, <1>6, SameReports
<1>13. OneCurrent'
  BY <1>1, <1>2, <1>4, <1>6, SameCurrent
<1>14. Ended' /\ Faithful'
  BY <1>6, <1>11, GoesOn DEF EventTypes
<1>15. fsm' \in 0..Newest' /\ stop' \in Reasons \cup {NoFinish}
  BY <1>1, <1>7 DEF TypeOK
<1> QED BY <1>6, <1>10, <1>11, <1>12, <1>13, <1>14, <1>15 DEF Pulled

(* A fragment that does not fit the current item of the Responses translator.   *)
LEMMA DropPull ==
  ASSUME NEW s, NEW m, Pulling(s, m), Pull("content_block_delta"), surface = "responses",
         client.overlap, client' = client, UNCHANGED <<fsm, stop>>
  PROVE  Pulled(m)
<1>1. /\ TypeOK /\ Matches(s) /\ Reports(s) /\ Shown /\ OneCurrent /\ s \in Readings /\ m \in Readings
      /\ s.open = heard.open
  BY DEF Pulling, Told
<1>2. UNCHANGED <<surface, upstream, aborted>> /\ e.type = "content_block_delta"
  BY DEF Pull, Pulls
<1>3. /\ Owns(World, e.of, e.index) /\ e.index \in heard.open /\ e.of \in Sources
      /\ m.open = heard.open /\ m.named = s.named
      /\ m.count = Counted(s.count, e.of, 1) /\ m.told = s.told
  BY <1>1, <1>2, DeltaSaid
<1>4. e.of \in Calls => e.of \in s.named
  BY <1>3, ItsItem
<1>5. heard'.open = heard.open
  BY <1>3, Hears DEF EventTypes
<1>6. ClientTyped' /\ Newest' = Newest
  <2>1. ClientTyped
    BY <1>1, Typed
  <2> QED BY <2>1 DEF ClientTyped, Newest
<1> DEFINE k == e.of
<1>7. k \in Sources /\ (k \in Calls => k \in s.named) /\ m.count = Counted(s.count, k, 1)
  BY <1>3, <1>4
<1> HIDE DEF k
<1>8. Matches(m)'
  BY <1>1, <1>3, <1>6, <1>7, DeltaMatches
<1>9. Shown'
  BY <1>1, <1>2, <1>5, <1>6, SameShapeShown
<1>10. Reports(m)'
  BY <1>1, <1>2, <1>3, SameReports
<1>11. OneCurrent'
  BY <1>1, <1>2, <1>5, SameCurrent
<1>12. Ended' /\ Faithful'
  BY <1>9, GoesOn DEF EventTypes
<1>13. fsm' \in 0..Newest' /\ stop' \in Reasons \cup {NoFinish}
  BY <1>1, <1>6 DEF TypeOK
<1> QED BY <1>6, <1>8, <1>9, <1>10, <1>11, <1>12, <1>13 DEF Pulled

(* The end of a block, shown in an item or not.                                 *)
LEMMA StopPull ==
  ASSUME NEW s, NEW m, Pulling(s, m), Pull("content_block_stop"),
         client' = client \/ \E n \in 1..Newest : client' = [client EXCEPT !.items[n].done = TRUE],
         stop' = stop, fsm' = IF surface = "responses" THEN 0 ELSE fsm
  PROVE  Pulled(m)
<1>1. /\ TypeOK /\ Matches(s) /\ Reports(s) /\ Shown /\ OneCurrent /\ s \in Readings /\ m \in Readings
      /\ s.open = heard.open
  BY DEF Pulling, Told
<1>2. UNCHANGED <<surface, upstream, aborted>> /\ e.type = "content_block_stop"
  BY DEF Pull, Pulls
<1>3. /\ e.index \in heard.open /\ m.open = heard.open \ {e.index}
      /\ m.named = s.named /\ m.count = s.count /\ m.told = s.told
  BY <1>1, <1>2, StopSaid
<1>4. heard'.open = heard.open \ {e.index}
  BY <1>3, Hears DEF EventTypes
<1>5. /\ Newest' = Newest /\ ClientTyped' /\ client'.overlap = client.overlap
      /\ client'.ends = client.ends /\ client'.texts = client.texts /\ client'.finish = client.finish
      /\ \A x \in 1..Newest : /\ client'.items[x].of = client.items[x].of
                              /\ client'.items[x].index = client.items[x].index
                              /\ client'.items[x].got = client.items[x].got
  <2>1. CASE client' = client
    <3>1. ClientTyped
      BY <1>1, Typed
    <3> QED BY <2>1, <3>1 DEF ClientTyped, Newest
  <2>2. CASE \E n \in 1..Newest : client' = [client EXCEPT !.items[n].done = TRUE]
    BY <1>1, <2>2, DoneIs
  <2> QED BY <2>1, <2>2
<1>6. Matches(m)'
  <2>1. \A j : ItemsOf(j)' = ItemsOf(j)
    BY <1>5, SameShape
  <2>2. ASSUME ~client.overlap PROVE Collected(m)'
    <3>1. Collected(s)
      BY <1>1, <2>2 DEF Matches
    <3>2. ASSUME NEW j \in s.named
          PROVE  \E n \in ItemsOf(j)' : ItemsOf(j)' = {n} /\ Len(client'.items[n].got) = s.count[j]
      <4>1. PICK n \in ItemsOf(j) : ItemsOf(j) = {n} /\ Len(client.items[n].got) = s.count[j]
        BY <3>1 DEF Collected
      <4>2. n \in 1..Newest
        BY <4>1 DEF ItemsOf
      <4> QED BY <1>5, <2>1, <4>1, <4>2
    <3> QED BY <1>3, <1>5, <3>1, <3>2 DEF Collected
  <2> QED BY <1>1, <1>3, <1>5, <2>2 DEF Matches
<1>7. Shown'
  BY <1>1, <1>2, <1>4, <1>5, SameShapeShown
<1>8. Reports(m)'
  BY <1>1, <1>2, <1>3, <1>5, SameReports
<1>9. OneCurrent'
  <2> SUFFICES ASSUME surface = "responses", ~client.overlap PROVE heard'.open = {} /\ fsm' = 0
    BY <1>2, <1>5 DEF OneCurrent
  <2>1. heard.open = {e.index}
    BY <1>3, ItsCurrent
  <2> QED BY <1>4, <2>1
<1>10. Ended' /\ Faithful'
  BY <1>5, <1>7, GoesOn DEF EventTypes
<1>11. fsm' \in 0..Newest' /\ stop' \in Reasons \cup {NoFinish}
  <2>1. Newest \in Nat /\ fsm \in 0..Newest
    BY <1>1, ItemsAre DEF TypeOK
  <2> QED BY <1>1, <1>5, <2>1 DEF TypeOK
<1> QED BY <1>5, <1>6, <1>7, <1>8, <1>9, <1>10, <1>11 DEF Pulled

(* The stop reason, told at once or kept for the end.                           *)
LEMMA ReasonPull ==
  ASSUME NEW s, NEW m, Pulling(s, m), Pull("message_delta"), fsm' = fsm,
         surface = "openai" => client' = Finish(ToFinish(e.of)) /\ stop' = stop,
         surface = "anthropic" => client' = Finish(e.of) /\ stop' = stop,
         surface = "responses" => client' = client /\ stop' = e.of
  PROVE  Pulled(m)
<1>1. /\ TypeOK /\ Matches(s) /\ Reports(s) /\ Shown /\ OneCurrent /\ s \in Readings /\ m \in Readings
      /\ s.open = heard.open
  BY DEF Pulling, Told
<1>2. UNCHANGED <<surface, upstream, aborted>> /\ e.type = "message_delta"
  BY DEF Pull, Pulls
<1>3. /\ e.of \in Reasons /\ heard.open = {} /\ m.open = {}
      /\ m.named = s.named /\ m.count = s.count /\ m.told = e.of
  BY <1>1, <1>2, ReasonSaid
<1>4. heard'.open = heard.open
  BY <1>3, Hears DEF EventTypes
<1>5. ClientTyped /\ surface \in Surfaces /\ stop \in Reasons \cup {NoFinish}
  BY <1>1, Typed DEF SourceTyped, RestTyped
<1> DEFINE reason == e.of
<1>6. reason \in Reasons /\ ToFinish(reason) \in Finishes
  BY <1>3 DEF Reasons, ToFinish, Finishes
<1> HIDE DEF reason
<1>7. PICK finish \in Finishes \cup Reasons \cup {NoFinish, "completed", "incomplete"} :
         /\ client' = Finish(finish)
         /\ surface = "openai" => finish = ToFinish(reason)
         /\ surface = "anthropic" => finish = reason
         /\ stop' = IF surface = "responses" THEN reason ELSE stop
  <2>1. CASE surface = "openai"
    BY <1>6, <2>1 DEF reason
  <2>2. CASE surface = "anthropic"
    BY <1>6, <2>2 DEF reason
  <2>3. CASE surface = "responses"
    <3>1. client' = Finish(client.finish)
      BY <1>5, <2>3 DEF ClientTyped, Finish
    <3>2. client.finish \in Finishes \cup Reasons \cup {NoFinish, "completed", "incomplete"}
      BY <1>5 DEF ClientTyped
    <3> QED BY <2>3, <3>1, <3>2 DEF reason
  <2> QED BY <1>5, <2>1, <2>2, <2>3 DEF Surfaces
<1>8. /\ ClientTyped' /\ client'.items = client.items /\ client'.overlap = client.overlap
      /\ client'.ends = client.ends /\ client'.texts = client.texts /\ client'.finish = finish
  BY <1>5, <1>7 DEF ClientTyped, Finish
<1>9. Newest' = Newest
  BY <1>8 DEF Newest
<1>10. Matches(m)'
  BY <1>1, <1>3, <1>8, QuietMatches
<1>11. Shown'
  BY <1>1, <1>2, <1>4, <1>8, QuietShown
<1>12. Reports(m)'
  BY <1>2, <1>3, <1>7, <1>8 DEF Reports, reason
<1>13. OneCurrent'
  BY <1>1, <1>2, <1>4, <1>8, SameCurrent
<1>14. Ended' /\ Faithful'
  BY <1>8, <1>11, GoesOn DEF EventTypes
<1>15. fsm' \in 0..Newest' /\ stop' \in Reasons \cup {NoFinish}
  BY <1>1, <1>5, <1>6, <1>7, <1>9 DEF TypeOK
<1> QED BY <1>8, <1>10, <1>11, <1>12, <1>13, <1>14, <1>15 DEF Pulled

(* The reasons of the events and those of the surface agree.                    *)
LEMMA FinishesAgree ==
  ASSUME NEW f \in Finishes \cup {NoFinish}
  PROVE  /\ ToStop(f) \in Reasons /\ ToStop(f) # NoFinish
         /\ f # NoFinish => ToFinish(ToStop(f)) = f
         /\ ToStop(f) = "tool_use" <=> f = "tool_calls"
BY DEF Finishes, NoFinish, ToStop, ToFinish, Reasons

(* The end of the message, where all was said.                                  *)
LEMMA EndPull ==
  ASSUME NEW s, NEW m, Pulling(s, m), Pull("message_stop"), UNCHANGED <<fsm, stop>>,
         NEW finish \in Finishes \cup Reasons \cup {NoFinish, "completed", "incomplete"},
         client' = [client EXCEPT !.finish = finish, !.ends = Append(@, "completed")],
         finish = IF surface # "responses" THEN client.finish
                  ELSE IF stop = "tool_use" THEN "incomplete" ELSE "completed"
  PROVE  Pulled(m)
<1>1. /\ TypeOK /\ Matches(s) /\ Reports(s) /\ Shown /\ OneCurrent /\ s \in Readings /\ m \in Readings
      /\ s.open = heard.open /\ s.phase = heard.phase /\ Ended /\ Faithful
  BY DEF Pulling, Told
<1>2. UNCHANGED <<surface, upstream, aborted>> /\ e.type = "message_stop" /\ cleanup' = {} /\ cleanup = {}
  BY DEF Pull, Pulls, Running
<1>3. /\ World.returned /\ Complete(World, s) /\ heard.open = {} /\ m.open = {}
      /\ m.named = s.named /\ m.count = s.count /\ m.told = s.told
  BY <1>1, <1>2, EndSaid
<1>4. heard'.open = heard.open /\ heard'.phase = "stopped" /\ heard.phase # "stopped"
  BY <1>1, <1>3, Hears DEF EventTypes
<1>5. ClientTyped /\ surface \in Surfaces /\ src.finish \in Finishes \cup {NoFinish}
  BY <1>1, Typed DEF SourceTyped
<1>6. client.ends = <<>>
  BY <1>1, <1>2, <1>4 DEF Ended
<1> DEFINE ends == <<"completed">>
<1>7. ends \in Seq({"completed", "failed"}) /\ client' = [client EXCEPT !.finish = finish, !.ends = ends]
  BY <1>6
<1> HIDE DEF ends
<1>8. /\ ClientTyped' /\ client'.items = client.items /\ client'.overlap = client.overlap
      /\ client'.ends = ends /\ client'.texts = client.texts /\ client'.finish = finish
  BY <1>5, <1>7 DEF ClientTyped
<1>9. Newest' = Newest
  BY <1>8 DEF Newest
<1>10. Matches(m)'
  BY <1>1, <1>3, <1>8, QuietMatches
<1>11. Shown'
  BY <1>1, <1>2, <1>4, <1>8, QuietShown
<1>12. Reports(m)'
  BY <1>1, <1>2, <1>3, <1>8 DEF Reports
<1>13. OneCurrent'
  BY <1>1, <1>2, <1>4, <1>8, SameCurrent
<1>14. Ended'
  BY <1>2, <1>3, <1>4, <1>8 DEF Ended, World, upstream, ends
<1>15. src' = src /\ sent' = sent
  BY <1>2 DEF upstream
<1>16. /\ s.count = sent /\ s.named = {k \in Calls : src.block[k] # 0}
       /\ src.usage => s.told = ToStop(src.finish)
  BY <1>3 DEF Complete, World
<1>17. ASSUME ~client'.overlap PROVE AllArrived'
  <2>1. Collected(s)
    BY <1>1, <1>8, <1>17 DEF Matches
  <2>2. \A k : ItemsOf(k)' = ItemsOf(k)
    BY <1>8, <1>9 DEF ItemsOf
  <2>3. client'.texts = sent'["text"]
    BY <1>8, <1>15, <1>16, <2>1 DEF Collected
  <2>4. ASSUME NEW k \in Calls, src'.block[k] # 0
        PROVE  \E n \in ItemsOf(k)' : ItemsOf(k)' = {n} /\ Len(client'.items[n].got) = sent'[k]
    <3>1. k \in s.named
      BY <1>15, <1>16, <2>4
    <3>2. PICK n \in ItemsOf(k) : ItemsOf(k) = {n} /\ Len(client.items[n].got) = s.count[k]
      BY <2>1, <3>1 DEF Collected
    <3> QED BY <1>8, <1>15, <1>16, <2>2, <3>2
  <2> QED BY <2>3, <2>4 DEF AllArrived
<1>18. ASSUME src'.usage PROVE Reported'
  <2> DEFINE f == src.finish
  <2>1. s.told = ToStop(f) /\ src'.finish = f /\ f \in Finishes \cup {NoFinish}
    BY <1>5, <1>15, <1>16, <1>18
  <2> HIDE DEF f
  <2>2. /\ s.told # NoFinish /\ (f # NoFinish => ToFinish(s.told) = f)
        /\ s.told = "tool_use" <=> f = "tool_calls"
    BY <2>1, FinishesAgree
  <2>3. CASE surface = "openai"
    BY <1>1, <1>2, <1>8, <2>1, <2>2, <2>3 DEF Reported, Reports
  <2>4. CASE surface = "anthropic"
    BY <1>1, <1>2, <1>8, <2>1, <2>2, <2>4 DEF Reported, Reports
  <2>5. CASE surface = "responses"
    BY <1>1, <1>2, <1>8, <2>1, <2>2, <2>5 DEF Reported, Reports
  <2> QED BY <1>5, <2>3, <2>4, <2>5 DEF Surfaces
<1>19. Faithful'
  BY <1>11, <1>17, <1>18 DEF Faithful, Shown
<1>20. fsm' \in 0..Newest' /\ stop' \in Reasons \cup {NoFinish}
  BY <1>1, <1>9 DEF TypeOK
<1> QED BY <1>8, <1>10, <1>11, <1>12, <1>13, <1>14, <1>19, <1>20 DEF Pulled

-----------------------------------------------------------------------------
(* The sinks *)

(* The types of events that say something.                                      *)
Telling == EventTypes \ {"return", "throw"}

(* The client as it was is a client.                                            *)
LEMMA Untouched ==
  ASSUME NEW s, NEW m, Pulling(s, m), client' = client
  PROVE  /\ ClientTyped' /\ client'.items = client.items /\ client'.texts = client.texts
         /\ client'.overlap = client.overlap /\ client'.ends = client.ends
         /\ client'.finish = client.finish
BY Typed DEF Pulling, ClientTyped

(* Or with the message announced.                                               *)
LEMMA Created ==
  ASSUME NEW s, NEW m, Pulling(s, m), client' = [client EXCEPT !.created = TRUE]
  PROVE  /\ ClientTyped' /\ client'.items = client.items /\ client'.texts = client.texts
         /\ client'.overlap = client.overlap /\ client'.ends = client.ends
         /\ client'.finish = client.finish
BY Typed DEF Pulling, ClientTyped

(* The message starts.                                                          *)
LEMMA BeginPull ==
  ASSUME NEW s, NEW m, Pulling(s, m), Pull("message_start"),
         client' = client \/ client' = [client EXCEPT !.created = TRUE], UNCHANGED <<fsm, stop>>
  PROVE  Pulled(m)
<1>1. e.type = "message_start" /\ s.open = heard.open
  BY DEF Pull, Pulls, Pulling, Told
<1>2. m.open = s.open /\ m.named = s.named /\ m.count = s.count /\ m.told = s.told
  BY <1>1, BeginSaid
<1>3. heard'.open = heard.open
  BY <1>1, <1>2, Hears DEF EventTypes
<1>4. /\ ClientTyped' /\ client'.items = client.items /\ client'.texts = client.texts
      /\ client'.overlap = client.overlap /\ client'.ends = client.ends
      /\ client'.finish = client.finish
  BY Untouched, Created
<1> QED BY <1>2, <1>3, <1>4, QuietPull DEF EventTypes

(* canonicalToOpenAISse.                                                        *)
LEMMA OpenAIPull ==
  ASSUME NEW s, NEW m, Pulling(s, m), surface = "openai", OpenAISink
  PROVE  Pulled(m) /\ \E type \in Telling : Pull(type)
<1>1. CASE OpenAIBlockStart
  <2>1. Pull("content_block_start") /\ UNCHANGED <<fsm, stop>>
    BY <1>1 DEF OpenAIBlockStart
  <2>2. e.type = "content_block_start" /\ TypeOK
    BY <2>1 DEF Pull, Pulls, Pulling
  <2>3. CASE e.of = "text"
    <3>1. client' = client
      BY <1>1, <2>3 DEF OpenAIBlockStart, Gets
    <3>2. /\ ClientTyped' /\ client'.items = client.items /\ client'.texts = client.texts
          /\ client'.overlap = client.overlap /\ client'.ends = client.ends
          /\ client'.finish = client.finish
      BY <3>1, Untouched
    <3>3. /\ Owns(World, e.of, e.index) /\ m.open = s.open \cup {e.index}
          /\ m.named = s.named \cup ({e.of} \cap Calls) /\ m.count = s.count /\ m.told = s.told
      BY <2>2, StartSaid
    <3>4. e.index = 0 /\ m.named = s.named
      BY <2>3, <3>3, StreamsAssumption DEF Owns
    <3>5. m.open = heard'.open /\ s.open = heard.open
      BY <2>1, Hears DEF EventTypes, Pulling, Told
    <3> QED BY <2>1, <3>2, <3>3, <3>4, <3>5, QuietPull DEF EventTypes, Telling
  <2>4. CASE e.of # "text"
    <3>1. client.overlap \in BOOLEAN /\ client' = [Add EXCEPT !.overlap = client.overlap]
      BY <1>1, <2>2, <2>4, AddIsAdded DEF OpenAIBlockStart, Gets
    <3> DEFINE overlap == client.overlap
    <3>2. overlap \in BOOLEAN /\ client' = [Add EXCEPT !.overlap = overlap] /\ (client.overlap => overlap)
      BY <3>1
    <3> HIDE DEF overlap
    <3> QED BY <2>1, <3>2, AddPull DEF EventTypes, Telling
  <2> QED BY <2>3, <2>4
<1>2. CASE OpenAIBlockDelta
  <2>1. Pull("content_block_delta") /\ UNCHANGED <<fsm, stop>>
    BY <1>2 DEF OpenAIBlockDelta
  <2>2. e.type = "content_block_delta" /\ s.open = heard.open
    BY <2>1 DEF Pull, Pulls, Pulling, Told
  <2>3. CASE e.of = "text"
    <3>1. client' = [client EXCEPT !.texts = @ + 1]
      BY <1>2, <2>3 DEF OpenAIBlockDelta, Gets
    <3> QED BY <2>1, <2>3, <3>1, TextPull DEF EventTypes, Telling
  <2>4. CASE e.of # "text"
    <3>1. client' = Receive(NewestAt(e.index))
      BY <1>2, <2>4 DEF OpenAIBlockDelta, Gets
    <3>2. Owns(World, e.of, e.index) /\ e.index \in heard.open
      BY <2>2, DeltaSaid
    <3>3. e.index # 0
      BY <2>4, <3>2 DEF Owns
    <3> DEFINE n == NewestAt(e.index)
    <3>4. n \in 1..Newest /\ client.items[n].of = e.of /\ client' = Receive(n)
      BY <3>1, <3>2, <3>3, ItsItem
    <3> HIDE DEF n
    <3> QED BY <2>1, <3>3, <3>4, ReceivePull DEF EventTypes, Telling
  <2> QED BY <2>3, <2>4
<1>3. CASE OpenAIMessageDelta
  BY <1>3, ReasonPull DEF OpenAIMessageDelta, Gets, EventTypes, Telling
<1>4. CASE OpenAIMessageStop
  <2>1. Pull("message_stop") /\ UNCHANGED <<fsm, stop>> /\ client' = End("completed")
    BY <1>4 DEF OpenAIMessageStop, Gets
  <2>2. ClientTyped
    BY Typed DEF Pulling
  <2> DEFINE finish == client.finish
  <2>3. /\ finish \in Finishes \cup Reasons \cup {NoFinish, "completed", "incomplete"}
        /\ client' = [client EXCEPT !.finish = finish, !.ends = Append(@, "completed")]
    BY <2>1, <2>2 DEF ClientTyped, End
  <2>4. finish = IF surface # "responses" THEN client.finish
                 ELSE IF stop = "tool_use" THEN "incomplete" ELSE "completed"
    OBVIOUS
  <2> HIDE DEF finish
  <2> QED BY <2>1, <2>3, <2>4, EndPull DEF EventTypes, Telling
<1>5. CASE Pull("message_start") /\ UNCHANGED <<client, fsm, stop>>
  BY <1>5, BeginPull DEF EventTypes, Telling
<1>6. CASE Pull("content_block_stop") /\ UNCHANGED <<client, fsm, stop>>
  BY <1>6, StopPull DEF EventTypes, Telling
<1> QED BY <1>1, <1>2, <1>3, <1>4, <1>5, <1>6 DEF OpenAISink, OpenAISilent

(* canonicalToAnthropicSse.                                                     *)
LEMMA AnthropicPull ==
  ASSUME NEW s, NEW m, Pulling(s, m), surface = "anthropic", AnthropicSink
  PROVE  Pulled(m) /\ \E type \in Telling : Pull(type)
<1>1. UNCHANGED <<fsm, stop>> /\ TypeOK /\ ClientTyped /\ s.open = heard.open
  BY Typed DEF AnthropicSink, Pulling, Told
<1>2. CASE Pull("message_start") /\ Gets([client EXCEPT !.created = TRUE])
  BY <1>1, <1>2, BeginPull DEF Gets, EventTypes, Telling
<1>3. CASE Pull("content_block_start") /\ Gets(Add)
  <2>1. client.overlap \in BOOLEAN /\ client' = [Add EXCEPT !.overlap = client.overlap]
    BY <1>1, <1>3, AddIsAdded DEF Gets
  <2> DEFINE overlap == client.overlap
  <2>2. overlap \in BOOLEAN /\ client' = [Add EXCEPT !.overlap = overlap] /\ (client.overlap => overlap)
    BY <2>1
  <2> HIDE DEF overlap
  <2> QED BY <1>1, <1>3, <2>2, AddPull DEF EventTypes, Telling
<1>4. CASE Pull("content_block_delta") /\ Gets(Receive(NewestAt(e.index)))
  <2>1. e.type = "content_block_delta" /\ client' = Receive(NewestAt(e.index))
    BY <1>4 DEF Pull, Pulls, Gets
  <2>2. Owns(World, e.of, e.index) /\ e.index \in heard.open
    BY <1>1, <2>1, DeltaSaid
  <2> DEFINE n == NewestAt(e.index)
  <2>3. n \in 1..Newest /\ client.items[n].of = e.of /\ client' = Receive(n)
    BY <2>1, <2>2, ItsItem
  <2> HIDE DEF n
  <2> QED BY <1>1, <1>4, <2>3, ReceivePull DEF EventTypes, Telling
<1>5. CASE Pull("content_block_stop") /\ Gets([client EXCEPT !.items[NewestAt(e.index)].done = TRUE])
  <2>1. e.type = "content_block_stop"
    BY <1>5 DEF Pull, Pulls
  <2>2. e.index \in heard.open
    BY <1>1, <2>1, StopSaid
  <2> DEFINE n == NewestAt(e.index)
  <2>3. n \in 1..Newest /\ client' = [client EXCEPT !.items[n].done = TRUE]
    BY <1>5, <2>2, ItsItem DEF Gets
  <2> HIDE DEF n
  <2> QED BY <1>1, <1>5, <2>3, StopPull DEF EventTypes, Telling
<1>6. CASE Pull("message_delta") /\ Gets(Finish(e.of))
  BY <1>1, <1>6, ReasonPull DEF Gets, EventTypes, Telling
<1>7. CASE Pull("message_stop") /\ Gets(End("completed"))
  <2> DEFINE finish == client.finish
  <2>1. /\ finish \in Finishes \cup Reasons \cup {NoFinish, "completed", "incomplete"}
        /\ client' = [client EXCEPT !.finish = finish, !.ends = Append(@, "completed")]
    BY <1>1, <1>7 DEF ClientTyped, End, Gets
  <2>2. finish = IF surface # "responses" THEN client.finish
                 ELSE IF stop = "tool_use" THEN "incomplete" ELSE "completed"
    OBVIOUS
  <2> HIDE DEF finish
  <2> QED BY <1>1, <1>7, <2>1, <2>2, EndPull DEF EventTypes, Telling
<1> QED BY <1>2, <1>3, <1>4, <1>5, <1>6, <1>7 DEF AnthropicSink

(* canonicalToResponsesSse.                                                     *)
LEMMA ResponsesPull ==
  ASSUME NEW s, NEW m, Pulling(s, m), surface = "responses", ResponsesSink
  PROVE  Pulled(m) /\ \E type \in Telling : Pull(type)
<1>1. TypeOK /\ ClientTyped /\ s.open = heard.open /\ client.overlap \in BOOLEAN
  BY Typed DEF Pulling, Told, ClientTyped
<1>2. CASE ResponsesMessageStart
  BY <1>2, BeginPull DEF ResponsesMessageStart, Gets, EventTypes, Telling
<1>3. CASE ResponsesBlockStart
  <2> DEFINE overlap == client.overlap \/ fsm # 0
  <2>1. Pull("content_block_start") /\ fsm' = Newest + 1 /\ stop' = stop
    BY <1>3 DEF ResponsesBlockStart
  <2>2. Add.overlap = client.overlap
    BY <1>1 DEF Add, ClientTyped
  <2>3. client' = [Add EXCEPT !.overlap = overlap]
    BY <1>3, <2>2 DEF ResponsesBlockStart, Gets
  <2>4. overlap \in BOOLEAN /\ (client.overlap => overlap) /\ (~overlap => fsm = 0)
    BY <1>1
  <2> HIDE DEF overlap
  <2> QED BY <2>1, <2>3, <2>4, AddPull DEF EventTypes, Telling
<1>4. CASE ResponsesBlockDelta
  <2>1. Pull("content_block_delta") /\ UNCHANGED <<fsm, stop>>
    BY <1>4 DEF ResponsesBlockDelta
  <2>2. e.type = "content_block_delta"
    BY <2>1 DEF Pull, Pulls
  <2>3. Owns(World, e.of, e.index) /\ e.index \in heard.open
    BY <1>1, <2>2, DeltaSaid
  <2>4. ~client.overlap => fsm \in 1..Newest /\ client.items[fsm].of = e.of
    BY <2>3, ItsCurrent
  <2>5. fsm = 0 \/ fsm \in 1..Newest
    BY <1>1 DEF TypeOK
  <2>6. CASE Fits
    <3> DEFINE n == fsm
    <3>1. n \in 1..Newest /\ client' = Receive(n) /\ (client.items[n].of = e.of \/ client.overlap)
      BY <1>4, <2>4, <2>5, <2>6 DEF ResponsesBlockDelta, Gets, Fits
    <3> HIDE DEF n
    <3> QED BY <2>1, <3>1, ReceivePull DEF EventTypes, Telling
  <2>7. CASE ~Fits
    <3>1. client' = client
      BY <1>4, <2>7 DEF ResponsesBlockDelta, Gets
    <3>2. client.overlap
      <4>1. ~client.overlap => fsm # 0
        BY <2>4
      <4> QED BY <2>4, <2>7, <4>1 DEF Fits
    <3> QED BY <2>1, <3>1, <3>2, DropPull DEF EventTypes, Telling
  <2> QED BY <2>6, <2>7
<1>5. CASE ResponsesBlockStop
  <2>1. Pull("content_block_stop") /\ fsm' = 0 /\ stop' = stop
    BY <1>5 DEF ResponsesBlockStop
  <2>2. fsm = 0 \/ fsm \in 1..Newest
    BY <1>1 DEF TypeOK
  <2>3. CASE fsm = 0
    <3>1. client' = client
      BY <1>5, <2>3 DEF ResponsesBlockStop, Gets
    <3> QED BY <2>1, <3>1, StopPull DEF EventTypes, Telling
  <2>4. CASE fsm # 0
    <3> DEFINE n == fsm
    <3>1. n \in 1..Newest /\ client' = [client EXCEPT !.items[n].done = TRUE]
      BY <1>5, <2>2, <2>4 DEF ResponsesBlockStop, Gets
    <3> HIDE DEF n
    <3> QED BY <2>1, <3>1, StopPull DEF EventTypes, Telling
  <2> QED BY <2>3, <2>4
<1>6. CASE ResponsesMessageDelta
  BY <1>6, ReasonPull DEF ResponsesMessageDelta, EventTypes, Telling
<1>7. CASE ResponsesMessageStop
  <2> DEFINE finish == IF stop = "tool_use" THEN "incomplete" ELSE "completed"
  <2>1. Pull("message_stop") /\ UNCHANGED <<fsm, stop>>
    BY <1>7 DEF ResponsesMessageStop
  <2>2. client' = [End("completed") EXCEPT !.finish = finish]
    BY <1>7 DEF ResponsesMessageStop, Gets
  <2>3. finish \in Finishes \cup Reasons \cup {NoFinish, "completed", "incomplete"}
    OBVIOUS
  <2>4. finish = IF surface # "responses" THEN client.finish
                 ELSE IF stop = "tool_use" THEN "incomplete" ELSE "completed"
    OBVIOUS
  <2> HIDE DEF finish
  <2>5. client' = [client EXCEPT !.finish = finish, !.ends = Append(@, "completed")]
    BY <1>1, <2>2 DEF End, ClientTyped
  <2> QED BY <2>1, <2>3, <2>4, <2>5, EndPull DEF EventTypes, Telling
<1> QED BY <1>2, <1>3, <1>4, <1>5, <1>6, <1>7 DEF ResponsesSink

(* A step of the sink that tells the client something.                          *)
LEMMA PullKeeps ==
  ASSUME IInv, events # <<>>, Running, NEW type \in Telling, Pull(type),
         \A s, m : Pulling(s, m) => Pulled(m)
  PROVE  IInv'
<1>1. TypeOK /\ Flags /\ Reading /\ Shown /\ OneCurrent /\ Ended /\ Faithful
  BY DEF IInv
<1>2. /\ events' = Tail(events)
      /\ UNCHANGED <<surface, backend, chunks, sent, src, aborted, cleanup>>
  BY DEF Pull, Pulls, upstream
<1>3. PICK s \in Readings, m \in Readings, t \in Readings :
         /\ e \in Events /\ Told(s) /\ Says(World, s, e, m)
         /\ Legal(World, Tail(events), m, t) /\ (~src.returned => Ready(t))
  BY <1>1, NextReading
<1>4. Pulling(s, m)
  BY <1>1, <1>3 DEF Pulling
<1>5. Pulled(m)
  BY <1>4
<1>6. m.phase = heard'.phase /\ m.open = heard'.open /\ HeardTyped'
  BY <1>4, Hears DEF Telling
<1>7. TypeOK'
  <2>1. SourceTyped /\ RestTyped
    BY <1>1, Typed
  <2>2. SourceTyped'
    BY <1>2, <2>1 DEF SourceTyped
  <2>3. events' \in Seq(Events)
    BY <1>2, <2>1 DEF RestTyped
  <2>4. RestTyped'
    BY <1>2, <1>5, <2>1, <2>3 DEF RestTyped, Pulled
  <2>5. ClientTyped'
    BY <1>5 DEF Pulled
  <2> QED BY <1>6, <2>2, <2>4, <2>5, Typed, PTL
<1>8. Flags'
  BY <1>1, <1>2 DEF Flags, Taken
<1>9. Told(m)'
  BY <1>5, <1>6 DEF Told, Pulled
<1>10. Reading'
  BY <1>2, <1>3, <1>9, ReadingAfter DEF upstream
<1> QED BY <1>5, <1>7, <1>8, <1>10 DEF IInv, Pulled

(* A step that closes the stream.                                               *)
LEMMA ClosingKeeps ==
  ASSUME IInv, events # <<>>, events' = Tail(events), src.returned, NEW how \in {"fine", "error"},
         CleansUp(how), ClientTyped', client'.items = client.items, client'.texts = client.texts,
         client'.overlap = client.overlap,
         heard.phase = "stopped" => client' = client, Ended'
  PROVE  IInv'
<1>1. TypeOK /\ Flags /\ Shown /\ OneCurrent /\ Faithful
  BY DEF IInv
<1>2. cleanup' = {how} /\ UNCHANGED <<surface, backend, chunks, sent, src, aborted, heard, fsm, stop>>
  BY DEF CleansUp, upstream
<1>3. TypeOK'
  <2>1. SourceTyped /\ HeardTyped /\ RestTyped
    BY <1>1, Typed
  <2>2. SourceTyped' /\ HeardTyped'
    BY <1>2, <2>1 DEF SourceTyped, HeardTyped
  <2>3. events' \in Seq(Events) /\ cleanup' \in {{}, {"fine"}, {"error"}} /\ Newest' = Newest
    BY <1>2, <2>1 DEF RestTyped, Newest
  <2>4. RestTyped'
    BY <1>2, <2>1, <2>3 DEF RestTyped
  <2> QED BY <2>2, <2>4, Typed, PTL
<1>4. Flags'
  BY <1>1, <1>2 DEF Flags, Taken
<1>5. ~Running'
  BY <1>2 DEF Running
<1>6. Shown'
  BY <1>1, <1>2, QuietShown DEF upstream
<1>7. OneCurrent'
  BY <1>1, <1>2 DEF OneCurrent
<1>8. Faithful'
  <2>1. CASE heard.phase = "stopped"
    <3>1. client' = client
      BY <2>1
    <3> QED BY <1>1, <1>2, <3>1 DEF Faithful, OwnFragments, Newest, AllArrived, ItemsOf, Reported
  <2>2. CASE heard.phase # "stopped"
    BY <1>2, <1>6, <2>2 DEF Faithful, Shown
  <2> QED BY <2>1, <2>2
<1> QED BY <1>3, <1>4, <1>5, <1>6, <1>7, <1>8 DEF IInv

(* What the client gets with a last frame, or without.                          *)
LEMMA LastFrame ==
  ASSUME TypeOK, NEW how \in {"completed", "failed"},
         client' = client \/ client' = End(how)
  PROVE  /\ ClientTyped' /\ client'.items = client.items /\ client'.texts = client.texts
         /\ client'.overlap = client.overlap
         /\ client' = End(how) => client'.ends = Append(client.ends, how)
<1>1. ClientTyped
  BY Typed
<1>2. client.ends \in Seq({"completed", "failed"})
  BY <1>1 DEF ClientTyped
<1> DEFINE ends == Append(client.ends, how)
<1>3. ends \in Seq({"completed", "failed"})
  BY <1>2
<1>4. client' = client \/ client' = [client EXCEPT !.ends = ends]
  BY DEF End
<1> HIDE DEF ends
<1>5. CASE client' = client
  <2>1. client' = End(how) => client'.ends = ends
    BY <1>1 DEF ClientTyped, End, ends
  <2> QED BY <1>1, <1>5, <2>1 DEF ClientTyped, ends
<1>6. CASE client' = [client EXCEPT !.ends = ends]
  BY <1>1, <1>3, <1>6 DEF ClientTyped, ends
<1> QED BY <1>4, <1>5, <1>6

(* The generator returned.                                                      *)
LEMMA FinallyKeeps ==
  ASSUME IInv, Finally
  PROVE  IInv'
<1>1. TypeOK /\ Flags /\ Reading /\ Shown /\ OneCurrent /\ Ended /\ Faithful /\ Running
  BY DEF IInv, Finally, Pulls
<1>2. /\ events # <<>> /\ events' = Tail(events) /\ e.type = "return" /\ CleansUp("fine")
      /\ client' = client /\ cleanup = {}
  BY DEF Finally, Pulls, Running
<1>3. src.returned /\ (heard.phase = "stopped" \/ aborted)
  <2>1. PICK s \in Readings, m \in Readings : e \in Events /\ Told(s) /\ Says(World, s, e, m)
    BY <1>1, <1>2, NextReading
  <2>2. World.returned /\ (s.phase = "stopped" \/ World.left)
    BY <1>2, <2>1, ReturnSays
  <2> QED BY <2>1, <2>2 DEF World, Told
<1>4. cleanup' = {"fine"} /\ UNCHANGED <<surface, heard, src, aborted>>
  BY <1>2 DEF CleansUp, upstream
<1>5. {"fine"} # {"error"} /\ {} # {"error"}
  OBVIOUS
<1>6. Ended'
  BY <1>1, <1>2, <1>3, <1>4, <1>5 DEF Ended
<1>7. ClientTyped'
  BY <1>1, <1>2, Typed DEF ClientTyped
<1> QED BY <1>2, <1>3, <1>6, <1>7, ClosingKeeps

(* The generator threw.                                                         *)
LEMMA ThrowKeeps ==
  ASSUME IInv, Pulls("throw"),
         \/ surface = "openai" /\ OpenAIThrow
         \/ surface = "anthropic" /\ AnthropicThrow
         \/ surface = "responses" /\ ResponsesThrow
  PROVE  IInv'
<1>1. TypeOK /\ Flags /\ Reading /\ Shown /\ OneCurrent /\ Ended /\ Faithful /\ Running
  BY DEF IInv, Pulls
<1>2. events # <<>> /\ events' = Tail(events) /\ e.type = "throw" /\ cleanup = {}
  BY DEF Pulls, Running
<1>3. src.returned /\ heard.phase # "stopped"
  <2>1. PICK s \in Readings, m \in Readings : e \in Events /\ Told(s) /\ Says(World, s, e, m)
    BY <1>1, <1>2, NextReading
  <2>2. World.returned /\ s.phase # "stopped"
    BY <1>2, <2>1, ThrowSays
  <2> QED BY <2>1, <2>2 DEF World, Told
<1>4. {"fine"} # {"error"} /\ {} # {"error"}
  OBVIOUS
<1>5. client.ends = <<>>
  BY <1>1, <1>2, <1>3, <1>4 DEF Ended
<1>6. CASE CleansUp("fine") /\ client' = client /\ (aborted \/ surface = "anthropic")
  <2>1. cleanup' = {"fine"} /\ UNCHANGED <<surface, heard, src, aborted>>
    BY <1>6 DEF CleansUp, upstream
  <2>2. Ended'
    BY <1>3, <1>4, <1>5, <1>6, <2>1 DEF Ended
  <2>3. ClientTyped'
    BY <1>1, <1>6, Typed DEF ClientTyped
  <2> QED BY <1>2, <1>3, <1>6, <2>2, <2>3, ClosingKeeps
<1>7. ASSUME ~aborted, CleansUp("error"), NEW how \in {"completed", "failed"}, client' = End(how)
      PROVE  IInv'
  <2>1. cleanup' = {"error"} /\ UNCHANGED <<surface, heard, src, aborted>>
    BY <1>7 DEF CleansUp, upstream
  <2>2. /\ ClientTyped' /\ client'.items = client.items /\ client'.texts = client.texts
        /\ client'.overlap = client.overlap /\ client'.ends = Append(client.ends, how)
    BY <1>1, <1>7, LastFrame
  <2>3. client'.ends \in {<<"completed">>, <<"failed">>}
    BY <1>5, <1>7, <2>2
  <2>4. Ended'
    BY <1>3, <1>4, <1>7, <2>1, <2>3 DEF Ended
  <2> QED BY <1>2, <1>3, <1>7, <2>2, <2>4, ClosingKeeps
<1>8. CASE ThrowAborted
  BY <1>6, <1>8 DEF ThrowAborted
<1>9. CASE ~aborted /\ CleansUp("error") /\ Gets(End(IF e.of = "userAbort" THEN "completed" ELSE "failed"))
  <2> DEFINE how == IF e.of = "userAbort" THEN "completed" ELSE "failed"
  <2>1. how \in {"completed", "failed"} /\ client' = End(how)
    BY <1>9 DEF Gets
  <2> HIDE DEF how
  <2> QED BY <1>7, <1>9, <2>1
<1>10. CASE ~aborted /\ CleansUp("error") /\ Gets(End("failed"))
  BY <1>7, <1>10 DEF Gets
<1>11. CASE ~aborted /\ e.of = "userAbort" /\ CleansUp("fine") /\ UNCHANGED client /\ surface = "anthropic"
  BY <1>6, <1>11
<1> QED BY <1>8, <1>9, <1>10, <1>11 DEF OpenAIThrow, AnthropicThrow, ResponsesThrow

(* A step of the sink.                                                          *)
LEMMA SinkKeeps ==
  ASSUME IInv, Sink
  PROVE  IInv'
<1>1. ASSUME surface = "openai", OpenAISink
      PROVE  IInv'
  <2>1. \E type \in Telling : Pull(type)
    BY <1>1 DEF OpenAISink, OpenAIBlockStart, OpenAIBlockDelta, OpenAIMessageDelta,
                OpenAIMessageStop, OpenAISilent, Telling, EventTypes
  <2>2. \A s, m : Pulling(s, m) => Pulled(m)
    BY <1>1, OpenAIPull
  <2> QED BY <2>1, <2>2, PullKeeps DEF Pull, Pulls
<1>2. ASSUME surface = "anthropic", AnthropicSink
      PROVE  IInv'
  <2>1. \E type \in Telling : Pull(type)
    BY <1>2 DEF AnthropicSink, Telling, EventTypes
  <2>2. \A s, m : Pulling(s, m) => Pulled(m)
    BY <1>2, AnthropicPull
  <2> QED BY <2>1, <2>2, PullKeeps DEF Pull, Pulls
<1>3. ASSUME surface = "responses", ResponsesSink
      PROVE  IInv'
  <2>1. \E type \in Telling : Pull(type)
    BY <1>3 DEF ResponsesSink, ResponsesMessageStart, ResponsesBlockStart, ResponsesBlockDelta,
                ResponsesBlockStop, ResponsesMessageDelta, ResponsesMessageStop, Telling, EventTypes
  <2>2. \A s, m : Pulling(s, m) => Pulled(m)
    BY <1>3, ResponsesPull
  <2> QED BY <2>1, <2>2, PullKeeps DEF Pull, Pulls
<1> QED BY <1>1, <1>2, <1>3, ThrowKeeps, FinallyKeeps DEF Sink

-----------------------------------------------------------------------------
(* The theorems *)

(* At first nothing was said and nothing is on its way.                         *)
LEMMA InitIs ==
  ASSUME Init
  PROVE  IInv
<1>1. TypeOK /\ Flags
  BY InitFlags
<1>2. /\ sent = [k \in Sources |-> 0] /\ events = <<>> /\ heard.phase = "new" /\ heard.open = {}
      /\ fsm = 0 /\ client.items = <<>> /\ client.texts = 0 /\ client.ends = <<>> /\ cleanup = {}
      /\ src.block = [k \in Calls |-> 0] /\ ~src.usage /\ ~src.started /\ ~src.text /\ src.open = <<>>
  BY DEF Init, Sources
<1>3. Newest = 0 /\ 1..Newest = {}
  <2>1. Newest = 0
    BY <1>2 DEF Newest
  <2> QED BY <2>1
<1>4. \E s \in Readings : /\ s.phase = "new" /\ s.open = {} /\ s.named = {}
                          /\ s.count = [k \in Sources |-> 0] /\ s.told = NoFinish
  <2> DEFINE s == [phase |-> "new", open |-> {}, named |-> {}, count |-> [k \in Sources |-> 0], told |-> NoFinish]
  <2>1. s \in Readings
    BY DEF Readings
  <2> QED BY <2>1
<1>5. PICK s \in Readings : /\ s.phase = "new" /\ s.open = {} /\ s.named = {}
                            /\ s.count = [k \in Sources |-> 0] /\ s.told = NoFinish
  BY <1>4
<1>6. Legal(World, events, s, s)
  BY <1>2, LegalStill
<1>7. Told(s)
  <2>1. s.count["text"] = 0 /\ \A k \in Calls : s.count[k] = 0
    BY <1>5 DEF Sources
  <2>2. Collected(s)
    BY <1>2, <1>5, <2>1 DEF Collected
  <2>3. Matches(s)
    BY <1>3, <2>1, <2>2 DEF Matches
  <2>4. Reports(s)
    BY <1>5 DEF Reports
  <2> QED BY <1>2, <1>5, <2>3, <2>4 DEF Told
<1>8. Ready(s)
  <2>1. {k \in Calls : src.block[k] # 0} = {}
    BY <1>2
  <2>2. Complete(World, s)
    BY <1>2, <1>5, <2>1 DEF Complete, World
  <2>3. Range(src.open) = {}
    BY <1>2 DEF Range
  <2>4. OpenBlocks = {}
    BY <1>2, <2>3 DEF OpenBlocks
  <2> QED BY <1>2, <1>5, <2>2, <2>4 DEF Ready
<1>9. Reading
  BY <1>6, <1>7, <1>8 DEF Reading
<1>10. Shown
  BY <1>2, <1>3 DEF Shown, OwnFragments
<1>11. OneCurrent
  BY <1>2 DEF OneCurrent
<1>12. {} # {"fine"} /\ {} # {"error"}
  OBVIOUS
<1>13. Ended
  BY <1>2, <1>12 DEF Ended
<1>14. Faithful
  BY <1>2, <1>10 DEF Faithful, Shown
<1> QED BY <1>1, <1>9, <1>10, <1>11, <1>13, <1>14 DEF IInv

(* A step that changes nothing.                                                 *)
LEMMA StutterKeeps ==
  ASSUME IInv, UNCHANGED vars
  PROVE  IInv'
<1>1. TypeOK /\ Flags /\ Shown /\ OneCurrent /\ Ended /\ Faithful
  BY DEF IInv
<1>2. UNCHANGED <<surface, backend, chunks, sent, src, events, aborted, heard, fsm, stop, client, cleanup>>
  BY DEF vars, upstream, sink
<1>3. Newest' = Newest /\ World' = World
  BY <1>2 DEF Newest, World
<1>4. SourceTyped' /\ HeardTyped' /\ ClientTyped' /\ RestTyped'
  BY <1>1, <1>2, <1>3, Typed DEF SourceTyped, HeardTyped, ClientTyped, RestTyped
<1>5. TypeOK'
  BY <1>4, Typed, PTL
<1>6. Flags'
  BY <1>1, <1>2 DEF Flags, Taken
<1>7. Running' => Reading'
  <2> SUFFICES ASSUME Reading PROVE Reading'
    BY <1>2 DEF Running, IInv
  <2>1. PICK s \in Readings, t \in Readings :
           Legal(World, events, s, t) /\ Told(s) /\ (~src.returned => Ready(t))
    BY DEF Reading
  <2>2. Legal(World', events', s, t)
    BY <1>2, <1>3, <2>1
  <2>3. Told(s)'
    BY <1>2, <2>1 DEF Told, Matches, Reports, Collected, ItemsOf, Newest
  <2>4. ~src'.returned => Ready(t)'
    BY <1>2, <2>1 DEF Ready, Complete, World, OpenBlocks
  <2> QED BY <2>2, <2>3, <2>4 DEF Reading
<1>8. Shown'
  BY <1>1, <1>2, <1>3 DEF Shown, Latest, OwnFragments
<1>9. OneCurrent' /\ Ended'
  BY <1>1, <1>2 DEF OneCurrent, Ended
<1>10. Faithful'
  BY <1>1, <1>2 DEF Faithful, OwnFragments, Newest, AllArrived, ItemsOf, Reported
<1> QED BY <1>5, <1>6, <1>7, <1>8, <1>9, <1>10 DEF IInv

(* The invariant holds throughout.                                              *)
THEOREM Invariance == Spec => []IInv
<1>1. Init => IInv
  BY InitIs
<1>2. IInv /\ [Next]_vars => IInv'
  BY SourceKeeps, SinkKeeps, LeavingKeeps, DroppedKeeps, StutterKeeps DEF Next
<1> QED BY <1>1, <1>2, PTL DEF Spec

(* Types, and the discipline of the source's flags: a call is open only once it *)
(* has a block, and no two calls share one (openai-out.ts).                     *)
THEOREM TypeCorrect == Spec => []TypeOK
<1>1. IInv => TypeOK
  BY DEF IInv
<1> QED BY <1>1, Invariance, PTL

(* An answer the client takes for complete is the backend's: every fragment in  *)
(* the item it was sent for, none missing, the finish reason the backend's.     *)
THEOREM FaithfulStream == Spec => []Faithful
<1>1. IInv => Faithful
  BY DEF IInv
<1> QED BY <1>1, Invariance, PTL

(* What a stream that ends in one way says of the end.                          *)
LEMMA EndedRight ==
  ASSUME Ended
  PROVE  EndsRight
<1>1. {"fine"} # {"error"} /\ <<"completed">> # <<"failed">> /\ <<"completed">> # <<>> /\ <<"failed">> # <<>>
  OBVIOUS
<1>2. Len(<<>>) = 0 /\ Len(<<"completed">>) = 1 /\ Len(<<"failed">>) = 1
  OBVIOUS
<1>3. client.ends = <<>> \/ client.ends = <<"completed">> \/ client.ends = <<"failed">>
  BY DEF Ended
<1>4. Len(client.ends) <= 1
  <2> DEFINE n == Len(client.ends)
  <2>1. n = 0 \/ n = 1
    BY <1>2, <1>3
  <2> HIDE DEF n
  <2>2. n <= 1
    BY <2>1
  <2> QED BY <2>2 DEF n
<1> QED BY <1>1, <1>4 DEF Ended, EndsRight

(* The source does nothing to the sink.                                         *)
LEMMA SourceLeaves ==
  ASSUME Source
  PROVE  UNCHANGED <<heard, client>>
<1>1. UNCHANGED sink
  BY DEF Source, OpenAISource, OllamaSource, TextChunk, UnnamedChunk, CallChunk, FinishChunk,
     UsageChunk, ChunksEnd, Line, DoneLine, LinesEnd, LinesAborted, UpstreamFails, Arrives, Yield
<1> QED BY <1>1 DEF sink

(* Every step of the sink that is not its last pulls an event that tells        *)
(* something, or a failure.                                                     *)
LEMMA SinkPulls ==
  ASSUME Sink, ~Finally
  PROVE  /\ Running /\ events # <<>>
         /\ \/ \E type \in Telling : Pull(type)
            \/ e.type = "throw" /\ \E how \in {"fine", "error"} : CleansUp(how)
<1>1. CASE OpenAISink
  BY <1>1 DEF OpenAISink, OpenAIBlockStart, OpenAIBlockDelta, OpenAIMessageDelta,
     OpenAIMessageStop, OpenAISilent, Pull, Pulls, Telling, EventTypes
<1>2. CASE AnthropicSink
  <2>1. \E type \in Telling : Pull(type)
    BY <1>2 DEF AnthropicSink, Telling, EventTypes
  <2> QED BY <2>1 DEF Pull, Pulls
<1>3. CASE ResponsesSink
  <2>1. \E type \in Telling : Pull(type)
    BY <1>3 DEF ResponsesSink, ResponsesMessageStart, ResponsesBlockStart, ResponsesBlockDelta,
       ResponsesBlockStop, ResponsesMessageDelta, ResponsesMessageStop, Telling, EventTypes
  <2> QED BY <2>1 DEF Pull, Pulls
<1>4. CASE Pulls("throw") /\ (OpenAIThrow \/ AnthropicThrow \/ ResponsesThrow)
  BY <1>4 DEF Pulls, OpenAIThrow, AnthropicThrow, ResponsesThrow, ThrowAborted
<1> QED BY <1>1, <1>2, <1>3, <1>4 DEF Sink

(* A client that got its terminator gets nothing more.                          *)
LEMMA NothingAfterEnd ==
  ASSUME IInv, Next, client.ends # <<>>
  PROVE  client' = client
<1>1. heard.phase = "stopped" \/ cleanup = {"error"}
  BY DEF IInv, Ended
<1>2. CASE Source
  BY <1>2, SourceLeaves
<1>3. CASE ClientLeaves \/ Dropped
  BY <1>3 DEF ClientLeaves, Dropped, sink
<1>4. CASE Sink
  <2>1. CASE Finally
    BY <2>1 DEF Finally
  <2>2. CASE ~Finally
    <3>1. Running /\ events # <<>> /\ ((\E type \in Telling : Pull(type)) \/ e.type = "throw")
      BY <1>4, <2>2, SinkPulls
    <3>2. heard.phase = "stopped" /\ Reading /\ TypeOK /\ Shown /\ OneCurrent /\ Ended /\ Faithful
      <4>1. {} # {"error"}
        OBVIOUS
      <4> QED BY <1>1, <3>1, <4>1 DEF IInv, Running
    <3>3. PICK s \in Readings, m \in Readings : e \in Events /\ Told(s) /\ Says(World, s, e, m)
      BY <3>1, <3>2, NextReading
    <3>4. Pulling(s, m) /\ s.phase = "stopped"
      BY <3>1, <3>2, <3>3 DEF Pulling, Told
    <3>5. CASE \E type \in Telling : Pull(type)
      BY <3>4, <3>5, Hears DEF Telling
    <3>6. CASE e.type = "throw"
      BY <3>3, <3>4, <3>6, ThrowSays
    <3> QED BY <3>1, <3>5, <3>6
  <2> QED BY <2>1, <2>2
<1> QED BY <1>2, <1>3, <1>4 DEF Next

(* A stream ends once, and as it was recorded.                                  *)
THEOREM EndsOnceHolds == Spec => EndsOnce
<1>1. IInv /\ IInv' /\ [Next]_vars => [EndsRight' /\ (client.ends # <<>> => UNCHANGED client)]_vars
  <2>1. Ended => EndsRight
    BY EndedRight
  <2>2. IInv' => EndsRight'
    BY <2>1, PTL DEF IInv
  <2> QED BY <2>2, NothingAfterEnd
<1> QED BY <1>1, Invariance, PTL DEF Spec, EndsOnce

(* An event of the stream is a step of its contract.                            *)
LEMMA PullContract ==
  ASSUME NEW s, NEW m, Pulling(s, m), NEW type \in Telling, Pull(type)
  PROVE  Contract!Next
<1>1. /\ e.type = type /\ e \in Events /\ Says(World, s, e, m) /\ s.phase = heard.phase
      /\ s.open = heard.open /\ s \in Readings /\ m \in Readings
  BY DEF Pull, Pulls, Pulling, Told
<1>2. m.phase = heard'.phase /\ m.open = heard'.open
  BY Hears DEF Telling
<1> DEFINE a == e
           w == World
           i == a.index
<1>3. heard'.last = [type |-> type, index |-> i]
  BY DEF Pull, Hear
<1>4. i \in Blocks /\ a.type = type /\ Says(w, s, a, m) /\ a \in Events
  BY <1>1 DEF Events
<1> HIDE DEF a, w
<1>5. CASE type = "message_start"
  <2>1. i = 0 /\ s.phase = "new" /\ m.phase = "started" /\ m.open = s.open
    BY <1>1, <1>4, <1>5, MessageStartSays
  <2>2. Contract!MessageStart
    BY <1>1, <1>2, <1>3, <1>5, <2>1 DEF Contract!MessageStart, Contract!Heard
  <2> QED BY <2>2 DEF Contract!Next
<1>6. CASE type = "content_block_start"
  <2>1. s.phase = "started" /\ i \notin s.open /\ m.phase = "started" /\ m.open = s.open \cup {i}
    BY <1>1, <1>4, <1>6 DEF Says, Readings
  <2>2. Contract!BlockStart(i)
    BY <1>1, <1>2, <1>3, <1>6, <2>1 DEF Contract!BlockStart, Contract!Heard
  <2> QED BY <1>4, <2>2 DEF Contract!Next
<1>7. CASE type = "content_block_delta"
  <2>1. i \in s.open /\ m.phase = s.phase /\ m.open = s.open
    BY <1>1, <1>4, <1>7, BlockDeltaSays
  <2>2. Contract!BlockDelta(i)
    BY <1>1, <1>2, <1>3, <1>7, <2>1 DEF Contract!BlockDelta, Contract!Heard
  <2> QED BY <1>4, <2>2 DEF Contract!Next
<1>8. CASE type = "content_block_stop"
  <2>1. i \in s.open /\ m.phase = s.phase /\ m.open = s.open \ {i}
    BY <1>1, <1>4, <1>8 DEF Says, Readings
  <2>2. Contract!BlockStop(i)
    BY <1>1, <1>2, <1>3, <1>8, <2>1 DEF Contract!BlockStop, Contract!Heard
  <2> QED BY <1>4, <2>2 DEF Contract!Next
<1>9. CASE type = "message_delta"
  <2>1. i = 0 /\ s.phase = "started" /\ s.open = {} /\ m.phase = "started" /\ m.open = {}
    BY <1>1, <1>4, <1>9, MessageDeltaSays
  <2>2. Contract!MessageDelta
    BY <1>1, <1>2, <1>3, <1>9, <2>1 DEF Contract!MessageDelta, Contract!Heard
  <2> QED BY <2>2 DEF Contract!Next
<1>10. CASE type = "message_stop"
  <2>1. i = 0 /\ s.phase # "stopped" /\ s.open = {} /\ m.phase = "stopped" /\ m.open = {}
    BY <1>1, <1>4, <1>10, MessageStopSays
  <2>2. Contract!MessageStop
    BY <1>1, <1>2, <1>3, <1>10, <2>1 DEF Contract!MessageStop, Contract!Heard
  <2> QED BY <2>2 DEF Contract!Next
<1> QED BY <1>5, <1>6, <1>7, <1>8, <1>9, <1>10 DEF Telling, EventTypes

(* Both source translators keep the contract of the canonical events            *)
(* (canonical.ts) in whatever order the chunks come and wherever they stop.     *)
THEOREM Refinement == Spec => ImplementsContract
<1>1. Init => Contract!Init
  BY DEF Init, Contract!Init
<1>2. IInv /\ [Next]_vars => [Contract!Next]_<<heard.phase, heard.open, heard.last>>
  <2> SUFFICES ASSUME IInv, [Next]_vars, heard' # heard PROVE Contract!Next
    OBVIOUS
  <2>1. Sink /\ ~Finally
    BY SourceLeaves DEF Next, ClientLeaves, Dropped, sink, vars, Finally, CleansUp
  <2>2. Running /\ events # <<>> /\ \E type \in Telling : Pull(type)
    BY <2>1, SinkPulls DEF CleansUp
  <2>3. PICK s \in Readings, m \in Readings : e \in Events /\ Told(s) /\ Says(World, s, e, m)
    BY <2>2, NextReading DEF IInv
  <2>4. Pulling(s, m)
    BY <2>2, <2>3 DEF Pulling, IInv
  <2> QED BY <2>2, <2>4, PullContract
<1> QED BY <1>1, <1>2, Invariance, PTL DEF Spec, ImplementsContract, Contract!Spec
=============================================================================
