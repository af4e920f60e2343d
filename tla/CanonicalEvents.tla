---------------------------- MODULE CanonicalEvents ----------------------------
(* What the canonical event stream of a message promises its consumers          *)
(* (router/src/translation/canonical.ts, CanonicalStreamEvent): the message     *)
(* starts before anything else, a content block is announced before its deltas  *)
(* and closed before the message's stop reason or end is told, and nothing      *)
(* follows the end. An upstream that says nothing leaves an end without a start.*)
EXTENDS Integers

CONSTANT Blocks   \* content block indexes

VARIABLES phase,  \* "new", "started" or "stopped"
          open,   \* blocks announced and not closed
          last    \* the event heard last

Heard(type, index) == last' = [type |-> type, index |-> index]

Init == phase = "new" /\ open = {} /\ last = [type |-> "none", index |-> 0]

MessageStart ==
    /\ phase = "new"
    /\ phase' = "started"
    /\ Heard("message_start", 0)
    /\ UNCHANGED open

BlockStart(i) ==
    /\ phase = "started"
    /\ i \notin open
    /\ open' = open \cup {i}
    /\ Heard("content_block_start", i)
    /\ UNCHANGED phase

BlockDelta(i) ==
    /\ i \in open
    /\ Heard("content_block_delta", i)
    /\ UNCHANGED <<phase, open>>

BlockStop(i) ==
    /\ i \in open
    /\ open' = open \ {i}
    /\ Heard("content_block_stop", i)
    /\ UNCHANGED phase

MessageDelta ==
    /\ phase = "started"
    /\ open = {}
    /\ Heard("message_delta", 0)
    /\ UNCHANGED <<phase, open>>

MessageStop ==
    /\ phase # "stopped"
    /\ open = {}
    /\ phase' = "stopped"
    /\ Heard("message_stop", 0)
    /\ UNCHANGED open

Next ==
    \/ MessageStart \/ MessageDelta \/ MessageStop
    \/ \E i \in Blocks : BlockStart(i) \/ BlockDelta(i) \/ BlockStop(i)

Spec == Init /\ [][Next]_<<phase, open, last>>
=============================================================================
