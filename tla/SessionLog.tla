----------------------------- MODULE SessionLog ------------------------------
(* What the session store promises of one session                              *)
(* (router/src/providers/session-store.ts): a log of numbered turns. A turn is *)
(* added behind all others or not at all; turns go only all together, when     *)
(* the session is deleted or compacted.                                        *)
EXTENDS Integers

VARIABLE log   \* the turns, each with its index

Init == log = {}

(* appendTurn *)
Append ==
    \E turn \in log' :
        /\ turn \notin log
        /\ log' = log \cup {turn}
        /\ \A other \in log : other.index < turn.index

(* deleteSession *)
Clear == log' = {}

(* replaceTurns, with a single summary *)
Replace == \E turn \in log' : log' = {turn} /\ turn.index = 1

Next == Append \/ Clear \/ Replace
Spec == Init /\ [][Next]_log
=============================================================================
