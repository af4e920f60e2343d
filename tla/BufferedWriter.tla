---------------------------- MODULE BufferedWriter ----------------------------
(* The request_log writer of router/src/db/bufferedWriter.ts: an in-process    *)
(* FIFO that push() fills, and that an interval timer, a row-count microtask   *)
(* and drain() flush into Postgres one multi-row INSERT at a time. Rows are    *)
(* numbered in the order push() is called; only an INSERT takes time, so each  *)
(* other action is one synchronous stretch of JavaScript.                      *)
EXTENDS Integers, Sequences, FiniteSets, SequencesExt

CONSTANTS
    Capacity,      \* capacity, rows the buffer holds
    MaxBatchRows,  \* MAX_BATCH_ROWS, rows of one INSERT
    FlushAtRows,   \* flushAtRows
    MaxRows        \* bound: rows pushed

ASSUME WriterAssumption ==
    /\ {Capacity, MaxBatchRows, FlushAtRows} \subseteq Nat \ {0}
    /\ MaxBatchRows <= Capacity
    /\ MaxRows \in Nat

VARIABLES
    buf,        \* the buffered rows, oldest first
    batch,      \* the rows of the INSERT in flight
    flushing,   \* the re-entrancy lock
    scheduled,  \* a microtask that flushes is queued
    drain,      \* "no", "awaiting" its own flush, or "done"
    pushed,     \* rows push() accepted so far
    dropped,    \* droppedCounter
    stored,     \* rows of request_log in Postgres
    faults      \* history: what went wrong ("failed", "lostAck", "timeout")

vars == <<buf, batch, flushing, scheduled, drain, pushed, dropped, stored, faults>>

stopped == drain # "no"

Init ==
    /\ buf = <<>> /\ batch = <<>>
    /\ flushing = FALSE /\ scheduled = FALSE
    /\ drain = "no"
    /\ pushed = 0 /\ dropped = 0
    /\ stored = {}
    /\ faults = {}

(* The rows of q from its (n+1)-th on, as splice(0, n) leaves them. *)
DropOldest(q, n) == SubSeq(q, n + 1, Len(q))

-----------------------------------------------------------------------------
(* push(): a no-op once stopped; at capacity the oldest row makes room. *)
Push_Uncapped ==
    /\ ~stopped
    /\ pushed < MaxRows
    /\ pushed' = pushed + 1
    /\ buf' = Append(buf, pushed')
    /\ scheduled' = (scheduled \/ Len(buf') >= FlushAtRows)
    /\ UNCHANGED <<dropped, batch, flushing, drain, stored, faults>>
Push ==
    /\ ~stopped
    /\ pushed < MaxRows
    /\ pushed' = pushed + 1
    /\ IF Len(buf) >= Capacity
       THEN buf' = Append(DropOldest(buf, 1), pushed') /\ dropped' = dropped + 1
       ELSE buf' = Append(buf, pushed') /\ UNCHANGED dropped
    /\ scheduled' = (scheduled \/ Len(buf') >= FlushAtRows)
    /\ UNCHANGED <<batch, flushing, drain, stored, faults>>

(* flush() up to its await: take a batch, unless another flush holds the lock, *)
(* nothing is buffered, or the writer is stopped and the flush is not forced.  *)
MayFlush_Empty(force) == ~flushing /\ (~stopped \/ force)
MayFlush(force) == ~flushing /\ buf # <<>> /\ (~stopped \/ force)

StartFlush ==
    LET n == IF Len(buf) < MaxBatchRows THEN Len(buf) ELSE MaxBatchRows IN
    /\ flushing' = TRUE
    /\ batch' = SubSeq(buf, 1, n)
    /\ buf' = DropOldest(buf, n)

(* Microtasks run before the event loop turns to anything else; only the stack *)
(* that pushed, which may push again, comes first.                             *)
MicrotaskFlush ==
    /\ scheduled
    /\ scheduled' = FALSE
    /\ IF MayFlush(FALSE) THEN StartFlush ELSE UNCHANGED <<buf, batch, flushing>>
    /\ UNCHANGED <<drain, pushed, dropped, stored, faults>>

(* The interval timer, which drain() clears. *)
TimerFlush_WhenFull ==
    /\ ~scheduled /\ ~stopped
    /\ MayFlush(FALSE) /\ Len(buf) >= FlushAtRows
    /\ StartFlush
    /\ UNCHANGED <<scheduled, drain, pushed, dropped, stored, faults>>
TimerFlush ==
    /\ ~scheduled /\ ~stopped
    /\ MayFlush(FALSE)
    /\ StartFlush
    /\ UNCHANGED <<scheduled, drain, pushed, dropped, stored, faults>>

-----------------------------------------------------------------------------
(* flush() after its await *)

InsertOk ==
    /\ ~scheduled /\ flushing
    /\ stored' = stored \cup ToSet(batch)
    /\ batch' = <<>> /\ flushing' = FALSE
    /\ UNCHANGED <<buf, scheduled, drain, pushed, dropped, faults>>

(* The failed batch goes back to the head. If that overflows the buffer, the   *)
(* oldest of the rows that arrived meanwhile are dropped and counted.          *)
Requeue_Uncounted ==
    LET overflow == Len(buf) + Len(batch) - Capacity IN
    /\ buf' = batch \o (IF overflow > 0 THEN DropOldest(buf, overflow) ELSE buf)
    /\ batch' = <<>> /\ flushing' = FALSE
    /\ UNCHANGED dropped
Requeue_AtTail ==
    LET overflow == Len(buf) + Len(batch) - Capacity IN
    /\ IF overflow > 0
       THEN buf' = DropOldest(buf, overflow) \o batch /\ dropped' = dropped + overflow
       ELSE buf' = buf \o batch /\ UNCHANGED dropped
    /\ batch' = <<>> /\ flushing' = FALSE
Requeue ==
    LET overflow == Len(buf) + Len(batch) - Capacity IN
    /\ IF overflow > 0
       THEN buf' = batch \o DropOldest(buf, overflow) /\ dropped' = dropped + overflow
       ELSE buf' = batch \o buf /\ UNCHANGED dropped
    /\ batch' = <<>> /\ flushing' = FALSE

InsertFails ==
    /\ ~scheduled /\ flushing
    /\ Requeue
    /\ faults' = faults \cup {"failed"}
    /\ UNCHANGED <<scheduled, drain, pushed, stored>>

(* Postgres committed the INSERT but the connection broke before it said so. *)
InsertLostAck ==
    /\ ~scheduled /\ flushing
    /\ stored' = stored \cup ToSet(batch)
    /\ Requeue
    /\ faults' = faults \cup {"lostAck"}
    /\ UNCHANGED <<scheduled, drain, pushed>>

-----------------------------------------------------------------------------
(* drain(): stop, then race one forced flush against the timeout. When that    *)
(* flush has nothing it may do it resolves at once, and so does the race.      *)
DrainStart ==
    /\ ~scheduled /\ ~stopped
    /\ IF MayFlush(TRUE)
       THEN StartFlush /\ drain' = "awaiting"
       ELSE UNCHANGED <<buf, batch, flushing>> /\ drain' = "done"
    /\ UNCHANGED <<scheduled, pushed, dropped, stored, faults>>

DrainFlushed ==
    /\ drain = "awaiting" /\ ~flushing
    /\ drain' = "done"
    /\ UNCHANGED <<buf, batch, flushing, scheduled, pushed, dropped, stored, faults>>

DrainTimeout ==
    /\ drain = "awaiting" /\ flushing
    /\ drain' = "done"
    /\ faults' = faults \cup {"timeout"}
    /\ UNCHANGED <<buf, batch, flushing, scheduled, pushed, dropped, stored>>

Next ==
    \/ Push \/ MicrotaskFlush \/ TimerFlush
    \/ InsertOk \/ InsertFails \/ InsertLostAck
    \/ DrainStart \/ DrainFlushed \/ DrainTimeout

(* Timers and microtasks run, every INSERT ends, and Postgres does not fail    *)
(* for ever.                                                                   *)
Fairness ==
    /\ WF_vars(MicrotaskFlush) /\ WF_vars(TimerFlush)
    /\ SF_vars(InsertOk)
    /\ WF_vars(DrainFlushed) /\ WF_vars(DrainTimeout)

Spec == Init /\ [][Next]_vars /\ Fairness

-----------------------------------------------------------------------------
(* Properties *)

(* Every variable has its type, and a batch exists only under the lock. *)
TypeOK ==
    /\ buf \in Seq(1..pushed) /\ batch \in Seq(1..pushed)
    /\ flushing \in BOOLEAN /\ scheduled \in BOOLEAN
    /\ flushing <=> batch # <<>>
    /\ drain \in {"no", "awaiting", "done"}
    /\ pushed \in 0..MaxRows /\ dropped \in Nat
    /\ stored \subseteq 1..pushed
    /\ faults \subseteq {"failed", "lostAck", "timeout"}

(* The buffer never exceeds its capacity, not even when a failed batch returns *)
(* to a buffer that filled up meanwhile (WR-01), and no INSERT its row cap.    *)
WithinCapacity == Len(buf) <= Capacity /\ Len(batch) <= MaxBatchRows

(* Rows are kept in the order they were pushed: a batch in flight is older     *)
(* than everything buffered, and a retry does not reorder or duplicate it.     *)
FifoOrder ==
    LET all == batch \o buf IN
    \A i, j \in 1..Len(all) : i < j => all[i] < all[j]

Missing == (1..pushed) \ (stored \cup ToSet(batch) \cup ToSet(buf))

(* No row vanishes silently: droppedCounter counts every row that is neither   *)
(* stored nor still held, and only those unless an acknowledgement was lost.   *)
DropsCounted ==
    /\ Cardinality(Missing) <= dropped
    /\ "lostAck" \notin faults => Cardinality(Missing) = dropped

(* Both: bounded, and honest about what the bound cost.                        *)
RowsAccounted == WithinCapacity /\ DropsCounted

(* Every buffered row is eventually stored or dropped, or drain() was called.  *)
BufferEmpties ==
    \A n \in 1..MaxRows :
        n \in ToSet(buf) ~> (n \in stored \/ n \in Missing \/ stopped)
=============================================================================
