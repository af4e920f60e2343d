------------------------- MODULE BufferedWriterProofs -------------------------
(* Theorems about BufferedWriter for every capacity, batch size and number of  *)
(* rows: the buffer stays within its capacity and in order, and no row         *)
(* vanishes uncounted.                                                         *)
EXTENDS BufferedWriter, SequenceTheorems, FiniteSetTheorems, TLAPS

Increasing(q) == \A i, j \in 1..Len(q) : i < j => q[i] < q[j]
Before(a, b) == \A i \in 1..Len(a), j \in 1..Len(b) : a[i] < b[j]

(* FifoOrder, taken apart. *)
Ordered == Increasing(batch) /\ Increasing(buf) /\ Before(batch, buf)

-----------------------------------------------------------------------------
(* Facts about the sequence operations *)

(* Taking the first rows keeps them as they are. *)
LEMMA TakeElements ==
    ASSUME NEW S, NEW q \in Seq(S), NEW n \in 0..Len(q)
    PROVE  /\ SubSeq(q, 1, n) \in Seq(S)
           /\ Len(SubSeq(q, 1, n)) = n
           /\ \A j \in 1..n : SubSeq(q, 1, n)[j] = q[j]
<1>1. Len(q) \in Nat /\ n \in Int /\ \A i \in 1..n : q[i] \in S
  OBVIOUS
<1>2. /\ SubSeq(q, 1, n) \in Seq(S)
      /\ Len(SubSeq(q, 1, n)) = IF 1 <= n THEN n - 1 + 1 ELSE 0
      /\ \A i \in 1..(n - 1 + 1) : SubSeq(q, 1, n)[i] = q[1 + i - 1]
  BY <1>1, SubSeqProperties
<1> QED
  BY <1>1, <1>2

(* DropOldest removes exactly the first n rows. *)
LEMMA DropElements ==
    ASSUME NEW S, NEW q \in Seq(S), NEW n \in 0..Len(q)
    PROVE  /\ DropOldest(q, n) \in Seq(S)
           /\ Len(DropOldest(q, n)) = Len(q) - n
           /\ \A j \in 1..(Len(q) - n) : DropOldest(q, n)[j] = q[n + j]
<1>1. Len(q) \in Nat /\ n + 1 \in Int /\ \A i \in (n + 1)..Len(q) : q[i] \in S
  OBVIOUS
<1>2. /\ SubSeq(q, n + 1, Len(q)) \in Seq(S)
      /\ Len(SubSeq(q, n + 1, Len(q))) = IF n + 1 <= Len(q) THEN Len(q) - (n + 1) + 1 ELSE 0
      /\ \A i \in 1..(Len(q) - (n + 1) + 1) : SubSeq(q, n + 1, Len(q))[i] = q[(n + 1) + i - 1]
  BY <1>1, SubSeqProperties
<1>3. \A i \in 1..(Len(q) - n) : SubSeq(q, n + 1, Len(q))[i] = q[n + i]
  BY <1>1, <1>2
<1> QED
  BY <1>1, <1>2, <1>3 DEF DropOldest

(* Rows stay rows when another is pushed. *)
LEMMA SeqGrows ==
    ASSUME NEW n \in Nat, NEW q \in Seq(1..n)
    PROVE  q \in Seq(1..(n + 1))
<1>1. 1..n \subseteq 1..(n + 1)
  OBVIOUS
<1> QED
  BY <1>1, SeqMonotonic, Zenon

(* A concatenation is increasing exactly when its parts are, one before the    *)
(* other.                                                                      *)
LEMMA ConcatIncreasing ==
    ASSUME NEW a \in Seq(Nat), NEW b \in Seq(Nat)
    PROVE  Increasing(a \o b) <=> Increasing(a) /\ Increasing(b) /\ Before(a, b)
<1> DEFINE c == a \o b
<1>1. Len(a) \in Nat /\ Len(b) \in Nat
  OBVIOUS
<1>2. /\ Len(c) = Len(a) + Len(b)
      /\ \A i \in 1..(Len(a) + Len(b)) :
            c[i] = IF i <= Len(a) THEN a[i] ELSE b[i - Len(a)]
  BY ConcatProperties, ZenonT(30)
<1>a. \A i \in 1..Len(a) : i \in 1..Len(c) /\ c[i] = a[i]
  BY <1>1, <1>2
<1>b. \A i \in 1..Len(b) : Len(a) + i \in 1..Len(c) /\ c[Len(a) + i] = b[i]
  <2> TAKE i \in 1..Len(b)
  <2>1. Len(a) + i \in 1..(Len(a) + Len(b)) /\ ~(Len(a) + i <= Len(a)) /\ Len(a) + i - Len(a) = i
    BY <1>1
  <2> QED
    BY <2>1, <1>2
<1>c. \A i \in 1..Len(c) : i \in 1..Len(a) \/ \E k \in 1..Len(b) : i = Len(a) + k
  <2> TAKE i \in 1..Len(c)
  <2>1. CASE i <= Len(a)
    BY <2>1, <1>1, <1>2
  <2>2. CASE ~(i <= Len(a))
    <3>1. i - Len(a) \in 1..Len(b) /\ i = Len(a) + (i - Len(a))
      BY <2>2, <1>1, <1>2
    <3> QED
      BY <3>1
  <2> QED
    BY <2>1, <2>2
<1> HIDE DEF c
<1>3. ASSUME Increasing(c)
      PROVE  Increasing(a) /\ Increasing(b) /\ Before(a, b)
  <2>1. Increasing(a)
    BY <1>3, <1>1, <1>a DEF Increasing
  <2>2. ASSUME NEW i \in 1..Len(b), NEW j \in 1..Len(b), i < j
        PROVE  b[i] < b[j]
    <3>1. Len(a) + i < Len(a) + j
      BY <1>1, <2>2
    <3> QED
      BY <3>1, <1>3, <1>b DEF Increasing
  <2>3. ASSUME NEW i \in 1..Len(a), NEW j \in 1..Len(b)
        PROVE  a[i] < b[j]
    <3>1. i < Len(a) + j
      BY <1>1
    <3> QED
      BY <3>1, <1>3, <1>a, <1>b DEF Increasing
  <2> QED
    BY <2>1, <2>2, <2>3 DEF Increasing, Before
<1>4. ASSUME Increasing(a), Increasing(b), Before(a, b),
             NEW i \in 1..Len(c), NEW j \in 1..Len(c), i < j
      PROVE  c[i] < c[j]
  <2>1. CASE i \in 1..Len(a) /\ j \in 1..Len(a)
    BY <2>1, <1>4, <1>a DEF Increasing
  <2>2. CASE i \in 1..Len(a) /\ \E k \in 1..Len(b) : j = Len(a) + k
    BY <2>2, <1>4, <1>a, <1>b DEF Before
  <2>3. CASE \E k \in 1..Len(b), l \in 1..Len(b) : i = Len(a) + k /\ j = Len(a) + l
    <3>1. PICK k \in 1..Len(b), l \in 1..Len(b) : i = Len(a) + k /\ j = Len(a) + l
      BY <2>3
    <3>2. k < l
      BY <3>1, <1>4, <1>1
    <3> QED
      BY <3>1, <3>2, <1>4, <1>b DEF Increasing
  <2>4. CASE j \in 1..Len(a) /\ \E k \in 1..Len(b) : i = Len(a) + k
    BY <2>4, <1>4, <1>1
  <2> QED
    BY <2>1, <2>2, <2>3, <2>4, <1>c
<1> QED
  BY <1>3, <1>4 DEF Increasing, c

-----------------------------------------------------------------------------
(* What push(), flush() and a returning batch do to the buffer *)

(* Dropping no rows changes nothing.                                           *)
LEMMA DropNone == ASSUME NEW S, NEW q \in Seq(S) PROVE DropOldest(q, 0) = q
  BY SubSeqFull DEF DropOldest

(* push() drops one row when the buffer is full and none otherwise. *)
LEMMA PushEffect ==
    ASSUME TypeOK, WithinCapacity, Push
    PROVE  \E n \in 0..Len(buf) :
              /\ dropped' = dropped + n
              /\ buf' = Append(DropOldest(buf, n), pushed + 1)
              /\ Len(buf) - n < Capacity
<1>1. Len(buf) \in Nat /\ buf \in Seq(1..pushed) /\ dropped \in Nat /\ Capacity \in Nat \ {0}
      /\ Len(buf) <= Capacity
  BY WriterAssumption DEF TypeOK, WithinCapacity
<1>2. CASE Len(buf) >= Capacity
  <2>1. buf' = Append(DropOldest(buf, 1), pushed + 1) /\ dropped' = dropped + 1
    BY <1>2 DEF Push
  <2>2. 1 \in 0..Len(buf) /\ Len(buf) - 1 < Capacity
    BY <1>1, <1>2
  <2> QED
    BY <2>1, <2>2
<1>3. CASE ~(Len(buf) >= Capacity)
  <2>1. buf' = Append(buf, pushed + 1) /\ dropped' = dropped
    BY <1>3 DEF Push
  <2>2. 0 \in 0..Len(buf) /\ Len(buf) - 0 < Capacity /\ dropped' = dropped + 0
    BY <1>1, <1>3, <2>1
  <2>3. DropOldest(buf, 0) = buf
    BY <1>1, DropNone
  <2> QED
    BY <2>1, <2>2, <2>3
<1> QED
  BY <1>2, <1>3

(* flush() splits a non-empty buffer at some row the batch size allows. *)
LEMMA StartFlushEffect ==
    ASSUME TypeOK, buf # <<>>, StartFlush
    PROVE  \E n \in 1..Len(buf) :
              /\ n <= MaxBatchRows
              /\ flushing' = TRUE
              /\ batch' = SubSeq(buf, 1, n)
              /\ buf' = DropOldest(buf, n)
<1> DEFINE n == IF Len(buf) < MaxBatchRows THEN Len(buf) ELSE MaxBatchRows
<1>1. Len(buf) \in Nat \ {0} /\ MaxBatchRows \in Nat \ {0}
  BY EmptySeq, WriterAssumption DEF TypeOK
<1>2. n \in 1..Len(buf) /\ n <= MaxBatchRows
  BY <1>1
<1>3. flushing' = TRUE /\ batch' = SubSeq(buf, 1, n) /\ buf' = DropOldest(buf, n)
  BY DEF StartFlush
<1> QED
  BY <1>2, <1>3

(* A returning batch pushes out as many buffered rows as it must. *)
LEMMA RequeueEffect ==
    ASSUME TypeOK, WithinCapacity, Requeue
    PROVE  \E n \in 0..Len(buf) :
              /\ dropped' = dropped + n
              /\ buf' = batch \o DropOldest(buf, n)
              /\ Len(batch) + (Len(buf) - n) <= Capacity
              /\ batch' = <<>> /\ flushing' = FALSE
<1> DEFINE overflow == Len(buf) + Len(batch) - Capacity
<1>1. /\ Len(buf) \in Nat /\ Len(batch) \in Nat
      /\ buf \in Seq(1..pushed) /\ dropped \in Nat
      /\ Capacity \in Nat \ {0} /\ MaxBatchRows \in Nat \ {0} /\ MaxBatchRows <= Capacity
      /\ Len(buf) <= Capacity /\ Len(batch) <= MaxBatchRows
  BY WriterAssumption DEF TypeOK, WithinCapacity
<1>2. batch' = <<>> /\ flushing' = FALSE
  BY DEF Requeue
<1>3. CASE overflow > 0
  <2>1. buf' = batch \o DropOldest(buf, overflow) /\ dropped' = dropped + overflow
    BY <1>3 DEF Requeue
  <2>2. overflow \in 0..Len(buf) /\ Len(batch) + (Len(buf) - overflow) <= Capacity
    BY <1>1, <1>3
  <2> QED
    BY <1>2, <2>1, <2>2
<1>4. CASE ~(overflow > 0)
  <2>1. buf' = batch \o buf /\ dropped' = dropped
    BY <1>4 DEF Requeue
  <2>2. 0 \in 0..Len(buf) /\ Len(batch) + (Len(buf) - 0) <= Capacity /\ dropped' = dropped + 0
    BY <1>1, <1>4, <2>1
  <2>3. DropOldest(buf, 0) = buf
    BY <1>1, DropNone
  <2> QED
    BY <1>2, <2>1, <2>2, <2>3
<1> QED
  BY <1>3, <1>4

(* A flush that starts finds a buffer that is not empty and no batch. *)
LEMMA FlushStarts ==
    ASSUME TypeOK, NEW force, MayFlush(force)
    PROVE  buf # <<>> /\ batch = <<>>
  BY DEF MayFlush, TypeOK

-----------------------------------------------------------------------------
(* Type, bounds and order *)

Queues == TypeOK /\ WithinCapacity /\ Ordered

(* What Queues says of the types and lengths, spelled out.                     *)
LEMMA QueuesFacts ==
    ASSUME Queues
    PROVE  /\ buf \in Seq(1..pushed) /\ batch \in Seq(1..pushed)
           /\ buf \in Seq(Nat) /\ batch \in Seq(Nat)
           /\ pushed \in Nat /\ dropped \in Nat /\ stored \subseteq 1..pushed
           /\ Len(buf) \in Nat /\ Len(batch) \in Nat
           /\ Capacity \in Nat \ {0} /\ MaxBatchRows \in Nat \ {0} /\ MaxBatchRows <= Capacity
           /\ MaxRows \in Nat /\ pushed <= MaxRows
           /\ Len(buf) <= Capacity /\ Len(batch) <= MaxBatchRows
<1>1. buf \in Seq(1..pushed) /\ batch \in Seq(1..pushed) /\ pushed \in 0..MaxRows
      /\ dropped \in Nat /\ stored \subseteq 1..pushed
  BY DEF Queues, TypeOK
<1>2. MaxRows \in Nat
  BY WriterAssumption
<1>3. 1..pushed \subseteq Nat
  BY <1>1, <1>2
<1>4. buf \in Seq(Nat) /\ batch \in Seq(Nat)
  BY <1>1, <1>3, SeqMonotonic, ZenonT(30)
<1> QED
  BY <1>1, <1>2, <1>4, WriterAssumption DEF Queues, WithinCapacity

(* A new row is the youngest: appending it keeps type and order. *)
LEMMA PushQueues ==
    ASSUME Queues, Push
    PROVE  Queues'
<1>0. /\ buf \in Seq(1..pushed) /\ batch \in Seq(1..pushed)
      /\ buf \in Seq(Nat) /\ batch \in Seq(Nat)
      /\ pushed \in Nat /\ dropped \in Nat /\ stored \subseteq 1..pushed
      /\ Len(buf) \in Nat /\ Len(batch) \in Nat
      /\ Capacity \in Nat \ {0} /\ MaxBatchRows \in Nat \ {0} /\ MaxBatchRows <= Capacity
      /\ MaxRows \in Nat /\ pushed <= MaxRows
      /\ Len(buf) <= Capacity /\ Len(batch) <= MaxBatchRows
  BY QueuesFacts
<1> USE <1>0
<1>1. PICK n \in 0..Len(buf) :
              /\ dropped' = dropped + n
              /\ buf' = Append(DropOldest(buf, n), pushed + 1)
              /\ Len(buf) - n < Capacity
  BY PushEffect DEF Queues
<1>2. /\ pushed' = pushed + 1 /\ pushed + 1 \in 0..MaxRows
      /\ batch' = batch /\ flushing' = flushing /\ drain' = drain
      /\ stored' = stored /\ faults' = faults
  BY DEF Push
<1>3. scheduled' \in BOOLEAN
  BY DEF Push, Queues, TypeOK
<1> DEFINE d == DropOldest(buf, n)
<1>4. /\ d \in Seq(1..pushed)
      /\ Len(d) = Len(buf) - n
      /\ \A j \in 1..(Len(buf) - n) : d[j] = buf[n + j]
  BY DropElements
<1> HIDE DEF d
<1>5. 1..pushed \subseteq 1..(pushed + 1) /\ pushed + 1 \in 1..(pushed + 1)
  OBVIOUS
<1>6. d \in Seq(1..(pushed + 1)) /\ batch \in Seq(1..(pushed + 1))
  BY <1>4, SeqGrows, Zenon
<1>7. buf' = Append(d, pushed + 1)
  BY <1>1 DEF d
<1>8. /\ buf' \in Seq(1..(pushed + 1))
      /\ Len(buf') = Len(d) + 1
      /\ \A j \in 1..Len(d) : buf'[j] = d[j]
      /\ buf'[Len(d) + 1] = pushed + 1
  BY <1>5, <1>6, <1>7
<1>9. TypeOK'
  <2>1. stored \subseteq 1..(pushed + 1) /\ dropped' \in Nat
    BY <1>1, <1>5
  <2> QED
    BY <1>2, <1>3, <1>6, <1>8, <2>1 DEF Queues, TypeOK
<1>10. WithinCapacity'
  <2>1. Len(buf') <= Capacity
    BY <1>1, <1>4, <1>8
  <2> QED
    BY <2>1, <1>2 DEF WithinCapacity
<1>11. \A j \in 1..Len(d) : n + j \in 1..Len(buf) /\ buf'[j] = buf[n + j] /\ buf'[j] \in 1..pushed
  <2> TAKE j \in 1..Len(d)
  <2>1. n + j \in 1..Len(buf) /\ j \in 1..(Len(buf) - n)
    BY <1>4
  <2>2. buf[n + j] \in 1..pushed
    BY <2>1
  <2>3. buf'[j] = d[j] /\ d[j] = buf[n + j]
    BY <2>1, <1>4, <1>8, Zenon
  <2> QED
    BY <2>1, <2>2, <2>3, Zenon
<1>12. \A j \in 1..Len(buf') : j \in 1..Len(d) \/ j = Len(d) + 1
  <2>1. Len(d) \in Nat /\ Len(buf') = Len(d) + 1
    BY <1>4, <1>8
  <2> QED
    BY <2>1
<1>13. Increasing(buf')
  <2> SUFFICES ASSUME NEW i \in 1..Len(buf'), NEW j \in 1..Len(buf'), i < j
               PROVE  buf'[i] < buf'[j]
    BY DEF Increasing
  <2>1. i \in 1..Len(d)
    BY <1>4, <1>8
  <2>2. CASE j \in 1..Len(d)
    <3>1. n + i < n + j
      BY <2>1, <2>2
    <3>2. /\ n + i \in 1..Len(buf) /\ buf'[i] = buf[n + i]
          /\ n + j \in 1..Len(buf) /\ buf'[j] = buf[n + j]
      BY <2>1, <2>2, <1>11, Zenon
    <3>3. buf[n + i] < buf[n + j]
      BY <3>1, <3>2, Zenon DEF Queues, Ordered, Increasing
    <3> QED
      BY <3>2, <3>3, Zenon
  <2>3. CASE j = Len(d) + 1
    BY <2>1, <2>3, <1>8, <1>11
  <2> QED
    BY <2>2, <2>3, <1>12
<1>14. Before(batch, buf')
  <2> SUFFICES ASSUME NEW i \in 1..Len(batch), NEW j \in 1..Len(buf')
               PROVE  batch[i] < buf'[j]
    BY DEF Before
  <2>1. batch[i] \in 1..pushed
    OBVIOUS
  <2>2. CASE j \in 1..Len(d)
    BY <2>2, <1>11 DEF Queues, Ordered, Before
  <2>3. CASE j = Len(d) + 1
    BY <2>1, <2>3, <1>8
  <2> QED
    BY <2>2, <2>3, <1>12
<1>15. Ordered'
  BY <1>2, <1>13, <1>14 DEF Queues, Ordered
<1> QED
  BY <1>9, <1>10, <1>15 DEF Queues

(* A flush that starts takes the oldest rows. *)
LEMMA StartFlushQueues ==
    ASSUME Queues, buf # <<>>, batch = <<>>, StartFlush,
           scheduled' \in BOOLEAN, drain' \in {"no", "awaiting", "done"},
           UNCHANGED <<pushed, dropped, stored, faults>>
    PROVE  Queues'
<1>0. /\ buf \in Seq(1..pushed) /\ batch \in Seq(1..pushed)
      /\ buf \in Seq(Nat) /\ batch \in Seq(Nat)
      /\ pushed \in Nat /\ dropped \in Nat /\ stored \subseteq 1..pushed
      /\ Len(buf) \in Nat /\ Len(batch) \in Nat
      /\ Capacity \in Nat \ {0} /\ MaxBatchRows \in Nat \ {0} /\ MaxBatchRows <= Capacity
      /\ MaxRows \in Nat /\ pushed <= MaxRows
      /\ Len(buf) <= Capacity /\ Len(batch) <= MaxBatchRows
  BY QueuesFacts
<1> USE <1>0
<1>1. PICK n \in 1..Len(buf) :
              /\ n <= MaxBatchRows
              /\ flushing' = TRUE
              /\ batch' = SubSeq(buf, 1, n)
              /\ buf' = DropOldest(buf, n)
  BY StartFlushEffect DEF Queues
<1>2. n \in 0..Len(buf)
  OBVIOUS
<1>3. /\ batch' \in Seq(1..pushed)
      /\ Len(batch') = n
      /\ \A j \in 1..n : batch'[j] = buf[j]
  BY <1>1, <1>2, TakeElements
<1>4. /\ buf' \in Seq(1..pushed)
      /\ Len(buf') = Len(buf) - n
      /\ \A j \in 1..(Len(buf) - n) : buf'[j] = buf[n + j]
  BY <1>1, <1>2, DropElements
<1>5. TypeOK'
  <2>0. Len(batch') # 0
    BY <1>3
  <2>1. flushing' \in BOOLEAN /\ (flushing' <=> batch' # <<>>)
    BY <1>1, <2>0
  <2>2. buf' \in Seq(1..pushed') /\ batch' \in Seq(1..pushed')
    BY <1>3, <1>4
  <2>3. pushed' \in 0..MaxRows /\ dropped' \in Nat /\ stored' \subseteq 1..pushed'
    OBVIOUS
  <2>4. faults' \subseteq {"failed", "lostAck", "timeout"}
    BY DEF Queues, TypeOK
  <2> QED
    BY <2>1, <2>2, <2>3, <2>4 DEF TypeOK
<1>6. WithinCapacity'
  BY <1>1, <1>3, <1>4 DEF WithinCapacity
<1>7. Increasing(batch')
  <2> SUFFICES ASSUME NEW i \in 1..Len(batch'), NEW j \in 1..Len(batch'), i < j
               PROVE  batch'[i] < batch'[j]
    BY DEF Increasing
  <2>1. i \in 1..Len(buf) /\ j \in 1..Len(buf) /\ i \in 1..n /\ j \in 1..n
    BY <1>3
  <2> QED
    BY <2>1, <1>3 DEF Queues, Ordered, Increasing
<1>8. Increasing(buf')
  <2> SUFFICES ASSUME NEW i \in 1..Len(buf'), NEW j \in 1..Len(buf'), i < j
               PROVE  buf'[i] < buf'[j]
    BY DEF Increasing
  <2>1. n + i \in 1..Len(buf) /\ n + j \in 1..Len(buf) /\ n + i < n + j
    BY <1>4
  <2> QED
    BY <2>1, <1>4 DEF Queues, Ordered, Increasing
<1>9. Before(batch', buf')
  <2> SUFFICES ASSUME NEW i \in 1..Len(batch'), NEW j \in 1..Len(buf')
               PROVE  batch'[i] < buf'[j]
    BY DEF Before
  <2>1. i \in 1..n /\ j \in 1..(Len(buf) - n)
    BY <1>3, <1>4
  <2>2. batch'[i] = buf[i] /\ buf'[j] = buf[n + j]
    BY <2>1, <1>3, <1>4, Zenon
  <2>3. i \in 1..Len(buf) /\ n + j \in 1..Len(buf) /\ i < n + j
    BY <2>1
  <2> QED
    BY <2>2, <2>3 DEF Queues, Ordered, Increasing
<1> QED
  BY <1>5, <1>6, <1>7, <1>8, <1>9 DEF Queues, Ordered

(* A batch that returns goes before everything that is younger. *)
LEMMA RequeueQueues ==
    ASSUME Queues, Requeue, faults' \subseteq {"failed", "lostAck", "timeout"},
           stored' \subseteq 1..pushed, UNCHANGED <<scheduled, drain, pushed>>
    PROVE  Queues'
<1>0. /\ buf \in Seq(1..pushed) /\ batch \in Seq(1..pushed)
      /\ buf \in Seq(Nat) /\ batch \in Seq(Nat)
      /\ pushed \in Nat /\ dropped \in Nat /\ stored \subseteq 1..pushed
      /\ Len(buf) \in Nat /\ Len(batch) \in Nat
      /\ Capacity \in Nat \ {0} /\ MaxBatchRows \in Nat \ {0} /\ MaxBatchRows <= Capacity
      /\ MaxRows \in Nat /\ pushed <= MaxRows
      /\ Len(buf) <= Capacity /\ Len(batch) <= MaxBatchRows
  BY QueuesFacts
<1> USE <1>0
<1>1. PICK n \in 0..Len(buf) :
              /\ dropped' = dropped + n
              /\ buf' = batch \o DropOldest(buf, n)
              /\ Len(batch) + (Len(buf) - n) <= Capacity
              /\ batch' = <<>> /\ flushing' = FALSE
  BY RequeueEffect DEF Queues
<1> DEFINE d == DropOldest(buf, n)
<1>2. /\ d \in Seq(1..pushed)
      /\ Len(d) = Len(buf) - n
      /\ \A j \in 1..(Len(buf) - n) : d[j] = buf[n + j]
  BY DropElements
<1>3. d \in Seq(Nat)
  BY DropElements
<1>4. buf' = batch \o d
  BY <1>1
<1> HIDE DEF d
<1>5. /\ buf' \in Seq(1..pushed)
      /\ Len(buf') = Len(batch) + Len(d)
  BY <1>2, <1>4, ConcatProperties, ZenonT(30)
<1>6. Len(batch') = 0 /\ batch' \in Seq(1..pushed)
  BY <1>1
<1>7. TypeOK'
  <2>1. flushing' \in BOOLEAN /\ (flushing' <=> batch' # <<>>)
    BY <1>1
  <2>2. buf' \in Seq(1..pushed') /\ batch' \in Seq(1..pushed')
    BY <1>5, <1>6
  <2>3. pushed' \in 0..MaxRows /\ dropped' \in Nat /\ stored' \subseteq 1..pushed'
    BY <1>1
  <2>4. scheduled' \in BOOLEAN /\ drain' \in {"no", "awaiting", "done"}
    BY DEF Queues, TypeOK
  <2> QED
    BY <2>1, <2>2, <2>3, <2>4 DEF TypeOK
<1>8. WithinCapacity'
  BY <1>1, <1>2, <1>5, <1>6 DEF WithinCapacity
<1>9. \A j \in 1..Len(d) : n + j \in 1..Len(buf) /\ d[j] = buf[n + j]
  <2> TAKE j \in 1..Len(d)
  <2>1. j \in 1..(Len(buf) - n) /\ n + j \in 1..Len(buf)
    BY <1>2
  <2> QED
    BY <2>1, <1>2, Zenon
<1>10. Increasing(d)
  <2> SUFFICES ASSUME NEW i \in 1..Len(d), NEW j \in 1..Len(d), i < j
               PROVE  d[i] < d[j]
    BY DEF Increasing
  <2>1. n + i < n + j
    OBVIOUS
  <2> QED
    BY <2>1, <1>9 DEF Queues, Ordered, Increasing
<1>11. Before(batch, d)
  <2> SUFFICES ASSUME NEW i \in 1..Len(batch), NEW j \in 1..Len(d)
               PROVE  batch[i] < d[j]
    BY DEF Before
  <2>1. n + j \in 1..Len(buf) /\ d[j] = buf[n + j]
    BY <1>9
  <2> QED
    BY <2>1 DEF Queues, Ordered, Before
<1>12. Increasing(buf')
  BY <1>3, <1>4, <1>10, <1>11, ConcatIncreasing DEF Queues, Ordered
<1>13. Increasing(batch') /\ Before(batch', buf')
  BY <1>6 DEF Increasing, Before
<1> QED
  BY <1>7, <1>8, <1>12, <1>13 DEF Queues, Ordered

-----------------------------------------------------------------------------
(* The account of rows *)

Held == ToSet(batch) \cup ToSet(buf)

(* Unless an acknowledgement was lost, no row that is held is stored too. *)
HeldOnce == "lostAck" \notin faults => stored \cap Held = {}

(* Dropping the n oldest of some rows in order leaves all but n of them. *)
LEMMA DropAccount ==
    ASSUME NEW q \in Seq(Nat), Increasing(q), NEW n \in 0..Len(q)
    PROVE  \E D \in SUBSET ToSet(q) :
              /\ IsFiniteSet(D) /\ Cardinality(D) = n
              /\ ToSet(DropOldest(q, n)) = ToSet(q) \ D
<1> DEFINE D == {q[i] : i \in 1..n}
           f == [i \in 1..n |-> q[i]]
           d == DropOldest(q, n)
<1>0. Len(q) \in Nat /\ DOMAIN q = 1..Len(q) /\ n \in Nat /\ 1..n \subseteq 1..Len(q)
  OBVIOUS
<1>1. D \subseteq ToSet(q)
  BY <1>0 DEF ToSet
<1>2. \A i, j \in 1..Len(q) : i # j => q[i] # q[j]
  <2> TAKE i, j \in 1..Len(q)
  <2>1. q[i] \in Nat /\ q[j] \in Nat
    OBVIOUS
  <2>2. i < j \/ j < i \/ i = j
    BY <1>0
  <2> QED
    BY <2>1, <2>2 DEF Increasing
<1>3. f \in Bijection(1..n, D)
  <2>1. f \in [1..n -> D]
    OBVIOUS
  <2>2. \A i, j \in 1..n : f[i] = f[j] => i = j
    BY <1>0, <1>2
  <2>3. \A x \in D : \E i \in 1..n : f[i] = x
    OBVIOUS
  <2> QED
    BY <2>1, <2>2, <2>3 DEF Bijection, Injection, Surjection, IsInjective
<1>4. ExistsBijection(1..n, D)
  BY <1>3 DEF ExistsBijection
<1>5. IsFiniteSet(D) /\ Cardinality(D) = n
  BY <1>0, <1>4, FS_NatBijection, FS_CountingElements, ZenonT(30)
<1>6. /\ d \in Seq(Nat)
      /\ Len(d) = Len(q) - n
      /\ \A j \in 1..(Len(q) - n) : d[j] = q[n + j]
  BY DropElements
<1> HIDE DEF d
<1>7. DOMAIN d = 1..(Len(q) - n)
  BY <1>6
<1>8. ToSet(d) \subseteq ToSet(q) \ D
  <2> SUFFICES ASSUME NEW j \in 1..(Len(q) - n)
               PROVE  d[j] \in ToSet(q) /\ d[j] \notin D
    BY <1>7 DEF ToSet
  <2>1. n + j \in 1..Len(q) /\ d[j] = q[n + j] /\ \A i \in 1..n : i # n + j
    BY <1>0, <1>6
  <2> QED
    BY <2>1, <1>0, <1>2 DEF ToSet
<1>9. ToSet(q) \ D \subseteq ToSet(d)
  <2> SUFFICES ASSUME NEW i \in 1..Len(q), i \notin 1..n
               PROVE  q[i] \in ToSet(d)
    BY <1>0 DEF ToSet
  <2>1. i - n \in 1..(Len(q) - n) /\ n + (i - n) = i
    BY <1>0
  <2>2. d[i - n] = q[i]
    BY <2>1, <1>6
  <2> QED
    BY <2>1, <2>2, <1>7 DEF ToSet
<1> QED
  BY <1>1, <1>5, <1>8, <1>9 DEF d

(* What a row count gains when n rows go missing. *)
LEMMA Accounting ==
    ASSUME NEW M, IsFiniteSet(M), NEW D, IsFiniteSet(D),
           NEW N, N \subseteq M \cup D
    PROVE  /\ Cardinality(N) <= Cardinality(M) + Cardinality(D)
           /\ N = M \cup D /\ M \cap D = {} => Cardinality(N) = Cardinality(M) + Cardinality(D)
           /\ Cardinality(M) \in Nat /\ Cardinality(D) \in Nat /\ Cardinality(N) \in Nat
<1>1. /\ IsFiniteSet(M \cup D)
      /\ Cardinality(M \cup D) = Cardinality(M) + Cardinality(D) - Cardinality(M \cap D)
  BY FS_Union
<1>2. IsFiniteSet(N) /\ Cardinality(N) <= Cardinality(M \cup D)
  BY <1>1, FS_Subset
<1>3. IsFiniteSet(M \cap D)
  BY FS_Subset
<1>4. /\ Cardinality(M) \in Nat /\ Cardinality(D) \in Nat /\ Cardinality(N) \in Nat
      /\ Cardinality(M \cap D) \in Nat /\ Cardinality(M \cup D) \in Nat
  BY <1>1, <1>2, <1>3, FS_CardinalityType
<1>5. M \cap D = {} => Cardinality(M \cap D) = 0
  BY FS_EmptySet
<1>6. N = M \cup D => Cardinality(N) = Cardinality(M \cup D)
  OBVIOUS
<1>7. Cardinality(N) <= Cardinality(M) + Cardinality(D)
  BY <1>1, <1>2, <1>4
<1>8. ASSUME N = M \cup D, M \cap D = {}
      PROVE  Cardinality(N) = Cardinality(M) + Cardinality(D)
  BY <1>8, <1>1, <1>4, <1>5, <1>6
<1> QED
  BY <1>4, <1>7, <1>8

(* Appending and concatenating add up the rows. *)
LEMMA ToSetAppend ==
    ASSUME NEW S, NEW q \in Seq(S), NEW x
    PROVE  ToSet(Append(q, x)) = ToSet(q) \cup {x}
<1>1. /\ Len(q) \in Nat /\ DOMAIN q = 1..Len(q)
      /\ DOMAIN Append(q, x) = 1..(Len(q) + 1)
      /\ \A i \in 1..Len(q) : Append(q, x)[i] = q[i]
      /\ Append(q, x)[Len(q) + 1] = x
  OBVIOUS
<1>2. \A i \in 1..(Len(q) + 1) : i \in 1..Len(q) \/ i = Len(q) + 1
  BY <1>1
<1>3. 1..Len(q) \subseteq 1..(Len(q) + 1) /\ Len(q) + 1 \in 1..(Len(q) + 1)
  BY <1>1
<1> QED
  BY <1>1, <1>2, <1>3 DEF ToSet

(* The rows of two sequences end to end are the rows of both.                  *)
LEMMA ToSetConcat ==
    ASSUME NEW S, NEW a \in Seq(S), NEW b \in Seq(S)
    PROVE  ToSet(a \o b) = ToSet(a) \cup ToSet(b)
<1> DEFINE c == a \o b
<1>1. Len(a) \in Nat /\ Len(b) \in Nat /\ DOMAIN a = 1..Len(a) /\ DOMAIN b = 1..Len(b)
  OBVIOUS
<1>2. /\ c \in Seq(S) /\ Len(c) = Len(a) + Len(b)
      /\ \A i \in 1..(Len(a) + Len(b)) :
            c[i] = IF i <= Len(a) THEN a[i] ELSE b[i - Len(a)]
  BY ConcatProperties, ZenonT(30)
<1> HIDE DEF c
<1>3. DOMAIN c = 1..(Len(a) + Len(b))
  BY <1>2
<1>4. \A i \in 1..Len(a) : i \in DOMAIN c /\ c[i] = a[i]
  BY <1>1, <1>2, <1>3
<1>5. \A i \in 1..Len(b) : Len(a) + i \in DOMAIN c /\ c[Len(a) + i] = b[i]
  <2> TAKE i \in 1..Len(b)
  <2>1. Len(a) + i \in 1..(Len(a) + Len(b)) /\ ~(Len(a) + i <= Len(a)) /\ Len(a) + i - Len(a) = i
    BY <1>1
  <2> QED
    BY <2>1, <1>2, <1>3
<1>6. \A i \in DOMAIN c : (\E k \in 1..Len(a) : c[i] = a[k]) \/ (\E k \in 1..Len(b) : c[i] = b[k])
  <2> TAKE i \in DOMAIN c
  <2>1. CASE i <= Len(a)
    <3>1. i \in 1..Len(a) /\ c[i] = a[i]
      BY <2>1, <1>1, <1>2, <1>3
    <3> QED
      BY <3>1
  <2>2. CASE ~(i <= Len(a))
    <3>1. i - Len(a) \in 1..Len(b) /\ c[i] = b[i - Len(a)]
      BY <2>2, <1>1, <1>2, <1>3
    <3> QED
      BY <3>1
  <2> QED
    BY <2>1, <2>2
<1>7. ToSet(c) \subseteq ToSet(a) \cup ToSet(b)
  BY <1>1, <1>6 DEF ToSet
<1>8. ToSet(a) \subseteq ToSet(c) /\ ToSet(b) \subseteq ToSet(c)
  BY <1>1, <1>4, <1>5 DEF ToSet
<1>9. ToSet(c) = ToSet(a) \cup ToSet(b)
  BY <1>7, <1>8
<1> QED
  BY <1>9 DEF c

(* One step's account: n rows D are dropped, nothing else goes missing. *)
LEMMA DropsStep ==
    ASSUME Queues, DropsCounted, pushed' \in Nat, faults \subseteq faults',
           NEW D, IsFiniteSet(D), dropped' = dropped + Cardinality(D),
           Missing' \subseteq Missing \cup D,
           "lostAck" \notin faults' => Missing' = Missing \cup D /\ Missing \cap D = {}
    PROVE  DropsCounted'
<1>0. dropped \in Nat /\ pushed \in Nat
  BY QueuesFacts
<1>1. IsFiniteSet(Missing)
  <2>1. IsFiniteSet(1..pushed)
    BY <1>0, FS_Interval
  <2> QED
    BY <2>1, FS_Subset DEF Missing
<1> DEFINE M == Missing  N == Missing'
<1>2. IsFiniteSet(M) /\ N \subseteq M \cup D
  BY <1>1
<1> HIDE DEF M, N
<1>3. /\ Cardinality(N) <= Cardinality(M) + Cardinality(D)
      /\ N = M \cup D /\ M \cap D = {} => Cardinality(N) = Cardinality(M) + Cardinality(D)
      /\ Cardinality(M) \in Nat /\ Cardinality(D) \in Nat /\ Cardinality(N) \in Nat
  BY <1>2, Accounting
<1>4. /\ Cardinality(M) <= dropped
      /\ "lostAck" \notin faults => Cardinality(M) = dropped
  BY DEF DropsCounted, M
<1>5. "lostAck" \notin faults' => "lostAck" \notin faults /\ N = M \cup D /\ M \cap D = {}
  BY DEF M, N
<1>6. Cardinality(N) <= dropped'
  BY <1>0, <1>3, <1>4
<1>7. "lostAck" \notin faults' => Cardinality(N) = dropped'
  BY <1>0, <1>3, <1>4, <1>5
<1> QED
  BY <1>6, <1>7 DEF DropsCounted, N

(* A step that drops nothing and changes neither what is missing nor the count.*)
LEMMA NoDropStep ==
    ASSUME DropsCounted, faults \subseteq faults', dropped' = dropped, Missing' = Missing
    PROVE  DropsCounted'
  BY DEF DropsCounted

(* A sequence over S has its rows in S.                                        *)
LEMMA ToSetType == ASSUME NEW S, NEW q \in Seq(S) PROVE ToSet(q) \subseteq S
<1>1. DOMAIN q = 1..Len(q) /\ \A i \in 1..Len(q) : q[i] \in S
  OBVIOUS
<1> QED
  BY <1>1 DEF ToSet

(* A row in flight is not buffered too. *)
LEMMA BatchApart ==
    ASSUME Queues
    PROVE  ToSet(batch) \cap ToSet(buf) = {}
<1>1. /\ buf \in Seq(Nat) /\ batch \in Seq(Nat)
      /\ DOMAIN buf = 1..Len(buf) /\ DOMAIN batch = 1..Len(batch)
  BY QueuesFacts
<1>2. \A i \in 1..Len(batch), j \in 1..Len(buf) : batch[i] # buf[j]
  <2> TAKE i \in 1..Len(batch), j \in 1..Len(buf)
  <2>1. batch[i] \in Nat /\ buf[j] \in Nat /\ batch[i] < buf[j]
    BY <1>1 DEF Queues, Ordered, Before
  <2> QED
    BY <2>1
<1> QED
  BY <1>1, <1>2 DEF ToSet

(* push() takes in one new row and drops those it makes room with. *)
LEMMA PushAccount ==
    ASSUME Queues, HeldOnce, DropsCounted, Push
    PROVE  HeldOnce' /\ DropsCounted'
<1>0. /\ buf \in Seq(Nat) /\ buf \in Seq(1..pushed) /\ batch \in Seq(1..pushed)
      /\ pushed \in Nat /\ stored \subseteq 1..pushed
  BY QueuesFacts
<1>1. PICK n \in 0..Len(buf) :
              /\ dropped' = dropped + n
              /\ buf' = Append(DropOldest(buf, n), pushed + 1)
              /\ Len(buf) - n < Capacity
  BY PushEffect DEF Queues
<1>2. PICK D \in SUBSET ToSet(buf) :
              /\ IsFiniteSet(D) /\ Cardinality(D) = n
              /\ ToSet(DropOldest(buf, n)) = ToSet(buf) \ D
  BY <1>0, DropAccount DEF Queues, Ordered
<1>3. pushed' = pushed + 1 /\ batch' = batch /\ stored' = stored /\ faults' = faults
  BY DEF Push
<1>4. ToSet(buf') = (ToSet(buf) \ D) \cup {pushed + 1}
  BY <1>0, <1>1, <1>2, DropElements, ToSetAppend
<1>5. ToSet(buf) \subseteq 1..pushed /\ ToSet(batch) \subseteq 1..pushed
  BY <1>0 DEF ToSet
<1>6. ToSet(batch) \cap ToSet(buf) = {}
  BY <1>0, BatchApart
<1>7. 1..(pushed + 1) = (1..pushed) \cup {pushed + 1} /\ pushed + 1 \notin 1..pushed
  BY <1>0
<1>8. Missing = (1..pushed) \ (stored \cup ToSet(batch) \cup ToSet(buf))
  BY DEF Missing
<1>9. Missing' = (1..(pushed + 1)) \ (stored \cup ToSet(batch) \cup ToSet(buf'))
  BY <1>3 DEF Missing
<1>10. HeldOnce'
  BY <1>0, <1>3, <1>4, <1>7 DEF HeldOnce, Held
<1>11. Missing' \subseteq Missing \cup D
  BY <1>4, <1>7, <1>8, <1>9
<1>12. "lostAck" \notin faults' => Missing' = Missing \cup D /\ Missing \cap D = {}
  <2> SUFFICES ASSUME "lostAck" \notin faults
               PROVE  Missing' = Missing \cup D /\ Missing \cap D = {}
    BY <1>3
  <2>1. D \cap stored = {} /\ D \cap ToSet(batch) = {} /\ D \subseteq 1..pushed
    BY <1>2, <1>5, <1>6 DEF HeldOnce, Held
  <2>2. D \subseteq Missing'
    BY <2>1, <1>4, <1>7, <1>9
  <2>3. Missing \subseteq Missing'
    BY <1>4, <1>7, <1>8, <1>9
  <2> QED
    BY <2>2, <2>3, <1>2, <1>8, <1>11
<1> QED
  BY <1>0, <1>1, <1>2, <1>3, <1>10, <1>11, <1>12, DropsStep

(* A flush that starts only moves rows. *)
LEMMA StartFlushAccount ==
    ASSUME Queues, HeldOnce, DropsCounted, buf # <<>>, batch = <<>>, StartFlush,
           UNCHANGED <<pushed, dropped, stored, faults>>
    PROVE  HeldOnce' /\ DropsCounted'
<1>0. buf \in Seq(Nat) /\ Len(buf) \in Nat /\ DOMAIN buf = 1..Len(buf)
  BY QueuesFacts
<1>1. PICK n \in 1..Len(buf) :
              /\ n <= MaxBatchRows
              /\ flushing' = TRUE
              /\ batch' = SubSeq(buf, 1, n)
              /\ buf' = DropOldest(buf, n)
  BY StartFlushEffect DEF Queues
<1>2. n \in 0..Len(buf)
  OBVIOUS
<1>3. batch' \in Seq(Nat) /\ Len(batch') = n /\ \A j \in 1..n : batch'[j] = buf[j]
  BY <1>0, <1>1, <1>2, TakeElements
<1>4. /\ buf' \in Seq(Nat) /\ Len(buf') = Len(buf) - n
      /\ \A j \in 1..(Len(buf) - n) : buf'[j] = buf[n + j]
  BY <1>0, <1>1, <1>2, DropElements
<1>5. DOMAIN batch' = 1..n /\ DOMAIN buf' = 1..(Len(buf) - n)
  BY <1>3, <1>4
<1>6. Held' \subseteq Held
  <2>1. ToSet(batch') \subseteq ToSet(buf)
    BY <1>0, <1>2, <1>3, <1>5 DEF ToSet
  <2>2. ASSUME NEW j \in 1..(Len(buf) - n)
        PROVE  buf'[j] \in ToSet(buf)
    <3>1. n + j \in 1..Len(buf) /\ buf'[j] = buf[n + j]
      BY <1>0, <1>4
    <3> QED
      BY <3>1, <1>0 DEF ToSet
  <2>3. ToSet(buf') \subseteq ToSet(buf)
    BY <2>2, <1>5 DEF ToSet
  <2> QED
    BY <2>1, <2>3 DEF Held
<1>7. Held \subseteq Held'
  <2>1. ToSet(batch) = {}
    BY DEF ToSet
  <2>2. ASSUME NEW i \in 1..Len(buf)
        PROVE  buf[i] \in Held'
    <3>1. CASE i \in 1..n
      <4>1. buf[i] \in ToSet(batch')
        BY <3>1, <1>3, <1>5 DEF ToSet
      <4> QED
        BY <4>1 DEF Held
    <3>2. CASE i \notin 1..n
      <4>1. i - n \in 1..(Len(buf) - n) /\ n + (i - n) = i
        BY <3>2, <1>0
      <4>2. buf'[i - n] = buf[i]
        BY <4>1, <1>4
      <4>3. buf[i] \in ToSet(buf')
        BY <4>1, <4>2, <1>5 DEF ToSet
      <4> QED
        BY <4>3 DEF Held
    <3> QED
      BY <3>1, <3>2
  <2>3. ToSet(buf) \subseteq Held'
    BY <2>2, <1>0 DEF ToSet
  <2> QED
    BY <2>1, <2>3 DEF Held
<1>8. Held' = Held
  BY <1>6, <1>7
<1>9. Missing' = Missing
  <2>1. Missing = (1..pushed) \ (stored \cup Held)
    BY DEF Missing, Held
  <2>2. Missing' = (1..pushed) \ (stored \cup Held')
    BY DEF Missing, Held
  <2> QED
    BY <2>1, <2>2, <1>8
<1>10. HeldOnce'
  BY <1>8 DEF HeldOnce
<1> QED
  BY <1>9, <1>10, NoDropStep

(* A returning batch drops what it pushes out; if Postgres took it after all,  *)
(* its rows are stored as well.                                                *)
LEMMA RequeueAccount ==
    ASSUME Queues, HeldOnce, DropsCounted, Requeue, pushed' = pushed,
           faults \subseteq faults', stored \subseteq stored',
           "lostAck" \notin faults' => stored' = stored
    PROVE  HeldOnce' /\ DropsCounted'
<1>0. /\ buf \in Seq(Nat) /\ batch \in Seq(Nat) /\ buf \in Seq(1..pushed)
      /\ pushed \in Nat
  BY QueuesFacts
<1>1. PICK n \in 0..Len(buf) :
              /\ dropped' = dropped + n
              /\ buf' = batch \o DropOldest(buf, n)
              /\ Len(batch) + (Len(buf) - n) <= Capacity
              /\ batch' = <<>> /\ flushing' = FALSE
  BY RequeueEffect DEF Queues
<1>2. PICK D \in SUBSET ToSet(buf) :
              /\ IsFiniteSet(D) /\ Cardinality(D) = n
              /\ ToSet(DropOldest(buf, n)) = ToSet(buf) \ D
  BY <1>0, DropAccount DEF Queues, Ordered
<1>3. ToSet(buf') = ToSet(batch) \cup (ToSet(buf) \ D)
  BY <1>0, <1>1, <1>2, DropElements, ToSetConcat
<1>4. ToSet(batch') = {}
  BY <1>1 DEF ToSet
<1>5. ToSet(batch) \cap ToSet(buf) = {} /\ ToSet(buf) \subseteq 1..pushed
  <2>1. ToSet(buf) \subseteq 1..pushed
    BY <1>0 DEF ToSet
  <2> QED
    BY <2>1, BatchApart
<1>6. Missing = (1..pushed) \ (stored \cup ToSet(batch) \cup ToSet(buf))
  BY DEF Missing
<1>7. Missing' = (1..pushed) \ (stored' \cup ToSet(batch) \cup (ToSet(buf) \ D))
  BY <1>3, <1>4 DEF Missing
<1>8. HeldOnce'
  BY <1>3, <1>4 DEF HeldOnce, Held
<1>9. Missing' \subseteq Missing \cup D
  BY <1>6, <1>7
<1>10. "lostAck" \notin faults' => Missing' = Missing \cup D /\ Missing \cap D = {}
  <2> SUFFICES ASSUME "lostAck" \notin faults, stored' = stored
               PROVE  Missing' = Missing \cup D /\ Missing \cap D = {}
    OBVIOUS
  <2>1. D \cap stored = {} /\ D \cap ToSet(batch) = {} /\ D \subseteq 1..pushed
    BY <1>2, <1>5 DEF HeldOnce, Held
  <2> QED
    BY <2>1, <1>2, <1>6, <1>7
<1> QED
  BY <1>0, <1>1, <1>2, <1>8, <1>9, <1>10, DropsStep

(* A stored batch leaves the account as it is. *)
LEMMA InsertOkAccount ==
    ASSUME Queues, HeldOnce, DropsCounted, InsertOk
    PROVE  HeldOnce' /\ DropsCounted'
<1>1. /\ stored' = stored \cup ToSet(batch) /\ batch' = <<>>
      /\ buf' = buf /\ pushed' = pushed /\ dropped' = dropped /\ faults' = faults
  BY DEF InsertOk
<1>2. ToSet(batch') = {}
  BY <1>1 DEF ToSet
<1>3. ToSet(batch) \cap ToSet(buf) = {}
  BY BatchApart
<1>4. HeldOnce'
  BY <1>1, <1>2, <1>3 DEF HeldOnce, Held
<1>5. Missing' = Missing
  BY <1>1, <1>2 DEF Missing
<1> QED
  BY <1>1, <1>4, <1>5, NoDropStep

-----------------------------------------------------------------------------
(* The invariant. Order and bounds stand on their own; the account needs the   *)
(* order, for a row to be in one place, and HeldOnce, for a dropped row to be  *)
(* a missing one.                                                              *)

IInv == Queues /\ HeldOnce /\ DropsCounted

(* The invariant holds of a new writer.                                        *)
LEMMA InitHolds == Init => IInv
<1> SUFFICES ASSUME Init PROVE IInv
  OBVIOUS
<1>1. Capacity \in Nat \ {0} /\ MaxBatchRows \in Nat \ {0} /\ MaxRows \in Nat
  BY WriterAssumption
<1>2. TypeOK
  <2>1. <<>> \in Seq(1..0)
    OBVIOUS
  <2>2. buf \in Seq(1..pushed) /\ batch \in Seq(1..pushed)
    BY <2>1 DEF Init
  <2>3. stored \subseteq 1..pushed /\ faults \subseteq {"failed", "lostAck", "timeout"}
    BY DEF Init
  <2>4. pushed \in 0..MaxRows /\ dropped \in Nat
    BY <1>1 DEF Init
  <2>5. /\ flushing \in BOOLEAN /\ scheduled \in BOOLEAN
        /\ flushing <=> batch # <<>>
        /\ drain \in {"no", "awaiting", "done"}
    BY DEF Init
  <2> QED
    BY <2>2, <2>3, <2>4, <2>5 DEF TypeOK
<1>3. WithinCapacity
  BY <1>1 DEF Init, WithinCapacity
<1>4. Ordered
  BY DEF Init, Ordered, Increasing, Before
<1>5. HeldOnce
  BY DEF Init, HeldOnce, Held
<1>6. DropsCounted
  <2>1. Missing = {}
    BY DEF Init, Missing
  <2> QED
    BY <2>1, FS_EmptySet DEF Init, DropsCounted
<1> QED
  BY <1>2, <1>3, <1>4, <1>5, <1>6 DEF IInv, Queues

(* Steps that touch neither the rows nor their account. *)
LEMMA IdleStep ==
    ASSUME IInv, UNCHANGED <<buf, batch, flushing, pushed, dropped, stored>>,
           scheduled' \in BOOLEAN, drain' \in {"no", "awaiting", "done"},
           faults' = faults \/ faults' = faults \cup {"timeout"}
    PROVE  IInv'
<1>1. TypeOK'
  BY DEF IInv, Queues, TypeOK
<1>2. WithinCapacity' /\ Ordered'
  BY DEF IInv, Queues, WithinCapacity, Ordered, Increasing, Before
<1>3. "lostAck" \in faults' <=> "lostAck" \in faults
  OBVIOUS
<1>4. HeldOnce'
  BY <1>3 DEF IInv, HeldOnce, Held
<1>5. Missing' = Missing
  BY DEF Missing
<1>6. DropsCounted'
  BY <1>3, <1>5 DEF IInv, DropsCounted
<1> QED
  BY <1>1, <1>2, <1>4, <1>6 DEF IInv, Queues

(* Every step of the writer keeps it.                                          *)
LEMMA StepHolds == IInv /\ [Next]_vars => IInv'
<1> SUFFICES ASSUME IInv, [Next]_vars PROVE IInv'
  OBVIOUS
<1>0. Queues /\ HeldOnce /\ DropsCounted /\ TypeOK
  BY DEF IInv, Queues
<1>a. scheduled \in BOOLEAN /\ drain \in {"no", "awaiting", "done"}
      /\ faults \subseteq {"failed", "lostAck", "timeout"}
      /\ stored \subseteq 1..pushed /\ batch \in Seq(1..pushed)
  BY <1>0 DEF TypeOK
<1>1. CASE Push
  BY <1>0, <1>1, PushQueues, PushAccount DEF IInv
<1>2. CASE MicrotaskFlush
  <2>1. scheduled' \in BOOLEAN /\ drain' = drain
        /\ UNCHANGED <<pushed, dropped, stored, faults>>
    BY <1>2 DEF MicrotaskFlush
  <2>2. CASE MayFlush(FALSE)
    <3>1. StartFlush
      BY <1>2, <2>2 DEF MicrotaskFlush
    <3> QED
      BY <1>0, <1>a, <2>1, <2>2, <3>1, FlushStarts, StartFlushQueues, StartFlushAccount DEF IInv
  <2>3. CASE ~MayFlush(FALSE)
    <3>1. UNCHANGED <<buf, batch, flushing>>
      BY <1>2, <2>3 DEF MicrotaskFlush
    <3> QED
      BY <1>a, <2>1, <3>1, IdleStep
  <2> QED
    BY <2>2, <2>3
<1>3. CASE TimerFlush
  <2>1. /\ MayFlush(FALSE) /\ StartFlush
        /\ UNCHANGED <<scheduled, drain, pushed, dropped, stored, faults>>
    BY <1>3 DEF TimerFlush
  <2> QED
    BY <1>0, <1>a, <2>1, FlushStarts, StartFlushQueues, StartFlushAccount DEF IInv
<1>4. CASE InsertOk
  <2>1. /\ stored' = stored \cup ToSet(batch) /\ batch' = <<>> /\ flushing' = FALSE
        /\ UNCHANGED <<buf, scheduled, drain, pushed, dropped, faults>>
    BY <1>4 DEF InsertOk
  <2>2. ToSet(batch) \subseteq 1..pushed
    BY <1>a, ToSetType
  <2>3. TypeOK'
    <3>1. stored' \subseteq 1..pushed'
      BY <1>a, <2>1, <2>2
    <3>2. batch' \in Seq(1..pushed') /\ batch' = <<>>
      BY <2>1
    <3> QED
      BY <1>0, <2>1, <3>1, <3>2 DEF TypeOK
  <2>4. Len(batch') = 0 /\ MaxBatchRows \in Nat \ {0}
    BY <2>1, WriterAssumption
  <2>5. WithinCapacity'
    BY <1>0, <2>1, <2>4 DEF Queues, WithinCapacity
  <2>6. Ordered'
    BY <1>0, <2>1, <2>4 DEF Queues, Ordered, Increasing, Before
  <2> QED
    BY <1>0, <1>4, <2>3, <2>5, <2>6, InsertOkAccount DEF IInv, Queues
<1>5. CASE InsertFails
  <2>1. /\ Requeue /\ faults' = faults \cup {"failed"}
        /\ UNCHANGED <<scheduled, drain, pushed, stored>>
    BY <1>5 DEF InsertFails
  <2>2. Queues'
    BY <1>0, <1>a, <2>1, RequeueQueues
  <2> QED
    BY <1>0, <2>1, <2>2, RequeueAccount DEF IInv
<1>6. CASE InsertLostAck
  <2>1. /\ Requeue /\ faults' = faults \cup {"lostAck"}
        /\ stored' = stored \cup ToSet(batch)
        /\ UNCHANGED <<scheduled, drain, pushed>>
    BY <1>6 DEF InsertLostAck
  <2>2. ToSet(batch) \subseteq 1..pushed
    BY <1>a, ToSetType
  <2>3. Queues'
    BY <1>0, <1>a, <2>1, <2>2, RequeueQueues
  <2>4. "lostAck" \in faults' /\ faults \subseteq faults' /\ stored \subseteq stored' /\ pushed' = pushed
    BY <2>1
  <2> QED
    BY <1>0, <2>1, <2>3, <2>4, RequeueAccount DEF IInv
<1>7. CASE DrainStart
  <2>1. UNCHANGED <<scheduled, pushed, dropped, stored, faults>>
    BY <1>7 DEF DrainStart
  <2>2. CASE MayFlush(TRUE)
    <3>1. StartFlush /\ drain' = "awaiting"
      BY <1>7, <2>2 DEF DrainStart
    <3> QED
      BY <1>0, <1>a, <2>1, <2>2, <3>1, FlushStarts, StartFlushQueues, StartFlushAccount DEF IInv
  <2>3. CASE ~MayFlush(TRUE)
    <3>1. UNCHANGED <<buf, batch, flushing>> /\ drain' = "done"
      BY <1>7, <2>3 DEF DrainStart
    <3> QED
      BY <1>a, <2>1, <3>1, IdleStep
  <2> QED
    BY <2>2, <2>3
<1>8. CASE DrainFlushed
  BY <1>8, <1>a, IdleStep DEF DrainFlushed
<1>9. CASE DrainTimeout
  BY <1>9, <1>a, IdleStep DEF DrainTimeout
<1>10. CASE UNCHANGED vars
  BY <1>10, <1>a, IdleStep DEF vars
<1> QED
  BY <1>1, <1>2, <1>3, <1>4, <1>5, <1>6, <1>7, <1>8, <1>9, <1>10 DEF Next

(* The invariant holds in every state push, flush and drain can reach.         *)
THEOREM Invariance == Spec => []IInv
  BY InitHolds, StepHolds, PTL DEF Spec

(* The order of IInv's parts is the order of the concatenated queues. *)
LEMMA InvImplies == IInv => TypeOK /\ WithinCapacity /\ FifoOrder /\ DropsCounted
<1> SUFFICES ASSUME IInv PROVE TypeOK /\ WithinCapacity /\ FifoOrder /\ DropsCounted
  OBVIOUS
<1>1. batch \in Seq(Nat) /\ buf \in Seq(Nat)
  BY QueuesFacts DEF IInv
<1>2. Increasing(batch \o buf)
  BY <1>1, ConcatIncreasing DEF IInv, Queues, Ordered
<1>3. FifoOrder
  BY <1>2 DEF FifoOrder, Increasing
<1> QED
  BY <1>3 DEF IInv, Queues

(* Every variable keeps its type, and a batch exists exactly while a flush     *)
(* holds the lock (flush(), lines 106-137).                                    *)
THEOREM TypeCorrect == Spec => []TypeOK
  BY Invariance, InvImplies, PTL

(* Retries neither reorder nor duplicate rows: a batch in flight is older than *)
(* everything buffered behind it (flush(), lines 109-137).                     *)
THEOREM OrderKept == Spec => []FifoOrder
  BY Invariance, InvImplies, PTL

(* The buffer stays within its capacity and every INSERT within its row cap,   *)
(* and no row vanishes silently: droppedCounter accounts for every row that is *)
(* neither stored nor held, exactly so unless an acknowledgement was lost      *)
(* (push() and the requeue of flush()).                                        *)
THEOREM EveryRowCounted == Spec => []RowsAccounted
<1>1. IInv => RowsAccounted
  BY InvImplies DEF RowsAccounted
<1> QED
  BY <1>1, Invariance, PTL
=============================================================================
