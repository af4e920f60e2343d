----------------------------- MODULE SlotService -----------------------------
(* What a per-backend concurrency limit promises its callers, with no promise, *)
(* timer or abort listener in sight: at most MaxConcurrency holders, and a     *)
(* first-come-first-served queue that only exists while every slot is taken.   *)
(* BackendSemaphore (router/src/concurrency/semaphore.ts) implements it.       *)
EXTENDS Naturals, Sequences, FiniteSets, SequencesExt

CONSTANTS Requests,        \* the callers
          MaxConcurrency   \* slots of the backend

VARIABLES holders,         \* callers that own a slot
          queue            \* callers waiting for one, oldest first

slotVars == <<holders, queue>>

Init == holders = {} /\ queue = <<>>

(* A caller is served at once only when no older caller is still waiting. *)
Take(r) ==
    /\ r \notin holders
    /\ queue = <<>>
    /\ Cardinality(holders) < MaxConcurrency
    /\ holders' = holders \cup {r}
    /\ UNCHANGED queue

Wait(r) ==
    /\ r \notin holders
    /\ Cardinality(holders) = MaxConcurrency
    /\ queue' = Append(queue, r)
    /\ UNCHANGED holders

GiveUp(r) ==
    /\ \E i \in 1..Len(queue) : queue[i] = r /\ queue' = RemoveAt(queue, i)
    /\ UNCHANGED holders

(* A returned slot goes, in the same step, to the oldest waiting caller. *)
Return(r) ==
    /\ r \in holders
    /\ \/ queue = <<>> /\ holders' = holders \ {r} /\ UNCHANGED queue
       \/ /\ queue # <<>>
          /\ holders' = (holders \ {r}) \cup {Head(queue)}
          /\ queue' = Tail(queue)

Next == \E r \in Requests : Take(r) \/ Wait(r) \/ GiveUp(r) \/ Return(r)

Spec == Init /\ [][Next]_slotVars
=============================================================================
