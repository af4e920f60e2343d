--------------------------- MODULE BackendSemaphore ---------------------------
(* BackendSemaphore of router/src/concurrency/semaphore.ts: the FIFO semaphore *)
(* in front of one backend. A request calls acquire(signal) once; the promise  *)
(* it gets is settled by the caller itself, by a drain(), by its timer or by   *)
(* its abort listener, in whatever order the event loop runs them. Each action *)
(* is one synchronous stretch of JavaScript, which nothing interrupts.         *)
EXTENDS Integers, Sequences, FiniteSets, SequencesExt

CONSTANTS Requests,        \* requests routed to this backend
          MaxConcurrency   \* maxConcurrency, a positive integer of the registry

ASSUME SemaphoreAssumption ==
    /\ IsFiniteSet(Requests)
    /\ MaxConcurrency \in Nat \ {0}

VARIABLES
    inFlight,   \* the private counter
    waiters,    \* the private array of queued requests
    promise,    \* what became of the promise acquire() returned
    release,    \* the release closure built for the request, and its `released` flag
    timer,      \* is the queue timeout armed
    listener,   \* is onAbort registered on the request's signal
    aborted     \* signal.aborted

vars == <<inFlight, waiters, promise, release, timer, listener, aborted>>

Outcomes == {"none", "pending", "granted", "saturated", "aborted"}

Init ==
    /\ inFlight = 0
    /\ waiters = <<>>
    /\ promise = [r \in Requests |-> "none"]
    /\ release = [r \in Requests |-> "unbuilt"]
    /\ timer = [r \in Requests |-> FALSE]
    /\ listener = [r \in Requests |-> FALSE]
    /\ aborted = [r \in Requests |-> FALSE]

Queued(r) == \E i \in 1..Len(waiters) : waiters[i] = r

(* resolve and reject: the first call settles a promise, later ones are no-ops. *)
Settle(r, outcome) ==
    promise' = IF promise[r] \in {"none", "pending"}
               THEN [promise EXCEPT ![r] = outcome] ELSE promise

(* removeWaiter: splice the waiter out if it is still queued. *)
RemoveWaiter_Stays(r) == UNCHANGED waiters
RemoveWaiter(r) ==
    \/ \E i \in 1..Len(waiters) : waiters[i] = r /\ waiters' = RemoveAt(waiters, i)
    \/ ~Queued(r) /\ UNCHANGED waiters

-----------------------------------------------------------------------------
(* acquire(): three ways out of the executor *)

AcquireFree(r) ==
    /\ promise[r] = "none"
    /\ inFlight < MaxConcurrency
    /\ inFlight' = inFlight + 1
    /\ release' = [release EXCEPT ![r] = "live"]
    /\ Settle(r, "granted")
    /\ UNCHANGED <<waiters, timer, listener, aborted>>

AcquireAborted(r) ==
    /\ promise[r] = "none"
    /\ inFlight >= MaxConcurrency
    /\ aborted[r]
    /\ Settle(r, "aborted")
    /\ UNCHANGED <<inFlight, waiters, release, timer, listener, aborted>>

AcquireQueued_NoTimer(r) ==
    /\ promise[r] = "none"
    /\ inFlight >= MaxConcurrency
    /\ ~aborted[r]
    /\ waiters' = Append(waiters, r)
    /\ listener' = [listener EXCEPT ![r] = TRUE]
    /\ Settle(r, "pending")
    /\ UNCHANGED <<inFlight, release, timer, aborted>>

AcquireQueued(r) ==
    /\ promise[r] = "none"
    /\ inFlight >= MaxConcurrency
    /\ ~aborted[r]
    /\ waiters' = Append(waiters, r)
    /\ timer' = [timer EXCEPT ![r] = TRUE]
    /\ listener' = [listener EXCEPT ![r] = TRUE]
    /\ Settle(r, "pending")
    /\ UNCHANGED <<inFlight, release, aborted>>

(* The queue timeout fires: leave the queue, detach the listener, reject. *)
Timeout(r) ==
    /\ timer[r]
    /\ RemoveWaiter(r)
    /\ timer' = [timer EXCEPT ![r] = FALSE]
    /\ listener' = [listener EXCEPT ![r] = FALSE]
    /\ Settle(r, "saturated")
    /\ UNCHANGED <<inFlight, release, aborted>>

(* The client goes away. The signal may abort before acquire(), while the      *)
(* request is queued (onAbort runs, registered with once) or after the grant.  *)
Abort(r) ==
    /\ ~aborted[r]
    /\ aborted' = [aborted EXCEPT ![r] = TRUE]
    /\ IF listener[r]
       THEN /\ timer' = [timer EXCEPT ![r] = FALSE]
            /\ listener' = [listener EXCEPT ![r] = FALSE]
            /\ RemoveWaiter(r)
            /\ Settle(r, "aborted")
       ELSE UNCHANGED <<timer, listener, waiters, promise>>
    /\ UNCHANGED <<inFlight, release>>

-----------------------------------------------------------------------------
(* release() and the drain() it calls. `freed` is inFlight after the decrement *)
(* and `live` the closures after this one's `released` flag is set.            *)

Drain_Skipped(freed, live) ==
    /\ inFlight' = freed
    /\ release' = live
    /\ UNCHANGED <<waiters, promise, timer, listener>>

Drain_KeepsListener(freed, live) ==
    \/ /\ freed >= MaxConcurrency \/ waiters = <<>>
       /\ inFlight' = freed
       /\ release' = live
       /\ UNCHANGED <<waiters, promise, timer, listener>>
    \/ /\ freed < MaxConcurrency /\ waiters # <<>>
       /\ inFlight' = freed + 1
       /\ waiters' = Tail(waiters)
       /\ timer' = [timer EXCEPT ![Head(waiters)] = FALSE]
       /\ release' = [live EXCEPT ![Head(waiters)] = "live"]
       /\ Settle(Head(waiters), "granted")
       /\ UNCHANGED listener

Drain_Newest(freed, live) ==
    \/ /\ freed >= MaxConcurrency \/ waiters = <<>>
       /\ inFlight' = freed
       /\ release' = live
       /\ UNCHANGED <<waiters, promise, timer, listener>>
    \/ /\ freed < MaxConcurrency /\ waiters # <<>>
       /\ inFlight' = freed + 1
       /\ waiters' = SubSeq(waiters, 1, Len(waiters) - 1)
       /\ timer' = [timer EXCEPT ![Last(waiters)] = FALSE]
       /\ listener' = [listener EXCEPT ![Last(waiters)] = FALSE]
       /\ release' = [live EXCEPT ![Last(waiters)] = "live"]
       /\ Settle(Last(waiters), "granted")

Drain(freed, live) ==
    \/ /\ freed >= MaxConcurrency \/ waiters = <<>>
       /\ inFlight' = freed
       /\ release' = live
       /\ UNCHANGED <<waiters, promise, timer, listener>>
    \/ /\ freed < MaxConcurrency /\ waiters # <<>>
       /\ inFlight' = freed + 1
       /\ waiters' = Tail(waiters)
       /\ timer' = [timer EXCEPT ![Head(waiters)] = FALSE]
       /\ listener' = [listener EXCEPT ![Head(waiters)] = FALSE]
       /\ release' = [live EXCEPT ![Head(waiters)] = "live"]
       /\ Settle(Head(waiters), "granted")

Release_Twice(r) ==
    /\ promise[r] = "granted"
    /\ Drain(inFlight - 1, [release EXCEPT ![r] = "released"])
    /\ UNCHANGED aborted

(* A holder may call its closure any number of times: the routes do, from the  *)
(* stream cleanup and again from their finally block.                          *)
Release(r) ==
    /\ promise[r] = "granted"
    /\ \/ release[r] = "released" /\ UNCHANGED vars
       \/ /\ release[r] = "live"
          /\ Drain(inFlight - 1, [release EXCEPT ![r] = "released"])
          /\ UNCHANGED aborted

Next ==
    \E r \in Requests :
        \/ AcquireFree(r) \/ AcquireAborted(r) \/ AcquireQueued(r)
        \/ Timeout(r) \/ Abort(r) \/ Release(r)

(* Only the timers are fair: a holder need not ever release its slot. *)
Spec == Init /\ [][Next]_vars /\ \A r \in Requests : WF_vars(Timeout(r))

-----------------------------------------------------------------------------
(* Properties *)

(* Every variable has its type; in particular the counter stays in range. *)
TypeOK ==
    /\ inFlight \in 0..MaxConcurrency
    /\ waiters \in Seq(Requests)
    /\ promise \in [Requests -> Outcomes]
    /\ release \in [Requests -> {"unbuilt", "live", "released"}]
    /\ timer \in [Requests -> BOOLEAN]
    /\ listener \in [Requests -> BOOLEAN]
    /\ aborted \in [Requests -> BOOLEAN]

Holders == {r \in Requests : promise[r] = "granted" /\ release[r] = "live"}

(* No slot leaks: inFlight counts exactly the requests whose promise resolved  *)
(* and whose release has not run, whatever timers and aborts raced the grant.  *)
SlotsAccounted == inFlight = Cardinality(Holders)

(* Work conservation: a request waits only while every slot is in use. *)
NoIdleSlot == waiters # <<>> => inFlight = MaxConcurrency

(* A request is in the queue exactly while its promise is pending, its timer   *)
(* is armed and its listener attached: nothing left over can reject a promise  *)
(* that was granted, or keep a settled request in the queue.                   *)
QueuedIsArmed ==
    \A r \in Requests :
        /\ Queued(r) <=> promise[r] = "pending"
        /\ timer[r] <=> Queued(r)
        /\ listener[r] <=> Queued(r)

(* The three together: slots, queue, timers and listeners agree.               *)
SlotsAndWaiters == SlotsAccounted /\ NoIdleSlot /\ QueuedIsArmed

(* The counter, the array, the timers and the listeners together implement the *)
(* first-come-first-served slot service.                                       *)
Slots == INSTANCE SlotService WITH holders <- Holders, queue <- waiters
ImplementsSlotService == Slots!Spec

(* The queue timeout bounds every wait, even when no holder ever releases. *)
EveryWaitEnds ==
    \A r \in Requests : promise[r] = "pending" ~> promise[r] # "pending"
=============================================================================
