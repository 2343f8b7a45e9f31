-------------------------- MODULE BoundedCapacity --------------------------
(***************************************************************************)
(* infra/governance/semaphore.py, class _BoundedCapacity: the FIFO slot    *)
(* pool every SQL, RAG, code and index call passes through.                *)
(*                                                                         *)
(* The methods contain no await, so each is one atomic step of the event   *)
(* loop.  What interleaves is the delivery of a grant, a timeout or a      *)
(* cancellation and the later step in which the waiting task wakes up: a   *)
(* future that is done stays in the deque until somebody removes it, and a *)
(* grant may reach a task that has been cancelled in between.              *)
(***************************************************************************)
EXTENDS Naturals, Sequences, FiniteSets

CONSTANTS Task,       \* asyncio tasks that call acquire()
          Limit,      \* _active_limit
          QueueSize   \* _wait_queue_size

\* The constructor refuses any other configuration.
ASSUME CapacityAssumption ==
    /\ IsFiniteSet(Task)
    /\ Limit \in Nat \ {0}
    /\ QueueSize \in Nat

VARIABLES active,     \* _active: slots handed out
          waiters,    \* _waiters: the deque, by owning task
          future,     \* state of each task's waiter.future
          interrupt,  \* timeout or cancellation delivered to the waiting task
          stage       \* where each task is in acquire()

vars == <<active, waiters, future, interrupt, stage>>

FutureStates == {"none", "pending", "granted", "cancelled"}
Interrupts == {"none", "timeout", "cancel"}
Refusals == {"queue_full", "wait_timeout", "cancelled"}
Stages == {"idle", "waiting", "holding"} \cup Refusals

Pending == {p \in Task : future[p] = "pending"}
Holders == {p \in Task : stage[p] = "holding" \/ future[p] = "granted"}
RefusedTasks == {p \in Task : stage[p] = "queue_full"}

Init ==
    /\ active = 0
    /\ waiters = <<>>
    /\ future = [p \in Task |-> "none"]
    /\ interrupt = [p \in Task |-> "none"]
    /\ stage = [p \in Task |-> "idle"]

-----------------------------------------------------------------------------
(* The deque.                                                              *)

\* How many positions of I are not after i.
Rank(I, i) == Cardinality({j \in I : j <= i})

\* The elements of s that lie in S, in their order.
Keep(s, S) ==
    LET I == {i \in 1 .. Len(s) : s[i] \in S}
    IN  [k \in 1 .. Cardinality(I) |->
            s[CHOOSE i \in I : Rank(I, i) = k]]

\* Mutant: done waiters are not discarded.
UndoneStale == waiters

\* _discard_cancelled_waiters: waiters whose future is done are dropped.
Undone == Keep(waiters, Pending)

\* Mutant: a done waiter at the head swallows the freed slot.
ReleaseToHeadOnly(fut) ==
    IF waiters # <<>> /\ fut[Head(waiters)] = "pending"
    THEN /\ active' = active
         /\ waiters' = Tail(waiters)
         /\ future' = [fut EXCEPT ![Head(waiters)] = "granted"]
    ELSE /\ active' = active - 1
         /\ waiters' = IF waiters = <<>> THEN <<>> ELSE Tail(waiters)
         /\ future' = fut

\* _release: the slot is given up; done waiters are popped and skipped, and
\* the first live one is granted the slot in the same step.
ReleaseTo(fut) ==
    LET live == {i \in 1 .. Len(waiters) : fut[waiters[i]] = "pending"}
    IN  \/ /\ live = {}
           /\ active' = active - 1
           /\ waiters' = <<>>
           /\ future' = fut
        \/ \E i \in live :
              /\ \A j \in live : i <= j
              /\ active' = active
              /\ waiters' = SubSeq(waiters, i + 1, Len(waiters))
              /\ future' = [fut EXCEPT ![waiters[i]] = "granted"]

-----------------------------------------------------------------------------
(* acquire(), one action per stretch between two awaits.                   *)

\* _reserve_or_enqueue takes a free slot.
Reserve(p) ==
    /\ stage[p] \notin {"waiting", "holding"}
    /\ active < Limit
    /\ Undone = <<>>
    /\ active' = active + 1
    /\ waiters' = Undone
    /\ stage' = [stage EXCEPT ![p] = "holding"]
    /\ UNCHANGED <<future, interrupt>>

\* _reserve_or_enqueue appends a waiter; the task suspends on its future.
Enqueue(p) ==
    /\ stage[p] \notin {"waiting", "holding"}
    /\ ~(active < Limit /\ Undone = <<>>)
    /\ Len(Undone) < QueueSize
    /\ waiters' = Append(Undone, p)
    /\ future' = [future EXCEPT ![p] = "pending"]
    /\ stage' = [stage EXCEPT ![p] = "waiting"]
    /\ UNCHANGED <<active, interrupt>>

\* _reserve_or_enqueue raises CapacityExceededError("queue_full").
RejectFull(p) ==
    /\ stage[p] \notin {"waiting", "holding"}
    /\ ~(active < Limit /\ Undone = <<>>)
    /\ Len(Undone) >= QueueSize
    /\ waiters' = Undone
    /\ stage' = [stage EXCEPT ![p] = "queue_full"]
    /\ UNCHANGED <<active, future, interrupt>>

\* asyncio delivers a timeout or a cancellation to a task suspended on its
\* future: a pending future becomes cancelled, a granted one stays granted
\* and the task will raise at its next step.  A cancellation outranks a
\* timeout (Task.uncancel leaves a request standing).
Interrupt(p, cause) ==
    /\ stage[p] = "waiting"
    /\ cause \in {"timeout", "cancel"}
    /\ interrupt[p] # cause
    /\ interrupt[p] # "cancel"
    /\ interrupt' = [interrupt EXCEPT ![p] = cause]
    /\ future' = [future EXCEPT ![p] = IF @ = "pending" THEN "cancelled" ELSE @]
    /\ UNCHANGED <<active, waiters, stage>>

\* The future was granted and nothing interrupted the wait: the body runs.
Resume(p) ==
    /\ stage[p] = "waiting"
    /\ future[p] = "granted"
    /\ interrupt[p] = "none"
    /\ stage' = [stage EXCEPT ![p] = "holding"]
    /\ future' = [future EXCEPT ![p] = "none"]
    /\ UNCHANGED <<active, waiters, interrupt>>

\* How every withdrawal ends: the exception reaches the caller.
Refused(p) ==
    /\ stage' = [stage EXCEPT ![p] = IF interrupt[p] = "timeout"
                                       THEN "wait_timeout" ELSE "cancelled"]
    /\ interrupt' = [interrupt EXCEPT ![p] = "none"]

\* Mutant: a slot granted to an interrupted waiter is not handed on.
WithdrawKeepsGrant(p) ==
    /\ stage[p] = "waiting"
    /\ interrupt[p] # "none"
    /\ waiters' = Keep(waiters, Task \ {p})
    /\ future' = [future EXCEPT ![p] = "none"]
    /\ UNCHANGED active
    /\ Refused(p)

\* The except branches of acquire: _withdraw hands a granted slot on, or
\* takes the waiter out of the deque, and the exception propagates.
Withdraw(p) ==
    /\ stage[p] = "waiting"
    /\ interrupt[p] # "none"
    /\ \/ /\ future[p] = "granted"
          /\ ReleaseTo([future EXCEPT ![p] = "none"])
       \/ /\ future[p] # "granted"
          /\ waiters' = Keep(waiters, Task \ {p})
          /\ future' = [future EXCEPT ![p] = "none"]
          /\ UNCHANGED active
    /\ Refused(p)

\* The body ends, normally or not: the finally clause releases the slot.
Release(p) ==
    /\ stage[p] = "holding"
    /\ ReleaseTo(future)
    /\ stage' = [stage EXCEPT ![p] = "idle"]
    /\ UNCHANGED interrupt

Next ==
    \E p \in Task :
        \/ Reserve(p)
        \/ Enqueue(p)
        \/ RejectFull(p)
        \/ \E cause \in {"timeout", "cancel"} : Interrupt(p, cause)
        \/ Resume(p)
        \/ Withdraw(p)
        \/ Release(p)

Spec == Init /\ [][Next]_vars

\* A woken task runs (the event loop is fair) and a body ends (every body is
\* bounded by a statement or sandbox timeout).  Timeouts are not assumed.
Fairness ==
    \A p \in Task : WF_vars(Resume(p)) /\ WF_vars(Withdraw(p)) /\ WF_vars(Release(p))

FairSpec == Spec /\ Fairness

-----------------------------------------------------------------------------
(* Properties.                                                             *)

\* Type correctness of the pool's fields and of each task's position.
TypeOK ==
    /\ active \in Nat
    /\ waiters \in Seq(Task)
    /\ future \in [Task -> FutureStates]
    /\ interrupt \in [Task -> Interrupts]
    /\ stage \in [Task -> Stages]

\* _active counts exactly the tasks that own a slot, those granted one but
\* not yet resumed or already cancelled included: no release without a
\* holder (the RuntimeError of _release), no slot lost to a cancelled waiter.
SlotsAccounted == active = Cardinality(Holders)

\* At most Limit tasks own a slot at once.
CapacityRespected == Cardinality(Holders) <= Limit

\* A task never waits while a slot is free, whatever mix of timeouts and
\* cancellations left done futures in the deque.
NoIdleSlot == Pending # {} => active = Limit

\* At most QueueSize tasks are queued, done futures included.
QueueBounded == Len(waiters) <= QueueSize

\* A waiting task whose future is pending can still be found by _release.
NoLostWaiter == \A p \in Pending : \E i \in 1 .. Len(waiters) : waiters[i] = p

\* A task suspends exactly while its future exists; an interrupted future is
\* never pending; the deque holds each task once and only futures that have
\* not been granted.  With the invariants above this is inductive.
WaitersConsistent ==
    /\ \A p \in Task :
         /\ stage[p] = "waiting" <=> future[p] # "none"
         /\ future[p] = "pending" => interrupt[p] = "none"
         /\ future[p] = "cancelled" => interrupt[p] # "none"
         /\ interrupt[p] # "none" => stage[p] = "waiting"
    /\ \A i \in 1 .. Len(waiters) : future[waiters[i]] \in {"pending", "cancelled"}
    /\ \A i, j \in 1 .. Len(waiters) : waiters[i] = waiters[j] => i = j

\* The inductive invariant of the pool.
CapacityInv ==
    /\ TypeOK
    /\ SlotsAccounted
    /\ CapacityRespected
    /\ NoIdleSlot
    /\ QueueBounded
    /\ NoLostWaiter
    /\ WaitersConsistent

\* p comes before q in the sequence s.
Precedes(s, p, q) ==
    \E i, j \in 1 .. Len(s) : i < j /\ s[i] = p /\ s[j] = q

\* p was queued before q.
Before(p, q) == Precedes(waiters, p, q)

\* Every wait ends, with no timeout needed, once holders release.
WaitersServed == \A p \in Task : stage[p] = "waiting" ~> stage[p] # "waiting"

\* The order in which the live waiters arrived.
AheadRelation ==
    {e \in Pending \X Pending : Before(e[1], e[2])}

Slots == INSTANCE FifoSlots
    WITH holders <- Holders, queue <- Pending, ahead <- AheadRelation, turnedAway <- RefusedTasks

\* The deque of futures implements the abstract FIFO pool; in particular a stale,
\* already-cancelled waiter never costs a caller its place (queue_full).
ImplementsFifoSlots == Slots!Spec
=============================================================================
