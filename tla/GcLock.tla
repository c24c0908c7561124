------------------------------- MODULE GcLock -------------------------------
(***************************************************************************)
(* RWLock of py_ipfs_lite/peer/ipld.py, one step per stretch of code       *)
(* between two trio checkpoints.  A task is one call of add_file/add_node  *)
(* (a reader) or gc (a writer).  Trio is cooperative: a task runs          *)
(* undisturbed until it awaits, so the atomic steps below are exact.       *)
(*                                                                         *)
(* trio.Lock and trio.Semaphore are external; as the code uses them:       *)
(*   - both queue waiters first come first served, and release() hands     *)
(*     the primitive straight to the first waiter;                         *)
(*   - acquire() is a checkpoint: it raises Cancelled before taking        *)
(*     anything when the task's cancel scope has been cancelled, and a     *)
(*     parked waiter that is cancelled leaves the queue empty-handed;      *)
(*   - release() never blocks and is never cancelled.                      *)
(***************************************************************************)
EXTENDS Naturals, Sequences, FiniteSets, SequencesExt

CONSTANTS
    Readers,      \* tasks that use read_lock()
    Writers,      \* tasks that use write_lock()
    Cancellable,  \* tasks that run inside a cancel scope the caller may cancel
    NoTask        \* "no owner" of the count lock

ASSUME TasksAssumption ==
    /\ IsFiniteSet(Readers)
    /\ Readers \intersect Writers = {}
    /\ NoTask \notin Readers \union Writers

Tasks == Readers \union Writers

VARIABLES
    pc,           \* where each task is
    readCount,    \* _read_count
    countOwner,   \* owner of _read_count_lock
    countWaiters, \* tasks parked on _read_count_lock
    permits,      \* value of the _write_lock semaphore
    permitWaiters,\* tasks parked on _write_lock
    cancelled     \* tasks whose cancel scope has been cancelled

vars == <<pc, readCount, countOwner, countWaiters, permits, permitWaiters, cancelled>>

ReaderStates == {
    "idle",
    "waitCount",    \* parked on _read_count_lock in the entry block
    "counting",     \* owns _read_count_lock, about to run _read_count += 1
    "waitPermit",   \* first reader, parked on _write_lock, still owns the count lock
    "gotPermit",    \* first reader, _write_lock acquired, about to leave the entry block
    "reading",      \* in the body of `async with read_lock()`
    "waitUncount",  \* parked on _read_count_lock in the finally block
    "uncounting",   \* owns _read_count_lock, about to run _read_count -= 1
    "unwinding",    \* cancelled while parked on _write_lock, still owns the count lock
    "gone" }        \* cancelled and finished

WriterStates == {"idle", "waitWrite", "gotWrite", "writing", "gone"}

TypeOK ==
    /\ pc \in [Tasks -> ReaderStates \union WriterStates]
    /\ \A r \in Readers : pc[r] \in ReaderStates
    /\ \A w \in Writers : pc[w] \in WriterStates
    /\ readCount \in Nat
    /\ countOwner \in Readers \union {NoTask}
    /\ countWaiters \in Seq(Readers)
    /\ permits \in Nat
    /\ permitWaiters \in Seq(Tasks)
    /\ cancelled \in SUBSET Tasks

Init ==
    /\ pc = [t \in Tasks |-> "idle"]
    /\ readCount = 0
    /\ countOwner = NoTask
    /\ countWaiters = <<>>
    /\ permits = 1
    /\ permitWaiters = <<>>
    /\ cancelled = {}

-----------------------------------------------------------------------------
(* The primitives.  A release also moves the pc of the task it wakes: p is *)
(* the pc function after the releasing task's own move.                    *)

Finished(t) == IF t \in cancelled THEN "gone" ELSE "idle"

\* `async with self._read_count_lock`: entering it, at one of the two places.
AcquireCountLock(r, owning, parked) ==
    \/ /\ countOwner = NoTask
       /\ countOwner' = r
       /\ pc' = [pc EXCEPT ![r] = owning]
       /\ UNCHANGED countWaiters
    \/ /\ countOwner # NoTask
       /\ countWaiters' = Append(countWaiters, r)
       /\ pc' = [pc EXCEPT ![r] = parked]
       /\ UNCHANGED countOwner

\* Where the release of _read_count_lock leaves the task it wakes.
WakeCount(p) ==
    IF countWaiters = <<>> THEN p
    ELSE [p EXCEPT ![Head(countWaiters)] =
             IF @ = "waitCount" THEN "counting" ELSE "uncounting"]

ReleaseCountLock ==
    IF countWaiters = <<>>
    THEN countOwner' = NoTask /\ UNCHANGED countWaiters
    ELSE /\ countOwner' = Head(countWaiters)
         /\ countWaiters' = Tail(countWaiters)

\* Where the release of _write_lock leaves the task it wakes.
WakePermit(p) ==
    IF permitWaiters = <<>> THEN p
    ELSE [p EXCEPT ![Head(permitWaiters)] =
             IF @ = "waitWrite" THEN "gotWrite" ELSE "gotPermit"]

ReleasePermit ==
    IF permitWaiters = <<>>
    THEN permits' = permits + 1 /\ UNCHANGED permitWaiters
    ELSE permitWaiters' = Tail(permitWaiters) /\ UNCHANGED permits

-----------------------------------------------------------------------------
(* read_lock()                                                             *)

StartRead(r) ==
    /\ pc[r] = "idle"
    /\ AcquireCountLock(r, "counting", "waitCount")
    /\ UNCHANGED <<readCount, permits, permitWaiters, cancelled>>

\* The count is already raised when `await _write_lock.acquire()` raises
\* Cancelled; leaving the block by that exception releases only the count lock.
Count(r) ==
    /\ pc[r] = "counting"
    /\ readCount' = readCount + 1
    /\ \/ /\ readCount' # 1
          /\ pc' = WakeCount([pc EXCEPT ![r] = "reading"])
          /\ ReleaseCountLock
          /\ UNCHANGED <<permits, permitWaiters>>
       \/ /\ readCount' = 1 /\ r \in cancelled
          /\ pc' = WakeCount([pc EXCEPT ![r] = "gone"])
          /\ ReleaseCountLock
          /\ UNCHANGED <<permits, permitWaiters>>
       \/ /\ readCount' = 1 /\ r \notin cancelled /\ permits > 0
          /\ permits' = permits - 1
          /\ pc' = [pc EXCEPT ![r] = "gotPermit"]
          /\ UNCHANGED <<countOwner, countWaiters, permitWaiters>>
       \/ /\ readCount' = 1 /\ r \notin cancelled /\ permits = 0
          /\ permitWaiters' = Append(permitWaiters, r)
          /\ pc' = [pc EXCEPT ![r] = "waitPermit"]
          /\ UNCHANGED <<countOwner, countWaiters, permits>>
    /\ UNCHANGED cancelled

EnterRead(r) ==
    /\ pc[r] = "gotPermit"
    /\ pc' = WakeCount([pc EXCEPT ![r] = "reading"])
    /\ ReleaseCountLock
    /\ UNCHANGED <<readCount, permits, permitWaiters, cancelled>>

\* The body ends, or Cancelled is raised in it.  Either way the finally block
\* starts by acquiring the count lock, which raises Cancelled again in a
\* cancelled task: the decrement is skipped.
EndRead(r) ==
    /\ pc[r] = "reading"
    /\ \/ /\ r \notin cancelled
          /\ AcquireCountLock(r, "uncounting", "waitUncount")
       \/ /\ r \in cancelled
          /\ pc' = [pc EXCEPT ![r] = "gone"]
          /\ UNCHANGED <<countOwner, countWaiters>>
    /\ UNCHANGED <<readCount, permits, permitWaiters, cancelled>>

\* Mutation of the finally block: the permit is not released.
UncountKeepsPermit(r) ==
    /\ pc[r] = "uncounting"
    /\ readCount' = readCount - 1
    /\ ReleaseCountLock
    /\ pc' = WakeCount([pc EXCEPT ![r] = "idle"])
    /\ UNCHANGED <<permits, permitWaiters, cancelled>>

Uncount(r) ==
    /\ pc[r] = "uncounting"
    /\ readCount' = readCount - 1
    /\ ReleaseCountLock
    /\ LET left == WakeCount([pc EXCEPT ![r] = Finished(r)]) IN
       \/ /\ readCount' = 0
          /\ ReleasePermit
          /\ pc' = WakePermit(left)
       \/ /\ readCount' # 0
          /\ pc' = left
          /\ UNCHANGED <<permits, permitWaiters>>
    /\ UNCHANGED cancelled

-----------------------------------------------------------------------------
(* write_lock()                                                            *)

\* Mutation: gc enters without waiting for the permit.
StartWriteUnlocked(w) ==
    /\ pc[w] = "idle"
    /\ pc' = [pc EXCEPT ![w] = "gotWrite"]
    /\ UNCHANGED <<readCount, countOwner, countWaiters, permits, permitWaiters, cancelled>>

StartWrite(w) ==
    /\ pc[w] = "idle"
    /\ \/ /\ permits > 0
          /\ permits' = permits - 1
          /\ pc' = [pc EXCEPT ![w] = "gotWrite"]
          /\ UNCHANGED permitWaiters
       \/ /\ permits = 0
          /\ permitWaiters' = Append(permitWaiters, w)
          /\ pc' = [pc EXCEPT ![w] = "waitWrite"]
          /\ UNCHANGED permits
    /\ UNCHANGED <<readCount, countOwner, countWaiters, cancelled>>

EnterWrite(w) ==
    /\ pc[w] = "gotWrite"
    /\ pc' = [pc EXCEPT ![w] = "writing"]
    /\ UNCHANGED <<readCount, countOwner, countWaiters, permits, permitWaiters, cancelled>>

EndWrite(w) ==
    /\ pc[w] = "writing"
    /\ ReleasePermit
    /\ pc' = WakePermit([pc EXCEPT ![w] = Finished(w)])
    /\ UNCHANGED <<readCount, countOwner, countWaiters, cancelled>>

-----------------------------------------------------------------------------
(* Cancellation of the scope a task runs in: a timeout, a client that      *)
(* disconnects, a nursery that is torn down.  A parked task is woken at    *)
(* once; any other meets the Cancelled at its next checkpoint.             *)

\* A parked task leaves the queue, the others keep their order.
Unpark(queue, t) ==
    IF t \in ToSet(queue) THEN RemoveAt(queue, CHOOSE i \in DOMAIN queue : queue[i] = t) ELSE queue

Cancel(t) ==
    /\ t \in Cancellable \ cancelled
    /\ pc[t] \notin {"idle", "gone"}
    /\ cancelled' = cancelled \union {t}
    /\ countWaiters' = Unpark(countWaiters, t)
    /\ permitWaiters' = Unpark(permitWaiters, t)
    /\ pc' = [pc EXCEPT ![t] =
                 IF @ \in {"waitCount", "waitUncount", "waitWrite"} THEN "gone"
                 ELSE IF @ = "waitPermit" THEN "unwinding"
                 ELSE @]
    /\ UNCHANGED <<readCount, countOwner, permits>>

\* Mutation: the reader cancelled while it waited for the permit releases it.
UnwindReleases(r) ==
    /\ pc[r] = "unwinding"
    /\ ReleaseCountLock
    /\ ReleasePermit
    /\ pc' = WakePermit(WakeCount([pc EXCEPT ![r] = "gone"]))
    /\ UNCHANGED <<readCount, cancelled>>

\* Cancelled propagates out of `async with _read_count_lock` in the entry block.
Unwind(r) ==
    /\ pc[r] = "unwinding"
    /\ pc' = WakeCount([pc EXCEPT ![r] = "gone"])
    /\ ReleaseCountLock
    /\ UNCHANGED <<readCount, permits, permitWaiters, cancelled>>

-----------------------------------------------------------------------------
ReaderStep(r) ==
    Count(r) \/ EnterRead(r) \/ EndRead(r) \/ Uncount(r)

WriterStep(w) == EnterWrite(w) \/ EndWrite(w)

Next ==
    \/ \E r \in Readers : StartRead(r) \/ ReaderStep(r)
    \/ \E w \in Writers : StartWrite(w) \/ WriterStep(w)

CancelNext ==
    \/ Next
    \/ \E t \in Tasks : Cancel(t)
    \/ \E r \in Readers : Unwind(r)

\* Trio runs every runnable task, and the bodies (a block put, a collection)
\* end; nobody is obliged to call add_node or gc.
Fairness ==
    /\ \A r \in Readers : WF_vars(ReaderStep(r) \/ Unwind(r))
    /\ \A w \in Writers : WF_vars(WriterStep(w))

\* No cancel scope around a lock user is ever cancelled.
Spec == Init /\ [][Next]_vars

FairSpec == Spec /\ Fairness

\* The tasks in Cancellable may be cancelled at any time.
CancelSpec == Init /\ [][CancelNext]_vars /\ Fairness

-----------------------------------------------------------------------------
(* What the lock is for                                                    *)

Reading == {r \in Readers : pc[r] = "reading"}
Writing == {w \in Writers : pc[w] = "writing"}

\* A collection never overlaps a block write that took the read lock: the
\* exclusion that _read_count, its lock and the semaphore implement together.
ReadersExcludeWriters == Reading = {} \/ Writing = {}

\* Two collections never overlap, even when lock users are cancelled at any
\* point: no path through read_lock/write_lock releases the semaphore twice.
OneWriter == \A v, w \in Writing : v = w

\* The readers that have raised _read_count and not lowered it again.
Counted == {r \in Readers : pc[r] \in
               {"waitPermit", "gotPermit", "reading", "waitUncount", "uncounting"}}

\* _read_count is the number of readers between their increment and their
\* decrement, so the last one out, and only it, releases the semaphore.
CountMatchesReaders == readCount = Cardinality(Counted)

\* The one permit is free, or held by one writer, or held by the readers as a
\* group.
ReadersHoldPermit == readCount > 0 /\ \A r \in Readers : pc[r] # "waitPermit"
PermitHolders == {w \in Writers : pc[w] \in {"gotWrite", "writing"}}

PermitConserved ==
    /\ permits \in {0, 1}
    /\ permits = 1 <=> PermitHolders = {} /\ ~ReadersHoldPermit
    /\ PermitHolders = {} \/ ~ReadersHoldPermit
    /\ \A v, w \in PermitHolders : v = w

\* The parts of the invariant that make the ones above inductive: who owns the
\* count lock, who is parked where, and that the reader that fetches the permit
\* does so before any other reader is counted.
OwnsCountLock == {"counting", "waitPermit", "gotPermit", "uncounting"}

CountLockOwned ==
    \A r \in Readers :
        /\ countOwner = r <=> pc[r] \in OwnsCountLock
        /\ pc[r] \notin {"unwinding", "gone"}

Parked(queue, states) ==
    /\ \A i \in 1..Len(queue) : pc[queue[i]] \in states
    /\ \A i, j \in 1..Len(queue) : i # j => queue[i] # queue[j]

WaitersParked ==
    /\ Parked(countWaiters, {"waitCount", "waitUncount"})
    /\ Parked(permitWaiters, {"waitPermit", "waitWrite"})

FetcherAlone == \A r \in Readers : pc[r] \in {"waitPermit", "gotPermit"} => Counted = {r}

IInv ==
    /\ TypeOK
    /\ cancelled = {}
    /\ CountLockOwned
    /\ WaitersParked
    /\ FetcherAlone
    /\ CountMatchesReaders
    /\ PermitConserved

\* What is left of the invariant under cancellation.  A reader cancelled between
\* its increment and its decrement stays in _read_count for ever: the count is
\* then too high, never reaches zero again, and the permit is never released by
\* the readers.  As long as it is right they hold the permit as a group.
CountLockHeld ==
    \A r \in Readers : countOwner = r <=> pc[r] \in OwnsCountLock \union {"unwinding"}

CountCoversReaders == readCount >= Cardinality(Counted)

PermitNotDuplicated ==
    /\ permits \in {0, 1}
    /\ permits = 1 \/ (CountMatchesReaders /\ ReadersHoldPermit) => PermitHolders = {}
    /\ CountMatchesReaders /\ ReadersHoldPermit => permits = 0
    /\ \A v, w \in PermitHolders : v = w

CancelInv ==
    /\ TypeOK
    /\ CountLockHeld
    /\ WaitersParked
    /\ CountCoversReaders
    /\ PermitNotDuplicated

\* The abstract lock.
Abstract == INSTANCE ReadersWriters WITH readers <- Reading, writers <- Writing
ImplementsReadersWriters == Abstract!Spec

\* A call of add_node or add_file that asks for the lock gets it, whatever the
\* collections before it and however many readers come after it.
ReaderGetsIn == \A r \in Readers : pc[r] = "waitCount" ~> pc[r] = "reading"

\* gc gets the lock if the readers keep draining: _read_count_lock and the
\* semaphore's queue do not let a later reader overtake it for ever then.
\* Without that hypothesis overlapping readers keep it out indefinitely.
GcGetsIn ==
    ([]<>(readCount = 0)) => \A w \in Writers : pc[w] = "waitWrite" ~> pc[w] = "writing"

\* Nobody waits for the lock for ever: neither readers nor, as they drain, gc.
EveryoneGetsIn == ReaderGetsIn /\ GcGetsIn
=============================================================================
