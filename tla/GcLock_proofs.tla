---------------------------- MODULE GcLock_proofs ----------------------------
(***************************************************************************)
(* RWLock, for any finite number of readers and writers: as long as no     *)
(* task is cancelled inside the lock, the count is right, the permit is    *)
(* conserved, writers are alone, and the lock implements ReadersWriters.   *)
(* With cancellation at any point, writers still exclude each other.       *)
(***************************************************************************)
EXTENDS GcLock, FiniteSetTheorems, SequenceTheorems, TLAPS

-----------------------------------------------------------------------------
(* Queues                                                                  *)

\* The head of a queue of waiters leaves; the others keep their order.
LEMMA QueueTail ==
    ASSUME NEW S, NEW q \in Seq(S), q # <<>>
    PROVE  /\ Len(q) \in Nat /\ Len(q) >= 1
           /\ Head(q) \in S /\ Head(q) = q[1]
           /\ Tail(q) \in Seq(S)
           /\ Len(Tail(q)) = Len(q) - 1
           /\ \A i \in 1..Len(Tail(q)) : i + 1 \in 1..Len(q) /\ Tail(q)[i] = q[i + 1]
OBVIOUS

\* The waiters left behind are still parked, and the one that left is not
\* among them.
LEMMA ParkedTail ==
    ASSUME NEW S, NEW q \in Seq(S), NEW states, q # <<>>, Parked(q, states)
    PROVE  /\ Parked(Tail(q), states)
           /\ pc[Head(q)] \in states
           /\ \A i \in 1..Len(Tail(q)) : Tail(q)[i] # Head(q)
BY QueueTail DEF Parked

\* A task that is not parked on a queue can join it.
LEMMA ParkedAppend ==
    ASSUME NEW S, NEW q \in Seq(S), NEW states, NEW t \in S,
           Parked(q, states), pc[t] \notin states
    PROVE  /\ Append(q, t) \in Seq(S)
           /\ Len(Append(q, t)) = Len(q) + 1
           /\ \A i \in 1..Len(q) : Append(q, t)[i] = q[i] /\ q[i] # t
           /\ Append(q, t)[Len(q) + 1] = t
BY DEF Parked


-----------------------------------------------------------------------------
(* What a release does to the program counters                             *)

PcTyped(p) ==
    /\ p \in [Tasks -> ReaderStates \union WriterStates]
    /\ \A r \in Readers : p[r] \in ReaderStates
    /\ \A w \in Writers : p[w] \in WriterStates

\* Releasing the count lock moves its first waiter, a reader, into the block it
\* waited for, and no other task.
LEMMA WakeCountEffect ==
    ASSUME TypeOK, WaitersParked, NEW p, PcTyped(p),
           \A i \in 1..Len(countWaiters) : p[countWaiters[i]] = pc[countWaiters[i]]
    PROVE  /\ PcTyped(WakeCount(p))
           /\ \A t \in Tasks :
                 WakeCount(p)[t] =
                    IF countWaiters # <<>> /\ t = Head(countWaiters)
                    THEN IF pc[t] = "waitCount" THEN "counting" ELSE "uncounting"
                    ELSE p[t]
           /\ countWaiters # <<>> =>
                 /\ Head(countWaiters) \in Readers
                 /\ pc[Head(countWaiters)] \in {"waitCount", "waitUncount"}
<1>1. CASE countWaiters = <<>>
  BY <1>1 DEF WakeCount
<1>2. CASE countWaiters # <<>>
  <2>1. /\ Head(countWaiters) \in Readers
        /\ Head(countWaiters) = countWaiters[1]
        /\ 1 \in 1..Len(countWaiters)
    BY <1>2, QueueTail DEF TypeOK
  <2>2. pc[Head(countWaiters)] \in {"waitCount", "waitUncount"}
    BY <2>1 DEF WaitersParked, Parked
  <2> DEFINE h == Head(countWaiters)
  <2>3. WakeCount(p) = [p EXCEPT ![h] = IF p[h] = "waitCount" THEN "counting" ELSE "uncounting"]
    BY <1>2 DEF WakeCount
  <2>4. h \in Tasks /\ p[h] = pc[h]
    BY <2>1 DEF Tasks
  <2>5. {"counting", "uncounting"} \subseteq ReaderStates
    BY DEF ReaderStates
  <2> HIDE DEF h
  <2>6. h \in Readers /\ h \notin Writers
    BY <2>1, TasksAssumption DEF h
  <2>7. QED
    BY <1>2, <2>2, <2>3, <2>4, <2>5, <2>6 DEF PcTyped, h
<1>3. QED
  BY <1>1, <1>2

\* Releasing the permit hands it to its first waiter and moves no other task.
LEMMA WakePermitEffect ==
    ASSUME TypeOK, WaitersParked, NEW p, PcTyped(p),
           \A i \in 1..Len(permitWaiters) : p[permitWaiters[i]] = pc[permitWaiters[i]]
    PROVE  /\ PcTyped(WakePermit(p))
           /\ \A t \in Tasks :
                 WakePermit(p)[t] =
                    IF permitWaiters # <<>> /\ t = Head(permitWaiters)
                    THEN IF pc[t] = "waitWrite" THEN "gotWrite" ELSE "gotPermit"
                    ELSE p[t]
           /\ permitWaiters # <<>> =>
                 /\ Head(permitWaiters) \in Tasks
                 /\ pc[Head(permitWaiters)] \in {"waitPermit", "waitWrite"}
                 /\ pc[Head(permitWaiters)] = "waitWrite" <=> Head(permitWaiters) \in Writers
                 /\ pc[Head(permitWaiters)] = "waitPermit" <=> Head(permitWaiters) \in Readers
<1>1. CASE permitWaiters = <<>>
  BY <1>1 DEF WakePermit
<1>2. CASE permitWaiters # <<>>
  <2>1. /\ Head(permitWaiters) \in Tasks
        /\ Head(permitWaiters) = permitWaiters[1]
        /\ 1 \in 1..Len(permitWaiters)
    BY <1>2, QueueTail DEF TypeOK
  <2>2. pc[Head(permitWaiters)] \in {"waitPermit", "waitWrite"}
    BY <2>1 DEF WaitersParked, Parked
  <2> DEFINE h == Head(permitWaiters)
  <2>3. WakePermit(p) = [p EXCEPT ![h] = IF p[h] = "waitWrite" THEN "gotWrite" ELSE "gotPermit"]
    BY <1>2 DEF WakePermit
  <2>4. h \in Tasks /\ p[h] = pc[h]
    BY <2>1
  <2>5. "gotPermit" \in ReaderStates /\ "gotWrite" \in WriterStates
        /\ "waitWrite" \notin ReaderStates /\ "waitPermit" \notin WriterStates
    BY DEF ReaderStates, WriterStates
  <2>6. /\ pc[h] = "waitWrite" <=> h \in Writers
        /\ pc[h] = "waitPermit" <=> h \in Readers
    BY <2>2, <2>4, <2>5, TasksAssumption DEF TypeOK, Tasks
  <2> HIDE DEF h
  <2>7. PcTyped(WakePermit(p))
    BY <2>2, <2>3, <2>4, <2>5, <2>6, TasksAssumption DEF PcTyped, h, Tasks
  <2>8. QED
    BY <1>2, <2>2, <2>3, <2>4, <2>6, <2>7 DEF PcTyped, h
<1>3. QED
  BY <1>1, <1>2

-----------------------------------------------------------------------------
(* The invariant is inductive                                              *)

\* Counted is finite, so counting it behaves as expected when a reader joins or
\* leaves it.
LEMMA CountedFinite ==
    ASSUME NEW r \in Readers
    PROVE  /\ IsFiniteSet(Counted)
           /\ Cardinality(Counted) \in Nat
           /\ Cardinality(Counted) = 0 <=> Counted = {}
           /\ Cardinality(Counted \union {r}) =
                 IF r \in Counted THEN Cardinality(Counted) ELSE Cardinality(Counted) + 1
           /\ Cardinality(Counted \ {r}) =
                 IF r \in Counted THEN Cardinality(Counted) - 1 ELSE Cardinality(Counted)
<1>1. IsFiniteSet(Counted)
  BY FS_Subset, TasksAssumption DEF Counted
<1>2. QED
  BY <1>1, FS_CardinalityType, FS_EmptySet, FS_AddElement, FS_RemoveElement

\* Nobody has called the lock yet.
LEMMA InitIInv == Init => IInv
<1> SUFFICES ASSUME Init PROVE IInv
  OBVIOUS
<1>1. TypeOK
  BY TasksAssumption DEF Init, TypeOK, Tasks, ReaderStates, WriterStates
<1>2. CountLockOwned
  BY TasksAssumption DEF Init, CountLockOwned, OwnsCountLock, Tasks
<1>3. WaitersParked
  BY DEF Init, WaitersParked, Parked
<1>4. Counted = {}
  BY DEF Init, Counted, Tasks
<1>5. CountMatchesReaders
  BY <1>4, FS_EmptySet DEF Init, CountMatchesReaders
<1>6. FetcherAlone
  BY DEF Init, FetcherAlone, Tasks
<1>7. PermitConserved
  BY DEF Init, PermitConserved, PermitHolders, ReadersHoldPermit, Tasks
<1>8. QED
  BY <1>1, <1>2, <1>3, <1>5, <1>6, <1>7 DEF Init, IInv

\* read_lock() asks for the count lock.
LEMMA StartReadIInv ==
    ASSUME IInv, NEW r \in Readers, StartRead(r)
    PROVE  IInv'
<1> USE DEF IInv
<1>a. r \in Tasks /\ pc[r] = "idle" /\ r # NoTask /\ r \notin Writers
  BY TasksAssumption DEF StartRead, Tasks
<1>1. CASE countOwner = NoTask
  <2>1. pc' = [pc EXCEPT ![r] = "counting"] /\ countOwner' = r /\ countWaiters' = countWaiters
    BY <1>1 DEF StartRead, AcquireCountLock
  <2>2. UNCHANGED <<readCount, permits, permitWaiters, cancelled>>
    BY DEF StartRead
  <2>3. TypeOK'
    BY <1>a, <2>1, <2>2 DEF TypeOK, ReaderStates
  <2>4. CountLockOwned'
    BY <1>1, <1>a, <2>1, TasksAssumption DEF TypeOK, CountLockOwned, OwnsCountLock, Tasks
  <2>5. WaitersParked'
    BY <1>a, <2>1, <2>2 DEF TypeOK, WaitersParked, Parked
  <2>6. Counted' = Counted
    BY <1>a, <2>1 DEF TypeOK, Counted
  <2>7. FetcherAlone' /\ CountMatchesReaders'
    BY <1>a, <2>1, <2>2, <2>6 DEF TypeOK, FetcherAlone, CountMatchesReaders
  <2>8. PermitConserved'
    BY <1>a, <2>1, <2>2 DEF TypeOK, PermitConserved, PermitHolders, ReadersHoldPermit
  <2>9. QED
    BY <2>2, <2>3, <2>4, <2>5, <2>7, <2>8
<1>2. CASE countOwner # NoTask
  <2>1. pc' = [pc EXCEPT ![r] = "waitCount"] /\ countWaiters' = Append(countWaiters, r)
        /\ countOwner' = countOwner
    BY <1>2 DEF StartRead, AcquireCountLock
  <2>2. UNCHANGED <<readCount, permits, permitWaiters, cancelled>>
    BY DEF StartRead
  <2>q. /\ countWaiters' \in Seq(Readers)
        /\ Len(countWaiters') = Len(countWaiters) + 1
        /\ \A i \in 1..Len(countWaiters) : countWaiters'[i] = countWaiters[i] /\ countWaiters[i] # r
        /\ countWaiters'[Len(countWaiters) + 1] = r
    <3>1. countWaiters \in Seq(Readers) /\ Parked(countWaiters, {"waitCount", "waitUncount"})
      BY DEF TypeOK, WaitersParked
    <3>2. pc[r] \notin {"waitCount", "waitUncount"}
      BY <1>a
    <3>3. /\ Append(countWaiters, r) \in Seq(Readers)
          /\ Len(Append(countWaiters, r)) = Len(countWaiters) + 1
          /\ \A i \in 1..Len(countWaiters) :
                Append(countWaiters, r)[i] = countWaiters[i] /\ countWaiters[i] # r
          /\ Append(countWaiters, r)[Len(countWaiters) + 1] = r
      BY <3>1, <3>2, ParkedAppend DEF Parked
    <3>4. QED
      BY <2>1, <3>3
  <2>3. TypeOK'
    BY <1>a, <2>1, <2>2, <2>q DEF TypeOK, ReaderStates
  <2>4. CountLockOwned'
    BY <1>a, <2>1 DEF TypeOK, CountLockOwned, OwnsCountLock, Tasks
  <2>5. Parked(countWaiters, {"waitCount", "waitUncount"})'
    BY <1>a, <2>1, <2>q DEF TypeOK, WaitersParked, Parked
  <2>5a. Parked(permitWaiters, {"waitPermit", "waitWrite"})'
    <3>1. permitWaiters \in Seq(Tasks) /\ pc \in [Tasks -> ReaderStates \union WriterStates]
      BY DEF TypeOK
    <3>2. Parked(permitWaiters, {"waitPermit", "waitWrite"})
      BY DEF WaitersParked
    <3>3. \A i \in 1..Len(permitWaiters) : permitWaiters[i] \in Tasks
      BY <3>1
    <3>4. \A i \in 1..Len(permitWaiters) : pc'[permitWaiters[i]] = pc[permitWaiters[i]]
      BY <1>a, <2>1, <3>1, <3>2, <3>3 DEF Parked
    <3>5. QED
      BY <2>2, <3>2, <3>4 DEF Parked
  <2>6. Counted' = Counted
    BY <1>a, <2>1 DEF TypeOK, Counted
  <2>7. FetcherAlone' /\ CountMatchesReaders'
    BY <1>a, <2>1, <2>2, <2>6 DEF TypeOK, FetcherAlone, CountMatchesReaders
  <2>8. PermitConserved'
    BY <1>a, <2>1, <2>2 DEF TypeOK, PermitConserved, PermitHolders, ReadersHoldPermit
  <2>9. QED
    BY <2>2, <2>3, <2>4, <2>5, <2>5a, <2>7, <2>8 DEF WaitersParked
<1>3. QED
  BY <1>1, <1>2

\* What every step that releases the count lock has in common: task r, which
\* owns it, moves to a state outside the lock and the first waiter moves in.
LEMMA ReleaseCountEffect ==
    ASSUME TypeOK, WaitersParked,
           NEW r \in Readers, pc[r] \in OwnsCountLock \union {"unwinding"},
           NEW state \in ReaderStates
    PROVE  LET left == WakeCount([pc EXCEPT ![r] = state]) IN
           /\ PcTyped(left)
           /\ \A t \in Tasks :
                 left[t] = IF countWaiters # <<>> /\ t = Head(countWaiters)
                           THEN IF pc[t] = "waitCount" THEN "counting" ELSE "uncounting"
                           ELSE IF t = r THEN state ELSE pc[t]
           /\ countWaiters # <<>> =>
                 /\ Head(countWaiters) \in Readers \ {r}
                 /\ pc[Head(countWaiters)] \in {"waitCount", "waitUncount"}
                 /\ Head(countWaiters) # NoTask
<1> DEFINE p == [pc EXCEPT ![r] = state]
<1>2. PcTyped(p)
  BY TasksAssumption DEF TypeOK, PcTyped, Tasks
<1>3. \A i \in 1..Len(countWaiters) : countWaiters[i] \in Readers \ {r}
  BY DEF TypeOK, WaitersParked, Parked, OwnsCountLock
<1>4. \A i \in 1..Len(countWaiters) : p[countWaiters[i]] = pc[countWaiters[i]]
  BY <1>3 DEF TypeOK
<1>5. \A t \in Tasks : p[t] = IF t = r THEN state ELSE pc[t]
  BY DEF TypeOK
<1> HIDE DEF p
<1>6. /\ PcTyped(WakeCount(p))
      /\ \A t \in Tasks :
            WakeCount(p)[t] =
               IF countWaiters # <<>> /\ t = Head(countWaiters)
               THEN IF pc[t] = "waitCount" THEN "counting" ELSE "uncounting"
               ELSE p[t]
      /\ countWaiters # <<>> =>
            /\ Head(countWaiters) \in Readers
            /\ pc[Head(countWaiters)] \in {"waitCount", "waitUncount"}
  BY <1>2, <1>4, WakeCountEffect
<1>7. QED
  BY <1>5, <1>6, TasksAssumption DEF p, OwnsCountLock

\* The lock's bookkeeping after such a step, when no other task moves.
LEMMA ReleaseCountBookkeeping ==
    ASSUME IInv, NEW r \in Readers, pc[r] \in OwnsCountLock,
           NEW state \in {"idle", "reading"},
           ReleaseCountLock,
           pc' = WakeCount([pc EXCEPT ![r] = state]),
           pc[r] # "waitPermit",
           permitWaiters' = permitWaiters, permits' \in Nat, readCount' \in Nat,
           cancelled' = cancelled
    PROVE  /\ TypeOK'
           /\ CountLockOwned'
           /\ WaitersParked'
<1>0. TypeOK /\ CountLockOwned /\ WaitersParked
  BY DEF IInv
<1>1. /\ PcTyped(pc')
      /\ \A t \in Tasks :
            pc'[t] = IF countWaiters # <<>> /\ t = Head(countWaiters)
                     THEN IF pc[t] = "waitCount" THEN "counting" ELSE "uncounting"
                     ELSE IF t = r THEN state ELSE pc[t]
      /\ countWaiters # <<>> =>
            /\ Head(countWaiters) \in Readers \ {r}
            /\ pc[Head(countWaiters)] \in {"waitCount", "waitUncount"}
            /\ Head(countWaiters) # NoTask
  <2>1. state \in ReaderStates /\ state \notin OwnsCountLock
    BY DEF ReaderStates, OwnsCountLock
  <2>2. QED
    BY <2>1, ReleaseCountEffect DEF IInv
<1>2. countWaiters' \in Seq(Readers) /\ countOwner' \in Readers \union {NoTask}
  <2>1. CASE countWaiters = <<>>
    <3>1. countOwner' = NoTask /\ countWaiters' = countWaiters
      BY <2>1 DEF ReleaseCountLock
    <3>2. QED
      BY <1>0, <3>1 DEF TypeOK
  <2>2. CASE countWaiters # <<>>
    <3>1. countWaiters \in Seq(Readers)
      BY <1>0 DEF TypeOK
    <3>2. Tail(countWaiters) \in Seq(Readers)
      BY <2>2, <3>1, QueueTail
    <3>3. QED
      BY <1>1, <2>2, <3>2 DEF ReleaseCountLock
  <2>3. QED
    BY <2>1, <2>2
<1>3. TypeOK'
  BY <1>0, <1>1, <1>2 DEF TypeOK, PcTyped
<1>4. countOwner = r /\ \A s \in Readers \ {r} : pc[s] \notin OwnsCountLock
  BY <1>0 DEF CountLockOwned
<1>5. CountLockOwned'
  <2> SUFFICES ASSUME NEW s \in Readers
               PROVE  /\ countOwner' = s <=> pc'[s] \in OwnsCountLock
                      /\ pc'[s] \notin {"unwinding", "gone"}
    BY DEF CountLockOwned
  <2>0. s \in Tasks /\ s # NoTask /\ pc[s] \notin {"unwinding", "gone"}
    BY <1>0, TasksAssumption DEF Tasks, CountLockOwned
  <2>1. CASE countWaiters = <<>>
    BY <1>1, <1>4, <2>0, <2>1 DEF ReleaseCountLock, OwnsCountLock
  <2>2. CASE countWaiters # <<>>
    BY <1>1, <1>4, <2>0, <2>2 DEF ReleaseCountLock, OwnsCountLock
  <2>3. QED
    BY <2>1, <2>2
<1>6. Parked(countWaiters, {"waitCount", "waitUncount"})'
  <2>1. CASE countWaiters = <<>>
    BY <2>1 DEF ReleaseCountLock, Parked
  <2>2. CASE countWaiters # <<>>
    <3>1. /\ Parked(Tail(countWaiters), {"waitCount", "waitUncount"})
          /\ \A i \in 1..Len(Tail(countWaiters)) : Tail(countWaiters)[i] # Head(countWaiters)
      BY <1>0, <2>2, ParkedTail DEF TypeOK, WaitersParked, Parked
    <3>2. \A i \in 1..Len(Tail(countWaiters)) : Tail(countWaiters)[i] \in Tasks
      BY <1>0, <2>2, QueueTail DEF TypeOK, Tasks
    <3>3. \A i \in 1..Len(Tail(countWaiters)) : Tail(countWaiters)[i] # r
      BY <3>1 DEF Parked, OwnsCountLock
    <3>4. countWaiters' = Tail(countWaiters)
      BY <2>2 DEF ReleaseCountLock
    <3>5. \A i \in 1..Len(Tail(countWaiters)) :
             pc'[Tail(countWaiters)[i]] = pc[Tail(countWaiters)[i]]
      BY <1>1, <3>1, <3>2, <3>3
    <3>6. QED
      BY <3>1, <3>4, <3>5 DEF Parked
  <2>3. QED
    BY <2>1, <2>2
<1>7. Parked(permitWaiters, {"waitPermit", "waitWrite"})'
  <2>1. \A i \in 1..Len(permitWaiters) :
           /\ permitWaiters[i] \in Tasks
           /\ permitWaiters[i] # r
           /\ countWaiters # <<>> => permitWaiters[i] # Head(countWaiters)
    BY <1>0, <1>1 DEF TypeOK, WaitersParked, Parked, OwnsCountLock, ReaderStates
  <2>2. QED
    BY <1>0, <1>1, <2>1 DEF WaitersParked, Parked
<1>8. QED
  BY <1>3, <1>5, <1>6, <1>7 DEF WaitersParked

\* _read_count += 1, and the first reader goes for the permit.
LEMMA CountIInv ==
    ASSUME IInv, NEW r \in Readers, Count(r)
    PROVE  IInv'
<1>0. /\ TypeOK /\ CountLockOwned /\ WaitersParked /\ FetcherAlone
      /\ CountMatchesReaders /\ PermitConserved /\ cancelled = {}
  BY DEF IInv
<1>1. /\ pc[r] = "counting" /\ readCount' = readCount + 1 /\ cancelled' = cancelled
      /\ r \in Tasks /\ r \notin Writers /\ r \notin Counted /\ readCount \in Nat
  BY <1>0, TasksAssumption DEF Count, Tasks, Counted, TypeOK
<1>2. \A s \in Readers \ {r} : pc[s] \notin OwnsCountLock
  BY <1>0, <1>1 DEF CountLockOwned, OwnsCountLock
<1>3. /\ Cardinality(Counted \union {r}) = readCount + 1
      /\ readCount = 0 <=> Counted = {}
  BY <1>0, <1>1, CountedFinite DEF CountMatchesReaders
<1>4. \A s \in Readers : pc[s] # "waitPermit" /\ pc[s] # "gotPermit"
  BY <1>1, <1>2 DEF OwnsCountLock
<1>5. CASE readCount' # 1
  <2>1. /\ pc' = WakeCount([pc EXCEPT ![r] = "reading"])
        /\ ReleaseCountLock
        /\ UNCHANGED <<permits, permitWaiters>>
    BY <1>5 DEF Count
  <2>2. TypeOK' /\ CountLockOwned' /\ WaitersParked'
    <3>1. pc[r] \in OwnsCountLock /\ pc[r] # "waitPermit" /\ permits' \in Nat /\ readCount' \in Nat
      BY <1>0, <1>1, <2>1 DEF OwnsCountLock, TypeOK
    <3>2. QED
      BY <1>1, <2>1, <3>1, ReleaseCountBookkeeping
  <2>3. \A t \in Tasks :
           pc'[t] = IF countWaiters # <<>> /\ t = Head(countWaiters)
                    THEN IF pc[t] = "waitCount" THEN "counting" ELSE "uncounting"
                    ELSE IF t = r THEN "reading" ELSE pc[t]
    <3>1. pc[r] \in OwnsCountLock /\ "reading" \in ReaderStates /\ "reading" \notin OwnsCountLock
      BY <1>1 DEF OwnsCountLock, ReaderStates
    <3>2. QED
      BY <2>1, <3>1, ReleaseCountEffect DEF IInv
  <2>4. countWaiters # <<>> =>
           /\ Head(countWaiters) \in Readers \ {r}
           /\ pc[Head(countWaiters)] \in {"waitCount", "waitUncount"}
    <3>1. pc[r] \in OwnsCountLock /\ "reading" \in ReaderStates /\ "reading" \notin OwnsCountLock
      BY <1>1 DEF OwnsCountLock, ReaderStates
    <3>2. QED
      BY <3>1, ReleaseCountEffect DEF IInv
  <2>5. Counted' = Counted \union {r}
    BY <1>1, <2>3, <2>4 DEF Counted, Tasks
  <2>6. CountMatchesReaders'
    BY <1>1, <1>3, <2>5 DEF CountMatchesReaders
  <2>7. \A s \in Readers : pc'[s] # "waitPermit" /\ pc'[s] # "gotPermit"
    BY <1>4, <2>3 DEF Tasks
  <2>8. FetcherAlone'
    BY <2>7 DEF FetcherAlone
  <2>9. PermitHolders' = PermitHolders
    BY <2>3, <2>4, TasksAssumption DEF PermitHolders, Tasks
  <2>10. ReadersHoldPermit /\ ReadersHoldPermit'
    BY <1>1, <1>4, <1>5, <2>7 DEF ReadersHoldPermit
  <2>11. PermitConserved'
    BY <1>0, <2>1, <2>9, <2>10 DEF PermitConserved
  <2>12. QED
    BY <1>0, <1>1, <2>2, <2>6, <2>8, <2>11 DEF IInv
<1>6. CASE readCount' = 1
  <2>0. readCount = 0 /\ Counted = {} /\ ~ReadersHoldPermit
    BY <1>1, <1>3, <1>6 DEF ReadersHoldPermit
  <2>1. CASE permits > 0
    <3>1. /\ permits' = permits - 1
          /\ pc' = [pc EXCEPT ![r] = "gotPermit"]
          /\ UNCHANGED <<countOwner, countWaiters, permitWaiters>>
      BY <1>0, <1>6, <2>1 DEF Count, TypeOK
    <3>2. permits = 1 /\ permits' = 0 /\ PermitHolders = {}
      BY <1>0, <2>1, <3>1 DEF PermitConserved, TypeOK
    <3>3. TypeOK'
      BY <1>0, <1>1, <3>1, <3>2 DEF TypeOK, ReaderStates
    <3>4. CountLockOwned'
      BY <1>0, <1>1, <3>1 DEF TypeOK, CountLockOwned, OwnsCountLock, Tasks
    <3>5. WaitersParked'
      BY <1>0, <1>1, <3>1 DEF TypeOK, WaitersParked, Parked
    <3>6. Counted' = {r}
      BY <1>0, <1>1, <2>0, <3>1 DEF TypeOK, Counted
    <3>7. CountMatchesReaders'
      BY <1>1, <1>3, <2>0, <3>6 DEF CountMatchesReaders
    <3>8. FetcherAlone' /\ ReadersHoldPermit'
      BY <1>0, <1>1, <1>4, <1>6, <3>1, <3>6 DEF TypeOK, FetcherAlone, ReadersHoldPermit, Tasks
    <3>9. PermitHolders' = {}
      BY <1>0, <1>1, <3>1, <3>2 DEF TypeOK, PermitHolders, Tasks
    <3>10. PermitConserved'
      BY <3>2, <3>8, <3>9 DEF PermitConserved
    <3>11. QED
      BY <1>0, <1>1, <3>3, <3>4, <3>5, <3>7, <3>8, <3>10 DEF IInv
  <2>2. CASE ~(permits > 0)
    <3>0. permits = 0
      BY <1>0, <2>2 DEF PermitConserved
    <3>1. /\ permitWaiters' = Append(permitWaiters, r)
          /\ pc' = [pc EXCEPT ![r] = "waitPermit"]
          /\ UNCHANGED <<countOwner, countWaiters, permits>>
      BY <1>0, <1>6, <3>0 DEF Count, TypeOK
    <3>q. /\ permitWaiters' \in Seq(Tasks)
          /\ Len(permitWaiters') = Len(permitWaiters) + 1
          /\ \A i \in 1..Len(permitWaiters) :
                permitWaiters'[i] = permitWaiters[i] /\ permitWaiters[i] # r
          /\ permitWaiters'[Len(permitWaiters) + 1] = r
      <4>1. permitWaiters \in Seq(Tasks) /\ Parked(permitWaiters, {"waitPermit", "waitWrite"})
        BY <1>0 DEF TypeOK, WaitersParked
      <4>2. pc[r] \notin {"waitPermit", "waitWrite"}
        BY <1>1
      <4>3. /\ Append(permitWaiters, r) \in Seq(Tasks)
            /\ Len(Append(permitWaiters, r)) = Len(permitWaiters) + 1
            /\ \A i \in 1..Len(permitWaiters) :
                  Append(permitWaiters, r)[i] = permitWaiters[i] /\ permitWaiters[i] # r
            /\ Append(permitWaiters, r)[Len(permitWaiters) + 1] = r
        BY <1>1, <4>1, <4>2, ParkedAppend DEF Parked
      <4>4. QED
        BY <3>1, <4>3
    <3>3. TypeOK'
      BY <1>0, <1>1, <3>1, <3>q DEF TypeOK, ReaderStates
    <3>4. CountLockOwned'
      BY <1>0, <1>1, <3>1 DEF TypeOK, CountLockOwned, OwnsCountLock, Tasks
    <3>5. Parked(countWaiters, {"waitCount", "waitUncount"})'
      BY <1>0, <1>1, <3>1 DEF TypeOK, WaitersParked, Parked
    <3>5a. Parked(permitWaiters, {"waitPermit", "waitWrite"})'
      BY <1>0, <1>1, <3>1, <3>q DEF TypeOK, WaitersParked, Parked
    <3>6. Counted' = {r}
      BY <1>0, <1>1, <2>0, <3>1 DEF TypeOK, Counted
    <3>7. CountMatchesReaders'
      BY <1>1, <1>3, <2>0, <3>6 DEF CountMatchesReaders
    <3>8. FetcherAlone' /\ ~ReadersHoldPermit'
      BY <1>0, <1>1, <1>4, <3>1, <3>6 DEF TypeOK, FetcherAlone, ReadersHoldPermit, Tasks
    <3>9. PermitHolders' = PermitHolders
      BY <1>0, <1>1, <3>1 DEF TypeOK, PermitHolders, Tasks
    <3>10. PermitConserved'
      BY <1>0, <2>0, <3>1, <3>8, <3>9 DEF PermitConserved
    <3>11. QED
      BY <1>0, <1>1, <3>3, <3>4, <3>5, <3>5a, <3>7, <3>8, <3>10 DEF IInv, WaitersParked
  <2>3. QED
    BY <2>1, <2>2
<1>7. QED
  BY <1>5, <1>6

\* The first reader, permit in hand, lets the other readers in.
LEMMA EnterReadIInv ==
    ASSUME IInv, NEW r \in Readers, EnterRead(r)
    PROVE  IInv'
<1>0. /\ TypeOK /\ CountLockOwned /\ WaitersParked /\ FetcherAlone
      /\ CountMatchesReaders /\ PermitConserved /\ cancelled = {}
  BY DEF IInv
<1>1. /\ pc[r] = "gotPermit" /\ r \in Tasks /\ r \notin Writers
      /\ pc' = WakeCount([pc EXCEPT ![r] = "reading"])
      /\ ReleaseCountLock
      /\ UNCHANGED <<readCount, permits, permitWaiters, cancelled>>
  BY TasksAssumption DEF EnterRead, Tasks
<1>2. pc[r] \in OwnsCountLock /\ "reading" \in ReaderStates /\ "reading" \notin OwnsCountLock
  BY <1>1 DEF OwnsCountLock, ReaderStates
<1>3. TypeOK' /\ CountLockOwned' /\ WaitersParked'
  <2>1. pc[r] # "waitPermit" /\ permits' \in Nat /\ readCount' \in Nat
    BY <1>0, <1>1 DEF TypeOK
  <2>2. QED
    BY <1>1, <1>2, <2>1, ReleaseCountBookkeeping
<1>4. /\ \A t \in Tasks :
            pc'[t] = IF countWaiters # <<>> /\ t = Head(countWaiters)
                     THEN IF pc[t] = "waitCount" THEN "counting" ELSE "uncounting"
                     ELSE IF t = r THEN "reading" ELSE pc[t]
      /\ countWaiters # <<>> =>
            /\ Head(countWaiters) \in Readers \ {r}
            /\ pc[Head(countWaiters)] \in {"waitCount", "waitUncount"}
  BY <1>1, <1>2, ReleaseCountEffect DEF IInv
<1>5. Counted' = Counted
  BY <1>1, <1>4 DEF Counted, Tasks
<1>6. \A s \in Readers : pc'[s] # "waitPermit" /\ pc'[s] # "gotPermit"
  BY <1>0, <1>1, <1>4 DEF Tasks, CountLockOwned, OwnsCountLock
<1>7. FetcherAlone' /\ CountMatchesReaders'
  BY <1>0, <1>1, <1>5, <1>6 DEF FetcherAlone, CountMatchesReaders
<1>8. PermitHolders' = PermitHolders
  BY <1>1, <1>4, TasksAssumption DEF PermitHolders, Tasks
<1>9. ReadersHoldPermit' <=> ReadersHoldPermit
  BY <1>0, <1>1, <1>6 DEF ReadersHoldPermit, CountLockOwned, OwnsCountLock
<1>10. PermitConserved'
  BY <1>0, <1>1, <1>8, <1>9 DEF PermitConserved
<1>11. QED
  BY <1>0, <1>1, <1>3, <1>7, <1>10 DEF IInv

\* The finally block of read_lock() asks for the count lock.
LEMMA EndReadIInv ==
    ASSUME IInv, NEW r \in Readers, EndRead(r)
    PROVE  IInv'
<1>0. /\ TypeOK /\ CountLockOwned /\ WaitersParked /\ FetcherAlone
      /\ CountMatchesReaders /\ PermitConserved /\ cancelled = {}
  BY DEF IInv
<1>1. /\ pc[r] = "reading" /\ r \in Tasks /\ r # NoTask /\ r \notin Writers
      /\ AcquireCountLock(r, "uncounting", "waitUncount")
      /\ UNCHANGED <<readCount, permits, permitWaiters, cancelled>>
  BY <1>0, TasksAssumption DEF EndRead, Tasks
<1>2. PICK state \in {"uncounting", "waitUncount"} : pc' = [pc EXCEPT ![r] = state]
  BY <1>1 DEF AcquireCountLock
<1>3. \A t \in Tasks : pc'[t] = IF t = r THEN state ELSE pc[t]
  BY <1>0, <1>2 DEF TypeOK
<1>4. Counted' = Counted
  BY <1>1, <1>3 DEF Counted, Tasks
<1>5. FetcherAlone' /\ CountMatchesReaders'
  BY <1>0, <1>1, <1>3, <1>4 DEF FetcherAlone, CountMatchesReaders, Tasks
<1>6. PermitHolders' = PermitHolders /\ (ReadersHoldPermit' <=> ReadersHoldPermit)
  BY <1>1, <1>3 DEF PermitHolders, ReadersHoldPermit, Tasks
<1>7. PermitConserved'
  BY <1>0, <1>1, <1>6 DEF PermitConserved
<1>8. Parked(permitWaiters, {"waitPermit", "waitWrite"})'
  BY <1>0, <1>1, <1>3 DEF TypeOK, WaitersParked, Parked
<1>9. CASE countOwner = NoTask
  <2>1. state = "uncounting" /\ countOwner' = r /\ countWaiters' = countWaiters
    BY <1>0, <1>1, <1>2, <1>9 DEF AcquireCountLock, TypeOK
  <2>2. TypeOK'
    BY <1>0, <1>1, <1>2, <2>1 DEF TypeOK, ReaderStates
  <2>3. CountLockOwned'
    BY <1>0, <1>1, <1>3, <1>9, <2>1, TasksAssumption DEF CountLockOwned, OwnsCountLock, Tasks
  <2>4. Parked(countWaiters, {"waitCount", "waitUncount"})'
    BY <1>0, <1>1, <1>3, <2>1 DEF TypeOK, WaitersParked, Parked, Tasks
  <2>5. QED
    BY <1>0, <1>1, <1>5, <1>7, <1>8, <2>2, <2>3, <2>4 DEF IInv, WaitersParked
<1>10. CASE countOwner # NoTask
  <2>1. state = "waitUncount" /\ countWaiters' = Append(countWaiters, r) /\ countOwner' = countOwner
    BY <1>0, <1>1, <1>2, <1>10 DEF AcquireCountLock, TypeOK
  <2>2. /\ countWaiters' \in Seq(Readers)
        /\ Len(countWaiters') = Len(countWaiters) + 1
        /\ \A i \in 1..Len(countWaiters) : countWaiters'[i] = countWaiters[i] /\ countWaiters[i] # r
        /\ countWaiters'[Len(countWaiters) + 1] = r
    <3>1. countWaiters \in Seq(Readers) /\ Parked(countWaiters, {"waitCount", "waitUncount"})
      BY <1>0 DEF TypeOK, WaitersParked
    <3>2. pc[r] \notin {"waitCount", "waitUncount"}
      BY <1>1
    <3>3. /\ Append(countWaiters, r) \in Seq(Readers)
          /\ Len(Append(countWaiters, r)) = Len(countWaiters) + 1
          /\ \A i \in 1..Len(countWaiters) :
                Append(countWaiters, r)[i] = countWaiters[i] /\ countWaiters[i] # r
          /\ Append(countWaiters, r)[Len(countWaiters) + 1] = r
      BY <3>1, <3>2, ParkedAppend DEF Parked
    <3>4. QED
      BY <2>1, <3>3
  <2>3. TypeOK'
    BY <1>0, <1>1, <1>2, <2>1, <2>2 DEF TypeOK, ReaderStates
  <2>4. CountLockOwned'
    BY <1>0, <1>1, <1>3, <2>1 DEF CountLockOwned, OwnsCountLock, Tasks
  <2>5. Parked(countWaiters, {"waitCount", "waitUncount"})'
    BY <1>0, <1>1, <1>3, <2>1, <2>2 DEF TypeOK, WaitersParked, Parked, Tasks
  <2>6. QED
    BY <1>0, <1>1, <1>5, <1>7, <1>8, <2>3, <2>4, <2>5 DEF IInv, WaitersParked
<1>11. QED
  BY <1>9, <1>10

\* Where a release of the permit leaves the queue of the permit and the tasks,
\* p being what the releasing task has done to the program counters so far.
LEMMA ReleasePermitEffect ==
    ASSUME TypeOK, WaitersParked, NEW p, PcTyped(p),
           \A i \in 1..Len(permitWaiters) : p[permitWaiters[i]] = pc[permitWaiters[i]],
           ReleasePermit, pc' = WakePermit(p)
    PROVE  /\ PcTyped(pc')
           /\ permitWaiters' \in Seq(Tasks)
           /\ permits' \in Nat
           /\ Parked(permitWaiters, {"waitPermit", "waitWrite"})'
           /\ permitWaiters = <<>> =>
                 permits' = permits + 1 /\ \A t \in Tasks : pc'[t] = p[t]
           /\ permitWaiters # <<>> =>
                 LET h == Head(permitWaiters) IN
                 /\ permits' = permits
                 /\ h \in Tasks
                 /\ p[h] = pc[h]
                 /\ \/ h \in Writers /\ pc[h] = "waitWrite" /\ pc'[h] = "gotWrite"
                    \/ h \in Readers /\ pc[h] = "waitPermit" /\ pc'[h] = "gotPermit"
                 /\ \A t \in Tasks \ {h} : pc'[t] = p[t]
<1>0. TypeOK /\ WaitersParked /\ permitWaiters \in Seq(Tasks) /\ permits \in Nat
  BY DEF TypeOK
<1>1. /\ PcTyped(WakePermit(p))
      /\ \A t \in Tasks :
            WakePermit(p)[t] =
               IF permitWaiters # <<>> /\ t = Head(permitWaiters)
               THEN IF pc[t] = "waitWrite" THEN "gotWrite" ELSE "gotPermit"
               ELSE p[t]
      /\ permitWaiters # <<>> =>
            /\ Head(permitWaiters) \in Tasks
            /\ pc[Head(permitWaiters)] \in {"waitPermit", "waitWrite"}
            /\ pc[Head(permitWaiters)] = "waitWrite" <=> Head(permitWaiters) \in Writers
            /\ pc[Head(permitWaiters)] = "waitPermit" <=> Head(permitWaiters) \in Readers
  BY <1>0, WakePermitEffect
<1>2. CASE permitWaiters = <<>>
  BY <1>0, <1>1, <1>2 DEF ReleasePermit, Parked
<1>3. CASE permitWaiters # <<>>
  <2>1. permitWaiters' = Tail(permitWaiters) /\ permits' = permits
    BY <1>3 DEF ReleasePermit
  <2>2. Tail(permitWaiters) \in Seq(Tasks)
    BY <1>0, <1>3, QueueTail
  <2>3. /\ Parked(Tail(permitWaiters), {"waitPermit", "waitWrite"})
        /\ \A i \in 1..Len(Tail(permitWaiters)) : Tail(permitWaiters)[i] # Head(permitWaiters)
    BY <1>0, <1>3, ParkedTail DEF WaitersParked, Parked
  <2>4. \A i \in 1..Len(Tail(permitWaiters)) :
           /\ Tail(permitWaiters)[i] \in Tasks
           /\ p[Tail(permitWaiters)[i]] = pc[Tail(permitWaiters)[i]]
    <3>1. \A i \in 1..Len(Tail(permitWaiters)) :
             i + 1 \in 1..Len(permitWaiters) /\ Tail(permitWaiters)[i] = permitWaiters[i + 1]
      BY <1>0, <1>3, QueueTail
    <3>2. QED
      BY <1>0, <3>1
  <2>5. Parked(permitWaiters, {"waitPermit", "waitWrite"})'
    BY <1>1, <2>1, <2>3, <2>4 DEF Parked
  <2>6. p[Head(permitWaiters)] = pc[Head(permitWaiters)]
    <3>1. Head(permitWaiters) = permitWaiters[1] /\ 1 \in 1..Len(permitWaiters)
      BY <1>0, <1>3, QueueTail
    <3>2. QED
      BY <3>1
  <2>7. QED
    BY <1>0, <1>1, <1>3, <2>1, <2>2, <2>5, <2>6
<1>4. QED
  BY <1>2, <1>3

\* _read_count -= 1, and the last reader gives the permit back.
LEMMA UncountIInv ==
    ASSUME IInv, NEW r \in Readers, Uncount(r)
    PROVE  IInv'
<1>0. /\ TypeOK /\ CountLockOwned /\ WaitersParked /\ FetcherAlone
      /\ CountMatchesReaders /\ PermitConserved /\ cancelled = {}
  BY DEF IInv
<1> DEFINE left == WakeCount([pc EXCEPT ![r] = "idle"])
<1>1. /\ pc[r] = "uncounting" /\ r \in Tasks /\ r \notin Writers /\ r \in Counted
      /\ readCount' = readCount - 1 /\ readCount \in Nat
      /\ ReleaseCountLock
      /\ cancelled' = cancelled
      /\ \/ readCount' = 0 /\ ReleasePermit /\ pc' = WakePermit(left)
         \/ readCount' # 0 /\ pc' = left /\ UNCHANGED <<permits, permitWaiters>>
  <2>1. Finished(r) = "idle"
    BY <1>0 DEF Finished
  <2>2. pc[r] = "uncounting" /\ r \in Tasks /\ r \notin Writers /\ r \in Counted
        /\ readCount \in Nat
    BY <1>0, TasksAssumption DEF Uncount, Tasks, Counted, TypeOK
  <2>3. QED
    BY <2>1, <2>2 DEF Uncount
<1>2. pc[r] \in OwnsCountLock /\ "idle" \in ReaderStates /\ "idle" \notin OwnsCountLock
  BY <1>1 DEF OwnsCountLock, ReaderStates
<1>3. /\ PcTyped(left)
      /\ \A t \in Tasks :
            left[t] = IF countWaiters # <<>> /\ t = Head(countWaiters)
                      THEN IF pc[t] = "waitCount" THEN "counting" ELSE "uncounting"
                      ELSE IF t = r THEN "idle" ELSE pc[t]
      /\ countWaiters # <<>> =>
            /\ Head(countWaiters) \in Readers \ {r}
            /\ pc[Head(countWaiters)] \in {"waitCount", "waitUncount"}
            /\ Head(countWaiters) # NoTask
  BY <1>2, ReleaseCountEffect DEF IInv
<1> HIDE DEF left
<1>4. \A s \in Readers : pc[s] # "waitPermit" /\ pc[s] # "gotPermit"
  BY <1>0, <1>1 DEF CountLockOwned, OwnsCountLock
<1>5. /\ Cardinality(Counted \ {r}) = readCount - 1
      /\ readCount > 0
  <2>1. readCount = Cardinality(Counted) /\ Counted # {}
    BY <1>0, <1>1 DEF CountMatchesReaders
  <2>2. /\ Cardinality(Counted) \in Nat
        /\ Cardinality(Counted) = 0 <=> Counted = {}
        /\ Cardinality(Counted \ {r}) =
              IF r \in Counted THEN Cardinality(Counted) - 1 ELSE Cardinality(Counted)
    BY CountedFinite
  <2>3. QED
    BY <1>1, <2>1, <2>2
<1>6. ReadersHoldPermit /\ PermitHolders = {} /\ permits = 0
  BY <1>0, <1>4, <1>5 DEF ReadersHoldPermit, PermitConserved
<1>7. CASE readCount' # 0
  <2>1. pc' = left /\ UNCHANGED <<permits, permitWaiters>>
    BY <1>1, <1>7
  <2>2. TypeOK' /\ CountLockOwned' /\ WaitersParked'
    <3>1. pc[r] # "waitPermit" /\ permits' \in Nat /\ readCount' \in Nat
      BY <1>1, <1>5, <1>6, <2>1
    <3>2. QED
      BY <1>1, <1>2, <2>1, <3>1, ReleaseCountBookkeeping DEF left
  <2>3. Counted' = Counted \ {r}
    BY <1>1, <1>3, <2>1 DEF Counted, Tasks
  <2>4. \A s \in Readers : pc'[s] # "waitPermit" /\ pc'[s] # "gotPermit"
    BY <1>3, <1>4, <2>1 DEF Tasks
  <2>5. FetcherAlone' /\ CountMatchesReaders'
    BY <1>1, <1>5, <2>3, <2>4 DEF FetcherAlone, CountMatchesReaders
  <2>6. PermitHolders' = {}
    BY <1>3, <1>6, <2>1, TasksAssumption DEF PermitHolders, Tasks
  <2>7. ReadersHoldPermit'
    BY <1>1, <1>5, <1>7, <2>4 DEF ReadersHoldPermit
  <2>8. PermitConserved'
    BY <1>6, <2>1, <2>6, <2>7 DEF PermitConserved
  <2>9. QED
    BY <1>0, <1>1, <2>2, <2>5, <2>8 DEF IInv
<1>8. CASE readCount' = 0
  <2>1. ReleasePermit /\ pc' = WakePermit(left)
    BY <1>1, <1>8
  <2>2. \A i \in 1..Len(permitWaiters) : left[permitWaiters[i]] = pc[permitWaiters[i]]
    BY <1>0, <1>1, <1>3 DEF TypeOK, WaitersParked, Parked
  <2>3. /\ PcTyped(pc')
        /\ permitWaiters' \in Seq(Tasks)
        /\ permits' \in Nat
        /\ Parked(permitWaiters, {"waitPermit", "waitWrite"})'
        /\ permitWaiters = <<>> =>
              permits' = permits + 1 /\ \A t \in Tasks : pc'[t] = left[t]
        /\ permitWaiters # <<>> =>
              LET h == Head(permitWaiters) IN
              /\ permits' = permits
              /\ h \in Tasks
              /\ left[h] = pc[h]
              /\ \/ h \in Writers /\ pc[h] = "waitWrite" /\ pc'[h] = "gotWrite"
                 \/ h \in Readers /\ pc[h] = "waitPermit" /\ pc'[h] = "gotPermit"
              /\ \A t \in Tasks \ {h} : pc'[t] = left[t]
    BY <1>3, <2>1, <2>2, ReleasePermitEffect DEF IInv
  <2>4. permitWaiters # <<>> =>
           /\ Head(permitWaiters) \in Writers
           /\ pc'[Head(permitWaiters)] = "gotWrite"
    BY <1>4, <2>3
  <2>5. \A s \in Readers : pc'[s] = left[s]
    BY <2>3, <2>4, TasksAssumption DEF Tasks
  <2>6. countWaiters' \in Seq(Readers) /\ countOwner' \in Readers \union {NoTask}
    <3>1. countWaiters \in Seq(Readers)
      BY <1>0 DEF TypeOK
    <3>2. countWaiters # <<>> => Tail(countWaiters) \in Seq(Readers)
      BY <3>1, QueueTail
    <3>3. QED
      BY <1>1, <1>3, <3>1, <3>2 DEF ReleaseCountLock
  <2>7. TypeOK'
    BY <1>0, <1>1, <1>8, <2>3, <2>6 DEF TypeOK, PcTyped
  <2>8. CountLockOwned'
    <3> SUFFICES ASSUME NEW s \in Readers
                 PROVE  /\ countOwner' = s <=> pc'[s] \in OwnsCountLock
                        /\ pc'[s] \notin {"unwinding", "gone"}
      BY DEF CountLockOwned
    <3>1. /\ s \in Tasks /\ s # NoTask /\ pc[s] \notin {"unwinding", "gone"}
          /\ countOwner = r /\ (s # r => pc[s] \notin OwnsCountLock)
      BY <1>0, <1>2, TasksAssumption DEF Tasks, CountLockOwned
    <3>2. pc'[s] = IF countWaiters # <<>> /\ s = Head(countWaiters)
                   THEN IF pc[s] = "waitCount" THEN "counting" ELSE "uncounting"
                   ELSE IF s = r THEN "idle" ELSE pc[s]
      BY <1>3, <2>5, <3>1
    <3>3. CASE countWaiters = <<>>
      BY <1>1, <3>1, <3>2, <3>3 DEF ReleaseCountLock, OwnsCountLock
    <3>4. CASE countWaiters # <<>>
      BY <1>1, <1>3, <3>1, <3>2, <3>4 DEF ReleaseCountLock, OwnsCountLock
    <3>5. QED
      BY <3>3, <3>4
  <2>9. Parked(countWaiters, {"waitCount", "waitUncount"})'
    <3>1. CASE countWaiters = <<>>
      BY <1>1, <3>1 DEF ReleaseCountLock, Parked
    <3>2. CASE countWaiters # <<>>
      <4>1. /\ Parked(Tail(countWaiters), {"waitCount", "waitUncount"})
            /\ \A i \in 1..Len(Tail(countWaiters)) : Tail(countWaiters)[i] # Head(countWaiters)
        BY <1>0, <3>2, ParkedTail DEF TypeOK, WaitersParked, Parked
      <4>2. \A i \in 1..Len(Tail(countWaiters)) : Tail(countWaiters)[i] \in Readers
        BY <1>0, <3>2, QueueTail DEF TypeOK
      <4>3. \A i \in 1..Len(Tail(countWaiters)) : Tail(countWaiters)[i] # r
        BY <1>1, <4>1 DEF Parked
      <4>4. countWaiters' = Tail(countWaiters)
        BY <1>1, <3>2 DEF ReleaseCountLock
      <4>5. \A i \in 1..Len(Tail(countWaiters)) :
               pc'[Tail(countWaiters)[i]] = pc[Tail(countWaiters)[i]]
        BY <1>3, <2>5, <4>1, <4>2, <4>3 DEF Tasks
      <4>6. QED
        BY <4>1, <4>4, <4>5 DEF Parked
    <3>3. QED
      BY <3>1, <3>2
  <2>10. Counted' = Counted \ {r}
    BY <1>1, <1>3, <2>5 DEF Counted, Tasks
  <2>11. \A s \in Readers : pc'[s] # "waitPermit" /\ pc'[s] # "gotPermit"
    BY <1>3, <1>4, <2>5 DEF Tasks
  <2>12. FetcherAlone' /\ CountMatchesReaders'
    BY <1>1, <1>5, <2>10, <2>11 DEF FetcherAlone, CountMatchesReaders
  <2>13. ~ReadersHoldPermit'
    BY <1>8 DEF ReadersHoldPermit
  <2>14. \A w \in Writers : left[w] = pc[w] /\ pc[w] \notin {"gotWrite", "writing"}
    BY <1>3, <1>1, <1>6, TasksAssumption DEF Tasks, PermitHolders
  <2>15. PermitConserved'
    <3>1. CASE permitWaiters = <<>>
      <4>1. PermitHolders' = {}
        BY <2>3, <2>14, <3>1 DEF PermitHolders, Tasks
      <4>2. QED
        BY <1>6, <2>3, <2>13, <3>1, <4>1 DEF PermitConserved
    <3>2. CASE permitWaiters # <<>>
      <4>1. PermitHolders' = {Head(permitWaiters)}
        BY <2>3, <2>4, <2>14, <3>2 DEF PermitHolders, Tasks
      <4>2. QED
        BY <1>6, <2>3, <2>13, <3>2, <4>1 DEF PermitConserved
    <3>3. QED
      BY <3>1, <3>2
  <2>16. QED
    BY <1>0, <1>1, <2>3, <2>7, <2>8, <2>9, <2>12, <2>15 DEF IInv, WaitersParked
<1>9. QED
  BY <1>7, <1>8

\* write_lock() takes the permit or queues for it.
LEMMA StartWriteIInv ==
    ASSUME IInv, NEW w \in Writers, StartWrite(w)
    PROVE  IInv'
<1>0. /\ TypeOK /\ CountLockOwned /\ WaitersParked /\ FetcherAlone
      /\ CountMatchesReaders /\ PermitConserved /\ cancelled = {}
  BY DEF IInv
<1>1. /\ pc[w] = "idle" /\ w \in Tasks /\ w \notin Readers
      /\ UNCHANGED <<readCount, countOwner, countWaiters, cancelled>>
  BY TasksAssumption DEF StartWrite, Tasks
<1>2. PICK state \in {"gotWrite", "waitWrite"} : pc' = [pc EXCEPT ![w] = state]
  BY DEF StartWrite
<1>3. \A t \in Tasks : pc'[t] = IF t = w THEN state ELSE pc[t]
  BY <1>0, <1>2 DEF TypeOK
<1>4. \A r \in Readers : pc'[r] = pc[r]
  BY <1>1, <1>3 DEF Tasks
<1>5. Counted' = Counted
  BY <1>4 DEF Counted
<1>6. CountLockOwned' /\ FetcherAlone' /\ CountMatchesReaders'
  BY <1>0, <1>1, <1>4, <1>5 DEF CountLockOwned, FetcherAlone, CountMatchesReaders
<1>7. Parked(countWaiters, {"waitCount", "waitUncount"})'
  BY <1>0, <1>1, <1>4 DEF TypeOK, WaitersParked, Parked
<1>8. ReadersHoldPermit' <=> ReadersHoldPermit
  BY <1>1, <1>4 DEF ReadersHoldPermit
<1>9. CASE permits > 0
  <2>1. /\ permits' = permits - 1 /\ permitWaiters' = permitWaiters /\ state = "gotWrite"
    BY <1>0, <1>1, <1>2, <1>9 DEF StartWrite, TypeOK
  <2>2. permits = 1 /\ permits' = 0 /\ PermitHolders = {} /\ ~ReadersHoldPermit
    BY <1>0, <1>9, <2>1 DEF PermitConserved
  <2>3. TypeOK'
    BY <1>0, <1>1, <1>2, <2>1, <2>2 DEF TypeOK, WriterStates
  <2>4. Parked(permitWaiters, {"waitPermit", "waitWrite"})'
    BY <1>0, <1>1, <1>3, <2>1 DEF TypeOK, WaitersParked, Parked
  <2>5. PermitHolders' = {w}
    BY <1>1, <1>3, <2>1, <2>2 DEF PermitHolders, Tasks
  <2>6. PermitConserved'
    BY <1>8, <2>2, <2>5 DEF PermitConserved
  <2>7. QED
    BY <1>0, <1>1, <1>6, <1>7, <2>3, <2>4, <2>6 DEF IInv, WaitersParked
<1>10. CASE ~(permits > 0)
  <2>1. /\ permits = 0 /\ permits' = permits /\ state = "waitWrite"
        /\ permitWaiters' = Append(permitWaiters, w)
    BY <1>0, <1>1, <1>2, <1>10 DEF StartWrite, TypeOK, PermitConserved
  <2>2. /\ permitWaiters' \in Seq(Tasks)
        /\ Len(permitWaiters') = Len(permitWaiters) + 1
        /\ \A i \in 1..Len(permitWaiters) :
              permitWaiters'[i] = permitWaiters[i] /\ permitWaiters[i] # w
        /\ permitWaiters'[Len(permitWaiters) + 1] = w
    <3>1. permitWaiters \in Seq(Tasks) /\ Parked(permitWaiters, {"waitPermit", "waitWrite"})
      BY <1>0 DEF TypeOK, WaitersParked
    <3>2. pc[w] \notin {"waitPermit", "waitWrite"}
      BY <1>1
    <3>3. /\ Append(permitWaiters, w) \in Seq(Tasks)
          /\ Len(Append(permitWaiters, w)) = Len(permitWaiters) + 1
          /\ \A i \in 1..Len(permitWaiters) :
                Append(permitWaiters, w)[i] = permitWaiters[i] /\ permitWaiters[i] # w
          /\ Append(permitWaiters, w)[Len(permitWaiters) + 1] = w
      BY <1>1, <3>1, <3>2, ParkedAppend DEF Parked
    <3>4. QED
      BY <2>1, <3>3
  <2>3. TypeOK'
    BY <1>0, <1>1, <1>2, <2>1, <2>2 DEF TypeOK, WriterStates
  <2>4. Parked(permitWaiters, {"waitPermit", "waitWrite"})'
    BY <1>0, <1>1, <1>3, <2>1, <2>2 DEF TypeOK, WaitersParked, Parked
  <2>5. PermitHolders' = PermitHolders
    BY <1>1, <1>3, <2>1 DEF PermitHolders, Tasks
  <2>6. PermitConserved'
    BY <1>0, <1>8, <2>1, <2>5 DEF PermitConserved
  <2>7. QED
    BY <1>0, <1>1, <1>6, <1>7, <2>3, <2>4, <2>6 DEF IInv, WaitersParked
<1>11. QED
  BY <1>9, <1>10

\* A writer that was given the permit enters its body.
LEMMA EnterWriteIInv ==
    ASSUME IInv, NEW w \in Writers, EnterWrite(w)
    PROVE  IInv'
<1>0. /\ TypeOK /\ CountLockOwned /\ WaitersParked /\ FetcherAlone
      /\ CountMatchesReaders /\ PermitConserved /\ cancelled = {}
  BY DEF IInv
<1>1. /\ pc[w] = "gotWrite" /\ w \in Tasks /\ w \notin Readers
      /\ pc' = [pc EXCEPT ![w] = "writing"]
      /\ UNCHANGED <<readCount, countOwner, countWaiters, permits, permitWaiters, cancelled>>
  BY TasksAssumption DEF EnterWrite, Tasks
<1>2. \A t \in Tasks : pc'[t] = IF t = w THEN "writing" ELSE pc[t]
  BY <1>0, <1>1 DEF TypeOK
<1>3. \A r \in Readers : pc'[r] = pc[r]
  BY <1>1, <1>2 DEF Tasks
<1>4. Counted' = Counted
  BY <1>3 DEF Counted
<1>5. CountLockOwned' /\ FetcherAlone' /\ CountMatchesReaders'
  BY <1>0, <1>1, <1>3, <1>4 DEF CountLockOwned, FetcherAlone, CountMatchesReaders
<1>6. WaitersParked'
  BY <1>0, <1>1, <1>2, <1>3 DEF TypeOK, WaitersParked, Parked
<1>7. PermitHolders' = PermitHolders /\ (ReadersHoldPermit' <=> ReadersHoldPermit)
  BY <1>1, <1>2, <1>3 DEF PermitHolders, ReadersHoldPermit, Tasks
<1>8. PermitConserved'
  BY <1>0, <1>1, <1>7 DEF PermitConserved
<1>9. TypeOK'
  BY <1>0, <1>1 DEF TypeOK, WriterStates
<1>10. QED
  BY <1>0, <1>1, <1>5, <1>6, <1>8, <1>9 DEF IInv

\* A writer gives the permit back, or straight to the first in the queue.
LEMMA EndWriteIInv ==
    ASSUME IInv, NEW w \in Writers, EndWrite(w)
    PROVE  IInv'
<1>0. /\ TypeOK /\ CountLockOwned /\ WaitersParked /\ FetcherAlone
      /\ CountMatchesReaders /\ PermitConserved /\ cancelled = {}
  BY DEF IInv
<1> DEFINE p == [pc EXCEPT ![w] = "idle"]
<1>1. /\ pc[w] = "writing" /\ w \in Tasks /\ w \notin Readers
      /\ ReleasePermit
      /\ UNCHANGED <<readCount, countOwner, countWaiters, cancelled>>
  BY TasksAssumption DEF EndWrite, Tasks
<1>2. pc' = WakePermit(p)
  BY <1>0 DEF EndWrite, Finished
<1>3. PcTyped(p) /\ \A t \in Tasks : p[t] = IF t = w THEN "idle" ELSE pc[t]
  BY <1>0, <1>1, TasksAssumption DEF TypeOK, PcTyped, WriterStates, Tasks
<1>4. \A i \in 1..Len(permitWaiters) : p[permitWaiters[i]] = pc[permitWaiters[i]]
  BY <1>0, <1>1, <1>3 DEF TypeOK, WaitersParked, Parked
<1> HIDE DEF p
<1>5. /\ PcTyped(pc')
      /\ permitWaiters' \in Seq(Tasks)
      /\ permits' \in Nat
      /\ Parked(permitWaiters, {"waitPermit", "waitWrite"})'
      /\ permitWaiters = <<>> =>
            permits' = permits + 1 /\ \A t \in Tasks : pc'[t] = p[t]
      /\ permitWaiters # <<>> =>
            LET h == Head(permitWaiters) IN
            /\ permits' = permits
            /\ h \in Tasks
            /\ p[h] = pc[h]
            /\ \/ h \in Writers /\ pc[h] = "waitWrite" /\ pc'[h] = "gotWrite"
               \/ h \in Readers /\ pc[h] = "waitPermit" /\ pc'[h] = "gotPermit"
            /\ \A t \in Tasks \ {h} : pc'[t] = p[t]
  BY <1>1, <1>2, <1>3, <1>4, ReleasePermitEffect DEF IInv
<1>6. PermitHolders = {w} /\ permits = 0 /\ ~ReadersHoldPermit
  BY <1>0, <1>1 DEF PermitConserved, PermitHolders
<1>7. TypeOK'
  BY <1>0, <1>1, <1>5 DEF TypeOK, PcTyped
<1>8. \A r \in Readers : \/ pc'[r] = pc[r]
                        \/ /\ pc[r] = "waitPermit" /\ pc'[r] = "gotPermit"
                           /\ permitWaiters # <<>> /\ r = Head(permitWaiters)
  <2>1. ASSUME NEW r \in Readers
        PROVE  \/ pc'[r] = pc[r]
               \/ /\ pc[r] = "waitPermit" /\ pc'[r] = "gotPermit"
                  /\ permitWaiters # <<>> /\ r = Head(permitWaiters)
    <3>1. r \in Tasks /\ r # w /\ p[r] = pc[r]
      BY <1>1, <1>3, <2>1 DEF Tasks
    <3>2. CASE permitWaiters = <<>>
      BY <1>5, <3>1, <3>2
    <3>3. CASE permitWaiters # <<>> /\ r = Head(permitWaiters)
      BY <1>5, <2>1, <3>3, TasksAssumption
    <3>4. CASE permitWaiters # <<>> /\ r # Head(permitWaiters)
      BY <1>5, <3>1, <3>4
    <3>5. QED
      BY <3>2, <3>3, <3>4
  <2>2. QED
    BY <2>1
<1>9. Counted' = Counted
  BY <1>8 DEF Counted
<1>10. CountLockOwned' /\ FetcherAlone' /\ CountMatchesReaders'
  BY <1>0, <1>1, <1>8, <1>9 DEF CountLockOwned, OwnsCountLock, FetcherAlone, CountMatchesReaders
<1>11. Parked(countWaiters, {"waitCount", "waitUncount"})'
  <2>1. countWaiters' = countWaiters
    BY <1>1
  <2>2. \A i \in 1..Len(countWaiters) :
           /\ countWaiters[i] \in Readers
           /\ pc[countWaiters[i]] \in {"waitCount", "waitUncount"}
    BY <1>0 DEF TypeOK, WaitersParked, Parked
  <2>3. \A i \in 1..Len(countWaiters) : pc'[countWaiters[i]] = pc[countWaiters[i]]
    BY <1>8, <2>2
  <2>4. QED
    BY <1>0, <2>1, <2>2, <2>3 DEF WaitersParked, Parked
<1>12. \A v \in Writers \ {w} : p[v] = pc[v] /\ pc[v] \notin {"gotWrite", "writing"}
  BY <1>3, <1>6 DEF PermitHolders, Tasks
<1>13. PermitConserved'
  <2>1. CASE permitWaiters = <<>>
    <3>1. PermitHolders' = {}
      BY <1>3, <1>5, <1>12, <2>1 DEF PermitHolders, Tasks
    <3>2. ~ReadersHoldPermit'
      BY <1>1, <1>6, <1>8, <2>1 DEF ReadersHoldPermit
    <3>3. QED
      BY <1>5, <1>6, <2>1, <3>1, <3>2 DEF PermitConserved
  <2>2. CASE permitWaiters # <<>>
    <3> DEFINE h == Head(permitWaiters)
    <3>1. CASE h \in Writers
      <4>1. PermitHolders' = {h}
        BY <1>3, <1>5, <1>12, <2>2, <3>1, TasksAssumption DEF PermitHolders, Tasks
      <4>2. ~ReadersHoldPermit'
        BY <1>1, <1>6, <1>8, <2>2, <3>1, TasksAssumption DEF ReadersHoldPermit
      <4>3. QED
        BY <1>5, <1>6, <2>2, <4>1, <4>2 DEF PermitConserved
    <3>2. CASE h \in Readers
      <4>1. PermitHolders' = {}
        BY <1>3, <1>5, <1>12, <2>2, <3>2, TasksAssumption DEF PermitHolders, Tasks
      <4>2. pc[h] = "waitPermit" /\ pc'[h] = "gotPermit"
        BY <1>5, <2>2, <3>2, TasksAssumption
      <4>3. readCount > 0
        <5>1. h \in Counted
          BY <3>2, <4>2 DEF Counted
        <5>2. Cardinality(Counted) \in Nat /\ (Cardinality(Counted) = 0 <=> Counted = {})
          BY <3>2, CountedFinite
        <5>3. QED
          BY <1>0, <5>1, <5>2 DEF CountMatchesReaders
      <4>4. \A r \in Readers \ {h} : pc[r] # "waitPermit"
        BY <1>0, <3>2, <4>2 DEF CountLockOwned, OwnsCountLock
      <4>5. ReadersHoldPermit'
        BY <1>1, <1>8, <4>2, <4>3, <4>4 DEF ReadersHoldPermit
      <4>6. QED
        BY <1>5, <1>6, <2>2, <4>1, <4>5 DEF PermitConserved
    <3>3. QED
      BY <1>5, <2>2, <3>1, <3>2
  <2>3. QED
    BY <2>1, <2>2
<1>14. QED
  BY <1>0, <1>1, <1>5, <1>7, <1>10, <1>11, <1>13 DEF IInv, WaitersParked

\* No step of a task, and no step that leaves the lock alone, breaks it.
LEMMA NextIInv == IInv /\ [Next]_vars => IInv'
<1> SUFFICES ASSUME IInv, [Next]_vars PROVE IInv'
  OBVIOUS
<1>1. ASSUME NEW r \in Readers, StartRead(r) PROVE IInv'
  BY <1>1, StartReadIInv
<1>2. ASSUME NEW r \in Readers, ReaderStep(r) PROVE IInv'
  <2>1. CASE Count(r)
    BY <2>1, CountIInv
  <2>2. CASE EnterRead(r)
    BY <2>2, EnterReadIInv
  <2>3. CASE EndRead(r)
    BY <2>3, EndReadIInv
  <2>4. CASE Uncount(r)
    BY <2>4, UncountIInv
  <2>5. QED
    BY <1>2, <2>1, <2>2, <2>3, <2>4 DEF ReaderStep
<1>3. ASSUME NEW w \in Writers, StartWrite(w) PROVE IInv'
  BY <1>3, StartWriteIInv
<1>4. ASSUME NEW w \in Writers, WriterStep(w) PROVE IInv'
  <2>1. CASE EnterWrite(w)
    BY <2>1, EnterWriteIInv
  <2>2. CASE EndWrite(w)
    BY <2>2, EndWriteIInv
  <2>3. QED
    BY <1>4, <2>1, <2>2 DEF WriterStep
<1>5. CASE UNCHANGED vars
  BY <1>5 DEF vars, IInv, TypeOK, CountLockOwned, WaitersParked, Parked, FetcherAlone,
              CountMatchesReaders, PermitConserved, PermitHolders, ReadersHoldPermit, Counted
<1>6. QED
  BY <1>1, <1>2, <1>3, <1>4, <1>5 DEF Next

\* The strengthened invariant holds in every behaviour without cancellation.
THEOREM Invariance == Spec => []IInv
<1>1. Init => IInv
  BY InitIInv
<1>2. IInv /\ [Next]_vars => IInv'
  BY NextIInv
<1>3. QED
  BY <1>1, <1>2, PTL DEF Spec

-----------------------------------------------------------------------------
(* What follows from it                                                    *)

\* While a reader is in its body no writer holds the permit: the reader is
\* counted, and whoever was to fetch the permit has done so.
LEMMA ReaderHasPermit ==
    ASSUME IInv, NEW r \in Readers, pc[r] = "reading"
    PROVE  PermitHolders = {}
<1>1. r \in Counted
  BY DEF Counted
<1>2. readCount > 0
  <2>1. /\ readCount = Cardinality(Counted) /\ Cardinality(Counted) \in Nat
        /\ Cardinality(Counted) = 0 <=> Counted = {}
    BY CountedFinite DEF IInv, CountMatchesReaders
  <2>2. QED
    BY <1>1, <2>1
<1>3. \A s \in Readers : pc[s] # "waitPermit"
  BY <1>1 DEF IInv, FetcherAlone
<1>4. QED
  BY <1>2, <1>3 DEF IInv, PermitConserved, ReadersHoldPermit

\* Every variable stays in its type: in particular the count never goes below
\* zero and the semaphore never loses its value.
THEOREM TypeCorrect == Spec => []TypeOK
<1>1. IInv => TypeOK
  BY DEF IInv
<1>2. QED
  BY <1>1, Invariance, PTL

\* _read_count is the number of readers between increment and decrement.
THEOREM CountCorrect == Spec => []CountMatchesReaders
<1>1. IInv => CountMatchesReaders
  BY DEF IInv
<1>2. QED
  BY <1>1, Invariance, PTL

\* The one permit is never duplicated and never lost.
THEOREM PermitSafe == Spec => []PermitConserved
<1>1. IInv => PermitConserved
  BY DEF IInv
<1>2. QED
  BY <1>1, Invariance, PTL

\* No collection overlaps a block write that took the read lock, for any number
\* of concurrent add_file, add_node and gc calls.
THEOREM Exclusion == Spec => []ReadersExcludeWriters
<1>1. IInv => ReadersExcludeWriters
  <2>1. Writing \subseteq PermitHolders
    BY DEF Writing, PermitHolders
  <2>2. QED
    BY <2>1, ReaderHasPermit DEF ReadersExcludeWriters, Reading
<1>2. QED
  BY <1>1, Invariance, PTL

-----------------------------------------------------------------------------
(* RWLock implements ReadersWriters: under the mapping that sees only who  *)
(* is in the body of read_lock() and who in that of write_lock(), every    *)
(* step of the lock's machinery is an entry, an exit or a stutter.         *)

\* A step that neither enters nor leaves a body is invisible to the callers.
Invisible == Reading' = Reading /\ Writing' = Writing

\* The tasks that a step of reader r can move besides r are those it wakes from
\* a queue, and these are not in a body before or after.
Woken(t) == pc'[t] = pc[t] \/ (pc[t] \notin {"reading", "writing"}
                               /\ pc'[t] \notin {"reading", "writing"})

\* A step that moves only r itself and tasks it wakes shows r's move, and no other.
LEMMA OnlyReaderVisible ==
    ASSUME NEW r \in Readers, \A t \in Tasks \ {r} : Woken(t)
    PROVE  /\ Reading' = IF pc'[r] = "reading" THEN Reading \union {r} ELSE Reading \ {r}
           /\ Writing' = Writing
BY TasksAssumption DEF Woken, Reading, Writing, Tasks

\* The same for a writer.
LEMMA OnlyWriterVisible ==
    ASSUME NEW w \in Writers, \A t \in Tasks \ {w} : Woken(t)
    PROVE  /\ Writing' = IF pc'[w] = "writing" THEN Writing \union {w} ELSE Writing \ {w}
           /\ Reading' = Reading
BY TasksAssumption DEF Woken, Reading, Writing, Tasks

\* Releasing the count lock shows only where the releasing reader goes.
LEMMA ReleaseCountVisible ==
    ASSUME IInv, NEW r \in Readers, pc[r] \in OwnsCountLock,
           NEW state \in {"idle", "reading"},
           pc' = WakeCount([pc EXCEPT ![r] = state])
    PROVE  pc'[r] = state /\ \A t \in Tasks \ {r} : Woken(t)
<1>1. state \in ReaderStates /\ state \notin OwnsCountLock /\ r \in Tasks
  BY DEF ReaderStates, OwnsCountLock, Tasks
<1>2. /\ \A t \in Tasks :
            pc'[t] = IF countWaiters # <<>> /\ t = Head(countWaiters)
                     THEN IF pc[t] = "waitCount" THEN "counting" ELSE "uncounting"
                     ELSE IF t = r THEN state ELSE pc[t]
      /\ countWaiters # <<>> =>
            /\ Head(countWaiters) \in Readers \ {r}
            /\ pc[Head(countWaiters)] \in {"waitCount", "waitUncount"}
  BY <1>1, ReleaseCountEffect DEF IInv
<1>3. QED
  BY <1>1, <1>2 DEF Woken

\* A writer that holds the permit finds no reader in its body.
LEMMA WriterHasPermit ==
    ASSUME IInv, NEW w \in PermitHolders
    PROVE  Reading = {} /\ PermitHolders = {w}
BY ReaderHasPermit DEF IInv, PermitConserved, Reading

\* read_lock(), step by step.
LEMMA ReaderRefines ==
    ASSUME IInv, NEW r \in Readers, StartRead(r) \/ ReaderStep(r)
    PROVE  Invisible \/ Abstract!EnterRead(r) \/ Abstract!LeaveRead(r)
<1>0. /\ TypeOK /\ CountLockOwned /\ WaitersParked /\ FetcherAlone
      /\ CountMatchesReaders /\ PermitConserved /\ cancelled = {}
      /\ r \in Tasks
  BY DEF IInv, Tasks
<1>1. CASE StartRead(r)
  <2>1. PICK state \in {"counting", "waitCount"} : pc' = [pc EXCEPT ![r] = state]
    BY <1>1 DEF StartRead, AcquireCountLock
  <2>2. pc[r] = "idle" /\ pc'[r] # "reading" /\ \A t \in Tasks \ {r} : Woken(t)
    BY <1>0, <1>1, <2>1 DEF StartRead, TypeOK, Woken
  <2>3. QED
    BY <2>2, OnlyReaderVisible DEF Invisible, Reading
<1>2. CASE Count(r)
  <2>1. pc[r] = "counting" /\ pc[r] \in OwnsCountLock /\ r \notin Reading
    BY <1>2 DEF Count, OwnsCountLock, Reading
  <2>2. CASE readCount' # 1
    <3>1. pc' = WakeCount([pc EXCEPT ![r] = "reading"])
      BY <1>2, <2>2 DEF Count
    <3>2. pc'[r] = "reading" /\ \A t \in Tasks \ {r} : Woken(t)
      BY <2>1, <3>1, ReleaseCountVisible
    <3>3. Reading' = Reading \union {r} /\ Writing' = Writing
      BY <3>2, OnlyReaderVisible
    <3>4. Writing = {}
      <4>1. readCount > 0
        BY <1>0, <1>2, <2>2 DEF Count, TypeOK
      <4>2. \A s \in Readers : pc[s] # "waitPermit"
        BY <1>0, <2>1 DEF CountLockOwned, OwnsCountLock
      <4>3. PermitHolders = {}
        BY <1>0, <4>1, <4>2 DEF PermitConserved, ReadersHoldPermit
      <4>4. QED
        BY <4>3 DEF PermitHolders, Writing
    <3>5. QED
      BY <2>1, <3>3, <3>4 DEF Abstract!EnterRead
  <2>3. CASE readCount' = 1
    <3>1. PICK state \in {"gotPermit", "waitPermit"} : pc' = [pc EXCEPT ![r] = state]
      BY <1>0, <1>2, <2>3 DEF Count
    <3>2. pc'[r] # "reading" /\ \A t \in Tasks \ {r} : Woken(t)
      BY <1>0, <3>1 DEF TypeOK, Woken
    <3>3. QED
      BY <2>1, <3>2, OnlyReaderVisible DEF Invisible, Reading
  <2>4. QED
    BY <2>2, <2>3
<1>3. CASE EnterRead(r)
  <2>1. /\ pc[r] = "gotPermit" /\ pc[r] \in OwnsCountLock /\ r \notin Reading
        /\ pc' = WakeCount([pc EXCEPT ![r] = "reading"])
    BY <1>3 DEF EnterRead, OwnsCountLock, Reading
  <2>2. Reading' = Reading \union {r} /\ Writing' = Writing
    BY <2>1, ReleaseCountVisible, OnlyReaderVisible
  <2>3. Writing = {}
    <3>1. r \in Counted /\ Counted = {r}
      BY <1>0, <2>1 DEF FetcherAlone, Counted
    <3>2. readCount > 0
      <4>1. /\ Cardinality(Counted) \in Nat
            /\ Cardinality(Counted) = 0 <=> Counted = {}
        BY CountedFinite
      <4>2. QED
        BY <1>0, <3>1, <4>1 DEF CountMatchesReaders
    <3>3. \A s \in Readers : pc[s] # "waitPermit"
      BY <2>1, <3>1 DEF Counted
    <3>4. PermitHolders = {}
      BY <1>0, <3>2, <3>3 DEF PermitConserved, ReadersHoldPermit
    <3>5. QED
      BY <3>4 DEF PermitHolders, Writing
  <2>4. QED
    BY <2>1, <2>2, <2>3 DEF Abstract!EnterRead
<1>4. CASE EndRead(r)
  <2>1. pc[r] = "reading" /\ r \in Reading
    BY <1>4 DEF EndRead, Reading
  <2>2. PICK state \in {"uncounting", "waitUncount"} : pc' = [pc EXCEPT ![r] = state]
    BY <1>0, <1>4 DEF EndRead, AcquireCountLock
  <2>3. pc'[r] # "reading" /\ \A t \in Tasks \ {r} : Woken(t)
    BY <1>0, <2>2 DEF TypeOK, Woken
  <2>4. Reading' = Reading \ {r} /\ Writing' = Writing
    BY <2>3, OnlyReaderVisible
  <2>5. QED
    BY <2>1, <2>4 DEF Abstract!LeaveRead
<1>5. CASE Uncount(r)
  <2> DEFINE left == WakeCount([pc EXCEPT ![r] = "idle"])
  <2>1. /\ pc[r] = "uncounting" /\ pc[r] \in OwnsCountLock /\ r \notin Reading
        /\ pc' = left \/ pc' = WakePermit(left)
    <3>1. Finished(r) = "idle"
      BY <1>0 DEF Finished
    <3>2. QED
      BY <1>5, <3>1 DEF Uncount, OwnsCountLock, Reading
  <2>2. /\ PcTyped(left)
        /\ \A t \in Tasks :
              left[t] = IF countWaiters # <<>> /\ t = Head(countWaiters)
                        THEN IF pc[t] = "waitCount" THEN "counting" ELSE "uncounting"
                        ELSE IF t = r THEN "idle" ELSE pc[t]
        /\ countWaiters # <<>> =>
              /\ Head(countWaiters) \in Readers \ {r}
              /\ pc[Head(countWaiters)] \in {"waitCount", "waitUncount"}
    <3>1. "idle" \in ReaderStates /\ "idle" \notin OwnsCountLock
      BY DEF ReaderStates, OwnsCountLock
    <3>2. QED
      BY <2>1, <3>1, ReleaseCountEffect DEF IInv
  <2> HIDE DEF left
  <2>3. \A i \in 1..Len(permitWaiters) : left[permitWaiters[i]] = pc[permitWaiters[i]]
    BY <1>0, <2>1, <2>2 DEF TypeOK, WaitersParked, Parked
  <2>4. /\ \A t \in Tasks :
              WakePermit(left)[t] =
                 IF permitWaiters # <<>> /\ t = Head(permitWaiters)
                 THEN IF pc[t] = "waitWrite" THEN "gotWrite" ELSE "gotPermit"
                 ELSE left[t]
        /\ permitWaiters # <<>> =>
              /\ Head(permitWaiters) \in Tasks
              /\ pc[Head(permitWaiters)] \in {"waitPermit", "waitWrite"}
    BY <1>0, <2>2, <2>3, WakePermitEffect
  <2>5. pc'[r] # "reading"
    BY <1>0, <2>1, <2>2, <2>4
  <2>6. \A t \in Tasks \ {r} : Woken(t)
    BY <2>1, <2>2, <2>4 DEF Woken
  <2>7. QED
    BY <2>1, <2>5, <2>6, OnlyReaderVisible DEF Invisible
<1>6. QED
  BY <1>1, <1>2, <1>3, <1>4, <1>5 DEF ReaderStep

\* write_lock(), step by step.
LEMMA WriterRefines ==
    ASSUME IInv, NEW w \in Writers, StartWrite(w) \/ WriterStep(w)
    PROVE  Invisible \/ Abstract!EnterWrite(w) \/ Abstract!LeaveWrite(w)
<1>0. /\ TypeOK /\ WaitersParked /\ cancelled = {} /\ w \in Tasks
  BY DEF IInv, Tasks
<1>1. CASE StartWrite(w)
  <2>1. PICK state \in {"gotWrite", "waitWrite"} : pc' = [pc EXCEPT ![w] = state]
    BY <1>1 DEF StartWrite
  <2>2. pc[w] = "idle" /\ pc'[w] # "writing" /\ \A t \in Tasks \ {w} : Woken(t)
    BY <1>0, <1>1, <2>1 DEF StartWrite, TypeOK, Woken
  <2>3. QED
    BY <2>2, OnlyWriterVisible DEF Invisible, Writing
<1>2. CASE EnterWrite(w)
  <2>1. pc[w] = "gotWrite" /\ w \in PermitHolders /\ pc' = [pc EXCEPT ![w] = "writing"]
    BY <1>2 DEF EnterWrite, PermitHolders
  <2>2. Reading = {} /\ Writing = {}
    BY <2>1, WriterHasPermit DEF PermitHolders, Writing
  <2>3. pc'[w] = "writing" /\ \A t \in Tasks \ {w} : Woken(t)
    BY <1>0, <2>1 DEF TypeOK, Woken
  <2>4. Writing' = {w} /\ Reading' = Reading
    BY <2>2, <2>3, OnlyWriterVisible
  <2>5. QED
    BY <2>2, <2>4 DEF Abstract!EnterWrite
<1>3. CASE EndWrite(w)
  <2> DEFINE p == [pc EXCEPT ![w] = "idle"]
  <2>1. pc[w] = "writing" /\ w \in Writing /\ pc' = WakePermit(p)
    BY <1>0, <1>3 DEF EndWrite, Finished, Writing
  <2>2. PcTyped(p) /\ \A t \in Tasks : p[t] = IF t = w THEN "idle" ELSE pc[t]
    BY <1>0, TasksAssumption DEF TypeOK, PcTyped, WriterStates, Tasks
  <2>3. \A i \in 1..Len(permitWaiters) : p[permitWaiters[i]] = pc[permitWaiters[i]]
    BY <1>0, <2>1, <2>2 DEF TypeOK, WaitersParked, Parked
  <2> HIDE DEF p
  <2>4. /\ \A t \in Tasks :
              WakePermit(p)[t] =
                 IF permitWaiters # <<>> /\ t = Head(permitWaiters)
                 THEN IF pc[t] = "waitWrite" THEN "gotWrite" ELSE "gotPermit"
                 ELSE p[t]
        /\ permitWaiters # <<>> =>
              /\ Head(permitWaiters) \in Tasks
              /\ pc[Head(permitWaiters)] \in {"waitPermit", "waitWrite"}
    BY <1>0, <2>2, <2>3, WakePermitEffect
  <2>5. pc'[w] # "writing"
    BY <1>0, <2>1, <2>2, <2>4
  <2>6. \A t \in Tasks \ {w} : Woken(t)
    BY <2>1, <2>2, <2>4 DEF Woken
  <2>7. Writing' = Writing \ {w} /\ Reading' = Reading
    BY <2>5, <2>6, OnlyWriterVisible
  <2>8. QED
    BY <2>1, <2>7 DEF Abstract!LeaveWrite
<1>4. QED
  BY <1>1, <1>2, <1>3 DEF WriterStep

\* The lock keeps its promise to add_file, add_node and gc: its behaviours,
\* seen from the bodies it protects, are those of ReadersWriters.
THEOREM Refinement == Spec => ImplementsReadersWriters
<1>1. Init => Abstract!Init
  BY DEF Init, Abstract!Init, Reading, Writing, Tasks
<1>2. IInv /\ [Next]_vars => [Abstract!Next]_(Abstract!lockVars)
  <2> SUFFICES ASSUME IInv, [Next]_vars PROVE [Abstract!Next]_(Abstract!lockVars)
    OBVIOUS
  <2>1. ASSUME NEW r \in Readers, StartRead(r) \/ ReaderStep(r)
        PROVE  [Abstract!Next]_(Abstract!lockVars)
    BY <2>1, ReaderRefines DEF Invisible, Abstract!Next, Abstract!lockVars
  <2>2. ASSUME NEW w \in Writers, StartWrite(w) \/ WriterStep(w)
        PROVE  [Abstract!Next]_(Abstract!lockVars)
    BY <2>2, WriterRefines DEF Invisible, Abstract!Next, Abstract!lockVars
  <2>3. CASE UNCHANGED vars
    BY <2>3 DEF vars, Abstract!lockVars, Reading, Writing
  <2>4. QED
    BY <2>1, <2>2, <2>3 DEF Next
<1>3. QED
  BY <1>1, <1>2, Invariance, PTL DEF Spec, ImplementsReadersWriters, Abstract!Spec

-----------------------------------------------------------------------------
(* Cancellation at any point                                               *)

Held == OwnsCountLock \union {"unwinding"}
ParkedForCount == {"waitCount", "waitUncount"}
ParkedForPermit == {"waitPermit", "waitWrite"}

\* A sequence without its k-th element.
LEMMA RemoveAtFacts ==
    ASSUME NEW S, NEW q \in Seq(S), NEW k \in 1..Len(q)
    PROVE  /\ RemoveAt(q, k) \in Seq(S) /\ Len(RemoveAt(q, k)) = Len(q) - 1 /\ Len(q) \in Nat
           /\ \A i \in 1..(Len(q) - 1) : RemoveAt(q, k)[i] = IF i < k THEN q[i] ELSE q[i + 1]
<1> DEFINE a == SubSeq(q, 1, k - 1)
           b == SubSeq(q, k + 1, Len(q))
<1>1. Len(q) \in Nat /\ \A i \in 1..Len(q) : q[i] \in S
  BY LenProperties, ElementOfSeq
<1>2. /\ a \in Seq(S) /\ Len(a) = k - 1 /\ \A i \in 1..(k - 1) : a[i] = q[i]
  BY <1>1
<1>3. /\ b \in Seq(S) /\ Len(b) = Len(q) - k /\ \A i \in 1..(Len(q) - k) : b[i] = q[i + k]
  BY <1>1
<1>4. RemoveAt(q, k) = a \o b
  BY DEF RemoveAt
<1> HIDE DEF a, b
<1>5. /\ a \o b \in Seq(S) /\ Len(a \o b) = Len(q) - 1
      /\ \A i \in 1..(Len(q) - 1) : (a \o b)[i] = IF i < k THEN a[i] ELSE b[i - (k - 1)]
  BY <1>1, <1>2, <1>3, ConcatProperties
<1>6. ASSUME NEW i \in 1..(Len(q) - 1)
      PROVE  RemoveAt(q, k)[i] = IF i < k THEN q[i] ELSE q[i + 1]
  <2>1. CASE i < k
    BY <1>1, <1>2, <1>4, <1>5, <2>1
  <2>2. CASE ~(i < k)
    <3>1. i - (k - 1) \in 1..(Len(q) - k) /\ i - (k - 1) + k = i + 1
      BY <1>1, <2>2
    <3>2. QED
      BY <1>3, <1>4, <1>5, <2>2, <3>1
  <2>3. QED
    BY <2>1, <2>2
<1>7. QED
  BY <1>1, <1>4, <1>5, <1>6

\* A task that is cancelled while it is parked leaves its queue, and nobody else does.
LEMMA UnparkEffect ==
    ASSUME NEW S, NEW q \in Seq(S), NEW states, NEW t, Parked(q, states)
    PROVE  /\ Unpark(q, t) \in Seq(S)
           /\ Parked(Unpark(q, t), states)
           /\ \A i \in 1..Len(Unpark(q, t)) :
                 Unpark(q, t)[i] # t /\ Unpark(q, t)[i] \in S
<1>1. CASE t \notin ToSet(q)
  BY <1>1 DEF Unpark, ToSet, Parked
<1>2. CASE t \in ToSet(q)
  <2> DEFINE k == CHOOSE i \in DOMAIN q : q[i] = t
             u == RemoveAt(q, k)
  <2>1. k \in 1..Len(q) /\ q[k] = t /\ \A i \in 1..Len(q) : q[i] \in S
    BY <1>2, LenProperties, ElementOfSeq DEF ToSet
  <2>2. Unpark(q, t) = u
    BY <1>2 DEF Unpark
  <2> HIDE DEF k
  <2>3. /\ u \in Seq(S) /\ Len(u) = Len(q) - 1 /\ Len(q) \in Nat
        /\ \A i \in 1..Len(u) : u[i] = IF i < k THEN q[i] ELSE q[i + 1]
    BY <2>1, RemoveAtFacts
  <2> HIDE DEF u
  <2> DEFINE from(i) == IF i < k THEN i ELSE i + 1
  <2>4. \A i \in 1..Len(u) : from(i) \in 1..Len(q) /\ from(i) # k /\ u[i] = q[from(i)]
    <3> SUFFICES ASSUME NEW i \in 1..Len(u)
                 PROVE  from(i) \in 1..Len(q) /\ from(i) # k /\ u[i] = q[from(i)]
      OBVIOUS
    <3>1. CASE i < k
      BY <2>1, <2>3, <3>1
    <3>2. CASE ~(i < k)
      BY <2>1, <2>3, <3>2
    <3>3. QED
      BY <3>1, <3>2
  <2>5. \A i, j \in 1..Len(u) : i # j => from(i) # from(j)
    <3>1. k \in Int /\ \A i \in 1..Len(u) : i \in Int
      BY <2>1, <2>3
    <3>2. QED
      BY <3>1
  <2> HIDE DEF from
  <2>6. Parked(u, states)
    BY <2>4, <2>5 DEF Parked
  <2>7. \A i \in 1..Len(u) : u[i] # t /\ u[i] \in S
    BY <2>1, <2>4 DEF Parked
  <2>8. QED
    BY <2>2, <2>3, <2>6, <2>7
<1>3. QED
  BY <1>1, <1>2

\* Who has the count lock, who waits for it and what that makes of the readers that
\* count: the same whenever a reader r releases the count lock, whatever the step
\* does to the permit.
LEMMA CounterReleases ==
    ASSUME TypeOK, CountLockHeld, WaitersParked,
           NEW r \in Readers, pc[r] \in Held \ {"waitPermit"},
           NEW state \in {"idle", "reading", "gone"},
           ReleaseCountLock, PcTyped(pc'),
           \A s \in Readers : pc'[s] = WakeCount([pc EXCEPT ![r] = state])[s]
    PROVE  /\ countOwner' \in Readers \union {NoTask} /\ countWaiters' \in Seq(Readers)
           /\ CountLockHeld'
           /\ Parked(countWaiters, ParkedForCount)'
           /\ Counted' = IF state = "reading" THEN Counted \union {r} ELSE Counted \ {r}
           /\ \A s \in Readers : pc[s] # "waitPermit" /\ pc'[s] # "waitPermit"
<1>1. /\ \A s \in Readers :
            pc'[s] = IF countWaiters # <<>> /\ s = Head(countWaiters)
                     THEN IF pc[s] = "waitCount" THEN "counting" ELSE "uncounting"
                     ELSE IF s = r THEN state ELSE pc[s]
      /\ countWaiters # <<>> =>
            /\ Head(countWaiters) \in Readers \ {r}
            /\ pc[Head(countWaiters)] \in ParkedForCount
            /\ Head(countWaiters) # NoTask
  <2>1. state \in ReaderStates
    BY DEF ReaderStates
  <2>2. QED
    BY <2>1, ReleaseCountEffect DEF Tasks, Held, ParkedForCount
<1>2. countOwner = r /\ \A s \in Readers \ {r} : pc[s] \notin Held
  BY DEF CountLockHeld, Held
<1>3. /\ countOwner' \in Readers \union {NoTask} /\ countWaiters' \in Seq(Readers)
  <2>1. CASE countWaiters = <<>>
    BY <2>1 DEF ReleaseCountLock, TypeOK
  <2>2. CASE countWaiters # <<>>
    <3>1. countWaiters \in Seq(Readers)
      BY DEF TypeOK
    <3>2. Tail(countWaiters) \in Seq(Readers)
      BY <2>2, <3>1, QueueTail
    <3>3. QED
      BY <1>1, <2>2, <3>2 DEF ReleaseCountLock
  <2>3. QED
    BY <2>1, <2>2
<1>4. CountLockHeld'
  <2> SUFFICES ASSUME NEW s \in Readers PROVE countOwner' = s <=> pc'[s] \in Held
    BY DEF CountLockHeld, Held
  <2>0. s # NoTask /\ state \notin Held /\ {"counting", "uncounting"} \subseteq Held
    BY TasksAssumption DEF Held, OwnsCountLock
  <2>1. CASE countWaiters = <<>>
    BY <1>1, <1>2, <2>0, <2>1 DEF ReleaseCountLock
  <2>2. CASE countWaiters # <<>>
    BY <1>1, <1>2, <2>0, <2>2 DEF ReleaseCountLock
  <2>3. QED
    BY <2>1, <2>2
<1>5. Parked(countWaiters, ParkedForCount)'
  <2>1. CASE countWaiters = <<>>
    BY <2>1 DEF ReleaseCountLock, Parked
  <2>2. CASE countWaiters # <<>>
    <3>0. countWaiters \in Seq(Readers) /\ Parked(countWaiters, ParkedForCount)
      BY DEF TypeOK, WaitersParked, ParkedForCount
    <3>1. /\ Parked(Tail(countWaiters), ParkedForCount)
          /\ \A i \in 1..Len(Tail(countWaiters)) :
                Tail(countWaiters)[i] # Head(countWaiters) /\ Tail(countWaiters)[i] \in Readers
      BY <2>2, <3>0, ParkedTail, QueueTail
    <3>2. \A i \in 1..Len(Tail(countWaiters)) : Tail(countWaiters)[i] # r
      BY <3>1 DEF Parked, Held, OwnsCountLock, ParkedForCount
    <3>3. countWaiters' = Tail(countWaiters)
      BY <2>2 DEF ReleaseCountLock
    <3>4. \A i \in 1..Len(Tail(countWaiters)) :
             pc'[Tail(countWaiters)[i]] = pc[Tail(countWaiters)[i]]
      BY <1>1, <3>1, <3>2
    <3>5. QED
      BY <3>1, <3>3, <3>4 DEF Parked
  <2>3. QED
    BY <2>1, <2>2
<1>6. Counted' = IF state = "reading" THEN Counted \union {r} ELSE Counted \ {r}
  BY <1>1 DEF Counted, ParkedForCount
<1>7. \A s \in Readers : pc[s] # "waitPermit" /\ pc'[s] # "waitPermit"
  BY <1>1, <1>2 DEF Held, OwnsCountLock
<1>8. QED
  BY <1>3, <1>4, <1>5, <1>6, <1>7

\* A queue of tasks that a step does not move stays as it is.
LEMMA StillParked ==
    ASSUME permitWaiters' = permitWaiters, permitWaiters \in Seq(Tasks),
           Parked(permitWaiters, ParkedForPermit),
           \A t \in Tasks : pc[t] \in ParkedForPermit => pc'[t] = pc[t]
    PROVE  Parked(permitWaiters, ParkedForPermit)'
BY DEF Parked

LEMMA StillParkedForCount ==
    ASSUME countWaiters' = countWaiters, countWaiters \in Seq(Readers),
           Parked(countWaiters, ParkedForCount),
           \A r \in Readers : pc[r] \in ParkedForCount => pc'[r] = pc[r]
    PROVE  Parked(countWaiters, ParkedForCount)'
BY DEF Parked

\* The permit is safe in a step that does not move it, unless the readers come to
\* hold it by that step.
LEMMA PermitUntouched ==
    ASSUME PermitNotDuplicated, permits' = permits, PermitHolders' = PermitHolders,
           CountMatchesReaders' /\ ReadersHoldPermit' => CountMatchesReaders /\ ReadersHoldPermit
    PROVE  PermitNotDuplicated'
BY DEF PermitNotDuplicated

LEMMA InitCancelInv == Init => CancelInv
<1> SUFFICES ASSUME Init PROVE CancelInv
  OBVIOUS
<1>1. TypeOK /\ WaitersParked
  BY InitIInv DEF IInv
<1>2. CountLockHeld
  BY TasksAssumption DEF Init, CountLockHeld, OwnsCountLock, Tasks
<1>3. Counted = {} /\ readCount = 0
  BY DEF Init, Counted, Tasks
<1>4. CountCoversReaders
  BY <1>3, FS_EmptySet DEF CountCoversReaders
<1>5. PermitNotDuplicated
  BY DEF Init, PermitNotDuplicated, PermitHolders, ReadersHoldPermit, Tasks
<1>6. QED
  BY <1>1, <1>2, <1>4, <1>5 DEF CancelInv

\* A reader asks for the count lock, at either of the two places.
LEMMA AcquireCancelInv ==
    ASSUME CancelInv, NEW r \in Readers, pc[r] \in {"idle", "reading"},
           NEW owning \in {"counting", "uncounting"}, NEW parked \in ParkedForCount,
           pc[r] = "reading" <=> <<owning, parked>> = <<"uncounting", "waitUncount">>,
           pc[r] = "idle" <=> <<owning, parked>> = <<"counting", "waitCount">>,
           AcquireCountLock(r, owning, parked),
           UNCHANGED <<readCount, permits, permitWaiters, cancelled>>
    PROVE  CancelInv'
<1>0. /\ TypeOK /\ CountLockHeld /\ WaitersParked /\ CountCoversReaders /\ PermitNotDuplicated
      /\ r \in Tasks /\ r # NoTask /\ r \notin Writers
  BY TasksAssumption DEF CancelInv, Tasks
<1>1. PICK state \in {owning, parked} : pc' = [pc EXCEPT ![r] = state]
  BY DEF AcquireCountLock
<1>2. \A t \in Tasks : pc'[t] = IF t = r THEN state ELSE pc[t]
  BY <1>0, <1>1 DEF TypeOK
<1>3. Counted' = Counted
  BY <1>2 DEF Counted, Tasks, ParkedForCount
<1>4. CountCoversReaders' /\ (CountMatchesReaders' <=> CountMatchesReaders)
  BY <1>0, <1>3 DEF CountCoversReaders, CountMatchesReaders
<1>5. /\ PermitHolders' = PermitHolders /\ (ReadersHoldPermit' <=> ReadersHoldPermit)
  BY <1>0, <1>2 DEF PermitHolders, ReadersHoldPermit, Tasks, ParkedForCount
<1>6. PermitNotDuplicated'
  BY <1>0, <1>4, <1>5, PermitUntouched
<1>7. Parked(permitWaiters, ParkedForPermit)'
  BY <1>0, <1>2, StillParked DEF TypeOK, WaitersParked, ParkedForPermit
<1>8. CASE countOwner = NoTask
  <2>1. countOwner' = r /\ countWaiters' = countWaiters /\ pc' = [pc EXCEPT ![r] = owning]
    BY <1>8 DEF AcquireCountLock
  <2>2. TypeOK'
    BY <1>0, <2>1 DEF TypeOK, ReaderStates
  <2>3. CountLockHeld'
    <3>1. \A s \in Readers : pc[s] \notin Held
      BY <1>8, <1>0, TasksAssumption DEF CountLockHeld, Held
    <3>2. owning \in Held
      BY DEF Held, OwnsCountLock
    <3>3. \A s \in Readers : pc'[s] = IF s = r THEN owning ELSE pc[s]
      BY <1>0, <2>1 DEF TypeOK, Tasks
    <3>4. QED
      BY <2>1, <3>1, <3>2, <3>3 DEF CountLockHeld, Held
  <2>4. Parked(countWaiters, ParkedForCount)'
    BY <1>0, <1>2, <2>1, StillParkedForCount DEF TypeOK, WaitersParked, ParkedForCount, Tasks
  <2>5. QED
    BY <1>4, <1>6, <1>7, <2>2, <2>3, <2>4
    DEF CancelInv, WaitersParked, ParkedForCount, ParkedForPermit
<1>9. CASE countOwner # NoTask
  <2>1. /\ countWaiters' = Append(countWaiters, r) /\ countOwner' = countOwner
        /\ pc' = [pc EXCEPT ![r] = parked]
    BY <1>9 DEF AcquireCountLock
  <2>2. /\ countWaiters' \in Seq(Readers)
        /\ Len(countWaiters') = Len(countWaiters) + 1
        /\ \A i \in 1..Len(countWaiters) : countWaiters'[i] = countWaiters[i] /\ countWaiters[i] # r
        /\ countWaiters'[Len(countWaiters) + 1] = r
    <3>1. countWaiters \in Seq(Readers) /\ Parked(countWaiters, ParkedForCount)
      BY <1>0 DEF TypeOK, WaitersParked, ParkedForCount
    <3>2. pc[r] \notin ParkedForCount
      BY DEF ParkedForCount
    <3>3. /\ Append(countWaiters, r) \in Seq(Readers)
          /\ Len(Append(countWaiters, r)) = Len(countWaiters) + 1
          /\ \A i \in 1..Len(countWaiters) :
                Append(countWaiters, r)[i] = countWaiters[i] /\ countWaiters[i] # r
          /\ Append(countWaiters, r)[Len(countWaiters) + 1] = r
      BY <3>1, <3>2, ParkedAppend
    <3>4. QED
      BY <2>1, <3>3
  <2>3. TypeOK'
    BY <1>0, <2>1, <2>2 DEF TypeOK, ReaderStates, ParkedForCount
  <2>4. CountLockHeld'
    BY <1>0, <2>1 DEF TypeOK, CountLockHeld, OwnsCountLock, Tasks, ParkedForCount
  <2>5. Parked(countWaiters, ParkedForCount)'
    <3>1. \A i \in 1..Len(countWaiters) :
             countWaiters[i] \in Readers /\ pc[countWaiters[i]] \in ParkedForCount
      BY <1>0 DEF TypeOK, WaitersParked, Parked, ParkedForCount
    <3>2. \A i \in 1..Len(countWaiters) : pc'[countWaiters[i]] = pc[countWaiters[i]]
      BY <1>2, <2>2, <3>1 DEF Tasks
    <3>3. pc'[r] = parked /\ Len(countWaiters) \in Nat
      BY <1>0, <2>1 DEF TypeOK
    <3>4. QED
      BY <1>0, <2>2, <3>1, <3>2, <3>3 DEF WaitersParked, Parked
  <2>6. QED
    BY <1>4, <1>6, <1>7, <2>3, <2>4, <2>5
    DEF CancelInv, WaitersParked, ParkedForCount, ParkedForPermit
<1>10. QED
  BY <1>8, <1>9

\* A reader leaves the entry block: counted and in its body, or cancelled while it
\* was to fetch the permit.
LEMMA LeaveEntryCancelInv ==
    ASSUME CancelInv, NEW r \in Readers, NEW state \in {"reading", "gone"},
           pc[r] \in {"counting", "gotPermit", "unwinding"},
           pc[r] = "counting" /\ state = "reading" => readCount # 0,
           pc[r] = "gotPermit" => state = "reading",
           pc[r] = "unwinding" => state = "gone",
           readCount' = IF pc[r] = "counting" THEN readCount + 1 ELSE readCount,
           ReleaseCountLock,
           pc' = WakeCount([pc EXCEPT ![r] = state]),
           UNCHANGED <<permits, permitWaiters, cancelled>>
    PROVE  CancelInv'
<1>0. /\ TypeOK /\ CountLockHeld /\ WaitersParked /\ CountCoversReaders /\ PermitNotDuplicated
      /\ r \in Tasks /\ r \notin Writers /\ readCount \in Nat
      /\ permitWaiters \in Seq(Tasks)
  BY TasksAssumption DEF CancelInv, Tasks, TypeOK
<1>2. pc[r] \in Held \ {"waitPermit"}
  BY DEF Held, OwnsCountLock
<1>3. /\ PcTyped(pc')
      /\ \A t \in Tasks :
            pc'[t] = IF countWaiters # <<>> /\ t = Head(countWaiters)
                     THEN IF pc[t] = "waitCount" THEN "counting" ELSE "uncounting"
                     ELSE IF t = r THEN state ELSE pc[t]
      /\ countWaiters # <<>> =>
            /\ Head(countWaiters) \in Readers \ {r}
            /\ pc[Head(countWaiters)] \in ParkedForCount
  <2>1. state \in ReaderStates
    BY DEF ReaderStates
  <2>2. QED
    BY <1>0, <1>2, <2>1, ReleaseCountEffect DEF Held, ParkedForCount
<1>4. /\ countOwner' \in Readers \union {NoTask} /\ countWaiters' \in Seq(Readers)
      /\ CountLockHeld'
      /\ Parked(countWaiters, ParkedForCount)'
      /\ Counted' = IF state = "reading" THEN Counted \union {r} ELSE Counted \ {r}
      /\ \A s \in Readers : pc[s] # "waitPermit" /\ pc'[s] # "waitPermit"
  <2>1. state \in {"idle", "reading", "gone"}
    OBVIOUS
  <2>2. QED
    BY <1>0, <1>2, <1>3, <2>1, CounterReleases
<1>5. TypeOK'
  <2>1. readCount' \in Nat /\ permits' \in Nat /\ permitWaiters' \in Seq(Tasks)
        /\ cancelled' \in SUBSET Tasks
    BY <1>0 DEF TypeOK
  <2>2. QED
    BY <1>3, <1>4, <2>1 DEF TypeOK, PcTyped
<1>6. Parked(permitWaiters, ParkedForPermit)'
  <2>1. \A t \in Tasks : pc[t] \in ParkedForPermit => pc'[t] = pc[t]
    BY <1>2, <1>3 DEF ParkedForPermit, ParkedForCount, Held, OwnsCountLock
  <2>2. QED
    BY <1>0, <1>2, <2>1, StillParked DEF TypeOK, WaitersParked, ParkedForPermit
<1>7. /\ Cardinality(Counted) \in Nat
      /\ Cardinality(Counted') = IF state = "reading" /\ pc[r] = "counting"
                                 THEN Cardinality(Counted) + 1 ELSE Cardinality(Counted)
  <2>1. r \in Counted <=> pc[r] = "gotPermit"
    BY DEF Counted
  <2>2. QED
    BY <1>4, <2>1, CountedFinite
<1>8. CountCoversReaders' /\ (CountMatchesReaders' => CountMatchesReaders)
  BY <1>0, <1>2, <1>7 DEF CountCoversReaders, CountMatchesReaders
<1>9. PermitHolders' = PermitHolders
  BY <1>0, <1>3, TasksAssumption DEF PermitHolders, Tasks
<1>10. CountMatchesReaders' /\ ReadersHoldPermit' => ReadersHoldPermit
  BY <1>0, <1>2, <1>4, <1>7, <1>8 DEF ReadersHoldPermit, CountMatchesReaders
<1>11. PermitNotDuplicated'
  BY <1>0, <1>2, <1>8, <1>9, <1>10, PermitUntouched
<1>12. QED
  BY <1>4, <1>5, <1>6, <1>8, <1>11 DEF CancelInv, WaitersParked, ParkedForCount, ParkedForPermit

\* _read_count += 1, and the first reader goes for the permit.
LEMMA CountCancelInv ==
    ASSUME CancelInv, NEW r \in Readers, Count(r)
    PROVE  CancelInv'
<1>0. /\ TypeOK /\ CountLockHeld /\ WaitersParked /\ CountCoversReaders /\ PermitNotDuplicated
      /\ r \in Tasks /\ r \notin Writers /\ readCount \in Nat
      /\ permitWaiters \in Seq(Tasks)
  BY TasksAssumption DEF CancelInv, Tasks, TypeOK
<1>1. pc[r] = "counting" /\ readCount' = readCount + 1 /\ cancelled' = cancelled /\ r \notin Counted
  BY DEF Count, Counted
<1>2. \A s \in Readers : pc[s] # "waitPermit"
  BY <1>0, <1>1 DEF CountLockHeld, OwnsCountLock
<1>3. CASE \E state \in {"reading", "gone"} :
              /\ ReleaseCountLock
              /\ pc' = WakeCount([pc EXCEPT ![r] = state])
              /\ UNCHANGED <<permits, permitWaiters>>
              /\ state = "reading" => readCount' # 1
  <2>1. PICK state \in {"reading", "gone"} :
              /\ ReleaseCountLock
              /\ pc' = WakeCount([pc EXCEPT ![r] = state])
              /\ UNCHANGED <<permits, permitWaiters>>
              /\ state = "reading" => readCount' # 1
    BY <1>3
  <2>2. state = "reading" => readCount # 0
    BY <1>0, <1>1, <2>1
  <2>3. QED
    BY <1>1, <2>1, <2>2, LeaveEntryCancelInv
<1>4. CASE \E state \in {"gotPermit", "waitPermit"} :
              /\ pc' = [pc EXCEPT ![r] = state]
              /\ UNCHANGED <<countOwner, countWaiters>>
              /\ readCount' = 1
              /\ \/ permits > 0 /\ permits' = permits - 1 /\ permitWaiters' = permitWaiters
                    /\ state = "gotPermit"
                 \/ permits = 0 /\ permitWaiters' = Append(permitWaiters, r) /\ permits' = permits
                    /\ state = "waitPermit"
  <2>1. PICK state \in {"gotPermit", "waitPermit"} :
              /\ pc' = [pc EXCEPT ![r] = state]
              /\ UNCHANGED <<countOwner, countWaiters>>
              /\ readCount' = 1
              /\ \/ permits > 0 /\ permits' = permits - 1 /\ permitWaiters' = permitWaiters
                    /\ state = "gotPermit"
                 \/ permits = 0 /\ permitWaiters' = Append(permitWaiters, r) /\ permits' = permits
                    /\ state = "waitPermit"
    BY <1>4
  <2>2. \A t \in Tasks : pc'[t] = IF t = r THEN state ELSE pc[t]
    BY <1>0, <2>1 DEF TypeOK
  <2>3. CountLockHeld'
    BY <1>0, <1>1, <2>1, <2>2 DEF CountLockHeld, OwnsCountLock, Tasks
  <2>4. Parked(countWaiters, ParkedForCount)'
    BY <1>0, <1>1, <2>1, <2>2, StillParkedForCount
    DEF TypeOK, WaitersParked, ParkedForCount, Tasks
  <2>5. Counted' = Counted \union {r} /\ Counted' = {r} /\ readCount = 0
    <3>1. readCount = 0
      BY <1>0, <1>1, <2>1
    <3>2. Counted = {}
      <4>1. Cardinality(Counted) \in Nat /\ (Cardinality(Counted) = 0 <=> Counted = {})
        BY CountedFinite
      <4>2. Cardinality(Counted) <= 0
        BY <1>0, <3>1 DEF CountCoversReaders
      <4>3. QED
        BY <4>1, <4>2
    <3>3. QED
      BY <2>2, <3>1, <3>2 DEF Counted, Tasks
  <2>6. CountCoversReaders' /\ permits' = 0
    <3>1. Cardinality(Counted') = 1
      BY <2>5, FS_Singleton
    <3>2. QED
      BY <1>0, <2>1, <3>1 DEF CountCoversReaders, PermitNotDuplicated
  <2>7. PermitHolders' = PermitHolders
    BY <1>0, <2>2 DEF PermitHolders, Tasks
  <2>8. PermitNotDuplicated'
    <3>1. CASE state = "gotPermit"
      <4>1. PermitHolders = {}
        BY <1>0, <2>1, <3>1 DEF PermitNotDuplicated
      <4>2. QED
        BY <2>6, <2>7, <4>1 DEF PermitNotDuplicated
    <3>2. CASE state = "waitPermit"
      <4>1. ~ReadersHoldPermit'
        BY <1>0, <2>2, <3>2 DEF ReadersHoldPermit
      <4>2. QED
        BY <1>0, <2>6, <2>7, <4>1 DEF PermitNotDuplicated
    <3>3. QED
      BY <3>1, <3>2
  <2>9. permitWaiters' \in Seq(Tasks) /\ Parked(permitWaiters, ParkedForPermit)'
    <3>0. Parked(permitWaiters, ParkedForPermit)
      BY <1>0 DEF WaitersParked, ParkedForPermit
    <3>1. CASE permitWaiters' = permitWaiters
      BY <1>0, <1>1, <2>2, <3>0, <3>1, StillParked DEF ParkedForPermit
    <3>2. CASE permitWaiters' = Append(permitWaiters, r) /\ state = "waitPermit"
      <4>1. /\ permitWaiters' \in Seq(Tasks)
            /\ Len(permitWaiters') = Len(permitWaiters) + 1
            /\ \A i \in 1..Len(permitWaiters) :
                  permitWaiters'[i] = permitWaiters[i] /\ permitWaiters[i] # r
            /\ permitWaiters'[Len(permitWaiters) + 1] = r
        <5>1. pc[r] \notin ParkedForPermit
          BY <1>1 DEF ParkedForPermit
        <5>2. /\ Append(permitWaiters, r) \in Seq(Tasks)
              /\ Len(Append(permitWaiters, r)) = Len(permitWaiters) + 1
              /\ \A i \in 1..Len(permitWaiters) :
                    Append(permitWaiters, r)[i] = permitWaiters[i] /\ permitWaiters[i] # r
              /\ Append(permitWaiters, r)[Len(permitWaiters) + 1] = r
          BY <1>0, <3>0, <5>1, ParkedAppend
        <5>3. QED
          BY <3>2, <5>2
      <4>2. Len(permitWaiters) \in Nat
        BY <1>0
      <4>3. \A i \in 1..Len(permitWaiters) :
               permitWaiters[i] \in Tasks /\ pc[permitWaiters[i]] \in ParkedForPermit
        BY <1>0, <3>0 DEF Parked
      <4>4. \A i \in 1..Len(permitWaiters) : pc'[permitWaiters[i]] = pc[permitWaiters[i]]
        BY <2>2, <4>1, <4>3
      <4>5. pc'[r] \in ParkedForPermit
        BY <1>0, <2>2, <3>2 DEF ParkedForPermit
      <4>6. QED
        BY <3>0, <4>1, <4>2, <4>3, <4>4, <4>5 DEF Parked
    <3>3. QED
      BY <2>1, <3>1, <3>2
  <2>10. TypeOK'
    BY <1>0, <1>1, <2>1, <2>6, <2>9 DEF TypeOK, ReaderStates
  <2>11. QED
    BY <2>3, <2>4, <2>6, <2>8, <2>9, <2>10
    DEF CancelInv, WaitersParked, ParkedForCount, ParkedForPermit
<1>5. QED
  BY <1>0, <1>3, <1>4 DEF Count, PermitNotDuplicated

\* The finally block: a cancelled reader leaves its share of the count behind.
LEMMA EndReadCancelInv ==
    ASSUME CancelInv, NEW r \in Readers, EndRead(r)
    PROVE  CancelInv'
<1>0. /\ TypeOK /\ CountLockHeld /\ WaitersParked /\ CountCoversReaders /\ PermitNotDuplicated
      /\ r \in Tasks /\ r \notin Writers
      /\ UNCHANGED <<readCount, permits, permitWaiters, cancelled>>
  BY TasksAssumption DEF CancelInv, Tasks, EndRead
<1>1. CASE r \notin cancelled
  <2>1. pc[r] = "reading" /\ AcquireCountLock(r, "uncounting", "waitUncount")
    BY <1>1 DEF EndRead
  <2>2. QED
    BY <1>0, <2>1, AcquireCancelInv DEF ParkedForCount
<1>2. CASE r \in cancelled
  <2>1. /\ pc[r] = "reading" /\ pc' = [pc EXCEPT ![r] = "gone"]
        /\ UNCHANGED <<countOwner, countWaiters>>
    BY <1>2 DEF EndRead
  <2>2. \A t \in Tasks : pc'[t] = IF t = r THEN "gone" ELSE pc[t]
    BY <1>0, <2>1 DEF TypeOK
  <2>3. TypeOK'
    BY <1>0, <2>1 DEF TypeOK, ReaderStates
  <2>4. CountLockHeld'
    BY <1>0, <2>1, <2>2 DEF CountLockHeld, OwnsCountLock, Tasks
  <2>5. Parked(countWaiters, ParkedForCount)'
    BY <1>0, <2>1, <2>2, StillParkedForCount DEF TypeOK, WaitersParked, ParkedForCount, Tasks
  <2>6. Parked(permitWaiters, ParkedForPermit)'
    BY <1>0, <2>1, <2>2, StillParked DEF TypeOK, WaitersParked, ParkedForPermit
  <2>7. Cardinality(Counted) \in Nat /\ Cardinality(Counted') = Cardinality(Counted) - 1
    <3>1. r \in Counted /\ Counted' = Counted \ {r}
      BY <2>1, <2>2 DEF Counted, Tasks
    <3>2. QED
      BY <3>1, CountedFinite
  <2>8. CountCoversReaders' /\ ~CountMatchesReaders'
    BY <1>0, <2>7 DEF CountCoversReaders, CountMatchesReaders, TypeOK
  <2>9. PermitHolders' = PermitHolders
    BY <1>0, <2>2 DEF PermitHolders, Tasks
  <2>10. PermitNotDuplicated'
    BY <1>0, <2>8, <2>9, PermitUntouched
  <2>11. QED
    BY <2>3, <2>4, <2>5, <2>6, <2>8, <2>10
    DEF CancelInv, WaitersParked, ParkedForCount, ParkedForPermit
<1>3. QED
  BY <1>1, <1>2

\* The end of the finally block: the permit is released only by the last of the
\* readers, and only if none of them was cancelled.
LEMMA UncountCancelInv ==
    ASSUME CancelInv, NEW r \in Readers, Uncount(r)
    PROVE  CancelInv'
<1>0. /\ TypeOK /\ CountLockHeld /\ WaitersParked /\ CountCoversReaders /\ PermitNotDuplicated
      /\ r \in Tasks /\ r \notin Writers /\ readCount \in Nat
      /\ permitWaiters \in Seq(Tasks)
  BY TasksAssumption DEF CancelInv, Tasks, TypeOK
<1> DEFINE state == Finished(r)
           left == WakeCount([pc EXCEPT ![r] = state])
<1>1. /\ pc[r] = "uncounting" /\ r \in Counted
      /\ readCount' = readCount - 1 /\ cancelled' = cancelled
      /\ ReleaseCountLock
      /\ \/ readCount' = 0 /\ ReleasePermit /\ pc' = WakePermit(left)
         \/ readCount' # 0 /\ pc' = left /\ UNCHANGED <<permits, permitWaiters>>
  BY DEF Uncount, Counted
<1>2. state \in {"idle", "gone"}
  BY DEF Finished
<1> HIDE DEF state
<1>3. pc[r] \in Held \ {"waitPermit"}
  BY <1>1 DEF Held, OwnsCountLock
<1>4. /\ PcTyped(left)
      /\ \A t \in Tasks :
            left[t] = IF countWaiters # <<>> /\ t = Head(countWaiters)
                      THEN IF pc[t] = "waitCount" THEN "counting" ELSE "uncounting"
                      ELSE IF t = r THEN state ELSE pc[t]
      /\ countWaiters # <<>> =>
            /\ Head(countWaiters) \in Readers \ {r}
            /\ pc[Head(countWaiters)] \in ParkedForCount
  <2>1. state \in ReaderStates
    BY <1>2 DEF ReaderStates
  <2>2. QED
    BY <1>0, <1>3, <2>1, ReleaseCountEffect DEF Held, ParkedForCount
<1>5. \A s \in Readers : pc[s] # "waitPermit"
  BY <1>0, <1>1 DEF CountLockHeld, OwnsCountLock
<1>6. \A t \in Tasks : pc[t] \in ParkedForPermit => left[t] = pc[t]
  BY <1>1, <1>4 DEF ParkedForPermit, ParkedForCount
<1>7. readCount > 0 /\ Cardinality(Counted) \in Nat
      /\ Cardinality(Counted \ {r}) = Cardinality(Counted) - 1
  <2>1. Cardinality(Counted) \in Nat /\ (Cardinality(Counted) = 0 <=> Counted = {})
        /\ Cardinality(Counted \ {r}) = Cardinality(Counted) - 1
    BY <1>1, CountedFinite
  <2>2. Cardinality(Counted) # 0
    BY <1>1, <2>1
  <2>3. QED
    BY <1>0, <2>1, <2>2 DEF CountCoversReaders
<1>8. \A w \in Writers : left[w] = pc[w]
  BY <1>0, <1>4, TasksAssumption DEF Tasks
\* What holds of the readers in either case.
<1>9. ASSUME PcTyped(pc'), \A s \in Readers : pc'[s] = left[s]
      PROVE  /\ countOwner' \in Readers \union {NoTask} /\ countWaiters' \in Seq(Readers)
             /\ CountLockHeld'
             /\ Parked(countWaiters, ParkedForCount)'
             /\ Counted' = Counted \ {r}
             /\ \A s \in Readers : pc'[s] # "waitPermit"
  <2>1. state \in {"idle", "reading", "gone"} /\ state # "reading"
    BY <1>2
  <2>2. QED
    BY <1>0, <1>1, <1>3, <1>9, <2>1, CounterReleases
<1> HIDE DEF left
<1>10. CASE readCount' # 0
  <2>1. pc' = left /\ UNCHANGED <<permits, permitWaiters>>
    BY <1>1, <1>10
  <2>2. /\ countOwner' \in Readers \union {NoTask} /\ countWaiters' \in Seq(Readers)
        /\ CountLockHeld'
        /\ Parked(countWaiters, ParkedForCount)'
        /\ Counted' = Counted \ {r}
    BY <1>4, <1>9, <2>1
  <2>3. TypeOK'
    <3>1. readCount' \in Nat /\ permits' \in Nat /\ cancelled' \in SUBSET Tasks
      BY <1>0, <1>1, <1>7, <2>1 DEF TypeOK
    <3>2. QED
      BY <1>0, <1>4, <2>1, <2>2, <3>1 DEF TypeOK, PcTyped
  <2>4. Parked(permitWaiters, ParkedForPermit)'
    BY <1>0, <1>6, <2>1, StillParked DEF WaitersParked, ParkedForPermit
  <2>5. CountCoversReaders' /\ (CountMatchesReaders' <=> CountMatchesReaders)
    BY <1>0, <1>1, <1>7, <2>2 DEF CountCoversReaders, CountMatchesReaders
  <2>6. PermitHolders' = PermitHolders /\ ReadersHoldPermit
    BY <1>5, <1>7, <1>8, <2>1 DEF PermitHolders, ReadersHoldPermit
  <2>7. PermitNotDuplicated'
    BY <1>0, <2>1, <2>5, <2>6, PermitUntouched
  <2>8. QED
    BY <2>2, <2>3, <2>4, <2>5, <2>7
    DEF CancelInv, WaitersParked, ParkedForCount, ParkedForPermit
<1>11. CASE readCount' = 0
  <2>1. ReleasePermit /\ pc' = WakePermit(left)
    BY <1>1, <1>11
  <2>2. permits = 0 /\ PermitHolders = {}
    <3>1. CountMatchesReaders /\ ReadersHoldPermit
      <4>1. readCount = 1 /\ readCount >= Cardinality(Counted) /\ Cardinality(Counted \ {r}) \in Nat
        BY <1>0, <1>1, <1>11, CountedFinite, FS_Subset, FS_CardinalityType DEF CountCoversReaders
      <4>2. QED
        BY <1>5, <1>7, <4>1 DEF CountMatchesReaders, ReadersHoldPermit
    <3>2. QED
      BY <1>0, <3>1 DEF PermitNotDuplicated
  <2>3. \A i \in 1..Len(permitWaiters) : left[permitWaiters[i]] = pc[permitWaiters[i]]
    BY <1>0, <1>6 DEF WaitersParked, Parked, ParkedForPermit
  <2>4. /\ PcTyped(pc')
        /\ permitWaiters' \in Seq(Tasks)
        /\ permits' \in Nat
        /\ Parked(permitWaiters, {"waitPermit", "waitWrite"})'
        /\ permitWaiters = <<>> =>
              permits' = permits + 1 /\ \A t \in Tasks : pc'[t] = left[t]
        /\ permitWaiters # <<>> =>
              LET h == Head(permitWaiters) IN
              /\ permits' = permits
              /\ h \in Tasks
              /\ left[h] = pc[h]
              /\ \/ h \in Writers /\ pc[h] = "waitWrite" /\ pc'[h] = "gotWrite"
                 \/ h \in Readers /\ pc[h] = "waitPermit" /\ pc'[h] = "gotPermit"
              /\ \A t \in Tasks \ {h} : pc'[t] = left[t]
    BY <1>0, <1>4, <2>1, <2>3, ReleasePermitEffect
  <2>5. permitWaiters # <<>> =>
           /\ Head(permitWaiters) \in Writers
           /\ pc'[Head(permitWaiters)] = "gotWrite"
    BY <1>5, <2>4
  <2>6. \A s \in Readers : pc'[s] = left[s]
    BY <2>4, <2>5, TasksAssumption DEF Tasks
  <2>7. /\ countOwner' \in Readers \union {NoTask} /\ countWaiters' \in Seq(Readers)
        /\ CountLockHeld'
        /\ Parked(countWaiters, ParkedForCount)'
        /\ Counted' = Counted \ {r}
    BY <1>9, <2>4, <2>6
  <2>8. TypeOK'
    <3>1. readCount' \in Nat /\ cancelled' \in SUBSET Tasks
      BY <1>0, <1>1, <1>11 DEF TypeOK
    <3>2. QED
      BY <2>4, <2>7, <3>1 DEF TypeOK, PcTyped
  <2>9. CountCoversReaders' /\ ~ReadersHoldPermit'
    BY <1>0, <1>1, <1>7, <1>11, <2>7 DEF CountCoversReaders, ReadersHoldPermit
  <2>10. PermitNotDuplicated'
    <3>1. \A w \in Writers : pc[w] \notin {"gotWrite", "writing"}
      BY <2>2 DEF PermitHolders
    <3>2. CASE permitWaiters = <<>>
      <4>1. PermitHolders' = {} /\ permits' = 1
        BY <1>8, <2>2, <2>4, <3>1, <3>2 DEF PermitHolders, Tasks
      <4>2. QED
        BY <2>9, <4>1 DEF PermitNotDuplicated
    <3>3. CASE permitWaiters # <<>>
      <4>1. PermitHolders' = {Head(permitWaiters)} /\ permits' = 0
        BY <1>8, <2>2, <2>4, <2>5, <3>1, <3>3 DEF PermitHolders, Tasks
      <4>2. QED
        BY <2>9, <4>1 DEF PermitNotDuplicated
    <3>4. QED
      BY <3>2, <3>3
  <2>11. QED
    BY <2>4, <2>7, <2>8, <2>9, <2>10
    DEF CancelInv, WaitersParked, ParkedForCount, ParkedForPermit
<1>12. QED
  BY <1>10, <1>11

\* write_lock() and its exit move no reader but one that is handed the permit.
LEMMA StartWriteCancelInv ==
    ASSUME CancelInv, NEW w \in Writers, StartWrite(w) \/ EnterWrite(w)
    PROVE  CancelInv'
<1>0. /\ TypeOK /\ CountLockHeld /\ WaitersParked /\ CountCoversReaders /\ PermitNotDuplicated
      /\ w \in Tasks /\ w \notin Readers /\ permitWaiters \in Seq(Tasks)
      /\ UNCHANGED <<readCount, countOwner, countWaiters, cancelled>>
  BY TasksAssumption DEF CancelInv, Tasks, TypeOK, StartWrite, EnterWrite
<1>1. PICK state \in {"gotWrite", "waitWrite", "writing"} :
         /\ pc' = [pc EXCEPT ![w] = state]
         /\ \/ /\ state = "gotWrite" /\ permits > 0 /\ permits' = permits - 1
               /\ permitWaiters' = permitWaiters /\ pc[w] = "idle"
            \/ /\ state = "waitWrite" /\ permits' = permits
               /\ permitWaiters' = Append(permitWaiters, w) /\ pc[w] = "idle"
            \/ /\ state = "writing" /\ UNCHANGED <<permits, permitWaiters>> /\ pc[w] = "gotWrite"
  BY DEF StartWrite, EnterWrite
<1>2. \A t \in Tasks : pc'[t] = IF t = w THEN state ELSE pc[t]
  BY <1>0, <1>1 DEF TypeOK
<1>3. \A r \in Readers : pc'[r] = pc[r]
  BY <1>0, <1>2 DEF Tasks
<1>4. /\ Counted' = Counted /\ CountCoversReaders' /\ (CountMatchesReaders' <=> CountMatchesReaders)
      /\ ReadersHoldPermit' <=> ReadersHoldPermit
  BY <1>0, <1>3 DEF Counted, CountCoversReaders, CountMatchesReaders, ReadersHoldPermit
<1>5. CountLockHeld'
  BY <1>0, <1>3 DEF CountLockHeld
<1>6. Parked(countWaiters, ParkedForCount)'
  BY <1>0, <1>3, StillParkedForCount DEF TypeOK, WaitersParked, ParkedForCount
<1>7. permitWaiters' \in Seq(Tasks) /\ Parked(permitWaiters, ParkedForPermit)'
  <2>0. Parked(permitWaiters, ParkedForPermit) /\ pc[w] \notin ParkedForPermit
    BY <1>0, <1>1 DEF WaitersParked, ParkedForPermit
  <2>1. CASE permitWaiters' = permitWaiters
    BY <1>0, <1>2, <2>0, <2>1, StillParked DEF ParkedForPermit
  <2>2. CASE permitWaiters' = Append(permitWaiters, w) /\ state = "waitWrite"
    <3>1. /\ permitWaiters' \in Seq(Tasks)
          /\ Len(permitWaiters') = Len(permitWaiters) + 1
          /\ \A i \in 1..Len(permitWaiters) :
                permitWaiters'[i] = permitWaiters[i] /\ permitWaiters[i] # w
          /\ permitWaiters'[Len(permitWaiters) + 1] = w
      <4>1. /\ Append(permitWaiters, w) \in Seq(Tasks)
            /\ Len(Append(permitWaiters, w)) = Len(permitWaiters) + 1
            /\ \A i \in 1..Len(permitWaiters) :
                  Append(permitWaiters, w)[i] = permitWaiters[i] /\ permitWaiters[i] # w
            /\ Append(permitWaiters, w)[Len(permitWaiters) + 1] = w
        BY <1>0, <2>0, ParkedAppend
      <4>2. QED
        BY <2>2, <4>1
    <3>2. Len(permitWaiters) \in Nat
      BY <1>0
    <3>3. \A i \in 1..Len(permitWaiters) :
             permitWaiters[i] \in Tasks /\ pc[permitWaiters[i]] \in ParkedForPermit
      BY <1>0, <2>0 DEF Parked
    <3>4. \A i \in 1..Len(permitWaiters) : pc'[permitWaiters[i]] = pc[permitWaiters[i]]
      BY <1>2, <3>1, <3>3
    <3>5. pc'[w] \in ParkedForPermit
      BY <1>0, <1>2, <2>2 DEF ParkedForPermit
    <3>6. QED
      BY <2>0, <3>1, <3>2, <3>3, <3>4, <3>5 DEF Parked
  <2>3. QED
    BY <1>1, <2>1, <2>2
<1>8. TypeOK'
  <2>1. permits' \in Nat
    BY <1>0, <1>1 DEF TypeOK
  <2>2. QED
    BY <1>0, <1>1, <1>7, <2>1 DEF TypeOK, WriterStates
<1>9. PermitNotDuplicated'
  <2>1. CASE state = "gotWrite"
    <3>1. permits = 1 /\ permits' = 0 /\ PermitHolders = {}
      BY <1>0, <1>1, <2>1 DEF PermitNotDuplicated
    <3>2. PermitHolders' = {w}
      BY <1>0, <1>2, <2>1, <3>1 DEF PermitHolders, Tasks
    <3>3. QED
      BY <1>0, <1>4, <3>1, <3>2 DEF PermitNotDuplicated
  <2>2. CASE state # "gotWrite"
    <3>1. PermitHolders' = PermitHolders /\ permits' = permits
      BY <1>0, <1>1, <1>2, <2>2 DEF PermitHolders, Tasks
    <3>2. QED
      BY <1>0, <1>4, <3>1, PermitUntouched
  <2>3. QED
    BY <2>1, <2>2
<1>10. QED
  BY <1>4, <1>5, <1>6, <1>7, <1>8, <1>9 DEF CancelInv, WaitersParked, ParkedForCount, ParkedForPermit

\* A writer gives the permit back, or straight to the first in the queue.
LEMMA EndWriteCancelInv ==
    ASSUME CancelInv, NEW w \in Writers, EndWrite(w)
    PROVE  CancelInv'
<1>0. /\ TypeOK /\ CountLockHeld /\ WaitersParked /\ CountCoversReaders /\ PermitNotDuplicated
      /\ w \in Tasks /\ w \notin Readers /\ permitWaiters \in Seq(Tasks)
  BY TasksAssumption DEF CancelInv, Tasks, TypeOK
<1> DEFINE state == Finished(w)
           p == [pc EXCEPT ![w] = state]
<1>1. /\ pc[w] = "writing" /\ ReleasePermit /\ pc' = WakePermit(p)
      /\ UNCHANGED <<readCount, countOwner, countWaiters, cancelled>>
  BY DEF EndWrite
<1>2. state \in {"idle", "gone"}
  BY DEF Finished
<1> HIDE DEF state
<1>3. PcTyped(p) /\ \A t \in Tasks : p[t] = IF t = w THEN state ELSE pc[t]
  BY <1>0, <1>2 DEF TypeOK, PcTyped, WriterStates
<1>4. \A i \in 1..Len(permitWaiters) : p[permitWaiters[i]] = pc[permitWaiters[i]]
  BY <1>0, <1>1, <1>3 DEF WaitersParked, Parked
<1> HIDE DEF p
<1>5. /\ PcTyped(pc')
      /\ permitWaiters' \in Seq(Tasks)
      /\ permits' \in Nat
      /\ Parked(permitWaiters, {"waitPermit", "waitWrite"})'
      /\ permitWaiters = <<>> =>
            permits' = permits + 1 /\ \A t \in Tasks : pc'[t] = p[t]
      /\ permitWaiters # <<>> =>
            LET h == Head(permitWaiters) IN
            /\ permits' = permits
            /\ h \in Tasks
            /\ p[h] = pc[h]
            /\ \/ h \in Writers /\ pc[h] = "waitWrite" /\ pc'[h] = "gotWrite"
               \/ h \in Readers /\ pc[h] = "waitPermit" /\ pc'[h] = "gotPermit"
            /\ \A t \in Tasks \ {h} : pc'[t] = p[t]
  BY <1>0, <1>1, <1>3, <1>4, ReleasePermitEffect
<1>6. PermitHolders = {w} /\ permits = 0 /\ ~(CountMatchesReaders /\ ReadersHoldPermit)
  BY <1>0, <1>1 DEF PermitNotDuplicated, PermitHolders
<1>7. TypeOK'
  BY <1>0, <1>1, <1>5 DEF TypeOK, PcTyped
<1>8. \A r \in Readers : \/ pc'[r] = pc[r]
                        \/ /\ pc[r] = "waitPermit" /\ pc'[r] = "gotPermit"
                           /\ permitWaiters # <<>> /\ r = Head(permitWaiters)
  <2>1. ASSUME NEW r \in Readers
        PROVE  \/ pc'[r] = pc[r]
               \/ /\ pc[r] = "waitPermit" /\ pc'[r] = "gotPermit"
                  /\ permitWaiters # <<>> /\ r = Head(permitWaiters)
    <3>1. r \in Tasks /\ r # w /\ p[r] = pc[r]
      BY <1>0, <1>3 DEF Tasks
    <3>2. CASE permitWaiters = <<>>
      BY <1>5, <3>1, <3>2
    <3>3. CASE permitWaiters # <<>> /\ r = Head(permitWaiters)
      BY <1>5, <3>3, TasksAssumption
    <3>4. CASE permitWaiters # <<>> /\ r # Head(permitWaiters)
      BY <1>5, <3>1, <3>4
    <3>5. QED
      BY <3>2, <3>3, <3>4
  <2>2. QED
    BY <2>1
<1>9. /\ Counted' = Counted /\ CountCoversReaders' /\ (CountMatchesReaders' <=> CountMatchesReaders)
  BY <1>0, <1>1, <1>8 DEF Counted, CountCoversReaders, CountMatchesReaders
<1>10. CountLockHeld'
  BY <1>0, <1>1, <1>8 DEF CountLockHeld, OwnsCountLock
<1>11. Parked(countWaiters, ParkedForCount)'
  BY <1>0, <1>1, <1>8, StillParkedForCount DEF TypeOK, WaitersParked, ParkedForCount
<1>12. \A v \in Writers \ {w} : p[v] = pc[v] /\ pc[v] \notin {"gotWrite", "writing"}
  BY <1>3, <1>6 DEF PermitHolders, Tasks
<1>13. p[w] \notin {"gotWrite", "writing"}
  BY <1>0, <1>2, <1>3
<1>14. PermitNotDuplicated'
  <2>1. CASE permitWaiters = <<>>
    <3>1. PermitHolders' = {} /\ permits' = 1
      BY <1>5, <1>6, <1>12, <1>13, <2>1 DEF PermitHolders, Tasks
    <3>2. ReadersHoldPermit' <=> ReadersHoldPermit
      BY <1>1, <1>8, <2>1 DEF ReadersHoldPermit
    <3>3. QED
      BY <1>6, <1>9, <3>1, <3>2 DEF PermitNotDuplicated
  <2>2. CASE permitWaiters # <<>> /\ Head(permitWaiters) \in Writers
    <3>1. PermitHolders' = {Head(permitWaiters)} /\ permits' = 0
      BY <1>5, <1>6, <1>12, <1>13, <2>2, TasksAssumption DEF PermitHolders, Tasks
    <3>2. ReadersHoldPermit' <=> ReadersHoldPermit
      BY <1>1, <1>8, <2>2, TasksAssumption DEF ReadersHoldPermit
    <3>3. QED
      BY <1>6, <1>9, <3>1, <3>2 DEF PermitNotDuplicated
  <2>3. CASE permitWaiters # <<>> /\ Head(permitWaiters) \in Readers
    <3>1. PermitHolders' = {} /\ permits' = 0
      BY <1>5, <1>6, <1>12, <1>13, <2>3, TasksAssumption DEF PermitHolders, Tasks
    <3>2. QED
      BY <3>1 DEF PermitNotDuplicated
  <2>4. QED
    BY <1>5, <2>1, <2>2, <2>3
<1>15. QED
  BY <1>5, <1>7, <1>9, <1>10, <1>11, <1>14
  DEF CancelInv, WaitersParked, ParkedForCount, ParkedForPermit

\* Cancellation: a parked task leaves its queue, and a reader that was counted takes
\* its share of _read_count with it.
LEMMA CancelCancelInv ==
    ASSUME CancelInv, NEW t \in Tasks, Cancel(t)
    PROVE  CancelInv'
<1>0. /\ TypeOK /\ CountLockHeld /\ WaitersParked /\ CountCoversReaders /\ PermitNotDuplicated
      /\ permitWaiters \in Seq(Tasks) /\ countWaiters \in Seq(Readers) /\ readCount \in Nat
      /\ UNCHANGED <<readCount, countOwner, permits>>
  BY DEF CancelInv, TypeOK, Cancel
<1> DEFINE state == IF pc[t] \in {"waitCount", "waitUncount", "waitWrite"} THEN "gone"
                    ELSE IF pc[t] = "waitPermit" THEN "unwinding"
                    ELSE pc[t]
<1>1. \A s \in Tasks : pc'[s] = IF s = t THEN state ELSE pc[s]
  BY <1>0 DEF TypeOK, Cancel
<1>2. /\ countWaiters' \in Seq(Readers) /\ permitWaiters' \in Seq(Tasks)
      /\ Parked(countWaiters', ParkedForCount) /\ Parked(permitWaiters', ParkedForPermit)
      /\ \A i \in 1..Len(countWaiters') : countWaiters'[i] # t /\ countWaiters'[i] \in Readers
      /\ \A i \in 1..Len(permitWaiters') : permitWaiters'[i] # t /\ permitWaiters'[i] \in Tasks
  <2>1. countWaiters' = Unpark(countWaiters, t) /\ permitWaiters' = Unpark(permitWaiters, t)
    BY DEF Cancel
  <2>2. Parked(countWaiters, ParkedForCount) /\ Parked(permitWaiters, ParkedForPermit)
    BY <1>0 DEF WaitersParked, ParkedForCount, ParkedForPermit
  <2>3. /\ Unpark(countWaiters, t) \in Seq(Readers)
        /\ Parked(Unpark(countWaiters, t), ParkedForCount)
        /\ \A i \in 1..Len(Unpark(countWaiters, t)) :
              Unpark(countWaiters, t)[i] # t /\ Unpark(countWaiters, t)[i] \in Readers
    BY <1>0, <2>2, UnparkEffect
  <2>4. /\ Unpark(permitWaiters, t) \in Seq(Tasks)
        /\ Parked(Unpark(permitWaiters, t), ParkedForPermit)
        /\ \A i \in 1..Len(Unpark(permitWaiters, t)) :
              Unpark(permitWaiters, t)[i] # t /\ Unpark(permitWaiters, t)[i] \in Tasks
    BY <1>0, <2>2, UnparkEffect
  <2>5. QED
    BY <2>1, <2>3, <2>4
<1>3. Parked(countWaiters, ParkedForCount)' /\ Parked(permitWaiters, ParkedForPermit)'
  BY <1>1, <1>2 DEF Parked, Tasks
<1>4. TypeOK'
  <2>1. pc' \in [Tasks -> ReaderStates \union WriterStates]
    BY <1>0 DEF Cancel, TypeOK, ReaderStates
  <2>2. (\A r \in Readers : pc'[r] \in ReaderStates) /\ (\A w \in Writers : pc'[w] \in WriterStates)
    <3>1. /\ t \in Readers => state \in ReaderStates
          /\ t \in Writers => state \in WriterStates
      BY <1>0 DEF TypeOK, ReaderStates, WriterStates
    <3>2. QED
      BY <1>0, <1>1, <3>1 DEF TypeOK, Tasks
  <2>3. cancelled' \in SUBSET Tasks
    BY <1>0 DEF Cancel, TypeOK
  <2>4. QED
    BY <1>0, <1>2, <2>1, <2>2, <2>3 DEF TypeOK
<1>5. CountLockHeld'
  BY <1>0, <1>1 DEF CountLockHeld, OwnsCountLock, Tasks
<1>6. PermitHolders' = PermitHolders
  BY <1>1 DEF PermitHolders, Tasks
<1>7. CASE t \in Readers /\ pc[t] \in {"waitUncount", "waitPermit"}
  <2>1. t \in Counted /\ Counted' = Counted \ {t}
    BY <1>1, <1>7 DEF Counted, Tasks
  <2>2. Cardinality(Counted) \in Nat /\ Cardinality(Counted \ {t}) = Cardinality(Counted) - 1
    BY <1>7, <2>1, CountedFinite
  <2>3. CountCoversReaders' /\ ~CountMatchesReaders'
    BY <1>0, <2>1, <2>2 DEF CountCoversReaders, CountMatchesReaders
  <2>4. PermitNotDuplicated'
    BY <1>0, <1>6, <2>3, PermitUntouched
  <2>5. QED
    BY <1>3, <1>4, <1>5, <2>3, <2>4 DEF CancelInv, WaitersParked, ParkedForCount, ParkedForPermit
<1>8. CASE ~(t \in Readers /\ pc[t] \in {"waitUncount", "waitPermit"})
  <2>1. Counted' = Counted /\ (ReadersHoldPermit' <=> ReadersHoldPermit)
    BY <1>0, <1>1, <1>8 DEF Counted, ReadersHoldPermit, Tasks
  <2>2. CountCoversReaders' /\ (CountMatchesReaders' <=> CountMatchesReaders)
    BY <1>0, <2>1 DEF CountCoversReaders, CountMatchesReaders
  <2>3. PermitNotDuplicated'
    BY <1>0, <1>6, <2>1, <2>2, PermitUntouched
  <2>4. QED
    BY <1>3, <1>4, <1>5, <2>2, <2>3 DEF CancelInv, WaitersParked, ParkedForCount, ParkedForPermit
<1>9. QED
  BY <1>7, <1>8

\* No step breaks it, cancelled or not.
LEMMA CancelNextInv == CancelInv /\ [CancelNext]_vars => CancelInv'
<1> SUFFICES ASSUME CancelInv, [CancelNext]_vars PROVE CancelInv'
  OBVIOUS
<1>1. ASSUME NEW r \in Readers, StartRead(r) PROVE CancelInv'
  BY <1>1, AcquireCancelInv DEF StartRead, ParkedForCount
<1>2. ASSUME NEW r \in Readers, ReaderStep(r) PROVE CancelInv'
  <2>1. CASE EnterRead(r)
    BY <2>1, LeaveEntryCancelInv DEF EnterRead
  <2>2. QED
    BY <1>2, <2>1, CountCancelInv, EndReadCancelInv, UncountCancelInv DEF ReaderStep
<1>3. ASSUME NEW r \in Readers, Unwind(r) PROVE CancelInv'
  BY <1>3, LeaveEntryCancelInv DEF Unwind
<1>4. ASSUME NEW w \in Writers, StartWrite(w) \/ WriterStep(w) PROVE CancelInv'
  BY <1>4, StartWriteCancelInv, EndWriteCancelInv DEF WriterStep
<1>5. ASSUME NEW t \in Tasks, Cancel(t) PROVE CancelInv'
  BY <1>5, CancelCancelInv
<1>6. CASE UNCHANGED vars
  BY <1>6 DEF vars, CancelInv, TypeOK, CountLockHeld, WaitersParked, Parked, CountCoversReaders,
              PermitNotDuplicated, CountMatchesReaders, PermitHolders, ReadersHoldPermit, Counted
<1>7. QED
  BY <1>1, <1>2, <1>3, <1>4, <1>5, <1>6 DEF CancelNext, Next

\* Whatever is cancelled, and when: the count covers the readers that are counted,
\* and the permit is never there twice.
THEOREM CancelInvariance == CancelSpec => []CancelInv
<1>1. Init => CancelInv
  BY InitCancelInv
<1>2. CancelInv /\ [CancelNext]_vars => CancelInv'
  BY CancelNextInv
<1>3. QED
  BY <1>1, <1>2, PTL DEF CancelSpec

\* Two collections never overlap, for any number of readers and writers of which
\* any may be cancelled anywhere.
THEOREM WritersExclusive == CancelSpec => []OneWriter
<1>1. CancelInv => OneWriter
  BY DEF CancelInv, PermitNotDuplicated, OneWriter, PermitHolders, Writing
<1>2. QED
  BY <1>1, CancelInvariance, PTL
====
