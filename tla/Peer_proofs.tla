----------------------------- MODULE Peer_proofs ------------------------------
(***************************************************************************)
(* Theorems about a peer.  First about its life cycle: what a stopped peer *)
(* holds and what a running one has, for every set of background tasks and *)
(* requests, whichever of them fail and whenever close() is cancelled.     *)
(* Then about the loops in its background: pings in time and one task for  *)
(* each, streams that go in time, a warm-up that leaves nobody out, for    *)
(* every number of peers, permits and streams and every interval.  Last,   *)
(* about its calls for providers, whatever records the routers answer.     *)
(***************************************************************************)
EXTENDS PeerLifecycle, Upkeep, FiniteSetTheorems, SequenceTheorems, Induction,
        TLAPS

-----------------------------------------------------------------------------
(* The life cycle                                                          *)

\* A nursery that is not open has nothing in it.
ClosedIsEmpty == nursery # "open" => children = {} /\ provides = {}

\* What start() has acquired at each of its awaits.
StartProgress ==
    /\ pc = "creating" => state = "starting" /\ nursery # "open" /\ ~host
    /\ pc \in {"exchange", "pubsub"} =>
           state = "starting" /\ nursery = "open" /\ host /\ scope = "open"
    /\ pc = "exchange" => Endless \intersect Early \subseteq children
    /\ pc = "pubsub" => parts /\ Endless \subseteq children

\* What close() has still to release at each of its awaits.
CloseProgress ==
    /\ pc = "exitNursery" => state = "stopping" /\ nursery = "open" /\ host
    /\ pc = "exitHost" => state = "stopping" /\ nursery # "open"
    /\ pc = "stopParts" => state = "stopping" /\ nursery # "open" /\ ~host

\* Outside a call the peer is running, or it holds nothing.
Rest == pc = "out" => state = "running" \/ (nursery # "open" /\ ~host)

IInv ==
    /\ TypeOK /\ RunningIsComplete
    /\ ClosedIsEmpty /\ StartProgress /\ CloseProgress /\ Rest

\* The initial states satisfy the invariant.
LEMMA InitIInv == Init => IInv
<1> SUFFICES ASSUME Init PROVE IInv
  OBVIOUS
<1>1. TypeOK
  <2>1. wasRunning \in BOOLEAN /\ host \in BOOLEAN /\ parts \in BOOLEAN
    BY DEF Init
  <2>2. request \in [Requests -> {"idle", "storing", "returned", "raised"}]
    BY DEF Init
  <2>3. starts \in 0..MaxStarts
    BY LifecycleAssumption DEF LifecycleAssumption, Init
  <2>4. /\ state \in PeerState /\ pc \in Awaits
        /\ nursery \in {"none", "open", "closed"} /\ scope \in {"open", "failed", "cancelled"}
        /\ children \subseteq Children /\ provides \subseteq Requests
    BY DEF Init, PeerState, Awaits
  <2> QED
    BY <2>1, <2>2, <2>3, <2>4 DEF TypeOK
<1>2. state # "running" /\ pc = "out" /\ nursery # "open" /\ ~host
  BY DEF Init
<1>3. children = {} /\ provides = {}
  BY DEF Init
<1> QED
  BY <1>1, <1>2, <1>3
  DEF IInv, RunningIsComplete, ClosedIsEmpty, StartProgress, CloseProgress, Rest

\* The calls of start() and close(), and the steps of start(), preserve it.
LEMMA StartIInv ==
  ASSUME IInv, StartCall \/ HostRuns \/ ExchangeStarts \/ Started
               \/ StartFails \/ StartCancelled \/ CloseCall
  PROVE  IInv'
<1>1. CASE StartCall
  <2>1. starts' \in 0..MaxStarts
    BY <1>1, LifecycleAssumption DEF StartCall, IInv, TypeOK, LifecycleAssumption
  <2> QED
    BY <1>1, <2>1 DEF StartCall, IInv, TypeOK, RunningIsComplete, ClosedIsEmpty, StartProgress,
           CloseProgress, Rest, PeerState, Awaits, resources, nurseryVars
<1>2. CASE HostRuns
  BY <1>2 DEF HostRuns, IInv, TypeOK, RunningIsComplete, ClosedIsEmpty, StartProgress,
         CloseProgress, Rest, PeerState, Awaits, Children
<1>3. CASE ExchangeStarts
  BY <1>3, LifecycleAssumption
  DEF LifecycleAssumption, ExchangeStarts, IInv, TypeOK, RunningIsComplete, ClosedIsEmpty,
      StartProgress, CloseProgress, Rest, PeerState, Awaits, Children
<1>4. CASE Started
  BY <1>4 DEF Started, IInv, TypeOK, RunningIsComplete, ClosedIsEmpty, StartProgress,
         CloseProgress, Rest, PeerState, Awaits, Children, resources, nurseryVars
<1>5. CASE StartFails
  BY <1>5 DEF StartFails, FirstExit, IInv, TypeOK, RunningIsComplete, ClosedIsEmpty,
         StartProgress, CloseProgress, Rest, PeerState, Awaits, Children, resources, nurseryVars
<1>6. CASE StartCancelled
  BY <1>6 DEF StartCancelled, IInv, TypeOK, RunningIsComplete, ClosedIsEmpty, StartProgress,
         CloseProgress, Rest, PeerState, Awaits, Children, resources, nurseryVars
<1>7. CASE CloseCall
  BY <1>7 DEF CloseCall, FirstExit, IInv, TypeOK, RunningIsComplete, ClosedIsEmpty,
         StartProgress, CloseProgress, Rest, PeerState, Awaits, Children, resources, nurseryVars
<1> QED BY <1>1, <1>2, <1>3, <1>4, <1>5, <1>6, <1>7

\* The steps of close() preserve it, and so does its cancellation.
LEMMA CloseIInv ==
  ASSUME IInv, ExitNursery \/ ExitHost \/ StopParts \/ CancelOwner
  PROVE  IInv'
<1>1. CASE ExitNursery
  BY <1>1 DEF ExitNursery, IInv, TypeOK, RunningIsComplete, ClosedIsEmpty, StartProgress,
         CloseProgress, Rest, PeerState, Awaits, Children, resources
<1>2. CASE ExitHost
  BY <1>2 DEF ExitHost, IInv, TypeOK, RunningIsComplete, ClosedIsEmpty, StartProgress,
         CloseProgress, Rest, PeerState, Awaits, Children, nurseryVars
<1>3. CASE StopParts
  BY <1>3 DEF StopParts, IInv, TypeOK, RunningIsComplete, ClosedIsEmpty, StartProgress,
         CloseProgress, Rest, PeerState, Awaits, Children, nurseryVars
<1>4. CASE CancelOwner
  BY <1>4 DEF CancelOwner, IInv, TypeOK, RunningIsComplete, ClosedIsEmpty, StartProgress,
         CloseProgress, Rest, PeerState, Awaits, Children, ownerVars, resources
<1> QED BY <1>1, <1>2, <1>3, <1>4

\* The background tasks and the requests preserve it: what never ends of itself
\* ends only in a nursery that is cancelled, and a task that fails cancels it.
LEMMA TasksIInv ==
  ASSUME IInv,
         \/ \E c \in Children : ChildEnds(c) \/ ChildRaises(c)
         \/ \E r \in Requests : AddCall(r) \/ AddStored(r) \/ ProvideEnds(r)
  PROVE  IInv'
<1>1. CASE \E c \in Children : ChildEnds(c) \/ ChildRaises(c)
  <2> PICK c \in Children : ChildEnds(c) \/ ChildRaises(c)
    BY <1>1
  <2>1. CASE ChildEnds(c)
    BY <2>1 DEF ChildEnds, IInv, TypeOK, RunningIsComplete, ClosedIsEmpty, StartProgress,
           CloseProgress, Rest, PeerState, Awaits, Children, ownerVars, resources
  <2>2. CASE ChildRaises(c)
    BY <2>2 DEF ChildRaises, IInv, TypeOK, RunningIsComplete, ClosedIsEmpty, StartProgress,
           CloseProgress, Rest, PeerState, Awaits, Children, ownerVars, resources
  <2> QED BY <2>1, <2>2
<1>2. CASE \E r \in Requests : AddCall(r) \/ AddStored(r) \/ ProvideEnds(r)
  <2> PICK r \in Requests : AddCall(r) \/ AddStored(r) \/ ProvideEnds(r)
    BY <1>2
  <2>1. CASE AddCall(r)
    BY <2>1 DEF AddCall, IInv, TypeOK, RunningIsComplete, ClosedIsEmpty, StartProgress,
           CloseProgress, Rest, ownerVars, resources, nurseryVars
  <2>2. CASE AddStored(r)
    BY <2>2 DEF AddStored, IInv, TypeOK, RunningIsComplete, ClosedIsEmpty, StartProgress,
           CloseProgress, Rest, ownerVars, resources
  <2>3. CASE ProvideEnds(r)
    BY <2>3 DEF ProvideEnds, IInv, TypeOK, RunningIsComplete, ClosedIsEmpty, StartProgress,
           CloseProgress, Rest, ownerVars, resources
  <2> QED BY <2>1, <2>2, <2>3
<1> QED BY <1>1, <1>2

\* The invariant holds in every reachable state.
THEOREM Invariance == Spec => []IInv
<1>1. IInv /\ [Next]_vars => IInv'
  <2> SUFFICES ASSUME IInv, [Next]_vars PROVE IInv'
    OBVIOUS
  <2>1. CASE UNCHANGED vars
    BY <2>1 DEF vars, ownerVars, resources, nurseryVars, IInv, TypeOK, RunningIsComplete,
           ClosedIsEmpty, StartProgress, CloseProgress, Rest
  <2>2. CASE Next
    BY <2>2, StartIInv, CloseIInv, TasksIInv DEF Next, OwnerStep
  <2> QED BY <2>1, <2>2
<1> QED BY <1>1, InitIInv, PTL DEF Spec

\* The variables keep their types.
THEOREM TypeCorrect == Spec => []TypeOK
<1>1. IInv => TypeOK
  BY DEF IInv
<1> QED BY <1>1, Invariance, PTL

\* A peer that says it is stopped holds no task, no provide, no open nursery and
\* no running host, whatever failed or was cancelled on the way.
THEOREM StoppedQuiet == Spec => []StoppedIsQuiet
<1>1. IInv => StoppedIsQuiet
  BY DEF IInv, Rest, ClosedIsEmpty, StoppedIsQuiet
<1> QED BY <1>1, Invariance, PTL

\* A peer that says it is running has its host, its exchange, an open nursery, and
\* all its endless tasks unless one of them failed.
THEOREM RunningComplete == Spec => []RunningIsComplete
<1>1. IInv => RunningIsComplete
  BY DEF IInv
<1> QED BY <1>1, Invariance, PTL

-----------------------------------------------------------------------------
(* Sequences without repetition                                            *)

LEMMA InjectiveAppend ==
    ASSUME NEW S, NEW s \in Seq(S), NEW x \in S
    PROVE  /\ Append(s, x) \in Seq(S) /\ Len(Append(s, x)) = Len(s) + 1 /\ Len(s) \in Nat
           /\ ToSet(Append(s, x)) = ToSet(s) \cup {x}
           /\ IsInjective(s) /\ x \notin ToSet(s) => IsInjective(Append(s, x))
<1>1. /\ Append(s, x) \in Seq(S) /\ Len(Append(s, x)) = Len(s) + 1 /\ Len(s) \in Nat
      /\ DOMAIN s = 1..Len(s) /\ DOMAIN Append(s, x) = 1..(Len(s) + 1)
      /\ \A i \in 1..Len(s) : Append(s, x)[i] = s[i]
      /\ Append(s, x)[Len(s) + 1] = x
  BY AppendProperties, LenProperties
<1>2. ToSet(Append(s, x)) = ToSet(s) \cup {x}
  BY <1>1 DEF ToSet
<1>3. ASSUME IsInjective(s), x \notin ToSet(s) PROVE IsInjective(Append(s, x))
  BY <1>1, <1>3 DEF IsInjective, ToSet
<1>4. QED
  BY <1>1, <1>2, <1>3

LEMMA InjectiveTail ==
    ASSUME NEW S, NEW s \in Seq(S), s # <<>>
    PROVE  /\ Head(s) \in S /\ Head(s) = s[1] /\ Tail(s) \in Seq(S)
           /\ Len(s) \in Nat \ {0} /\ Len(Tail(s)) = Len(s) - 1
           /\ \A i \in 1..(Len(s) - 1) : Tail(s)[i] = s[i + 1]
           /\ ToSet(s) = ToSet(Tail(s)) \cup {Head(s)}
           /\ IsInjective(s) => IsInjective(Tail(s)) /\ Head(s) \notin ToSet(Tail(s))
<1>1. /\ Head(s) \in S /\ Tail(s) \in Seq(S) /\ Len(Tail(s)) = Len(s) - 1
      /\ Head(s) = s[1] /\ \A i \in 1..(Len(s) - 1) : Tail(s)[i] = s[i + 1]
      /\ Len(s) \in Nat \ {0}
  BY HeadTailProperties, EmptySeq
<1>2. DOMAIN s = 1..Len(s) /\ DOMAIN Tail(s) = 1..(Len(s) - 1)
  BY <1>1, LenProperties
<1>3. ToSet(s) = ToSet(Tail(s)) \cup {Head(s)}
  <2>1. ASSUME NEW i \in 1..Len(s) PROVE s[i] \in ToSet(Tail(s)) \cup {Head(s)}
    <3>1. CASE i = 1
      BY <1>1, <3>1
    <3>2. CASE i # 1
      <4>1. i - 1 \in DOMAIN Tail(s) /\ Tail(s)[i - 1] = s[i]
        BY <1>1, <1>2, <3>2
      <4>2. QED
        BY <4>1 DEF ToSet
    <3>3. QED
      BY <3>1, <3>2
  <2>2. ToSet(Tail(s)) \subseteq ToSet(s) /\ Head(s) \in ToSet(s)
    BY <1>1, <1>2 DEF ToSet
  <2>3. QED
    BY <1>2, <2>1, <2>2 DEF ToSet
<1>4. ASSUME IsInjective(s) PROVE IsInjective(Tail(s)) /\ Head(s) \notin ToSet(Tail(s))
  BY <1>1, <1>2, <1>4 DEF IsInjective, ToSet
<1>5. QED
  BY <1>1, <1>3, <1>4

LEMMA InjectiveConcat ==
    ASSUME NEW S, NEW a \in Seq(S), NEW b \in Seq(S)
    PROVE  /\ a \o b \in Seq(S) /\ Len(a \o b) = Len(a) + Len(b)
           /\ Len(a) \in Nat /\ Len(b) \in Nat
           /\ \A i \in 1..Len(a) : (a \o b)[i] = a[i]
           /\ ToSet(a \o b) = ToSet(a) \cup ToSet(b)
           /\ IsInjective(a \o b) <=>
                IsInjective(a) /\ IsInjective(b) /\ ToSet(a) \cap ToSet(b) = {}
<1>1. Len(a) \in Nat /\ Len(b) \in Nat /\ DOMAIN a = 1..Len(a) /\ DOMAIN b = 1..Len(b)
  BY LenProperties
<1>2. /\ a \o b \in Seq(S) /\ Len(a \o b) = Len(a) + Len(b)
      /\ \A i \in 1..(Len(a) + Len(b)) :
            (a \o b)[i] = IF i <= Len(a) THEN a[i] ELSE b[i - Len(a)]
  BY ConcatProperties
<1>3. DOMAIN (a \o b) = 1..(Len(a) + Len(b))
  BY <1>2, LenProperties
<1>4. \A i \in 1..Len(a) : i \in 1..(Len(a) + Len(b)) /\ (a \o b)[i] = a[i]
  BY <1>1, <1>2
<1>5. \A i \in 1..Len(b) : Len(a) + i \in 1..(Len(a) + Len(b)) /\ (a \o b)[Len(a) + i] = b[i]
  BY <1>1, <1>2
<1>6. \A i \in 1..(Len(a) + Len(b)) : i \in 1..Len(a) \/ \E j \in 1..Len(b) : i = Len(a) + j
  <2> SUFFICES ASSUME NEW i \in 1..(Len(a) + Len(b)), i \notin 1..Len(a)
               PROVE  \E j \in 1..Len(b) : i = Len(a) + j
    OBVIOUS
  <2>1. i - Len(a) \in 1..Len(b) /\ i = Len(a) + (i - Len(a))
    BY <1>1
  <2>2. QED
    BY <2>1
<1>7. ToSet(a \o b) = ToSet(a) \cup ToSet(b)
  <2>1. ToSet(a) \cup ToSet(b) \subseteq ToSet(a \o b)
    <3>1. \A i \in 1..Len(a) : a[i] \in ToSet(a \o b)
      BY <1>3, <1>4 DEF ToSet
    <3>2. \A i \in 1..Len(b) : b[i] \in ToSet(a \o b)
      BY <1>3, <1>5 DEF ToSet
    <3> DEFINE all == ToSet(a \o b)
    <3>3. (\A i \in 1..Len(a) : a[i] \in all) /\ (\A i \in 1..Len(b) : b[i] \in all)
      BY <3>1, <3>2
    <3> HIDE DEF all
    <3>4. ToSet(a) \cup ToSet(b) \subseteq all
      BY <1>1, <3>3 DEF ToSet
    <3>5. QED
      BY <3>4 DEF all
  <2>2. ToSet(a \o b) \subseteq ToSet(a) \cup ToSet(b)
    <3> DEFINE all == ToSet(a) \cup ToSet(b)
    <3>1. (\A i \in 1..Len(a) : a[i] \in all) /\ (\A i \in 1..Len(b) : b[i] \in all)
      BY <1>1 DEF ToSet
    <3> HIDE DEF all
    <3>2. \A i \in 1..(Len(a) + Len(b)) : (a \o b)[i] \in all
      BY <1>4, <1>5, <1>6, <3>1
    <3>3. ToSet(a \o b) \subseteq all
      BY <1>3, <3>2 DEF ToSet
    <3>4. QED
      BY <3>3 DEF all
  <2>3. QED
    BY <2>1, <2>2
<1>8. ASSUME IsInjective(a \o b)
      PROVE  IsInjective(a) /\ IsInjective(b) /\ ToSet(a) \cap ToSet(b) = {}
  <2>1. IsInjective(a)
    BY <1>1, <1>3, <1>4, <1>8 DEF IsInjective
  <2>2. \A i, j \in 1..Len(b) : Len(a) + i = Len(a) + j => i = j
    BY <1>1
  <2>3. IsInjective(b)
    BY <1>1, <1>3, <1>5, <1>8, <2>2 DEF IsInjective
  <2>4. \A i \in 1..Len(a), j \in 1..Len(b) : i # Len(a) + j
    BY <1>1
  <2>5. \A i \in 1..Len(a), j \in 1..Len(b) : a[i] # b[j]
    BY <1>3, <1>4, <1>5, <1>8, <2>4 DEF IsInjective
  <2>6. QED
    BY <1>1, <2>1, <2>3, <2>5 DEF ToSet
<1>9. ASSUME IsInjective(a), IsInjective(b), ToSet(a) \cap ToSet(b) = {}
      PROVE  IsInjective(a \o b)
  <2>1. \A i \in 1..Len(a), j \in 1..Len(b) : a[i] # b[j]
    BY <1>1, <1>9 DEF ToSet
  <2>2. SUFFICES ASSUME NEW i \in 1..(Len(a) + Len(b)), NEW j \in 1..(Len(a) + Len(b)),
                        (a \o b)[i] = (a \o b)[j]
                 PROVE  i = j
    BY <1>3 DEF IsInjective
  <2>3. CASE i \in 1..Len(a) /\ j \in 1..Len(a)
    BY <1>1, <1>4, <1>9, <2>2, <2>3 DEF IsInjective
  <2>4. CASE \E m, n \in 1..Len(b) : i = Len(a) + m /\ j = Len(a) + n
    <3>1. PICK m, n \in 1..Len(b) : i = Len(a) + m /\ j = Len(a) + n
      BY <2>4
    <3>2. b[m] = b[n]
      BY <1>5, <2>2, <3>1
    <3>3. QED
      BY <1>1, <1>9, <3>1, <3>2 DEF IsInjective
  <2>5. CASE \E n \in 1..Len(b) : i \in 1..Len(a) /\ j = Len(a) + n
    BY <1>4, <1>5, <2>1, <2>2, <2>5
  <2>6. CASE \E m \in 1..Len(b) : i = Len(a) + m /\ j \in 1..Len(a)
    BY <1>4, <1>5, <2>1, <2>2, <2>6
  <2>7. QED
    BY <1>6, <2>3, <2>4, <2>5, <2>6
<1>10. QED
  BY <1>1, <1>2, <1>4, <1>7, <1>8, <1>9

\* A sequence without its k-th element.
LEMMA Removal ==
    ASSUME NEW S, NEW q \in Seq(S), NEW k \in 1..Len(q)
    PROVE  /\ RemoveAt(q, k) \in Seq(S) /\ Len(RemoveAt(q, k)) = Len(q) - 1 /\ Len(q) \in Nat
           /\ \A i \in 1..(Len(q) - 1) : RemoveAt(q, k)[i] = IF i < k THEN q[i] ELSE q[i + 1]
<1> DEFINE a == SubSeq(q, 1, k - 1)
           b == SubSeq(q, k + 1, Len(q))
<1>1. Len(q) \in Nat /\ \A i \in 1..Len(q) : q[i] \in S
  BY LenProperties, ElementOfSeq
<1>2. /\ a \in Seq(S) /\ Len(a) = k - 1 /\ \A i \in 1..(k - 1) : a[i] = q[i]
  BY <1>1
<1>3. /\ b \in Seq(S) /\ Len(b) = Len(q) - k /\ \A i \in 1..(Len(q) - k) : b[i] = q[i + k]
  BY <1>1
<1>4. RemoveAt(q, k) = a \o b
  BY DEF RemoveAt
<1> HIDE DEF a, b
<1>5. /\ a \o b \in Seq(S) /\ Len(a \o b) = Len(q) - 1
      /\ \A i \in 1..(Len(q) - 1) : (a \o b)[i] = IF i < k THEN a[i] ELSE b[i - (k - 1)]
  BY <1>1, <1>2, <1>3, ConcatProperties
<1>6. ASSUME NEW i \in 1..(Len(q) - 1)
      PROVE  RemoveAt(q, k)[i] = IF i < k THEN q[i] ELSE q[i + 1]
  <2>1. CASE i < k
    BY <1>1, <1>2, <1>4, <1>5, <2>1
  <2>2. CASE ~(i < k)
    <3>1. i - (k - 1) \in 1..(Len(q) - k) /\ i - (k - 1) + k = i + 1
      BY <1>1, <2>2
    <3>2. QED
      BY <1>3, <1>4, <1>5, <2>2, <3>1
  <2>3. QED
    BY <2>1, <2>2
<1>7. QED
  BY <1>1, <1>4, <1>5, <1>6

\* A sequence that has lost one of its elements.
LEMMA InjectiveRemoval ==
    ASSUME NEW S, NEW q \in Seq(S), NEW k \in 1..Len(q), NEW r \in Seq(S), IsInjective(q),
           Len(r) = Len(q) - 1,
           \A i \in 1..(Len(q) - 1) : r[i] = IF i < k THEN q[i] ELSE q[i + 1]
    PROVE  IsInjective(r) /\ ToSet(r) = ToSet(q) \ {q[k]}
<1>1. Len(q) \in Nat /\ DOMAIN q = 1..Len(q) /\ DOMAIN r = 1..(Len(q) - 1)
  BY LenProperties
<1>2. \A i, j \in 1..Len(q) : q[i] = q[j] => i = j
  BY <1>1 DEF IsInjective
<1>3. IsInjective(r)
  <2>1. ASSUME NEW i \in 1..(Len(q) - 1), NEW j \in 1..(Len(q) - 1), r[i] = r[j]
        PROVE  i = j
    <3> DEFINE at(n) == IF n < k THEN n ELSE n + 1
    <3>1. at(i) \in 1..Len(q) /\ at(j) \in 1..Len(q) /\ q[at(i)] = q[at(j)]
      BY <1>1, <2>1
    <3>2. at(i) = at(j)
      BY <1>2, <3>1
    <3>3. QED
      BY <1>1, <3>2
  <2>2. QED
    BY <1>1, <2>1 DEF IsInjective
<1>4. ASSUME NEW i \in 1..(Len(q) - 1) PROVE r[i] \in ToSet(q) /\ r[i] # q[k]
  <2> DEFINE n == IF i < k THEN i ELSE i + 1
  <2>1. n \in 1..Len(q) /\ r[i] = q[n] /\ n # k
    BY <1>1
  <2> HIDE DEF n
  <2>2. QED
    BY <1>1, <1>2, <2>1 DEF ToSet
<1>5. ASSUME NEW n \in 1..Len(q), n # k PROVE q[n] \in ToSet(r)
  <2> DEFINE i == IF n < k THEN n ELSE n - 1
  <2>1. i \in 1..(Len(q) - 1) /\ r[i] = q[n]
    BY <1>1, <1>5
  <2> HIDE DEF i
  <2>2. QED
    BY <1>1, <2>1 DEF ToSet
<1>6. ToSet(r) \subseteq ToSet(q) \ {q[k]}
  <2> DEFINE some == ToSet(q) \ {q[k]}
  <2>1. \A i \in 1..(Len(q) - 1) : r[i] \in some
    BY <1>4
  <2> HIDE DEF some
  <2>2. ToSet(r) \subseteq some
    BY <1>1, <2>1 DEF ToSet
  <2>3. QED
    BY <2>2 DEF some
<1>7. ToSet(q) \ {q[k]} \subseteq ToSet(r)
  <2> DEFINE all == ToSet(r)
  <2>1. \A n \in 1..Len(q) : q[n] \in all \/ q[n] = q[k]
    BY <1>5
  <2> HIDE DEF all
  <2>2. ToSet(q) \ {q[k]} \subseteq all
    BY <1>1, <2>1 DEF ToSet
  <2>3. QED
    BY <2>2 DEF all
<1>8. QED
  BY <1>3, <1>6, <1>7

\* A set has as many elements as a sequence that lists it.
LEMMA InjectiveLength ==
    ASSUME NEW S, NEW s \in Seq(S), IsInjective(s)
    PROVE  IsFiniteSet(ToSet(s)) /\ Cardinality(ToSet(s)) = Len(s)
<1>1. Len(s) \in Nat /\ DOMAIN s = 1..Len(s) /\ s \in [1..Len(s) -> S]
  BY LenProperties
<1>2. s \in Bijection(1..Len(s), ToSet(s))
  BY <1>1 DEF ToSet, IsInjective, Bijection, Injection, Surjection
<1>3. IsFiniteSet(1..Len(s)) /\ Cardinality(1..Len(s)) = Len(s)
  BY <1>1, FS_Interval
<1>4. ExistsBijection(1..Len(s), ToSet(s))
  BY <1>2 DEF ExistsBijection
<1>5. QED
  BY <1>3, <1>4, FS_Bijection

\* The orders in which a sweep may take a set, or the warm-up its candidates.
LEMMA Orders ==
    ASSUME NEW S, IsFiniteSet(S), NEW order \in SetToSeqs(S)
    PROVE  /\ order \in Seq(S) /\ IsInjective(order) /\ ToSet(order) = S
           /\ Len(order) = Cardinality(S)
<1> DEFINE n == Cardinality(S)
<1>1. n \in Nat
  BY FS_CardinalityType
<1>2. order \in [1..n -> S] /\ \A i, j \in 1..n : i # j => order[i] # order[j]
  BY DEF SetToSeqs
<1> HIDE DEF n
<1>3. order \in Seq(S) /\ Len(order) = n /\ DOMAIN order = 1..n
  BY <1>1, <1>2
<1>4. IsInjective(order) /\ ToSet(order) \subseteq S
  BY <1>2, <1>3 DEF IsInjective, ToSet
<1>5. Cardinality(ToSet(order)) = Cardinality(S)
  BY <1>3, <1>4, InjectiveLength DEF n
<1>6. QED
  BY <1>3, <1>4, <1>5, FS_Subset DEF n

-----------------------------------------------------------------------------
(* The keep-alive                                                          *)

PeersOf(q) == [i \in DOMAIN q |-> q[i].peer]
Pinged == PeersOf(pinging)

\* How many timeouts pass until each of n tasks has held a permit, and how many
\* sweeps and timeouts a task has had when it ends.
Rounds(n) == (n + Permits - 1) \div Permits

\* Each list of tasks has a peer once, no two have a peer in common, and a peer in
\* one of them is in flight.
PingTasks ==
    /\ IsInjective(waiting) /\ IsInjective(Pinged) /\ IsInjective(spacing)
    /\ ToSet(waiting) \cap ToSet(Pinged) = {}
    /\ (ToSet(waiting) \cup ToSet(Pinged)) \cap ToSet(spacing) = {}
    /\ inflight = ToSet(waiting) \cup ToSet(Pinged) \cup ToSet(spacing)

\* The tasks that have just got a permit, and those that get theirs no later than
\* the i-th of those that wait.
Fresh == {pinging[k].peer : k \in {k \in DOMAIN pinging : pinging[k].age = 0}}
Ahead(i) == {waiting[k] : k \in 1..i} \cup Fresh

\* A peer that no task is there for has not been without a ping for longer than the
\* loop knows, and is looked at again in the next sweep.
UntilSwept ==
    \A p \in Peers :
        /\ p \notin connected => unpinged[p] = 0
        /\ p \in connected \ inflight =>
              unpinged[p] <= lastPing[p] /\ unpinged[p] + sweepIn <= 2 * Sweep

\* There is time left for those before a peer that waits, for the ping of one that
\* is pinged, and none has passed for one whose ping is over.
UntilPinged ==
    /\ \A i \in DOMAIN waiting : unpinged[waiting[i]] + Rounds(Cardinality(Ahead(i))) <= PingGap
    /\ \A i \in DOMAIN pinging : unpinged[pinging[i].peer] + (1 - pinging[i].age) <= PingGap
    /\ \A i \in DOMAIN spacing : unpinged[spacing[i]] = 0

PingInv == PingTasks /\ UntilSwept /\ UntilPinged



\* Each timeout of waiting is a round of permits less to wait for.
LEMMA RoundsFacts ==
    /\ \A n \in Nat : Rounds(n) \in Nat /\ Rounds(n + Permits) = Rounds(n) + 1
    /\ \A n \in Nat \ {0} : Rounds(n) >= 1
    /\ \A m, n \in Nat : m <= n => Rounds(m) <= Rounds(n)
<1>1. Permits \in Nat \ {0}
  BY UpkeepAssumption
<1>2. \A n \in Nat : n \div Permits \in Nat /\ (n + Permits) \div Permits = (n \div Permits) + 1
  BY <1>1
<1>3. \A m, n \in Nat : m <= n => (m \div Permits) <= (n \div Permits)
  BY <1>1
<1>4. \A n \in Nat : n >= Permits => (n \div Permits) >= 1
  BY <1>1
<1>5. \A n \in Nat : /\ n + Permits - 1 \in Nat
                     /\ n + Permits + Permits - 1 = (n + Permits - 1) + Permits
  BY <1>1
<1>6. \A n \in Nat : Rounds(n) \in Nat /\ Rounds(n + Permits) = Rounds(n) + 1
  BY <1>2, <1>5 DEF Rounds
<1>7. \A n \in Nat \ {0} : Rounds(n) >= 1
  BY <1>1, <1>4, <1>5 DEF Rounds
<1>8. \A m, n \in Nat : m <= n => Rounds(m) <= Rounds(n)
  BY <1>1, <1>3, <1>5 DEF Rounds
<1>9. QED
  BY <1>6, <1>7, <1>8

LEMMA Gaps ==
    /\ PingGap \in Nat /\ PingGap = 2 * Sweep + Rounds(Cardinality(Peers))
    /\ Cardinality(Peers) \in Nat /\ Sweep \in Nat \ {0} /\ Permits \in Nat \ {0}
    /\ 2 * Sweep <= PingGap
    /\ StreamGap \in Nat /\ StreamGap = Threshold + Interval
    /\ Threshold \in Nat /\ Interval \in Nat
<1>1. Cardinality(Peers) \in Nat
  BY FS_CardinalityType, UpkeepAssumption
<1>2. Rounds(Cardinality(Peers)) \in Nat
  BY <1>1, RoundsFacts
<1>3. PingGap = 2 * Sweep + Rounds(Cardinality(Peers))
  BY DEF PingGap, Rounds
<1>4. QED
  BY <1>1, <1>2, <1>3, UpkeepAssumption DEF StreamGap

\* What a sweep passes over was pinged an interval ago or later.
LEMMA DueFacts ==
    ASSUME NEW peers, NEW chosen \in DueSets(peers)
    PROVE  chosen \subseteq peers /\ \A p \in peers \ chosen : ~(lastPing[p] > Sweep)
BY DEF DueSets

LEMMA OlderFacts ==
    ASSUME NEW bound \in Nat, NEW age \in 0..(bound + 1)
    PROVE  /\ Older(age, bound) \in 0..(bound + 1)
           /\ age <= bound => Older(age, bound) = age + 1
           /\ age <= Older(age, bound) /\ Older(age, bound) <= age + 1
BY DEF Older

-----------------------------------------------------------------------------
(* The types                                                               *)

PingTypes ==
    /\ connected \subseteq Peers /\ inflight \subseteq Peers /\ sweepIn \in 0..Sweep
    /\ lastPing \in [Peers -> 0..(PingGap + 1)] /\ unpinged \in [Peers -> 0..(PingGap + 1)]
    /\ waiting \in Seq(Peers) /\ spacing \in Seq(Peers)
    /\ pinging \in Seq([peer : Peers, age : {0, 1}]) /\ Len(pinging) <= Permits

LEMMA PingTypesKept ==
    ASSUME PingTypes, KeepAlive
    PROVE  PingTypes'
<1> DEFINE Ages == 0..(PingGap + 1)
           Tasks == [peer : Peers, age : {0, 1}]
<1>1. /\ connected \subseteq Peers /\ inflight \subseteq Peers /\ sweepIn \in 0..Sweep
      /\ lastPing \in [Peers -> Ages] /\ unpinged \in [Peers -> Ages]
      /\ waiting \in Seq(Peers) /\ spacing \in Seq(Peers)
      /\ pinging \in Seq(Tasks) /\ Len(pinging) <= Permits
  BY DEF PingTypes
<1>2. /\ 0 \in Ages /\ Sweep \in 0..Sweep
      /\ \A age \in Ages : Older(age, PingGap) \in Ages
  BY Gaps DEF Older
<1>3. \A i \in DOMAIN pinging : pinging[i] \in Tasks /\ pinging[i].peer \in Peers
  <2>1. DOMAIN pinging = 1..Len(pinging)
    BY <1>1, LenProperties
  <2> HIDE DEF Tasks
  <2>2. \A i \in DOMAIN pinging : pinging[i] \in Tasks
    BY <1>1, <2>1, ElementOfSeq
  <2>3. QED
    BY <2>2 DEF Tasks
<1>4. SUFFICES /\ connected' \subseteq Peers /\ inflight' \subseteq Peers /\ sweepIn' \in 0..Sweep
               /\ lastPing' \in [Peers -> Ages] /\ unpinged' \in [Peers -> Ages]
               /\ waiting' \in Seq(Peers) /\ spacing' \in Seq(Peers)
               /\ pinging' \in Seq(Tasks) /\ Len(pinging') <= Permits
  BY DEF PingTypes
<1> HIDE DEF Ages
<1>5. CASE \E p \in Peers : Connect(p) \/ Disconnect(p)
  BY <1>1, <1>2, <1>5 DEF Connect, Disconnect
<1>6. CASE PingSweep
  <2>1. PICK chosen \in DueSets(connected \ inflight) :
           /\ inflight' = inflight \cup chosen
           /\ \E order \in SetToSeqs(chosen) : waiting' = waiting \o order
    BY <1>6 DEF PingSweep
  <2>2. chosen \subseteq Peers /\ IsFiniteSet(chosen)
    BY <1>1, <2>1, DueFacts, FS_Subset, UpkeepAssumption
  <2>3. PICK order \in SetToSeqs(chosen) : waiting' = waiting \o order
    BY <2>1
  <2>4. order \in Seq(Peers)
    <3>1. order \in Seq(chosen)
      BY <2>2, <2>3, Orders
    <3>2. QED
      BY <2>2, <3>1
  <2>5. waiting' \in Seq(Peers)
    BY <1>1, <2>3, <2>4, InjectiveConcat
  <2>6. inflight' \subseteq Peers
    BY <1>1, <2>1, <2>2
  <2>7. QED
    BY <1>1, <1>2, <1>6, <2>5, <2>6 DEF PingSweep
<1>7. CASE Acquire
  <2>1. Head(waiting) \in Peers /\ Tail(waiting) \in Seq(Peers)
    BY <1>1, <1>7, InjectiveTail DEF Acquire
  <2>2. [peer |-> Head(waiting), age |-> 0] \in Tasks
    BY <2>1
  <2> HIDE DEF Tasks
  <2>3. pinging' \in Seq(Tasks) /\ Len(pinging') = Len(pinging) + 1 /\ Len(pinging) \in Nat
    BY <1>1, <1>7, <2>2, InjectiveAppend DEF Acquire
  <2>4. Len(pinging') <= Permits
    BY <1>7, <2>3, Gaps DEF Acquire
  <2>5. QED
    BY <1>1, <1>7, <2>1, <2>3, <2>4 DEF Acquire
<1>8. CASE TaskEnds
  <2>1. Tail(spacing) \in Seq(Peers)
    BY <1>1, <1>8, InjectiveTail DEF TaskEnds
  <2>2. QED
    BY <1>1, <1>8, <2>1 DEF TaskEnds
<1>9. CASE PingTick
  <2>1. pinging' \in Seq(Tasks) /\ Len(pinging') = Len(pinging)
    <3>1. Len(pinging) \in Nat /\ DOMAIN pinging = 1..Len(pinging)
      BY <1>1, LenProperties
    <3>2. \A i \in 1..Len(pinging) : [pinging[i] EXCEPT !.age = 1] \in Tasks
      BY <1>3, <3>1
    <3> HIDE DEF Tasks
    <3>3. pinging' = [i \in 1..Len(pinging) |-> [pinging[i] EXCEPT !.age = 1]]
      BY <1>9, <3>1 DEF PingTick
    <3>4. QED
      BY <3>1, <3>2, <3>3
  <2>2. sweepIn' \in 0..Sweep
    BY <1>1, <1>9, Gaps DEF PingTick
  <2>3. QED
    BY <1>1, <1>2, <1>9, <2>1, <2>2 DEF PingTick
<1>10. ASSUME NEW i \in DOMAIN pinging, PingEnds(i) PROVE PingTypes'
  <2>1. i \in 1..Len(pinging) /\ pinging[i].peer \in Peers
    BY <1>1, <1>3, LenProperties
  <2> HIDE DEF Tasks
  <2>2. pinging' \in Seq(Tasks) /\ Len(pinging') = Len(pinging) - 1 /\ Len(pinging) \in Nat
    BY <1>1, <1>10, <2>1, Removal DEF PingEnds
  <2>3. spacing' \in Seq(Peers)
    BY <1>1, <1>10, <2>1, InjectiveAppend DEF PingEnds
  <2>4. Len(pinging') <= Permits
    BY <1>1, <2>2, Gaps
  <2>5. /\ connected' \subseteq Peers /\ inflight' \subseteq Peers /\ sweepIn' \in 0..Sweep
        /\ lastPing' \in [Peers -> Ages] /\ unpinged' \in [Peers -> Ages]
        /\ waiting' \in Seq(Peers)
    BY <1>1, <1>2, <1>10, <2>1 DEF PingEnds
  <2>6. QED
    BY <2>2, <2>3, <2>4, <2>5 DEF PingTypes, Ages, Tasks
<1>11. QED
  BY <1>5, <1>6, <1>7, <1>8, <1>9, <1>10 DEF KeepAlive, PingTypes, Ages

LEMMA PeersOfFacts ==
    ASSUME NEW q \in Seq([peer : Peers, age : {0, 1}])
    PROVE  /\ PeersOf(q) \in Seq(Peers) /\ Len(PeersOf(q)) = Len(q) /\ Len(q) \in Nat
           /\ DOMAIN q = 1..Len(q) /\ DOMAIN PeersOf(q) = 1..Len(q)
           /\ \A i \in 1..Len(q) : /\ PeersOf(q)[i] = q[i].peer
                                   /\ q[i] \in [peer : Peers, age : {0, 1}]
<1> DEFINE Tasks == [peer : Peers, age : {0, 1}]
<1>1. q \in Seq(Tasks)
  OBVIOUS
<1> HIDE DEF Tasks
<1>2. /\ Len(q) \in Nat /\ DOMAIN q = 1..Len(q)
      /\ \A i \in 1..Len(q) : q[i] \in Tasks
  BY <1>1, LenProperties, ElementOfSeq
<1>3. \A i \in 1..Len(q) : q[i] \in [peer : Peers, age : {0, 1}]
  BY <1>2 DEF Tasks
<1>4. PeersOf(q) = [i \in 1..Len(q) |-> q[i].peer]
  BY <1>2 DEF PeersOf
<1>5. PeersOf(q) \in Seq(Peers) /\ Len(PeersOf(q)) = Len(q)
  BY <1>2, <1>3, <1>4
<1>6. QED
  BY <1>2, <1>3, <1>4, <1>5

\* What the steps do to the peers that are pinged.
LEMMA PingedSteps ==
    ASSUME PingTypes, PingTypes'
    PROVE  /\ Acquire => Pinged' = Append(Pinged, Head(waiting))
           /\ PingTick => Pinged' = Pinged
           /\ \A k \in 1..Len(pinging) : PingEnds(k) =>
                 /\ Len(Pinged') = Len(Pinged) - 1
                 /\ \A i \in 1..(Len(Pinged) - 1) :
                       Pinged'[i] = IF i < k THEN Pinged[i] ELSE Pinged[i + 1]
<1> DEFINE Tasks == [peer : Peers, age : {0, 1}]
<1>1. pinging \in Seq(Tasks) /\ waiting \in Seq(Peers) /\ pinging' \in Seq(Tasks)
  BY DEF PingTypes
<1>2. /\ Pinged \in Seq(Peers) /\ Len(Pinged) = Len(pinging)
      /\ Len(pinging) \in Nat /\ DOMAIN pinging = 1..Len(pinging)
      /\ \A i \in 1..Len(pinging) : Pinged[i] = pinging[i].peer
  BY <1>1, PeersOfFacts DEF Pinged
<1>3. /\ Pinged' \in Seq(Peers) /\ Len(Pinged') = Len(pinging')
      /\ DOMAIN pinging' = 1..Len(pinging')
      /\ \A i \in 1..Len(pinging') : Pinged'[i] = pinging'[i].peer
  BY <1>1, PeersOfFacts DEF Pinged
<1>4. ASSUME Acquire PROVE Pinged' = Append(Pinged, Head(waiting))
  <2>1. Head(waiting) \in Peers
    BY <1>1, <1>4, InjectiveTail DEF Acquire
  <2>2. /\ Len(pinging') = Len(pinging) + 1
        /\ \A i \in 1..Len(pinging) : pinging'[i] = pinging[i]
        /\ pinging'[Len(pinging) + 1] = [peer |-> Head(waiting), age |-> 0]
    BY <1>1, <1>4, <2>1, AppendProperties DEF Acquire
  <2>3. QED
    BY <1>2, <1>3, <2>1, <2>2
<1>5. ASSUME PingTick PROVE Pinged' = Pinged
  <2>1. DOMAIN pinging' = DOMAIN pinging
        /\ \A i \in DOMAIN pinging : pinging'[i] = [pinging[i] EXCEPT !.age = 1]
    BY <1>5 DEF PingTick
  <2>2. \A i \in DOMAIN pinging : pinging[i] \in [peer : Peers, age : {0, 1}]
    BY <1>1, PeersOfFacts DEF Pinged
  <2>3. \A i \in DOMAIN pinging : pinging'[i].peer = pinging[i].peer
    BY <2>1, <2>2
  <2>4. QED
    BY <2>1, <2>3 DEF Pinged, PeersOf
<1>6. ASSUME NEW k \in 1..Len(pinging), PingEnds(k)
      PROVE  /\ Len(Pinged') = Len(Pinged) - 1
             /\ \A i \in 1..(Len(Pinged) - 1) :
                   Pinged'[i] = IF i < k THEN Pinged[i] ELSE Pinged[i + 1]
  <2> HIDE DEF Tasks
  <2>1. /\ Len(pinging') = Len(pinging) - 1
        /\ \A i \in 1..(Len(pinging) - 1) :
              pinging'[i] = IF i < k THEN pinging[i] ELSE pinging[i + 1]
    BY <1>1, <1>6, Removal DEF PingEnds
  <2>2. ASSUME NEW i \in 1..(Len(Pinged) - 1)
        PROVE  Pinged'[i] = IF i < k THEN Pinged[i] ELSE Pinged[i + 1]
    <3>1. i \in 1..Len(pinging) /\ i + 1 \in 1..Len(pinging) /\ i \in 1..Len(pinging')
      BY <1>2, <2>1
    <3>2. /\ Pinged'[i] = pinging'[i].peer /\ Pinged[i] = pinging[i].peer
          /\ Pinged[i + 1] = pinging[i + 1].peer
          /\ pinging'[i] = IF i < k THEN pinging[i] ELSE pinging[i + 1]
      BY <1>2, <1>3, <2>1, <3>1
    <3>3. QED
      BY <3>2
  <2>3. QED
    BY <1>2, <1>3, <2>1, <2>2
<1>7. QED
  BY <1>4, <1>5, <1>6

\* A peer goes from one list to the next and is in flight while it is in one.
LEMMA PingTasksKept ==
    ASSUME PingTypes, PingTypes', PingTasks, KeepAlive
    PROVE  PingTasks'
<1>1. /\ waiting \in Seq(Peers) /\ spacing \in Seq(Peers) /\ connected \subseteq Peers
      /\ Pinged \in Seq(Peers)
  BY PeersOfFacts DEF PingTypes, Pinged
<1>2. CASE \E p \in Peers : Connect(p) \/ Disconnect(p)
  BY <1>2 DEF Connect, Disconnect, PingTasks, Pinged
<1>3. CASE PingSweep
  <2>p. PICK chosen \in DueSets(connected \ inflight) :
           /\ inflight' = inflight \cup chosen
           /\ \E order \in SetToSeqs(chosen) : waiting' = waiting \o order
    BY <1>3 DEF PingSweep
  <2>1. PICK order \in SetToSeqs(chosen) : waiting' = waiting \o order
    BY <2>p
  <2>2. IsFiniteSet(chosen) /\ chosen \subseteq Peers /\ chosen \cap inflight = {}
    BY <1>1, <2>p, DueFacts, FS_Subset, UpkeepAssumption
  <2>3. inflight' = inflight \cup chosen /\ Pinged' = Pinged /\ spacing' = spacing
    BY <1>3, <2>p DEF PingSweep, Pinged
  <2>4. order \in Seq(Peers) /\ IsInjective(order) /\ ToSet(order) = chosen
    <3>1. order \in Seq(chosen) /\ IsInjective(order) /\ ToSet(order) = chosen
      BY <2>1, <2>2, Orders
    <3>2. QED
      BY <2>2, <3>1
  <2>5. /\ ToSet(waiting') = ToSet(waiting) \cup chosen
        /\ ToSet(waiting) \cap chosen = {} /\ IsInjective(waiting) => IsInjective(waiting')
    BY <1>1, <2>1, <2>4, InjectiveConcat
  <2>6. QED
    BY <2>2, <2>3, <2>5 DEF PingTasks
<1>4. CASE Acquire
  <2>1. /\ Head(waiting) \in Peers /\ ToSet(waiting) = ToSet(waiting') \cup {Head(waiting)}
        /\ IsInjective(waiting) => IsInjective(waiting') /\ Head(waiting) \notin ToSet(waiting')
    BY <1>1, <1>4, InjectiveTail DEF Acquire
  <2>2. /\ ToSet(Pinged') = ToSet(Pinged) \cup {Head(waiting)}
        /\ IsInjective(Pinged) /\ Head(waiting) \notin ToSet(Pinged) => IsInjective(Pinged')
    <3>1. Pinged' = Append(Pinged, Head(waiting))
      BY <1>4, PingedSteps
    <3> DEFINE longer == Append(Pinged, Head(waiting))
    <3>2. /\ ToSet(longer) = ToSet(Pinged) \cup {Head(waiting)}
          /\ IsInjective(Pinged) /\ Head(waiting) \notin ToSet(Pinged) => IsInjective(longer)
      BY <1>1, <2>1, InjectiveAppend
    <3>3. QED
      BY <3>1, <3>2
  <2>3. inflight' = inflight /\ spacing' = spacing
    BY <1>4 DEF Acquire
  <2>4. QED
    BY <2>1, <2>2, <2>3 DEF PingTasks
<1>5. CASE TaskEnds
  <2>1. /\ ToSet(spacing) = ToSet(spacing') \cup {Head(spacing)}
        /\ IsInjective(spacing) => IsInjective(spacing') /\ Head(spacing) \notin ToSet(spacing')
    BY <1>1, <1>5, InjectiveTail DEF TaskEnds
  <2>2. inflight' = inflight \ {Head(spacing)} /\ waiting' = waiting /\ Pinged' = Pinged
    BY <1>5 DEF TaskEnds, Pinged
  <2>3. QED
    BY <2>1, <2>2 DEF PingTasks
<1>6. CASE PingTick
  <2>1. inflight' = inflight /\ waiting' = waiting /\ spacing' = spacing /\ Pinged' = Pinged
    BY <1>6, PingedSteps DEF PingTick
  <2>2. QED
    BY <2>1 DEF PingTasks
<1>7. ASSUME NEW k \in DOMAIN pinging, PingEnds(k) PROVE PingTasks'
  <2>1. /\ k \in 1..Len(pinging) /\ k \in 1..Len(Pinged) /\ Pinged[k] = pinging[k].peer
        /\ pinging[k].peer \in Peers /\ Pinged[k] \in ToSet(Pinged)
    BY PeersOfFacts DEF PingTypes, Pinged, ToSet
  <2>2. Pinged' \in Seq(Peers)
    BY PeersOfFacts DEF PingTypes, Pinged
  <2>3. IsInjective(Pinged) => IsInjective(Pinged') /\ ToSet(Pinged') = ToSet(Pinged) \ {Pinged[k]}
    BY <1>1, <1>7, <2>1, <2>2, PingedSteps, InjectiveRemoval
  <2>4. /\ ToSet(spacing') = ToSet(spacing) \cup {Pinged[k]}
        /\ IsInjective(spacing) /\ Pinged[k] \notin ToSet(spacing) => IsInjective(spacing')
    BY <1>1, <1>7, <2>1, InjectiveAppend DEF PingEnds
  <2>5. inflight' = inflight /\ waiting' = waiting
    BY <1>7 DEF PingEnds
  <2>6. QED
    BY <2>1, <2>3, <2>4, <2>5 DEF PingTasks
<1>8. QED
  BY <1>2, <1>3, <1>4, <1>5, <1>6, <1>7 DEF KeepAlive

LEMMA UntilSweptKept ==
    ASSUME PingTypes, PingTasks, UntilSwept, UntilPinged, KeepAlive
    PROVE  UntilSwept'
<1>1. /\ connected \subseteq Peers /\ sweepIn \in 0..Sweep /\ spacing \in Seq(Peers)
      /\ \A p \in Peers : unpinged[p] \in 0..(PingGap + 1) /\ lastPing[p] \in 0..(PingGap + 1)
      /\ lastPing \in [Peers -> 0..(PingGap + 1)] /\ unpinged \in [Peers -> 0..(PingGap + 1)]
  BY DEF PingTypes
<1>2. SUFFICES ASSUME NEW p \in Peers
               PROVE  /\ p \notin connected' => unpinged'[p] = 0
                      /\ p \in connected' \ inflight' =>
                            /\ unpinged'[p] <= lastPing'[p]
                            /\ unpinged'[p] + sweepIn' <= 2 * Sweep
  BY DEF UntilSwept
<1>3. /\ p \notin connected => unpinged[p] = 0
      /\ p \in connected \ inflight =>
            unpinged[p] <= lastPing[p] /\ unpinged[p] + sweepIn <= 2 * Sweep
  BY DEF UntilSwept
<1>4. CASE \E q \in Peers : Connect(q) \/ Disconnect(q)
  BY <1>1, <1>3, <1>4, Gaps DEF Connect, Disconnect
<1>5. CASE PingSweep
  <2>1. PICK chosen \in DueSets(connected \ inflight) : inflight' = inflight \cup chosen
    BY <1>5 DEF PingSweep
  <2>2. /\ sweepIn' = Sweep /\ connected' = connected
        /\ lastPing' = lastPing /\ unpinged' = unpinged
    BY <1>5 DEF PingSweep
  <2>3. p \in connected' \ inflight' => p \in connected \ inflight /\ ~(lastPing[p] > Sweep)
    BY <2>1, <2>2, DueFacts
  <2>4. QED
    BY <1>1, <1>3, <2>2, <2>3, Gaps
<1>6. CASE Acquire
  BY <1>3, <1>6 DEF Acquire
<1>7. CASE TaskEnds
  <2>1. Head(spacing) = spacing[1] /\ 1 \in DOMAIN spacing
    BY <1>1, <1>7, InjectiveTail, LenProperties DEF TaskEnds
  <2>2. p = Head(spacing) => unpinged[p] = 0
    BY <2>1 DEF UntilPinged
  <2>3. QED
    BY <1>1, <1>3, <1>7, <2>2, Gaps DEF TaskEnds
<1>8. CASE PingTick
  <2>1. /\ unpinged'[p] = IF p \in connected THEN Older(unpinged[p], PingGap) ELSE 0
        /\ lastPing'[p] = Older(lastPing[p], PingGap) /\ sweepIn' = sweepIn - 1
        /\ connected' = connected /\ inflight' = inflight
    BY <1>8 DEF PingTick
  <2>2. CASE p \in connected \ inflight
    <3>1. /\ unpinged[p] <= lastPing[p] /\ unpinged[p] + sweepIn <= 2 * Sweep
          /\ unpinged[p] <= PingGap
      BY <1>1, <1>3, <2>2, Gaps
    <3>2. /\ unpinged'[p] = unpinged[p] + 1
          /\ lastPing[p] <= PingGap => lastPing'[p] = lastPing[p] + 1
          /\ lastPing[p] > PingGap => lastPing'[p] = lastPing[p]
      BY <1>1, <2>1, <2>2, <3>1, Gaps DEF Older
    <3>3. QED
      BY <1>1, <2>1, <2>2, <3>1, <3>2, Gaps
  <2>3. CASE p \notin connected \ inflight
    BY <2>1, <2>3
  <2>4. QED
    BY <2>2, <2>3
<1>9. ASSUME NEW k \in DOMAIN pinging, PingEnds(k)
      PROVE  /\ p \notin connected' => unpinged'[p] = 0
             /\ p \in connected' \ inflight' =>
                   /\ unpinged'[p] <= lastPing'[p]
                   /\ unpinged'[p] + sweepIn' <= 2 * Sweep
  <2>1. pinging[k].peer \in inflight
    <3>1. pinging[k].peer \in ToSet(Pinged)
      BY PeersOfFacts DEF PingTypes, Pinged, ToSet
    <3>2. QED
      BY <3>1 DEF PingTasks
  <2>2. QED
    BY <1>1, <1>3, <1>9, <2>1 DEF PingEnds
<1>10. QED
  BY <1>4, <1>5, <1>6, <1>7, <1>8, <1>9 DEF KeepAlive

\* The more wait, the more rounds.
LEMMA RoundsOf ==
    ASSUME NEW B \in SUBSET Peers, NEW A \in SUBSET B
    PROVE  /\ IsFiniteSet(B) /\ Cardinality(B) \in Nat
           /\ Rounds(Cardinality(A)) \in Nat /\ Rounds(Cardinality(B)) \in Nat
           /\ Rounds(Cardinality(A)) <= Rounds(Cardinality(B))
           /\ Rounds(Cardinality(B)) <= Rounds(Cardinality(Peers))
           /\ B # {} => Rounds(Cardinality(B)) >= 1
<1>1. /\ IsFiniteSet(B) /\ Cardinality(B) \in Nat /\ Cardinality(B) <= Cardinality(Peers)
      /\ Cardinality(Peers) \in Nat
  BY UpkeepAssumption, FS_Subset, FS_CardinalityType
<1>2. Cardinality(A) \in Nat /\ Cardinality(A) <= Cardinality(B)
  BY <1>1, FS_Subset, FS_CardinalityType
<1>3. B # {} => Cardinality(B) \in Nat \ {0}
  BY <1>1, FS_EmptySet
<1>4. QED
  BY <1>1, <1>2, <1>3, RoundsFacts

\* The tasks ahead of one that waits are tasks of peers, its own among them.
LEMMA AheadFacts ==
    ASSUME PingTypes, NEW i \in DOMAIN waiting
    PROVE  /\ Fresh \subseteq ToSet(Pinged) /\ ToSet(Pinged) \subseteq Peers
           /\ Ahead(i) \subseteq Peers /\ waiting[i] \in Ahead(i) /\ waiting[i] \in Peers
<1>1. \A k \in DOMAIN pinging : pinging[k].peer \in ToSet(Pinged) /\ pinging[k].peer \in Peers
  BY PeersOfFacts DEF PingTypes, Pinged, ToSet
<1>2. ToSet(Pinged) \subseteq Peers
  BY <1>1, PeersOfFacts DEF PingTypes, Pinged, ToSet
<1>3. /\ DOMAIN waiting = 1..Len(waiting) /\ Len(waiting) \in Nat
      /\ \A k \in 1..Len(waiting) : waiting[k] \in Peers
  BY LenProperties, ElementOfSeq DEF PingTypes
<1>4. i \in 1..i /\ 1..i \subseteq 1..Len(waiting)
  BY <1>3
<1>5. QED
  BY <1>1, <1>2, <1>3, <1>4 DEF Fresh, Ahead

\* A tick takes a full round of permits from those ahead of a task that waits.
LEMMA RoundPasses ==
    ASSUME PingTypes, PingTypes', PingTasks, PingTick, NEW i \in DOMAIN waiting
    PROVE  Rounds(Cardinality(Ahead(i))) = Rounds(Cardinality(Ahead(i)')) + 1
<1>1. /\ \A k \in DOMAIN pinging : pinging[k] \in [peer : Peers, age : {0, 1}]
      /\ DOMAIN pinging = 1..Len(pinging) /\ Len(pinging) \in Nat
      /\ DOMAIN Pinged = 1..Len(pinging)
      /\ \A k \in DOMAIN pinging : Pinged[k] = pinging[k].peer
      /\ Pinged \in Seq(Peers) /\ Len(Pinged) = Len(pinging)
  BY PeersOfFacts DEF PingTypes, Pinged
<1>2. Len(pinging) = Permits
  BY EmptySeq, LenProperties DEF PingTick, PingTypes
<1>3. Fresh = ToSet(Pinged)
  <2>1. \A k \in DOMAIN pinging : pinging[k].age = 0
    BY <1>1 DEF PingTick
  <2>2. QED
    BY <1>1, <2>1 DEF Fresh, ToSet
<1>4. IsFiniteSet(ToSet(Pinged)) /\ Cardinality(ToSet(Pinged)) = Permits
  BY <1>1, <1>2, InjectiveLength DEF PingTasks
<1>5. Fresh' = {}
  BY <1>1 DEF PingTick, Fresh
<1> DEFINE line == {waiting[k] : k \in 1..i}
<1>6. Ahead(i) = line \cup ToSet(Pinged) /\ Ahead(i)' = line
  BY <1>3, <1>5 DEF Ahead, PingTick
<1>7. line \subseteq ToSet(waiting) /\ line \subseteq Peers
  <2>1. DOMAIN waiting = 1..Len(waiting) /\ Len(waiting) \in Nat
    BY LenProperties DEF PingTypes
  <2>2. 1..i \subseteq DOMAIN waiting
    BY <2>1
  <2>3. line \subseteq ToSet(waiting)
    BY <2>2 DEF ToSet
  <2>4. QED
    BY <1>6, <2>3, AheadFacts
<1>8. line \cap ToSet(Pinged) = {}
  BY <1>7 DEF PingTasks
<1> HIDE DEF line
<1>9. IsFiniteSet(line) /\ Cardinality(line) \in Nat
  BY <1>7, UpkeepAssumption, FS_Subset, FS_CardinalityType
<1>10. Cardinality(Ahead(i)) = Cardinality(line) + Permits
  <2>1. Cardinality(line \cap ToSet(Pinged)) = 0
    BY <1>8, FS_EmptySet
  <2>2. Cardinality(line \cup ToSet(Pinged)) =
           Cardinality(line) + Cardinality(ToSet(Pinged)) - Cardinality(line \cap ToSet(Pinged))
    BY <1>4, <1>9, FS_Union
  <2>3. Permits \in Nat
    BY UpkeepAssumption
  <2>4. Cardinality(Ahead(i)) = Cardinality(line \cup ToSet(Pinged))
    BY <1>6, Zenon
  <2>5. QED
    BY <1>4, <1>9, <2>1, <2>2, <2>3, <2>4
<1>11. QED
  BY <1>6, <1>9, <1>10, RoundsFacts

LEMMA UntilPingedKept ==
    ASSUME PingTypes, PingTypes', PingTasks, UntilSwept, UntilPinged, KeepAlive
    PROVE  UntilPinged'
<1>1. /\ waiting \in Seq(Peers) /\ spacing \in Seq(Peers) /\ sweepIn \in 0..Sweep
      /\ unpinged \in [Peers -> 0..(PingGap + 1)] /\ connected \subseteq Peers
      /\ DOMAIN waiting = 1..Len(waiting) /\ Len(waiting) \in Nat
      /\ DOMAIN spacing = 1..Len(spacing) /\ Len(spacing) \in Nat
  BY LenProperties DEF PingTypes
<1>2. /\ DOMAIN pinging = 1..Len(pinging) /\ Len(pinging) \in Nat
      /\ \A i \in DOMAIN pinging : /\ pinging[i].peer \in Peers /\ pinging[i].age \in {0, 1}
                                   /\ Pinged[i] = pinging[i].peer
      /\ Pinged \in Seq(Peers) /\ Len(Pinged) = Len(pinging)
  BY PeersOfFacts DEF PingTypes, Pinged
<1>3. \A i \in DOMAIN waiting : waiting[i] \in Peers
  BY AheadFacts
<1>4. \A i \in DOMAIN spacing : spacing[i] \in Peers
  BY <1>1, ElementOfSeq
<1>5. \A i \in DOMAIN waiting : /\ Rounds(Cardinality(Ahead(i))) \in Nat
                                /\ Rounds(Cardinality(Ahead(i))) >= 1
                                /\ unpinged[waiting[i]] + Rounds(Cardinality(Ahead(i))) <= PingGap
  BY AheadFacts, RoundsOf DEF UntilPinged
<1>6. CASE \E q \in Peers : Connect(q)
  BY <1>6 DEF Connect, UntilPinged, Ahead, Fresh
<1>7. ASSUME NEW q \in Peers, Disconnect(q) PROVE UntilPinged'
  <2>1. /\ waiting' = waiting /\ pinging' = pinging /\ spacing' = spacing
        /\ \A p \in Peers : unpinged'[p] \in 0..unpinged[p]
    BY <1>1, <1>7 DEF Disconnect
  <2>2. \A i \in DOMAIN waiting : Ahead(i)' = Ahead(i)
    BY <2>1 DEF Ahead, Fresh
  <2>3. ASSUME NEW i \in DOMAIN waiting
        PROVE  unpinged'[waiting[i]] + Rounds(Cardinality(Ahead(i)')) <= PingGap
    <3> DEFINE n == Rounds(Cardinality(Ahead(i)))
               w == waiting[i]
    <3>1. /\ w \in Peers /\ unpinged'[w] \in 0..unpinged[w] /\ unpinged[w] \in Nat
          /\ n \in Nat /\ unpinged[w] + n <= PingGap
      BY <1>1, <1>3, <1>5, <2>1
    <3> HIDE DEF n, w
    <3>2. unpinged'[w] + n <= PingGap
      BY <3>1, Gaps
    <3>3. Rounds(Cardinality(Ahead(i)')) = n
      BY <2>2 DEF n
    <3>4. QED
      BY <3>2, <3>3 DEF w
  <2>4. ASSUME NEW i \in DOMAIN pinging
        PROVE  unpinged'[pinging[i].peer] + (1 - pinging[i].age) <= PingGap
    <3> DEFINE p == pinging[i].peer
    <3>1. /\ p \in Peers /\ unpinged'[p] \in 0..unpinged[p] /\ pinging[i].age \in {0, 1}
          /\ unpinged[p] \in Nat /\ unpinged[p] + (1 - pinging[i].age) <= PingGap
      BY <1>1, <1>2, <2>1, Gaps DEF UntilPinged
    <3> HIDE DEF p
    <3>2. unpinged'[p] + (1 - pinging[i].age) <= PingGap
      BY <3>1, Gaps
    <3>3. QED
      BY <3>2 DEF p
  <2>5. \A i \in DOMAIN spacing : unpinged'[spacing[i]] = 0
    BY <1>1, <1>4, <2>1 DEF UntilPinged
  <2>6. QED
    BY <2>1, <2>3, <2>4, <2>5 DEF UntilPinged
<1>8. CASE PingSweep
  <2>p. PICK chosen \in DueSets(connected \ inflight) :
           \E order \in SetToSeqs(chosen) : waiting' = waiting \o order
    BY <1>8 DEF PingSweep
  <2>1. PICK order \in SetToSeqs(chosen) : waiting' = waiting \o order
    BY <2>p
  <2>2. IsFiniteSet(chosen) /\ chosen \subseteq Peers /\ chosen \subseteq connected \ inflight
    BY <1>1, <2>p, DueFacts, FS_Subset, UpkeepAssumption
  <2>3. unpinged' = unpinged /\ pinging' = pinging /\ spacing' = spacing /\ sweepIn = 0
    BY <1>8 DEF PingSweep
  <2>4. order \in Seq(chosen) /\ order \in Seq(Peers)
    <3>1. order \in Seq(chosen)
      BY <2>1, <2>2, Orders
    <3>2. QED
      BY <2>2, <3>1
  <2>5. /\ waiting' \in Seq(Peers) /\ DOMAIN waiting' = 1..(Len(waiting) + Len(order))
        /\ Len(order) \in Nat
        /\ \A i \in 1..(Len(waiting) + Len(order)) :
              waiting'[i] = IF i <= Len(waiting) THEN waiting[i] ELSE order[i - Len(waiting)]
    BY <1>1, <2>1, <2>4, ConcatProperties, LenProperties
  <2>6. ASSUME NEW i \in DOMAIN waiting'
        PROVE  unpinged'[waiting'[i]] + Rounds(Cardinality(Ahead(i)')) <= PingGap
    <3>1. CASE i \in 1..Len(waiting)
      <4>1. waiting'[i] = waiting[i] /\ \A k \in 1..i : waiting'[k] = waiting[k]
        BY <1>1, <2>5, <3>1
      <4>2. Ahead(i)' = Ahead(i)
        BY <2>3, <4>1 DEF Ahead, Fresh
      <4>3. QED
        BY <1>1, <1>5, <2>3, <3>1, <4>1, <4>2
    <3>2. CASE i \notin 1..Len(waiting)
      <4>1. i - Len(waiting) \in 1..Len(order) /\ waiting'[i] = order[i - Len(waiting)]
        BY <1>1, <2>5, <3>2
      <4>2. waiting'[i] \in connected \ inflight
        BY <2>2, <2>4, <4>1, ElementOfSeq
      <4>3. unpinged[waiting'[i]] <= 2 * Sweep /\ unpinged[waiting'[i]] \in Nat
        BY <1>1, <2>3, <4>2, Gaps DEF UntilSwept
      <4>4. Ahead(i)' \subseteq Peers
        <5>1. 1..i \subseteq DOMAIN waiting'
          BY <1>1, <2>5
        <5>2. \A k \in DOMAIN waiting' : waiting'[k] \in Peers
          BY <2>5, ElementOfSeq, LenProperties
        <5>3. Fresh' \subseteq Peers
          BY <1>2, <2>3 DEF Fresh
        <5>4. QED
          BY <5>1, <5>2, <5>3 DEF Ahead
      <4>5. /\ Rounds(Cardinality(Ahead(i)')) \in Nat
            /\ Rounds(Cardinality(Ahead(i)')) <= Rounds(Cardinality(Peers))
            /\ Rounds(Cardinality(Peers)) \in Nat
        BY <4>4, RoundsOf
      <4>6. QED
        BY <2>3, <4>3, <4>5, Gaps
    <3>3. QED
      BY <3>1, <3>2
  <2>7. QED
    BY <2>3, <2>6 DEF UntilPinged
<1>9. CASE Acquire
  <2>1. /\ unpinged' = unpinged /\ spacing' = spacing /\ waiting' = Tail(waiting)
        /\ pinging' = Append(pinging, [peer |-> Head(waiting), age |-> 0])
    BY <1>9 DEF Acquire
  <2>2. /\ Head(waiting) = waiting[1] /\ Len(waiting) \in Nat \ {0} /\ Head(waiting) \in Peers
        /\ DOMAIN waiting' = 1..(Len(waiting) - 1)
        /\ \A i \in 1..(Len(waiting) - 1) : waiting'[i] = waiting[i + 1]
    BY <1>1, <1>9, <2>1, InjectiveTail, LenProperties DEF Acquire
  <2>3. /\ DOMAIN pinging' = 1..(Len(pinging) + 1)
        /\ \A i \in 1..Len(pinging) : pinging'[i] = pinging[i]
        /\ pinging'[Len(pinging) + 1] = [peer |-> Head(waiting), age |-> 0]
    <3> DEFINE Tasks == [peer : Peers, age : {0, 1}]
    <3>1. pinging \in Seq(Tasks) /\ [peer |-> Head(waiting), age |-> 0] \in Tasks
      BY <2>2 DEF PingTypes
    <3> HIDE DEF Tasks
    <3>2. QED
      BY <2>1, <3>1, AppendProperties, LenProperties
  <2>4. Fresh' = Fresh \cup {Head(waiting)}
    <3>1. \A i \in DOMAIN pinging' : i \in DOMAIN pinging \/ i = Len(pinging) + 1
      BY <1>2, <2>3
    <3>2. Fresh' \subseteq Fresh \cup {Head(waiting)}
      BY <1>2, <2>3, <3>1 DEF Fresh
    <3>3. \A i \in DOMAIN pinging : i \in DOMAIN pinging' /\ pinging'[i] = pinging[i]
      BY <1>2, <2>3
    <3>4. Fresh \subseteq Fresh'
      BY <3>3 DEF Fresh
    <3>5. Head(waiting) \in Fresh'
      <4>1. Len(pinging) + 1 \in DOMAIN pinging' /\ pinging'[Len(pinging) + 1].age = 0
            /\ pinging'[Len(pinging) + 1].peer = Head(waiting)
        BY <1>2, <2>3
      <4>2. QED
        BY <4>1 DEF Fresh
    <3>6. QED
      BY <3>2, <3>4, <3>5
  <2>5. ASSUME NEW i \in DOMAIN waiting'
        PROVE  unpinged'[waiting'[i]] + Rounds(Cardinality(Ahead(i)')) <= PingGap
    <3>1. i + 1 \in DOMAIN waiting /\ waiting'[i] = waiting[i + 1]
      BY <1>1, <2>2
    <3>2. Ahead(i)' = Ahead(i + 1)
      <4>1. \A k \in 1..i : k + 1 \in 1..(i + 1) /\ waiting'[k] = waiting[k + 1]
        BY <2>2
      <4>2. \A k \in 1..(i + 1) : k = 1 \/ (k - 1 \in 1..i /\ waiting'[k - 1] = waiting[k])
        BY <2>2
      <4>3. {waiting'[k] : k \in 1..i} \cup {waiting[1]} = {waiting[k] : k \in 1..(i + 1)}
        <5>1. 1 \in 1..(i + 1)
          BY <2>2
        <5>2. QED
          BY <4>1, <4>2, <5>1
      <4>4. QED
        BY <2>2, <2>4, <4>3 DEF Ahead
    <3>3. QED
      BY <1>5, <2>1, <3>1, <3>2
  <2>6. ASSUME NEW i \in DOMAIN pinging'
        PROVE  unpinged'[pinging'[i].peer] + (1 - pinging'[i].age) <= PingGap
    <3>1. CASE i \in DOMAIN pinging
      BY <1>2, <2>1, <2>3, <3>1 DEF UntilPinged
    <3>2. CASE i = Len(pinging) + 1
      <4>1. 1 \in DOMAIN waiting /\ pinging'[i].peer = waiting[1] /\ pinging'[i].age = 0
        BY <1>1, <2>2, <2>3, <3>2
      <4>2. unpinged[waiting[1]] + 1 <= PingGap
        <5>1. waiting[1] \in Peers
          BY <1>3, <4>1
        <5>2. unpinged[waiting[1]] \in 0..(PingGap + 1)
          BY <1>1, <5>1
        <5>3. /\ Rounds(Cardinality(Ahead(1))) \in Nat /\ Rounds(Cardinality(Ahead(1))) >= 1
              /\ unpinged[waiting[1]] + Rounds(Cardinality(Ahead(1))) <= PingGap
          BY <1>5, <4>1
        <5>4. QED
          BY <5>2, <5>3, Gaps
      <4>3. QED
        BY <2>1, <4>1, <4>2
    <3>3. QED
      BY <1>2, <2>3, <3>1, <3>2
  <2>7. QED
    BY <2>1, <2>5, <2>6 DEF UntilPinged
<1>10. CASE TaskEnds
  <2>1. /\ DOMAIN spacing' = 1..(Len(spacing) - 1)
        /\ \A i \in 1..(Len(spacing) - 1) : spacing'[i] = spacing[i + 1]
    BY <1>1, <1>10, InjectiveTail, LenProperties DEF TaskEnds
  <2>2. unpinged' = unpinged /\ waiting' = waiting /\ pinging' = pinging
    BY <1>10 DEF TaskEnds
  <2>3. \A i \in DOMAIN spacing' : i + 1 \in DOMAIN spacing /\ spacing'[i] = spacing[i + 1]
    BY <1>1, <2>1
  <2>4. \A i \in DOMAIN waiting : Ahead(i)' = Ahead(i)
    BY <2>2 DEF Ahead, Fresh
  <2>5. QED
    BY <2>2, <2>3, <2>4 DEF UntilPinged
<1>11. CASE PingTick
  <2>1. /\ waiting' = waiting /\ spacing' = spacing /\ spacing = <<>>
        /\ DOMAIN pinging' = DOMAIN pinging
        /\ \A i \in DOMAIN pinging : /\ pinging[i].age < 1
                                     /\ pinging'[i] = [pinging[i] EXCEPT !.age = 1]
        /\ \A p \in Peers : unpinged'[p] = IF p \in connected THEN Older(unpinged[p], PingGap) ELSE 0
    BY <1>11 DEF PingTick
  <2>2. \A p \in Peers : unpinged[p] \in Nat /\ unpinged'[p] \in Nat /\ unpinged'[p] <= unpinged[p] + 1
    <3>1. \A p \in Peers : unpinged[p] \in 0..(PingGap + 1)
      BY <1>1
    <3>2. \A age \in 0..(PingGap + 1) : age \in Nat /\ Older(age, PingGap) \in {age, age + 1}
      BY Gaps DEF Older
    <3>3. QED
      BY <2>1, <3>1, <3>2
  <2>3. ASSUME NEW i \in DOMAIN waiting
        PROVE  unpinged'[waiting[i]] + Rounds(Cardinality(Ahead(i)')) <= PingGap
    <3>1. Rounds(Cardinality(Ahead(i))) = Rounds(Cardinality(Ahead(i)')) + 1
      BY <1>11, RoundPasses
    <3>2. Rounds(Cardinality(Ahead(i)')) \in Int
      <4>1. Ahead(i)' \subseteq Ahead(i)
        <5>1. Fresh' = {}
          <6>1. \A k \in DOMAIN pinging : pinging[k] \in [peer : Peers, age : {0, 1}]
            BY <1>2, PeersOfFacts DEF PingTypes
          <6>2. \A k \in DOMAIN pinging : pinging'[k].age = 1
            BY <2>1, <6>1
          <6>3. QED
            BY <2>1, <6>2 DEF Fresh
        <5>2. QED
          BY <2>1, <5>1 DEF Ahead
      <4>2. QED
        BY <4>1, AheadFacts, RoundsOf
    <3>3. QED
      BY <1>3, <1>5, <2>2, <3>1, <3>2, Gaps
  <2>4. ASSUME NEW i \in DOMAIN pinging
        PROVE  unpinged'[pinging'[i].peer] + (1 - pinging'[i].age) <= PingGap
    <3>1. /\ pinging'[i].peer = pinging[i].peer /\ pinging'[i].age = 1 /\ pinging[i].age = 0
          /\ pinging[i].peer \in Peers
      <4>1. pinging[i] \in [peer : Peers, age : {0, 1}]
        BY <1>2, PeersOfFacts DEF PingTypes
      <4>2. QED
        BY <2>1, <4>1
    <3>2. unpinged[pinging[i].peer] + 1 <= PingGap
      BY <3>1 DEF UntilPinged
    <3>3. QED
      BY <2>2, <3>1, <3>2, Gaps
  <2>5. QED
    BY <2>1, <2>3, <2>4 DEF UntilPinged
<1>12. ASSUME NEW k \in DOMAIN pinging, PingEnds(k) PROVE UntilPinged'
  <2> DEFINE q == pinging[k].peer
  <2>1. /\ unpinged' = [unpinged EXCEPT ![q] = 0] /\ waiting' = waiting
        /\ spacing' = Append(spacing, q) /\ pinging' = RemoveAt(pinging, k)
    BY <1>12 DEF PingEnds
  <2>2. \A p \in Peers : unpinged'[p] \in 0..unpinged[p] /\ unpinged'[q] = 0
    BY <1>1, <1>2, <2>1
  <2>3. q \in Peers
    BY <1>2
  <2>4. \A i \in DOMAIN pinging' : \E n \in DOMAIN pinging : pinging'[i] = pinging[n]
    <3> DEFINE Tasks == [peer : Peers, age : {0, 1}]
    <3>1. pinging \in Seq(Tasks) /\ k \in 1..Len(pinging)
      BY <1>2 DEF PingTypes
    <3> HIDE DEF Tasks
    <3>2. /\ DOMAIN pinging' = 1..(Len(pinging) - 1)
          /\ \A i \in 1..(Len(pinging) - 1) :
                pinging'[i] = IF i < k THEN pinging[i] ELSE pinging[i + 1]
      BY <2>1, <3>1, Removal, LenProperties
    <3>3. \A i \in 1..(Len(pinging) - 1) : i \in DOMAIN pinging /\ i + 1 \in DOMAIN pinging
      BY <1>2
    <3>4. QED
      BY <3>2, <3>3
  <2> HIDE DEF q
  <2>5. ASSUME NEW i \in DOMAIN waiting
        PROVE  unpinged'[waiting[i]] + Rounds(Cardinality(Ahead(i)')) <= PingGap
    <3>1. Fresh' \subseteq Fresh
      BY <2>4 DEF Fresh
    <3>2. Ahead(i)' \subseteq Ahead(i)
      BY <2>1, <3>1 DEF Ahead
    <3>3. /\ Rounds(Cardinality(Ahead(i)')) \in Nat
          /\ Rounds(Cardinality(Ahead(i)')) <= Rounds(Cardinality(Ahead(i)))
      BY <3>2, AheadFacts, RoundsOf
    <3>4. QED
      BY <1>1, <1>3, <1>5, <2>2, <3>3, Gaps
  <2>6. \A i \in DOMAIN pinging' : unpinged'[pinging'[i].peer] + (1 - pinging'[i].age) <= PingGap
    <3>1. ASSUME NEW n \in DOMAIN pinging
          PROVE  unpinged'[pinging[n].peer] + (1 - pinging[n].age) <= PingGap
      <4> DEFINE p == pinging[n].peer
      <4>1. /\ p \in Peers /\ unpinged'[p] \in 0..unpinged[p] /\ pinging[n].age \in {0, 1}
            /\ unpinged[p] \in Nat
        BY <1>1, <1>2, <2>2, Gaps
      <4>a. unpinged[p] + (1 - pinging[n].age) <= PingGap
        BY DEF UntilPinged
      <4> HIDE DEF p
      <4>2. unpinged'[p] + (1 - pinging[n].age) <= PingGap
        BY <4>1, <4>a, Gaps
      <4>3. QED
        BY <4>2 DEF p
    <3>2. QED
      BY <2>4, <3>1
  <2>7. \A i \in DOMAIN spacing' : unpinged'[spacing'[i]] = 0
    <3>1. /\ DOMAIN spacing' = 1..(Len(spacing) + 1) /\ spacing'[Len(spacing) + 1] = q
          /\ \A i \in 1..Len(spacing) : spacing'[i] = spacing[i]
      BY <1>1, <2>1, <2>3, AppendProperties, LenProperties
    <3>2. \A i \in DOMAIN spacing : unpinged'[spacing[i]] = 0
      BY <1>1, <1>4, <2>2 DEF UntilPinged
    <3>3. \A i \in DOMAIN spacing' : i \in DOMAIN spacing \/ i = Len(spacing) + 1
      BY <1>1, <3>1
    <3>4. QED
      BY <1>1, <2>2, <2>3, <3>1, <3>2, <3>3
  <2>8. QED
    BY <2>1, <2>5, <2>6, <2>7 DEF UntilPinged
<1>13. QED
  BY <1>6, <1>7, <1>8, <1>9, <1>10, <1>11, <1>12 DEF KeepAlive

-----------------------------------------------------------------------------
(* The stream leak monitor                                                 *)

StreamTypes ==
    /\ streams \in [Streams -> [open : BOOLEAN, protocol : BOOLEAN, tracked : BOOLEAN,
                                flagged : BOOLEAN, raised : BOOLEAN, age : 0..(StreamGap + 1)]]
    /\ monitorIn \in 0..Interval
    /\ resetting \subseteq Streams

\* A stream that is to go: a tracked one without a protocol that can be reset.  The
\* monitor sees it in time, and having flagged it comes to it before time goes on.
GoesInTime(s) ==
    streams[s].open /\ streams[s].tracked /\ ~streams[s].protocol /\ ~streams[s].raised =>
        IF streams[s].flagged
        THEN s \in resetting /\ Threshold < streams[s].age /\ streams[s].age <= StreamGap
        ELSE streams[s].age + monitorIn <= StreamGap

StreamInv == \A s \in Streams : GoesInTime(s)

LEMMA StreamsKept ==
    ASSUME StreamTypes, StreamInv, Monitor
    PROVE  StreamTypes' /\ StreamInv'
<1> DEFINE Ages == 0..(StreamGap + 1)
           Known == [open : BOOLEAN, protocol : BOOLEAN, tracked : BOOLEAN,
                     flagged : BOOLEAN, raised : BOOLEAN, age : Ages]
<1>1. streams \in [Streams -> Known] /\ monitorIn \in 0..Interval /\ resetting \subseteq Streams
  BY DEF StreamTypes
<1>2. \A s \in Streams : streams[s] \in Known /\ GoesInTime(s)
  BY <1>1 DEF StreamInv, GoesInTime
<1>3. SUFFICES /\ \A s \in Streams : streams'[s] \in Known /\ GoesInTime(s)'
               /\ DOMAIN streams' = Streams /\ streams' = [s \in Streams |-> streams'[s]]
               /\ monitorIn' \in 0..Interval /\ resetting' \subseteq Streams
  BY DEF StreamTypes, StreamInv, GoesInTime
<1>4. DOMAIN streams' = Streams /\ streams' = [s \in Streams |-> streams'[s]]
  BY <1>1 DEF Monitor, StreamOpens, StreamNegotiates, StreamCloses, ResetStream,
              MonitorSweep, StreamTick
<1>5. monitorIn' \in 0..Interval /\ resetting' \subseteq Streams
  <2>1. /\ monitorIn' \in {monitorIn, Interval} \/ (monitorIn > 0 /\ monitorIn' = monitorIn - 1)
        /\ \/ resetting' = resetting
           \/ \E s \in Streams : resetting' = resetting \ {s}
           \/ resetting' \in {{}, {s \in Streams : streams[s].open}}
    BY DEF Monitor, StreamOpens, StreamNegotiates, StreamCloses, ResetStream, MonitorSweep,
           StreamTick
  <2>2. monitorIn' \in 0..Interval
    BY <1>1, <2>1, Gaps
  <2>3. QED
    BY <1>1, <2>1, <2>2
<1>6. SUFFICES ASSUME NEW s \in Streams PROVE streams'[s] \in Known /\ GoesInTime(s)'
  BY <1>4, <1>5
<1>7. streams[s] \in Known /\ Closed \in Known /\ 0 \in Ages
  BY <1>2, Gaps DEF Closed
<1>8. CASE \E t \in Streams : StreamOpens(t) \/ StreamNegotiates(t) \/ StreamCloses(t)
  <2>1. PICK t \in Streams : StreamOpens(t) \/ StreamNegotiates(t) \/ StreamCloses(t)
    BY <1>8
  <2>2. monitorIn' = monitorIn /\ resetting' = resetting
    BY <2>1 DEF StreamOpens, StreamNegotiates, StreamCloses
  <2>3. CASE s # t
    <3>1. streams'[s] = streams[s]
      BY <1>1, <2>1, <2>3 DEF StreamOpens, StreamNegotiates, StreamCloses
    <3>2. QED
      BY <1>2, <2>2, <3>1 DEF GoesInTime
  <2>4. CASE s = t /\ StreamOpens(t)
    <3>1. PICK tracked \in BOOLEAN :
             streams'[s] = [Closed EXCEPT !.open = TRUE, !.tracked = tracked]
      BY <1>1, <2>4 DEF StreamOpens
    <3>2. streams'[s] \in Known /\ ~streams'[s].flagged /\ streams'[s].age = 0
      BY <1>7, <3>1 DEF Closed
    <3>3. QED
      BY <1>1, <2>2, <3>2, Gaps DEF GoesInTime
  <2>5. CASE s = t /\ StreamNegotiates(t)
    <3>1. streams'[s] = [streams[s] EXCEPT !.protocol = TRUE]
      BY <1>1, <2>5 DEF StreamNegotiates
    <3>2. streams'[s] \in Known /\ streams'[s].protocol
      BY <1>7, <3>1
    <3>3. QED
      BY <3>2 DEF GoesInTime
  <2>6. CASE s = t /\ StreamCloses(t)
    <3>1. streams'[s] = Closed
      BY <1>1, <2>6 DEF StreamCloses
    <3>2. QED
      BY <1>7, <3>1 DEF GoesInTime, Closed
  <2>7. QED
    BY <2>1, <2>3, <2>4, <2>5, <2>6
<1>9. ASSUME NEW t \in Streams, ResetStream(t)
      PROVE  streams'[s] \in Known /\ GoesInTime(s)'
  <2>1. t \in resetting /\ resetting' = resetting \ {t} /\ monitorIn' = monitorIn
    BY <1>9 DEF ResetStream
  <2>2. CASE s # t
    <3>1. streams'[s] = streams[s] /\ (s \in resetting' <=> s \in resetting)
      BY <1>1, <1>9, <2>1, <2>2 DEF ResetStream
    <3>2. QED
      BY <1>2, <2>1, <3>1 DEF GoesInTime
  <2>3. CASE s = t /\ Old(t) /\ ~streams[t].protocol
    <3>1. streams'[s] = Closed \/ streams'[s] = [streams[s] EXCEPT !.raised = TRUE]
      BY <1>1, <1>9, <2>3 DEF ResetStream
    <3>2. QED
      BY <1>7, <3>1 DEF GoesInTime, Closed
  <2>4. CASE s = t /\ ~(Old(t) /\ ~streams[t].protocol)
    <3>1. streams'[s] = streams[s]
      BY <1>9, <2>4 DEF ResetStream
    <3>2. streams[s].age \in Nat
      BY <1>7, Gaps
    <3>3. GoesInTime(s)'
      <4>1. SUFFICES ASSUME streams[s].open, streams[s].tracked, ~streams[s].protocol,
                            ~streams[s].raised
                     PROVE  ~streams[s].flagged /\ streams[s].age + monitorIn <= StreamGap
        BY <2>1, <3>1 DEF GoesInTime
      <4>2. ~(streams[s].age > Threshold)
        BY <2>4, <4>1 DEF Old
      <4>3. QED
        BY <1>2, <3>2, <4>1, <4>2, Gaps DEF GoesInTime
    <3>4. QED
      BY <1>7, <3>1, <3>3
  <2>5. QED
    BY <2>2, <2>3, <2>4
<1>10. CASE MonitorSweep
  <2> DEFINE leaked == {x \in Streams : Old(x) /\ streams[x].tracked /\ ~streams[x].flagged}
  <2>1. /\ monitorIn = 0 /\ resetting = {} /\ monitorIn' = Interval
        /\ streams' = [x \in Streams |-> [streams[x] EXCEPT !.flagged = @ \/ x \in leaked]]
        /\ resetting' = IF leaked = {} THEN {} ELSE {x \in Streams : streams[x].open}
    BY <1>10 DEF MonitorSweep
  <2>2. s \in leaked <=> streams[s].open /\ streams[s].age > Threshold
                         /\ streams[s].tracked /\ ~streams[s].flagged
    BY DEF Old
  <2>3. s \in leaked => resetting' = {x \in Streams : streams[x].open}
    BY <2>1
  <2> HIDE DEF leaked
  <2>4. /\ streams'[s] \in Known
        /\ streams'[s].flagged = (streams[s].flagged \/ s \in leaked)
        /\ streams'[s].open = streams[s].open /\ streams'[s].tracked = streams[s].tracked
        /\ streams'[s].protocol = streams[s].protocol /\ streams'[s].raised = streams[s].raised
        /\ streams'[s].age = streams[s].age
    BY <1>7, <2>1
  <2>5. streams[s].age \in Nat
    BY <1>7, Gaps
  <2>6. GoesInTime(s)'
    <3>1. SUFFICES ASSUME streams[s].open, streams[s].tracked, ~streams[s].protocol,
                          ~streams[s].raised
                   PROVE  IF streams'[s].flagged
                          THEN s \in resetting' /\ Threshold < streams[s].age
                               /\ streams[s].age <= StreamGap
                          ELSE streams[s].age + monitorIn' <= StreamGap
      BY <2>4 DEF GoesInTime
    <3>2. ~streams[s].flagged /\ streams[s].age <= StreamGap
      BY <1>2, <2>1, <2>5, <3>1 DEF GoesInTime
    <3>3. CASE s \in leaked
      BY <2>2, <2>3, <2>4, <3>1, <3>2, <3>3
    <3>4. CASE s \notin leaked
      <4>1. streams[s].age <= Threshold /\ ~streams'[s].flagged
        BY <2>2, <2>4, <2>5, <3>1, <3>2, <3>4, Gaps
      <4>2. QED
        BY <2>1, <2>5, <4>1, Gaps
    <3>5. QED
      BY <3>3, <3>4
  <2>7. QED
    BY <2>4, <2>6
<1>11. CASE StreamTick
  <2>1. /\ monitorIn > 0 /\ resetting = {} /\ monitorIn' = monitorIn - 1 /\ resetting' = {}
        /\ streams'[s] = IF streams[s].open
                         THEN [streams[s] EXCEPT !.age = Older(@, StreamGap)] ELSE streams[s]
    BY <1>11 DEF StreamTick
  <2>2. CASE ~streams[s].open
    BY <1>7, <2>1, <2>2 DEF GoesInTime
  <2>3. CASE streams[s].open
    <3>1. streams[s].age \in Ages
      BY <1>7
    <3>2. Older(streams[s].age, StreamGap) \in Ages
      BY <3>1, Gaps DEF Older
    <3>3. /\ streams'[s] \in Known
          /\ streams'[s].flagged = streams[s].flagged /\ streams'[s].tracked = streams[s].tracked
          /\ streams'[s].protocol = streams[s].protocol /\ streams'[s].raised = streams[s].raised
          /\ streams'[s].age = Older(streams[s].age, StreamGap)
      BY <1>7, <2>1, <2>3, <3>2
    <3>4. Older(streams[s].age, StreamGap) <= streams[s].age + 1
      BY <3>1, Gaps DEF Older
    <3>5. GoesInTime(s)'
      BY <1>1, <1>2, <2>1, <2>3, <3>1, <3>2, <3>3, <3>4, Gaps DEF GoesInTime
    <3>6. QED
      BY <3>3, <3>5
  <2>4. QED
    BY <2>2, <2>3
<1>12. QED
  BY <1>8, <1>9, <1>10, <1>11 DEF Monitor

-----------------------------------------------------------------------------
(* The warm-up                                                             *)

\* The warm-up has the peers it listed, but for those it had no room for, before it
\* or behind it.
WarmInv ==
    /\ known \in [Stored -> {"absent", "bare", "addressed"}]
    /\ warm \in {"asleep", "inserting", "over"}
    /\ candidates \in Seq(Stored \ {Me}) /\ IsInjective(candidates)
    /\ offered \subseteq Stored \ {Me} /\ offered \cap ToSet(candidates) = {}
    /\ Cardinality(offered \cup ToSet(candidates)) <= MaxPeers
    /\ excess \in Nat
    /\ warm = "asleep" => candidates = <<>> /\ offered = {}
    /\ warm = "over" => candidates = <<>>
    /\ steady \subseteq {p \in Stored : known[p] = "addressed"}
    /\ Cardinality(steady \ (offered \cup ToSet(candidates))) <= excess

\* No larger set, no more elements.
LEMMA Fewer ==
    ASSUME NEW B, IsFiniteSet(B), NEW A \in SUBSET B
    PROVE  /\ IsFiniteSet(A) /\ Cardinality(A) \in Nat /\ Cardinality(B) \in Nat
           /\ Cardinality(A) <= Cardinality(B)
BY FS_Subset, FS_CardinalityType

LEMMA WarmKept ==
    ASSUME WarmInv, WarmStep
    PROVE  WarmInv'
<1> DEFINE Others == Stored \ {Me}
           States == {"absent", "bare", "addressed"}
<1>1. IsFiniteSet(Stored) /\ MaxPeers \in Nat /\ IsFiniteSet(Others) /\ Others \subseteq Stored
  BY RoutingAssumption, FS_Subset
<1>2. /\ known \in [Stored -> States] /\ candidates \in Seq(Others)
      /\ offered \subseteq Others /\ ToSet(candidates) \subseteq Others
      /\ steady \subseteq Stored /\ \A p \in steady : known[p] = "addressed"
      /\ excess \in Nat
  <2>1. /\ known \in [Stored -> States] /\ candidates \in Seq(Others)
        /\ offered \subseteq Others /\ steady \subseteq Stored /\ excess \in Nat
        /\ \A p \in steady : known[p] = "addressed"
    BY DEF WarmInv
  <2> HIDE DEF Others
  <2>2. \A i \in DOMAIN candidates : candidates[i] \in Others
    BY <2>1, ElementOfSeq, LenProperties
  <2>3. QED
    BY <2>1, <2>2 DEF ToSet
<1>3. CASE WarmUpStarts
  <2> DEFINE here == {p \in Stored \ {Me} : known[p] # "absent"}
             room == IF Cardinality(here) < MaxPeers THEN Cardinality(here) ELSE MaxPeers
  <2>1. warm = "asleep" /\ candidates = <<>> /\ offered = {} /\ known' = known /\ offered' = offered
    BY <1>3 DEF WarmUpStarts, WarmInv
  <2>2. CASE tiered
    BY <1>3, <2>1, <2>2 DEF WarmUpStarts, WarmInv
  <2>3. CASE ~tiered
    <3>1. PICK chosen \in {S \in SUBSET here : Cardinality(S) = room} :
             candidates' \in SetToSeqs(chosen)
      BY <1>3, <2>3 DEF WarmUpStarts
    <3>2. /\ warm' = "inserting" /\ steady' = {p \in here : known[p] = "addressed"}
          /\ excess' = Cardinality(here) - room
      BY <1>3, <2>3 DEF WarmUpStarts
    <3>3. here \subseteq Others /\ IsFiniteSet(here) /\ Cardinality(here) \in Nat
      BY <1>1, Fewer
    <3>4. room \in Nat /\ room <= MaxPeers /\ room <= Cardinality(here)
      BY <1>1, <3>3
    <3> HIDE DEF here, room, Others
    <3>5. chosen \subseteq here /\ IsFiniteSet(chosen) /\ Cardinality(chosen) = room
      BY <3>1, <3>3, Fewer
    <3>6. /\ candidates' \in Seq(Others) /\ IsInjective(candidates')
          /\ ToSet(candidates') = chosen
      <4>1. /\ candidates' \in Seq(chosen) /\ IsInjective(candidates')
            /\ ToSet(candidates') = chosen
        BY <3>1, <3>5, Orders
      <4>2. QED
        BY <3>3, <3>5, <4>1
    <3>7. Cardinality(here \ chosen) = Cardinality(here) - room
      <4>1. here \cap chosen = chosen
        BY <3>5
      <4>2. QED
        BY <3>3, <3>5, <4>1, FS_Difference
    <3>8. steady' \ chosen \subseteq here \ chosen /\ IsFiniteSet(here \ chosen)
      BY <3>2, <3>3, Fewer
    <3>9. Cardinality(steady' \ chosen) <= Cardinality(here) - room
      BY <3>7, <3>8, Fewer
    <3>10. offered' \cup ToSet(candidates') = chosen
      BY <2>1, <3>6
    <3>11. steady' \subseteq {p \in Stored : known'[p] = "addressed"}
      BY <2>1, <3>2 DEF here
    <3>12. known' \in [Stored -> States] /\ excess' \in Nat
      BY <1>2, <2>1, <3>2, <3>3, <3>4
    <3>13. offered' \cap ToSet(candidates') = {} /\ offered' \subseteq Others
      BY <2>1
    <3>14. Cardinality(chosen) <= MaxPeers
      BY <3>4, <3>5
    <3>15. QED
      BY <3>2, <3>6, <3>9, <3>10, <3>11, <3>12, <3>13, <3>14 DEF WarmInv, Others
  <2>4. QED
    BY <2>2, <2>3
<1>4. CASE Insert
  <2> DEFINE p == Head(candidates)
             rest == Tail(candidates)
  <2>1. /\ candidates # <<>> /\ warm = "inserting" /\ candidates' = rest /\ warm' = warm
        /\ offered' = IF known[p] = "addressed" THEN offered \cup {p} ELSE offered
        /\ known' = known /\ steady' = steady /\ excess' = excess
    BY <1>4 DEF Insert
  <2>2. /\ p \in Others /\ rest \in Seq(Others) /\ ToSet(candidates) = ToSet(rest) \cup {p}
        /\ IsInjective(rest) /\ p \notin ToSet(rest)
    <3> HIDE DEF Others
    <3>1. QED
      BY <1>2, <2>1, InjectiveTail DEF WarmInv
  <2> HIDE DEF p, rest, Others
  <2>3. offered' \cup ToSet(candidates') \subseteq offered \cup ToSet(candidates)
    BY <2>1, <2>2
  <2>4. steady \ (offered' \cup ToSet(candidates')) \subseteq steady \ (offered \cup ToSet(candidates))
    BY <1>2, <2>1, <2>2
  <2>5. IsFiniteSet(offered \cup ToSet(candidates)) /\ IsFiniteSet(steady)
    BY <1>1, <1>2, Fewer
  <2>6. /\ Cardinality(offered' \cup ToSet(candidates')) \in Nat
        /\ Cardinality(offered \cup ToSet(candidates)) \in Nat
        /\ Cardinality(offered' \cup ToSet(candidates'))
              <= Cardinality(offered \cup ToSet(candidates))
    BY <2>3, <2>5, Fewer
  <2>7. IsFiniteSet(steady \ (offered \cup ToSet(candidates)))
    BY <2>5, Fewer
  <2>8. /\ Cardinality(steady \ (offered' \cup ToSet(candidates'))) \in Nat
        /\ Cardinality(steady \ (offered \cup ToSet(candidates))) \in Nat
        /\ Cardinality(steady \ (offered' \cup ToSet(candidates')))
              <= Cardinality(steady \ (offered \cup ToSet(candidates)))
    BY <2>4, <2>7, Fewer
  <2>9. /\ Cardinality(offered \cup ToSet(candidates)) <= MaxPeers
        /\ Cardinality(steady \ (offered \cup ToSet(candidates))) <= excess
        /\ offered \cap ToSet(candidates) = {}
    BY DEF WarmInv
  <2>10. /\ Cardinality(offered' \cup ToSet(candidates')) <= MaxPeers
         /\ Cardinality(steady' \ (offered' \cup ToSet(candidates'))) <= excess'
    BY <1>1, <1>2, <2>1, <2>6, <2>8, <2>9
  <2>11. offered' \subseteq Others /\ offered' \cap ToSet(candidates') = {}
    BY <1>2, <2>1, <2>2, <2>9
  <2>12. steady' \subseteq {x \in Stored : known'[x] = "addressed"}
    BY <1>2, <2>1
  <2>13. known' \in [Stored -> States] /\ excess' \in Nat
    BY <1>2, <2>1
  <2>14. warm' = "inserting" /\ candidates' \in Seq(Others) /\ IsInjective(candidates')
    BY <2>1, <2>2
  <2>15. QED
    BY <2>10, <2>11, <2>12, <2>13, <2>14 DEF WarmInv, Others
<1>5. CASE WarmUpEnds
  BY <1>5 DEF WarmUpEnds, WarmInv
<1>6. ASSUME NEW p \in Stored, PeerstoreChanges(p) PROVE WarmInv'
  <2>1. /\ warm' = warm /\ candidates' = candidates /\ offered' = offered /\ excess' = excess
        /\ steady' = steady \ {p}
    BY <1>6 DEF PeerstoreChanges
  <2>2. PICK s \in States : known' = [known EXCEPT ![p] = s]
    BY <1>6 DEF PeerstoreChanges
  <2>3. known' \in [Stored -> States] /\ \A q \in Stored \ {p} : known'[q] = known[q]
    BY <1>2, <2>2
  <2>4. steady' \subseteq {x \in Stored : known'[x] = "addressed"}
    BY <1>2, <2>1, <2>3
  <2>5. Cardinality(steady' \ (offered' \cup ToSet(candidates'))) <= excess'
    <3> DEFINE all == offered \cup ToSet(candidates)
    <3>1. IsFiniteSet(steady \ all) /\ (steady \ {p}) \ all \subseteq steady \ all
      BY <1>1, <1>2, Fewer
    <3>2. Cardinality(steady \ all) <= excess
      BY DEF WarmInv
    <3> HIDE DEF all
    <3>3. /\ Cardinality((steady \ {p}) \ all) \in Nat /\ Cardinality(steady \ all) \in Nat
          /\ Cardinality((steady \ {p}) \ all) <= Cardinality(steady \ all)
      BY <3>1, Fewer
    <3>4. Cardinality((steady \ {p}) \ all) <= excess
      BY <1>2, <3>2, <3>3
    <3>5. QED
      BY <2>1, <3>4 DEF all
  <2>6. QED
    BY <2>1, <2>3, <2>4, <2>5 DEF WarmInv
<1>7. QED
  BY <1>3, <1>4, <1>5, <1>6 DEF WarmStep

-----------------------------------------------------------------------------
(* The loops together                                                      *)

LoopInv == UpkeepTypeOK /\ PingInv /\ StreamInv /\ WarmInv

ProvideTypes ==
    /\ listed \subseteq Cids /\ left \subseteq Cids /\ tried \subseteq Cids
    /\ round \in {"listing", "providing", "sleeping"}

LEMMA TypesAreParts ==
    UpkeepTypeOK <=> loop \in Loops /\ PingTypes /\ StreamTypes /\ ProvideTypes
BY DEF UpkeepTypeOK, PingTypes, StreamTypes, ProvideTypes

LEMMA ProvideKept ==
    ASSUME ProvideTypes, ReproviderStep \/ StoreStep
    PROVE  ProvideTypes'
<1>1. CASE StoreStep
  BY <1>1 DEF StoreStep, ListedChanges, ProvideTypes
<1>2. CASE ReproviderStep
  <2>1. CASE \E c \in Cids : Provide(c)
    BY <2>1 DEF Provide, ProvideTypes
  <2>2. CASE RoundStarts
    BY <2>2 DEF RoundStarts, ProvideTypes
  <2>3. CASE RoundEnds \/ Wake
    BY <2>3 DEF RoundEnds, Wake, ProvideTypes
  <2>4. QED
    BY <1>2, <2>1, <2>2, <2>3 DEF ReproviderStep
<1>3. QED
  BY <1>1, <1>2

\* Each part of the invariant is about the state of one loop, and is kept by the
\* steps of the others because they leave that state alone.
LEMMA PingUnchanged ==
    ASSUME PingTypes, PingInv, UNCHANGED pingVars
    PROVE  PingTypes' /\ PingInv'
<1>1. PingTypes'
  BY DEF pingVars, PingTypes
<1>2. Pinged' = Pinged /\ Fresh' = Fresh
  BY DEF pingVars, Pinged, PeersOf, Fresh
<1>3. PingTasks'
  BY <1>2 DEF pingVars, PingInv, PingTasks
<1>4. UntilSwept'
  BY DEF pingVars, PingInv, UntilSwept
<1>5. \A i \in DOMAIN waiting : Ahead(i)' = Ahead(i)
  BY <1>2 DEF pingVars, Ahead
<1>6. UntilPinged'
  BY <1>5 DEF pingVars, PingInv, UntilPinged
<1>7. QED
  BY <1>1, <1>3, <1>4, <1>6 DEF PingInv

LEMMA StreamUnchanged ==
    StreamTypes /\ StreamInv /\ UNCHANGED streamVars => StreamTypes' /\ StreamInv'
BY DEF streamVars, StreamTypes, StreamInv, GoesInTime

LEMMA ProvideUnchanged == ProvideTypes /\ UNCHANGED provideVars => ProvideTypes'
BY DEF provideVars, ProvideTypes

LEMMA WarmUnchanged == WarmInv /\ UNCHANGED warmVars => WarmInv'
BY DEF warmVars, WarmInv

LEMMA LoopInit == UpkeepInit => LoopInv
<1> SUFFICES ASSUME UpkeepInit PROVE LoopInv
  OBVIOUS
<1>1. ToSet(<<>>) = {} /\ IsInjective(<<>>) /\ Len(<<>>) = 0 /\ DOMAIN <<>> = {}
  <2>1. DOMAIN <<>> = {}
    OBVIOUS
  <2>2. QED
    BY <2>1, EmptySeq DEF ToSet, IsInjective
<1>2. PingTypes
  <2>1. <<>> \in Seq(Peers) /\ <<>> \in Seq([peer : Peers, age : {0, 1}])
    OBVIOUS
  <2>2. /\ connected = {} /\ inflight = {} /\ sweepIn = Sweep
        /\ lastPing = [p \in Peers |-> PingGap + 1] /\ unpinged = [p \in Peers |-> 0]
        /\ waiting = <<>> /\ pinging = <<>> /\ spacing = <<>>
    BY DEF UpkeepInit
  <2>3. 0 \in 0..(PingGap + 1) /\ PingGap + 1 \in 0..(PingGap + 1) /\ Sweep \in 0..Sweep
        /\ 0 <= Permits
    BY Gaps
  <2>4. QED
    BY <1>1, <2>1, <2>2, <2>3 DEF PingTypes
<1>3. PingInv
  <2>1. /\ connected = {} /\ inflight = {} /\ unpinged = [p \in Peers |-> 0]
        /\ waiting = <<>> /\ pinging = <<>> /\ spacing = <<>>
    BY DEF UpkeepInit
  <2>2. Pinged = <<>>
    BY <1>1, <2>1 DEF Pinged, PeersOf
  <2>3. PingTasks
    BY <1>1, <2>1, <2>2 DEF PingTasks
  <2>4. UntilSwept
    BY <2>1 DEF UntilSwept
  <2>5. UntilPinged
    BY <1>1, <2>1 DEF UntilPinged
  <2>6. QED
    BY <2>3, <2>4, <2>5 DEF PingInv
<1>4. StreamTypes /\ StreamInv
  <2>1. /\ \A s \in Streams : streams[s] = Closed
        /\ streams = [s \in Streams |-> Closed] /\ monitorIn = Interval /\ resetting = {}
    BY DEF UpkeepInit
  <2>2. StreamTypes
    BY <2>1, Gaps DEF StreamTypes, Closed
  <2>3. StreamInv
    BY <2>1 DEF StreamInv, GoesInTime, Closed
  <2>4. QED
    BY <2>2, <2>3
<1>5. loop \in Loops /\ ProvideTypes
  BY DEF UpkeepInit, ProvideTypes
<1>6. WarmInv
  <2>1. /\ known \in [Stored -> {"absent", "bare", "addressed"}]
        /\ warm = "asleep" /\ candidates = <<>> /\ offered = {} /\ steady = {} /\ excess = 0
    BY DEF UpkeepInit, RoutingInit
  <2>2. Cardinality({}) = 0 /\ <<>> \in Seq(Stored \ {Me})
    BY FS_EmptySet
  <2>3. offered \cup ToSet(candidates) = {} /\ steady \ (offered \cup ToSet(candidates)) = {}
    BY <1>1, <2>1
  <2>4. /\ Cardinality(offered \cup ToSet(candidates)) <= MaxPeers /\ excess \in Nat
        /\ Cardinality(steady \ (offered \cup ToSet(candidates))) <= excess
    <3>1. /\ Cardinality(offered \cup ToSet(candidates)) = 0
          /\ Cardinality(steady \ (offered \cup ToSet(candidates))) = 0
      BY <2>2, <2>3
    <3>2. MaxPeers \in Nat /\ excess = 0
      BY <2>1, RoutingAssumption
    <3>3. QED
      BY <3>1, <3>2
  <2>5. candidates \in Seq(Stored \ {Me}) /\ IsInjective(candidates) /\ ToSet(candidates) = {}
    BY <1>1, <2>1, <2>2
  <2>6. QED
    BY <2>1, <2>4, <2>5 DEF WarmInv
<1>7. QED
  BY <1>2, <1>3, <1>4, <1>5, <1>6, TypesAreParts DEF LoopInv

LEMMA LoopStep == LoopInv /\ [UpkeepNext]_upkeepVars => LoopInv'
<1> SUFFICES ASSUME LoopInv, [UpkeepNext]_upkeepVars PROVE LoopInv'
  OBVIOUS
<1>1. /\ loop \in Loops /\ PingTypes /\ StreamTypes /\ ProvideTypes
      /\ PingInv /\ StreamInv /\ WarmInv
  BY TypesAreParts DEF LoopInv
<1>2. SUFFICES /\ loop' \in Loops /\ PingTypes' /\ StreamTypes' /\ ProvideTypes'
               /\ PingInv' /\ StreamInv' /\ WarmInv'
  BY DEF LoopInv, UpkeepTypeOK, PingTypes, StreamTypes, ProvideTypes
<1>3. loop' \in Loops
  BY <1>1 DEF UpkeepNext, upkeepVars, KeepAlive, Monitor, ReproviderStep, StoreStep, Calls,
              Bootstraps, WarmsUp
<1>4. PingTypes' /\ PingInv'
  <2>1. CASE KeepAlive
    <3>1. PingTypes'
      BY <1>1, <2>1, PingTypesKept
    <3>2. QED
      BY <1>1, <2>1, <3>1, PingTasksKept, UntilSweptKept, UntilPingedKept DEF PingInv
  <2>2. CASE ~KeepAlive
    <3>1. UNCHANGED pingVars
      BY <2>2 DEF UpkeepNext, upkeepVars, loopVars, Monitor, ReproviderStep, StoreStep, Calls,
                  Bootstraps, WarmsUp
    <3>2. QED
      BY <1>1, <3>1, PingUnchanged
  <2>3. QED
    BY <2>1, <2>2
<1>5. StreamTypes' /\ StreamInv'
  <2>1. CASE Monitor
    BY <1>1, <2>1, StreamsKept
  <2>2. CASE ~Monitor
    <3>1. UNCHANGED streamVars
      BY <2>2 DEF UpkeepNext, upkeepVars, loopVars, KeepAlive, ReproviderStep, StoreStep,
                  Calls, Bootstraps, WarmsUp
    <3>2. QED
      BY <1>1, <3>1, StreamUnchanged
  <2>3. QED
    BY <2>1, <2>2
<1>6. ProvideTypes'
  <2>1. CASE ReproviderStep \/ StoreStep
    BY <1>1, <2>1, ProvideKept
  <2>2. CASE ~(ReproviderStep \/ StoreStep)
    <3>1. UNCHANGED provideVars
      BY <2>2 DEF UpkeepNext, upkeepVars, loopVars, KeepAlive, Monitor, Calls, Bootstraps,
                  WarmsUp
    <3>2. QED
      BY <1>1, <3>1, ProvideUnchanged
  <2>3. QED
    BY <2>1, <2>2
<1>7. WarmInv'
  <2>1. CASE WarmsUp
    BY <1>1, <2>1, WarmKept DEF WarmsUp
  <2>2. CASE ~WarmsUp
    <3>1. UNCHANGED warmVars
      BY <2>2 DEF UpkeepNext, upkeepVars, routingVars, KeepAlive, Monitor, ReproviderStep,
                  StoreStep, Calls, Bootstraps
    <3>2. QED
      BY <1>1, <3>1, WarmUnchanged
  <2>3. QED
    BY <2>1, <2>2
<1>8. QED
  BY <1>3, <1>4, <1>5, <1>6, <1>7

\* In every behaviour of the background loops their invariant holds: whatever is
\* in a queue, on a clock or left of a list is enough for what is still to be done.
THEOREM LoopInvariance == UpkeepSpec => []LoopInv
<1>1. QED
  BY LoopInit, LoopStep, PTL DEF UpkeepSpec

\* For every number of peers and of permits, a peer is in flight exactly while one
\* ping task is there for it: no sweep starts a second one, no end leaves a mark.
THEOREM OneTaskForEach == UpkeepSpec => []InflightIsTask
<1>1. LoopInv => InflightIsTask
  <2> SUFFICES ASSUME LoopInv PROVE InflightIsTask
    OBVIOUS
  <2>1. /\ waiting \in Seq(Peers) /\ spacing \in Seq(Peers) /\ Pinged \in Seq(Peers)
        /\ UpkeepTypeOK /\ PingTasks
    BY PeersOfFacts DEF LoopInv, UpkeepTypeOK, PingInv, Pinged
  <2>2. /\ waiting \o Pinged \in Seq(Peers) /\ IsInjective(waiting \o Pinged)
        /\ ToSet(waiting \o Pinged) = ToSet(waiting) \cup ToSet(Pinged)
    BY <2>1, InjectiveConcat DEF PingTasks
  <2> DEFINE both == waiting \o Pinged
  <2> HIDE DEF both
  <2>3. /\ both \in Seq(Peers) /\ IsInjective(both)
        /\ ToSet(both) = ToSet(waiting) \cup ToSet(Pinged)
    BY <2>2 DEF both
  <2>4. IsInjective(both \o spacing) /\ inflight = ToSet(both \o spacing)
    BY <2>1, <2>3, InjectiveConcat DEF PingTasks
  <2>5. QED
    BY <2>1, <2>4 DEF InflightIsTask, both, Pinged, PeersOf
<1>2. QED
  BY <1>1, LoopInvariance, PTL

\* For every sweep interval, number of permits and set of peers, a peer that stays
\* connected is pinged in the time that two intervals and the queue for a permit
\* take; not within one interval, since a ping ends after the sweep that started it.
THEOREM PingsComeInTime == UpkeepSpec => []PingedInTime
<1>1. LoopInv => PingedInTime
  <2> SUFFICES ASSUME LoopInv, NEW p \in connected PROVE unpinged[p] <= PingGap
    BY DEF PingedInTime
  <2>1. PingTypes /\ PingTasks /\ UntilSwept /\ UntilPinged
    BY TypesAreParts DEF LoopInv, PingInv
  <2>2. p \in Peers /\ unpinged[p] \in Nat /\ sweepIn \in Nat
    BY <2>1, Gaps DEF PingTypes
  <2>3. CASE p \notin inflight
    BY <2>1, <2>2, <2>3, Gaps DEF UntilSwept
  <2>4. CASE p \in ToSet(waiting)
    <3>1. PICK i \in DOMAIN waiting : waiting[i] = p
      BY <2>4 DEF ToSet
    <3>2. unpinged[p] + Rounds(Cardinality(Ahead(i))) <= PingGap
      BY <2>1, <3>1 DEF UntilPinged
    <3>3. Rounds(Cardinality(Ahead(i))) \in Nat
      BY <2>1, AheadFacts, RoundsOf
    <3>4. QED
      BY <2>2, <3>2, <3>3, Gaps
  <2>5. CASE p \in ToSet(Pinged)
    <3>a. /\ DOMAIN Pinged = DOMAIN pinging
          /\ \A i \in DOMAIN pinging : Pinged[i] = pinging[i].peer /\ pinging[i].age \in {0, 1}
      BY <2>1, PeersOfFacts DEF PingTypes, Pinged
    <3>1. PICK i \in DOMAIN pinging : pinging[i].peer = p /\ pinging[i].age \in {0, 1}
      BY <2>5, <3>a DEF ToSet
    <3>2. unpinged[p] + (1 - pinging[i].age) <= PingGap
      BY <2>1, <3>1 DEF UntilPinged
    <3>3. QED
      BY <2>2, <3>1, <3>2, Gaps
  <2>6. CASE p \in ToSet(spacing)
    BY <2>1, <2>6, Gaps DEF UntilPinged, ToSet
  <2>7. QED
    BY <2>1, <2>3, <2>4, <2>5, <2>6 DEF PingTasks
<1>2. QED
  BY <1>1, LoopInvariance, PTL

\* For every threshold and interval of the monitor, a tracked stream that never
\* negotiated a protocol is gone one interval after it came of age, whatever
\* happens to the other streams.
THEOREM ZombiesAreReset == UpkeepSpec => []ZombiesGo
<1>1. LoopInv => ZombiesGo
  <2> SUFFICES ASSUME LoopInv, NEW s \in Streams,
                      streams[s].open, streams[s].tracked, ~streams[s].protocol,
                      ~streams[s].raised
               PROVE  streams[s].age <= StreamGap
    BY DEF ZombiesGo
  <2>1. streams[s].age \in 0..(StreamGap + 1) /\ monitorIn \in 0..Interval
    BY DEF LoopInv, UpkeepTypeOK
  <2>2. CASE streams[s].flagged
    BY <2>2 DEF LoopInv, StreamInv, GoesInTime
  <2>3. CASE ~streams[s].flagged
    <3>1. streams[s].age + monitorIn <= StreamGap
      BY <2>3 DEF LoopInv, StreamInv, GoesInTime
    <3>2. QED
      BY <2>1, <3>1, Gaps
  <2>4. QED
    BY <2>2, <2>3
<1>2. QED
  BY <1>1, LoopInvariance, PTL

\* For every peerstore and limit, the warm-up offers the routing table at most as
\* many peers as it may, and all it listed that kept their addresses but for those
\* there was no room for.
THEOREM WarmUpOffersAll == UpkeepSpec => []WarmUpIsComplete
<1>1. LoopInv => WarmUpIsComplete
  <2> SUFFICES ASSUME LoopInv PROVE WarmUpIsComplete
    OBVIOUS
  <2>1. WarmInv
    BY DEF LoopInv
  <2>2. IsFiniteSet(Stored) /\ candidates \in Seq(Stored \ {Me}) /\ offered \subseteq Stored \ {Me}
    BY <2>1, RoutingAssumption DEF WarmInv
  <2>3. ToSet(candidates) \subseteq Stored
    <3> DEFINE others == Stored \ {Me}
    <3>1. candidates \in Seq(others) /\ others \subseteq Stored
      BY <2>2
    <3> HIDE DEF others
    <3>2. \A i \in DOMAIN candidates : candidates[i] \in Stored
      BY <3>1, ElementOfSeq, LenProperties
    <3>3. QED
      BY <3>2 DEF ToSet
  <2>4. /\ Cardinality(offered) \in Nat /\ Cardinality(offered \cup ToSet(candidates)) \in Nat
        /\ Cardinality(offered) <= Cardinality(offered \cup ToSet(candidates))
    <3>1. IsFiniteSet(offered \cup ToSet(candidates))
      BY <2>2, <2>3, Fewer
    <3>2. QED
      BY <3>1, Fewer
  <2>5. Cardinality(offered) <= MaxPeers /\ Me \notin offered
    BY <2>1, <2>2, <2>4, RoutingAssumption DEF WarmInv
  <2>6. ASSUME warm = "over" PROVE Cardinality(steady \ offered) <= excess
    <3>1. candidates = <<>>
      BY <2>1, <2>6 DEF WarmInv
    <3>2. ToSet(candidates) = {}
      BY <3>1 DEF ToSet
    <3>3. offered \cup ToSet(candidates) = offered
      BY <3>2
    <3>4. QED
      BY <2>1, <3>3 DEF WarmInv
  <2>7. QED
    BY <2>5, <2>6 DEF WarmUpIsComplete
<1>2. QED
  BY <1>1, LoopInvariance, PTL

-----------------------------------------------------------------------------
(* What the routers answer                                                 *)

\* f[i] are the providers among the first i entries, up to n.
Names(f, n, entries) ==
    /\ f[0] = <<>>
    /\ \A i \in 1..n, j \in 0..n : i = j + 1 =>
          f[i] = IF entries[i] \in Providers THEN Append(f[j], entries[i]) ELSE f[j]

\* Named(entries) is where they end.
LEMMA NamedSteps ==
    ASSUME NEW E, NEW entries \in Seq(E)
    PROVE  \E f \in [0..Len(entries) -> Seq(Providers)] :
              Names(f, Len(entries), entries) /\ Named(entries) = f[Len(entries)]
<1> DEFINE n == Len(entries)
           V == Seq(Providers)
           named == CHOOSE f : f = [i \in 0..n |->
                       IF i = 0 THEN <<>>
                       ELSE IF entries[i] \in Providers THEN Append(f[i - 1], entries[i]) ELSE f[i - 1]]
           step == [i \in 1..n |-> [v \in V |->
                       IF entries[i] \in Providers THEN Append(v, entries[i]) ELSE v]]
<1>1. n \in Nat /\ <<>> \in V /\ \A v \in V, p \in Providers : Append(v, p) \in V
  OBVIOUS
<1>a. Named(entries) = named[n]
  BY DEF Named
<1> HIDE DEF n, V
<1>2. /\ step \in [1..n -> [V -> V]]
      /\ \A i \in 1..n, v \in V :
            step[i][v] = IF entries[i] \in Providers THEN Append(v, entries[i]) ELSE v
  BY <1>1
<1> HIDE DEF step
<1>3. PICK f \in [0..n -> V] : Iteration(f, n, <<>>, step)
  BY <1>1, <1>2, Iterates
<1>4. f[0] = <<>> /\ \A i \in 1..n :
          f[i] = IF entries[i] \in Providers THEN Append(f[i-1], entries[i]) ELSE f[i-1]
  <2>1. \A i \in 1..n : f[i-1] \in V
    BY <1>1
  <2> QED BY <1>2, <1>3, <2>1 DEF Iteration
<1>5. Names(f, n, entries)
  <2> SUFFICES ASSUME NEW i \in 1..n, NEW j \in 0..n, i = j + 1
               PROVE  f[i] = IF entries[i] \in Providers THEN Append(f[j], entries[i]) ELSE f[j]
    BY <1>4 DEF Names
  <2>1. i - 1 = j
    BY <1>1
  <2> QED BY <1>4, <2>1
<1>6. f = [i \in 0..n |->
              IF i = 0 THEN <<>>
              ELSE IF entries[i] \in Providers THEN Append(f[i - 1], entries[i]) ELSE f[i - 1]]
  <2>1. \A i \in 0..n : i = 0 \/ i \in 1..n
    BY <1>1
  <2>2. \A i \in 0..n : f[i] =
              IF i = 0 THEN <<>>
              ELSE IF entries[i] \in Providers THEN Append(f[i - 1], entries[i]) ELSE f[i - 1]
    BY <1>4, <2>1, Zenon
  <2> QED BY <2>2
<1>7. named = [i \in 0..n |->
              IF i = 0 THEN <<>>
              ELSE IF entries[i] \in Providers THEN Append(named[i - 1], entries[i]) ELSE named[i - 1]]
  BY <1>6
<1> HIDE DEF named
<1>8. \A i \in 0..n : f[i] = named[i]
  <2> DEFINE S == {i \in 0..n : f[i] = named[i]}
  <2>a. \A i \in 1..n : i \in 0..n /\ i # 0
    BY <1>1
  <2>b. named[0] = <<>>
        /\ \A i \in 1..n : named[i] = IF entries[i] \in Providers THEN Append(named[i-1], entries[i]) ELSE named[i-1]
    <3> DEFINE r(i) == IF i = 0 THEN <<>> ELSE IF entries[i] \in Providers THEN Append(named[i-1], entries[i]) ELSE named[i-1]
    <3>1. named = [i \in 0..n |-> r(i)]
      BY <1>7
    <3> HIDE DEF r
    <3>2. \A i \in 0..n : named[i] = r(i)
      BY <3>1
    <3>3. 0 \in 0..n
      BY <1>1
    <3>4. named[0] = r(0) /\ \A i \in 1..n : named[i] = r(i)
      BY <2>a, <3>2, <3>3
    <3> QED BY <2>a, <3>4, Zenon DEF r
  <2>c. \A i \in 1..n : f[i-1] = named[i-1] => f[i] = named[i]
    BY <1>4, <2>b, Zenon
  <2>1. 0 \in S /\ \A i \in 1..n : i - 1 \in S => i \in S
    BY <1>1, <1>4, <2>b, <2>c
  <2> HIDE DEF S
  <2>2. 0..n \subseteq S
    BY <1>1, <2>1, Upwards
  <2> QED BY <2>2 DEF S
<1>9. Named(entries) = f[n]
  BY <1>1, <1>8, <1>a
<1> QED BY <1>5, <1>9 DEF n, V

\* They are the entries that are providers.
LEMMA NamedRight ==
    ASSUME NEW E, NEW entries \in Seq(E)
    PROVE  /\ Named(entries) \in Seq(Providers)
           /\ ToSet(Named(entries)) = ToSet(entries) \cap Providers
<1> DEFINE n == Len(entries)
           Seen(i) == {entries[k] : k \in 1..i} \cap Providers
<1>1. n \in Nat
  OBVIOUS
<1>2. PICK f \in [0..n -> Seq(Providers)] : Names(f, n, entries) /\ Named(entries) = f[n]
  BY NamedSteps
<1>3. \A i \in 0..n : ToSet(f[i]) = Seen(i)
  <2> DEFINE S == {i \in 0..n : ToSet(f[i]) = Seen(i)}
  <2>1. 0 \in S
    BY <1>1, <1>2 DEF Names, ToSet
  <2>2. ASSUME NEW i \in 1..n, i - 1 \in S PROVE i \in S
    <3> DEFINE j == i - 1
    <3>0. j \in 0..n /\ i \in 0..n /\ i = j + 1
      BY <1>1
    <3>a. ToSet(f[j]) = Seen(j)
      BY <2>2
    <3>b. Seen(i) = Seen(j) \cup ({entries[i]} \cap Providers)
      <4>1. 1..i = 1..j \cup {i}
        BY <1>1, <3>0
      <4> HIDE DEF j, S
      <4> QED BY <4>1
    <3> HIDE DEF Seen, S
    <3>1. ToSet(f[j]) = Seen(j) /\ f[j] \in Seq(Providers)
      BY <3>a, <3>0
    <3>2. f[i] = IF entries[i] \in Providers THEN Append(f[j], entries[i]) ELSE f[j]
      BY <1>2, <3>0 DEF Names
    <3> HIDE DEF j
    <3>3. ToSet(f[i]) = ToSet(f[j]) \cup ({entries[i]} \cap Providers)
      <4>1. CASE entries[i] \in Providers
        BY <3>1, <3>2, <4>1, InjectiveAppend
      <4>2. CASE entries[i] \notin Providers
        BY <3>2, <4>2
      <4> QED BY <4>1, <4>2
    <3>4. ToSet(f[i]) = Seen(i)
      BY <3>1, <3>b, <3>3
    <3> QED BY <3>0, <3>4 DEF S
  <2> HIDE DEF S
  <2>3. 0..n \subseteq S
    BY <1>1, <2>1, <2>2, Upwards
  <2> QED BY <2>3 DEF S
<1>4. ToSet(entries) = {entries[k] : k \in 1..n}
  BY DEF ToSet
<1> QED BY <1>1, <1>2, <1>3, <1>4

\* f[i] is what has been found with the first i of t, up to n.
Merges(f, n, s, t) ==
    /\ f[0] = s
    /\ \A i \in 1..n, j \in 0..n : i = j + 1 =>
          f[i] = IF t[i] \in ToSet(f[j]) THEN f[j] ELSE Append(f[j], t[i])

\* Merged(s, t) is where it ends.
LEMMA MergedSteps ==
    ASSUME NEW s \in Seq(Providers), NEW t \in Seq(Providers)
    PROVE  \E f \in [0..Len(t) -> Seq(Providers)] :
              Merges(f, Len(t), s, t) /\ Merged(s, t) = f[Len(t)]
<1> DEFINE n == Len(t)
           V == Seq(Providers)
           all == CHOOSE f : f = [i \in 0..n |->
                     IF i = 0 THEN s
                     ELSE IF t[i] \in ToSet(f[i - 1]) THEN f[i - 1] ELSE Append(f[i - 1], t[i])]
           step == [i \in 1..n |-> [v \in V |-> IF t[i] \in ToSet(v) THEN v ELSE Append(v, t[i])]]
<1>1. n \in Nat /\ s \in V /\ (\A i \in 1..n : t[i] \in Providers)
      /\ \A v \in V, p \in Providers : Append(v, p) \in V
  OBVIOUS
<1>a. Merged(s, t) = all[n]
  BY DEF Merged
<1> HIDE DEF n, V
<1>2. /\ step \in [1..n -> [V -> V]]
      /\ \A i \in 1..n, v \in V : step[i][v] = IF t[i] \in ToSet(v) THEN v ELSE Append(v, t[i])
  BY <1>1
<1> HIDE DEF step
<1>3. PICK f \in [0..n -> V] : Iteration(f, n, s, step)
  BY <1>1, <1>2, Iterates
<1>4. f[0] = s /\ \A i \in 1..n :
          f[i] = IF t[i] \in ToSet(f[i-1]) THEN f[i-1] ELSE Append(f[i-1], t[i])
  <2>1. \A i \in 1..n : f[i-1] \in V
    BY <1>1
  <2> QED BY <1>2, <1>3, <2>1 DEF Iteration
<1>5. Merges(f, n, s, t)
  <2> SUFFICES ASSUME NEW i \in 1..n, NEW j \in 0..n, i = j + 1
               PROVE  f[i] = IF t[i] \in ToSet(f[j]) THEN f[j] ELSE Append(f[j], t[i])
    BY <1>4 DEF Merges
  <2>1. i - 1 = j
    BY <1>1
  <2> QED BY <1>4, <2>1
<1>6. f = [i \in 0..n |->
              IF i = 0 THEN s
              ELSE IF t[i] \in ToSet(f[i - 1]) THEN f[i - 1] ELSE Append(f[i - 1], t[i])]
  <2>1. \A i \in 0..n : i = 0 \/ i \in 1..n
    BY <1>1
  <2>2. \A i \in 0..n : f[i] =
              IF i = 0 THEN s
              ELSE IF t[i] \in ToSet(f[i - 1]) THEN f[i - 1] ELSE Append(f[i - 1], t[i])
    BY <1>4, <2>1, Zenon
  <2> QED BY <2>2
<1>7. all = [i \in 0..n |->
              IF i = 0 THEN s
              ELSE IF t[i] \in ToSet(all[i - 1]) THEN all[i - 1] ELSE Append(all[i - 1], t[i])]
  BY <1>6
<1> HIDE DEF all
<1>8. \A i \in 0..n : f[i] = all[i]
  <2> DEFINE S == {i \in 0..n : f[i] = all[i]}
  <2>a. \A i \in 1..n : i \in 0..n /\ i # 0
    BY <1>1
  <2>b. all[0] = s
        /\ \A i \in 1..n : all[i] = IF t[i] \in ToSet(all[i-1]) THEN all[i-1] ELSE Append(all[i-1], t[i])
    <3> DEFINE r(i) == IF i = 0 THEN s ELSE IF t[i] \in ToSet(all[i-1]) THEN all[i-1] ELSE Append(all[i-1], t[i])
    <3>1. all = [i \in 0..n |-> r(i)]
      BY <1>7
    <3> HIDE DEF r
    <3>2. \A i \in 0..n : all[i] = r(i)
      BY <3>1
    <3>3. 0 \in 0..n
      BY <1>1
    <3>4. all[0] = r(0) /\ \A i \in 1..n : all[i] = r(i)
      BY <2>a, <3>2, <3>3
    <3> QED BY <2>a, <3>4, Zenon DEF r
  <2>c. \A i \in 1..n : f[i-1] = all[i-1] => f[i] = all[i]
    BY <1>4, <2>b, Zenon
  <2>1. 0 \in S /\ \A i \in 1..n : i - 1 \in S => i \in S
    BY <1>1, <1>4, <2>b, <2>c
  <2> HIDE DEF S
  <2>2. 0..n \subseteq S
    BY <1>1, <2>1, Upwards
  <2> QED BY <2>2 DEF S
<1>9. Merged(s, t) = f[n]
  BY <1>1, <1>8, <1>a
<1> QED BY <1>5, <1>9 DEF n, V

\* Everybody of both, nobody twice.
LEMMA MergedRight ==
    ASSUME NEW s \in Seq(Providers), NEW t \in Seq(Providers), IsInjective(s)
    PROVE  /\ Merged(s, t) \in Seq(Providers) /\ IsInjective(Merged(s, t))
           /\ ToSet(Merged(s, t)) = ToSet(s) \cup ToSet(t)
<1> DEFINE n == Len(t)
           Seen(i) == ToSet(s) \cup {t[k] : k \in 1..i}
<1>1. n \in Nat /\ \A i \in 1..n : t[i] \in Providers
  OBVIOUS
<1>2. PICK f \in [0..n -> Seq(Providers)] : Merges(f, n, s, t) /\ Merged(s, t) = f[n]
  BY MergedSteps
<1>3. \A i \in 0..n : ToSet(f[i]) = Seen(i) /\ IsInjective(f[i])
  <2> DEFINE S == {i \in 0..n : ToSet(f[i]) = Seen(i) /\ IsInjective(f[i])}
  <2>1. 0 \in S
    BY <1>1, <1>2 DEF Merges
  <2>2. ASSUME NEW i \in 1..n, i - 1 \in S PROVE i \in S
    <3> DEFINE j == i - 1
    <3>1. /\ j \in 0..n /\ i \in 0..n /\ i = j + 1 /\ ToSet(f[j]) = Seen(j) /\ IsInjective(f[j])
          /\ f[j] \in Seq(Providers)
      BY <1>1, <2>2
    <3>2. Seen(i) = Seen(j) \cup {t[i]}
      BY <1>1
    <3>3. f[i] = IF t[i] \in ToSet(f[j]) THEN f[j] ELSE Append(f[j], t[i])
      BY <1>2, <3>1 DEF Merges
    <3> HIDE DEF j, Seen
    <3>4. ToSet(f[i]) = ToSet(f[j]) \cup {t[i]} /\ IsInjective(f[i])
      <4>1. CASE t[i] \in ToSet(f[j])
        BY <3>1, <3>3, <4>1
      <4>2. CASE t[i] \notin ToSet(f[j])
        <5>1. t[i] \in Providers
          BY <1>1
        <5> QED BY <3>1, <3>3, <4>2, <5>1, InjectiveAppend
      <4> QED BY <4>1, <4>2
    <3> QED BY <3>1, <3>2, <3>4
  <2> HIDE DEF S
  <2>3. 0..n \subseteq S
    BY <1>1, <2>1, <2>2, Upwards
  <2> QED BY <2>3 DEF S
<1>4. ToSet(t) = {t[k] : k \in 1..n}
  BY DEF ToSet
<1> QED BY <1>1, <1>2, <1>3, <1>4

\* The first n of a sequence.
LEMMA FirstOfRight ==
    ASSUME NEW V, NEW s \in Seq(V), NEW n \in Nat
    PROVE  /\ FirstOf(s, n) \in Seq(V) /\ Len(FirstOf(s, n)) <= n
           /\ Len(s) <= n => FirstOf(s, n) = s
           /\ Len(s) >= n => Len(FirstOf(s, n)) = n
           /\ ToSet(FirstOf(s, n)) \subseteq ToSet(s)
           /\ IsInjective(s) => IsInjective(FirstOf(s, n))
<1> DEFINE m == IF Len(s) < n THEN Len(s) ELSE n
           p == FirstOf(s, n)
<1>1. m \in 0..Len(s) /\ Len(s) \in Nat /\ m <= n /\ (Len(s) <= n => m = Len(s)) /\ (Len(s) >= n => m = n)
  OBVIOUS
<1>2. p = SubSeq(s, 1, m)
  BY DEF FirstOf
<1> HIDE DEF m, p
<1>3. p \in Seq(V) /\ Len(p) = m /\ \A i \in 1..m : p[i] = s[i]
  BY <1>1, <1>2
<1>4. DOMAIN p = 1..m /\ DOMAIN s = 1..Len(s) /\ 1..m \subseteq 1..Len(s)
  BY <1>1, <1>3
<1>5. Len(s) <= n => p = s
  <2> SUFFICES ASSUME Len(s) <= n PROVE p = s
    OBVIOUS
  <2>1. Len(p) = Len(s) /\ \A i \in 1..Len(p) : p[i] = s[i]
    BY <1>1, <1>3
  <2> QED BY <1>3, <2>1, SeqEqual
<1>6. ToSet(p) \subseteq ToSet(s)
  BY <1>1, <1>3, <1>4 DEF ToSet
<1>7. IsInjective(s) => IsInjective(p)
  BY <1>1, <1>3, <1>4 DEF IsInjective
<1> QED BY <1>1, <1>3, <1>5, <1>6, <1>7 DEF p

\* What comes before the first broken entry is among the entries.
LEMMA UnbrokenRight ==
    ASSUME NEW E, NEW e \in Seq(E)
    PROVE  Unbroken(e) \in Seq(E) /\ ToSet(Unbroken(e)) \subseteq ToSet(e)
<1> DEFINE I == {k \in 1..Len(e) : e[k] = Broken}
           i == SelectInSeq(e, LAMBDA x : x = Broken)
<1>1. i = IF I # {} THEN CHOOSE x \in I : \A y \in I : x <= y ELSE 0
  BY DEF SelectInSeq, Min
<1>2. I \in SUBSET Nat /\ I \subseteq 1..Len(e) /\ Len(e) \in Nat
  OBVIOUS
<1>3. Unbroken(e) = IF i = 0 THEN e ELSE SubSeq(e, 1, i - 1)
  BY DEF Unbroken
<1> HIDE DEF i, I
<1>4. i \in 0..Len(e)
  <2>1. CASE I = {}
    BY <1>1, <1>2, <2>1
  <2>2. CASE I # {}
    <3>1. \E x \in I : \A y \in I : x <= y
      BY <1>2, <2>2, LeastNatural
    <3>2. i \in I
      BY <1>1, <2>2, <3>1
    <3> QED BY <1>2, <3>2
  <2> QED BY <2>1, <2>2
<1>5. CASE i = 0
  BY <1>3, <1>5
<1>6. CASE i # 0
  <2> DEFINE p == SubSeq(e, 1, i - 1)
  <2>1. p \in Seq(E) /\ Len(p) = i - 1 /\ (\A k \in 1..(i - 1) : p[k] = e[k]) /\ i - 1 \in 0..Len(e)
    BY <1>2, <1>4, <1>6
  <2> HIDE DEF p
  <2>2. ToSet(p) \subseteq ToSet(e)
    BY <1>2, <2>1 DEF ToSet
  <2> QED BY <1>3, <1>6, <2>1, <2>2 DEF p
<1> QED BY <1>5, <1>6

-----------------------------------------------------------------------------
(* Calls of TieredRouting                                                  *)

\* What a router answers: providers that it names.  If the answer is whole they are
\* all of them, or as many as are asked for.
AnswerRight(a) ==
    /\ a.providers \in Seq(Providers) /\ ToSet(a.providers) \subseteq a.named
    /\ a.named \subseteq Providers /\ a.whole \in BOOLEAN
    /\ a.whole => \/ ToSet(a.providers) = a.named
                  \/ IsInjective(a.providers) /\ Len(a.providers) >= Count

LEMMA BoundedIsSeq == ASSUME NEW V, NEW n, NEW q \in BoundedSeq(V, n) PROVE q \in Seq(V)
<1>1. PICK m \in 0..n : q \in [1..m -> V]
  BY DEF BoundedSeq, SeqOf
<1>2. m \in Nat
  BY <1>1
<1> QED BY <1>1, <1>2

\* What the HTTP client makes of the entries that it reads.
LEMMA ReadRight ==
    ASSUME NEW E, NEW e \in Seq(E), NEW read \in Seq(E), ToSet(read) \subseteq ToSet(e), NEW a,
           a = [providers |-> FirstOf(Named(read), Count), named |-> ToSet(Named(e)),
                whole |-> read = e /\ IsInjective(Named(e))]
    PROVE  AnswerRight(a)
<1>1. /\ a.providers = FirstOf(Named(read), Count) /\ a.named = ToSet(Named(e))
      /\ a.whole = (read = e /\ IsInjective(Named(e)))
  OBVIOUS
<1>2. /\ Named(read) \in Seq(Providers) /\ ToSet(Named(read)) = ToSet(read) \cap Providers
      /\ Named(e) \in Seq(Providers) /\ ToSet(Named(e)) = ToSet(e) \cap Providers
  BY NamedRight
<1> DEFINE s == Named(read)
           p == FirstOf(s, Count)
<1>3. Count \in Nat
  BY RoutingAssumption DEF RoutingAssumption
<1> HIDE DEF s
<1>s. s \in Seq(Providers)
  BY <1>2 DEF s
<1>4. /\ p \in Seq(Providers) /\ ToSet(p) \subseteq ToSet(s)
      /\ Len(s) <= Count => p = s
      /\ Len(s) >= Count => Len(p) = Count
      /\ IsInjective(s) => IsInjective(p)
  BY <1>3, <1>s, FirstOfRight
<1>5. Len(s) \in Nat
  BY <1>s
<1> HIDE DEF p
<1>6. a.whole => ToSet(p) = ToSet(Named(e)) \/ (IsInjective(p) /\ Len(p) >= Count)
  <2> SUFFICES ASSUME a.whole PROVE ToSet(p) = ToSet(Named(e)) \/ (IsInjective(p) /\ Len(p) >= Count)
    OBVIOUS
  <2>1. s = Named(e) /\ IsInjective(s)
    BY <1>1 DEF s
  <2>2. CASE Len(s) <= Count
    BY <1>4, <2>1, <2>2
  <2>3. CASE Len(s) > Count
    BY <1>3, <1>4, <1>5, <2>1, <2>3
  <2> QED BY <1>3, <1>5, <2>2, <2>3
<1>7. a.providers = p
  BY <1>1 DEF p, s
<1>8. ToSet(p) \subseteq a.named /\ a.named \subseteq Providers /\ a.whole \in BOOLEAN
  BY <1>1, <1>2, <1>4 DEF s
<1> QED BY <1>1, <1>4, <1>6, <1>7, <1>8 DEF AnswerRight

LEMMA AnswersRight ==
    ASSUME NEW r \in DOMAIN Tier, NEW a \in Answers(r)
    PROVE  AnswerRight(a)
<1> DEFINE usable == Providers \cup {Junk}
<1>1. CASE a \in DhtAnswers
  <2>1. PICK q \in BoundedSeq(Providers, Count) : a = [providers |-> q, named |-> ToSet(q), whole |-> TRUE]
    BY <1>1 DEF DhtAnswers
  <2>2. q \in Seq(Providers)
    BY BoundedIsSeq
  <2>3. ToSet(q) \subseteq Providers
    BY <2>2 DEF ToSet
  <2> QED BY <2>1, <2>2, <2>3 DEF AnswerRight
<1>2. CASE a \in IpniAnswers
  <2>1. PICK e, read :
           /\ a = [providers |-> FirstOf(Named(read), Count), named |-> ToSet(Named(e)),
                   whole |-> read = e /\ IsInjective(Named(e))]
           /\ \/ e \in BoundedSeq(usable, MaxLines) /\ read = e
              \/ e \in BoundedSeq(usable \cup {Broken}, MaxLines) /\ read = Unbroken(e)
    BY <1>2 DEF IpniAnswers
  <2>2. CASE e \in BoundedSeq(usable, MaxLines) /\ read = e
    <3>1. e \in Seq(usable)
      BY <2>2, BoundedIsSeq
    <3> HIDE DEF usable
    <3> QED BY <2>1, <2>2, <3>1, ReadRight
  <2>3. CASE e \in BoundedSeq(usable \cup {Broken}, MaxLines) /\ read = Unbroken(e)
    <3> DEFINE E == usable \cup {Broken}
    <3>1. e \in Seq(E)
      BY <2>3, BoundedIsSeq
    <3> HIDE DEF E
    <3>2. read \in Seq(E) /\ ToSet(read) \subseteq ToSet(e)
      BY <2>3, <3>1, UnbrokenRight
    <3> QED BY <2>1, <3>1, <3>2, ReadRight
  <2> QED BY <2>1, <2>2, <2>3
<1> QED BY <1>1, <1>2 DEF Answers

\* A lookup has everybody who was named, or enough, or an answer was cut off; an
\* announcement that succeeded is held somewhere.
CallInv ==
    /\ found \in Seq(Providers) /\ clipped \in BOOLEAN
    /\ success \in BOOLEAN /\ (success => took # {})
    /\ call \in {"finding", "found"} => IsInjective(found) /\ ToSet(found) \subseteq heard
    /\ call = "finding" => clipped \/ ToSet(found) = heard \/ Len(found) >= Count
    /\ CallsAreComplete

LEMMA FindAsksKeeps ==
    ASSUME CallInv, NEW r \in DOMAIN Tier, FindAsks(r)
    PROVE  CallInv'
<1>1. /\ call' = "finding" /\ call = "finding" /\ success' = success /\ took' = took
      /\ Len(found) < Count
  BY DEF FindAsks
<1>2. /\ found \in Seq(Providers) /\ IsInjective(found) /\ ToSet(found) \subseteq heard
      /\ clipped \in BOOLEAN /\ Count \in Nat /\ Len(found) \in Nat
      /\ clipped \/ ToSet(found) = heard
  BY <1>1, RoutingAssumption DEF CallInv, RoutingAssumption
<1>3. CASE UNCHANGED <<found, heard, clipped>>
  BY <1>1, <1>3 DEF CallInv, CallsAreComplete
<1>4. ASSUME NEW a \in Answers(r), found' = Merged(found, a.providers),
             heard' = heard \cup a.named, clipped' = (clipped \/ ~a.whole)
      PROVE  CallInv'
  <2>1. AnswerRight(a)
    BY AnswersRight
  <2> DEFINE t == a.providers
             m == Merged(found, t)
  <2>2. t \in Seq(Providers) /\ ToSet(t) \subseteq a.named /\ a.whole \in BOOLEAN
    BY <2>1 DEF AnswerRight
  <2>3. /\ m \in Seq(Providers) /\ IsInjective(m) /\ ToSet(m) = ToSet(found) \cup ToSet(t)
        /\ Len(m) \in Nat
    <3> HIDE DEF t, m
    <3>1. m \in Seq(Providers) /\ IsInjective(m) /\ ToSet(m) = ToSet(found) \cup ToSet(t)
      BY <1>2, <2>2, MergedRight DEF m
    <3> QED BY <3>1
  <2> HIDE DEF m, t
  <2>4. clipped' \/ ToSet(m) = heard' \/ Len(m) >= Count
    <3> SUFFICES ASSUME ~clipped' PROVE ToSet(m) = heard' \/ Len(m) >= Count
      OBVIOUS
    <3>1. a.whole /\ ToSet(found) = heard
      BY <1>2, <1>4
    <3>2. CASE ToSet(t) = a.named
      BY <1>4, <2>3, <3>1, <3>2
    <3>3. CASE IsInjective(t) /\ Len(t) >= Count
      <4>1. /\ IsFiniteSet(ToSet(m)) /\ Cardinality(ToSet(m)) = Len(m)
            /\ Cardinality(ToSet(t)) = Len(t)
        BY <2>2, <2>3, <3>3, InjectiveLength
      <4>2. Cardinality(ToSet(t)) <= Cardinality(ToSet(m))
        BY <2>3, <4>1, Fewer
      <4>3. Len(t) \in Nat
        BY <2>2
      <4> QED BY <1>2, <2>3, <3>3, <4>1, <4>2, <4>3
    <3> QED BY <2>1, <3>1, <3>2, <3>3 DEF AnswerRight, t
  <2>5. found' = m /\ ToSet(m) \subseteq heard'
    BY <1>2, <1>4, <2>2, <2>3 DEF m, t
  <2>6. clipped' \in BOOLEAN
    BY <1>2, <1>4, <2>2
  <2> QED BY <1>1, <2>3, <2>4, <2>5, <2>6 DEF CallInv, CallsAreComplete
<1> QED BY <1>3, <1>4 DEF FindAsks

LEMMA FindReturnsKeeps ==
    ASSUME CallInv, FindReturns
    PROVE  CallInv'
<1> DEFINE p == FirstOf(found, Count)
<1>1. /\ found \in Seq(Providers) /\ IsInjective(found) /\ ToSet(found) \subseteq heard
      /\ Count \in Nat /\ Len(found) \in Nat
      /\ clipped \/ ToSet(found) = heard \/ Len(found) >= Count
      /\ call' = "found" /\ found' = p /\ (asked = DOMAIN Tier \/ Len(found) >= Count)
      /\ UNCHANGED <<asked, heard, clipped, success, took>>
  BY RoutingAssumption DEF CallInv, RoutingAssumption, FindReturns
<1>2. /\ p \in Seq(Providers) /\ Len(p) <= Count /\ ToSet(p) \subseteq ToSet(found)
      /\ Len(found) <= Count => p = found
      /\ Len(found) >= Count => Len(p) = Count
      /\ IsInjective(p)
  BY <1>1, FirstOfRight
<1> HIDE DEF p
<1>3. Len(p) < Count => p = found /\ asked = DOMAIN Tier /\ (clipped \/ ToSet(p) = heard)
  <2> SUFFICES ASSUME Len(p) < Count PROVE p = found /\ asked = DOMAIN Tier /\ (clipped \/ ToSet(p) = heard)
    OBVIOUS
  <2>1. Len(p) \in Nat
    BY <1>2
  <2>2. ~(Len(found) >= Count)
    BY <1>1, <1>2, <2>1
  <2>3. p = found
    BY <1>1, <1>2, <2>2
  <2> QED BY <1>1, <2>2, <2>3
<1>4. CallsAreComplete'
  BY <1>1, <1>2, <1>3 DEF CallsAreComplete
<1> QED BY <1>1, <1>2, <1>4 DEF CallInv

LEMMA CallKept ==
    ASSUME CallInv, CallStep
    PROVE  CallInv'
<1>1. CASE Find
  <2>1. /\ call' = "finding" /\ found' = <<>> /\ heard' = {} /\ clipped' = FALSE
        /\ success' = success /\ took' = took
    BY <1>1 DEF Find
  <2>2. <<>> \in Seq(Providers) /\ IsInjective(<<>>) /\ ToSet(<<>>) = {}
    BY DEF IsInjective, ToSet
  <2> QED BY <2>1, <2>2 DEF CallInv, CallsAreComplete
<1>2. CASE FindReturns
  BY <1>2, FindReturnsKeeps
<1>3. CASE Announce
  <2>1. /\ call' = "providing" /\ success' = FALSE /\ took' = {}
        /\ UNCHANGED <<found, heard, clipped>>
    BY <1>3 DEF Announce
  <2> QED BY <2>1 DEF CallInv, CallsAreComplete
<1>4. CASE AnnounceReturns
  BY <1>4 DEF AnnounceReturns, CallInv, CallsAreComplete
<1>5. CASE AnnounceTimesOut
  BY <1>5 DEF AnnounceTimesOut, CallInv, CallsAreComplete
<1>6. ASSUME NEW r \in DOMAIN Tier, FindAsks(r) PROVE CallInv'
  BY <1>6, FindAsksKeeps
<1>7. ASSUME NEW r \in DOMAIN Tier, AnnounceAsks(r) PROVE CallInv'
  <2>1. /\ call = "providing" /\ call' = "providing" /\ UNCHANGED <<found, heard, clipped>>
        /\ took' \in {took, took \cup {r}}
        /\ success' \in IF r \in took' THEN {success, TRUE} ELSE {success}
    BY <1>7 DEF AnnounceAsks
  <2>2. success' \in BOOLEAN /\ (success' => took' # {})
    BY <2>1 DEF CallInv
  <2> QED BY <2>1, <2>2 DEF CallInv, CallsAreComplete
<1> QED BY <1>1, <1>2, <1>3, <1>4, <1>5, <1>6, <1>7 DEF CallStep

LEMMA CallUnchanged == CallInv /\ UNCHANGED callVars => CallInv'
BY DEF callVars, CallInv, CallsAreComplete

\* For any list of routers and whatever they answer, repeat or fail to answer, a
\* lookup names nobody twice, no more than asked for and nobody that no router named;
\* when it names fewer it has asked every router and left nobody out, unless an
\* answer was cut short; and an announcement comes to every router and succeeds only
\* if one took the record.
THEOREM CallsComplete == UpkeepSpec => []CallsAreComplete
<1>1. UpkeepInit => CallInv
  <2> SUFFICES ASSUME UpkeepInit PROVE CallInv
    OBVIOUS
  <2>1. call = "none" /\ found = <<>> /\ clipped = FALSE /\ success = FALSE
    BY DEF UpkeepInit, RoutingInit
  <2>2. <<>> \in Seq(Providers)
    OBVIOUS
  <2> QED BY <2>1, <2>2 DEF CallInv, CallsAreComplete
<1>2. CallInv /\ [UpkeepNext]_upkeepVars => CallInv'
  <2> SUFFICES ASSUME CallInv, [UpkeepNext]_upkeepVars PROVE CallInv'
    OBVIOUS
  <2>1. CASE Calls
    BY <2>1, CallKept DEF Calls
  <2>2. CASE ~Calls
    <3>1. UNCHANGED callVars
      BY <2>2 DEF UpkeepNext, upkeepVars, routingVars, KeepAlive, Monitor, ReproviderStep,
                  StoreStep, Bootstraps, WarmsUp
    <3> QED BY <3>1, CallUnchanged
  <2> QED BY <2>1, <2>2
<1>3. CallInv => CallsAreComplete
  BY DEF CallInv
<1> QED BY <1>1, <1>2, <1>3, PTL DEF UpkeepSpec

=============================================================================
