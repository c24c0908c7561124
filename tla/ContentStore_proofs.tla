------------------------- MODULE ContentStore_proofs -------------------------
(***************************************************************************)
(* ContentStore: mark-and-sweep over any finite set of blocks, any links,  *)
(* any number of adds, and any interleaving with the operations that take  *)
(* no lock: a collection deletes no block of a pinned DAG whose blocks its *)
(* walks all found, and marks nothing that is not pinned.                  *)
(*                                                                         *)
(* Transfers: whatever is put, deleted, cancelled or failing meanwhile,    *)
(* export_car leaves whole DAGs, import_car brings what the file is to     *)
(* bring and refuses no complete one without a reason, get_file and        *)
(* get_many deliver in order, and uploads and downloads stay within their  *)
(* limits.                                                                 *)
(***************************************************************************)
EXTENDS ContentStore, Transfers, SequenceTheorems, Induction, TLAPS

-----------------------------------------------------------------------------
(* Reachability                                                            *)

\* What a block reaches includes itself and is closed under links.
LEMMA ReachClosed ==
    ASSUME NEW p \in Blocks
    PROVE  p \in Reach[p] /\ Reach[p] \subseteq Blocks /\ Closed(Reach[p])
<1>1. Reach[p] = {d \in Blocks : \A S \in SUBSET Blocks : p \in S /\ Closed(S) => d \in S}
  BY DEF Reach
<1>2. p \in Reach[p] /\ Reach[p] \subseteq Blocks
  BY <1>1
<1>3. ASSUME NEW b \in Reach[p], NEW d \in Links[b] PROVE d \in Reach[p]
  <2>1. b \in Blocks /\ d \in Blocks
    BY <1>2, StoreAssumption
  <2>2. ASSUME NEW S \in SUBSET Blocks, p \in S, Closed(S) PROVE d \in S
    <3>1. b \in S
      BY <1>1, <2>2
    <3>2. QED
      BY <2>2, <3>1 DEF Closed
  <2>3. QED
    BY <1>1, <2>1, <2>2
<1>4. QED
  BY <1>2, <1>3 DEF Closed

\* It is the smallest such set.
LEMMA ReachLeast ==
    ASSUME NEW p \in Blocks, NEW S \in SUBSET Blocks, p \in S, Closed(S)
    PROVE  Reach[p] \subseteq S
BY DEF Reach

\* A walk that has emptied its queue and found every block of the DAG has
\* visited all of it.
LEMMA WalkComplete ==
    ASSUME NEW p \in Blocks, NEW found \in SUBSET Blocks, NEW lost,
           p \in found,
           found \subseteq Reach[p],
           \A b \in found \ lost : Links[b] \subseteq found,
           Reach[p] \intersect lost = {}
    PROVE  Reach[p] \subseteq found
<1>1. Closed(found)
  BY DEF Closed
<1>2. QED
  BY <1>1, ReachLeast

-----------------------------------------------------------------------------
(* The invariant is inductive                                              *)

\* Nothing has been collected and nobody holds the lock.
LEMMA InitIInv == Init => IInv
<1> SUFFICES ASSUME Init PROVE IInv
  OBVIOUS
<1>1. TypeOK
  BY DEF Init, Idle, NoPins, PinTypes, Phases, Lock!Init, TypeOK
<1>2. PhaseOrder
  BY DEF Init, Idle, Lock!Init, PhaseOrder
<1>3. WalkOnTrack /\ MarksOnlyPinned
  BY DEF Init, Idle, WalkOnTrack, MarksOnlyPinned
<1>4. SettledMarked
  BY DEF Init, Idle, NoPins, SettledMarked, Settled
<1>5. QED
  BY <1>1, <1>2, <1>3, <1>4 DEF IInv

\* A step of anything but the marking leaves what the walks know as it is.
LEMMA MarkUntouched ==
    ASSUME IInv, UNCHANGED <<gcPins, pinsLeft, walkVars>>
    PROVE  WalkOnTrack' /\ SettledMarked' /\ MarksOnlyPinned'
BY DEF IInv, walkVars, WalkOnTrack, SettledMarked, Settled, MarksOnlyPinned, Protects

\* Adds, and the operations that take no lock.
LEMMA OthersIInv ==
    ASSUME IInv,
           \/ \E t \in Adders, b \in Blocks : StartAdd(t, {b}) \/ StartAdd(t, Reach[b])
           \/ \E t \in Adders : AddStep(t)
           \/ \E b \in Blocks : PutUnlocked(b) \/ RemoveNode(b) \/ RemovePin(b)
           \/ \E b \in Blocks, type \in {"direct", "recursive"} : AddPin(b, type)
    PROVE  IInv'
<1>0. TypeOK /\ PhaseOrder
  BY DEF IInv
<1>1. UNCHANGED <<phase, keys, gcPins, pinsLeft, walkVars, victims, writers>>
  BY DEF StartAdd, AddStep, AddBlock, EndAdd, PutUnlocked, RemoveNode, RemovePin, AddPin,
         gcVars, Lock!EnterRead, Lock!LeaveRead
<1>2. WalkOnTrack' /\ SettledMarked' /\ MarksOnlyPinned'
  BY <1>1, MarkUntouched
<1>3. readers' = {} \/ writers' = {}
  BY <1>0, <1>1 DEF PhaseOrder, StartAdd, AddStep, AddBlock, EndAdd, PutUnlocked, RemoveNode,
     RemovePin, AddPin, addVars, Lock!EnterRead, Lock!LeaveRead
<1>4. PhaseOrder'
  BY <1>0, <1>1, <1>3 DEF PhaseOrder, walkVars
<1>5. store' \subseteq Blocks /\ pins' \in [Blocks -> PinTypes]
  <2>1. CASE \E b \in Blocks, type \in {"direct", "recursive"} : AddPin(b, type)
    BY <1>0, <2>1 DEF TypeOK, PinTypes, AddPin
  <2>2. CASE \E b \in Blocks : RemovePin(b)
    BY <1>0, <2>2 DEF TypeOK, PinTypes, RemovePin
  <2>3. CASE UNCHANGED pins
    BY <1>0, <2>3 DEF TypeOK, StartAdd, AddStep, AddBlock, EndAdd, PutUnlocked, RemoveNode,
       RemovePin, AddPin
  <2>4. QED
    BY <2>1, <2>2, <2>3
       DEF StartAdd, AddStep, AddBlock, EndAdd, PutUnlocked, RemoveNode
<1>6. adding' \in [Adders -> SUBSET Blocks] /\ readers' \subseteq Adders
  <2>1. \A b \in Blocks : {b} \in SUBSET Blocks /\ Reach[b] \in SUBSET Blocks
    BY ReachClosed
  <2>2. CASE \E t \in Adders, b \in Blocks : StartAdd(t, {b}) \/ StartAdd(t, Reach[b])
    BY <1>0, <2>1, <2>2 DEF TypeOK, StartAdd, Lock!EnterRead
  <2>3. CASE \E t \in Adders : AddStep(t)
    BY <1>0, <2>3 DEF TypeOK, AddStep, AddBlock, EndAdd, Lock!LeaveRead
  <2>4. CASE UNCHANGED addVars
    BY <1>0, <2>4 DEF TypeOK, addVars
  <2>5. QED
    BY <2>2, <2>3, <2>4 DEF PutUnlocked, RemoveNode, RemovePin, AddPin
<1>7. TypeOK'
  BY <1>0, <1>1, <1>5, <1>6 DEF TypeOK, walkVars
<1>8. QED
  BY <1>2, <1>4, <1>7 DEF IInv

\* gc takes the lock, lists the keys, copies the pins.
LEMMA PrepareIInv ==
    ASSUME IInv, GcStart \/ GcListKeys \/ GcReadPins
    PROVE  IInv'
<1>0. TypeOK /\ PhaseOrder
  BY DEF IInv
<1>1. CASE GcStart \/ GcListKeys
  <2>1. WalkOnTrack' /\ SettledMarked' /\ MarksOnlyPinned'
    BY <1>1, MarkUntouched DEF GcStart, GcListKeys
  <2>2. TypeOK'
    BY <1>0, <1>1 DEF TypeOK, Phases, GcStart, GcListKeys, Lock!EnterWrite, walkVars, addVars
  <2>3. PhaseOrder'
    BY <1>0, <1>1 DEF PhaseOrder, GcStart, GcListKeys, Lock!EnterWrite, walkVars, addVars
  <2>4. QED
    BY <2>1, <2>2, <2>3 DEF IInv
<1>2. CASE GcReadPins
  <2>1. /\ frontier = {} /\ reachable = {}
        /\ UNCHANGED <<store, pins, addVars, writers, keys, walkVars, victims>>
    BY <1>0, <1>2 DEF PhaseOrder, GcReadPins
  <2>2. TypeOK'
    BY <1>0, <1>2 DEF TypeOK, Phases, GcReadPins, walkVars, addVars
  <2>3. PhaseOrder'
    BY <1>0, <1>2, <2>1 DEF PhaseOrder, GcReadPins, walkVars, addVars
  <2>4. WalkOnTrack' /\ MarksOnlyPinned'
    BY <2>1 DEF WalkOnTrack, MarksOnlyPinned, walkVars
  <2>5. \A p \in Blocks : ~Settled(p)'
    BY <1>2 DEF GcReadPins, Settled
  <2>6. QED
    BY <2>2, <2>3, <2>4, <2>5 DEF IInv, SettledMarked
<1>3. QED
  BY <1>1, <1>2

\* gc goes on to the next pin.
LEMMA NextPinIInv ==
    ASSUME IInv, GcNextPin
    PROVE  IInv'
<1>0. TypeOK /\ PhaseOrder /\ SettledMarked /\ MarksOnlyPinned
  BY DEF IInv
<1>1. PICK p \in pinsLeft :
         /\ pinsLeft' = pinsLeft \ {p}
         /\ walking' = {p}
         /\ reachable' = reachable \union {p}
         /\ visited' = {}
         /\ frontier' = IF gcPins[p] = "recursive" THEN {p} ELSE {}
  BY DEF GcNextPin
<1>2. /\ phase = "marking" /\ frontier = {}
      /\ UNCHANGED <<store, pins, addVars, writers, phase, keys, gcPins, missed, victims>>
      /\ p \in Blocks /\ gcPins[p] # "none" /\ gcPins[p] \in PinTypes
  BY <1>0 DEF GcNextPin, TypeOK, PhaseOrder
<1>3. p \in Protects(gcPins, p) /\ p \in Reach[p]
  BY <1>2, ReachClosed DEF Protects, PinTypes
<1>4. TypeOK'
  BY <1>0, <1>1, <1>2 DEF TypeOK, addVars
<1>5. PhaseOrder'
  BY <1>0, <1>1, <1>2 DEF PhaseOrder, addVars
<1>6. WalkOnTrack'
  BY <1>1, <1>2, <1>3 DEF WalkOnTrack
<1>7. \A q \in Blocks : Protects(gcPins, q)' = Protects(gcPins, q)
  BY <1>2 DEF Protects
<1>8. MarksOnlyPinned'
  BY <1>0, <1>1, <1>2, <1>3, <1>7 DEF MarksOnlyPinned
<1>9. SettledMarked'
  <2> SUFFICES ASSUME NEW q \in Blocks, Settled(q)', Protects(gcPins, q) \intersect missed = {}
               PROVE  Protects(gcPins, q) \subseteq reachable'
    BY <1>2, <1>7 DEF SettledMarked
  <2>1. CASE q = p
    BY <1>1, <1>2, <2>1 DEF Settled, Protects
  <2>2. CASE q # p
    BY <1>0, <1>1, <1>2, <2>2 DEF Settled, SettledMarked
  <2>3. QED
    BY <2>1, <2>2
<1>10. QED
  BY <1>4, <1>5, <1>6, <1>8, <1>9 DEF IInv

\* walk_dag visits one block of its queue, or the read raises.
LEMMA VisitIInv ==
    ASSUME IInv, NEW b \in Blocks, GcVisit(b) \/ GcVisitFails(b)
    PROVE  IInv'
<1>0. TypeOK /\ PhaseOrder /\ WalkOnTrack /\ SettledMarked /\ MarksOnlyPinned
  BY DEF IInv
<1>1. /\ phase = "marking" /\ b \in frontier
      /\ reachable' = reachable \union {b}
      /\ missed \subseteq missed' /\ missed' \subseteq missed \union {b}
      /\ UNCHANGED <<store, pins, addVars, writers, phase, keys, gcPins, pinsLeft, walking,
                     victims>>
  BY DEF GcVisit, GcVisitFails
<1>2. PICK p \in Blocks :
         /\ walking = {p} /\ gcPins[p] = "recursive" /\ p \notin pinsLeft
         /\ p \in visited \union frontier
         /\ visited \union frontier \subseteq Reach[p]
         /\ visited \subseteq reachable
         /\ \A c \in visited \ missed : Links[c] \subseteq visited \union frontier
  BY <1>0, <1>1 DEF WalkOnTrack
<1>3. Protects(gcPins, p) = Reach[p] /\ b \in Reach[p]
  BY <1>1, <1>2 DEF Protects
<1>4. Links[b] \subseteq Blocks /\ Links[b] \subseteq Reach[p]
  BY <1>3, ReachClosed, StoreAssumption DEF Closed
<1>5. \A q \in Blocks : Protects(gcPins, q)' = Protects(gcPins, q)
  BY <1>1 DEF Protects
<1>6. MarksOnlyPinned'
  BY <1>0, <1>1, <1>3, <1>5 DEF MarksOnlyPinned
<1>7. PhaseOrder'
  BY <1>0, <1>1 DEF PhaseOrder, addVars
<1>8. ASSUME NEW q \in Blocks, q # p, Settled(q)', Protects(gcPins, q) \intersect missed' = {}
      PROVE  Protects(gcPins, q) \subseteq reachable'
  <2>1. Settled(q)
    BY <1>1, <1>2, <1>8 DEF Settled
  <2>2. QED
    BY <1>0, <1>1, <1>8, <2>1 DEF SettledMarked
<1>9. CASE GcVisit(b)
  <2>1. /\ visited' = visited \union {b}
        /\ frontier' = (frontier \union (IF b \in store THEN Links[b] ELSE {})) \ visited'
        /\ missed' = IF b \in store THEN missed ELSE missed \union {b}
    BY <1>9 DEF GcVisit
  <2>2. TypeOK'
    BY <1>0, <1>1, <1>4, <2>1 DEF TypeOK, addVars
  <2>3. /\ p \in visited' \union frontier'
        /\ visited' \union frontier' \subseteq Reach[p]
        /\ visited' \subseteq reachable'
    BY <1>1, <1>2, <1>3, <1>4, <2>1
  <2>4. \A c \in visited' \ missed' : Links[c] \subseteq visited' \union frontier'
    BY <1>1, <1>2, <2>1
  <2>5. WalkOnTrack'
    BY <1>1, <1>2, <2>3, <2>4 DEF WalkOnTrack
  <2>6. ASSUME Settled(p)', Reach[p] \intersect missed' = {}
        PROVE  Reach[p] \subseteq reachable'
    <3>1. frontier' = {}
      BY <1>1, <1>2, <2>6 DEF Settled
    <3>2. visited' \in SUBSET Blocks /\ p \in visited' /\ visited' \subseteq Reach[p]
          /\ \A c \in visited' \ missed' : Links[c] \subseteq visited'
      BY <2>2, <2>3, <2>4, <3>1 DEF TypeOK
    <3>3. Reach[p] \subseteq visited'
      BY <2>6, <3>2, WalkComplete
    <3>4. QED
      BY <2>3, <3>3
  <2>7. SettledMarked'
    BY <1>3, <1>5, <1>8, <2>6 DEF SettledMarked
  <2>8. QED
    BY <1>6, <1>7, <2>2, <2>5, <2>7 DEF IInv
<1>10. CASE GcVisitFails(b)
  <2>1. frontier' = {} /\ b \in missed' /\ visited' = visited
    BY <1>10 DEF GcVisitFails
  <2>2. TypeOK'
    BY <1>0, <1>1, <2>1 DEF TypeOK, addVars
  <2>3. WalkOnTrack'
    BY <2>1 DEF WalkOnTrack
  <2>4. SettledMarked'
    BY <1>3, <1>5, <1>8, <2>1 DEF SettledMarked
  <2>5. QED
    BY <1>6, <1>7, <2>2, <2>3, <2>4 DEF IInv
<1>11. QED
  BY <1>9, <1>10

\* Marking ends and the sweep deletes.
LEMMA SweepIInv ==
    ASSUME IInv, GcMarked \/ \E b \in Blocks : GcDelete(b)
    PROVE  IInv'
<1>0. TypeOK /\ PhaseOrder /\ WalkOnTrack /\ SettledMarked /\ MarksOnlyPinned
  BY DEF IInv
<1>1. CASE GcMarked
  <2>1. /\ phase = "marking" /\ frontier = {} /\ pinsLeft = {}
        /\ victims' = keys \ reachable
        /\ phase' = "sweeping"
        /\ walking' = {} /\ visited' = {}
        /\ UNCHANGED <<store, pins, addVars, writers, keys, gcPins, pinsLeft, frontier,
                       reachable, missed>>
    BY <1>1 DEF GcMarked
  <2>2. TypeOK'
    BY <1>0, <2>1 DEF TypeOK, Phases, addVars
  <2>3. PhaseOrder'
    BY <1>0, <2>1 DEF PhaseOrder, addVars
  <2>4. WalkOnTrack' /\ MarksOnlyPinned'
    BY <1>0, <2>1 DEF WalkOnTrack, MarksOnlyPinned, Protects
  <2>5. SettledMarked'
    BY <1>0, <2>1 DEF SettledMarked, Settled, Protects
  <2>6. QED
    BY <2>2, <2>3, <2>4, <2>5 DEF IInv
<1>2. CASE \E b \in Blocks : GcDelete(b)
  <2>1. WalkOnTrack' /\ SettledMarked' /\ MarksOnlyPinned'
    BY <1>2, MarkUntouched DEF GcDelete
  <2>2. TypeOK'
    BY <1>0, <1>2 DEF TypeOK, GcDelete, addVars, walkVars
  <2>3. PhaseOrder'
    BY <1>0, <1>2 DEF PhaseOrder, GcDelete, addVars, walkVars
  <2>4. QED
    BY <2>1, <2>2, <2>3 DEF IInv
<1>3. QED
  BY <1>1, <1>2

\* gc ends, or the process dies: nothing is left of the collection.
LEMMA ForgetIInv ==
    ASSUME IInv, GcEnd \/ Restart
    PROVE  IInv'
<1>0. TypeOK /\ PhaseOrder
  BY DEF IInv
<1>1. ForgetCollection /\ writers' = {} /\ store' = store
  BY <1>0 DEF GcEnd, Restart, Lock!LeaveWrite, TypeOK
<1>2. WalkOnTrack' /\ MarksOnlyPinned'
  BY <1>1 DEF ForgetCollection, WalkOnTrack, MarksOnlyPinned
<1>3. SettledMarked'
  BY <1>1 DEF ForgetCollection, NoPins, SettledMarked, Settled
<1>4. PhaseOrder'
  BY <1>1 DEF ForgetCollection, PhaseOrder
<1>5. /\ pins' \in [Blocks -> PinTypes] /\ readers' \subseteq Adders
      /\ adding' \in [Adders -> SUBSET Blocks]
  BY <1>0 DEF TypeOK, GcEnd, Restart, Lock!LeaveWrite
<1>6. TypeOK'
  BY <1>0, <1>1, <1>5 DEF TypeOK, ForgetCollection, NoPins, PinTypes, Phases
<1>7. QED
  BY <1>2, <1>3, <1>4, <1>6 DEF IInv

\* No step breaks the invariant.
LEMMA NextIInv == IInv /\ [Next]_vars => IInv'
<1> SUFFICES ASSUME IInv, [Next]_vars PROVE IInv'
  OBVIOUS
<1>1. CASE GcStep
  BY <1>1, PrepareIInv, NextPinIInv, VisitIInv, SweepIInv, ForgetIInv DEF GcStep
<1>2. CASE UNCHANGED vars
  <2>1. WalkOnTrack' /\ SettledMarked' /\ MarksOnlyPinned'
    BY <1>2, MarkUntouched DEF vars, gcVars
  <2>2. TypeOK' /\ PhaseOrder'
    BY <1>2 DEF IInv, TypeOK, PhaseOrder, vars, addVars, gcVars, walkVars
  <2>3. QED
    BY <2>1, <2>2 DEF IInv
<1>3. CASE GcStart \/ Restart
  BY <1>3, PrepareIInv, ForgetIInv
<1>4. QED
  BY <1>1, <1>2, <1>3, OthersIInv DEF Next

\* The strengthened invariant holds in every behaviour.
THEOREM Invariance == Spec => []IInv
<1>1. QED
  BY InitIInv, NextIInv, PTL DEF Spec

-----------------------------------------------------------------------------
(* What follows from it                                                    *)

\* Every variable stays in its type.
THEOREM TypeCorrect == Spec => []TypeOK
<1>1. IInv => TypeOK
  BY DEF IInv
<1>2. QED
  BY <1>1, Invariance, PTL

\* No collection deletes a block of a pinned DAG that its walks found whole,
\* whatever the unlocked operations do meanwhile.
THEOREM PinnedSpared == Spec => []SparesPinned
<1>1. IInv => SparesPinned
  <2> SUFFICES ASSUME IInv, phase = "sweeping", NEW p \in Blocks,
                      Protects(gcPins, p) \intersect missed = {}
               PROVE  Protects(gcPins, p) \intersect victims = {}
    BY DEF SparesPinned
  <2>1. CASE gcPins[p] = "none"
    BY <2>1 DEF Protects
  <2>2. CASE gcPins[p] # "none"
    <3>1. Settled(p)
      BY <2>2 DEF IInv, PhaseOrder, Settled
    <3>2. QED
      BY <3>1 DEF IInv, PhaseOrder, SettledMarked
  <2>3. QED
    BY <2>1, <2>2
<1>2. QED
  BY <1>1, Invariance, PTL

\* A collection keeps only what a pin protects.
THEOREM OnlyPinnedMarked == Spec => []MarksOnlyPinned
<1>1. IInv => MarksOnlyPinned
  BY DEF IInv
<1>2. QED
  BY <1>1, Invariance, PTL

\* While an add is under way, only remove_node takes blocks out of the store.
THEOREM AddsUndisturbed == Spec => StoreGrowsDuringAdd
<1>1. IInv /\ [Next]_vars =>
         (readers # {} => store \subseteq store' \/ \E b \in Blocks : RemoveNode(b))
  <2> SUFFICES ASSUME IInv, [Next]_vars, readers # {}, ~(\E b \in Blocks : RemoveNode(b))
               PROVE  store \subseteq store'
    OBVIOUS
  <2>1. phase = "idle"
    BY DEF IInv, PhaseOrder
  <2>2. CASE UNCHANGED vars
    BY <2>2 DEF vars
  <2>3. CASE Next
    BY <2>1, <2>3 DEF Next, StartAdd, AddStep, AddBlock, EndAdd, PutUnlocked, RemovePin, AddPin,
       GcStart, GcStep, GcListKeys, GcReadPins, GcNextPin, GcMarked, GcEnd, GcVisit,
       GcVisitFails, GcDelete, Restart
  <2>4. QED
    BY <2>2, <2>3
<1>2. QED
  BY <1>1, Invariance, PTL DEF Spec, StoreGrowsDuringAdd

-----------------------------------------------------------------------------
(* Transfers: what every task holds                                        *)

Stored == {b \in Cids : Has(b)}

\* A walk that is to visit all below its roots has left nothing out: the links of
\* what it has visited are visited or waiting.
WalkWhole(k) == \A b \in k.seen : ToSet(LinksOf[b]) \subseteq k.seen \cup ToSet(k.queue)

\* An export has written what it has visited, each block once, and that is of one DAG.
ExportRight(k) ==
    k.op = "export" /\ k.pc = "running" =>
        /\ IsInjective(k.out) /\ ToSet(k.out) = k.seen
        /\ WalkWhole(k)
        /\ \E root \in Cids :
              /\ IF k.out = <<>> THEN k.queue = <<root>> ELSE k.out[1] = root
              /\ k.seen \cup ToSet(k.queue) \subseteq Dag[root]

\* What an import is to bring by root b, with S in the store.
Brought(k, b, S) == (IF k.strict THEN Dag[b] ELSE {b}) \subseteq S

\* The blocks of the file that were read are in the store.
ReadIn(k, S) ==
    \A i \in DOMAIN k.file.items : k.file.items[i] \in ToSet(k.rest) \/ k.file.items[i].cid \in S

\* The roots that were checked brought what they are to, or are being walked.
RootsChecked(k, S) ==
    \A i \in DOMAIN k.file.roots :
        \/ k.file.roots[i] \in ToSet(k.rest)
        \/ Brought(k, k.file.roots[i], S)
        \/ k.pc = "walking" /\ k.file.roots[i] \in k.seen \cup ToSet(k.queue)

ImportRight(k, S) ==
    /\ k.pc \in {"checking", "walking"} => k.op = "import"
    /\ k.op = "import" /\ k.pc \in {"running", "checking", "walking", "done", "refused"} =>
          k.file \in CarFiles
    /\ k.op = "import" /\ k.pc \in {"running", "checking"} => k.seen = {}
    /\ k.op = "import" /\ k.pc = "running" =>
          /\ ToSet(k.rest) \subseteq ToSet(k.file.items)
          /\ k.disturbed \/ ReadIn(k, S)
    /\ k.pc \in {"checking", "walking"} =>
          /\ ToSet(k.rest) \subseteq ToSet(k.file.roots)
          /\ k.disturbed \/ \A i \in DOMAIN k.file.items : k.file.items[i].cid \in S
          /\ k.disturbed \/ RootsChecked(k, S)
    /\ k.pc = "walking" =>
          /\ k.strict /\ WalkWhole(k)
          /\ k.seen \cup ToSet(k.queue) \subseteq DagsOf(k.file.roots)
          /\ k.disturbed \/ k.seen \subseteq S
    /\ k.op = "import" /\ k.pc = "done" =>
          k.disturbed \/ \A i \in DOMAIN k.file.roots : Brought(k, k.file.roots[i], S)
    /\ k.op = "import" /\ k.pc = "refused" /\ Complete(k.file) =>
          k.disturbed \/ (k.strict /\ DagsOf(k.file.roots) \cap Unwalkable # {})

\* get_many has a place for the result of each CID asked for, and fills it once.
ManyRight(k) ==
    k.op = "many" /\ k.pc \in {"running", "done"} =>
        /\ k.rest \in Seq(Cids) /\ Len(k.out) = Len(k.rest)
        /\ \A i \in DOMAIN k.rest :
              k.out[i] = k.rest[i] \/ (k.out[i] = NoBlock /\ k.pc = "running")

\* Temporary files are those of tasks that run, or of cancelled exports.
TempRight(k) ==
    k.temp => k.pc \notin Ended \cup {"idle"} \/ (k.op = "export" /\ k.pc = "cancelled")

TransfersInv ==
    /\ TransfersTypeOK /\ StoreIsVerified /\ ExportedIsWhole
    /\ \A t \in Tasks :
          /\ ExportRight(task[t]) /\ ImportRight(task[t], Stored)
          /\ ManyRight(task[t]) /\ TempRight(task[t])

-----------------------------------------------------------------------------
(* Sequences and DAGs                                                      *)

LEMMA ToSetEmpty == ToSet(<<>>) = {}
BY DEF ToSet

LEMMA ToSetOne ==
    ASSUME NEW x
    PROVE  ToSet(<<x>>) = {x}
BY DEF ToSet

\* A sequence of some things is one of others if its elements are.
LEMMA ToSetWithin ==
    ASSUME NEW S, NEW T, NEW s \in Seq(S), ToSet(s) \subseteq T
    PROVE  s \in Seq(T)
<1>1. \A i \in 1..Len(s) : s[i] \in T
  BY DEF ToSet
<1> QED BY <1>1

\* A sequence that is not empty is its head and the rest.
LEMMA ToSetHead ==
    ASSUME NEW S, NEW s \in Seq(S), s # <<>>
    PROVE  /\ Head(s) \in S /\ Tail(s) \in Seq(S)
           /\ ToSet(s) = {Head(s)} \cup ToSet(Tail(s))
<1>1. Head(s) \in S /\ Tail(s) \in Seq(S) /\ Len(s) \in Nat \ {0} /\ Len(Tail(s)) = Len(s) - 1
  OBVIOUS
<1>2. \A i \in 1..Len(Tail(s)) : Tail(s)[i] = s[i + 1]
  OBVIOUS
<1>3. Head(s) = s[1]
  OBVIOUS
<1>4. ASSUME NEW i \in 1..Len(s) PROVE s[i] \in {Head(s)} \cup ToSet(Tail(s))
  <2>1. CASE i = 1
    BY <1>3, <2>1
  <2>2. CASE i # 1
    <3>1. i - 1 \in 1..Len(Tail(s)) /\ Tail(s)[i - 1] = s[i]
      BY <1>1, <1>2, <2>2
    <3>2. DOMAIN Tail(s) = 1..Len(Tail(s))
      BY <1>1
    <3>3. Tail(s)[i - 1] \in ToSet(Tail(s))
      BY <3>1, <3>2 DEF ToSet
    <3> QED BY <3>1, <3>3
  <2> QED BY <2>1, <2>2
<1>5. ASSUME NEW i \in 1..Len(Tail(s)) PROVE Tail(s)[i] \in ToSet(s)
  <2>1. i + 1 \in 1..Len(s)
    BY <1>1
  <2> QED BY <1>2, <2>1 DEF ToSet
<1>6. Head(s) \in ToSet(s)
  BY <1>1, <1>3 DEF ToSet
<1>7. ToSet(s) \subseteq {Head(s)} \cup ToSet(Tail(s))
  BY <1>4 DEF ToSet
<1>8. ToSet(Tail(s)) \subseteq ToSet(s)
  BY <1>1, <1>5 DEF ToSet
<1> QED BY <1>1, <1>6, <1>7, <1>8

LEMMA ToSetConcat ==
    ASSUME NEW S, NEW s \in Seq(S), NEW r \in Seq(S)
    PROVE  s \o r \in Seq(S) /\ ToSet(s \o r) = ToSet(s) \cup ToSet(r)
<1>1. s \o r \in Seq(S) /\ Len(s \o r) = Len(s) + Len(r)
  OBVIOUS
<1>2. \A i \in 1..Len(s) : (s \o r)[i] = s[i]
  OBVIOUS
<1>3. \A i \in 1..Len(r) : (s \o r)[Len(s) + i] = r[i]
  OBVIOUS
<1>4. ToSet(s) \subseteq ToSet(s \o r)
  BY <1>1, <1>2 DEF ToSet
<1>5. ToSet(r) \subseteq ToSet(s \o r)
  <2> SUFFICES ASSUME NEW i \in 1..Len(r) PROVE r[i] \in ToSet(s \o r)
    BY DEF ToSet
  <2>1. Len(s) + i \in 1..Len(s \o r)
    BY <1>1
  <2> QED BY <1>1, <1>3, <2>1 DEF ToSet
<1>6. ASSUME NEW i \in 1..Len(s \o r) PROVE (s \o r)[i] \in ToSet(s) \cup ToSet(r)
  <2>1. CASE i \in 1..Len(s)
    BY <1>2, <2>1 DEF ToSet
  <2>2. CASE i \notin 1..Len(s)
    <3>1. i - Len(s) \in 1..Len(r) /\ i = Len(s) + (i - Len(s))
      BY <1>1, <2>2
    <3>2. (s \o r)[i] = r[i - Len(s)]
      BY <1>3, <3>1
    <3> QED BY <3>1, <3>2 DEF ToSet
  <2> QED BY <2>1, <2>2
<1>7. ToSet(s \o r) \subseteq ToSet(s) \cup ToSet(r)
  BY <1>1, <1>6 DEF ToSet
<1> QED BY <1>1, <1>4, <1>5, <1>7

LEMMA CidsConcat ==
    ASSUME NEW s \in Seq(Cids), NEW r \in Seq(Cids)
    PROVE  s \o r \in Seq(Cids) /\ ToSet(s \o r) = ToSet(s) \cup ToSet(r)
BY ToSetConcat

\* What is appended for the first time leaves a sequence without repetition.
LEMMA AppendNew ==
    ASSUME NEW S, NEW s \in Seq(S), NEW x \in S
    PROVE  /\ Append(s, x) \in Seq(S) /\ Append(s, x) # <<>>
           /\ ToSet(Append(s, x)) = ToSet(s) \cup {x}
           /\ Append(s, x)[1] = IF s = <<>> THEN x ELSE s[1]
           /\ IsInjective(s) /\ x \notin ToSet(s) => IsInjective(Append(s, x))
<1> DEFINE a == Append(s, x)
<1>1. /\ a \in Seq(S) /\ Len(a) = Len(s) + 1 /\ Len(s) \in Nat
      /\ \A i \in 1..Len(s) : a[i] = s[i]
      /\ a[Len(s) + 1] = x
  OBVIOUS
<1>2. a # <<>>
  BY <1>1
<1>3. ToSet(a) = ToSet(s) \cup {x}
  <2>1. \A i \in 1..Len(a) : i \in 1..Len(s) \/ i = Len(s) + 1
    BY <1>1
  <2>2. 1..Len(s) \subseteq 1..Len(a) /\ Len(s) + 1 \in 1..Len(a)
    BY <1>1
  <2> HIDE DEF a
  <2> QED BY <1>1, <2>1, <2>2 DEF ToSet
<1>4. a[1] = IF s = <<>> THEN x ELSE s[1]
  OBVIOUS
<1>5. ASSUME IsInjective(s), x \notin ToSet(s) PROVE IsInjective(a)
  <2> SUFFICES ASSUME NEW i \in 1..Len(a), NEW j \in 1..Len(a), a[i] = a[j] PROVE i = j
    BY <1>1 DEF IsInjective
  <2>1. i \in 1..Len(s) \/ i = Len(s) + 1
    BY <1>1
  <2>2. j \in 1..Len(s) \/ j = Len(s) + 1
    BY <1>1
  <2>3. \A k \in 1..Len(s) : s[k] # x
    BY <1>5 DEF ToSet
  <2>4. \A k, l \in 1..Len(s) : s[k] = s[l] => k = l
    BY <1>5 DEF IsInjective
  <2> HIDE DEF a
  <2> QED BY <1>1, <2>1, <2>2, <2>3, <2>4
<1> QED BY <1>1, <1>2, <1>3, <1>4, <1>5

\* The DAG below a block has it and is closed under links.
LEMMA DagClosed ==
    ASSUME NEW b \in Cids
    PROVE  b \in Dag[b] /\ Dag[b] \subseteq Cids /\ LinksWithin(Dag[b])
<1>1. Dag[b] = {d \in Cids : \A S \in SUBSET Cids : b \in S /\ LinksWithin(S) => d \in S}
  BY DEF Dag
<1>2. b \in Dag[b] /\ Dag[b] \subseteq Cids
  BY <1>1
<1>3. ASSUME NEW d \in Dag[b], NEW e \in ToSet(LinksOf[d]) PROVE e \in Dag[b]
  <2>1. d \in Cids /\ LinksOf[d] \in Seq(Cids)
    BY <1>2, TransfersAssumption DEF TransfersAssumption
  <2>2. e \in Cids
    BY <2>1 DEF ToSet
  <2>3. ASSUME NEW S \in SUBSET Cids, b \in S, LinksWithin(S) PROVE e \in S
    BY <1>1, <2>3 DEF LinksWithin
  <2> QED BY <1>1, <2>2, <2>3
<1> QED BY <1>2, <1>3 DEF LinksWithin

\* It is the smallest such set.
LEMMA DagLeast ==
    ASSUME NEW b \in Cids, NEW S \in SUBSET Cids, b \in S, LinksWithin(S)
    PROVE  Dag[b] \subseteq S
BY DEF Dag

\* A block of a DAG has its links there.
LEMMA DagLinks ==
    ASSUME NEW root \in Cids, NEW b \in Dag[root]
    PROVE  b \in Cids /\ LinksOf[b] \in Seq(Cids) /\ ToSet(LinksOf[b]) \subseteq Dag[root]
BY DagClosed, TransfersAssumption DEF TransfersAssumption, LinksWithin

\* What is fetched below a block are links of it.
LEMMA BelowLinks ==
    ASSUME NEW b \in Cids
    PROVE  Below(b) \in Seq(Cids) /\ ToSet(Below(b)) \subseteq ToSet(LinksOf[b])
<1>1. LinksOf[b] \in Seq(Cids)
  BY TransfersAssumption DEF TransfersAssumption
<1>2. CASE Kind[b] = "file"
  BY <1>1, <1>2 DEF Below
<1>3. CASE Kind[b] = "dir" /\ LinksOf[b] # <<>>
  <2>1. Below(b) = <<LinksOf[b][1]>> /\ 1 \in DOMAIN LinksOf[b] /\ LinksOf[b][1] \in Cids
    BY <1>1, <1>3 DEF Below
  <2> QED BY <2>1 DEF ToSet
<1>4. CASE Kind[b] # "file" /\ ~(Kind[b] = "dir" /\ LinksOf[b] # <<>>)
  BY <1>4 DEF Below, ToSet
<1> QED BY <1>2, <1>3, <1>4

-----------------------------------------------------------------------------
(* Steps of a transfer                                                     *)

TaskRight(k, S) == ExportRight(k) /\ ImportRight(k, S) /\ ManyRight(k) /\ TempRight(k)

Task ==
    [op : {"none", "export", "import", "read", "many", "upload"},
     pc : {"idle", "running", "checking", "walking"} \cup Ended,
     file : CarFiles \cup {NoCar}, rest : Seq(Item) \cup Seq(Cids),
     queue : Seq(Cids), seen : SUBSET Cids, out : Seq(Cids \cup {NoBlock}),
     strict : BOOLEAN, temp : BOOLEAN, disturbed : BOOLEAN]

\* More blocks in the store do an import no harm.
LEMMA MoreStored ==
    ASSUME NEW k, NEW S, NEW T, S \subseteq T, ImportRight(k, S)
    PROVE  ImportRight(k, T)
<1>1. ReadIn(k, S) => ReadIn(k, T)
  BY DEF ReadIn
<1>2. \A b : Brought(k, b, S) => Brought(k, b, T)
  BY DEF Brought
<1>3. RootsChecked(k, S) => RootsChecked(k, T)
  BY <1>2 DEF RootsChecked
<1> QED BY <1>1, <1>2, <1>3 DEF ImportRight

\* The invariant after a step, of the tasks and the store as the step leaves them.
LEMMA AllRight ==
    ASSUME task' \in [Tasks -> Task], blockstore' \in [Cids -> {"absent", "right"}],
           disk' \in CarFiles \cup {NoCar}, ExportedIsWhole',
           \A t \in Tasks : TaskRight(task'[t], Stored')
    PROVE  TransfersInv'
<1>1. TransfersTypeOK'
  BY DEF TransfersTypeOK, Task
<1>2. StoreIsVerified'
  BY DEF StoreIsVerified
<1> HIDE DEF Stored
<1>3. \A t \in Tasks : ExportRight(task[t])'
  BY DEF TaskRight, ExportRight, WalkWhole
<1>4. \A t \in Tasks : ImportRight(task[t], Stored)'
  <2> TAKE t \in Tasks
  <2>1. ImportRight(task'[t], Stored')
    BY DEF TaskRight
  <2> QED BY <2>1 DEF ImportRight, WalkWhole, ReadIn, RootsChecked, Brought, Complete, DagsOf
<1>5. \A t \in Tasks : ManyRight(task[t])' /\ TempRight(task[t])'
  BY DEF TaskRight, ManyRight, TempRight
<1> QED BY <1>1, <1>2, <1>3, <1>4, <1>5 DEF TransfersInv

\* What holds of the tasks and the store at any time.
LEMMA TransfersTypes ==
    ASSUME TransfersInv
    PROVE  /\ task \in [Tasks -> Task]
           /\ blockstore \in [Cids -> {"absent", "right"}]
           /\ disk \in CarFiles \cup {NoCar} /\ ExportedIsWhole
           /\ \A t \in Tasks : TaskRight(task[t], Stored)
<1>1. task \in [Tasks -> Task]
  BY DEF TransfersInv, TransfersTypeOK, Task
<1>2. blockstore \in [Cids -> {"absent", "right"}]
  BY DEF TransfersInv, TransfersTypeOK, StoreIsVerified
<1> QED BY <1>1, <1>2 DEF TransfersInv, TransfersTypeOK, TaskRight

\* A step of one task that takes no block out of the store and leaves what it holds
\* in order.
LEMMA OneTask ==
    ASSUME TransfersInv, NEW t \in Tasks, NEW k \in Task, task' = [task EXCEPT ![t] = k],
           blockstore' \in [Cids -> {"absent", "right"}], Stored \subseteq Stored',
           disk' \in CarFiles \cup {NoCar}, ExportedIsWhole',
           TaskRight(k, Stored')
    PROVE  TransfersInv'
<1>1. task \in [Tasks -> Task] /\ task' \in [Tasks -> Task]
  BY TransfersTypes
<1>2. \A r \in Tasks : task'[r] = IF r = t THEN k ELSE task[r]
  BY <1>1
<1>3. \A r \in Tasks : TaskRight(task[r], Stored')
  BY MoreStored, TransfersTypes DEF TaskRight
<1>4. \A r \in Tasks : TaskRight(task'[r], Stored')
  BY <1>2, <1>3
<1> QED BY <1>1, <1>4, AllRight

\* One that asks for a block leaves in the store what is there.
LEMMA AnswersKeeps ==
    ASSUME TransfersInv, NEW b \in Cids, Answers(b)
    PROVE  blockstore' \in [Cids -> {"absent", "right"}] /\ Stored \subseteq Stored'
<1>1. blockstore \in [Cids -> {"absent", "right"}]
  BY TransfersTypes
<1>2. blockstore' \in [Cids -> {"absent", "right"}]
  BY <1>1 DEF Answers
<1>3. \A d \in Cids : Has(d) => Has(d)'
  BY <1>1 DEF Answers, Has
<1> QED BY <1>2, <1>3 DEF Stored

\* What was exported is whole as long as it stays.
LEMMA StillWhole == disk' = disk /\ ExportedIsWhole => ExportedIsWhole'
BY DEF ExportedIsWhole, Complete, DagsOf

LEMMA DiskKept ==
    ASSUME TransfersInv, disk' = disk
    PROVE  disk' \in CarFiles \cup {NoCar} /\ ExportedIsWhole'
BY TransfersTypes, StillWhole, Zenon

\* A step that changes neither the store nor the disk.
LEMMA TaskOnly ==
    ASSUME TransfersInv, NEW t \in Tasks, NEW k \in Task, task' = [task EXCEPT ![t] = k],
           UNCHANGED <<blockstore, disk>>, TaskRight(k, Stored)
    PROVE  TransfersInv'
<1>1. Stored' = Stored
  BY DEF Stored, Has
<1>2. ExportedIsWhole' /\ disk' \in CarFiles \cup {NoCar}
  BY DiskKept
<1> QED BY <1>1, <1>2, OneTask, TransfersTypes

\* A call that is given up holds nothing, but for the temporary file of an export.
LEMMA GivenUp ==
    ASSUME NEW k \in Task, k.pc \in {"failed", "cancelled"},
           k.temp => k.op = "export" /\ k.pc = "cancelled", NEW S
    PROVE  TaskRight(k, S)
BY DEF TaskRight, ExportRight, ImportRight, ManyRight, TempRight

LEMMA IdleRight ==
    /\ IdleTask \in Task
    /\ \A S : TaskRight(IdleTask, S)
<1>1. IdleTask \in Task
  BY DEF IdleTask, Task, Ended
<1> QED BY <1>1 DEF IdleTask, TaskRight, ExportRight, ImportRight, ManyRight, TempRight

\* What a refused call leaves.
LEMMA RefusedTask ==
    ASSUME TransfersInv, NEW t \in Tasks
    PROVE  /\ Left(t, "refused") \in Task
           /\ Left(t, "refused").op = task[t].op /\ Left(t, "refused").pc = "refused"
           /\ Left(t, "refused").file = task[t].file /\ ~Left(t, "refused").temp
           /\ Left(t, "refused").strict = task[t].strict
           /\ Left(t, "refused").disturbed = task[t].disturbed
<1> DEFINE h == task[t]
           k == [IdleTask EXCEPT !.op = h.op, !.pc = "refused", !.file = h.file,
                                 !.strict = h.strict, !.disturbed = h.disturbed]
<1>1. h \in Task /\ IdleTask \in Task /\ IdleTask.temp = FALSE
  BY TransfersTypes, IdleRight DEF IdleTask
<1>2. Left(t, "refused") = k
  BY DEF Left
<1> HIDE DEF h
<1>3. k \in Task /\ k.op = h.op /\ k.pc = "refused" /\ k.file = h.file /\ ~k.temp
  BY <1>1 DEF Task, Ended
<1>4. k.strict = h.strict /\ k.disturbed = h.disturbed
  BY <1>1 DEF Task
<1> QED BY <1>2, <1>3, <1>4 DEF h

\* Nothing is stored, exported or under way.
LEMMA InitTransfers == TransfersInit => TransfersInv
<1> SUFFICES ASSUME TransfersInit PROVE TransfersInv
  OBVIOUS
<1>1. TransfersTypeOK
  BY IdleRight DEF TransfersInit, TransfersTypeOK, Task
<1>2. StoreIsVerified /\ ExportedIsWhole
  BY DEF TransfersInit, StoreIsVerified, ExportedIsWhole
<1> QED BY <1>1, <1>2, IdleRight DEF TransfersInit, TransfersInv, TaskRight

-----------------------------------------------------------------------------
(* Calls that begin, fail or are cancelled                                 *)

\* A call begins with nothing done.
LEMMA StartRight ==
    ASSUME TransfersInv, NEW t \in Tasks, Start(t)
    PROVE  TransfersInv'
<1> USE DEF Call, IdleTask
<1>1. IdleTask \in Task /\ disk \in CarFiles \cup {NoCar}
  BY IdleRight, TransfersTypes
<1>2. ASSUME NEW root \in Roots, ExportStart(t, root) PROVE TransfersInv'
  <2> DEFINE k == [Call("export") EXCEPT !.queue = <<root>>, !.temp = TRUE]
  <2>1. root \in Cids /\ task' = [task EXCEPT ![t] = k] /\ UNCHANGED <<blockstore, disk>>
    BY <1>2, TransfersAssumption DEF TransfersAssumption, ExportStart, Begins
  <2>a. <<root>> \in Seq(Cids)
    BY <2>1
  <2>2. /\ k \in Task /\ k.op = "export" /\ k.pc = "running" /\ k.queue = <<root>>
        /\ k.seen = {} /\ k.out = <<>>
    BY <1>1, <2>a DEF Task
  <2> HIDE DEF k
  <2>3. ExportRight(k)
    BY <2>1, <2>2, ToSetEmpty, ToSetOne, DagClosed DEF ExportRight, WalkWhole, IsInjective
  <2>4. ImportRight(k, Stored) /\ ManyRight(k) /\ TempRight(k)
    BY <2>2 DEF ImportRight, ManyRight, TempRight, Ended
  <2> QED BY <2>1, <2>2, <2>3, <2>4, TaskOnly DEF TaskRight
<1>3. ASSUME NEW root \in Files, ReadStart(t, root) PROVE TransfersInv'
  <2> DEFINE k == [Call("read") EXCEPT !.queue = <<root>>]
  <2>1. root \in Cids /\ task' = [task EXCEPT ![t] = k] /\ UNCHANGED <<blockstore, disk>>
    BY <1>3, TransfersAssumption DEF TransfersAssumption, ReadStart, Begins
  <2>a. <<root>> \in Seq(Cids)
    BY <2>1
  <2>2. k \in Task /\ k.op = "read" /\ k.pc = "running" /\ ~k.temp
    BY <1>1, <2>a DEF Task
  <2> HIDE DEF k
  <2>3. TaskRight(k, Stored)
    BY <2>2 DEF TaskRight, ExportRight, ImportRight, ManyRight, TempRight
  <2> QED BY <2>1, <2>2, <2>3, TaskOnly
<1>4. ASSUME NEW asked \in Requests, ManyStart(t, asked) PROVE TransfersInv'
  <2> DEFINE out == [i \in DOMAIN asked |-> NoBlock]
             k == [Call("many") EXCEPT !.rest = asked, !.out = out]
  <2>1. asked \in Seq(Cids) /\ task' = [task EXCEPT ![t] = k] /\ UNCHANGED <<blockstore, disk>>
    BY <1>4, TransfersAssumption DEF TransfersAssumption, ManyStart, Begins
  <2>2. /\ out \in Seq(Cids \cup {NoBlock}) /\ Len(out) = Len(asked)
        /\ \A i \in DOMAIN asked : out[i] = NoBlock
    BY <2>1
  <2> HIDE DEF out
  <2>3. k \in Task /\ k.op = "many" /\ k.pc = "running" /\ ~k.temp /\ k.rest = asked /\ k.out = out
    BY <1>1, <2>1, <2>2 DEF Task
  <2> HIDE DEF k
  <2>4. TaskRight(k, Stored)
    BY <2>1, <2>2, <2>3 DEF TaskRight, ExportRight, ImportRight, ManyRight, TempRight
  <2> QED BY <2>1, <2>3, <2>4, TaskOnly
<1>5. CASE UploadStart(t)
  <2> DEFINE k == [Call("upload") EXCEPT !.temp = TRUE]
  <2>1. task' = [task EXCEPT ![t] = k] /\ UNCHANGED <<blockstore, disk>>
    BY <1>5 DEF UploadStart, Begins
  <2>2. k \in Task /\ k.op = "upload" /\ k.pc = "running"
    BY <1>1 DEF Task
  <2> HIDE DEF k
  <2>3. TaskRight(k, Stored)
    BY <2>2 DEF TaskRight, ExportRight, ImportRight, ManyRight, TempRight, Ended
  <2> QED BY <2>1, <2>2, <2>3, TaskOnly
<1>6. ASSUME NEW file \in ForeignCars \cup ({disk} \ {NoCar}), NEW strict \in BOOLEAN,
             ImportStart(t, file, strict)
      PROVE  TransfersInv'
  <2>1. file \in CarFiles
    BY <1>1, TransfersAssumption DEF TransfersAssumption
  <2>2. CASE file.header = "bad"
    <3> DEFINE k == [Call("import") EXCEPT !.file = file, !.pc = "refused"]
    <3>1. task' = [task EXCEPT ![t] = k] /\ UNCHANGED <<blockstore, disk>>
      BY <1>6, <2>2 DEF ImportStart, Begins
    <3>2. k \in Task /\ k.op = "import" /\ k.pc = "refused" /\ k.file = file /\ ~k.temp
      BY <1>1, <2>1 DEF Task, Ended
    <3> HIDE DEF k
    <3>3. TaskRight(k, Stored)
      BY <2>1, <2>2, <3>2 DEF TaskRight, ExportRight, ImportRight, ManyRight, TempRight, Complete
    <3> QED BY <3>1, <3>2, <3>3, TaskOnly
  <2>3. CASE file.header # "bad"
    <3> DEFINE k == [Call("import") EXCEPT !.file = file, !.strict = strict, !.rest = file.items]
    <3>1. task' = [task EXCEPT ![t] = k] /\ UNCHANGED <<blockstore, disk>>
      BY <1>6, <2>3 DEF ImportStart, Begins
    <3>2. file.items \in Seq(Item)
      BY <2>1 DEF CarFiles
    <3>3. /\ k \in Task /\ k.op = "import" /\ k.pc = "running" /\ k.file = file /\ ~k.temp
          /\ k.rest = file.items /\ k.seen = {}
      BY <1>1, <2>1, <3>2 DEF Task
    <3> HIDE DEF k
    <3>4. ReadIn(k, Stored)
      BY <3>3 DEF ReadIn, ToSet
    <3>5. TaskRight(k, Stored)
      BY <2>1, <3>3, <3>4 DEF TaskRight, ExportRight, ImportRight, ManyRight, TempRight
    <3> QED BY <3>1, <3>3, <3>5, TaskOnly
  <2> QED BY <2>2, <2>3
<1> QED BY <1>2, <1>3, <1>4, <1>5, <1>6 DEF Start

\* A call that fails, or whose caller goes away, is given up.
LEMMA FailRight ==
    ASSUME TransfersInv, NEW t \in Tasks, EndsAs(t, "failed"), UNCHANGED <<blockstore, disk>>
    PROVE  TransfersInv'
<1>1. IdleTask \in Task /\ task[t] \in Task
  BY IdleRight, TransfersTypes
<1> DEFINE k == Left(t, "failed")
<1>2. k \in Task /\ k.pc = "failed" /\ ~k.temp
  BY <1>1 DEF Left, Task, IdleTask, Ended
<1> HIDE DEF k
<1>3. task' = [task EXCEPT ![t] = k]
  BY DEF EndsAs, k
<1> QED BY <1>2, <1>3, GivenUp, TaskOnly

LEMMA CancelRight ==
    ASSUME TransfersInv, NEW t \in Tasks, Cancel(t)
    PROVE  TransfersInv'
<1>1. IdleTask \in Task /\ task[t] \in Task
  BY IdleRight, TransfersTypes
<1> DEFINE l == Left(t, "cancelled")
           k == [l EXCEPT !.temp = task[t].op = "export"]
<1>a. l \in Task /\ l.pc = "cancelled" /\ l.op = task[t].op
  BY <1>1 DEF Left, Task, IdleTask, Ended
<1> HIDE DEF l
<1>2. k \in Task /\ k.pc = "cancelled" /\ k.op = task[t].op /\ (k.temp => task[t].op = "export")
  BY <1>a, Zenon DEF Task
<1> HIDE DEF k
<1>3. task' = [task EXCEPT ![t] = k] /\ UNCHANGED <<blockstore, disk>>
  BY DEF Cancel, k, l
<1> QED BY <1>2, <1>3, GivenUp, TaskOnly

-----------------------------------------------------------------------------
(* Exports                                                                 *)

\* What an export is doing while it runs.
LEMMA ExportState ==
    ASSUME TransfersInv, NEW t \in Tasks, task[t].op = "export", Running(t)
    PROVE  /\ task[t] \in Task /\ task[t].pc = "running"
           /\ IsInjective(task[t].out) /\ ToSet(task[t].out) = task[t].seen
           /\ WalkWhole(task[t])
           /\ \E root \in Cids :
                 /\ IF task[t].out = <<>> THEN task[t].queue = <<root>> ELSE task[t].out[1] = root
                 /\ task[t].seen \cup ToSet(task[t].queue) \subseteq Dag[root]
<1>1. task[t] \in Task /\ TaskRight(task[t], Stored)
  BY TransfersTypes
<1>2. task[t].pc \in {"running", "checking", "walking"}
  BY <1>1 DEF Running, Task, Ended
<1>3. task[t].pc = "running"
  BY <1>1, <1>2 DEF TaskRight, ImportRight
<1> QED BY <1>1, <1>3 DEF TaskRight, ExportRight

LEMMA ExportBlockRight ==
    ASSUME TransfersInv, NEW t \in Tasks, ExportBlock(t)
    PROVE  TransfersInv'
<1> DEFINE h == task[t]
           b == Head(h.queue)
           rest == Tail(h.queue)
<1>1. h.op = "export" /\ Running(t) /\ h.queue # <<>> /\ disk' = disk
  BY DEF ExportBlock
<1>2. /\ h \in Task /\ h.pc = "running" /\ IsInjective(h.out) /\ ToSet(h.out) = h.seen
      /\ WalkWhole(h)
  BY <1>1, ExportState
<1>3. PICK root \in Cids :
          /\ IF h.out = <<>> THEN h.queue = <<root>> ELSE h.out[1] = root
          /\ h.seen \cup ToSet(h.queue) \subseteq Dag[root]
  BY <1>1, ExportState
<1>4. h.queue \in Seq(Cids) /\ h.out \in Seq(Cids \cup {NoBlock}) /\ h.seen \in SUBSET Cids
  BY <1>2 DEF Task
<1>5. b \in Cids /\ rest \in Seq(Cids) /\ ToSet(h.queue) = {b} \cup ToSet(rest)
  BY <1>1, <1>4, ToSetHead
<1>6. h.out = <<>> => h.seen = {} /\ b = root
  BY <1>2, <1>3, ToSetEmpty
<1>8. task \in [Tasks -> Task]
  BY TransfersTypes
<1>9. CASE b \in h.seen
  <2> DEFINE k == [h EXCEPT !.queue = rest]
  <2>1. task' = [task EXCEPT ![t] = k] /\ blockstore' = blockstore
    BY <1>8, <1>9 DEF ExportBlock
  <2>2. /\ k \in Task /\ k.op = "export" /\ k.pc = "running"
        /\ k.queue = rest /\ k.seen = h.seen /\ k.out = h.out
    BY <1>1, <1>2, <1>5 DEF Task
  <2> HIDE DEF k
  <2>3. WalkWhole(k)
    BY <1>2, <1>5, <1>9, <2>2 DEF WalkWhole
  <2>4. h.out # <<>>
    BY <1>6, <1>9
  <2>5. ExportRight(k)
    BY <1>2, <1>3, <1>5, <2>2, <2>3, <2>4 DEF ExportRight
  <2>6. ImportRight(k, Stored) /\ ManyRight(k) /\ TempRight(k)
    BY <2>2 DEF ImportRight, ManyRight, TempRight, Ended
  <2> QED BY <1>1, <2>1, <2>2, <2>5, <2>6, TaskOnly DEF TaskRight
<1>10. CASE b \notin h.seen
  <2> DEFINE queue == rest \o LinksOf[b]
             seen == h.seen \cup {b}
             out == Append(h.out, b)
             k == [h EXCEPT !.queue = queue, !.seen = seen, !.out = out]
  <2>1. task' = [task EXCEPT ![t] = k] /\ Answers(b)
    BY <1>8, <1>10 DEF ExportBlock
  <2>2. b \in Dag[root] /\ ToSet(rest) \subseteq Dag[root] /\ h.seen \subseteq Dag[root]
    BY <1>3, <1>5
  <2>3. LinksOf[b] \in Seq(Cids) /\ ToSet(LinksOf[b]) \subseteq Dag[root]
    BY <1>3, <2>2, DagLinks
  <2>4. queue \in Seq(Cids) /\ ToSet(queue) = ToSet(rest) \cup ToSet(LinksOf[b])
    BY <1>5, <2>3, CidsConcat
  <2>5. /\ out \in Seq(Cids \cup {NoBlock}) /\ out # <<>>
        /\ ToSet(out) = seen /\ IsInjective(out)
        /\ out[1] = IF h.out = <<>> THEN b ELSE h.out[1]
    BY <1>2, <1>4, <1>5, <1>10, AppendNew
  <2>6. seen \in SUBSET Cids
    BY <1>4, <1>5
  <2> HIDE DEF queue, out
  <2>7. /\ k \in Task /\ k.op = "export" /\ k.pc = "running"
        /\ k.queue = queue /\ k.seen = seen /\ k.out = out
    BY <1>1, <1>2, <2>4, <2>5, <2>6 DEF Task
  <2> HIDE DEF k
  <2>8. WalkWhole(k)
    BY <1>2, <1>5, <2>4, <2>7 DEF WalkWhole
  <2>9. seen \cup ToSet(queue) \subseteq Dag[root]
    BY <2>2, <2>3, <2>4
  <2>10. out[1] = root
    BY <1>3, <1>6, <2>5
  <2>11. ExportRight(k)
    BY <2>5, <2>7, <2>8, <2>9, <2>10 DEF ExportRight
  <2>12. ImportRight(k, Stored') /\ ManyRight(k) /\ TempRight(k)
    BY <2>7 DEF ImportRight, ManyRight, TempRight, Ended
  <2>13. blockstore' \in [Cids -> {"absent", "right"}] /\ Stored \subseteq Stored'
    BY <1>5, <2>1, AnswersKeeps
  <2>14. disk' \in CarFiles \cup {NoCar} /\ ExportedIsWhole'
    BY <1>1, DiskKept
  <2> QED BY <2>1, <2>7, <2>11, <2>12, <2>13, <2>14, OneTask DEF TaskRight
<1> QED BY <1>9, <1>10

\* An export that ends leaves the whole DAG of its root: nothing waits to be visited,
\* so what was visited is closed under links.
LEMMA ExportEndsRight ==
    ASSUME TransfersInv, NEW t \in Tasks, ExportEnds(t)
    PROVE  TransfersInv'
<1> DEFINE h == task[t]
           items == [i \in DOMAIN h.out |-> [cid |-> h.out[i], data |-> "right"]]
           k == [h EXCEPT !.pc = "done", !.temp = FALSE]
<1>1. /\ h.op = "export" /\ Running(t) /\ h.queue = <<>> /\ blockstore' = blockstore
      /\ disk' = Car(Head(h.out), h.out) /\ task' = [task EXCEPT ![t] = k]
  BY DEF ExportEnds, EndsAs, Left
<1>2. /\ h \in Task /\ h.pc = "running" /\ IsInjective(h.out) /\ ToSet(h.out) = h.seen
      /\ WalkWhole(h)
  BY <1>1, ExportState
<1>3. PICK root \in Cids :
          /\ IF h.out = <<>> THEN h.queue = <<root>> ELSE h.out[1] = root
          /\ h.seen \cup ToSet(h.queue) \subseteq Dag[root]
  BY <1>1, ExportState
<1>4. h.out \in Seq(Cids \cup {NoBlock}) /\ h.seen \in SUBSET Cids
  BY <1>2 DEF Task
<1>5. h.out # <<>> /\ Head(h.out) = root /\ root \in h.seen
  <2>1. h.out # <<>>
    BY <1>1, <1>3
  <2>2. h.out[1] = root /\ Head(h.out) = h.out[1]
    BY <1>3, <1>4, <2>1
  <2> QED BY <1>2, <1>4, <2>1, <2>2, ToSetHead
<1>6. LinksWithin(h.seen)
  BY <1>1, <1>2, ToSetEmpty DEF WalkWhole, LinksWithin
<1>7. h.seen = Dag[root]
  BY <1>3, <1>4, <1>5, <1>6, DagLeast
<1>8. h.out \in Seq(Cids) /\ \A i \in DOMAIN h.out : h.out[i] \in Cids
  <2>1. \A i \in 1..Len(h.out) : h.out[i] \in ToSet(h.out)
    BY <1>4 DEF ToSet
  <2>2. \A i \in 1..Len(h.out) : h.out[i] \in Cids
    BY <1>2, <1>4, <2>1
  <2> QED BY <1>4, <2>2
<1>9. items \in Seq(Item) /\ DOMAIN items = DOMAIN h.out
  <2>1. \A i \in DOMAIN h.out : [cid |-> h.out[i], data |-> "right"] \in Item
    BY <1>8 DEF Item
  <2>2. DOMAIN h.out = 1..Len(h.out) /\ Len(h.out) \in Nat
    BY <1>8
  <2> QED BY <2>1, <2>2
<1>10. /\ disk' = [header |-> "ok", roots |-> <<root>>, items |-> items, tail |-> "clean"]
       /\ \A i \in DOMAIN items : items[i].cid = h.out[i] /\ items[i].data = "right"
  BY <1>1, <1>5 DEF Car, CarFile
<1> HIDE DEF items
<1>11. disk' \in CarFiles
  BY <1>9, <1>10 DEF CarFiles
<1>12. /\ disk'.header = "ok" /\ disk'.roots = <<root>> /\ disk'.items = items
       /\ disk'.tail = "clean"
  BY <1>10
<1>13. DagsOf(<<root>>) = Dag[root]
  BY DEF DagsOf
<1>14. [i \in DOMAIN items |-> items[i].cid] = h.out
  <2>1. h.out = [i \in DOMAIN h.out |-> h.out[i]]
    BY <1>8
  <2>2. \A i \in DOMAIN h.out : items[i].cid = h.out[i]
    BY <1>9, <1>10, Zenon
  <2>3. [i \in DOMAIN h.out |-> items[i].cid] = [i \in DOMAIN h.out |-> h.out[i]]
    BY <2>2, Zenon
  <2> QED BY <1>9, <2>1, <2>3, Zenon
<1>15. {items[i].cid : i \in DOMAIN items} = ToSet(h.out)
  BY <1>9, <1>10 DEF ToSet
<1>16. Complete(disk')
  BY <1>2, <1>7, <1>10, <1>12, <1>13, <1>15 DEF Complete
<1>17. ExportedIsWhole'
  BY <1>2, <1>7, <1>12, <1>13, <1>14, <1>16 DEF ExportedIsWhole, Complete, DagsOf
<1>18. k \in Task /\ k.op = "export" /\ k.pc = "done" /\ ~k.temp
  BY <1>1, <1>2 DEF Task, Ended
<1> HIDE DEF k
<1>19. TaskRight(k, Stored')
  BY <1>18 DEF TaskRight, ExportRight, ImportRight, ManyRight, TempRight
<1>20. Stored' = Stored
  BY <1>1 DEF Stored, Has
<1> QED BY <1>1, <1>11, <1>17, <1>18, <1>19, <1>20, OneTask, TransfersTypes

-----------------------------------------------------------------------------
(* Imports                                                                 *)

\* An import puts the next block of the file, if it is what its CID says.
LEMMA ImportBlockRight ==
    ASSUME TransfersInv, NEW t \in Tasks, ImportBlock(t)
    PROVE  TransfersInv'
<1> DEFINE h == task[t]
           item == Head(h.rest)
           rest == Tail(h.rest)
<1>1. h.op = "import" /\ h.pc = "running" /\ h.rest # <<>> /\ disk' = disk
  BY DEF ImportBlock
<1>2. h \in Task /\ ImportRight(h, Stored) /\ task \in [Tasks -> Task]
  BY TransfersTypes DEF TaskRight
<1>3. /\ h.file \in CarFiles /\ ToSet(h.rest) \subseteq ToSet(h.file.items)
      /\ h.disturbed \/ ReadIn(h, Stored)
  BY <1>1, <1>2 DEF ImportRight
<1>4. h.file.items \in Seq(Item) /\ ToSet(h.file.items) \subseteq Item
  BY <1>3 DEF CarFiles, ToSet
<1>5. h.rest \in Seq(Item)
  <2>1. h.rest \in Seq(Item) \/ h.rest \in Seq(Cids)
    BY <1>2 DEF Task
  <2>2. ToSet(h.rest) \subseteq Item
    BY <1>3, <1>4
  <2> HIDE DEF h
  <2> QED BY <2>1, <2>2, ToSetWithin
<1>6. /\ item \in Item /\ rest \in Seq(Item)
      /\ ToSet(h.rest) = {item} \cup ToSet(rest)
  BY <1>1, <1>5, ToSetHead
<1>7. item.cid \in Cids /\ item.data \in {"right", "wrong"}
  BY <1>6 DEF Item
<1>8. CASE item.data = "right"
  <2> DEFINE k == [h EXCEPT !.rest = rest]
  <2>1. task' = [task EXCEPT ![t] = k] /\ blockstore' = [blockstore EXCEPT ![item.cid] = "right"]
    BY <1>2, <1>8 DEF ImportBlock
  <2>2. /\ k \in Task /\ k.op = "import" /\ k.pc = "running" /\ k.file = h.file
        /\ k.rest = rest /\ k.seen = h.seen /\ k.disturbed = h.disturbed /\ k.temp = h.temp
    BY <1>1, <1>2, <1>6 DEF Task
  <2> HIDE DEF k
  <2>3. /\ blockstore' \in [Cids -> {"absent", "right"}]
        /\ \A d \in Cids : Has(d) => Has(d)'
        /\ blockstore'[item.cid] = "right"
    <3>1. blockstore \in [Cids -> {"absent", "right"}]
      BY TransfersTypes
    <3> HIDE DEF item
    <3> QED BY <1>7, <2>1, <3>1 DEF Has
  <2>4. Stored \subseteq Stored' /\ item.cid \in Stored'
    BY <1>7, <2>3 DEF Stored, Has
  <2>5. ReadIn(h, Stored) => ReadIn(k, Stored')
    <3> SUFFICES ASSUME ReadIn(h, Stored), NEW i \in DOMAIN h.file.items
                 PROVE  h.file.items[i] \in ToSet(rest) \/ h.file.items[i].cid \in Stored'
      BY <2>2 DEF ReadIn
    <3>1. h.file.items[i] \in ToSet(h.rest) \/ h.file.items[i].cid \in Stored
      BY DEF ReadIn
    <3> QED BY <1>6, <2>4, <3>1
  <2>6. ImportRight(k, Stored')
    BY <1>1, <1>2, <1>3, <1>6, <2>2, <2>5 DEF ImportRight
  <2>7. ExportRight(k) /\ ManyRight(k) /\ TempRight(k)
    BY <2>2 DEF ExportRight, ManyRight, TempRight, Ended
  <2>8. disk' \in CarFiles \cup {NoCar} /\ ExportedIsWhole'
    BY <1>1, DiskKept
  <2> QED BY <2>1, <2>2, <2>3, <2>4, <2>6, <2>7, <2>8, OneTask DEF TaskRight
<1>9. CASE item.data # "right"
  <2> DEFINE k == Left(t, "refused")
  <2>1. task' = [task EXCEPT ![t] = k] /\ UNCHANGED <<blockstore, disk>>
    BY <1>1, <1>9 DEF ImportBlock, EndsAs
  <2>2. k \in Task /\ k.op = "import" /\ k.pc = "refused" /\ k.file = h.file /\ ~k.temp
    BY <1>1, RefusedTask
  <2> HIDE DEF k
  <2>3. PICK i \in DOMAIN h.file.items : h.file.items[i] = item
    BY <1>3, <1>6 DEF ToSet
  <2>4. ~Complete(h.file)
    BY <1>9, <2>3 DEF Complete
  <2>5. TaskRight(k, Stored)
    BY <1>3, <2>2, <2>4 DEF TaskRight, ExportRight, ImportRight, ManyRight, TempRight
  <2> QED BY <2>1, <2>2, <2>5, TaskOnly
<1> QED BY <1>8, <1>9

\* The file is read: every block of it is in the store, unless one was deleted.
LEMMA EndOfFileRight ==
    ASSUME TransfersInv, NEW t \in Tasks, ImportEndOfFile(t)
    PROVE  TransfersInv'
<1> DEFINE h == task[t]
<1>1. /\ h.op = "import" /\ h.pc = "running" /\ h.rest = <<>> /\ UNCHANGED <<blockstore, disk>>
  BY DEF ImportEndOfFile
<1>2. h \in Task /\ ImportRight(h, Stored) /\ task \in [Tasks -> Task]
  BY TransfersTypes DEF TaskRight
<1>3. h.file \in CarFiles /\ (h.disturbed \/ ReadIn(h, Stored))
  BY <1>1, <1>2 DEF ImportRight
<1>4. h.disturbed \/ \A i \in DOMAIN h.file.items : h.file.items[i].cid \in Stored
  BY <1>1, <1>3, ToSetEmpty DEF ReadIn
<1>5. CASE h.file.tail = "torn"
  <2> DEFINE k == Left(t, "refused")
  <2>1. task' = [task EXCEPT ![t] = k]
    BY <1>5 DEF ImportEndOfFile, EndsAs
  <2>2. k \in Task /\ k.op = "import" /\ k.pc = "refused" /\ k.file = h.file /\ ~k.temp
    BY <1>1, RefusedTask
  <2> HIDE DEF k
  <2>3. ~Complete(h.file)
    BY <1>5 DEF Complete
  <2>4. TaskRight(k, Stored)
    BY <1>3, <2>2, <2>3 DEF TaskRight, ExportRight, ImportRight, ManyRight, TempRight
  <2> QED BY <1>1, <2>1, <2>2, <2>4, TaskOnly
<1>6. CASE h.file.tail # "torn"
  <2> DEFINE k == [h EXCEPT !.pc = "checking", !.rest = h.file.roots]
  <2>1. task' = [task EXCEPT ![t] = k]
    BY <1>2, <1>6 DEF ImportEndOfFile
  <2>2. h.file.roots \in Seq(Cids)
    BY <1>3 DEF CarFiles
  <2>3. /\ k \in Task /\ k.op = "import" /\ k.pc = "checking" /\ k.file = h.file
        /\ k.rest = h.file.roots /\ k.seen = h.seen /\ k.disturbed = h.disturbed
    BY <1>1, <1>2, <2>2 DEF Task
  <2> HIDE DEF k
  <2>4. RootsChecked(k, Stored)
    BY <2>3 DEF RootsChecked, ToSet
  <2>5. ImportRight(k, Stored)
    BY <1>1, <1>2, <1>3, <1>4, <2>3, <2>4 DEF ImportRight
  <2>6. ExportRight(k) /\ ManyRight(k) /\ TempRight(k)
    BY <2>3 DEF ExportRight, ManyRight, TempRight, Ended
  <2> QED BY <1>1, <2>1, <2>3, <2>5, <2>6, TaskOnly DEF TaskRight
<1> QED BY <1>5, <1>6

\* What an import that checks its roots has to go by.
LEMMA CheckState ==
    ASSUME TransfersInv, NEW t \in Tasks, task[t].pc \in {"checking", "walking"}
    PROVE  /\ task \in [Tasks -> Task] /\ task[t] \in Task /\ task[t].op = "import"
           /\ ImportRight(task[t], Stored)
           /\ task[t].file \in CarFiles /\ task[t].file.roots \in Seq(Cids)
           /\ task[t].rest \in Seq(Cids)
           /\ ToSet(task[t].rest) \subseteq ToSet(task[t].file.roots)
           /\ task[t].disturbed \/
                 (RootsChecked(task[t], Stored)
                  /\ \A i \in DOMAIN task[t].file.items : task[t].file.items[i].cid \in Stored)
<1> DEFINE h == task[t]
<1>1. task \in [Tasks -> Task] /\ h \in Task /\ ImportRight(h, Stored)
  BY TransfersTypes DEF TaskRight
<1>2. /\ h.op = "import" /\ h.file \in CarFiles
      /\ ToSet(h.rest) \subseteq ToSet(h.file.roots)
      /\ h.disturbed \/
            (RootsChecked(h, Stored) /\ \A i \in DOMAIN h.file.items : h.file.items[i].cid \in Stored)
  BY <1>1 DEF ImportRight
<1>3. h.file.roots \in Seq(Cids)
  BY <1>2 DEF CarFiles
<1>4. h.rest \in Seq(Cids)
  <2>1. h.rest \in Seq(Item) \/ h.rest \in Seq(Cids)
    BY <1>1 DEF Task
  <2>2. ToSet(h.rest) \subseteq Cids
    <3>1. ToSet(h.file.roots) \subseteq Cids
      BY <1>3 DEF ToSet
    <3> QED BY <1>2, <3>1
  <2> HIDE DEF h
  <2> QED BY <2>1, <2>2, ToSetWithin
<1> QED BY <1>1, <1>2, <1>3, <1>4

\* A complete file holds every block its roots lead to.
LEMMA CompleteHolds ==
    ASSUME NEW file \in CarFiles, Complete(file), NEW b \in DagsOf(file.roots), NEW S,
           \A i \in DOMAIN file.items : file.items[i].cid \in S
    PROVE  b \in S
BY DEF Complete

\* The next root is there, and is walked if the import is strict.
LEMMA ChecksRootRight ==
    ASSUME TransfersInv, NEW t \in Tasks, ImportChecksRoot(t)
    PROVE  TransfersInv'
<1> DEFINE h == task[t]
           root == Head(h.rest)
           rest == Tail(h.rest)
<1>1. h.pc = "checking" /\ h.rest # <<>> /\ UNCHANGED <<blockstore, disk>>
  BY DEF ImportChecksRoot
<1>2. /\ task \in [Tasks -> Task] /\ h \in Task /\ h.op = "import" /\ ImportRight(h, Stored)
      /\ h.file \in CarFiles /\ h.file.roots \in Seq(Cids) /\ h.rest \in Seq(Cids)
      /\ ToSet(h.rest) \subseteq ToSet(h.file.roots)
      /\ h.disturbed \/
            (RootsChecked(h, Stored) /\ \A i \in DOMAIN h.file.items : h.file.items[i].cid \in Stored)
  BY <1>1, CheckState
<1>3. /\ root \in Cids /\ rest \in Seq(Cids)
      /\ ToSet(h.rest) = {root} \cup ToSet(rest)
  BY <1>1, <1>2, ToSetHead
<1>4. PICK i \in DOMAIN h.file.roots : h.file.roots[i] = root
  BY <1>2, <1>3 DEF ToSet
<1>5. root \in DagsOf(h.file.roots) /\ <<root>> \in Seq(Cids)
  BY <1>3, <1>4, DagClosed DEF DagsOf
<1>6. CASE ~Has(root)
  <2> DEFINE k == Left(t, "refused")
  <2>1. task' = [task EXCEPT ![t] = k]
    BY <1>6 DEF ImportChecksRoot, EndsAs
  <2>2. /\ k \in Task /\ k.op = "import" /\ k.pc = "refused" /\ k.file = h.file
        /\ k.disturbed = h.disturbed /\ ~k.temp
    BY <1>2, RefusedTask
  <2> HIDE DEF k
  <2>3. Complete(h.file) => h.disturbed
    BY <1>2, <1>5, <1>6, CompleteHolds DEF Stored
  <2>4. TaskRight(k, Stored)
    BY <1>2, <2>2, <2>3 DEF TaskRight, ExportRight, ImportRight, ManyRight, TempRight
  <2> QED BY <1>1, <2>1, <2>2, <2>4, TaskOnly
<1>7. CASE Has(root)
  <2> DEFINE pc == IF h.strict THEN "walking" ELSE "checking"
             queue == IF h.strict THEN <<root>> ELSE <<>>
             k == [h EXCEPT !.rest = rest, !.pc = pc, !.queue = queue]
  <2>1. task' = [task EXCEPT ![t] = k]
    BY <1>2, <1>7 DEF ImportChecksRoot
  <2>2. queue \in Seq(Cids) /\ pc \in {"walking", "checking"}
    BY <1>5
  <2>3. /\ k \in Task /\ k.op = "import" /\ k.pc = pc /\ k.file = h.file /\ k.strict = h.strict
        /\ k.rest = rest /\ k.queue = queue /\ k.seen = h.seen /\ k.disturbed = h.disturbed
    BY <1>2, <1>3, <2>2 DEF Task
  <2> HIDE DEF k
  <2>4. ToSet(queue) = IF h.strict THEN {root} ELSE {}
    BY ToSetEmpty, ToSetOne
  <2>5. RootsChecked(h, Stored) => RootsChecked(k, Stored)
    <3> SUFFICES ASSUME RootsChecked(h, Stored), NEW j \in DOMAIN h.file.roots
                 PROVE  \/ h.file.roots[j] \in ToSet(rest)
                        \/ Brought(k, h.file.roots[j], Stored)
                        \/ pc = "walking" /\ h.file.roots[j] \in k.seen \cup ToSet(queue)
      BY <2>3 DEF RootsChecked
    <3>1. h.file.roots[j] \in ToSet(h.rest) \/ Brought(h, h.file.roots[j], Stored)
      BY <1>1 DEF RootsChecked
    <3>2. CASE h.file.roots[j] = root
      BY <1>3, <1>7, <2>3, <2>4, <3>2 DEF Brought, Stored
    <3>3. CASE h.file.roots[j] # root
      BY <1>3, <2>3, <3>1, <3>3 DEF Brought
    <3> QED BY <3>2, <3>3
  <2>6. h.seen = {}
    BY <1>1, <1>2 DEF ImportRight
  <2>7. k.pc = "walking" =>
            /\ k.strict /\ WalkWhole(k)
            /\ k.seen \cup ToSet(k.queue) \subseteq DagsOf(k.file.roots)
            /\ k.seen \subseteq Stored
    BY <1>5, <2>3, <2>4, <2>6 DEF WalkWhole
  <2>8. ImportRight(k, Stored)
    BY <1>2, <1>3, <2>2, <2>3, <2>5, <2>6, <2>7 DEF ImportRight
  <2>9. ExportRight(k) /\ ManyRight(k) /\ TempRight(k)
    BY <1>2, <2>2, <2>3 DEF ExportRight, ManyRight, TempRight, Ended
  <2> QED BY <1>1, <2>1, <2>3, <2>8, <2>9, TaskOnly DEF TaskRight
<1> QED BY <1>6, <1>7

\* The walk of a strict import comes to the next block, which has to be there.
LEMMA WalksRight ==
    ASSUME TransfersInv, NEW t \in Tasks, ImportWalks(t)
    PROVE  TransfersInv'
<1> DEFINE h == task[t]
           b == Head(h.queue)
           rest == Tail(h.queue)
<1>1. h.pc = "walking" /\ h.queue # <<>> /\ UNCHANGED <<blockstore, disk>>
  BY DEF ImportWalks
<1>2. /\ task \in [Tasks -> Task] /\ h \in Task /\ h.op = "import" /\ ImportRight(h, Stored)
      /\ h.file \in CarFiles /\ h.file.roots \in Seq(Cids) /\ h.rest \in Seq(Cids)
      /\ ToSet(h.rest) \subseteq ToSet(h.file.roots)
      /\ h.disturbed \/
            (RootsChecked(h, Stored) /\ \A i \in DOMAIN h.file.items : h.file.items[i].cid \in Stored)
  BY <1>1, CheckState
<1>3. /\ h.strict /\ WalkWhole(h)
      /\ h.seen \cup ToSet(h.queue) \subseteq DagsOf(h.file.roots)
      /\ h.disturbed \/ h.seen \subseteq Stored
  BY <1>1, <1>2 DEF ImportRight
<1>4. h.queue \in Seq(Cids) /\ h.seen \in SUBSET Cids
  BY <1>2 DEF Task
<1>5. b \in Cids /\ rest \in Seq(Cids) /\ ToSet(h.queue) = {b} \cup ToSet(rest)
  BY <1>1, <1>4, ToSetHead
<1>6. b \in DagsOf(h.file.roots)
  BY <1>3, <1>5
<1>7. PICK i \in DOMAIN h.file.roots : b \in Dag[h.file.roots[i]]
  BY <1>6 DEF DagsOf
<1>8. LinksOf[b] \in Seq(Cids) /\ ToSet(LinksOf[b]) \subseteq DagsOf(h.file.roots)
  <2>1. h.file.roots[i] \in Cids
    BY <1>2
  <2>2. LinksOf[b] \in Seq(Cids) /\ ToSet(LinksOf[b]) \subseteq Dag[h.file.roots[i]]
    BY <1>7, <2>1, DagLinks
  <2> QED BY <2>2 DEF DagsOf
<1>9. CASE b \in h.seen
  <2> DEFINE k == [h EXCEPT !.queue = rest]
  <2>1. task' = [task EXCEPT ![t] = k]
    BY <1>2, <1>9 DEF ImportWalks
  <2>2. /\ k \in Task /\ k.op = "import" /\ k.pc = "walking" /\ k.file = h.file
        /\ k.strict = h.strict /\ k.rest = h.rest /\ k.queue = rest /\ k.seen = h.seen
        /\ k.disturbed = h.disturbed
    BY <1>1, <1>2, <1>5 DEF Task
  <2> HIDE DEF k
  <2>3. WalkWhole(k)
    BY <1>3, <1>5, <1>9, <2>2 DEF WalkWhole
  <2>4. RootsChecked(h, Stored) => RootsChecked(k, Stored)
    BY <1>1, <1>5, <1>9, <2>2 DEF RootsChecked, Brought
  <2>5. k.seen \cup ToSet(k.queue) \subseteq DagsOf(k.file.roots)
    BY <1>3, <1>5, <2>2
  <2>6. ImportRight(k, Stored)
    BY <1>2, <1>3, <2>2, <2>3, <2>4, <2>5 DEF ImportRight
  <2>7. ExportRight(k) /\ ManyRight(k) /\ TempRight(k)
    BY <2>2 DEF ExportRight, ManyRight, TempRight, Ended
  <2> QED BY <1>1, <2>1, <2>2, <2>6, <2>7, TaskOnly DEF TaskRight
<1>10. CASE b \notin h.seen /\ (~Has(b) \/ b \in Unwalkable)
  <2> DEFINE k == Left(t, "refused")
  <2>1. task' = [task EXCEPT ![t] = k]
    BY <1>10 DEF ImportWalks, EndsAs
  <2>2. /\ k \in Task /\ k.op = "import" /\ k.pc = "refused" /\ k.file = h.file
        /\ k.strict = h.strict /\ k.disturbed = h.disturbed /\ ~k.temp
    BY <1>2, RefusedTask
  <2> HIDE DEF k
  <2>3. Complete(h.file) => h.disturbed \/ DagsOf(h.file.roots) \cap Unwalkable # {}
    BY <1>2, <1>6, <1>10, CompleteHolds DEF Stored
  <2>4. TaskRight(k, Stored)
    BY <1>2, <1>3, <2>2, <2>3 DEF TaskRight, ExportRight, ImportRight, ManyRight, TempRight
  <2> QED BY <1>1, <2>1, <2>2, <2>4, TaskOnly
<1>11. CASE b \notin h.seen /\ Has(b) /\ b \notin Unwalkable
  <2> DEFINE queue == rest \o LinksOf[b]
             seen == h.seen \cup {b}
             k == [h EXCEPT !.queue = queue, !.seen = seen]
  <2>1. task' = [task EXCEPT ![t] = k]
    BY <1>2, <1>11 DEF ImportWalks
  <2>2. queue \in Seq(Cids) /\ ToSet(queue) = ToSet(rest) \cup ToSet(LinksOf[b])
    BY <1>5, <1>8, CidsConcat
  <2>3. seen \in SUBSET Cids
    BY <1>4, <1>5
  <2> HIDE DEF queue
  <2>4. /\ k \in Task /\ k.op = "import" /\ k.pc = "walking" /\ k.file = h.file
        /\ k.strict = h.strict /\ k.rest = h.rest /\ k.queue = queue /\ k.seen = seen
        /\ k.disturbed = h.disturbed
    BY <1>1, <1>2, <2>2, <2>3 DEF Task
  <2> HIDE DEF k
  <2>5. WalkWhole(k)
    BY <1>3, <1>5, <2>2, <2>4 DEF WalkWhole
  <2>6. RootsChecked(h, Stored) => RootsChecked(k, Stored)
    BY <1>1, <1>5, <2>2, <2>4 DEF RootsChecked, Brought
  <2>7. k.seen \cup ToSet(k.queue) \subseteq DagsOf(k.file.roots)
    BY <1>3, <1>5, <1>6, <1>8, <2>2, <2>4
  <2>8. h.disturbed \/ seen \subseteq Stored
    BY <1>3, <1>5, <1>11 DEF Stored
  <2>9. ImportRight(k, Stored)
    BY <1>2, <1>3, <2>4, <2>5, <2>6, <2>7, <2>8 DEF ImportRight
  <2>10. ExportRight(k) /\ ManyRight(k) /\ TempRight(k)
    BY <2>4 DEF ExportRight, ManyRight, TempRight, Ended
  <2> QED BY <1>1, <2>1, <2>4, <2>9, <2>10, TaskOnly DEF TaskRight
<1> QED BY <1>9, <1>10, <1>11

\* The walk is over: what it has visited is closed under links, and was there.
LEMMA WalkedRight ==
    ASSUME TransfersInv, NEW t \in Tasks, ImportWalked(t)
    PROVE  TransfersInv'
<1> DEFINE h == task[t]
           k == [h EXCEPT !.pc = "checking", !.seen = {}]
<1>1. h.pc = "walking" /\ h.queue = <<>> /\ UNCHANGED <<blockstore, disk>>
  BY DEF ImportWalked
<1>2. /\ task \in [Tasks -> Task] /\ h \in Task /\ h.op = "import" /\ ImportRight(h, Stored)
      /\ h.file \in CarFiles /\ h.file.roots \in Seq(Cids) /\ h.rest \in Seq(Cids)
      /\ ToSet(h.rest) \subseteq ToSet(h.file.roots)
      /\ h.disturbed \/
            (RootsChecked(h, Stored) /\ \A i \in DOMAIN h.file.items : h.file.items[i].cid \in Stored)
  BY <1>1, CheckState
<1>3. /\ h.strict /\ WalkWhole(h)
      /\ h.disturbed \/ h.seen \subseteq Stored
  BY <1>1, <1>2 DEF ImportRight
<1>4. h.seen \in SUBSET Cids /\ LinksWithin(h.seen)
  BY <1>1, <1>2, <1>3, ToSetEmpty DEF Task, WalkWhole, LinksWithin
<1>5. task' = [task EXCEPT ![t] = k]
  BY <1>2 DEF ImportWalked
<1>6. /\ k \in Task /\ k.op = "import" /\ k.pc = "checking" /\ k.file = h.file
      /\ k.strict = h.strict /\ k.rest = h.rest /\ k.seen = {} /\ k.disturbed = h.disturbed
  BY <1>2 DEF Task
<1> HIDE DEF k
<1>7. ASSUME RootsChecked(h, Stored), h.seen \subseteq Stored
      PROVE  RootsChecked(k, Stored)
  <2> SUFFICES ASSUME NEW i \in DOMAIN h.file.roots
               PROVE  \/ h.file.roots[i] \in ToSet(h.rest)
                      \/ Brought(k, h.file.roots[i], Stored)
    BY <1>6 DEF RootsChecked
  <2>1. h.file.roots[i] \in Cids
    BY <1>2
  <2>2. h.file.roots[i] \in h.seen => Dag[h.file.roots[i]] \subseteq Stored
    BY <1>4, <1>7, <2>1, DagLeast
  <2> QED BY <1>1, <1>3, <1>6, <1>7, <2>2, ToSetEmpty DEF RootsChecked, Brought
<1>8. ImportRight(k, Stored)
  BY <1>2, <1>3, <1>6, <1>7 DEF ImportRight
<1>9. ExportRight(k) /\ ManyRight(k) /\ TempRight(k)
  BY <1>6 DEF ExportRight, ManyRight, TempRight, Ended
<1> QED BY <1>1, <1>5, <1>6, <1>8, <1>9, TaskOnly DEF TaskRight

\* Every root was checked.
LEMMA ImportEndsRight ==
    ASSUME TransfersInv, NEW t \in Tasks, ImportEnds(t)
    PROVE  TransfersInv'
<1> DEFINE h == task[t]
           k == [h EXCEPT !.pc = "done", !.temp = FALSE]
<1>1. h.pc = "checking" /\ h.rest = <<>> /\ UNCHANGED <<blockstore, disk>>
  BY DEF ImportEnds
<1>2. /\ h \in Task /\ h.op = "import" /\ h.file \in CarFiles
      /\ h.disturbed \/ RootsChecked(h, Stored)
  BY <1>1, CheckState
<1>3. task' = [task EXCEPT ![t] = k]
  BY DEF ImportEnds, EndsAs, Left
<1>4. /\ k \in Task /\ k.op = "import" /\ k.pc = "done" /\ k.file = h.file /\ ~k.temp
      /\ k.strict = h.strict /\ k.disturbed = h.disturbed
  BY <1>2 DEF Task, Ended
<1> HIDE DEF k
<1>5. h.disturbed \/ \A i \in DOMAIN h.file.roots : Brought(k, h.file.roots[i], Stored)
  BY <1>1, <1>2, <1>4, ToSetEmpty DEF RootsChecked, Brought
<1>6. TaskRight(k, Stored)
  BY <1>2, <1>4, <1>5 DEF TaskRight, ExportRight, ImportRight, ManyRight, TempRight
<1> QED BY <1>1, <1>3, <1>4, <1>6, TaskOnly

-----------------------------------------------------------------------------
(* The other calls, and the rest of the program                            *)

\* A call is running: it is of its own kind and not of another.
LEMMA PlainState ==
    ASSUME TransfersInv, NEW t \in Tasks, Running(t), task[t].op # "import"
    PROVE  task[t] \in Task /\ task[t].pc = "running"
<1>1. task[t] \in Task /\ ImportRight(task[t], Stored)
  BY TransfersTypes DEF TaskRight
<1> QED BY <1>1 DEF Task, Running, Ended, ImportRight

\* Of a call that is no import, no export and no get_many only the temporary file
\* matters.
LEMMA PlainRight ==
    ASSUME NEW k \in Task, k.op \in {"read", "upload"}, NEW S,
           k.pc \in {"running"} \cup Ended, k.temp => k.pc = "running"
    PROVE  TaskRight(k, S)
BY DEF TaskRight, ExportRight, ImportRight, ManyRight, TempRight, Ended

\* What a call leaves that returns or is refused.
LEMMA LeftRight ==
    ASSUME TransfersInv, NEW t \in Tasks, task[t].op \in {"read", "upload"},
           NEW pc \in {"done", "refused"}
    PROVE  /\ Left(t, pc) \in Task
           /\ \A S : TaskRight(Left(t, pc), S)
<1> DEFINE k == Left(t, pc)
<1>1. pc = "done" => k \in Task /\ k.op = task[t].op /\ k.pc = pc /\ ~k.temp
  <2>1. task[t] \in Task
    BY TransfersTypes
  <2> QED BY <2>1 DEF Left, Task, Ended
<1>2. k \in Task /\ k.op = task[t].op /\ k.pc = pc /\ ~k.temp
  BY <1>1, RefusedTask
<1> HIDE DEF k
<1>3. \A S : TaskRight(k, S)
  BY <1>2, PlainRight DEF Ended
<1> QED BY <1>2, <1>3 DEF k

LEMMA ReadRight ==
    ASSUME TransfersInv, NEW t \in Tasks, ReadBlock(t) \/ ReadEnds(t)
    PROVE  TransfersInv'
<1> DEFINE h == task[t]
           b == Head(h.queue)
<1>1. h.op = "read" /\ Running(t) /\ disk' = disk
  BY DEF ReadBlock, ReadEnds
<1>2. h \in Task /\ h.pc = "running" /\ task \in [Tasks -> Task]
  BY <1>1, PlainState, TransfersTypes
<1>3. disk' \in CarFiles \cup {NoCar} /\ ExportedIsWhole'
  BY <1>1, DiskKept
<1>4. CASE ReadEnds(t)
  <2>1. task' = [task EXCEPT ![t] = Left(t, "done")] /\ blockstore' = blockstore
    BY <1>4 DEF ReadEnds, EndsAs
  <2> QED BY <1>1, <2>1, LeftRight, TaskOnly
<1>5. CASE ReadBlock(t)
  <2>1. h.queue # <<>> /\ h.queue \in Seq(Cids) /\ h.out \in Seq(Cids \cup {NoBlock})
    BY <1>2, <1>5 DEF ReadBlock, Task
  <2>2. b \in Cids /\ Tail(h.queue) \in Seq(Cids)
    BY <2>1, ToSetHead
  <2>3. blockstore' \in [Cids -> {"absent", "right"}] /\ Stored \subseteq Stored'
    BY <1>5, <2>2, AnswersKeeps DEF ReadBlock
  <2>4. CASE task' = [task EXCEPT ![t] = Left(t, "refused")]
    BY <1>1, <1>3, <2>3, <2>4, LeftRight, OneTask
  <2>5. CASE task' # [task EXCEPT ![t] = Left(t, "refused")]
    <3> DEFINE queue == Below(b) \o Tail(h.queue)
               out == IF Yields(b) THEN Append(h.out, b) ELSE h.out
               k == [h EXCEPT !.queue = queue, !.out = out]
    <3>1. task' = [task EXCEPT ![t] = k]
      BY <1>2, <1>5, <2>5 DEF ReadBlock, EndsAs
    <3>2. Below(b) \in Seq(Cids)
      BY <2>2, BelowLinks
    <3>3. queue \in Seq(Cids)
      BY <2>2, <3>2, CidsConcat
    <3>4. out \in Seq(Cids \cup {NoBlock})
      BY <2>1, <2>2
    <3> HIDE DEF queue, out
    <3>5. k \in Task /\ k.op = "read" /\ k.pc = "running"
      BY <1>1, <1>2, <3>3, <3>4 DEF Task
    <3> HIDE DEF k
    <3>6. TaskRight(k, Stored')
      BY <3>5, PlainRight
    <3> QED BY <1>3, <2>3, <3>1, <3>5, <3>6, OneTask
  <2> QED BY <2>4, <2>5
<1> QED BY <1>4, <1>5

LEMMA UploadRight ==
    ASSUME TransfersInv, NEW t \in Tasks,
           (\E b \in Cids : UploadChunk(t, b)) \/ UploadEnds(t)
    PROVE  TransfersInv'
<1> DEFINE h == task[t]
<1>1. h.op = "upload" /\ Running(t) /\ UNCHANGED <<blockstore, disk>>
  BY DEF UploadChunk, UploadEnds
<1>2. h \in Task /\ h.pc = "running" /\ task \in [Tasks -> Task]
  BY <1>1, PlainState, TransfersTypes
<1>3. CASE UploadEnds(t)
  <2>1. EndsAs(t, "done") \/ EndsAs(t, "failed")
    BY <1>3 DEF UploadEnds
  <2>2. CASE EndsAs(t, "done")
    BY <1>1, <2>2, LeftRight, TaskOnly DEF EndsAs
  <2> QED BY <1>1, <2>1, <2>2, FailRight
<1>4. ASSUME NEW b \in Cids, UploadChunk(t, b) PROVE TransfersInv'
  <2>1. CASE EndsAs(t, "refused")
    BY <1>1, <2>1, LeftRight, TaskOnly DEF EndsAs
  <2>2. CASE ~EndsAs(t, "refused")
    <3> DEFINE out == Append(h.out, b)
               k == [h EXCEPT !.out = out]
    <3>1. task' = [task EXCEPT ![t] = k]
      BY <1>2, <1>4, <2>2 DEF UploadChunk
    <3>2. out \in Seq(Cids \cup {NoBlock})
      BY <1>2 DEF Task
    <3> HIDE DEF out
    <3>3. k \in Task /\ k.op = "upload" /\ k.pc = "running"
      BY <1>1, <1>2, <3>2 DEF Task
    <3> HIDE DEF k
    <3>4. TaskRight(k, Stored)
      BY <3>3, PlainRight
    <3> QED BY <1>1, <3>1, <3>3, <3>4, TaskOnly
  <2> QED BY <2>1, <2>2
<1> QED BY <1>3, <1>4

LEMMA ManyStepRight ==
    ASSUME TransfersInv, NEW t \in Tasks,
           (\E i \in DOMAIN task[t].rest : ManyGets(t, i)) \/ ManyEnds(t)
    PROVE  TransfersInv'
<1> DEFINE h == task[t]
<1>1. h.op = "many" /\ Running(t) /\ disk' = disk
  BY DEF ManyGets, ManyEnds
<1>2. h \in Task /\ h.pc = "running" /\ task \in [Tasks -> Task]
  BY <1>1, PlainState, TransfersTypes
<1>3. /\ h.rest \in Seq(Cids) /\ Len(h.out) = Len(h.rest)
      /\ \A i \in DOMAIN h.rest : h.out[i] = h.rest[i] \/ h.out[i] = NoBlock
  BY <1>1, <1>2, TransfersTypes DEF TaskRight, ManyRight
<1>4. h.out \in Seq(Cids \cup {NoBlock})
  BY <1>2 DEF Task
<1>5. DOMAIN h.out = 1..Len(h.rest) /\ DOMAIN h.rest = 1..Len(h.rest)
  BY <1>3, <1>4
<1>6. CASE ManyEnds(t)
  <2> DEFINE k == [h EXCEPT !.pc = "done", !.temp = FALSE]
  <2>1. task' = [task EXCEPT ![t] = k] /\ blockstore' = blockstore
    BY <1>6 DEF ManyEnds, EndsAs, Left
  <2>2. /\ k \in Task /\ k.op = "many" /\ k.pc = "done" /\ ~k.temp
        /\ k.rest = h.rest /\ k.out = h.out
    BY <1>1, <1>2 DEF Task, Ended
  <2> HIDE DEF k
  <2>3. \A i \in DOMAIN h.out : h.out[i] # NoBlock
    BY <1>6 DEF ManyEnds
  <2>4. TaskRight(k, Stored)
    BY <1>3, <1>5, <2>2, <2>3 DEF TaskRight, ExportRight, ImportRight, ManyRight, TempRight
  <2> QED BY <1>1, <2>1, <2>2, <2>4, TaskOnly
<1>7. ASSUME NEW i \in DOMAIN h.rest, ManyGets(t, i) PROVE TransfersInv'
  <2> DEFINE out == [h.out EXCEPT ![i] = h.rest[i]]
             k == [h EXCEPT !.out = out]
  <2>1. task' = [task EXCEPT ![t] = k] /\ Answers(h.rest[i])
    BY <1>2, <1>7 DEF ManyGets
  <2>2. h.rest[i] \in Cids
    BY <1>3
  <2>3. blockstore' \in [Cids -> {"absent", "right"}] /\ Stored \subseteq Stored'
    BY <2>1, <2>2, AnswersKeeps
  <2>4. out \in Seq(Cids \cup {NoBlock}) /\ Len(out) = Len(h.rest)
    BY <1>3, <1>4, <1>5, <2>2
  <2>5. \A j \in DOMAIN h.rest : out[j] = h.rest[j] \/ out[j] = NoBlock
    BY <1>3, <1>5
  <2> HIDE DEF out
  <2>6. /\ k \in Task /\ k.op = "many" /\ k.pc = "running" /\ k.rest = h.rest /\ k.out = out
    BY <1>1, <1>2, <2>4 DEF Task
  <2> HIDE DEF k
  <2>7. TaskRight(k, Stored')
    BY <1>3, <2>4, <2>5, <2>6 DEF TaskRight, ExportRight, ImportRight, ManyRight, TempRight, Ended
  <2>8. disk' \in CarFiles \cup {NoCar} /\ ExportedIsWhole'
    BY <1>1, DiskKept
  <2> QED BY <2>1, <2>3, <2>6, <2>7, <2>8, OneTask
<1> QED BY <1>6, <1>7

-----------------------------------------------------------------------------
(* What the rest of the program does meanwhile                             *)

\* A put adds to what is stored.
LEMMA PutRight ==
    ASSUME TransfersInv, NEW b \in Shared, Put(b)
    PROVE  TransfersInv'
<1>1. /\ blockstore \in [Cids -> {"absent", "right"}] /\ task' = task /\ disk' = disk
      /\ b \in Cids
  BY TransfersTypes, TransfersAssumption DEF TransfersAssumption, Put
<1>2. blockstore' \in [Cids -> {"absent", "right"}]
  BY <1>1 DEF Put
<1>3. \A d \in Cids : Has(d) => Has(d)'
  BY <1>1 DEF Put, Has
<1>4. Stored \subseteq Stored'
  BY <1>3 DEF Stored
<1>5. \A t \in Tasks : TaskRight(task'[t], Stored')
  BY <1>1, <1>4, MoreStored, TransfersTypes DEF TaskRight
<1> QED BY <1>1, <1>2, <1>5, AllRight, StillWhole, TransfersTypes

\* An import in whose time a block is deleted is disturbed, and promises nothing of
\* the store from then on; the other calls promise nothing of it anyway.
LEMMA DisturbedRight ==
    ASSUME NEW k \in Task, NEW S, NEW T, TaskRight(k, S)
    PROVE  LET r == [k EXCEPT !.disturbed = k.file # NoCar] IN
           r \in Task /\ TaskRight(r, T)
<1> DEFINE r == [k EXCEPT !.disturbed = k.file # NoCar]
<1>1. /\ r \in Task
      /\ r.op = k.op /\ r.pc = k.pc /\ r.file = k.file /\ r.strict = k.strict
      /\ r.rest = k.rest /\ r.queue = k.queue /\ r.seen = k.seen /\ r.out = k.out
      /\ r.temp = k.temp /\ (k.file # NoCar => r.disturbed)
  BY DEF Task
<1> HIDE DEF r
<1>2. k.file \in CarFiles => r.disturbed
  BY <1>1, TransfersAssumption DEF TransfersAssumption
<1>3. ExportRight(r) /\ ManyRight(r) /\ TempRight(r)
  BY <1>1 DEF TaskRight, ExportRight, ManyRight, TempRight, WalkWhole
<1>4. ImportRight(r, T)
  BY <1>1, <1>2 DEF TaskRight, ImportRight, WalkWhole
<1> QED BY <1>1, <1>3, <1>4 DEF TaskRight, r

LEMMA DeleteRight ==
    ASSUME TransfersInv, NEW b \in Shared, Delete(b)
    PROVE  TransfersInv'
<1> DEFINE after == [t \in Tasks |-> [task[t] EXCEPT !.disturbed = task[t].file # NoCar]]
<1>1. /\ blockstore \in [Cids -> {"absent", "right"}] /\ task' = after /\ disk' = disk
      /\ b \in Cids
  BY TransfersTypes, TransfersAssumption DEF TransfersAssumption, Delete
<1>2. blockstore' \in [Cids -> {"absent", "right"}]
  BY <1>1 DEF Delete
<1>3. \A t \in Tasks : after[t] \in Task /\ TaskRight(after[t], Stored')
  BY DisturbedRight, TransfersTypes
<1>4. task' \in [Tasks -> Task]
  BY <1>1, <1>3
<1>5. \A t \in Tasks : TaskRight(task'[t], Stored')
  BY <1>1, <1>3
<1> QED BY <1>1, <1>2, <1>4, <1>5, AllRight, StillWhole, TransfersTypes

\* Every step keeps what the transfers hold in order.
LEMMA NextTransfers == TransfersInv /\ [TransfersNext]_transferVars => TransfersInv'
<1> SUFFICES ASSUME TransfersInv, [TransfersNext]_transferVars PROVE TransfersInv'
  OBVIOUS
<1>1. CASE UNCHANGED transferVars
  <2>1. blockstore' = blockstore /\ disk' = disk /\ task' = task
    BY <1>1 DEF transferVars
  <2>2. Stored' = Stored
    BY <2>1 DEF Stored, Has
  <2> QED BY <2>1, <2>2, AllRight, StillWhole, TransfersTypes
<1>2. ASSUME NEW t \in Tasks, Step(t) PROVE TransfersInv'
  <2>1. CASE ExportFails(t) \/ ImportFails(t) \/ ReadFails(t) \/ ManyFails(t)
    BY <2>1, FailRight DEF ExportFails, ImportFails, ReadFails, ManyFails
  <2>2. CASE ExportBlock(t) \/ ExportEnds(t)
    BY <2>2, ExportBlockRight, ExportEndsRight
  <2>3. CASE ImportBlock(t) \/ ImportEndOfFile(t) \/ ImportChecksRoot(t) \/ ImportWalks(t)
             \/ ImportWalked(t) \/ ImportEnds(t)
    BY <2>3, ImportBlockRight, EndOfFileRight, ChecksRootRight, WalksRight, WalkedRight,
       ImportEndsRight
  <2>4. CASE ReadBlock(t) \/ ReadEnds(t)
    BY <2>4, ReadRight
  <2>5. CASE (\E i \in DOMAIN task[t].rest : ManyGets(t, i)) \/ ManyEnds(t)
    BY <2>5, ManyStepRight
  <2>6. CASE (\E b \in Cids : UploadChunk(t, b)) \/ UploadEnds(t)
    BY <2>6, UploadRight
  <2> QED BY <1>2, <2>1, <2>2, <2>3, <2>4, <2>5, <2>6 DEF Step
<1> QED BY <1>1, <1>2, StartRight, CancelRight, PutRight, DeleteRight DEF TransfersNext

\* Whatever the transfers and the rest of the program do in whatever order, what
\* each task holds is in order: of its walk, of the file it reads, of its results.
THEOREM TransfersInvariance == TransfersSpec => []TransfersInv
BY InitTransfers, NextTransfers, PTL DEF TransfersSpec

\* The file export_car leaves at its path is the whole DAG of its root and nothing
\* else, each block once, whatever is deleted, fails or is cancelled meanwhile.
THEOREM ExportsAreWhole == TransfersSpec => []ExportedIsWhole
<1>1. TransfersInv => ExportedIsWhole
  BY DEF TransfersInv
<1> QED BY <1>1, TransfersInvariance, PTL

\* import_car puts no block under a CID that is not its own, and one that succeeds
\* undisturbed has brought its roots, and when strict all below them.
THEOREM ImportsSound == TransfersSpec => []ImportsAreSound
<1>1. TransfersInv => ImportsAreSound
  BY DEF TransfersInv, ImportsAreSound, ImportedIsThere, ImportRight, Brought, Stored
<1> QED BY <1>1, TransfersInvariance, PTL

\* import_car refuses no complete file, unless blocks are deleted while it runs or a
\* strict walk meets one it cannot decode.
THEOREM CompleteAccepted == TransfersSpec => []CompleteIsAccepted
<1>1. TransfersInv => CompleteIsAccepted
  BY DEF TransfersInv, CompleteIsAccepted, ImportRight
<1> QED BY <1>1, TransfersInvariance, PTL

-----------------------------------------------------------------------------
(* Bytes                                                                   *)

\* Sizes are numbers.
LEMMA SizesNatural ==
    /\ MaxSize \in Nat /\ Size \in [Cids -> Nat]
    /\ \A b \in Cids : Size[b] \in Nat
<1>1. MaxSize \in Nat \ {0} /\ Size \in [Cids -> Nat \ {0}]
  BY Zenon, TransfersAssumption DEF TransfersAssumption
<1> QED BY <1>1

\* What the loop over the blocks adds up.
Adds(f, s) == f[0] = 0 /\ \A i \in 1..Len(s) : f[i] = f[i-1] + Size[s[i]]

\* Bytes(s) is where it ends.
LEMMA BytesAdds ==
    ASSUME NEW s \in Seq(Cids)
    PROVE  \E f \in [0..Len(s) -> Nat] : Adds(f, s) /\ Bytes(s) = f[Len(s)]
<1> DEFINE n == Len(s)
           total == CHOOSE f : f = [i \in 0..n |-> IF i = 0 THEN 0 ELSE f[i-1] + Size[s[i]]]
           step == [i \in 1..n |-> [v \in Nat |-> v + Size[s[i]]]]
<1>1. n \in Nat /\ \A i \in 1..n : Size[s[i]] \in Nat
  BY SizesNatural
<1>2. step \in [1..n -> [Nat -> Nat]] /\ \A i \in 1..n, v \in Nat : step[i][v] = v + Size[s[i]]
  BY <1>1
<1> HIDE DEF step, n
<1>3. PICK f \in [0..n -> Nat] : Iteration(f, n, 0, step)
  <2>1. 0 \in Nat
    OBVIOUS
  <2> QED BY <1>1, <1>2, <2>1, Iterates
<1>4. f[0] = 0 /\ \A i \in 1..n : f[i] = f[i-1] + Size[s[i]]
  <2>1. \A i \in 1..n : f[i-1] \in Nat
    BY <1>1
  <2> QED BY <1>2, <1>3, <2>1 DEF Iteration
<1>5. f = [i \in 0..n |-> IF i = 0 THEN 0 ELSE f[i-1] + Size[s[i]]]
  BY <1>1, <1>4
<1>6. total = [i \in 0..n |-> IF i = 0 THEN 0 ELSE total[i-1] + Size[s[i]]]
  BY <1>5
<1>7. Bytes(s) = total[n]
  BY DEF Bytes, n
<1> HIDE DEF total
<1>8. \A i \in 0..n : f[i] = total[i]
  <2> DEFINE S == {i \in 0..n : f[i] = total[i]}
  <2>1. 0 \in S /\ \A i \in 1..n : i - 1 \in S => i \in S
    BY <1>1, <1>4, <1>6
  <2> HIDE DEF S
  <2>2. 0..n \subseteq S
    BY <1>1, <2>1, Upwards
  <2> QED BY <2>2 DEF S
<1> QED BY <1>1, <1>4, <1>7, <1>8 DEF n, Adds

\* A chunk adds its own bytes.
LEMMA BytesAppend ==
    ASSUME NEW s \in Seq(Cids), NEW b \in Cids
    PROVE  Bytes(Append(s, b)) = Bytes(s) + Size[b] /\ Bytes(s) \in Nat /\ Size[b] \in Nat
<1> DEFINE a == Append(s, b)
           n == Len(s)
<1>1. /\ a \in Seq(Cids) /\ Len(a) = n + 1 /\ n \in Nat /\ a[n+1] = b
      /\ \A i \in 1..n : a[i] = s[i]
  OBVIOUS
<1> HIDE DEF a
<1>2. PICK f \in [0..n -> Nat] : Adds(f, s) /\ Bytes(s) = f[n]
  BY BytesAdds
<1>3. PICK g \in [0..n+1 -> Nat] : Adds(g, a) /\ Bytes(a) = g[n+1]
  BY <1>1, BytesAdds
<1>4. f[n] = g[n]
  <2> DEFINE S == {i \in 0..n : f[i] = g[i]}
  <2>1. 0 \in S /\ \A i \in 1..n : i - 1 \in S => i \in S
    <3>1. /\ f[0] = 0 /\ \A i \in 1..n : f[i] = f[i-1] + Size[s[i]]
          /\ g[0] = 0 /\ \A i \in 1..n : g[i] = g[i-1] + Size[a[i]]
      BY <1>1, <1>2, <1>3 DEF Adds
    <3>2. \A i \in 1..n : f[i-1] = g[i-1] => f[i] = g[i]
      BY <1>1, <3>1
    <3> QED BY <1>1, <3>1, <3>2
  <2> HIDE DEF S
  <2>2. 0..n \subseteq S
    BY <1>1, <2>1, Upwards
  <2> QED BY <1>1, <2>2 DEF S
<1>5. g[n+1] = g[n] + Size[b]
  BY <1>1, <1>3 DEF Adds
<1>6. f[n] \in Nat /\ Size[b] \in Nat
  BY <1>1, <1>2, SizesNatural
<1> QED BY <1>2, <1>3, <1>4, <1>5, <1>6 DEF a

\* A number of bytes; of nothing, none.
LEMMA BytesNatural == ASSUME NEW s \in Seq(Cids) PROVE Bytes(s) \in Nat
<1>1. Len(s) \in Nat
  OBVIOUS
<1> QED BY <1>1, BytesAdds

LEMMA BytesEmpty == Bytes(<<>>) = 0
<1>1. <<>> \in Seq(Cids) /\ Len(<<>>) = 0
  OBVIOUS
<1>2. PICK f \in [0..0 -> Nat] : Adds(f, <<>>) /\ Bytes(<<>>) = f[0]
  BY <1>1, BytesAdds
<1> QED BY <1>2 DEF Adds

-----------------------------------------------------------------------------
(* What is buffered                                                        *)

\* What an upload buffers, or a download has sent.
BufferRight(k) ==
    k.op \in {"read", "upload"} =>
        /\ k.out \in Seq(Cids)
        /\ Bytes(k.out) <= MaxSize \/ (k.op = "read" /\ Len(k.out) = 1)

BuffersInv == \A t \in Tasks : BufferRight(task[t])

\* A step of one task.
LEMMA OneBuffer ==
    ASSUME TransfersInv, BuffersInv, NEW t \in Tasks, NEW k, task' = [task EXCEPT ![t] = k],
           BufferRight(k)
    PROVE  BuffersInv'
<1>1. \A r \in Tasks : task'[r] = IF r = t THEN k ELSE task[r]
  BY TransfersTypes
<1>2. \A r \in Tasks : BufferRight(task'[r])
  BY <1>1 DEF BuffersInv
<1> QED BY <1>2 DEF BuffersInv, BufferRight

\* What is left of a call is its buffer or nothing.
LEMMA BufferLeft ==
    ASSUME TransfersInv, BuffersInv, NEW t \in Tasks, NEW pc
    PROVE  BufferRight(Left(t, pc))
<1>1. task[t] \in Task /\ IdleTask \in Task
  BY TransfersTypes, IdleRight
<1>2. BufferRight(task[t])
  BY DEF BuffersInv
<1>3. Left(t, pc).op = task[t].op /\ Left(t, pc).out \in {task[t].out, <<>>}
  BY <1>1 DEF Left, Task, IdleTask
<1>4. Bytes(<<>>) <= MaxSize /\ <<>> \in Seq(Cids)
  BY BytesEmpty, SizesNatural
<1> HIDE DEF Left
<1> QED BY <1>2, <1>3, <1>4 DEF BufferRight

\* A step of a task leaves the others alone and is a step of the same call.
LEMMA StepOfCall ==
    ASSUME TransfersInv, NEW t \in Tasks, Step(t)
    PROVE  \E k : task' = [task EXCEPT ![t] = k] /\ k.op = task[t].op
<1> DEFINE h == task[t]
           b == Head(h.queue)
           Kept(k) == task' = [task EXCEPT ![t] = k] /\ k.op = h.op
<1> SUFFICES \E k : Kept(k)
  OBVIOUS
<1>1. h \in Task /\ task \in [Tasks -> Task]
  BY TransfersTypes
<1>2. ASSUME NEW pc, EndsAs(t, pc) PROVE \E k : Kept(k)
  <2>1. Left(t, pc).op = h.op
    BY <1>1 DEF Left, Task, IdleTask
  <2> HIDE DEF Left
  <2>2. Kept(Left(t, pc))
    BY <1>2, <2>1 DEF EndsAs
  <2> QED BY <2>2
<1>3. CASE ExportBlock(t)
  <2> DEFINE k1 == [h EXCEPT !.queue = Tail(@)]
             k2 == [h EXCEPT !.queue = Tail(@) \o LinksOf[b], !.seen = @ \cup {b}, !.out = Append(@, b)]
  <2>1. k1.op = h.op /\ k2.op = h.op
    BY <1>1 DEF Task
  <2>2. task' = [task EXCEPT ![t] = k1] \/ task' = [task EXCEPT ![t] = k2]
    BY <1>1, <1>3 DEF ExportBlock
  <2> HIDE DEF k1, k2
  <2>3. Kept(k1) \/ Kept(k2)
    BY <2>1, <2>2
  <2> QED BY <2>3
<1>4. CASE ImportBlock(t) \/ ImportEndOfFile(t) \/ ImportWalked(t)
  <2> DEFINE k1 == [h EXCEPT !.rest = Tail(@)]
             k2 == [h EXCEPT !.pc = "checking", !.rest = h.file.roots]
             k3 == [h EXCEPT !.pc = "checking", !.seen = {}]
  <2>1. k1.op = h.op /\ k2.op = h.op /\ k3.op = h.op
    BY <1>1 DEF Task
  <2>2. \/ EndsAs(t, "refused")
        \/ task' = [task EXCEPT ![t] = k1] \/ task' = [task EXCEPT ![t] = k2] \/ task' = [task EXCEPT ![t] = k3]
    BY <1>1, <1>4 DEF ImportBlock, ImportEndOfFile, ImportWalked
  <2> HIDE DEF k1, k2, k3
  <2>3. EndsAs(t, "refused") \/ Kept(k1) \/ Kept(k2) \/ Kept(k3)
    BY <2>1, <2>2
  <2> HIDE DEF Kept
  <2> QED BY <1>2, <2>3
<1>5. CASE ImportChecksRoot(t) \/ ImportWalks(t)
  <2> DEFINE k1 == [h EXCEPT !.rest = Tail(@), !.pc = IF h.strict THEN "walking" ELSE "checking",
                             !.queue = IF h.strict THEN <<Head(h.rest)>> ELSE <<>>]
             k2 == [h EXCEPT !.queue = Tail(@)]
             k3 == [h EXCEPT !.queue = Tail(@) \o LinksOf[b], !.seen = @ \cup {b}]
  <2>1. k1.op = h.op /\ k2.op = h.op /\ k3.op = h.op
    BY <1>1 DEF Task
  <2>2. \/ EndsAs(t, "refused")
        \/ task' = [task EXCEPT ![t] = k1] \/ task' = [task EXCEPT ![t] = k2] \/ task' = [task EXCEPT ![t] = k3]
    BY <1>1, <1>5 DEF ImportChecksRoot, ImportWalks
  <2> HIDE DEF k1, k2, k3
  <2>3. EndsAs(t, "refused") \/ Kept(k1) \/ Kept(k2) \/ Kept(k3)
    BY <2>1, <2>2
  <2> HIDE DEF Kept
  <2> QED BY <1>2, <2>3
<1>6. ASSUME NEW i \in DOMAIN h.rest, ManyGets(t, i) PROVE \E k : Kept(k)
  <2> DEFINE k1 == [h EXCEPT !.out[i] = h.rest[i]]
  <2>1. k1.op = h.op
    BY <1>1 DEF Task
  <2>2. task' = [task EXCEPT ![t] = k1]
    BY <1>1, <1>6 DEF ManyGets
  <2> HIDE DEF k1
  <2>3. Kept(k1)
    BY <2>1, <2>2
  <2> QED BY <2>3
<1>7. CASE ReadBlock(t)
  <2> DEFINE k1 == [h EXCEPT !.queue = Below(b) \o Tail(@),
                             !.out = IF Yields(b) THEN Append(h.out, b) ELSE @]
  <2>1. k1.op = h.op
    BY <1>1 DEF Task
  <2>2. EndsAs(t, "refused") \/ task' = [task EXCEPT ![t] = k1]
    BY <1>1, <1>7 DEF ReadBlock
  <2> HIDE DEF k1
  <2>3. EndsAs(t, "refused") \/ Kept(k1)
    BY <2>1, <2>2
  <2> HIDE DEF Kept
  <2> QED BY <1>2, <2>3
<1>8. ASSUME NEW c \in Cids, UploadChunk(t, c) PROVE \E k : Kept(k)
  <2> DEFINE k1 == [h EXCEPT !.out = Append(@, c)]
  <2>1. k1.op = h.op
    BY <1>1 DEF Task
  <2>2. EndsAs(t, "refused") \/ task' = [task EXCEPT ![t] = k1]
    BY <1>1, <1>8 DEF UploadChunk
  <2> HIDE DEF k1
  <2>3. EndsAs(t, "refused") \/ Kept(k1)
    BY <2>1, <2>2
  <2> HIDE DEF Kept
  <2> QED BY <1>2, <2>3
<1>9. CASE \E pc : EndsAs(t, pc)
  <2> HIDE DEF Kept
  <2> QED BY <1>2, <1>9
<1> HIDE DEF Kept
<1> QED
  <2>1. \/ ExportBlock(t) \/ ImportBlock(t) \/ ImportEndOfFile(t) \/ ImportWalked(t)
        \/ ImportChecksRoot(t) \/ ImportWalks(t) \/ ReadBlock(t)
        \/ \E i \in DOMAIN h.rest : ManyGets(t, i)
        \/ \E c \in Cids : UploadChunk(t, c)
        \/ \E pc : EndsAs(t, pc)
    BY DEF Step, ExportEnds, ExportFails, ImportEnds, ImportFails, ReadEnds, ReadFails, ManyEnds,
         ManyFails, UploadEnds
  <2> QED BY <1>3, <1>4, <1>5, <1>6, <1>7, <1>8, <1>9, <2>1

\* Each step keeps what is buffered within the limit.
LEMMA NextBuffers == TransfersInv /\ BuffersInv /\ [TransfersNext]_transferVars => BuffersInv'
<1> SUFFICES ASSUME TransfersInv, BuffersInv, [TransfersNext]_transferVars PROVE BuffersInv'
  OBVIOUS
<1>1. CASE UNCHANGED transferVars
  BY <1>1 DEF transferVars, BuffersInv
<1>2. ASSUME NEW t \in Tasks, NEW pc, EndsAs(t, pc) PROVE BuffersInv'
  BY <1>2, BufferLeft, OneBuffer DEF EndsAs
<1>3. ASSUME NEW t \in Tasks, Start(t) PROVE BuffersInv'
  <2>1. ASSUME NEW k, Begins(t, k), k.op \in {"read", "upload"} => k.out = <<>> PROVE BuffersInv'
    <3>1. Bytes(<<>>) <= MaxSize /\ <<>> \in Seq(Cids)
      BY BytesEmpty, SizesNatural
    <3>2. BufferRight(k)
      BY <2>1, <3>1 DEF BufferRight
    <3> QED BY <2>1, <3>2, OneBuffer DEF Begins
  <2>2. ASSUME NEW root \in Roots, ExportStart(t, root) PROVE BuffersInv'
    BY <2>1, <2>2 DEF ExportStart, Call, IdleTask
  <2>3. ASSUME NEW root \in Files, ReadStart(t, root) PROVE BuffersInv'
    BY <2>1, <2>3 DEF ReadStart, Call, IdleTask
  <2>4. ASSUME NEW file, NEW strict, ImportStart(t, file, strict) PROVE BuffersInv'
    BY <2>1, <2>4 DEF ImportStart, Call, IdleTask
  <2>5. ASSUME NEW asked, ManyStart(t, asked) PROVE BuffersInv'
    BY <2>1, <2>5 DEF ManyStart, Call, IdleTask
  <2>6. CASE UploadStart(t)
    BY <2>1, <2>6 DEF UploadStart, Call, IdleTask
  <2> QED BY <1>3, <2>2, <2>3, <2>4, <2>5, <2>6 DEF Start
<1>4. ASSUME NEW t \in Tasks, Cancel(t) PROVE BuffersInv'
  <2> DEFINE k == [Left(t, "cancelled") EXCEPT !.temp = task[t].op = "export"]
  <2>1. task' = [task EXCEPT ![t] = k]
    BY <1>4 DEF Cancel
  <2>2. k.op = Left(t, "cancelled").op /\ k.out = Left(t, "cancelled").out
    BY DEF Left, IdleTask
  <2> HIDE DEF k
  <2>3. BufferRight(Left(t, "cancelled"))
    BY BufferLeft
  <2>4. BufferRight(k)
    BY <2>2, <2>3 DEF BufferRight
  <2> QED BY <2>1, <2>4, OneBuffer
<1>5. ASSUME NEW t \in Tasks, task[t].op \notin {"read", "upload"}, Step(t) PROVE BuffersInv'
  <2>1. PICK k : task' = [task EXCEPT ![t] = k] /\ k.op = task[t].op
    BY <1>5, StepOfCall
  <2>2. BufferRight(k)
    BY <1>5, <2>1 DEF BufferRight
  <2> QED BY <2>1, <2>2, OneBuffer
<1>6. ASSUME NEW t \in Tasks, ReadBlock(t) PROVE BuffersInv'
  <2> DEFINE h == task[t]
             b == Head(h.queue)
             chunks == Append(h.out, b)
  <2>1. h \in Task /\ h.op = "read" /\ BufferRight(h) /\ h.queue # <<>>
    BY <1>6, TransfersTypes DEF ReadBlock, BuffersInv
  <2>2. b \in Cids /\ h.out \in Seq(Cids)
    BY <2>1 DEF Task, BufferRight
  <2>3. chunks \in Seq(Cids) /\ Bytes(chunks) \in Nat /\ Bytes(h.out) \in Nat /\ (Len(chunks) = 1 \/ Len(chunks) > 1)
    BY <2>2, BytesAppend
  <2>4. CASE Yields(b) /\ Bytes(chunks) > MaxSize /\ Len(chunks) > 1
    BY <1>2, <1>6, <2>4 DEF ReadBlock
  <2>5. CASE ~(Yields(b) /\ Bytes(chunks) > MaxSize /\ Len(chunks) > 1)
    <3> DEFINE k == [h EXCEPT !.queue = Below(b) \o Tail(@),
                              !.out = IF Yields(b) THEN chunks ELSE @]
    <3>1. task' = [task EXCEPT ![t] = k]
      BY <1>6, <2>1, <2>5, TransfersTypes DEF ReadBlock
    <3>2. k.op = "read" /\ k.out = IF Yields(b) THEN chunks ELSE h.out
      BY <2>1 DEF Task
    <3> HIDE DEF k, b, chunks
    <3>3. BufferRight(k)
      <4>1. CASE Yields(b)
        <5>1. Bytes(chunks) <= MaxSize \/ Len(chunks) = 1
          <6>1. ~(Bytes(chunks) > MaxSize) => Bytes(chunks) <= MaxSize
            BY <2>3, SizesNatural
          <6> QED BY <2>3, <2>5, <4>1, <6>1, Zenon
        <5> QED BY <2>3, <3>2, <4>1, <5>1 DEF BufferRight
      <4>2. CASE ~Yields(b)
        BY <2>1, <3>2, <4>2 DEF BufferRight
      <4> QED BY <4>1, <4>2
    <3> QED BY <3>1, <3>3, OneBuffer
  <2> QED BY <2>4, <2>5
<1>7. ASSUME NEW t \in Tasks, NEW b \in Cids, UploadChunk(t, b) PROVE BuffersInv'
  <2> DEFINE h == task[t]
  <2>1. h \in Task /\ h.op = "upload" /\ BufferRight(h)
    BY <1>7, TransfersTypes DEF UploadChunk, BuffersInv
  <2>2. CASE Bytes(h.out) + Size[b] > MaxSize
    BY <1>2, <1>7, <2>2 DEF UploadChunk
  <2>3. CASE ~(Bytes(h.out) + Size[b] > MaxSize)
    <3> DEFINE k == [h EXCEPT !.out = Append(@, b)]
    <3>1. task' = [task EXCEPT ![t] = k]
      BY <1>7, <2>1, <2>3, TransfersTypes DEF UploadChunk
    <3>2. k.op = "upload" /\ k.out = Append(h.out, b) /\ h.out \in Seq(Cids)
      BY <2>1 DEF Task, BufferRight
    <3> HIDE DEF k
    <3>3. k.out \in Seq(Cids) /\ Bytes(k.out) <= MaxSize
      <4>1. Bytes(k.out) = Bytes(h.out) + Size[b] /\ Bytes(h.out) \in Nat /\ Size[b] \in Nat
        BY <3>2, BytesAppend
      <4> QED BY <2>3, <3>2, <4>1, SizesNatural
    <3> QED BY <3>1, <3>2, <3>3, OneBuffer DEF BufferRight
  <2> QED BY <2>2, <2>3
<1>8. ASSUME NEW t \in Tasks, task[t].op \in {"read", "upload"}, Step(t) PROVE BuffersInv'
  <2>1. task[t].pc \notin {"checking", "walking"}
    BY <1>8, TransfersTypes DEF TaskRight, ImportRight
  <2>2. \/ \E pc : EndsAs(t, pc)
        \/ ReadBlock(t) \/ \E b \in Cids : UploadChunk(t, b)
    BY <1>8, <2>1 DEF Step, ExportBlock, ExportEnds, ExportFails, ImportBlock, ImportEndOfFile,
         ImportChecksRoot, ImportWalks, ImportWalked, ImportEnds, ImportFails, ReadEnds,
         ReadFails, ManyGets, ManyEnds, ManyFails, UploadEnds
  <2> QED BY <1>2, <1>6, <1>7, <1>8, <2>2
<1>9. ASSUME NEW b \in Shared, Put(b) \/ Delete(b) PROVE BuffersInv'
  <2>1. \A t \in Tasks : task'[t].op = task[t].op /\ task'[t].out = task[t].out
    BY <1>9, TransfersTypes DEF Put, Delete, Task
  <2>2. \A t \in Tasks : BufferRight(task'[t])
    BY <2>1 DEF BuffersInv, BufferRight
  <2> QED BY <2>2 DEF BuffersInv, BufferRight
<1> QED BY <1>1, <1>3, <1>4, <1>5, <1>8, <1>9 DEF TransfersNext

\* An upload is never buffered beyond max_upload_size, a download sent beyond
\* max_download_size by its first chunk only; and nothing is left of a transfer that
\* has ended but what cancelled exports leave.
THEOREM BuffersAreBounded == TransfersSpec => []BuffersBounded
<1>1. TransfersInit => BuffersInv
  <2>1. Bytes(<<>>) <= MaxSize /\ <<>> \in Seq(Cids)
    BY BytesEmpty, SizesNatural
  <2> QED BY <2>1 DEF TransfersInit, IdleTask, BuffersInv, BufferRight
<1>2. TransfersInv /\ BuffersInv => BuffersBounded
  <2> SUFFICES ASSUME TransfersInv, BuffersInv PROVE BuffersBounded
    OBVIOUS
  <2>1. SizesBounded
    <3> SUFFICES ASSUME NEW t \in Tasks,
                        Bytes(IF task[t].op \in {"upload", "read"} THEN task[t].out ELSE <<>>) > MaxSize
                 PROVE  task[t].op = "read" /\ Len(task[t].out) = 1
      BY DEF SizesBounded
    <3>1. BufferRight(task[t]) /\ MaxSize \in Nat
      BY SizesNatural DEF BuffersInv
    <3>2. task[t].op \in {"upload", "read"}
      BY <3>1, BytesEmpty
    <3>3. Bytes(task[t].out) \in Nat
      BY <3>1, <3>2, BytesNatural DEF BufferRight
    <3> QED BY <3>1, <3>2, <3>3 DEF BufferRight
  <2>2. TempsRemoved
    BY DEF TransfersInv, TempRight, TempsRemoved, Running
  <2> QED BY <2>1, <2>2 DEF BuffersBounded, TransfersInv
<1> QED BY <1>1, <1>2, NextBuffers, TransfersInvariance, PTL DEF TransfersSpec

-----------------------------------------------------------------------------
(* The content of files                                                    *)

\* What a block's content is, given the content of the others.
Body(f, b) ==
    IF Yields(b) THEN <<b>> ELSE FlattenSeq([i \in DOMAIN Below(b) |-> f[Below(b)[i]]])

\* Only what is below a block counts.
LEMMA BodySame ==
    ASSUME NEW b \in Cids, NEW f, NEW g, \A d \in ToSet(Below(b)) : f[d] = g[d]
    PROVE  Body(f, b) = Body(g, b)
<1>1. \A i \in DOMAIN Below(b) : Below(b)[i] \in ToSet(Below(b))
  BY DEF ToSet
<1>2. \A i \in DOMAIN Below(b) : f[Below(b)[i]] = g[Below(b)[i]]
  BY <1>1
<1>3. [i \in DOMAIN Below(b) |-> f[Below(b)[i]]] = [i \in DOMAIN Below(b) |-> g[Below(b)[i]]]
  BY <1>2, Zenon
<1> QED BY <1>3 DEF Body

\* It is a sequence of chunks if theirs are.
LEMMA BodyType ==
    ASSUME NEW b \in Cids, NEW f \in [Cids -> Seq(Cids)]
    PROVE  Body(f, b) \in Seq(Cids)
<1> DEFINE ss == [i \in DOMAIN Below(b) |-> f[Below(b)[i]]]
<1>1. CASE Yields(b)
  BY <1>1 DEF Body
<1>2. CASE ~Yields(b)
  <2>1. Below(b) \in Seq(Cids)
    BY BelowLinks
  <2>2. ss \in Seq(Seq(Cids))
    <3> DEFINE V == Seq(Cids)
               n == Len(Below(b))
    <3>1. n \in Nat /\ DOMAIN Below(b) = 1..n /\ \A i \in 1..n : f[Below(b)[i]] \in V
      BY <2>1
    <3> HIDE DEF V, n
    <3>2. ss \in [1..n -> V]
      BY <3>1
    <3>3. ss \in Seq(V)
      BY <3>1, <3>2
    <3> QED BY <3>3 DEF V
  <2>3. Body(f, b) = FlattenSeq(ss)
    BY <1>2 DEF Body
  <2> HIDE DEF ss
  <2>4. Len(ss) \in Nat
    BY <2>2
  <2>5. FlattenSeq(ss) \in Seq(Cids)
    <3> DEFINE V == Seq(Cids)
               n == Len(ss)
    <3>1. PICK g \in [0..n -> V] : FlattenSeq(ss) = g[n]
      BY <2>2, FlattenJoins
    <3>2. n \in 0..n
      BY <2>4
    <3> HIDE DEF V, n
    <3>3. FlattenSeq(ss) \in V
      BY <3>1, <3>2
    <3> QED BY <3>3 DEF V
  <2> QED BY <2>3, <2>5, Zenon
<1> QED BY <1>1, <1>2

\* f has the content of the blocks in S.
ContentOn(f, S) ==
    \A b \in S : ToSet(Below(b)) \subseteq S /\ f[b] = Body(f, b)

\* There is at most one content of a block: of those that had two, one has
\* no such block below it.
LEMMA ContentUnique ==
    ASSUME NEW S \in SUBSET Cids, NEW T \in SUBSET Cids, NEW f, NEW g,
           ContentOn(f, S), ContentOn(g, T), NEW b \in S, b \in T
    PROVE  f[b] = g[b]
<1> DEFINE D == {d \in S \cap T : f[d] # g[d]}
<1> SUFFICES ASSUME D # {} PROVE FALSE
  OBVIOUS
<1>1. D \in SUBSET Cids
  OBVIOUS
<1>2. PICK d \in D : ToSet(LinksOf[d]) \cap D = {}
  <2> HIDE DEF D
  <2> QED BY <1>1, TransfersAssumption DEF TransfersAssumption
<1>3. d \in Cids /\ d \in S /\ d \in T /\ f[d] # g[d]
  OBVIOUS
<1>4. \A e \in ToSet(Below(d)) : e \in S /\ e \in T /\ e \notin D
  BY <1>2, <1>3, BelowLinks DEF ContentOn
<1>5. \A e \in ToSet(Below(d)) : f[e] = g[e]
  BY <1>4
<1> HIDE DEF D
<1>6. Body(f, d) = Body(g, d)
  BY <1>3, <1>5, BodySame
<1> QED BY <1>3, <1>6 DEF ContentOn

\* There is a content of every block: of those that had none, one has only blocks
\* with a content below it.
LEMMA ContentExists == \E f \in [Cids -> Seq(Cids)] : ContentOn(f, Cids)
<1> DEFINE F == [Cids -> Seq(Cids)]
           Known(b, v) == \E S \in SUBSET Cids, f \in F : b \in S /\ ContentOn(f, S) /\ v = f[b]
           G == {b \in Cids : \E v \in Seq(Cids) : Known(b, v)}
           all == [b \in Cids |-> IF b \in G THEN CHOOSE v \in Seq(Cids) : Known(b, v) ELSE <<>>]
<1>1. all \in F
  <2>1. \A b \in G : (CHOOSE v \in Seq(Cids) : Known(b, v)) \in Seq(Cids)
    <3> HIDE DEF Known
    <3> QED OBVIOUS
  <2> QED BY <2>1
<1>2. ASSUME NEW S \in SUBSET Cids, NEW f \in F, ContentOn(f, S), NEW b \in S
      PROVE  b \in G /\ all[b] = f[b]
  <2>1. f[b] \in Seq(Cids) /\ Known(b, f[b])
    BY <1>2
  <2>2. ASSUME NEW v, Known(b, v) PROVE v = f[b]
    <3>1. PICK T \in SUBSET Cids, g \in F : b \in T /\ ContentOn(g, T) /\ v = g[b]
      BY <2>2
    <3>2. f[b] = g[b]
      <4>1. \A x, y : ContentOn(x, S) /\ ContentOn(y, T) => x[b] = y[b]
        <5> SUFFICES ASSUME NEW x, NEW y, ContentOn(x, S), ContentOn(y, T) PROVE x[b] = y[b]
          OBVIOUS
        <5> HIDE DEF F, G, all, Known
        <5>1. b \in T
          BY <3>1
        <5> QED BY <5>1, ContentUnique
      <4> QED BY <1>2, <3>1, <4>1, Zenon
    <3> QED BY <3>1, <3>2
  <2> HIDE DEF Known
  <2>3. b \in G
    BY <2>1
  <2>4. all[b] = CHOOSE v \in Seq(Cids) : Known(b, v)
    BY <2>3
  <2> QED BY <2>1, <2>2, <2>3, <2>4
<1>3. ContentOn(all, G)
  <2> SUFFICES ASSUME NEW b \in G PROVE ToSet(Below(b)) \subseteq G /\ all[b] = Body(all, b)
    BY DEF ContentOn
  <2>1. PICK S \in SUBSET Cids, f \in F : b \in S /\ ContentOn(f, S)
    OBVIOUS
  <2> HIDE DEF G, all
  <2>2. ToSet(Below(b)) \subseteq S /\ f[b] = Body(f, b)
    BY <2>1 DEF ContentOn
  <2>3. \A d \in S : d \in G /\ all[d] = f[d]
    BY <1>2, <2>1
  <2>4. Body(all, b) = Body(f, b)
    BY <2>1, <2>2, <2>3, BodySame
  <2> QED BY <2>1, <2>2, <2>3, <2>4
<1>4. G = Cids
  <2> SUFFICES ASSUME Cids \ G # {} PROVE FALSE
    OBVIOUS
  <2>1. PICK b \in Cids \ G : ToSet(LinksOf[b]) \cap (Cids \ G) = {}
    <3> HIDE DEF G
    <3>1. Cids \ G \in (SUBSET Cids) \ {{}}
      OBVIOUS
    <3> QED BY <3>1, TransfersAssumption DEF TransfersAssumption
  <2>2. G \subseteq Cids
    OBVIOUS
  <2> HIDE DEF G, all
  <2>3. \A d \in ToSet(Below(b)) : d \in G
    <3>1. ToSet(LinksOf[b]) \subseteq Cids
      <4>1. LinksOf[b] \in Seq(Cids)
        BY TransfersAssumption DEF TransfersAssumption
      <4> QED BY <4>1 DEF ToSet
    <3> QED BY <2>1, <3>1, BelowLinks
  <2> DEFINE f == [all EXCEPT ![b] = Body(all, b)]
             S == G \cup {b}
  <2>4. f \in F /\ S \in SUBSET Cids /\ b \in S
    BY <1>1, <2>2, BodyType
  <2>5. f[b] = Body(all, b) /\ \A d \in G : f[d] = all[d]
    BY <1>1, <2>1, <2>2
  <2>6. ASSUME NEW d \in S PROVE ToSet(Below(d)) \subseteq S /\ f[d] = Body(f, d)
    <3>1. ToSet(Below(d)) \subseteq G /\ f[d] = Body(all, d) /\ d \in Cids
      BY <1>3, <2>2, <2>3, <2>5 DEF ContentOn
    <3> HIDE DEF f
    <3>2. Body(f, d) = Body(all, d)
      BY <2>5, <3>1, BodySame
    <3> QED BY <3>1, <3>2
  <2>7. ContentOn(f, S)
    BY <2>6 DEF ContentOn
  <2> HIDE DEF f, S
  <2>8. b \in G
    BY <1>2, <2>4, <2>7
  <2> QED BY <2>1, <2>8
<1> HIDE DEF all, G
<1> QED BY <1>1, <1>3, <1>4

\* The content is what its definition says.
LEMMA ContentBody ==
    content \in [Cids -> Seq(Cids)] /\ \A b \in Cids : content[b] = Body(content, b)
<1>1. PICK f \in [Cids -> Seq(Cids)] : ContentOn(f, Cids)
  BY ContentExists
<1>2. f = [b \in Cids |-> Body(f, b)]
  BY <1>1 DEF ContentOn
<1>3. content = CHOOSE g : g = [b \in Cids |-> Body(g, b)]
  BY DEF content, Body
<1>4. content = [b \in Cids |-> Body(content, b)]
  BY <1>2, <1>3
<1>5. \A b \in Cids : content[b] = Body(content, b)
  BY <1>4
<1>6. \A b \in Cids : ToSet(Below(b)) \subseteq Cids
  BY BelowLinks DEF ToSet
<1>7. ContentOn(content, Cids)
  BY <1>5, <1>6 DEF ContentOn
<1>8. \A b \in Cids : content[b] = f[b]
  <2> SUFFICES ASSUME NEW b \in Cids PROVE content[b] = f[b]
    OBVIOUS
  <2>1. \A x, y : ContentOn(x, Cids) /\ ContentOn(y, Cids) => x[b] = y[b]
    BY ContentUnique
  <2> QED BY <1>1, <1>7, <2>1, Zenon
<1> QED BY <1>4, <1>5, <1>8

-----------------------------------------------------------------------------
(* Contents                                                                *)

Parts(blocks) == [i \in DOMAIN blocks |-> content[blocks[i]]]

\* The contents of the blocks of a sequence, one after the other and joined.
LEMMA PartsType == ASSUME NEW s \in Seq(Cids) PROVE Parts(s) \in Seq(Seq(Cids)) /\ Len(Parts(s)) = Len(s)
<1> DEFINE V == Seq(Cids)
           n == Len(s)
<1>1. n \in Nat /\ DOMAIN s = 1..n /\ (\A i \in 1..n : s[i] \in Cids) /\ content \in [Cids -> V]
  BY ContentBody
<1> HIDE DEF V, n
<1>2. Parts(s) \in [1..n -> V] /\ DOMAIN Parts(s) = 1..n
  BY <1>1 DEF Parts
<1>3. Parts(s) \in Seq(V) /\ Len(Parts(s)) = n
  BY <1>1, <1>2
<1> QED BY <1>3 DEF V, n

LEMMA ContentsType == ASSUME NEW s \in Seq(Cids) PROVE Contents(s) \in Seq(Cids)
<1> DEFINE ss == Parts(s)
<1>1. ss \in Seq(Seq(Cids)) /\ Len(ss) \in Nat /\ Contents(s) = FlattenSeq(ss)
  BY PartsType DEF Contents, Parts
<1> HIDE DEF ss
<1>2. PICK g \in [0..Len(ss) -> Seq(Cids)] : FlattenSeq(ss) = g[Len(ss)]
  BY <1>1, FlattenJoins
<1> QED BY <1>1, <1>2

\* The contents of two sequences of blocks.
LEMMA ContentsConcat ==
    ASSUME NEW s \in Seq(Cids), NEW t \in Seq(Cids)
    PROVE  Contents(s \o t) = Contents(s) \o Contents(t)
<1> DEFINE u == s \o t
<1>1. u \in Seq(Cids) /\ Len(u) = Len(s) + Len(t)
      /\ \A i \in 1..(Len(s) + Len(t)) : u[i] = IF i <= Len(s) THEN s[i] ELSE t[i - Len(s)]
  BY ConcatProperties
<1> HIDE DEF u
<1>2. /\ Parts(u) \in Seq(Seq(Cids)) /\ Len(Parts(u)) = Len(s) + Len(t)
      /\ Parts(s) \in Seq(Seq(Cids)) /\ Len(Parts(s)) = Len(s)
      /\ Parts(t) \in Seq(Seq(Cids)) /\ Len(Parts(t)) = Len(t)
      /\ Len(s) \in Nat /\ Len(t) \in Nat
  BY <1>1, PartsType
<1>3. /\ \A i \in 1..Len(s) : Parts(s)[i] = content[s[i]]
      /\ \A i \in 1..Len(t) : Parts(t)[i] = content[t[i]]
      /\ \A i \in 1..(Len(s) + Len(t)) : Parts(u)[i] = content[u[i]]
  BY <1>1 DEF Parts
<1> DEFINE w == Parts(s) \o Parts(t)
<1>4. w \in Seq(Seq(Cids)) /\ Len(w) = Len(s) + Len(t)
      /\ \A i \in 1..(Len(s) + Len(t)) : w[i] = IF i <= Len(s) THEN Parts(s)[i] ELSE Parts(t)[i - Len(s)]
  <2> DEFINE V == Seq(Cids)
             x == Parts(s)
             y == Parts(t)
  <2>1. x \in Seq(V) /\ y \in Seq(V) /\ Len(x) = Len(s) /\ Len(y) = Len(t)
    BY <1>2
  <2> HIDE DEF x, y, V
  <2>2. x \o y \in Seq(V) /\ Len(x \o y) = Len(s) + Len(t)
        /\ \A i \in 1..(Len(s) + Len(t)) : (x \o y)[i] = IF i <= Len(s) THEN x[i] ELSE y[i - Len(s)]
    <3>1. x \o y \in Seq(V) /\ Len(x \o y) = Len(x) + Len(y)
          /\ \A i \in 1..(Len(x) + Len(y)) : (x \o y)[i] = IF i <= Len(x) THEN x[i] ELSE y[i - Len(x)]
      BY <2>1, ConcatProperties
    <3> QED BY <2>1, <3>1, Zenon
  <2> QED BY <2>2 DEF x, y, V
<1> HIDE DEF w
<1>5. \A i \in 1..(Len(s) + Len(t)) : w[i] = Parts(u)[i]
  <2> SUFFICES ASSUME NEW i \in 1..(Len(s) + Len(t)) PROVE w[i] = Parts(u)[i]
    OBVIOUS
  <2>1. CASE i <= Len(s)
    <3>1. i \in 1..Len(s)
      BY <1>2, <2>1
    <3>2. w[i] = Parts(s)[i]
      BY <1>4, <2>1, Zenon
    <3>3. u[i] = s[i]
      BY <1>1, <2>1, Zenon
    <3>4. Parts(u)[i] = content[u[i]] /\ Parts(s)[i] = content[s[i]]
      BY <1>3, <3>1, Zenon
    <3> QED BY <3>2, <3>3, <3>4, Zenon
  <2>2. CASE ~(i <= Len(s))
    <3> DEFINE j == i - Len(s)
    <3>1. j \in 1..Len(t)
      BY <1>2, <2>2
    <3>2. u[i] = t[j] /\ w[i] = Parts(t)[j]
      BY <1>1, <1>4, <2>2, Zenon
    <3> HIDE DEF j
    <3>3. Parts(u)[i] = content[u[i]] /\ Parts(t)[j] = content[t[j]]
      BY <1>3, <3>1, Zenon
    <3> QED BY <3>2, <3>3, Zenon
  <2> QED BY <2>1, <2>2
<1>6. w = Parts(u)
  BY <1>2, <1>4, <1>5, SeqEqual
<1>7. FlattenSeq(w) = FlattenSeq(Parts(s)) \o FlattenSeq(Parts(t))
  BY <1>2, FlattenConcat DEF w
<1> QED BY <1>6, <1>7 DEF Contents, Parts, u

\* Those of none, and of one.
LEMMA ContentsEmpty == Contents(<<>>) = <<>>
<1>1. Parts(<<>>) = <<>>
  BY DEF Parts
<1> QED BY <1>1, FlattenEmpty DEF Contents, Parts

LEMMA ContentsOne == ASSUME NEW b \in Cids PROVE Contents(<<b>>) = content[b]
<1>1. content[b] \in Seq(Cids)
  BY ContentBody
<1>2. Parts(<<b>>) = <<content[b]>>
  BY DEF Parts
<1> QED BY <1>1, <1>2, FlattenOne DEF Contents, Parts

\* A block that is read: what is sent of it comes before what is below it.
LEMMA ContentsRead ==
    ASSUME NEW q \in Seq(Cids), q # <<>>, NEW b, b = Head(q)
    PROVE  /\ b \in Cids /\ Below(b) \in Seq(Cids) /\ Tail(q) \in Seq(Cids)
           /\ Yields(b) => Contents(q) = <<b>> \o Contents(Below(b) \o Tail(q))
           /\ ~Yields(b) => Contents(q) = Contents(Below(b) \o Tail(q))
<1>1. b \in Cids /\ Tail(q) \in Seq(Cids) /\ q = <<b>> \o Tail(q)
  OBVIOUS
<1>2. Below(b) \in Seq(Cids)
  BY <1>1, BelowLinks
<1>3. Contents(q) = content[b] \o Contents(Tail(q)) /\ Contents(Tail(q)) \in Seq(Cids)
  <2>1. <<b>> \in Seq(Cids)
    BY <1>1
  <2>2. Contents(<<b>> \o Tail(q)) = Contents(<<b>>) \o Contents(Tail(q))
    BY <1>1, <2>1, ContentsConcat
  <2> QED BY <1>1, <2>2, ContentsOne, ContentsType
<1>4. content[b] = Body(content, b)
  BY <1>1, ContentBody
<1>5. CASE Yields(b)
  <2>1. Below(b) = <<>> /\ content[b] = <<b>>
    BY <1>4, <1>5, TransfersAssumption DEF Below, Yields, Body
  <2>2. Below(b) \o Tail(q) = Tail(q)
    BY <1>1, <2>1, ConcatEmptySeq
  <2> QED BY <1>1, <1>2, <1>3, <1>5, <2>1, <2>2
<1>6. CASE ~Yields(b)
  <2>1. content[b] = Contents(Below(b))
    BY <1>4, <1>6 DEF Body, Contents
  <2>2. Contents(Below(b) \o Tail(q)) = Contents(Below(b)) \o Contents(Tail(q))
    BY <1>1, <1>2, ContentsConcat
  <2> QED BY <1>1, <1>2, <1>3, <1>6, <2>1, <2>2
<1> QED BY <1>5, <1>6

-----------------------------------------------------------------------------
(* What is delivered                                                       *)

\* What is sent of a file and what is still to be fetched are its content.
DeliveryRight(k) ==
    k.op = "read" /\ k.pc \in {"running", "done"} =>
        \E root \in Files : k.out \o Contents(k.queue) = content[root]

DeliveriesInv == \A t \in Tasks : DeliveryRight(task[t])

\* A step of one task.
LEMMA OneDelivery ==
    ASSUME TransfersInv, DeliveriesInv, NEW t \in Tasks, NEW k, task' = [task EXCEPT ![t] = k],
           DeliveryRight(k)
    PROVE  DeliveriesInv'
<1>1. \A r \in Tasks : task'[r] = IF r = t THEN k ELSE task[r]
  BY TransfersTypes
<1>2. \A r \in Tasks : DeliveryRight(task'[r])
  BY <1>1 DEF DeliveriesInv
<1> QED BY <1>2 DEF DeliveriesInv, DeliveryRight

\* What it sends next is what comes next.
LEMMA ReadDelivers ==
    ASSUME TransfersInv, BuffersInv, DeliveriesInv, NEW t \in Tasks, ReadBlock(t)
    PROVE  DeliveriesInv'
<1> DEFINE h == task[t]
           b == Head(h.queue)
           chunks == Append(h.out, b)
           rest == Below(b) \o Tail(h.queue)
<1>1. h \in Task /\ h.op = "read" /\ h.queue # <<>> /\ h.queue \in Seq(Cids)
      /\ task \in [Tasks -> Task]
  BY TransfersTypes DEF ReadBlock, Task
<1>2. h.out \in Seq(Cids)
  BY <1>1 DEF BuffersInv, BufferRight
<1>3. CASE EndsAs(t, "refused")
  <2>1. Left(t, "refused").pc = "refused"
    BY <1>1 DEF Left, IdleTask
  <2> HIDE DEF Left
  <2>2. DeliveryRight(Left(t, "refused"))
    BY <2>1 DEF DeliveryRight
  <2> QED BY <1>3, <2>2, OneDelivery DEF EndsAs
<1>4. CASE ~EndsAs(t, "refused")
  <2> DEFINE k == [h EXCEPT !.queue = Below(b) \o Tail(@),
                            !.out = IF Yields(b) THEN chunks ELSE @]
  <2>1. task' = [task EXCEPT ![t] = k]
    BY <1>1, <1>4 DEF ReadBlock
  <2>2. /\ k.op = "read" /\ k.pc = h.pc /\ k.queue = rest
        /\ k.out = IF Yields(b) THEN chunks ELSE h.out
    BY <1>1 DEF Task
  <2>3. h.pc = "running"
    BY <1>1, TransfersTypes DEF ReadBlock, Running, TaskRight, ImportRight, Task, Ended
  <2>4. PICK root \in Files : h.out \o Contents(h.queue) = content[root]
    BY <1>1, <2>3 DEF DeliveriesInv, DeliveryRight
  <2>5. /\ b \in Cids /\ rest \in Seq(Cids)
        /\ Yields(b) => Contents(h.queue) = <<b>> \o Contents(rest)
        /\ ~Yields(b) => Contents(h.queue) = Contents(rest)
    <3>1. /\ b \in Cids /\ Below(b) \in Seq(Cids) /\ Tail(h.queue) \in Seq(Cids)
          /\ Yields(b) => Contents(h.queue) = <<b>> \o Contents(rest)
          /\ ~Yields(b) => Contents(h.queue) = Contents(rest)
      BY <1>1, ContentsRead
    <3> QED BY <3>1, ConcatProperties
  <2>6. chunks = h.out \o <<b>> /\ <<b>> \in Seq(Cids)
    <3> HIDE DEF b, h
    <3>1. <<b>> \in Seq(Cids)
      BY <2>5
    <3> QED BY <1>2, <2>5, <3>1, AppendIsConcat
  <2>7. Contents(rest) \in Seq(Cids)
    BY <2>5, ContentsType
  <2> HIDE DEF k, rest, chunks, b
  <2>8. k.out \o Contents(k.queue) = content[root]
    <3>1. CASE Yields(b)
      <4>1. (h.out \o <<b>>) \o Contents(rest) = h.out \o (<<b>> \o Contents(rest))
        <5>1. \A x, y, z \in Seq(Cids) : (x \o y) \o z = x \o (y \o z)
          BY ConcatAssociative
        <5> QED BY <1>2, <2>6, <2>7, <5>1, Zenon
      <4> QED BY <2>2, <2>4, <2>5, <2>6, <3>1, <4>1, Zenon
    <3>2. CASE ~Yields(b)
      BY <2>2, <2>4, <2>5, <3>2, Zenon
    <3> QED BY <3>1, <3>2
  <2>9. DeliveryRight(k)
    BY <2>8 DEF DeliveryRight
  <2> QED BY <2>1, <2>9, OneDelivery
<1> QED BY <1>3, <1>4

\* Each step keeps what is delivered a beginning of the file.
LEMMA NextDeliveries ==
    TransfersInv /\ BuffersInv /\ DeliveriesInv /\ [TransfersNext]_transferVars => DeliveriesInv'
<1> SUFFICES ASSUME TransfersInv, BuffersInv, DeliveriesInv, [TransfersNext]_transferVars
             PROVE  DeliveriesInv'
  OBVIOUS
<1>1. CASE UNCHANGED transferVars
  BY <1>1 DEF transferVars, DeliveriesInv
<1>2. ASSUME NEW t \in Tasks, Start(t) PROVE DeliveriesInv'
  <2>1. ASSUME NEW k, Begins(t, k), k.op # "read" PROVE DeliveriesInv'
    <3>1. DeliveryRight(k)
      BY <2>1 DEF DeliveryRight
    <3> QED BY <2>1, <3>1, OneDelivery DEF Begins
  <2>2. ASSUME NEW root \in Roots, ExportStart(t, root) PROVE DeliveriesInv'
    BY <2>1, <2>2 DEF ExportStart, Call, IdleTask
  <2>3. ASSUME NEW root \in Files, ReadStart(t, root) PROVE DeliveriesInv'
    <3> DEFINE k == [Call("read") EXCEPT !.queue = <<root>>]
    <3>1. k.out = <<>> /\ k.queue = <<root>>
      BY DEF Call, IdleTask
    <3>2. root \in Cids
      BY TransfersAssumption, Zenon DEF TransfersAssumption
    <3>3. Contents(k.queue) = content[root] /\ content[root] \in Seq(Cids)
      BY <3>1, <3>2, ContentsOne, ContentBody
    <3> HIDE DEF k
    <3>4. k.out \o Contents(k.queue) = content[root]
      BY <3>1, <3>3, ConcatEmptySeq
    <3>5. DeliveryRight(k)
      BY <3>4 DEF DeliveryRight
    <3> QED BY <2>3, <3>5, OneDelivery DEF ReadStart, Begins, k
  <2>4. ASSUME NEW file, NEW strict, ImportStart(t, file, strict) PROVE DeliveriesInv'
    BY <2>1, <2>4 DEF ImportStart, Call, IdleTask
  <2>5. ASSUME NEW asked, ManyStart(t, asked) PROVE DeliveriesInv'
    BY <2>1, <2>5 DEF ManyStart, Call, IdleTask
  <2>6. CASE UploadStart(t)
    BY <2>1, <2>6 DEF UploadStart, Call, IdleTask
  <2> QED BY <1>2, <2>2, <2>3, <2>4, <2>5, <2>6 DEF Start
<1>3. ASSUME NEW t \in Tasks, task[t].op # "read", Step(t) PROVE DeliveriesInv'
  <2>1. PICK k : task' = [task EXCEPT ![t] = k] /\ k.op = task[t].op
    BY <1>3, StepOfCall
  <2>2. DeliveryRight(k)
    BY <1>3, <2>1 DEF DeliveryRight
  <2> QED BY <2>1, <2>2, OneDelivery
<1>4. ASSUME NEW t \in Tasks, task[t].op = "read", Step(t) PROVE DeliveriesInv'
  <2>0. task[t] \in Task /\ task[t].pc \notin {"checking", "walking"}
    BY <1>4, TransfersTypes DEF TaskRight, ImportRight
  <2>1. ReadBlock(t) \/ ReadEnds(t) \/ ReadFails(t)
    BY <1>4, <2>0 DEF Step, ExportBlock, ExportEnds, ExportFails, ImportBlock, ImportEndOfFile,
         ImportChecksRoot, ImportWalks, ImportWalked, ImportEnds, ImportFails,
         ManyGets, ManyEnds, ManyFails, UploadChunk, UploadEnds
  <2>2. CASE ReadEnds(t)
    <3>1. /\ Left(t, "done").out = task[t].out /\ Left(t, "done").queue = task[t].queue
          /\ task[t].pc = "running"
      BY <1>4, <2>0, <2>2 DEF Left, Task, ReadEnds, Running, Ended
    <3> HIDE DEF Left
    <3>2. DeliveryRight(Left(t, "done"))
      BY <1>4, <3>1 DEF DeliveriesInv, DeliveryRight
    <3> QED BY <2>2, <3>2, OneDelivery DEF ReadEnds, EndsAs
  <2>3. CASE ReadFails(t)
    <3>1. Left(t, "failed").pc = "failed"
      BY <2>0 DEF Left, IdleTask
    <3> HIDE DEF Left
    <3>2. DeliveryRight(Left(t, "failed"))
      BY <3>1 DEF DeliveryRight
    <3> QED BY <2>3, <3>2, OneDelivery DEF ReadFails, EndsAs
  <2> QED BY <2>1, <2>2, <2>3, ReadDelivers
<1>5. ASSUME NEW t \in Tasks, Cancel(t) PROVE DeliveriesInv'
  <2> DEFINE k == [Left(t, "cancelled") EXCEPT !.temp = task[t].op = "export"]
  <2>1. task' = [task EXCEPT ![t] = k]
    BY <1>5 DEF Cancel
  <2>2. k.pc = "cancelled"
    BY DEF Left, IdleTask
  <2> HIDE DEF k
  <2>3. DeliveryRight(k)
    BY <2>2 DEF DeliveryRight
  <2> QED BY <2>1, <2>3, OneDelivery
<1>6. ASSUME NEW b \in Shared, Put(b) \/ Delete(b) PROVE DeliveriesInv'
  <2>1. \A t \in Tasks : /\ task'[t].op = task[t].op /\ task'[t].out = task[t].out
                         /\ task'[t].pc = task[t].pc /\ task'[t].queue = task[t].queue
    BY <1>6, TransfersTypes DEF Put, Delete, Task
  <2>2. \A t \in Tasks : DeliveryRight(task'[t])
    BY <2>1 DEF DeliveriesInv, DeliveryRight
  <2> QED BY <2>2 DEF DeliveriesInv, DeliveryRight
<1> QED BY <1>1, <1>2, <1>3, <1>4, <1>5, <1>6 DEF TransfersNext

\* Whatever is put, deleted, cancelled or failing meanwhile, get_file delivers the
\* chunks of the file in order, shared blocks repeated, and get_many its results in
\* the order asked.
THEOREM DeliveriesAreInOrder == TransfersSpec => []DeliveredInOrder
<1>1. TransfersInit => BuffersInv /\ DeliveriesInv
  <2>1. Bytes(<<>>) <= MaxSize /\ <<>> \in Seq(Cids)
    BY BytesEmpty, SizesNatural
  <2> QED BY <2>1 DEF TransfersInit, IdleTask, BuffersInv, BufferRight, DeliveriesInv, DeliveryRight
<1>2. TransfersInv /\ DeliveriesInv => DeliveredInOrder
  <2> SUFFICES ASSUME TransfersInv, DeliveriesInv PROVE DeliveredInOrder
    OBVIOUS
  <2>1. ReadsInOrder
    <3> SUFFICES ASSUME NEW t \in Tasks, task[t].op = "read", Running(t) \/ task[t].pc = "done"
                 PROVE  \E root \in Files : task[t].out \o Contents(task[t].queue) = content[root]
      BY DEF ReadsInOrder
    <3>1. task[t].pc \in {"running", "done"}
      BY TransfersTypes DEF Running, Ended, Task, TaskRight, ImportRight
    <3> QED BY <3>1 DEF DeliveriesInv, DeliveryRight
  <2>2. ManyInOrder
    <3> SUFFICES ASSUME NEW t \in Tasks, task[t].op = "many", task[t].pc = "done"
                 PROVE  task[t].out = task[t].rest
      BY DEF ManyInOrder
    <3> DEFINE x == task[t].out
               y == task[t].rest
    <3>1. x \in Seq(Cids \cup {NoBlock}) /\ y \in Seq(Cids) /\ Len(x) = Len(y)
          /\ \A i \in 1..Len(y) : x[i] = y[i]
      BY TransfersTypes DEF Task, TaskRight, ManyRight
    <3> HIDE DEF x, y
    <3>2. y \in Seq(Cids \cup {NoBlock})
      BY <3>1
    <3>3. x = y
      BY <3>1, <3>2, SeqEqual
    <3> QED BY <3>3 DEF x, y
  <2> QED BY <2>1, <2>2 DEF DeliveredInOrder
<1> QED BY <1>1, <1>2, NextBuffers, NextDeliveries, TransfersInvariance, PTL DEF TransfersSpec
=============================================================================
