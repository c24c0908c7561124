---------------------------- MODULE ContentStore ----------------------------
(***************************************************************************)
(* The blockstore, the pin table and the mark-and-sweep collection of      *)
(* peer/_content.py, one store call per step.  Blocks are named by their   *)
(* CID, so a block's links never change and putting it twice is harmless.  *)
(*                                                                         *)
(* add_file and add_node hold the read lock and gc holds the write lock    *)
(* (ReadersWriters, which GcLock is shown to implement).  Everything else  *)
(* that touches the store or the pins takes no lock: put_block, the cache  *)
(* write of fetch_block, import_car, remove_node, add_pin, remove_pin.     *)
(*                                                                         *)
(* The filesystem blockstore is modelled: blocks survive a restart, and    *)
(* the pin table comes back as the file has it (PinStore says what that    *)
(* may be; here it is any table).  walk_dag's queue is the set `frontier`, *)
(* so the order in which it visits the links, and gc the pins, is open.    *)
(***************************************************************************)
EXTENDS Naturals, FiniteSets

CONSTANTS
    Blocks,       \* the CIDs
    Links,        \* Links[b]: the CIDs in block b, as walk_dag extracts them
    Adders,       \* tasks that call add_file and add_node
    Collector,    \* the task inside gc
    Unreadable,   \* blocks whose blockstore.get may raise
    Removable,    \* blocks users call remove_node on
    Pinnable      \* blocks users pin

ASSUME StoreAssumption ==
    /\ IsFiniteSet(Blocks)
    /\ Links \in [Blocks -> SUBSET Blocks]
    /\ Unreadable \subseteq Blocks
    /\ Removable \subseteq Blocks
    /\ Pinnable \subseteq Blocks

VARIABLES
    store,        \* blocks in the blockstore
    pins,         \* PinStore._pins
    adding,       \* what each running add has yet to put
    readers, writers,                       \* who is inside the RWLock
    phase,        \* where gc is
    keys,         \* its all_cids
    gcPins,       \* its copy of the pin table
    pinsLeft,     \* pins it has not walked yet
    walking,      \* the pin it is walking, if any
    frontier,     \* queue of that walk
    visited,      \* visited of that walk
    reachable,    \* its reachable_cids
    missed,       \* history: blocks its walks found absent or could not read
    victims       \* its to_delete, less what it has deleted

addVars == <<adding, readers>>
walkVars == <<walking, frontier, visited, reachable, missed>>
gcVars == <<writers, phase, keys, gcPins, pinsLeft, walkVars, victims>>
vars == <<store, pins, addVars, gcVars>>

Lock == INSTANCE ReadersWriters WITH Readers <- Adders, Writers <- {Collector}

PinTypes == {"none", "direct", "recursive"}
NoPins == [b \in Blocks |-> "none"]
Phases == {"idle", "listing", "readingPins", "marking", "sweeping"}

\* What a recursive pin of a block protects: everything its links lead to.
Closed(S) == \A b \in S : Links[b] \subseteq S
Reach == [b \in Blocks |->
             {d \in Blocks : \A S \in SUBSET Blocks : b \in S /\ Closed(S) => d \in S}]

Protects(table, p) ==
    IF table[p] = "recursive" THEN Reach[p] ELSE IF table[p] = "direct" THEN {p} ELSE {}

TypeOK ==
    /\ store \subseteq Blocks
    /\ pins \in [Blocks -> PinTypes]
    /\ adding \in [Adders -> SUBSET Blocks]
    /\ readers \subseteq Adders
    /\ writers \subseteq {Collector}
    /\ phase \in Phases
    /\ keys \subseteq Blocks
    /\ gcPins \in [Blocks -> PinTypes]
    /\ pinsLeft \subseteq Blocks
    /\ walking \subseteq Blocks
    /\ frontier \subseteq Blocks
    /\ visited \subseteq Blocks
    /\ reachable \subseteq Blocks
    /\ missed \subseteq Blocks
    /\ victims \subseteq Blocks

Idle ==
    /\ phase = "idle"
    /\ keys = {} /\ pinsLeft = {} /\ walking = {} /\ frontier = {} /\ visited = {}
    /\ reachable = {} /\ missed = {} /\ victims = {}
    /\ gcPins = NoPins

Init ==
    /\ store = {}
    /\ pins = NoPins
    /\ adding = [t \in Adders |-> {}]
    /\ Lock!Init
    /\ Idle

-----------------------------------------------------------------------------
(* Adding blocks under the read lock                                       *)

\* Mutation: the block is put without read_lock().
StartAddUnlocked(t, blocks) ==
    /\ t \notin readers
    /\ readers' = readers \union {t}
    /\ adding' = [adding EXCEPT ![t] = blocks]
    /\ UNCHANGED <<store, pins, gcVars>>

\* add_node puts one block, add_file those of a whole DAG.
StartAdd(t, blocks) ==
    /\ Lock!EnterRead(t)
    /\ adding' = [adding EXCEPT ![t] = blocks]
    /\ UNCHANGED <<store, pins, phase, keys, gcPins, pinsLeft, walkVars, victims>>

AddBlock(t, b) ==
    /\ t \in readers
    /\ b \in adding[t]
    /\ store' = store \union {b}
    /\ adding' = [adding EXCEPT ![t] = @ \ {b}]
    /\ UNCHANGED <<pins, readers, gcVars>>

\* The body ends, or a put raises and the blocks not put yet never are.
EndAdd(t) ==
    /\ Lock!LeaveRead(t)
    /\ adding' = [adding EXCEPT ![t] = {}]
    /\ UNCHANGED <<store, pins, phase, keys, gcPins, pinsLeft, walkVars, victims>>

-----------------------------------------------------------------------------
(* The operations that take no lock                                        *)

\* put_block, a block of import_car, the cache write of fetch_block, which
\* has no guard left by then: the lookup that missed is several awaits old.
PutUnlocked(b) ==
    /\ store' = store \union {b}
    /\ UNCHANGED <<pins, addVars, gcVars>>

\* remove_node looks at no pin.
RemoveNode(b) ==
    /\ b \in Removable
    /\ store' = store \ {b}
    /\ UNCHANGED <<pins, addVars, gcVars>>

\* A pin of the same type, and a direct pin of a recursively pinned block, change
\* nothing.  Nobody checks that the block is in the store.
AddPin(b, type) ==
    /\ \/ pins[b] = "none"
       \/ pins[b] = "direct" /\ type = "recursive"
    /\ b \in Pinnable
    /\ pins' = [pins EXCEPT ![b] = type]
    /\ UNCHANGED <<store, addVars, gcVars>>

RemovePin(b) ==
    /\ pins[b] # "none"
    /\ pins' = [pins EXCEPT ![b] = "none"]
    /\ UNCHANGED <<store, addVars, gcVars>>

-----------------------------------------------------------------------------
(* gc.  A step that touches none but gc's own variables may be run by the  *)
(* code without an await after the step before it; no other task can tell, *)
(* so it stays a step of its own.                                          *)

\* Mutation: gc does not take write_lock().
GcStartUnlocked ==
    /\ phase = "idle"
    /\ phase' = "listing"
    /\ writers' = {Collector}
    /\ UNCHANGED <<store, pins, addVars, keys, gcPins, pinsLeft, walkVars, victims>>

GcStart ==
    /\ phase = "idle"
    /\ Lock!EnterWrite(Collector)
    /\ phase' = "listing"
    /\ UNCHANGED <<store, pins, adding, keys, gcPins, pinsLeft, walkVars, victims>>

GcListKeys ==
    /\ phase = "listing"
    /\ keys' = store
    /\ phase' = "readingPins"
    /\ UNCHANGED <<store, pins, addVars, writers, gcPins, pinsLeft, walkVars, victims>>

\* get_pins() copies the table: a later add_pin or remove_pin is not seen.
GcReadPins ==
    /\ phase = "readingPins"
    /\ gcPins' = pins
    /\ pinsLeft' = {b \in Blocks : pins[b] # "none"}
    /\ phase' = "marking"
    /\ UNCHANGED <<store, pins, addVars, writers, keys, walkVars, victims>>

\* Mutations: every pin is walked recursively; only the direct ones are.
GcNextPinAllRecursive ==
    /\ phase = "marking" /\ frontier = {}
    /\ \E p \in pinsLeft :
          /\ pinsLeft' = pinsLeft \ {p}
          /\ walking' = {p}
          /\ reachable' = reachable \union {p}
          /\ visited' = {}
          /\ frontier' = {p}
    /\ UNCHANGED <<store, pins, addVars, writers, phase, keys, gcPins, missed, victims>>

GcNextPinDirectOnly ==
    /\ phase = "marking" /\ frontier = {}
    /\ \E p \in pinsLeft :
          /\ pinsLeft' = pinsLeft \ {p}
          /\ walking' = {p}
          /\ reachable' = reachable \union {p}
          /\ visited' = {}
          /\ frontier' = IF gcPins[p] = "direct" THEN {p} ELSE {}
    /\ UNCHANGED <<store, pins, addVars, writers, phase, keys, gcPins, missed, victims>>

\* walk_dag yields the root before it reads anything, and reads nothing when
\* the pin is direct.
GcNextPin ==
    /\ phase = "marking" /\ frontier = {}
    /\ \E p \in pinsLeft :
          /\ pinsLeft' = pinsLeft \ {p}
          /\ walking' = {p}
          /\ reachable' = reachable \union {p}
          /\ visited' = {}
          /\ frontier' = IF gcPins[p] = "recursive" THEN {p} ELSE {}
    /\ UNCHANGED <<store, pins, addVars, writers, phase, keys, gcPins, missed, victims>>

\* Mutation: walk_dag looks at the head of its queue without popping it.
GcVisitUnpopped(b) ==
    /\ phase = "marking"
    /\ b \in frontier
    /\ reachable' = reachable \union {b}
    /\ visited' = visited \union {b}
    /\ frontier' = frontier \union (IF b \in store THEN Links[b] ELSE {})
    /\ missed' = IF b \in store THEN missed ELSE missed \union {b}
    /\ UNCHANGED <<store, pins, addVars, writers, phase, keys, gcPins, pinsLeft, walking, victims>>

\* blockstore.get of the block walk_dag has just yielded.  A block that is not
\* in the store, or that cannot be decoded, has no links to follow.
GcVisit(b) ==
    /\ phase = "marking"
    /\ b \in frontier
    /\ reachable' = reachable \union {b}
    /\ visited' = visited \union {b}
    /\ frontier' = (frontier \union (IF b \in store THEN Links[b] ELSE {})) \ visited'
    /\ missed' = IF b \in store THEN missed ELSE missed \union {b}
    /\ UNCHANGED <<store, pins, addVars, writers, phase, keys, gcPins, pinsLeft, walking, victims>>

\* blockstore.get raises: gc logs it, drops the rest of this walk, and goes on.
GcVisitFails(b) ==
    /\ phase = "marking"
    /\ b \in frontier \intersect Unreadable
    /\ reachable' = reachable \union {b}
    /\ frontier' = {}
    /\ missed' = missed \union {b}
    /\ UNCHANGED <<store, pins, addVars, writers, phase, keys, gcPins, pinsLeft, walking,
                   visited, victims>>

GcMarked ==
    /\ phase = "marking" /\ frontier = {} /\ pinsLeft = {}
    /\ victims' = keys \ reachable
    /\ phase' = "sweeping"
    /\ walking' = {} /\ visited' = {}
    /\ UNCHANGED <<store, pins, addVars, writers, keys, gcPins, pinsLeft, frontier, reachable,
                   missed>>

GcDelete(b) ==
    /\ phase = "sweeping"
    /\ b \in victims
    /\ store' = store \ {b}
    /\ victims' = victims \ {b}
    /\ UNCHANGED <<pins, addVars, writers, phase, keys, gcPins, pinsLeft, walkVars>>

ForgetCollection ==
    /\ phase' = "idle"
    /\ keys' = {} /\ pinsLeft' = {} /\ walking' = {} /\ frontier' = {} /\ visited' = {}
    /\ reachable' = {} /\ missed' = {} /\ victims' = {}
    /\ gcPins' = NoPins

\* Nothing is left to delete; or a store call outside the walks raises, and
\* what gc has deleted so far stays deleted.
GcEnd ==
    /\ \/ phase = "sweeping"
       \/ phase = "listing"
    /\ Lock!LeaveWrite(Collector)
    /\ ForgetCollection
    /\ UNCHANGED <<store, pins, adding>>

-----------------------------------------------------------------------------
\* The process dies, at any point; _load fills the pin table at the next start.
Restart ==
    /\ pins' \in [Blocks -> PinTypes]
    /\ \A b \in Blocks \ Pinnable : pins'[b] = "none"
    /\ adding' = [t \in Adders |-> {}]
    /\ readers' = {} /\ writers' = {}
    /\ ForgetCollection
    /\ UNCHANGED store

GcStep ==
    \/ GcListKeys \/ GcReadPins \/ GcNextPin \/ GcMarked \/ GcEnd
    \/ \E b \in Blocks : GcVisit(b) \/ GcVisitFails(b) \/ GcDelete(b)

AddStep(t) == (\E b \in Blocks : AddBlock(t, b)) \/ EndAdd(t)

Next ==
    \/ \E t \in Adders, b \in Blocks : StartAdd(t, {b}) \/ StartAdd(t, Reach[b])
    \/ \E t \in Adders : AddStep(t)
    \/ \E b \in Blocks : PutUnlocked(b) \/ RemoveNode(b) \/ RemovePin(b)
    \/ \E b \in Blocks, type \in {"direct", "recursive"} : AddPin(b, type)
    \/ GcStart
    \/ GcStep
    \/ Restart

Spec == Init /\ [][Next]_vars

\* A store call returns or raises; nobody is obliged to start anything.
FairSpec == Spec /\ WF_vars(GcStep) /\ \A t \in Adders : WF_vars(AddStep(t))
-----------------------------------------------------------------------------
(* What a collection promises                                              *)

\* A collection never deletes a block protected by a pin it has read, as long as
\* its walks found every block the pin protects: neither the order of the
\* pins, nor blocks shared by several of them, nor the unlocked puts, removals,
\* pins and unpins that happen meanwhile make it forget one.
SparesPinned ==
    phase = "sweeping" =>
        \A p \in Blocks : Protects(gcPins, p) \intersect missed = {} =>
                            Protects(gcPins, p) \intersect victims = {}

\* It keeps nothing else: what it marks is protected by some pin it has read, so
\* a direct pin does not keep the blocks below its own.
MarksOnlyPinned == reachable \subseteq UNION {Protects(gcPins, p) : p \in Blocks}

\* While an add is under way no block of any add disappears unless somebody
\* calls remove_node: "a block must not be deleted while it is being written".
StoreGrowsDuringAdd ==
    [][readers # {} => store \subseteq store' \/ \E b \in Blocks : RemoveNode(b)]_vars

\* gc ends and lets the adds in again, whatever the store does meanwhile.
GcEnds == phase # "idle" ~> phase = "idle"

-----------------------------------------------------------------------------
(* Why a collection keeps its promise                                      *)

\* A pin is settled once its walk has ended.
Settled(p) == gcPins[p] # "none" /\ p \notin pinsLeft /\ ~(p \in walking /\ frontier # {})

SettledMarked ==
    \A p \in Blocks : Settled(p) /\ Protects(gcPins, p) \intersect missed = {} =>
                        Protects(gcPins, p) \subseteq reachable

\* A walk under way stays inside its pin's DAG and has not lost track of any part
\* of it: the links of every block it found are visited or queued.
WalkOnTrack ==
    frontier # {} =>
        \E p \in Blocks :
            /\ walking = {p} /\ gcPins[p] = "recursive" /\ p \notin pinsLeft
            /\ p \in visited \union frontier
            /\ visited \union frontier \subseteq Reach[p]
            /\ visited \subseteq reachable
            /\ \A b \in visited \ missed : Links[b] \subseteq visited \union frontier

PhaseOrder ==
    /\ phase # "sweeping" => victims = {}
    /\ phase = "sweeping" => pinsLeft = {} /\ frontier = {} /\ victims \intersect reachable = {}
    /\ phase \notin {"marking", "sweeping"} =>
          /\ gcPins = NoPins /\ frontier = {} /\ walking = {} /\ visited = {} /\ reachable = {}
          /\ missed = {} /\ pinsLeft = {}
    /\ \A p \in pinsLeft : gcPins[p] # "none"
    /\ phase # "idle" <=> writers = {Collector}
    /\ readers = {} \/ writers = {}

IInv ==
    /\ TypeOK
    /\ PhaseOrder
    /\ WalkOnTrack
    /\ SettledMarked
    /\ MarksOnlyPinned
=============================================================================
