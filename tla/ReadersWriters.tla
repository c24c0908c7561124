--------------------------- MODULE ReadersWriters ---------------------------
(***************************************************************************)
(* What RWLock (peer/ipld.py) promises its callers, with none of its       *)
(* machinery: any number of readers (add_file, add_node) may be inside     *)
(* together, a writer (gc) is inside alone.  GcLock is shown to implement  *)
(* this module; ContentStore uses it in place of the lock's machinery.     *)
(***************************************************************************)
CONSTANTS Readers,      \* tasks that take read_lock()
          Writers       \* tasks that take write_lock()

VARIABLES readers,      \* readers between the two ends of `async with read_lock()`
          writers       \* writers between the two ends of `async with write_lock()`

lockVars == <<readers, writers>>

Init == readers = {} /\ writers = {}

EnterRead(r) ==
    /\ r \notin readers
    /\ writers = {}
    /\ readers' = readers \union {r}
    /\ UNCHANGED writers

LeaveRead(r) ==
    /\ r \in readers
    /\ readers' = readers \ {r}
    /\ UNCHANGED writers

EnterWrite(w) ==
    /\ readers = {}
    /\ writers = {}
    /\ writers' = {w}
    /\ UNCHANGED readers

LeaveWrite(w) ==
    /\ w \in writers
    /\ writers' = writers \ {w}
    /\ UNCHANGED readers

Next ==
    \/ \E r \in Readers : EnterRead(r) \/ LeaveRead(r)
    \/ \E w \in Writers : EnterWrite(w) \/ LeaveWrite(w)

Spec == Init /\ [][Next]_lockVars
=============================================================================
