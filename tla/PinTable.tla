------------------------------- MODULE PinTable -------------------------------
(***************************************************************************)
(* What the file of the pins promises: it always holds one whole table,    *)
(* the one before a change or the one after it.  A change is made in       *)
(* memory and committed, or never committed; a restart has the committed   *)
(* table, or, if that cannot be read, an empty one; a power failure may    *)
(* undo commits the disk has not settled yet.                              *)
(***************************************************************************)
CONSTANTS Cids

Kinds == {"none", "direct", "recursive"}
Tables == [Cids -> Kinds]
NoPins == [c \in Cids |-> "none"]

VARIABLES
    memory,     \* the table the program works with
    table,      \* the table in the file
    durable     \* tables a power failure may leave in the file

vars == <<memory, table, durable>>

Init == memory = NoPins /\ table \in Tables /\ durable = {table}

Change ==
    /\ \E c \in Cids, k \in Kinds : memory' = [memory EXCEPT ![c] = k]
    /\ UNCHANGED <<table, durable>>

Commit ==
    /\ table' = memory
    /\ durable' = durable \cup {memory}
    /\ UNCHANGED memory

Settle == durable' = {table} /\ UNCHANGED <<memory, table>>

(* The program has ended, and reads the file when it is back, or cannot. *)
Load ==
    /\ memory' \in {table, NoPins}
    /\ UNCHANGED <<table, durable>>

PowerFailure ==
    /\ table' \in durable /\ durable' = {table'}
    /\ memory' = NoPins

Next == Change \/ Commit \/ Settle \/ Load \/ PowerFailure

Spec == Init /\ [][Next]_vars
=============================================================================
