--------------------------- MODULE MCContentStore ---------------------------
(***************************************************************************)
(* ContentStore on a chain of three blocks.  Users may pin `top`, and      *)
(* `mid`, which is at once a pin of its own and an interior block of       *)
(* top's DAG: the two walks overlap, and a direct pin of mid protects less *)
(* than top does.                                                          *)
(***************************************************************************)
EXTENDS ContentStore

CONSTANTS top, mid, leaf

MCBlocks == {top, mid, leaf}
MCLinks == [b \in MCBlocks |-> CASE b = top -> {mid} [] b = mid -> {leaf} [] OTHER -> {}]
=============================================================================
