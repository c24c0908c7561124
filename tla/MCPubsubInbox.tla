---------------------------- MODULE MCPubsubInbox ----------------------------
(* PubsubInbox for TLC: requests are interchangeable. *)
EXTENDS PubsubInbox

RequestSymmetry == Permutations(Requests)
=============================================================================
