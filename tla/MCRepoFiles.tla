----------------------------- MODULE MCRepoFiles -----------------------------
(* RepoFiles for TLC: CIDs are interchangeable. *)
EXTENDS RepoFiles, TLC

CidSymmetry == Permutations(Cids)
=============================================================================
