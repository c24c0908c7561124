---------------------------- MODULE MCTransfers ----------------------------
EXTENDS Transfers, TLC

CONSTANTS t1, t2, d, f, g, n, x, y

\* A directory of a file and a dag-cbor node; the file is two levels deep, repeats
\* its first block, and has a raw leaf and a dag-pb one.  The node has a bad link
\* and a good one.
DagLinks == d :> <<f, n>> @@ f :> <<g, x>> @@ g :> <<x, y>> @@ n :> <<y>> @@ [b \in {x, y} |-> <<>>]
DagKind == d :> "dir" @@ [b \in {f, g, y} |-> "file"] @@ n :> "node" @@ x :> "raw"
DagSize == [b \in Cids |-> IF b = x THEN 2 ELSE 1]

Right(blocks) == [i \in DOMAIN blocks |-> [cid |-> blocks[i], data |-> "right"]]

\* Complete with two roots; without a child; with a damaged block; cut short;
\* not a CAR file; empty.
Cars == {
    CarFile("ok", <<x, f>>, Right(<<x, y, g, f>>), "clean"),
    CarFile("ok", <<y, f>>, Right(<<y, f, g>>), "clean"),
    CarFile("ok", <<f>>, <<[cid |-> x, data |-> "wrong"]>>, "clean"),
    CarFile("ok", <<f>>, Right(<<f>>), "torn"),
    CarFile("bad", <<>>, <<>>, "clean"),
    CarFile("none", <<>>, <<>>, "clean")}

BatchRequests == {<<x, f>>}

Symmetry == Permutations(Tasks)
=============================================================================
