-------------------------- MODULE MCConnectionTracker --------------------------
(* Two connections to a peer p and one to q.  The streams s1 and s2, of one
   connection, can follow one another at the same address; s3 is on the other
   connection of the peer. *)
EXTENDS ConnectionTracker, TLC

CONSTANTS p, q, c1, c2, c3, s1, s2, s3, a, b

MCPeers == {p, q}
MCConns == {c1, c2, c3}
MCStreams == {s1, s2, s3}
MCAddresses == {a, b}
MCPeerOf == (c1 :> p) @@ (c2 :> p) @@ (c3 :> q)
MCConnOf == (s1 :> c1) @@ (s2 :> c1) @@ (s3 :> c2)
MCAddressOf == (s1 :> a) @@ (s2 :> a) @@ (s3 :> b)
=============================================================================
