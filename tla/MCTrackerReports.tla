--------------------------- MODULE MCTrackerReports ---------------------------
(* Two connections of a peer p, by QUIC and by Yamux over TCP, and two
   streams on the first, one outbound and one inbound.  A connection of another
   peer q, by a websocket, can follow c1 at its addresses. *)
EXTENDS TrackerReports, TLC

CONSTANTS p, q, c1, c2, c3, s1, s2, a, b, i1, i2, i3, i4, kad, ping

MCPeers == {p, q}
MCConns == {c1, c2, c3}
MCStreams == {s1, s2}
MCAddresses == {a, b}
MCPeerOf == (c1 :> p) @@ (c2 :> p) @@ (c3 :> q)
MCConnOf == (s1 :> c1) @@ (s2 :> c1)
MCAddressOf == (s1 :> a) @@ (s2 :> b)
MCDirections == {"outbound", "inbound"}
MCDirectionOf == (s1 :> "outbound") @@ (s2 :> "inbound")
MCProtocols == {kad, ping}
MCProtocolOf == (s1 :> kad) @@ (s2 :> ping)
MCIds == {i1, i2, i3, i4}
MCObjectOf == (c1 :> i1) @@ (c2 :> i3) @@ (c3 :> i1)
MCMuxedOf == (c1 :> i2) @@ (c2 :> i4) @@ (c3 :> i2)

(* Bound: at most four of the three connections and two streams are ever made
   in one behaviour. *)
FewObjects ==
    Cardinality({c \in Conns : conn[c] # "new"}) + Cardinality({s \in Streams : net[s] # "new"}) <= 4

MCLinkOf ==
    (c1 :> [muxer |-> "QUIC", raw |-> "unknown", addr |-> "/quic"]) @@
    (c2 :> [muxer |-> "Yamux", raw |-> "tcp", addr |-> "/tcp/"]) @@
    (c3 :> [muxer |-> "Yamux", raw |-> "websocket", addr |-> "/ws"])
=============================================================================
