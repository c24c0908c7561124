---------------------------- MODULE TrackerReports ----------------------------
(***************************************************************************)
(* What ConnectionStatsTracker (connection_tracker.py) reports: its        *)
(* streams by direction and by protocol, and its connections by transport  *)
(* and with the streams they served.  The module adds that data to         *)
(* ConnectionTracker: every handler of it is taken whole, with the further *)
(* assignments it makes.                                                   *)
(*                                                                         *)
(* A stream's protocol and direction are known only some time after its    *)
(* opened_stream event; records are brought up to date when they are next  *)
(* looked at, and the counts with them.  The metadata of a connection is   *)
(* filed under the addresses of two objects, which the allocator may use   *)
(* again for another connection whose end was never reported.              *)
(***************************************************************************)
EXTENDS ConnectionTracker, Functions

CONSTANTS
    Directions, DirectionOf,  \* "outbound" and "inbound"; that of a stream
    Protocols, ProtocolOf,    \* the protocols; the one a stream negotiates
    UnknownProtocol,
    Ids,            \* addresses of connection objects
    ObjectOf,       \* id(conn)
    MuxedOf,        \* id(conn.muxed_conn)
    LinkOf,         \* what a connection is made of
    NoConn,
    MaxMeta,        \* entries of _conn_meta beyond which old ones are dropped
    MayBeUnheard,   \* bound: connections and streams whose opening may go unreported,
    MayBeSilent,    \* bound: connections whose end may go unreported
    KnownAtOnce     \* streams that have a protocol and a direction from the first

Transports == {"quic-v1", "websocket", "tcp", "unknown"}

ASSUME ReportsAssumption ==
    /\ DirectionOf \in [Streams -> Directions] /\ ProtocolOf \in [Streams -> Protocols]
    /\ IsFiniteSet(Directions) /\ IsFiniteSet(Protocols)
    /\ UnknownProtocol \notin Protocols /\ NoConn \notin Conns
    /\ ObjectOf \in [Conns -> Ids] /\ MuxedOf \in [Conns -> Ids]
    /\ LinkOf \in [Conns -> [muxer : {"QUIC", "Yamux", "Mplex", "other"}, raw : Transports,
                             addr : {"/quic", "/ws", "/tcp/", "none"}]]
    /\ MaxMeta \in Nat /\ MayBeUnheard \subseteq Conns \cup Streams /\ MayBeSilent \subseteq Conns
    /\ KnownAtOnce \subseteq Streams

VARIABLES
    (* libp2p *)
    negotiated,     \* streams whose protocol can be read
    tagged,         \* streams whose direction can be read
    unheard,        \* connections no `connected' event is given of
    silent,         \* connections no `disconnected' event will be given of
    (* the fields of the records of self.streams *)
    protocol,       \* records with a protocol
    direction,      \* records with a direction
    counted_in_proto_total,
    (* PeerStreamStats, and the totals of the tracker by direction *)
    by_protocol, open_towards,      \* per peer
    total_opened_towards, total_closed_towards,
    total_streams_by_protocol,
    (* connections *)
    conn_meta,      \* per id: the connection whose metadata is filed there
    streams_served, \* per connection: the streams its metadata has counted
    peer_transport, \* per peer: PeerConnectionStats.transport
    connects, disconnects,      \* IPFS_SWARM_[DIS]CONNECTS_TOTAL per transport
    reported,       \* per connection: whose metadata its disconnection gave
    (* history *)
    dropped         \* connections that lost metadata to the capacity

events == <<negotiated, tagged, unheard, silent>>
fields == <<protocol, direction, counted_in_proto_total>>
tallies == <<by_protocol, open_towards, total_opened_towards,
             total_closed_towards, total_streams_by_protocol>>
meta == <<conn_meta, streams_served, peer_transport, connects, disconnects, reported, dropped>>
reportVars == <<vars, events, fields, tallies, meta>>

Buckets == Protocols \cup {UnknownProtocol}
Towards(S, d) == {s \in S : DirectionOf[s] = d}
Speaking(S, b) == {s \in S : ProtocolOf[s] = b}
Ids2(c) == {ObjectOf[c], MuxedOf[c]}

-----------------------------------------------------------------------------
(* _extract_conn_details: the transport, from the class of the multiplexer,
   the class of the raw connection, and the address when there is one. *)
TransportOfParts(link) ==
    CASE link.muxer = "QUIC" -> "quic-v1"
      [] link.muxer \in {"Yamux", "Mplex"} -> "tcp"
      [] link.muxer = "other" /\ link.raw \in Transports -> link.raw

Transport(c) ==
    LET link == LinkOf[c]
    IN  CASE link.addr = "/quic" -> "quic-v1"
          [] link.addr = "/ws" -> "websocket"
          [] link.addr = "/tcp/" /\ TransportOfParts(link) = "unknown" -> "tcp"
          [] OTHER -> TransportOfParts(link)

ReportsInit ==
    /\ Init
    /\ negotiated = KnownAtOnce /\ tagged = KnownAtOnce /\ unheard = {} /\ silent = {}
    /\ protocol = {} /\ direction = {} /\ counted_in_proto_total = {}
    /\ by_protocol = [p \in Peers |-> [b \in Buckets |-> 0]]
    /\ open_towards = [p \in Peers |-> [d \in Directions |-> 0]]
    /\ total_opened_towards = [d \in Directions |-> 0]
    /\ total_closed_towards = [d \in Directions |-> 0]
    /\ total_streams_by_protocol = [b \in Protocols |-> 0]
    /\ conn_meta = [i \in Ids |-> NoConn]
    /\ streams_served = [c \in Conns |-> {}]
    /\ peer_transport = [p \in Peers |-> "unknown"]
    /\ connects = [t \in Transports |-> 0]
    /\ disconnects = [t \in Transports |-> 0]
    /\ reported = [c \in Conns |-> NoConn]
    /\ dropped = {}

-----------------------------------------------------------------------------
(* libp2p, external. *)

Negotiates(s) ==
    /\ net[s] = "open" /\ s \notin negotiated
    /\ negotiated' = negotiated \cup {s}
    /\ UNCHANGED <<vars, tagged, unheard, silent, fields, tallies, meta>>

Tagged(s) ==
    /\ net[s] = "open" /\ s \notin tagged
    /\ tagged' = tagged \cup {s}
    /\ UNCHANGED <<vars, negotiated, unheard, silent, fields, tallies, meta>>

(* A connection may have an object's address when no object of another has it:
   that one was never made, or is over with every stream on it. *)
AddressFree(c) ==
    \A o \in Conns \ {c} : Ids2(o) \cap Ids2(c) # {} =>
        \/ conn[o] = "new"
        \/ /\ conn[o] = "done" \/ o \in silent
           /\ \A s \in Streams : ConnOf[s] = o => net[s] \in {"new", "freed"}

(* A connection of before the tracker was registered: no event tells of it. *)
Unheard(c) ==
    /\ c \in MayBeUnheard /\ conn[c] = "new" /\ AddressFree(c)
    /\ conn' = [conn EXCEPT ![c] = "up"]
    /\ unheard' = unheard \cup {c}
    /\ UNCHANGED <<net, event, closeEvents, Tracker, negotiated, tagged, silent, fields, tallies, meta>>

(* The end of a connection that is never reported. *)
Silent(c) ==
    /\ c \in MayBeSilent \ silent /\ conn[c] = "lost"
    /\ silent' = silent \cup {c}
    /\ UNCHANGED <<vars, negotiated, tagged, unheard, fields, tallies, meta>>

-----------------------------------------------------------------------------
(* Streams. *)

(* A field of a record is filled in while the weak reference gives the stream. *)
Learns(R, known, readable) == {s \in R \ known : s \in readable /\ net[s] # "freed"}

(* Mutation: the stream leaves no bucket when it gets one. *)
MovesNone(p, Q) == 0

(* What leaves the bucket of streams without a protocol. *)
Moves(p, Q) == Cardinality(OnPeer(Q, p))

(* Records not yet in the totals by protocol. *)
Uncounted(R) == R \ counted_in_proto_total

(* One handler's work on the fields and the counts: the streams of N get a
   record; those of R are brought up to date (_refresh_record_metadata), their
   peer's counts only if it had an entry (H); the records of C are closed; the
   counts of the peers of E are dropped at the end. *)
Tally(N, R, H, C, E) ==
    LET D == Learns(R, direction, tagged)
        Q == Learns(R, protocol, negotiated)
        directed == direction \cup D \cup (N \cap tagged)
        named == protocol \cup Q \cup (N \cap negotiated)
        opened == (D \cap H) \cup (N \cap tagged)
        closed == C \cap directed
        totalled == Uncounted(R) \cap named
    IN  /\ direction' = directed \cap streams'
        /\ protocol' = named \cap streams'
        /\ counted_in_proto_total' = (counted_in_proto_total \cup totalled) \cap streams'
        /\ total_opened_towards' = [d \in Directions |->
               total_opened_towards[d] + Cardinality(Towards(opened, d))]
        /\ total_closed_towards' = [d \in Directions |->
               total_closed_towards[d] + Cardinality(Towards(closed, d))]
        /\ open_towards' = [p \in Peers |-> [d \in Directions |->
               IF p \in E THEN 0
               ELSE Minus(open_towards[p][d] + Cardinality(Towards(OnPeer(opened, p), d)),
                          Cardinality(Towards(OnPeer(closed, p), d)))]]
        /\ by_protocol' = [p \in Peers |-> [b \in Buckets |->
               IF p \in E THEN 0
               ELSE IF b = UnknownProtocol
               THEN Minus(by_protocol[p][b], Moves(p, Q \cap H))
                    + Cardinality(OnPeer(N \ negotiated, p))
               ELSE by_protocol[p][b]
                    + Cardinality(Speaking(OnPeer((Q \cap H) \cup (N \cap negotiated), p), b))]]
        /\ total_streams_by_protocol' = [b \in Protocols |->
               total_streams_by_protocol[b] + Cardinality(Speaking(totalled, b))]

(* The records whose peer has an entry, and is looked up there.  In a sweep the
   closing of one record may make the entry the next one finds. *)
HasEntry(R) == {s \in R : Peer(s) \in peer_stream_stats}

(* The stream is added to the metadata of its connection, filed under the
   address of its muxed connection. *)
Serve(s) ==
    LET m == conn_meta[MuxedOf[ConnOf[s]]]
    IN  streams_served' = [c \in Conns |->
            IF c = m THEN streams_served[c] \cup {s} ELSE streams_served[c]]

ReportsOpenedStream(s) ==
    /\ OpenedStream(s)
    /\ Tally({s}, {}, {}, {}, {})
    /\ Serve(s)
    /\ UNCHANGED <<events, conn_meta, peer_transport, connects, disconnects, reported, dropped>>

(* closed_stream brings the record it finds up to date before it counts it. *)
ReportsClosedStream(s) ==
    LET R == {r \in streams : StreamKey(r) = StreamKey(s)}
    IN  /\ ClosedStream(s)
        /\ Tally({}, R, HasEntry(R), streams \ streams', {})
        /\ UNCHANGED <<events, meta>>

(* check_for_leaks: every record is brought up to date, then looked at.  The
   bound here is that none is older than the threshold: ConnectionTracker has
   the flags, and nothing in this module depends on them. *)
ReportsCheckForLeaks ==
    /\ CheckForLeaks /\ suspected' = {}
    /\ \E late \in SUBSET {s \in streams : \E r \in streams \ streams' :
                               r # s /\ Peer(r) = Peer(s) /\ r \notin HasEntry(streams)} :
          Tally({}, streams, HasEntry(streams) \cup late, streams \ streams', {})
    /\ UNCHANGED <<events, meta>>

(* stream_stats_snapshot, for the HTTP API and for the metrics. *)
Snapshot ==
    /\ Learns(streams, direction, tagged) \cup Learns(streams, protocol, negotiated)
           \cup ((streams \cap protocol) \ counted_in_proto_total) # {}
    /\ UNCHANGED <<vars, events, meta>>
    /\ Tally({}, streams, HasEntry(streams), {}, {})

-----------------------------------------------------------------------------
(* Connections. *)

(* Mutation: metadata found at the address stays. *)
FileIfNone(c) ==
    conn_meta' = [i \in Ids |-> IF i \in Ids2(c) /\ conn_meta[i] = NoConn THEN c ELSE conn_meta[i]]

(* The metadata of a connection is filed under both of its addresses. *)
File(c) == conn_meta' = [i \in Ids |-> IF i \in Ids2(c) THEN c ELSE conn_meta[i]]

ReportsConnected(c) ==
    /\ AddressFree(c)
    /\ Connected(c)
    /\ File(c)
    /\ peer_transport' = [peer_transport EXCEPT ![PeerOf[c]] =
           IF Transport(c) = "unknown" THEN @ ELSE Transport(c)]
    /\ connects' = [connects EXCEPT ![Transport(c)] = @ + 1]
    /\ UNCHANGED <<events, fields, tallies, streams_served, disconnects, reported, dropped>>

(* What is filed at an address of the connection, unless it is another peer's. *)
Filed(c, i) == conn_meta[i] # NoConn /\ PeerOf[conn_meta[i]] = PeerOf[c]

(* _enforce_stats_capacity: beyond the capacity of _conn_meta, entries of
   connections older than 600 s go, alive or not.  Which are, is left open. *)
MetaEvictions(filed) ==
    LET keys == {i \in Ids : filed[i] # NoConn}
    IN  IF Cardinality(stats) > MaxStats /\ Cardinality(keys) > MaxMeta
        THEN SUBSET keys ELSE {{}}

(* The transport a disconnection is counted under: that of the metadata, or the
   last one known of the peer. *)
CountedTransport(c) ==
    IF Filed(c, ObjectOf[c]) THEN Transport(conn_meta[ObjectOf[c]])
    ELSE IF PeerOf[c] \in stats THEN peer_transport[PeerOf[c]] ELSE "unknown"

ReportsDisconnected(c) ==
    LET popped == [i \in Ids |-> IF i \in Ids2(c) /\ Filed(c, i) THEN NoConn ELSE conn_meta[i]]
    IN  /\ c \notin silent
        /\ Disconnected(c)
        /\ Tally({}, {}, {}, streams \ streams', stats \ stats')
        /\ reported' = [reported EXCEPT ![c] =
               IF Filed(c, ObjectOf[c]) THEN conn_meta[ObjectOf[c]] ELSE NoConn]
        /\ disconnects' = [disconnects EXCEPT ![CountedTransport(c)] = @ + 1]
        /\ peer_transport' = [p \in Peers |-> IF p \in stats' THEN peer_transport[p] ELSE "unknown"]
        /\ \E old \in MetaEvictions(popped) :
              /\ conn_meta' = [i \in Ids |-> IF i \in old THEN NoConn ELSE popped[i]]
              /\ dropped' = dropped \cup {popped[i] : i \in old}
        /\ UNCHANGED <<events, streams_served, connects>>

Libp2pEvents ==
    \/ \E s \in Streams : StreamOpens(s) \/ StreamCloses(s) \/ StreamFreed(s)
    \/ \E s \in Streams \cap MayBeUnheard : OpenedLost(s)
    \/ \E c \in Conns : ConnectionLost(c)

ReportsNext ==
    \/ Libp2pEvents /\ UNCHANGED <<events, fields, tallies, meta>>
    \/ \E s \in Streams : Negotiates(s) \/ Tagged(s)
    \/ \E c \in Conns : Unheard(c) \/ Silent(c) \/ ReportsConnected(c) \/ ReportsDisconnected(c)
    \/ \E s \in Streams : ReportsOpenedStream(s) \/ ReportsClosedStream(s)
    \/ ReportsCheckForLeaks
    \/ Snapshot

ReportsSpec == ReportsInit /\ [][ReportsNext]_reportVars

-----------------------------------------------------------------------------
(* The reports. *)

(* stream_stats_snapshot, when the records have been brought up to date. *)
StreamReport ==
    [active |-> [d \in Directions |-> Cardinality(Towards(direction, d))],
     total_opened |-> total_opened_towards,
     total_closed |-> total_closed_towards,
     per_peer |-> [p \in peer_stream_stats |->
                     [total_opened |-> total_opened[p],
                      active |-> open_towards[p], by_protocol |-> by_protocol[p]]],
     total_streams_by_protocol |-> total_streams_by_protocol]

(* connection_stats_snapshot: the connections of the swarm's table by transport,
   and those whose age is known. *)
ConnectionReport ==
    [by_transport |-> [t \in Transports |->
                         Cardinality({c \in Conns : conn[c] = "up" /\ Transport(c) = t})],
     aged |-> {c \in Conns : \E i \in Ids : conn_meta[i] = c}]

(* list_connected_peers: every connected peer, with the connections it takes the
   age from (the oldest one filed of the peer) and the streams counted of it. *)
SwarmPeers ==
    [p \in {PeerOf[c] : c \in {o \in Conns : conn[o] = "up"}} |->
        [filed |-> {c \in ConnectionReport.aged : PeerOf[c] = p},
         streams_total |-> IF p \in peer_stream_stats THEN current_open[p] ELSE 0,
         streams |-> [d \in Directions |->
                        IF p \in peer_stream_stats THEN open_towards[p][d] ELSE 0]]]

(* The peers it logs as zombies: connected, and nothing is filed of them. *)
Zombies == {p \in DOMAIN SwarmPeers : SwarmPeers[p].filed = {}}

-----------------------------------------------------------------------------
(* The report of stream_stats_snapshot agrees with itself.  Of the peers whose
   counts no event has put out of step, what is open towards a direction is what
   the records say; each opened stream is in one bucket of by_protocol; and the
   streams listed of a connected peer are those of either direction and those of
   none yet.  When there is no other peer, what was opened and not closed is what
   is active.  No stream is in the totals by protocol twice. *)
StreamReportAgrees ==
    LET report == StreamReport
    IN  /\ \A p \in peer_stream_stats \ inexact :
              LET ofPeer == report.per_peer[p]
              IN  /\ \A d \in Directions :
                        ofPeer.active[d] = Cardinality(Towards(OnPeer(direction, p), d))
                  /\ ofPeer.total_opened = SumFunction(ofPeer.by_protocol)
        /\ \A p \in DOMAIN SwarmPeers \ inexact :
              LET row == SwarmPeers[p]
              IN  row.streams_total =
                      SumFunction(row.streams) + Cardinality(OnPeer(streams \ direction, p))
        /\ inexact = {} => \A d \in Directions :
              report.total_opened[d] - report.total_closed[d] = report.active[d]
        /\ \A b \in Protocols :
              report.total_streams_by_protocol[b] <=
                  Cardinality(Speaking({s \in Streams : event[s] = "given"}, b))

(* A connection that is up and was announced has its metadata, unless that was
   dropped for the capacity: no peer is listed as a zombie
   (swarm_service.py:63), and no connection without an age, because an address
   was used again.  A disconnection is reported with the metadata of that
   connection, or with none; only one never announced can be given another's, of
   the same peer; and the streams it is said to have served are its own.
   Nothing stays filed of a connection whose end was reported. *)
MetadataIsOwn ==
    /\ \A c \in Conns :
          /\ conn[c] = "up" /\ c \notin unheard \cup dropped =>
                 conn_meta[ObjectOf[c]] = c /\ conn_meta[MuxedOf[c]] = c
          /\ reported[c] # NoConn =>
                 /\ PeerOf[reported[c]] = PeerOf[c]
                 /\ c \notin unheard =>
                        reported[c] = c /\ \A s \in streams_served[c] : ConnOf[s] = c
    /\ Zombies \subseteq {PeerOf[c] : c \in unheard \cup dropped}
    /\ ConnectionReport.aged \subseteq {c \in Conns : conn[c] \in {"up", "lost"}} \cup silent

(* The connections counted as made over a transport, less those counted as
   ended, are those connection_stats_snapshot finds and those lost and not yet
   reported, as long as every connection had its metadata to its end. *)
TransportsBalance ==
    unheard = {} /\ dropped = {} =>
        LET report == ConnectionReport
            lost == {c \in Conns : conn[c] = "lost"}
        IN  \A t \in Transports :
                connects[t] - disconnects[t] =
                    report.by_transport[t] + Cardinality({c \in lost : Transport(c) = t})

(* What is reported of the connections is theirs, and adds up. *)
ConnectionReportAgrees == MetadataIsOwn /\ TransportsBalance
=============================================================================
