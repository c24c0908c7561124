--------------------------- MODULE ConnectionTracker ---------------------------
(***************************************************************************)
(* ConnectionStatsTracker (connection_tracker.py): what the node believes  *)
(* about its connections and open streams, kept up to date by the events   *)
(* libp2p calls it back with and by a sweep of the leak monitor.           *)
(*                                                                         *)
(* Every handler runs from start to end without an await and is one        *)
(* action.  What is hard is the order and the number of the events: an     *)
(* opened_stream may be late or lost, a closed_stream may be late,         *)
(* missing or repeated, a connection may vanish without closing its        *)
(* streams, and a stream's key is made of addresses of objects, which the  *)
(* allocator uses again when the objects are gone.                         *)
(***************************************************************************)
EXTENDS Integers, FiniteSets

CONSTANTS
    Peers, Conns, Streams,
    PeerOf,          \* the remote peer of a connection
    ConnOf,          \* the connection of a stream
    Addresses,
    AddressOf,       \* the addresses of a stream's muxed connection and muxed
                     \* stream; two streams that share them never exist at once
    MaxFinalized,    \* _max_finalized_keys
    MaxStats,        \* how many peers are kept before some are evicted ...
    KeepStats,       \* ... and how many then stay
    MaxCloseEvents   \* bound: closed_stream events of one stream

ASSUME TrackerAssumption ==
    /\ IsFiniteSet(Streams) /\ IsFiniteSet(Conns) /\ IsFiniteSet(Peers)
    /\ PeerOf \in [Conns -> Peers]
    /\ ConnOf \in [Streams -> Conns]
    /\ AddressOf \in [Streams -> Addresses]
    /\ {MaxFinalized, MaxStats, KeepStats, MaxCloseEvents} \subseteq Nat
    /\ KeepStats <= MaxStats

VARIABLES
    (* libp2p: what exists, and which events are still to come *)
    conn,           \* per connection: in the swarm's table, or out of it
    net,            \* per stream: the life of its object
    event,          \* per stream: its opened_stream event
    closeEvents,    \* per stream: how many closed_stream events were given
    (* the tracker *)
    stats,               \* peers with an entry in self.stats
    current_connections, \* per peer
    streams,             \* streams that have a record in self.streams
    suspected,           \* those whose record is flagged as a leak
    peer_stream_stats,   \* peers with an entry in self.peer_stream_stats
    total_opened, total_closed, current_open,   \* per peer
    finalized,           \* the keys in self._finalized_keys
    (* history *)
    inexact         \* peers whose counts an event has put out of step

libp2p == <<conn, net, event, closeEvents>>
counts == <<peer_stream_stats, total_opened, total_closed, current_open>>
vars == <<conn, net, event, closeEvents, stats, current_connections, streams, suspected,
          peer_stream_stats, total_opened, total_closed, current_open, finalized, inexact>>

Peer(s) == PeerOf[ConnOf[s]]

OnPeer(S, p) == {s \in S : Peer(s) = p}

(* _stream_key *)
StreamKey(s) == AddressOf[s]

ConnStates == {"new", "up", "lost", "done"}
NetStates == {"new", "open", "closed", "freed"}
EventStates == {"due", "given", "lost"}

TypeOK ==
    /\ conn \in [Conns -> ConnStates]
    /\ net \in [Streams -> NetStates]
    /\ event \in [Streams -> EventStates]
    /\ closeEvents \in [Streams -> 0..MaxCloseEvents]
    /\ stats \subseteq Peers
    /\ current_connections \in [Peers -> Nat]
    /\ streams \subseteq Streams
    /\ suspected \subseteq streams
    /\ peer_stream_stats \subseteq Peers
    /\ total_opened \in [Peers -> Nat]
    /\ total_closed \in [Peers -> Nat]
    /\ current_open \in [Peers -> Nat]
    /\ finalized \subseteq Addresses
    /\ Cardinality(finalized) <= MaxFinalized
    /\ inexact \subseteq Peers

Init ==
    /\ conn = [c \in Conns |-> "new"]
    /\ net = [s \in Streams |-> "new"]
    /\ event = [s \in Streams |-> "due"]
    /\ closeEvents = [s \in Streams |-> 0]
    /\ stats = {} /\ peer_stream_stats = {}
    /\ streams = {} /\ suspected = {}
    /\ current_connections = [p \in Peers |-> 0]
    /\ total_opened = [p \in Peers |-> 0]
    /\ total_closed = [p \in Peers |-> 0]
    /\ current_open = [p \in Peers |-> 0]
    /\ finalized = {}
    /\ inexact = {}

(* max(0, m - n) *)
Minus(m, n) == IF n > m THEN 0 ELSE m - n

-----------------------------------------------------------------------------
(* libp2p, external: what happens to the objects. *)

Tracker == <<stats, current_connections, streams, suspected, counts, finalized, inexact>>

(* A stream is opened on a connection of the table, at an address that is free. *)
StreamOpens(s) ==
    /\ net[s] = "new" /\ conn[ConnOf[s]] = "up"
    /\ \A r \in Streams : AddressOf[r] = AddressOf[s] => net[r] \in {"new", "freed"}
    /\ net' = [net EXCEPT ![s] = "open"]
    /\ UNCHANGED <<conn, event, closeEvents, Tracker>>

(* A stream closes or is reset; its events may come later, or not at all. *)
StreamCloses(s) ==
    /\ net[s] = "open"
    /\ net' = [net EXCEPT ![s] = "closed"]
    /\ UNCHANGED <<conn, event, closeEvents, Tracker>>

(* The last reference to a stream goes: it is closed, or its connection is
   gone.  An event still to be delivered holds a reference. *)
StreamFreed(s) ==
    /\ \/ net[s] = "closed"
       \/ net[s] = "open" /\ conn[ConnOf[s]] # "up"
    /\ event[s] # "due"
    /\ net' = [net EXCEPT ![s] = "freed"]
    /\ UNCHANGED <<conn, event, closeEvents, Tracker>>

(* The opened_stream event of a stream is never delivered, as it is of a
   stream opened before the tracker was registered. *)
OpenedLost(s) ==
    /\ net[s] \in {"open", "closed"} /\ event[s] = "due"
    /\ event' = [event EXCEPT ![s] = "lost"]
    /\ UNCHANGED <<conn, net, closeEvents, Tracker>>

(* A connection leaves the table; its streams may still look open. *)
ConnectionLost(c) ==
    /\ conn[c] = "up"
    /\ conn' = [conn EXCEPT ![c] = "lost"]
    /\ UNCHANGED <<net, event, closeEvents, Tracker>>

-----------------------------------------------------------------------------
(* The tracker. *)

(* _mark_finalized, for the keys F in turn.  Entries are forgotten after 300 s
   and, beyond the capacity, in the order in which they were entered; when and
   which, is left open.  A key that is marked again keeps its old place, so that
   it may be forgotten for another of F.  The counts of a peer are out of step from here on if a stream whose key is
   forgotten can still get an event; the peers of `others' are for other
   reasons. *)
MarkFinalized(F, others) ==
    \E forgotten \in SUBSET (finalized \cup F) :
        /\ finalized' = (finalized \cup F) \ forgotten
        /\ Cardinality(finalized') <= MaxFinalized
        /\ Cardinality(F) <= MaxFinalized =>
               forgotten \cap F \subseteq (IF F \subseteq finalized THEN {} ELSE finalized)
        /\ inexact' = inexact \cup others \cup
               {Peer(s) : s \in {r \in Streams : /\ StreamKey(r) \in forgotten
                                               /\ net[r] \in {"open", "closed"}}}

(* The counting that closed_stream and _finalize_record share: the records of
   R are closed.  E are peers evicted right after it. *)
CountClosed(R, E) ==
    /\ streams' = streams \ R
    /\ peer_stream_stats' = (peer_stream_stats \cup {Peer(s) : s \in R}) \ E
    /\ total_opened' = [p \in Peers |-> IF p \in E THEN 0 ELSE total_opened[p]]
    /\ total_closed' = [p \in Peers |->
           IF p \in E THEN 0 ELSE total_closed[p] + Cardinality(OnPeer(R, p))]
    /\ current_open' = [p \in Peers |->
           IF p \in E THEN 0 ELSE Minus(current_open[p], Cardinality(OnPeer(R, p)))]

(* Mutation: the keys of the records are not remembered. *)
FinalizeUnmarked(R, E) == CountClosed(R, E) /\ UNCHANGED <<finalized, inexact>>

(* _finalize_record, for the records of R.  An evicted peer that keeps records
   is out of step: their closing will be counted, their opening no longer is. *)
FinalizeRecords(R, E) ==
    /\ CountClosed(R, E)
    /\ MarkFinalized({StreamKey(s) : s \in R}, {p \in E : OnPeer(streams', p) # {}})

(* connected *)
Connected(c) ==
    /\ conn[c] = "new"
    /\ conn' = [conn EXCEPT ![c] = "up"]
    /\ stats' = stats \cup {PeerOf[c]}
    /\ current_connections' = [current_connections EXCEPT ![PeerOf[c]] = @ + 1]
    /\ UNCHANGED <<net, event, closeEvents, streams, suspected, counts, finalized, inexact>>

(* Mutation: the records of the peer, on whichever connection. *)
RecordOnPeer(s, c) == net[s] # "freed" /\ Peer(s) = PeerOf[c]

(* _record_on_conn: by the identity of the connection, while the weak
   reference to the stream still gives one. *)
RecordOnConn(s, c) == net[s] # "freed" /\ ConnOf[s] = c

(* _enforce_stats_capacity: the peers that are evicted, given the counts of
   connections; all without a connection, or as many as leave KeepStats. *)
Evictions(connections) ==
    LET idle == {p \in stats : connections[p] = 0}
    IN  IF Cardinality(stats) <= MaxStats THEN {{}}
        ELSE IF Cardinality(stats) - Cardinality(idle) >= KeepStats THEN {idle}
        ELSE {E \in SUBSET idle : Cardinality(stats) - Cardinality(E) = KeepStats}

(* disconnected: the connection is counted, the records on it are finalized,
   and if there are too many peers some are forgotten with all their counts. *)
Disconnected(c) ==
    /\ conn[c] = "lost"
    /\ conn' = [conn EXCEPT ![c] = "done"]
    /\ current_connections' =
           [current_connections EXCEPT ![PeerOf[c]] = IF PeerOf[c] \in stats THEN Minus(@, 1) ELSE @]
    /\ \E E \in Evictions(current_connections') :
          /\ stats' = stats \ E
          /\ FinalizeRecords({s \in streams : RecordOnConn(s, c)}, E)
    /\ suspected' = suspected \cap streams'
    /\ UNCHANGED <<net, event, closeEvents>>

(* opened_stream: a record under the stream's key, in place of any other. *)
OpenedStream(s) ==
    LET replaced == {r \in streams : StreamKey(r) = StreamKey(s)}
    IN  /\ net[s] \in {"open", "closed"} /\ event[s] = "due"
        /\ event' = [event EXCEPT ![s] = "given"]
        /\ streams' = (streams \ replaced) \cup {s}
        /\ suspected' = suspected \ replaced
        /\ peer_stream_stats' = peer_stream_stats \cup {Peer(s)}
        /\ total_opened' = [total_opened EXCEPT ![Peer(s)] = @ + 1]
        /\ current_open' = [current_open EXCEPT ![Peer(s)] = @ + 1]
        /\ inexact' = inexact \cup {Peer(r) : r \in replaced}
        /\ UNCHANGED <<conn, net, closeEvents, stats, current_connections, total_closed, finalized>>

(* A closed_stream event that finds a record under the stream's key. *)
CloseRecord(s) ==
    \E r \in streams :
        /\ StreamKey(r) = StreamKey(s)
        /\ FinalizeRecords({r}, {})
        /\ suspected' = suspected \ {r}

(* One that finds none, but the key among those finalized, is a duplicate. *)
CloseIgnored(s) ==
    /\ \A r \in streams : StreamKey(r) # StreamKey(s)
    /\ StreamKey(s) \in finalized
    /\ UNCHANGED <<streams, suspected, counts, finalized, inexact>>

(* Any other is counted all the same, on a record made up for it.  (The handler
   then raises: its last line formats the duration, which is None.) *)
CloseUnknown(s) ==
    /\ \A r \in streams : StreamKey(r) # StreamKey(s)
    /\ StreamKey(s) \notin finalized
    /\ peer_stream_stats' = peer_stream_stats \cup {Peer(s)}
    /\ total_closed' = [total_closed EXCEPT ![Peer(s)] = @ + 1]
    /\ current_open' = [current_open EXCEPT ![Peer(s)] = Minus(@, 1)]
    /\ MarkFinalized({StreamKey(s)}, IF event[s] = "lost" THEN {Peer(s)} ELSE {})
    /\ UNCHANGED <<streams, suspected, total_opened>>

(* closed_stream; libp2p may give the event more than once. *)
ClosedStream(s) ==
    /\ net[s] = "closed" /\ event[s] # "due"
    /\ closeEvents[s] < MaxCloseEvents
    /\ closeEvents' = [closeEvents EXCEPT ![s] = @ + 1]
    /\ CloseRecord(s) \/ CloseIgnored(s) \/ CloseUnknown(s)
    /\ UNCHANGED <<conn, net, event, stats, current_connections>>

(* Mutation: a record whose stream is gone altogether is not seen as dead. *)
RecordStreamClosed(s) == net[s] = "closed"

(* _record_stream_dead: the weak reference is dead or the stream says so. *)
RecordStreamDead(s) == net[s] \in {"freed", "closed"}

PeerDisconnected(s) == \A c \in Conns : PeerOf[c] = Peer(s) => conn[c] # "up"

(* Mutation: the connection is not looked for by its identity. *)
RecordPeerGone(s) == PeerDisconnected(s)

(* _record_connection_gone: the stream's connection is not in the swarm's
   table; of a stream that gives no connection any more, no connection of its
   peer is. *)
RecordConnectionGone(s) ==
    IF net[s] = "freed" THEN PeerDisconnected(s) ELSE conn[ConnOf[s]] # "up"

(* check_for_leaks: dead records are finalized, and of the others those that
   are older than the threshold are flagged; which are is left open. *)
CheckForLeaks ==
    /\ FinalizeRecords({s \in streams : RecordStreamDead(s) \/ RecordConnectionGone(s)}, {})
    /\ \E old \in SUBSET streams' : suspected' = (suspected \cap streams') \cup old
    /\ UNCHANGED <<libp2p, stats, current_connections>>

-----------------------------------------------------------------------------
Libp2p ==
    \/ \E s \in Streams : StreamOpens(s) \/ StreamCloses(s) \/ StreamFreed(s) \/ OpenedLost(s)
    \/ \E c \in Conns : ConnectionLost(c)

Next ==
    \/ Libp2p
    \/ \E c \in Conns : Connected(c) \/ Disconnected(c)
    \/ \E s \in Streams : OpenedStream(s) \/ ClosedStream(s)
    \/ CheckForLeaks

Spec == Init /\ [][Next]_vars

-----------------------------------------------------------------------------
(* The counts of a peer say what its records say: current_open is the number
   of its open records, and each stream that was counted as opened either is
   one of them or was counted as closed, once.  Duplicate, late and missing
   close events, lost connections, sweeps and evictions do not disturb that.
   What does is what puts a peer among the inexact: a record replaced by one
   at the same address (the comment at connection_tracker.py:311 excludes it),
   the close event of a stream never seen opened, a duplicate that comes after
   its key was forgotten, and the eviction of a peer that still has records. *)
CountsExact ==
    \A p \in Peers \ inexact :
        /\ current_open[p] = Cardinality(OnPeer(streams, p))
        /\ total_opened[p] = total_closed[p] + current_open[p]

(* The number of connections of a peer is that of the connections announced and
   not yet reported gone, and a peer that has one is never evicted. *)
ConnectionsExact ==
    \A p \in Peers :
        LET announced == {c \in Conns : PeerOf[c] = p /\ conn[c] \in {"up", "lost"}}
        IN  /\ current_connections[p] = Cardinality(announced)
            /\ announced # {} => p \in stats

(* A stream that is open, on a connection that is up, and whose opening was
   reported, has a record: neither the end of another connection of the peer nor
   a late event of another stream nor a sweep takes it away. *)
OpenStreamsTracked ==
    \A s \in Streams :
        net[s] = "open" /\ conn[ConnOf[s]] = "up" /\ event[s] = "given" => s \in streams

(* Only a stream that is open on a connection that is up is ever flagged as a
   leak (connection_tracker.py:1140, no false leaks). *)
FlaggedStreamsOpen ==
    [][\A s \in suspected' \ suspected : net[s] = "open" /\ conn[ConnOf[s]] = "up"]_vars

(* No record of a dead stream outlives a sweep, whatever events are missing:
   closed or gone without an event, or on a connection that is gone. *)
SweepsReconcile ==
    [][CheckForLeaks =>
          \A s \in streams' : net[s] = "open" /\ conn[ConnOf[s]] = "up"]_vars
=============================================================================
