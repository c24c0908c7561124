------------------------ MODULE ConnectionTracker_proofs ------------------------
(***************************************************************************)
(* The tracker for every finite set of peers, connections and streams,     *)
(* every sharing of addresses, every capacity of its tables, and events    *)
(* delivered in any order, late, repeated or not at all: first what it     *)
(* counts, then, of TrackerReports, what it reports of connections and of  *)
(* streams.                                                                *)
(***************************************************************************)
EXTENDS TrackerReports, FiniteSetTheorems, Induction, TLAPS

\* Of two streams at one address at most one exists.
AddressesExclusive ==
    \A s, r \in Streams :
        s # r /\ StreamKey(s) = StreamKey(r)
            => net[s] \notin {"open", "closed"} \/ net[r] \notin {"open", "closed"}

\* What has been seen of a stream: nothing before its connection, and a record
\* only after its event.
StreamsBorn ==
    \A s \in Streams :
        /\ conn[ConnOf[s]] = "new" => net[s] = "new"
        /\ net[s] = "new" => event[s] = "due"
        /\ s \in streams => event[s] = "given"

\* A stream that may still be reported closed, and was reported open, will be
\* found: it has a record, or its key is remembered, or its peer is inexact.
CloseAccounted ==
    \A s \in Streams :
        net[s] \in {"open", "closed"} /\ event[s] = "given"
            => s \in streams \/ StreamKey(s) \in finalized \/ Peer(s) \in inexact

\* The streams, with nothing said of the counts.
StreamsInv == AddressesExclusive /\ StreamsBorn /\ OpenStreamsTracked /\ CloseAccounted

\* What is counted of the streams.
CountsInv == TypeOK /\ StreamsInv /\ CountsExact

IInv == CountsInv /\ ConnectionsExact

\* What a step keeps: the counts of the streams whatever was counted of the
\* connections.
Kept == CountsInv' /\ (ConnectionsExact => ConnectionsExact')

-----------------------------------------------------------------------------
(* Counting                                                                *)

\* The streams of a set that are a peer's can be counted.
LEMMA OnPeerFinite ==
    ASSUME NEW S \in SUBSET Streams, NEW p
    PROVE  IsFiniteSet(OnPeer(S, p)) /\ Cardinality(OnPeer(S, p)) \in Nat
<1>1. OnPeer(S, p) \in SUBSET Streams
  BY DEF OnPeer
<1>2. IsFiniteSet(OnPeer(S, p))
  BY <1>1, FS_Subset, TrackerAssumption DEF TrackerAssumption
<1> QED BY <1>2, FS_CardinalityType

\* Removing records takes as many from a peer's count as are the peer's.
LEMMA OnPeerRemoved ==
    ASSUME NEW S \in SUBSET Streams, NEW R \in SUBSET S, NEW p
    PROVE  /\ Cardinality(OnPeer(S \ R, p)) = Cardinality(OnPeer(S, p)) - Cardinality(OnPeer(R, p))
           /\ Cardinality(OnPeer(R, p)) <= Cardinality(OnPeer(S, p))
<1>1. OnPeer(S \ R, p) = OnPeer(S, p) \ OnPeer(R, p)
  BY DEF OnPeer
<1>2. OnPeer(S, p) \cap OnPeer(R, p) = OnPeer(R, p) /\ OnPeer(R, p) \in SUBSET OnPeer(S, p)
  BY DEF OnPeer
<1>3. IsFiniteSet(OnPeer(S, p))
  BY OnPeerFinite
<1>4. Cardinality(OnPeer(R, p)) <= Cardinality(OnPeer(S, p))
  BY <1>2, <1>3, FS_Subset
<1>5. Cardinality(OnPeer(S, p) \ OnPeer(R, p))
          = Cardinality(OnPeer(S, p)) - Cardinality(OnPeer(S, p) \cap OnPeer(R, p))
  BY <1>3, FS_Difference
<1> QED BY <1>1, <1>2, <1>4, <1>5

\* A set of connections can be counted.
LEMMA ConnsFinite ==
    ASSUME NEW C \in SUBSET Conns
    PROVE  IsFiniteSet(C) /\ Cardinality(C) \in Nat
BY FS_Subset, FS_CardinalityType, TrackerAssumption DEF TrackerAssumption

-----------------------------------------------------------------------------
(* The handlers' common parts                                              *)

\* Remembering keys keeps the table within its capacity, puts the others out of
\* step, and forgets the key of a stream that exists only by putting its peer out
\* of step.
LEMMA MarkFinalizedKeeps ==
    ASSUME TypeOK, NEW F \in SUBSET Addresses, NEW others \in SUBSET Peers,
           MarkFinalized(F, others)
    PROVE  /\ finalized' \subseteq Addresses /\ Cardinality(finalized') <= MaxFinalized
           /\ inexact' \subseteq Peers /\ inexact \cup others \subseteq inexact'
           /\ \A s \in Streams :
                 StreamKey(s) \in finalized \cup F /\ net[s] \in {"open", "closed"}
                     => StreamKey(s) \in finalized' \/ Peer(s) \in inexact'
<1>1. \A s \in Streams : Peer(s) \in Peers
  BY TrackerAssumption DEF TrackerAssumption, Peer
<1> QED BY <1>1 DEF MarkFinalized, TypeOK

\* Finalizing records keeps the types of what it changes.
LEMMA FinalizeTypes ==
    ASSUME TypeOK, NEW R \in SUBSET streams, NEW E \in SUBSET Peers, FinalizeRecords(R, E)
    PROVE  /\ streams' = streams \ R
           /\ peer_stream_stats' \subseteq Peers
           /\ total_opened' \in [Peers -> Nat] /\ total_closed' \in [Peers -> Nat]
           /\ current_open' \in [Peers -> Nat]
           /\ finalized' \subseteq Addresses /\ Cardinality(finalized') <= MaxFinalized
           /\ inexact' \subseteq Peers /\ inexact \subseteq inexact'
           /\ \A p \in E : OnPeer(streams', p) # {} => p \in inexact'
           /\ \A s \in Streams :
                 StreamKey(s) \in finalized \cup {StreamKey(r) : r \in R}
                     /\ net[s] \in {"open", "closed"}
                     => StreamKey(s) \in finalized' \/ Peer(s) \in inexact'
<1>1. \A s \in Streams : Peer(s) \in Peers /\ StreamKey(s) \in Addresses
  BY TrackerAssumption DEF TrackerAssumption, Peer, StreamKey
<1>2. \A p : Cardinality(OnPeer(R, p)) \in Nat
  BY OnPeerFinite DEF TypeOK
<1>3. streams' = streams \ R /\ peer_stream_stats' \subseteq Peers
  BY <1>1 DEF FinalizeRecords, CountClosed, TypeOK
<1>4. total_opened' \in [Peers -> Nat] /\ total_closed' \in [Peers -> Nat]
  BY <1>2 DEF FinalizeRecords, CountClosed, TypeOK
<1>5. current_open' \in [Peers -> Nat]
  BY <1>2 DEF FinalizeRecords, CountClosed, TypeOK, Minus
<1> DEFINE F == {StreamKey(s) : s \in R}
           others == {p \in E : OnPeer(streams', p) # {}}
<1>6. F \in SUBSET Addresses /\ others \in SUBSET Peers /\ MarkFinalized(F, others)
  BY <1>1 DEF FinalizeRecords, TypeOK
<1> HIDE DEF F, others
<1>7. /\ finalized' \subseteq Addresses /\ Cardinality(finalized') <= MaxFinalized
      /\ inexact' \subseteq Peers /\ inexact \cup others \subseteq inexact'
      /\ \A s \in Streams :
            StreamKey(s) \in finalized \cup F /\ net[s] \in {"open", "closed"}
                => StreamKey(s) \in finalized' \/ Peer(s) \in inexact'
  BY <1>6, MarkFinalizedKeeps
<1> QED BY <1>3, <1>4, <1>5, <1>7 DEF F, others

\* Finalizing records takes as much from the counts as from the records.
LEMMA FinalizeCounts ==
    ASSUME TypeOK, CountsExact, NEW R \in SUBSET streams, NEW E \in SUBSET Peers,
           FinalizeRecords(R, E)
    PROVE  CountsExact'
<1>1. /\ streams' = streams \ R /\ inexact \subseteq inexact'
      /\ \A p \in E : OnPeer(streams', p) # {} => p \in inexact'
  BY FinalizeTypes
<1> SUFFICES ASSUME NEW p \in Peers \ inexact'
             PROVE  /\ current_open'[p] = Cardinality(OnPeer(streams', p))
                    /\ total_opened'[p] = total_closed'[p] + current_open'[p]
  BY DEF CountsExact, OnPeer, Peer
<1>2. CASE p \in E
  <2>1. OnPeer(streams', p) = {}
    BY <1>1, <1>2
  <2>2. total_opened'[p] = 0 /\ total_closed'[p] = 0 /\ current_open'[p] = 0
    BY <1>2 DEF FinalizeRecords, CountClosed
  <2> QED BY <2>1, <2>2, FS_EmptySet
<1>3. CASE p \notin E
  <2> DEFINE n == Cardinality(OnPeer(R, p))
             k == Cardinality(OnPeer(streams, p))
  <2>0. streams \in SUBSET Streams /\ R \in SUBSET streams /\ R \in SUBSET Streams
    BY DEF TypeOK
  <2>1. k \in Nat /\ n \in Nat /\ n <= k /\ Cardinality(OnPeer(streams', p)) = k - n
    <3>1. k \in Nat /\ n \in Nat
      BY <2>0, OnPeerFinite
    <3>2. Cardinality(OnPeer(streams \ R, p)) = k - n /\ n <= k
      BY <2>0, OnPeerRemoved
    <3>3. Cardinality(OnPeer(streams', p)) = Cardinality(OnPeer(streams \ R, p))
      BY <1>1, Zenon
    <3> QED BY <3>1, <3>2, <3>3
  <2>2. current_open[p] = k /\ total_opened[p] = total_closed[p] + current_open[p]
    BY <1>1 DEF CountsExact
  <2>3. /\ total_opened'[p] = total_opened[p] /\ total_closed'[p] = total_closed[p] + n
        /\ current_open'[p] = Minus(current_open[p], n)
    BY <1>3 DEF FinalizeRecords, CountClosed
  <2>4. total_closed[p] \in Nat
    BY DEF TypeOK
  <2> HIDE DEF n, k
  <2> QED BY <2>1, <2>2, <2>3, <2>4 DEF Minus
<1> QED BY <1>2, <1>3

-----------------------------------------------------------------------------
(* The invariant is inductive                                              *)

\* Nothing exists yet and nothing has been counted.
LEMMA InitIInv == Init => IInv
<1> SUFFICES ASSUME Init PROVE IInv
  OBVIOUS
<1>1. TypeOK
  BY FS_EmptySet, TrackerAssumption DEF TrackerAssumption, Init, TypeOK, ConnStates, NetStates, EventStates
<1>2. StreamsInv
  BY TrackerAssumption
  DEF TrackerAssumption, Init, StreamsInv, AddressesExclusive, StreamsBorn, OpenStreamsTracked,
      CloseAccounted
<1>3. ConnectionsExact
  <2> SUFFICES ASSUME NEW p \in Peers
               PROVE  LET announced == {c \in Conns : PeerOf[c] = p /\ conn[c] \in {"up", "lost"}}
                      IN  /\ current_connections[p] = Cardinality(announced)
                          /\ announced # {} => p \in stats
    BY DEF ConnectionsExact
  <2>1. {c \in Conns : PeerOf[c] = p /\ conn[c] \in {"up", "lost"}} = {}
    BY DEF Init
  <2> QED BY <2>1, FS_EmptySet DEF Init
<1>4. CountsExact
  <2>1. \A p : OnPeer(streams, p) = {}
    BY DEF Init, OnPeer
  <2> QED BY <2>1, FS_EmptySet DEF Init, CountsExact
<1> QED BY <1>1, <1>2, <1>3, <1>4 DEF IInv, CountsInv

\* What libp2p does to its objects leaves the tracker's counts alone; a stream
\* that opens finds its address free and its event still to come.
LEMMA Libp2pKeeps ==
  ASSUME CountsInv, Libp2p
  PROVE  Kept
<1>1. ASSUME NEW s \in Streams,
             StreamOpens(s) \/ StreamCloses(s) \/ StreamFreed(s) \/ OpenedLost(s)
      PROVE  Kept
  <2>1. UNCHANGED <<conn, stats, current_connections>> /\ UNCHANGED <<streams, counts, inexact>>
    BY <1>1 DEF StreamOpens, StreamCloses, StreamFreed, OpenedLost, Tracker
  <2>2. ConnectionsExact => ConnectionsExact'
    BY <2>1 DEF CountsInv, ConnectionsExact
  <2>3. CountsExact'
    BY <2>1 DEF CountsInv, CountsExact, counts, OnPeer
  <2>4. TypeOK'
    BY <1>1 DEF StreamOpens, StreamCloses, StreamFreed, OpenedLost, Tracker, counts, CountsInv, TypeOK,
           NetStates, EventStates
  <2>5. StreamsInv'
    BY <1>1, TrackerAssumption
    DEF TrackerAssumption, StreamOpens, StreamCloses, StreamFreed, OpenedLost, Tracker, counts,
        CountsInv, TypeOK, NetStates, EventStates, StreamsInv, AddressesExclusive, StreamsBorn,
        OpenStreamsTracked, CloseAccounted, StreamKey
  <2> QED BY <2>2, <2>3, <2>4, <2>5 DEF Kept, CountsInv
<1>2. ASSUME NEW c \in Conns, ConnectionLost(c)
      PROVE  Kept
  <2>1. ConnectionsExact => ConnectionsExact'
    <3>1. \A d \in Conns : conn[d] \in {"up", "lost"} <=> conn'[d] \in {"up", "lost"}
      BY <1>2 DEF ConnectionLost, CountsInv, TypeOK
    <3>2. \A p : {d \in Conns : PeerOf[d] = p /\ conn'[d] \in {"up", "lost"}}
                   = {d \in Conns : PeerOf[d] = p /\ conn[d] \in {"up", "lost"}}
      BY <3>1
    <3> QED BY <1>2, <3>2 DEF ConnectionLost, Tracker, CountsInv, ConnectionsExact
  <2>2. CountsExact'
    BY <1>2 DEF ConnectionLost, Tracker, counts, CountsInv, CountsExact, OnPeer
  <2>3. TypeOK'
    BY <1>2 DEF ConnectionLost, Tracker, counts, CountsInv, TypeOK, ConnStates
  <2>4. StreamsInv'
    BY <1>2, TrackerAssumption
    DEF TrackerAssumption, ConnectionLost, Tracker, counts, CountsInv, TypeOK, ConnStates, StreamsInv,
        AddressesExclusive, StreamsBorn, OpenStreamsTracked, CloseAccounted
  <2> QED BY <2>1, <2>2, <2>3, <2>4 DEF Kept, CountsInv
<1> QED BY <1>1, <1>2 DEF Libp2p

\* A new connection is one more of its peer's, and no stream was opened on it.
LEMMA ConnectedKeeps ==
  ASSUME CountsInv, NEW c \in Conns, Connected(c)
  PROVE  Kept
<1> DEFINE Announced(p) == {d \in Conns : PeerOf[d] = p /\ conn[d] \in {"up", "lost"}}
<1>1. PeerOf[c] \in Peers
  BY TrackerAssumption DEF TrackerAssumption
<1>2. TypeOK'
  BY <1>1 DEF Connected, CountsInv, TypeOK, ConnStates, counts
<1>3. StreamsInv'
  BY TrackerAssumption
  DEF TrackerAssumption, Connected, counts, CountsInv, TypeOK, ConnStates, StreamsInv,
      AddressesExclusive, StreamsBorn, OpenStreamsTracked, CloseAccounted
<1>4. CountsExact'
  BY DEF Connected, counts, CountsInv, CountsExact, OnPeer
<1>5. ConnectionsExact => ConnectionsExact'
  <2> SUFFICES ASSUME ConnectionsExact, NEW p \in Peers
               PROVE  /\ current_connections'[p] = Cardinality(Announced(p)')
                      /\ Announced(p)' # {} => p \in stats'
    BY DEF ConnectionsExact
  <2>1. /\ current_connections[p] = Cardinality(Announced(p))
        /\ Announced(p) # {} => p \in stats
    BY DEF CountsInv, ConnectionsExact
  <2>2. conn[c] = "new" /\ conn' = [conn EXCEPT ![c] = "up"] /\ stats' = stats \cup {PeerOf[c]}
    BY DEF Connected
  <2>3. CASE p = PeerOf[c]
    <3>1. Announced(p)' = Announced(p) \cup {c} /\ c \notin Announced(p)
      BY <2>2, <2>3 DEF CountsInv, TypeOK
    <3>2. IsFiniteSet(Announced(p))
      BY ConnsFinite
    <3>3. Cardinality(Announced(p)') = Cardinality(Announced(p)) + 1
      BY <3>1, <3>2, FS_AddElement
    <3>4. current_connections'[p] = current_connections[p] + 1
      BY <2>3 DEF Connected, CountsInv, TypeOK
    <3> QED BY <2>1, <2>2, <2>3, <3>3, <3>4
  <2>4. CASE p # PeerOf[c]
    <3>1. Announced(p)' = Announced(p)
      BY <2>2, <2>4 DEF CountsInv, TypeOK
    <3>2. current_connections'[p] = current_connections[p]
      BY <2>4 DEF Connected, CountsInv, TypeOK
    <3> QED BY <2>1, <2>2, <3>1, <3>2
  <2> QED BY <2>3, <2>4
<1> QED BY <1>2, <1>3, <1>4, <1>5 DEF Kept, CountsInv

\* A peer is evicted only when it has no connection.
LEMMA EvictedIdle ==
  ASSUME NEW connections, NEW E \in Evictions(connections), NEW p \in E
  PROVE  p \in stats /\ connections[p] = 0
BY DEF Evictions

\* The end of a connection is one less of its peer's; its records, and no others,
\* are finalized; a peer that is evicted has no connection left.
LEMMA DisconnectedKeeps ==
  ASSUME CountsInv, NEW c \in Conns, Disconnected(c)
  PROVE  Kept
<1> DEFINE Announced(p) == {d \in Conns : PeerOf[d] = p /\ conn[d] \in {"up", "lost"}}
           R == {s \in streams : RecordOnConn(s, c)}
<1> PICK E \in Evictions(current_connections') : stats' = stats \ E /\ FinalizeRecords(R, E)
  BY DEF Disconnected
<1>1. /\ conn[c] = "lost" /\ conn' = [conn EXCEPT ![c] = "done"]
      /\ current_connections' =
             [current_connections EXCEPT ![PeerOf[c]] = IF PeerOf[c] \in stats THEN Minus(@, 1) ELSE @]
      /\ suspected' = suspected \cap streams'
      /\ UNCHANGED <<net, event, closeEvents>>
  BY DEF Disconnected
<1>2. E \in SUBSET Peers /\ R \in SUBSET streams /\ PeerOf[c] \in Peers
  BY EvictedIdle, TrackerAssumption DEF TrackerAssumption, CountsInv, TypeOK
<1>3. /\ streams' = streams \ R
      /\ peer_stream_stats' \subseteq Peers
      /\ total_opened' \in [Peers -> Nat] /\ total_closed' \in [Peers -> Nat]
      /\ current_open' \in [Peers -> Nat]
      /\ finalized' \subseteq Addresses /\ Cardinality(finalized') <= MaxFinalized
      /\ inexact' \subseteq Peers /\ inexact \subseteq inexact'
      /\ \A s \in Streams :
            StreamKey(s) \in finalized \cup {StreamKey(r) : r \in R} /\ net[s] \in {"open", "closed"}
                => StreamKey(s) \in finalized' \/ Peer(s) \in inexact'
  BY <1>2, FinalizeTypes DEF CountsInv
<1>4. TypeOK'
  <2>1. current_connections' \in [Peers -> Nat]
    BY <1>1, <1>2 DEF CountsInv, TypeOK, Minus
  <2> QED BY <1>1, <1>3, <2>1 DEF CountsInv, TypeOK, ConnStates
<1>5. StreamsInv'
  <2>1. AddressesExclusive' /\ StreamsBorn'
    BY <1>1, <1>3, TrackerAssumption
    DEF TrackerAssumption, CountsInv, TypeOK, ConnStates, StreamsInv, AddressesExclusive, StreamsBorn
  <2>2. OpenStreamsTracked'
    BY <1>1, <1>3, TrackerAssumption
    DEF TrackerAssumption, CountsInv, TypeOK, ConnStates, StreamsInv, OpenStreamsTracked, RecordOnConn
  <2>3. CloseAccounted'
    BY <1>1, <1>3 DEF CountsInv, StreamsInv, CloseAccounted, Peer
  <2> QED BY <2>1, <2>2, <2>3 DEF StreamsInv
<1>6. CountsExact'
  BY <1>2, FinalizeCounts DEF CountsInv
<1>7. ConnectionsExact => ConnectionsExact'
  <2> SUFFICES ASSUME ConnectionsExact, NEW p \in Peers
               PROVE  /\ current_connections'[p] = Cardinality(Announced(p)')
                      /\ Announced(p)' # {} => p \in stats'
    BY DEF ConnectionsExact
  <2>1. /\ current_connections[p] = Cardinality(Announced(p))
        /\ Announced(p) # {} => p \in stats
    BY DEF CountsInv, ConnectionsExact
  <2>2. IsFiniteSet(Announced(p)) /\ Cardinality(Announced(p)) \in Nat
    BY ConnsFinite
  <2>3. current_connections'[p] = Cardinality(Announced(p)')
    <3>1. CASE p = PeerOf[c]
      <4>1. Announced(p)' = Announced(p) \ {c} /\ c \in Announced(p)
        BY <1>1, <3>1 DEF CountsInv, TypeOK
      <4>2. Cardinality(Announced(p)') = Cardinality(Announced(p)) - 1 /\ Cardinality(Announced(p)') \in Nat
        <5> DEFINE A == Announced(p)
        <5>1. IsFiniteSet(A \ {c}) /\ Cardinality(A \ {c}) = Cardinality(A) - 1
          <6> HIDE DEF A
          <6> QED BY <2>2, <4>1, FS_RemoveElement DEF A
        <5>2. Cardinality(A \ {c}) \in Nat
          BY <5>1, FS_CardinalityType
        <5>3. Cardinality(Announced(p)') = Cardinality(A \ {c})
          BY <4>1, Zenon
        <5> QED BY <5>1, <5>2, <5>3
      <4>3. current_connections'[p] = Minus(current_connections[p], 1)
        BY <1>1, <2>1, <3>1, <4>1 DEF CountsInv, TypeOK
      <4> QED BY <2>1, <2>2, <4>2, <4>3 DEF Minus
    <3>2. CASE p # PeerOf[c]
      <4>1. Announced(p)' = Announced(p)
        BY <1>1, <3>2 DEF CountsInv, TypeOK
      <4> QED BY <1>1, <2>1, <3>2, <4>1 DEF CountsInv, TypeOK
    <3> QED BY <3>1, <3>2
  <2>4. ASSUME Announced(p)' # {} PROVE p \in stats'
    <3>1. Announced(p)' \subseteq Announced(p)
      BY <1>1 DEF CountsInv, TypeOK
    <3>2. IsFiniteSet(Announced(p)')
      BY <2>2, <3>1, FS_Subset
    <3>3. current_connections'[p] # 0
      BY <2>3, <2>4, <3>2, FS_EmptySet
    <3> QED BY <2>1, <2>4, <3>1, <3>3, EvictedIdle
  <2> QED BY <2>3, <2>4
<1> QED BY <1>4, <1>5, <1>6, <1>7 DEF Kept, CountsInv

\* An opened stream is one more opened and one more open; a record it replaces is
\* that of a stream that is gone, and puts its peer out of step.
LEMMA OpenedKeeps ==
  ASSUME CountsInv, NEW s \in Streams, OpenedStream(s)
  PROVE  Kept
<1> DEFINE replaced == {r \in streams : StreamKey(r) = StreamKey(s)}
<1>1. /\ net[s] \in {"open", "closed"} /\ event[s] = "due"
      /\ event' = [event EXCEPT ![s] = "given"]
      /\ streams' = (streams \ replaced) \cup {s}
      /\ suspected' = suspected \ replaced
      /\ peer_stream_stats' = peer_stream_stats \cup {Peer(s)}
      /\ total_opened' = [total_opened EXCEPT ![Peer(s)] = @ + 1]
      /\ current_open' = [current_open EXCEPT ![Peer(s)] = @ + 1]
      /\ inexact' = inexact \cup {Peer(r) : r \in replaced}
      /\ UNCHANGED <<conn, net, closeEvents, stats, current_connections, total_closed, finalized>>
  BY DEF OpenedStream
<1>2. \A r \in Streams : Peer(r) \in Peers
  BY TrackerAssumption DEF TrackerAssumption, Peer
<1>3. s \notin streams /\ \A r \in replaced : net[r] \notin {"open", "closed"}
  BY <1>1 DEF CountsInv, TypeOK, StreamsInv, StreamsBorn, AddressesExclusive
<1>4. TypeOK'
  BY <1>1, <1>2 DEF CountsInv, TypeOK, EventStates
<1>5. StreamsInv'
  BY <1>1, <1>3
  DEF CountsInv, TypeOK, StreamsInv, AddressesExclusive, StreamsBorn, OpenStreamsTracked,
      CloseAccounted, Peer
<1>6. ConnectionsExact => ConnectionsExact'
  BY <1>1 DEF CountsInv, ConnectionsExact
<1>7. CountsExact'
  <2> SUFFICES ASSUME NEW p \in Peers \ inexact'
               PROVE  /\ current_open'[p] = Cardinality(OnPeer(streams', p))
                      /\ total_opened'[p] = total_closed'[p] + current_open'[p]
    BY DEF CountsExact, OnPeer, Peer
  <2>1. /\ current_open[p] = Cardinality(OnPeer(streams, p))
        /\ total_opened[p] = total_closed[p] + current_open[p]
        /\ total_closed[p] \in Nat /\ current_open[p] \in Nat
    BY <1>1 DEF CountsInv, CountsExact, TypeOK
  <2>2. OnPeer(replaced, p) = {}
    BY <1>1 DEF OnPeer
  <2>3. CASE p = Peer(s)
    <3>1. OnPeer(streams', p) = OnPeer(streams, p) \cup {s} /\ s \notin OnPeer(streams, p)
      BY <1>1, <1>3, <2>2, <2>3 DEF OnPeer
    <3>2. IsFiniteSet(OnPeer(streams, p))
      BY OnPeerFinite DEF CountsInv, TypeOK
    <3>3. Cardinality(OnPeer(streams', p)) = Cardinality(OnPeer(streams, p)) + 1
      BY <3>1, <3>2, FS_AddElement
    <3>4. /\ current_open'[p] = current_open[p] + 1 /\ total_opened'[p] = total_opened[p] + 1
          /\ total_closed'[p] = total_closed[p]
      BY <1>1, <2>3 DEF CountsInv, TypeOK
    <3> QED BY <2>1, <3>3, <3>4
  <2>4. CASE p # Peer(s)
    <3>1. OnPeer(streams', p) = OnPeer(streams, p)
      BY <1>1, <2>2, <2>4 DEF OnPeer
    <3>2. /\ current_open'[p] = current_open[p] /\ total_opened'[p] = total_opened[p]
          /\ total_closed'[p] = total_closed[p]
      BY <1>1, <2>4 DEF CountsInv, TypeOK
    <3> QED BY <2>1, <3>1, <3>2
  <2> QED BY <2>3, <2>4
<1> QED BY <1>4, <1>5, <1>6, <1>7 DEF Kept, CountsInv

\* A closed stream is one less open, once: its record goes, or the event is a
\* duplicate, or the stream was never seen opened.
LEMMA ClosedKeeps ==
  ASSUME CountsInv, NEW s \in Streams, ClosedStream(s)
  PROVE  Kept
<1>1. /\ net[s] = "closed" /\ event[s] # "due"
      /\ closeEvents[s] < MaxCloseEvents
      /\ closeEvents' = [closeEvents EXCEPT ![s] = @ + 1]
      /\ UNCHANGED <<conn, net, event, stats, current_connections>>
  BY DEF ClosedStream
<1>2. closeEvents' \in [Streams -> 0..MaxCloseEvents]
  BY <1>1, TrackerAssumption DEF TrackerAssumption, CountsInv, TypeOK
<1>3. ConnectionsExact => ConnectionsExact'
  BY <1>1 DEF CountsInv, ConnectionsExact
<1>4. CASE CloseRecord(s)
  <2> PICK r \in streams : /\ StreamKey(r) = StreamKey(s)
                           /\ FinalizeRecords({r}, {})
                           /\ suspected' = suspected \ {r}
    BY <1>4 DEF CloseRecord
  <2>1. {r} \in SUBSET streams /\ {} \in SUBSET Peers
    OBVIOUS
  <2>2. /\ streams' = streams \ {r}
        /\ peer_stream_stats' \subseteq Peers
        /\ total_opened' \in [Peers -> Nat] /\ total_closed' \in [Peers -> Nat]
        /\ current_open' \in [Peers -> Nat]
        /\ finalized' \subseteq Addresses /\ Cardinality(finalized') <= MaxFinalized
        /\ inexact' \subseteq Peers /\ inexact \subseteq inexact'
        /\ \A x \in Streams :
              StreamKey(x) \in finalized \cup {StreamKey(y) : y \in {r}}
                  /\ net[x] \in {"open", "closed"}
                  => StreamKey(x) \in finalized' \/ Peer(x) \in inexact'
    BY <2>1, FinalizeTypes DEF CountsInv
  <2>3. TypeOK'
    BY <1>1, <1>2, <2>2 DEF CountsInv, TypeOK
  <2>4. net[r] # "open"
    BY <1>1 DEF CountsInv, TypeOK, StreamsInv, AddressesExclusive
  <2>5. StreamsInv'
    BY <1>1, <2>2, <2>4
    DEF CountsInv, StreamsInv, AddressesExclusive, StreamsBorn, OpenStreamsTracked, CloseAccounted, Peer
  <2>6. CountsExact'
    BY <2>1, FinalizeCounts DEF CountsInv
  <2> QED BY <1>3, <2>3, <2>5, <2>6 DEF Kept, CountsInv
<1>5. CASE CloseIgnored(s)
  <2>1. UNCHANGED <<streams, suspected, counts, finalized, inexact>>
    BY <1>5 DEF CloseIgnored
  <2>2. TypeOK'
    BY <1>1, <1>2, <2>1 DEF CountsInv, TypeOK, counts
  <2>3. StreamsInv'
    BY <1>1, <2>1
    DEF CountsInv, StreamsInv, AddressesExclusive, StreamsBorn, OpenStreamsTracked, CloseAccounted
  <2>4. CountsExact'
    BY <2>1 DEF CountsInv, CountsExact, OnPeer, counts
  <2> QED BY <1>3, <2>2, <2>3, <2>4 DEF Kept, CountsInv
<1>6. CASE CloseUnknown(s)
  <2> DEFINE others == IF event[s] = "lost" THEN {Peer(s)} ELSE {}
  <2>1. Peer(s) \in Peers /\ StreamKey(s) \in Addresses
    BY TrackerAssumption DEF TrackerAssumption, Peer, StreamKey
  <2>2. /\ \A r \in streams : StreamKey(r) # StreamKey(s)
        /\ StreamKey(s) \notin finalized
        /\ peer_stream_stats' = peer_stream_stats \cup {Peer(s)}
        /\ total_closed' = [total_closed EXCEPT ![Peer(s)] = @ + 1]
        /\ current_open' = [current_open EXCEPT ![Peer(s)] = Minus(@, 1)]
        /\ MarkFinalized({StreamKey(s)}, others)
        /\ UNCHANGED <<streams, suspected, total_opened>>
    BY <1>6 DEF CloseUnknown
  <2>3. {StreamKey(s)} \in SUBSET Addresses /\ others \in SUBSET Peers
    BY <2>1
  <2> HIDE DEF others
  <2>4. /\ finalized' \subseteq Addresses /\ Cardinality(finalized') <= MaxFinalized
        /\ inexact' \subseteq Peers /\ inexact \cup others \subseteq inexact'
        /\ \A x \in Streams :
              StreamKey(x) \in finalized \cup {StreamKey(s)} /\ net[x] \in {"open", "closed"}
                  => StreamKey(x) \in finalized' \/ Peer(x) \in inexact'
    BY <2>2, <2>3, MarkFinalizedKeeps DEF CountsInv
  <2>5. TypeOK'
    <3>1. total_closed' \in [Peers -> Nat] /\ current_open' \in [Peers -> Nat]
      BY <2>1, <2>2 DEF CountsInv, TypeOK, Minus
    <3> QED BY <1>1, <1>2, <2>1, <2>2, <2>4, <3>1 DEF CountsInv, TypeOK
  <2>6. StreamsInv'
    BY <1>1, <2>2, <2>4
    DEF CountsInv, StreamsInv, AddressesExclusive, StreamsBorn, OpenStreamsTracked, CloseAccounted, Peer
  <2>7. Peer(s) \in inexact'
    <3>1. s \notin streams /\ event[s] \in {"given", "lost"}
      BY <1>1, <2>2 DEF CountsInv, TypeOK, EventStates
    <3>2. event[s] = "given" => Peer(s) \in inexact
      BY <1>1, <2>2, <3>1 DEF CountsInv, StreamsInv, CloseAccounted
    <3> QED BY <2>4, <3>1, <3>2 DEF others
  <2>8. CountsExact'
    BY <2>2, <2>4, <2>7 DEF CountsInv, TypeOK, CountsExact, OnPeer, Peer
  <2> QED BY <1>3, <2>5, <2>6, <2>8 DEF Kept, CountsInv
<1> QED BY <1>4, <1>5, <1>6 DEF ClosedStream

\* A sweep finalizes only records of streams that are not open on a connection
\* that is up.
LEMMA SweepKeeps ==
  ASSUME CountsInv, CheckForLeaks
  PROVE  Kept
<1> DEFINE R == {s \in streams : RecordStreamDead(s) \/ RecordConnectionGone(s)}
<1>1. /\ FinalizeRecords(R, {})
      /\ \E old \in SUBSET streams' : suspected' = (suspected \cap streams') \cup old
      /\ UNCHANGED <<conn, net, event, closeEvents, stats, current_connections>>
  BY DEF CheckForLeaks, libp2p
<1>2. R \in SUBSET streams /\ {} \in SUBSET Peers
  OBVIOUS
<1>3. \A s \in R : ~(net[s] = "open" /\ conn[ConnOf[s]] = "up")
  BY DEF RecordStreamDead, RecordConnectionGone
<1> HIDE DEF R
<1>4. /\ streams' = streams \ R
      /\ peer_stream_stats' \subseteq Peers
      /\ total_opened' \in [Peers -> Nat] /\ total_closed' \in [Peers -> Nat]
      /\ current_open' \in [Peers -> Nat]
      /\ finalized' \subseteq Addresses /\ Cardinality(finalized') <= MaxFinalized
      /\ inexact' \subseteq Peers /\ inexact \subseteq inexact'
      /\ \A s \in Streams :
            StreamKey(s) \in finalized \cup {StreamKey(r) : r \in R} /\ net[s] \in {"open", "closed"}
                => StreamKey(s) \in finalized' \/ Peer(s) \in inexact'
  BY <1>1, <1>2, FinalizeTypes DEF CountsInv
<1>5. TypeOK'
  BY <1>1, <1>4 DEF CountsInv, TypeOK
<1>6. StreamsInv'
  BY <1>1, <1>3, <1>4
  DEF CountsInv, StreamsInv, AddressesExclusive, StreamsBorn, OpenStreamsTracked, CloseAccounted, Peer
<1>7. CountsExact'
  BY <1>1, <1>2, FinalizeCounts DEF CountsInv
<1>8. ConnectionsExact => ConnectionsExact'
  BY <1>1 DEF CountsInv, ConnectionsExact
<1> QED BY <1>5, <1>6, <1>7, <1>8 DEF Kept, CountsInv

\* A step that is not the tracker's.
LEMMA VarsKeep ==
  ASSUME CountsInv, UNCHANGED vars
  PROVE  Kept
<1>1. TypeOK'
  BY DEF vars, CountsInv, TypeOK
<1>2. StreamsInv'
  BY DEF vars, CountsInv, StreamsInv, AddressesExclusive, StreamsBorn, OpenStreamsTracked,
         CloseAccounted
<1>3. ConnectionsExact => ConnectionsExact'
  BY DEF vars, ConnectionsExact
<1>4. CountsExact'
  BY DEF vars, CountsInv, CountsExact, OnPeer
<1> QED BY <1>1, <1>2, <1>3, <1>4 DEF Kept, CountsInv

\* The invariant holds in every reachable state.
THEOREM Invariance == Spec => []IInv
<1>1. IInv /\ [Next]_vars => IInv'
  <2> SUFFICES ASSUME IInv, [Next]_vars PROVE Kept
    BY DEF IInv, Kept
  <2>1. CASE UNCHANGED vars
    BY <2>1, VarsKeep DEF IInv
  <2>2. CASE Next
    BY <2>2, Libp2pKeeps, ConnectedKeeps, DisconnectedKeeps, OpenedKeeps, ClosedKeeps, SweepKeeps
    DEF Next, IInv
  <2> QED BY <2>1, <2>2
<1> QED BY <1>1, InitIInv, PTL DEF Spec

-----------------------------------------------------------------------------
(* What follows                                                            *)

\* The variables keep their types; the finalized keys stay within their capacity.
THEOREM TypeCorrect == Spec => []TypeOK
<1>1. IInv => TypeOK
  BY DEF IInv, CountsInv
<1> QED BY <1>1, Invariance, PTL

\* The counts of every peer that is not out of step are those of its records.
THEOREM CountsCorrect == Spec => []CountsExact
<1>1. IInv => CountsExact
  BY DEF IInv, CountsInv
<1> QED BY <1>1, Invariance, PTL

\* Connections are counted exactly, and no connected peer is evicted.
THEOREM ConnectionsCorrect == Spec => []ConnectionsExact
<1>1. IInv => ConnectionsExact
  BY DEF IInv, CountsInv
<1> QED BY <1>1, Invariance, PTL

\* A stream that is open, on a connection that is up, and reported has a record.
THEOREM OpenTracked == Spec => []OpenStreamsTracked
<1>1. IInv => OpenStreamsTracked
  BY DEF IInv, CountsInv, StreamsInv
<1> QED BY <1>1, Invariance, PTL

\* The records that a sweep leaves are of streams open on connections that are up.
LEMMA SweptRecords ==
    ASSUME IInv, CheckForLeaks, NEW s \in streams'
    PROVE  net[s] = "open" /\ conn[ConnOf[s]] = "up"
<1>1. s \in streams /\ ~RecordStreamDead(s) /\ ~RecordConnectionGone(s)
  BY DEF CheckForLeaks, FinalizeRecords, CountClosed
<1>2. net[s] \in NetStates /\ net[s] # "new"
  BY <1>1 DEF IInv, CountsInv, TypeOK, StreamsInv, StreamsBorn
<1> QED BY <1>1, <1>2 DEF RecordStreamDead, RecordConnectionGone, NetStates

\* No record of a dead stream outlives a sweep.
THEOREM SweepsExact == Spec => SweepsReconcile
<1>1. IInv /\ [Next]_vars =>
          [CheckForLeaks => \A s \in streams' : net[s] = "open" /\ conn[ConnOf[s]] = "up"]_vars
  BY SweptRecords
<1> QED BY <1>1, Invariance, PTL DEF Spec, SweepsReconcile

\* Only a stream open on a connection that is up is ever flagged as a leak.
THEOREM FlaggedOpen == Spec => FlaggedStreamsOpen
<1>1. ASSUME IInv, [Next]_vars, NEW s \in suspected' \ suspected
      PROVE  net[s] = "open" /\ conn[ConnOf[s]] = "up"
  <2>1. CheckForLeaks
    BY <1>1
    DEF vars, Next, Libp2p, StreamOpens, StreamCloses, StreamFreed, OpenedLost, ConnectionLost,
        Tracker, Connected, Disconnected, OpenedStream, ClosedStream, CloseRecord, CloseIgnored,
        CloseUnknown
  <2>2. s \in streams'
    BY <1>1, <2>1 DEF CheckForLeaks
  <2> QED BY <1>1, <2>1, <2>2, SweptRecords
<1>2. IInv /\ [Next]_vars =>
          [\A s \in suspected' \ suspected : net[s] = "open" /\ conn[ConnOf[s]] = "up"]_vars
  BY <1>1
<1> QED BY <1>2, Invariance, PTL DEF Spec, FlaggedStreamsOpen

-----------------------------------------------------------------------------
(* What is filed of connections (TrackerReports)                           *)

\* A connection whose end the tracker will be told of.
WillEnd(c) == conn[c] \in {"up", "lost"} /\ c \notin silent

\* The objects of a connection exist: it is not over, or a stream on it is not.
HoldsAddresses(c) ==
    \/ WillEnd(c)
    \/ \E s \in Streams : ConnOf[s] = c /\ net[s] \notin {"new", "freed"}

FiledTypes ==
    /\ conn \in [Conns -> ConnStates] /\ net \in [Streams -> NetStates]
    /\ unheard \subseteq Conns /\ silent \subseteq Conns /\ dropped \subseteq Conns
    /\ conn_meta \in [Ids -> Conns \cup {NoConn}]
    /\ streams_served \in [Conns -> SUBSET Streams]
    /\ reported \in [Conns -> Conns \cup {NoConn}]
    /\ connects \in [Transports -> Nat] /\ disconnects \in [Transports -> Nat]

\* Nothing is opened on a connection before it is made, and one is silent only
\* between its loss and its end.
LivesOrdered ==
    /\ \A s \in Streams : conn[ConnOf[s]] = "new" => net[s] = "new"
    /\ \A c \in silent : conn[c] = "lost"

\* No two connections whose objects exist have an address in common.
AddressesApart ==
    \A c, o \in Conns :
        c # o /\ HoldsAddresses(c) /\ HoldsAddresses(o) => Ids2(c) \cap Ids2(o) = {}

\* At the addresses of a connection that was announced its own metadata is filed,
\* or none when it was dropped.
OwnIsFiled ==
    \A c \in Conns : WillEnd(c) /\ c \notin unheard =>
        \A i \in Ids2(c) : conn_meta[i] = c \/ (conn_meta[i] = NoConn /\ c \in dropped)

\* What is filed at an address is of a connection that has or had it and of which
\* no end was reported.
FiledHadAddress ==
    \A i \in Ids : conn_meta[i] # NoConn =>
        i \in Ids2(conn_meta[i]) /\ conn[conn_meta[i]] \in {"up", "lost"}

\* The streams a connection has served are on it, while its end is to be reported.
ServedIsOwn == \A c \in Conns \ silent : \A s \in streams_served[c] : ConnOf[s] = c

\* What a disconnection was reported with.
ReportedIsOwn ==
    \A c \in Conns : reported[c] # NoConn =>
        /\ conn[c] = "done" /\ PeerOf[reported[c]] = PeerOf[c]
        /\ c \notin unheard => reported[c] = c

\* The connections of a transport that were made and not reported ended.
Unended(t) == {c \in Conns : conn[c] \in {"up", "lost"} /\ Transport(c) = t}

Balanced ==
    unheard = {} /\ dropped = {} =>
        \A t \in Transports : connects[t] - disconnects[t] = Cardinality(Unended(t))

FiledInv ==
    /\ FiledTypes /\ LivesOrdered /\ AddressesApart /\ OwnIsFiled
    /\ FiledHadAddress /\ ServedIsOwn /\ ReportedIsOwn /\ Balanced

\* A transport is found for every connection.
LEMMA TransportKnown ==
    ASSUME NEW c \in Conns
    PROVE  Transport(c) \in Transports
<1>1. /\ LinkOf[c].muxer \in {"QUIC", "Yamux", "Mplex", "other"}
      /\ LinkOf[c].raw \in Transports
  BY ReportsAssumption DEF ReportsAssumption
<1>2. TransportOfParts(LinkOf[c]) \in Transports
  BY <1>1 DEF TransportOfParts, Transports
<1> QED BY <1>2 DEF Transport, Transports

\* Nothing has been made, and nothing filed.
LEMMA InitFiled == ReportsInit => FiledInv
<1> SUFFICES ASSUME ReportsInit PROVE FiledInv
  OBVIOUS
<1> USE DEF ReportsInit, Init
<1>1. FiledTypes
  BY DEF FiledTypes, ConnStates, NetStates
<1>2. LivesOrdered /\ AddressesApart /\ OwnIsFiled
  BY TrackerAssumption
  DEF TrackerAssumption, LivesOrdered, AddressesApart, HoldsAddresses, WillEnd, OwnIsFiled
<1>3. FiledHadAddress /\ ServedIsOwn /\ ReportedIsOwn
  BY DEF FiledHadAddress, ServedIsOwn, ReportedIsOwn
<1>4. Balanced
  <2>1. \A t : Unended(t) = {}
    BY DEF Unended
  <2>2. Cardinality({}) = 0
    BY FS_EmptySet
  <2>3. \A t \in Transports : connects[t] = 0 /\ disconnects[t] = 0
    OBVIOUS
  <2>4. \A t \in Transports : Cardinality(Unended(t)) = 0
    BY <2>1, <2>2
  <2> HIDE DEF ReportsInit, Init
  <2> QED BY <2>3, <2>4 DEF Balanced
<1> QED BY <1>1, <1>2, <1>3, <1>4 DEF FiledInv

\* A step that leaves the connections and what is filed of them as they are, opens
\* streams only on connections that are up, and adds to what a connection served
\* only streams on it.
LEMMA ConnectionsLeft ==
    ASSUME FiledInv,
           UNCHANGED <<conn, unheard, silent, conn_meta, reported, connects, disconnects, dropped>>,
           net' \in [Streams -> NetStates],
           streams_served' \in [Conns -> SUBSET Streams],
           \A s \in Streams : net'[s] # net[s] =>
               net'[s] = "freed" \/ net[s] = "open" \/ conn[ConnOf[s]] = "up",
           \A s \in Streams : net'[s] # net[s] => conn[ConnOf[s]] # "new",
           \A c \in Conns \ silent : \A s \in streams_served'[c] \ streams_served[c] : ConnOf[s] = c
    PROVE  FiledInv'
<1>1. FiledTypes'
  BY DEF FiledInv, FiledTypes
<1>2. LivesOrdered'
  BY DEF FiledInv, LivesOrdered
<1>3. AddressesApart'
  <2>1. ASSUME NEW c \in Conns, HoldsAddresses(c)' PROVE HoldsAddresses(c)
    <3>1. WillEnd(c)' => WillEnd(c)
      BY DEF WillEnd
    <3>2. ASSUME NEW s \in Streams, ConnOf[s] = c, net'[s] \notin {"new", "freed"}
          PROVE  HoldsAddresses(c)
      <4>1. CASE net[s] \notin {"new", "freed"}
        BY <3>2, <4>1 DEF HoldsAddresses
      <4>2. CASE net[s] \in {"new", "freed"}
        <5>1. conn[c] = "up"
          BY <3>2, <4>2
        <5>2. c \notin silent
          BY <5>1 DEF FiledInv, LivesOrdered
        <5> QED BY <5>1, <5>2 DEF HoldsAddresses, WillEnd
      <4> QED BY <4>1, <4>2
    <3> QED BY <2>1, <3>1, <3>2 DEF HoldsAddresses
  <2> QED BY <2>1 DEF FiledInv, AddressesApart, Ids2
<1>4. OwnIsFiled' /\ FiledHadAddress' /\ ReportedIsOwn'
  BY DEF FiledInv, OwnIsFiled, FiledHadAddress, ReportedIsOwn, WillEnd, Ids2
<1>5. ServedIsOwn'
  BY DEF FiledInv, ServedIsOwn
<1>6. Balanced'
  <2>1. \A t : Unended(t)' = Unended(t)
    BY DEF Unended
  <2> QED BY <2>1 DEF FiledInv, Balanced
<1> QED BY <1>1, <1>2, <1>3, <1>4, <1>5, <1>6 DEF FiledInv

\* What libp2p does to its streams.
LEMMA StreamsFiled ==
    ASSUME FiledInv, NEW s \in Streams,
           StreamOpens(s) \/ StreamCloses(s) \/ StreamFreed(s) \/ OpenedLost(s),
           UNCHANGED <<events, meta>>
    PROVE  FiledInv'
<1>1. UNCHANGED <<conn, unheard, silent, meta>>
  BY DEF StreamOpens, StreamCloses, StreamFreed, OpenedLost, events
<1>2. net \in [Streams -> NetStates] /\ streams_served \in [Conns -> SUBSET Streams]
  BY DEF FiledInv, FiledTypes
<1>3. net' \in [Streams -> NetStates]
  BY <1>2 DEF StreamOpens, StreamCloses, StreamFreed, OpenedLost, NetStates
<1>4. \A r \in Streams : net'[r] # net[r] =>
          /\ net'[r] = "freed" \/ net[r] = "open" \/ conn[ConnOf[r]] = "up"
          /\ net[r] # "new" \/ conn[ConnOf[r]] = "up"
  BY <1>2 DEF StreamOpens, StreamCloses, StreamFreed, OpenedLost
<1>5. \A r \in Streams : net'[r] # net[r] => conn[ConnOf[r]] # "new"
  BY <1>4 DEF FiledInv, LivesOrdered
<1> QED BY <1>1, <1>2, <1>3, <1>4, <1>5, ConnectionsLeft DEF meta

\* A handler of the tracker that is given a stream that was made: it may add the
\* stream to what the connection it finds has served.
LEMMA ServeFiled ==
    ASSUME FiledInv, NEW s \in Streams, net[s] \in {"open", "closed"}, Serve(s),
           UNCHANGED <<conn, net, events, conn_meta, connects, disconnects, reported, dropped>>
    PROVE  FiledInv'
<1> DEFINE o == ConnOf[s]
           m == conn_meta[MuxedOf[o]]
<1>1. o \in Conns /\ MuxedOf[o] \in Ids /\ NoConn \notin Conns
  BY TrackerAssumption, ReportsAssumption DEF TrackerAssumption, ReportsAssumption
<1>2. streams_served \in [Conns -> SUBSET Streams] /\ net \in [Streams -> NetStates]
  BY DEF FiledInv, FiledTypes
<1>3. streams_served' = [c \in Conns |-> IF c = m THEN streams_served[c] \cup {s} ELSE streams_served[c]]
  BY DEF Serve
<1>4. streams_served' \in [Conns -> SUBSET Streams]
  BY <1>2, <1>3
<1>5. ASSUME NEW c \in Conns \ silent, c = m PROVE o = c
  <2>1. MuxedOf[o] \in Ids2(c) /\ conn[c] \in {"up", "lost"}
    BY <1>1, <1>5 DEF FiledInv, FiledHadAddress
  <2>2. HoldsAddresses(c)
    BY <2>1 DEF HoldsAddresses, WillEnd
  <2>3. HoldsAddresses(o)
    BY DEF HoldsAddresses
  <2>4. Ids2(c) \cap Ids2(o) # {}
    BY <2>1 DEF Ids2
  <2> QED BY <1>1, <2>2, <2>3, <2>4 DEF FiledInv, AddressesApart
<1>6. \A c \in Conns \ silent : \A r \in streams_served'[c] \ streams_served[c] : ConnOf[r] = c
  BY <1>3, <1>5
<1> QED BY <1>2, <1>4, <1>6, ConnectionsLeft DEF events

\* A connection gets or keeps its addresses when they are free.
LEMMA FreeAddressesApart ==
    ASSUME FiledInv, NEW c \in Conns, AddressFree(c), NEW o \in Conns \ {c}, HoldsAddresses(o)
    PROVE  Ids2(o) \cap Ids2(c) = {}
<1> SUFFICES ASSUME Ids2(o) \cap Ids2(c) # {} PROVE FALSE
  OBVIOUS
<1>1. \/ conn[o] = "new"
      \/ /\ conn[o] = "done" \/ o \in silent
         /\ \A s \in Streams : ConnOf[s] = o => net[s] \in {"new", "freed"}
  BY DEF AddressFree
<1>2. conn[o] = "new" => \A s \in Streams : ConnOf[s] = o => net[s] = "new"
  BY DEF FiledInv, LivesOrdered
<1> QED BY <1>1, <1>2 DEF HoldsAddresses, WillEnd

\* A connection is made: announced or not, no other holds its addresses.
LEMMA MadeApart ==
    ASSUME FiledInv, NEW c \in Conns, AddressFree(c), conn[c] = "new",
           conn' = [conn EXCEPT ![c] = "up"], UNCHANGED <<net, silent>>
    PROVE  /\ conn' \in [Conns -> ConnStates]
           /\ LivesOrdered' /\ AddressesApart'
           /\ \A o \in Conns \ {c} : conn'[o] = conn[o] /\ (WillEnd(o)' <=> WillEnd(o))
<1>1. conn \in [Conns -> ConnStates]
  BY DEF FiledInv, FiledTypes
<1>2. conn' \in [Conns -> ConnStates] /\ conn'[c] = "up"
  BY <1>1 DEF ConnStates
<1>3. \A o \in Conns \ {c} : conn'[o] = conn[o] /\ (WillEnd(o)' <=> WillEnd(o))
  BY <1>1 DEF WillEnd
<1>4. LivesOrdered'
  <2>1. \A s \in Streams : ConnOf[s] \in Conns
    BY TrackerAssumption DEF TrackerAssumption
  <2>2. silent \subseteq Conns
    BY DEF FiledInv, FiledTypes
  <2> QED BY <1>2, <1>3, <2>1, <2>2 DEF FiledInv, LivesOrdered
<1>5. \A o \in Conns \ {c} : HoldsAddresses(o)' => HoldsAddresses(o)
  BY <1>3 DEF HoldsAddresses
<1>6. AddressesApart'
  BY <1>5, FreeAddressesApart DEF FiledInv, AddressesApart, Ids2
<1> QED BY <1>2, <1>3, <1>4, <1>6

\* One that no event tells of.
LEMMA UnheardFiled ==
    ASSUME FiledInv, NEW c \in Conns, Unheard(c)
    PROVE  FiledInv'
<1>1. /\ conn[c] = "new" /\ AddressFree(c) /\ conn' = [conn EXCEPT ![c] = "up"]
      /\ unheard' = unheard \cup {c}
      /\ UNCHANGED <<net, silent, meta>>
  BY DEF Unheard
<1>2. /\ conn' \in [Conns -> ConnStates]
      /\ LivesOrdered' /\ AddressesApart'
      /\ \A o \in Conns \ {c} : conn'[o] = conn[o] /\ (WillEnd(o)' <=> WillEnd(o))
  BY <1>1, MadeApart
<1>3. FiledTypes'
  BY <1>1, <1>2 DEF FiledInv, FiledTypes, meta
<1>4. OwnIsFiled'
  BY <1>1, <1>2 DEF FiledInv, OwnIsFiled, meta, Ids2
<1>5. FiledHadAddress'
  <2>1. conn'[c] = "up"
    BY <1>1 DEF FiledInv, FiledTypes
  <2>2. ASSUME NEW i \in Ids, conn_meta[i] # NoConn
        PROVE  i \in Ids2(conn_meta[i]) /\ conn'[conn_meta[i]] \in {"up", "lost"}
    <3>1. i \in Ids2(conn_meta[i]) /\ conn[conn_meta[i]] \in {"up", "lost"} /\ conn_meta[i] \in Conns
      BY <2>2 DEF FiledInv, FiledTypes, FiledHadAddress
    <3> QED BY <1>2, <2>1, <3>1
  <2> QED BY <1>1, <2>2 DEF FiledHadAddress, meta, Ids2
<1>6. ServedIsOwn' /\ ReportedIsOwn'
  BY <1>1, <1>2 DEF FiledInv, ServedIsOwn, ReportedIsOwn, meta
<1>7. Balanced'
  BY <1>1 DEF Balanced
<1> QED BY <1>2, <1>3, <1>4, <1>5, <1>6, <1>7 DEF FiledInv

\* A connection is lost, and what is filed of it stays.
LEMMA LostFiled ==
    ASSUME FiledInv, NEW c \in Conns, ConnectionLost(c), UNCHANGED <<events, meta>>
    PROVE  FiledInv'
<1>1. /\ conn[c] = "up" /\ conn' = [conn EXCEPT ![c] = "lost"]
      /\ UNCHANGED <<net, unheard, silent, meta>>
  BY DEF ConnectionLost, events
<1>2. conn' \in [Conns -> ConnStates] /\ conn'[c] = "lost" /\ \A o \in Conns \ {c} : conn'[o] = conn[o]
  BY <1>1 DEF FiledInv, FiledTypes, ConnStates
<1>3. \A o \in Conns : (WillEnd(o)' <=> WillEnd(o)) /\ (HoldsAddresses(o)' <=> HoldsAddresses(o))
  BY <1>1, <1>2 DEF WillEnd, HoldsAddresses
<1>4. FiledTypes'
  BY <1>1, <1>2 DEF FiledInv, FiledTypes, meta
<1>5. LivesOrdered'
  <2>1. \A s \in Streams : ConnOf[s] \in Conns
    BY TrackerAssumption DEF TrackerAssumption
  <2> QED BY <1>1, <1>2, <2>1 DEF FiledInv, FiledTypes, LivesOrdered
<1>6. AddressesApart'
  BY <1>3 DEF FiledInv, AddressesApart, Ids2
<1>7. OwnIsFiled'
  BY <1>1, <1>3 DEF FiledInv, OwnIsFiled, meta, Ids2
<1>8. FiledHadAddress'
  BY <1>1, <1>2 DEF FiledInv, FiledTypes, FiledHadAddress, meta, Ids2
<1>9. ServedIsOwn' /\ ReportedIsOwn'
  BY <1>1, <1>2 DEF FiledInv, ServedIsOwn, ReportedIsOwn, meta
<1>10. Balanced'
  <2>1. \A t : Unended(t)' = Unended(t)
    BY <1>1, <1>2 DEF Unended
  <2> QED BY <1>1, <2>1 DEF FiledInv, Balanced, meta
<1> QED BY <1>4, <1>5, <1>6, <1>7, <1>8, <1>9, <1>10 DEF FiledInv

\* It goes silent: nothing is said of it any more.
LEMMA SilentFiled ==
    ASSUME FiledInv, NEW c \in Conns, Silent(c)
    PROVE  FiledInv'
<1>1. /\ conn[c] = "lost" /\ silent' = silent \cup {c}
      /\ UNCHANGED <<conn, net, unheard, meta>>
  BY DEF Silent, vars
<1>2. \A o \in Conns : (WillEnd(o)' => WillEnd(o)) /\ (HoldsAddresses(o)' => HoldsAddresses(o))
  BY <1>1 DEF WillEnd, HoldsAddresses
<1>3. FiledTypes' /\ LivesOrdered'
  BY <1>1 DEF FiledInv, FiledTypes, LivesOrdered, meta
<1>4. AddressesApart'
  BY <1>2 DEF FiledInv, AddressesApart, Ids2
<1>5. OwnIsFiled' /\ FiledHadAddress'
  BY <1>1, <1>2 DEF FiledInv, OwnIsFiled, FiledHadAddress, meta, Ids2
<1>6. ServedIsOwn' /\ ReportedIsOwn'
  BY <1>1 DEF FiledInv, ServedIsOwn, ReportedIsOwn, meta
<1>7. Balanced'
  BY <1>1 DEF FiledInv, Balanced, Unended, meta
<1> QED BY <1>3, <1>4, <1>5, <1>6, <1>7 DEF FiledInv

\* An announced connection is one more of its transport, and its metadata takes
\* the place of what was filed at its addresses.
LEMMA AnnouncedFiled ==
    ASSUME FiledInv, NEW c \in Conns, ReportsConnected(c)
    PROVE  FiledInv'
<1> DEFINE t0 == Transport(c)
<1>1. /\ AddressFree(c) /\ conn[c] = "new" /\ conn' = [conn EXCEPT ![c] = "up"]
      /\ File(c) /\ connects' = [connects EXCEPT ![t0] = @ + 1]
      /\ UNCHANGED <<net, unheard, silent, streams_served, disconnects, reported, dropped>>
  BY DEF ReportsConnected, Connected, events
<1>2. /\ conn' \in [Conns -> ConnStates]
      /\ LivesOrdered' /\ AddressesApart'
      /\ \A o \in Conns \ {c} : conn'[o] = conn[o] /\ (WillEnd(o)' <=> WillEnd(o))
  BY <1>1, MadeApart
<1>3. conn'[c] = "up" /\ c \notin silent
  BY <1>1 DEF FiledInv, FiledTypes, LivesOrdered
<1>4. Ids2(c) \subseteq Ids /\ \A i \in Ids : conn_meta'[i] = IF i \in Ids2(c) THEN c ELSE conn_meta[i]
  BY <1>1, ReportsAssumption DEF File, ReportsAssumption, Ids2
<1>5. FiledTypes'
  <2>1. conn_meta' \in [Ids -> Conns \cup {NoConn}]
    BY <1>1 DEF File, FiledInv, FiledTypes
  <2>2. connects' \in [Transports -> Nat]
    <3>1. connects \in [Transports -> Nat]
      BY DEF FiledInv, FiledTypes
    <3>2. connects' = [t \in Transports |-> IF t = t0 THEN connects[t] + 1 ELSE connects[t]]
      BY <1>1, <3>1
    <3> HIDE DEF t0
    <3>3. \A t \in Transports : connects[t] + 1 \in Nat
      BY <3>1
    <3> QED BY <3>1, <3>2, <3>3
  <2> QED BY <1>1, <1>2, <2>1, <2>2 DEF FiledInv, FiledTypes
<1>6. OwnIsFiled'
  <2> SUFFICES ASSUME NEW o \in Conns, WillEnd(o)', o \notin unheard, NEW i \in Ids2(o)
               PROVE  conn_meta'[i] = o \/ (conn_meta'[i] = NoConn /\ o \in dropped)
    BY <1>1 DEF OwnIsFiled, Ids2
  <2>1. i \in Ids
    BY ReportsAssumption DEF ReportsAssumption, Ids2
  <2>2. CASE o = c
    BY <1>4, <2>1, <2>2
  <2>3. CASE o # c
    <3>1. WillEnd(o)
      BY <1>2, <2>3
    <3>2. i \notin Ids2(c)
      BY <1>1, <2>3, <3>1, FreeAddressesApart DEF HoldsAddresses
    <3> QED BY <1>4, <2>1, <3>1, <3>2 DEF FiledInv, OwnIsFiled
  <2> QED BY <2>2, <2>3
<1>7. FiledHadAddress'
  <2> SUFFICES ASSUME NEW i \in Ids, conn_meta'[i] # NoConn
               PROVE  i \in Ids2(conn_meta'[i]) /\ conn'[conn_meta'[i]] \in {"up", "lost"}
    BY DEF FiledHadAddress, Ids2
  <2>1. CASE i \in Ids2(c)
    BY <1>3, <1>4, <2>1
  <2>2. CASE i \notin Ids2(c)
    <3>1. /\ conn_meta'[i] = conn_meta[i] /\ conn_meta[i] \in Conns
          /\ i \in Ids2(conn_meta[i]) /\ conn[conn_meta[i]] \in {"up", "lost"}
      BY <1>4, <2>2 DEF FiledInv, FiledTypes, FiledHadAddress
    <3> QED BY <1>2, <1>3, <3>1
  <2> QED BY <2>1, <2>2
<1>8. ServedIsOwn' /\ ReportedIsOwn'
  BY <1>1, <1>2 DEF FiledInv, ServedIsOwn, ReportedIsOwn
<1>9. Balanced'
  <2> SUFFICES ASSUME unheard = {}, dropped = {}, NEW t \in Transports
               PROVE  connects'[t] - disconnects'[t] = Cardinality(Unended(t)')
    BY <1>1 DEF Balanced
  <2>1. connects[t] - disconnects[t] = Cardinality(Unended(t))
    BY DEF FiledInv, Balanced
  <2>2. connects[t] \in Nat /\ disconnects'[t] = disconnects[t] /\ disconnects[t] \in Nat
    BY <1>1 DEF FiledInv, FiledTypes
  <2>3. IsFiniteSet(Unended(t)) /\ Cardinality(Unended(t)) \in Nat
    BY ConnsFinite DEF Unended
  <2>4. CASE t = t0
    <3>1. connects'[t] = connects[t] + 1
      BY <1>1, <2>4 DEF FiledInv, FiledTypes
    <3>2. c \notin Unended(t) /\ Unended(t)' = Unended(t) \cup {c}
      BY <1>1, <1>2, <1>3, <2>4 DEF Unended
    <3>3. Cardinality(Unended(t)') = Cardinality(Unended(t)) + 1
      BY <2>3, <3>2, FS_AddElement
    <3> QED BY <2>1, <2>2, <2>3, <3>1, <3>3
  <2>5. CASE t # t0
    <3>1. connects'[t] = connects[t]
      BY <1>1, <2>5 DEF FiledInv, FiledTypes
    <3>2. Unended(t)' = Unended(t)
      BY <1>1, <1>2, <2>5 DEF Unended
    <3> QED BY <2>1, <2>2, <3>1, <3>2
  <2> QED BY <2>4, <2>5
<1> QED BY <1>2, <1>5, <1>6, <1>7, <1>8, <1>9 DEF FiledInv

\* A reported disconnection takes away what is filed of the connection, counts it
\* under its own transport, and gives its own metadata or none.
LEMMA EndedFiled ==
    ASSUME FiledInv, NEW c \in Conns, ReportsDisconnected(c)
    PROVE  FiledInv'
<1> DEFINE popped == [i \in Ids |-> IF i \in Ids2(c) /\ Filed(c, i) THEN NoConn ELSE conn_meta[i]]
           t0 == CountedTransport(c)
<1>1. /\ c \notin silent /\ conn[c] = "lost" /\ conn' = [conn EXCEPT ![c] = "done"]
      /\ reported' = [reported EXCEPT ![c] =
             IF Filed(c, ObjectOf[c]) THEN conn_meta[ObjectOf[c]] ELSE NoConn]
      /\ disconnects' = [disconnects EXCEPT ![t0] = @ + 1]
      /\ UNCHANGED <<net, unheard, silent, streams_served, connects>>
  BY DEF ReportsDisconnected, Disconnected, events
<1>2. PICK old \in MetaEvictions(popped) :
          /\ conn_meta' = [i \in Ids |-> IF i \in old THEN NoConn ELSE popped[i]]
          /\ dropped' = dropped \cup {popped[i] : i \in old}
  BY DEF ReportsDisconnected
<1>3. old \subseteq Ids /\ \A i \in old : popped[i] # NoConn
  BY DEF MetaEvictions
<1>4. /\ conn' \in [Conns -> ConnStates] /\ conn'[c] = "done"
      /\ \A o \in Conns \ {c} : conn'[o] = conn[o]
  BY <1>1 DEF FiledInv, FiledTypes, ConnStates
<1>5. WillEnd(c) /\ HoldsAddresses(c) /\ ~WillEnd(c)'
  BY <1>1, <1>4 DEF WillEnd, HoldsAddresses
<1>6. /\ \A o \in Conns \ {c} : WillEnd(o)' <=> WillEnd(o)
      /\ \A o \in Conns : HoldsAddresses(o)' => HoldsAddresses(o)
  BY <1>1, <1>4, <1>5 DEF WillEnd, HoldsAddresses
<1>7. /\ ObjectOf[c] \in Ids2(c) /\ ObjectOf[c] \in Ids
      /\ conn_meta \in [Ids -> Conns \cup {NoConn}] /\ NoConn \notin Conns
  BY ReportsAssumption DEF ReportsAssumption, FiledInv, FiledTypes, Ids2
<1>8. \A i \in Ids : /\ popped[i] \in Conns \cup {NoConn}
                     /\ popped[i] = NoConn \/ popped[i] = conn_meta[i]
                     /\ conn_meta[i] = c => popped[i] = NoConn
  <2>1. ASSUME NEW i \in Ids, conn_meta[i] = c PROVE i \in Ids2(c) /\ Filed(c, i)
    BY <1>7, <2>1 DEF FiledInv, FiledHadAddress, Filed
  <2> QED BY <1>7, <2>1
<1>9. \A i \in Ids : /\ conn_meta'[i] = NoConn \/ (conn_meta'[i] = conn_meta[i] /\ conn_meta[i] # c)
                     /\ i \notin Ids2(c) /\ conn_meta'[i] # conn_meta[i] =>
                            conn_meta'[i] = NoConn /\ conn_meta[i] \in dropped'
  <2>1. ASSUME NEW i \in Ids
        PROVE  conn_meta'[i] = IF i \in old THEN NoConn ELSE popped[i]
    BY <1>2
  <2>2. ASSUME NEW i \in old PROVE popped[i] \in dropped'
    BY <1>2
  <2>3. \A i \in Ids : i \notin Ids2(c) => popped[i] = conn_meta[i]
    OBVIOUS
  <2> HIDE DEF popped
  <2> QED BY <1>7, <1>8, <2>1, <2>2, <2>3
<1>10. FiledTypes'
  <2>1. dropped' \subseteq Conns
    <3>1. dropped \subseteq Conns
      BY DEF FiledInv, FiledTypes
    <3>2. \A i \in old : popped[i] \in Conns
      <4> HIDE DEF popped
      <4> QED BY <1>3, <1>8
    <3> HIDE DEF popped
    <3> QED BY <1>2, <3>1, <3>2
  <2>2. conn_meta' \in [Ids -> Conns \cup {NoConn}]
    <3> HIDE DEF popped
    <3> QED BY <1>2, <1>8
  <2>3. reported' \in [Conns -> Conns \cup {NoConn}]
    BY <1>1, <1>7 DEF FiledInv, FiledTypes, Filed
  <2>4. disconnects' \in [Transports -> Nat]
    <3>1. disconnects \in [Transports -> Nat]
      BY DEF FiledInv, FiledTypes
    <3>2. disconnects' = [t \in Transports |-> IF t = t0 THEN disconnects[t] + 1 ELSE disconnects[t]]
      BY <1>1, <3>1
    <3> HIDE DEF t0
    <3>3. \A t \in Transports : disconnects[t] + 1 \in Nat
      BY <3>1
    <3> QED BY <3>1, <3>2, <3>3
  <2> QED BY <1>1, <1>4, <2>1, <2>2, <2>3, <2>4 DEF FiledInv, FiledTypes
<1> HIDE DEF popped
<1>11. LivesOrdered'
  <2>1. \A s \in Streams : ConnOf[s] \in Conns
    BY TrackerAssumption DEF TrackerAssumption
  <2> QED BY <1>1, <1>4, <2>1 DEF FiledInv, FiledTypes, LivesOrdered
<1>12. AddressesApart'
  BY <1>6 DEF FiledInv, AddressesApart, Ids2
<1>13. OwnIsFiled'
  <2> SUFFICES ASSUME NEW o \in Conns, WillEnd(o)', o \notin unheard, NEW i \in Ids2(o)
               PROVE  conn_meta'[i] = o \/ (conn_meta'[i] = NoConn /\ o \in dropped')
    BY <1>1 DEF OwnIsFiled, Ids2
  <2>1. o # c /\ WillEnd(o) /\ i \in Ids
    BY <1>5, <1>6, ReportsAssumption DEF ReportsAssumption, Ids2
  <2>2. i \notin Ids2(c)
    BY <1>5, <2>1 DEF FiledInv, AddressesApart, HoldsAddresses
  <2>3. conn_meta[i] = o \/ (conn_meta[i] = NoConn /\ o \in dropped)
    BY <2>1 DEF FiledInv, OwnIsFiled
  <2>4. dropped \subseteq dropped'
    BY <1>2
  <2> QED BY <1>9, <2>1, <2>2, <2>3, <2>4
<1>14. FiledHadAddress'
  <2> SUFFICES ASSUME NEW i \in Ids, conn_meta'[i] # NoConn
               PROVE  i \in Ids2(conn_meta'[i]) /\ conn'[conn_meta'[i]] \in {"up", "lost"}
    BY DEF FiledHadAddress, Ids2
  <2>1. conn_meta'[i] = conn_meta[i] /\ conn_meta[i] \in Conns \ {c}
    BY <1>7, <1>9
  <2>2. i \in Ids2(conn_meta[i]) /\ conn[conn_meta[i]] \in {"up", "lost"}
    BY <2>1, <1>7 DEF FiledInv, FiledHadAddress
  <2> QED BY <1>4, <2>1, <2>2
<1>15. ServedIsOwn'
  BY <1>1 DEF FiledInv, ServedIsOwn
<1>16. c \notin unheard => conn_meta[ObjectOf[c]] \in {c, NoConn}
  BY <1>5, <1>7 DEF FiledInv, OwnIsFiled
<1>17. ReportedIsOwn'
  <2> SUFFICES ASSUME NEW o \in Conns, reported'[o] # NoConn
               PROVE  /\ conn'[o] = "done" /\ PeerOf[reported'[o]] = PeerOf[o]
                      /\ o \notin unheard => reported'[o] = o
    BY <1>1 DEF ReportedIsOwn
  <2>1. CASE o = c
    <3>1. Filed(c, ObjectOf[c]) /\ reported'[c] = conn_meta[ObjectOf[c]]
      BY <1>1, <2>1 DEF FiledInv, FiledTypes
    <3> QED BY <1>4, <1>16, <2>1, <3>1 DEF Filed
  <2>2. CASE o # c
    BY <1>1, <1>4, <2>2 DEF FiledInv, FiledTypes, ReportedIsOwn
  <2> QED BY <2>1, <2>2
<1>18. Balanced'
  <2> SUFFICES ASSUME unheard = {}, dropped' = {}, NEW t \in Transports
               PROVE  connects'[t] - disconnects'[t] = Cardinality(Unended(t)')
    BY <1>1 DEF Balanced
  <2>1. dropped = {}
    BY <1>2
  <2>2. connects[t] - disconnects[t] = Cardinality(Unended(t))
    BY <2>1 DEF FiledInv, Balanced
  <2>3. connects'[t] = connects[t] /\ connects[t] \in Nat /\ disconnects[t] \in Nat
    BY <1>1 DEF FiledInv, FiledTypes
  <2>4. IsFiniteSet(Unended(t)) /\ Cardinality(Unended(t)) \in Nat
    BY ConnsFinite DEF Unended
  <2>5. conn_meta[ObjectOf[c]] = c
    BY <1>5, <1>7, <2>1 DEF FiledInv, OwnIsFiled
  <2>6. t0 = Transport(c)
    BY <1>7, <2>5 DEF CountedTransport, Filed
  <2> HIDE DEF t0
  <2>7. CASE t = t0
    <3>1. disconnects'[t] = disconnects[t] + 1
      BY <1>1, <2>7 DEF FiledInv, FiledTypes
    <3>2. c \in Unended(t) /\ Unended(t)' = Unended(t) \ {c}
      BY <1>1, <1>4, <2>6, <2>7 DEF Unended
    <3>3. Cardinality(Unended(t)') = Cardinality(Unended(t)) - 1
      BY <2>4, <3>2, FS_RemoveElement
    <3> QED BY <2>2, <2>3, <2>4, <3>1, <3>3
  <2>8. CASE t # t0
    <3>1. disconnects'[t] = disconnects[t]
      BY <1>1, <2>8 DEF FiledInv, FiledTypes
    <3>2. Unended(t)' = Unended(t)
      BY <1>1, <1>4, <2>6, <2>8 DEF Unended
    <3> QED BY <2>2, <2>3, <3>1, <3>2
  <2> QED BY <2>7, <2>8
<1> QED BY <1>10, <1>11, <1>12, <1>13, <1>14, <1>15, <1>17, <1>18 DEF FiledInv

\* What is filed of connections stays right through every handler of the tracker and
\* everything libp2p does, reported or not.
LEMMA NextFiled ==
    ASSUME FiledInv, [ReportsNext]_reportVars
    PROVE  FiledInv'
<1>1. CASE Libp2pEvents /\ UNCHANGED <<events, fields, tallies, meta>>
  BY <1>1, StreamsFiled, LostFiled DEF Libp2pEvents
<1>2. ASSUME NEW s \in Streams, Negotiates(s) \/ Tagged(s) PROVE FiledInv'
  BY <1>2, ConnectionsLeft
  DEF Negotiates, Tagged, vars, meta, FiledInv, FiledTypes
<1>3. ASSUME NEW c \in Conns,
             Unheard(c) \/ Silent(c) \/ ReportsConnected(c) \/ ReportsDisconnected(c)
      PROVE  FiledInv'
  BY <1>3, UnheardFiled, SilentFiled, AnnouncedFiled, EndedFiled
<1>4. ASSUME NEW s \in Streams, ReportsOpenedStream(s) PROVE FiledInv'
  BY <1>4, ServeFiled DEF ReportsOpenedStream, OpenedStream
<1>5. ASSUME NEW s \in Streams, ReportsClosedStream(s) PROVE FiledInv'
  <2>1. UNCHANGED <<conn, net, events, meta>>
    BY <1>5 DEF ReportsClosedStream, ClosedStream
  <2> QED BY <2>1, ConnectionsLeft DEF events, meta, FiledInv, FiledTypes
<1>6. CASE ReportsCheckForLeaks
  BY <1>6, ConnectionsLeft
  DEF ReportsCheckForLeaks, CheckForLeaks, libp2p, events, meta, FiledInv, FiledTypes
<1>7. CASE Snapshot
  BY <1>7, ConnectionsLeft DEF Snapshot, vars, events, meta, FiledInv, FiledTypes
<1>8. CASE UNCHANGED reportVars
  BY <1>8, ConnectionsLeft DEF reportVars, vars, events, meta, FiledInv, FiledTypes
<1> QED BY <1>1, <1>2, <1>3, <1>4, <1>5, <1>6, <1>7, <1>8 DEF ReportsNext

\* The addresses under which metadata is filed are those of the connection it is of,
\* in every reachable state, although the allocator uses them again.
THEOREM FiledInvariance == ReportsSpec => []FiledInv
<1>1. FiledInv /\ [ReportsNext]_reportVars => FiledInv'
  BY NextFiled
<1> QED BY InitFiled, <1>1, PTL DEF ReportsSpec

\* What is filed is right.
LEMMA FiledReport ==
    ASSUME FiledInv
    PROVE  ConnectionReportAgrees
<1>1. \A c \in Conns : ObjectOf[c] \in Ids /\ ObjectOf[c] \in Ids2(c) /\ MuxedOf[c] \in Ids2(c)
  BY ReportsAssumption DEF ReportsAssumption, Ids2
<1>2. ASSUME NEW c \in Conns, conn[c] = "up", c \notin unheard \cup dropped
      PROVE  conn_meta[ObjectOf[c]] = c /\ conn_meta[MuxedOf[c]] = c
  <2>1. WillEnd(c)
    BY <1>2 DEF WillEnd, FiledInv, LivesOrdered
  <2> QED BY <1>1, <1>2, <2>1 DEF FiledInv, OwnIsFiled
<1>3. ASSUME NEW c \in Conns, reported[c] # NoConn
      PROVE  /\ PeerOf[reported[c]] = PeerOf[c]
             /\ c \notin unheard => reported[c] = c /\ \A s \in streams_served[c] : ConnOf[s] = c
  <2>1. c \notin silent
    BY <1>3 DEF FiledInv, ReportedIsOwn, LivesOrdered
  <2> QED BY <1>3, <2>1 DEF FiledInv, ReportedIsOwn, ServedIsOwn
<1>4. Zombies \subseteq {PeerOf[c] : c \in unheard \cup dropped}
  <2> SUFFICES ASSUME NEW p \in Zombies PROVE \E c \in unheard \cup dropped : p = PeerOf[c]
    OBVIOUS
  <2>1. PICK c \in Conns : conn[c] = "up" /\ p = PeerOf[c]
    BY DEF Zombies, SwarmPeers
  <2>2. {o \in ConnectionReport.aged : PeerOf[o] = p} = {}
    BY DEF Zombies, SwarmPeers
  <2>3. c \in unheard \cup dropped
    <3> SUFFICES ASSUME c \notin unheard \cup dropped PROVE FALSE
      OBVIOUS
    <3>1. conn_meta[ObjectOf[c]] = c
      BY <1>2, <2>1
    <3>2. c \in ConnectionReport.aged
      BY <1>1, <3>1 DEF ConnectionReport
    <3> QED BY <2>1, <2>2, <3>2
  <2> QED BY <2>1, <2>3
<1>5. ConnectionReport.aged \subseteq {c \in Conns : conn[c] \in {"up", "lost"}} \cup silent
  <2>1. \A c \in ConnectionReport.aged : c \in Conns /\ \E i \in Ids : conn_meta[i] = c
    BY DEF ConnectionReport
  <2>2. NoConn \notin Conns
    BY ReportsAssumption DEF ReportsAssumption
  <2> QED BY <2>1, <2>2 DEF FiledInv, FiledHadAddress
<1>6. MetadataIsOwn
  BY <1>2, <1>3, <1>4, <1>5 DEF MetadataIsOwn
<1>7. TransportsBalance
  <2> SUFFICES ASSUME unheard = {}, dropped = {}, NEW t \in Transports
               PROVE  connects[t] - disconnects[t] =
                          ConnectionReport.by_transport[t] +
                          Cardinality({c \in {o \in Conns : conn[o] = "lost"} : Transport(c) = t})
    BY DEF TransportsBalance
  <2> DEFINE up == {c \in Conns : conn[c] = "up" /\ Transport(c) = t}
             lost == {c \in {o \in Conns : conn[o] = "lost"} : Transport(c) = t}
  <2>1. Unended(t) = up \cup lost /\ up \cap lost = {}
    BY DEF Unended
  <2>2. /\ IsFiniteSet(up) /\ Cardinality(up) \in Nat
        /\ IsFiniteSet(lost) /\ Cardinality(lost) \in Nat
    BY ConnsFinite
  <2>3. ConnectionReport.by_transport[t] = Cardinality(up)
    BY DEF ConnectionReport
  <2>4. connects[t] - disconnects[t] = Cardinality(Unended(t))
    BY DEF FiledInv, Balanced
  <2> HIDE DEF up, lost
  <2>5. Cardinality(up \cup lost) = Cardinality(up) + Cardinality(lost) - Cardinality(up \cap lost)
    BY <2>2, FS_Union
  <2>6. Cardinality(up \cap lost) = 0
    BY <2>1, FS_EmptySet
  <2>7. Cardinality(Unended(t)) = Cardinality(up) + Cardinality(lost)
    BY <2>1, <2>2, <2>5, <2>6
  <2> QED BY <2>3, <2>4, <2>7 DEF lost
<1> QED BY <1>6, <1>7 DEF ConnectionReportAgrees

\* What is reported of connections is theirs, and adds up: metadata survives the
\* reuse of addresses by other connections, a disconnection is never reported with
\* another's, no announced connection is listed as a zombie, and the connections
\* counted by transport balance.
THEOREM ReportsAreOwn == ReportsSpec => []ConnectionReportAgrees
<1>1. FiledInv => ConnectionReportAgrees
  BY FiledReport
<1> QED BY FiledInvariance, <1>1, PTL

-----------------------------------------------------------------------------
(* What is reported of streams (TrackerReports)                            *)

TallyTypes ==
    /\ negotiated \subseteq Streams /\ tagged \subseteq Streams
    /\ direction \subseteq streams /\ protocol \subseteq streams
    /\ by_protocol \in [Peers -> [Buckets -> Nat]]
    /\ open_towards \in [Peers -> [Directions -> Nat]]
    /\ total_opened_towards \in [Directions -> Nat]
    /\ total_closed_towards \in [Directions -> Nat]
    /\ total_streams_by_protocol \in [Protocols -> Nat]

\* A peer that is not out of step and has records has an entry, and its entry has
\* them by direction; each stream it opened is in one bucket, those without a
\* protocol among them in that of the unknown.
PeerTallied(p) ==
    /\ OnPeer(streams, p) # {} => p \in peer_stream_stats
    /\ \A d \in Directions :
          open_towards[p][d] = Cardinality(Towards(OnPeer(direction, p), d))
    /\ SumFunction(by_protocol[p]) = total_opened[p]
    /\ Cardinality(OnPeer(streams \ protocol, p)) <= by_protocol[p][UnknownProtocol]

PeersTallied == \A p \in Peers \ inexact : PeerTallied(p)

\* What was opened and not closed is what is active.
DirectionsTallied ==
    inexact = {} => \A d \in Directions :
        total_opened_towards[d] = total_closed_towards[d] + Cardinality(Towards(direction, d))

Given == {s \in Streams : event[s] = "given"}
Pending == streams \ counted_in_proto_total

\* A stream is counted by protocol once: those that still may be are not yet.
ProtocolsTallied ==
    \A b \in Protocols :
        total_streams_by_protocol[b] + Cardinality(Speaking(Pending, b))
            <= Cardinality(Speaking(Given, b))

TallyInv ==
    CountsInv /\ TallyTypes /\ PeersTallied /\ DirectionsTallied /\ ProtocolsTallied

\* What a handler gives Tally: new streams, records brought up to date, those of
\* them whose peer has an entry, closed records, evicted peers; for a peer not out
\* of step, those are all there are.
Handled(N, R, H, C, E) ==
    /\ N \subseteq Streams /\ N \cap streams = {} /\ N \subseteq streams'
    /\ streams' \subseteq streams \cup N
    /\ R \subseteq streams /\ H \subseteq R /\ C \subseteq streams \ streams'
    /\ inexact \subseteq inexact'
    /\ \A s \in streams : Peer(s) \notin inexact' =>
          (s \in R => s \in H) /\ (s \notin streams' => s \in C)
    /\ \A s \in streams' : Peer(s) \in E => Peer(s) \in inexact'
    /\ \A p \in Peers \ inexact' :
          /\ OnPeer(streams', p) # {} => p \in peer_stream_stats'
          /\ total_opened'[p] = IF p \in E THEN 0 ELSE total_opened[p] + Cardinality(OnPeer(N, p))
    /\ \A s \in Streams : event'[s] = "given" <=> (event[s] = "given" \/ s \in N)
    /\ \A s \in N : event[s] # "given"
    /\ negotiated' = negotiated /\ tagged' = tagged

\* Streams that come and streams that go, counted.
LEMMA ComeAndGo ==
    ASSUME NEW X \in SUBSET Streams, NEW O \in SUBSET Streams, X \cap O = {},
           NEW G \in SUBSET (X \cup O)
    PROVE  /\ Cardinality(X) \in Nat /\ Cardinality(O) \in Nat /\ Cardinality(G) \in Nat
           /\ Cardinality((X \cup O) \ G) = Cardinality(X) + Cardinality(O) - Cardinality(G)
           /\ Cardinality((X \cup O) \ G) = Minus(Cardinality(X) + Cardinality(O), Cardinality(G))
<1>1. IsFiniteSet(Streams)
  BY TrackerAssumption DEF TrackerAssumption
<1>2. IsFiniteSet(X) /\ IsFiniteSet(O) /\ IsFiniteSet(X \cup O) /\ IsFiniteSet(G)
      /\ IsFiniteSet((X \cup O) \ G)
  <2>1. X \cup O \in SUBSET Streams /\ G \in SUBSET Streams /\ (X \cup O) \ G \in SUBSET Streams
    OBVIOUS
  <2> QED BY <1>1, <2>1, FS_Subset
<1>3. Cardinality(X \cap O) = 0
  BY FS_EmptySet
<1>4. Cardinality(X \cup O) = Cardinality(X) + Cardinality(O) - Cardinality(X \cap O)
  BY <1>2, FS_Union
<1>5. (X \cup O) \cap G = G
  OBVIOUS
<1>6. Cardinality((X \cup O) \ G) = Cardinality(X \cup O) - Cardinality((X \cup O) \cap G)
  BY <1>2, FS_Difference
<1>7. /\ Cardinality(X) \in Nat /\ Cardinality(O) \in Nat /\ Cardinality(G) \in Nat
      /\ Cardinality((X \cup O) \ G) \in Nat
  BY <1>2, FS_CardinalityType
<1> DEFINE x == Cardinality(X)
           o == Cardinality(O)
           g == Cardinality(G)
           y == Cardinality((X \cup O) \ G)
<1>a. Cardinality((X \cup O) \cap G) = g
  BY <1>5, Zenon
<1>8. x \in Nat /\ o \in Nat /\ g \in Nat /\ y \in Nat /\ y = x + o - g
  BY <1>3, <1>4, <1>6, <1>7, <1>a
<1> HIDE DEF x, o, g, y
<1>9. y = Minus(x + o, g)
  BY <1>8 DEF Minus
<1> QED BY <1>8, <1>9 DEF x, o, g, y

\* Any set of streams can be counted.
LEMMA StreamsCounted ==
    ASSUME NEW A \in SUBSET Streams
    PROVE  IsFiniteSet(A) /\ Cardinality(A) \in Nat
BY FS_Subset, FS_CardinalityType, TrackerAssumption DEF TrackerAssumption

\* The counts stay natural numbers.
LEMMA TallyKeepsTypes ==
    ASSUME TypeOK, TallyTypes, NEW N, NEW R, NEW H, NEW C, NEW E,
           Handled(N, R, H, C, E), Tally(N, R, H, C, E)
    PROVE  TallyTypes'
<1> DEFINE D == Learns(R, direction, tagged)
           Q == Learns(R, protocol, negotiated)
           directed == direction \cup D \cup (N \cap tagged)
           named == protocol \cup Q \cup (N \cap negotiated)
           opened == (D \cap H) \cup (N \cap tagged)
           closed == C \cap directed
           totalled == Uncounted(R) \cap named
<1>1. /\ D \in SUBSET Streams /\ Q \in SUBSET Streams /\ N \in SUBSET Streams
      /\ opened \in SUBSET Streams /\ closed \in SUBSET Streams /\ totalled \in SUBSET Streams
  BY DEF Handled, TypeOK, TallyTypes, Learns, Uncounted
<1>2. /\ direction' = directed \cap streams' /\ protocol' = named \cap streams'
      /\ total_opened_towards' = [d \in Directions |->
             total_opened_towards[d] + Cardinality(Towards(opened, d))]
      /\ total_closed_towards' = [d \in Directions |->
             total_closed_towards[d] + Cardinality(Towards(closed, d))]
      /\ open_towards' = [p \in Peers |-> [d \in Directions |->
             IF p \in E THEN 0
             ELSE Minus(open_towards[p][d] + Cardinality(Towards(OnPeer(opened, p), d)),
                        Cardinality(Towards(OnPeer(closed, p), d)))]]
      /\ by_protocol' = [p \in Peers |-> [b \in Buckets |->
             IF p \in E THEN 0
             ELSE IF b = UnknownProtocol
             THEN Minus(by_protocol[p][b], Moves(p, Q \cap H))
                  + Cardinality(OnPeer(N \ negotiated, p))
             ELSE by_protocol[p][b]
                  + Cardinality(Speaking(OnPeer((Q \cap H) \cup (N \cap negotiated), p), b))]]
      /\ total_streams_by_protocol' = [b \in Protocols |->
             total_streams_by_protocol[b] + Cardinality(Speaking(totalled, b))]
  BY DEF Tally
<1> HIDE DEF D, Q, directed, named, opened, closed, totalled
<1>3. \A A \in SUBSET Streams : \A p, d, b :
         /\ Cardinality(Towards(A, d)) \in Nat /\ Cardinality(OnPeer(A, p)) \in Nat
         /\ Cardinality(Towards(OnPeer(A, p), d)) \in Nat
         /\ Cardinality(Speaking(A, b)) \in Nat
         /\ Cardinality(Speaking(OnPeer(A, p), b)) \in Nat
  <2> TAKE A \in SUBSET Streams
  <2> TAKE p, d, b
  <2>1. /\ Towards(A, d) \in SUBSET Streams /\ OnPeer(A, p) \in SUBSET Streams
        /\ Towards(OnPeer(A, p), d) \in SUBSET Streams
        /\ Speaking(A, b) \in SUBSET Streams
        /\ Speaking(OnPeer(A, p), b) \in SUBSET Streams
    BY DEF Towards, OnPeer, Speaking
  <2> QED BY <2>1, StreamsCounted
<1>4. direction' \subseteq streams' /\ protocol' \subseteq streams'
  BY <1>2
<1>5. /\ total_opened_towards' \in [Directions -> Nat]
      /\ total_closed_towards' \in [Directions -> Nat]
      /\ total_streams_by_protocol' \in [Protocols -> Nat]
  <2>1. /\ \A d \in Directions : /\ total_opened_towards[d] + Cardinality(Towards(opened, d)) \in Nat
                               /\ total_closed_towards[d] + Cardinality(Towards(closed, d)) \in Nat
        /\ \A b \in Protocols : total_streams_by_protocol[b]
               + Cardinality(Speaking(totalled, b)) \in Nat
    <3>1. /\ \A d : Cardinality(Towards(opened, d)) \in Nat /\ Cardinality(Towards(closed, d)) \in Nat
          /\ \A b : Cardinality(Speaking(totalled, b)) \in Nat
      BY <1>1, <1>3, Zenon
    <3> QED BY <3>1 DEF TallyTypes
  <2> QED BY <1>2, <2>1
<1>0. \A m, n \in Nat : Minus(m, n) \in Nat
  BY DEF Minus
<1>6. open_towards' \in [Peers -> [Directions -> Nat]]
  <2>1. \A p \in Peers, d \in Directions :
            Minus(open_towards[p][d] + Cardinality(Towards(OnPeer(opened, p), d)),
                  Cardinality(Towards(OnPeer(closed, p), d))) \in Nat
    <3> TAKE p \in Peers, d \in Directions
    <3>1. open_towards[p][d] \in Nat
      BY DEF TallyTypes
    <3>2. /\ Cardinality(Towards(OnPeer(opened, p), d)) \in Nat
          /\ Cardinality(Towards(OnPeer(closed, p), d)) \in Nat
      BY <1>1, <1>3, Zenon
    <3>3. open_towards[p][d] + Cardinality(Towards(OnPeer(opened, p), d)) \in Nat
      BY <3>1, <3>2
    <3> QED BY <1>0, <3>2, <3>3
  <2> QED BY <1>2, <2>1
<1>7. by_protocol' \in [Peers -> [Buckets -> Nat]]
  <2>1. /\ Q \cap H \in SUBSET Streams /\ N \ negotiated \in SUBSET Streams
        /\ (Q \cap H) \cup (N \cap negotiated) \in SUBSET Streams
    BY <1>1
  <2>2. \A p : Moves(p, Q \cap H) \in Nat
    BY <1>3, <2>1 DEF Moves
  <2>3. \A p \in Peers, b \in Buckets :
           /\ Minus(by_protocol[p][b], Moves(p, Q \cap H))
                  + Cardinality(OnPeer(N \ negotiated, p)) \in Nat
           /\ by_protocol[p][b]
                  + Cardinality(Speaking(OnPeer((Q \cap H) \cup (N \cap negotiated), p), b)) \in Nat
    <3> TAKE p \in Peers, b \in Buckets
    <3>1. by_protocol[p][b] \in Nat
      BY DEF TallyTypes
    <3>2. /\ Moves(p, Q \cap H) \in Nat
          /\ Cardinality(OnPeer(N \ negotiated, p)) \in Nat
          /\ Cardinality(Speaking(OnPeer((Q \cap H) \cup (N \cap negotiated), p), b)) \in Nat
      BY <1>3, <2>1, <2>2, Zenon
    <3>3. Minus(by_protocol[p][b], Moves(p, Q \cap H)) \in Nat
      BY <1>0, <3>1, <3>2
    <3> QED BY <3>1, <3>2, <3>3
  <2> QED BY <1>2, <2>3
<1> QED BY <1>4, <1>5, <1>6, <1>7 DEF TallyTypes, Handled

\* The records of a peer not out of step, and its entry, come to the same by
\* direction.
LEMMA TallyKeepsDirections ==
    ASSUME TypeOK, TallyTypes, NEW N, NEW R, NEW H, NEW C, NEW E,
           Handled(N, R, H, C, E), Tally(N, R, H, C, E),
           NEW p \in Peers \ inexact', PeerTallied(p), NEW d \in Directions
    PROVE  open_towards'[p][d] = Cardinality(Towards(OnPeer(direction', p), d))
<1> DEFINE D == Learns(R, direction, tagged)
           directed == direction \cup D \cup (N \cap tagged)
           opened == (D \cap H) \cup (N \cap tagged)
           closed == C \cap directed
           X == Towards(OnPeer(direction, p), d)
           O == Towards(OnPeer(opened, p), d)
           G == Towards(OnPeer(closed, p), d)
<1>1. /\ direction' = directed \cap streams'
      /\ open_towards'[p][d] = IF p \in E THEN 0
             ELSE Minus(open_towards[p][d] + Cardinality(O), Cardinality(G))
  BY DEF Tally
<1>2. CASE p \in E
  <2>1. Towards(OnPeer(direction', p), d) = {}
    BY <1>1, <1>2 DEF Handled, Towards, OnPeer
  <2> QED BY <1>1, <1>2, <2>1, FS_EmptySet
<1>3. CASE p \notin E
  <2>1. X \in SUBSET Streams /\ O \in SUBSET Streams /\ X \cap O = {} /\ G \in SUBSET (X \cup O)
    BY DEF Handled, TypeOK, TallyTypes, Learns, Towards, OnPeer
  <2>2. Towards(OnPeer(direction', p), d) = (X \cup O) \ G
    BY <1>1 DEF Handled, TypeOK, TallyTypes, Learns, Towards, OnPeer
  <2>3. open_towards[p][d] = Cardinality(X)
    BY DEF PeerTallied
  <2> HIDE DEF X, O, G
  <2>4. Cardinality(Towards(OnPeer(direction', p), d)) = Cardinality((X \cup O) \ G)
    BY <2>2, Zenon
  <2>5. Cardinality((X \cup O) \ G) = Minus(Cardinality(X) + Cardinality(O), Cardinality(G))
    BY <2>1, ComeAndGo
  <2> QED BY <1>1, <1>3, <2>3, <2>4, <2>5
<1> QED BY <1>2, <1>3

\* So do all records and the totals, when no peer is out of step.
LEMMA TallyKeepsTotals ==
    ASSUME TypeOK, TallyTypes, DirectionsTallied, NEW N, NEW R, NEW H, NEW C, NEW E,
           Handled(N, R, H, C, E), Tally(N, R, H, C, E)
    PROVE  DirectionsTallied'
<1> SUFFICES ASSUME inexact' = {}, NEW d \in Directions
             PROVE  total_opened_towards'[d] =
                        total_closed_towards'[d] + Cardinality(Towards(direction', d))
  BY DEF DirectionsTallied, Towards
<1> DEFINE D == Learns(R, direction, tagged)
           directed == direction \cup D \cup (N \cap tagged)
           opened == (D \cap H) \cup (N \cap tagged)
           closed == C \cap directed
           X == Towards(direction, d)
           O == Towards(opened, d)
           G == Towards(closed, d)
<1>1. /\ direction' = directed \cap streams'
      /\ total_opened_towards'[d] = total_opened_towards[d] + Cardinality(O)
      /\ total_closed_towards'[d] = total_closed_towards[d] + Cardinality(G)
  BY DEF Tally
<1>2. X \in SUBSET Streams /\ O \in SUBSET Streams /\ X \cap O = {} /\ G \in SUBSET (X \cup O)
  BY DEF Handled, TypeOK, TallyTypes, Learns, Towards
<1>3. Towards(direction', d) = (X \cup O) \ G
  BY <1>1 DEF Handled, TypeOK, TallyTypes, Learns, Towards
<1>4. /\ total_opened_towards[d] = total_closed_towards[d] + Cardinality(X)
      /\ total_closed_towards[d] \in Nat
  BY DEF Handled, DirectionsTallied, TallyTypes
<1> HIDE DEF X, O, G
<1>5. /\ Cardinality(X) \in Nat /\ Cardinality(O) \in Nat /\ Cardinality(G) \in Nat
      /\ Cardinality((X \cup O) \ G) = Cardinality(X) + Cardinality(O) - Cardinality(G)
  BY <1>2, ComeAndGo
<1>6. Cardinality(Towards(direction', d)) = Cardinality((X \cup O) \ G)
  BY <1>3, Zenon
<1> QED BY <1>1, <1>4, <1>5, <1>6

\* Zeros add up to nothing.
LEMMA SumOfZeros ==
    ASSUME NEW f \in [Buckets -> Nat], \A b \in Buckets : f[b] = 0
    PROVE  SumFunction(f) = 0
<1> DEFINE nobody == {}
           none == [a \in nobody |-> UnknownProtocol]
<1>1. none \in [nobody -> Buckets] /\ IsFiniteSet(nobody) /\ Cardinality(nobody) = 0
  BY FS_EmptySet
<1>2. \A b \in Buckets : f[b] = Cardinality({a \in nobody : none[a] = b})
  <2>1. \A b : {a \in nobody : none[a] = b} = {}
    OBVIOUS
  <2> QED BY <2>1, FS_EmptySet
<1>3. IsFiniteSet(Buckets)
  BY ReportsAssumption, FS_AddElement DEF ReportsAssumption, Buckets
<1> HIDE DEF none, nobody
<1>4. SumFunction(f) = Cardinality(nobody)
  BY <1>1, <1>2, <1>3, SumOfClasses
<1> QED BY <1>1, <1>4

\* A stream that gets a protocol moves out of the bucket of the unknown, and a new
\* one goes into one bucket.
LEMMA TallyKeepsBuckets ==
    ASSUME TypeOK, TallyTypes, NEW N, NEW R, NEW H, NEW C, NEW E,
           Handled(N, R, H, C, E), Tally(N, R, H, C, E), TallyTypes',
           NEW p \in Peers \ inexact', PeerTallied(p)
    PROVE  /\ SumFunction(by_protocol'[p]) = total_opened'[p]
           /\ Cardinality(OnPeer(streams' \ protocol', p)) <= by_protocol'[p][UnknownProtocol]
<1> DEFINE Q == Learns(R, protocol, negotiated)
           named == protocol \cup Q \cup (N \cap negotiated)
           moved == OnPeer(Q \cap H, p)
           come == OnPeer(N, p)
           nameless == OnPeer(N \ negotiated, p)
           fresh == OnPeer((Q \cap H) \cup (N \cap negotiated), p)
           was == by_protocol[p]
           is == by_protocol'[p]
           unnamed == OnPeer(streams \ protocol, p)
<1>1. /\ protocol' = named \cap streams'
      /\ \A b \in Buckets : is[b] =
             IF p \in E THEN 0
             ELSE IF b = UnknownProtocol
             THEN Minus(was[b], Cardinality(moved)) + Cardinality(nameless)
             ELSE was[b] + Cardinality(Speaking(fresh, b))
  BY DEF Tally, Moves
<1>2. was \in [Buckets -> Nat] /\ is \in [Buckets -> Nat]
  BY DEF TallyTypes
<1>3. IsFiniteSet(Buckets) /\ UnknownProtocol \in Buckets /\ UnknownProtocol \notin Protocols
  BY ReportsAssumption, FS_AddElement DEF ReportsAssumption, Buckets
<1>4. /\ moved \in SUBSET Streams /\ come \in SUBSET Streams /\ nameless \in SUBSET Streams
      /\ fresh \in SUBSET Streams /\ unnamed \in SUBSET Streams
      /\ moved \subseteq unnamed /\ moved \cap come = {}
  BY DEF Handled, TypeOK, TallyTypes, Learns, OnPeer
<1>5. /\ IsFiniteSet(moved) /\ IsFiniteSet(come) /\ IsFiniteSet(nameless)
      /\ IsFiniteSet(fresh) /\ IsFiniteSet(unnamed)
      /\ Cardinality(moved) \in Nat /\ Cardinality(come) \in Nat /\ Cardinality(nameless) \in Nat
      /\ Cardinality(fresh) \in Nat /\ Cardinality(unnamed) \in Nat
      /\ Cardinality(moved) <= Cardinality(unnamed)
  BY <1>4, StreamsCounted, FS_Subset
<1>6. SumFunction(was) = total_opened[p] /\ Cardinality(unnamed) <= was[UnknownProtocol]
  BY DEF PeerTallied
<1>7. CASE p \in E
  <2>1. OnPeer(streams' \ protocol', p) = {}
    BY <1>7 DEF Handled, OnPeer
  <2>2. Cardinality(OnPeer(streams' \ protocol', p)) = 0
    BY <2>1, FS_EmptySet, Zenon
  <2>3. \A b \in Buckets : is[b] = 0
    BY <1>1, <1>7
  <2>4. SumFunction(is) = 0
    <3> HIDE DEF is
    <3> QED BY <1>2, <2>3, SumOfZeros
  <2>5. total_opened'[p] = 0
    BY <1>7 DEF Handled
  <2> QED BY <1>3, <2>2, <2>3, <2>4, <2>5, FS_EmptySet
<1>8. CASE p \notin E
  <2> DEFINE left == [b \in Buckets |-> IF b = UnknownProtocol THEN Cardinality(moved) ELSE 0]
             got == [b \in Buckets |-> IF b = UnknownProtocol THEN Cardinality(nameless)
                                       ELSE Cardinality(Speaking(fresh, b))]
             every == moved \cup come
             class == [s \in every |-> IF s \in nameless THEN UnknownProtocol ELSE ProtocolOf[s]]
             lost == [s \in moved |-> UnknownProtocol]
  <2>1. left \in [Buckets -> Nat] /\ got \in [Buckets -> Nat]
    <3>1. \A b : Speaking(fresh, b) \in SUBSET Streams
      BY <1>4 DEF Speaking
    <3>2. \A b : Cardinality(Speaking(fresh, b)) \in Nat
      BY <3>1, StreamsCounted
    <3> QED BY <1>5, <3>2
  <2>2. \A b \in Buckets : is[b] + left[b] = was[b] + got[b]
    <3> TAKE b \in Buckets
    <3>1. is[b] \in Nat /\ was[b] \in Nat /\ left[b] \in Nat /\ got[b] \in Nat
      BY <1>2, <2>1
    <3>2. CASE b = UnknownProtocol
      <4>1. is[b] = Minus(was[b], Cardinality(moved)) + Cardinality(nameless)
        BY <1>1, <1>8, <3>2
      <4>2. Cardinality(moved) <= was[b] /\ left[b] = Cardinality(moved)
            /\ got[b] = Cardinality(nameless)
        BY <1>2, <1>5, <1>6, <3>2
      <4> HIDE DEF left, got, is, was
      <4> QED BY <1>5, <3>1, <4>1, <4>2 DEF Minus
    <3>3. CASE b # UnknownProtocol
      <4>1. is[b] = was[b] + Cardinality(Speaking(fresh, b))
        BY <1>1, <1>8, <3>3
      <4>2. left[b] = 0 /\ got[b] = Cardinality(Speaking(fresh, b))
        BY <3>3
      <4> HIDE DEF left, got, is, was
      <4> QED BY <3>1, <4>1, <4>2
    <3> QED BY <3>2, <3>3
  <2>3. SumFunction(left) = Cardinality(moved)
    <3>1. lost \in [moved -> Buckets]
      BY <1>3
    <3>2. \A b \in Buckets : left[b] = Cardinality({s \in moved : lost[s] = b})
      <4> TAKE b \in Buckets
      <4>1. CASE b = UnknownProtocol
        <5>1. {s \in moved : lost[s] = b} = moved
          BY <4>1
        <5>2. left[b] = Cardinality(moved)
          BY <4>1
        <5> HIDE DEF lost, left, moved
        <5> QED BY <5>1, <5>2, Zenon
      <4>2. CASE b # UnknownProtocol
        <5>1. {s \in moved : lost[s] = b} = {}
          BY <4>2
        <5>2. left[b] = 0
          BY <4>2
        <5> QED BY <5>1, <5>2, FS_EmptySet, Zenon
      <4> QED BY <4>1, <4>2
    <3> HIDE DEF left, lost, moved
    <3> QED BY <1>3, <1>5, <2>1, <3>1, <3>2, SumOfClasses
  <2>4. SumFunction(got) = Cardinality(every)
    <3>0. every \in SUBSET Streams
      BY <1>4
    <3>1. class \in [every -> Buckets] /\ IsFiniteSet(every)
      <4>1. IsFiniteSet(every)
        BY <3>0, StreamsCounted
      <4>2. \A s \in every : ProtocolOf[s] \in Protocols
        BY <3>0, ReportsAssumption DEF ReportsAssumption
      <4> QED BY <1>3, <4>1, <4>2 DEF Buckets
    <3>2. \A b \in Buckets : got[b] = Cardinality({s \in every : class[s] = b})
      <4> TAKE b \in Buckets
      <4>0. \A s \in Streams : ProtocolOf[s] \in Protocols
        BY ReportsAssumption DEF ReportsAssumption
      <4>1. CASE b = UnknownProtocol
        <5>1. {s \in every : class[s] = b} = nameless
          BY <1>3, <3>0, <4>0, <4>1 DEF OnPeer
        <5>2. got[b] = Cardinality(nameless)
          BY <4>1
        <5> HIDE DEF every, class, got, nameless
        <5> QED BY <5>1, <5>2, Zenon
      <4>2. CASE b # UnknownProtocol
        <5>1. {s \in every : class[s] = b} = Speaking(fresh, b)
          BY <3>0, <4>2 DEF OnPeer, Speaking, Handled, Learns
        <5>2. got[b] = Cardinality(Speaking(fresh, b))
          BY <4>2
        <5> HIDE DEF every, class, got, fresh
        <5> QED BY <5>1, <5>2, Zenon
      <4> QED BY <4>1, <4>2
    <3> HIDE DEF got, class, every
    <3> QED BY <1>3, <2>1, <3>1, <3>2, SumOfClasses
  <2>5. Cardinality(every) = Cardinality(moved) + Cardinality(come)
    <3> HIDE DEF moved, come
    <3>1. Cardinality(moved \cap come) = 0
      BY <1>4, FS_EmptySet, Zenon
    <3>2. Cardinality(every) = Cardinality(moved) + Cardinality(come) - Cardinality(moved \cap come)
      BY <1>5, FS_Union
    <3> QED BY <1>5, <3>1, <3>2
  <2>6. /\ SumFunction(is) \in Nat /\ SumFunction(was) \in Nat
        /\ SumFunction(is) + SumFunction(left) = SumFunction(was) + SumFunction(got)
    <3> HIDE DEF is, was, left, got
    <3> QED BY <1>2, <1>3, <2>1, <2>2, SumPlus
  <2>7. total_opened'[p] = total_opened[p] + Cardinality(come)
    BY <1>8 DEF Handled
  <2>8. Cardinality(OnPeer(streams' \ protocol', p)) <= is[UnknownProtocol]
    <3> DEFINE A == OnPeer(streams' \ protocol', p)
               B == (unnamed \cup nameless) \ moved
    <3>1. A \subseteq B
      BY <1>1 DEF Handled, OnPeer, Learns
    <3>2. unnamed \cap nameless = {} /\ moved \in SUBSET (unnamed \cup nameless)
      BY <1>4 DEF Handled, OnPeer
    <3>3. B \in SUBSET Streams
      BY <1>4
    <3> HIDE DEF A, unnamed, nameless, moved
    <3>4. Cardinality(B) = Cardinality(unnamed) + Cardinality(nameless) - Cardinality(moved)
      BY <1>4, <3>2, ComeAndGo
    <3> HIDE DEF B
    <3>5. IsFiniteSet(B) /\ Cardinality(B) \in Nat
      BY <3>3, StreamsCounted
    <3>6. IsFiniteSet(A) /\ Cardinality(A) \in Nat /\ Cardinality(A) <= Cardinality(B)
      BY <3>1, <3>5, FS_Subset, FS_CardinalityType
    <3>7. is[UnknownProtocol] = Minus(was[UnknownProtocol], Cardinality(moved)) + Cardinality(nameless)
          /\ was[UnknownProtocol] \in Nat
      BY <1>1, <1>2, <1>3, <1>8
    <3> HIDE DEF is, was
    <3>8. Cardinality(A) <= is[UnknownProtocol]
      BY <1>5, <1>6, <3>4, <3>5, <3>6, <3>7 DEF Minus
    <3> QED BY <3>8 DEF A
  <2> HIDE DEF is, was, left, got, every, moved, come
  <2>9. SumFunction(is) = total_opened'[p]
    BY <1>5, <1>6, <2>3, <2>4, <2>5, <2>6, <2>7
  <2> QED BY <2>8, <2>9 DEF is
<1> QED BY <1>7, <1>8

\* A record is added to the totals by protocol once.
LEMMA TallyKeepsProtocols ==
    ASSUME TypeOK, TypeOK', TallyTypes, ProtocolsTallied, NEW N, NEW R, NEW H, NEW C, NEW E,
           Handled(N, R, H, C, E), Tally(N, R, H, C, E)
    PROVE  ProtocolsTallied'
<1> DEFINE named == protocol \cup Learns(R, protocol, negotiated) \cup (N \cap negotiated)
           totalled == Uncounted(R) \cap named
<1>1. /\ counted_in_proto_total' = (counted_in_proto_total \cup totalled) \cap streams'
      /\ \A b \in Protocols : total_streams_by_protocol'[b] =
             total_streams_by_protocol[b] + Cardinality(Speaking(totalled, b))
  BY DEF Tally
<1> SUFFICES ASSUME NEW b \in Protocols
             PROVE  total_streams_by_protocol'[b] + Cardinality(Speaking(Pending', b))
                        <= Cardinality(Speaking(Given', b))
  BY DEF ProtocolsTallied, Speaking
<1> DEFINE new == Speaking(N, b)
           X == Speaking(Pending, b)
           G == Speaking(totalled, b)
           Y == Speaking(Given, b)
           X2 == Speaking(Pending', b)
           Y2 == Speaking(Given', b)
           none == {}
<1>2. /\ X \in SUBSET Streams /\ new \in SUBSET Streams /\ X \cap new = {}
      /\ G \in SUBSET (X \cup new)
  BY <1>1 DEF Handled, TypeOK, Pending, Speaking, Uncounted
<1>a. /\ Y \in SUBSET Streams /\ new \in SUBSET Streams /\ Y \cap new = {}
      /\ none \in SUBSET (Y \cup new)
  BY DEF Handled, TypeOK, Given, Speaking
<1>b. X2 \subseteq (X \cup new) \ G
  BY <1>1 DEF Handled, TypeOK, Pending, Speaking, Uncounted
<1>c. Y2 = (Y \cup new) \ none
  BY DEF Handled, Given, Speaking
<1>3. total_streams_by_protocol[b] + Cardinality(X) <= Cardinality(Y)
      /\ total_streams_by_protocol[b] \in Nat
  BY DEF ProtocolsTallied, TallyTypes
<1>d. Cardinality(none) = 0
  BY FS_EmptySet
<1> HIDE DEF new, X, G, Y, X2, Y2, none
<1>4. /\ Cardinality(X) \in Nat /\ Cardinality(new) \in Nat /\ Cardinality(G) \in Nat
      /\ Cardinality((X \cup new) \ G) = Cardinality(X) + Cardinality(new) - Cardinality(G)
  BY <1>2, ComeAndGo
<1>5. /\ Cardinality(Y) \in Nat
      /\ Cardinality((Y \cup new) \ none) = Cardinality(Y) + Cardinality(new) - Cardinality(none)
  BY <1>a, ComeAndGo
<1>6. Cardinality(Y2) = Cardinality((Y \cup new) \ none)
  BY <1>c, Zenon
<1>7. Cardinality(X2) \in Nat /\ Cardinality(X2) <= Cardinality((X \cup new) \ G)
  <2>1. (X \cup new) \ G \in SUBSET Streams
    BY <1>2
  <2>2. IsFiniteSet((X \cup new) \ G)
    BY <2>1, StreamsCounted
  <2> QED BY <1>b, <2>2, FS_Subset, FS_CardinalityType
<1>8. total_streams_by_protocol'[b] = total_streams_by_protocol[b] + Cardinality(G)
  BY <1>1 DEF G
<1>9. total_streams_by_protocol'[b] + Cardinality(X2) <= Cardinality(Y2)
  BY <1>3, <1>4, <1>5, <1>6, <1>7, <1>8, <1>d
<1> QED BY <1>9 DEF X2, Y2

\* One handler's work on the counts keeps all of that.
LEMMA TallyKeeps ==
    ASSUME TallyInv, CountsInv', NEW N, NEW R, NEW H, NEW C, NEW E,
           Handled(N, R, H, C, E), Tally(N, R, H, C, E)
    PROVE  TallyInv'
<1>1. TypeOK /\ TypeOK' /\ TallyTypes
  BY DEF TallyInv, CountsInv
<1>2. TallyTypes'
  BY <1>1, TallyKeepsTypes
<1>3. PeersTallied'
  <2> SUFFICES ASSUME NEW p \in Peers \ inexact' PROVE PeerTallied(p)'
    BY DEF PeersTallied
  <2>1. PeerTallied(p)
    BY DEF Handled, TallyInv, PeersTallied
  <2>2. \A d \in Directions :
            open_towards'[p][d] = Cardinality(Towards(OnPeer(direction', p), d))
    BY <1>1, <2>1, TallyKeepsDirections
  <2>3. /\ SumFunction(by_protocol'[p]) = total_opened'[p]
        /\ Cardinality(OnPeer(streams' \ protocol', p)) <= by_protocol'[p][UnknownProtocol]
    BY <1>1, <1>2, <2>1, TallyKeepsBuckets
  <2>4. OnPeer(streams', p) # {} => p \in peer_stream_stats'
    BY DEF Handled
  <2> QED BY <2>2, <2>3, <2>4 DEF PeerTallied, OnPeer, Peer, Towards
<1>4. DirectionsTallied'
  BY <1>1, TallyKeepsTotals DEF TallyInv
<1>5. ProtocolsTallied'
  BY <1>1, TallyKeepsProtocols DEF TallyInv
<1> QED BY <1>2, <1>3, <1>4, <1>5 DEF TallyInv

\* Nothing has been counted.
LEMMA InitTallied == ReportsInit => TallyInv
<1> SUFFICES ASSUME ReportsInit PROVE TallyInv
  OBVIOUS
<1>1. CountsInv
  BY InitIInv DEF ReportsInit, IInv
<1>2. TallyTypes
  BY ReportsAssumption DEF ReportsAssumption, ReportsInit, Init, TallyTypes
<1>3. PeersTallied
  <2> SUFFICES ASSUME NEW p \in Peers PROVE PeerTallied(p)
    BY DEF PeersTallied
  <2>1. /\ OnPeer(streams, p) = {} /\ OnPeer(streams \ protocol, p) = {}
        /\ \A d : Towards(OnPeer(direction, p), d) = {}
    BY DEF ReportsInit, Init, OnPeer, Towards
  <2>2. /\ total_opened[p] = 0 /\ by_protocol[p][UnknownProtocol] = 0
        /\ \A d \in Directions : open_towards[p][d] = 0
        /\ \A b \in Buckets : by_protocol[p][b] = 0
        /\ by_protocol[p] \in [Buckets -> Nat]
    BY DEF ReportsInit, Init, Buckets
  <2>3. SumFunction(by_protocol[p]) = 0
    BY <1>1, <1>2, <2>2, SumOfZeros DEF TallyTypes
  <2> QED BY <2>1, <2>2, <2>3, FS_EmptySet DEF PeerTallied
<1>4. DirectionsTallied
  <2>1. \A d : Towards(direction, d) = {}
    BY DEF ReportsInit, Towards
  <2>2. \A d : Cardinality(Towards(direction, d)) = 0
    BY <2>1, FS_EmptySet, Zenon
  <2> QED BY <2>2 DEF DirectionsTallied, ReportsInit
<1>5. ProtocolsTallied
  <2>1. \A b : Speaking(Pending, b) = {} /\ Speaking(Given, b) = {}
    BY DEF ReportsInit, Init, Pending, Given, Speaking
  <2>2. \A b : Cardinality(Speaking(Pending, b)) = 0 /\ Cardinality(Speaking(Given, b)) = 0
    BY <2>1, FS_EmptySet, Zenon
  <2> QED BY <2>2 DEF ProtocolsTallied, ReportsInit
<1> QED BY <1>1, <1>2, <1>3, <1>4, <1>5 DEF TallyInv

\* The rest of a step that leaves the counts and the records alone.
LEMMA TallyUntouched ==
    ASSUME TallyInv, CountsInv', UNCHANGED <<fields, tallies>>,
           UNCHANGED <<streams, peer_stream_stats, total_opened, inexact>>,
           negotiated' \subseteq Streams, tagged' \subseteq Streams,
           \A s \in Streams : event'[s] = "given" <=> event[s] = "given"
    PROVE  TallyInv'
<1>1. TallyTypes'
  BY DEF TallyInv, TallyTypes, fields, tallies
<1>2. PeersTallied'
  BY DEF TallyInv, PeersTallied, PeerTallied, OnPeer, Peer, Towards, fields, tallies
<1>3. DirectionsTallied'
  BY DEF TallyInv, DirectionsTallied, Towards, fields, tallies
<1>4. ProtocolsTallied'
  <2>1. Given' = Given /\ Pending' = Pending
    BY DEF Given, Pending, fields
  <2> QED BY <2>1 DEF TallyInv, ProtocolsTallied, Speaking, fields, tallies
<1> QED BY <1>1, <1>2, <1>3, <1>4 DEF TallyInv

\* What libp2p does is not counted.
LEMMA EventsTallied ==
    ASSUME TallyInv,
           \/ Libp2pEvents /\ UNCHANGED <<events, fields, tallies, meta>>
           \/ \E s \in Streams : Negotiates(s) \/ Tagged(s)
           \/ \E c \in Conns : Unheard(c) \/ Silent(c) \/ ReportsConnected(c)
    PROVE  TallyInv'
<1>0. CountsInv /\ TypeOK /\ TallyTypes
  BY DEF TallyInv, CountsInv
<1>1. CASE Libp2pEvents /\ UNCHANGED <<events, fields, tallies, meta>>
  <2>1. Libp2p
    BY <1>1 DEF Libp2pEvents, Libp2p
  <2>2. CountsInv'
    BY <1>0, <2>1, Libp2pKeeps DEF Kept
  <2>3. /\ UNCHANGED <<streams, peer_stream_stats, total_opened, inexact>>
        /\ \A s \in Streams : event'[s] = "given" <=> event[s] = "given"
    BY <1>0, <2>1 DEF Libp2p, StreamOpens, StreamCloses, StreamFreed, OpenedLost, ConnectionLost,
          Tracker, counts, TypeOK, EventStates
  <2> QED BY <1>0, <1>1, <2>2, <2>3, TallyUntouched DEF events, TallyTypes
<1>2. CASE \E s \in Streams : Negotiates(s) \/ Tagged(s)
  <2>1. UNCHANGED <<vars, fields, tallies>> /\ negotiated' \subseteq Streams /\ tagged' \subseteq Streams
    BY <1>0, <1>2 DEF Negotiates, Tagged, TallyTypes
  <2>2. CountsInv'
    BY <1>0, <2>1, VarsKeep DEF Kept
  <2> QED BY <2>1, <2>2, TallyUntouched DEF vars
<1>3. ASSUME NEW c \in Conns, Unheard(c) PROVE TallyInv'
  <2>1. /\ conn[c] = "new" /\ conn' = [conn EXCEPT ![c] = "up"]
        /\ UNCHANGED <<net, event, closeEvents, Tracker, negotiated, tagged, fields, tallies>>
    BY <1>3 DEF Unheard
  <2>2. UNCHANGED <<streams, peer_stream_stats, total_opened, total_closed, current_open, inexact>>
    BY <2>1 DEF Tracker, counts
  <2>3. TypeOK'
    BY <1>0, <2>1 DEF Tracker, counts, TypeOK, ConnStates
  <2>4. StreamsInv'
    BY <1>0, <2>1, TrackerAssumption
    DEF TrackerAssumption, Tracker, CountsInv, TypeOK, StreamsInv, AddressesExclusive, StreamsBorn,
        OpenStreamsTracked, CloseAccounted
  <2>5. CountsExact'
    BY <1>0, <2>2 DEF CountsInv, CountsExact, OnPeer
  <2> QED BY <1>0, <2>1, <2>2, <2>3, <2>4, <2>5, TallyUntouched DEF CountsInv, TallyTypes
<1>4. ASSUME NEW c \in Conns, Silent(c) PROVE TallyInv'
  <2>1. UNCHANGED <<vars, negotiated, tagged, fields, tallies>>
    BY <1>4 DEF Silent
  <2>2. CountsInv'
    BY <1>0, <2>1, VarsKeep DEF Kept
  <2> QED BY <1>0, <2>1, <2>2, TallyUntouched DEF vars, TallyTypes
<1>5. ASSUME NEW c \in Conns, ReportsConnected(c) PROVE TallyInv'
  <2>1. Connected(c) /\ UNCHANGED <<events, fields, tallies>>
    BY <1>5 DEF ReportsConnected
  <2>2. CountsInv'
    BY <1>0, <2>1, ConnectedKeeps DEF Kept
  <2>3. UNCHANGED <<event, streams, peer_stream_stats, total_opened, inexact>>
    BY <2>1 DEF Connected, counts
  <2> QED BY <1>0, <2>1, <2>2, <2>3, TallyUntouched DEF events, TallyTypes
<1> QED BY <1>1, <1>2, <1>3, <1>4, <1>5

\* A new record is counted where its stream says, or as unknown.
LEMMA OpenedTallied ==
    ASSUME TallyInv, NEW s \in Streams, ReportsOpenedStream(s)
    PROVE  TallyInv'
<1>0. CountsInv /\ TypeOK
  BY DEF TallyInv, CountsInv
<1> DEFINE replaced == {r \in streams : StreamKey(r) = StreamKey(s)}
<1>1. /\ OpenedStream(s) /\ Tally({s}, {}, {}, {}, {}) /\ negotiated' = negotiated /\ tagged' = tagged
  BY DEF ReportsOpenedStream, events
<1>2. CountsInv'
  BY <1>0, <1>1, OpenedKeeps DEF Kept
<1>3. /\ event[s] = "due" /\ event' = [event EXCEPT ![s] = "given"]
      /\ streams' = (streams \ replaced) \cup {s}
      /\ peer_stream_stats' = peer_stream_stats \cup {Peer(s)}
      /\ total_opened' = [total_opened EXCEPT ![Peer(s)] = @ + 1]
      /\ inexact' = inexact \cup {Peer(r) : r \in replaced}
  BY <1>1 DEF OpenedStream
<1>4. s \notin streams
  BY <1>0, <1>3 DEF CountsInv, StreamsInv, StreamsBorn
<1>5. \A p \in Peers \ inexact' :
         /\ OnPeer(streams', p) # {} => p \in peer_stream_stats'
         /\ total_opened'[p] = total_opened[p] + Cardinality(OnPeer({s}, p))
  <2> TAKE p \in Peers \ inexact'
  <2>1. OnPeer(streams', p) # {} => p \in peer_stream_stats'
    BY <1>3 DEF TallyInv, PeersTallied, PeerTallied, OnPeer
  <2>2. CASE p = Peer(s)
    <3>1. OnPeer({s}, p) = {s}
      BY <2>2 DEF OnPeer
    <3>2. Cardinality(OnPeer({s}, p)) = 1
      BY <3>1, FS_Singleton, Zenon
    <3> QED BY <1>0, <1>3, <2>1, <2>2, <3>2 DEF TypeOK
  <2>3. CASE p # Peer(s)
    <3>1. OnPeer({s}, p) = {}
      BY <2>3 DEF OnPeer
    <3>2. Cardinality(OnPeer({s}, p)) = 0
      BY <3>1, FS_EmptySet, Zenon
    <3> QED BY <1>0, <1>3, <2>1, <2>3, <3>2 DEF TypeOK
  <2> QED BY <2>2, <2>3
<1>6. Handled({s}, {}, {}, {}, {})
  <2>1. \A r \in Streams : event'[r] = "given" <=> (event[r] = "given" \/ r \in {s})
    BY <1>0, <1>3 DEF TypeOK
  <2>2. \A r \in streams : r \notin streams' => Peer(r) \in inexact'
    BY <1>3
  <2>3. {s} \subseteq streams' /\ streams' \subseteq streams \cup {s} /\ {s} \cap streams = {}
    BY <1>3, <1>4
  <2>4. inexact \subseteq inexact' /\ event[s] # "given"
    BY <1>3
  <2> HIDE DEF replaced
  <2> QED BY <1>1, <1>5, <2>1, <2>2, <2>3, <2>4 DEF Handled
<1> QED BY <1>1, <1>2, <1>6, TallyKeeps

\* What a handler that opens nothing gives Tally.
LEMMA ClosingHandled ==
    ASSUME TallyInv, NEW R \in SUBSET streams, NEW H \in SUBSET R, HasEntry(R) \subseteq H,
           NEW E, streams' \subseteq streams, inexact \subseteq inexact',
           \A s \in streams' : Peer(s) \in E => Peer(s) \in inexact',
           peer_stream_stats \ E \subseteq peer_stream_stats',
           \A p \in Peers : total_opened'[p] = IF p \in E THEN 0 ELSE total_opened[p],
           UNCHANGED <<event, negotiated, tagged>>
    PROVE  Handled({}, R, H, streams \ streams', E)
<1>1. TypeOK
  BY DEF TallyInv, CountsInv
<1>2. \A s \in streams : Peer(s) \in Peers
  BY <1>1, TrackerAssumption DEF TrackerAssumption, TypeOK, Peer
<1>3. \A p \in Peers \ inexact : OnPeer(streams, p) # {} => p \in peer_stream_stats
  BY DEF TallyInv, PeersTallied, PeerTallied
<1>4. \A s \in R : Peer(s) \notin inexact' => s \in H
  <2> SUFFICES ASSUME NEW s \in R, Peer(s) \notin inexact' PROVE s \in H
    OBVIOUS
  <2>1. s \in OnPeer(streams, Peer(s)) /\ Peer(s) \in Peers \ inexact
    BY <1>2 DEF OnPeer
  <2>2. Peer(s) \in peer_stream_stats
    BY <1>3, <2>1
  <2> QED BY <2>2 DEF HasEntry
<1>5. \A p \in Peers \ inexact' :
         /\ OnPeer(streams', p) # {} => p \in peer_stream_stats'
         /\ total_opened'[p] = IF p \in E THEN 0 ELSE total_opened[p] + Cardinality(OnPeer({}, p))
  <2> TAKE p \in Peers \ inexact'
  <2>1. ASSUME OnPeer(streams', p) # {} PROVE p \in peer_stream_stats'
    <3>1. OnPeer(streams, p) # {} /\ p \notin E
      BY <2>1 DEF OnPeer
    <3> QED BY <1>3, <3>1
  <2>2. OnPeer({}, p) = {}
    BY DEF OnPeer
  <2>3. Cardinality(OnPeer({}, p)) = 0
    BY <2>2, FS_EmptySet, Zenon
  <2>4. total_opened[p] \in Nat
    BY <1>1 DEF TypeOK
  <2> QED BY <2>1, <2>3, <2>4
<1> QED BY <1>4, <1>5 DEF Handled

\* A record that is closed leaves the counts it is in.
LEMMA ClosedTallied ==
    ASSUME TallyInv, NEW s \in Streams, ReportsClosedStream(s)
    PROVE  TallyInv'
<1> DEFINE R == {r \in streams : StreamKey(r) = StreamKey(s)}
<1>0. CountsInv /\ TypeOK
  BY DEF TallyInv, CountsInv
<1>1. ClosedStream(s) /\ Tally({}, R, HasEntry(R), streams \ streams', {}) /\ UNCHANGED events
  BY DEF ReportsClosedStream
<1>2. CountsInv'
  BY <1>0, <1>1, ClosedKeeps DEF Kept
<1>3. /\ event' = event
      /\ CloseRecord(s) \/ CloseIgnored(s) \/ CloseUnknown(s)
  BY <1>1 DEF ClosedStream
<1>4. /\ streams' \subseteq streams /\ inexact \subseteq inexact'
      /\ peer_stream_stats \subseteq peer_stream_stats'
      /\ \A p \in Peers : total_opened'[p] = total_opened[p]
  <2>1. CASE CloseRecord(s)
    BY <2>1 DEF CloseRecord, FinalizeRecords, CountClosed, MarkFinalized
  <2>2. CASE CloseIgnored(s)
    BY <2>2 DEF CloseIgnored, counts
  <2>3. CASE CloseUnknown(s)
    BY <2>3 DEF CloseUnknown, MarkFinalized
  <2> QED BY <1>3, <2>1, <2>2, <2>3
<1> DEFINE H == HasEntry(R)
<1>5. R \in SUBSET streams /\ H \in SUBSET R /\ HasEntry(R) \subseteq H
  BY DEF HasEntry
<1>6. event' = event /\ negotiated' = negotiated /\ tagged' = tagged
  BY <1>1, <1>3 DEF events
<1> HIDE DEF R, H
<1>7. Handled({}, R, H, streams \ streams', {})
  BY <1>4, <1>5, <1>6, ClosingHandled
<1>8. Tally({}, R, H, streams \ streams', {})
  BY <1>1 DEF H, R
<1> QED BY <1>2, <1>7, <1>8, TallyKeeps

\* So do those a sweep closes.
LEMMA SweepTallied ==
    ASSUME TallyInv, ReportsCheckForLeaks
    PROVE  TallyInv'
<1>0. CountsInv /\ TypeOK
  BY DEF TallyInv, CountsInv
<1>1. CheckForLeaks /\ UNCHANGED events
  BY DEF ReportsCheckForLeaks
<1>2. PICK late \in SUBSET streams :
         Tally({}, streams, HasEntry(streams) \cup late, streams \ streams', {})
  BY DEF ReportsCheckForLeaks
<1>3. CountsInv'
  BY <1>0, <1>1, SweepKeeps DEF Kept
<1>4. /\ streams' \subseteq streams /\ inexact \subseteq inexact'
      /\ peer_stream_stats \subseteq peer_stream_stats'
      /\ \A p \in Peers : total_opened'[p] = total_opened[p]
      /\ UNCHANGED event
  BY <1>1 DEF CheckForLeaks, FinalizeRecords, CountClosed, MarkFinalized, libp2p
<1> DEFINE H == HasEntry(streams) \cup late
<1>5. H \in SUBSET streams /\ HasEntry(streams) \subseteq H
  BY DEF HasEntry
<1> HIDE DEF H
<1>6. Handled({}, streams, H, streams \ streams', {})
  BY <1>1, <1>4, <1>5, ClosingHandled DEF events
<1> QED BY <1>2, <1>3, <1>6, TallyKeeps DEF H

\* A snapshot brings the records up to date and closes none.
LEMMA SnapshotTallied ==
    ASSUME TallyInv, Snapshot
    PROVE  TallyInv'
<1>0. CountsInv
  BY DEF TallyInv
<1>1. UNCHANGED <<vars, events>> /\ Tally({}, streams, HasEntry(streams), {}, {})
  BY DEF Snapshot
<1>2. CountsInv'
  BY <1>0, <1>1, VarsKeep DEF Kept
<1>3. UNCHANGED <<event, streams, inexact, peer_stream_stats, total_opened, negotiated, tagged>>
  BY <1>1 DEF vars, events
<1>4. HasEntry(streams) \in SUBSET streams
  BY DEF HasEntry
<1>5. Handled({}, streams, HasEntry(streams), streams \ streams', {})
  BY <1>3, <1>4, ClosingHandled
<1>6. streams \ streams' = {}
  BY <1>3
<1>7. Handled({}, streams, HasEntry(streams), {}, {})
  BY <1>5, <1>6, Zenon
<1> QED BY <1>1, <1>2, <1>7, TallyKeeps

\* The end of a connection closes its records, and an evicted peer has none left.
LEMMA EndedTallied ==
    ASSUME TallyInv, NEW c \in Conns, ReportsDisconnected(c)
    PROVE  TallyInv'
<1> DEFINE E == stats \ stats'
<1>0. CountsInv /\ TypeOK
  BY DEF TallyInv, CountsInv
<1>1. /\ Disconnected(c) /\ Tally({}, {}, {}, streams \ streams', E) /\ UNCHANGED events
  BY DEF ReportsDisconnected
<1>2. CountsInv'
  BY <1>0, <1>1, DisconnectedKeeps DEF Kept
<1>3. PICK e \in Evictions(current_connections') :
         /\ stats' = stats \ e
         /\ FinalizeRecords({s \in streams : RecordOnConn(s, c)}, e)
  BY <1>1 DEF Disconnected
<1>4. E = e
  BY <1>3, EvictedIdle
<1>5. e \in SUBSET Peers
  BY <1>0, <1>3, EvictedIdle DEF TypeOK
<1> HIDE DEF E
<1>6. /\ streams' \subseteq streams /\ inexact \subseteq inexact'
      /\ peer_stream_stats \ e \subseteq peer_stream_stats'
      /\ \A p \in Peers : total_opened'[p] = IF p \in e THEN 0 ELSE total_opened[p]
  BY <1>3 DEF FinalizeRecords, CountClosed, MarkFinalized
<1>7. \A s \in streams' : Peer(s) \in e => Peer(s) \in inexact'
  <2> DEFINE F == {s \in streams : RecordOnConn(s, c)}
  <2>1. F \in SUBSET streams
    OBVIOUS
  <2> HIDE DEF F
  <2>2. \A p \in e : OnPeer(streams', p) # {} => p \in inexact'
    BY <1>0, <1>3, <1>5, <2>1, FinalizeTypes DEF F
  <2>3. \A s \in streams' : s \in OnPeer(streams', Peer(s))
    BY DEF OnPeer
  <2> QED BY <2>2, <2>3
<1>8. UNCHANGED event
  BY <1>1 DEF Disconnected
<1>9. Handled({}, {}, {}, streams \ streams', e)
  <2> DEFINE none == {}
  <2>1. none \in SUBSET streams /\ none \in SUBSET none /\ HasEntry(none) \subseteq none
    BY DEF HasEntry
  <2> HIDE DEF none
  <2>2. Handled({}, none, none, streams \ streams', e)
    BY <1>1, <1>6, <1>7, <1>8, <2>1, ClosingHandled DEF events
  <2> QED BY <2>2 DEF none
<1>10. Tally({}, {}, {}, streams \ streams', e)
  BY <1>1, <1>4, Zenon
<1> QED BY <1>2, <1>9, <1>10, TallyKeeps

\* The reports of streams are made of counts that agree, in every reachable state.
THEOREM TallyInvariance == ReportsSpec => []TallyInv
<1>1. TallyInv /\ [ReportsNext]_reportVars => TallyInv'
  <2> SUFFICES ASSUME TallyInv, [ReportsNext]_reportVars PROVE TallyInv'
    OBVIOUS
  <2>1. CASE UNCHANGED reportVars
    <3>0. CountsInv /\ TallyTypes
      BY DEF TallyInv
    <3>1. UNCHANGED <<vars, events, fields, tallies>>
      BY <2>1 DEF reportVars
    <3>2. CountsInv'
      BY <3>0, <3>1, VarsKeep DEF Kept
    <3> QED BY <3>0, <3>1, <3>2, TallyUntouched DEF vars, events, TallyTypes
  <2>2. CASE ReportsNext
    BY <2>2, EventsTallied, OpenedTallied, ClosedTallied, SweepTallied, SnapshotTallied, EndedTallied
    DEF ReportsNext
  <2> QED BY <2>1, <2>2
<1> QED BY <1>1, InitTallied, PTL DEF ReportsSpec

\* The records with a direction are those towards one or another.
LEMMA DirectedCounted ==
    ASSUME NEW A \in SUBSET Streams, NEW f \in [Directions -> Nat],
           \A d \in Directions : f[d] = Cardinality(Towards(A, d))
    PROVE  SumFunction(f) = Cardinality(A)
<1> DEFINE class == [s \in A |-> DirectionOf[s]]
<1>1. class \in [A -> Directions] /\ IsFiniteSet(Directions) /\ IsFiniteSet(A)
  BY ReportsAssumption, StreamsCounted DEF ReportsAssumption
<1>2. \A d \in Directions : f[d] = Cardinality({s \in A : class[s] = d})
  <2> TAKE d \in Directions
  <2>1. Towards(A, d) = {s \in A : class[s] = d}
    BY DEF Towards
  <2> QED BY <2>1, Zenon
<1> HIDE DEF class
<1> QED BY <1>1, <1>2, SumOfClasses

\* What the tracker reports of streams agrees with itself.
THEOREM StreamReportsAgree == ReportsSpec => []StreamReportAgrees
<1>1. TallyInv => StreamReportAgrees
  <2> SUFFICES ASSUME TallyInv PROVE StreamReportAgrees
    OBVIOUS
  <2>0. /\ TypeOK /\ CountsExact /\ TallyTypes /\ PeersTallied /\ DirectionsTallied
        /\ ProtocolsTallied
    BY DEF TallyInv, CountsInv
  <2> DEFINE report == StreamReport
  <2>1. ASSUME NEW p \in peer_stream_stats \ inexact
        PROVE  LET ofPeer == report.per_peer[p]
               IN  /\ \A d \in Directions :
                         ofPeer.active[d] = Cardinality(Towards(OnPeer(direction, p), d))
                   /\ ofPeer.total_opened = SumFunction(ofPeer.by_protocol)
    <3>1. PeerTallied(p)
      BY <2>0 DEF PeersTallied, TypeOK
    <3>2. /\ report.per_peer[p].active = open_towards[p]
          /\ report.per_peer[p].total_opened = total_opened[p]
          /\ report.per_peer[p].by_protocol = by_protocol[p]
      BY DEF StreamReport
    <3> HIDE DEF report
    <3> QED BY <3>1, <3>2 DEF PeerTallied
  <2>2. ASSUME NEW p \in DOMAIN SwarmPeers \ inexact
        PROVE  LET row == SwarmPeers[p]
               IN  row.streams_total =
                       SumFunction(row.streams) + Cardinality(OnPeer(streams \ direction, p))
    <3> DEFINE row == SwarmPeers[p]
               f == [d \in Directions |->
                       IF p \in peer_stream_stats THEN open_towards[p][d] ELSE 0]
               A == OnPeer(direction, p)
               B == OnPeer(streams \ direction, p)
    <3>1. p \in Peers
      BY TrackerAssumption DEF TrackerAssumption, SwarmPeers
    <3>2. /\ row.streams_total = (IF p \in peer_stream_stats THEN current_open[p] ELSE 0)
          /\ row.streams = f
      BY DEF SwarmPeers
    <3>3. PeerTallied(p) /\ current_open[p] = Cardinality(OnPeer(streams, p))
      BY <2>0, <3>1 DEF PeersTallied, CountsExact
    <3>4. /\ A \in SUBSET Streams /\ B \in SUBSET Streams /\ A \cap B = {}
          /\ {} \in SUBSET (A \cup B)
      BY <2>0 DEF TypeOK, TallyTypes, OnPeer
    <3>5. OnPeer(streams, p) = A \cup B
      BY <2>0 DEF TallyTypes, OnPeer
    <3>6. f \in [Directions -> Nat] /\ \A d \in Directions : f[d] = Cardinality(Towards(A, d))
      <4>1. f \in [Directions -> Nat]
        BY <2>0, <3>1 DEF TallyTypes
      <4>2. CASE p \in peer_stream_stats
        BY <3>3, <4>1, <4>2 DEF PeerTallied
      <4>3. CASE p \notin peer_stream_stats
        <5>1. \A d : Towards(A, d) = {}
          BY <2>0, <3>3, <4>3 DEF PeerTallied, TallyTypes, OnPeer, Towards
        <5>2. \A d : Cardinality(Towards(A, d)) = 0
          BY <5>1, FS_EmptySet, Zenon
        <5> QED BY <4>1, <4>3, <5>2
      <4> QED BY <4>2, <4>3
    <3> HIDE DEF f, A, B, row
    <3>7. SumFunction(f) = Cardinality(A)
      BY <3>4, <3>6, DirectedCounted
    <3>8. Cardinality(OnPeer(streams, p)) = Cardinality(A) + Cardinality(B)
      <4>1. IsFiniteSet(A) /\ IsFiniteSet(B) /\ Cardinality(A) \in Nat /\ Cardinality(B) \in Nat
        BY <3>4, StreamsCounted
      <4>2. Cardinality(A \cup B) = Cardinality(A) + Cardinality(B) - Cardinality(A \cap B)
        BY <4>1, FS_Union
      <4>3. Cardinality(A \cap B) = 0
        BY <3>4, FS_EmptySet, Zenon
      <4>4. Cardinality(OnPeer(streams, p)) = Cardinality(A \cup B)
        BY <3>5, Zenon
      <4> QED BY <4>1, <4>2, <4>3, <4>4
    <3>9. row.streams_total = Cardinality(OnPeer(streams, p))
      <4>1. CASE p \in peer_stream_stats
        BY <3>2, <3>3, <4>1
      <4>2. CASE p \notin peer_stream_stats
        <5>1. OnPeer(streams, p) = {}
          BY <3>3, <4>2 DEF PeerTallied
        <5> QED BY <3>2, <4>2, <5>1, FS_EmptySet
      <4> QED BY <4>1, <4>2
    <3>10. row.streams_total = SumFunction(row.streams) + Cardinality(B)
      BY <3>2, <3>7, <3>8, <3>9
    <3> QED BY <3>10 DEF row, B
  <2>3. ASSUME inexact = {}, NEW d \in Directions
        PROVE  report.total_opened[d] - report.total_closed[d] = report.active[d]
    <3>1. /\ report.total_opened[d] = total_opened_towards[d]
          /\ report.total_closed[d] = total_closed_towards[d]
          /\ report.active[d] = Cardinality(Towards(direction, d))
      BY DEF StreamReport
    <3>2. total_opened_towards[d] = total_closed_towards[d] + Cardinality(Towards(direction, d))
          /\ total_closed_towards[d] \in Nat
      BY <2>0, <2>3 DEF DirectionsTallied, TallyTypes
    <3>3. Towards(direction, d) \in SUBSET Streams
      BY <2>0 DEF TypeOK, TallyTypes, Towards
    <3>4. Cardinality(Towards(direction, d)) \in Nat
      BY <3>3, StreamsCounted
    <3> HIDE DEF report
    <3> QED BY <3>1, <3>2, <3>4
  <2>4. ASSUME NEW b \in Protocols
        PROVE  report.total_streams_by_protocol[b] <= Cardinality(Speaking(Given, b))
    <3>1. report.total_streams_by_protocol = total_streams_by_protocol
      BY DEF StreamReport
    <3>2. /\ total_streams_by_protocol[b] + Cardinality(Speaking(Pending, b))
                 <= Cardinality(Speaking(Given, b))
          /\ total_streams_by_protocol[b] \in Nat
      BY <2>0 DEF ProtocolsTallied, TallyTypes
    <3>3. Speaking(Pending, b) \in SUBSET Streams /\ Speaking(Given, b) \in SUBSET Streams
      BY <2>0 DEF TypeOK, Pending, Given, Speaking
    <3>4. Cardinality(Speaking(Pending, b)) \in Nat /\ Cardinality(Speaking(Given, b)) \in Nat
      BY <3>3, StreamsCounted
    <3> HIDE DEF report
    <3> QED BY <3>1, <3>2, <3>4
  <2> HIDE DEF report
  <2> QED BY <2>1, <2>2, <2>3, <2>4 DEF StreamReportAgrees, report, Given
<1> QED BY <1>1, TallyInvariance, PTL
=============================================================================
