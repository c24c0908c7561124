------------------------------- MODULE Upkeep --------------------------------
(***************************************************************************)
(* What a running peer does in the background: the keep-alive pings and    *)
(* the stream leak monitor of peer/_maintenance.py, the reprovider, and    *)
(* the calls, the bootstrap and the warm-up of Routing.                    *)
(*                                                                         *)
(* These share no state, so how they interleave says nothing about any of  *)
(* them: a behaviour follows one of them, which UpkeepInit chooses, while  *)
(* others sleep.  Time passes in units of the ping timeout (3 s); what     *)
(* takes less, such as the 100 ms a ping task sleeps at its end, is over   *)
(* before the next tick.                                                   *)
(***************************************************************************)
EXTENDS Routing

CONSTANTS
    Peers,
    Sweep,        \* the interval of the keep-alive sweeps, 15 s
    Permits,      \* of keepalive_semaphore, 25
    Streams,
    Interval,     \* stream_monitor_interval_seconds
    Threshold,    \* stream_leak_threshold_seconds
    Cids

ASSUME UpkeepAssumption ==
    /\ IsFiniteSet(Peers)
    /\ Sweep \in Nat \ {0} /\ Permits \in Nat \ {0}
    /\ Interval \in Nat \ {0} /\ Threshold \in Nat \ {0}

VARIABLES
    loop,         \* the loop this behaviour follows
    connected,    \* peers with a connection that is not closed
    sweepIn,      \* time to the next keep-alive sweep
    inflight,     \* _inflight_pings
    lastPing,     \* time since _last_ping_time[p]
    waiting,      \* ping tasks waiting for the semaphore, by peer
    pinging,      \* ping tasks that hold a permit: peer and time since they began
    spacing,      \* ping tasks asleep for 100 ms at their end
    unpinged,     \* time since a peer connected or a ping of it last ended
    streams,      \* what is known of each stream
    monitorIn,    \* time to the leak monitor's next sweep
    resetting,    \* streams the monitor has yet to look at
    listed,       \* the CIDs in the blockstore, or pinned, by strategy
    round,        \* what the reprovider is doing
    left,         \* the CIDs it has not come to in this round
    tried         \* the CID it has just tried, if any

pingVars == <<connected, sweepIn, inflight, lastPing, waiting, pinging, spacing, unpinged>>
streamVars == <<streams, monitorIn, resetting>>
provideVars == <<listed, round, left, tried>>
loopVars == <<pingVars, streamVars, provideVars>>
upkeepVars == <<loop, loopVars, routingVars>>

Loops == {"ping", "monitor", "provide", "call", "bootstrap", "warmup"}

\* The longest a connected peer goes without a ping.  Its ping ends after the sweep
\* that started it, so less than an interval before the next sweep, which passes the
\* peer over: two intervals, and then the queue for a permit.
PingGap == 2 * Sweep + (Cardinality(Peers) + Permits - 1) \div Permits

\* The longest a stream without a protocol stays open.
StreamGap == Threshold + Interval

Older(age, bound) == IF age > bound THEN age ELSE age + 1

Closed == [open |-> FALSE, protocol |-> FALSE, tracked |-> FALSE, flagged |-> FALSE,
           raised |-> FALSE, age |-> 0]

UpkeepTypeOK ==
    /\ loop \in Loops
    /\ connected \subseteq Peers
    /\ sweepIn \in 0..Sweep
    /\ inflight \subseteq Peers
    /\ lastPing \in [Peers -> 0..(PingGap + 1)]
    /\ waiting \in Seq(Peers)
    /\ pinging \in Seq([peer : Peers, age : {0, 1}])
    /\ Len(pinging) <= Permits
    /\ spacing \in Seq(Peers)
    /\ unpinged \in [Peers -> 0..(PingGap + 1)]
    /\ streams \in [Streams -> [open : BOOLEAN, protocol : BOOLEAN, tracked : BOOLEAN,
                                flagged : BOOLEAN, raised : BOOLEAN, age : 0..(StreamGap + 1)]]
    /\ monitorIn \in 0..Interval
    /\ resetting \subseteq Streams
    /\ listed \subseteq Cids /\ left \subseteq Cids /\ tried \subseteq Cids
    /\ round \in {"listing", "providing", "sleeping"}

UpkeepInit ==
    /\ loop \in Loops
    /\ connected = {} /\ inflight = {}
    /\ sweepIn = Sweep
    /\ lastPing = [p \in Peers |-> PingGap + 1]
    /\ waiting = <<>> /\ pinging = <<>> /\ spacing = <<>>
    /\ unpinged = [p \in Peers |-> 0]
    /\ streams = [s \in Streams |-> Closed]
    /\ monitorIn = Interval
    /\ resetting = {}
    /\ listed = {} /\ left = {} /\ tried = {}
    /\ round = "listing"
    /\ RoutingInit
    /\ loop # "warmup" => tiered /\ known = [p \in Stored |-> "absent"]

-----------------------------------------------------------------------------
(* Keep-alive                                                              *)

Connect(p) ==
    /\ p \notin connected
    /\ connected' = connected \union {p}
    /\ UNCHANGED <<sweepIn, inflight, lastPing, waiting, pinging, spacing, unpinged>>

Disconnect(p) ==
    /\ p \in connected
    /\ connected' = connected \ {p}
    /\ unpinged' = [unpinged EXCEPT ![p] = 0]
    /\ UNCHANGED <<sweepIn, inflight, lastPing, waiting, pinging, spacing>>

\* now - _last_ping_time >= 15, of the peers that are asked about.  A ping that ended
\* a whole interval ago by this clock ended within the tick after the last sweep,
\* hence less than 15 s ago, unless this sweep is late by more than the ping took.
DueSets(peers) ==
    LET past == {p \in peers : lastPing[p] > Sweep} IN
    {past \union late : late \in SUBSET {p \in peers : lastPing[p] = Sweep}}

\* Mutation: peers are marked in flight and not looked up.
PingSweepAgain ==
    /\ sweepIn = 0
    /\ sweepIn' = Sweep
    /\ \E chosen \in DueSets(connected) :
       /\ inflight' = inflight \union chosen
       /\ \E order \in SetToSeqs(chosen) : waiting' = waiting \o order
    /\ UNCHANGED <<connected, lastPing, pinging, spacing, unpinged>>

\* Peers are marked in flight before their tasks start.
PingSweep ==
    /\ sweepIn = 0
    /\ sweepIn' = Sweep
    /\ \E chosen \in DueSets(connected \ inflight) :
       /\ inflight' = inflight \union chosen
       /\ \E order \in SetToSeqs(chosen) : waiting' = waiting \o order
    /\ UNCHANGED <<connected, lastPing, pinging, spacing, unpinged>>

Acquire ==
    /\ waiting # <<>>
    /\ Len(pinging) < Permits
    /\ pinging' = Append(pinging, [peer |-> Head(waiting), age |-> 0])
    /\ waiting' = Tail(waiting)
    /\ UNCHANGED <<connected, sweepIn, inflight, lastPing, spacing, unpinged>>

\* Answered, failed or timed out: all the same to the loop, which notes the time
\* now and not that of the sweep.
PingEnds(i) ==
    LET p == pinging[i].peer IN
    /\ pinging' = RemoveAt(pinging, i)
    /\ spacing' = Append(spacing, p)
    /\ lastPing' = [lastPing EXCEPT ![p] = 0]
    /\ unpinged' = [unpinged EXCEPT ![p] = 0]
    /\ UNCHANGED <<connected, sweepIn, inflight, waiting>>

TaskEnds ==
    /\ spacing # <<>>
    /\ spacing' = Tail(spacing)
    /\ inflight' = inflight \ {Head(spacing)}
    /\ UNCHANGED <<connected, sweepIn, lastPing, waiting, pinging, unpinged>>

\* Mutation: no fail_after around the ping.
PingTickUntimed ==
    /\ sweepIn > 0
    /\ waiting = <<>> \/ Len(pinging) >= Permits
    /\ spacing = <<>>
    /\ sweepIn' = sweepIn - 1
    /\ pinging' = [i \in DOMAIN pinging |-> [pinging[i] EXCEPT !.age = 1]]
    /\ lastPing' = [p \in Peers |-> Older(lastPing[p], PingGap)]
    /\ unpinged' = [p \in Peers |-> IF p \in connected THEN Older(unpinged[p], PingGap) ELSE 0]
    /\ UNCHANGED <<connected, inflight, waiting, spacing>>

\* A ping has at most the timeout, one tick.
PingTick ==
    /\ sweepIn > 0
    /\ \A i \in DOMAIN pinging : pinging[i].age < 1
    /\ waiting = <<>> \/ Len(pinging) = Permits
    /\ spacing = <<>>
    /\ sweepIn' = sweepIn - 1
    /\ pinging' = [i \in DOMAIN pinging |-> [pinging[i] EXCEPT !.age = 1]]
    /\ lastPing' = [p \in Peers |-> Older(lastPing[p], PingGap)]
    /\ unpinged' = [p \in Peers |-> IF p \in connected THEN Older(unpinged[p], PingGap) ELSE 0]
    /\ UNCHANGED <<connected, inflight, waiting, spacing>>

KeepAlive ==
    /\ loop = "ping"
    /\ \/ \E p \in Peers : Connect(p) \/ Disconnect(p)
       \/ PingSweep \/ Acquire \/ TaskEnds \/ PingTick
       \/ \E i \in DOMAIN pinging : PingEnds(i)
    /\ UNCHANGED <<loop, streamVars, provideVars, routingVars>>

-----------------------------------------------------------------------------
(* The stream leak monitor                                                 *)

\* A stream opens; the tracker misses the event or does not.
StreamOpens(s) ==
    /\ ~streams[s].open
    /\ \E tracked \in BOOLEAN :
          streams' = [streams EXCEPT ![s] = [Closed EXCEPT !.open = TRUE, !.tracked = tracked]]
    /\ UNCHANGED <<monitorIn, resetting>>

StreamNegotiates(s) ==
    /\ streams[s].open
    /\ streams' = [streams EXCEPT ![s].protocol = TRUE]
    /\ UNCHANGED <<monitorIn, resetting>>

StreamCloses(s) ==
    /\ streams[s].open
    /\ streams' = [streams EXCEPT ![s] = Closed]
    /\ UNCHANGED <<monitorIn, resetting>>

Old(s) == streams[s].open /\ streams[s].age > Threshold

\* check_for_leaks reports a stream once; the streams are looked at only in a
\* sweep that reports one.
MonitorSweep ==
    LET leaked == {s \in Streams : Old(s) /\ streams[s].tracked /\ ~streams[s].flagged} IN
    /\ monitorIn = 0 /\ resetting = {}
    /\ monitorIn' = Interval
    /\ streams' = [s \in Streams |-> [streams[s] EXCEPT !.flagged = @ \/ s \in leaked]]
    /\ resetting' = IF leaked = {} THEN {} ELSE {s \in Streams : streams[s].open}

\* Mutation: a reset that raises ends the sweep.
ResetStreamOrStop(s) ==
    /\ s \in resetting
    /\ IF Old(s) /\ ~streams[s].protocol
       THEN \/ streams' = [streams EXCEPT ![s] = Closed] /\ resetting' = resetting \ {s}
            \/ streams' = [streams EXCEPT ![s].raised = TRUE] /\ resetting' = {}
       ELSE UNCHANGED streams /\ resetting' = resetting \ {s}
    /\ UNCHANGED monitorIn

\* A stream with a protocol is left alone; a reset that raises is forgotten.
ResetStream(s) ==
    /\ s \in resetting
    /\ resetting' = resetting \ {s}
    /\ IF Old(s) /\ ~streams[s].protocol
       THEN \/ streams' = [streams EXCEPT ![s] = Closed]
            \/ streams' = [streams EXCEPT ![s].raised = TRUE]
       ELSE UNCHANGED streams
    /\ UNCHANGED monitorIn

StreamTick ==
    /\ monitorIn > 0 /\ resetting = {}
    /\ monitorIn' = monitorIn - 1
    /\ streams' = [s \in Streams |->
                      IF streams[s].open THEN [streams[s] EXCEPT !.age = Older(@, StreamGap)]
                                         ELSE streams[s]]
    /\ UNCHANGED resetting

Monitor ==
    /\ loop = "monitor"
    /\ \/ \E s \in Streams : StreamOpens(s) \/ StreamNegotiates(s) \/ StreamCloses(s)
       \/ \E s \in Streams : ResetStream(s)
       \/ MonitorSweep \/ StreamTick
    /\ UNCHANGED <<loop, pingVars, provideVars, routingVars>>

-----------------------------------------------------------------------------
(* The reprovider                                                          *)

\* Blocks are added and collected, pins set and removed.
ListedChanges(c) ==
    /\ listed' = IF c \in listed THEN listed \ {c} ELSE listed \union {c}
    /\ UNCHANGED <<round, left, tried>>

\* all_keys() or get_pins() is copied, or raises and the iteration fails; with
\* nothing to provide reprovide returns.
RoundStarts ==
    /\ round = "listing"
    /\ tried' = {}
    /\ \/ /\ listed # {}
          /\ left' = listed /\ round' = "providing"
       \/ /\ left' = {} /\ round' = "sleeping"
    /\ UNCHANGED listed

\* Mutation: the try is around the loop and not in it.
ProvideOrStop(c) ==
    /\ round = "providing"
    /\ c \in left
    /\ tried' = {c}
    /\ left' \in {left \ {c}, {}}
    /\ UNCHANGED <<listed, round>>

\* routing.provide, of every router in turn, within default_timeout: succeeded,
\* failed and timed out are the same.
Provide(c) ==
    /\ round = "providing"
    /\ c \in left
    /\ tried' = {c}
    /\ left' = left \ {c}
    /\ UNCHANGED <<listed, round>>

RoundEnds ==
    /\ round = "providing" /\ left = {}
    /\ round' = "sleeping"
    /\ tried' = {}
    /\ UNCHANGED <<listed, left>>

Wake ==
    /\ round = "sleeping"
    /\ round' = "listing"
    /\ UNCHANGED <<listed, left, tried>>

ReproviderStep ==
    /\ loop = "provide"
    /\ RoundStarts \/ RoundEnds \/ Wake \/ \E c \in Cids : Provide(c)
    /\ UNCHANGED <<loop, pingVars, streamVars, routingVars>>

StoreStep ==
    /\ loop = "provide"
    /\ \E c \in Cids : ListedChanges(c)
    /\ UNCHANGED <<loop, pingVars, streamVars, routingVars>>

-----------------------------------------------------------------------------
(* Routing                                                                 *)

Calls ==
    /\ loop = "call"
    /\ CallStep
    /\ UNCHANGED <<loop, loopVars, bootVars, warmVars>>

Bootstraps ==
    /\ loop = "bootstrap"
    /\ BootStep
    /\ UNCHANGED <<loop, loopVars, callVars, warmVars>>

WarmsUp ==
    /\ loop = "warmup"
    /\ WarmStep
    /\ UNCHANGED <<loop, loopVars, callVars, bootVars>>

UpkeepNext == KeepAlive \/ Monitor \/ ReproviderStep \/ StoreStep \/ Calls \/ Bootstraps \/ WarmsUp

UpkeepSpec == UpkeepInit /\ [][UpkeepNext]_upkeepVars

\* The loop's sleeps and the calls it awaits end.  A listing that succeeds again
\* and again is what keeps the reprovider going: the store does not raise for ever.
\* Dials have a timeout and trio's clock goes on; a refresh need not end.
UpkeepFairSpec ==
    /\ UpkeepSpec
    /\ WF_upkeepVars(ReproviderStep)
    /\ SF_upkeepVars(ReproviderStep /\ round = "listing" /\ round' = "providing")
    /\ WF_upkeepVars(Bootstraps /\ (Dialled \/ GuardPasses))

-----------------------------------------------------------------------------
(* Properties                                                              *)

\* The types, the permits among them.  A peer is marked in flight exactly while one
\* task is there to ping it: a mark without a task would mute the peer for ever, a
\* second task would let sweeps pile up tasks behind the semaphore.
InflightIsTask ==
    LET peers == [i \in DOMAIN pinging |-> pinging[i].peer] IN
    /\ UpkeepTypeOK
    /\ inflight = ToSet(waiting \o peers \o spacing)
    /\ IsInjective(waiting \o peers \o spacing)

\* A peer that stays connected is pinged at least once in two intervals and the wait
\* for a permit, however pings fail and peers come and go.  That is 30 s and more:
\* twice what the loop's docstring says, and no longer "well within the 30 s QUIC
\* idle window" (_maintenance.py:43).
PingedInTime == \A p \in connected : unpinged[p] <= PingGap

\* A stream without a protocol that the tracker knows is gone one monitor sweep
\* after it came of age, unless its reset raised.
ZombiesGo ==
    \A s \in Streams :
        streams[s].open /\ streams[s].tracked /\ ~streams[s].protocol /\ ~streams[s].raised =>
            streams[s].age <= StreamGap

\* A CID that stays listed is tried again and again, whatever happens to others.
EveryCidTried ==
    \A c \in Cids : loop = "provide" /\ <>[](c \in listed) => []<>(tried = {c})
=============================================================================
