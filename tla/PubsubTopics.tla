----------------------------- MODULE PubsubTopics -----------------------------
(***************************************************************************)
(* Which pubsub topics a peer is subscribed to (peer/_pubsub.py): those it *)
(* is configured with, those users ask for through the API, and those the  *)
(* discovery loop joins and leaves by what the connected peers announce.   *)
(*                                                                         *)
(* Subscribing awaits between the check that the topic is new and its      *)
(* registration, and the discovery pass awaits for each topic it leaves or *)
(* joins; requests of users run in between.  A restart loses everything    *)
(* but the file of the auto-joined topics.  What a subscription delivers   *)
(* is not in this module.                                                  *)
(***************************************************************************)
EXTENDS Integers, FiniteSets

CONSTANTS
    Topics,
    Protected,      \* the configured topics and the peer's own IPNS topic
    Users,          \* requests that run at the same time
    JoinConfirmations, LeaveMisses, MaxExtra

ASSUME PubsubAssumption ==
    /\ IsFiniteSet(Topics)
    /\ Protected \subseteq Topics
    /\ {JoinConfirmations, LeaveMisses} \subseteq Nat \ {0}
    /\ MaxExtra \in Nat
    /\ {"discovery", "start"} \cap Users = {}

Tasks == Users \cup {"discovery"}

VARIABLES
    running,    \* of the peer: it has started and has not gone down
    subs,       \* _pubsub_subscriptions
    stats,      \* _topic_stats
    auto,       \* _auto_joined_topics
    file,       \* auto_pubsub_topics.json
    calls,      \* per task: the topic it awaits libp2p for, or none
    pass,       \* of the discovery pass: "idle", "leaving", "joining"
    toLeave,    \* topics it still has to leave ...
    toJoin,     \* ... and candidates it still has to consider
    changed,    \* joined or left
    (* history *)
    by,         \* per topic: who registered it last
    cold,       \* scans in a row that found too few announcers
    hot,        \* scans that found enough, since the topic was last left or dead
    neglected   \* scans in a row that found it cold while it was subscribed

vars == <<running, subs, stats, auto, file, calls, pass, toLeave, toJoin, changed,
          by, cold, hot, neglected>>
discovery == <<pass, toLeave, toJoin, changed>>
history == <<by, cold, hot, neglected>>

None == "none"
Absent == [hits |-> -1, misses |-> -1]

(* Counters are only compared with their thresholds: hits and misses are kept
   up to them, which bounds the model. *)
UpTo(n, bound) == IF n > bound THEN bound ELSE n

Stats == {Absent} \cup [hits : 0..JoinConfirmations, misses : 0..LeaveMisses]

TypeOK ==
    /\ running \in BOOLEAN
    /\ subs \subseteq Topics /\ auto \subseteq Topics /\ file \subseteq Topics
    /\ stats \in [Topics -> Stats]
    /\ calls \in [Tasks -> Topics \cup {None}]
    /\ pass \in {"idle", "leaving", "joining"}
    /\ toLeave \subseteq Topics \ Protected /\ toJoin \subseteq Topics
    /\ changed \in BOOLEAN
    /\ pass = "idle" => calls["discovery"] = None /\ toLeave = {} /\ toJoin = {} /\ ~changed
    /\ by \in [Topics -> Tasks \cup {"start", None}]
    /\ cold \in [Topics -> 0..LeaveMisses]
    /\ hot \in [Topics -> 0..JoinConfirmations]
    /\ neglected \in [Topics -> 0..(LeaveMisses + 1)]

NoStats == [t \in Topics |-> Absent]
NoCalls == [x \in Tasks |-> None]
Zero == [t \in Topics |-> 0]

Init ==
    /\ running = FALSE
    /\ subs = {} /\ auto = {} /\ file = {}
    /\ stats = NoStats
    /\ calls = NoCalls
    /\ pass = "idle" /\ toLeave = {} /\ toJoin = {} /\ changed = FALSE
    /\ by = [t \in Topics |-> None]
    /\ cold = Zero /\ hot = Zero /\ neglected = Zero

-----------------------------------------------------------------------------
(* Start and end of the peer. *)

(* _load_auto_pubsub_topics: what the file has, or nothing when it cannot be
   read or there is no path for it. *)
LoadedTopics == {file, {}}

(* _init_pubsub: the configured topics, of which `ok' can be subscribed to, then
   those of the file that are new, of which `back' can be.  The latter count as
   auto-joined in any case.  Nothing else runs meanwhile. *)
Start ==
    \E ok \in SUBSET Protected, loaded \in LoadedTopics : \E back \in SUBSET (loaded \ ok) :
        /\ ~running
        /\ running' = TRUE
        /\ subs' = ok \cup back
        /\ auto' = loaded \ ok
        /\ by' = [t \in Topics |-> IF t \in subs' THEN "start" ELSE None]
        /\ UNCHANGED <<stats, file, calls, discovery, cold, hot, neglected>>

(* The process ends, at any point.  The file stays. *)
Stop ==
    /\ running
    /\ running' = FALSE
    /\ subs' = {} /\ auto' = {}
    /\ stats' = NoStats
    /\ calls' = NoCalls
    /\ pass' = "idle" /\ toLeave' = {} /\ toJoin' = {} /\ changed' = FALSE
    /\ by' = [t \in Topics |-> None]
    /\ cold' = Zero /\ hot' = Zero /\ neglected' = Zero
    /\ UNCHANGED file

-----------------------------------------------------------------------------
(* subscribe_pubsub_topic, by a task x: the topic is registered when the call of
   libp2p returns, whoever else did so meanwhile; if it raises, nothing is. *)

Registered(x) ==
    LET t == calls[x]
        new == t \notin subs
    IN  /\ subs' = subs \cup {t}
        /\ by' = [by EXCEPT ![t] = IF new THEN x ELSE @]
        /\ neglected' = [neglected EXCEPT ![t] = IF new THEN 0 ELSE @]

Subscribed(x) ==
    /\ calls[x] # None
    /\ calls' = [calls EXCEPT ![x] = None]
    /\ Registered(x) \/ UNCHANGED <<subs, by, neglected>>
    /\ UNCHANGED <<cold, hot>>

(* The API, for a topic that is not subscribed. *)
UserSubscribes(u, t) ==
    /\ running /\ calls[u] = None
    /\ t \notin subs
    /\ calls' = [calls EXCEPT ![u] = t]
    /\ UNCHANGED <<running, subs, stats, auto, file, discovery, history>>

UserSubscribed(u) ==
    /\ Subscribed(u)
    /\ UNCHANGED <<running, stats, auto, file, discovery>>

(* unsubscribe_pubsub_topic: no longer registered, before libp2p is called.
   The topic's statistics and its place among the auto-joined stay. *)
UserUnsubscribes(t) ==
    /\ running /\ t \in subs
    /\ subs' = subs \ {t}
    /\ UNCHANGED <<running, stats, auto, file, calls, discovery, history>>

-----------------------------------------------------------------------------
(* _pubsub_discovery_pass *)

Hits(t) == IF stats[t] = Absent THEN 0 ELSE stats[t].hits
Misses(t) == IF stats[t] = Absent THEN 0 ELSE stats[t].misses

(* A scan that finds enough announcers of a topic ... *)
Hit(t) == [hits |-> UpTo(Hits(t) + 1, JoinConfirmations), misses |-> 0]

(* Mutation: a dead streak keeps its hits. *)
MissKeepingHits(t) == [hits |-> Hits(t), misses |-> UpTo(Misses(t) + 1, LeaveMisses)]

(* ... and one that does not.  Hits survive until the streak is dead. *)
Miss(t) ==
    LET misses == UpTo(Misses(t) + 1, LeaveMisses)
    IN  [hits |-> IF misses >= LeaveMisses THEN 0 ELSE Hits(t), misses |-> misses]

(* Mutation: > for >=. *)
OverStale(s, t) == s[t] # Absent /\ s[t].misses > LeaveMisses

(* A subscribed topic that is to be left, by the statistics s. *)
Stale(s, t) == s[t] # Absent /\ s[t].misses >= LeaveMisses

(* The scan: enough peers announce the topics of `many', some but too few those
   of `few'.  A topic nobody announces is looked at only if it is known. *)
Scan ==
    \E many \in SUBSET Topics : \E few \in SUBSET (Topics \ many) :
        /\ running /\ pass = "idle"
        /\ pass' = "leaving" /\ changed' = FALSE
        /\ stats' = [t \in Topics |->
               IF t \in many THEN Hit(t)
               ELSE IF t \in few \/ stats[t] # Absent THEN Miss(t)
               ELSE Absent]
        /\ toLeave' = {t \in subs \ Protected : Stale(stats', t)}
        /\ cold' = [t \in Topics |-> IF t \in many THEN 0 ELSE UpTo(cold[t] + 1, LeaveMisses)]
        /\ hot' = [t \in Topics |->
               IF t \in many THEN UpTo(hot[t] + 1, JoinConfirmations)
               ELSE IF cold'[t] = LeaveMisses THEN 0 ELSE hot[t]]
        /\ neglected' = [t \in Topics |->
               IF t \in many \/ t \notin subs THEN 0 ELSE UpTo(neglected[t] + 1, LeaveMisses + 1)]
        /\ UNCHANGED <<running, subs, auto, file, calls, toJoin, by>>

(* One stale topic is unsubscribed, and libp2p is called ... *)
LeaveTopic(t) ==
    /\ pass = "leaving" /\ calls["discovery"] = None
    /\ t \in toLeave
    /\ toLeave' = toLeave \ {t}
    /\ subs' = subs \ {t}
    /\ calls' = [calls EXCEPT !["discovery"] = t]
    /\ UNCHANGED <<running, stats, auto, file, pass, toJoin, changed, history>>

(* ... and, whether that raises or not, forgotten. *)
LeftTopic ==
    LET t == calls["discovery"]
    IN  /\ pass = "leaving" /\ t # None
        /\ calls' = [calls EXCEPT !["discovery"] = None]
        /\ auto' = auto \ {t}
        /\ stats' = [stats EXCEPT ![t] = Absent]
        /\ hot' = [hot EXCEPT ![t] = 0]
        /\ changed' = TRUE
        /\ UNCHANGED <<running, subs, file, pass, toLeave, toJoin, by, cold, neglected>>

(* The candidates, once what is stale has been left. *)
PickCandidates ==
    /\ pass = "leaving" /\ toLeave = {} /\ calls["discovery"] = None
    /\ pass' = "joining"
    /\ toJoin' = {t \in Topics \ subs : Hits(t) >= JoinConfirmations}
    /\ UNCHANGED <<running, subs, stats, auto, file, calls, toLeave, changed, history>>

(* Mutation: room for one more. *)
RoomOffByOne == Cardinality(subs) <= Cardinality(Protected) + MaxExtra

(* The cap is on all subscriptions, the configured ones taken at their number in
   the configuration. *)
Room == Cardinality(subs) < Cardinality(Protected) + MaxExtra

(* A candidate, in an order that is left open, for which there is room; one that
   a user subscribed meanwhile is only entered among the auto-joined. *)
JoinTopic(t) ==
    /\ pass = "joining" /\ calls["discovery"] = None
    /\ t \in toJoin /\ Room
    /\ toJoin' = toJoin \ {t}
    /\ \/ /\ t \notin subs
          /\ calls' = [calls EXCEPT !["discovery"] = t]
          /\ UNCHANGED <<auto, changed>>
       \/ /\ t \in subs
          /\ auto' = auto \cup {t} /\ changed' = TRUE
          /\ UNCHANGED calls
    /\ UNCHANGED <<running, subs, stats, file, pass, toLeave, history>>

(* Joined counts also if the subscription failed. *)
JoinedTopic ==
    /\ pass = "joining"
    /\ Subscribed("discovery")
    /\ auto' = auto \cup {calls["discovery"]} /\ changed' = TRUE
    /\ UNCHANGED <<running, stats, file, pass, toLeave, toJoin>>

(* _save_auto_pubsub_topics: a temporary file replaces the file, or the file
   stays as it is when anything on the way fails, or there is no path. *)
SavedTopics == {file, auto}

(* No candidate or no room is left.  What changed is saved. *)
EndPass ==
    /\ pass = "joining" /\ calls["discovery"] = None
    /\ toJoin = {} \/ ~Room
    /\ pass' = "idle" /\ toJoin' = {} /\ changed' = FALSE
    /\ file' \in IF changed THEN SavedTopics ELSE {file}
    /\ UNCHANGED <<running, subs, stats, auto, calls, toLeave, history>>

-----------------------------------------------------------------------------
Next ==
    \/ Start \/ Stop
    \/ \E u \in Users : UserSubscribed(u) \/ \E t \in Topics : UserSubscribes(u, t)
    \/ \E t \in Topics : UserUnsubscribes(t) \/ LeaveTopic(t) \/ JoinTopic(t)
    \/ Scan \/ LeftTopic \/ PickCandidates \/ JoinedTopic \/ EndPass

Spec == Init /\ [][Next]_vars

-----------------------------------------------------------------------------
(* The topics the discovery joined and the configured ones are together never
   more than the configuration allows, however user requests interleave with
   its passes.  (The topics a user subscribed and those of the file come on top:
   the latter are not held against the cap when they are rejoined.) *)
CapRespected ==
    /\ TypeOK
    /\ Cardinality({t \in subs : by[t] = "discovery" \/ (by[t] = "start" /\ t \notin auto)})
        <= Cardinality(Protected) + MaxExtra

(* A topic is not left before LeaveMisses scans in a row found too few peers,
   and a protected one never, except by a user (no flapping). *)
LeavesJustified ==
    running' /\ pass = "leaving" /\ (\A t \in Topics : ~UserUnsubscribes(t)) =>
        \A t \in subs \ subs' : t \notin Protected /\ cold[t] >= LeaveMisses

(* A dead streak is no evidence: "a later revival starts fresh" (_pubsub.py:214).
   What the discovery subscribes to was found with enough announcers by
   JoinConfirmations scans, and between the first of them and now it was neither
   left nor short of announcers in LeaveMisses scans in a row.  This is less than
   config.py:64 and _pubsub.py:177 promise, that these scans are consecutive: the
   code keeps its hits through fewer misses than that. *)
RevivalsStartFresh ==
    \A t \in subs' \ subs : by'[t] = "discovery" => hot[t] >= JoinConfirmations

(* The discovery leaves a topic on a whole streak of misses (config.py:67), and
   rejoins none on what it saw before such a streak. *)
NoFlapping == [][LeavesJustified /\ RevivalsStartFresh]_vars

(* An auto-joined topic does not stay when too few peers announced it in more
   than LeaveMisses scans in a row (_pubsub.py:181), if the discovery joined it
   since the start.  One that was found in the file has no statistics until
   somebody announces it, and is not left. *)
JoinedStaleTopicsLeft ==
    \A t \in (auto \ Protected) \cap subs : by[t] = "discovery" => neglected[t] <= LeaveMisses
=============================================================================
