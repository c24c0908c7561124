---------------------------- MODULE Pubsub_proofs ----------------------------
(***************************************************************************)
(* PubsubTopics: which topics a peer is subscribed to, for any topics,     *)
(* users and thresholds.  The configured ones and those the discovery      *)
(* joined keep to the cap, a topic is joined and left on its scans alone,  *)
(* and none stays when its time is up.                                     *)
(*                                                                         *)
(* PubsubInbox: the messages of a topic, for every number of requests,     *)
(* receive loops and messages and every size of the deque.  They reach the *)
(* requests once and in order, none is lost on the way, and a topic that   *)
(* is subscribed is read.                                                  *)
(***************************************************************************)
EXTENDS PubsubTopics, PubsubInbox, FiniteSetTheorems, SequenceTheorems, TLAPS

-----------------------------------------------------------------------------
(* PubsubTopics: the invariant                                             *)

\* A peer that is down has no subscriptions, no calls and no discovery pass.  A pass leaves
\* what it has to leave before it joins.
PassInOrder ==
    /\ ~running => pass = "idle" /\ subs = {} /\ calls = NoCalls
    /\ pass = "joining" => toLeave = {}

\* The counters of _topic_stats and the scans that were really seen: a streak of
\* misses was a streak of scans with too few announcers, hits were scans with
\* enough of them, and as long as there are hits both streaks began together.
EvidenceOf(t) ==
    /\ Misses(t) <= cold[t]
    /\ Hits(t) <= hot[t]
    /\ Hits(t) > 0 => cold[t] = Misses(t)

Evidence == \A t \in Topics : EvidenceOf(t)

\* What a pass is about to leave or to join is still justified when it gets there.
Confirmed(t) == hot[t] >= JoinConfirmations /\ stats[t] # Absent

PassJustified ==
    /\ \A t \in toLeave : cold[t] >= LeaveMisses
    /\ pass = "joining" =>
        /\ \A t \in toJoin : Confirmed(t)
        /\ calls["discovery"] # None => Confirmed(calls["discovery"])

\* If the topic that is being left is subscribed, a user has subscribed it again.
LeftAgain ==
    pass = "leaving" /\ calls["discovery"] # None /\ calls["discovery"] \in subs =>
        by[calls["discovery"]] \in Users

\* A topic the discovery joined has statistics, and they show for how long it has
\* been neglected: it is due to be left as soon as that is long enough.
Joined(t) == t \in subs \ Protected /\ by[t] = "discovery"

JoinedKnown ==
    \A t \in Topics : Joined(t) =>
        /\ stats[t] # Absent
        /\ stats[t].misses >= LeaveMisses \/ stats[t].misses >= neglected[t]
        /\ \/ neglected[t] < LeaveMisses
           \/ pass = "leaving" /\ t \in toLeave /\ neglected[t] = LeaveMisses

\* The topics that are held against the cap.  The topic the discovery is about to
\* join has its place while libp2p is awaited.
AgainstCap == {t \in subs : by[t] = "discovery" \/ (by[t] = "start" /\ t \notin auto)}
Cap == Cardinality(Protected) + MaxExtra

PlaceKept ==
    /\ Cardinality(AgainstCap) <= Cap
    /\ pass = "joining" /\ calls["discovery"] # None => Cardinality(AgainstCap) < Cap

TopicsInv ==
    /\ TypeOK
    /\ PassInOrder
    /\ Evidence
    /\ PassJustified
    /\ LeftAgain
    /\ JoinedKnown
    /\ PlaceKept

-----------------------------------------------------------------------------
(* Types                                                                   *)

LEMMA UpToBounded ==
    ASSUME NEW n \in Nat, NEW bound \in Nat
    PROVE  /\ UpTo(n, bound) \in 0..bound
           /\ n <= bound => UpTo(n, bound) = n
           /\ n > bound => UpTo(n, bound) = bound
BY DEF UpTo

\* The statistics of a topic before and after a scan.
LEMMA StatsTyped ==
    ASSUME TypeOK, NEW t \in Topics
    PROVE  /\ Hits(t) \in 0..JoinConfirmations /\ Misses(t) \in 0..LeaveMisses
           /\ stats[t] # Absent => stats[t].hits = Hits(t) /\ stats[t].misses = Misses(t)
           /\ stats[t] = Absent => Hits(t) = 0 /\ Misses(t) = 0
           /\ Hit(t) \in Stats \ {Absent} /\ Miss(t) \in Stats \ {Absent}
<1>1. stats[t] \in Stats /\ JoinConfirmations \in Nat /\ LeaveMisses \in Nat
  BY PubsubAssumption DEF TypeOK
<1>2. /\ Hits(t) \in 0..JoinConfirmations /\ Misses(t) \in 0..LeaveMisses
      /\ stats[t] # Absent => stats[t].hits = Hits(t) /\ stats[t].misses = Misses(t)
      /\ stats[t] = Absent => Hits(t) = 0 /\ Misses(t) = 0
  BY <1>1 DEF Stats, Hits, Misses
<1>3. /\ UpTo(Hits(t) + 1, JoinConfirmations) \in 0..JoinConfirmations
      /\ UpTo(Misses(t) + 1, LeaveMisses) \in 0..LeaveMisses
  <2>1. Hits(t) + 1 \in Nat /\ Misses(t) + 1 \in Nat
    BY <1>1, <1>2
  <2>2. QED
    BY <1>1, <2>1, UpToBounded
<1>4. \A h \in 0..JoinConfirmations, m \in 0..LeaveMisses :
         [hits |-> h, misses |-> m] \in Stats \ {Absent}
  BY DEF Stats, Absent
<1>5. Hit(t) \in Stats \ {Absent}
  BY <1>1, <1>3, <1>4 DEF Hit
<1>6. Miss(t) \in Stats \ {Absent}
  BY <1>1, <1>2, <1>3, <1>4 DEF Miss
<1>7. QED
  BY <1>2, <1>5, <1>6

TypeInv == TypeOK /\ PassInOrder

LEMMA InitTypes == Init => TypeInv
<1> SUFFICES ASSUME Init PROVE TypeOK /\ PassInOrder
  BY DEF TypeInv
<1>1. /\ stats \in [Topics -> Stats] /\ calls \in [Tasks -> Topics \union {None}]
      /\ calls["discovery"] = None
  BY DEF Init, NoStats, NoCalls, Stats, Tasks
<1>2. /\ cold \in [Topics -> 0..LeaveMisses] /\ hot \in [Topics -> 0..JoinConfirmations]
      /\ neglected \in [Topics -> 0..(LeaveMisses + 1)]
  <2>1. 0 \in 0..LeaveMisses /\ 0 \in 0..JoinConfirmations /\ 0 \in 0..(LeaveMisses + 1)
    BY PubsubAssumption
  <2>2. QED
    BY <2>1 DEF Init, Zero
<1>3. by \in [Topics -> Tasks \union {"start", None}]
  BY DEF Init
<1>4. QED
  BY <1>1, <1>2, <1>3 DEF Init, TypeOK, PassInOrder, NoCalls

\* What a subscription of task x does to the bookkeeping.
LEMMA SubscribedEffect ==
    ASSUME TypeOK, NEW x \in Tasks, Subscribed(x)
    PROVE  /\ calls[x] \in Topics /\ calls[x] # None
           /\ calls' = [calls EXCEPT ![x] = None]
           /\ subs \subseteq subs' /\ subs' \subseteq subs \union {calls[x]}
           /\ by' \in [Topics -> Tasks \union {"start", None}]
           /\ neglected' \in [Topics -> 0..(LeaveMisses + 1)]
           /\ \A t \in Topics :
                 IF t \in subs' \ subs THEN by'[t] = x /\ neglected'[t] = 0
                 ELSE by'[t] = by[t] /\ neglected'[t] = neglected[t]
           /\ UNCHANGED <<cold, hot>>
<1>1. /\ calls[x] \in Topics /\ calls[x] # None
      /\ calls' = [calls EXCEPT ![x] = None]
      /\ UNCHANGED <<cold, hot>>
  BY DEF Subscribed, TypeOK
<1>2. CASE UNCHANGED <<subs, by, neglected>>
  BY <1>1, <1>2 DEF TypeOK
<1>3. CASE Registered(x)
  <2>1. /\ subs' = subs \union {calls[x]}
        /\ by' = [by EXCEPT ![calls[x]] = IF calls[x] \notin subs THEN x ELSE by[calls[x]]]
        /\ neglected' = [neglected EXCEPT ![calls[x]] =
                            IF calls[x] \notin subs THEN 0 ELSE neglected[calls[x]]]
    BY <1>3 DEF Registered
  <2>2. by' \in [Topics -> Tasks \union {"start", None}]
    BY <1>1, <2>1 DEF TypeOK
  <2>3. neglected' \in [Topics -> 0..(LeaveMisses + 1)]
    BY <1>1, <2>1, PubsubAssumption DEF TypeOK
  <2>4. QED
    BY <1>1, <2>1, <2>2, <2>3 DEF TypeOK
<1>4. QED
  BY <1>2, <1>3 DEF Subscribed

LEMMA NextTypes == TypeInv /\ [Next]_vars => TypeInv'
<1> SUFFICES ASSUME TypeOK, PassInOrder, [Next]_vars PROVE TypeOK' /\ PassInOrder'
  BY DEF TypeInv
<1>0. "discovery" \in Tasks /\ Users \subseteq Tasks /\ Protected \subseteq Topics
      /\ LeaveMisses \in Nat \ {0} /\ JoinConfirmations \in Nat \ {0} /\ "discovery" \notin Users
  BY PubsubAssumption DEF Tasks
<1>1. CASE Start
  <2>1. PICK ok \in SUBSET Protected, loaded \in LoadedTopics : \E back \in SUBSET (loaded \ ok) :
           /\ ~running /\ running' = TRUE
           /\ subs' = ok \union back /\ auto' = loaded \ ok
           /\ by' = [t \in Topics |-> IF t \in subs' THEN "start" ELSE None]
           /\ UNCHANGED <<stats, file, calls, discovery, cold, hot, neglected>>
    BY <1>1 DEF Start
  <2>2. loaded \subseteq Topics
    BY DEF LoadedTopics, TypeOK
  <2>3. subs' \subseteq Topics /\ auto' \subseteq Topics
    BY <1>0, <2>1, <2>2
  <2>4. by' \in [Topics -> Tasks \union {"start", None}]
    BY <2>1
  <2>5. QED
    BY <2>1, <2>3, <2>4 DEF TypeOK, PassInOrder, discovery
<1>2. CASE Stop
  <2>1. /\ stats' \in [Topics -> Stats] /\ calls' \in [Tasks -> Topics \union {None}]
        /\ calls'["discovery"] = None
    BY <1>0, <1>2 DEF Stop, NoStats, NoCalls, Stats
  <2>2. /\ cold' \in [Topics -> 0..LeaveMisses] /\ hot' \in [Topics -> 0..JoinConfirmations]
        /\ neglected' \in [Topics -> 0..(LeaveMisses + 1)]
    <3>1. 0 \in 0..LeaveMisses /\ 0 \in 0..JoinConfirmations /\ 0 \in 0..(LeaveMisses + 1)
      BY <1>0
    <3>2. QED
      BY <1>2, <3>1 DEF Stop, Zero
  <2>3. by' \in [Topics -> Tasks \union {"start", None}]
    BY <1>2 DEF Stop
  <2>4. QED
    BY <1>2, <2>1, <2>2, <2>3 DEF Stop, TypeOK, PassInOrder
<1>3. ASSUME NEW u \in Users, UserSubscribed(u) PROVE TypeOK' /\ PassInOrder'
  <2>1. /\ Subscribed(u) /\ UNCHANGED <<running, stats, auto, file, discovery>> /\ u # "discovery"
    BY <1>0, <1>3 DEF UserSubscribed
  <2>2. /\ subs' \subseteq Topics /\ calls' \in [Tasks -> Topics \union {None}]
        /\ calls'["discovery"] = calls["discovery"]
        /\ by' \in [Topics -> Tasks \union {"start", None}]
        /\ neglected' \in [Topics -> 0..(LeaveMisses + 1)]
        /\ UNCHANGED <<cold, hot>>
    BY <1>0, <2>1, SubscribedEffect DEF TypeOK
  <2>3. TypeOK'
    BY <2>1, <2>2 DEF TypeOK, discovery
  <2>4. PassInOrder'
    <3>1. calls[u] # None
      BY <1>0, <2>1, SubscribedEffect
    <3>2. running
      BY <1>0, <3>1 DEF PassInOrder, NoCalls
    <3>3. QED
      BY <2>1, <3>2 DEF PassInOrder, discovery
  <2>5. QED
    BY <2>3, <2>4
<1>4. ASSUME NEW u \in Users, NEW t \in Topics, UserSubscribes(u, t) PROVE TypeOK' /\ PassInOrder'
  <2>1. calls' = [calls EXCEPT ![u] = t] /\ u # "discovery" /\ u \in Tasks
    BY <1>0, <1>4 DEF UserSubscribes
  <2>2. calls' \in [Tasks -> Topics \union {None}] /\ calls'["discovery"] = calls["discovery"]
    BY <1>0, <2>1 DEF TypeOK
  <2>3. QED
    BY <1>4, <2>2 DEF UserSubscribes, TypeOK, PassInOrder, discovery, history
<1>5. ASSUME NEW t \in Topics, UserUnsubscribes(t) PROVE TypeOK' /\ PassInOrder'
  BY <1>5 DEF UserUnsubscribes, TypeOK, PassInOrder, discovery, history
<1>6. ASSUME NEW t \in Topics, LeaveTopic(t) PROVE TypeOK' /\ PassInOrder'
  <2>1. calls' \in [Tasks -> Topics \union {None}]
    BY <1>0, <1>6 DEF LeaveTopic, TypeOK
  <2>2. QED
    BY <1>6, <2>1 DEF LeaveTopic, TypeOK, PassInOrder, history
<1>7. ASSUME NEW t \in Topics, JoinTopic(t) PROVE TypeOK' /\ PassInOrder'
  <2>1. calls' \in [Tasks -> Topics \union {None}] /\ auto' \subseteq Topics /\ changed' \in BOOLEAN
    BY <1>0, <1>7 DEF JoinTopic, TypeOK
  <2>2. QED
    BY <1>7, <2>1 DEF JoinTopic, TypeOK, PassInOrder, history
<1>8. CASE Scan
  <2>1. PICK many \in SUBSET Topics : \E few \in SUBSET (Topics \ many) :
        /\ running /\ pass = "idle"
        /\ pass' = "leaving" /\ changed' = FALSE
        /\ stats' = [t \in Topics |->
               IF t \in many THEN Hit(t)
               ELSE IF t \in few \/ stats[t] # Absent THEN Miss(t)
               ELSE Absent]
        /\ toLeave' = {t \in subs \ Protected : Stale(stats', t)}
        /\ cold' = [t \in Topics |-> IF t \in many THEN 0 ELSE UpTo(cold[t] + 1, LeaveMisses)]
        /\ hot' = [t \in Topics |->
               IF t \in many THEN UpTo(hot[t] + 1, JoinConfirmations)
               ELSE IF cold'[t] = LeaveMisses THEN 0 ELSE hot[t]]
        /\ neglected' = [t \in Topics |->
               IF t \in many \/ t \notin subs THEN 0 ELSE UpTo(neglected[t] + 1, LeaveMisses + 1)]
        /\ UNCHANGED <<running, subs, auto, file, calls, toJoin, by>>
    BY <1>8 DEF Scan
  <2>2. PICK few \in SUBSET (Topics \ many) :
            stats' = [t \in Topics |->
               IF t \in many THEN Hit(t)
               ELSE IF t \in few \/ stats[t] # Absent THEN Miss(t)
               ELSE Absent]
    BY <2>1
  <2>3. stats' \in [Topics -> Stats]
    <3>1. Absent \in Stats
      BY DEF Stats
    <3>2. QED
      BY <2>2, <3>1, StatsTyped
  <2>4. \A t \in Topics : /\ cold[t] + 1 \in Nat /\ hot[t] + 1 \in Nat /\ neglected[t] + 1 \in Nat
                           /\ hot[t] \in 0..JoinConfirmations
    BY <1>0 DEF TypeOK
  <2>5. cold' \in [Topics -> 0..LeaveMisses]
    <3>1. \A t \in Topics : UpTo(cold[t] + 1, LeaveMisses) \in 0..LeaveMisses /\ 0 \in 0..LeaveMisses
      BY <1>0, <2>4, UpToBounded
    <3>2. QED
      BY <2>1, <3>1
  <2>6. hot' \in [Topics -> 0..JoinConfirmations]
    <3>1. \A t \in Topics : /\ UpTo(hot[t] + 1, JoinConfirmations) \in 0..JoinConfirmations
                             /\ 0 \in 0..JoinConfirmations
      BY <1>0, <2>4, UpToBounded
    <3>2. QED
      BY <2>1, <2>4, <3>1
  <2>7. neglected' \in [Topics -> 0..(LeaveMisses + 1)]
    <3>1. \A t \in Topics : /\ UpTo(neglected[t] + 1, LeaveMisses + 1) \in 0..(LeaveMisses + 1)
                             /\ 0 \in 0..(LeaveMisses + 1)
      BY <1>0, <2>4, UpToBounded
    <3>2. QED
      BY <2>1, <3>1
  <2>8. toLeave' \subseteq Topics \ Protected
    BY <2>1 DEF TypeOK
  <2>9. /\ running /\ pass' = "leaving" /\ changed' = FALSE
        /\ UNCHANGED <<running, subs, auto, file, calls, toJoin, by>>
    BY <2>1
  <2>10. QED
    BY <2>3, <2>5, <2>6, <2>7, <2>8, <2>9 DEF TypeOK, PassInOrder
<1>9. CASE LeftTopic
  <2>1. /\ calls["discovery"] \in Topics
        /\ calls' = [calls EXCEPT !["discovery"] = None]
        /\ stats' = [stats EXCEPT ![calls["discovery"]] = Absent]
        /\ hot' = [hot EXCEPT ![calls["discovery"]] = 0]
    BY <1>0, <1>9 DEF LeftTopic, TypeOK
  <2>2. calls' \in [Tasks -> Topics \union {None}]
    BY <1>0, <2>1 DEF TypeOK
  <2>3. stats' \in [Topics -> Stats]
    BY <2>1 DEF TypeOK, Stats
  <2>4. hot' \in [Topics -> 0..JoinConfirmations]
    BY <1>0, <2>1 DEF TypeOK
  <2>5. QED
    BY <1>9, <2>2, <2>3, <2>4 DEF LeftTopic, TypeOK, PassInOrder
<1>10. CASE PickCandidates
  BY <1>10 DEF PickCandidates, TypeOK, PassInOrder, history
<1>11. CASE JoinedTopic
  <2>1. /\ Subscribed("discovery") /\ UNCHANGED <<running, stats, file, pass, toLeave, toJoin>>
        /\ pass = "joining" /\ changed' = TRUE /\ auto' = auto \union {calls["discovery"]}
    BY <1>11 DEF JoinedTopic
  <2>2. /\ subs' \subseteq Topics /\ calls' \in [Tasks -> Topics \union {None}]
        /\ auto' \subseteq Topics
        /\ by' \in [Topics -> Tasks \union {"start", None}]
        /\ neglected' \in [Topics -> 0..(LeaveMisses + 1)]
        /\ UNCHANGED <<cold, hot>>
    BY <1>0, <2>1, SubscribedEffect DEF TypeOK
  <2>3. QED
    BY <2>1, <2>2 DEF TypeOK, PassInOrder
<1>12. CASE EndPass
  <2>1. file' \subseteq Topics
    BY <1>12 DEF EndPass, SavedTopics, TypeOK
  <2>2. QED
    BY <1>12, <2>1 DEF EndPass, TypeOK, PassInOrder, history
<1>13. CASE UNCHANGED vars
  BY <1>13 DEF vars, discovery, history, TypeOK, PassInOrder
<1>14. QED
  BY <1>1, <1>2, <1>3, <1>4, <1>5, <1>6, <1>7, <1>8, <1>9, <1>10, <1>11, <1>12, <1>13 DEF Next

-----------------------------------------------------------------------------
(* What the statistics are worth                                           *)

\* A scan, topic by topic.
LEMMA ScanEffect ==
    ASSUME TypeOK, Scan
    PROVE  /\ pass = "idle" /\ pass' = "leaving" /\ running
           /\ UNCHANGED <<running, subs, auto, file, calls, toJoin, by>>
           /\ toLeave' = {t \in subs \ Protected : Stale(stats', t)}
           /\ \A t \in Topics :
                 \/ /\ stats'[t] = Hit(t) /\ cold'[t] = 0 /\ neglected'[t] = 0
                    /\ hot'[t] = UpTo(hot[t] + 1, JoinConfirmations)
                 \/ /\ stats'[t] = IF stats[t] = Absent /\ stats'[t] = Absent THEN Absent ELSE Miss(t)
                    /\ cold'[t] = UpTo(cold[t] + 1, LeaveMisses)
                    /\ hot'[t] = IF cold'[t] = LeaveMisses THEN 0 ELSE hot[t]
                    /\ neglected'[t] = IF t \in subs THEN UpTo(neglected[t] + 1, LeaveMisses + 1)
                                      ELSE 0
<1>1. PICK many \in SUBSET Topics, few \in SUBSET Topics :
        /\ stats' = [t \in Topics |->
               IF t \in many THEN Hit(t)
               ELSE IF t \in few \/ stats[t] # Absent THEN Miss(t)
               ELSE Absent]
        /\ cold' = [t \in Topics |-> IF t \in many THEN 0 ELSE UpTo(cold[t] + 1, LeaveMisses)]
        /\ hot' = [t \in Topics |->
               IF t \in many THEN UpTo(hot[t] + 1, JoinConfirmations)
               ELSE IF cold'[t] = LeaveMisses THEN 0 ELSE hot[t]]
        /\ neglected' = [t \in Topics |->
               IF t \in many \/ t \notin subs THEN 0 ELSE UpTo(neglected[t] + 1, LeaveMisses + 1)]
  BY DEF Scan
<1>2. /\ pass = "idle" /\ pass' = "leaving" /\ running
      /\ UNCHANGED <<running, subs, auto, file, calls, toJoin, by>>
      /\ toLeave' = {t \in subs \ Protected : Stale(stats', t)}
  BY DEF Scan
<1>3. ASSUME NEW t \in Topics
      PROVE  \/ /\ stats'[t] = Hit(t) /\ cold'[t] = 0 /\ neglected'[t] = 0
                /\ hot'[t] = UpTo(hot[t] + 1, JoinConfirmations)
             \/ /\ stats'[t] = IF stats[t] = Absent /\ stats'[t] = Absent THEN Absent ELSE Miss(t)
                /\ cold'[t] = UpTo(cold[t] + 1, LeaveMisses)
                /\ hot'[t] = IF cold'[t] = LeaveMisses THEN 0 ELSE hot[t]
                /\ neglected'[t] = IF t \in subs THEN UpTo(neglected[t] + 1, LeaveMisses + 1) ELSE 0
  <2>1. CASE t \in many
    BY <1>1, <2>1
  <2>2. CASE t \notin many
    BY <1>1, <2>2
  <2>3. QED
    BY <2>1, <2>2
<1>4. QED
  BY <1>2, <1>3

\* What a scan does to the statistics of a topic, in numbers.
LEMMA ScanNumbers ==
    ASSUME TypeOK, NEW t \in Topics
    PROVE  /\ Hit(t).hits = UpTo(Hits(t) + 1, JoinConfirmations) /\ Hit(t).misses = 0
           /\ Miss(t).misses = UpTo(Misses(t) + 1, LeaveMisses)
           /\ Miss(t).hits = IF Miss(t).misses >= LeaveMisses THEN 0 ELSE Hits(t)
           /\ Hit(t) # Absent /\ Miss(t) # Absent
           /\ cold[t] \in 0..LeaveMisses /\ hot[t] \in 0..JoinConfirmations
           /\ neglected[t] \in 0..(LeaveMisses + 1)
           /\ Hits(t) \in 0..JoinConfirmations /\ Misses(t) \in 0..LeaveMisses
           /\ LeaveMisses \in Nat \ {0} /\ JoinConfirmations \in Nat \ {0}
<1>1. Hit(t) # Absent /\ Miss(t) # Absent
  BY StatsTyped
<1>2. QED
  BY <1>1, StatsTyped, PubsubAssumption DEF TypeOK, Hit, Miss

LEMMA EvidenceStep ==
    ASSUME TypeOK, TypeOK', PassInOrder, Evidence, [Next]_vars
    PROVE  Evidence'
<1>1. CASE UNCHANGED <<stats, cold, hot>>
  BY <1>1 DEF Evidence, EvidenceOf, Hits, Misses
<1>2. CASE Stop
  <2>1. \A t \in Topics : stats'[t] = Absent /\ cold'[t] = 0 /\ hot'[t] = 0
    BY <1>2 DEF Stop, NoStats, Zero
  <2>2. QED
    BY <2>1 DEF Evidence, EvidenceOf, Hits, Misses
<1>3. CASE Scan
  <2> SUFFICES ASSUME NEW t \in Topics PROVE EvidenceOf(t)'
    BY DEF Evidence
  <2>1. EvidenceOf(t)
    BY DEF Evidence
  <2>2. /\ Hit(t).hits = UpTo(Hits(t) + 1, JoinConfirmations) /\ Hit(t).misses = 0
        /\ Miss(t).misses = UpTo(Misses(t) + 1, LeaveMisses)
        /\ Miss(t).hits = IF Miss(t).misses >= LeaveMisses THEN 0 ELSE Hits(t)
        /\ Hit(t) # Absent /\ Miss(t) # Absent
        /\ cold[t] \in 0..LeaveMisses /\ hot[t] \in 0..JoinConfirmations
        /\ Hits(t) \in 0..JoinConfirmations /\ Misses(t) \in 0..LeaveMisses
        /\ LeaveMisses \in Nat \ {0} /\ JoinConfirmations \in Nat \ {0}
    BY ScanNumbers
  <2>3. /\ Hits(t)' = IF stats'[t] = Absent THEN 0 ELSE stats'[t].hits
        /\ Misses(t)' = IF stats'[t] = Absent THEN 0 ELSE stats'[t].misses
    BY DEF Hits, Misses
  <2>4. CASE stats'[t] = Hit(t) /\ cold'[t] = 0 /\ hot'[t] = UpTo(hot[t] + 1, JoinConfirmations)
    <3>1. Hits(t)' = UpTo(Hits(t) + 1, JoinConfirmations) /\ Misses(t)' = 0
      BY <2>2, <2>3, <2>4
    <3>2. Hits(t)' <= hot'[t]
      BY <2>1, <2>2, <2>4, <3>1 DEF UpTo, EvidenceOf
    <3>3. QED
      BY <2>4, <3>1, <3>2 DEF EvidenceOf
  <2>5. CASE /\ stats'[t] = Miss(t) /\ cold'[t] = UpTo(cold[t] + 1, LeaveMisses)
             /\ hot'[t] = IF cold'[t] = LeaveMisses THEN 0 ELSE hot[t]
    <3>1. /\ Misses(t)' = UpTo(Misses(t) + 1, LeaveMisses)
          /\ Hits(t)' = IF Misses(t)' >= LeaveMisses THEN 0 ELSE Hits(t)
      BY <2>2, <2>3, <2>5
    <3>2. Misses(t)' <= cold'[t] /\ (Hits(t) > 0 => cold'[t] = Misses(t)')
      BY <2>1, <2>2, <2>5, <3>1 DEF UpTo, EvidenceOf
    <3>3. Hits(t)' <= hot'[t]
      BY <2>1, <2>2, <2>5, <3>1, <3>2 DEF UpTo, EvidenceOf
    <3>4. Hits(t)' > 0 => Hits(t) > 0
      BY <2>2, <3>1
    <3>5. QED
      BY <3>2, <3>3, <3>4 DEF EvidenceOf
  <2>6. CASE /\ stats'[t] = Absent /\ cold'[t] = UpTo(cold[t] + 1, LeaveMisses)
             /\ hot'[t] = IF cold'[t] = LeaveMisses THEN 0 ELSE hot[t]
    BY <2>2, <2>3, <2>6 DEF EvidenceOf, UpTo
  <2>7. QED
    BY <1>3, <2>4, <2>5, <2>6, ScanEffect
<1>4. CASE LeftTopic
  <2>1. /\ calls["discovery"] \in Topics
        /\ stats' = [stats EXCEPT ![calls["discovery"]] = Absent]
        /\ hot' = [hot EXCEPT ![calls["discovery"]] = 0] /\ cold' = cold
    BY <1>4 DEF LeftTopic, TypeOK, Tasks
  <2> SUFFICES ASSUME NEW t \in Topics PROVE EvidenceOf(t)'
    BY DEF Evidence
  <2>2. EvidenceOf(t) /\ cold[t] >= 0
    BY PubsubAssumption DEF Evidence, TypeOK
  <2>3. CASE t = calls["discovery"]
    BY <2>1, <2>2, <2>3 DEF TypeOK, EvidenceOf, Hits, Misses
  <2>4. CASE t # calls["discovery"]
    BY <2>1, <2>2, <2>4 DEF TypeOK, EvidenceOf, Hits, Misses
  <2>5. QED
    BY <2>3, <2>4
<1>5. QED
  BY <1>1, <1>2, <1>3, <1>4
  DEF Next, vars, Start, UserSubscribed, Subscribed, UserSubscribes, UserUnsubscribes, LeaveTopic,
      JoinTopic, PickCandidates, JoinedTopic, EndPass, history

-----------------------------------------------------------------------------
(* A pass of the discovery, and what users do meanwhile                    *)

\* What a user does leaves the pass alone, and its evidence.
LEMMA UserSteps ==
    ASSUME TypeOK, NEW u \in Users,
           UserSubscribed(u) \/ \E t \in Topics : UserSubscribes(u, t) \/ UserUnsubscribes(t)
    PROVE  /\ UNCHANGED <<running, stats, auto, file, discovery, cold, hot>>
           /\ calls'["discovery"] = calls["discovery"]
<1>0. u \in Tasks /\ u # "discovery" /\ "discovery" \in Tasks
  BY PubsubAssumption DEF Tasks
<1>1. CASE UserSubscribed(u)
  <2>1. UNCHANGED <<cold, hot>> /\ calls' = [calls EXCEPT ![u] = None]
    BY <1>0, <1>1, SubscribedEffect DEF UserSubscribed
  <2>2. QED
    BY <1>0, <1>1, <2>1 DEF UserSubscribed, TypeOK
<1>2. CASE \E t \in Topics : UserSubscribes(u, t) \/ UserUnsubscribes(t)
  BY <1>0, <1>2 DEF UserSubscribes, UserUnsubscribes, TypeOK, history
<1>3. QED
  BY <1>1, <1>2

LEMMA PassJustifiedStep ==
    ASSUME TypeOK, TypeOK', Evidence, Evidence', PassJustified, [Next]_vars
    PROVE  PassJustified'
<1>0. "discovery" \in Tasks
  BY DEF Tasks
<1>1. CASE UNCHANGED <<stats, hot, cold, pass, toLeave, toJoin>> /\ calls'["discovery"] = calls["discovery"]
  BY <1>1 DEF PassJustified, Confirmed
<1>2. CASE Stop
  BY <1>2 DEF Stop, PassJustified
<1>3. CASE Scan
  <2>1. pass' # "joining" /\ toLeave' = {t \in subs \ Protected : Stale(stats', t)}
    BY <1>3, ScanEffect
  <2>2. ASSUME NEW t \in toLeave' PROVE cold'[t] >= LeaveMisses
    <3>1. t \in Topics /\ stats'[t] # Absent /\ stats'[t].misses >= LeaveMisses
      BY <2>1, <2>2 DEF Stale, TypeOK
    <3>2. Misses(t)' >= LeaveMisses /\ Misses(t)' <= cold'[t]
      BY <3>1 DEF Misses, Evidence, EvidenceOf
    <3>3. Misses(t)' \in Nat /\ cold'[t] \in Nat /\ LeaveMisses \in Nat
      <4>1. stats'[t] \in Stats /\ cold'[t] \in 0..LeaveMisses /\ LeaveMisses \in Nat
        BY <3>1, PubsubAssumption DEF TypeOK
      <4>2. QED
        BY <3>1, <4>1 DEF Misses, Stats
    <3>4. QED
      BY <3>2, <3>3
  <2>3. QED
    BY <2>1, <2>2 DEF PassJustified
<1>4. ASSUME NEW t \in Topics, LeaveTopic(t) PROVE PassJustified'
  BY <1>4 DEF LeaveTopic, PassJustified, history
<1>5. CASE LeftTopic
  BY <1>5 DEF LeftTopic, PassJustified
<1>6. CASE PickCandidates
  <2>1. /\ pass' = "joining" /\ calls["discovery"] = None
        /\ toJoin' = {t \in Topics \ subs : Hits(t) >= JoinConfirmations}
        /\ UNCHANGED <<stats, calls, toLeave, hot, cold>>
    BY <1>6 DEF PickCandidates, history
  <2>2. ASSUME NEW t \in toJoin' PROVE Confirmed(t)
    <3>1. t \in Topics /\ Hits(t) >= JoinConfirmations
      BY <2>1, <2>2
    <3>2. Hits(t) \in Nat /\ hot[t] \in Nat /\ JoinConfirmations \in Nat \ {0} /\ Hits(t) <= hot[t]
      BY <3>1, ScanNumbers DEF Evidence, EvidenceOf
    <3>3. stats[t] # Absent
      BY <3>1, <3>2 DEF Hits
    <3>4. QED
      BY <3>1, <3>2, <3>3 DEF Confirmed
  <2>3. QED
    BY <2>1, <2>2 DEF PassJustified, Confirmed
<1>7. ASSUME NEW t \in Topics, JoinTopic(t) PROVE PassJustified'
  <2>1. /\ pass = "joining" /\ t \in toJoin /\ toJoin' \subseteq toJoin
        /\ UNCHANGED <<stats, hot, cold, pass, toLeave>>
        /\ calls' = calls \/ calls' = [calls EXCEPT !["discovery"] = t]
    BY <1>7 DEF JoinTopic, history
  <2>2. Confirmed(t) /\ (calls["discovery"] # None => Confirmed(calls["discovery"]))
    BY <2>1 DEF PassJustified
  <2>3. calls'["discovery"] # None => Confirmed(calls'["discovery"])
    BY <1>0, <2>1, <2>2 DEF TypeOK
  <2>4. QED
    BY <2>1, <2>3 DEF PassJustified, Confirmed
<1>8. CASE JoinedTopic
  <2>1. /\ Subscribed("discovery") /\ UNCHANGED <<stats, pass, toLeave, toJoin>>
    BY <1>8 DEF JoinedTopic
  <2>2. UNCHANGED <<cold, hot>> /\ calls' = [calls EXCEPT !["discovery"] = None]
    BY <1>0, <2>1, SubscribedEffect
  <2>3. calls'["discovery"] = None
    BY <1>0, <2>2 DEF TypeOK
  <2>4. QED
    BY <2>1, <2>2, <2>3 DEF PassJustified, Confirmed
<1>9. CASE EndPass
  BY <1>9 DEF EndPass, PassJustified, history
<1>10. CASE Start
  BY <1>1, <1>10 DEF Start, discovery
<1>11. ASSUME NEW u \in Users,
              UserSubscribed(u) \/ \E t \in Topics : UserSubscribes(u, t)
       PROVE  PassJustified'
  BY <1>1, <1>11, UserSteps DEF discovery
<1>12. ASSUME NEW t \in Topics, UserUnsubscribes(t) PROVE PassJustified'
  BY <1>1, <1>12 DEF UserUnsubscribes, discovery, history
<1>13. CASE UNCHANGED vars
  BY <1>1, <1>13 DEF vars, discovery, history
<1>14. QED
  BY <1>2, <1>3, <1>4, <1>5, <1>6, <1>7, <1>8, <1>9, <1>10, <1>11, <1>12, <1>13 DEF Next

\* A topic that is being left is not subscribed, unless by a user, who then counts
\* as the one that registered it.
LEMMA LeftAgainStep ==
    ASSUME TypeOK, TypeOK', PassInOrder, LeftAgain, [Next]_vars
    PROVE  LeftAgain'
<1>0. "discovery" \in Tasks /\ Users \subseteq Tasks
  BY DEF Tasks
<1>1. CASE pass' # "leaving" \/ calls'["discovery"] = None
  BY <1>1 DEF LeftAgain
<1>2. CASE UNCHANGED <<pass, by>> /\ calls'["discovery"] = calls["discovery"] /\ subs' \subseteq subs
  BY <1>2 DEF LeftAgain
<1>3. CASE Start
  BY <1>1, <1>3 DEF Start, discovery, PassInOrder
<1>4. CASE Stop
  BY <1>1, <1>4 DEF Stop
<1>5. ASSUME NEW u \in Users, UserSubscribed(u) PROVE LeftAgain'
  <2>1. /\ UNCHANGED <<running, stats, auto, file, discovery, cold, hot>>
        /\ calls'["discovery"] = calls["discovery"] /\ Subscribed(u) /\ u \in Tasks
    BY <1>0, <1>5, UserSteps DEF UserSubscribed
  <2>2. \A t \in Topics : t \in subs' => by'[t] = u \/ (t \in subs /\ by'[t] = by[t])
    BY <2>1, SubscribedEffect
  <2>3. pass' = pass
    BY <2>1 DEF discovery
  <2>4. subs' \subseteq Topics
    BY DEF TypeOK
  <2>5. QED
    BY <2>1, <2>2, <2>3, <2>4 DEF LeftAgain
<1>6. ASSUME NEW u \in Users, NEW t \in Topics, UserSubscribes(u, t) PROVE LeftAgain'
  <2>1. /\ UNCHANGED <<running, stats, auto, file, discovery, cold, hot>>
        /\ calls'["discovery"] = calls["discovery"]
    BY <1>6, UserSteps
  <2>2. QED
    BY <1>2, <1>6, <2>1 DEF UserSubscribes, history, discovery
<1>7. ASSUME NEW t \in Topics, UserUnsubscribes(t) PROVE LeftAgain'
  BY <1>2, <1>7 DEF UserUnsubscribes, discovery, history
<1>8. ASSUME NEW t \in Topics, LeaveTopic(t) PROVE LeftAgain'
  <2>1. subs' = subs \ {t} /\ calls' = [calls EXCEPT !["discovery"] = t]
    BY <1>8 DEF LeaveTopic
  <2>2. calls'["discovery"] \notin subs'
    BY <1>0, <2>1 DEF TypeOK
  <2>3. QED
    BY <2>2 DEF LeftAgain
<1>9. CASE LeftTopic
  <2>1. calls'["discovery"] = None
    BY <1>0, <1>9 DEF LeftTopic, TypeOK
  <2>2. QED
    BY <1>1, <2>1
<1>10. CASE Scan
  <2>1. calls'["discovery"] = None
    BY <1>10, ScanEffect DEF TypeOK
  <2>2. QED
    BY <1>1, <2>1
<1>11. CASE UNCHANGED vars
  BY <1>2, <1>11 DEF vars, discovery, history
<1>12. CASE PickCandidates \/ JoinedTopic \/ EndPass \/ \E t \in Topics : JoinTopic(t)
  BY <1>1, <1>12 DEF PickCandidates, JoinedTopic, EndPass, JoinTopic
<1>13. QED
  BY <1>3, <1>4, <1>5, <1>6, <1>7, <1>8, <1>9, <1>10, <1>11, <1>12 DEF Next

\* The discovery knows what it has joined.
LEMMA JoinedKnownStep ==
    ASSUME TypeOK, TypeOK', PassInOrder, PassJustified, LeftAgain, JoinedKnown, [Next]_vars
    PROVE  JoinedKnown'
<1>0. "discovery" \in Tasks /\ Users \subseteq Tasks /\ "discovery" \notin Users
      /\ LeaveMisses \in Nat \ {0}
  BY PubsubAssumption DEF Tasks
<1>1. CASE UNCHANGED <<stats, by, neglected, toLeave, pass>> /\ subs' \subseteq subs
  BY <1>1 DEF JoinedKnown, Joined
<1>2. CASE \A t \in Topics : ~Joined(t)'
  BY <1>2 DEF JoinedKnown
<1>3. CASE Start
  BY <1>2, <1>3 DEF Start, Joined, None
<1>4. CASE Stop
  BY <1>2, <1>4 DEF Stop, Joined
<1>5. ASSUME NEW u \in Users, UserSubscribed(u) PROVE JoinedKnown'
  <2>1. /\ UNCHANGED <<running, stats, auto, file, discovery, cold, hot>> /\ Subscribed(u) /\ u \in Tasks
    BY <1>0, <1>5, UserSteps DEF UserSubscribed
  <2>2. \A t \in Topics : IF t \in subs' \ subs THEN by'[t] = u /\ neglected'[t] = 0
                          ELSE by'[t] = by[t] /\ neglected'[t] = neglected[t]
    BY <2>1, SubscribedEffect
  <2>3. \A t \in Topics : Joined(t)' => Joined(t) /\ neglected'[t] = neglected[t]
    BY <1>0, <2>2 DEF Joined
  <2>4. QED
    BY <2>1, <2>3 DEF JoinedKnown, discovery
<1>6. ASSUME NEW u \in Users, NEW t \in Topics, UserSubscribes(u, t) PROVE JoinedKnown'
  BY <1>1, <1>6 DEF UserSubscribes, discovery, history
<1>7. ASSUME NEW t \in Topics, UserUnsubscribes(t) PROVE JoinedKnown'
  BY <1>1, <1>7 DEF UserUnsubscribes, discovery, history
<1>8. ASSUME NEW t \in Topics, LeaveTopic(t) PROVE JoinedKnown'
  <2>1. /\ pass = "leaving" /\ subs' = subs \ {t} /\ toLeave' = toLeave \ {t}
        /\ UNCHANGED <<stats, by, neglected, pass>>
    BY <1>8 DEF LeaveTopic, history
  <2>2. QED
    BY <2>1 DEF JoinedKnown, Joined
<1>9. ASSUME NEW t \in Topics, JoinTopic(t) PROVE JoinedKnown'
  BY <1>1, <1>9 DEF JoinTopic, history
<1>10. CASE Scan
  <2> SUFFICES ASSUME NEW t \in Topics, Joined(t)'
               PROVE  /\ stats'[t] # Absent
                      /\ stats'[t].misses >= LeaveMisses \/ stats'[t].misses >= neglected'[t]
                      /\ \/ neglected'[t] < LeaveMisses
                         \/ pass' = "leaving" /\ t \in toLeave' /\ neglected'[t] = LeaveMisses
    BY DEF JoinedKnown
  <2>1. Joined(t) /\ pass = "idle" /\ pass' = "leaving" /\ t \in subs \ Protected
        /\ toLeave' = {s \in subs \ Protected : Stale(stats', s)}
    BY <1>10, ScanEffect DEF Joined
  <2>2. /\ stats[t] # Absent
        /\ Misses(t) >= LeaveMisses \/ Misses(t) >= neglected[t]
        /\ neglected[t] < LeaveMisses
    BY <2>1 DEF JoinedKnown, Misses
  <2>3. /\ Hit(t).misses = 0 /\ Miss(t).misses = UpTo(Misses(t) + 1, LeaveMisses)
        /\ Hit(t) # Absent /\ Miss(t) # Absent
        /\ neglected[t] \in 0..(LeaveMisses + 1) /\ Misses(t) \in 0..LeaveMisses
    BY ScanNumbers
  <2>4. \/ stats'[t] = Hit(t) /\ neglected'[t] = 0
        \/ stats'[t] = Miss(t) /\ neglected'[t] = UpTo(neglected[t] + 1, LeaveMisses + 1)
    BY <1>10, <2>1, <2>2, ScanEffect
  <2>5. CASE stats'[t] = Hit(t) /\ neglected'[t] = 0
    BY <1>0, <2>3, <2>5
  <2>6. CASE stats'[t] = Miss(t) /\ neglected'[t] = UpTo(neglected[t] + 1, LeaveMisses + 1)
    <3>1. neglected'[t] = neglected[t] + 1 /\ neglected'[t] <= LeaveMisses
      BY <1>0, <2>2, <2>3, <2>6 DEF UpTo
    <3>2. stats'[t].misses >= LeaveMisses \/ stats'[t].misses >= neglected'[t]
      BY <1>0, <2>2, <2>3, <2>6, <3>1 DEF UpTo
    <3>3. neglected'[t] = LeaveMisses => Stale(stats', t)
      BY <1>0, <2>3, <2>6, <3>2 DEF Stale
    <3>4. QED
      BY <1>0, <2>1, <2>3, <2>6, <3>1, <3>2, <3>3
  <2>7. QED
    BY <2>4, <2>5, <2>6
<1>11. CASE LeftTopic
  <2>1. /\ pass = "leaving" /\ pass' = pass /\ calls["discovery"] # None
        /\ UNCHANGED <<subs, by, neglected, toLeave>>
        /\ stats' = [stats EXCEPT ![calls["discovery"]] = Absent]
    BY <1>11 DEF LeftTopic
  <2>2. ~Joined(calls["discovery"])
    BY <1>0, <2>1 DEF LeftAgain, Joined
  <2>3. \A t \in Topics : t # calls["discovery"] => stats'[t] = stats[t]
    BY <2>1 DEF TypeOK
  <2>4. QED
    BY <2>1, <2>2, <2>3 DEF JoinedKnown, Joined
<1>12. CASE PickCandidates \/ EndPass
  <2>1. UNCHANGED <<stats, by, neglected, subs>> /\ (pass = "joining" \/ toLeave = {})
    BY <1>12 DEF PickCandidates, EndPass, history
  <2>2. QED
    BY <2>1 DEF JoinedKnown, Joined
<1>13. CASE JoinedTopic
  <2>1. /\ pass = "joining" /\ Subscribed("discovery") /\ UNCHANGED <<stats, pass, toLeave>>
    BY <1>13 DEF JoinedTopic
  <2>2. /\ calls["discovery"] \in Topics /\ calls["discovery"] # None
        /\ subs' \subseteq subs \union {calls["discovery"]}
        /\ \A t \in Topics : IF t \in subs' \ subs THEN neglected'[t] = 0
                             ELSE by'[t] = by[t] /\ neglected'[t] = neglected[t]
    BY <1>0, <2>1, SubscribedEffect
  <2>3. ASSUME NEW t \in subs' \ subs
        PROVE  stats[t] # Absent /\ stats[t].misses >= 0 /\ neglected'[t] = 0
    <3>1. t = calls["discovery"] /\ stats[t] # Absent
      BY <2>1, <2>2, <2>3 DEF PassJustified, Confirmed
    <3>2. stats[t].misses \in 0..LeaveMisses
      BY <2>2, <3>1, StatsTyped
    <3>3. QED
      BY <2>2, <2>3, <3>1, <3>2
  <2>4. \A t \in Topics : Joined(t)' => t \in subs' \ subs \/ (Joined(t) /\ neglected'[t] = neglected[t])
    BY <2>2 DEF Joined
  <2>5. QED
    BY <1>0, <2>1, <2>3, <2>4 DEF JoinedKnown
<1>14. CASE UNCHANGED vars
  BY <1>1, <1>14 DEF vars, discovery, history
<1>15. QED
  BY <1>3, <1>4, <1>5, <1>6, <1>7, <1>8, <1>9, <1>10, <1>11, <1>12, <1>13, <1>14 DEF Next

-----------------------------------------------------------------------------
(* The cap                                                                 *)

\* The cap is kept when nothing new is held against it.
LEMMA PlaceShrinks ==
    ASSUME TypeOK, PlaceKept, AgainstCap' \subseteq AgainstCap,
           pass' = "joining" /\ calls'["discovery"] # None =>
               pass = "joining" /\ calls["discovery"] # None
    PROVE  PlaceKept'
<1>1. IsFiniteSet(AgainstCap)
  BY PubsubAssumption, FS_Subset DEF TypeOK, AgainstCap
<1>2. /\ Cardinality(AgainstCap') <= Cardinality(AgainstCap)
      /\ Cardinality(AgainstCap) \in Nat /\ Cardinality(AgainstCap') \in Nat
  BY <1>1, FS_Subset, FS_CardinalityType
<1>3. Cap' = Cap /\ Cap \in Nat
  BY PubsubAssumption, FS_Subset, FS_CardinalityType DEF Cap
<1>4. QED
  BY <1>2, <1>3 DEF PlaceKept

LEMMA PlaceKeptStep ==
    ASSUME TypeOK, TypeOK', PassInOrder, LeftAgain, PlaceKept, [Next]_vars
    PROVE  PlaceKept'
<1>0. /\ "discovery" \in Tasks /\ Users \subseteq Tasks
      /\ "discovery" \notin Users /\ "start" \notin Users
      /\ IsFiniteSet(Protected) /\ Cardinality(Protected) \in Nat /\ MaxExtra \in Nat
      /\ Cap' = Cap /\ Cap \in Nat
  BY PubsubAssumption, FS_Subset, FS_CardinalityType DEF Tasks, Cap
<1>f. IsFiniteSet(AgainstCap) /\ Cardinality(AgainstCap) \in Nat
      /\ IsFiniteSet(AgainstCap') /\ Cardinality(AgainstCap') \in Nat
  BY PubsubAssumption, FS_Subset, FS_CardinalityType DEF TypeOK, AgainstCap
<1>1. CASE /\ AgainstCap' \subseteq AgainstCap
           /\ \/ pass' # "joining" \/ calls'["discovery"] = None
              \/ pass' = pass /\ calls'["discovery"] = calls["discovery"]
  BY <1>1, PlaceShrinks
<1>2. CASE Start
  <2>1. AgainstCap' \subseteq Protected
    <3>1. PICK ok \in SUBSET Protected, loaded \in LoadedTopics :
             /\ subs' \subseteq ok \union (loaded \ ok) /\ auto' = loaded \ ok
             /\ by' = [t \in Topics |-> IF t \in subs' THEN "start" ELSE None]
      BY <1>2 DEF Start
    <3>2. \A t \in subs' : by'[t] = "start"
      BY <3>1 DEF TypeOK
    <3>3. QED
      BY <3>1, <3>2 DEF AgainstCap
  <2>2. Cardinality(AgainstCap') <= Cardinality(Protected)
    BY <1>0, <2>1, FS_Subset
  <2>3. pass' # "joining"
    BY <1>2 DEF Start, discovery, PassInOrder
  <2>4. QED
    BY <1>0, <1>f, <2>2, <2>3 DEF PlaceKept, Cap
<1>3. CASE Stop
  BY <1>1, <1>3 DEF Stop, AgainstCap
<1>4. ASSUME NEW u \in Users, UserSubscribed(u) PROVE PlaceKept'
  <2>1. /\ UNCHANGED <<running, stats, auto, file, discovery, cold, hot>> /\ Subscribed(u) /\ u \in Tasks
        /\ calls'["discovery"] = calls["discovery"]
    BY <1>0, <1>4, UserSteps DEF UserSubscribed
  <2>2. \A t \in Topics : IF t \in subs' \ subs THEN by'[t] = u ELSE by'[t] = by[t]
    BY <2>1, SubscribedEffect
  <2>3. AgainstCap' \subseteq AgainstCap
    BY <1>0, <2>1, <2>2 DEF AgainstCap, TypeOK
  <2>4. QED
    BY <1>1, <2>1, <2>3 DEF discovery
<1>5. ASSUME NEW u \in Users, NEW t \in Topics, UserSubscribes(u, t) PROVE PlaceKept'
  <2>1. UNCHANGED <<subs, by, auto>>
    BY <1>5 DEF UserSubscribes, history
  <2>2. UNCHANGED <<running, stats, auto, file, discovery, cold, hot>>
        /\ calls'["discovery"] = calls["discovery"]
    BY <1>5, UserSteps
  <2>3. AgainstCap' \subseteq AgainstCap
    BY <2>1 DEF AgainstCap
  <2>4. QED
    BY <1>1, <2>2, <2>3 DEF discovery
<1>6. ASSUME NEW t \in Topics, UserUnsubscribes(t) PROVE PlaceKept'
  BY <1>1, <1>6 DEF UserUnsubscribes, discovery, history, AgainstCap
<1>7. ASSUME NEW t \in Topics, LeaveTopic(t) PROVE PlaceKept'
  BY <1>1, <1>7 DEF LeaveTopic, history, AgainstCap
<1>8. CASE LeftTopic
  <2>1. /\ pass = "leaving" /\ pass' = pass /\ calls["discovery"] # None
        /\ UNCHANGED <<subs, by>> /\ auto' = auto \ {calls["discovery"]}
    BY <1>8 DEF LeftTopic
  <2>2. calls["discovery"] \in subs => by[calls["discovery"]] \in Users
    BY <2>1 DEF LeftAgain
  <2>3. AgainstCap' \subseteq AgainstCap
    BY <1>0, <2>1, <2>2 DEF AgainstCap
  <2>4. QED
    BY <1>1, <2>1, <2>3
<1>9. CASE Scan
  <2>1. UNCHANGED <<subs, by, auto>> /\ pass' # "joining"
    BY <1>9, ScanEffect
  <2>2. QED
    BY <1>1, <2>1 DEF AgainstCap
<1>10. CASE PickCandidates
  BY <1>1, <1>10 DEF PickCandidates, history, AgainstCap
<1>11. ASSUME NEW t \in Topics, JoinTopic(t) PROVE PlaceKept'
  <2>1. /\ Room /\ UNCHANGED <<subs, by>> /\ auto \subseteq auto'
    BY <1>11 DEF JoinTopic, history
  <2>2. AgainstCap \subseteq subs /\ AgainstCap' \subseteq AgainstCap /\ IsFiniteSet(subs)
    BY <2>1, PubsubAssumption, FS_Subset DEF AgainstCap, TypeOK
  <2>3. Cardinality(AgainstCap') <= Cardinality(subs) /\ Cardinality(subs) \in Nat
    BY <2>2, FS_Subset, FS_CardinalityType
  <2>4. Cardinality(subs) < Cap
    BY <2>1 DEF Room, Cap
  <2>5. QED
    BY <1>0, <1>f, <2>3, <2>4 DEF PlaceKept
<1>12. CASE JoinedTopic
  <2>1. /\ pass = "joining" /\ pass' = pass /\ Subscribed("discovery") /\ auto \subseteq auto'
    BY <1>12 DEF JoinedTopic
  <2>2. /\ calls["discovery"] \in Topics /\ calls["discovery"] # None
        /\ calls' = [calls EXCEPT !["discovery"] = None]
        /\ subs' \subseteq subs \union {calls["discovery"]}
        /\ \A t \in Topics : t \notin subs' \ subs => by'[t] = by[t]
    BY <1>0, <2>1, SubscribedEffect
  <2>3. AgainstCap' \subseteq AgainstCap \union {calls["discovery"]}
    BY <2>1, <2>2 DEF AgainstCap, TypeOK
  <2>4. /\ Cardinality(AgainstCap \union {calls["discovery"]}) <= Cardinality(AgainstCap) + 1
        /\ IsFiniteSet(AgainstCap \union {calls["discovery"]})
        /\ Cardinality(AgainstCap \union {calls["discovery"]}) \in Nat
    <3> DEFINE d == calls["discovery"]
    <3>1. IsFiniteSet(AgainstCap \union {d})
          /\ Cardinality(AgainstCap \union {d}) =
                IF d \in AgainstCap THEN Cardinality(AgainstCap) ELSE Cardinality(AgainstCap) + 1
      BY <1>f, FS_AddElement
    <3> HIDE DEF d
    <3>2. QED
      BY <1>f, <3>1 DEF d
  <2>5. Cardinality(AgainstCap') <= Cardinality(AgainstCap \union {calls["discovery"]})
    BY <2>3, <2>4, FS_Subset
  <2>6. Cardinality(AgainstCap) < Cap
    BY <2>1, <2>2 DEF PlaceKept
  <2>7. calls'["discovery"] = None
    BY <1>0, <2>2 DEF TypeOK
  <2>8. QED
    BY <1>0, <1>f, <2>4, <2>5, <2>6, <2>7 DEF PlaceKept
<1>13. CASE EndPass
  BY <1>1, <1>13 DEF EndPass, history, AgainstCap
<1>14. CASE UNCHANGED vars
  BY <1>1, <1>14 DEF vars, discovery, history, AgainstCap
<1>15. QED
  BY <1>2, <1>3, <1>4, <1>5, <1>6, <1>7, <1>8, <1>9, <1>10, <1>11, <1>12, <1>13, <1>14 DEF Next

-----------------------------------------------------------------------------
(* The theorems                                                            *)

LEMMA InitTopicsInv == Init => TopicsInv
<1> SUFFICES ASSUME Init PROVE TopicsInv
  OBVIOUS
<1>1. TypeOK /\ PassInOrder
  BY InitTypes DEF TypeInv
<1>2. Evidence
  BY DEF Init, NoStats, Zero, Evidence, EvidenceOf, Hits, Misses
<1>3. PassJustified /\ LeftAgain /\ JoinedKnown
  BY DEF Init, PassJustified, LeftAgain, JoinedKnown, Joined
<1>4. PlaceKept
  <2>1. AgainstCap = {} /\ Cardinality(AgainstCap) = 0
    BY FS_EmptySet DEF Init, AgainstCap
  <2>2. Cap \in Nat
    BY PubsubAssumption, FS_Subset, FS_CardinalityType DEF Cap
  <2>3. QED
    BY <2>1, <2>2 DEF Init, PlaceKept
<1>5. QED
  BY <1>1, <1>2, <1>3, <1>4 DEF TopicsInv

LEMMA NextTopicsInv == TopicsInv /\ [Next]_vars => TopicsInv'
<1> SUFFICES ASSUME TopicsInv, [Next]_vars PROVE TopicsInv'
  OBVIOUS
<1>1. TypeOK' /\ PassInOrder'
  BY NextTypes DEF TopicsInv, TypeInv
<1>2. Evidence'
  BY <1>1, EvidenceStep DEF TopicsInv
<1>3. PassJustified'
  BY <1>1, <1>2, PassJustifiedStep DEF TopicsInv
<1>4. LeftAgain' /\ JoinedKnown' /\ PlaceKept'
  BY <1>1, LeftAgainStep, JoinedKnownStep, PlaceKeptStep DEF TopicsInv
<1>5. QED
  BY <1>1, <1>2, <1>3, <1>4 DEF TopicsInv

\* The strengthened invariant holds in every behaviour of the peer, through any
\* number of passes, requests and restarts.
THEOREM TopicsInvariance == Spec => []TopicsInv
<1>1. Init => TopicsInv
  BY InitTopicsInv
<1>2. TopicsInv /\ [Next]_vars => TopicsInv'
  BY NextTopicsInv
<1>3. QED
  BY <1>1, <1>2, PTL DEF Spec

\* The configured topics and those the discovery joined never exceed the cap,
\* however many users subscribe and unsubscribe while it awaits libp2p.
THEOREM CapHolds == Spec => []CapRespected
<1>1. TopicsInv => CapRespected
  BY DEF TopicsInv, PlaceKept, AgainstCap, Cap, CapRespected
<1>2. QED
  BY <1>1, TopicsInvariance, PTL

\* A topic the discovery joined does not outlast its announcers.
THEOREM StaleTopicsLeft == Spec => []JoinedStaleTopicsLeft
<1>1. TopicsInv => JoinedStaleTopicsLeft
  <2> SUFFICES ASSUME TopicsInv, NEW t \in (auto \ Protected) \cap subs, by[t] = "discovery"
               PROVE  neglected[t] <= LeaveMisses
    BY DEF JoinedStaleTopicsLeft
  <2>1. t \in Topics /\ Joined(t) /\ neglected[t] \in 0..(LeaveMisses + 1) /\ LeaveMisses \in Nat
    BY PubsubAssumption DEF TopicsInv, TypeOK, Joined
  <2>2. QED
    BY <2>1 DEF TopicsInv, JoinedKnown
<1>2. QED
  BY <1>1, TopicsInvariance, PTL

\* The discovery leaves a topic only on a whole streak of misses, and joins one
\* only on JoinConfirmations hits since it was last left or dead, for every
\* interleaving of its pass with user requests.  (Not on consecutive hits, which
\* the code does not ask for.)
THEOREM NoFlappingHolds == Spec => NoFlapping
<1>1. ASSUME TopicsInv, [Next]_vars PROVE [LeavesJustified /\ RevivalsStartFresh]_vars
  <2>0. "discovery" \in Tasks /\ "discovery" \notin Users /\ Users \subseteq Tasks
    BY PubsubAssumption DEF Tasks
  <2>t. TypeOK /\ PassInOrder /\ PassJustified
    BY <1>1 DEF TopicsInv
  <2>1. ASSUME subs' = subs PROVE LeavesJustified /\ RevivalsStartFresh
    BY <2>1 DEF LeavesJustified, RevivalsStartFresh
  <2>2. CASE Start
    <3>1. \A t \in subs' : by'[t] # "discovery"
      <4>1. \A t \in subs' : t \in Topics
        BY <1>1, NextTopicsInv DEF TopicsInv, TypeOK
      <4>2. QED
        BY <2>2, <4>1 DEF Start
    <3>2. pass # "leaving"
      BY <2>2, <2>t DEF Start, PassInOrder
    <3>3. QED
      BY <3>1, <3>2 DEF LeavesJustified, RevivalsStartFresh
  <2>3. CASE Stop
    BY <2>3 DEF Stop, LeavesJustified, RevivalsStartFresh
  <2>4. ASSUME NEW u \in Users, UserSubscribed(u) PROVE LeavesJustified /\ RevivalsStartFresh
    <3>1. Subscribed(u) /\ u \in Tasks
      BY <2>0, <2>4 DEF UserSubscribed
    <3>2. /\ subs \subseteq subs' /\ subs' \subseteq subs \union {calls[u]} /\ calls[u] \in Topics
          /\ \A t \in Topics : t \in subs' \ subs => by'[t] = u
      BY <2>t, <3>1, SubscribedEffect
    <3>3. QED
      BY <2>0, <3>2 DEF LeavesJustified, RevivalsStartFresh
  <2>5. ASSUME NEW t \in Topics, UserUnsubscribes(t) PROVE LeavesJustified /\ RevivalsStartFresh
    BY <2>5 DEF UserUnsubscribes, LeavesJustified, RevivalsStartFresh
  <2>6. ASSUME NEW t \in Topics, LeaveTopic(t) PROVE LeavesJustified /\ RevivalsStartFresh
    <3>1. t \in toLeave /\ subs' = subs \ {t} /\ toLeave \subseteq Topics \ Protected
      BY <2>6, <2>t DEF LeaveTopic, TypeOK
    <3>2. cold[t] >= LeaveMisses
      BY <2>t, <3>1 DEF PassJustified
    <3>3. QED
      BY <3>1, <3>2 DEF LeavesJustified, RevivalsStartFresh
  <2>7. CASE JoinedTopic
    <3>1. pass = "joining" /\ Subscribed("discovery")
      BY <2>7 DEF JoinedTopic
    <3>2. /\ subs \subseteq subs' /\ subs' \subseteq subs \union {calls["discovery"]}
          /\ calls["discovery"] # None
      BY <2>0, <2>t, <3>1, SubscribedEffect
    <3>3. hot[calls["discovery"]] >= JoinConfirmations
      BY <2>t, <3>1, <3>2 DEF PassJustified, Confirmed
    <3>4. QED
      BY <3>2, <3>3 DEF LeavesJustified, RevivalsStartFresh
  <2>8. QED
    BY <1>1, <2>1, <2>2, <2>3, <2>4, <2>5, <2>6, <2>7
    DEF Next, UserSubscribes, JoinTopic, Scan, LeftTopic, PickCandidates, EndPass
<1>2. QED
  BY <1>1, TopicsInvariance, PTL DEF Spec, NoFlapping

-----------------------------------------------------------------------------
(* PubsubInbox: the invariant                                              *)

\* Who has what in hand: a call of libp2p will return a subscription, a loop that
\* is alive has one to read, only a loop that reads holds a message.  A task that
\* has done nothing yet has no subscription, no loop and no answer.
Wired(t) ==
    /\ pc[t] = "subscribing" <=> given[t] # Nil
    /\ loop[t] \in {"starting", "reading"} <=> source[t] # Nil
    /\ hand[t] # 0 => loop[t] = "reading"
    /\ pc[t] \in {"idle", "subscribing"} => loop[t] = "none"
    /\ pc[t] = "idle" => t # registered /\ t # channel /\ \A s \in Subscribers : given[s] # t

Wiring ==
    /\ \A t \in Subscribers : Wired(t)
    /\ (\A t \in Subscribers : loop[t] = "none") => content = <<>>
    /\ \A r \in Requests : pc[r] # "done" => answer[r] = <<>>

Increasing(s) == \A i, j \in DOMAIN s : i < j => s[i] < s[j]

\* A message that has not arrived is nowhere.
NotYet == \A m \in Messages : m > sent =>
    ~Queued(m) /\ ~Held(m) /\ ~Returned(m) /\ m \notin dropped

\* A message is in one place.  A subscription has its messages in order.
OnePlace ==
    /\ \A t \in Subscribers : Increasing(queue[t])
    /\ \A s, t \in Subscribers : s # t => ToSet(queue[s]) \cap ToSet(queue[t]) = {}
    /\ IsInjective(content)
    /\ \A t \in Subscribers : ToSet(queue[t]) \cap ToSet(content) = {}
    /\ \A t \in Subscribers : hand[t] \notin ToSet(content) /\ \A s \in Subscribers : hand[t] \notin ToSet(queue[s])
    /\ \A s, t \in Subscribers : s # t /\ hand[s] # 0 => hand[s] # hand[t]

\* A loop is past what it holds; and if there is one loop only, the deque is
\* in order and behind it.
SingleLoop == \A s, t \in Subscribers : loop[s] # "none" /\ loop[t] # "none" => s = t

InSequence ==
    /\ \A t \in Subscribers : hand[t] # 0 => \A m \in ToSet(queue[source[t]]) : hand[t] < m
    /\ SingleLoop =>
        /\ Increasing(content)
        /\ \A t \in Subscribers, m \in ToSet(content) :
            /\ hand[t] # 0 => m < hand[t]
            /\ source[t] # Nil => \A n \in ToSet(queue[source[t]]) : m < n
        /\ \A r \in Requests : Increasing(answer[r])

InboxInv ==
    /\ InboxTypeOK
    /\ Wiring
    /\ NotYet
    /\ OnePlace
    /\ ReturnedOnce
    /\ InSequence
    /\ NothingVanishes
    /\ RegisteredIsRead

-----------------------------------------------------------------------------
(* Sequences of messages                                                   *)

LEMMA EmptyFacts ==
    ToSet(<<>>) = {} /\ IsInjective(<<>>) /\ Increasing(<<>>)
BY DEF ToSet, IsInjective, Increasing

LEMMA AppendFacts ==
    ASSUME NEW s \in Seq(Messages), NEW m \in Messages
    PROVE  /\ Append(s, m) \in Seq(Messages) /\ Len(Append(s, m)) = Len(s) + 1
           /\ ToSet(Append(s, m)) = ToSet(s) \cup {m}
           /\ IsInjective(s) /\ m \notin ToSet(s) => IsInjective(Append(s, m))
           /\ Increasing(s) /\ (\A n \in ToSet(s) : n < m) => Increasing(Append(s, m))
<1>1. /\ Append(s, m) \in Seq(Messages) /\ Len(Append(s, m)) = Len(s) + 1 /\ Len(s) \in Nat
      /\ DOMAIN s = 1..Len(s) /\ DOMAIN Append(s, m) = 1..(Len(s) + 1)
      /\ \A i \in 1..Len(s) : Append(s, m)[i] = s[i] /\ s[i] \in Messages
      /\ Append(s, m)[Len(s) + 1] = m
  BY AppendProperties, LenProperties
<1>2. ToSet(Append(s, m)) = ToSet(s) \cup {m}
  BY <1>1 DEF ToSet
<1>3. ASSUME IsInjective(s), m \notin ToSet(s) PROVE IsInjective(Append(s, m))
  BY <1>1, <1>3 DEF IsInjective, ToSet
<1>4. ASSUME Increasing(s), \A n \in ToSet(s) : n < m PROVE Increasing(Append(s, m))
  <2> SUFFICES ASSUME NEW i \in 1..(Len(s) + 1), NEW j \in 1..(Len(s) + 1), i < j
               PROVE  Append(s, m)[i] < Append(s, m)[j]
    BY <1>1 DEF Increasing
  <2>1. i \in 1..Len(s)
    BY <1>1
  <2>2. s[i] < m
    BY <1>1, <1>4, <2>1 DEF ToSet
  <2>3. CASE j = Len(s) + 1
    BY <1>1, <2>1, <2>2, <2>3
  <2>4. CASE j # Len(s) + 1
    BY <1>1, <1>4, <2>1, <2>4 DEF Increasing
  <2>5. QED
    BY <2>3, <2>4
<1>5. QED
  BY <1>1, <1>2, <1>3, <1>4

LEMMA TailFacts ==
    ASSUME NEW s \in Seq(Messages), s # <<>>
    PROVE  /\ Head(s) \in Messages /\ Tail(s) \in Seq(Messages) /\ Len(Tail(s)) = Len(s) - 1
           /\ Len(s) \in Nat \ {0}
           /\ ToSet(s) = ToSet(Tail(s)) \cup {Head(s)}
           /\ IsInjective(s) => IsInjective(Tail(s)) /\ Head(s) \notin ToSet(Tail(s))
           /\ Increasing(s) => Increasing(Tail(s)) /\ \A m \in ToSet(Tail(s)) : Head(s) < m
<1>1. /\ Head(s) \in Messages /\ Tail(s) \in Seq(Messages) /\ Len(Tail(s)) = Len(s) - 1
      /\ Head(s) = s[1] /\ \A i \in 1..(Len(s) - 1) : Tail(s)[i] = s[i + 1]
      /\ Len(s) \in Nat \ {0}
  BY HeadTailProperties, EmptySeq
<1>2. DOMAIN s = 1..Len(s) /\ DOMAIN Tail(s) = 1..(Len(s) - 1)
  BY <1>1, LenProperties
<1>3. ToSet(s) = ToSet(Tail(s)) \cup {Head(s)}
  <2>1. ASSUME NEW i \in 1..Len(s) PROVE s[i] \in ToSet(Tail(s)) \cup {Head(s)}
    <3>1. CASE i = 1
      BY <1>1, <3>1
    <3>2. CASE i # 1
      <4>1. i - 1 \in DOMAIN Tail(s) /\ Tail(s)[i - 1] = s[i]
        BY <1>1, <1>2, <3>2
      <4>2. QED
        BY <4>1 DEF ToSet
    <3>3. QED
      BY <3>1, <3>2
  <2>2. ToSet(Tail(s)) \subseteq ToSet(s) /\ Head(s) \in ToSet(s)
    BY <1>1, <1>2 DEF ToSet
  <2>3. QED
    BY <1>2, <2>1, <2>2 DEF ToSet
<1>4. ASSUME IsInjective(s) PROVE IsInjective(Tail(s)) /\ Head(s) \notin ToSet(Tail(s))
  BY <1>1, <1>2, <1>4 DEF IsInjective, ToSet
<1>5. ASSUME Increasing(s) PROVE Increasing(Tail(s)) /\ \A m \in ToSet(Tail(s)) : Head(s) < m
  BY <1>1, <1>2, <1>5 DEF Increasing, ToSet
<1>6. QED
  BY <1>1, <1>3, <1>4, <1>5

LEMMA PrefixFacts ==
    ASSUME NEW s \in Seq(Messages), NEW n \in 1..Len(s)
    PROVE  /\ SubSeq(s, 1, n) \in Seq(Messages)
           /\ ToSet(SubSeq(s, 1, n)) \subseteq ToSet(s)
           /\ IsInjective(s) => IsInjective(SubSeq(s, 1, n))
           /\ Increasing(s) => Increasing(SubSeq(s, 1, n))
<1>1. /\ Len(s) \in Nat /\ DOMAIN s = 1..Len(s) /\ \A i \in 1..Len(s) : s[i] \in Messages
  BY LenProperties, ElementOfSeq
<1>2. /\ SubSeq(s, 1, n) \in Seq(Messages) /\ Len(SubSeq(s, 1, n)) = n
      /\ \A i \in 1..n : SubSeq(s, 1, n)[i] = s[i]
  <2>1. \A i \in 1..n : s[i] \in Messages
    BY <1>1
  <2>2. QED
    BY <1>1, <2>1, SubSeqProperties
<1>3. DOMAIN SubSeq(s, 1, n) = 1..n
  BY <1>1, <1>2, LenProperties
<1>4. QED
  BY <1>1, <1>2, <1>3 DEF ToSet, IsInjective, Increasing

-----------------------------------------------------------------------------
(* Types and wiring                                                        *)

LEMMA TasksFacts ==
    /\ Requests \subseteq Subscribers /\ "peer" \in Subscribers /\ "peer" \notin Requests
    /\ Nil \notin Subscribers /\ IsFiniteSet(Subscribers)
    /\ BufferMax \in Nat \ {0} /\ MaxMessages \in Nat /\ Counts \subseteq Nat
<1>1. IsFiniteSet(Requests \cup {"peer"})
  BY InboxAssumption, FS_AddElement
<1>2. QED
  BY <1>1, InboxAssumption DEF Subscribers, Nil

LEMMA InitWired == InboxInit => InboxTypeOK /\ Wiring
<1> SUFFICES ASSUME InboxInit PROVE InboxTypeOK /\ Wiring
  OBVIOUS
<1> USE TasksFacts
<1>1. /\ <<>> \in Seq(Messages) /\ Len(<<>>) = 0
  BY EmptySeq
<1>2. InboxTypeOK
  BY <1>1 DEF InboxInit, InboxTypeOK
<1>3. Wiring
  BY DEF InboxInit, Wiring, Wired
<1>4. QED
  BY <1>2, <1>3

\* A call of libp2p begins: by a task that had nothing to do with the topic yet.
LEMMA AskWired ==
    ASSUME InboxTypeOK, Wiring, NEW x \in Subscribers, pc[x] = "idle", AskLibp2p(x),
           UNCHANGED <<state, registered, current, content, loops, queue, sent, outcome>>,
           count' \in [Requests -> Counts \cup {0}]
    PROVE  InboxTypeOK' /\ Wiring'
<1> USE TasksFacts
<1>1. /\ pc' = [pc EXCEPT ![x] = "subscribing"] /\ given'[x] = channel'
      /\ given' = [given EXCEPT ![x] = channel'] /\ channel' \in Subscribers
      /\ channel' = IF channel = Nil THEN x ELSE channel
  BY DEF AskLibp2p, InboxTypeOK
<1>2. InboxTypeOK'
  BY <1>1 DEF InboxTypeOK, loops, outcome
<1>3. ASSUME NEW t \in Subscribers PROVE Wired(t)'
  <2>1. Wired(t) /\ Wired(x)
    BY DEF Wiring
  <2>2. CASE t = x
    BY <1>1, <2>1, <2>2 DEF InboxTypeOK, Wired, loops
  <2>3. CASE t # x
    BY <1>1, <2>1, <2>3 DEF InboxTypeOK, Wired, loops
  <2>4. QED
    BY <2>2, <2>3
<1>4. \A r \in Requests : pc'[r] # "done" => answer'[r] = <<>>
  BY <1>1 DEF InboxTypeOK, Wiring, outcome
<1>5. QED
  BY <1>2, <1>3, <1>4 DEF Wiring, loops

\* The start, the discovery, the unsubscription.
LEMMA PeerWired ==
    ASSUME InboxTypeOK, Wiring,
           \/ StartupSubscribes \/ StartEnds \/ DiscoveryJoins \/ DiscoveryLeaves \/ Unsubscribe
    PROVE  InboxTypeOK' /\ Wiring'
<1> USE TasksFacts
<1>1. CASE StartupSubscribes \/ DiscoveryJoins
  <2>1. /\ pc["peer"] = "idle" /\ AskLibp2p("peer") /\ count' = count
        /\ UNCHANGED <<state, registered, current, content, loops, queue, sent, outcome>>
    BY <1>1 DEF StartupSubscribes, DiscoveryJoins
  <2>2. count' \in [Requests -> Counts \cup {0}]
    BY <2>1 DEF InboxTypeOK
  <2>3. QED
    BY <2>1, <2>2, AskWired
<1>2. CASE StartEnds
  BY <1>2 DEF StartEnds, InboxTypeOK, Wiring, Wired, loops, libp2p, outcome
<1>3. CASE DiscoveryLeaves
  BY <1>3 DEF DiscoveryLeaves, InboxTypeOK, Wiring, Wired, loops, outcome
<1>4. CASE Unsubscribe
  <2>1. content \in Seq(Messages)
    BY DEF InboxTypeOK
  <2>2. ToSet(content) \subseteq Messages
    BY <2>1, LenProperties, ElementOfSeq DEF ToSet
  <2>3. /\ content' = <<>> /\ <<>> \in Seq(Messages) /\ Len(<<>>) = 0
    BY <1>4, EmptySeq DEF Unsubscribe
  <2>4. InboxTypeOK'
    BY <1>4, <2>2, <2>3 DEF Unsubscribe, InboxTypeOK, loops
  <2>5. Wiring'
    BY <1>4 DEF Unsubscribe, InboxTypeOK, Wiring, Wired, loops
  <2>6. QED
    BY <2>4, <2>5
<1>5. QED
  BY <1>1, <1>2, <1>3, <1>4

\* A subscription and its loop, apart from the messages.
LEMMA LoopWired ==
    ASSUME InboxTypeOK, Wiring, NEW x \in Subscribers,
           SubscribeReturns(x) \/ LoopStarts(x) \/ LoopEnds(x)
    PROVE  InboxTypeOK' /\ Wiring'
<1> USE TasksFacts
<1>0. Wired(x)
  BY DEF Wiring
<1>1. CASE SubscribeReturns(x)
  <2>1. /\ pc[x] = "subscribing" /\ pc' = [pc EXCEPT ![x] = Then(x)]
        /\ Then(x) \in {"polling", "done"} /\ (x \in Requests => Then(x) = "polling")
        /\ given' = [given EXCEPT ![x] = Nil] /\ given[x] \in Subscribers
        /\ UNCHANGED <<state, current, content, count, buffer, hand, libp2p, outcome>>
    BY <1>0, <1>1 DEF SubscribeReturns, Then, Wired, InboxTypeOK
  <2>2. CASE /\ registered' = given[x]
             /\ loop' = [loop EXCEPT ![x] = "starting"]
             /\ source' = [source EXCEPT ![x] = given[x]]
    <3>1. InboxTypeOK'
      BY <2>1, <2>2 DEF InboxTypeOK, libp2p, outcome
    <3>2. ASSUME NEW t \in Subscribers PROVE Wired(t)'
      <4>1. Wired(t)
        BY DEF Wiring
      <4>2. CASE t = x
        BY <1>0, <2>1, <2>2, <4>2 DEF InboxTypeOK, Wired, libp2p
      <4>3. CASE t # x
        BY <2>1, <2>2, <4>1, <4>3 DEF InboxTypeOK, Wired, libp2p
      <4>4. QED
        BY <4>2, <4>3
    <3>3. loop'[x] # "none"
      BY <2>2 DEF InboxTypeOK
    <3>4. \A r \in Requests : pc'[r] # "done" => answer'[r] = <<>>
      BY <2>1 DEF InboxTypeOK, Wiring, outcome
    <3>5. QED
      BY <3>1, <3>2, <3>3, <3>4 DEF Wiring
  <2>3. CASE UNCHANGED <<registered, loop, source>>
    <3>1. InboxTypeOK'
      BY <2>1, <2>3 DEF InboxTypeOK, libp2p, outcome
    <3>2. ASSUME NEW t \in Subscribers PROVE Wired(t)'
      <4>1. Wired(t)
        BY DEF Wiring
      <4>2. QED
        BY <2>1, <2>3, <4>1 DEF InboxTypeOK, Wired, libp2p
    <3>3. \A r \in Requests : pc'[r] # "done" => answer'[r] = <<>>
      BY <2>1 DEF InboxTypeOK, Wiring, outcome
    <3>4. QED
      BY <2>1, <2>3, <3>1, <3>2, <3>3 DEF Wiring
  <2>4. QED
    BY <1>1, <2>2, <2>3 DEF SubscribeReturns
<1>2. CASE LoopStarts(x)
  <2>1. /\ loop[x] = "starting" /\ source[x] \in Subscribers /\ hand[x] = 0
        /\ current' \in Subscribers \cup {Nil}
        /\ UNCHANGED <<state, registered, content, pc, count, given, hand, libp2p, answer, dropped>>
    BY <1>0, <1>2 DEF LoopStarts, InboxTypeOK, Wired
  <2>2. CASE state = "RUNNING"
    <3>1. /\ loop' = [loop EXCEPT ![x] = "reading"]
          /\ buffer' = [buffer EXCEPT ![x] = current']
          /\ UNCHANGED <<source, early>>
      BY <1>2, <2>2 DEF LoopStarts
    <3>2. InboxTypeOK'
      BY <2>1, <3>1 DEF InboxTypeOK, libp2p
    <3>3. ASSUME NEW t \in Subscribers PROVE Wired(t)'
      <4>1. Wired(t)
        BY DEF Wiring
      <4>2. QED
        BY <1>0, <2>1, <3>1, <4>1 DEF InboxTypeOK, Wired, libp2p
    <3>4. loop'[x] # "none" /\ \A r \in Requests : pc'[r] # "done" => answer'[r] = <<>>
      BY <2>1, <3>1 DEF InboxTypeOK, Wiring
    <3>5. QED
      BY <3>2, <3>3, <3>4 DEF Wiring
  <2>3. CASE state # "RUNNING"
    <3>1. LoopIsOver(x) /\ early' = early \cup {source[x]}
      BY <1>2, <2>3 DEF LoopStarts
    <3>2. QED
      BY <2>1, <3>1 DEF LoopIsOver, InboxTypeOK, Wiring, Wired, libp2p
  <2>4. QED
    BY <2>2, <2>3
<1>3. CASE LoopEnds(x)
  <2>1. /\ loop[x] = "reading" /\ hand[x] = 0 /\ LoopIsOver(x)
        /\ UNCHANGED <<state, registered, current, content, pc, count, given, hand, libp2p, outcome>>
    BY <1>3 DEF LoopEnds
  <2>2. QED
    BY <1>0, <2>1 DEF LoopIsOver, InboxTypeOK, Wiring, Wired, libp2p, outcome
<1>4. QED
  BY <1>1, <1>2, <1>3

\* A message moves: it arrives, a loop takes it and appends it.
LEMMA MessageWired ==
    ASSUME InboxTypeOK, Wiring,
           Arrive \/ \E x \in Subscribers : LoopGets(x) \/ LoopAppends(x)
    PROVE  InboxTypeOK' /\ Wiring'
<1> USE TasksFacts
<1>1. CASE Arrive
  <2>1. /\ channel \in Subscribers /\ sent' = sent + 1 /\ sent' \in Messages /\ sent' \in 0..MaxMessages
        /\ queue[channel] \in Seq(Messages)
        /\ queue' = [queue EXCEPT ![channel] = Append(queue[channel], sent')]
        /\ UNCHANGED <<state, registered, current, content, pc, count, given, loops, channel, outcome>>
    BY <1>1 DEF Arrive, InboxTypeOK, Messages
  <2>2. Append(queue[channel], sent') \in Seq(Messages)
    BY <2>1, AppendFacts
  <2>3. InboxTypeOK'
    BY <2>1, <2>2 DEF InboxTypeOK, loops, outcome
  <2>4. QED
    BY <2>1, <2>3 DEF Wiring, Wired, loops, outcome
<1>2. ASSUME NEW x \in Subscribers, LoopGets(x) PROVE InboxTypeOK' /\ Wiring'
  <2>1. /\ loop[x] = "reading" /\ source[x] \in Subscribers /\ hand[x] = 0
        /\ queue[source[x]] \in Seq(Messages) /\ queue[source[x]] # <<>>
        /\ hand' = [hand EXCEPT ![x] = Head(queue[source[x]])]
        /\ queue' = [queue EXCEPT ![source[x]] = Tail(queue[source[x]])]
        /\ UNCHANGED <<state, registered, current, content, pc, count, given, loop, source, buffer,
                       channel, sent, outcome>>
    <3>1. Wired(x)
      BY DEF Wiring
    <3>2. source[x] \in Subscribers
      BY <1>2, <3>1 DEF LoopGets, Wired, InboxTypeOK
    <3>3. QED
      BY <1>2, <3>2 DEF LoopGets, InboxTypeOK
  <2>2. Head(queue[source[x]]) \in Messages /\ Tail(queue[source[x]]) \in Seq(Messages)
    BY <2>1, TailFacts
  <2>3. InboxTypeOK'
    BY <2>1, <2>2 DEF InboxTypeOK, outcome
  <2>4. \A t \in Subscribers : hand'[t] # 0 => hand[t] # 0 \/ loop[t] = "reading"
    BY <2>1 DEF InboxTypeOK
  <2>5. QED
    BY <2>1, <2>3, <2>4 DEF Wiring, Wired, outcome
<1>3. ASSUME NEW x \in Subscribers, LoopAppends(x) PROVE InboxTypeOK' /\ Wiring'
  <2>1. /\ loop[x] = "reading" /\ hand[x] \in Messages /\ content \in Seq(Messages)
        /\ Len(content) <= BufferMax
        /\ hand' = [hand EXCEPT ![x] = 0]
        /\ UNCHANGED <<state, registered, current, pc, count, given, loop, source, buffer, libp2p,
                       answer, early>>
    BY <1>3 DEF LoopAppends, InboxTypeOK
  <2>2. /\ content' \in Seq(Messages) /\ Len(content') <= BufferMax
        /\ dropped' \subseteq Messages
    <3>1. CASE buffer[x] # current
      BY <1>3, <2>1, <3>1 DEF LoopAppends, InboxTypeOK
    <3>2. CASE buffer[x] = current /\ Len(content) = BufferMax
      <4>1. content # <<>>
        BY <3>2, EmptySeq
      <4>2. /\ Tail(content) \in Seq(Messages) /\ Len(Tail(content)) = Len(content) - 1
            /\ Head(content) \in Messages
        BY <2>1, <4>1, TailFacts
      <4>3. /\ Append(Tail(content), hand[x]) \in Seq(Messages)
            /\ Len(Append(Tail(content), hand[x])) = Len(content) - 1 + 1
        BY <2>1, <4>2, AppendFacts
      <4>4. content' = Append(Tail(content), hand[x]) /\ dropped' = dropped \cup {Head(content)}
        BY <1>3, <3>2 DEF LoopAppends
      <4>5. QED
        BY <3>2, <4>2, <4>3, <4>4 DEF InboxTypeOK
    <3>3. CASE buffer[x] = current /\ Len(content) # BufferMax
      <4>1. content' = Append(content, hand[x]) /\ dropped' = dropped
        BY <1>3, <3>3 DEF LoopAppends
      <4>2. content' \in Seq(Messages) /\ Len(content') = Len(content) + 1 /\ Len(content) \in Nat
        BY <2>1, <4>1, AppendFacts, LenProperties
      <4>3. QED
        BY <2>1, <3>3, <4>1, <4>2 DEF InboxTypeOK
    <3>4. QED
      BY <3>1, <3>2, <3>3
  <2>3. InboxTypeOK'
    BY <2>1, <2>2 DEF InboxTypeOK, libp2p
  <2>4. \A t \in Subscribers : hand'[t] # 0 => hand[t] # 0
    BY <2>1 DEF InboxTypeOK
  <2>5. QED
    BY <2>1, <2>3, <2>4 DEF Wiring, Wired, libp2p
<1>4. QED
  BY <1>1, <1>2, <1>3

\* A request.
LEMMA AnswerType ==
    ASSUME InboxTypeOK, NEW r \in Requests
    PROVE  /\ FirstOf(r) \in Seq(Messages) /\ ToSet(FirstOf(r)) \subseteq ToSet(content)
           /\ ToSet(content) \subseteq Messages
           /\ IsInjective(content) => IsInjective(FirstOf(r))
           /\ Increasing(content) => Increasing(FirstOf(r))
<1> USE TasksFacts
<1>1. content \in Seq(Messages) /\ count[r] \in Nat /\ Len(content) \in Nat
  <2>1. content \in Seq(Messages) /\ count[r] \in Counts \cup {0}
    BY DEF InboxTypeOK
  <2>2. Len(content) \in Nat
    BY <2>1, LenProperties
  <2>3. Counts \cup {0} \subseteq Nat
    OBVIOUS
  <2>4. QED
    BY <2>1, <2>2, <2>3
<1>2. ToSet(content) \subseteq Messages
  BY <1>1, LenProperties, ElementOfSeq DEF ToSet
<1>3. CASE count[r] > 0 /\ count[r] < Len(content)
  <2>1. count[r] \in 1..Len(content) /\ FirstOf(r) = SubSeq(content, 1, count[r])
    BY <1>1, <1>3 DEF FirstOf
  <2>2. QED
    BY <1>1, <1>2, <2>1, PrefixFacts
<1>4. CASE ~(count[r] > 0 /\ count[r] < Len(content))
  <2>1. FirstOf(r) = content
    BY <1>4 DEF FirstOf
  <2>2. QED
    BY <1>1, <1>2, <2>1
<1>5. QED
  BY <1>3, <1>4

LEMMA RequestWired ==
    ASSUME InboxTypeOK, Wiring, NEW r \in Requests,
           RequestStarts(r) \/ Answer(r) \/ PollAgain(r)
    PROVE  InboxTypeOK' /\ Wiring'
<1> USE TasksFacts
<1>0. /\ <<>> \in Seq(Messages) /\ Len(<<>>) = 0 /\ r \in Subscribers
      /\ FirstOf(r) \in Seq(Messages) /\ ToSet(content) \subseteq Messages
  BY EmptySeq, AnswerType
<1>1. CASE RequestStarts(r)
  <2>1. PICK c \in Counts : count' = [count EXCEPT ![r] = c]
    BY <1>1 DEF RequestStarts
  <2>2. /\ count' \in [Requests -> Counts \cup {0}] /\ pc[r] = "idle"
        /\ UNCHANGED <<state, registered, current, content, loops, queue, sent, outcome>>
    BY <1>1, <2>1 DEF RequestStarts, InboxTypeOK
  <2>3. CASE registered = Nil
    <3>1. AskLibp2p(r)
      BY <1>1, <2>3 DEF RequestStarts
    <3>2. QED
      BY <1>0, <2>2, <3>1, AskWired
  <2>4. CASE registered # Nil
    <3>1. pc' = [pc EXCEPT ![r] = "polling"] /\ UNCHANGED <<given, channel>>
      BY <1>1, <2>4 DEF RequestStarts
    <3>2. InboxTypeOK'
      BY <2>2, <3>1 DEF InboxTypeOK, loops, outcome
    <3>3. ASSUME NEW t \in Subscribers PROVE Wired(t)'
      <4>1. Wired(t) /\ Wired(r)
        BY <1>0 DEF Wiring
      <4>2. QED
        BY <2>2, <3>1, <4>1 DEF InboxTypeOK, Wired, loops
    <3>4. \A s \in Requests : pc'[s] # "done" => answer'[s] = <<>>
      BY <2>2, <3>1 DEF InboxTypeOK, Wiring, outcome
    <3>5. QED
      BY <2>2, <3>2, <3>3, <3>4 DEF Wiring, loops
  <2>5. QED
    BY <2>3, <2>4
<1>2. CASE Answer(r)
  <2>1. /\ pc[r] = "polling" /\ pc' = [pc EXCEPT ![r] = "done"]
        /\ content' = <<>> /\ answer' = [answer EXCEPT ![r] = FirstOf(r)]
        /\ count' = [count EXCEPT ![r] = 0] /\ dropped' \subseteq dropped \cup ToSet(content)
        /\ UNCHANGED <<state, registered, current, given, loops, libp2p, early>>
    BY <1>2 DEF Answer, Drain
  <2>2. InboxTypeOK'
    BY <1>0, <2>1 DEF InboxTypeOK, loops, libp2p
  <2>3. ASSUME NEW t \in Subscribers PROVE Wired(t)'
    <3>1. Wired(t)
      BY DEF Wiring
    <3>2. QED
      BY <2>1, <3>1 DEF InboxTypeOK, Wired, loops, libp2p
  <2>4. \A s \in Requests : pc'[s] # "done" => answer'[s] = <<>>
    BY <2>1 DEF InboxTypeOK, Wiring
  <2>5. QED
    BY <2>1, <2>2, <2>3, <2>4 DEF Wiring
<1>3. CASE PollAgain(r)
  BY <1>0, <1>3 DEF PollAgain, Drain, InboxTypeOK, Wiring, Wired, loops, libp2p
<1>4. QED
  BY <1>1, <1>2, <1>3

LEMMA NextWired == InboxTypeOK /\ Wiring /\ [InboxNext]_inboxVars => InboxTypeOK' /\ Wiring'
<1> SUFFICES ASSUME InboxTypeOK, Wiring, [InboxNext]_inboxVars PROVE InboxTypeOK' /\ Wiring'
  OBVIOUS
<1>1. CASE UNCHANGED inboxVars
  BY <1>1 DEF inboxVars, InboxTypeOK, Wiring, Wired, loops, libp2p, outcome
<1>2. CASE InboxNext
  BY <1>2, PeerWired, LoopWired, MessageWired, RequestWired DEF InboxNext
<1>3. QED
  BY <1>1, <1>2

-----------------------------------------------------------------------------
(* The messages                                                            *)

\* Where the messages are: what the invariant says of a state, whoever made it.
Places == NotYet /\ OnePlace /\ ReturnedOnce /\ NothingVanishes

LEMMA Elements ==
    ASSUME InboxTypeOK
    PROVE  /\ \A t \in Subscribers : queue[t] \in Seq(Messages) /\ ToSet(queue[t]) \subseteq Messages
           /\ content \in Seq(Messages) /\ ToSet(content) \subseteq Messages
           /\ \A r \in Requests : ToSet(answer[r]) \subseteq Messages
           /\ \A t \in Subscribers : hand[t] \in Messages \cup {0}
           /\ dropped \subseteq Messages
           /\ sent \in Nat
<1>1. ASSUME NEW s \in Seq(Messages) PROVE ToSet(s) \subseteq Messages
  BY LenProperties, ElementOfSeq DEF ToSet
<1>2. /\ \A t \in Subscribers : queue[t] \in Seq(Messages)
      /\ \A r \in Requests : answer[r] \in Seq(Messages)
      /\ content \in Seq(Messages) /\ dropped \subseteq Messages
      /\ \A t \in Subscribers : hand[t] \in Messages \cup {0}
      /\ sent \in Nat
  BY TasksFacts DEF InboxTypeOK
<1>3. QED
  BY <1>1, <1>2

LEMMA InitPlaces == InboxInit => Places
<1> SUFFICES ASSUME InboxInit PROVE Places
  OBVIOUS
<1>1. /\ content = <<>> /\ dropped = {} /\ sent = 0
      /\ \A t \in Subscribers : queue[t] = <<>> /\ hand[t] = 0
      /\ \A r \in Requests : answer[r] = <<>>
  BY DEF InboxInit
<1>2. ToSet(<<>>) = {} /\ IsInjective(<<>>) /\ Increasing(<<>>)
  BY EmptyFacts
<1>3. \A m \in Messages : m # 0
  BY DEF Messages
<1>4. NotYet
  BY <1>1, <1>2, <1>3 DEF NotYet, Queued, Held, Returned
<1>5. OnePlace
  BY <1>1, <1>2, <1>3 DEF OnePlace
<1>6. ReturnedOnce
  BY <1>1, <1>2 DEF ReturnedOnce, Returned
<1>7. NothingVanishes
  BY <1>1 DEF NothingVanishes
<1>8. QED
  BY <1>4, <1>5, <1>6, <1>7 DEF Places

\* A step that moves no message.
LEMMA NoMove ==
    ASSUME Places, UNCHANGED <<queue, content, hand, answer, dropped, sent>>
    PROVE  Places'
BY DEF Places, NotYet, OnePlace, ReturnedOnce, NothingVanishes, Queued, Held, Returned, Increasing

\* The deque is forgotten, or what was drained is.
LEMMA ForgetMove ==
    ASSUME InboxTypeOK, Places, content' = <<>>, dropped' = dropped \cup ToSet(content),
           UNCHANGED <<queue, hand, answer, sent>>
    PROVE  Places'
<1>1. ToSet(content') = {} /\ IsInjective(content')
  BY EmptyFacts
<1>2. NotYet'
  BY <1>1 DEF Places, NotYet, Queued, Held, Returned
<1>3. OnePlace'
  BY <1>1 DEF Places, OnePlace, Increasing
<1>4. ReturnedOnce'
  <2>1. ASSUME NEW m \in Messages, m \in ToSet(content)
        PROVE  ~Held(m)' /\ ~Queued(m)'
    BY <1>1, <2>1 DEF Places, OnePlace, Held, Queued
  <2>2. QED
    BY <1>1, <2>1 DEF Places, ReturnedOnce, Queued, Held, Returned
<1>5. NothingVanishes'
  BY <1>1 DEF Places, NothingVanishes, Queued, Held, Returned
<1>6. QED
  BY <1>2, <1>3, <1>4, <1>5 DEF Places

\* A request answers with some of what was in the deque.
LEMMA AnswerMove ==
    ASSUME InboxTypeOK, Wiring, Places, NEW r \in Requests, Answer(r)
    PROVE  Places'
<1>0. /\ pc[r] = "polling" /\ content' = <<>>
      /\ answer' = [answer EXCEPT ![r] = FirstOf(r)]
      /\ dropped' = dropped \cup (ToSet(content) \ ToSet(FirstOf(r)))
      /\ UNCHANGED <<queue, hand, sent>>
  BY DEF Answer, Drain, loops, libp2p
<1>1. ToSet(content') = {} /\ IsInjective(content')
  BY <1>0, EmptyFacts
<1>2. /\ ToSet(FirstOf(r)) \subseteq ToSet(content) /\ ToSet(content) \subseteq Messages
      /\ IsInjective(FirstOf(r))
  BY AnswerType DEF Places, OnePlace
<1>3. /\ answer[r] = <<>> /\ ToSet(answer[r]) = {}
      /\ answer'[r] = FirstOf(r) /\ \A s \in Requests : s # r => answer'[s] = answer[s]
  BY <1>0, EmptyFacts DEF Wiring, InboxTypeOK
<1>4. \A m : Returned(m)' <=> Returned(m) \/ m \in ToSet(FirstOf(r))
  BY <1>3 DEF Returned
<1>5. \A m : /\ Queued(m)' <=> Queued(m)
             /\ Held(m)' => Held(m)
             /\ m \notin ToSet(content) /\ Held(m) => Held(m)'
  BY <1>0, <1>1 DEF Queued, Held
<1>6. NotYet'
  BY <1>0, <1>2, <1>4, <1>5 DEF Places, NotYet, Held
<1>7. OnePlace'
  BY <1>0, <1>1 DEF Places, OnePlace, Increasing
<1>8. ReturnedOnce'
  <2>1. \A s \in Requests : IsInjective(answer'[s])
    BY <1>2, <1>3 DEF Places, ReturnedOnce
  <2>2. \A s \in Requests : s # r => ToSet(FirstOf(r)) \cap ToSet(answer[s]) = {}
    <3>1. \A m \in ToSet(content) : m \in Messages /\ ~Returned(m)
      BY <1>2 DEF Places, ReturnedOnce, Held
    <3>2. QED
      BY <1>2, <3>1 DEF Returned
  <2>3. \A s, u \in Requests : s # u => ToSet(answer'[s]) \cap ToSet(answer'[u]) = {}
    BY <1>3, <2>2 DEF Places, ReturnedOnce
  <2>4. ASSUME NEW m \in ToSet(content) PROVE ~Held(m)' /\ ~Queued(m)'
    <3>1. m \in Messages
      BY <1>2
    <3>2. QED
      BY <1>0, <1>1, <3>1 DEF Places, OnePlace, Held, Queued
  <2>5. \A m \in Messages : Returned(m)' \/ m \in dropped' => ~Held(m)' /\ ~Queued(m)'
    BY <1>0, <1>2, <1>4, <1>5, <2>4 DEF Places, ReturnedOnce
  <2>6. QED
    BY <2>1, <2>3, <2>5 DEF ReturnedOnce, Held, Queued, Returned
<1>9. NothingVanishes'
  BY <1>0, <1>4, <1>5 DEF Places, NothingVanishes, Held
<1>10. QED
  BY <1>6, <1>7, <1>8, <1>9 DEF Places

\* A message arrives: it was nowhere.
LEMMA ArriveMove ==
    ASSUME InboxTypeOK, Places, Arrive
    PROVE  Places'
<1>0. /\ channel \in Subscribers /\ sent' = sent + 1 /\ sent' \in Messages /\ sent \in Nat
      /\ queue[channel] \in Seq(Messages)
      /\ queue'[channel] = Append(queue[channel], sent')
      /\ \A t \in Subscribers : t # channel => queue'[t] = queue[t]
      /\ UNCHANGED <<content, hand, answer, dropped>>
  BY TasksFacts DEF Arrive, InboxTypeOK, Messages, loops, outcome
<1>1. /\ \A t \in Subscribers : ToSet(queue[t]) \subseteq Messages
      /\ ToSet(content) \subseteq Messages
      /\ \A t \in Subscribers : hand[t] \in Messages \cup {0}
  BY Elements
<1>2. /\ ~Queued(sent') /\ ~Held(sent') /\ ~Returned(sent') /\ sent' \notin dropped
  BY <1>0 DEF Places, NotYet
<1>3. \A t \in Subscribers : \A m \in ToSet(queue[t]) : m < sent'
  <2> SUFFICES ASSUME NEW t \in Subscribers, NEW m \in ToSet(queue[t]) PROVE m < sent'
    OBVIOUS
  <2>1. m \in Messages /\ Queued(m)
    BY <1>1 DEF Queued
  <2>2. ~(m > sent)
    BY <2>1 DEF Places, NotYet
  <2>3. QED
    BY <1>0, <2>1, <2>2 DEF Messages
<1>4. /\ ToSet(queue'[channel]) = ToSet(queue[channel]) \cup {sent'}
      /\ Increasing(queue'[channel])
  BY <1>0, <1>3, AppendFacts DEF Places, OnePlace
<1>5. \A m : /\ Queued(m)' <=> Queued(m) \/ m = sent'
             /\ Held(m)' <=> Held(m)
             /\ Returned(m)' <=> Returned(m)
  BY <1>0, <1>4 DEF Queued, Held, Returned
<1>6. NotYet'
  BY <1>0, <1>5 DEF Places, NotYet, Messages
<1>7. OnePlace'
  <2>1. /\ \A t \in Subscribers : sent' \notin ToSet(queue[t]) /\ hand[t] # sent'
        /\ sent' \notin ToSet(content)
    BY <1>2 DEF Queued, Held
  <2>2. \A t \in Subscribers : Increasing(queue'[t])
    BY <1>0, <1>4 DEF Places, OnePlace
  <2>3. \A s, t \in Subscribers : s # t => ToSet(queue'[s]) \cap ToSet(queue'[t]) = {}
    <3> SUFFICES ASSUME NEW s \in Subscribers, NEW t \in Subscribers, s # t
                 PROVE  ToSet(queue'[s]) \cap ToSet(queue'[t]) = {}
      OBVIOUS
    <3>1. ToSet(queue[s]) \cap ToSet(queue[t]) = {}
      BY DEF Places, OnePlace
    <3>2. ToSet(queue'[s]) \subseteq ToSet(queue[s]) \cup IF s = channel THEN {sent'} ELSE {}
      BY <1>0, <1>4
    <3>3. ToSet(queue'[t]) \subseteq ToSet(queue[t]) \cup IF t = channel THEN {sent'} ELSE {}
      BY <1>0, <1>4
    <3>4. QED
      BY <2>1, <3>1, <3>2, <3>3
  <2>a. \A t \in Subscribers : ToSet(queue'[t]) \subseteq ToSet(queue[t]) \cup {sent'}
    BY <1>0, <1>4
  <2>4. \A t \in Subscribers : ToSet(queue'[t]) \cap ToSet(content) = {}
    <3>1. \A t \in Subscribers : ToSet(queue[t]) \cap ToSet(content) = {}
      BY DEF Places, OnePlace
    <3>2. QED
      BY <2>1, <2>a, <3>1
  <2>5. \A s, t \in Subscribers : hand[t] \notin ToSet(queue'[s])
    <3>1. \A s, t \in Subscribers : hand[t] \notin ToSet(queue[s])
      BY DEF Places, OnePlace
    <3>2. QED
      BY <2>1, <2>a, <3>1
  <2>6. QED
    BY <1>0, <2>2, <2>3, <2>4, <2>5 DEF Places, OnePlace, Increasing
<1>8. ReturnedOnce'
  BY <1>0, <1>2, <1>5 DEF Places, ReturnedOnce
<1>9. NothingVanishes'
  BY <1>0, <1>5 DEF Places, NothingVanishes
<1>10. QED
  BY <1>6, <1>7, <1>8, <1>9 DEF Places

\* get() hands the first message of a subscription to a loop.
LEMMA GetMove ==
    ASSUME InboxTypeOK, Wiring, Places, NEW x \in Subscribers, LoopGets(x)
    PROVE  /\ Places'
           /\ source[x] \in Subscribers /\ queue[source[x]] \in Seq(Messages) /\ queue[source[x]] # <<>>
           /\ ToSet(queue[source[x]]) = ToSet(queue'[source[x]]) \cup {hand'[x]}
           /\ hand'[x] \in Messages /\ \A m \in ToSet(queue'[source[x]]) : hand'[x] < m
           /\ \A t \in Subscribers : t # source[x] => queue'[t] = queue[t]
           /\ \A t \in Subscribers : t # x => hand'[t] = hand[t]
           /\ UNCHANGED <<content, answer, dropped, sent, source, loop>>
<1> DEFINE q == source[x]
           h == Head(queue[q])
<1>0. /\ q \in Subscribers /\ hand[x] = 0 /\ queue[q] \in Seq(Messages) /\ queue[q] # <<>>
      /\ hand'[x] = h /\ \A t \in Subscribers : t # x => hand'[t] = hand[t]
      /\ queue'[q] = Tail(queue[q]) /\ \A t \in Subscribers : t # q => queue'[t] = queue[t]
      /\ UNCHANGED <<content, answer, dropped, sent, source, loop>>
  <2>1. Wired(x)
    BY DEF Wiring
  <2>2. q \in Subscribers
    BY <2>1 DEF LoopGets, Wired, InboxTypeOK
  <2>3. QED
    BY <2>2 DEF LoopGets, InboxTypeOK, outcome
<1>1. /\ h \in Messages /\ ToSet(queue[q]) = ToSet(queue'[q]) \cup {h}
      /\ Increasing(queue'[q]) /\ \A m \in ToSet(queue'[q]) : h < m
  BY <1>0, TailFacts DEF Places, OnePlace
<1>2. /\ \A t \in Subscribers : ToSet(queue'[t]) \subseteq ToSet(queue[t])
      /\ h \in ToSet(queue[q]) /\ h # 0 /\ \A t \in Subscribers : h \notin ToSet(queue'[t])
  <2>1. h \notin ToSet(queue'[q]) /\ h # 0
    BY <1>1 DEF Messages
  <2>2. QED
    BY <1>0, <1>1, <2>1 DEF Places, OnePlace
<1>3. \A m \in Messages : /\ Queued(m) <=> Queued(m)' \/ m = h
                          /\ Held(m)' <=> Held(m) \/ m = h
                          /\ Returned(m)' <=> Returned(m)
  <2>1. \A m : Queued(m) <=> Queued(m)' \/ m = h
    BY <1>0, <1>1 DEF Queued
  <2>2. \A m \in Messages : m # 0
    BY DEF Messages
  <2>3. \A m \in Messages : Held(m)' <=> Held(m) \/ m = h
    BY <1>0, <2>2 DEF Held
  <2>4. QED
    BY <1>0, <2>1, <2>3 DEF Returned
<1>4. NotYet'
  BY <1>0, <1>3 DEF Places, NotYet
<1>5. OnePlace'
  <2>1. \A t \in Subscribers : Increasing(queue'[t])
    BY <1>0, <1>1 DEF Places, OnePlace
  <2>2. \A s, t \in Subscribers : s # t => ToSet(queue'[s]) \cap ToSet(queue'[t]) = {}
    BY <1>2 DEF Places, OnePlace
  <2>3. /\ IsInjective(content) /\ h \notin ToSet(content)
        /\ \A t \in Subscribers : ToSet(queue'[t]) \cap ToSet(content) = {}
    BY <1>0, <1>2 DEF Places, OnePlace
  <2>4. \A t \in Subscribers : hand'[t] \notin ToSet(content) /\ \A s \in Subscribers : hand'[t] \notin ToSet(queue'[s])
    <3> SUFFICES ASSUME NEW t \in Subscribers
                 PROVE  hand'[t] \notin ToSet(content) /\ \A s \in Subscribers : hand'[t] \notin ToSet(queue'[s])
      OBVIOUS
    <3>1. CASE t = x
      BY <1>0, <1>2, <2>3, <3>1
    <3>2. CASE t # x
      BY <1>0, <1>2, <3>2 DEF Places, OnePlace
    <3>3. QED
      BY <3>1, <3>2
  <2>5. \A t \in Subscribers : hand[t] # h
    BY <1>0, <1>2 DEF Places, OnePlace
  <2>6. \A s, t \in Subscribers : s # t /\ hand'[s] # 0 => hand'[s] # hand'[t]
    BY <1>0, <2>5 DEF Places, OnePlace
  <2>7. QED
    BY <1>0, <2>1, <2>2, <2>3, <2>4, <2>6 DEF OnePlace, Increasing
<1>6. ReturnedOnce'
  <2>1. Queued(h)
    BY <1>0, <1>2 DEF Queued
  <2>2. QED
    BY <1>0, <1>1, <1>3, <2>1 DEF Places, ReturnedOnce
<1>7. NothingVanishes'
  <2>1. \A m \in 1..sent : m \in Messages
    BY TasksFacts DEF InboxTypeOK, Messages
  <2>2. QED
    BY <1>0, <1>3, <2>1 DEF Places, NothingVanishes
<1>8. QED
  BY <1>0, <1>1, <1>4, <1>5, <1>6, <1>7 DEF Places

\* The loop appends what it holds to the deque; a full deque drops its oldest, and
\* one that is forgotten drops the message.
LEMMA AppendMove ==
    ASSUME InboxTypeOK, Places, NEW x \in Subscribers, LoopAppends(x)
    PROVE  /\ Places'
           /\ hand[x] # 0 /\ hand' = [hand EXCEPT ![x] = 0]
           /\ ToSet(content') \subseteq ToSet(content) \cup {hand[x]}
           /\ Increasing(content) /\ (\A m \in ToSet(content) : m < hand[x]) => Increasing(content')
           /\ UNCHANGED <<queue, source, loop, answer, sent>>
<1> DEFINE h == hand[x]
<1>0. /\ h \in Messages /\ h # 0 /\ content \in Seq(Messages)
      /\ hand' = [hand EXCEPT ![x] = 0] /\ hand'[x] = 0 /\ loop[x] = "reading"
      /\ \A t \in Subscribers : t # x => hand'[t] = hand[t]
      /\ UNCHANGED <<queue, source, loop, answer, sent>>
  BY DEF LoopAppends, InboxTypeOK, libp2p
<1>1. /\ IsInjective(content) /\ h \notin ToSet(content)
      /\ \A t \in Subscribers : h \notin ToSet(queue[t])
      /\ \A t \in Subscribers : t # x => h # hand'[t]
  BY <1>0 DEF Places, OnePlace
\* What was in the deque or in the loop's hand is in the deque now, or dropped.
<1>2. /\ content' \in Seq(Messages) /\ IsInjective(content')
      /\ ToSet(content') \cup dropped' = ToSet(content) \cup {h} \cup dropped
      /\ ToSet(content') \subseteq ToSet(content) \cup {h}
      /\ (dropped' \ dropped) \cap ToSet(content') = {}
      /\ dropped' \ dropped \subseteq ToSet(content) \cup {h} /\ dropped \subseteq dropped'
      /\ Increasing(content) /\ (\A m \in ToSet(content) : m < h) => Increasing(content')
  <2>1. CASE buffer[x] # current
    <3>1. content' = content /\ dropped' = dropped \cup {h}
      BY <2>1 DEF LoopAppends
    <3>2. QED
      BY <1>0, <1>1, <3>1 DEF Increasing
  <2>2. CASE buffer[x] = current /\ Len(content) # BufferMax
    <3>1. content' = Append(content, h) /\ dropped' = dropped
      BY <2>2 DEF LoopAppends
    <3>2. QED
      BY <1>0, <1>1, <3>1, AppendFacts
  <2>3. CASE buffer[x] = current /\ Len(content) = BufferMax
    <3>1. content # <<>>
      BY <2>3, EmptySeq, TasksFacts
    <3>2. /\ Tail(content) \in Seq(Messages) /\ IsInjective(Tail(content))
          /\ ToSet(content) = ToSet(Tail(content)) \cup {Head(content)}
          /\ Head(content) \notin ToSet(Tail(content))
          /\ Increasing(content) => Increasing(Tail(content))
      BY <1>0, <1>1, <3>1, TailFacts
    <3>3. content' = Append(Tail(content), h) /\ dropped' = dropped \cup {Head(content)}
      BY <2>3 DEF LoopAppends
    <3>4. /\ content' \in Seq(Messages) /\ ToSet(content') = ToSet(Tail(content)) \cup {h}
          /\ IsInjective(content')
          /\ Increasing(Tail(content)) /\ (\A m \in ToSet(Tail(content)) : m < h) => Increasing(content')
      BY <1>0, <1>1, <3>2, <3>3, AppendFacts
    <3>5. QED
      BY <1>1, <3>2, <3>3, <3>4
  <2>4. QED
    BY <2>1, <2>2, <2>3
<1>3. \A m \in Messages : /\ Queued(m)' <=> Queued(m)
                          /\ Returned(m)' <=> Returned(m)
                          /\ Held(m)' => Held(m)
                          /\ Held(m) => Held(m)' \/ m \in dropped'
  <2>1. \A m : (Queued(m)' <=> Queued(m)) /\ (Returned(m)' <=> Returned(m))
    BY <1>0 DEF Queued, Returned
  <2>2. ASSUME NEW m \in Messages, Held(m)' PROVE Held(m)
    <3>1. m # 0
      BY DEF Messages
    <3>2. QED
      BY <1>0, <1>2, <2>2, <3>1 DEF Held
  <2>3. ASSUME NEW m \in Messages, Held(m) PROVE Held(m)' \/ m \in dropped'
    <3>1. CASE m \in ToSet(content) \/ m = h
      BY <1>2, <3>1 DEF Held
    <3>2. CASE \E t \in Subscribers : t # x /\ m = hand[t]
      BY <1>0, <3>2 DEF Held
    <3>3. QED
      BY <2>3, <3>1, <3>2 DEF Held
  <2>4. QED
    BY <2>1, <2>2, <2>3
<1>4. NotYet'
  <2>1. \A m \in ToSet(content) \cup {h} : Held(m)
    BY DEF Held
  <2>2. QED
    BY <1>0, <1>2, <1>3, <2>1 DEF Places, NotYet
<1>5. OnePlace'
  <2>1. 0 \notin ToSet(content') /\ \A t \in Subscribers : 0 \notin ToSet(queue[t])
    <3>1. 0 \notin Messages
      BY DEF Messages
    <3>2. QED
      BY <1>0, <1>2, <3>1, Elements
  <2>2. \A t \in Subscribers : ToSet(queue[t]) \cap ToSet(content') = {}
    BY <1>1, <1>2 DEF Places, OnePlace
  <2>3. \A t \in Subscribers : hand'[t] \notin ToSet(content') /\ \A s \in Subscribers : hand'[t] \notin ToSet(queue[s])
    <3> SUFFICES ASSUME NEW t \in Subscribers
                 PROVE  hand'[t] \notin ToSet(content') /\ \A s \in Subscribers : hand'[t] \notin ToSet(queue[s])
      OBVIOUS
    <3>1. CASE t = x
      BY <1>0, <2>1, <3>1
    <3>2. CASE t # x
      BY <1>0, <1>1, <1>2, <3>2 DEF Places, OnePlace
    <3>3. QED
      BY <3>1, <3>2
  <2>4. \A s, t \in Subscribers : s # t /\ hand'[s] # 0 => hand'[s] # hand'[t]
    BY <1>0 DEF Places, OnePlace
  <2>5. QED
    BY <1>0, <1>2, <2>2, <2>3, <2>4 DEF Places, OnePlace, Increasing
<1>6. ReturnedOnce'
  <2>1. ASSUME NEW m \in dropped' \ dropped PROVE ~Held(m)' /\ ~Queued(m)'
    <3>1. m \in ToSet(content) \cup {h} /\ m \notin ToSet(content')
      BY <1>2
    <3>2. m \in Messages /\ m # 0
      BY <1>0, <3>1, Elements DEF Messages
    <3>3. \A t \in Subscribers : hand'[t] # m /\ m \notin ToSet(queue[t])
      <4>1. CASE m = h
        BY <1>0, <1>1, <4>1
      <4>2. CASE m # h
        BY <1>0, <3>1, <3>2, <4>2 DEF Places, OnePlace
      <4>3. QED
        BY <4>1, <4>2
    <3>4. QED
      BY <1>0, <3>1, <3>3 DEF Held, Queued
  <2>2. QED
    BY <1>0, <1>3, <2>1 DEF Places, ReturnedOnce
<1>7. NothingVanishes'
  <2>1. \A m \in 1..sent : m \in Messages
    BY TasksFacts DEF InboxTypeOK, Messages
  <2>2. QED
    BY <1>0, <1>2, <1>3, <2>1 DEF Places, NothingVanishes
<1>8. QED
  BY <1>0, <1>2, <1>4, <1>5, <1>6, <1>7 DEF Places

LEMMA NextPlaces == InboxTypeOK /\ Wiring /\ Places /\ [InboxNext]_inboxVars => Places'
<1> SUFFICES ASSUME InboxTypeOK, Wiring, Places, [InboxNext]_inboxVars PROVE Places'
  OBVIOUS
<1>1. CASE UNCHANGED inboxVars \/ StartupSubscribes \/ StartEnds \/ DiscoveryJoins \/ DiscoveryLeaves
  BY <1>1, NoMove
  DEF inboxVars, StartupSubscribes, StartEnds, DiscoveryJoins, DiscoveryLeaves, loops, libp2p, outcome
<1>2. ASSUME NEW t \in Subscribers, SubscribeReturns(t) \/ LoopStarts(t) \/ LoopEnds(t) PROVE Places'
  <2>1. UNCHANGED <<queue, content, hand, answer, dropped, sent>>
    BY <1>2 DEF SubscribeReturns, LoopStarts, LoopEnds, libp2p, outcome
  <2>2. QED
    BY <2>1, NoMove
<1>3. ASSUME NEW r \in Requests, RequestStarts(r) PROVE Places'
  BY <1>3, NoMove DEF RequestStarts, loops, outcome
<1>4. CASE Unsubscribe
  BY <1>4, ForgetMove DEF Unsubscribe, loops
<1>5. ASSUME NEW r \in Requests, PollAgain(r) PROVE Places'
  BY <1>5, ForgetMove DEF PollAgain, Drain, loops, libp2p
<1>6. QED
  BY <1>1, <1>2, <1>3, <1>4, <1>5, ArriveMove, GetMove, AppendMove, AnswerMove DEF InboxNext

-----------------------------------------------------------------------------
(* Their order                                                             *)

\* A loop that holds a message or has a subscription has been started.
LEMMA LoopOf ==
    ASSUME Wiring, NEW t \in Subscribers, hand[t] # 0 \/ source[t] # Nil
    PROVE  loop[t] # "none" /\ source[t] # Nil
BY DEF Wiring, Wired

\* A step that moves no message may start a loop, before there is anything in the
\* deque if it is the only one, or end one that holds nothing.
LEMMA NoMoveInSequence ==
    ASSUME InSequence, UNCHANGED <<queue, content, hand, answer>>,
           SingleLoop' => SingleLoop,
           \A t \in Subscribers :
              \/ source'[t] = source[t]
              \/ hand[t] = 0 /\ (source'[t] = Nil \/ (SingleLoop' => content = <<>>))
    PROVE  InSequence'
<1>1. ToSet(<<>>) = {}
  BY EmptyFacts
<1>2. \A t \in Subscribers : hand[t] # 0 => source'[t] = source[t]
  OBVIOUS
<1>3. \A t \in Subscribers : hand'[t] # 0 => \A m \in ToSet(queue'[source'[t]]) : hand'[t] < m
  BY <1>2 DEF InSequence
<1>4. ASSUME SingleLoop'
      PROVE  /\ Increasing(content') /\ \A r \in Requests : Increasing(answer'[r])
             /\ \A t \in Subscribers, m \in ToSet(content') :
                  /\ hand'[t] # 0 => m < hand'[t]
                  /\ source'[t] # Nil => \A n \in ToSet(queue'[source'[t]]) : m < n
  BY <1>1, <1>4 DEF InSequence, Increasing
<1>5. QED
  BY <1>3, <1>4 DEF InSequence, Increasing

LEMMA LoopInSequence ==
    ASSUME InboxTypeOK, Wiring, InSequence, NEW x \in Subscribers,
           SubscribeReturns(x) \/ LoopStarts(x) \/ LoopEnds(x)
    PROVE  InSequence'
<1>1. UNCHANGED <<queue, content, hand, answer>>
  BY DEF SubscribeReturns, LoopStarts, LoopEnds, libp2p, outcome
<1>2. Wired(x)
  BY DEF Wiring
<1>3. CASE SubscribeReturns(x)
  <2>1. loop[x] = "none" /\ hand[x] = 0
    BY <1>2, <1>3 DEF SubscribeReturns, Wired
  <2>2. CASE UNCHANGED <<loop, source>>
    BY <1>1, <2>2, NoMoveInSequence DEF SingleLoop
  <2>3. CASE /\ loop' = [loop EXCEPT ![x] = "starting"]
             /\ source' = [source EXCEPT ![x] = given[x]]
    <3>1. /\ loop'[x] # "none" /\ \A t \in Subscribers : t # x => loop'[t] = loop[t]
          /\ \A t \in Subscribers : t # x => source'[t] = source[t]
      BY <2>3 DEF InboxTypeOK
    <3>2. ASSUME SingleLoop' PROVE SingleLoop /\ content = <<>>
      <4>1. \A t \in Subscribers : loop[t] = "none"
        BY <2>1, <3>1, <3>2 DEF SingleLoop
      <4>2. QED
        BY <4>1 DEF Wiring, SingleLoop
    <3>3. QED
      BY <1>1, <2>1, <3>1, <3>2, NoMoveInSequence
  <2>4. QED
    BY <1>3, <2>2, <2>3 DEF SubscribeReturns
<1>4. CASE LoopStarts(x) \/ LoopEnds(x)
  <2>1. /\ loop[x] \in {"starting", "reading"} /\ hand[x] = 0
        /\ loop' = [loop EXCEPT ![x] = loop'[x]] /\ loop'[x] # "none"
        /\ source' = source \/ source' = [source EXCEPT ![x] = Nil]
    BY <1>2, <1>4 DEF LoopStarts, LoopEnds, LoopIsOver, Wired, InboxTypeOK
  <2>2. SingleLoop' => SingleLoop
    <3>1. \A t \in Subscribers : loop[t] # "none" => loop'[t] # "none"
      BY <2>1 DEF InboxTypeOK
    <3>2. QED
      BY <3>1 DEF SingleLoop
  <2>3. \A t \in Subscribers : source'[t] = source[t] \/ (hand[t] = 0 /\ source'[t] = Nil)
    BY <2>1 DEF InboxTypeOK
  <2>4. QED
    BY <1>1, <2>2, <2>3, NoMoveInSequence
<1>5. QED
  BY <1>3, <1>4

LEMMA ArriveInSequence ==
    ASSUME InboxTypeOK, Wiring, Places, InSequence, Arrive
    PROVE  InSequence'
<1>1. /\ channel \in Subscribers /\ sent' = sent + 1 /\ sent' \in Messages /\ sent \in Nat
      /\ queue[channel] \in Seq(Messages)
      /\ queue' = [queue EXCEPT ![channel] = Append(queue[channel], sent')]
      /\ UNCHANGED <<content, hand, answer, loop, source>>
  BY TasksFacts DEF Arrive, InboxTypeOK, Messages, loops, outcome
<1>2. ASSUME NEW m \in Messages, Held(m) PROVE m < sent'
  <2>1. ~(m > sent)
    BY <1>2 DEF Places, NotYet
  <2>2. QED
    BY <1>1, <2>1 DEF Messages
<1>3. /\ \A m \in ToSet(content) : m < sent'
      /\ \A t \in Subscribers : hand[t] # 0 => hand[t] < sent'
  <2>1. \A m \in ToSet(content) : m \in Messages /\ Held(m)
    BY Elements DEF Held
  <2>2. \A t \in Subscribers : hand[t] # 0 => hand[t] \in Messages /\ Held(hand[t])
    BY Elements DEF Held
  <2>3. QED
    BY <1>2, <2>1, <2>2
<1>4. \A s \in Subscribers : ToSet(queue'[s]) \subseteq ToSet(queue[s]) \cup {sent'}
  <2>1. ToSet(Append(queue[channel], sent')) = ToSet(queue[channel]) \cup {sent'}
    BY <1>1, AppendFacts
  <2>2. QED
    BY <1>1, <2>1 DEF InboxTypeOK
<1>5. \A t \in Subscribers : hand[t] # 0 \/ source[t] # Nil => source[t] \in Subscribers
  BY LoopOf DEF InboxTypeOK
<1>6. \A t \in Subscribers : hand'[t] # 0 => \A m \in ToSet(queue'[source'[t]]) : hand'[t] < m
  BY <1>1, <1>3, <1>4, <1>5 DEF InSequence
<1>7. ASSUME SingleLoop'
      PROVE  /\ Increasing(content') /\ \A r \in Requests : Increasing(answer'[r])
             /\ \A t \in Subscribers, m \in ToSet(content') :
                  /\ hand'[t] # 0 => m < hand'[t]
                  /\ source'[t] # Nil => \A n \in ToSet(queue'[source'[t]]) : m < n
  <2>1. SingleLoop
    BY <1>1, <1>7 DEF SingleLoop
  <2>2. QED
    BY <1>1, <1>3, <1>4, <1>5, <2>1 DEF InSequence, Increasing
<1>8. QED
  BY <1>6, <1>7 DEF InSequence, Increasing

LEMMA GetInSequence ==
    ASSUME InboxTypeOK, Wiring, Places, InSequence, NEW x \in Subscribers, LoopGets(x)
    PROVE  InSequence'
<1> DEFINE q == source[x]
<1>1. /\ q \in Subscribers /\ q # Nil
      /\ ToSet(queue[q]) = ToSet(queue'[q]) \cup {hand'[x]}
      /\ \A m \in ToSet(queue'[q]) : hand'[x] < m
      /\ \A t \in Subscribers : t # q => queue'[t] = queue[t]
      /\ \A t \in Subscribers : t # x => hand'[t] = hand[t]
      /\ UNCHANGED <<content, answer, source, loop>>
  BY GetMove, TasksFacts
<1>2. \A s \in Subscribers : ToSet(queue'[s]) \subseteq ToSet(queue[s])
  BY <1>1
<1>3. \A t \in Subscribers : hand[t] # 0 \/ source[t] # Nil => source[t] \in Subscribers
  BY LoopOf DEF InboxTypeOK
<1>4. ASSUME NEW t \in Subscribers, hand'[t] # 0, NEW m \in ToSet(queue'[source[t]])
      PROVE  hand'[t] < m
  <2>1. CASE t = x
    BY <1>1, <2>1
  <2>2. CASE t # x
    BY <1>1, <1>2, <1>3, <1>4, <2>2 DEF InSequence
  <2>3. QED
    BY <2>1, <2>2
<1>5. ASSUME SingleLoop'
      PROVE  /\ Increasing(content') /\ \A r \in Requests : Increasing(answer'[r])
             /\ \A t \in Subscribers, m \in ToSet(content') :
                  /\ hand'[t] # 0 => m < hand'[t]
                  /\ source'[t] # Nil => \A n \in ToSet(queue'[source'[t]]) : m < n
  <2>1. SingleLoop
    BY <1>1, <1>5 DEF SingleLoop
  <2>2. ASSUME NEW t \in Subscribers, NEW m \in ToSet(content)
        PROVE  /\ hand'[t] # 0 => m < hand'[t]
               /\ source[t] # Nil => \A n \in ToSet(queue'[source[t]]) : m < n
    <3>1. \A n \in ToSet(queue[q]) : m < n
      BY <1>1, <2>1, <2>2 DEF InSequence
    <3>2. hand'[t] # 0 => m < hand'[t]
      BY <1>1, <2>1, <2>2, <3>1 DEF InSequence
    <3>3. source[t] # Nil => \A n \in ToSet(queue'[source[t]]) : m < n
      BY <1>2, <1>3, <2>1, <2>2 DEF InSequence
    <3>4. QED
      BY <3>2, <3>3
  <2>3. QED
    BY <1>1, <2>1, <2>2 DEF InSequence, Increasing
<1>6. QED
  BY <1>1, <1>4, <1>5 DEF InSequence, Increasing

LEMMA AppendInSequence ==
    ASSUME InboxTypeOK, Wiring, Places, InSequence, NEW x \in Subscribers, LoopAppends(x)
    PROVE  InSequence'
<1> DEFINE h == hand[x]
<1>1. /\ h # 0 /\ hand'[x] = 0 /\ \A t \in Subscribers : t # x => hand'[t] = hand[t]
      /\ ToSet(content') \subseteq ToSet(content) \cup {h}
      /\ Increasing(content) /\ (\A m \in ToSet(content) : m < h) => Increasing(content')
      /\ UNCHANGED <<queue, source, loop, answer>>
  BY AppendMove DEF InboxTypeOK
<1>2. \A t \in Subscribers : hand'[t] # 0 => \A m \in ToSet(queue'[source'[t]]) : hand'[t] < m
  BY <1>1 DEF InSequence
<1>3. ASSUME SingleLoop'
      PROVE  /\ Increasing(content') /\ \A r \in Requests : Increasing(answer'[r])
             /\ \A t \in Subscribers, m \in ToSet(content') :
                  /\ hand'[t] # 0 => m < hand'[t]
                  /\ source'[t] # Nil => \A n \in ToSet(queue'[source'[t]]) : m < n
  <2>1. SingleLoop
    BY <1>1, <1>3 DEF SingleLoop
  <2>2. \A t \in Subscribers : hand[t] # 0 \/ source[t] # Nil => t = x
    BY <1>1, <2>1, LoopOf DEF SingleLoop
  <2>3. /\ Increasing(content) /\ \A m \in ToSet(content) : m < h
        /\ \A r \in Requests : Increasing(answer[r])
    BY <1>1, <2>1 DEF InSequence
  <2>4. ASSUME NEW t \in Subscribers, NEW m \in ToSet(content'), source[t] # Nil
        PROVE  \A n \in ToSet(queue[source[t]]) : m < n
    <3>1. t = x
      BY <2>2, <2>4
    <3>2. CASE m = h
      BY <1>1, <3>1, <3>2 DEF InSequence
    <3>3. CASE m \in ToSet(content)
      BY <2>1, <2>4, <3>3 DEF InSequence
    <3>4. QED
      BY <1>1, <3>2, <3>3
  <2>5. \A t \in Subscribers : hand'[t] = 0
    BY <1>1, <2>2
  <2>6. QED
    BY <1>1, <2>3, <2>4, <2>5 DEF Increasing
<1>4. QED
  BY <1>2, <1>3 DEF InSequence, Increasing

LEMMA RequestInSequence ==
    ASSUME InboxTypeOK, Wiring, InSequence, content' = <<>>,
           UNCHANGED <<queue, hand, source, loop>>,
           \/ answer' = answer
           \/ \E r \in Requests : answer' = [answer EXCEPT ![r] = FirstOf(r)]
    PROVE  InSequence'
<1>1. ToSet(content') = {} /\ Increasing(content')
  BY EmptyFacts
<1>2. ASSUME SingleLoop', NEW s \in Requests PROVE Increasing(answer'[s])
  <2>1. Increasing(content) /\ Increasing(answer[s])
    BY <1>2 DEF InSequence, SingleLoop
  <2>2. answer'[s] = answer[s] \/ answer'[s] = FirstOf(s)
    BY DEF InboxTypeOK
  <2>3. QED
    BY <2>1, <2>2, AnswerType
<1>3. QED
  BY <1>1, <1>2 DEF InSequence, Increasing

LEMMA NextInSequence ==
    InboxTypeOK /\ Wiring /\ Places /\ InSequence /\ [InboxNext]_inboxVars => InSequence'
<1> SUFFICES ASSUME InboxTypeOK, Wiring, Places, InSequence, [InboxNext]_inboxVars PROVE InSequence'
  OBVIOUS
<1>1. CASE UNCHANGED inboxVars \/ StartupSubscribes \/ StartEnds \/ DiscoveryJoins \/ DiscoveryLeaves
  <2>1. UNCHANGED <<queue, content, hand, answer, loop, source>>
    BY <1>1 DEF inboxVars, StartupSubscribes, StartEnds, DiscoveryJoins, DiscoveryLeaves, loops, libp2p, outcome
  <2>2. QED
    BY <2>1, NoMoveInSequence DEF SingleLoop
<1>2. ASSUME NEW r \in Requests, RequestStarts(r) PROVE InSequence'
  <2>1. UNCHANGED <<queue, content, hand, answer, loop, source>>
    BY <1>2 DEF RequestStarts, loops, outcome
  <2>2. QED
    BY <2>1, NoMoveInSequence DEF SingleLoop
<1>3. CASE Unsubscribe
  BY <1>3, RequestInSequence DEF Unsubscribe, loops
<1>4. ASSUME NEW r \in Requests, PollAgain(r) \/ Answer(r) PROVE InSequence'
  <2>1. /\ content' = <<>> /\ UNCHANGED <<queue, hand, source, loop>>
        /\ answer' = answer \/ answer' = [answer EXCEPT ![r] = FirstOf(r)]
    BY <1>4 DEF PollAgain, Answer, Drain, loops, libp2p
  <2>2. QED
    BY <2>1, RequestInSequence
<1>5. QED
  BY <1>1, <1>2, <1>3, <1>4, LoopInSequence, ArriveInSequence, GetInSequence, AppendInSequence
  DEF InboxNext

-----------------------------------------------------------------------------
(* A topic that is registered is read                                      *)

LEMMA NextRegistered ==
    InboxTypeOK /\ Wiring /\ RegisteredIsRead /\ [InboxNext]_inboxVars => RegisteredIsRead'
<1> SUFFICES ASSUME InboxTypeOK, Wiring, RegisteredIsRead, [InboxNext]_inboxVars PROVE RegisteredIsRead'
  OBVIOUS
<1> USE TasksFacts
\* Most steps leave the subscriptions and the loops alone.
<1>1. ASSUME UNCHANGED <<registered, channel, early, source, loop>> PROVE RegisteredIsRead'
  BY <1>1 DEF RegisteredIsRead
\* The subscription libp2p opens anew is not the one that is registered.
<1>2. ASSUME NEW x \in Subscribers, pc[x] = "idle", AskLibp2p(x),
             UNCHANGED <<registered, early, source, loop>>
      PROVE  RegisteredIsRead'
  <2>1. x # registered
    BY <1>2 DEF Wiring, Wired
  <2>2. channel' = IF channel = Nil THEN x ELSE channel
    BY <1>2 DEF AskLibp2p, InboxTypeOK
  <2>3. QED
    BY <1>2, <2>1, <2>2 DEF RegisteredIsRead
<1>3. CASE UNCHANGED inboxVars \/ Arrive \/ StartEnds \/ \E x \in Subscribers : LoopGets(x) \/ LoopAppends(x)
  BY <1>1, <1>3 DEF inboxVars, Arrive, StartEnds, LoopGets, LoopAppends, loops, libp2p, outcome
<1>4. ASSUME NEW r \in Requests, Answer(r) \/ PollAgain(r) PROVE RegisteredIsRead'
  BY <1>1, <1>4 DEF Answer, PollAgain, loops, libp2p
<1>5. CASE StartupSubscribes \/ DiscoveryJoins
  BY <1>2, <1>5 DEF StartupSubscribes, DiscoveryJoins, loops, outcome
<1>6. CASE DiscoveryLeaves \/ Unsubscribe
  BY <1>6 DEF DiscoveryLeaves, Unsubscribe, RegisteredIsRead
<1>7. ASSUME NEW r \in Requests, RequestStarts(r) PROVE RegisteredIsRead'
  <2>1. pc[r] = "idle" /\ r \in Subscribers /\ UNCHANGED <<registered, early, source, loop>>
    BY <1>7 DEF RequestStarts, loops, outcome
  <2>2. CASE registered = Nil
    BY <1>2, <1>7, <2>1, <2>2 DEF RequestStarts
  <2>3. CASE registered # Nil
    BY <1>1, <1>7, <2>1, <2>3 DEF RequestStarts
  <2>4. QED
    BY <2>2, <2>3
<1>8. ASSUME NEW x \in Subscribers, SubscribeReturns(x) PROVE RegisteredIsRead'
  <2>1. UNCHANGED <<channel, early>>
    BY <1>8 DEF SubscribeReturns, libp2p, outcome
  <2>2. CASE UNCHANGED <<registered, loop, source>>
    BY <1>1, <2>1, <2>2
  <2>3. CASE /\ registered' = given[x]
             /\ loop' = [loop EXCEPT ![x] = "starting"]
             /\ source' = [source EXCEPT ![x] = given[x]]
    <3>1. loop'[x] = "starting" /\ source'[x] = registered'
      BY <2>3 DEF InboxTypeOK
    <3>2. QED
      BY <3>1 DEF RegisteredIsRead
  <2>4. QED
    BY <1>8, <2>2, <2>3 DEF SubscribeReturns
\* A loop that ends at once leaves its subscription among the early ones, ...
<1>9. ASSUME NEW x \in Subscribers, LoopStarts(x) PROVE RegisteredIsRead'
  <2>1. /\ loop[x] = "starting" /\ UNCHANGED <<registered, channel>>
    BY <1>9 DEF LoopStarts, libp2p
  <2>2. CASE state = "RUNNING"
    <3>1. loop' = [loop EXCEPT ![x] = "reading"] /\ UNCHANGED <<source, early>>
      BY <1>9, <2>2 DEF LoopStarts
    <3>2. \A t \in Subscribers : loop[t] \in {"starting", "reading"} => loop'[t] \in {"starting", "reading"}
      BY <3>1 DEF InboxTypeOK
    <3>3. QED
      BY <2>1, <3>1, <3>2 DEF RegisteredIsRead
  <2>3. CASE state # "RUNNING"
    <3>1. LoopIsOver(x) /\ early' = early \cup {source[x]}
      BY <1>9, <2>3 DEF LoopStarts
    <3>2. \A t \in Subscribers : t # x => loop'[t] = loop[t] /\ source'[t] = source[t]
      BY <3>1 DEF LoopIsOver, InboxTypeOK
    <3>3. QED
      BY <2>1, <3>1, <3>2 DEF RegisteredIsRead
  <2>4. QED
    BY <2>2, <2>3
\* ... and one that ends later read a subscription that is closed.
<1>10. ASSUME NEW x \in Subscribers, LoopEnds(x) PROVE RegisteredIsRead'
  <2>1. /\ channel # source[x] /\ LoopIsOver(x) /\ UNCHANGED <<registered, channel, early>>
    BY <1>10 DEF LoopEnds, libp2p, outcome
  <2>2. \A t \in Subscribers : t # x => loop'[t] = loop[t] /\ source'[t] = source[t]
    BY <2>1 DEF LoopIsOver, InboxTypeOK
  <2>3. QED
    BY <2>1, <2>2 DEF RegisteredIsRead
<1>11. QED
  BY <1>3, <1>4, <1>5, <1>6, <1>7, <1>8, <1>9, <1>10 DEF InboxNext

-----------------------------------------------------------------------------
(* The theorems                                                            *)

\* The inductive invariant.
THEOREM InboxInvariance == InboxSpec => []InboxInv
<1>1. InboxInit => InboxInv
  <2> SUFFICES ASSUME InboxInit PROVE InboxInv
    OBVIOUS
  <2>1. InboxTypeOK /\ Wiring /\ Places
    BY InitWired, InitPlaces
  <2>2. InSequence
    <3>1. /\ content = <<>> /\ \A t \in Subscribers : hand[t] = 0
          /\ \A r \in Requests : answer[r] = <<>>
      BY DEF InboxInit
    <3>2. QED
      BY <3>1, EmptyFacts DEF InSequence
  <2>3. RegisteredIsRead
    BY DEF InboxInit, RegisteredIsRead
  <2>4. QED
    BY <2>1, <2>2, <2>3 DEF InboxInv, Places
<1>2. InboxInv /\ [InboxNext]_inboxVars => InboxInv'
  BY NextWired, NextPlaces, NextInSequence, NextRegistered DEF InboxInv, Places
<1>3. QED
  BY <1>1, <1>2, PTL DEF InboxSpec

LEMMA OneLoop ==
    ASSUME Cardinality({t \in Subscribers : loop[t] # "none"}) <= 1
    PROVE  SingleLoop
<1> SUFFICES ASSUME NEW s \in Subscribers, NEW t \in Subscribers, loop[s] # "none", loop[t] # "none", s # t
             PROVE  FALSE
  BY DEF SingleLoop
<1> DEFINE L == {u \in Subscribers : loop[u] # "none"}
<1>1. IsFiniteSet(L) /\ {s, t} \subseteq L
  BY TasksFacts, FS_Subset
<1>2. Cardinality({s, t}) = 2
  <2>1. IsFiniteSet({s}) /\ Cardinality({s}) = 1
    BY FS_Singleton
  <2>2. {s, t} = {s} \cup {t} /\ t \notin {s}
    OBVIOUS
  <2>3. QED
    BY <2>1, <2>2, FS_AddElement
<1>3. Cardinality(L) \in Nat /\ 2 <= Cardinality(L)
  BY <1>1, <1>2, FS_Subset, FS_CardinalityType
<1>4. QED
  BY <1>3

\* Requests get the messages of a topic once and, as long as it was subscribed
\* once, in the order in which they arrived; the deque keeps to its bound.
THEOREM DeliveredOnce == InboxSpec => []OnceInOrder
<1>1. InboxInv => OnceInOrder
  <2> SUFFICES ASSUME InboxInv PROVE InOrder
    BY DEF InboxInv, OnceInOrder
  <2>1. QED
    BY OneLoop DEF InboxInv, InSequence, Increasing, InOrder
<1>2. QED
  BY <1>1, InboxInvariance, PTL

\* A message that has reached the peer is on its way to a request, was returned to
\* one, or has been dropped for one of the reasons the code has.
THEOREM NothingIsLost == InboxSpec => []NothingVanishes
<1>1. InboxInv => NothingVanishes
  BY DEF InboxInv
<1>2. QED
  BY <1>1, InboxInvariance, PTL

\* The subscription that is registered and open has a loop that reads it, unless
\* its loop found the peer still STARTING.
THEOREM RegisteredTopicIsRead == InboxSpec => []RegisteredIsRead
<1>1. InboxInv => RegisteredIsRead
  BY DEF InboxInv
<1>2. QED
  BY <1>1, InboxInvariance, PTL
=============================================================================
