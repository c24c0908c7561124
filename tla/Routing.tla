-------------------------------- MODULE Routing --------------------------------
(***************************************************************************)
(* How a peer finds others and is found: TieredRouting over its routers    *)
(* (routing.py), of which one is an HTTP client and the other the DHT; and *)
(* the two ways the DHT's routing table gets its first entries, bootstrap()*)
(* and the warm-up from the peerstore (peer/_lifecycle.py).                *)
(*                                                                         *)
(* A call of TieredRouting asks its routers in turn, one await for each.   *)
(* Calls share nothing but the routers, whose answers are left open, so    *)
(* one call at a time is all there is to see.                              *)
(***************************************************************************)
EXTENDS Naturals, Sequences, FiniteSets, SequencesExt

CONSTANTS
    Tier,         \* the kinds of the routers, in order: "ipni" or "dht"
    Providers,
    Junk,         \* a line of a response that names no provider
    Broken,       \* an entry of a response that is not of the expected shape
    Count,        \* the number of providers asked for
    MaxLines,     \* bound: entries of a response
    Guard,        \* of the refresh in bootstrap, 30 s
    Stored,       \* peers that can be in the peerstore
    Me,           \* the peer itself, which is among them
    MaxPeers      \* IPFS_LITE_RT_WARMUP_PEERS

ASSUME RoutingAssumption ==
    /\ Tier \in Seq({"ipni", "dht"})
    /\ Junk \notin Providers /\ Broken \notin Providers
    /\ Count \in Nat \ {0} /\ MaxLines \in Nat /\ Guard \in Nat \ {0}
    /\ IsFiniteSet(Stored) /\ Me \in Stored /\ MaxPeers \in Nat

VARIABLES
    (* a call of TieredRouting *)
    call,         \* what is under way, or what the last call was
    asked,        \* the routers it has come to
    found,        \* all_providers, cut to Count in the end
    heard,        \* history: the providers some router named to it
    success,      \* of provide()
    clipped,      \* history: an answer repeated a provider or broke off
    took,         \* history: the routers that took the record
    (* bootstrap() *)
    boot,         \* where it is
    guard,        \* time left to the refresh
    (* the warm-up *)
    tiered,       \* self.routing is a TieredRouting, and not an adapter of the DHT
    known,        \* the peerstore: "absent", "bare" without addresses, "addressed"
    warm,         \* where it is
    candidates,
    offered,      \* history: given to routing_table.add_peer
    steady,       \* history: with addresses ever since the peerstore was listed
    excess        \* history: how many more were listed than there was room for

callVars == <<call, asked, found, heard, clipped, success, took>>
bootVars == <<boot, guard>>
warmVars == <<tiered, known, warm, candidates, offered, steady, excess>>
routingVars == <<callVars, bootVars, warmVars>>

RoutingInit ==
    /\ call = "none" /\ asked = {} /\ found = <<>> /\ heard = {} /\ clipped = FALSE
    /\ success = FALSE /\ took = {}
    /\ boot = "none" /\ guard = 0
    /\ tiered \in BOOLEAN
    /\ known \in [Stored -> {"absent", "bare", "addressed"}]
    /\ warm = "asleep" /\ candidates = <<>> /\ offered = {} /\ steady = {} /\ excess = 0

-----------------------------------------------------------------------------
(* What the routers answer                                                 *)

FirstOf(s, n) == SubSeq(s, 1, IF Len(s) < n THEN Len(s) ELSE n)

\* The providers among the entries, in order.
Named(entries) ==
    LET named[i \in 0..Len(entries)] ==
            IF i = 0 THEN <<>>
            ELSE IF entries[i] \in Providers THEN Append(named[i - 1], entries[i]) ELSE named[i - 1]
    IN  named[Len(entries)]

\* What comes before the first broken entry.
Unbroken(entries) ==
    LET i == SelectInSeq(entries, LAMBDA e : e = Broken)
    IN  IF i = 0 THEN entries ELSE SubSeq(entries, 1, i - 1)

\* DelegatedHTTPRouting.find_providers reads up to Count providers, the same one
\* twice if it is there twice.  In the lines of the delegated routing API what
\* cannot be used is passed over; in the result of the native API, which it falls
\* back to, an entry of another shape raises, and what was read before it is the
\* answer.  An error of any kind is an empty answer.
IpniAnswers ==
    LET usable == Providers \cup {Junk}
        answer(entries, read) ==
            [providers |-> FirstOf(Named(read), Count), named |-> ToSet(Named(entries)),
             whole |-> read = entries /\ IsInjective(Named(entries))]
    IN  {answer(e, e) : e \in BoundedSeq(usable, MaxLines)}
        \cup {answer(e, Unbroken(e)) : e \in BoundedSeq(usable \cup {Broken}, MaxLines)}

\* External: the DHT.
DhtAnswers ==
    {[providers |-> s, named |-> ToSet(s), whole |-> TRUE] :
        s \in {q \in BoundedSeq(Providers, Count) : IsInjective(q)}}

Answers(r) == IF Tier[r] = "ipni" THEN IpniAnswers ELSE DhtAnswers

\* The HTTP client catches what goes wrong, the DHT may raise.
MayRaise(r) == Tier[r] = "dht"

-----------------------------------------------------------------------------
(* A call of TieredRouting                                                 *)

Idle == call \in {"none", "found", "provided"}

NextRouter(r) == r \in DOMAIN Tier \ asked /\ \A q \in DOMAIN Tier \ asked : r <= q

Find ==
    /\ tiered /\ Idle
    /\ call' = "finding"
    /\ asked' = {} /\ found' = <<>> /\ heard' = {} /\ clipped' = FALSE
    /\ UNCHANGED <<success, took>>

\* all_providers and seen_ids.
Merged(s, t) ==
    LET all[i \in 0..Len(t)] ==
            IF i = 0 THEN s
            ELSE IF t[i] \in ToSet(all[i - 1]) THEN all[i - 1] ELSE Append(all[i - 1], t[i])
    IN  all[Len(t)]

\* Mutation: what the router names is counted and cut, the repeated with it.
FindAsksUnmerged(r) ==
    /\ call = "finding" /\ NextRouter(r) /\ Len(found) < Count
    /\ asked' = asked \cup {r}
    /\ \/ \E a \in Answers(r) :
             /\ found' = found \o a.providers
             /\ heard' = heard \cup a.named
             /\ clipped' = (clipped \/ ~a.whole)
       \/ MayRaise(r) /\ UNCHANGED <<found, heard, clipped>>
    /\ UNCHANGED <<call, success, took>>

\* A router that raises, or finds nothing, is passed over.
FindAsks(r) ==
    /\ call = "finding" /\ NextRouter(r) /\ Len(found) < Count
    /\ asked' = asked \cup {r}
    /\ \/ \E a \in Answers(r) :
             /\ found' = Merged(found, a.providers)
             /\ heard' = heard \cup a.named
             /\ clipped' = (clipped \/ ~a.whole)
       \/ MayRaise(r) /\ UNCHANGED <<found, heard, clipped>>
    /\ UNCHANGED <<call, success, took>>

FindReturns ==
    /\ call = "finding"
    /\ asked = DOMAIN Tier \/ Len(found) >= Count
    /\ call' = "found"
    /\ found' = FirstOf(found, Count)
    /\ UNCHANGED <<asked, heard, clipped, success, took>>

Announce ==
    /\ tiered /\ Idle
    /\ call' = "providing"
    /\ asked' = {} /\ success' = FALSE /\ took' = {}
    /\ UNCHANGED <<found, heard, clipped>>

\* A router takes the record, or refuses it, or raises, also when it has taken it
\* and its answer was lost.
AnnounceAsks(r) ==
    /\ call = "providing" /\ NextRouter(r)
    /\ asked' = asked \cup {r}
    /\ took' \in {took, took \cup {r}}
    /\ success' \in IF r \in took' THEN {success, TRUE} ELSE {success}
    /\ UNCHANGED <<call, found, heard, clipped>>

AnnounceReturns ==
    /\ call = "providing" /\ asked = DOMAIN Tier
    /\ call' = "provided"
    /\ UNCHANGED <<asked, found, heard, clipped, success, took>>

\* The caller's time is up: 90 s after an add, 30 s for the reprovider.
AnnounceTimesOut ==
    /\ call = "providing"
    /\ call' = "none"
    /\ UNCHANGED <<asked, found, heard, clipped, success, took>>

CallStep ==
    \/ Find \/ FindReturns \/ Announce \/ AnnounceReturns \/ AnnounceTimesOut
    \/ \E r \in DOMAIN Tier : FindAsks(r) \/ AnnounceAsks(r)

-----------------------------------------------------------------------------
(* bootstrap()                                                             *)

\* The given peers are dialled; _ensure_started() holds.
Bootstrap ==
    /\ boot = "none"
    /\ boot' = "dialling"
    /\ UNCHANGED guard

\* BootstrapDiscovery.start() is over; if there is a routing table to refresh,
\* there is a limit to it.
Dialled ==
    /\ boot = "dialling"
    /\ \/ boot' = "refreshing" /\ guard' = Guard
       \/ boot' = "none" /\ UNCHANGED guard

\* TieredRouting refreshes those of its routers that can be; done or failed.
Refreshed ==
    /\ boot = "refreshing"
    /\ boot' = "none" /\ guard' = 0

\* Mutation: without move_on_after.
GuardPassesUnseen ==
    /\ boot = "refreshing" /\ guard > 0
    /\ guard' = guard - 1
    /\ UNCHANGED boot

\* The time allowed for the refresh passes, then it is cancelled.
GuardPasses ==
    /\ boot = "refreshing" /\ guard > 0
    /\ guard' = guard - 1
    /\ boot' = IF guard = 1 THEN "none" ELSE boot

BootStep == Bootstrap \/ Dialled \/ Refreshed \/ GuardPasses

-----------------------------------------------------------------------------
(* _warm_routing_table_from_peerstore()                                    *)

\* Identify, and the ends of addresses' lives.
PeerstoreChanges(p) ==
    /\ \E s \in {"absent", "bare", "addressed"} \ {known[p]} :
          known' = [known EXCEPT ![p] = s]
    /\ steady' = steady \ {p}
    /\ UNCHANGED <<tiered, warm, candidates, offered, excess>>

\* A TieredRouting has no _routing, and the task ends; else the peerstore is listed,
\* and some are chosen when they are too many.
WarmUpStarts ==
    LET listed == {p \in Stored \ {Me} : known[p] # "absent"}
        room == IF Cardinality(listed) < MaxPeers THEN Cardinality(listed) ELSE MaxPeers
    IN  /\ warm = "asleep"
        /\ IF tiered
           THEN warm' = "over" /\ UNCHANGED <<candidates, steady, excess>>
           ELSE /\ warm' = "inserting"
                /\ \E chosen \in {S \in SUBSET listed : Cardinality(S) = room} :
                      candidates' \in SetToSeqs(chosen)
                /\ steady' = {p \in listed : known[p] = "addressed"}
                /\ excess' = Cardinality(listed) - room
        /\ UNCHANGED <<tiered, known, offered>>

\* Mutation: the try is around the loop and not in it.
InsertOrStop ==
    /\ warm = "inserting" /\ candidates # <<>>
    /\ LET p == Head(candidates)
       IN  /\ offered' = IF known[p] = "addressed" THEN offered \cup {p} ELSE offered
           /\ candidates' = IF known[p] = "absent" THEN <<>> ELSE Tail(candidates)
    /\ UNCHANGED <<tiered, known, warm, steady, excess>>

\* One candidate: it is gone (addrs raises), it has no addresses any more, or it is
\* given to the routing table, which takes it, refuses it or raises.
Insert ==
    /\ warm = "inserting" /\ candidates # <<>>
    /\ LET p == Head(candidates)
       IN  offered' = IF known[p] = "addressed" THEN offered \cup {p} ELSE offered
    /\ candidates' = Tail(candidates)
    /\ UNCHANGED <<tiered, known, warm, steady, excess>>

WarmUpEnds ==
    /\ warm = "inserting" /\ candidates = <<>>
    /\ warm' = "over"
    /\ UNCHANGED <<tiered, known, candidates, offered, steady, excess>>

WarmStep == WarmUpStarts \/ Insert \/ WarmUpEnds \/ \E p \in Stored : PeerstoreChanges(p)

-----------------------------------------------------------------------------
(* Properties                                                              *)

\* A lookup that returns names nobody twice and no more than asked for, and nobody
\* no router named.  If it names fewer, every router was asked, whichever failed,
\* and everybody they named is there, but for an answer that repeats itself or
\* breaks off.  An announcement came to every router, and succeeded only if one of
\* them has it.
CallsAreComplete ==
    /\ call = "found" =>
          /\ IsInjective(found) /\ Len(found) <= Count /\ ToSet(found) \subseteq heard
          /\ Len(found) < Count =>
                asked = DOMAIN Tier /\ (clipped \/ ToSet(found) = heard)
    /\ call = "provided" => asked = DOMAIN Tier /\ (success => took # {})

\* The warm-up gives the routing table at most its number of peers and never the
\* peer itself.  When it is over, of the peers that kept their addresses since the
\* peerstore was listed it has left out only those there was no room for, whatever
\* happened to the others meanwhile.
WarmUpIsComplete ==
    /\ Cardinality(offered) <= MaxPeers /\ Me \notin offered
    /\ warm = "over" => Cardinality(steady \ offered) <= excess

\* bootstrap() returns although a refresh of the routing table may never end: the
\* API server waits for it before it serves.
BootstrapReturns == boot = "dialling" ~> boot = "none"
=============================================================================
