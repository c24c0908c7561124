----------------------------- MODULE PubsubInbox -----------------------------
(***************************************************************************)
(* What becomes of the messages of one pubsub topic (peer/_pubsub.py and   *)
(* api/routers/pubsub.py): libp2p queues them on a subscription, a receive *)
(* loop moves them into a bounded buffer, requests drain the buffer.       *)
(*                                                                         *)
(* Everybody who subscribes the topic, i.e. the start of the peer for a    *)
(* configured topic, the discovery loop or a request, may do so while      *)
(* another one is at it, and then starts a receive loop of his own.  The   *)
(* topics of a peer do not share anything that is modelled here.  Which    *)
(* topics are subscribed is the subject of PubsubTopics.                   *)
(***************************************************************************)
EXTENDS Integers, SequencesExt

CONSTANTS
    Requests,       \* GET /api/v0/pubsub/sub
    Counts,         \* their count parameter, 0 for all
    MaxMessages,    \* bound: messages that reach the peer
    BufferMax       \* maxlen of the buffer, 100 in the code

ASSUME InboxAssumption ==
    /\ IsFiniteSet(Requests) /\ Counts \subseteq Nat
    /\ MaxMessages \in Nat /\ BufferMax \in Nat \ {0}
    /\ {"peer", "none"} \cap Requests = {}

(* "peer" is the peer itself, its start or its discovery loop.  Bound: each task
   subscribes at most once, so a subscription of libp2p, a receive loop and a deque
   are named after the task that made them. *)
Subscribers == Requests \cup {"peer"}
Nil == "none"
Messages == 1..MaxMessages

VARIABLES
    state,      \* of the peer: "STARTING" or "RUNNING"
    registered, \* _pubsub_subscriptions[topic], or Nil
    current,    \* _pubsub_messages[topic], a deque, or Nil
    content,    \* ... what is in that deque
    pc,         \* of each task: "idle", "subscribing", "polling", "done"
    count,      \* ... and the count of each request that is running
    given,      \* the subscription each call of libp2p is going to return
    loop,       \* of each receive loop: "none", "starting", "reading", "ended"
    source,     \* ... the subscription it reads
    buffer,     \* ... the deque it appends to
    hand,       \* ... the message get() has returned and it has yet to append
    (* libp2p *)
    channel,    \* the subscription of the topic that is open, or Nil
    queue,      \* the messages on each subscription
    sent,       \* how many have arrived
    (* history *)
    answer,     \* what each request has returned
    dropped,    \* drained by a request that did not return them, pushed out of a
                \* full deque, or in one that nothing refers to any more
    early       \* subscriptions whose loop found the peer not RUNNING

loops == <<loop, source, buffer, hand>>
libp2p == <<channel, queue, sent>>
outcome == <<answer, dropped, early>>
inboxVars == <<state, registered, current, content, pc, count, given, loops, libp2p, outcome>>

InboxTypeOK ==
    /\ state \in {"STARTING", "RUNNING"}
    /\ {registered, current, channel} \subseteq Subscribers \cup {Nil}
    /\ content \in Seq(Messages) /\ Len(content) <= BufferMax
    /\ pc \in [Subscribers -> {"idle", "subscribing", "polling", "done"}]
    /\ count \in [Requests -> Counts \cup {0}]
    /\ given \in [Subscribers -> Subscribers \cup {Nil}]
    /\ loop \in [Subscribers -> {"none", "starting", "reading", "ended"}]
    /\ source \in [Subscribers -> Subscribers \cup {Nil}]
    /\ buffer \in [Subscribers -> Subscribers \cup {Nil}]
    /\ hand \in [Subscribers -> Messages \cup {0}]
    /\ queue \in [Subscribers -> Seq(Messages)]
    /\ sent \in 0..MaxMessages
    /\ answer \in [Requests -> Seq(Messages)]
    /\ dropped \subseteq Messages
    /\ early \subseteq Subscribers

InboxInit ==
    /\ state = "STARTING"
    /\ registered = Nil /\ current = Nil /\ channel = Nil
    /\ content = <<>> /\ queue = [t \in Subscribers |-> <<>>]
    /\ pc = [t \in Subscribers |-> "idle"]
    /\ count = [r \in Requests |-> 0]
    /\ given = [t \in Subscribers |-> Nil]
    /\ loop = [t \in Subscribers |-> "none"]
    /\ source = [t \in Subscribers |-> Nil] /\ buffer = [t \in Subscribers |-> Nil]
    /\ hand = [t \in Subscribers |-> 0]
    /\ sent = 0
    /\ answer = [r \in Requests |-> <<>>]
    /\ dropped = {} /\ early = {}

-----------------------------------------------------------------------------
(* libp2p: a message arrives on the open subscription. *)
Arrive ==
    /\ channel # Nil /\ sent < MaxMessages
    /\ sent' = sent + 1
    /\ queue' = [queue EXCEPT ![channel] = Append(@, sent')]
    /\ UNCHANGED <<state, registered, current, content, pc, count, given, loops, channel, outcome>>

-----------------------------------------------------------------------------
(* subscribe_pubsub_topic *)

(* The topic is not registered: libp2p is called.  It hands out the subscription
   that is open already, if there is one. *)
AskLibp2p(t) ==
    /\ pc' = [pc EXCEPT ![t] = "subscribing"]
    /\ given' = [given EXCEPT ![t] = IF channel = Nil THEN t ELSE channel]
    /\ channel' = given'[t]

(* What the task does with the topic subscribed. *)
Then(t) == IF t \in Requests THEN "polling" ELSE "done"

(* libp2p returns: whoever registered the topic meanwhile is overwritten, and a
   loop is started.  If it raises, nothing is registered. *)
SubscribeReturns(t) ==
    /\ pc[t] = "subscribing"
    /\ pc' = [pc EXCEPT ![t] = Then(t)]
    /\ \/ /\ registered' = given[t]
          /\ loop' = [loop EXCEPT ![t] = "starting"]
          /\ source' = [source EXCEPT ![t] = given[t]]
       \/ UNCHANGED <<registered, loop, source>>
    /\ given' = [given EXCEPT ![t] = Nil]
    /\ UNCHANGED <<state, current, content, count, buffer, hand, libp2p, outcome>>

(* The topic is a configured one (_init_pubsub), ... *)
StartupSubscribes ==
    /\ state = "STARTING" /\ pc["peer"] = "idle"
    /\ AskLibp2p("peer")
    /\ UNCHANGED <<state, registered, current, content, count, loops, queue, sent, outcome>>

StartEnds ==
    /\ state = "STARTING" /\ pc["peer"] # "subscribing"
    /\ state' = "RUNNING"
    /\ UNCHANGED <<registered, current, content, pc, count, given, loops, libp2p, outcome>>

(* ... or the discovery pass joins it.  That also leaves it: the deque stays. *)
DiscoveryJoins ==
    /\ state = "RUNNING" /\ pc["peer"] = "idle"
    /\ registered = Nil
    /\ AskLibp2p("peer")
    /\ UNCHANGED <<state, registered, current, content, count, loops, queue, sent, outcome>>

DiscoveryLeaves ==
    /\ state = "RUNNING" /\ registered # Nil
    /\ registered' = Nil
    /\ channel' = Nil
    /\ UNCHANGED <<state, current, content, pc, count, given, loops, queue, sent, outcome>>

(* DELETE /api/v0/pubsub/sub: unsubscribe_pubsub_topic forgets the subscription
   and the deque.  libp2p unsubscribes by topic, if there was a subscription. *)
Unsubscribe ==
    /\ state = "RUNNING" /\ (registered # Nil \/ current # Nil)
    /\ registered' = Nil /\ current' = Nil
    /\ channel' = IF registered = Nil THEN channel ELSE Nil
    /\ content' = <<>> /\ dropped' = dropped \cup ToSet(content)
    /\ UNCHANGED <<state, pc, count, given, loops, queue, sent, answer, early>>

-----------------------------------------------------------------------------
(* _pubsub_receive_loop *)

LoopIsOver(t) ==
    /\ loop' = [loop EXCEPT ![t] = "ended"]
    /\ source' = [source EXCEPT ![t] = Nil]
    /\ buffer' = [buffer EXCEPT ![t] = Nil]

(* The loop takes the deque of the topic, which it makes if there is none, and
   ends at once if the peer is not RUNNING. *)
LoopStarts(t) ==
    /\ loop[t] = "starting"
    /\ current' = IF current = Nil THEN t ELSE current
    /\ IF state = "RUNNING"
       THEN /\ loop' = [loop EXCEPT ![t] = "reading"]
            /\ buffer' = [buffer EXCEPT ![t] = current']
            /\ UNCHANGED <<source, early>>
       ELSE LoopIsOver(t) /\ early' = early \cup {source[t]}
    /\ UNCHANGED <<state, registered, content, pc, count, given, hand, libp2p, answer, dropped>>

(* get() returns a message to the loop, which runs on somewhat later ... *)
LoopGets(t) ==
    /\ loop[t] = "reading" /\ hand[t] = 0
    /\ queue[source[t]] # <<>>
    /\ hand' = [hand EXCEPT ![t] = Head(queue[source[t]])]
    /\ queue' = [queue EXCEPT ![source[t]] = Tail(@)]
    /\ UNCHANGED <<state, registered, current, content, pc, count, given, loop, source, buffer,
                   channel, sent, outcome>>

(* Mutation: a message for a full deque is thrown away, and counted nowhere. *)
LoopAppendsIfRoom(t) ==
    /\ loop[t] = "reading" /\ hand[t] # 0
    /\ hand' = [hand EXCEPT ![t] = 0]
    /\ IF buffer[t] = current /\ Len(content) < BufferMax
       THEN content' = Append(content, hand[t]) /\ UNCHANGED dropped
       ELSE UNCHANGED <<content, dropped>>
    /\ UNCHANGED <<state, registered, current, pc, count, given, loop, source, buffer, libp2p,
                   answer, early>>

(* ... and appends it to the deque it started with, which may have been forgotten
   since.  A full one drops its oldest. *)
LoopAppends(t) ==
    LET full == Len(content) = BufferMax
    IN  /\ loop[t] = "reading" /\ hand[t] # 0
        /\ hand' = [hand EXCEPT ![t] = 0]
        /\ IF buffer[t] = current
           THEN /\ content' = Append(IF full THEN Tail(content) ELSE content, hand[t])
                /\ dropped' = IF full THEN dropped \cup {Head(content)} ELSE dropped
           ELSE dropped' = dropped \cup {hand[t]} /\ UNCHANGED content
        /\ UNCHANGED <<state, registered, current, pc, count, given, loop, source, buffer, libp2p,
                       answer, early>>

(* Mutation: an empty subscription ends the loop. *)
LoopEndsWhenEmpty(t) ==
    /\ loop[t] = "reading" /\ hand[t] = 0
    /\ queue[source[t]] = <<>>
    /\ LoopIsOver(t)
    /\ UNCHANGED <<state, registered, current, content, pc, count, given, hand, libp2p, outcome>>

(* get() raises when the subscription is closed and empty. *)
LoopEnds(t) ==
    /\ loop[t] = "reading" /\ hand[t] = 0
    /\ queue[source[t]] = <<>> /\ channel # source[t]
    /\ LoopIsOver(t)
    /\ UNCHANGED <<state, registered, current, content, pc, count, given, hand, libp2p, outcome>>

-----------------------------------------------------------------------------
(* GET /api/v0/pubsub/sub *)

RequestStarts(r) ==
    /\ state = "RUNNING" /\ pc[r] = "idle"
    /\ \E c \in Counts : count' = [count EXCEPT ![r] = c]
    /\ IF registered = Nil
       THEN AskLibp2p(r)
       ELSE pc' = [pc EXCEPT ![r] = "polling"] /\ UNCHANGED <<given, channel>>
    /\ UNCHANGED <<state, registered, current, content, loops, queue, sent, outcome>>

(* Mutation: the messages are returned, and stay in the deque. *)
DrainKeeping == UNCHANGED content

(* get_pubsub_messages returns what is in the deque and clears it. *)
Drain == content' = <<>>

Enough(r) == content # <<>> /\ (count[r] <= 0 \/ Len(content) >= count[r])

(* What it returns of that: messages[:count], or all of it. *)
FirstOf(r) ==
    IF count[r] > 0 /\ count[r] < Len(content) THEN SubSeq(content, 1, count[r]) ELSE content

(* The request answers, with enough messages or at its deadline with what there is. *)
Answer(r) ==
    /\ pc[r] = "polling"
    /\ pc' = [pc EXCEPT ![r] = "done"]
    /\ Drain
    /\ answer' = [answer EXCEPT ![r] = FirstOf(r)]
    /\ count' = [count EXCEPT ![r] = 0]
    /\ dropped' = dropped \cup (ToSet(content) \ ToSet(FirstOf(r)))
    /\ UNCHANGED <<state, registered, current, given, loops, libp2p, early>>

(* Or it has too few, time is left, and it tries again a little later.  What it
   has drained is not kept. *)
PollAgain(r) ==
    /\ pc[r] = "polling" /\ ~Enough(r)
    /\ Drain
    /\ dropped' = dropped \cup ToSet(content)
    /\ UNCHANGED <<state, registered, current, pc, count, given, loops, libp2p, answer, early>>

-----------------------------------------------------------------------------
InboxNext ==
    \/ Arrive \/ StartupSubscribes \/ StartEnds
    \/ DiscoveryJoins \/ DiscoveryLeaves \/ Unsubscribe
    \/ \E t \in Subscribers :
          SubscribeReturns(t) \/ LoopStarts(t) \/ LoopGets(t) \/ LoopAppends(t) \/ LoopEnds(t)
    \/ \E r \in Requests : RequestStarts(r) \/ Answer(r) \/ PollAgain(r)

InboxSpec == InboxInit /\ [][InboxNext]_inboxVars

-----------------------------------------------------------------------------
Queued(m) == \E t \in Subscribers : m \in ToSet(queue[t])
Held(m) == m \in ToSet(content) \/ \E t \in Subscribers : m = hand[t]
Returned(m) == \E r \in Requests : m \in ToSet(answer[r])

(* No message is returned twice, however many loops feed the deque and requests
   drain it: not in one answer, not in two, and what was returned or dropped
   is nowhere to be returned from again. *)
ReturnedOnce ==
    /\ \A r \in Requests : IsInjective(answer[r])
    /\ \A r, s \in Requests : r # s => ToSet(answer[r]) \cap ToSet(answer[s]) = {}
    /\ \A m \in Messages : Returned(m) \/ m \in dropped => ~Held(m) /\ ~Queued(m)

(* The messages of an answer are in the order in which they arrived, if the topic
   was subscribed once.  Two loops may append in the other order. *)
InOrder ==
    Cardinality({t \in Subscribers : loop[t] # "none"}) <= 1 =>
        \A r \in Requests : \A i, j \in DOMAIN answer[r] : i < j => answer[r][i] < answer[r][j]

(* Requests get the messages once, and in order (api/routers/pubsub.py:82), from
   a deque that keeps to its bound. *)
OnceInOrder == InboxTypeOK /\ ReturnedOnce /\ InOrder

(* Every message that reached the peer is on its way, in a deque or returned,
   unless the deque was full or forgotten, or a request with a count left it out:
   nothing is lost between a subscription, its loops and the requests, also when
   the topic is left and subscribed again meanwhile. *)
NothingVanishes ==
    \A m \in 1..sent : Queued(m) \/ Held(m) \/ Returned(m) \/ m \in dropped

(* A topic that is registered with the open subscription of libp2p has a receive
   loop, if it was not subscribed while the peer was STARTING. *)
RegisteredIsRead ==
    registered # Nil /\ registered = channel /\ registered \notin early =>
        \E t \in Subscribers : loop[t] \in {"starting", "reading"} /\ source[t] = registered
=============================================================================
