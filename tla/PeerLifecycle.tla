---------------------------- MODULE PeerLifecycle ----------------------------
(***************************************************************************)
(* Peer.start() and Peer.close() of peer/_lifecycle.py, the background     *)
(* tasks start() puts in the peer's nursery, and the add_file/add_node     *)
(* calls that put a provide task there when they are done.                 *)
(*                                                                         *)
(* One task, the owner, calls start() and close().  Its steps are the      *)
(* stretches between two awaits.  Of trio and contextlib (external) the    *)
(* code relies on this: a nursery's exit waits for its children; a closed  *)
(* nursery refuses new ones; AsyncExitStack leaves its contexts in the     *)
(* reverse order; Cancelled is no Exception, so only `finally` sees it.    *)
(***************************************************************************)
EXTENDS Naturals, FiniteSets

CONSTANTS
    Early,        \* children started before the exchange: the reprovider
    Late,         \* those started after it: routing, warm-up, keep-alive, leak monitor
    Endless,      \* children that run until they are cancelled
    Fragile,      \* children that may end with an exception
    Requests,     \* add_file/add_node calls
    Cancellable,  \* TRUE when the scope the owner runs in may be cancelled
    MaxStarts     \* bound on the calls of start()

Children == Early \union Late

ASSUME LifecycleAssumption ==
    /\ Early \intersect Late = {}
    /\ Endless \subseteq Children
    /\ Fragile \subseteq Children
    /\ Cancellable \in BOOLEAN
    /\ MaxStarts \in Nat

VARIABLES
    state,        \* _state
    pc,           \* the await the owner is at
    wasRunning,   \* is_running of close()
    host,         \* host.run() is on the exit stack
    parts,        \* exchange.start() has returned, exchange.stop() has not been called
    nursery,      \* _nursery: "none" before the first start, then "open" or "closed"
    children,     \* background tasks alive in it
    provides,     \* requests whose provide task is alive in it
    scope,        \* "failed" when a child's exception has cancelled the nursery,
                  \* "cancelled" when the scope around the owner is, else "open"
    request,      \* where each add_file/add_node call is
    starts        \* calls of start() so far

ownerVars == <<state, pc, wasRunning, starts>>
resources == <<host, parts>>
nurseryVars == <<nursery, children, provides, scope>>
vars == <<ownerVars, resources, nurseryVars, request>>

PeerState == {"stopped", "starting", "running", "stopping"}

\* "creating": creating the host, the routing, the parts, and running the host;
\* "exchange": exchange.start(); "pubsub": _init_pubsub(); "exitNursery" and
\* "exitHost": within aclose(); "stopParts": exchange.stop() and routing.close().
Awaits == {"out", "creating", "exchange", "pubsub", "exitNursery", "exitHost", "stopParts"}

TypeOK ==
    /\ state \in PeerState
    /\ pc \in Awaits
    /\ wasRunning \in BOOLEAN
    /\ host \in BOOLEAN
    /\ parts \in BOOLEAN
    /\ nursery \in {"none", "open", "closed"}
    /\ children \subseteq Children
    /\ provides \subseteq Requests
    /\ scope \in {"open", "failed", "cancelled"}
    /\ request \in [Requests -> {"idle", "storing", "returned", "raised"}]
    /\ starts \in 0..MaxStarts

Init ==
    /\ state = "stopped" /\ pc = "out" /\ wasRunning = FALSE
    /\ host = FALSE /\ parts = FALSE
    /\ nursery = "none" /\ children = {} /\ provides = {} /\ scope = "open"
    /\ request = [r \in Requests |-> "idle"]
    /\ starts = 0

-----------------------------------------------------------------------------
(* start()                                                                 *)

\* A call while the peer is running or starting returns at once.
StartCall ==
    /\ pc = "out" /\ state \notin {"running", "starting"}
    /\ starts < MaxStarts
    /\ starts' = starts + 1
    /\ state' = "starting"
    /\ pc' = "creating"
    /\ UNCHANGED <<wasRunning, resources, nurseryVars, request>>

\* Mutation: the peer is announced as running while it waits for the host.
HostRunsAnnounced ==
    /\ pc = "creating"
    /\ state' = "running"
    /\ pc' = "exchange"
    /\ nursery' = "open" /\ scope' = "open"
    /\ children' = Early
    /\ host' = TRUE
    /\ UNCHANGED <<wasRunning, starts, parts, provides, request>>

\* The host runs, the nursery opens, and the reprovider starts.
HostRuns ==
    /\ pc = "creating"
    /\ host' = TRUE
    /\ nursery' = "open" /\ scope' = "open"
    /\ children' = Early
    /\ pc' = "exchange"
    /\ UNCHANGED <<state, wasRunning, starts, parts, provides, request>>

\* The exchange has started, and the other background tasks start.
ExchangeStarts ==
    /\ pc = "exchange"
    /\ parts' = TRUE
    /\ children' = children \union Late
    /\ pc' = "pubsub"
    /\ UNCHANGED <<state, wasRunning, starts, host, nursery, provides, scope, request>>

Started ==
    /\ pc = "pubsub"
    /\ state' = "running"
    /\ pc' = "out"
    /\ UNCHANGED <<wasRunning, starts, resources, nurseryVars, request>>

\* Where aclose() waits first, given what is on the exit stack.
FirstExit == IF nursery = "open" THEN "exitNursery" ELSE "stopParts"

\* A part raises: close() is awaited, then the exception goes on to the caller.
StartFails ==
    /\ pc \in {"creating", "exchange", "pubsub"}
    /\ wasRunning' = FALSE
    /\ state' = "stopping"
    /\ pc' = FirstExit
    /\ UNCHANGED <<starts, resources, nurseryVars, request>>

\* Cancelled passes through `except Exception`: nothing is closed and the state
\* stays.  (Only before the nursery opens; see the README.)
StartCancelled ==
    /\ Cancellable
    /\ pc = "creating"
    /\ pc' = "out"
    /\ UNCHANGED <<state, wasRunning, starts, resources, nurseryVars, request>>

-----------------------------------------------------------------------------
(* close()                                                                 *)

\* A call while the peer is stopped or stopping returns at once.
CloseCall ==
    /\ pc = "out" /\ state \notin {"stopped", "stopping"}
    /\ wasRunning' = (state = "running")
    /\ state' = "stopping"
    /\ pc' = FirstExit
    /\ UNCHANGED <<starts, resources, nurseryVars, request>>

\* Mutation: the nursery is left with the provides still running.
ExitNurseryUnwaited ==
    /\ pc = "exitNursery"
    /\ children = {}
    /\ nursery' = "closed"
    /\ pc' = "exitHost"
    /\ UNCHANGED <<state, wasRunning, starts, resources, children, provides, scope, request>>

\* The nursery's exit.  Its cancel_scope.cancel() comes after aclose(), when it
\* is closed already and has nothing left to cancel.
ExitNursery ==
    /\ pc = "exitNursery"
    /\ children = {} /\ provides = {}
    /\ nursery' = "closed"
    /\ pc' = "exitHost"
    /\ UNCHANGED <<state, wasRunning, starts, resources, children, provides, scope, request>>

ExitHost ==
    /\ pc = "exitHost"
    /\ host' = FALSE
    /\ pc' = "stopParts"
    /\ UNCHANGED <<state, wasRunning, starts, parts, nurseryVars, request>>

\* The exchange is stopped if the peer was running and no Cancelled is on its way
\* out of aclose(); exchange.stop() and routing.close() may raise, and the finally
\* block runs either way.
StopParts ==
    /\ pc = "stopParts"
    /\ parts' = (parts /\ ~(wasRunning /\ scope # "cancelled"))
    /\ state' = "stopped"
    /\ pc' = "out"
    /\ wasRunning' = FALSE
    /\ UNCHANGED <<starts, host, nurseryVars, request>>

\* The scope around the owner is cancelled while it waits in the nursery's exit:
\* the nursery cancels its children and goes on waiting for them.
CancelOwner ==
    /\ Cancellable
    /\ pc = "exitNursery"
    /\ scope' = "cancelled"
    /\ UNCHANGED <<ownerVars, resources, nursery, children, provides, request>>

OwnerStep ==
    \/ HostRuns \/ ExchangeStarts \/ Started \/ StartFails
    \/ ExitNursery \/ ExitHost \/ StopParts

-----------------------------------------------------------------------------
(* The nursery's children                                                  *)

\* Mutation: a task that swallows Cancelled and goes on.
ChildEndsUncancelled(c) ==
    /\ c \in children
    /\ c \notin Endless
    /\ children' = children \ {c}
    /\ UNCHANGED <<ownerVars, resources, nursery, provides, scope, request>>

ChildEnds(c) ==
    /\ c \in children
    /\ c \notin Endless \/ scope # "open"
    /\ children' = children \ {c}
    /\ UNCHANGED <<ownerVars, resources, nursery, provides, scope, request>>

\* An exception of one child cancels the others, and the owner, which has been
\* inside the nursery since start(), at its next await: it leaves by close(),
\* which its `async with peer` or `finally` calls.
ChildRaises(c) ==
    /\ c \in children \intersect Fragile
    /\ state \in {"running", "stopping"}
    /\ children' = children \ {c}
    /\ scope' = IF scope = "open" THEN "failed" ELSE scope
    /\ UNCHANGED <<ownerVars, resources, nursery, provides, request>>

\* The provide is over, by its own timeout at the latest.
ProvideEnds(r) ==
    /\ r \in provides
    /\ provides' = provides \ {r}
    /\ UNCHANGED <<ownerVars, resources, nursery, children, scope, request>>

-----------------------------------------------------------------------------
(* add_file and add_node                                                   *)

AddCall(r) ==
    /\ request[r] = "idle"
    /\ state = "running"
    /\ request' = [request EXCEPT ![r] = "storing"]
    /\ UNCHANGED <<ownerVars, resources, nurseryVars>>

\* The blocks are stored and the provide goes to the nursery, whatever has become
\* of the peer since the call began; a closed nursery raises.
AddStored(r) ==
    /\ request[r] = "storing"
    /\ \/ /\ nursery = "open"
          /\ provides' = provides \union {r}
          /\ request' = [request EXCEPT ![r] = "returned"]
       \/ /\ nursery = "closed"
          /\ request' = [request EXCEPT ![r] = "raised"]
          /\ UNCHANGED provides
    /\ UNCHANGED <<ownerVars, resources, nursery, children, scope>>

Next ==
    \/ StartCall \/ StartCancelled \/ CloseCall \/ CancelOwner
    \/ OwnerStep
    \/ \E c \in Children : ChildEnds(c) \/ ChildRaises(c)
    \/ \E r \in Requests : AddCall(r) \/ AddStored(r) \/ ProvideEnds(r)

Spec == Init /\ [][Next]_vars

\* Trio runs the owner and every child that is not waiting for an event that may
\* never come; a store call and a provide end.
FairSpec ==
    /\ Spec
    /\ WF_vars(OwnerStep)
    /\ \A c \in Children : WF_vars(ChildEnds(c))
    /\ \A r \in Requests : WF_vars(AddStored(r)) /\ WF_vars(ProvideEnds(r))
-----------------------------------------------------------------------------
(* Properties                                                              *)

\* A peer that says it is stopped holds nothing: no background task and no provide
\* is left, the nursery takes no more of them, and the host does not run.  close()
\* says STOPPED in a `finally`, whatever aclose() went through.
StoppedIsQuiet ==
    pc = "out" /\ state = "stopped" =>
        /\ nursery # "open" /\ children = {} /\ provides = {}
        /\ ~host

\* A peer that says it is running, so that add_file() and the like accept calls,
\* has its host, its exchange and an open nursery for the provides, and none of
\* the tasks that should run for ever has ended unless one of them failed.
RunningIsComplete ==
    state = "running" =>
        /\ host /\ parts /\ nursery = "open"
        /\ scope = "open" => Endless \subseteq children

\* A close() that is cancelled, or one of whose tasks has failed, comes to its end
\* and leaves the peer stopped.
CancelledCloseEnds == pc = "exitNursery" /\ scope # "open" ~> state = "stopped"

=============================================================================
