----------------------------- MODULE IpnsPublish -----------------------------
(***************************************************************************)
(* Publishing and resolving the IPNS name of a peer (peer/_naming.py,      *)
(* ipns.py), over TieredRouting (routing.py).                              *)
(*                                                                         *)
(* A publish looks for the last sequence number in the peer's datastore,   *)
(* if it has one, and in the network, takes a larger one, writes that to   *)
(* the datastore and puts the signed record to one router after the other. *)
(* Everything it asks may fail, other publishes run at the same time, the  *)
(* process may end at any point, and the clock may be set.  The network    *)
(* keeps the record with the highest sequence.                             *)
(***************************************************************************)
EXTENDS Integers, FiniteSets

CONSTANTS
    Publishes,      \* calls of publish_name, each with a value of its own
    NRouters,       \* routers of the TieredRouting, in this order
    Delegated,      \* those that are DelegatedHTTPRouting
    HasDatastore,   \* whether the Peer was given a datastore
    Lifetime,       \* of a record, in the units of the clock
    MaxSequence,    \* the highest sequence there is, 2^64 - 1
    Altered,        \* sequences of records that do not have the one they were signed with
    MaxTime,        \* bound of the clock
    MaxAtOnce       \* bound of the publishes that run at the same time

Routers == 1..NRouters

ASSUME IpnsAssumption ==
    /\ NRouters \in Nat \ {0}
    /\ Delegated \subseteq Routers
    /\ \A r, s \in Routers \ Delegated : r = s    \* there is one DHT
    /\ HasDatastore \in BOOLEAN
    /\ Lifetime \in Nat \ {0} /\ MaxTime \in Nat /\ MaxAtOnce \in Nat
    /\ MaxSequence \in Nat /\ Altered \subseteq 0..MaxSequence

VARIABLES
    now,        \* int(time.time())
    stored,     \* the sequence in the datastore, 0 if there is none
    held,       \* what each router finds in the network
    pc,         \* of each publish: "idle", "reading", "resolving", "storing",
                \* "putting", "done", or "failed", by the end of the process too
    last,       \* last_sequence
    sequence,   \* ... 0 before it is chosen
    record,     \* the record it puts
    at,         \* the router it puts to
    took,       \* success of TieredRouting.put_value
    (* history *)
    signed,     \* the highest sequence that was ever signed
    succeeded,  \* the highest sequence of a publish that has succeeded
    floor,      \* per publish: that sequence when it began
    found,      \* publishes that found the record in the network, signed with its sequence
    orderly     \* no two publishes overlapped, and the datastore never failed

vars == <<now, stored, held, pc, last, sequence, record, at, took,
          signed, succeeded, floor, found, orderly>>

(* v2: signatureV2 and data are there; they cover every field.  Without them the
   record counts by its signatureV1, which covers the value and the validity (by,
   until), not the sequence. *)
Records == [by : Publishes, seq : Nat, until : Nat, key : {"own", "other"},
            signature : {"good", "bad"}, v2 : BOOLEAN, fits : BOOLEAN, dated : BOOLEAN]
NoRecord == [by |-> "nobody", seq |-> 0, until |-> 0, key |-> "other",
             signature |-> "bad", v2 |-> FALSE, fits |-> FALSE, dated |-> FALSE]

Larger(m, n) == IF m > n THEN m ELSE n

(* create_ipns_record, at the current time *)
NewRecord(p, s) ==
    [by |-> p, seq |-> s, until |-> now + Lifetime, key |-> "own",
     signature |-> "good", v2 |-> TRUE, fits |-> TRUE, dated |-> TRUE]

(* What the network may return in place of a record: one with a foreign key, a bad
   signature or no date, one with another sequence than was signed, and one reduced
   to the older signature, with the same sequence or another. *)
Damaged(r) ==
    {[r EXCEPT !.key = "other"], [r EXCEPT !.signature = "bad"], [r EXCEPT !.dated = FALSE]}
    \cup {[r EXCEPT !.seq = s, !.fits = FALSE] : s \in Altered}
    \cup {[r EXCEPT !.seq = s, !.v2 = FALSE] : s \in Altered \cup {r.seq}}

(* Mutation: the fields are not compared with the signed data. *)
ValidUnmatched(r) ==
    /\ r.key = "own"
    /\ r.signature = "good"
    /\ r.dated /\ r.until >= now

(* validate_ipns_record: the key is that of the name, the signature verifies, the
   fields are those under signatureV2 if there is one, the validity is a date and
   not over. *)
Valid(r) ==
    /\ r.key = "own"
    /\ r.signature = "good"
    /\ r.v2 => r.fits
    /\ r.dated /\ r.until >= now

Active(p) == pc[p] \in {"reading", "resolving", "storing", "putting"}

TypeOK ==
    /\ now \in 0..MaxTime
    /\ stored \in Nat
    /\ held \in [Routers -> Records \cup {NoRecord}]
    /\ pc \in [Publishes -> {"idle", "reading", "resolving", "storing", "putting",
                             "done", "failed"}]
    /\ last \in [Publishes -> Nat] /\ sequence \in [Publishes -> Nat]
    /\ record \in [Publishes -> Records \cup {NoRecord}]
    /\ at \in [Publishes -> 1..(NRouters + 1)]
    /\ took \in [Publishes -> BOOLEAN]
    /\ signed \in Nat /\ succeeded \in Nat /\ floor \in [Publishes -> Nat]
    /\ found \subseteq Publishes
    /\ orderly \in BOOLEAN

Init ==
    /\ now \in 0..MaxTime
    /\ stored = 0
    /\ held = [r \in Routers |-> NoRecord]
    /\ pc = [p \in Publishes |-> "idle"]
    /\ last = [p \in Publishes |-> 0] /\ sequence = [p \in Publishes |-> 0]
    /\ record = [p \in Publishes |-> NoRecord]
    /\ at = [p \in Publishes |-> 1] /\ took = [p \in Publishes |-> FALSE]
    /\ signed = 0 /\ succeeded = 0 /\ floor = [p \in Publishes |-> 0] /\ found = {}
    /\ orderly = TRUE

-----------------------------------------------------------------------------
(* What get_value of a router may return: nothing, also by raising, the record it
   finds, or that one damaged.  A delegated router never has a value. *)
AnswersOf(r) ==
    IF r \in Delegated \/ held[r] = NoRecord THEN {NoRecord}
    ELSE {NoRecord, held[r]} \cup Damaged(held[r])

(* TieredRouting.get_value: the first router that has an answer.  Any router may
   have none, so it is any answer of any of them. *)
GetValue == UNION {AnswersOf(r) : r \in Routers}

-----------------------------------------------------------------------------
(* publish_name *)

Begin(p) ==
    /\ pc[p] = "idle" /\ Cardinality({q \in Publishes : Active(q)}) < MaxAtOnce
    /\ pc' = [pc EXCEPT ![p] = IF HasDatastore THEN "reading" ELSE "resolving"]
    /\ floor' = [floor EXCEPT ![p] = succeeded]
    /\ orderly' = (orderly /\ \A q \in Publishes : ~Active(q))
    /\ UNCHANGED <<now, stored, held, last, sequence, record, at, took, signed, succeeded, found>>

(* datastore.get returns, or raises *)
ReadLast(p) ==
    /\ pc[p] = "reading"
    /\ pc' = [pc EXCEPT ![p] = "resolving"]
    /\ \/ last' = [last EXCEPT ![p] = stored] /\ UNCHANGED orderly
       \/ orderly' = FALSE /\ UNCHANGED last
    /\ UNCHANGED <<now, stored, held, sequence, record, at, took, signed, succeeded, floor, found>>

(* Mutation: what the network holds is not looked at. *)
SequenceByDatastore(p, remote) == Larger(last[p], now) + 1

(* Mutation: what the datastore holds is not looked at. *)
SequenceByNetwork(p, remote) == Larger(remote, now) + 1

SequenceAfter(p, remote) == Larger(Larger(last[p], remote), now) + 1

(* The publishes of a set are over, and their local variables gone. *)
Returns(over, how) ==
    /\ pc' = [p \in Publishes |-> IF p \in over THEN how ELSE pc[p]]
    /\ last' = [p \in Publishes |-> IF p \in over THEN 0 ELSE last[p]]
    /\ sequence' = [p \in Publishes |-> IF p \in over THEN 0 ELSE sequence[p]]
    /\ floor' = [p \in Publishes |-> IF p \in over THEN 0 ELSE floor[p]]
    /\ found' = found \ over
    /\ record' = [p \in Publishes |-> IF p \in over THEN NoRecord ELSE record[p]]
    /\ at' = [p \in Publishes |-> IF p \in over THEN 1 ELSE at[p]]
    /\ took' = [p \in Publishes |-> IF p \in over THEN FALSE ELSE took[p]]

(* The record is signed; put_value is going to be called for the first router. *)
Sign(p, s) ==
    /\ pc' = [pc EXCEPT ![p] = "putting"]
    /\ sequence' = [sequence EXCEPT ![p] = s]
    /\ record' = [record EXCEPT ![p] = NewRecord(p, s)]
    /\ signed' = Larger(signed, s)
    /\ UNCHANGED <<last, at, took, floor>>

(* create_ipns_record refuses a sequence that is out of range. *)
Refuse(p) == Returns({p}, "failed") /\ UNCHANGED signed

FoundWith(p, r) == IF Valid(r) /\ r.v2 THEN found \cup {p} ELSE found

(* _resolve_entry returns with the record or without one, raises or times out,
   and the sequence is chosen. *)
Resolve(p) ==
    \E r \in GetValue :
        LET s == SequenceAfter(p, IF Valid(r) THEN r.seq ELSE 0)
        IN  /\ pc[p] = "resolving"
            /\ IF HasDatastore
               THEN /\ pc' = [pc EXCEPT ![p] = "storing"]
                    /\ sequence' = [sequence EXCEPT ![p] = s]
                    /\ found' = FoundWith(p, r)
                    /\ UNCHANGED <<last, record, at, took, signed, floor>>
               ELSE IF s <= MaxSequence THEN Sign(p, s) /\ found' = FoundWith(p, r) ELSE Refuse(p)
            /\ UNCHANGED <<now, stored, held, succeeded, orderly>>

(* datastore.put returns, or raises, which goes unnoticed; only then is the record
   signed, or its sequence refused. *)
Store(p) ==
    /\ pc[p] = "storing"
    /\ IF sequence[p] <= MaxSequence THEN Sign(p, sequence[p]) /\ UNCHANGED found ELSE Refuse(p)
    /\ \/ stored' = sequence[p] /\ UNCHANGED orderly
       \/ orderly' = FALSE /\ UNCHANGED stored
    /\ UNCHANGED <<now, held, succeeded>>

(* What a router finds once r was put there: of two records of a sequence either. *)
Kept(old, r) == IF r.seq > old.seq THEN {r} ELSE IF r.seq = old.seq THEN {r, old} ELSE {old}

(* The next router of put_value takes the record or raises, as a delegated one
   always does. *)
PutTo(p) ==
    /\ pc[p] = "putting"
    /\ at[p] <= NRouters
    /\ at' = [at EXCEPT ![p] = @ + 1]
    /\ \/ /\ at[p] \notin Delegated
          /\ \E r \in Kept(held[at[p]], record[p]) : held' = [held EXCEPT ![at[p]] = r]
          /\ took' = [took EXCEPT ![p] = TRUE]
       \/ UNCHANGED <<held, took>>
    /\ UNCHANGED <<now, stored, pc, last, sequence, record, signed, succeeded, floor, found, orderly>>

(* Mutation: put_value swallows the errors of all routers. *)
PutEndsAnyway(p) ==
    /\ pc[p] = "putting" /\ at[p] > NRouters
    /\ Returns({p}, "done")
    /\ succeeded' = Larger(succeeded, sequence[p])
    /\ UNCHANGED <<now, stored, held, signed, orderly>>

(* put_value raises if no router took the record. *)
PutEnds(p) ==
    /\ pc[p] = "putting" /\ at[p] > NRouters
    /\ Returns({p}, IF took[p] THEN "done" ELSE "failed")
    /\ succeeded' = IF took[p] THEN Larger(succeeded, sequence[p]) ELSE succeeded
    /\ UNCHANGED <<now, stored, held, signed, orderly>>

(* publish_timeout is over, or create_ipns_record has refused the lifetime. *)
PutTimesOut(p) ==
    /\ pc[p] = "putting"
    /\ Returns({p}, "failed")
    /\ UNCHANGED <<now, stored, held, signed, succeeded, orderly>>

-----------------------------------------------------------------------------
(* What resolve_name may return, to anybody with the same routers. *)
ResolveName == {r \in GetValue : Valid(r)}

(* The process ends and starts again.  The datastore and the network stay. *)
Restart ==
    /\ \E p \in Publishes : Active(p)
    /\ Returns({p \in Publishes : Active(p)}, "failed")
    /\ UNCHANGED <<now, stored, held, signed, succeeded, orderly>>

(* Time passes, or the clock is set. *)
Clock ==
    /\ now' \in 0..MaxTime
    /\ UNCHANGED <<stored, held, pc, last, sequence, record, at, took, signed, succeeded, floor, found,
                   orderly>>

-----------------------------------------------------------------------------
Next ==
    \/ \E p \in Publishes :
           \/ Begin(p) \/ ReadLast(p) \/ Resolve(p) \/ Store(p)
           \/ PutTo(p) \/ PutEnds(p) \/ PutTimesOut(p)
    \/ Restart \/ Clock

Spec == Init /\ [][Next]_vars

-----------------------------------------------------------------------------
(* As long as publishes do not overlap and the datastore works, every publish
   takes a sequence above all that were ever signed, whatever the network finds,
   the clock shows, and wherever earlier publishes were cut short by the end of
   the process. *)
SequencesIncrease ==
    [][\A p \in Publishes : HasDatastore /\ orderly /\ sequence'[p] # sequence[p] /\ sequence'[p] # 0 =>
          sequence'[p] > signed]_vars

(* A publish that found the record under the signature that covers its sequence
   supersedes all that had succeeded when it began, with a datastore or without,
   whatever the network returns to others and whatever else runs. *)
FoundIsSuperseded ==
    /\ TypeOK
    /\ \A p \in found : sequence[p] > floor[p]

(* What was published successfully can be resolved: some router holds the newest
   of these records, or one that supersedes it or has the same sequence. *)
DoneIsHeld == \E r \in Routers : held[r].seq >= succeeded

(* resolve_name answers with the value and the validity of such a record, before it
   is over and never of an earlier one, even when what it got was reduced to the
   older signature; the sequence beside it is that record's only under the newer. *)
ResolvedIsNewest ==
    \A r \in ResolveName :
        /\ r.until >= now
        /\ \E s \in Routers :
              /\ held[s].seq >= succeeded
              /\ r.by = held[s].by /\ r.until = held[s].until
              /\ r.v2 => r.seq = held[s].seq

(* What a publish or a lookup answers is what the network holds. *)
AnswersAreHeld == DoneIsHeld /\ ResolvedIsNewest
=============================================================================
