-------------------------- MODULE IpnsPublish_proofs --------------------------
(***************************************************************************)
(* Theorems about IpnsPublish, for any publishes, any order of routers of  *)
(* which one is the DHT, with a datastore or without, and any bounds.      *)
(***************************************************************************)
EXTENDS IpnsPublish, TLAPS

-----------------------------------------------------------------------------
(* The strengthenings. *)

(* A delegated router holds nothing. *)
DelegatedEmpty == \A r \in Delegated : held[r] = NoRecord

(* A publish that found the record has chosen its sequence, and is under way. *)
FoundIsActive == \A p \in found : pc[p] \in {"storing", "putting"}

(* A publish puts its own record, and what took it holds that sequence or more. *)
TookIsHeld ==
    \A p \in Publishes :
        /\ took[p] => pc[p] = "putting" /\ \E r \in Routers : held[r].seq >= sequence[p]
        /\ pc[p] = "putting" => record[p].seq = sequence[p]

(* What had succeeded when a publish began had succeeded. *)
FloorIsPast == \A p \in Publishes : floor[p] <= succeeded

Superseded == \A p \in found : sequence[p] > floor[p]

(* While publishes are orderly, there is one at a time, ... *)
OneAtATime == orderly => \A p, q \in Publishes : Active(p) /\ Active(q) => p = q

(* ... the datastore has the highest sequence, and the publish under way has read
   it, or chosen one above it. *)
StoredIsHighest ==
    HasDatastore /\ orderly =>
        /\ stored >= signed
        /\ \A p \in Publishes : /\ pc[p] = "resolving" => last[p] >= signed
                                /\ pc[p] = "storing" => sequence[p] > signed

IInv ==
    /\ TypeOK /\ DelegatedEmpty /\ FoundIsActive /\ TookIsHeld /\ FloorIsPast
    /\ Superseded /\ OneAtATime /\ StoredIsHighest /\ DoneIsHeld

-----------------------------------------------------------------------------
(* Records. *)

LEMMA LargerType ==
    ASSUME NEW m \in Nat, NEW n \in Nat
    PROVE  Larger(m, n) \in Nat /\ Larger(m, n) >= m /\ Larger(m, n) >= n
    BY DEF Larger

LEMMA NoRecordSeq == NoRecord.seq = 0 /\ NoRecord.key = "other"
    BY DEF NoRecord

LEMMA RecordFields ==
    ASSUME NEW r \in Records
    PROVE  /\ r.seq \in Nat
           /\ \A s : [r EXCEPT !.seq = s, !.v2 = FALSE].seq = s
           /\ \A s : [r EXCEPT !.seq = s, !.v2 = FALSE].v2 = FALSE
           /\ \A s : [r EXCEPT !.seq = s, !.v2 = FALSE].by = r.by
           /\ \A s : [r EXCEPT !.seq = s, !.v2 = FALSE].until = r.until
           /\ \A s : [r EXCEPT !.seq = s, !.fits = FALSE].fits = FALSE
           /\ \A s : [r EXCEPT !.seq = s, !.fits = FALSE].v2 = r.v2
           /\ \A s : [r EXCEPT !.seq = s, !.fits = FALSE].seq = s
           /\ \A s : [r EXCEPT !.seq = s, !.fits = FALSE].by = r.by
           /\ \A s : [r EXCEPT !.seq = s, !.fits = FALSE].until = r.until
    BY DEF Records

LEMMA RecordSeq ==
    ASSUME NEW r \in Records \cup {NoRecord}
    PROVE  r.seq \in Nat
    BY NoRecordSeq DEF Records

(* A damaged record that is accepted has the value and the validity it was signed
   with; its sequence is another only without the newer signature. *)
LEMMA DamagedButValid ==
    ASSUME NEW h \in Records, NEW r \in Damaged(h), Valid(r)
    PROVE  r.by = h.by /\ r.until = h.until /\ r.seq \in Nat /\ (r.v2 => r.seq = h.seq)
<1>1. CASE r \in {[h EXCEPT !.key = "other"], [h EXCEPT !.signature = "bad"], [h EXCEPT !.dated = FALSE]}
    BY <1>1 DEF Valid, Records
<1>2. ASSUME NEW s \in Altered, r = [h EXCEPT !.seq = s, !.fits = FALSE]
      PROVE  r.by = h.by /\ r.until = h.until /\ r.seq \in Nat /\ (r.v2 => r.seq = h.seq)
    <2>1. s \in Nat
        BY IpnsAssumption
    <2>2. r.fits = FALSE /\ r.seq = s /\ r.by = h.by /\ r.until = h.until
        BY <1>2, RecordFields
    <2> QED
        BY <2>1, <2>2 DEF Valid
<1>3. ASSUME NEW s \in Altered \cup {h.seq}, r = [h EXCEPT !.seq = s, !.v2 = FALSE]
      PROVE  r.by = h.by /\ r.until = h.until /\ r.seq \in Nat /\ (r.v2 => r.seq = h.seq)
    <2>1. s \in Nat
        BY IpnsAssumption, RecordFields
    <2>2. r.v2 = FALSE /\ r.seq = s /\ r.by = h.by /\ r.until = h.until
        BY <1>3, RecordFields
    <2> QED
        BY <2>1, <2>2
<1> QED
    BY <1>1, <1>2, <1>3 DEF Damaged

(* What a lookup returns and accepts is what the DHT holds, but for the sequence of
   a record without the newer signature. *)
LEMMA ValidIsHeld ==
    ASSUME TypeOK, NEW r \in GetValue, Valid(r)
    PROVE  /\ r.seq \in Nat
           /\ \E s \in Routers \ Delegated :
                 r.by = held[s].by /\ r.until = held[s].until /\ (r.v2 => r.seq = held[s].seq)
<1>1. PICK s \in Routers : r \in AnswersOf(s)
    BY DEF GetValue
<1>2. r # NoRecord
    BY NoRecordSeq DEF Valid
<1>3. s \notin Delegated /\ held[s] # NoRecord
    BY <1>1, <1>2 DEF AnswersOf
<1>4. held[s] \in Records
    BY <1>3 DEF TypeOK
<1>5. r = held[s] \/ r \in Damaged(held[s])
    BY <1>1, <1>2, <1>3 DEF AnswersOf
<1>6. r.by = held[s].by /\ r.until = held[s].until /\ r.seq \in Nat /\ (r.v2 => r.seq = held[s].seq)
    <2>1. CASE r = held[s]
        BY <2>1, <1>4, RecordSeq
    <2>2. CASE r \in Damaged(held[s])
        BY <2>2, <1>4, DamagedButValid
    <2> QED
        BY <1>5, <2>1, <2>2
<1> QED
    BY <1>3, <1>6

(* The DHT is where everything that succeeded is held. *)
LEMMA DhtIsNewest ==
    ASSUME TypeOK, DelegatedEmpty, DoneIsHeld, NEW d \in Routers \ Delegated
    PROVE  held[d].seq \in Nat /\ held[d].seq >= succeeded
<1>1. PICK w \in Routers : held[w].seq >= succeeded
    BY DEF DoneIsHeld
<1>2. held[d].seq \in Nat /\ succeeded \in Nat
    BY RecordSeq DEF TypeOK
<1>3. CASE w \in Delegated
    BY <1>1, <1>2, <1>3, NoRecordSeq DEF DelegatedEmpty
<1>4. CASE w \notin Delegated
    BY <1>1, <1>2, <1>4, IpnsAssumption
<1> QED
    BY <1>3, <1>4

LEMMA NewRecordType ==
    ASSUME NEW p \in Publishes, NEW s \in Nat, now \in Nat, Lifetime \in Nat
    PROVE  NewRecord(p, s) \in Records /\ NewRecord(p, s).seq = s
    BY DEF NewRecord, Records

(* The network goes from a record to one with that sequence or a higher one. *)
LEMMA KeptGrows ==
    ASSUME NEW old \in Records \cup {NoRecord}, NEW r \in Records \cup {NoRecord},
           NEW k \in Kept(old, r)
    PROVE  k \in Records \cup {NoRecord} /\ k.seq >= old.seq /\ k.seq >= r.seq
<1>1. old.seq \in Nat /\ r.seq \in Nat
    BY RecordSeq
<1> QED
    BY <1>1 DEF Kept

-----------------------------------------------------------------------------
LEMMA InitIInv == Init => IInv
<1> SUFFICES ASSUME Init PROVE IInv
    OBVIOUS
<1> USE IpnsAssumption
<1>1. TypeOK
    <2>1. /\ now \in 0..MaxTime /\ stored \in Nat /\ signed \in Nat /\ succeeded \in Nat
          /\ orderly \in BOOLEAN /\ found \subseteq Publishes
        BY DEF Init
    <2>2. held \in [Routers -> Records \cup {NoRecord}] /\ record \in [Publishes -> Records \cup {NoRecord}]
        BY DEF Init
    <2>3. /\ last \in [Publishes -> Nat] /\ sequence \in [Publishes -> Nat]
          /\ floor \in [Publishes -> Nat] /\ took \in [Publishes -> BOOLEAN]
        BY DEF Init
    <2>4. at \in [Publishes -> 1..(NRouters + 1)]
        BY DEF Init
    <2> QED
        BY <2>1, <2>2, <2>3, <2>4 DEF Init, TypeOK
<1>2. DelegatedEmpty /\ FoundIsActive /\ TookIsHeld /\ FloorIsPast /\ Superseded
    BY DEF Init, DelegatedEmpty, FoundIsActive, TookIsHeld, FloorIsPast, Superseded
<1>3. OneAtATime /\ StoredIsHighest
    BY DEF Init, OneAtATime, StoredIsHighest, Active
<1>4. 1 \in Routers /\ held[1].seq = 0
    BY NoRecordSeq DEF Init, Routers
<1>5. DoneIsHeld
    BY <1>4 DEF Init, DoneIsHeld
<1> QED
    BY <1>1, <1>2, <1>3, <1>5 DEF IInv

(* The end of some publishes disturbs nothing, provided that what is answered by
   them is held. *)
LEMMA ReturnsIInv ==
    ASSUME IInv, NEW over \in SUBSET Publishes, NEW how \in {"done", "failed"},
           Returns(over, how), UNCHANGED <<now, held, signed>>,
           stored' \in Nat, orderly' \in BOOLEAN, orderly' => orderly,
           HasDatastore /\ orderly' => stored' >= signed,
           succeeded' \in Nat, succeeded' >= succeeded, DoneIsHeld'
    PROVE  IInv'
<1> USE IpnsAssumption
<1>a. /\ TypeOK /\ DelegatedEmpty /\ FoundIsActive /\ TookIsHeld /\ FloorIsPast
      /\ Superseded /\ OneAtATime /\ StoredIsHighest
    BY DEF IInv
<1>1. TypeOK'
    <2>1. /\ now' \in 0..MaxTime /\ stored' \in Nat /\ signed' \in Nat /\ succeeded' \in Nat
          /\ orderly' \in BOOLEAN /\ held' \in [Routers -> Records \cup {NoRecord}]
        BY <1>a DEF TypeOK
    <2>2. pc' \in [Publishes -> {"idle", "reading", "resolving", "storing", "putting",
                                "done", "failed"}]
        BY <1>a DEF TypeOK, Returns
    <2>3. last' \in [Publishes -> Nat] /\ sequence' \in [Publishes -> Nat] /\ floor' \in [Publishes -> Nat]
        BY <1>a DEF TypeOK, Returns
    <2>4. record' \in [Publishes -> Records \cup {NoRecord}]
        BY <1>a DEF TypeOK, Returns
    <2>5. at' \in [Publishes -> 1..(NRouters + 1)]
        <3>1. 1 \in 1..(NRouters + 1)
            OBVIOUS
        <3>2. at \in [Publishes -> 1..(NRouters + 1)]
            BY <1>a DEF TypeOK
        <3> QED
            BY <3>1, <3>2 DEF Returns
    <2>6. took' \in [Publishes -> BOOLEAN] /\ found' \subseteq Publishes
        BY <1>a DEF TypeOK, Returns
    <2> QED
        BY <2>1, <2>2, <2>3, <2>4, <2>5, <2>6 DEF TypeOK
<1>2. DelegatedEmpty'
    BY <1>a DEF DelegatedEmpty
<1>3. FoundIsActive' /\ Superseded'
    BY <1>a DEF FoundIsActive, Superseded, Returns, TypeOK
<1>4. TookIsHeld'
    BY <1>a DEF TookIsHeld, Returns, TypeOK
<1>5. FloorIsPast'
    BY <1>a DEF FloorIsPast, Returns, TypeOK
<1>6. \A p \in Publishes : pc'[p] \in {"reading", "resolving", "storing", "putting"} =>
          /\ p \notin over /\ pc[p] = pc'[p]
          /\ last'[p] = last[p] /\ sequence'[p] = sequence[p]
    BY DEF Returns
<1>7. OneAtATime'
    BY <1>6, <1>a DEF OneAtATime, Active
<1>8. StoredIsHighest'
    BY <1>6, <1>a DEF StoredIsHighest
<1> QED
    BY <1>1, <1>2, <1>3, <1>4, <1>5, <1>7, <1>8 DEF IInv

LEMMA BeginIInv ==
    ASSUME IInv, NEW p \in Publishes, Begin(p)
    PROVE  IInv'
<1> USE IpnsAssumption
<1>a. /\ TypeOK /\ DelegatedEmpty /\ FoundIsActive /\ TookIsHeld /\ FloorIsPast
      /\ Superseded /\ OneAtATime /\ StoredIsHighest /\ DoneIsHeld
    BY DEF IInv
<1>1. TypeOK'
    BY <1>a DEF TypeOK, Begin
<1>2. DelegatedEmpty' /\ DoneIsHeld'
    BY <1>a DEF DelegatedEmpty, DoneIsHeld, Begin
<1>3. p \notin found
    BY <1>a DEF FoundIsActive, Begin
<1>4. FoundIsActive' /\ Superseded'
    BY <1>a, <1>3 DEF FoundIsActive, Superseded, Begin, TypeOK
<1>5. TookIsHeld'
    BY <1>a DEF TookIsHeld, Begin, TypeOK
<1>6. FloorIsPast'
    BY <1>a DEF FloorIsPast, Begin, TypeOK
<1>7. OneAtATime'
    BY <1>a DEF OneAtATime, Begin, Active, TypeOK
<1>8. StoredIsHighest'
    BY <1>a DEF StoredIsHighest, Begin, TypeOK
<1> QED
    BY <1>1, <1>2, <1>4, <1>5, <1>6, <1>7, <1>8 DEF IInv

LEMMA ReadLastIInv ==
    ASSUME IInv, NEW p \in Publishes, ReadLast(p)
    PROVE  IInv'
<1> USE IpnsAssumption
<1>a. /\ TypeOK /\ DelegatedEmpty /\ FoundIsActive /\ TookIsHeld /\ FloorIsPast
      /\ Superseded /\ OneAtATime /\ StoredIsHighest /\ DoneIsHeld
    BY DEF IInv
<1>1. TypeOK'
    BY <1>a DEF TypeOK, ReadLast
<1>2. DelegatedEmpty' /\ DoneIsHeld' /\ FloorIsPast'
    BY <1>a DEF DelegatedEmpty, DoneIsHeld, FloorIsPast, ReadLast
<1>3. p \notin found
    BY <1>a DEF FoundIsActive, ReadLast
<1>4. FoundIsActive' /\ Superseded'
    BY <1>a, <1>3 DEF FoundIsActive, Superseded, ReadLast, TypeOK
<1>5. TookIsHeld'
    BY <1>a DEF TookIsHeld, ReadLast, TypeOK
<1>6. OneAtATime'
    BY <1>a DEF OneAtATime, ReadLast, Active, TypeOK
<1>7. StoredIsHighest'
    BY <1>a DEF StoredIsHighest, ReadLast, TypeOK
<1> QED
    BY <1>1, <1>2, <1>4, <1>5, <1>6, <1>7 DEF IInv

(* The sequence that is chosen is above what the datastore and the network had. *)
LEMMA SequenceAbove ==
    ASSUME TypeOK, NEW p \in Publishes, NEW remote \in Nat
    PROVE  /\ SequenceAfter(p, remote) \in Nat
           /\ SequenceAfter(p, remote) > last[p]
           /\ SequenceAfter(p, remote) > remote
<1>1. last[p] \in Nat /\ now \in Nat
    BY IpnsAssumption DEF TypeOK
<1>2. Larger(last[p], remote) \in Nat /\ Larger(last[p], remote) >= last[p] /\ Larger(last[p], remote) >= remote
    BY <1>1, LargerType
<1>3. Larger(Larger(last[p], remote), now) \in Nat
      /\ Larger(Larger(last[p], remote), now) >= Larger(last[p], remote)
    BY <1>1, <1>2, LargerType
<1> QED
    BY <1>1, <1>2, <1>3 DEF SequenceAfter

(* What choosing a sequence does, and what it keeps: Superseded if the record was
   found under the newer signature. *)
LEMMA ChosenSuperseded ==
    ASSUME IInv, NEW p \in Publishes, pc[p] = "resolving", NEW r \in GetValue,
           NEW s \in Nat, Valid(r) => s > r.seq,
           sequence' = [sequence EXCEPT ![p] = s], found' = FoundWith(p, r),
           UNCHANGED <<floor, succeeded>>
    PROVE  Superseded'
<1>a. TypeOK /\ DelegatedEmpty /\ FoundIsActive /\ FloorIsPast /\ Superseded /\ DoneIsHeld
    BY DEF IInv
<1>1. ASSUME Valid(r), r.v2
      PROVE  s > floor[p]
    <2>1. PICK d \in Routers \ Delegated : r.seq = held[d].seq
        BY <1>1, <1>a, ValidIsHeld
    <2>2. r.seq >= succeeded /\ r.seq \in Nat
        BY <2>1, <1>a, DhtIsNewest
    <2>3. floor[p] \in Nat /\ succeeded \in Nat /\ floor[p] <= succeeded
        BY <1>a DEF TypeOK, FloorIsPast
    <2> QED
        BY <1>1, <2>2, <2>3
<1>2. ASSUME NEW q \in found'
      PROVE  sequence'[q] > floor'[q]
    <2>1. CASE q = p /\ Valid(r) /\ r.v2
        BY <2>1, <1>1, <1>a DEF TypeOK
    <2>2. CASE ~(q = p /\ Valid(r) /\ r.v2)
        <3>1. q \in found
            BY <1>2, <2>2 DEF FoundWith
        <3>2. q # p
            BY <3>1, <1>a DEF FoundIsActive
        <3> QED
            BY <3>1, <3>2, <1>a DEF Superseded, TypeOK
    <2> QED
        BY <2>1, <2>2
<1> QED
    BY <1>2 DEF Superseded

(* Signing keeps everything, whether the sequence has just been chosen or stored. *)
LEMMA SignIInv ==
    ASSUME IInv, NEW p \in Publishes, NEW s \in Nat, Sign(p, s),
           pc[p] \in {"resolving", "storing"},
           found' \subseteq found \cup {p}, Superseded',
           stored' \in Nat, orderly' \in BOOLEAN, orderly' => orderly,
           HasDatastore /\ orderly' => stored' >= Larger(signed, s),
           UNCHANGED <<now, held, succeeded>>
    PROVE  IInv'
<1> USE IpnsAssumption
<1>a. /\ TypeOK /\ DelegatedEmpty /\ FoundIsActive /\ TookIsHeld /\ FloorIsPast
      /\ OneAtATime /\ StoredIsHighest /\ DoneIsHeld
    BY DEF IInv
<1>1. /\ pc' = [pc EXCEPT ![p] = "putting"]
      /\ sequence' = [sequence EXCEPT ![p] = s]
      /\ record' = [record EXCEPT ![p] = NewRecord(p, s)]
      /\ signed' = Larger(signed, s)
      /\ UNCHANGED <<last, at, took, floor>>
    BY DEF Sign
<1>2. NewRecord(p, s) \in Records /\ NewRecord(p, s).seq = s
    BY <1>a, NewRecordType DEF TypeOK
<1>3. Larger(signed, s) \in Nat
    BY <1>a, LargerType DEF TypeOK
<1>4. TypeOK'
    BY <1>a, <1>1, <1>2, <1>3 DEF TypeOK
<1>5. DelegatedEmpty' /\ DoneIsHeld' /\ FloorIsPast'
    BY <1>a, <1>1 DEF DelegatedEmpty, DoneIsHeld, FloorIsPast
<1>6. FoundIsActive'
    BY <1>a, <1>1 DEF FoundIsActive, TypeOK
<1>7. TookIsHeld'
    <2> SUFFICES ASSUME NEW q \in Publishes
                 PROVE  /\ took'[q] => /\ pc'[q] = "putting"
                                       /\ \E d \in Routers : held'[d].seq >= sequence'[q]
                        /\ pc'[q] = "putting" => record'[q].seq = sequence'[q]
        BY DEF TookIsHeld
    <2>1. CASE q # p
        BY <2>1, <1>1, <1>a DEF TookIsHeld, TypeOK
    <2>2. CASE q = p
        <3>1. record'[p].seq = s /\ sequence'[p] = s
            BY <1>1, <1>2, <1>a DEF TypeOK
        <3>2. ~took'[p]
            BY <1>1, <1>a DEF TookIsHeld
        <3> QED
            BY <2>2, <3>1, <3>2
    <2> QED
        BY <2>1, <2>2
<1>8. OneAtATime'
    BY <1>1, <1>a DEF OneAtATime, Active, TypeOK
<1>9. StoredIsHighest'
    <2> SUFFICES ASSUME HasDatastore, orderly'
                 PROVE  /\ stored' >= signed'
                        /\ \A q \in Publishes : /\ pc'[q] = "resolving" => last'[q] >= signed'
                                                /\ pc'[q] = "storing" => sequence'[q] > signed'
        BY DEF StoredIsHighest
    <2>1. \A q \in Publishes : pc'[q] \notin {"resolving", "storing"}
        <3> SUFFICES ASSUME NEW q \in Publishes, pc'[q] \in {"resolving", "storing"}
                     PROVE  FALSE
            OBVIOUS
        <3>1. q # p /\ pc[q] = pc'[q]
            BY <1>1, <1>a DEF TypeOK
        <3> QED
            BY <3>1, <1>a DEF OneAtATime, Active
    <2> QED
        BY <2>1, <1>1
<1> QED
    BY <1>4, <1>5, <1>6, <1>7, <1>8, <1>9 DEF IInv

LEMMA ResolveIInv ==
    ASSUME IInv, NEW p \in Publishes, Resolve(p)
    PROVE  IInv'
<1> USE IpnsAssumption
<1>a. /\ TypeOK /\ DelegatedEmpty /\ FoundIsActive /\ TookIsHeld /\ FloorIsPast
      /\ Superseded /\ OneAtATime /\ StoredIsHighest /\ DoneIsHeld
    BY DEF IInv
<1>1. PICK r \in GetValue :
        LET s == SequenceAfter(p, IF Valid(r) THEN r.seq ELSE 0)
        IN  /\ pc[p] = "resolving"
            /\ IF HasDatastore
               THEN /\ pc' = [pc EXCEPT ![p] = "storing"]
                    /\ sequence' = [sequence EXCEPT ![p] = s]
                    /\ found' = FoundWith(p, r)
                    /\ UNCHANGED <<last, record, at, took, signed, floor>>
               ELSE IF s <= MaxSequence THEN Sign(p, s) /\ found' = FoundWith(p, r) ELSE Refuse(p)
            /\ UNCHANGED <<now, stored, held, succeeded, orderly>>
    BY DEF Resolve
<1> DEFINE remote == IF Valid(r) THEN r.seq ELSE 0
           s == SequenceAfter(p, remote)
<1>2. remote \in Nat
    BY <1>a, ValidIsHeld
<1>3. s \in Nat /\ s > last[p] /\ s > remote
    BY <1>a, <1>2, SequenceAbove
<1>4. Valid(r) => s > r.seq
    BY <1>3
<1>5. /\ pc[p] = "resolving"
      /\ HasDatastore => /\ pc' = [pc EXCEPT ![p] = "storing"]
                         /\ sequence' = [sequence EXCEPT ![p] = s]
                         /\ found' = FoundWith(p, r)
                         /\ UNCHANGED <<last, record, at, took, signed, floor>>
      /\ ~HasDatastore => (Sign(p, s) /\ found' = FoundWith(p, r)) \/ Refuse(p)
      /\ UNCHANGED <<now, stored, held, succeeded, orderly>>
    BY <1>1
<1>6. stored' \in Nat /\ orderly' \in BOOLEAN /\ succeeded' \in Nat /\ succeeded' >= succeeded
    BY <1>5, <1>a DEF TypeOK
<1>7. DoneIsHeld'
    BY <1>5, <1>a DEF DoneIsHeld
<1>8. FoundWith(p, r) \subseteq found \cup {p}
    BY DEF FoundWith
<1> HIDE DEF remote, s
<1>9. CASE HasDatastore
    <2>1. /\ pc' = [pc EXCEPT ![p] = "storing"]
          /\ sequence' = [sequence EXCEPT ![p] = s]
          /\ found' = FoundWith(p, r)
          /\ UNCHANGED <<last, record, at, took, signed, floor, now, stored, held, succeeded, orderly>>
        BY <1>5, <1>9
    <2>2. TypeOK'
        BY <1>a, <1>3, <1>8, <2>1 DEF TypeOK
    <2>3. DelegatedEmpty' /\ FloorIsPast'
        BY <2>1, <1>a DEF DelegatedEmpty, FloorIsPast
    <2>4. FoundIsActive'
        BY <2>1, <1>8, <1>a DEF FoundIsActive, TypeOK
    <2>5. Superseded'
        BY <2>1, <1>3, <1>4, <1>5, ChosenSuperseded
    <2>6. TookIsHeld'
        BY <2>1, <1>5, <1>a DEF TookIsHeld, TypeOK
    <2>7. OneAtATime'
        BY <2>1, <1>5, <1>a DEF OneAtATime, Active, TypeOK
    <2>8. StoredIsHighest'
        BY <2>1, <1>3, <1>5, <1>a DEF StoredIsHighest, TypeOK
    <2> QED
        BY <2>2, <2>3, <2>4, <2>5, <2>6, <2>7, <2>8, <1>7 DEF IInv
<1>10. CASE ~HasDatastore /\ Sign(p, s) /\ found' = FoundWith(p, r)
    <2>1. Superseded'
        BY <1>10, <1>3, <1>4, <1>5, ChosenSuperseded DEF Sign
    <2> QED
        BY <1>10, <2>1, <1>3, <1>5, <1>6, <1>8, SignIInv
<1>11. CASE ~HasDatastore /\ Refuse(p)
    BY <1>11, <1>5, <1>6, <1>7, ReturnsIInv DEF Refuse
<1> QED
    BY <1>5, <1>9, <1>10, <1>11

LEMMA StoreIInv ==
    ASSUME IInv, NEW p \in Publishes, Store(p)
    PROVE  IInv'
<1>a. TypeOK /\ Superseded /\ StoredIsHighest /\ DoneIsHeld
    BY DEF IInv
<1>1. /\ pc[p] = "storing" /\ sequence[p] \in Nat
      /\ \/ Sign(p, sequence[p]) /\ UNCHANGED found
         \/ Refuse(p)
      /\ \/ stored' = sequence[p] /\ orderly' = orderly
         \/ stored' = stored /\ orderly' = FALSE
      /\ UNCHANGED <<now, held, succeeded>>
    BY <1>a DEF Store, TypeOK
<1>2. stored' \in Nat /\ orderly' \in BOOLEAN /\ (orderly' => orderly)
    <2>1. stored' \in Nat
        BY <1>1, <1>a DEF TypeOK
    <2>2. orderly \in BOOLEAN
        BY <1>a DEF TypeOK
    <2>3. CASE orderly' = orderly
        BY <2>1, <2>2, <2>3
    <2>4. CASE orderly' = FALSE
        BY <2>1, <2>4
    <2> QED
        BY <1>1, <2>3, <2>4
<1>3. HasDatastore /\ orderly' => stored' >= signed /\ stored' >= Larger(signed, sequence[p])
    <2> SUFFICES ASSUME HasDatastore, orderly'
                 PROVE  stored' >= signed /\ stored' >= Larger(signed, sequence[p])
        OBVIOUS
    <2>1. orderly /\ stored' = sequence[p]
        BY <1>1, <1>2, Zenon
    <2>2. sequence[p] > signed /\ signed \in Nat
        BY <2>1, <1>1, <1>a DEF StoredIsHighest, TypeOK
    <2> QED
        BY <2>1, <2>2, <1>1 DEF Larger
<1>4. CASE Sign(p, sequence[p]) /\ UNCHANGED found
    <2>1. sequence' = sequence /\ floor' = floor
        BY <1>4, <1>a DEF Sign, TypeOK
    <2>2. Superseded'
        BY <2>1, <1>4, <1>a DEF Superseded
    <2> QED
        BY <1>1, <1>2, <1>3, <1>4, <2>2, SignIInv
<1>5. CASE Refuse(p)
    <2>1. DoneIsHeld' /\ succeeded' \in Nat /\ succeeded' >= succeeded
        BY <1>1, <1>a DEF DoneIsHeld, TypeOK
    <2> QED
        BY <1>1, <1>2, <1>3, <1>5, <2>1, ReturnsIInv DEF Refuse
<1> QED
    BY <1>1, <1>4, <1>5

LEMMA PutToIInv ==
    ASSUME IInv, NEW p \in Publishes, PutTo(p)
    PROVE  IInv'
<1> USE IpnsAssumption
<1>a. /\ TypeOK /\ DelegatedEmpty /\ FoundIsActive /\ TookIsHeld /\ FloorIsPast
      /\ Superseded /\ OneAtATime /\ StoredIsHighest /\ DoneIsHeld
    BY DEF IInv
<1>1. /\ pc[p] = "putting" /\ at[p] \in Routers
      /\ at' = [at EXCEPT ![p] = @ + 1]
      /\ UNCHANGED <<now, stored, pc, last, sequence, record, signed, succeeded, floor, found, orderly>>
    BY <1>a DEF PutTo, TypeOK, Routers
<1>2. at' \in [Publishes -> 1..(NRouters + 1)]
    BY <1>1, <1>a DEF TypeOK, Routers
(* What the routers hold only grows, and what took the record holds it. *)
<1>3. /\ held' \in [Routers -> Records \cup {NoRecord}]
      /\ took' \in [Publishes -> BOOLEAN]
      /\ \A r \in Routers : held'[r].seq >= held[r].seq
      /\ \A r \in Delegated : held'[r] = held[r]
      /\ \A q \in Publishes : q # p => took'[q] = took[q]
      /\ took'[p] => took[p] \/ held'[at[p]].seq >= sequence[p]
    <2>1. CASE UNCHANGED <<held, took>>
        <3>1. \A r \in Routers : held[r].seq \in Nat
            BY <1>a, RecordSeq DEF TypeOK
        <3> QED
            BY <2>1, <3>1, <1>a DEF TypeOK
    <2>2. CASE ~UNCHANGED <<held, took>>
        <3>1. /\ at[p] \notin Delegated
              /\ \E k \in Kept(held[at[p]], record[p]) : held' = [held EXCEPT ![at[p]] = k]
              /\ took' = [took EXCEPT ![p] = TRUE]
            BY <2>2 DEF PutTo
        <3>2. PICK k \in Kept(held[at[p]], record[p]) : held' = [held EXCEPT ![at[p]] = k]
            BY <3>1
        <3>3. k \in Records \cup {NoRecord} /\ k.seq >= held[at[p]].seq /\ k.seq >= record[p].seq
            BY <1>1, <1>a, <3>2, KeptGrows DEF TypeOK
        <3>4. record[p].seq = sequence[p]
            BY <1>1, <1>a DEF TookIsHeld
        <3>5. \A r \in Routers : held[r].seq \in Nat
            BY <1>a, RecordSeq DEF TypeOK
        <3> QED
            BY <1>1, <1>a, <3>1, <3>2, <3>3, <3>4, <3>5 DEF TypeOK
    <2> QED
        BY <2>1, <2>2
<1>4. TypeOK'
    BY <1>a, <1>1, <1>2, <1>3 DEF TypeOK
<1>5. \A r \in Routers : held[r].seq \in Nat /\ held'[r].seq \in Nat
    BY <1>a, <1>4, RecordSeq DEF TypeOK
<1>6. DelegatedEmpty'
    BY <1>a, <1>3 DEF DelegatedEmpty
<1>7. DoneIsHeld'
    <2>1. PICK w \in Routers : held[w].seq >= succeeded
        BY <1>a DEF DoneIsHeld
    <2>2. held'[w].seq >= succeeded'
        BY <2>1, <1>1, <1>3, <1>5, <1>a DEF TypeOK
    <2> QED
        BY <2>2 DEF DoneIsHeld
<1>8. TookIsHeld'
    <2> SUFFICES ASSUME NEW q \in Publishes
                 PROVE  /\ took'[q] => /\ pc'[q] = "putting"
                                       /\ \E r \in Routers : held'[r].seq >= sequence'[q]
                        /\ pc'[q] = "putting" => record'[q].seq = sequence'[q]
        BY DEF TookIsHeld
    <2>1. pc'[q] = "putting" => record'[q].seq = sequence'[q]
        BY <1>1, <1>a DEF TookIsHeld
    <2>2. ASSUME took'[q]
          PROVE  pc'[q] = "putting" /\ \E r \in Routers : held'[r].seq >= sequence'[q]
        <3>1. CASE took[q]
            <4>1. PICK r \in Routers : held[r].seq >= sequence[q]
                BY <3>1, <1>a DEF TookIsHeld
            <4>2. sequence[q] \in Nat
                BY <1>a DEF TypeOK
            <4>3. held'[r].seq >= sequence'[q]
                BY <4>1, <4>2, <1>1, <1>3, <1>5
            <4> QED
                BY <3>1, <4>3, <1>1, <1>a DEF TookIsHeld
        <3>2. CASE ~took[q]
            <4>1. q = p
                BY <2>2, <3>2, <1>3
            <4> QED
                BY <4>1, <3>2, <2>2, <1>1, <1>3
        <3> QED
            BY <3>1, <3>2
    <2> QED
        BY <2>1, <2>2
<1>9. FoundIsActive' /\ FloorIsPast' /\ Superseded' /\ OneAtATime' /\ StoredIsHighest'
    BY <1>a, <1>1 DEF FoundIsActive, FloorIsPast, Superseded, OneAtATime, Active, StoredIsHighest
<1> QED
    BY <1>4, <1>6, <1>7, <1>8, <1>9 DEF IInv

LEMMA UnchangedKeeps ==
    ASSUME IInv, UNCHANGED <<stored, signed, orderly>>
    PROVE  /\ stored' \in Nat /\ orderly' \in BOOLEAN /\ (orderly' => orderly)
           /\ HasDatastore /\ orderly' => stored' >= signed
<1>1. stored \in Nat /\ orderly \in BOOLEAN
    BY DEF IInv, TypeOK
<1>2. HasDatastore /\ orderly => stored >= signed
    BY DEF IInv, StoredIsHighest
<1> QED
    BY <1>1, <1>2

LEMMA PutEndsIInv ==
    ASSUME IInv, NEW p \in Publishes, PutEnds(p)
    PROVE  IInv'
<1>a. TypeOK /\ TookIsHeld /\ DoneIsHeld
    BY DEF IInv
<1>1. /\ Returns({p}, IF took[p] THEN "done" ELSE "failed")
      /\ succeeded' = IF took[p] THEN Larger(succeeded, sequence[p]) ELSE succeeded
      /\ UNCHANGED <<now, stored, held, signed, orderly>>
    BY DEF PutEnds
<1>2. succeeded \in Nat /\ sequence[p] \in Nat
    BY <1>a DEF TypeOK
<1>3. succeeded' \in Nat /\ succeeded' >= succeeded
    BY <1>1, <1>2 DEF Larger
<1>4. DoneIsHeld'
    <2>1. CASE succeeded' = succeeded
        BY <2>1, <1>1, <1>a DEF DoneIsHeld
    <2>2. CASE succeeded' # succeeded
        <3>1. took[p] /\ succeeded' = sequence[p]
            BY <2>2, <1>1 DEF Larger
        <3> QED
            BY <3>1, <1>1, <1>a DEF TookIsHeld, DoneIsHeld
    <2> QED
        BY <2>1, <2>2
<1>5. (IF took[p] THEN "done" ELSE "failed") \in {"done", "failed"}
    OBVIOUS
<1>6. stored' \in Nat /\ orderly' \in BOOLEAN /\ (orderly' => orderly)
      /\ (HasDatastore /\ orderly' => stored' >= signed)
    BY <1>1, UnchangedKeeps
<1> QED
    BY <1>1, <1>3, <1>4, <1>5, <1>6, ReturnsIInv

LEMMA NextIInv == IInv /\ [Next]_vars => IInv'
<1> SUFFICES ASSUME IInv, [Next]_vars PROVE IInv'
    OBVIOUS
<1>a. TypeOK /\ DoneIsHeld
    BY DEF IInv
<1>b. succeeded \in Nat /\ succeeded >= succeeded
    BY <1>a DEF TypeOK
<1>1. ASSUME NEW p \in Publishes, Begin(p) \/ ReadLast(p) \/ Resolve(p) \/ Store(p) \/ PutTo(p) \/ PutEnds(p)
      PROVE  IInv'
    BY <1>1, BeginIInv, ReadLastIInv, ResolveIInv, StoreIInv, PutToIInv, PutEndsIInv
<1>2. ASSUME NEW p \in Publishes, PutTimesOut(p)
      PROVE  IInv'
    <2>1. Returns({p}, "failed") /\ UNCHANGED <<now, stored, held, signed, succeeded, orderly>>
        BY <1>2 DEF PutTimesOut
    <2>2. DoneIsHeld'
        BY <2>1, <1>a DEF DoneIsHeld
    <2> QED
        BY <2>1, <2>2, <1>b, UnchangedKeeps, ReturnsIInv
<1>3. CASE Restart
    <2> DEFINE over == {p \in Publishes : Active(p)}
    <2>1. Returns(over, "failed") /\ UNCHANGED <<now, stored, held, signed, succeeded, orderly>>
        BY <1>3 DEF Restart
    <2>2. DoneIsHeld'
        BY <2>1, <1>a DEF DoneIsHeld
    <2>3. over \in SUBSET Publishes
        OBVIOUS
    <2> HIDE DEF over
    <2> QED
        BY <2>1, <2>2, <2>3, <1>b, UnchangedKeeps, ReturnsIInv
<1>4. CASE Clock \/ UNCHANGED vars
    <2>1. UNCHANGED <<stored, held, pc, last, sequence, record, at, took, signed, succeeded, floor, found,
                      orderly>> /\ now' \in 0..MaxTime
        BY <1>4, <1>a DEF Clock, vars, TypeOK
    <2>2. TypeOK'
        BY <2>1, <1>a DEF TypeOK
    <2>3. DelegatedEmpty' /\ FoundIsActive' /\ TookIsHeld' /\ FloorIsPast'
        BY <2>1 DEF IInv, DelegatedEmpty, FoundIsActive, TookIsHeld, FloorIsPast
    <2>4. Superseded' /\ OneAtATime' /\ StoredIsHighest' /\ DoneIsHeld'
        BY <2>1 DEF IInv, Superseded, OneAtATime, Active, StoredIsHighest, DoneIsHeld
    <2> QED
        BY <2>2, <2>3, <2>4 DEF IInv
<1> QED
    BY <1>1, <1>2, <1>3, <1>4 DEF Next

-----------------------------------------------------------------------------
(* The inductive invariant: what the datastore, a publish under way and the
   network know of the sequences (peer/_naming.py, publish_name). *)
THEOREM Invariance == Spec => []IInv
    BY InitIInv, NextIInv, PTL DEF Spec

(* A publish that found the record under the signature that covers its sequence
   signs above all that had succeeded when it began, with a datastore or without,
   whatever runs at the same time and whatever the network returns to others. *)
THEOREM FoundSuperseded == Spec => []FoundIsSuperseded
<1>1. IInv => FoundIsSuperseded
    BY DEF IInv, Superseded, FoundIsSuperseded
<1> QED
    BY <1>1, Invariance, PTL

(* What was answered as published is held by some router, and the value a lookup
   accepts is that of the newest record held, which is no older than what had been
   answered, and not over; also when the record is reduced to its older signature. *)
THEOREM AnswersHeld == Spec => []AnswersAreHeld
<1>1. IInv => ResolvedIsNewest
    <2> SUFFICES ASSUME IInv, NEW r \in GetValue, Valid(r)
                 PROVE  /\ r.until >= now
                        /\ \E s \in Routers :
                              /\ held[s].seq >= succeeded
                              /\ r.by = held[s].by /\ r.until = held[s].until
                              /\ r.v2 => r.seq = held[s].seq
        BY DEF ResolvedIsNewest, ResolveName
    <2>1. TypeOK /\ DelegatedEmpty /\ DoneIsHeld
        BY DEF IInv
    <2>2. PICK s \in Routers \ Delegated :
              r.by = held[s].by /\ r.until = held[s].until /\ (r.v2 => r.seq = held[s].seq)
        BY <2>1, ValidIsHeld
    <2>3. held[s].seq >= succeeded
        BY <2>1, DhtIsNewest
    <2>4. r.until >= now
        BY DEF Valid
    <2> QED
        BY <2>2, <2>3, <2>4
<1>2. IInv => AnswersAreHeld
    BY <1>1 DEF IInv, AnswersAreHeld
<1> QED
    BY <1>2, Invariance, PTL

(* With a datastore that works and publishes that do not overlap, sequences only
   increase, over restarts and whatever the network returns. *)
THEOREM SequencesGrow == Spec => SequencesIncrease
<1> DEFINE A == \A p \in Publishes :
                    HasDatastore /\ orderly /\ sequence'[p] # sequence[p] /\ sequence'[p] # 0 =>
                        sequence'[p] > signed
<1>1. IInv /\ [Next]_vars => [A]_vars
    <2> SUFFICES ASSUME IInv, Next, NEW p \in Publishes,
                        HasDatastore, orderly, sequence'[p] # sequence[p], sequence'[p] # 0
                 PROVE  sequence'[p] > signed
        BY DEF vars
    <2>a. TypeOK /\ StoredIsHighest
        BY DEF IInv
    <2>1. \A over, how : Returns(over, how) => sequence'[p] \in {0, sequence[p]}
        BY DEF Returns
    <2>2. ~Restart /\ ~Clock
        BY <2>1 DEF Restart, Clock
    <2>3. PICK q \in Publishes : Begin(q) \/ ReadLast(q) \/ Resolve(q) \/ Store(q)
                                \/ PutTo(q) \/ PutEnds(q) \/ PutTimesOut(q)
        BY <2>2 DEF Next
    <2>4. Resolve(q)
        <3>1. ASSUME Sign(q, sequence[q])
              PROVE  FALSE
            BY <3>1, <2>a DEF Sign, TypeOK
        <3>2. ~Store(q)
            BY <3>1, <2>1 DEF Store, Refuse
        <3> QED
            BY <3>2, <2>1, <2>3 DEF Begin, ReadLast, PutTo, PutEnds, PutTimesOut
    <2>5. PICK r \in GetValue :
              /\ pc[q] = "resolving"
              /\ sequence' = [sequence EXCEPT ![q] = SequenceAfter(q, IF Valid(r) THEN r.seq ELSE 0)]
        BY <2>4 DEF Resolve
    <2>6. (IF Valid(r) THEN r.seq ELSE 0) \in Nat
        BY <2>a, ValidIsHeld, RecordSeq DEF TypeOK
    <2>7. q = p
        BY <2>5, <2>a DEF TypeOK
    <2>8. sequence'[p] \in Nat /\ sequence'[p] > last[p]
        BY <2>5, <2>6, <2>7, <2>a, SequenceAbove DEF TypeOK
    <2>9. last[p] >= signed
        BY <2>5, <2>7, <2>a DEF StoredIsHighest
    <2> QED
        BY <2>8, <2>9, <2>a DEF TypeOK
<1>2. Spec => [][A]_vars
    BY <1>1, Invariance, PTL DEF Spec
<1> QED
    BY <1>2 DEF SequencesIncrease
=============================================================================
