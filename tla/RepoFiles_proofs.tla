--------------------------- MODULE RepoFiles_proofs ---------------------------
(***************************************************************************)
(* Theorems about RepoFiles, for any set of CIDs and any bounds: what the  *)
(* file of the pins holds, that it implements PinTable, and that the       *)
(* identity survives.                                                      *)
(***************************************************************************)
EXTENDS RepoFiles, TLAPS

(* What is put in place is the table in memory, whole and synced. *)
TmpIsPins ==
    /\ pc \in {"sync", "replace"} => tmpFile = Whole(pins)
    /\ pc = "replace" => tmpDisk = {tmpFile}

Committed == Migrated(pinFile.table)
Durable == {Migrated(f.table) : f \in pinDisk}

(* The file holds, and a power failure may leave, what calls that returned left.
   While more than one table may be in the file, there is only one on the disk. *)
AckedKnown ==
    /\ Committed \in acked /\ acked \subseteq recent /\ Durable \subseteq recent
    /\ acked = {Committed} \/ Durable = {Committed}

IInv == TypeOK /\ FileIsWhole /\ TmpIsPins /\ AckedKnown

-----------------------------------------------------------------------------
(* Tables and contents. *)

(* Migration turns any table of the file into one of today's. *)
LEMMA MigratedType ==
    ASSUME NEW t \in Tables \cup OldTables
    PROVE  Migrated(t) \in Tables
<1>1. \A c \in Cids : t[c] \in Kinds \cup {"True", "False"}
    BY DEF Tables, OldTables, Kinds
<1>2. \A c \in Cids : (CASE t[c] = "True" -> "recursive" [] t[c] = "False" -> "direct"
                         [] OTHER -> t[c]) \in Kinds
    BY <1>1 DEF Kinds
<1> QED
    BY <1>2 DEF Migrated, Tables

(* It changes nothing in a table of today. *)
LEMMA MigratedSame ==
    ASSUME NEW t \in Tables
    PROVE  Migrated(t) = t
<1>1. \A c \in Cids : t[c] # "True" /\ t[c] # "False"
    BY DEF Tables, Kinds
<1>2. Migrated(t) = [c \in Cids |-> t[c]]
    BY <1>1 DEF Migrated
<1> QED
    BY <1>2 DEF Tables

LEMMA WholeType ==
    ASSUME NEW t \in Tables \cup OldTables
    PROVE  /\ Whole(t) \in Contents /\ Whole(t).whole /\ Whole(t).table = t
    BY DEF Whole, Contents

LEMMA NoPinsType == NoPins \in Tables /\ NoPins \in OldTables
    BY DEF NoPins, Tables, OldTables, Kinds

(* What is in a file of pins, when it is whole, can be migrated. *)
LEMMA ContentsTable ==
    ASSUME NEW f \in Contents
    PROVE  Migrated(f.table) \in Tables /\ f.whole \in BOOLEAN
<1>1. CASE f = Torn
    BY <1>1, NoPinsType, MigratedType DEF Torn
<1>2. CASE f # Torn
    <2>1. PICK t \in Tables \cup OldTables : f = Whole(t)
        BY <1>2 DEF Contents
    <2> QED
        BY <2>1, WholeType, MigratedType DEF Whole
<1> QED
    BY <1>1, <1>2

LEMMA AbsentType == Absent \in Contents /\ Torn \in Contents
    BY NoPinsType, WholeType DEF Absent, Contents

-----------------------------------------------------------------------------
LEMMA InitIInv == Init => IInv
<1> SUFFICES ASSUME Init PROVE IInv
    OBVIOUS
<1>1. PICK t \in OldTables : pinFile = Whole(t) /\ pinDisk = {pinFile}
    BY DEF Init
<1>2. pinFile \in Contents /\ pinFile.whole /\ pinFile.table = t
    BY <1>1, WholeType
<1>3. Migrated(pinFile.table) \in Tables
    BY <1>2, ContentsTable
<1>4. TypeOK
    <2>1. /\ pins \in Tables /\ acked \subseteq Tables /\ recent \subseteq Tables
          /\ pinFile \in Contents /\ pinDisk \subseteq Contents
          /\ tmpFile \in Contents /\ tmpDisk \subseteq Contents
        BY <1>1, <1>2, <1>3, NoPinsType, AbsentType DEF Init
    <2>2. /\ seedFile \in NoFile..MaxSeeds /\ seedDisk \subseteq NoFile..MaxSeeds
          /\ identity \in 0..MaxSeeds /\ seeds \in 0..MaxSeeds /\ settled \in 0..MaxSeeds
        BY RepoAssumption DEF Init, NoFile
    <2> QED
        BY <2>1, <2>2 DEF Init, TypeOK
<1>5. FileIsWhole
    BY <1>1, <1>2 DEF FileIsWhole
<1>6. TmpIsPins
    BY DEF Init, TmpIsPins
<1>7. AckedKnown
    <2>1. Durable = {Committed}
        BY <1>1 DEF Durable, Committed
    <2>2. acked = {Committed} /\ recent = acked
        BY DEF Init, Committed
    <2> QED
        BY <2>1, <2>2 DEF AckedKnown
<1> QED
    BY <1>4, <1>5, <1>6, <1>7 DEF IInv

(* A step that touches neither the file nor its history. *)
LEMMA FileUnchanged ==
    ASSUME AckedKnown, UNCHANGED <<pinFile, pinDisk, pinHistory>>
    PROVE  AckedKnown'
<1>1. Committed' = Committed /\ Durable' = Durable
    BY DEF Committed, Durable
<1> QED
    BY <1>1 DEF AckedKnown, pinHistory

(* One step, one case for each action. *)
LEMMA NextIInv == IInv /\ [Next]_vars => IInv'
<1> SUFFICES ASSUME IInv, [Next]_vars PROVE IInv'
    OBVIOUS
<1> USE RepoAssumption
<1>a. TypeOK /\ FileIsWhole /\ TmpIsPins /\ AckedKnown
    BY DEF IInv
<1>1. CASE ReadSeed \/ NewSeed \/ WriteSeed
    <2>1. UNCHANGED pinVars /\ pc' \notin {"sync", "replace"}
        BY <1>1 DEF ReadSeed, NewSeed, WriteSeed
    <2>2. /\ seedFile' \in NoFile..MaxSeeds /\ seedDisk' \subseteq NoFile..MaxSeeds
          /\ identity' \in 0..MaxSeeds /\ seeds' \in 0..MaxSeeds /\ settled' \in 0..MaxSeeds
        <3>1. CASE ReadSeed
            BY <3>1, <1>a DEF ReadSeed, TypeOK, NoFile, Empty
        <3>2. CASE NewSeed
            BY <3>2, <1>a DEF NewSeed, TypeOK, NoFile, Empty
        <3>3. CASE WriteSeed
            BY <3>3, <1>a DEF WriteSeed, TypeOK, NoFile
        <3> QED
            BY <1>1, <3>1, <3>2, <3>3
    <2>3. pc' \in {"seeding", "loading"} /\ UNCHANGED version
        BY <1>1 DEF ReadSeed, NewSeed, WriteSeed
    <2>4. TypeOK'
        BY <2>1, <2>2, <2>3, <1>a DEF TypeOK, pinVars, pinHistory
    <2> QED
        BY <2>1, <2>4, <1>a, FileUnchanged DEF pinVars, FileIsWhole, TmpIsPins, IInv
<1>2. CASE Load
    <2>1. pins' \in Tables /\ acked' \subseteq acked /\ recent' \subseteq acked \cup recent
        BY <1>2, <1>a, NoPinsType, ContentsTable DEF Load, TypeOK, pinHistory
    <2>2. TypeOK'
        BY <1>2, <1>a, <2>1 DEF Load, TypeOK, seedVars, Saving
    <2>3. FileIsWhole' /\ TmpIsPins'
        BY <1>2, <1>a DEF Load, FileIsWhole, TmpIsPins
    <2>4. UNCHANGED <<pinFile, pinDisk>> /\ Committed' = Committed /\ Durable' = Durable
        BY <1>2 DEF Load, Committed, Durable
    <2>5. CASE UNCHANGED pinHistory
        BY <2>2, <2>3, <2>4, <2>5, <1>a, FileUnchanged DEF IInv
    <2>6. CASE /\ acked' = acked \cap {Committed}
               /\ recent' = IF recent = acked THEN acked' ELSE recent
        <3> SUFFICES AckedKnown'
            BY <2>2, <2>3 DEF IInv
        <3>1. acked' = {Committed}
            BY <2>6, <1>a DEF AckedKnown
        <3>2. CASE recent = acked
            <4>1. Durable = {Committed} \/ Durable \subseteq {Committed}
                BY <3>2, <1>a DEF AckedKnown
            <4> QED
                BY <2>4, <2>6, <3>1, <3>2, <4>1 DEF AckedKnown
        <3>3. CASE recent # acked
            BY <2>4, <2>6, <3>1, <3>3, <1>a DEF AckedKnown
        <3> QED
            BY <3>2, <3>3
    <2> QED
        BY <1>2, <2>5, <2>6 DEF Load, Committed
<1>3. CASE CheckVersion \/ WriteVersion
    <2>1. TypeOK'
        BY <1>3, <1>a DEF CheckVersion, WriteVersion, TypeOK, pinVars, pinHistory, seedVars,
           NoFile, Empty, Saving
    <2>2. UNCHANGED pinVars /\ pc' \notin {"sync", "replace"}
        BY <1>3 DEF CheckVersion, WriteVersion
    <2> QED
        BY <2>1, <2>2, <1>a, FileUnchanged DEF pinVars, FileIsWhole, TmpIsPins, IInv
<1>4. ASSUME NEW c \in Cids, RemovePin(c) \/ \E k \in Kinds : AddPin(c, k)
      PROVE  IInv'
    <2>1. PICK k \in Kinds : pins' = [pins EXCEPT ![c] = k]
        BY <1>4 DEF RemovePin, AddPin, Kinds
    <2>2. pins' \in Tables
        BY <2>1, <1>a DEF TypeOK, Tables
    <2>3. pc' = "mkdir" /\ UNCHANGED <<pinFile, pinDisk, tmpFile, tmpDisk, pinHistory, seedVars, version>>
        BY <1>4 DEF RemovePin, AddPin
    <2>4. TypeOK'
        BY <2>2, <2>3, <1>a DEF TypeOK, seedVars, pinHistory, Saving
    <2> QED
        BY <2>3, <2>4, <1>a, FileUnchanged DEF FileIsWhole, TmpIsPins, IInv
<1>5. CASE MakeDirectory \/ Open \/ Sync
    <2>1. TypeOK'
        BY <1>5, <1>a, AbsentType DEF MakeDirectory, Open, Sync, TypeOK, pinVars, pinHistory, seedVars,
           Saving
    <2>2. TmpIsPins'
        BY <1>5, <1>a DEF MakeDirectory, Open, Sync, TmpIsPins, pinVars
    <2>3. UNCHANGED <<pinFile, pinDisk, pinHistory>>
        BY <1>5 DEF MakeDirectory, Open, Sync, pinVars
    <2> QED
        BY <2>1, <2>2, <2>3, <1>a, FileUnchanged DEF FileIsWhole, IInv
<1>6. CASE Write
    <2>1. Whole(pins) \in Contents
        BY <1>a, WholeType DEF TypeOK
    <2>2. TypeOK'
        BY <1>6, <1>a, <2>1 DEF Write, TypeOK, pinHistory, seedVars, Saving
    <2>3. FileIsWhole' /\ TmpIsPins' /\ UNCHANGED <<pinFile, pinDisk, pinHistory>>
        BY <1>6, <1>a DEF Write, FileIsWhole, TmpIsPins
    <2> QED
        BY <2>2, <2>3, <1>a, FileUnchanged DEF IInv
<1>7. CASE Replace
    <2>1. tmpFile = Whole(pins) /\ tmpDisk = {tmpFile}
        BY <1>7, <1>a DEF Replace, TmpIsPins
    <2>2. /\ pinFile' = Whole(pins) /\ pinDisk' = pinDisk \cup {Whole(pins)}
          /\ acked' = {pins} /\ recent' = recent \cup {pins}
        BY <1>7, <2>1 DEF Replace, Return
    <2>3. Whole(pins) \in Contents /\ Whole(pins).whole /\ Whole(pins).table = pins
        BY <1>a, WholeType DEF TypeOK
    <2>4. TypeOK'
        BY <1>7, <1>a, <2>2, <2>3, AbsentType DEF Replace, Return, TypeOK, seedVars, Saving
    <2>5. FileIsWhole'
        BY <1>a, <2>2, <2>3 DEF FileIsWhole
    <2>6. TmpIsPins'
        BY <1>7 DEF Replace, Return, TmpIsPins
    <2>7. AckedKnown'
        <3>1. Migrated(Whole(pins).table) = pins
            BY <1>a, <2>3, MigratedSame DEF TypeOK
        <3>2. Committed' = pins /\ Durable' = Durable \cup {pins}
            BY <2>2, <3>1 DEF Committed, Durable
        <3> QED
            BY <1>a, <2>2, <3>2 DEF AckedKnown
    <2> QED
        BY <2>4, <2>5, <2>6, <2>7 DEF IInv
<1>8. CASE SaveFails
    <2>1. TypeOK'
        BY <1>8, <1>a, AbsentType DEF SaveFails, Return, TypeOK, pinHistory, seedVars, Saving
    <2>2. FileIsWhole' /\ TmpIsPins' /\ UNCHANGED <<pinFile, pinDisk, pinHistory>>
        BY <1>8, <1>a DEF SaveFails, Return, FileIsWhole, TmpIsPins
    <2> QED
        BY <2>1, <2>2, <1>a, FileUnchanged DEF IInv
<1>9. CASE Kill
    <2>1. TypeOK'
        BY <1>9, <1>a, AbsentType, NoPinsType DEF Kill, Ends, TypeOK, pinHistory, Saving
    <2>2. FileIsWhole' /\ TmpIsPins' /\ UNCHANGED <<pinFile, pinDisk, pinHistory>>
        BY <1>9, <1>a DEF Kill, Ends, FileIsWhole, TmpIsPins
    <2> QED
        BY <2>1, <2>2, <1>a, FileUnchanged DEF IInv
<1>10. CASE PowerFailure
    <2>1. PICK p \in pinDisk, s \in seedDisk :
              /\ pinFile' = p /\ pinDisk' = {p}
              /\ seedFile' = s /\ seedDisk' = {s}
              /\ settled' = IF s = settled THEN settled ELSE 0
        BY <1>10 DEF PowerFailure
    <2>2. p.whole /\ p \in Contents /\ Migrated(p.table) \in Tables
        BY <2>1, <1>a, ContentsTable DEF FileIsWhole, TypeOK
    <2>3. TypeOK'
        BY <1>10, <1>a, <2>1, <2>2, AbsentType, NoPinsType
        DEF PowerFailure, Ends, TypeOK, Saving, NoFile
    <2>4. FileIsWhole' /\ TmpIsPins'
        BY <1>10, <2>1, <2>2 DEF PowerFailure, Ends, FileIsWhole, TmpIsPins
    <2>5. AckedKnown'
        <3>1. Committed' = Migrated(p.table) /\ Durable' = {Committed'} /\ Committed' \in Durable
            BY <2>1 DEF Committed, Durable
        <3>2. acked' = recent /\ recent' = recent
            BY <1>10 DEF PowerFailure
        <3> QED
            BY <3>1, <3>2, <1>a DEF AckedKnown
    <2> QED
        BY <2>3, <2>4, <2>5 DEF IInv
<1>11. CASE WriteBack
    <2>1. TypeOK'
        BY <1>11, <1>a DEF WriteBack, TypeOK, Saving
    <2>2. FileIsWhole' /\ TmpIsPins'
        BY <1>11, <1>a DEF WriteBack, FileIsWhole, TmpIsPins
    <2>3. AckedKnown'
        <3>1. Committed' = Committed /\ Durable' = {Committed}
            BY <1>11 DEF WriteBack, Committed, Durable
        <3>2. acked' = acked /\ recent' = acked
            BY <1>11 DEF WriteBack
        <3> QED
            BY <3>1, <3>2, <1>a DEF AckedKnown
    <2> QED
        BY <2>1, <2>2, <2>3 DEF IInv
<1>12. CASE UNCHANGED vars
    <2>1. TypeOK' /\ FileIsWhole' /\ TmpIsPins' /\ UNCHANGED <<pinFile, pinDisk, pinHistory>>
        BY <1>12, <1>a DEF vars, pinHistory, TypeOK, FileIsWhole, TmpIsPins
    <2> QED
        BY <2>1, <1>a, FileUnchanged DEF IInv
<1> QED
    BY <1>1, <1>2, <1>3, <1>4, <1>5, <1>6, <1>7, <1>8, <1>9, <1>10, <1>11, <1>12 DEF Next

(* The inductive invariant: until the new file is put in place, what is in it is
   the table in memory, synced (pin.py, _save). *)
THEOREM Invariance == Spec => []IInv
    BY InitIInv, NextIInv, PTL DEF Spec

(* The file of the pins is whole, and wherever the process was killed or a save
   failed it holds what the last call of add_pin or remove_pin left that returned
   and whose save did not fail.  After a power failure it holds that or what an
   earlier call left since the disk was last up to date: the rename is not synced. *)
THEOREM ReturnedFound == Spec => []ReturnedIsOnFile
<1>1. IInv => ReturnedIsOnFile
    BY DEF IInv, ReturnedIsOnFile, AckedKnown, Committed
<1> QED
    BY <1>1, Invariance, PTL

-----------------------------------------------------------------------------
(* The file of the pins is an atomic table. *)

LEMMA TableInit == Init => Table!Init
<1> SUFFICES ASSUME Init PROVE Table!Init
    OBVIOUS
<1>1. IInv
    BY InitIInv
<1>2. Committed \in Tables
    BY <1>1, ContentsTable DEF IInv, TypeOK, Committed
<1>3. Durable = {Committed}
    BY DEF Init, Durable, Committed
<1> QED
    BY <1>2, <1>3 DEF Init, Table!Init, NoPins, Table!NoPins, Tables, Table!Tables, Kinds, Table!Kinds,
       Committed, Durable

LEMMA TableStep == IInv /\ [Next]_vars => [Table!Next]_(Table!vars)
<1> SUFFICES ASSUME IInv, [Next]_vars PROVE Table!Next \/ UNCHANGED Table!vars
    OBVIOUS
<1>a. TypeOK /\ FileIsWhole /\ TmpIsPins
    BY DEF IInv
<1>b. NoPins = Table!NoPins
    BY DEF NoPins, Table!NoPins
<1>1. CASE UNCHANGED <<pins, pinFile, pinDisk>>
    BY <1>1 DEF Table!vars
<1>2. CASE Load
    <2>1. pins' \in {Committed, NoPins} /\ UNCHANGED <<pinFile, pinDisk>>
        BY <1>2 DEF Load, Committed
    <2> QED
        BY <2>1, <1>b DEF Table!Next, Table!Load, Committed
<1>3. ASSUME NEW c \in Cids, RemovePin(c) \/ \E k \in Kinds : AddPin(c, k)
      PROVE  Table!Next
    <2>1. PICK k \in Kinds : pins' = [pins EXCEPT ![c] = k]
        BY <1>3 DEF RemovePin, AddPin, Kinds
    <2>2. UNCHANGED <<pinFile, pinDisk>>
        BY <1>3 DEF RemovePin, AddPin
    <2> QED
        BY <2>1, <2>2 DEF Table!Next, Table!Change, Table!Kinds, Kinds
<1>4. CASE Replace
    <2>1. tmpFile = Whole(pins) /\ tmpDisk = {Whole(pins)}
        BY <1>4, <1>a DEF Replace, TmpIsPins
    <2>2. Migrated(Whole(pins).table) = pins
        BY <1>a, WholeType, MigratedSame DEF TypeOK
    <2>3. Committed' = pins
        BY <1>4, <2>1, <2>2 DEF Replace, Committed
    <2>4. pinDisk' = pinDisk \cup {Whole(pins)}
        BY <1>4, <2>1 DEF Replace
    <2>5. Durable' = Durable \cup {pins}
        BY <2>2, <2>4 DEF Durable
    <2>6. UNCHANGED pins
        BY <1>4 DEF Replace
    <2> QED
        BY <2>3, <2>5, <2>6 DEF Table!Next, Table!Commit, Committed, Durable
<1>5. CASE Kill
    BY <1>5, <1>b DEF Kill, Ends, Table!Next, Table!Load
<1>6. CASE PowerFailure
    <2>1. PICK p \in pinDisk : pinFile' = p /\ pinDisk' = {p}
        BY <1>6 DEF PowerFailure
    <2>2. Committed' \in Durable /\ Durable' = {Committed'}
        BY <2>1 DEF Committed, Durable
    <2>3. pins' = NoPins
        BY <1>6 DEF PowerFailure, Ends
    <2> QED
        BY <2>2, <2>3, <1>b DEF Table!Next, Table!PowerFailure, Committed, Durable
<1>7. CASE WriteBack
    <2>1. Durable' = {Committed}
        BY <1>7 DEF WriteBack, Durable, Committed
    <2>2. UNCHANGED <<pins, pinFile>>
        BY <1>7 DEF WriteBack
    <2> QED
        BY <2>1, <2>2 DEF Table!Next, Table!Settle, Committed, Durable
<1>8. CASE \/ ReadSeed \/ NewSeed \/ WriteSeed \/ CheckVersion \/ WriteVersion
           \/ MakeDirectory \/ Open \/ Write \/ Sync \/ SaveFails \/ UNCHANGED vars
    BY <1>8, <1>1 DEF ReadSeed, NewSeed, WriteSeed, CheckVersion, WriteVersion, MakeDirectory, Open,
       Write, Sync, SaveFails, pinVars, vars
<1> QED
    BY <1>2, <1>3, <1>4, <1>5, <1>6, <1>7, <1>8 DEF Next

(* PinStore with its file implements a table that changes in memory, is committed
   as a whole, and is read back as it was committed. *)
THEOREM Refinement == Spec => ImplementsPinTable
<1> DEFINE S == Table!Spec
<1>1. Spec => S
    BY TableInit, TableStep, Invariance, PTL DEF Spec, Table!Spec
<1> QED
    BY <1>1 DEF ImplementsPinTable

-----------------------------------------------------------------------------
(* The identity. *)

(* An identity that some start has kept is that of the seed file, and of every
   process that has read the file; while a seed is being written there is none. *)
SettledIsOnFile ==
    /\ settled # 0 => seedFile = settled
    /\ pc = "seeding" => seedFile = Empty
    /\ pc \notin {"down", "seeding"} /\ settled # 0 => identity = settled

LEMMA SettledInit == Init => SettledIsOnFile
    BY DEF Init, SettledIsOnFile

LEMMA SettledStep == TypeOK /\ SettledIsOnFile /\ [Next]_vars => SettledIsOnFile'
<1> SUFFICES ASSUME TypeOK, SettledIsOnFile, [Next]_vars PROVE SettledIsOnFile'
    OBVIOUS
<1> USE RepoAssumption
<1>a. settled \in 0..MaxSeeds /\ NoFile = -1 /\ Empty = 0
    BY DEF TypeOK, NoFile, Empty
<1>1. CASE ReadSeed
    BY <1>1, <1>a DEF ReadSeed, SettledIsOnFile, TypeOK
<1>2. CASE NewSeed
    BY <1>2, <1>a DEF NewSeed, SettledIsOnFile
<1>3. CASE WriteSeed
    BY <1>3, <1>a DEF WriteSeed, SettledIsOnFile
<1>4. CASE CheckVersion
    BY <1>4, <1>a DEF CheckVersion, SettledIsOnFile
<1>5. CASE PowerFailure
    <2>1. PICK s \in seedDisk : seedFile' = s /\ settled' = IF s = settled THEN settled ELSE 0
        BY <1>5 DEF PowerFailure
    <2>2. pc' = "down"
        BY <1>5 DEF PowerFailure, Ends
    <2> QED
        BY <2>1, <2>2 DEF SettledIsOnFile
<1>6. CASE Kill
    BY <1>6 DEF Kill, Ends, SettledIsOnFile
<1>7. CASE WriteBack \/ UNCHANGED vars
    BY <1>7 DEF WriteBack, vars, SettledIsOnFile
<1>8. CASE \/ Load \/ WriteVersion \/ MakeDirectory \/ Open \/ Write \/ Sync \/ Replace \/ SaveFails
           \/ \E c \in Cids : RemovePin(c) \/ \E k \in Kinds : AddPin(c, k)
    <2>1. UNCHANGED seedVars /\ pc \notin {"down", "seeding"} /\ pc' \notin {"down", "seeding"}
        BY <1>8 DEF Load, WriteVersion, MakeDirectory, Open, Write, Sync, Replace, Return, SaveFails,
           RemovePin, AddPin, Saving
    <2> QED
        BY <2>1 DEF seedVars, SettledIsOnFile
<1> QED
    BY <1>1, <1>2, <1>3, <1>4, <1>5, <1>6, <1>7, <1>8 DEF Next

(* A peer keeps its identity over any number of starts, once a start has found or
   left it in the seed file (cli.py, _get_key_pair), unless a power failure took
   the file. *)
THEOREM IdentitySurvives == Spec => []IdentityKept
<1>1. IInv => TypeOK
    BY DEF IInv
<1>2. SettledIsOnFile => IdentityKept
    BY DEF SettledIsOnFile, IdentityKept
<1> QED
    BY <1>1, <1>2, SettledInit, SettledStep, Invariance, PTL DEF Spec
=============================================================================
