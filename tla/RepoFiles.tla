------------------------------- MODULE RepoFiles -------------------------------
(***************************************************************************)
(* The files a peer keeps beside its blocks, and what a crash makes of     *)
(* them: the pins (pin.py), the seed of its identity (cli.py) and the      *)
(* version of the repository (versioning.py).                              *)
(*                                                                         *)
(* The pins are written to another file, synced and put in place; the seed *)
(* and the version are written in place.  The process may be killed        *)
(* between any two calls of the system, which keeps what was written, or   *)
(* the power may fail, which undoes what was not synced.  Calls may fail.  *)
(***************************************************************************)
EXTENDS Integers, FiniteSets

CONSTANTS
    Cids,
    MaxSeeds,       \* bound: seeds and random keys that are generated
    MaxUnsettled    \* bound: saves that begin before the disk is up to date

ASSUME RepoAssumption == MaxSeeds \in Nat /\ MaxUnsettled \in Nat

VARIABLES
    pc,         \* what the process is doing, see TypeOK
    pins,       \* PinStore._pins
    pinFile,    \* pins.json: a Content
    pinDisk,    \* the Contents a power failure may leave of it
    tmpFile,    \* pins.tmp, during a save: what is left of it otherwise is never read
    tmpDisk,
    seedFile,   \* NoFile, Empty or a seed
    seedDisk,
    identity,   \* the seed, or the random key, the running process uses
    version,    \* of the file: NoFile, Empty or 1
    seeds,      \* how many were generated
    (* history *)
    acked,      \* tables the calls that returned let the file hold: the one the last of
                \* them left whose save did not fail, or any of recent after a power failure
    recent,     \* acked when the disk was last up to date, and what was added since
    settled     \* the identity of the starts that got through and found or left it
                \* in the file, 0 if there was none since that was lost

vars == <<pc, pins, pinFile, pinDisk, tmpFile, tmpDisk, seedFile, seedDisk, identity, version, seeds,
          acked, recent, settled>>
pinHistory == <<acked, recent>>
pinVars == <<pins, pinFile, pinDisk, tmpFile, tmpDisk, pinHistory>>
seedVars == <<seedFile, seedDisk, identity, seeds, settled>>

Kinds == {"none", "direct", "recursive"}
Tables == [Cids -> Kinds]
NoPins == [c \in Cids |-> "none"]

(* A file of pins: absent, not the whole JSON text, or a table. *)
Whole(t) == [whole |-> TRUE, table |-> t]
Absent == Whole(NoPins)
Torn == [whole |-> FALSE, table |-> NoPins]

(* An older version wrote True for recursive and False for direct. *)
OldTables == [Cids -> {"none", "True", "False"}]
Contents == {Whole(t) : t \in Tables \cup OldTables} \cup {Torn}

Migrated(t) ==
    [c \in Cids |-> CASE t[c] = "True" -> "recursive" [] t[c] = "False" -> "direct" [] OTHER -> t[c]]

NoFile == -1
Empty == 0

(* The next call of _save. *)
Saving == {"mkdir", "open", "write", "sync", "replace"}

TypeOK ==
    /\ pc \in {"down", "seeding", "loading", "version", "versioning", "up"} \cup Saving
    /\ pins \in Tables /\ acked \subseteq Tables /\ recent \subseteq Tables
    /\ pinFile \in Contents /\ pinDisk \subseteq Contents
    /\ tmpFile \in Contents /\ tmpDisk \subseteq Contents
    /\ seedFile \in NoFile..MaxSeeds /\ seedDisk \subseteq NoFile..MaxSeeds
    /\ identity \in 0..MaxSeeds
    /\ version \in {NoFile, Empty, 1}
    /\ seeds \in 0..MaxSeeds
    /\ settled \in 0..MaxSeeds

Init ==
    /\ pc = "down"
    /\ pinFile \in {Whole(t) : t \in OldTables} /\ pinDisk = {pinFile}
    /\ pins = NoPins
    /\ acked = {Migrated(pinFile.table)} /\ recent = acked
    /\ tmpFile = Absent /\ tmpDisk = {}
    /\ seedFile = NoFile /\ seedDisk = {NoFile}
    /\ identity = 0 /\ seeds = 0 /\ settled = 0
    /\ version = NoFile

-----------------------------------------------------------------------------
(* The start: _get_key_pair, PinStore, init_repo_version. *)

(* A seed file that is there is read; an empty seed counts as none, and Peer makes
   a random key. *)
ReadSeed ==
    /\ pc = "down" /\ seedFile # NoFile
    /\ pc' = "loading"
    /\ IF seedFile # Empty
       THEN identity' = seedFile /\ UNCHANGED seeds
       ELSE seeds < MaxSeeds /\ seeds' = seeds + 1 /\ identity' = seeds'
    /\ UNCHANGED <<pinVars, seedFile, seedDisk, version, settled>>

(* Mutation: a seed that is there is replaced. *)
NewSeedEachTime ==
    /\ pc = "down" /\ seedFile # Empty /\ seeds < MaxSeeds
    /\ pc' = "seeding"
    /\ seeds' = seeds + 1 /\ identity' = seeds'
    /\ seedFile' = Empty /\ seedDisk' = seedDisk \cup {Empty}
    /\ UNCHANGED <<pinVars, version, settled>>

(* There is none: it is opened for writing ... *)
NewSeed ==
    /\ pc = "down" /\ seedFile = NoFile /\ seeds < MaxSeeds
    /\ pc' = "seeding"
    /\ seeds' = seeds + 1 /\ identity' = seeds'
    /\ seedFile' = Empty /\ seedDisk' = seedDisk \cup {Empty}
    /\ UNCHANGED <<pinVars, version, settled>>

(* ... and written, which is no more synced than the file name is. *)
WriteSeed ==
    /\ pc = "seeding"
    /\ pc' = "loading"
    /\ seedFile' = identity /\ seedDisk' = seedDisk \cup {identity}
    /\ UNCHANGED <<pinVars, identity, seeds, version, settled>>

(* PinStore._load.  What cannot be read, whatever the reason, counts as no pins.
   What is read after a power failure settles which of acked the file holds. *)
Load ==
    /\ pc = "loading"
    /\ pc' = "version"
    /\ \/ /\ pinFile.whole
          /\ pins' = Migrated(pinFile.table)
          /\ acked' = acked \cap {pins'}
          /\ recent' = IF recent = acked THEN acked' ELSE recent
       \/ pins' = NoPins /\ UNCHANGED pinHistory
    /\ UNCHANGED <<pinFile, pinDisk, tmpFile, tmpDisk, seedVars, version>>

(* init_repo_version writes the version if there is none; another one is logged. *)
CheckVersion ==
    /\ pc = "version"
    /\ IF version = NoFile
       THEN pc' = "versioning" /\ version' = Empty /\ UNCHANGED settled
       ELSE /\ pc' = "up"
            /\ settled' = IF settled = 0 /\ seedFile = identity THEN identity ELSE settled
            /\ UNCHANGED version
    /\ UNCHANGED <<pinVars, seedFile, seedDisk, identity, seeds>>

WriteVersion ==
    /\ pc = "versioning"
    /\ pc' = "version" /\ version' = 1
    /\ UNCHANGED <<pinVars, seedVars>>

-----------------------------------------------------------------------------
(* add_pin and remove_pin.  The table is changed, then saved. *)

(* Pinning what is pinned in that way already returns; pinning directly what is
   pinned recursively raises. *)
MayAdd(c, k) == pins[c] # k /\ ~(pins[c] = "recursive" /\ k = "direct")

(* Mutation: a pin that is there already is changed, but not saved. *)
AddPinUnsaved(c, k) ==
    /\ pc = "up"
    /\ k # "none" /\ MayAdd(c, k)
    /\ pins' = [pins EXCEPT ![c] = k]
    /\ IF pins[c] = "none" THEN pc' = "mkdir" /\ UNCHANGED acked ELSE acked' = {pins'} /\ UNCHANGED pc
    /\ UNCHANGED <<pinFile, pinDisk, tmpFile, tmpDisk, recent, seedVars, version>>

AddPin(c, k) ==
    /\ pc = "up"
    /\ k # "none" /\ MayAdd(c, k)
    /\ pins' = [pins EXCEPT ![c] = k]
    /\ pc' = "mkdir"
    /\ UNCHANGED <<pinFile, pinDisk, tmpFile, tmpDisk, pinHistory, seedVars, version>>

RemovePin(c) ==
    /\ pc = "up"
    /\ pins[c] # "none"
    /\ pins' = [pins EXCEPT ![c] = "none"]
    /\ pc' = "mkdir"
    /\ UNCHANGED <<pinFile, pinDisk, tmpFile, tmpDisk, pinHistory, seedVars, version>>

(* PinStore._save, for the call that is running, which then returns, or raises if
   it is mkdir that failed.  The table in memory is changed in any case. *)
Return ==
    /\ pc' = "up"
    /\ tmpFile' = Absent /\ tmpDisk' = {}

MakeDirectory ==
    /\ pc = "mkdir" /\ pc' = "open"
    /\ Cardinality(pinDisk) <= MaxUnsettled
    /\ UNCHANGED <<pinVars, seedVars, version>>

(* Mutation: the file itself is opened and written. *)
OpenInPlace ==
    /\ pc = "open" /\ pc' = "write"
    /\ pinFile' = Torn /\ pinDisk' = pinDisk \cup {Torn}
    /\ UNCHANGED <<pins, tmpFile, tmpDisk, pinHistory, seedVars, version>>

Open ==
    /\ pc = "open" /\ pc' = "write"
    /\ tmpFile' = Torn /\ tmpDisk' = {Torn}
    /\ UNCHANGED <<pins, pinFile, pinDisk, pinHistory, seedVars, version>>

Write ==
    /\ pc = "write" /\ pc' = "sync"
    /\ tmpFile' = Whole(pins) /\ tmpDisk' = tmpDisk \cup {Whole(pins)}
    /\ UNCHANGED <<pins, pinFile, pinDisk, pinHistory, seedVars, version>>

Sync ==
    /\ pc = "sync" /\ pc' = "replace"
    /\ tmpDisk' = {tmpFile}
    /\ UNCHANGED <<pins, pinFile, pinDisk, tmpFile, pinHistory, seedVars, version>>

(* The directory is not synced: the power may still fail on the old file. *)
Replace ==
    /\ pc = "replace" /\ Return
    /\ pinFile' = tmpFile /\ pinDisk' = pinDisk \cup tmpDisk
    /\ acked' = {pins} /\ recent' = recent \cup {pins}
    /\ UNCHANGED <<pins, seedVars, version>>

(* One of these calls fails, which is logged. *)
SaveFails ==
    /\ pc \in Saving /\ Return
    /\ UNCHANGED <<pins, pinFile, pinDisk, pinHistory, seedVars, version>>

-----------------------------------------------------------------------------
(* The process ends at any point. *)
Ends ==
    /\ pc # "down" /\ pc' = "down"
    /\ pins' = NoPins /\ identity' = 0
    /\ tmpFile' = Absent /\ tmpDisk' = {}

Kill ==
    /\ Ends
    /\ UNCHANGED <<pinFile, pinDisk, pinHistory, seedFile, seedDisk, seeds, settled, version>>

(* The power fails: of each file one of the contents it has had since the disk was
   up to date is left. *)
PowerFailure ==
    /\ Ends
    /\ \E p \in pinDisk, s \in seedDisk :
           /\ pinFile' = p /\ pinDisk' = {p}
           /\ seedFile' = s /\ seedDisk' = {s}
           /\ settled' = IF s = settled THEN settled ELSE 0
    /\ acked' = recent
    /\ UNCHANGED <<recent, seeds, version>>

(* The system writes out what was not synced. *)
WriteBack ==
    /\ pinDisk' = {pinFile} /\ seedDisk' = {seedFile}
    /\ recent' = acked
    /\ UNCHANGED <<pc, pins, pinFile, tmpFile, tmpDisk, acked, seedFile, identity, seeds,
                   settled, version>>

-----------------------------------------------------------------------------
Next ==
    \/ ReadSeed \/ NewSeed \/ WriteSeed \/ Load \/ CheckVersion \/ WriteVersion
    \/ \E c \in Cids : RemovePin(c) \/ \E k \in Kinds : AddPin(c, k)
    \/ MakeDirectory \/ Open \/ Write \/ Sync \/ Replace \/ SaveFails
    \/ Kill \/ PowerFailure \/ WriteBack

Spec == Init /\ [][Next]_vars

-----------------------------------------------------------------------------
(* Whatever fails and whenever, the file holds a whole table, and so does what a
   power failure may leave of it. *)
FileIsWhole == \A f \in pinDisk \cup {pinFile} : f.whole

(* Whatever fails and whenever, the file is whole and holds a table as calls left
   it that returned: the last of them (a save that fails is logged, and leaves the
   table before it), or, after a power failure, one of those since the disk was
   last up to date, since the rename is not synced; never an older one, and none
   that only a call which did not return had made. *)
ReturnedIsOnFile ==
    /\ TypeOK
    /\ FileIsWhole
    /\ Migrated(pinFile.table) \in acked

(* A peer that has run with the identity of its seed file has it in every later
   run, unless the power failed before the seed was written out. *)
IdentityKept == pc = "up" /\ settled # 0 => identity = settled

(* The file of the pins keeps the promise of PinTable. *)
Table == INSTANCE PinTable WITH
             memory <- pins,
             table <- Migrated(pinFile.table),
             durable <- {Migrated(f.table) : f \in pinDisk}

ImplementsPinTable == Table!Spec
=============================================================================
