------------------------------ MODULE Transfers ------------------------------
(***************************************************************************)
(* What moves whole DAGs in and out of the blockstore, block by block and  *)
(* without the GC lock: export_car and import_car (car.py), get_file and   *)
(* the download stream over it, get_many, and the upload buffer of         *)
(* files_service.  Any number of them run at once, while other tasks put   *)
(* and delete blocks between any two of their steps.                       *)
(*                                                                         *)
(* A block is its CID; its data is right or wrong for that CID.  The       *)
(* exchange answers any request with the right block or fails, and keeps   *)
(* what it answers in the store or does not.  The batches get_file asks    *)
(* for ahead of time change nothing but the store, as the puts of other    *)
(* tasks do.                                                               *)
(***************************************************************************)
EXTENDS Naturals, Sequences, SequencesExt

CONSTANTS
    Tasks,
    Cids,         \* the CIDs
    LinksOf,      \* LinksOf[b]: the CIDs that a lenient walk finds in block b, in order
    Kind,         \* "raw", "file", "dir" (both dag-pb) or "node" (the other codecs)
    Unwalkable,   \* blocks a strict walk refuses: they cannot be decoded, or are
                  \* nodes and have a link that is no CID, beside others or not
    Size,         \* Size[b]: the bytes of file data in a block that has some
    MaxSize,      \* max_upload_size and max_download_size
    Roots,        \* the CIDs users export
    Files,        \* the CIDs they read
    Requests,     \* the lists of CIDs they ask get_many for
    Shared,       \* the blocks other tasks put and delete meanwhile
    ForeignCars,  \* CAR files that come from elsewhere
    NoBlock, NoCar

CarFile(header, roots, items, tail) ==
    [header |-> header, roots |-> roots, items |-> items, tail |-> tail]

Item == [cid : Cids, data : {"right", "wrong"}]

CarFiles == [header : {"ok", "bad", "none"}, roots : Seq(Cids), items : Seq(Item),
             tail : {"clean", "torn"}]

ASSUME TransfersAssumption ==
    /\ NoBlock \notin Cids /\ NoCar \notin CarFiles
    /\ LinksOf \in [Cids -> Seq(Cids)]
    /\ Kind \in [Cids -> {"raw", "file", "dir", "node"}]
    /\ \A b \in Cids : Kind[b] = "raw" => LinksOf[b] = <<>> /\ b \notin Unwalkable
    /\ \A b \in Unwalkable : Kind[b] = "node" \/ LinksOf[b] = <<>>
    /\ \A S \in (SUBSET Cids) \ {{}} : \E b \in S : ToSet(LinksOf[b]) \cap S = {}
    /\ Size \in [Cids -> Nat \ {0}]
    /\ MaxSize \in Nat \ {0}
    /\ Roots \subseteq Cids /\ Files \subseteq Cids
    /\ Requests \subseteq Seq(Cids)
    /\ Shared \subseteq Cids
    /\ ForeignCars \subseteq CarFiles

VARIABLES
    blockstore,   \* [Cids -> {"absent", "right", "wrong"}]
    disk,         \* the file at the path exports write to
    task          \* what each task is doing, as follows
    (* op: the call                pc: where it is                          *)
    (* file, strict: of import_car                                          *)
    (* rest: items of the file not read yet, then roots not checked yet;    *)
    (*       for get_many, the CIDs asked for                               *)
    (* queue, seen: of the walk, or of fetch_stream's recursion             *)
    (* out: blocks written, chunks delivered or buffered, results           *)
    (* temp: its temporary file exists                                      *)
    (* disturbed: history, a block was deleted since import_car began        *)

transferVars == <<blockstore, disk, task>>

Ended == {"done", "refused", "failed", "cancelled"}
Running(t) == task[t].pc \notin Ended \union {"idle"}

IdleTask == [op |-> "none", pc |-> "idle", file |-> NoCar, strict |-> FALSE, rest |-> <<>>,
         queue |-> <<>>, seen |-> {}, out |-> <<>>, temp |-> FALSE, disturbed |-> FALSE]

Has(b) == blockstore[b] # "absent"

TransfersTypeOK ==
    /\ blockstore \in [Cids -> {"absent", "right", "wrong"}]
    /\ disk \in CarFiles \union {NoCar}
    /\ task \in [Tasks ->
          [op : {"none", "export", "import", "read", "many", "upload"},
           pc : {"idle", "running", "checking", "walking"} \union Ended,
           file : CarFiles \union {NoCar}, rest : Seq(Item) \union Seq(Cids),
           queue : Seq(Cids), seen : SUBSET Cids, out : Seq(Cids \union {NoBlock}),
           strict : BOOLEAN, temp : BOOLEAN, disturbed : BOOLEAN]]

TransfersInit ==
    /\ blockstore = [b \in Cids |-> "absent"]
    /\ disk = NoCar
    /\ task = [t \in Tasks |-> IdleTask]

Bytes(blocks) ==
    LET total[i \in 0..Len(blocks)] == IF i = 0 THEN 0 ELSE total[i - 1] + Size[blocks[i]]
    IN  total[Len(blocks)]

\* The store has b, or exchange.get_block answers with it.
Answers(b) ==
    \/ UNCHANGED blockstore
    \/ blockstore' = [blockstore EXCEPT ![b] = IF Has(b) THEN @ ELSE "right"]

Call(op) == [IdleTask EXCEPT !.op = op, !.pc = "running"]

Begins(t, call) ==
    /\ ~Running(t)
    /\ task' = [task EXCEPT ![t] = call]
    /\ UNCHANGED <<blockstore, disk>>

\* The call returns or raises; what it leaves is its result and what it was given.
Left(t, pc) ==
    IF pc = "done" THEN [task[t] EXCEPT !.pc = pc, !.temp = FALSE]
    ELSE IF pc = "refused"
    THEN [IdleTask EXCEPT !.op = task[t].op, !.pc = pc, !.file = task[t].file,
                      !.strict = task[t].strict, !.disturbed = task[t].disturbed]
    ELSE [IdleTask EXCEPT !.op = task[t].op, !.pc = pc]

EndsAs(t, pc) == task' = [task EXCEPT ![t] = Left(t, pc)]

-----------------------------------------------------------------------------
(* export_car                                                              *)

ExportStart(t, root) == Begins(t, [Call("export") EXCEPT !.queue = <<root>>, !.temp = TRUE])

\* Mutation: visited is not consulted.
ExportBlockAgain(t) ==
    LET b == Head(task[t].queue) IN
    /\ task[t].op = "export" /\ Running(t)
    /\ task[t].queue # <<>>
    /\ task' = [task EXCEPT ![t].queue = Tail(@) \o LinksOf[b],
                            ![t].seen = @ \union {b},
                            ![t].out = Append(@, b)]
    /\ UNCHANGED disk
    /\ Answers(b)

\* The next block of the breadth-first walk, from the store or the exchange.  A
\* block that cannot be decoded is written and its links are not followed; of a
\* node with a bad link, the others are.
ExportBlock(t) ==
    LET b == Head(task[t].queue) IN
    /\ task[t].op = "export" /\ Running(t)
    /\ task[t].queue # <<>>
    /\ IF b \in task[t].seen
       THEN task' = [task EXCEPT ![t].queue = Tail(@)] /\ UNCHANGED blockstore
       ELSE /\ task' = [task EXCEPT ![t].queue = Tail(@) \o LinksOf[b],
                                    ![t].seen = @ \union {b},
                                    ![t].out = Append(@, b)]
            /\ Answers(b)
    /\ UNCHANGED disk

Car(root, blocks) ==
    CarFile("ok", <<root>>, [i \in DOMAIN blocks |-> [cid |-> blocks[i], data |-> "right"]], "clean")

\* os.replace of the temporary file, whose header names the root.
ExportEnds(t) ==
    /\ task[t].op = "export" /\ Running(t)
    /\ task[t].queue = <<>>
    /\ disk' = Car(Head(task[t].out), task[t].out)
    /\ EndsAs(t, "done")
    /\ UNCHANGED blockstore

\* A block is found nowhere, or a read or a write raises.
ExportFails(t) ==
    /\ task[t].op = "export" /\ Running(t)
    /\ EndsAs(t, "failed")
    /\ UNCHANGED <<blockstore, disk>>

-----------------------------------------------------------------------------
(* import_car.  A block of length zero ends the file as its end does.      *)

\* A file without a single byte has no header and no roots; a header that is not
\* CBOR, or of another version than 1, is refused.
ImportStart(t, file, strict) ==
    IF file.header = "bad"
    THEN Begins(t, [Call("import") EXCEPT !.file = file, !.pc = "refused"])
    ELSE Begins(t, [Call("import") EXCEPT !.file = file, !.strict = strict, !.rest = file.items])

\* Mutation: the block is put before its hash is verified.
ImportBlockUnverified(t) ==
    LET item == Head(task[t].rest) IN
    /\ task[t].op = "import" /\ task[t].pc = "running"
    /\ task[t].rest # <<>>
    /\ blockstore' = [blockstore EXCEPT ![item.cid] = item.data]
    /\ IF item.data = "right" THEN task' = [task EXCEPT ![t].rest = Tail(@)]
                              ELSE EndsAs(t, "refused")
    /\ UNCHANGED disk

ImportBlock(t) ==
    LET item == Head(task[t].rest) IN
    /\ task[t].op = "import" /\ task[t].pc = "running"
    /\ task[t].rest # <<>>
    /\ IF item.data = "right"
       THEN /\ blockstore' = [blockstore EXCEPT ![item.cid] = "right"]
            /\ task' = [task EXCEPT ![t].rest = Tail(@)]
       ELSE /\ EndsAs(t, "refused")
            /\ UNCHANGED blockstore
    /\ UNCHANGED disk

\* The file ends between two blocks, or within one.
ImportEndOfFile(t) ==
    /\ task[t].op = "import" /\ task[t].pc = "running"
    /\ task[t].rest = <<>>
    /\ IF task[t].file.tail = "torn"
       THEN EndsAs(t, "refused")
       ELSE task' = [task EXCEPT ![t].pc = "checking", ![t].rest = task[t].file.roots]
    /\ UNCHANGED <<blockstore, disk>>

ImportChecksRoot(t) ==
    LET root == Head(task[t].rest) IN
    /\ task[t].pc = "checking"
    /\ task[t].rest # <<>>
    /\ IF ~Has(root) THEN EndsAs(t, "refused")
       ELSE task' = [task EXCEPT ![t].rest = Tail(@),
                                 ![t].pc = IF task[t].strict THEN "walking" ELSE "checking",
                                 ![t].queue = IF task[t].strict THEN <<root>> ELSE <<>>]
    /\ UNCHANGED <<blockstore, disk>>

\* Mutation: the links of a block walk_dag has seen are missed in its queue.
ImportWalksOnce(t) ==
    LET b == Head(task[t].queue) IN
    /\ task[t].pc = "walking"
    /\ task[t].queue # <<>>
    /\ IF ~Has(b) \/ b \in Unwalkable \union task[t].seen
       THEN EndsAs(t, "refused")
       ELSE task' = [task EXCEPT ![t].queue = Tail(@) \o LinksOf[b], ![t].seen = @ \union {b}]
    /\ UNCHANGED <<blockstore, disk>>

\* walk_dag with strict_missing: an absent block raises, and so does one that
\* cannot be decoded; for a single bad link extract_cids does.
ImportWalks(t) ==
    LET b == Head(task[t].queue) IN
    /\ task[t].pc = "walking"
    /\ task[t].queue # <<>>
    /\ IF b \in task[t].seen THEN task' = [task EXCEPT ![t].queue = Tail(@)]
       ELSE IF ~Has(b) \/ b \in Unwalkable THEN EndsAs(t, "refused")
       ELSE task' = [task EXCEPT ![t].queue = Tail(@) \o LinksOf[b], ![t].seen = @ \union {b}]
    /\ UNCHANGED <<blockstore, disk>>

ImportWalked(t) ==
    /\ task[t].pc = "walking"
    /\ task[t].queue = <<>>
    /\ task' = [task EXCEPT ![t].pc = "checking", ![t].seen = {}]
    /\ UNCHANGED <<blockstore, disk>>

ImportEnds(t) ==
    /\ task[t].pc = "checking"
    /\ task[t].rest = <<>>
    /\ EndsAs(t, "done")
    /\ UNCHANGED <<blockstore, disk>>

\* A call of the store or of the file system raises.
ImportFails(t) ==
    /\ task[t].op = "import" /\ Running(t)
    /\ EndsAs(t, "failed")
    /\ UNCHANGED <<blockstore, disk>>

-----------------------------------------------------------------------------
(* get_file and get_file_stream                                            *)

ReadStart(t, root) == Begins(t, [Call("read") EXCEPT !.queue = <<root>>])

\* A block that is a chunk of its file: a raw one, or the data within a file that
\* has no links.  (An empty file yields nothing, as an empty directory does.)
Yields(b) == Kind[b] = "raw" \/ (Kind[b] = "file" /\ LinksOf[b] = <<>>)

\* What fetch_stream yields from below block b: of a directory its first entry,
\* of a node that is neither raw nor dag-pb nothing.
Below(b) ==
    IF Kind[b] = "file" THEN LinksOf[b]
    ELSE IF Kind[b] = "dir" /\ LinksOf[b] # <<>> THEN <<LinksOf[b][1]>> ELSE <<>>

\* Mutation: the links are followed in breadth first, as in export_car.
ReadBlockLater(t) ==
    LET b == Head(task[t].queue) IN
    /\ task[t].op = "read" /\ Running(t)
    /\ task[t].queue # <<>>
    /\ b \in Unwalkable => Kind[b] = "node"
    /\ task' = [task EXCEPT ![t].queue = Tail(@) \o Below(b),
                            ![t].out = IF Yields(b) THEN Append(@, b) ELSE @]
    /\ Answers(b)
    /\ UNCHANGED disk

\* The exchange, not the store, is asked for every block.  The size is checked
\* when a chunk comes, the first one's excepted.
ReadBlock(t) ==
    LET b == Head(task[t].queue)
        chunks == Append(task[t].out, b) IN
    /\ task[t].op = "read" /\ Running(t)
    /\ task[t].queue # <<>>
    /\ b \in Unwalkable => Kind[b] = "node"
    /\ IF Yields(b) /\ Bytes(chunks) > MaxSize /\ Len(chunks) > 1
       THEN EndsAs(t, "refused")
       ELSE task' = [task EXCEPT ![t].queue = Below(b) \o Tail(@),
                                 ![t].out = IF Yields(b) THEN chunks ELSE @]
    /\ Answers(b)
    /\ UNCHANGED disk

ReadEnds(t) ==
    /\ task[t].op = "read" /\ Running(t)
    /\ task[t].queue = <<>>
    /\ EndsAs(t, "done")
    /\ UNCHANGED <<blockstore, disk>>

\* The exchange has no answer, or none in time, or decode_dag_pb raises.
ReadFails(t) ==
    /\ task[t].op = "read" /\ Running(t)
    /\ EndsAs(t, "failed")
    /\ UNCHANGED <<blockstore, disk>>

-----------------------------------------------------------------------------
(* get_many: one get_node per CID, in a nursery                            *)

ManyStart(t, asked) ==
    Begins(t, [Call("many") EXCEPT !.rest = asked, !.out = [i \in DOMAIN asked |-> NoBlock]])

ManyGets(t, i) ==
    LET b == task[t].rest[i] IN
    /\ task[t].op = "many" /\ Running(t)
    /\ task[t].out[i] = NoBlock
    /\ task' = [task EXCEPT ![t].out[i] = b]
    /\ Answers(b)
    /\ UNCHANGED disk

ManyEnds(t) ==
    /\ task[t].op = "many" /\ Running(t)
    /\ \A i \in DOMAIN task[t].out : task[t].out[i] # NoBlock
    /\ EndsAs(t, "done")
    /\ UNCHANGED <<blockstore, disk>>

\* One that fails, because nobody has the block or it cannot be decoded, cancels the
\* others.
ManyFails(t) ==
    /\ task[t].op = "many" /\ Running(t)
    /\ EndsAs(t, "failed")
    /\ UNCHANGED <<blockstore, disk>>

-----------------------------------------------------------------------------
(* add_file_from_stream: what it buffers before peer.add_file              *)

UploadStart(t) == Begins(t, [Call("upload") EXCEPT !.temp = TRUE])

\* A chunk is as long as the data of some block.
\* Mutation: the size is checked after the chunk is written, without it.
UploadChunkLate(t, b) ==
    /\ task[t].op = "upload" /\ Running(t)
    /\ Yields(b)
    /\ IF Bytes(task[t].out) > MaxSize
       THEN EndsAs(t, "refused")
       ELSE task' = [task EXCEPT ![t].out = Append(@, b)]
    /\ UNCHANGED <<blockstore, disk>>

UploadChunk(t, b) ==
    /\ task[t].op = "upload" /\ Running(t)
    /\ Yields(b)
    /\ IF Bytes(task[t].out) + Size[b] > MaxSize
       THEN EndsAs(t, "refused")
       ELSE task' = [task EXCEPT ![t].out = Append(@, b)]
    /\ UNCHANGED <<blockstore, disk>>

\* add_file has returned or raised; the finally block runs.
UploadEnds(t) ==
    /\ task[t].op = "upload" /\ Running(t)
    /\ \/ EndsAs(t, "done")
       \/ EndsAs(t, "failed")
    /\ UNCHANGED <<blockstore, disk>>

-----------------------------------------------------------------------------
(* The rest of the program                                                 *)

\* The caller goes away.  Cancelled is no Exception, so export_car leaves its
\* temporary file; the finally block of the upload removes its own.
Cancel(t) ==
    /\ Running(t)
    /\ task' = [task EXCEPT ![t] = [Left(t, "cancelled") EXCEPT !.temp = task[t].op = "export"]]
    /\ UNCHANGED <<blockstore, disk>>

Put(b) ==
    /\ blockstore' = [blockstore EXCEPT ![b] = "right"]
    /\ UNCHANGED <<disk, task>>

\* gc, remove_node, block/rm.
Delete(b) ==
    /\ Has(b)
    /\ blockstore' = [blockstore EXCEPT ![b] = "absent"]
    /\ task' = [t \in Tasks |-> [task[t] EXCEPT !.disturbed = task[t].file # NoCar]]
    /\ UNCHANGED disk

Step(t) ==
    \/ ExportBlock(t) \/ ExportEnds(t) \/ ExportFails(t)
    \/ ImportBlock(t) \/ ImportEndOfFile(t) \/ ImportChecksRoot(t) \/ ImportWalks(t)
    \/ ImportWalked(t) \/ ImportEnds(t) \/ ImportFails(t)
    \/ ReadBlock(t) \/ ReadEnds(t) \/ ReadFails(t)
    \/ \E i \in DOMAIN task[t].rest : ManyGets(t, i)
    \/ ManyEnds(t) \/ ManyFails(t)
    \/ \E b \in Cids : UploadChunk(t, b)
    \/ UploadEnds(t)

Start(t) ==
    \/ \E root \in Roots : ExportStart(t, root)
    \/ \E root \in Files : ReadStart(t, root)
    \/ \E file \in ForeignCars \union ({disk} \ {NoCar}), strict \in BOOLEAN :
          ImportStart(t, file, strict)
    \/ \E asked \in Requests : ManyStart(t, asked)
    \/ UploadStart(t)

TransfersNext ==
    \/ \E t \in Tasks : Start(t) \/ Step(t) \/ Cancel(t)
    \/ \E b \in Shared : Put(b) \/ Delete(b)

TransfersSpec == TransfersInit /\ [][TransfersNext]_transferVars

-----------------------------------------------------------------------------
(* Properties                                                              *)

\* All that is below a block, and the chunks of a file in order.
LinksWithin(S) == \A b \in S : ToSet(LinksOf[b]) \subseteq S
Dag == [b \in Cids |-> {d \in Cids : \A S \in SUBSET Cids : b \in S /\ LinksWithin(S) => d \in S}]
content[b \in Cids] ==
    IF Yields(b) THEN <<b>>
    ELSE FlattenSeq([i \in DOMAIN Below(b) |-> content[Below(b)[i]]])

Contents(blocks) == FlattenSeq([i \in DOMAIN blocks |-> content[blocks[i]]])
DagsOf(roots) == UNION {Dag[roots[i]] : i \in DOMAIN roots}

\* A CAR file that says what it is and holds everything its roots lead to.
Complete(file) ==
    /\ file.header = "ok" /\ file.tail = "clean"
    /\ \A i \in DOMAIN file.items : file.items[i].data = "right"
    /\ DagsOf(file.roots) \subseteq {file.items[i].cid : i \in DOMAIN file.items}

\* Whatever is collected, put, cancelled or failing meanwhile, the file an export
\* leaves at its path is a whole DAG and nothing else, each block once.
ExportedIsWhole ==
    disk # NoCar =>
        LET cids == [i \in DOMAIN disk.items |-> disk.items[i].cid] IN
        /\ Complete(disk)
        /\ ToSet(cids) = DagsOf(disk.roots)
        /\ IsInjective(cids)

\* No block of a CAR file enters the store under a CID that is not its own.
StoreIsVerified == \A b \in Cids : blockstore[b] # "wrong"

\* An import that succeeds, with nobody deleting blocks meanwhile, has brought
\* every root, and when strict everything below each of them.
ImportedIsThere ==
    \A t \in Tasks :
        task[t].op = "import" /\ task[t].pc = "done" /\ ~task[t].disturbed =>
            \A i \in DOMAIN task[t].file.roots :
                LET root == task[t].file.roots[i] IN
                \A b \in (IF task[t].strict THEN Dag[root] ELSE {root}) : Has(b)

\* What an import leaves is right, and when it succeeds it is all there.
ImportsAreSound == StoreIsVerified /\ ImportedIsThere

\* A complete file, in particular one that was exported, is accepted unless blocks
\* are deleted meanwhile or a strict import meets a block it cannot decode or with a bad link.
CompleteIsAccepted ==
    \A t \in Tasks :
        task[t].op = "import" /\ task[t].pc = "refused" /\ Complete(task[t].file) =>
            \/ task[t].disturbed
            \/ task[t].strict /\ DagsOf(task[t].file.roots) \intersect Unwalkable # {}

\* What get_file has delivered, followed by what it has yet to fetch, is the file's
\* content, shared blocks repeated; so nothing comes out of order or twice, and
\* what is delivered before a failure is a beginning of the file.
ReadsInOrder ==
    \A t \in Tasks :
        task[t].op = "read" /\ (Running(t) \/ task[t].pc = "done") =>
            \E root \in Files : task[t].out \o Contents(task[t].queue) = content[root]

\* get_many returns the results in the order asked, whichever comes first.
ManyInOrder ==
    \A t \in Tasks :
        task[t].op = "many" /\ task[t].pc = "done" => task[t].out = task[t].rest

\* Files and batches are delivered in the order asked.
DeliveredInOrder == ReadsInOrder /\ ManyInOrder

\* An upload is never buffered beyond the limit, and a download is sent beyond it
\* by its first chunk only.
SizesBounded ==
    \A t \in Tasks :
        Bytes(IF task[t].op \in {"upload", "read"} THEN task[t].out ELSE <<>>) > MaxSize =>
            task[t].op = "read" /\ Len(task[t].out) = 1

\* A transfer that has ended has no temporary file left, unless it was an export
\* that was cancelled.
TempsRemoved ==
    \A t \in Tasks :
        task[t].temp => Running(t) \/ (task[t].op = "export" /\ task[t].pc = "cancelled")

\* What a transfer holds is of its type, bounded while it runs, and gone when it
\* has ended.
BuffersBounded == TransfersTypeOK /\ SizesBounded /\ TempsRemoved
=============================================================================
