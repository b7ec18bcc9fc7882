------------------------- MODULE RawPartitionWriter -------------------------
(***************************************************************************)
(* The commit protocol of RawPartitionWriter.append_partition over the     *)
(* raw partition files and the SQLite manifest (ManifestStore).            *)
(*                                                                         *)
(* A writer looks the partition up OUTSIDE any transaction; when it is     *)
(* absent the batch is written to a staging file, renamed over             *)
(* data.parquet and only then made visible by one manifest transaction;    *)
(* when it is present the file is only verified and the batch is merged    *)
(* into event_index.  Every action is one atomic step of the operating     *)
(* system or of SQLite, so that other writers, failures and crashes fall   *)
(* between them.                                                           *)
(*                                                                         *)
(* A log record is its EventKey and its normalized content hash.  A file   *)
(* is the batch it holds and the acquisition envelope stored beside the    *)
(* rows (endpoint alias, ingestion time), which makes the bytes of two     *)
(* fetches of the same rows differ.  SHA-256 is injective: the digest of a *)
(* file is the file value itself.                                          *)
(***************************************************************************)
EXTENDS Integers

CONSTANTS
    Writers,            \* processes or threads that share one data root
    Keys,               \* EventKeys of one event of one contract
    Contents,           \* normalized content hashes
    Acquisitions,       \* acquisition envelopes, outside the content hash
    BlockOf,            \* the block number of an EventKey
    BlocksPerPartition, \* width of a grid cell
    NoFile,             \* no data.parquet at the partition's final path
    NoRow               \* no manifest row for the partition

Records == [key : Keys, content : Contents]

\* The grid cell a record falls in; it is the partition's identity.
CellOf(k) == BlockOf[k] \div BlocksPerPartition
Cells == {CellOf(k) : k \in Keys}
BlockTo(c) == (c + 1) * BlocksPerPartition - 1

\* What derive_partition_key accepts: a non-empty slice of one grid cell.
BatchesOf(c) == (SUBSET {r \in Records : CellOf(r.key) = c}) \ {{}}
Batches == UNION {BatchesOf(c) : c \in Cells}

KeysOf(B) == {r.key : r \in B}
HeightsOf(B) == {BlockOf[k] : k \in KeysOf(B)}

\* The lowest and highest block numbers of a batch.
BoundsOf(B) ==
    [min |-> CHOOSE m \in HeightsOf(B) : \A h \in HeightsOf(B) : m <= h,
     max |-> CHOOSE m \in HeightsOf(B) : \A h \in HeightsOf(B) : h <= m]

Files == [batch : Batches, acquired : Acquisitions]
Rows  == [file_sha256 : Files, bounds : {BoundsOf(B) : B \in Batches}]
Kinds == {"consistent", "conflict"}

Operations == [cell : Cells, batch : Batches, acquired : Acquisitions]

ASSUME GridAssumption ==
    /\ BlockOf \in [Keys -> Nat]
    /\ BlocksPerPartition \in Nat \ {0}

ASSUME SentinelAssumption ==
    /\ NoFile \notin Files
    /\ NoRow \notin Rows

NoCheckpoint == -1

VARIABLES
    file,          \* cell -> what is at data.parquet
    partitions,    \* cell -> the partitions + partition_block_bounds row
    qualification, \* cell -> the partition_qualification row
    event_index,   \* the event_index rows
    checkpoint,    \* ingestion_checkpoints.last_successful_block
    pc,            \* writer -> where append_partition stands
    op,            \* writer -> its current call, or the last that returned
    result         \* writer -> the outcome of its last finished call

manifest == <<partitions, qualification, event_index, checkpoint>>
vars == <<file, manifest, pc, op, result>>

Steps == {"idle", "verify", "merge", "stage", "rename", "commit"}

\* An AppendResult (qualified or not), one of the exceptions, or nothing.
Outcomes == {"none", "qualified", "conflicting", "manifest_mismatch",
             "silent_row_loss", "error"}

NoCell == -1
NoOperation == [cell |-> NoCell, batch |-> {}, acquired |-> "none"]

TypeOK ==
    /\ file \in [Cells -> Files \cup {NoFile}]
    /\ partitions \in [Cells -> Rows \cup {NoRow}]
    /\ qualification \in [Cells -> {"none", "qualified", "halted"}]
    /\ event_index \in SUBSET [key : Keys, content : Contents, kind : Kinds]
    /\ checkpoint \in Nat \cup {NoCheckpoint}
    /\ pc \in [Writers -> Steps]
    /\ op \in [Writers -> Operations \cup {NoOperation}]
    /\ result \in [Writers -> Outcomes]
    /\ \A w \in Writers : pc[w] # "idle" => op[w] \in Operations

Init ==
    /\ file = [c \in Cells |-> NoFile]
    /\ partitions = [c \in Cells |-> NoRow]
    /\ qualification = [c \in Cells |-> "none"]
    /\ event_index = {}
    /\ checkpoint = NoCheckpoint
    /\ pc = [w \in Writers |-> "idle"]
    /\ op = [w \in Writers |-> NoOperation]
    /\ result = [w \in Writers |-> "none"]

-----------------------------------------------------------------------------
(***************************************************************************)
(* The event index.                                                        *)
(***************************************************************************)

IndexedKeys == {o.key : o \in event_index}

\* A record whose EventKey is indexed with this very content is skipped.
Seen(r) == \E o \in event_index : o.key = r.key /\ o.content = r.content

\* The first observation of each EventKey that has none: the records are
\* taken in the batch's order, which the batch's set leaves open.
FirstObservations(B) ==
    {F \in SUBSET B :
        /\ KeysOf(F) = KeysOf(B) \ IndexedKeys
        /\ \A r, s \in F : r.key = s.key => r = s}

\* Mutant: only the index is asked, so a record that disagrees with another
\* of its own batch is dropped without a trace.
ConflictsOfIndexed(B, F) == {r \in B : r.key \in IndexedKeys /\ r \notin F /\ ~Seen(r)}

\* Every other unseen record disagrees with an observation of its EventKey.
ConflictsOf(B, F) == {r \in B : r \notin F /\ ~Seen(r)}

Observations(R, k) == {[key |-> r.key, content |-> r.content, kind |-> k] : r \in R}

\* Mutant: the conflict is recorded, the partition is not halted.
RecordEventBatchWithoutHalt(c, B, F, q) ==
    /\ event_index' = event_index \cup Observations(F, "consistent")
                                  \cup Observations(ConflictsOf(B, F), "conflict")
    /\ qualification' = [qualification EXCEPT ![c] = q]

\* Mutant: the qualification is upserted by every batch, conflicting or not.
RecordEventBatchHealing(c, B, F, q) ==
    /\ event_index' = event_index \cup Observations(F, "consistent")
                                  \cup Observations(ConflictsOf(B, F), "conflict")
    /\ qualification' = [qualification EXCEPT ![c] =
                            IF ConflictsOf(B, F) # {} THEN "halted" ELSE "qualified"]

\* What the index write of a batch B with first observations F does: both
\* kinds of rows are kept and a conflict halts the partition written to.
RecordEventBatch(c, B, F, q) ==
    /\ event_index' = event_index \cup Observations(F, "consistent")
                                  \cup Observations(ConflictsOf(B, F), "conflict")
    /\ qualification' =
         [qualification EXCEPT ![c] = IF ConflictsOf(B, F) # {} THEN "halted" ELSE q]

\* Monotonic in SQL: MAX(last_successful_block, excluded).
AdvanceCheckpoint(c) ==
    checkpoint' = IF BlockTo(c) > checkpoint THEN BlockTo(c) ELSE checkpoint

\* The AppendResult: qualified iff this call recorded no conflict.
AppendOutcome(B, F) == IF ConflictsOf(B, F) = {} THEN "qualified" ELSE "conflicting"

Return(w, outcome) ==
    /\ pc' = [pc EXCEPT ![w] = "idle"]
    /\ result' = [result EXCEPT ![w] = outcome]
    /\ UNCHANGED op

\* Mutant: the call is forgotten but does not unwind.
RaiseInPlace(w, outcome) ==
    /\ op' = [op EXCEPT ![w] = NoOperation]
    /\ result' = [result EXCEPT ![w] = outcome]
    /\ UNCHANGED pc

\* An exception leaves the caller nothing but its name.
Raise(w, outcome) ==
    /\ pc' = [pc EXCEPT ![w] = "idle"]
    /\ result' = [result EXCEPT ![w] = outcome]
    /\ op' = [op EXCEPT ![w] = NoOperation]

-----------------------------------------------------------------------------
(***************************************************************************)
(* append_partition, step by step.                                         *)
(***************************************************************************)

\* Mutant: no lookup, every batch is staged as if the partition were absent.
BeginWithoutLookup(w, c, B, a) ==
    /\ pc[w] = "idle"
    /\ op' = [op EXCEPT ![w] = [cell |-> c, batch |-> B, acquired |-> a]]
    /\ pc' = [pc EXCEPT ![w] = "stage"]
    /\ UNCHANGED <<file, manifest, result>>

\* Derive the partition key and look its row up, outside any transaction.
Begin(w, c, B, a) ==
    /\ pc[w] = "idle"
    /\ op' = [op EXCEPT ![w] = [cell |-> c, batch |-> B, acquired |-> a]]
    /\ pc' = [pc EXCEPT ![w] = IF partitions[c] = NoRow THEN "stage" ELSE "verify"]
    /\ UNCHANGED <<file, manifest, result>>

\* The row exists: the file must be there with the digest of the row.  Rows
\* are never updated or deleted, so the row read in Begin is the row now.
Verify(w) ==
    LET c == op[w].cell IN
    /\ pc[w] = "verify"
    /\ IF file[c] = partitions[c].file_sha256
         THEN /\ pc' = [pc EXCEPT ![w] = "merge"]
              /\ UNCHANGED <<op, result>>
         ELSE Raise(w, "manifest_mismatch")
    /\ UNCHANGED <<file, manifest>>

\* A batch with an EventKey the index does not hold is rolled back: the file
\* is not rewritten, so its row would be in the index only.
RefuseRowLoss(w) ==
    /\ pc[w] = "merge"
    /\ ~(KeysOf(op[w].batch) \subseteq IndexedKeys)
    /\ Raise(w, "silent_row_loss")
    /\ UNCHANGED <<file, manifest>>

\* Mutant: the merge accepts new EventKeys although the file stands.
MergeWithoutRowLossGuard(w) ==
    LET c == op[w].cell
        B == op[w].batch
    IN
    /\ pc[w] = "merge"
    /\ \E F \in FirstObservations(B) : /\ RecordEventBatch(c, B, F, qualification[c])
                                       /\ Return(w, AppendOutcome(B, F))
    /\ AdvanceCheckpoint(c)
    /\ UNCHANGED <<file, partitions>>

\* One transaction over a batch whose EventKeys are all indexed.
Merge(w) ==
    LET c == op[w].cell
        B == op[w].batch
    IN
    /\ pc[w] = "merge"
    /\ KeysOf(B) \subseteq IndexedKeys
    /\ RecordEventBatch(c, B, {}, qualification[c])
    /\ AdvanceCheckpoint(c)
    /\ Return(w, AppendOutcome(B, {}))
    /\ UNCHANGED <<file, partitions>>

\* Write the Parquet table to .staging-<uuid>.parquet and hash it.
Stage(w) ==
    /\ pc[w] = "stage"
    /\ pc' = [pc EXCEPT ![w] = "rename"]
    /\ UNCHANGED <<file, manifest, op, result>>

FileOf(o) == [batch |-> o.batch, acquired |-> o.acquired]

\* os.rename: atomic, and it replaces whatever is at the final path.
Rename(w) ==
    /\ pc[w] = "rename"
    /\ file' = [file EXCEPT ![op[w].cell] = FileOf(op[w])]
    /\ pc' = [pc EXCEPT ![w] = "commit"]
    /\ UNCHANGED <<manifest, op, result>>

RowOf(o) == [file_sha256 |-> FileOf(o), bounds |-> BoundsOf(o.batch)]

\* The manifest transaction.  INSERT OR IGNORE: a row that is there already
\* keeps its digest and bounds, and its qualification is left alone.
Commit(w) ==
    LET c == op[w].cell
        B == op[w].batch
        inserted == partitions[c] = NoRow
    IN
    /\ pc[w] = "commit"
    /\ partitions' = [partitions EXCEPT ![c] = IF inserted THEN RowOf(op[w]) ELSE @]
    /\ \E F \in FirstObservations(B) :
         /\ RecordEventBatch(c, B, F, IF inserted THEN "qualified" ELSE qualification[c])
         /\ Return(w, AppendOutcome(B, F))
    /\ AdvanceCheckpoint(c)
    /\ UNCHANGED file

\* Mutant: the cleanup unlinks the final path instead of the staging file.
FailUnlinkingFile(w) ==
    /\ pc[w] # "idle"
    /\ Raise(w, "error")
    /\ file' = [file EXCEPT ![op[w].cell] = NoFile]
    /\ UNCHANGED manifest

\* An OSError or sqlite3.Error at any step: the transaction, if open, rolls
\* back, the staging file is unlinked and the final file, if the rename was
\* done, is left where it is.
Fail(w) ==
    /\ pc[w] # "idle"
    /\ Raise(w, "error")
    /\ UNCHANGED <<file, manifest>>

\* The process dies and restarts; SQLite rolls an open transaction back.
Crash(w) ==
    /\ pc[w] # "idle"
    /\ Raise(w, "none")
    /\ UNCHANGED <<file, manifest>>

Step(w) ==
    \/ \E c \in Cells : \E B \in BatchesOf(c), a \in Acquisitions : Begin(w, c, B, a)
    \/ Verify(w)
    \/ RefuseRowLoss(w)
    \/ Merge(w)
    \/ Stage(w)
    \/ Rename(w)
    \/ Commit(w)
    \/ Fail(w)
    \/ Crash(w)

Next == \E w \in Writers : Step(w)

Spec == Init /\ [][Next]_vars

-----------------------------------------------------------------------------
(***************************************************************************)
(* Properties.                                                             *)
(***************************************************************************)

\* The deployment append_partition is written for: one writer per data root.
SoleWriter == \A v, w \in Writers : v = w

\* All its steps need of one another: no two calls are under way on one
\* partition.  append_partition takes no lock, so this is the caller's part.
OneWriterPerPartition ==
    \A v, w \in Writers :
        pc[v] # "idle" /\ pc[w] # "idle" /\ op[v].cell = op[w].cell => v = w

\* A manifest row never points at missing, partial or replaced bytes: the
\* file at the final path is the one whose digest and bounds the row holds
\* (commit protocol of append_partition, with crashes between its steps).
FileMatchesManifest ==
    \A c \in Cells : partitions[c] # NoRow =>
        /\ file[c] = partitions[c].file_sha256
        /\ partitions[c].bounds = BoundsOf(file[c].batch)

\* reconcile_partition finds every committed partition consistent: the index
\* and the file hold the same EventKeys, and each consistent index row is a
\* row of the file.
IndexMatchesFile ==
    \A c \in Cells : partitions[c] # NoRow =>
        /\ KeysOf(file[c].batch) = {k \in IndexedKeys : CellOf(k) = c}
        /\ \A o \in event_index : CellOf(o.key) = c /\ o.kind = "consistent" =>
              [key |-> o.key, content |-> o.content] \in file[c].batch

\* Whatever the writers do, an EventKey has one consistent observation, and
\* a partition is halted exactly when the index holds an observation that
\* contradicts it (dedup rules of _record_event_observation).
ConflictsHalt ==
    /\ \A o, p \in event_index :
         o.key = p.key /\ o.kind = "consistent" /\ p.kind = "consistent" => o = p
    /\ \A c \in Cells :
         qualification[c] = "halted" <=>
             \E o \in event_index : CellOf(o.key) = c /\ o.kind = "conflict"

\* An append_partition that returned is durable: whatever failed, crashed or
\* raced since, every record it was given is still in the index and the
\* checkpoint covers its cell.
AcknowledgedIsDurable ==
    \A w \in Writers :
        pc[w] = "idle" /\ result[w] \in {"qualified", "conflicting"} =>
            /\ \A r \in op[w].batch : Seen(r)
            /\ checkpoint >= BlockTo(op[w].cell)

\* A halt, a manifest row and an observation are never undone, and the
\* checkpoint never moves back, also when a fresh commit of a slow writer
\* lands on a partition another writer has halted meanwhile.
NeverUndone ==
    [][/\ \A c \in Cells : partitions[c] # NoRow => partitions'[c] = partitions[c]
       /\ \A c \in Cells : qualification[c] = "halted" => qualification'[c] = "halted"
       /\ event_index \subseteq event_index'
       /\ checkpoint' >= checkpoint]_vars

\* What readers can see of the files and the manifest.
Dataset == INSTANCE CommittedDataset WITH
    Rows <- Batches,
    Unpublished <- {},
    dataset <- [c \in Cells |-> IF partitions[c] = NoRow THEN {} ELSE file[c].batch],
    halted <- {c \in Cells : qualification[c] = "halted"}

\* The writer implements the abstract dataset: a partition is published
\* whole by one commit, is only halted afterwards, and the crashes between
\* rename and commit are invisible.
ImplementsCommittedDataset == Dataset!Spec
=============================================================================
