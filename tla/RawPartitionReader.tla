------------------------- MODULE RawPartitionReader -------------------------
(***************************************************************************)
(* RawPartitionReader.read_partition beside the writers of the same data   *)
(* root.  The reader opens no transaction around its steps: it looks the   *)
(* manifest row up, hashes the file, reads the qualification row and then  *)
(* opens the file a second time to load the table, so the file and the     *)
(* manifest can move between any two of them.                              *)
(***************************************************************************)
EXTENDS RawPartitionWriter

CONSTANTS
    Readers,
    NoTable        \* the reader returned no rows

VARIABLES
    rpc,           \* reader -> where read_partition stands
    reading,       \* reader -> the partition it was asked for
    table,         \* reader -> the rows it loaded
    answer,        \* reader -> the outcome of its last finished call
    refused        \* reader -> was the partition halted when it was asked for

readerVars == <<rpc, reading, table, answer, refused>>
allVars == <<vars, readerVars>>

ReaderInit ==
    /\ Init
    /\ rpc = [r \in Readers |-> "idle"]
    /\ reading = [r \in Readers |-> NoCell]
    /\ table = [r \in Readers |-> NoTable]
    /\ answer = [r \in Readers |-> "none"]
    /\ refused = [r \in Readers |-> FALSE]

Answer(r, a) ==
    /\ rpc' = [rpc EXCEPT ![r] = "idle"]
    /\ answer' = [answer EXCEPT ![r] = a]

GoTo(r, step) ==
    /\ rpc' = [rpc EXCEPT ![r] = step]
    /\ UNCHANGED answer

\* Resolve the partition through the manifest, never through the directory.
Lookup(r, c) ==
    /\ rpc[r] = "idle"
    /\ reading' = [reading EXCEPT ![r] = c]
    /\ table' = [table EXCEPT ![r] = NoTable]
    /\ refused' = [refused EXCEPT ![r] = qualification[c] = "halted"]
    /\ IF partitions[c] = NoRow
         THEN Answer(r, "missing_partition")
         ELSE GoTo(r, "integrity")
    /\ UNCHANGED vars

\* The file exists and its SHA-256 is the one the row holds.
VerifyIntegrity(r) ==
    LET c == reading[r] IN
    /\ rpc[r] = "integrity"
    /\ IF file[c] = partitions[c].file_sha256
         THEN GoTo(r, "qualification")
         ELSE Answer(r, "manifest_mismatch")
    /\ UNCHANGED <<vars, reading, table, refused>>

\* Mutant: a halted partition is read like any other.
CheckQualificationSkipped(r) ==
    /\ rpc[r] = "qualification"
    /\ GoTo(r, "load")
    /\ UNCHANGED <<vars, reading, table, refused>>

\* A halted partition raises UnqualifiedDatasetError.
CheckQualification(r) ==
    /\ rpc[r] = "qualification"
    /\ IF qualification[reading[r]] = "halted"
         THEN Answer(r, "unqualified_dataset")
         ELSE GoTo(r, "load")
    /\ UNCHANGED <<vars, reading, table, refused>>

\* pq.read_table opens the file again.
LoadTable(r) ==
    /\ rpc[r] = "load"
    /\ table' = [table EXCEPT ![r] = file[reading[r]]]
    /\ GoTo(r, "bounds")
    /\ UNCHANGED <<vars, reading, refused>>

\* The loaded rows must have the block bounds of the manifest row.
CheckBoundsAgainstFile(r) ==
    /\ rpc[r] = "bounds"
    /\ IF BoundsOf(table[r].batch) = partitions[reading[r]].bounds
         THEN /\ Answer(r, "rows")
              /\ UNCHANGED table
         ELSE /\ Answer(r, "bounds_mismatch")
              /\ table' = [table EXCEPT ![r] = NoTable]
    /\ UNCHANGED <<vars, reading, refused>>

ReaderStep(r) ==
    \/ \E c \in Cells : Lookup(r, c)
    \/ VerifyIntegrity(r)
    \/ CheckQualification(r)
    \/ LoadTable(r)
    \/ CheckBoundsAgainstFile(r)

WriterMoves == Next /\ UNCHANGED readerVars

ReaderNext == WriterMoves \/ \E r \in Readers : ReaderStep(r)

ReaderSpec == ReaderInit /\ [][ReaderNext]_allVars

-----------------------------------------------------------------------------
(***************************************************************************)
(* Properties.                                                             *)
(***************************************************************************)

\* The rows a caller is given are the rows the manifest committed for the
\* partition, although the digest and the rows come from two reads of the
\* file ("the caller never gets a qualified answer from a corrupted
\* partition").  It needs one writer per partition: the rename of a second
\* one can fall between the two reads.
ReturnsCommittedRows ==
    \A r \in Readers : rpc[r] = "idle" /\ answer[r] = "rows" =>
        table[r] = partitions[reading[r]].file_sha256

\* A call made after a partition was halted never returns its rows.
RefusesHalted ==
    \A r \in Readers :
        rpc[r] = "idle" /\ refused[r] => answer[r] # "rows"
=============================================================================
