---------------------- MODULE RawPartitionReaderProofs ----------------------
(***************************************************************************)
(* Proofs about RawPartitionReader, for any number of readers, cells,      *)
(* EventKeys and contents.                                                 *)
(***************************************************************************)
EXTENDS RawPartitionReader, RawPartitionWriterProofs

OverReaders(f) == f = [r \in Readers |-> f[r]]
ReaderTypes ==
    /\ OverReaders(rpc) /\ OverReaders(reading) /\ OverReaders(table)
    /\ OverReaders(answer) /\ OverReaders(refused)
    /\ \A r \in Readers : rpc[r] \in {"idle", "integrity", "qualification", "load", "bounds"}

\* The call of r, in progress or returned, is about a committed partition.
ReadsCommitted(r) == reading[r] \in Cells /\ partitions[reading[r]] # NoRow
HasCommittedRows(r) == table[r] = partitions[reading[r]].file_sha256

\* A call made on a halted partition has not passed the qualification check.
HaltIsAhead(r) ==
    /\ reading[r] \in Cells /\ qualification[reading[r]] = "halted"
    /\ rpc[r] \in {"integrity", "qualification"}

CallInv ==
    /\ ReaderTypes
    /\ \A r \in Readers :
        /\ rpc[r] # "idle" => ReadsCommitted(r)
        /\ refused[r] => IF rpc[r] = "idle" THEN answer[r] # "rows" ELSE HaltIsAhead(r)

ReturnInv ==
    \A r \in Readers :
        /\ rpc[r] = "bounds" => HasCommittedRows(r)
        /\ rpc[r] = "idle" /\ answer[r] = "rows" => ReadsCommitted(r) /\ HasCommittedRows(r)

LEMMA ReaderInitHolds == ReaderInit => CallInv /\ ReturnInv
BY DEF ReaderInit, CallInv, ReturnInv, ReaderTypes, OverReaders

\* What a writer does leaves every call as it is: rows and halts stay.
LEMMA WritersKeepCalls ==
  ASSUME MultiInv, [Next]_vars, UNCHANGED readerVars, CallInv
  PROVE  CallInv' /\ (ReturnInv => ReturnInv')
<1>1. /\ \A c \in Cells : partitions[c] # NoRow => partitions'[c] = partitions[c]
      /\ \A c \in Cells : qualification[c] = "halted" => qualification'[c] = "halted"
  BY MultiStep
<1>2. UNCHANGED <<rpc, reading, table, answer, refused>>
  BY DEF readerVars
<1>3. ReaderTypes'
  BY <1>2 DEF CallInv, ReaderTypes, OverReaders
<1>4. \A r \in Readers : /\ ReadsCommitted(r) => ReadsCommitted(r)' /\ partitions'[reading[r]] = partitions[reading[r]]
                         /\ HaltIsAhead(r) => HaltIsAhead(r)'
  BY <1>1, <1>2 DEF ReadsCommitted, HaltIsAhead
<1>5. CallInv'
  BY <1>2, <1>3, <1>4 DEF CallInv
<1>6. ReturnInv => ReturnInv'
  BY <1>2, <1>4 DEF CallInv, ReturnInv, HasCommittedRows
<1> QED
  BY <1>5, <1>6

\* A step of one reader is no step of another.
LEMMA OtherCallsKept ==
  ASSUME CallInv, NEW r \in Readers, UNCHANGED vars, ReaderTypes',
         \A q \in Readers \ {r} : /\ rpc'[q] = rpc[q] /\ reading'[q] = reading[q] /\ table'[q] = table[q]
                                  /\ answer'[q] = answer[q] /\ refused'[q] = refused[q],
         rpc'[r] # "idle" => ReadsCommitted(r)',
         refused'[r] => IF rpc'[r] = "idle" THEN answer'[r] # "rows" ELSE HaltIsAhead(r)'
  PROVE  /\ CallInv'
         /\ /\ ReturnInv
            /\ rpc'[r] = "bounds" => HasCommittedRows(r)'
            /\ rpc'[r] = "idle" /\ answer'[r] = "rows" => ReadsCommitted(r)' /\ HasCommittedRows(r)'
            => ReturnInv'
<1>1. UNCHANGED <<partitions, qualification>>
  BY DEF vars, manifest
<1>2. ASSUME NEW q \in Readers \ {r}
      PROVE  /\ ReadsCommitted(q)' = ReadsCommitted(q) /\ HasCommittedRows(q)' = HasCommittedRows(q)
             /\ HaltIsAhead(q)' = HaltIsAhead(q)
  BY <1>1 DEF ReadsCommitted, HasCommittedRows, HaltIsAhead
<1>3. CallInv'
  BY <1>2 DEF CallInv
<1> QED
  BY <1>2, <1>3 DEF ReturnInv

LEMMA ReaderKeepsCalls ==
  ASSUME CallInv, NEW r \in Readers, ReaderStep(r)
  PROVE  CallInv' /\ (FileMatchesManifest /\ ReturnInv => ReturnInv')
<1>0. ReaderTypes
  BY DEF CallInv
<1>1. ASSUME NEW c \in Cells, Lookup(r, c) PROVE CallInv' /\ (ReturnInv => ReturnInv')
  <2>1. /\ ReaderTypes' /\ UNCHANGED vars /\ reading'[r] = c /\ refused'[r] = (qualification[c] = "halted")
        /\ IF partitions[c] = NoRow THEN rpc'[r] = "idle" /\ answer'[r] = "missing_partition"
           ELSE rpc'[r] = "integrity"
        /\ \A q \in Readers \ {r} : /\ rpc'[q] = rpc[q] /\ reading'[q] = reading[q] /\ table'[q] = table[q]
                                    /\ answer'[q] = answer[q] /\ refused'[q] = refused[q]
    BY <1>0, <1>1 DEF Lookup, Answer, GoTo, ReaderTypes, OverReaders
  <2>2. partitions' = partitions /\ qualification' = qualification
    BY <2>1 DEF vars, manifest
  <2> QED
    BY <2>1, <2>2, OtherCallsKept DEF ReadsCommitted, HaltIsAhead
<1>2. ASSUME VerifyIntegrity(r) \/ CheckQualification(r) \/ LoadTable(r) \/ CheckBoundsAgainstFile(r)
      PROVE  CallInv' /\ (FileMatchesManifest /\ ReturnInv => ReturnInv')
  <2>1. /\ ReaderTypes' /\ UNCHANGED vars /\ rpc[r] # "idle"
        /\ \A q \in Readers : reading'[q] = reading[q] /\ refused'[q] = refused[q]
        /\ \A q \in Readers \ {r} : rpc'[q] = rpc[q] /\ table'[q] = table[q] /\ answer'[q] = answer[q]
    BY <1>0, <1>2 DEF VerifyIntegrity, CheckQualification, LoadTable, CheckBoundsAgainstFile,
                      Answer, GoTo, ReaderTypes, OverReaders
  <2>2. /\ ReadsCommitted(r) /\ ReadsCommitted(r)' /\ partitions' = partitions /\ qualification' = qualification
        /\ file' = file
    BY <2>1 DEF vars, manifest, CallInv, ReadsCommitted
  <2>3. refused'[r] => IF rpc'[r] = "idle" THEN answer'[r] # "rows" ELSE HaltIsAhead(r)'
    <3> SUFFICES ASSUME refused[r], HaltIsAhead(r)
                 PROVE  IF rpc'[r] = "idle" THEN answer'[r] # "rows" ELSE HaltIsAhead(r)'
      BY <2>1 DEF CallInv
    <3>1. CASE VerifyIntegrity(r)
      BY <1>0, <2>1, <2>2, <3>1 DEF VerifyIntegrity, HaltIsAhead, Answer, GoTo, ReaderTypes, OverReaders
    <3>2. CASE CheckQualification(r)
      BY <1>0, <2>1, <2>2, <3>2 DEF CheckQualification, HaltIsAhead, Answer, GoTo, ReaderTypes, OverReaders
    <3> QED
      BY <1>2, <3>1, <3>2 DEF LoadTable, CheckBoundsAgainstFile, HaltIsAhead
  <2>4. FileMatchesManifest /\ rpc'[r] = "bounds" => HasCommittedRows(r)'
    <3>1. rpc'[r] = "bounds" => table'[r] = file[reading[r]]
      BY <1>0, <1>2 DEF VerifyIntegrity, CheckQualification, LoadTable, CheckBoundsAgainstFile,
                        Answer, GoTo, ReaderTypes, OverReaders
    <3> QED
      BY <2>1, <2>2, <3>1 DEF FileMatchesManifest, ReadsCommitted, HasCommittedRows
  <2>5. ReturnInv /\ rpc'[r] = "idle" /\ answer'[r] = "rows" => ReadsCommitted(r)' /\ HasCommittedRows(r)'
    <3>1. rpc'[r] = "idle" /\ answer'[r] = "rows" => rpc[r] = "bounds" /\ table'[r] = table[r]
      BY <1>0, <1>2 DEF VerifyIntegrity, CheckQualification, LoadTable, CheckBoundsAgainstFile,
                        Answer, GoTo, ReaderTypes, OverReaders
    <3> QED
      BY <2>1, <2>2, <3>1 DEF ReturnInv, HasCommittedRows
  <2> QED
    BY <2>1, <2>2, <2>3, <2>4, <2>5, OtherCallsKept
<1> QED
  BY <1>1, <1>2 DEF ReaderStep

LEMMA StutterKeepsCalls ==
  ASSUME UNCHANGED allVars, CallInv PROVE CallInv' /\ (ReturnInv => ReturnInv')
<1>1. UNCHANGED <<rpc, reading, table, answer, refused, partitions, qualification>>
  BY DEF allVars, vars, manifest, readerVars
<1> QED
  BY <1>1 DEF CallInv, ReturnInv, ReaderTypes, OverReaders, ReadsCommitted, HasCommittedRows, HaltIsAhead

LEMMA CallStep ==
  ASSUME MultiInv, CallInv, [ReaderNext]_allVars
  PROVE  CallInv' /\ [Next]_vars /\ (FileMatchesManifest /\ ReturnInv => ReturnInv')
<1>1. CASE WriterMoves
  BY <1>1, WritersKeepCalls DEF WriterMoves
<1>2. ASSUME NEW r \in Readers, ReaderStep(r)
      PROVE  CallInv' /\ [Next]_vars /\ (FileMatchesManifest /\ ReturnInv => ReturnInv')
  <2>1. UNCHANGED vars
    BY <1>2 DEF ReaderStep, Lookup, VerifyIntegrity, CheckQualification, LoadTable, CheckBoundsAgainstFile
  <2> QED
    BY <1>2, <2>1, ReaderKeepsCalls
<1>3. CASE UNCHANGED allVars
  BY <1>3, StutterKeepsCalls DEF allVars
<1> QED
  BY <1>1, <1>2, <1>3 DEF ReaderNext

\* A call made after a partition was halted never returns its rows, whatever any
\* number of writers do between its four steps (read_partition checks the
\* qualification before it loads the table).
THEOREM HaltedIsRefused == ReaderSpec => []RefusesHalted
<1>1. ReaderInit => MultiInv /\ CallInv
  BY MultiInit, ReaderInitHolds DEF ReaderInit
<1>2. MultiInv /\ CallInv /\ [ReaderNext]_allVars => (MultiInv /\ CallInv)'
  BY CallStep, MultiStep
<1>3. CallInv => RefusesHalted
  BY DEF CallInv, RefusesHalted
<1> QED
  BY <1>1, <1>2, <1>3, PTL DEF ReaderSpec

\* While no two writers are in one partition, the rows a caller gets are those the
\* manifest committed, although the digest and the rows come from two reads of the
\* file: a writer only renames where there is no row yet.
THEOREM CommittedRowsAreReturned ==
  ReaderSpec /\ []OneWriterPerPartition => []ReturnsCommittedRows
<1> DEFINE Inv == SoleInv /\ CallInv /\ ReturnInv
<1>1. ReaderInit => Inv
  BY SoleInit, ReaderInitHolds DEF ReaderInit
<1>2. OneWriterPerPartition /\ Inv /\ [ReaderNext]_allVars => Inv'
  <2> SUFFICES ASSUME OneWriterPerPartition, Inv, [ReaderNext]_allVars PROVE Inv'
    OBVIOUS
  <2>1. MultiInv /\ FileMatchesManifest
    BY DEF SoleInv
  <2>2. CallInv' /\ ReturnInv' /\ [Next]_vars
    BY <2>1, CallStep
  <2> QED
    BY <2>2, SoleStep
<1>3. Inv => ReturnsCommittedRows
  BY DEF ReturnInv, ReturnsCommittedRows, HasCommittedRows
<1> QED
  BY <1>1, <1>2, <1>3, PTL DEF ReaderSpec

\* So with the sole writer of a data root, whatever else reads there.
THEOREM SoleWriterIsReadBack ==
  ASSUME SoleWriter
  PROVE  ReaderSpec => []ReturnsCommittedRows
<1>1. OneWriterPerPartition
  BY SoleIsOnePerPartition
<1> QED
  BY <1>1, CommittedRowsAreReturned, PTL
=============================================================================
