----------------------- MODULE RawPartitionWriterProofs -----------------------
(***************************************************************************)
(* Theorems about RawPartitionWriter, for any set of writers, EventKeys,   *)
(* contents, acquisitions and grid.                                        *)
(***************************************************************************)
EXTENDS RawPartitionWriter, TLAPS

-----------------------------------------------------------------------------
(***************************************************************************)
(* Type correctness.                                                       *)
(***************************************************************************)

\* The last block of a grid cell is a block number.
LEMMA BlockToType == \A c \in Cells : BlockTo(c) \in Nat
<1> SUFFICES ASSUME NEW k \in Keys PROVE BlockTo(CellOf(k)) \in Nat
  BY DEF Cells
<1>1. BlockOf[k] \in Nat /\ BlocksPerPartition \in Nat \ {0}
  BY GridAssumption
<1>2. BlockOf[k] \div BlocksPerPartition \in Nat
  BY <1>1
<1> DEFINE q == BlockOf[k] \div BlocksPerPartition
<1> HIDE DEF q
<1>3. (q + 1) * BlocksPerPartition \in Nat /\ (q + 1) * BlocksPerPartition >= 1
  BY <1>1, <1>2, SMT DEF q
<1> QED BY <1>1, <1>3 DEF BlockTo, CellOf, q

\* The row a commit inserts is a manifest row.
LEMMA RowType == \A o \in Operations : RowOf(o) \in Rows /\ FileOf(o) \in Files
BY DEF Operations, RowOf, FileOf, Rows, Files

\* The index write of a batch keeps the index and the qualification typed.
LEMMA RecordEventBatchType ==
  ASSUME TypeOK, NEW c \in Cells, NEW B \in BatchesOf(c), NEW F \in SUBSET B,
         NEW q \in {"none", "qualified", "halted"}, RecordEventBatch(c, B, F, q)
  PROVE  /\ event_index' \in SUBSET [key : Keys, content : Contents, kind : Kinds]
         /\ qualification' \in [Cells -> {"none", "qualified", "halted"}]
<1>1. B \subseteq Records
  BY DEF BatchesOf
<1>2. Observations(F, "consistent") \subseteq [key : Keys, content : Contents, kind : Kinds]
  BY <1>1 DEF Observations, Records, Kinds
<1>3. Observations(ConflictsOf(B, F), "conflict")
        \subseteq [key : Keys, content : Contents, kind : Kinds]
  BY <1>1 DEF Observations, Records, Kinds, ConflictsOf
<1> QED BY <1>2, <1>3 DEF TypeOK, RecordEventBatch

\* The batch of a call is a batch of its cell.
OpsWellFormed ==
    \A w \in Writers : pc[w] # "idle" => op[w].batch \in BatchesOf(op[w].cell)

TypeInv == TypeOK /\ OpsWellFormed

LEMMA TypeInit == Init => TypeInv
BY DEF Init, TypeInv, TypeOK, OpsWellFormed, Steps, Outcomes, NoCheckpoint

LEMMA TypeStep == TypeInv /\ [Next]_vars => TypeInv'
<1> SUFFICES ASSUME TypeInv, [Next]_vars PROVE TypeInv'
  OBVIOUS
<1> USE DEF TypeInv
<1>1. ASSUME UNCHANGED vars PROVE TypeInv'
  BY <1>1 DEF vars, manifest, TypeOK, OpsWellFormed
<1>2. ASSUME NEW w \in Writers, Step(w) PROVE TypeInv'
  <2>1. ASSUME NEW c \in Cells, NEW B \in BatchesOf(c), NEW a \in Acquisitions, Begin(w, c, B, a)
        PROVE TypeInv'
    <3>1. [cell |-> c, batch |-> B, acquired |-> a] \in Operations
      BY DEF Operations, Batches
    <3> QED BY <2>1, <3>1 DEF Begin, TypeOK, OpsWellFormed, Steps, manifest
  <2>2. CASE Verify(w)
    BY <2>2 DEF Verify, Raise, TypeOK, OpsWellFormed, Steps, Outcomes, manifest
  <2>3. CASE RefuseRowLoss(w)
    BY <2>3 DEF RefuseRowLoss, Raise, TypeOK, OpsWellFormed, Steps, Outcomes, manifest
  <2>4. CASE Stage(w)
    BY <2>4 DEF Stage, TypeOK, OpsWellFormed, Steps, manifest
  <2>5. CASE Rename(w)
    <3>1. FileOf(op[w]) \in Files
      BY <2>5, RowType DEF Rename, TypeOK
    <3> QED BY <2>5, <3>1 DEF Rename, TypeOK, OpsWellFormed, Steps, manifest
  <2>6. CASE Fail(w) \/ Crash(w)
    BY <2>6 DEF Fail, Crash, Raise, TypeOK, OpsWellFormed, Steps, Outcomes, manifest
  <2>7. CASE Merge(w)
    <3> DEFINE c == op[w].cell
               B == op[w].batch
    <3>1. c \in Cells /\ B \in BatchesOf(c)
      BY <2>7 DEF Merge, TypeOK, OpsWellFormed, Operations
    <3>2. qualification[c] \in {"none", "qualified", "halted"} /\ {} \in SUBSET B
      BY <3>1 DEF TypeOK
    <3>3. RecordEventBatch(c, B, {}, qualification[c])
      BY <2>7 DEF Merge
    <3>4. /\ event_index' \in SUBSET [key : Keys, content : Contents, kind : Kinds]
          /\ qualification' \in [Cells -> {"none", "qualified", "halted"}]
      BY <3>1, <3>2, <3>3, RecordEventBatchType
    <3>5. checkpoint' \in Nat \cup {NoCheckpoint}
      BY <2>7, <3>1, BlockToType DEF Merge, AdvanceCheckpoint, TypeOK
    <3>6. /\ pc' = [pc EXCEPT ![w] = "idle"] /\ UNCHANGED <<op, file, partitions>>
          /\ result' \in [Writers -> Outcomes]
      BY <2>7 DEF Merge, Return, AppendOutcome, TypeOK, Outcomes
    <3> QED BY <3>4, <3>5, <3>6 DEF TypeOK, OpsWellFormed, Steps
  <2>8. CASE Commit(w)
    <3> DEFINE c == op[w].cell
               B == op[w].batch
               q == IF partitions[c] = NoRow THEN "qualified" ELSE qualification[c]
    <3>1. c \in Cells /\ B \in BatchesOf(c) /\ op[w] \in Operations
      BY <2>8 DEF Commit, TypeOK, OpsWellFormed, Operations
    <3>2. q \in {"none", "qualified", "halted"}
      BY <3>1 DEF TypeOK
    <3>3. PICK F \in FirstObservations(B) :
             RecordEventBatch(c, B, F, q) /\ Return(w, AppendOutcome(B, F))
      BY <2>8 DEF Commit
    <3>4. F \in SUBSET B
      BY DEF FirstObservations
    <3>5. /\ event_index' \in SUBSET [key : Keys, content : Contents, kind : Kinds]
          /\ qualification' \in [Cells -> {"none", "qualified", "halted"}]
      <4> HIDE DEF q, c, B
      <4> QED BY <3>1, <3>2, <3>3, <3>4, RecordEventBatchType
    <3>6. checkpoint' \in Nat \cup {NoCheckpoint}
      BY <2>8, <3>1, BlockToType DEF Commit, AdvanceCheckpoint, TypeOK
    <3>7. partitions' \in [Cells -> Rows \cup {NoRow}] /\ UNCHANGED file
      BY <2>8, <3>1, RowType DEF Commit, TypeOK
    <3>8. /\ pc' = [pc EXCEPT ![w] = "idle"] /\ UNCHANGED op
          /\ result' \in [Writers -> Outcomes]
      BY <3>3 DEF Return, AppendOutcome, TypeOK, Outcomes
    <3> QED BY <3>5, <3>6, <3>7, <3>8 DEF TypeOK, OpsWellFormed, Steps
  <2> QED BY <1>2, <2>1, <2>2, <2>3, <2>4, <2>5, <2>6, <2>7, <2>8 DEF Step
<1> QED BY <1>1, <1>2 DEF Next

\* Every variable keeps its type, and a running call holds a batch of its cell.
THEOREM TypeCorrect == Spec => []TypeInv
BY TypeInit, TypeStep, PTL DEF Spec

\* The type invariant of the runs, for any number of writers.
THEOREM TypesAreKept == Spec => []TypeOK
<1>1. TypeInv => TypeOK
  BY DEF TypeInv
<1> QED BY <1>1, TypeCorrect, PTL

-----------------------------------------------------------------------------
(***************************************************************************)
(* Any number of writers: nothing the manifest holds is undone.            *)
(***************************************************************************)

\* The lookup of Begin and the rows of the manifest: a call that found a row
\* still finds it, a partition has a qualification iff it has a row, and the
\* index only names committed partitions.
RowsInv ==
    /\ \A w \in Writers : pc[w] \in {"verify", "merge"} => partitions[op[w].cell] # NoRow
    /\ \A c \in Cells : qualification[c] # "none" <=> partitions[c] # NoRow
    /\ \A o \in event_index : partitions[CellOf(o.key)] # NoRow

MultiInv == TypeInv /\ RowsInv /\ ConflictsHalt /\ AcknowledgedIsDurable

\* What the index write of any batch does, with its first observations.
LEMMA IndexWrite ==
  ASSUME TypeInv, RowsInv, ConflictsHalt,
         NEW c \in Cells, NEW B \in BatchesOf(c), NEW F \in FirstObservations(B),
         partitions'[c] # NoRow,
         \A d \in Cells : partitions[d] # NoRow => partitions'[d] # NoRow,
         \A d \in Cells \ {c} : partitions'[d] = partitions[d],
         RecordEventBatch(c, B, F, IF partitions[c] = NoRow THEN "qualified"
                                                            ELSE qualification[c])
  PROVE  /\ event_index \subseteq event_index'
         /\ \A r \in B : Seen(r)'
         /\ \A d \in Cells : qualification[d] = "halted" => qualification'[d] = "halted"
         /\ \A d \in Cells : qualification'[d] # "none" <=> partitions'[d] # NoRow
         /\ \A o \in event_index' : partitions'[CellOf(o.key)] # NoRow
         /\ ConflictsHalt'
<1> DEFINE C == ConflictsOf(B, F)
           q == IF partitions[c] = NoRow THEN "qualified" ELSE qualification[c]
<1>1. event_index' = event_index \cup Observations(F, "consistent")
                                 \cup Observations(C, "conflict")
  BY DEF RecordEventBatch
<1>2. qualification' = [qualification EXCEPT ![c] = IF C # {} THEN "halted" ELSE q]
  BY DEF RecordEventBatch
<1>3. \A r \in B : r \in Records /\ CellOf(r.key) = c
  BY DEF BatchesOf
<1>4. F \subseteq B /\ C \subseteq B /\ KeysOf(F) = KeysOf(B) \ IndexedKeys
         /\ \A r, s \in F : r.key = s.key => r = s
  BY DEF FirstObservations, ConflictsOf
<1>5. event_index \subseteq event_index'
  BY <1>1
<1>6. \A r \in B : Seen(r)'
  <2> SUFFICES ASSUME NEW r \in B PROVE \E o \in event_index' : o.key = r.key /\ o.content = r.content
    BY DEF Seen
  <2>1. CASE r \in F
    <3>1. [key |-> r.key, content |-> r.content, kind |-> "consistent"] \in event_index'
      BY <1>1, <2>1 DEF Observations
    <3> QED BY <3>1
  <2>2. CASE r \in C
    <3>1. [key |-> r.key, content |-> r.content, kind |-> "conflict"] \in event_index'
      BY <1>1, <2>2 DEF Observations
    <3> QED BY <3>1
  <2>3. CASE r \notin F /\ r \notin C
    BY <1>5, <2>3 DEF ConflictsOf, Seen
  <2> QED BY <2>1, <2>2, <2>3
<1>7. \A o \in event_index : o.key \in Keys /\ CellOf(o.key) \in Cells
  BY DEF TypeInv, TypeOK, Cells
<1>8. \A o \in Observations(F, "consistent") :
          /\ o.kind = "consistent" /\ o.key \in KeysOf(F) /\ CellOf(o.key) = c
          /\ \E r \in F : o.key = r.key /\ o.content = r.content
  BY <1>3, <1>4 DEF Observations, KeysOf
<1>9. \A o \in Observations(C, "conflict") : o.kind = "conflict" /\ CellOf(o.key) = c
  BY <1>3, <1>4 DEF Observations
<1>10. \A d \in Cells : qualification[d] = "halted" => qualification'[d] = "halted"
  <2>1. \A d \in Cells : qualification[d] = "halted" => partitions[d] # NoRow
    BY DEF RowsInv
  <2> QED BY <1>2, <2>1 DEF TypeInv, TypeOK
<1>11. \A d \in Cells : qualification'[d] # "none" <=> partitions'[d] # NoRow
  <2>1. qualification[c] = "none" => partitions[c] = NoRow
    BY DEF RowsInv
  <2> QED BY <1>2, <2>1 DEF TypeInv, TypeOK, RowsInv
<1>12. \A o \in event_index' : partitions'[CellOf(o.key)] # NoRow
  BY <1>1, <1>7, <1>8, <1>9 DEF RowsInv
<1>13. ConflictsHalt'
  <2>1. ASSUME NEW o \in event_index', NEW p \in event_index',
               o.key = p.key, o.kind = "consistent", p.kind = "consistent"
        PROVE  o = p
    <3>1. o \notin Observations(C, "conflict") /\ p \notin Observations(C, "conflict")
      BY <1>9, <2>1
    <3>2. CASE o \in event_index /\ p \in event_index
      BY <3>2, <2>1 DEF ConflictsHalt
    <3>3. ASSUME NEW u \in event_index, NEW v \in Observations(F, "consistent")
          PROVE  u.key # v.key
      BY <1>4, <1>8, <3>3 DEF IndexedKeys
    <3>4. CASE o \in Observations(F, "consistent") /\ p \in Observations(F, "consistent")
      <4>1. PICK r \in F : o = [key |-> r.key, content |-> r.content, kind |-> "consistent"]
        BY <3>4 DEF Observations
      <4>2. PICK s \in F : p = [key |-> s.key, content |-> s.content, kind |-> "consistent"]
        BY <3>4 DEF Observations
      <4> QED BY <4>1, <4>2, <2>1, <1>4
    <3> QED BY <1>1, <2>1, <3>1, <3>2, <3>3, <3>4
  <2>2. ASSUME NEW d \in Cells
        PROVE  qualification'[d] = "halted" <=>
                 \E o \in event_index' : CellOf(o.key) = d /\ o.kind = "conflict"
    <3>1. qualification[d] = "halted" <=>
             \E o \in event_index : CellOf(o.key) = d /\ o.kind = "conflict"
      BY DEF ConflictsHalt
    <3>2. CASE d # c
      <4>1. qualification'[d] = qualification[d]
        BY <1>2, <3>2 DEF TypeInv, TypeOK
      <4> QED BY <1>1, <1>8, <1>9, <3>1, <3>2, <4>1
    <3>3. CASE d = c /\ C # {}
      <4>1. PICK r \in C : TRUE
        BY <3>3
      <4>2. [key |-> r.key, content |-> r.content, kind |-> "conflict"] \in event_index'
        BY <1>1, <4>1 DEF Observations
      <4>3. CellOf(r.key) = c
        BY <1>3, <1>4
      <4>4. \E o \in event_index' : CellOf(o.key) = d /\ o.kind = "conflict"
        BY <3>3, <4>2, <4>3
      <4>5. qualification'[d] = "halted"
        BY <1>2, <3>3 DEF TypeInv, TypeOK
      <4> QED BY <4>4, <4>5
    <3>4. CASE d = c /\ C = {}
      <4>1. qualification'[d] = q
        BY <1>2, <3>4 DEF TypeInv, TypeOK
      <4>2. q = "halted" <=> qualification[c] = "halted"
        BY DEF RowsInv
      <4>3. Observations(C, "conflict") = {}
        BY <3>4 DEF Observations
      <4>4. \A o \in event_index' : o.kind = "conflict" => o \in event_index
        BY <1>1, <1>8, <4>3
      <4> HIDE DEF q, C
      <4> QED BY <1>5, <3>1, <3>4, <4>1, <4>2, <4>4
    <3> QED BY <3>2, <3>3, <3>4
  <2> QED BY <2>1, <2>2 DEF ConflictsHalt
<1> QED BY <1>5, <1>6, <1>10, <1>11, <1>12, <1>13

\* Both transactions are index writes: a merge has no first observation.
LEMMA TransactionIsIndexWrite ==
  ASSUME TypeInv, RowsInv, ConflictsHalt, NEW w \in Writers, Merge(w) \/ Commit(w)
  PROVE  LET c == op[w].cell
             B == op[w].batch
         IN  /\ c \in Cells /\ B \in BatchesOf(c)
             /\ partitions'[c] # NoRow
             /\ \A d \in Cells : partitions[d] # NoRow => partitions'[d] = partitions[d]
             /\ \A d \in Cells \ {c} : partitions'[d] = partitions[d]
             /\ \E F \in FirstObservations(B) :
                  /\ RecordEventBatch(c, B, F, IF partitions[c] = NoRow THEN "qualified"
                                                                    ELSE qualification[c])
                  /\ Return(w, AppendOutcome(B, F))
             /\ AdvanceCheckpoint(c)
             /\ UNCHANGED file
<1> DEFINE c == op[w].cell
           B == op[w].batch
<1>1. c \in Cells /\ B \in BatchesOf(c) /\ op[w] \in Operations
  BY DEF Merge, Commit, TypeInv, TypeOK, OpsWellFormed, Operations
<1>2. CASE Merge(w)
  <2>1. partitions[c] # NoRow
    BY <1>2 DEF Merge, RowsInv
  <2>2. {} \in FirstObservations(B)
    BY <1>2 DEF Merge, FirstObservations, KeysOf
  <2>3. /\ RecordEventBatch(c, B, {}, qualification[c])
        /\ Return(w, AppendOutcome(B, {}))
        /\ AdvanceCheckpoint(c) /\ UNCHANGED <<file, partitions>>
    BY <1>2 DEF Merge
  <2> HIDE DEF c, B
  <2>4. \E F \in FirstObservations(B) :
            /\ RecordEventBatch(c, B, F, IF partitions[c] = NoRow THEN "qualified"
                                                              ELSE qualification[c])
            /\ Return(w, AppendOutcome(B, F))
    BY <2>1, <2>2, <2>3
  <2> QED BY <1>1, <2>1, <2>3, <2>4 DEF c, B
<1>3. CASE Commit(w)
  <2>1. RowOf(op[w]) # NoRow
    BY <1>1, RowType, SentinelAssumption
  <2>2. partitions' = [partitions EXCEPT ![c] = IF partitions[c] = NoRow
                                                  THEN RowOf(op[w]) ELSE @]
    BY <1>3 DEF Commit
  <2>3. /\ partitions'[c] # NoRow
        /\ \A d \in Cells : partitions[d] # NoRow => partitions'[d] = partitions[d]
        /\ \A d \in Cells \ {c} : partitions'[d] = partitions[d]
    BY <1>1, <2>1, <2>2 DEF TypeInv, TypeOK
  <2> QED BY <1>1, <1>3, <2>3 DEF Commit
<1> QED BY <1>2, <1>3

\* A file or bookkeeping step leaves the manifest alone, and no such step
\* returns an AppendResult.
LEMMA StepCases ==
  ASSUME TypeInv, NEW w \in Writers, Step(w), ~Merge(w), ~Commit(w)
  PROVE  /\ UNCHANGED manifest
         /\ \A v \in Writers \ {w} : pc'[v] = pc[v] /\ op'[v] = op[v] /\ result'[v] = result[v]
         /\ pc'[w] \in {"verify", "merge"} => partitions[op'[w].cell] # NoRow
                                              \/ (pc[w] = "verify" /\ op'[w] = op[w])
         /\ pc'[w] = "idle" => result'[w] \notin {"qualified", "conflicting"}
<1>1. ASSUME NEW c \in Cells, NEW B \in BatchesOf(c), NEW a \in Acquisitions, Begin(w, c, B, a)
      PROVE  /\ UNCHANGED manifest
             /\ \A v \in Writers \ {w} : pc'[v] = pc[v] /\ op'[v] = op[v] /\ result'[v] = result[v]
             /\ pc'[w] \in {"verify", "merge"} => partitions[op'[w].cell] # NoRow
             /\ pc'[w] # "idle"
  BY <1>1 DEF Begin, manifest, TypeInv, TypeOK
<1>2. CASE Verify(w)
  BY <1>2 DEF Verify, Raise, manifest, TypeInv, TypeOK
<1>3. CASE RefuseRowLoss(w) \/ Fail(w) \/ Crash(w)
  BY <1>3 DEF RefuseRowLoss, Fail, Crash, Raise, manifest, TypeInv, TypeOK
<1>4. CASE Stage(w) \/ Rename(w)
  BY <1>4 DEF Stage, Rename, manifest, TypeInv, TypeOK
<1> QED BY <1>1, <1>2, <1>3, <1>4 DEF Step

LEMMA MultiInit == Init => MultiInv
BY TypeInit DEF Init, MultiInv, RowsInv, ConflictsHalt, AcknowledgedIsDurable

\* The checkpoint after a transaction.
LEMMA CheckpointMonotone ==
  ASSUME TypeInv, NEW c \in Cells, AdvanceCheckpoint(c)
  PROVE  /\ checkpoint' >= checkpoint /\ checkpoint' >= BlockTo(c)
         /\ checkpoint \in Int /\ checkpoint' \in Int
BY BlockToType DEF AdvanceCheckpoint, TypeInv, TypeOK, NoCheckpoint

LEMMA MultiStep ==
  MultiInv /\ [Next]_vars =>
    /\ MultiInv'
    /\ \A c \in Cells : partitions[c] # NoRow => partitions'[c] = partitions[c]
    /\ \A c \in Cells : qualification[c] = "halted" => qualification'[c] = "halted"
    /\ event_index \subseteq event_index'
    /\ checkpoint' >= checkpoint
<1> SUFFICES ASSUME MultiInv, [Next]_vars
             PROVE  /\ MultiInv'
                    /\ \A c \in Cells : partitions[c] # NoRow => partitions'[c] = partitions[c]
                    /\ \A c \in Cells : qualification[c] = "halted" => qualification'[c] = "halted"
                    /\ event_index \subseteq event_index'
                    /\ checkpoint' >= checkpoint
  OBVIOUS
<1>1. TypeInv /\ TypeInv' /\ RowsInv /\ ConflictsHalt /\ AcknowledgedIsDurable
  BY TypeStep DEF MultiInv
<1>2. \A d \in Cells : BlockTo(d) \in Int
  BY BlockToType
<1>3. checkpoint \in Int
  BY <1>1 DEF TypeInv, TypeOK, NoCheckpoint
<1>4. CASE UNCHANGED vars
  BY <1>1, <1>3, <1>4 DEF vars, manifest, MultiInv, RowsInv, ConflictsHalt,
        AcknowledgedIsDurable, Seen
<1>5. ASSUME NEW w \in Writers, Step(w), ~Merge(w), ~Commit(w)
      PROVE  /\ MultiInv' /\ UNCHANGED manifest /\ checkpoint' >= checkpoint
  <2>1. /\ UNCHANGED manifest
        /\ \A v \in Writers \ {w} : pc'[v] = pc[v] /\ op'[v] = op[v] /\ result'[v] = result[v]
        /\ pc'[w] \in {"verify", "merge"} => partitions[op'[w].cell] # NoRow
                                             \/ (pc[w] = "verify" /\ op'[w] = op[w])
        /\ pc'[w] = "idle" => result'[w] \notin {"qualified", "conflicting"}
    BY <1>1, <1>5, StepCases
  <2>2. RowsInv'
    BY <1>1, <2>1 DEF RowsInv, manifest
  <2>3. ConflictsHalt'
    BY <1>1, <2>1 DEF ConflictsHalt, manifest
  <2>4. AcknowledgedIsDurable'
    BY <1>1, <2>1 DEF AcknowledgedIsDurable, manifest, Seen
  <2> QED BY <1>1, <1>3, <2>1, <2>2, <2>3, <2>4 DEF MultiInv, manifest
<1>6. ASSUME NEW w \in Writers, Merge(w) \/ Commit(w)
      PROVE  /\ MultiInv'
             /\ \A d \in Cells : partitions[d] # NoRow => partitions'[d] = partitions[d]
             /\ \A d \in Cells : qualification[d] = "halted" => qualification'[d] = "halted"
             /\ event_index \subseteq event_index'
             /\ checkpoint' >= checkpoint
  <2> DEFINE c == op[w].cell
             B == op[w].batch
             q == IF partitions[c] = NoRow THEN "qualified" ELSE qualification[c]
  <2>1. /\ c \in Cells /\ B \in BatchesOf(c)
        /\ partitions'[c] # NoRow
        /\ \A d \in Cells : partitions[d] # NoRow => partitions'[d] = partitions[d]
        /\ \A d \in Cells \ {c} : partitions'[d] = partitions[d]
        /\ AdvanceCheckpoint(c)
    BY <1>1, <1>6, TransactionIsIndexWrite
  <2>2. PICK F \in FirstObservations(B) :
           RecordEventBatch(c, B, F, q) /\ Return(w, AppendOutcome(B, F))
    BY <1>1, <1>6, TransactionIsIndexWrite
  <2>3. \A d \in Cells : partitions[d] # NoRow => partitions'[d] # NoRow
    BY <2>1
  <2>4. /\ event_index \subseteq event_index'
        /\ \A r \in B : Seen(r)'
        /\ \A d \in Cells : qualification[d] = "halted" => qualification'[d] = "halted"
        /\ \A d \in Cells : qualification'[d] # "none" <=> partitions'[d] # NoRow
        /\ \A o \in event_index' : partitions'[CellOf(o.key)] # NoRow
        /\ ConflictsHalt'
    <3> HIDE DEF c, B
    <3> QED BY <1>1, <2>1, <2>2, <2>3, IndexWrite
  <2>5. checkpoint' >= checkpoint /\ checkpoint' >= BlockTo(c) /\ checkpoint' \in Int
    BY <1>1, <2>1, CheckpointMonotone
  <2>6. pc' = [pc EXCEPT ![w] = "idle"] /\ op' = op
        /\ result' = [result EXCEPT ![w] = AppendOutcome(B, F)]
    BY <2>2 DEF Return
  <2>7. RowsInv'
    <3>1. \A v \in Writers : pc'[v] \in {"verify", "merge"} =>
             pc[v] \in {"verify", "merge"} /\ op'[v] = op[v] /\ op[v].cell \in Cells
      BY <1>1, <2>6 DEF TypeInv, TypeOK, Operations
    <3> QED BY <1>1, <2>3, <2>4, <3>1 DEF RowsInv
  <2>8. AcknowledgedIsDurable'
    <3> SUFFICES ASSUME NEW v \in Writers, pc'[v] = "idle",
                        result'[v] \in {"qualified", "conflicting"}
                 PROVE  (\A r \in op[v].batch : Seen(r)') /\ checkpoint' >= BlockTo(op[v].cell)
      BY <2>6 DEF AcknowledgedIsDurable
    <3>1. CASE v = w
      BY <2>4, <2>5, <3>1
    <3>2. CASE v # w
      <4>1. pc[v] = "idle" /\ result[v] \in {"qualified", "conflicting"}
        BY <1>1, <2>6, <3>2 DEF TypeInv, TypeOK
      <4>2. (\A r \in op[v].batch : Seen(r)) /\ checkpoint >= BlockTo(op[v].cell)
        BY <1>1, <4>1 DEF AcknowledgedIsDurable
      <4>3. BlockTo(op[v].cell) \in Int
        <5>1. op[v].cell \in Cells \cup {NoCell}
          BY <1>1 DEF TypeInv, TypeOK, Operations, NoOperation
        <5>2. BlockTo(NoCell) \in Int
          BY GridAssumption DEF BlockTo, NoCell
        <5> QED BY <1>2, <5>1, <5>2
      <4>4. \A r \in op[v].batch : Seen(r)'
        BY <2>4, <4>2 DEF Seen
      <4> QED BY <1>3, <2>5, <4>2, <4>3, <4>4
    <3> QED BY <3>1, <3>2
  <2> QED BY <1>1, <2>1, <2>4, <2>5, <2>7, <2>8 DEF MultiInv
<1>7. ASSUME Next PROVE \E w \in Writers : Step(w)
  BY <1>7 DEF Next
<1> QED BY <1>3, <1>4, <1>5, <1>6, <1>7 DEF manifest

\* Whatever any number of writers do, and wherever they fail or crash, one
\* EventKey has one consistent observation and a partition is halted exactly
\* when the index contradicts it.
THEOREM ConflictsAlwaysHalt == Spec => []ConflictsHalt
<1>1. MultiInv => ConflictsHalt
  BY DEF MultiInv
<1> QED BY MultiInit, MultiStep, <1>1, PTL DEF Spec

\* Every record of every append_partition that returned stays indexed and
\* under the checkpoint, whatever the other writers do afterwards.
THEOREM AcknowledgedStaysDurable == Spec => []AcknowledgedIsDurable
<1>1. MultiInv => AcknowledgedIsDurable
  BY DEF MultiInv
<1> QED BY MultiInit, MultiStep, <1>1, PTL DEF Spec

\* No step of any writer undoes a row, a halt, an observation or a checkpoint.
THEOREM ManifestOnlyGrows == Spec => NeverUndone
<1> DEFINE Grows ==
       /\ \A c \in Cells : partitions[c] # NoRow => partitions'[c] = partitions[c]
       /\ \A c \in Cells : qualification[c] = "halted" => qualification'[c] = "halted"
       /\ event_index \subseteq event_index'
       /\ checkpoint' >= checkpoint
<1>1. MultiInv /\ [Next]_vars => MultiInv' /\ [Grows]_vars
  BY MultiStep
<1>2. Spec => [][Grows]_vars
  BY <1>1, MultiInit, PTL DEF Spec
<1> QED BY <1>2 DEF NeverUndone

-----------------------------------------------------------------------------
(***************************************************************************)
(* One writer per partition: the file is the one the row describes, and    *)
(* the index is the file.  A sole writer is one per partition.             *)
(***************************************************************************)

LEMMA SoleIsOnePerPartition == SoleWriter => OneWriterPerPartition
BY DEF SoleWriter, OneWriterPerPartition

\* What a writer knows between its steps when no other call is about its
\* partition: the partition it found absent is still absent, and after the
\* rename the final file is its own.
Fresh(w) ==
    pc[w] \in {"stage", "rename", "commit"} =>
        /\ partitions[op[w].cell] = NoRow
        /\ pc[w] = "commit" => file[op[w].cell] = FileOf(op[w])

FreshInv == \A w \in Writers : Fresh(w)

SoleInv == MultiInv /\ FreshInv /\ FileMatchesManifest /\ IndexMatchesFile

\* The index rows of a set of records name its EventKeys.
LEMMA ObservationKeys == \A R, k : {o.key : o \in Observations(R, k)} = KeysOf(R)
<1> SUFFICES ASSUME NEW R, NEW k, NEW x
             PROVE  x \in {o.key : o \in Observations(R, k)} <=> x \in KeysOf(R)
  OBVIOUS
<1>1. ASSUME x \in KeysOf(R) PROVE x \in {o.key : o \in Observations(R, k)}
  <2>1. PICK r \in R : x = r.key
    BY <1>1 DEF KeysOf
  <2> DEFINE o == [key |-> r.key, content |-> r.content, kind |-> k]
  <2>2. o \in Observations(R, k)
    BY DEF Observations
  <2>3. o.key = x
    BY <2>1
  <2> HIDE DEF o
  <2> QED BY <2>2, <2>3
<1>2. ASSUME x \in {o.key : o \in Observations(R, k)} PROVE x \in KeysOf(R)
  <2>1. PICK o \in Observations(R, k) : x = o.key
    BY <1>2
  <2>2. PICK r \in R : o = [key |-> r.key, content |-> r.content, kind |-> k]
    BY DEF Observations
  <2> QED BY <2>1, <2>2 DEF KeysOf
<1> QED BY <1>1, <1>2

LEMMA SoleInit == Init => SoleInv
BY MultiInit DEF Init, SoleInv, FreshInv, Fresh, FileMatchesManifest, IndexMatchesFile

\* A step of one writer leaves what the others know of their partitions true.
LEMMA OthersStayFresh ==
  ASSUME TypeInv, OneWriterPerPartition, NEW w \in Writers, Step(w),
         NEW v \in Writers, v # w, Fresh(v)
  PROVE  Fresh(v)'
<1>1. pc'[v] = pc[v] /\ op'[v] = op[v]
  BY DEF Step, Begin, Verify, RefuseRowLoss, Merge, Stage, Rename, Commit, Fail, Crash,
         Return, Raise, TypeInv, TypeOK
<1> SUFFICES ASSUME pc[v] \in {"stage", "rename", "commit"}
             PROVE  /\ partitions'[op[v].cell] = partitions[op[v].cell]
                    /\ file'[op[v].cell] = file[op[v].cell]
  BY <1>1 DEF Fresh
<1>2. CASE UNCHANGED <<file, partitions>>
  BY <1>2
<1>3. CASE ~UNCHANGED <<file, partitions>>
  <2>1. Rename(w) \/ Commit(w)
    BY <1>3 DEF Step, Begin, Verify, RefuseRowLoss, Merge, Stage, Fail, Crash, manifest
  <2>2. op[v].cell # op[w].cell
    BY <2>1 DEF OneWriterPerPartition, Rename, Commit
  <2>3. op[v].cell \in Cells
    BY DEF TypeInv, TypeOK, Operations
  <2>4. \A d \in Cells : d # op[w].cell => file'[d] = file[d] /\ partitions'[d] = partitions[d]
    BY <2>1 DEF Rename, Commit, manifest, TypeInv, TypeOK
  <2> QED
    BY <2>2, <2>3, <2>4
<1> QED
  BY <1>2, <1>3

LEMMA SoleStep == OneWriterPerPartition /\ SoleInv /\ [Next]_vars => SoleInv'
<1> SUFFICES ASSUME OneWriterPerPartition, SoleInv, [Next]_vars PROVE SoleInv'
  OBVIOUS
<1>1. /\ MultiInv /\ MultiInv' /\ TypeInv /\ RowsInv /\ RowsInv' /\ ConflictsHalt
      /\ FreshInv /\ FileMatchesManifest /\ IndexMatchesFile
  BY MultiStep DEF SoleInv, MultiInv
<1>2. CASE UNCHANGED vars
  BY <1>1, <1>2 DEF vars, manifest, SoleInv, FreshInv, Fresh, FileMatchesManifest,
        IndexMatchesFile, IndexedKeys
<1>3. ASSUME NEW w \in Writers, Step(w) PROVE SoleInv'
  <2> DEFINE c == op[w].cell
             B == op[w].batch
  <2>0. Fresh(w) /\ \A v \in Writers : v # w => Fresh(v)'
    BY <1>1, <1>3, OthersStayFresh DEF FreshInv
  <2>1. ASSUME UNCHANGED <<file, manifest>>, Fresh(w)' PROVE SoleInv'
    BY <1>1, <2>0, <2>1 DEF manifest, SoleInv, FreshInv, FileMatchesManifest, IndexMatchesFile, IndexedKeys
  <2>2. ASSUME NEW d \in Cells, NEW D \in BatchesOf(d), NEW a \in Acquisitions, Begin(w, d, D, a)
        PROVE  SoleInv'
    <3>1. Fresh(w)'
      BY <1>1, <2>0, <2>2 DEF Begin, Fresh, manifest, TypeInv, TypeOK
    <3> QED BY <2>1, <2>2, <3>1 DEF Begin
  <2>3. CASE Verify(w)
    <3>1. Fresh(w)'
      BY <1>1, <2>0, <2>3 DEF Verify, Raise, Fresh, manifest, TypeInv, TypeOK
    <3> QED BY <2>1, <2>3, <3>1 DEF Verify
  <2>4. CASE RefuseRowLoss(w) \/ Fail(w) \/ Crash(w)
    <3>1. Fresh(w)'
      BY <1>1, <2>0, <2>4 DEF RefuseRowLoss, Fail, Crash, Raise, Fresh, TypeInv, TypeOK
    <3> QED BY <2>1, <2>4, <3>1 DEF RefuseRowLoss, Fail, Crash
  <2>5. CASE Stage(w)
    <3>1. Fresh(w)'
      BY <1>1, <2>0, <2>5 DEF Stage, Fresh, manifest, TypeInv, TypeOK
    <3> QED BY <2>1, <2>5, <3>1 DEF Stage
  <2>6. CASE Rename(w)
    <3>1. c \in Cells /\ partitions[c] = NoRow
      BY <1>1, <2>6 DEF Rename, FreshInv, Fresh, TypeInv, TypeOK, Operations
    <3>2. UNCHANGED manifest /\ \A d \in Cells \ {c} : file'[d] = file[d]
      BY <2>6 DEF Rename, TypeInv, TypeOK
    <3>3. file'[c] = FileOf(op[w]) /\ op' = op /\ pc' = [pc EXCEPT ![w] = "commit"]
      BY <1>1, <2>6, <3>1 DEF Rename, TypeInv, TypeOK
    <3>4. Fresh(w)'
      BY <1>1, <2>0, <3>1, <3>2, <3>3 DEF Fresh, FileOf, manifest, TypeInv, TypeOK
    <3>5. \A d \in Cells : partitions'[d] # NoRow => d # c /\ file'[d] = file[d]
      BY <3>1, <3>2 DEF manifest
    <3>6. FileMatchesManifest'
      BY <1>1, <3>2, <3>5 DEF FileMatchesManifest, manifest
    <3>7. IndexMatchesFile'
      BY <1>1, <3>2, <3>5 DEF IndexMatchesFile, IndexedKeys, manifest
    <3> QED BY <1>1, <2>0, <3>4, <3>6, <3>7 DEF SoleInv, FreshInv
  <2>7. CASE Merge(w)
    <3>1. c \in Cells /\ B \in BatchesOf(c) /\ UNCHANGED <<file, partitions>>
      BY <1>1, <2>7 DEF Merge, TypeInv, TypeOK, OpsWellFormed, Operations
    <3>2. Fresh(w)'
      BY <1>1, <2>0, <2>7, <3>1 DEF Merge, Return, Fresh, TypeInv, TypeOK
    <3>3. KeysOf(B) \subseteq IndexedKeys
      BY <2>7 DEF Merge
    <3>4. event_index' = event_index \cup Observations({}, "consistent")
                            \cup Observations(ConflictsOf(B, {}), "conflict")
      BY <2>7 DEF Merge, RecordEventBatch
    <3>5. Observations({}, "consistent") = {}
      BY DEF Observations
    <3>6. \A o \in Observations(ConflictsOf(B, {}), "conflict") :
              o.kind = "conflict" /\ o.key \in KeysOf(B)
      BY DEF Observations, ConflictsOf, KeysOf
    <3>7. IndexedKeys' = IndexedKeys
      BY <3>3, <3>4, <3>5, <3>6 DEF IndexedKeys
    <3>8. \A o \in event_index' : o.kind = "consistent" => o \in event_index
      BY <3>4, <3>5, <3>6
    <3>9. FileMatchesManifest'
      BY <1>1, <3>1 DEF FileMatchesManifest
    <3>10. IndexMatchesFile'
      BY <1>1, <3>1, <3>7, <3>8 DEF IndexMatchesFile
    <3> QED BY <1>1, <2>0, <3>2, <3>9, <3>10 DEF SoleInv, FreshInv
  <2>8. CASE Commit(w)
    <3>1. c \in Cells /\ B \in BatchesOf(c) /\ op[w] \in Operations /\ file' = file
      BY <1>1, <2>8 DEF Commit, TypeInv, TypeOK, OpsWellFormed, Operations
    <3>2. partitions[c] = NoRow /\ file[c] = FileOf(op[w])
      BY <1>1, <2>8 DEF Commit, FreshInv, Fresh
    <3>3. partitions' = [partitions EXCEPT ![c] = RowOf(op[w])]
      BY <2>8, <3>2 DEF Commit
    <3>4. PICK F \in FirstObservations(B) :
             /\ RecordEventBatch(c, B, F, "qualified")
             /\ Return(w, AppendOutcome(B, F))
      BY <2>8, <3>2 DEF Commit
    <3>5. Fresh(w)'
      BY <1>1, <2>0, <3>4 DEF Return, Fresh, TypeInv, TypeOK
    <3>6. FileMatchesManifest'
      <4> SUFFICES ASSUME NEW d \in Cells, partitions'[d] # NoRow
                   PROVE  /\ file'[d] = partitions'[d].file_sha256
                          /\ partitions'[d].bounds = BoundsOf(file'[d].batch)
        BY DEF FileMatchesManifest
      <4>1. CASE d = c
        <5>1. partitions'[d] = RowOf(op[w])
          BY <1>1, <3>1, <3>3, <4>1 DEF TypeInv, TypeOK
        <5>2. file'[d] = FileOf(op[w])
          BY <3>1, <3>2, <4>1
        <5>3. FileOf(op[w]).batch = op[w].batch
          BY DEF FileOf
        <5> QED BY <5>1, <5>2, <5>3 DEF RowOf
      <4>2. CASE d # c
        BY <1>1, <3>1, <3>3, <4>2 DEF FileMatchesManifest, TypeInv, TypeOK
      <4> QED BY <4>1, <4>2
    <3>7. \A k \in IndexedKeys : k \in Keys /\ CellOf(k) # c
      BY <1>1, <3>2 DEF IndexedKeys, RowsInv, TypeInv, TypeOK
    <3>8. \A r \in B : CellOf(r.key) = c /\ r \in Records /\ r.key \notin IndexedKeys
      BY <3>1, <3>7 DEF BatchesOf
    <3>9. F \subseteq B /\ KeysOf(F) = KeysOf(B)
      BY <3>8 DEF FirstObservations, KeysOf
    <3>10. event_index' = event_index \cup Observations(F, "consistent")
                             \cup Observations(ConflictsOf(B, F), "conflict")
      BY <3>4 DEF RecordEventBatch
    <3>11. IndexedKeys' = IndexedKeys \cup KeysOf(B)
      <4>1. \A R, k : {o.key : o \in Observations(R, k)} = KeysOf(R)
        BY ObservationKeys
      <4>2. KeysOf(ConflictsOf(B, F)) \subseteq KeysOf(B)
        BY DEF ConflictsOf, KeysOf
      <4>3. IndexedKeys' = IndexedKeys \cup {o.key : o \in Observations(F, "consistent")}
                  \cup {o.key : o \in Observations(ConflictsOf(B, F), "conflict")}
        BY <3>10 DEF IndexedKeys
      <4> QED BY <3>9, <4>1, <4>2, <4>3
    <3>12. \A o \in event_index' : o \in event_index \/
              /\ CellOf(o.key) = c
              /\ o.kind = "consistent" => [key |-> o.key, content |-> o.content] \in B
      <4>1. \A o \in Observations(F, "consistent") :
               CellOf(o.key) = c /\ [key |-> o.key, content |-> o.content] \in B
        BY <3>8, <3>9 DEF Observations, Records
      <4>2. \A o \in Observations(ConflictsOf(B, F), "conflict") :
               CellOf(o.key) = c /\ o.kind = "conflict"
        BY <3>8 DEF Observations, ConflictsOf
      <4> QED BY <3>10, <4>1, <4>2
    <3>13. event_index \subseteq event_index'
      BY <3>10
    <3>14. IndexMatchesFile'
      <4> SUFFICES ASSUME NEW d \in Cells, partitions'[d] # NoRow
                   PROVE  /\ KeysOf(file'[d].batch) = {k \in IndexedKeys' : CellOf(k) = d}
                          /\ \A o \in event_index' : CellOf(o.key) = d /\ o.kind = "consistent" =>
                                [key |-> o.key, content |-> o.content] \in file'[d].batch
        BY DEF IndexMatchesFile
      <4>1. CASE d = c
        <5>1. file'[d].batch = B
          BY <3>1, <3>2, <4>1 DEF FileOf
        <5>2. KeysOf(B) = {k \in IndexedKeys' : CellOf(k) = c}
          BY <3>7, <3>8, <3>11 DEF KeysOf
        <5>3. \A o \in event_index : CellOf(o.key) # c
          BY <3>7 DEF IndexedKeys
        <5> QED BY <3>12, <4>1, <5>1, <5>2, <5>3
      <4>2. CASE d # c
        <5>1. partitions[d] # NoRow /\ file'[d] = file[d]
          BY <1>1, <3>1, <3>3, <4>2 DEF TypeInv, TypeOK
        <5>2. {k \in IndexedKeys' : CellOf(k) = d} = {k \in IndexedKeys : CellOf(k) = d}
          BY <3>8, <3>11, <4>2 DEF KeysOf
        <5> QED BY <1>1, <3>12, <4>2, <5>1, <5>2 DEF IndexMatchesFile
      <4> QED BY <4>1, <4>2
    <3> QED BY <1>1, <2>0, <3>5, <3>6, <3>14 DEF SoleInv, FreshInv
  <2> QED BY <1>3, <2>2, <2>3, <2>4, <2>5, <2>6, <2>7, <2>8 DEF Step
<1> QED BY <1>2, <1>3 DEF Next

\* Any number of writers, as long as no two are in one partition at a time, and
\* wherever one fails or crashes: a manifest row never points at other bytes than
\* those it was committed with.
THEOREM FileAlwaysMatchesManifest ==
  Spec /\ []OneWriterPerPartition => []FileMatchesManifest
<1>1. OneWriterPerPartition /\ SoleInv /\ [Next]_vars => SoleInv'
  BY SoleStep
<1>2. SoleInv => FileMatchesManifest
  BY DEF SoleInv
<1> QED BY SoleInit, <1>1, <1>2, PTL DEF Spec

\* With one writer per partition every committed partition reconciles: its index
\* rows and its file name the same events.
THEOREM CommittedPartitionsReconcile ==
  Spec /\ []OneWriterPerPartition => []IndexMatchesFile
<1>1. OneWriterPerPartition /\ SoleInv /\ [Next]_vars => SoleInv'
  BY SoleStep
<1>2. SoleInv => IndexMatchesFile
  BY DEF SoleInv
<1> QED BY SoleInit, <1>1, <1>2, PTL DEF Spec

-----------------------------------------------------------------------------
(***************************************************************************)
(* Refinement: with one writer per partition the commit protocol           *)
(* implements the abstract dataset.                                        *)
(***************************************************************************)

DatasetNow == [c \in Cells |-> IF partitions[c] = NoRow THEN {} ELSE file[c].batch]
HaltedNow  == {c \in Cells : qualification[c] = "halted"}

LEMMA RefinementInit == Init => Dataset!Init
BY DEF Init, Dataset!Init

LEMMA RefinementStep ==
  ASSUME SoleInv, SoleInv', [Next]_vars
  PROVE  [Dataset!Next]_(Dataset!vars)
<1>1. /\ TypeInv /\ TypeInv' /\ RowsInv /\ FreshInv /\ FileMatchesManifest
  BY TypeStep DEF SoleInv, MultiInv
<1>2. ASSUME DatasetNow' = DatasetNow, HaltedNow' = HaltedNow
      PROVE  UNCHANGED Dataset!vars
  BY <1>2 DEF Dataset!vars, DatasetNow, HaltedNow
<1>3. ASSUME UNCHANGED <<file, partitions, qualification>>
      PROVE  UNCHANGED Dataset!vars
  BY <1>2, <1>3 DEF DatasetNow, HaltedNow
<1>4. CASE UNCHANGED vars
  BY <1>3, <1>4 DEF vars, manifest
<1>5. ASSUME NEW w \in Writers, Step(w) PROVE [Dataset!Next]_(Dataset!vars)
  <2> DEFINE c == op[w].cell
             B == op[w].batch
  <2>1. CASE ~Rename(w) /\ ~Merge(w) /\ ~Commit(w)
    <3>1. UNCHANGED <<file, partitions, qualification>>
      BY <1>5, <2>1 DEF Step, Begin, Verify, RefuseRowLoss, Stage, Fail, Crash, manifest
    <3> QED BY <1>3, <3>1
  <2>2. CASE Rename(w)
    <3>1. partitions[c] = NoRow /\ UNCHANGED <<partitions, qualification>>
      BY <1>1, <2>2 DEF Rename, FreshInv, Fresh, manifest
    <3>2. \A d \in Cells : d # c => file'[d] = file[d]
      BY <1>1, <2>2 DEF Rename, TypeInv, TypeOK
    <3>3. DatasetNow' = DatasetNow /\ HaltedNow' = HaltedNow
      BY <3>1, <3>2 DEF DatasetNow, HaltedNow
    <3> QED BY <1>2, <3>3
  <2>3. CASE Merge(w)
    <3>1. c \in Cells /\ UNCHANGED <<file, partitions>> /\ partitions[c] # NoRow
      BY <1>1, <2>3 DEF Merge, RowsInv, TypeInv, TypeOK, Operations
    <3>2. qualification' = [qualification EXCEPT ![c] =
             IF ConflictsOf(B, {}) # {} THEN "halted" ELSE qualification[c]]
      BY <2>3 DEF Merge, RecordEventBatch
    <3>3. DatasetNow' = DatasetNow
      BY <3>1 DEF DatasetNow
    <3>4. HaltedNow' = HaltedNow \/ HaltedNow' = HaltedNow \cup {c}
      BY <1>1, <3>1, <3>2 DEF HaltedNow, TypeInv, TypeOK
    <3>5. DatasetNow[c] # {}
      <4>1. file[c] \in Files
        BY <1>1, <3>1 DEF FileMatchesManifest, TypeInv, TypeOK, Rows
      <4>2. file[c].batch \in Batches
        BY <4>1 DEF Files
      <4>3. file[c].batch # {}
        BY <4>2 DEF Batches, BatchesOf
      <4> QED BY <3>1, <4>3 DEF DatasetNow
    <3>6. CASE HaltedNow' = HaltedNow
      BY <1>2, <3>3, <3>6
    <3>7. CASE HaltedNow' = HaltedNow \cup {c}
      BY <3>1, <3>3, <3>5, <3>7 DEF Dataset!Next, Dataset!Halt, DatasetNow, HaltedNow
    <3> QED BY <3>4, <3>6, <3>7
  <2>4. CASE Commit(w)
    <3>1. c \in Cells /\ B \in BatchesOf(c) /\ B \in Batches /\ op[w] \in Operations
      BY <1>1, <2>4 DEF Commit, TypeInv, TypeOK, OpsWellFormed, Operations
    <3>2. partitions[c] = NoRow /\ file[c] = FileOf(op[w]) /\ file' = file
      BY <1>1, <2>4 DEF Commit, FreshInv, Fresh
    <3>3. partitions' = [partitions EXCEPT ![c] = RowOf(op[w])]
      BY <2>4, <3>2 DEF Commit
    <3>4. PICK F \in FirstObservations(B) : RecordEventBatch(c, B, F, "qualified")
      BY <2>4, <3>2 DEF Commit
    <3>5. qualification[c] = "none"
      BY <1>1, <3>1, <3>2 DEF RowsInv
    <3>6. qualification' = [qualification EXCEPT ![c] =
             IF ConflictsOf(B, F) # {} THEN "halted" ELSE "qualified"]
      BY <3>4 DEF RecordEventBatch
    <3>7. HaltedNow' \in {HaltedNow, HaltedNow \cup {c}}
      <4>1. CASE ConflictsOf(B, F) # {}
        BY <1>1, <3>1, <3>6, <4>1 DEF HaltedNow, TypeInv, TypeOK
      <4>2. CASE ConflictsOf(B, F) = {}
        BY <1>1, <3>1, <3>5, <3>6, <4>2 DEF HaltedNow, TypeInv, TypeOK
      <4> QED BY <4>1, <4>2
    <3>8. RowOf(op[w]) # NoRow
      BY <3>1, RowType, SentinelAssumption
    <3>9. file[c].batch = B
      BY <3>2 DEF FileOf
    <3>10. DatasetNow' = [DatasetNow EXCEPT ![c] = B]
      <4> HIDE DEF c, B
      <4>1. \A d \in Cells : partitions'[d] = IF d = c THEN RowOf(op[w]) ELSE partitions[d]
        BY <1>1, <3>1, <3>3 DEF TypeInv, TypeOK
      <4> QED BY <3>1, <3>2, <3>8, <3>9, <4>1 DEF DatasetNow
    <3>11. DatasetNow[c] = {}
      BY <3>1, <3>2 DEF DatasetNow
    <3>12. /\ DatasetNow[c] = {}
           /\ \E r \in Batches : DatasetNow' = [DatasetNow EXCEPT ![c] = r]
           /\ HaltedNow' \in {HaltedNow, HaltedNow \cup {c}}
      <4> HIDE DEF c, B
      <4> QED BY <3>1, <3>7, <3>10, <3>11
    <3>13. Dataset!Next
      <4> HIDE DEF c, B
      <4> QED BY <3>1, <3>12, Zenon DEF Dataset!Next, Dataset!Publish, DatasetNow, HaltedNow
    <3> QED BY <3>13
  <2> QED BY <2>1, <2>2, <2>3, <2>4
<1> QED BY <1>4, <1>5 DEF Next

\* Writers that keep out of one another's partitions publish each partition whole
\* and unchangeable: the steps and crashes between staging and commit are not
\* visible in the dataset.
THEOREM WriterImplementsCommittedDataset ==
  Spec /\ []OneWriterPerPartition => ImplementsCommittedDataset
<1>1. OneWriterPerPartition /\ SoleInv /\ [Next]_vars => SoleInv'
  BY SoleStep
<1>2. SoleInv /\ SoleInv' /\ [Next]_vars => [Dataset!Next]_(Dataset!vars)
  BY RefinementStep
<1> QED BY SoleInit, RefinementInit, <1>1, <1>2, PTL
        DEF Spec, ImplementsCommittedDataset, Dataset!Spec

\* The deployment append_partition is written for, one writer per data root, is
\* one writer per partition: all three hold of it.
THEOREM SoleWriterIsSafe ==
  ASSUME SoleWriter
  PROVE  Spec => []FileMatchesManifest /\ []IndexMatchesFile /\ ImplementsCommittedDataset
<1>1. OneWriterPerPartition
  BY SoleIsOnePerPartition
<1> QED BY <1>1, FileAlwaysMatchesManifest, CommittedPartitionsReconcile,
           WriterImplementsCommittedDataset, PTL
=============================================================================
