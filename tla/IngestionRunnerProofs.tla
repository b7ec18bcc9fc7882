------------------------ MODULE IngestionRunnerProofs ------------------------
(***************************************************************************)
(* Proofs about IngestionRunner, for every chain, set of targets, cell and *)
(* window width, and any number of runs, crashes and cancellations.        *)
(***************************************************************************)
EXTENDS IngestionRunner, TLAPS

LEMMA BlocksAreNumbers ==
  /\ PoolInitBlock \in Nat \ {0} /\ LastBlock \in Nat /\ PoolInitBlock <= LastBlock
  /\ PoolInitBlock \in Blocks /\ NoFork \in Nat /\ NoFork = LastBlock + 1
  /\ \A b : b \in Blocks <=> b \in Nat /\ PoolInitBlock <= b /\ b <= LastBlock
BY BlocksAssumption DEF BlocksAssumption, Blocks, NoFork

LEMMA NextCellStarts ==
  ASSUME NEW b \in Nat, NEW w \in Nat \ {0}
  PROVE  (b \div w + 1) * w \in Nat /\ b < (b \div w + 1) * w
OBVIOUS

\* A planned window begins where it is placed and ends within the plan.
LEMMA WindowEndBounds ==
  ASSUME NEW b \in Blocks, NEW t \in Targets, b <= t
  PROVE  WindowEnd(b, t) \in Blocks /\ b <= WindowEnd(b, t) /\ WindowEnd(b, t) <= t
<1>1. /\ b \in Nat /\ t \in Blocks /\ t \in Nat
      /\ BlocksPerPartition \in Nat \ {0} /\ MaxBlocksPerSubRange \in Nat \ {0}
  BY BlocksAreNumbers, BlocksAssumption DEF BlocksAssumption
<1>2. (CellOf(b) + 1) * BlocksPerPartition \in Nat /\ b < (CellOf(b) + 1) * BlocksPerPartition
  BY <1>1, NextCellStarts DEF CellOf
<1>3. \A e \in Nat : b <= e => /\ Minimum(e, t) \in Nat
                               /\ b <= Minimum(e, t) /\ Minimum(e, t) <= t
  BY <1>1 DEF Minimum
<1>4. WindowEnd(b, t) \in Nat /\ b <= WindowEnd(b, t) /\ WindowEnd(b, t) <= t
  <2>1. b + MaxBlocksPerSubRange - 1 \in Nat /\ b <= b + MaxBlocksPerSubRange - 1
    BY <1>1
  <2>2. (CellOf(b) + 1) * BlocksPerPartition - 1 \in Nat /\ b <= (CellOf(b) + 1) * BlocksPerPartition - 1
    BY <1>1, <1>2
  <2> QED
    BY <1>3, <2>1, <2>2 DEF WindowEnd
<1> QED
  BY <1>1, <1>4, BlocksAreNumbers

-----------------------------------------------------------------------------
(***************************************************************************)
(* Type correctness, with what the steps of a run presuppose of one        *)
(* another: the window lies at the cursor, the cursor behind the covered   *)
(* end.                                                                    *)
(***************************************************************************)
Placed == {"cover", "left", "right", "headers", "append", "sink", "record"}
RunTypes ==
    /\ pc # "idle" => run.target \in Targets
    /\ cursor = lastEnd + 1
    /\ pc = "idle" => lastEnd = PoolInitBlock - 1 /\ lastHash = NoHash
    /\ pc \in Placed => sub.from = cursor
    /\ pc = "left" => sub.from < sub.to
    /\ pc = "verify" => checkpoint # NoCheckpoint
    /\ pc = "checkpoint" => lastEnd \in Blocks
    /\ pc = "record" => decision.state # "none"
    /\ pc \in {"headers", "append", "sink"} => decision.state = "successful"
TypeInv == TypeOK /\ RunTypes

LEMMA UndecidedIsTyped == Undecided \in Decisions
BY DEF Undecided, Decisions, States, Reasons

\* What an endpoint answers for are blocks of the chain.
LEMMA AnsweredType ==
  ASSUME TypeInv, NEW d, NEW from \in Int, NEW to \in Blocks, PoolInitBlock <= from, Answered(d, from, to)
  PROVE  answered' \subseteq Blocks
<1>1. from .. to \subseteq Blocks
  BY BlocksAreNumbers
<1> QED
  BY <1>1 DEF Answered, TypeInv, TypeOK

LEMMA TypeInit == Init => TypeInv
<1> SUFFICES ASSUME Init PROVE TypeInv
  OBVIOUS
<1>1. cells \in [Cells -> (SUBSET Hashes) \cup {NoRow}]
  BY DEF Init
<1>2. run \in [complete : BOOLEAN, reason : Reasons, target : Targets \cup {0}, from : Blocks \cup {NoFork}]
  BY BlocksAreNumbers DEF Init, Reasons
<1>3. RunTypes
  BY BlocksAreNumbers DEF Init, RunTypes, Placed
<1>4. pc \in Steps /\ pc = "idle"
  BY DEF Init, Steps
<1> QED
  BY <1>1, <1>2, <1>3, <1>4, UndecidedIsTyped, BlocksAreNumbers DEF Init, TypeInv, TypeOK

\* A run that has stopped is typed whatever it left on disk.
LEMMA StopType ==
  ASSUME TypeOK, Stop, UNCHANGED <<cells, headers, checkpoint, config, chain>>,
         intervals' \subseteq Intervals,
         run' \in [complete : BOOLEAN, reason : Reasons, target : Targets \cup {0},
                   from : Blocks \cup {NoFork}]
  PROVE  TypeInv'
<1>1. RunTypes'
  BY BlocksAreNumbers DEF Stop, GoTo, RunTypes, Placed
<1>2. pc' \in Steps /\ pc' = "idle"
  BY DEF Stop, GoTo, Steps
<1> QED
  BY <1>1, <1>2, UndecidedIsTyped, BlocksAreNumbers DEF TypeInv, TypeOK, Stop, chain

LEMMA HaltType ==
  ASSUME TypeOK, NEW reason \in Reasons, HaltRun(reason)
  PROVE  TypeInv'
<1>1. run' \in [complete : BOOLEAN, reason : Reasons, target : Targets \cup {0}, from : Blocks \cup {NoFork}]
  BY DEF HaltRun, TypeOK
<1> QED
  BY <1>1, StopType DEF HaltRun, TypeOK

LEMMA AnswersAreDecisions ==
  ASSUME NEW from, NEW to \in Blocks, fork \in Blocks \cup {NoFork}, NEW d \in Answers(from, to)
  PROVE  d \in Decisions /\ d.state \in States
<1>1. HashOf(to) \in Hashes
  BY DEF HashOf, Hashes
<1> QED
  BY <1>1 DEF Answers, Failed, Decisions, States, Reasons

LEMMA TypeStep == TypeInv /\ [Next]_vars => TypeInv'
<1> SUFFICES ASSUME TypeInv, [Next]_vars PROVE TypeInv'
  OBVIOUS
<1> USE BlocksAreNumbers
<1>0. TypeOK /\ RunTypes
  BY DEF TypeInv
<1>1. ASSUME NEW t \in Targets, NEW cfg \in Configs, Begin(t, cfg) PROVE TypeInv'
  <2>1. run' \in [complete : BOOLEAN, reason : Reasons, target : Targets \cup {0}, from : Blocks \cup {NoFork}]
    BY <1>0, <1>1 DEF Begin, TypeOK, Reasons, Checkpoints
  <2>2. run'.target \in Targets
    BY <1>1 DEF Begin
  <2>3. cursor' \in Blocks \cup {NoFork} /\ lastEnd' \in Blocks \cup {PoolInitBlock - 1} /\ lastHash' \in Hashes \cup {NoHash}
    BY <1>0, <1>1 DEF Begin, TypeOK, Checkpoints
  <2>4. cursor' = lastEnd' + 1
    BY <1>0, <1>1 DEF Begin, TypeOK, RunTypes
  <2>5. pc' \in {"plan", "verify"} /\ (pc' = "verify" => checkpoint' # NoCheckpoint)
    BY <1>1 DEF Begin, GoTo
  <2> QED
    BY <1>0, <1>1, <2>1, <2>2, <2>3, <2>4, <2>5 DEF Begin, TypeInv, TypeOK, RunTypes, Checkpoints, Steps, Placed
<1>2. CASE VerifyEndBlockHash
  <2>1. CASE \E r \in Reasons : HaltRun(r)
    BY <1>0, <2>1, HaltType
  <2>2. CASE GoTo("plan") /\ UNCHANGED <<durable, config, walk, cancelled, chain>>
    BY <1>0, <1>2, <2>2 DEF VerifyEndBlockHash, GoTo, durable, walk, chain, TypeInv, TypeOK, RunTypes, Steps, Placed
  <2> QED
    BY <1>2, <2>1, <2>2 DEF VerifyEndBlockHash, Reasons
<1>3. CASE Plan
  <2>1. CASE HaltRun("checkpoint_manifest_drift")
    BY <1>0, <2>1, HaltType DEF Reasons
  <2>2. CASE GoTo("next") /\ UNCHANGED <<durable, config, walk, cancelled, chain>>
    BY <1>0, <1>3, <2>2 DEF Plan, GoTo, durable, walk, chain, TypeInv, TypeOK, RunTypes, Steps, Placed
  <2> QED
    BY <1>3, <2>1, <2>2 DEF Plan
<1>4. CASE NextWindow
  <2>1. CASE cursor > run.target
    BY <1>0, <1>4, <2>1 DEF NextWindow, GoTo, durable, walk, chain, TypeInv, TypeOK, RunTypes, Steps, Placed
  <2>2. CASE ~ (cursor > run.target)
    <3>1. run.target \in Targets /\ run.target \in Blocks /\ cursor \in Blocks /\ cursor <= run.target
      <4>1. run.target \in Targets /\ cursor \in Blocks \cup {NoFork}
        BY <1>0, <1>4 DEF NextWindow, TypeOK, RunTypes
      <4>2. run.target \in Blocks
        BY <4>1, BlocksAssumption DEF BlocksAssumption
      <4> QED
        BY <2>2, <4>1, <4>2
    <3>2. sub'.from = cursor /\ sub'.to \in Blocks /\ sub'.from <= sub'.to
      BY <1>4, <2>2, <3>1, WindowEndBounds DEF NextWindow
    <3>3. decision' \in Decisions /\ (pc' = "record" => decision'.state # "none") /\ pc' \in {"record", "cover"}
      BY <1>4, <2>2 DEF NextWindow, GoTo, Undecided, Decisions, States, Reasons
    <3> QED
      BY <1>0, <1>4, <3>1, <3>2, <3>3 DEF NextWindow, durable, chain, TypeInv, TypeOK, RunTypes, Steps, Placed
  <2> QED
    BY <2>1, <2>2
<1> DEFINE Same == UNCHANGED <<durable, config, cursor, sub, rows, unsunk, lastEnd, lastHash, cancelled,
                               fork, stale, staleStart>>
<1>5. ASSUME Same, answered' \subseteq Blocks, pc \in {"cover", "left", "right"}, decision' \in Decisions,
             \/ pc' = "left" /\ sub.from < sub.to
             \/ pc' = "right"
             \/ pc' = "headers" /\ decision'.state = "successful"
             \/ pc' = "record" /\ decision'.state # "none"
      PROVE  TypeInv'
  BY <1>0, <1>5 DEF durable, TypeInv, TypeOK, RunTypes, Steps, Placed
<1>6. pc \in {"cover", "left", "right"} =>
         /\ sub.from \in Blocks /\ sub.to \in Blocks /\ sub.from <= sub.to
         /\ fork \in Blocks \cup {NoFork}
  BY <1>0 DEF TypeOK
<1>7. CASE Cover
  <2>1. PICK d \in Answers(sub.from, sub.to) :
           /\ decision' = d /\ Answered(d, sub.from, sub.to)
           /\ IF Overflowed(d) /\ sub.from < sub.to THEN GoTo("left")
              ELSE IF d.state = "successful" THEN GoTo("headers")
              ELSE GoTo("record")
    BY <1>7 DEF Cover
  <2>2. d \in Decisions /\ d.state # "none"
    BY <1>6, <1>7, AnswersAreDecisions DEF Cover, States
  <2>3. answered' \subseteq Blocks
    BY <1>0, <1>6, <1>7, <2>1, AnsweredType, BlocksAreNumbers DEF Cover
  <2> QED
    BY <1>5, <1>7, <2>1, <2>2, <2>3 DEF Cover, GoTo, Answered
<1>8. CASE CoverLeft
  <2>1. PICK d \in Answers(sub.from, SplitPoint(sub)) :
           /\ decision' = d /\ Answered(d, sub.from, SplitPoint(sub))
           /\ IF d.state = "failed" THEN GoTo("record") ELSE GoTo("right")
    BY <1>8 DEF CoverLeft
  <2>2. SplitPoint(sub) \in Blocks
    BY <1>0, <1>6, <1>8 DEF CoverLeft, SplitPoint, RunTypes
  <2>3. d \in Decisions /\ d.state # "none"
    BY <1>6, <1>8, <2>2, AnswersAreDecisions DEF CoverLeft, States
  <2>4. answered' \subseteq Blocks
    BY <1>0, <1>6, <1>8, <2>1, <2>2, AnsweredType, BlocksAreNumbers DEF CoverLeft
  <2> QED
    BY <1>5, <1>8, <2>1, <2>3, <2>4 DEF CoverLeft, GoTo, Answered
<1>9. CASE CoverRight
  <2>1. PICK d \in Answers(SplitPoint(sub) + 1, sub.to) :
           decision' = MergeHalves(decision, d) /\ Answered(d, SplitPoint(sub) + 1, sub.to)
    BY <1>9 DEF CoverRight
  <2>2. d \in Decisions /\ d.state # "none"
    BY <1>6, <1>9, AnswersAreDecisions DEF CoverRight, States
  <2>3. decision \in Decisions
    BY <1>0 DEF TypeOK
  <2>4. MergeHalves(decision, d) \in Decisions /\ MergeHalves(decision, d).state # "none"
    BY <2>2, <2>3 DEF MergeHalves, Decisions, States, Reasons
  <2>5. SplitPoint(sub) + 1 \in Int /\ PoolInitBlock <= SplitPoint(sub) + 1
    BY <1>6, <1>9, BlocksAreNumbers DEF CoverRight, SplitPoint
  <2>6. answered' \subseteq Blocks
    BY <1>0, <1>6, <1>9, <2>1, <2>5, AnsweredType DEF CoverRight
  <2> QED
    BY <1>5, <1>9, <2>1, <2>4, <2>6 DEF CoverRight, GoTo, Answered
<1>10. CASE FetchHeaders
  <2>1. \A b \in Blocks : HashOf(b) \in Hashes
    BY DEF HashOf, Hashes
  <2>2. {HashOf(b) : b \in EventsIn(sub.from, sub.to)} \subseteq Hashes
    BY <2>1, BlocksAssumption DEF EventsIn, BlocksAssumption
  <2>3. Failed("header_fetch_failed") \in Decisions /\ Failed("header_fetch_failed").state # "none"
    BY DEF Failed, Decisions, States, Reasons
  <2>4. rows' \subseteq Hashes /\ unsunk' \subseteq Hashes /\ decision' \in Decisions
    BY <1>0, <1>10, <2>2, <2>3 DEF FetchHeaders, TypeOK
  <2>5. \/ pc' = "append" /\ decision'.state = "successful"
        \/ pc' = "record" /\ decision'.state # "none"
    BY <1>0, <1>10, <2>3 DEF FetchHeaders, GoTo, RunTypes
  <2> QED
    BY <1>0, <1>10, <2>4, <2>5 DEF FetchHeaders, durable, chain, TypeInv, TypeOK, RunTypes, Steps, Placed
<1>11. ASSUME NEW c \in Cells, AppendCell(c) PROVE TypeInv'
  <2>1. BatchOf(c) \subseteq Hashes /\ rows' \subseteq Hashes
    BY <1>0, <1>11 DEF AppendCell, BatchOf, TypeOK
  <2>2. cells' \in [Cells -> (SUBSET Hashes) \cup {NoRow}]
    BY <1>0, <1>11, <2>1 DEF AppendCell, TypeOK
  <2>3. Failed("partition_row_loss_guard") \in Decisions /\ Failed("partition_row_loss_guard").state # "none"
    BY DEF Failed, Decisions, States, Reasons
  <2>4. /\ decision' \in Decisions
        /\ \/ pc' = "append" /\ decision'.state = "successful"
           \/ pc' = "record" /\ decision'.state # "none"
    BY <1>0, <1>11, <2>3 DEF AppendCell, GoTo, TypeOK, RunTypes
  <2> QED
    BY <1>0, <1>11, <2>1, <2>2, <2>4 DEF AppendCell, chain, TypeInv, TypeOK, RunTypes, Steps, Placed
<1>12. CASE AppendDone
  BY <1>0, <1>12 DEF AppendDone, GoTo, durable, walk, chain, TypeInv, TypeOK, RunTypes, Steps, Placed
<1>13. CASE SinkHeader
  <2>1. headers' \subseteq Hashes /\ unsunk' \subseteq Hashes
    BY <1>0, <1>13 DEF SinkHeader, TypeOK
  <2>2. pc' \in {"sink", "record"} /\ decision.state = "successful"
    BY <1>0, <1>13 DEF SinkHeader, GoTo, RunTypes
  <2> QED
    BY <1>0, <1>13, <2>1, <2>2 DEF SinkHeader, chain, TypeInv, TypeOK, RunTypes, Steps, Placed
<1>14. CASE RecordInterval
  <2>1. /\ decision \in Decisions /\ decision.state \in States
        /\ sub.from \in Blocks /\ sub.to \in Blocks /\ sub.from <= sub.to /\ sub.from = lastEnd + 1
    BY <1>0, <1>14 DEF RecordInterval, TypeOK, RunTypes, Decisions, Placed
  <2>2. intervals' \subseteq Intervals
    BY <1>0, <1>14, <2>1 DEF RecordInterval, Intervals, TypeOK
  <2>3. CASE decision.state \in {"failed", "cancelled"}
    <3>1. run' \in [complete : BOOLEAN, reason : Reasons, target : Targets \cup {0}, from : Blocks \cup {NoFork}]
          /\ (pc # "idle" => run'.target \in Targets)
      BY <1>0, <1>14, <2>1, <2>3 DEF RecordInterval, TypeOK, RunTypes, Decisions
    <3> QED
      BY <1>0, <1>14, <2>2, <2>3, <3>1
      DEF RecordInterval, GoTo, chain, TypeInv, TypeOK, RunTypes, Steps, Placed
  <2>4. CASE decision.state \notin {"failed", "cancelled"}
    <3>1. lastEnd' = sub.to /\ cursor' = sub.to + 1 /\ lastHash' \in Hashes \cup {NoHash}
      BY <1>0, <1>14, <2>1, <2>4 DEF RecordInterval, Maximum, TypeOK, Decisions
    <3>2. run' = run /\ pc' = "checkpoint"
      BY <1>14, <2>4 DEF RecordInterval, GoTo
    <3> QED
      BY <1>0, <1>14, <2>1, <2>2, <3>1, <3>2
      DEF RecordInterval, chain, TypeInv, TypeOK, RunTypes, Steps, Placed
  <2> QED
    BY <2>3, <2>4
<1>15. CASE UpsertCheckpoint
  <2>1. checkpoint' \in Checkpoints /\ checkpoint' # NoCheckpoint
    BY <1>0, <1>15, SentinelAssumption DEF UpsertCheckpoint, SentinelAssumption, Checkpoints, TypeOK, RunTypes
  <2>2. pc' = "next" /\ stale' \in BOOLEAN
    BY <1>0, <1>15 DEF UpsertCheckpoint, GoTo, TypeOK
  <2> QED
    BY <1>0, <1>15, <2>1, <2>2 DEF UpsertCheckpoint, walk, TypeInv, TypeOK, RunTypes, Steps, Placed
<1>16. CASE Finish
  <2>1. run' \in [complete : BOOLEAN, reason : Reasons, target : Targets \cup {0}, from : Blocks \cup {NoFork}]
    BY <1>0, <1>16 DEF Finish, TypeOK
  <2> QED
    BY <1>0, <1>16, <2>1, StopType DEF Finish, TypeOK
<1>17. CASE Cancel
  BY <1>0, <1>17 DEF Cancel, durable, walk, chain, TypeInv, TypeOK, RunTypes
<1>18. CASE Crash
  BY <1>0, <1>18, StopType DEF Crash, durable, TypeOK
<1>19. CASE Reorg
  BY <1>0, <1>19 DEF Reorg, durable, process, walk, TypeInv, TypeOK, RunTypes
<1>20. CASE UNCHANGED vars
  BY <1>0, <1>20 DEF vars, durable, process, walk, chain, TypeInv, TypeOK, RunTypes
<1> QED
  BY <1>1, <1>2, <1>3, <1>4, <1>7, <1>8, <1>9, <1>10, <1>11, <1>12, <1>13, <1>14, <1>15, <1>16,
     <1>17, <1>18, <1>19, <1>20 DEF Next, RunnerStep

\* The durable tables, the run in memory and the history stay typed.
THEOREM TypesAreKept == Spec => []TypeOK
<1>1. TypeInv => TypeOK
  BY DEF TypeInv
<1> QED
  BY <1>1, TypeInit, TypeStep, PTL DEF Spec

-----------------------------------------------------------------------------
(***************************************************************************)
(* The checkpoint covers what is persisted.  No window is split here: the  *)
(* merged answer of two halves carries no rows (SplitDropsRows).           *)
(***************************************************************************)
CoveredUpTo(e) ==
    /\ \A b \in EventBlocks : b <= e => \E h \in Persisted : h.block = b
    /\ \A h \in Persisted : h.block <= e => h \in headers
OneHashPerBlock == \A g, h \in Persisted : g.block = h.block => g = h
EventsInTheirCells ==
    \A h \in Persisted : h.block \in EventBlocks /\ cells[CellOf(h.block)] # NoRow
RowsOfWindow ==
    /\ \A h \in rows : h.block \in EventsIn(sub.from, sub.to)
    /\ \A g, h \in rows : g.block = h.block => g = h
WindowHeld ==
    \A b \in EventsIn(sub.from, sub.to) :
        \E h \in Hashes : h.block = b /\ h \in rows \cup Persisted /\ h \in unsunk \cup headers
CoverInv ==
    /\ OneHashPerBlock /\ EventsInTheirCells
    /\ pc \notin {"left", "right"}
    /\ pc = "append" => RowsOfWindow
    /\ pc \in {"append", "sink"} => WindowHeld
    /\ pc = "sink" => rows = {}
    /\ pc = "record" /\ decision.state \notin {"failed", "cancelled"} => CoveredUpTo(sub.to)
    /\ pc # "idle" => CoveredUpTo(lastEnd)
    /\ pc # "idle" /\ checkpoint # NoCheckpoint => checkpoint.end <= lastEnd
    /\ checkpoint # NoCheckpoint => CoveredUpTo(checkpoint.end)

LEMMA EventBlocksAreNumbers == \A b \in EventBlocks : b \in Blocks /\ b \in Nat
BY BlocksAssumption, BlocksAreNumbers DEF BlocksAssumption

LEMMA PersistedHashes ==
  ASSUME TypeOK PROVE \A h \in Persisted : h \in Hashes /\ h.block \in Blocks /\ h.block \in Nat
<1>1. \A h \in Persisted : h \in Hashes
  BY DEF Persisted, TypeOK
<1> QED
  BY <1>1, BlocksAreNumbers DEF Hashes

LEMMA CoverInit == Init => CoverInv
<1> SUFFICES ASSUME Init PROVE CoverInv
  OBVIOUS
<1>1. Persisted = {}
  BY DEF Init, Persisted
<1> QED
  BY <1>1 DEF Init, CoverInv, OneHashPerBlock, EventsInTheirCells

\* What the tables hold is decided by the tables.
LEMMA TablesKept ==
  ASSUME cells' = cells
  PROVE  /\ Persisted' = Persisted
         /\ OneHashPerBlock => OneHashPerBlock'
         /\ EventsInTheirCells => EventsInTheirCells'
         /\ \A e : headers \subseteq headers' /\ CoveredUpTo(e) => CoveredUpTo(e)'
<1>1. Persisted' = Persisted
  BY DEF Persisted
<1> QED
  BY <1>1 DEF OneHashPerBlock, EventsInTheirCells, CoveredUpTo

\* The end of a run, however it comes.
LEMMA StopKeepsCover ==
  ASSUME CoverInv, Stop, UNCHANGED <<cells, headers, checkpoint>>
  PROVE  CoverInv'
<1>1. pc' = "idle"
  BY DEF Stop, GoTo
<1>2. OneHashPerBlock' /\ EventsInTheirCells' /\ Persisted' = Persisted
  BY TablesKept DEF CoverInv
<1>3. checkpoint' # NoCheckpoint => CoveredUpTo(checkpoint.end)'
  BY <1>2 DEF CoverInv, CoveredUpTo
<1> QED
  BY <1>1, <1>2, <1>3 DEF CoverInv

\* A step that touches neither tables nor covered end.
LEMMA WalkKeepsCover ==
  ASSUME CoverInv, UNCHANGED <<cells, headers, checkpoint, lastEnd>>, pc # "idle",
         pc' \notin {"idle", "left", "right", "append", "sink"},
         pc' = "record" /\ decision'.state \notin {"failed", "cancelled"} => CoveredUpTo(sub.to)'
  PROVE  CoverInv'
<1>1. OneHashPerBlock' /\ EventsInTheirCells' /\ Persisted' = Persisted
  BY TablesKept DEF CoverInv
<1>2. CoveredUpTo(lastEnd)' /\ (checkpoint' # NoCheckpoint => CoveredUpTo(checkpoint.end)')
  BY <1>1 DEF CoverInv, CoveredUpTo
<1> QED
  BY <1>1, <1>2 DEF CoverInv

\* An empty window is covered as soon as it is answered.
LEMMA EmptyWindowIsCovered ==
  ASSUME TypeInv, CoverInv, pc = "cover", EventsIn(sub.from, sub.to) = {}
  PROVE  CoveredUpTo(sub.to)
<1>1. /\ sub.from = lastEnd + 1 /\ sub.from \in Nat /\ sub.to \in Nat /\ lastEnd \in Int
      /\ CoveredUpTo(lastEnd) /\ EventsInTheirCells
  BY BlocksAreNumbers DEF TypeInv, TypeOK, RunTypes, Placed, CoverInv
<1>2. \A b \in EventBlocks : b <= sub.to => b <= lastEnd
  BY <1>1, EventBlocksAreNumbers DEF EventsIn
<1> QED
  BY <1>1, <1>2 DEF CoveredUpTo, EventsInTheirCells

\* A window whose rows and headers are all stored is covered.
LEMMA SunkWindowIsCovered ==
  ASSUME TypeInv, CoverInv, pc = "sink", unsunk = {}
  PROVE  CoveredUpTo(sub.to)
<1>1. /\ sub.from = lastEnd + 1 /\ sub.from \in Nat /\ sub.to \in Nat /\ lastEnd \in Int
      /\ CoveredUpTo(lastEnd) /\ EventsInTheirCells /\ OneHashPerBlock /\ rows = {} /\ WindowHeld
  BY BlocksAreNumbers DEF TypeInv, TypeOK, RunTypes, Placed, CoverInv
<1>2. \A b \in EventBlocks : b <= sub.to => b <= lastEnd \/ b \in EventsIn(sub.from, sub.to)
  BY <1>1, EventBlocksAreNumbers DEF EventsIn
<1>3. \A b \in EventsIn(sub.from, sub.to) : \E h \in Persisted : h.block = b /\ h \in headers
  BY <1>1 DEF WindowHeld
<1>4. ASSUME NEW b \in EventBlocks, b <= sub.to PROVE \E h \in Persisted : h.block = b
  BY <1>1, <1>2, <1>3, <1>4 DEF CoveredUpTo
<1>5. ASSUME NEW g \in Persisted, g.block <= sub.to PROVE g \in headers
  <2>1. CASE g.block <= lastEnd
    BY <1>1, <2>1 DEF CoveredUpTo
  <2>2. CASE g.block \in EventsIn(sub.from, sub.to)
    BY <1>1, <1>3, <2>2 DEF OneHashPerBlock
  <2> QED
    BY <1>1, <1>2, <1>5, <2>1, <2>2 DEF EventsInTheirCells
<1> QED
  BY <1>4, <1>5 DEF CoveredUpTo

LEMMA AppendKeepsCover ==
  ASSUME TypeInv, CoverInv, NEW c \in Cells, AppendCell(c)
  PROVE  CoverInv'
<1>1. /\ pc = "append" /\ UNCHANGED <<headers, checkpoint, sub, unsunk, lastEnd>>
      /\ sub.from = lastEnd + 1 /\ sub.from \in Nat /\ lastEnd \in Int /\ RowsOfWindow /\ WindowHeld
      /\ rows \subseteq Hashes
  BY BlocksAreNumbers DEF AppendCell, TypeInv, TypeOK, RunTypes, Placed, CoverInv
<1>2. CASE ~ (cells[c] = NoRow \/ BatchOf(c) \subseteq cells[c])
  <2>1. cells' = cells /\ pc' = "record" /\ decision'.state = "failed"
    BY <1>2 DEF AppendCell, GoTo, Failed
  <2> QED
    BY <1>1, <2>1, WalkKeepsCover
<1>3. CASE cells[c] = NoRow \/ BatchOf(c) \subseteq cells[c]
  <2>1. /\ cells' = [cells EXCEPT ![c] = IF @ = NoRow THEN BatchOf(c) ELSE @]
        /\ rows' = rows \ BatchOf(c) /\ pc' = "append"
    BY <1>1, <1>3 DEF AppendCell
  <2>2. BatchOf(c) \subseteq rows /\ BatchOf(c) # NoRow /\ \A h \in BatchOf(c) : CellOf(h.block) = c
    BY <1>1, SentinelAssumption DEF BatchOf, SentinelAssumption
  <2>3. \A d \in Cells : cells'[d] = IF d = c /\ cells[c] = NoRow THEN BatchOf(c) ELSE cells[d]
    BY <2>1 DEF TypeInv, TypeOK
  <2>4. Persisted' = Persisted \cup BatchOf(c)
    <3>1. \A h : h \in Persisted' <=> \E d \in Cells : cells'[d] # NoRow /\ h \in cells'[d]
      BY DEF Persisted
    <3>2. \A h : h \in Persisted <=> \E d \in Cells : cells[d] # NoRow /\ h \in cells[d]
      BY DEF Persisted
    <3>3. ASSUME NEW h PROVE h \in Persisted' <=> h \in Persisted \/ h \in BatchOf(c)
      BY <1>3, <2>2, <2>3, <3>1, <3>2
    <3> QED
      BY <3>3
  <2>5. \A h \in BatchOf(c) : h.block \in EventBlocks /\ h.block \in Nat /\ h.block > lastEnd
    BY <1>1, <2>2, EventBlocksAreNumbers DEF RowsOfWindow, EventsIn
  <2>6. EventsInTheirCells'
    <3>1. \A h \in Persisted : h.block \in EventBlocks /\ CellOf(h.block) \in Cells /\ cells[CellOf(h.block)] # NoRow
      BY EventBlocksAreNumbers DEF CoverInv, EventsInTheirCells, Cells
    <3>2. \A h \in Persisted \cup BatchOf(c) : h.block \in EventBlocks /\ cells'[CellOf(h.block)] # NoRow
      BY <2>2, <2>3, <2>5, <3>1
    <3> QED
      BY <2>4, <3>2 DEF EventsInTheirCells, CellOf
  <2>7. OneHashPerBlock'
    <3>1. ASSUME NEW g \in Persisted, NEW h \in BatchOf(c), g.block = h.block PROVE g = h
      <4>1. cells[c] # NoRow
        BY <2>2, <3>1 DEF CoverInv, EventsInTheirCells
      <4>2. h \in Persisted
        BY <1>3, <3>1, <4>1 DEF Persisted
      <4> QED
        BY <3>1, <4>2 DEF CoverInv, OneHashPerBlock
    <3>2. \A g, h \in Persisted \cup BatchOf(c) : g.block = h.block => g = h
      BY <1>1, <2>2, <3>1 DEF CoverInv, OneHashPerBlock, RowsOfWindow
    <3> QED
      BY <2>4, <3>2 DEF OneHashPerBlock
  <2>8. RowsOfWindow'
    BY <1>1, <2>1 DEF RowsOfWindow, EventsIn
  <2>9. WindowHeld'
    BY <1>1, <2>1, <2>4 DEF WindowHeld, EventsIn
  <2>10. CoveredUpTo(lastEnd)'
    BY <1>1, <2>4, <2>5 DEF CoverInv, CoveredUpTo
  <2>11. checkpoint' # NoCheckpoint => checkpoint'.end <= lastEnd' /\ CoveredUpTo(checkpoint.end)'
    <3> SUFFICES ASSUME checkpoint # NoCheckpoint
                 PROVE  checkpoint.end <= lastEnd /\ CoveredUpTo(checkpoint.end)'
      BY <1>1
    <3>1. checkpoint.end \in Nat /\ checkpoint.end <= lastEnd /\ CoveredUpTo(checkpoint.end)
      BY <1>1, BlocksAreNumbers DEF CoverInv, TypeInv, TypeOK, Checkpoints
    <3>2. \A h \in BatchOf(c) : ~ (h.block <= checkpoint.end)
      BY <1>1, <2>5, <3>1
    <3> QED
      BY <1>1, <2>4, <3>1, <3>2 DEF CoveredUpTo
  <2> QED
    BY <2>1, <2>6, <2>7, <2>8, <2>9, <2>10, <2>11 DEF CoverInv
<1> QED
  BY <1>2, <1>3

LEMMA CoverStep ==
  ASSUME MayOverflow = FALSE, TypeInv, CoverInv, [Next]_vars
  PROVE  CoverInv'
<1>1. ASSUME NEW t \in Targets, NEW cfg \in Configs, Begin(t, cfg) PROVE CoverInv'
  <2>1. /\ UNCHANGED <<cells, headers, checkpoint>> /\ pc' \in {"plan", "verify"} /\ pc = "idle"
        /\ checkpoint # NoCheckpoint => lastEnd' = checkpoint.end
        /\ checkpoint = NoCheckpoint => lastEnd' = lastEnd
    BY <1>1 DEF Begin, GoTo
  <2>2. OneHashPerBlock' /\ EventsInTheirCells' /\ Persisted' = Persisted
    BY <2>1, TablesKept DEF CoverInv
  <2>3. checkpoint # NoCheckpoint => CoveredUpTo(checkpoint.end)' /\ checkpoint'.end <= lastEnd' /\ CoveredUpTo(lastEnd)'
    <3>1. checkpoint # NoCheckpoint => checkpoint.end \in Nat
      BY BlocksAreNumbers DEF TypeInv, TypeOK, Checkpoints
    <3> QED
      BY <2>1, <2>2, <3>1 DEF CoverInv, CoveredUpTo
  <2>4. checkpoint = NoCheckpoint => CoveredUpTo(lastEnd)'
    <3> SUFFICES ASSUME checkpoint = NoCheckpoint PROVE CoveredUpTo(lastEnd)'
      OBVIOUS
    <3>1. lastEnd' = PoolInitBlock - 1
      BY <2>1, BlocksAreNumbers DEF CoverInv, TypeInv, TypeOK, RunTypes
    <3>2. \A b \in Blocks : ~ (b <= lastEnd')
      BY <3>1, BlocksAreNumbers
    <3> QED
      BY <2>2, <3>2, EventBlocksAreNumbers, PersistedHashes DEF CoveredUpTo, TypeInv
  <2> QED
    BY <2>1, <2>2, <2>3, <2>4 DEF CoverInv
<1>2. ASSUME NEW r, HaltRun(r) PROVE CoverInv'
  BY <1>2, StopKeepsCover DEF HaltRun
<1>3. CASE VerifyEndBlockHash
  <2>1. CASE GoTo("plan") /\ UNCHANGED <<durable, config, walk, cancelled, chain>>
    BY <1>3, <2>1, WalkKeepsCover DEF VerifyEndBlockHash, GoTo, durable, walk
  <2> QED
    BY <1>2, <1>3, <2>1 DEF VerifyEndBlockHash
<1>4. CASE Plan
  <2>1. CASE GoTo("next") /\ UNCHANGED <<durable, config, walk, cancelled, chain>>
    BY <1>4, <2>1, WalkKeepsCover DEF Plan, GoTo, durable, walk
  <2> QED
    BY <1>2, <1>4, <2>1 DEF Plan
<1>5. CASE NextWindow
  <2>1. /\ UNCHANGED <<cells, headers, checkpoint, lastEnd>> /\ pc = "next"
        /\ pc' \in {"final", "cover", "record"}
        /\ pc' = "record" => decision'.state = "cancelled"
    BY <1>5 DEF NextWindow, GoTo, durable
  <2> QED
    BY <2>1, WalkKeepsCover
<1>6. CASE Cover
  <2>1. /\ UNCHANGED <<cells, headers, checkpoint, lastEnd, sub>> /\ pc = "cover"
    BY <1>6 DEF Cover, durable
  <2>2. PICK d \in Answers(sub.from, sub.to) :
           /\ decision' = d
           /\ IF Overflowed(d) /\ sub.from < sub.to THEN GoTo("left")
              ELSE IF d.state = "successful" THEN GoTo("headers")
              ELSE GoTo("record")
    BY <1>6 DEF Cover
  <2>3. /\ ~ Overflowed(d)
        /\ d.state \in {"successful", "scanned_empty", "failed"}
        /\ d.state = "scanned_empty" => EventsIn(sub.from, sub.to) = {}
    BY DEF Answers, Failed, Overflowed
  <2>4. d.state = "scanned_empty" => CoveredUpTo(sub.to)'
    <3>1. d.state = "scanned_empty" => CoveredUpTo(sub.to)
      BY <2>1, <2>3, EmptyWindowIsCovered
    <3> QED
      BY <2>1, <3>1, TablesKept DEF CoveredUpTo
  <2>5. pc' \in {"headers", "record"} /\ (pc' = "record" => d.state # "successful")
    BY <2>2, <2>3 DEF GoTo
  <2> QED
    BY <2>1, <2>2, <2>3, <2>4, <2>5, WalkKeepsCover
<1>7. CASE CoverLeft \/ CoverRight
  BY <1>7 DEF CoverLeft, CoverRight, CoverInv
<1>8. CASE FetchHeaders
  <2>1. UNCHANGED <<cells, headers, checkpoint, lastEnd, sub>> /\ pc = "headers"
    BY <1>8 DEF FetchHeaders, durable
  <2>2. CASE pc' = "record"
    <3>1. decision'.state = "failed"
      BY <1>8, <2>2 DEF FetchHeaders, GoTo, Failed
    <3> QED
      BY <2>1, <2>2, <3>1, WalkKeepsCover
  <2>3. CASE pc' = "append" /\ rows' = {HashOf(b) : b \in EventsIn(sub.from, sub.to)} /\ unsunk' = rows'
    <3>1. OneHashPerBlock' /\ EventsInTheirCells' /\ Persisted' = Persisted
      BY <2>1, TablesKept DEF CoverInv
    <3>2. CoveredUpTo(lastEnd)' /\ (checkpoint' # NoCheckpoint => CoveredUpTo(checkpoint.end)')
      BY <2>1, <3>1 DEF CoverInv, CoveredUpTo
    <3>3. \A b \in EventsIn(sub.from, sub.to) : HashOf(b) \in Hashes /\ HashOf(b).block = b
      BY EventBlocksAreNumbers DEF HashOf, Hashes, EventsIn
    <3>4. RowsOfWindow'
      BY <2>1, <2>3, <3>3 DEF RowsOfWindow, EventsIn
    <3>5. WindowHeld'
      BY <2>1, <2>3, <3>3 DEF WindowHeld, EventsIn
    <3> QED
      BY <2>1, <2>3, <3>1, <3>2, <3>4, <3>5 DEF CoverInv
  <2> QED
    BY <1>8, <2>2, <2>3 DEF FetchHeaders, GoTo
<1>9. ASSUME NEW c \in Cells, AppendCell(c) PROVE CoverInv'
  BY <1>9, AppendKeepsCover
<1> DEFINE Same == UNCHANGED <<cells, checkpoint, lastEnd, sub, rows>> /\ headers \subseteq headers'
<1>10. ASSUME Same, pc \in {"append", "sink"}, pc' = "sink", rows = {},
              \A h \in unsunk : h \in unsunk' \cup headers'
       PROVE  CoverInv'
  <2>1. OneHashPerBlock' /\ EventsInTheirCells' /\ Persisted' = Persisted
    BY <1>10, TablesKept DEF CoverInv
  <2>2. CoveredUpTo(lastEnd)' /\ (checkpoint' # NoCheckpoint => CoveredUpTo(checkpoint.end)')
    BY <1>10, <2>1 DEF CoverInv, CoveredUpTo
  <2>3. WindowHeld'
    BY <1>10, <2>1 DEF CoverInv, WindowHeld, EventsIn
  <2> QED
    BY <1>10, <2>1, <2>2, <2>3 DEF CoverInv
<1>11. CASE AppendDone
  BY <1>10, <1>11 DEF AppendDone, GoTo, durable, walk
<1>12. CASE SinkHeader
  <2>1. pc = "sink" /\ UNCHANGED <<cells, checkpoint, lastEnd, sub, rows, decision>> /\ rows = {}
    BY <1>12 DEF SinkHeader, CoverInv
  <2>2. CASE unsunk = {}
    <3>1. CoveredUpTo(sub.to) /\ headers' = headers /\ pc' = "record"
      BY <1>12, <2>1, <2>2, SunkWindowIsCovered DEF SinkHeader, GoTo
    <3>2. CoveredUpTo(sub.to)'
      BY <2>1, <3>1, TablesKept DEF CoveredUpTo
    <3> QED
      BY <2>1, <3>1, <3>2, WalkKeepsCover
  <2>3. CASE unsunk # {}
    <3>1. PICK h \in unsunk : headers' = headers \cup {h} /\ unsunk' = unsunk \ {h} /\ pc' = pc
      BY <1>12, <2>3 DEF SinkHeader
    <3> QED
      BY <1>10, <2>1, <3>1
  <2> QED
    BY <2>2, <2>3
<1>13. CASE RecordInterval
  <2>1. UNCHANGED <<cells, headers, checkpoint, decision, sub>> /\ pc = "record"
    BY <1>13 DEF RecordInterval
  <2>2. CASE decision.state \in {"failed", "cancelled"}
    BY <1>13, <2>1, <2>2, WalkKeepsCover DEF RecordInterval, GoTo
  <2>3. CASE decision.state \notin {"failed", "cancelled"}
    <3>1. OneHashPerBlock' /\ EventsInTheirCells' /\ Persisted' = Persisted
      BY <2>1, TablesKept DEF CoverInv
    <3>2. /\ sub.from = lastEnd + 1 /\ sub.from <= sub.to /\ sub.to \in Nat /\ lastEnd \in Int
          /\ checkpoint # NoCheckpoint => checkpoint.end \in Nat /\ checkpoint.end <= lastEnd
      BY <2>1, BlocksAreNumbers DEF TypeInv, TypeOK, RunTypes, Placed, Checkpoints, CoverInv
    <3>3. lastEnd' = sub.to /\ pc' = "checkpoint"
      BY <1>13, <2>3, <3>2 DEF RecordInterval, GoTo, Maximum
    <3>4. CoveredUpTo(lastEnd)' /\ (checkpoint' # NoCheckpoint => CoveredUpTo(checkpoint.end)')
      BY <2>1, <2>3, <3>1, <3>3 DEF CoverInv, CoveredUpTo
    <3> QED
      BY <2>1, <3>1, <3>2, <3>3, <3>4 DEF CoverInv
  <2> QED
    BY <2>2, <2>3
<1>14. CASE UpsertCheckpoint
  <2>1. UNCHANGED <<cells, headers, lastEnd>> /\ pc = "checkpoint" /\ pc' = "next"
    BY <1>14 DEF UpsertCheckpoint, GoTo, walk
  <2>2. OneHashPerBlock' /\ EventsInTheirCells' /\ Persisted' = Persisted
    BY <2>1, TablesKept DEF CoverInv
  <2>3. checkpoint'.end = lastEnd \/ (checkpoint # NoCheckpoint /\ checkpoint'.end = checkpoint.end)
    BY <1>14 DEF UpsertCheckpoint, TypeInv, TypeOK, Checkpoints
  <2>4. lastEnd \in Int /\ CoveredUpTo(lastEnd)' /\ CoveredUpTo(checkpoint.end)' /\ checkpoint'.end <= lastEnd
    BY <2>1, <2>2, <2>3, BlocksAreNumbers DEF CoverInv, CoveredUpTo, TypeInv, TypeOK
  <2> QED
    BY <2>1, <2>2, <2>4 DEF CoverInv
<1>15. CASE Finish
  BY <1>15, StopKeepsCover DEF Finish
<1>16. CASE Crash
  BY <1>16, StopKeepsCover DEF Crash, durable
<1>17. CASE Cancel \/ Reorg \/ UNCHANGED vars
  <2>1. UNCHANGED <<cells, headers, checkpoint, pc, sub, decision, rows, unsunk, lastEnd>>
    BY <1>17 DEF Cancel, Reorg, vars, durable, process, walk
  <2>2. OneHashPerBlock' /\ EventsInTheirCells' /\ Persisted' = Persisted
    BY <2>1, TablesKept DEF CoverInv
  <2> QED
    BY <2>1, <2>2 DEF CoverInv, CoveredUpTo, RowsOfWindow, WindowHeld, EventsIn
<1> QED
  BY <1>1, <1>3, <1>4, <1>5, <1>6, <1>7, <1>8, <1>9, <1>11, <1>12, <1>13, <1>14, <1>15, <1>16, <1>17
  DEF Next, RunnerStep

\* The durable checkpoint never runs ahead of the committed partitions, whatever the
\* chain, the windows and the cells, across crashes, cancellations and reorgs, as
\* long as no response is too large (_process_successful_rows, _persist_checkpoint).
THEOREM CheckpointIsCovered ==
  ASSUME MayOverflow = FALSE
  PROVE  Spec => []CheckpointCoversPersistedEvents
<1>1. TypeInv /\ CoverInv => CheckpointCoversPersistedEvents
  BY DEF CoverInv, CoveredUpTo, CheckpointCoversPersistedEvents, CoveredEvents
<1>2. TypeInv /\ CoverInv /\ [Next]_vars => (TypeInv /\ CoverInv)'
  BY TypeStep, CoverStep
<1> QED
  BY <1>1, <1>2, TypeInit, CoverInit, PTL DEF Spec

\* A persisted event below the checkpoint has its header row, although the headers
\* are written after the partitions and in transactions of their own.
THEOREM CoveredHeadersAreThere ==
  ASSUME MayOverflow = FALSE
  PROVE  Spec => []CoveredEventsHaveHeaders
<1>1. TypeInv /\ CoverInv => CoveredEventsHaveHeaders
  BY DEF CoverInv, CoveredUpTo, CoveredEventsHaveHeaders
<1>2. TypeInv /\ CoverInv /\ [Next]_vars => (TypeInv /\ CoverInv)'
  BY TypeStep, CoverStep
<1> QED
  BY <1>1, <1>2, TypeInit, CoverInit, PTL DEF Spec

-----------------------------------------------------------------------------
(***************************************************************************)
(* A checkpoint the chain has forked below is never extended.  Hashes      *)
(* pinned before the fork are of fork 0, so that the run which resumes a   *)
(* stale checkpoint stops where it compares the hash.                      *)
(***************************************************************************)
OfOldFork(h) == h = NoHash \/ h.fork = 0
ForkInv ==
    /\ fork = NoFork => /\ checkpoint # NoCheckpoint => OfOldFork(checkpoint.hash)
                        /\ OfOldFork(lastHash) /\ OfOldFork(decision.pinned)
    /\ stale => /\ fork # NoFork /\ checkpoint # NoCheckpoint
                /\ fork <= checkpoint.end /\ OfOldFork(checkpoint.hash)
    /\ staleStart /\ pc # "idle" => pc = "verify" /\ stale

LEMMA AnswersAreOld ==
  ASSUME NEW from, NEW to \in Blocks, fork = NoFork, NEW d \in Answers(from, to)
  PROVE  OfOldFork(d.pinned)
<1>1. HashOf(to).fork = 0
  BY BlocksAreNumbers DEF HashOf
<1> QED
  BY <1>1 DEF Answers, Failed, OfOldFork

LEMMA StaleHashDiffers ==
  ASSUME TypeInv, ForkInv, stale PROVE HashOf(checkpoint.end) # checkpoint.hash
<1>1. /\ checkpoint.end \in Blocks /\ fork \in Nat /\ fork <= checkpoint.end /\ OfOldFork(checkpoint.hash)
      /\ checkpoint.end \in Nat
  BY BlocksAreNumbers DEF ForkInv, TypeInv, TypeOK, Checkpoints
<1>2. HashOf(checkpoint.end).fork = 1
  BY <1>1 DEF HashOf
<1>3. HashOf(checkpoint.end) \in Hashes
  BY <1>1 DEF HashOf, Hashes
<1> QED
  BY <1>1, <1>2, <1>3, SentinelAssumption DEF OfOldFork, SentinelAssumption

LEMMA ForkInit == Init => ForkInv
BY DEF Init, ForkInv, OfOldFork, Undecided

\* A step of a run past the comparison that leaves the checkpoint alone.
LEMMA WalkKeepsFork ==
  ASSUME ForkInv, UNCHANGED <<checkpoint, fork, stale, staleStart>>, pc \notin {"idle", "verify"},
         fork = NoFork => OfOldFork(lastHash') /\ OfOldFork(decision'.pinned)
  PROVE  ForkInv'
BY DEF ForkInv, OfOldFork

LEMMA StopKeepsFork ==
  ASSUME ForkInv, Stop, UNCHANGED <<checkpoint, chain>> PROVE ForkInv'
BY DEF ForkInv, OfOldFork, chain, Stop, GoTo, Undecided

LEMMA ForkStep == TypeInv /\ ForkInv /\ [Next]_vars => ForkInv'
<1> SUFFICES ASSUME TypeInv, ForkInv, [Next]_vars PROVE ForkInv'
  OBVIOUS
<1>0. fork = NoFork => OfOldFork(lastHash) /\ OfOldFork(decision.pinned)
  BY DEF ForkInv
<1>1. ASSUME NEW t \in Targets, NEW cfg \in Configs, Begin(t, cfg) PROVE ForkInv'
  <2>1. /\ UNCHANGED <<checkpoint, fork, stale, decision>> /\ staleStart' = stale
        /\ pc' = IF checkpoint = NoCheckpoint THEN "plan" ELSE "verify"
        /\ lastHash' = IF checkpoint = NoCheckpoint THEN lastHash ELSE checkpoint.hash
    BY <1>1 DEF Begin, GoTo
  <2> QED
    BY <2>1 DEF ForkInv, OfOldFork
<1>2. ASSUME NEW r, HaltRun(r) PROVE ForkInv'
  BY <1>2, StopKeepsFork DEF HaltRun
<1>3. CASE VerifyEndBlockHash
  <2>1. CASE /\ pc = "verify" /\ HashOf(checkpoint.end) = checkpoint.hash
             /\ GoTo("plan") /\ UNCHANGED <<durable, config, walk, cancelled, chain>>
    <3>1. ~ stale
      BY <2>1, StaleHashDiffers
    <3> QED
      BY <2>1, <3>1 DEF GoTo, ForkInv, OfOldFork, durable, walk, chain
  <2> QED
    BY <1>2, <1>3, <2>1 DEF VerifyEndBlockHash
<1>4. CASE Plan
  BY <1>0, <1>2, <1>4, WalkKeepsFork DEF Plan, durable, walk, chain
<1>5. CASE NextWindow
  <2>1. OfOldFork(decision'.pinned) \/ decision' = decision
    BY <1>5 DEF NextWindow, Undecided, OfOldFork
  <2> QED
    BY <1>0, <1>5, <2>1, WalkKeepsFork DEF NextWindow, durable, chain
<1>6. pc \in {"cover", "left", "right"} =>
         sub.from \in Nat /\ sub.to \in Blocks /\ sub.to \in Nat /\ sub.from \in Blocks
  BY BlocksAreNumbers DEF TypeInv, TypeOK
<1>7. CASE Cover
  <2>1. fork = NoFork => OfOldFork(decision'.pinned)
    BY <1>6, <1>7, AnswersAreOld DEF Cover
  <2> QED
    BY <1>0, <1>7, <2>1, WalkKeepsFork DEF Cover, durable, Answered
<1>8. CASE CoverLeft
  <2>1. SplitPoint(sub) \in Blocks
    BY <1>6, <1>8, BlocksAreNumbers DEF CoverLeft, SplitPoint, TypeInv, RunTypes
  <2>2. fork = NoFork => OfOldFork(decision'.pinned)
    BY <1>8, <2>1, AnswersAreOld DEF CoverLeft
  <2> QED
    BY <1>0, <1>8, <2>2, WalkKeepsFork DEF CoverLeft, durable, Answered
<1>9. CASE CoverRight
  <2>1. PICK d \in Answers(SplitPoint(sub) + 1, sub.to) : decision' = MergeHalves(decision, d)
    BY <1>9 DEF CoverRight
  <2>2. fork = NoFork => OfOldFork(d.pinned)
    BY <1>6, <1>9, AnswersAreOld DEF CoverRight
  <2>3. fork = NoFork => OfOldFork(decision'.pinned)
    BY <1>0, <2>1, <2>2 DEF MergeHalves, OfOldFork
  <2> QED
    BY <1>0, <1>9, <2>3, WalkKeepsFork DEF CoverRight, durable, Answered
<1>10. ASSUME NEW r PROVE OfOldFork(Failed(r).pinned)
  BY DEF Failed, OfOldFork
<1>11. CASE FetchHeaders
  <2>1. OfOldFork(decision'.pinned) \/ decision' = decision
    BY <1>10, <1>11 DEF FetchHeaders
  <2> QED
    BY <1>0, <1>11, <2>1, WalkKeepsFork DEF FetchHeaders, durable, chain
<1>12. ASSUME NEW c \in Cells, AppendCell(c) PROVE ForkInv'
  <2>1. OfOldFork(decision'.pinned) \/ decision' = decision
    BY <1>10, <1>12 DEF AppendCell
  <2> QED
    BY <1>0, <1>12, <2>1, WalkKeepsFork DEF AppendCell, chain
<1>13. CASE AppendDone \/ SinkHeader
  <2>1. /\ UNCHANGED <<checkpoint, chain, lastHash, decision>> /\ pc \in {"append", "sink"}
    BY <1>13 DEF AppendDone, SinkHeader, durable, walk
  <2> QED
    BY <1>0, <2>1, WalkKeepsFork DEF chain
<1>14. CASE RecordInterval
  <2>1. /\ UNCHANGED <<checkpoint, chain, decision>> /\ pc = "record"
        /\ lastHash' = lastHash \/ lastHash' = decision.pinned
    BY <1>14 DEF RecordInterval
  <2> QED
    BY <1>0, <2>1, WalkKeepsFork DEF chain
<1>15. CASE UpsertCheckpoint
  <2>1. /\ UNCHANGED <<fork, staleStart, lastHash, decision>> /\ pc = "checkpoint" /\ ~ staleStart
    BY <1>15 DEF UpsertCheckpoint, ForkInv, walk
  <2>2. CASE checkpoint'.hash = lastHash /\ ~ stale'
    BY <1>0, <2>1, <2>2 DEF ForkInv, OfOldFork
  <2>3. CASE /\ checkpoint # NoCheckpoint /\ stale' = stale
             /\ checkpoint' # NoCheckpoint /\ checkpoint'.hash = checkpoint.hash /\ checkpoint'.end = checkpoint.end
    BY <1>0, <2>1, <2>3 DEF ForkInv, OfOldFork
  <2> QED
    BY <1>15, <2>2, <2>3, SentinelAssumption
    DEF UpsertCheckpoint, TypeInv, TypeOK, Checkpoints, SentinelAssumption
<1>16. CASE Finish
  BY <1>16, StopKeepsFork DEF Finish
<1>17. CASE Crash
  BY <1>17, StopKeepsFork DEF Crash, durable
<1>18. CASE Reorg
  <2>1. /\ fork = NoFork /\ fork' \in Blocks /\ UNCHANGED <<checkpoint, pc, staleStart>>
        /\ stale' = (checkpoint # NoCheckpoint /\ fork' <= checkpoint.end)
    BY <1>18 DEF Reorg, durable, process
  <2>2. fork' # NoFork
    BY <2>1, BlocksAreNumbers
  <2> QED
    BY <2>1, <2>2 DEF ForkInv, OfOldFork
<1>19. CASE Cancel \/ UNCHANGED vars
  <2>1. UNCHANGED <<checkpoint, chain, pc, lastHash, decision>>
    BY <1>19 DEF Cancel, vars, durable, process, walk
  <2> QED
    BY <2>1 DEF ForkInv, OfOldFork, chain
<1> QED
  BY <1>1, <1>3, <1>4, <1>5, <1>7, <1>8, <1>9, <1>11, <1>12, <1>13, <1>14, <1>15, <1>16, <1>17, <1>18, <1>19
  DEF Next, RunnerStep

\* A run that resumes a checkpoint the chain has forked below writes nothing: the
\* comparison of _verify_qualified_end_block_hash cannot be passed with a hash
\* pinned before the fork, nor without one.
THEOREM ForkedPrefixStands == Spec => ForkedPrefixNeverExtended
<1>1. ForkInv /\ [Next]_vars =>
         [staleStart /\ pc # "idle" => UNCHANGED <<checkpoint, cells, headers>>]_vars
  <2> SUFFICES ASSUME ForkInv, Next, staleStart, pc = "verify"
               PROVE  UNCHANGED <<checkpoint, cells, headers>>
    BY DEF ForkInv
  <2>1. CASE RunnerStep
    BY <2>1 DEF RunnerStep, VerifyEndBlockHash, HaltRun, Plan, NextWindow, Cover, CoverLeft, CoverRight,
                FetchHeaders, AppendCell, AppendDone, SinkHeader, RecordInterval, UpsertCheckpoint, Finish, durable
  <2> QED
    BY <2>1 DEF Next, Begin, Cancel, Crash, Reorg, durable
<1> QED
  BY <1>1, TypeInit, TypeStep, ForkInit, ForkStep, PTL DEF Spec, ForkedPrefixNeverExtended

\* The checkpoint only moves forward and keeps its hash while it stands, across
\* runs, crashes and reorgs (upsert_checkpoint's MAX and its conditional hash).
THEOREM CheckpointsAdvance == Spec => CheckpointMonotonic
<1> DEFINE Advances == checkpoint # NoCheckpoint =>
          /\ checkpoint' # NoCheckpoint
          /\ checkpoint'.end >= checkpoint.end
          /\ checkpoint'.end = checkpoint.end => checkpoint'.hash = checkpoint.hash
<1>1. TypeInv /\ [Next]_vars => [Advances]_vars
  <2> SUFFICES ASSUME TypeInv, Next, checkpoint # NoCheckpoint PROVE Advances
    OBVIOUS
  <2>0. checkpoint \in Checkpoints /\ checkpoint.end \in Nat
    BY BlocksAreNumbers DEF TypeInv, TypeOK, Checkpoints
  <2>1. CASE UpsertCheckpoint
    <3>1. checkpoint' # NoCheckpoint
      BY <2>1, TypeStep, SentinelAssumption
      DEF UpsertCheckpoint, SentinelAssumption, TypeInv, TypeOK, RunTypes, Checkpoints
    <3>2. lastEnd \in Int
      BY BlocksAreNumbers DEF TypeInv, TypeOK
    <3> QED
      BY <2>0, <2>1, <3>1, <3>2 DEF UpsertCheckpoint, Checkpoints
  <2>2. CASE checkpoint' = checkpoint
    BY <2>0, <2>2
  <2> QED
    BY <2>1, <2>2 DEF Next, RunnerStep, Begin, VerifyEndBlockHash, HaltRun, Plan, NextWindow, Cover, CoverLeft,
      CoverRight, FetchHeaders, AppendCell, AppendDone, SinkHeader, RecordInterval, Finish,
      Cancel, Crash, Reorg, durable
<1> QED
  BY <1>1, TypeInit, TypeStep, PTL DEF Spec, CheckpointMonotonic

-----------------------------------------------------------------------------
(***************************************************************************)
(* The covered intervals of a run.  They lie between its first block and   *)
(* the covered end without gap or overlap, and the checkpoint follows the  *)
(* covered end except between an interval record and its upsert.           *)
(***************************************************************************)
CoveredStates == {"successful", "scanned_empty"}
CoveringIntervals(b) == {i \in intervals : i.state \in CoveredStates /\ i.from <= b /\ b <= i.to}
NoOverlap == \A b \in Blocks : \A i, j \in CoveringIntervals(b) : i = j
NoGapUpTo(e) == \A b \in Blocks : run.from <= b /\ b <= e => CoveringIntervals(b) # {}
RunIsUnderWay ==
    /\ ~ run.complete
    /\ \A i \in intervals : i.state \in CoveredStates => i.to <= lastEnd
    /\ NoGapUpTo(lastEnd)
    /\ checkpoint # NoCheckpoint => checkpoint.end <= lastEnd
    /\ pc # "checkpoint" => IF checkpoint = NoCheckpoint THEN lastEnd = PoolInitBlock - 1
                                                         ELSE checkpoint.end = lastEnd
    /\ pc = "final" /\ run.reason = "none" => lastEnd >= run.target
OnceInv ==
    /\ NoOverlap
    /\ pc # "idle" => RunIsUnderWay
    /\ run.complete => /\ NoGapUpTo(run.target)
                       /\ checkpoint # NoCheckpoint /\ checkpoint.end >= run.target
    /\ decision.state \in {"failed", "cancelled"} => decision.reason # "none"

LEMMA TargetsAreNumbers == \A t \in Targets : t \in Blocks /\ t \in Nat
BY BlocksAssumption, BlocksAreNumbers DEF BlocksAssumption

LEMMA OnceInit == Init => OnceInv
BY DEF Init, OnceInv, NoOverlap, CoveringIntervals, Undecided

\* A step of a run that records nothing.
LEMMA WalkKeepsOnce ==
  ASSUME OnceInv, UNCHANGED <<intervals, run, lastEnd, checkpoint>>,
         pc \notin {"idle", "checkpoint"}, pc' \notin {"idle", "checkpoint"},
         pc' = "final" => lastEnd >= run.target,
         decision'.state \in {"failed", "cancelled"} => decision'.reason # "none"
  PROVE  OnceInv'
BY DEF OnceInv, NoOverlap, CoveringIntervals, NoGapUpTo, RunIsUnderWay

\* A run that stops without being marked complete.
LEMMA StopKeepsOnce ==
  ASSUME OnceInv, pc # "idle", Stop, UNCHANGED <<intervals, checkpoint>>, run'.complete = run.complete
  PROVE  OnceInv'
BY DEF OnceInv, NoOverlap, CoveringIntervals, RunIsUnderWay, Stop, GoTo, Undecided

LEMMA AnswersExplain ==
  ASSUME NEW from, NEW to, NEW d \in Answers(from, to)
  PROVE  d.state \in {"failed", "cancelled"} => d.reason # "none"
BY DEF Answers, Failed

\* A covered window lies behind every covered interval before it.
LEMMA RecordKeepsOnce ==
  ASSUME TypeInv, OnceInv, RecordInterval, decision.state \notin {"failed", "cancelled"}
  PROVE  OnceInv'
<1>1. /\ pc = "record" /\ pc' = "checkpoint" /\ UNCHANGED <<run, checkpoint, decision>>
      /\ intervals' = intervals \cup {[from |-> sub.from, to |-> sub.to, state |-> decision.state]}
      /\ RunIsUnderWay
  BY DEF RecordInterval, GoTo, OnceInv
<1>2. /\ sub.from = lastEnd + 1 /\ sub.from <= sub.to /\ sub.from \in Nat /\ sub.to \in Nat /\ lastEnd \in Int
      /\ decision.state \in CoveredStates
  BY <1>1, BlocksAreNumbers DEF TypeInv, TypeOK, RunTypes, Placed, Decisions, States, CoveredStates
<1>3. lastEnd' = sub.to
  BY <1>2 DEF RecordInterval, Maximum
<1>n. PICK new : new = [from |-> sub.from, to |-> sub.to, state |-> decision.state]
  OBVIOUS
<1>4. /\ new.from = lastEnd + 1 /\ new.to = lastEnd' /\ new.state \in CoveredStates
      /\ intervals' = intervals \cup {new} /\ lastEnd' \in Nat /\ lastEnd < lastEnd'
  BY <1>1, <1>2, <1>3, <1>n
<1>5. \A i \in intervals : i.from \in Nat /\ i.to \in Nat
  BY BlocksAreNumbers DEF TypeInv, TypeOK, Intervals
<1>6. \A i \in intervals : i.state \in CoveredStates => i.to <= lastEnd
  BY <1>1 DEF RunIsUnderWay
<1>7. ASSUME NEW b \in Blocks PROVE
         CoveringIntervals(b)' = IF lastEnd + 1 <= b /\ b <= lastEnd' THEN CoveringIntervals(b) \cup {new}
                                 ELSE CoveringIntervals(b)
  BY <1>4 DEF CoveringIntervals
<1>8. ASSUME NEW b \in Blocks, lastEnd + 1 <= b PROVE CoveringIntervals(b) = {}
  BY <1>2, <1>5, <1>6, <1>8, BlocksAreNumbers DEF CoveringIntervals
<1>9. NoOverlap'
  BY <1>7, <1>8 DEF OnceInv, NoOverlap
<1>10. NoGapUpTo(lastEnd)'
  <2> SUFFICES ASSUME NEW b \in Blocks, run.from <= b, b <= lastEnd' PROVE CoveringIntervals(b)' # {}
    BY <1>1 DEF NoGapUpTo
  <2>1. CASE b <= lastEnd
    BY <1>1, <1>7, <2>1 DEF RunIsUnderWay, NoGapUpTo
  <2>2. CASE ~ (b <= lastEnd)
    <3>1. lastEnd + 1 <= b
      BY <1>2, <2>2, BlocksAreNumbers
    <3> QED
      BY <1>7, <3>1
  <2> QED
    BY <2>1, <2>2
<1>11. \A i \in intervals' : i.state \in CoveredStates => i.to <= lastEnd'
  BY <1>2, <1>4, <1>5, <1>6
<1>12. checkpoint # NoCheckpoint => checkpoint.end <= lastEnd'
  <2>1. checkpoint # NoCheckpoint => checkpoint.end \in Nat /\ checkpoint.end <= lastEnd
    BY <1>1, BlocksAreNumbers DEF RunIsUnderWay, TypeInv, TypeOK, Checkpoints
  <2> QED
    BY <1>2, <1>4, <2>1
<1> QED
  BY <1>1, <1>9, <1>10, <1>11, <1>12 DEF OnceInv, RunIsUnderWay

LEMMA OnceStep == TypeInv /\ OnceInv /\ [Next]_vars => OnceInv'
<1> SUFFICES ASSUME TypeInv, OnceInv, [Next]_vars PROVE OnceInv'
  OBVIOUS
<1>0. decision.state \in {"failed", "cancelled"} => decision.reason # "none"
  BY DEF OnceInv
<1>1. ASSUME NEW t \in Targets, NEW cfg \in Configs, Begin(t, cfg) PROVE OnceInv'
  <2>1. /\ UNCHANGED <<checkpoint, decision>> /\ intervals' = {} /\ ~ run'.complete /\ run'.reason = "none"
        /\ pc' \in {"plan", "verify"} /\ pc = "idle"
        /\ lastEnd' = IF checkpoint = NoCheckpoint THEN lastEnd ELSE checkpoint.end
        /\ run'.from = IF checkpoint = NoCheckpoint THEN PoolInitBlock ELSE checkpoint.end + 1
    BY <1>1 DEF Begin, GoTo
  <2>2. lastEnd = PoolInitBlock - 1 /\ (checkpoint # NoCheckpoint => checkpoint.end \in Nat)
    BY <2>1, BlocksAreNumbers DEF TypeInv, TypeOK, RunTypes, Checkpoints
  <2>3. run'.from = lastEnd' + 1 /\ lastEnd' \in Int
    BY <2>1, <2>2, BlocksAreNumbers
  <2>4. NoGapUpTo(lastEnd)'
    <3> SUFFICES ASSUME NEW b \in Blocks, run'.from <= b, b <= lastEnd' PROVE FALSE
      BY DEF NoGapUpTo
    <3>1. b \in Nat
      BY BlocksAreNumbers
    <3> QED
      <4>1. PICK e \in Int : e = lastEnd'
        BY <2>3
      <4>2. run'.from = e + 1 /\ run'.from <= b /\ b <= e
        BY <2>3, <4>1
      <4> QED
        BY <3>1, <4>2
  <2>5. NoOverlap'
    BY <2>1 DEF NoOverlap, CoveringIntervals
  <2> QED
    BY <1>0, <2>1, <2>2, <2>4, <2>5 DEF OnceInv, RunIsUnderWay
<1>2. ASSUME NEW r, HaltRun(r), pc # "idle" PROVE OnceInv'
  BY <1>2, StopKeepsOnce DEF HaltRun, TypeInv, TypeOK
<1>3. CASE VerifyEndBlockHash \/ Plan
  <2>1. CASE /\ pc \in {"verify", "plan"} /\ pc' \in {"plan", "next"}
             /\ UNCHANGED <<durable, config, walk, cancelled, chain>>
    BY <1>0, <2>1, WalkKeepsOnce DEF durable, walk
  <2> QED
    BY <1>2, <1>3, <2>1 DEF VerifyEndBlockHash, Plan, GoTo
<1>4. CASE NextWindow
  <2>1. /\ UNCHANGED <<intervals, run, lastEnd, checkpoint>> /\ pc = "next" /\ pc' \in {"final", "record", "cover"}
        /\ pc' = "final" => cursor > run.target
    BY <1>4 DEF NextWindow, GoTo, durable
  <2>2. decision' = decision \/ decision'.reason = "cancelled_by_operator" \/ decision'.state = "none"
    BY <1>4 DEF NextWindow, Undecided
  <2>3. pc' = "final" => lastEnd >= run.target
    <3>1. run.target \in Targets /\ cursor = lastEnd + 1 /\ lastEnd \in Int
      BY <2>1, BlocksAreNumbers DEF TypeInv, TypeOK, RunTypes
    <3>2. run.target \in Nat
      BY <3>1, TargetsAreNumbers
    <3> QED
      BY <2>1, <3>1, <3>2
  <2> QED
    BY <1>0, <2>1, <2>2, <2>3, WalkKeepsOnce
<1>5. CASE Cover \/ CoverLeft \/ CoverRight
  <2>1. /\ UNCHANGED <<intervals, run, lastEnd, checkpoint>> /\ pc \in {"cover", "left", "right"}
        /\ pc' \in {"left", "right", "headers", "record"}
    BY <1>5 DEF Cover, CoverLeft, CoverRight, GoTo, durable
  <2>2. PICK from, to : \E d \in Answers(from, to) : decision' = d \/ decision' = MergeHalves(decision, d)
    BY <1>5 DEF Cover, CoverLeft, CoverRight
  <2>3. decision'.state \in {"failed", "cancelled"} => decision'.reason # "none"
    BY <1>0, <2>2, AnswersExplain DEF MergeHalves
  <2> QED
    BY <2>1, <2>3, WalkKeepsOnce
<1>6. ASSUME NEW c \in Cells, FetchHeaders \/ AppendCell(c) PROVE OnceInv'
  <2>1. /\ UNCHANGED <<intervals, run, lastEnd, checkpoint>> /\ pc \in {"headers", "append"}
        /\ pc' \in {"append", "record"}
    BY <1>6 DEF FetchHeaders, AppendCell, GoTo, durable
  <2>2. decision' = decision \/ decision' = Failed("header_fetch_failed")
          \/ decision' = Failed("partition_row_loss_guard")
    BY <1>6 DEF FetchHeaders, AppendCell
  <2> QED
    BY <1>0, <2>1, <2>2, WalkKeepsOnce DEF Failed
<1>7. CASE FetchHeaders
  <2>1. CellOf(PoolInitBlock) \in Cells
    BY BlocksAreNumbers DEF Cells
  <2> QED
    BY <1>6, <1>7, <2>1
<1>8. CASE AppendDone \/ SinkHeader
  <2>1. /\ UNCHANGED <<intervals, run, lastEnd, checkpoint, decision>> /\ pc \in {"append", "sink"}
        /\ pc' \in {"sink", "record"}
    BY <1>8 DEF AppendDone, SinkHeader, GoTo, durable, walk
  <2> QED
    BY <1>0, <2>1, WalkKeepsOnce
<1>9. CASE RecordInterval
  <2>1. CASE decision.state \in {"failed", "cancelled"}
    <3>1. /\ UNCHANGED <<lastEnd, checkpoint, decision>> /\ pc = "record" /\ pc' = "final"
          /\ run' = [run EXCEPT !.reason = decision.reason]
          /\ intervals' = intervals \cup {[from |-> sub.from, to |-> sub.to, state |-> decision.state]}
      BY <1>9, <2>1 DEF RecordInterval, GoTo
    <3>2. run'.complete = run.complete /\ run'.from = run.from /\ run'.reason # "none"
      BY <1>0, <2>1, <3>1 DEF TypeInv, TypeOK
    <3>3. \A i \in intervals' : i.state \in CoveredStates => i \in intervals
      BY <2>1, <3>1 DEF CoveredStates
    <3>4. \A b : CoveringIntervals(b)' = CoveringIntervals(b)
      BY <3>1, <3>3 DEF CoveringIntervals
    <3> QED
      BY <1>0, <3>1, <3>2, <3>3, <3>4 DEF OnceInv, NoOverlap, NoGapUpTo, RunIsUnderWay
  <2> QED
    BY <1>9, <2>1, RecordKeepsOnce
<1>10. CASE UpsertCheckpoint
  <2>1. /\ UNCHANGED <<intervals, run, lastEnd, decision>> /\ pc = "checkpoint" /\ pc' = "next" /\ RunIsUnderWay
    BY <1>10 DEF UpsertCheckpoint, GoTo, walk, OnceInv
  <2>2. checkpoint' # NoCheckpoint /\ checkpoint'.end = lastEnd
    <3>1. /\ lastEnd \in Blocks /\ lastEnd \in Nat /\ lastHash \in Hashes \cup {NoHash} /\ config \in Configs
          /\ checkpoint # NoCheckpoint => /\ checkpoint \in Checkpoints /\ checkpoint.end \in Nat
                                          /\ checkpoint.end <= lastEnd
      BY <2>1, BlocksAreNumbers DEF TypeInv, TypeOK, RunTypes, RunIsUnderWay, Checkpoints
    <3>2. checkpoint' \in Checkpoints /\ checkpoint'.end = lastEnd
      BY <1>10, <3>1 DEF UpsertCheckpoint, Checkpoints
    <3> QED
      BY <3>2, SentinelAssumption DEF SentinelAssumption
  <2>3. lastEnd \in Int
    BY BlocksAreNumbers DEF TypeInv, TypeOK
  <2> QED
    BY <1>0, <2>1, <2>2, <2>3 DEF OnceInv, NoOverlap, CoveringIntervals, NoGapUpTo, RunIsUnderWay
<1>11. CASE Finish
  <2>1. /\ UNCHANGED <<intervals, checkpoint>> /\ pc = "final" /\ pc' = "idle" /\ decision'.state = "none"
        /\ run'.from = run.from /\ run'.target = run.target /\ RunIsUnderWay
        /\ run'.complete => run.reason = "none"
    BY <1>11 DEF Finish, Stop, GoTo, Undecided, TypeInv, TypeOK, OnceInv
  <2>2. /\ run.target \in Blocks /\ run.target \in Nat /\ lastEnd \in Int
        /\ checkpoint # NoCheckpoint => checkpoint.end \in Nat
    <3>1. run.target \in Targets /\ lastEnd \in Int
      BY <2>1, BlocksAreNumbers DEF TypeInv, TypeOK, RunTypes
    <3>2. checkpoint # NoCheckpoint => checkpoint.end \in Nat
      BY BlocksAreNumbers DEF TypeInv, TypeOK, Checkpoints
    <3> QED
      BY <3>1, <3>2, TargetsAreNumbers
  <2>3. ASSUME run'.complete
        PROVE  NoGapUpTo(run.target)' /\ checkpoint' # NoCheckpoint /\ checkpoint'.end >= run'.target
    <3>1. lastEnd >= run.target /\ NoGapUpTo(lastEnd)
      BY <2>1, <2>3 DEF RunIsUnderWay
    <3>2. checkpoint # NoCheckpoint /\ checkpoint.end = lastEnd
      BY <2>1, <2>2, <3>1, BlocksAreNumbers DEF RunIsUnderWay
    <3>3. NoGapUpTo(run.target)
      BY <2>2, <3>1, BlocksAreNumbers DEF NoGapUpTo
    <3> QED
      BY <2>1, <3>1, <3>2, <3>3 DEF NoGapUpTo, CoveringIntervals
  <2> QED
    BY <2>1, <2>3 DEF OnceInv, NoOverlap, CoveringIntervals
<1>12. CASE Crash
  BY <1>12, StopKeepsOnce DEF Crash, durable
<1>13. CASE Cancel \/ Reorg \/ UNCHANGED vars
  <2>1. UNCHANGED <<intervals, run, lastEnd, checkpoint, decision, pc>>
    BY <1>13 DEF Cancel, Reorg, vars, durable, process, walk
  <2> QED
    BY <2>1 DEF OnceInv, NoOverlap, CoveringIntervals, NoGapUpTo, RunIsUnderWay
<1> QED
  BY <1>1, <1>3, <1>4, <1>5, <1>6, <1>7, <1>8, <1>9, <1>10, <1>11, <1>12, <1>13 DEF Next, RunnerStep

(***************************************************************************)
(* What is covered was answered for: a window only after its last request, *)
(* or after both halves when it was split.                                 *)
(***************************************************************************)
HasAnswer(lo, hi) == \A b \in Blocks : lo <= b /\ b <= hi => b \in answered
Refused == {"failed", "cancelled"}
AnsweredInv ==
    /\ pc # "idle" => HasAnswer(run.from, lastEnd)
    /\ pc = "right" => HasAnswer(sub.from, SplitPoint(sub))
    /\ pc \in {"headers", "append", "sink", "record"} /\ decision.state \notin Refused =>
           HasAnswer(sub.from, sub.to)
    /\ run.complete => HasAnswer(run.from, run.target)

LEMMA AnsweredInit == Init => AnsweredInv
BY DEF Init, AnsweredInv

\* A step of a run that asks no endpoint and covers nothing.
LEMMA WalkKeepsAnswers ==
  ASSUME AnsweredInv, UNCHANGED <<answered, run, lastEnd>>, pc # "idle", pc' # "right",
         pc' \in {"headers", "append", "sink", "record"} /\ decision'.state \notin Refused =>
             HasAnswer(sub'.from, sub'.to)
  PROVE  AnsweredInv'
BY DEF AnsweredInv, HasAnswer

LEMMA StopKeepsAnswers ==
  ASSUME AnsweredInv, Stop, UNCHANGED answered,
         run'.complete = run.complete, run'.from = run.from, run'.target = run.target
  PROVE  AnsweredInv'
BY DEF AnsweredInv, HasAnswer, Stop, GoTo

LEMMA AnswersAccumulate ==
  ASSUME NEW d, NEW from, NEW to, Answered(d, from, to)
  PROVE  /\ \A lo, hi : HasAnswer(lo, hi) => \A b \in Blocks : lo <= b /\ b <= hi => b \in answered'
         /\ d.state # "failed" => \A b \in Blocks : b \in from .. to => b \in answered'
BY DEF Answered, HasAnswer

LEMMA AnsweredStep == TypeInv /\ OnceInv /\ AnsweredInv /\ [Next]_vars => AnsweredInv'
<1> SUFFICES ASSUME TypeInv, OnceInv, AnsweredInv, [Next]_vars PROVE AnsweredInv'
  OBVIOUS
<1>1. ASSUME NEW t \in Targets, NEW cfg \in Configs, Begin(t, cfg) PROVE AnsweredInv'
  <2>1. /\ ~ run'.complete /\ pc' \in {"plan", "verify"} /\ pc = "idle"
        /\ lastEnd' = IF checkpoint = NoCheckpoint THEN lastEnd ELSE checkpoint.end
        /\ run'.from = IF checkpoint = NoCheckpoint THEN PoolInitBlock ELSE checkpoint.end + 1
    BY <1>1 DEF Begin, GoTo
  <2>2. lastEnd = PoolInitBlock - 1 /\ (checkpoint # NoCheckpoint => checkpoint.end \in Nat)
    BY <2>1, BlocksAreNumbers DEF TypeInv, TypeOK, RunTypes, Checkpoints
  <2>3. run'.from = lastEnd' + 1 /\ lastEnd' \in Int
    BY <2>1, <2>2, BlocksAreNumbers
  <2>4. ASSUME NEW b \in Blocks PROVE ~ (run'.from <= b /\ b <= lastEnd')
    <3>1. PICK e \in Int : e = lastEnd'
      BY <2>3
    <3>2. run'.from = e + 1 /\ b \in Nat
      BY <2>3, <3>1, BlocksAreNumbers
    <3>3. ~ (e + 1 <= b /\ b <= e)
      BY <3>2
    <3> QED BY <3>1, <3>2, <3>3, Zenon
  <2> QED BY <2>1, <2>4 DEF AnsweredInv, HasAnswer
<1>2. ASSUME NEW r, HaltRun(r) PROVE AnsweredInv'
  BY <1>2, StopKeepsAnswers DEF HaltRun, chain, TypeInv, TypeOK
<1>3. CASE VerifyEndBlockHash \/ Plan
  <2>1. CASE /\ pc \in {"verify", "plan"} /\ pc' \in {"plan", "next"}
             /\ UNCHANGED <<durable, config, walk, cancelled, chain>>
    BY <2>1, WalkKeepsAnswers DEF durable, walk, chain
  <2> QED
    BY <1>2, <1>3, <2>1 DEF VerifyEndBlockHash, Plan, GoTo
<1>4. CASE NextWindow
  <2>1. /\ UNCHANGED <<answered, run, lastEnd>> /\ pc = "next" /\ pc' \in {"final", "record", "cover"}
        /\ pc' = "record" => decision'.state = "cancelled"
    BY <1>4 DEF NextWindow, GoTo, durable, chain
  <2> QED BY <2>1, WalkKeepsAnswers DEF Refused
<1>5. CASE Cover
  <2>1. PICK d \in Answers(sub.from, sub.to) : decision' = d /\ Answered(d, sub.from, sub.to)
    BY <1>5 DEF Cover
  <2>2. /\ UNCHANGED <<run, lastEnd, sub>> /\ pc = "cover" /\ pc' \in {"left", "headers", "record"}
    BY <1>5 DEF Cover, GoTo, durable
  <2>3. d.state \notin Refused => \A b \in Blocks : sub.from <= b /\ b <= sub.to => b \in answered'
    <3>1. sub.from \in Int /\ sub.to \in Int
      BY <2>2, BlocksAreNumbers DEF TypeInv, TypeOK
    <3> QED BY <2>1, <3>1, BlocksAreNumbers, AnswersAccumulate DEF Refused
  <2> QED BY <2>1, <2>2, <2>3, AnswersAccumulate DEF AnsweredInv, HasAnswer
<1>6. CASE CoverLeft
  <2>1. PICK d \in Answers(sub.from, SplitPoint(sub)) :
           /\ decision' = d /\ Answered(d, sub.from, SplitPoint(sub))
           /\ IF d.state = "failed" THEN GoTo("record") ELSE GoTo("right")
    BY <1>6 DEF CoverLeft
  <2>2. /\ UNCHANGED <<run, lastEnd, sub>> /\ pc = "left" /\ SplitPoint(sub)' = SplitPoint(sub)
    BY <1>6 DEF CoverLeft, durable, SplitPoint
  <2>3. d.state # "failed" => \A b \in Blocks : sub.from <= b /\ b <= SplitPoint(sub) => b \in answered'
    <3>1. sub.from \in Int /\ SplitPoint(sub) \in Int
      BY <2>2, BlocksAreNumbers DEF TypeInv, TypeOK, SplitPoint
    <3> QED BY <2>1, <3>1, BlocksAreNumbers, AnswersAccumulate
  <2>4. pc' = "record" => decision'.state \in Refused
    BY <2>1 DEF GoTo, Refused
  <2>5. pc' = "right" => d.state # "failed"
    BY <2>1 DEF GoTo
  <2>6. pc' \in {"right", "record"}
    BY <2>1 DEF GoTo
  <2> QED BY <2>1, <2>2, <2>3, <2>4, <2>5, <2>6, AnswersAccumulate DEF AnsweredInv, HasAnswer
<1>7. CASE CoverRight
  <2>1. PICK d \in Answers(SplitPoint(sub) + 1, sub.to) :
           decision' = MergeHalves(decision, d) /\ Answered(d, SplitPoint(sub) + 1, sub.to)
    BY <1>7 DEF CoverRight
  <2>2. /\ UNCHANGED <<run, lastEnd, sub>> /\ pc = "right" /\ pc' = "record"
    BY <1>7 DEF CoverRight, GoTo, durable
  <2>3. decision'.state \notin Refused => d.state # "failed"
    BY <2>1 DEF MergeHalves, Refused
  <2>4. ASSUME d.state # "failed", NEW b \in Blocks, sub.from <= b, b <= sub.to
        PROVE  b \in answered'
    <3>1. sub.from \in Int /\ sub.to \in Int /\ SplitPoint(sub) \in Int /\ b \in Int
      BY <2>2, BlocksAreNumbers DEF TypeInv, TypeOK, SplitPoint
    <3>2. CASE b <= SplitPoint(sub)
      <4>1. b \in answered
        BY <2>2, <2>4, <3>2 DEF AnsweredInv, HasAnswer
      <4> QED BY <2>1, <4>1 DEF Answered
    <3>3. CASE ~ (b <= SplitPoint(sub))
      <4>1. b \in SplitPoint(sub) + 1 .. sub.to
        BY <2>4, <3>1, <3>3
      <4> QED BY <2>1, <2>4, <4>1, AnswersAccumulate
    <3> QED BY <3>2, <3>3
  <2> QED BY <2>1, <2>2, <2>3, <2>4, AnswersAccumulate DEF AnsweredInv, HasAnswer
<1>8. CASE FetchHeaders
  <2>1. /\ UNCHANGED <<answered, run, lastEnd, sub>> /\ pc = "headers" /\ pc' \in {"append", "record"}
        /\ decision' = decision \/ decision'.state = "failed"
    BY <1>8 DEF FetchHeaders, GoTo, durable, chain, Failed
  <2> QED BY <2>1, WalkKeepsAnswers DEF AnsweredInv, Refused
<1>9. ASSUME NEW c \in Cells, AppendCell(c) PROVE AnsweredInv'
  <2>1. /\ UNCHANGED <<answered, run, lastEnd, sub>> /\ pc = "append" /\ pc' \in {"append", "record"}
        /\ decision' = decision \/ decision'.state = "failed"
    BY <1>9 DEF AppendCell, GoTo, chain, Failed
  <2> QED BY <2>1, WalkKeepsAnswers DEF AnsweredInv, Refused
<1>10. CASE AppendDone \/ SinkHeader
  <2>1. /\ UNCHANGED <<answered, run, lastEnd, sub, decision>> /\ pc \in {"append", "sink"}
        /\ pc' \in {"sink", "record"}
    BY <1>10 DEF AppendDone, SinkHeader, GoTo, durable, walk, chain
  <2> QED BY <2>1, WalkKeepsAnswers DEF AnsweredInv
<1>11. CASE RecordInterval
  <2>1. CASE decision.state \in Refused
    <3>1. /\ UNCHANGED <<answered, lastEnd>> /\ pc = "record" /\ pc' = "final"
          /\ run' = [run EXCEPT !.reason = decision.reason]
      BY <1>11, <2>1 DEF RecordInterval, GoTo, chain, Refused
    <3>2. run'.complete = run.complete /\ run'.from = run.from /\ run'.target = run.target
      BY <3>1 DEF TypeInv, TypeOK
    <3> QED BY <3>1, <3>2 DEF AnsweredInv, HasAnswer
  <2>2. CASE decision.state \notin Refused
    <3>1. /\ UNCHANGED <<answered, run>> /\ pc = "record" /\ pc' = "checkpoint"
          /\ lastEnd' = Maximum(lastEnd, sub.to)
      BY <1>11, <2>2 DEF RecordInterval, GoTo, chain, Refused
    <3>2. sub.from = lastEnd + 1 /\ sub.from <= sub.to /\ sub.to \in Int /\ lastEnd \in Int
      BY <3>1, BlocksAreNumbers DEF TypeInv, TypeOK, RunTypes, Placed
    <3>3. lastEnd' = sub.to
      BY <3>1, <3>2 DEF Maximum
    <3>4. ASSUME NEW b \in Blocks, run.from <= b, b <= sub.to PROVE b \in answered
      <4>1. b \in Int
        BY BlocksAreNumbers
      <4>2. b <= lastEnd \/ sub.from <= b
        BY <3>2, <4>1
      <4> QED BY <2>2, <3>1, <3>4, <4>2 DEF AnsweredInv, HasAnswer
    <3> QED BY <3>1, <3>3, <3>4 DEF AnsweredInv, HasAnswer
  <2> QED BY <2>1, <2>2
<1>12. CASE UpsertCheckpoint
  <2>1. /\ UNCHANGED <<answered, run, lastEnd>> /\ pc = "checkpoint" /\ pc' = "next"
    BY <1>12 DEF UpsertCheckpoint, GoTo, walk
  <2> QED BY <2>1, WalkKeepsAnswers
<1>13. CASE Finish
  <2>1. /\ UNCHANGED answered /\ pc = "final" /\ pc' = "idle"
        /\ run'.from = run.from /\ run'.target = run.target /\ RunIsUnderWay
        /\ run'.complete => run.reason = "none"
    BY <1>13 DEF Finish, Stop, GoTo, TypeInv, TypeOK, OnceInv, chain
  <2>2. run.target \in Nat /\ lastEnd \in Int
    BY <2>1, TargetsAreNumbers, BlocksAreNumbers DEF TypeInv, TypeOK, RunTypes
  <2>3. run'.complete => lastEnd >= run.target
    BY <2>1 DEF RunIsUnderWay
  <2>4. run'.complete => HasAnswer(run.from, run.target)
    BY <2>1, <2>2, <2>3, BlocksAreNumbers DEF AnsweredInv, HasAnswer
  <2> QED BY <2>1, <2>4 DEF AnsweredInv, HasAnswer
<1>14. CASE Crash
  BY <1>14, StopKeepsAnswers DEF Crash, durable, chain
<1>15. CASE Cancel \/ Reorg \/ UNCHANGED vars
  <2>1. UNCHANGED <<answered, run, lastEnd, sub, decision, pc>>
    BY <1>15 DEF Cancel, Reorg, vars, durable, process, walk, chain
  <2> QED BY <2>1 DEF AnsweredInv, HasAnswer, SplitPoint
<1> QED
  BY <1>1, <1>3, <1>4, <1>5, <1>6, <1>7, <1>8, <1>9, <1>10, <1>11, <1>12, <1>13, <1>14, <1>15 DEF Next, RunnerStep

\* No block is covered twice, and a run marked complete has covered every block of
\* its plan, each of them answered for, and left the checkpoint at its end or beyond,
\* however often it splits, for any windows, cells and targets (IngestionRunner.run,
\* _cover_with_splits, RangePlanner.plan).
THEOREM CompleteRunsCoverOnce == Spec => []CompleteMeansCoveredOnce
<1>1. TypeInv /\ OnceInv /\ AnsweredInv => CompleteMeansCoveredOnce
  <2> SUFFICES ASSUME TypeInv, OnceInv, AnsweredInv PROVE CompleteMeansCoveredOnce
    OBVIOUS
  <2>1. \A b \in Blocks :
           CoveringIntervals(b) = {i \in {j \in intervals : j.state \in {"successful", "scanned_empty"}} :
                                      i.from <= b /\ b <= i.to}
    BY DEF CoveringIntervals, CoveredStates
  <2>2. ASSUME run.complete, NEW b \in run.from .. run.target
        PROVE  b \in Blocks /\ run.from <= b /\ b <= run.target
    <3>1. run.from \in Nat /\ PoolInitBlock <= run.from /\ run.target \in Targets \cup {0}
      BY BlocksAreNumbers DEF TypeInv, TypeOK
    <3>2. run.target \in Nat /\ run.target <= LastBlock
      BY <3>1, TargetsAreNumbers, BlocksAreNumbers
    <3> QED
      BY <2>2, <3>1, <3>2, BlocksAreNumbers
  <2>3. run.complete => run.from .. run.target \subseteq answered
    BY <2>2 DEF AnsweredInv, HasAnswer
  <2> QED
    BY <2>1, <2>2, <2>3 DEF OnceInv, NoOverlap, NoGapUpTo, CompleteMeansCoveredOnce
<1>2. TypeInv /\ OnceInv /\ AnsweredInv /\ [Next]_vars => (TypeInv /\ OnceInv /\ AnsweredInv)'
  BY TypeStep, OnceStep, AnsweredStep
<1> QED
  BY <1>1, <1>2, TypeInit, OnceInit, AnsweredInit, PTL DEF Spec

-----------------------------------------------------------------------------
(***************************************************************************)
(* Refinement: the runs are seen through the partitions as the dataset     *)
(* that the storage promises.                                              *)
(***************************************************************************)

LEMMA DatasetInit == Init => Dataset!Init
BY DEF Init, Dataset!Init

\* Only an append that finds its cell absent is visible, and it publishes.
LEMMA DatasetStep ==
  ASSUME TypeInv, [Next]_vars
  PROVE  [Dataset!Next]_(Dataset!vars)
<1>1. CASE UNCHANGED cells
  BY <1>1 DEF Dataset!vars
<1>2. ASSUME NEW c \in Cells, AppendCell(c), ~UNCHANGED cells
      PROVE  Dataset!Next
  <2>1. cells[c] = NoRow /\ BatchOf(c) # {} /\ cells' = [cells EXCEPT ![c] = BatchOf(c)]
    BY <1>2 DEF AppendCell, TypeInv, TypeOK
  <2>2. BatchOf(c) \in (SUBSET Hashes) \ {{}}
    BY <2>1 DEF BatchOf, TypeInv, TypeOK
  <2>3. Dataset!Publish(c)
    BY <2>1, <2>2 DEF Dataset!Publish
  <2> QED
    BY <2>3 DEF Dataset!Next
<1>3. CASE ~UNCHANGED cells
  <2>1. \E c \in Cells : AppendCell(c)
    BY <1>3 DEF Next, vars, durable, RunnerStep, Begin, VerifyEndBlockHash, Plan, HaltRun,
         NextWindow, Cover, CoverLeft, CoverRight, FetchHeaders, AppendDone, SinkHeader,
         RecordInterval, UpsertCheckpoint, Finish, Cancel, Crash, Reorg
  <2> QED
    BY <1>2, <1>3, <2>1
<1> QED
  BY <1>1, <1>3

\* Over any chain, windows, crashes and cancellations, a cell of the dataset is
\* published whole by one append_partition and never changed by a later window,
\* retry or run (_process_successful_rows, one commit per grid cell).
THEOREM RunsPublishWholeCells == Spec => PublishesWholeCells
<1>1. TypeInv /\ [Next]_vars => [Dataset!Next]_(Dataset!vars)
  BY DatasetStep
<1> QED
  BY TypeInit, TypeStep, DatasetInit, <1>1, PTL DEF Spec, PublishesWholeCells, Dataset!Spec
=============================================================================
