--------------------------- MODULE IngestionRunner ---------------------------
(***************************************************************************)
(* IngestionRunner.run with the RangePlanner's windows, the Router's       *)
(* answers, the adaptive split and the durable checkpoint, over a chain    *)
(* that may reorganise and a process that may die between two steps.       *)
(*                                                                         *)
(* Partition commits are those CommittedDataset promises: a batch for an   *)
(* absent grid cell is published whole, a batch for a present one is       *)
(* accepted only when it brings no new EventKey (RawPartitionWriter).      *)
(*                                                                         *)
(* A block hash is the block and the fork it is on; a block of EventBlocks *)
(* holds one pool event, whose EventKey is the hash of its block.  Budgets *)
(* and measured capabilities only decide which endpoint answers or that    *)
(* none does, and are left to the choice of the answer.                    *)
(***************************************************************************)
EXTENDS Integers

CONSTANTS
    PoolInitBlock,          \* the pool's Initialize block
    LastBlock,              \* bound: the highest block of the chain
    EventBlocks,            \* blocks with an event of the pool
    Targets,                \* requested_end_block of the runs
    Configs,                \* capability and budget snapshots of the runs
    BlocksPerPartition,     \* width of a grid cell
    MaxBlocksPerSubRange,   \* width of a planned window
    MayOverflow,            \* responses may exceed max_response_bytes
    MayReorg,               \* the chain may reorganise (once)
    NoCheckpoint, NoRow, NoHash

Blocks == PoolInitBlock .. LastBlock

ASSUME BlocksAssumption ==
    /\ PoolInitBlock \in Nat \ {0} /\ LastBlock \in Nat /\ PoolInitBlock <= LastBlock
    /\ EventBlocks \subseteq Blocks
    /\ Targets \subseteq Blocks
    /\ BlocksPerPartition \in Nat \ {0}
    /\ MaxBlocksPerSubRange \in Nat \ {0}
    /\ MayOverflow \in BOOLEAN /\ MayReorg \in BOOLEAN

CellOf(b) == b \div BlocksPerPartition
Cells == {CellOf(b) : b \in Blocks}

Hashes == [block : Blocks, fork : {0, 1}]
NoFork == LastBlock + 1

Checkpoints == [end : Blocks, hash : Hashes \cup {NoHash}, config : Configs]

ASSUME SentinelAssumption ==
    /\ NoCheckpoint \notin Checkpoints
    /\ NoHash \notin Hashes
    /\ \A keys \in SUBSET Hashes : keys # NoRow

VARIABLES
    \* the manifest and the partition files
    cells,       \* cell -> EventKeys of its file, or NoRow
    headers,     \* block_headers: the hashes with a header row
    checkpoint,  \* durable_checkpoints; its start is always PoolInitBlock
    run,         \* run_manifests: the row of the last run
    intervals,   \* run_intervals of the last run
    \* the runner's process
    pc,
    config,      \* snapshots of this run
    cursor,      \* first block of the next window
    sub,         \* the window, or half of it, being covered
    decision,    \* the CoverageDecision so far
    rows,        \* raw rows left to append: blocks with their header's hash
    unsunk,      \* headers left to upsert
    lastEnd,     \* last_covered_end
    lastHash,    \* last_covered_hash
    cancelled,   \* the CancellationToken
    \* the chain
    fork,        \* the first block of the new fork
    stale,       \* history: the chain forked below the checkpoint after it was advanced
    staleStart,  \* history: was that so when this run began
    answered     \* history: the blocks an endpoint has answered for in this run

durable == <<cells, headers, checkpoint, run, intervals>>
walk == <<cursor, sub, decision, rows, unsunk, lastEnd, lastHash>>
process == <<pc, config, walk, cancelled>>
chain == <<fork, stale, staleStart, answered>>
vars == <<durable, process, chain>>

\* The canonical hash of a block.
HashOf(b) == [block |-> b, fork |-> IF b >= fork THEN 1 ELSE 0]

Reasons == {"none", "checkpoint_block_hash_unverified", "checkpoint_block_hash_drift",
            "checkpoint_manifest_drift", "cancelled_by_operator", "endpoint_failure",
            "response_size_overflow", "header_fetch_failed", "partition_row_loss_guard"}
States == {"successful", "scanned_empty", "failed", "cancelled"}
Intervals == [from : Blocks, to : Blocks, state : States]
Decisions == [state : States \cup {"none"}, reason : Reasons, pinned : Hashes \cup {NoHash}]
Undecided == [state |-> "none", reason |-> "none", pinned |-> NoHash]
NoWindow == [from |-> PoolInitBlock, to |-> PoolInitBlock - 1]

Steps == {"idle", "verify", "plan", "next", "cover", "left", "right", "headers",
          "append", "sink", "record", "checkpoint", "final"}

TypeOK ==
    /\ cells \in [Cells -> (SUBSET Hashes) \cup {NoRow}]
    /\ headers \subseteq Hashes
    /\ checkpoint \in Checkpoints \cup {NoCheckpoint}
    /\ run \in [complete : BOOLEAN, reason : Reasons, target : Targets \cup {0},
                from : Blocks \cup {NoFork}]
    /\ intervals \subseteq Intervals
    /\ pc \in Steps
    /\ config \in Configs
    /\ cursor \in Blocks \cup {NoFork}
    /\ pc \notin {"idle", "verify", "plan", "next", "final"} =>
          sub.from \in Blocks /\ sub.to \in Blocks /\ sub.from <= sub.to
    /\ decision \in Decisions
    /\ rows \subseteq Hashes /\ unsunk \subseteq Hashes
    /\ lastEnd \in Blocks \cup {PoolInitBlock - 1}
    /\ lastHash \in Hashes \cup {NoHash}
    /\ cancelled \in BOOLEAN
    /\ fork \in Blocks \cup {NoFork} /\ stale \in BOOLEAN /\ staleStart \in BOOLEAN
    /\ answered \subseteq Blocks

Init ==
    /\ cells = [c \in Cells |-> NoRow]
    /\ headers = {}
    /\ checkpoint = NoCheckpoint
    /\ run = [complete |-> FALSE, reason |-> "none", target |-> 0, from |-> PoolInitBlock]
    /\ intervals = {}
    /\ pc = "idle"
    /\ config \in Configs
    /\ cursor = PoolInitBlock
    /\ sub = NoWindow
    /\ decision = Undecided
    /\ rows = {} /\ unsunk = {}
    /\ lastEnd = PoolInitBlock - 1 /\ lastHash = NoHash
    /\ cancelled = FALSE
    /\ fork = NoFork /\ stale = FALSE /\ staleStart = FALSE
    /\ answered = {}

GoTo(step) == pc' = step

\* The run has returned or died: nothing of it is left in memory.
Stop ==
    /\ GoTo("idle")
    /\ cancelled' = FALSE
    /\ cursor' = PoolInitBlock /\ sub' = NoWindow /\ decision' = Undecided
    /\ rows' = {} /\ unsunk' = {}
    /\ lastEnd' = PoolInitBlock - 1 /\ lastHash' = NoHash

-----------------------------------------------------------------------------
(***************************************************************************)
(* The planner.                                                            *)
(***************************************************************************)

Minimum(a, b) == IF a <= b THEN a ELSE b
Maximum(a, b) == IF a <= b THEN b ELSE a

GridAligned == MaxBlocksPerSubRange % BlocksPerPartition = 0

\* Mutant: the last window is not clipped to the target.
WindowEndUnclipped(b, target) ==
    IF GridAligned /\ b % BlocksPerPartition # 0
      THEN (CellOf(b) + 1) * BlocksPerPartition - 1
      ELSE b + MaxBlocksPerSubRange - 1

\* The window _split_into_windows puts at b: a short one up to the next grid
\* boundary when the split is aligned and b is inside a cell, a full one
\* otherwise.  After the first window an aligned split stays on boundaries.
WindowEnd(b, target) ==
    IF GridAligned /\ b % BlocksPerPartition # 0
      THEN Minimum((CellOf(b) + 1) * BlocksPerPartition - 1, target)
      ELSE Minimum(b + MaxBlocksPerSubRange - 1, target)

\* The last block of the left half of an overflowing window.
SplitPoint(s) == s.from + (s.to - s.from + 1) \div 2 - 1

-----------------------------------------------------------------------------
(***************************************************************************)
(* Starting a run.                                                         *)
(***************************************************************************)

\* A new run id: load the durable checkpoint.
Begin(target, cfg) ==
    /\ pc = "idle"
    /\ run' = [complete |-> FALSE, reason |-> "none", target |-> target,
               from |-> IF checkpoint = NoCheckpoint THEN PoolInitBlock
                                                     ELSE checkpoint.end + 1]
    /\ intervals' = {}
    /\ config' = cfg
    /\ IF checkpoint = NoCheckpoint
         THEN /\ GoTo("plan")
              /\ UNCHANGED <<cursor, lastEnd, lastHash>>
         ELSE /\ GoTo("verify")
              /\ cursor' = checkpoint.end + 1
              /\ lastEnd' = checkpoint.end /\ lastHash' = checkpoint.hash
    /\ staleStart' = stale /\ answered' = {}
    /\ UNCHANGED <<cells, headers, checkpoint, sub, decision, rows, unsunk, cancelled,
                   fork, stale>>

\* Mutant: a refused checkpoint is dropped, so that the next run is cold.
HaltRunForgetting(reason) ==
    /\ run' = [run EXCEPT !.reason = reason]
    /\ checkpoint' = NoCheckpoint
    /\ Stop
    /\ UNCHANGED <<cells, headers, intervals, config, chain>>

\* _halt_with_reason: the run manifest says why nothing was scanned.
HaltRun(reason) ==
    /\ run' = [run EXCEPT !.reason = reason]
    /\ Stop
    /\ UNCHANGED <<cells, headers, checkpoint, intervals, config, chain>>

\* Mutant: a checkpoint no endpoint can speak about is taken as valid.
VerifyEndBlockHashTrusting ==
    /\ pc = "verify"
    /\ \/ /\ HashOf(checkpoint.end) # checkpoint.hash
          /\ HaltRun("checkpoint_block_hash_drift")
       \/ /\ GoTo("plan")
          /\ UNCHANGED <<durable, config, walk, cancelled, chain>>

\* The first endpoint that answers gives the canonical hash at the covered
\* end; when none answers the checkpoint is refused as well.
VerifyEndBlockHash ==
    /\ pc = "verify"
    /\ \/ HaltRun("checkpoint_block_hash_unverified")
       \/ /\ HashOf(checkpoint.end) # checkpoint.hash
          /\ HaltRun("checkpoint_block_hash_drift")
       \/ /\ HashOf(checkpoint.end) = checkpoint.hash
          /\ GoTo("plan")
          /\ UNCHANGED <<durable, config, walk, cancelled, chain>>

\* A warm checkpoint written under other snapshots is refused; otherwise the
\* run manifest is persisted, complete = False, before any scan.
Plan ==
    /\ pc = "plan"
    /\ IF checkpoint # NoCheckpoint /\ checkpoint.config # config
         THEN HaltRun("checkpoint_manifest_drift")
         ELSE /\ GoTo("next")
              /\ UNCHANGED <<durable, config, walk, cancelled, chain>>

-----------------------------------------------------------------------------
(***************************************************************************)
(* Walking the windows.                                                    *)
(***************************************************************************)

\* The token is read at every window boundary and nowhere else.
NextWindow ==
    /\ pc = "next"
    /\ IF cursor > run.target
         THEN GoTo("final") /\ UNCHANGED <<sub, decision>>
         ELSE /\ sub' = [from |-> cursor, to |-> WindowEnd(cursor, run.target)]
              /\ IF cancelled
                   THEN /\ decision' = [state |-> "cancelled", pinned |-> NoHash,
                                        reason |-> "cancelled_by_operator"]
                        /\ GoTo("record")
                   ELSE decision' = Undecided /\ GoTo("cover")
    /\ UNCHANGED <<durable, config, cursor, rows, unsunk, lastEnd, lastHash, cancelled, chain>>

EventsIn(from, to) == {b \in EventBlocks : from <= b /\ b <= to}

Failed(reason) == [state |-> "failed", reason |-> reason, pinned |-> NoHash]

\* What cover_sub_range can answer for the blocks from..to: no endpoint was
\* able to, the response is too large, it is empty (and pinned to the hash of
\* the last block if the endpoint gives it), or it holds every event there.
Answers(from, to) ==
    {Failed("endpoint_failure")}
    \cup {d \in {Failed("response_size_overflow")} : MayOverflow /\ EventsIn(from, to) # {}}
    \cup {d \in [state : {"scanned_empty"}, reason : {"none"}, pinned : {NoHash, HashOf(to)}] :
              EventsIn(from, to) = {}}
    \cup {d \in [state : {"successful"}, reason : {"none"}, pinned : {NoHash}] :
              EventsIn(from, to) # {}}

Overflowed(d) == d.reason = "response_size_overflow"
Answered(d, from, to) ==
    /\ answered' = IF d.state = "failed" THEN answered ELSE answered \cup (from .. to)
    /\ UNCHANGED <<fork, stale, staleStart>>

\* The whole window; an overflow of more than one block is split, once.
Cover ==
    /\ pc = "cover"
    /\ \E d \in Answers(sub.from, sub.to) :
         /\ decision' = d /\ Answered(d, sub.from, sub.to)
         /\ IF Overflowed(d) /\ sub.from < sub.to THEN GoTo("left")
            ELSE IF d.state = "successful" THEN GoTo("headers")
            ELSE GoTo("record")
    /\ UNCHANGED <<durable, config, cursor, sub, rows, unsunk, lastEnd, lastHash, cancelled>>

CoverLeft ==
    /\ pc = "left"
    /\ \E d \in Answers(sub.from, SplitPoint(sub)) :
         /\ decision' = d /\ Answered(d, sub.from, SplitPoint(sub))
         /\ IF d.state = "failed" THEN GoTo("record") ELSE GoTo("right")
    /\ UNCHANGED <<durable, config, cursor, sub, rows, unsunk, lastEnd, lastHash, cancelled>>

\* Mutant: a right half that failed leaves the decision of the left one.
MergeHalvesKeepingLeft(l, r) ==
    IF r.state = "failed" \/ (l.state = "scanned_empty" /\ r.state = "scanned_empty") THEN l
    ELSE [state |-> "successful", reason |-> "none", pinned |-> NoHash]

\* The merged decision carries the counters of both halves but none of their
\* rows, so a successful one goes straight to the interval record; two empty
\* halves keep the hash the left one was pinned to.
MergeHalves(l, r) ==
    IF r.state = "failed" THEN r
    ELSE IF l.state = "scanned_empty" /\ r.state = "scanned_empty" THEN l
    ELSE [state |-> "successful", reason |-> "none", pinned |-> NoHash]

CoverRight ==
    /\ pc = "right"
    /\ \E d \in Answers(SplitPoint(sub) + 1, sub.to) :
         /\ decision' = MergeHalves(decision, d)
         /\ Answered(d, SplitPoint(sub) + 1, sub.to)
    /\ GoTo("record")
    /\ UNCHANGED <<durable, config, cursor, sub, rows, unsunk, lastEnd, lastHash, cancelled>>

-----------------------------------------------------------------------------
(***************************************************************************)
(* _process_successful_rows.                                               *)
(***************************************************************************)

\* Mutant: an event whose header cannot be had is left out of the window.
FetchHeadersBestEffort ==
    /\ pc = "headers"
    /\ \E B \in SUBSET EventsIn(sub.from, sub.to) : rows' = {HashOf(b) : b \in B}
    /\ unsunk' = rows'
    /\ GoTo("append")
    /\ UNCHANGED <<durable, config, cursor, sub, decision, lastEnd, lastHash, cancelled, chain>>

\* One header per distinct event block; one that cannot be had fails the
\* window.  The record's block hash is the header's.
FetchHeaders ==
    /\ pc = "headers"
    /\ \/ /\ rows' = {HashOf(b) : b \in EventsIn(sub.from, sub.to)}
          /\ unsunk' = rows'
          /\ GoTo("append")
          /\ UNCHANGED decision
       \/ /\ decision' = Failed("header_fetch_failed")
          /\ GoTo("record")
          /\ UNCHANGED <<rows, unsunk>>
    /\ UNCHANGED <<durable, config, cursor, sub, lastEnd, lastHash, cancelled, chain>>

BatchOf(c) == {h \in rows : CellOf(h.block) = c}

\* append_partition for one grid cell, one commit of its own.
AppendCell(c) ==
    /\ pc = "append"
    /\ BatchOf(c) # {}
    /\ IF cells[c] = NoRow \/ BatchOf(c) \subseteq cells[c]
         THEN /\ cells' = [cells EXCEPT ![c] = IF @ = NoRow THEN BatchOf(c) ELSE @]
              /\ rows' = rows \ BatchOf(c)
              /\ UNCHANGED <<decision, pc>>
         ELSE /\ decision' = Failed("partition_row_loss_guard")
              /\ rows' = {}
              /\ GoTo("record")
              /\ UNCHANGED cells
    /\ UNCHANGED <<headers, checkpoint, run, intervals, config, cursor, sub, unsunk,
                   lastEnd, lastHash, cancelled, chain>>

\* Mutant: the header sink is not called.
AppendDoneWithoutSink ==
    /\ pc = "append" /\ rows = {}
    /\ GoTo("record")
    /\ UNCHANGED <<durable, config, walk, cancelled, chain>>

\* Every cell of the window is committed.
AppendDone ==
    /\ pc = "append" /\ rows = {}
    /\ GoTo("sink")
    /\ UNCHANGED <<durable, config, walk, cancelled, chain>>

\* The headers follow the partitions, one transaction each.
SinkHeader ==
    /\ pc = "sink"
    /\ IF unsunk = {}
         THEN GoTo("record") /\ UNCHANGED <<headers, unsunk>>
         ELSE \E h \in unsunk : /\ headers' = headers \cup {h}
                                /\ unsunk' = unsunk \ {h}
                                /\ UNCHANGED pc
    /\ UNCHANGED <<cells, checkpoint, run, intervals, config, cursor, sub, decision, rows,
                   lastEnd, lastHash, cancelled, chain>>

-----------------------------------------------------------------------------
(***************************************************************************)
(* Interval, checkpoint, end of the run.                                   *)
(***************************************************************************)

\* Mutant: a window that failed is tried again, without end.
RecordIntervalRetrying ==
    /\ pc = "record"
    /\ intervals' = intervals \cup {[from |-> sub.from, to |-> sub.to, state |-> decision.state]}
    /\ IF decision.state \in {"failed", "cancelled"}
         THEN GoTo("next") /\ UNCHANGED <<run, lastEnd, lastHash, cursor>>
         ELSE /\ lastEnd' = Maximum(lastEnd, sub.to)
              /\ lastHash' = IF decision.pinned # NoHash THEN decision.pinned ELSE lastHash
              /\ cursor' = sub.to + 1
              /\ GoTo("checkpoint")
              /\ UNCHANGED run
    /\ UNCHANGED <<cells, headers, checkpoint, config, sub, decision, rows, unsunk, cancelled, chain>>

\* A window that failed or was cancelled ends the run; a covered one moves the
\* cursor and the end the checkpoint will carry.
RecordInterval ==
    /\ pc = "record"
    /\ intervals' = intervals \cup {[from |-> sub.from, to |-> sub.to, state |-> decision.state]}
    /\ IF decision.state \in {"failed", "cancelled"}
         THEN /\ run' = [run EXCEPT !.reason = decision.reason]
              /\ GoTo("final")
              /\ UNCHANGED <<lastEnd, lastHash, cursor>>
         ELSE /\ lastEnd' = Maximum(lastEnd, sub.to)
              /\ lastHash' = IF decision.pinned # NoHash THEN decision.pinned ELSE lastHash
              /\ cursor' = sub.to + 1
              /\ GoTo("checkpoint")
              /\ UNCHANGED run
    /\ UNCHANGED <<cells, headers, checkpoint, config, sub, decision, rows, unsunk, cancelled, chain>>

\* The SQL upsert: MAX of the ends, and the hash only when the end advances.
UpsertCheckpoint ==
    /\ pc = "checkpoint"
    /\ IF checkpoint = NoCheckpoint \/ lastEnd > checkpoint.end
         THEN /\ checkpoint' = [end |-> lastEnd, hash |-> lastHash, config |-> config]
              /\ stale' = FALSE
         ELSE /\ checkpoint' = [checkpoint EXCEPT !.config = config]
              /\ UNCHANGED stale
    /\ GoTo("next")
    /\ UNCHANGED <<cells, headers, run, intervals, config, walk, cancelled, fork, staleStart, answered>>

\* The final run manifest: complete iff nothing halted the run and the last
\* covered block reached the end of the plan, or there was nothing to scan.
Finish ==
    /\ pc = "final"
    /\ run' = [run EXCEPT !.complete =
                 /\ run.reason = "none"
                 /\ intervals # {} => lastEnd >= run.target]
    /\ Stop
    /\ UNCHANGED <<cells, headers, checkpoint, intervals, config, chain>>

RunnerStep ==
    \/ VerifyEndBlockHash \/ Plan \/ NextWindow
    \/ Cover \/ CoverLeft \/ CoverRight
    \/ FetchHeaders \/ (\E c \in Cells : AppendCell(c)) \/ AppendDone \/ SinkHeader
    \/ RecordInterval \/ UpsertCheckpoint \/ Finish

-----------------------------------------------------------------------------
(***************************************************************************)
(* The operator, the process and the chain.                                *)
(***************************************************************************)

Cancel ==
    /\ pc # "idle" /\ ~cancelled
    /\ cancelled' = TRUE
    /\ UNCHANGED <<durable, pc, config, walk, chain>>

\* Everything in memory is lost; a later run starts from the manifest.
Crash ==
    /\ pc # "idle"
    /\ Stop
    /\ UNCHANGED <<durable, config, chain>>

Reorg ==
    /\ MayReorg /\ fork = NoFork
    /\ fork' \in Blocks
    /\ stale' = (checkpoint # NoCheckpoint /\ fork' <= checkpoint.end)
    /\ UNCHANGED <<durable, process, staleStart, answered>>

Next ==
    \/ \E t \in Targets, cfg \in Configs : Begin(t, cfg)
    \/ RunnerStep
    \/ Cancel
    \/ Crash
    \/ Reorg

Spec == Init /\ [][Next]_vars

\* The event loop keeps running the run it has started.
FairSpec == Spec /\ WF_vars(RunnerStep)

-----------------------------------------------------------------------------
(***************************************************************************)
(* Properties.                                                             *)
(***************************************************************************)

Persisted == UNION {cells[c] : c \in {d \in Cells : cells[d] # NoRow}}

CoveredEvents == {b \in EventBlocks : checkpoint # NoCheckpoint /\ b <= checkpoint.end}

\* The durable checkpoint never runs ahead of the data: every event at or
\* below qualified_end_block is a row of a committed partition, across
\* crashes, cancellations, failovers and resumed runs.
CheckpointCoversPersistedEvents ==
    \A b \in CoveredEvents : \E h \in Persisted : h.block = b

\* Once an event is covered its header row is there too, although headers
\* are written after the partitions and in other transactions.
CoveredEventsHaveHeaders ==
    \A h \in Persisted :
        checkpoint # NoCheckpoint /\ h.block <= checkpoint.end => h \in headers

\* The covered intervals of a run follow each other without gap or overlap,
\* and a run marked complete has covered every block of its plan exactly
\* once, every one of them answered for by an endpoint (both halves of a window
\* that was split), and left the durable checkpoint at its end or beyond.
CompleteMeansCoveredOnce ==
    LET covered == {i \in intervals : i.state \in {"successful", "scanned_empty"}}
        Covering(b) == {i \in covered : i.from <= b /\ b <= i.to}
    IN
    /\ \A b \in Blocks : \A i, j \in Covering(b) : i = j
    /\ run.complete =>
          /\ \A b \in run.from .. run.target : Covering(b) # {}
          /\ run.from .. run.target \subseteq answered
          /\ checkpoint # NoCheckpoint /\ checkpoint.end >= run.target

\* The checkpoint only moves forward, and keeps its hash while it stands.
CheckpointMonotonic ==
    [][checkpoint # NoCheckpoint =>
          /\ checkpoint' # NoCheckpoint
          /\ checkpoint'.end >= checkpoint.end
          /\ checkpoint'.end = checkpoint.end => checkpoint'.hash = checkpoint.hash]_vars

\* A run that starts after the chain forked below the checkpoint it resumes
\* never extends that checkpoint nor writes a row: no stale or borrowed hash
\* passes the comparison of _verify_qualified_end_block_hash.
ForkedPrefixNeverExtended ==
    [][staleStart /\ pc # "idle" => UNCHANGED <<checkpoint, cells, headers>>]_vars

\* What the runs leave in the partitions: what the storage promises its readers
\* (RawPartitionWriter promises the same of append_partition).
Dataset == INSTANCE CommittedDataset WITH
    Rows <- (SUBSET Hashes) \ {{}},
    Unpublished <- NoRow,
    dataset <- cells,
    halted <- {}

\* Whatever ends or interrupts a run, a cell is published whole by one commit and
\* no later run, window or retry changes it.
PublishesWholeCells == Dataset!Spec

\* A run ends: it completes, halts or dies, however often it splits.
RunEnds == pc # "idle" ~> pc = "idle"

\* ExistingCheckpoint.qualified_end_block_hash: "the block hash of the highest
\* covered block at the time the checkpoint was written".
CheckpointHashIsOfItsEnd ==
    checkpoint # NoCheckpoint =>
        checkpoint.hash # NoHash /\ checkpoint.hash.block = checkpoint.end

=============================================================================
