------------------------- MODULE IngestionRpcProofs -------------------------
(***************************************************************************)
(* What the RPC side of a run keeps for any endpoints, weights, logs,      *)
(* budgets, retry limit, batch size and number of sub-ranges.              *)
(***************************************************************************)
EXTENDS IngestionRpc, FiniteSetTheorems, SequenceTheorems, WellFoundedInduction, TLAPS

Outcomes == {"successes", "retries", "failovers", "range_splits", "raised"}
MetricsType == metrics \in [{"requests"} \cup Outcomes -> Nat]
MetricsInv == MetricsType /\ MetricsReconcile

(***************************************************************************)
(* Every request is counted once more among exactly one outcome.           *)
(***************************************************************************)
LEMMA CountReconciles ==
    ASSUME MetricsInv, NEW o \in Outcomes, Count({o})
    PROVE  MetricsInv'
<1> USE DEF MetricsInv, MetricsType, MetricsReconcile, Outcomes
<1>1. DOMAIN metrics = {"requests"} \cup Outcomes
  OBVIOUS
<1>2. metrics' = [m \in {"requests"} \cup Outcomes |->
                    metrics[m] + IF m \in {o, "requests"} THEN 1 ELSE 0]
  BY <1>1 DEF Count
<1>3. MetricsType'
  BY <1>2
<1>4. CASE o = "successes" BY <1>2, <1>3, <1>4
<1>5. CASE o = "retries" BY <1>2, <1>3, <1>5
<1>6. CASE o = "failovers" BY <1>2, <1>3, <1>6
<1>7. CASE o = "range_splits" BY <1>2, <1>3, <1>7
<1>8. CASE o = "raised" BY <1>2, <1>3, <1>8
<1> QED
  BY <1>4, <1>5, <1>6, <1>7, <1>8

LEMMA RequestReconciles ==
    ASSUME MetricsInv, Request
    PROVE  MetricsInv'
<1>1. CASE AnswerLogs BY <1>1, CountReconciles DEF AnswerLogs, Outcomes
<1>2. CASE AnswerHeader BY <1>2, CountReconciles DEF AnswerHeader, Outcomes
<1>3. CASE RangeTooLarge
  <2>1. Count({"range_splits"}) \/ Count({"raised"})
    BY <1>3 DEF RangeTooLarge
  <2> QED BY <2>1, CountReconciles DEF Outcomes
<1>4. CASE FailsToAnswer
  <2>1. Count({"retries"}) \/ Count({"failovers"})
    BY <1>4 DEF FailsToAnswer
  <2> QED BY <2>1, CountReconciles DEF Outcomes
<1>5. CASE Refuses
  <2>1. Count({"raised"}) \/ Count({"successes"})
    BY <1>5 DEF Refuses
  <2> QED BY <2>1, CountReconciles DEF Outcomes
<1> QED
  BY <1>1, <1>2, <1>3, <1>4, <1>5 DEF Request

(***************************************************************************)
(* Only a request of the adapter touches its metrics.                      *)
(***************************************************************************)
LEMMA RouteKeepsMetrics ==
    ASSUME Route
    PROVE  metrics' = metrics
BY DEF Route, NoClient, TooWide, BudgetExhausted, call_get_logs, FailOver, Overflow, Succeed,
       get_block_hash_for_pin, ScannedEmpty, GiveUp

LEMMA FetchKeepsMetrics ==
    ASSUME FetchHeaders
    PROVE  metrics' = metrics
BY DEF FetchHeaders, BatchAnswered, BatchMalformed, BatchTransportFails, _retry_batch, _fetch_one, Finish

LEMMA MetricsStep ==
    ASSUME MetricsInv, [Next]_vars
    PROVE  MetricsInv'
<1>0. ASSUME metrics' = metrics PROVE MetricsInv'
  BY <1>0 DEF MetricsInv, MetricsType, MetricsReconcile
<1>1. CASE Cover BY <1>0, <1>1 DEF Cover, CoverSubRange
<1>2. CASE OnDecision BY <1>0, <1>2 DEF OnDecision, get_headers_batch
<1>3. CASE OnHeaders BY <1>0, <1>3 DEF OnHeaders
<1>4. CASE Routing BY <1>0, <1>4, RouteKeepsMetrics DEF Routing
<1>5. CASE Fetching BY <1>0, <1>5, FetchKeepsMetrics DEF Fetching
<1>6. CASE Requesting BY <1>6, RequestReconciles DEF Requesting
<1>7. CASE UNCHANGED vars BY <1>0, <1>7 DEF vars
<1> QED
  BY <1>1, <1>2, <1>3, <1>4, <1>5, <1>6, <1>7 DEF Next

(***************************************************************************)
(* Every request the adapter makes is answered, repeated, passed on, split *)
(* or the end of its call (RpcMetrics).                                    *)
(***************************************************************************)
THEOREM RequestsAreAccountedFor == Spec => []MetricsReconcile
<1>1. Init => MetricsInv
  BY DEF Init, AdapterInit, MetricsInv, MetricsType, MetricsReconcile, Outcomes
<1>2. MetricsInv /\ [Next]_vars => MetricsInv'
  BY MetricsStep
<1>3. MetricsInv => MetricsReconcile
  BY DEF MetricsInv
<1> QED
  BY <1>1, <1>2, <1>3, PTL DEF Spec

-----------------------------------------------------------------------------
(***************************************************************************)
(* Finite sets of blocks.                                                  *)
(***************************************************************************)
Blocks == 0..LastBlock

LEMMA BlocksFinite ==
    ASSUME NEW S \in SUBSET Blocks
    PROVE  IsFiniteSet(S) /\ Cardinality(S) \in Nat
<1>1. IsFiniteSet(Blocks)
  BY FS_Interval, AdapterAssumption DEF AdapterAssumption, Blocks
<1> QED
  BY <1>1, FS_Subset, FS_CardinalityType

LEMMA WellFoundedMinimum ==
    ASSUME NEW R, IsWellFoundedOn(R, Nat), NEW S \in SUBSET Nat, S # {}
    PROVE  \E x \in S : \A y \in S : ~ (<<y, x>> \in R)
<1>1. S \subseteq Nat
  OBVIOUS
<1> QED
  BY <1>1, WFMin, Zenon

LEMMA SmallestNumber ==
    ASSUME NEW S \in SUBSET Nat, S # {}
    PROVE  \E x \in S : \A y \in S : x =< y
<1>1. S \subseteq Nat
  OBVIOUS
<1>2. \A a, b \in Nat : a < b => <<a, b>> \in OpToRel(<, Nat)
  BY DEF OpToRel
<1>3. PICK x \in S : \A y \in S : ~ (<<y, x>> \in OpToRel(<, Nat))
  BY <1>1, NatLessThanWellFounded, WellFoundedMinimum, Zenon
<1>4. ASSUME NEW y \in S PROVE x =< y
  <2>1. x \in Nat /\ y \in Nat
    BY <1>1
  <2>2. ~ (y < x)
    BY <1>2, <1>3, <2>1, Zenon
  <2> QED
    BY <2>1, <2>2
<1> QED
  BY <1>4

LEMMA SmallestBlock ==
    ASSUME NEW S \in SUBSET Blocks, S # {}
    PROVE  Min(S) \in S /\ \A y \in S : Min(S) =< y
<1>1. S \in SUBSET Nat
  BY AdapterAssumption DEF AdapterAssumption, Blocks
<1>2. \E x \in S : \A y \in S : x =< y
  BY <1>1, SmallestNumber
<1> QED
  BY <1>2 DEF Min

LEMMA Cardinalities ==
    ASSUME NEW S \in SUBSET Blocks, NEW T \in SUBSET Blocks
    PROVE  /\ S \subseteq T => Cardinality(S) <= Cardinality(T)
           /\ S \cap T = {} => Cardinality(S \cup T) = Cardinality(S) + Cardinality(T)
<1>1. IsFiniteSet(S) /\ IsFiniteSet(T) /\ Cardinality(S) \in Nat /\ Cardinality(T) \in Nat
  BY BlocksFinite
<1>2. S \subseteq T => Cardinality(S) <= Cardinality(T)
  BY <1>1, FS_Subset
<1>3. Cardinality(S \cup T) = Cardinality(S) + Cardinality(T) - Cardinality(S \cap T)
  BY <1>1, FS_Union
<1>4. S \cap T = {} => Cardinality(S \cap T) = 0
  BY FS_EmptySet
<1> QED
  BY <1>1, <1>2, <1>3, <1>4

(***************************************************************************)
(* A batch takes at least one of the blocks that are pending.              *)
(***************************************************************************)
LEMMA BatchTakesBlocks ==
    ASSUME fetch.pending \subseteq Blocks, fetch.pending # {}
    PROVE  /\ NextBatch \subseteq fetch.pending
           /\ Cardinality(NextBatch) \in Nat /\ Cardinality(NextBatch) >= 1
<1> DEFINE P == fetch.pending
<1>1. Min(P) \in P /\ \A y \in P : Min(P) =< y
  BY SmallestBlock
<1>2. {a \in P : a < Min(P)} = {}
  BY <1>1, AdapterAssumption DEF AdapterAssumption, Blocks
<1>3. Cardinality({a \in P : a < Min(P)}) = 0
  BY <1>2, FS_EmptySet
<1>4. Min(P) \in NextBatch
  BY <1>1, <1>3, HeaderAssumption DEF NextBatch, HeaderAssumption
<1>5. NextBatch \subseteq P
  BY DEF NextBatch
<1>6. Cardinality({Min(P)}) = 1
  BY FS_Singleton
<1>7. {Min(P)} \in SUBSET Blocks /\ NextBatch \in SUBSET Blocks /\ {Min(P)} \subseteq NextBatch
  BY <1>4, <1>5
<1>8. Cardinality({Min(P)}) <= Cardinality(NextBatch) /\ Cardinality(NextBatch) \in Nat
  BY <1>7, Cardinalities, BlocksFinite
<1> QED
  BY <1>5, <1>6, <1>8

(***************************************************************************)
(* The inductive invariant of the header source inside a run: what has     *)
(* been asked for is in the cache or no longer pending in the fetch, and   *)
(* the logical calls are bounded by it.                                    *)
(***************************************************************************)
FetchType ==
    [status : {"idle", "batches", "retrying", "fetching", "done", "raised"}, blocks : SUBSET Blocks,
     pending : SUBSET Blocks, batch : SUBSET Blocks, out : SUBSET Blocks]
RunType ==
    [waits : {"nothing", "decision", "headers", "halted"}, covers : 0..MaxCovers, blocks : SUBSET Blocks]
Asked == _cache \cup (fetch.blocks \ (fetch.pending \cup fetch.batch))
FetchParts ==
    /\ fetch.blocks \subseteq run.blocks /\ _cache \subseteq run.blocks
    /\ fetch.pending \subseteq fetch.blocks /\ fetch.batch \subseteq fetch.blocks
    /\ fetch.out \subseteq fetch.blocks
    /\ (fetch.pending \cup fetch.batch) \cap _cache = {} /\ fetch.pending \cap fetch.batch = {}
    /\ fetch.status \in {"batches", "done"} => fetch.batch = {}
    /\ fetch.status = "fetching" => fetch.batch # {}
    /\ fetch.status = "done" => fetch.pending = {}
RunParts ==
    /\ run.waits \in {"nothing", "decision"} => run.blocks \subseteq _cache
    /\ run.waits = "headers" => run.blocks \subseteq _cache \cup fetch.blocks
HeaderInv ==
    /\ fetch \in FetchType /\ run \in RunType /\ _cache \in SUBSET Blocks
    /\ counters \in [logical : Nat, http : Nat, failures : Nat]
    /\ FetchParts /\ RunParts
    /\ counters.http <= counters.logical /\ counters.logical <= Cardinality(Asked)

LEMMA HeaderInvImplies == HeaderInv => HeaderCallsWithinBlocks /\ GoesOnWithHeaders
<1> SUFFICES ASSUME HeaderInv PROVE HeaderCallsWithinBlocks /\ GoesOnWithHeaders
  OBVIOUS
<1>1. Asked \subseteq run.blocks /\ run.blocks \in SUBSET Blocks /\ Asked \in SUBSET Blocks
  BY DEF HeaderInv, FetchParts, Asked, RunType
<1>2. Cardinality(Asked) <= Cardinality(run.blocks) /\ Cardinality(Asked) \in Nat /\ Cardinality(run.blocks) \in Nat
  BY <1>1, Cardinalities, BlocksFinite
<1>3. counters.logical \in Nat /\ counters.logical <= Cardinality(Asked)
  BY DEF HeaderInv
<1>4. HeaderCallsWithinBlocks
  BY <1>2, <1>3 DEF HeaderInv, HeaderCallsWithinBlocks
<1>5. GoesOnWithHeaders
  BY DEF HeaderInv, RunParts, GoesOnWithHeaders
<1> QED
  BY <1>4, <1>5

(***************************************************************************)
(* Steps that leave the header source alone.                               *)
(***************************************************************************)
LEMMA HeaderInvKept ==
    ASSUME HeaderInv, UNCHANGED headerVars, run' \in RunType, run'.blocks = run.blocks,
           RunParts'
    PROVE  HeaderInv'
<1>1. Asked' = Asked
  BY DEF headerVars, Asked
<1> QED
  BY <1>1 DEF HeaderInv, FetchParts, headerVars

LEMMA CoverKeepsHeaders == ASSUME HeaderInv, Cover PROVE HeaderInv'
<1>1. run' = [run EXCEPT !.waits = "decision", !.covers = @ + 1] /\ UNCHANGED headerVars
      /\ run.waits = "nothing" /\ run.covers < MaxCovers
  BY DEF Cover
<1>2. run \in RunType /\ RunParts
  BY DEF HeaderInv
<1>3. run.covers + 1 \in 0..MaxCovers /\ run.blocks \in SUBSET Blocks
  BY <1>1, <1>2, RunAssumption DEF RunType, RunAssumption
<1>4. run' = [waits |-> "decision", covers |-> run.covers + 1, blocks |-> run.blocks]
  BY <1>1, <1>2 DEF RunType
<1>5. run' \in RunType /\ run'.blocks = run.blocks /\ run'.waits = "decision"
  BY <1>3, <1>4 DEF RunType
<1>6. RunParts'
  BY <1>1, <1>2, <1>5 DEF RunParts, headerVars
<1> QED
  BY <1>1, <1>5, <1>6, HeaderInvKept

LEMMA OnHeadersKeepsHeaders == ASSUME HeaderInv, OnHeaders PROVE HeaderInv'
<1> USE DEF HeaderInv
<1>1. run' = [run EXCEPT !.waits = IF fetch.status = "done" /\ fetch.blocks \subseteq _cache
                                   THEN "nothing" ELSE "halted"]
      /\ UNCHANGED headerVars /\ run.waits = "headers"
  BY DEF OnHeaders
<1>2. run' \in RunType /\ run'.blocks = run.blocks /\ run'.waits \in {"nothing", "halted"}
      /\ (run'.waits = "nothing" => fetch.blocks \subseteq _cache)
  BY <1>1 DEF RunType
<1>3. RunParts'
  BY <1>1, <1>2 DEF RunParts, headerVars
<1> QED
  BY <1>1, <1>2, <1>3, HeaderInvKept

LEMMA OnDecisionKeepsHeaders == ASSUME HeaderInv, OnDecision PROVE HeaderInv'
<1> USE DEF HeaderInv
<1> DEFINE B == EventBlocks(decision.rows)
<1>1. run.waits = "decision" /\ run.blocks \subseteq _cache
  BY DEF OnDecision, RunParts
<1>2. CASE decision.state = "successful"
  <2>1. /\ fetch' = [status |-> "batches", blocks |-> B, pending |-> B \ _cache, batch |-> {}, out |-> {}]
        /\ run' = [run EXCEPT !.waits = "headers", !.blocks = @ \cup B]
        /\ _cache' = _cache /\ counters' = counters
    BY <1>2 DEF OnDecision, get_headers_batch
  <2>2. B \in SUBSET Blocks
    BY DEF EventBlocks, Blocks
  <2>3. fetch' \in FetchType /\ run' \in RunType /\ run'.blocks = run.blocks \cup B /\ run'.waits = "headers"
    BY <2>1, <2>2 DEF FetchType, RunType
  <2>4. FetchParts' /\ RunParts'
    BY <1>1, <2>1, <2>3 DEF FetchParts, RunParts
  <2>5. Asked \subseteq _cache
    BY <1>1 DEF Asked, FetchParts
  <2>6. Asked' = _cache
    BY <2>1 DEF Asked
  <2>7. Asked \in SUBSET Blocks /\ _cache \in SUBSET Blocks
    BY <2>5
  <2>8. Cardinality(Asked) <= Cardinality(_cache) /\ Cardinality(Asked) \in Nat /\ Cardinality(_cache) \in Nat
    BY <2>5, <2>7, Cardinalities, BlocksFinite
  <2>9. counters.logical <= Cardinality(_cache)
    BY <2>8
  <2> QED
    BY <2>1, <2>3, <2>4, <2>6, <2>9
<1>3. CASE decision.state # "successful"
  <2>1. run' = [run EXCEPT !.waits = IF Halts(decision) THEN "halted" ELSE "nothing"] /\ UNCHANGED headerVars
    BY <1>3 DEF OnDecision
  <2>2. run' \in RunType /\ run'.blocks = run.blocks /\ run'.waits \in {"nothing", "halted"}
    BY <2>1 DEF RunType
  <2>3. RunParts'
    BY <1>1, <2>1, <2>2 DEF RunParts, headerVars
  <2> QED
    BY <2>1, <2>2, <2>3, HeaderInvKept
<1> QED
  BY <1>2, <1>3

(***************************************************************************)
(* The steps of the header source.                                         *)
(***************************************************************************)
CountersStep(n) == counters' = [counters EXCEPT !.logical = @ + n, !.http = @ + 1]
LEMMA CountersKept ==
    ASSUME counters \in [logical : Nat, http : Nat, failures : Nat], counters.http <= counters.logical,
           NEW n \in Nat, n >= 1, NEW c \in Nat, NEW d \in Nat, d >= c + n, counters.logical <= c
    PROVE  /\ counters' = counters => counters'.logical <= d
           /\ CountersStep(n) =>
                /\ counters' \in [logical : Nat, http : Nat, failures : Nat]
                /\ counters'.http <= counters'.logical /\ counters'.logical <= d
<1>1. counters.logical \in Nat /\ counters.http \in Nat /\ counters.failures \in Nat
  OBVIOUS
<1>2. ASSUME CountersStep(n)
      PROVE  counters' = [logical |-> counters.logical + n, http |-> counters.http + 1,
                          failures |-> counters.failures]
  BY <1>2 DEF CountersStep
<1> QED
  BY <1>1, <1>2

LEMMA BatchAnsweredKeepsHeaders ==
    ASSUME HeaderInv, BatchAnswered, UNCHANGED run
    PROVE  HeaderInv'
<1> USE DEF HeaderInv
<1>1. PICK got \in SUBSET NextBatch :
        fetch' = [fetch EXCEPT !.pending = @ \ NextBatch, !.out = @ \cup got]
  BY DEF BatchAnswered
<1>2. /\ counters' = [counters EXCEPT !.logical = @ + Cardinality(NextBatch), !.http = @ + 1]
      /\ _cache' = _cache /\ fetch.status = "batches" /\ fetch.pending # {}
  BY DEF BatchAnswered
<1>3. NextBatch \subseteq fetch.pending /\ Cardinality(NextBatch) \in Nat /\ Cardinality(NextBatch) >= 1
  BY <1>2, BatchTakesBlocks DEF FetchType
<1>4. /\ fetch' \in FetchType /\ fetch'.status = "batches" /\ fetch'.blocks = fetch.blocks
      /\ fetch'.pending = fetch.pending \ NextBatch /\ fetch'.batch = fetch.batch /\ fetch'.out = fetch.out \cup got
  BY <1>1, <1>2, <1>3 DEF FetchType
<1>5. FetchParts' /\ RunParts'
  BY <1>2, <1>3, <1>4 DEF FetchParts, RunParts
<1>6. Asked' = Asked \cup NextBatch /\ Asked \cap NextBatch = {}
  BY <1>2, <1>3, <1>4 DEF Asked, FetchParts
<1>7. Asked \in SUBSET Blocks /\ NextBatch \in SUBSET Blocks
  BY <1>3 DEF Asked, FetchType
<1>8. Cardinality(Asked') = Cardinality(Asked) + Cardinality(NextBatch) /\ Cardinality(Asked) \in Nat
  BY <1>6, <1>7, Cardinalities, BlocksFinite
<1>9. CountersStep(Cardinality(NextBatch))
  BY <1>2 DEF CountersStep
<1>10. /\ counters' \in [logical : Nat, http : Nat, failures : Nat]
       /\ counters'.http <= counters'.logical /\ counters'.logical <= Cardinality(Asked')
  BY <1>3, <1>8, <1>9, CountersKept
<1> QED
  BY <1>2, <1>4, <1>5, <1>10

LEMMA FetchOneKeepsHeaders ==
    ASSUME HeaderInv, _fetch_one, UNCHANGED run
    PROVE  HeaderInv'
<1> USE DEF HeaderInv
<1> DEFINE found == call.status = "returned" /\ call.found
           m == Min(fetch.batch)
<1>1. /\ fetch' = [fetch EXCEPT !.status = "retrying", !.batch = @ \ {m},
                                !.out = IF found THEN @ \cup {m} ELSE @]
      /\ counters' = IF found THEN [counters EXCEPT !.logical = @ + 1, !.http = @ + 1] ELSE counters
      /\ _cache' = _cache /\ fetch.status = "fetching"
  BY DEF _fetch_one
<1>2. fetch.batch \in SUBSET Blocks /\ fetch.batch # {}
  BY <1>1 DEF FetchType, FetchParts
<1>3. m \in fetch.batch
  BY <1>2, SmallestBlock
<1>4. /\ fetch' \in FetchType /\ fetch'.status = "retrying" /\ fetch'.blocks = fetch.blocks
      /\ fetch'.pending = fetch.pending /\ fetch'.batch = fetch.batch \ {m}
      /\ fetch'.out \subseteq fetch.out \cup {m}
  BY <1>1, <1>2, <1>3 DEF FetchType
<1>5. FetchParts' /\ RunParts'
  BY <1>1, <1>3, <1>4 DEF FetchParts, RunParts
<1>6. Asked' = Asked \cup {m} /\ Asked \cap {m} = {}
  BY <1>1, <1>3, <1>4 DEF Asked, FetchParts
<1>7. Asked \in SUBSET Blocks /\ {m} \in SUBSET Blocks
  BY <1>2, <1>3 DEF Asked, FetchType
<1>8. Cardinality(Asked') = Cardinality(Asked) + Cardinality({m}) /\ Cardinality(Asked) \in Nat
  BY <1>6, <1>7, Cardinalities, BlocksFinite
<1>9. Cardinality({m}) = 1
  BY FS_Singleton
<1>10. Cardinality(Asked') = Cardinality(Asked) + 1
  BY <1>8, <1>9
<1>11. CountersStep(1) \/ counters' = counters
  BY <1>1 DEF CountersStep
<1>12. /\ counters' \in [logical : Nat, http : Nat, failures : Nat]
       /\ counters'.http <= counters'.logical /\ counters'.logical <= Cardinality(Asked')
  BY <1>8, <1>10, <1>11, CountersKept
<1> QED
  BY <1>1, <1>4, <1>5, <1>12

\* The other steps ask for nothing more, so that only the parts move.
LEMMA AskedSameKeepsHeaders ==
    ASSUME HeaderInv, UNCHANGED run, fetch' \in FetchType, _cache' \in SUBSET Blocks,
           counters' \in [logical : Nat, http : Nat, failures : Nat],
           counters'.logical = counters.logical, counters'.http = counters.http,
           FetchParts', RunParts', Asked \subseteq Asked'
    PROVE  HeaderInv'
<1>1. Asked \in SUBSET Blocks /\ Asked' \in SUBSET Blocks
  BY DEF HeaderInv, Asked, FetchType
<1>2. Cardinality(Asked) <= Cardinality(Asked') /\ Cardinality(Asked) \in Nat /\ Cardinality(Asked') \in Nat
  BY <1>1, Cardinalities, BlocksFinite
<1>3. counters.logical \in Nat /\ counters.logical <= Cardinality(Asked)
  BY DEF HeaderInv
<1>4. counters'.logical <= Cardinality(Asked')
  BY <1>2, <1>3
<1> QED
  BY <1>4 DEF HeaderInv

LEMMA BatchMalformedKeepsHeaders == ASSUME HeaderInv, BatchMalformed, UNCHANGED run PROVE HeaderInv'
<1>1. /\ fetch' = [fetch EXCEPT !.status = "raised"]
      /\ counters' = [counters EXCEPT !.failures = @ + 1] /\ _cache' = _cache
  BY DEF BatchMalformed
<1>2. /\ fetch' \in FetchType /\ fetch'.blocks = fetch.blocks /\ fetch'.pending = fetch.pending
      /\ fetch'.batch = fetch.batch /\ fetch'.out = fetch.out /\ fetch'.status = "raised"
  BY <1>1 DEF HeaderInv, FetchType
<1>3. FetchParts' /\ RunParts' /\ Asked' = Asked
  BY <1>1, <1>2 DEF HeaderInv, FetchParts, RunParts, Asked
<1> QED
  BY <1>1, <1>2, <1>3, AskedSameKeepsHeaders DEF HeaderInv

LEMMA BatchTransportFailsKeepsHeaders == ASSUME HeaderInv, BatchTransportFails, UNCHANGED run PROVE HeaderInv'
<1>1. /\ fetch' = [fetch EXCEPT !.status = "retrying", !.batch = NextBatch, !.pending = @ \ NextBatch]
      /\ counters' = counters /\ _cache' = _cache /\ fetch.status = "batches" /\ fetch.pending # {}
  BY DEF BatchTransportFails
<1>2. NextBatch \subseteq fetch.pending
  BY DEF NextBatch
<1>3. /\ fetch' \in FetchType /\ fetch'.blocks = fetch.blocks /\ fetch'.pending = fetch.pending \ NextBatch
      /\ fetch'.batch = NextBatch /\ fetch'.out = fetch.out /\ fetch'.status = "retrying"
  BY <1>1, <1>2 DEF HeaderInv, FetchType
<1>4. FetchParts' /\ RunParts' /\ Asked' = Asked
  BY <1>1, <1>2, <1>3 DEF HeaderInv, FetchParts, RunParts, Asked
<1> QED
  BY <1>1, <1>3, <1>4, AskedSameKeepsHeaders DEF HeaderInv

LEMMA RetryBatchKeepsHeaders == ASSUME HeaderInv, _retry_batch, UNCHANGED run PROVE HeaderInv'
<1>1. /\ fetch' = [fetch EXCEPT !.status = IF fetch.batch = {} THEN "batches" ELSE "fetching"]
      /\ counters' = counters /\ _cache' = _cache
  BY DEF _retry_batch
<1>2. /\ fetch' \in FetchType /\ fetch'.blocks = fetch.blocks /\ fetch'.pending = fetch.pending
      /\ fetch'.batch = fetch.batch /\ fetch'.out = fetch.out
      /\ fetch'.status = IF fetch.batch = {} THEN "batches" ELSE "fetching"
  BY <1>1 DEF HeaderInv, FetchType
<1>3. FetchParts' /\ RunParts' /\ Asked' = Asked
  BY <1>1, <1>2 DEF HeaderInv, FetchParts, RunParts, Asked
<1> QED
  BY <1>1, <1>2, <1>3, AskedSameKeepsHeaders DEF HeaderInv

LEMMA FinishKeepsHeaders == ASSUME HeaderInv, Finish, UNCHANGED run PROVE HeaderInv'
<1>1. /\ fetch' = [fetch EXCEPT !.status = "done"] /\ fetch.status = "batches" /\ fetch.pending = {}
      /\ counters' = counters /\ _cache' = _cache \cup fetch.out
  BY DEF Finish
<1>2. /\ fetch' \in FetchType /\ fetch'.blocks = fetch.blocks /\ fetch'.pending = fetch.pending
      /\ fetch'.batch = fetch.batch /\ fetch'.out = fetch.out /\ fetch'.status = "done"
  BY <1>1 DEF HeaderInv, FetchType
<1>3. FetchParts' /\ RunParts' /\ Asked \subseteq Asked' /\ _cache' \in SUBSET Blocks
  BY <1>1, <1>2 DEF HeaderInv, FetchParts, RunParts, Asked, FetchType
<1> QED
  BY <1>1, <1>2, <1>3, AskedSameKeepsHeaders DEF HeaderInv

LEMMA HeaderInvStep == ASSUME HeaderInv, [Next]_vars PROVE HeaderInv'
<1>1. CASE Cover BY <1>1, CoverKeepsHeaders
<1>2. CASE OnDecision BY <1>2, OnDecisionKeepsHeaders
<1>3. CASE OnHeaders BY <1>3, OnHeadersKeepsHeaders
<1>4. ASSUME UNCHANGED <<run, headerVars>> PROVE HeaderInv'
  BY <1>4, HeaderInvKept DEF HeaderInv, RunParts, headerVars
<1>5. CASE Routing BY <1>4, <1>5 DEF Routing
<1>6. CASE Requesting BY <1>4, <1>6 DEF Requesting
<1>7. CASE Fetching
  BY <1>7, BatchAnsweredKeepsHeaders, BatchMalformedKeepsHeaders, BatchTransportFailsKeepsHeaders,
     RetryBatchKeepsHeaders, FetchOneKeepsHeaders, FinishKeepsHeaders DEF Fetching, FetchHeaders
<1>8. CASE UNCHANGED vars BY <1>4, <1>8 DEF vars, headerVars
<1> QED
  BY <1>1, <1>2, <1>3, <1>5, <1>6, <1>7, <1>8 DEF Next

LEMMA HeaderInvInit == Init => HeaderInv
<1> SUFFICES ASSUME Init PROVE HeaderInv
  OBVIOUS
<1>1. Asked = {} /\ Cardinality(Asked) = 0
  BY FS_EmptySet DEF Init, HeaderInit, Asked
<1> QED
  BY <1>1, RunAssumption DEF Init, HeaderInit, HeaderInv, FetchType, RunType, FetchParts, RunParts, RunAssumption

(***************************************************************************)
(* However batches fail and are repeated block by block, the header source *)
(* never makes more logical calls than the run has distinct event blocks.  *)
(***************************************************************************)
THEOREM LogicalCallsAreDistinct == Spec => []HeaderCallsWithinBlocks
<1>1. HeaderInv /\ [Next]_vars => HeaderInv'
  BY HeaderInvStep
<1>2. HeaderInv => HeaderCallsWithinBlocks
  BY HeaderInvImplies
<1> QED
  BY <1>1, <1>2, HeaderInvInit, PTL DEF Spec

(***************************************************************************)
(* No event block of a run that goes on is without its header (ADR-012).   *)
(***************************************************************************)
THEOREM NoHeaderIsMissing == Spec => []GoesOnWithHeaders
<1>1. HeaderInv /\ [Next]_vars => HeaderInv'
  BY HeaderInvStep
<1>2. HeaderInv => GoesOnWithHeaders
  BY HeaderInvImplies
<1> QED
  BY <1>1, <1>2, HeaderInvInit, PTL DEF Spec

-----------------------------------------------------------------------------
(***************************************************************************)
(* A finite set whose subsets all have a first element under R can be laid *)
(* out in the order of R, by its smallest subset that could not be.        *)
(***************************************************************************)
Arranges(s, S, R) ==
    /\ s \in [1..Cardinality(S) -> S] /\ ToSet(s) = S
    /\ \A i, j \in DOMAIN s : i < j => <<s[i], s[j]>> \in R

LEMMA FirstThenTheRest ==
    ASSUME NEW R, NEW S, IsFiniteSet(S), NEW x \in S, \A y \in S \ {x} : <<x, y>> \in R,
           NEW t, Arranges(t, S \ {x}, R)
    PROVE  \E s : Arranges(s, S, R)
<1> DEFINE n == Cardinality(S)
           s == [i \in 1..n |-> IF i = 1 THEN x ELSE t[i - 1]]
<1>1. n \in Nat /\ n >= 1 /\ Cardinality(S \ {x}) = n - 1
  BY FS_RemoveElement, FS_CardinalityType, FS_EmptySet
<1>2. /\ t \in [1..n - 1 -> S \ {x}] /\ DOMAIN t = 1..n - 1
      /\ {t[i] : i \in 1..n - 1} = S \ {x}
      /\ \A i, j \in 1..n - 1 : i < j => <<t[i], t[j]>> \in R
  BY <1>1 DEF Arranges, ToSet
<1> HIDE DEF n
<1>3. s \in [1..n -> S] /\ DOMAIN s = 1..n
  BY <1>1, <1>2
<1>4. ASSUME NEW y \in S PROVE \E i \in 1..n : s[i] = y
  <2>1. CASE y = x BY <1>1, <2>1
  <2>2. CASE y # x
    <3>1. PICK k \in 1..n - 1 : t[k] = y
      BY <1>2, <2>2
    <3>2. k + 1 \in 1..n /\ s[k + 1] = y
      BY <1>1, <3>1
    <3> QED BY <3>2
  <2> QED BY <2>1, <2>2
<1>5. ToSet(s) = S
  BY <1>3, <1>4 DEF ToSet
<1>6. ASSUME NEW i \in 1..n, NEW j \in 1..n, i < j PROVE <<s[i], s[j]>> \in R
  <2>1. j - 1 \in 1..n - 1 /\ s[j] = t[j - 1]
    BY <1>1, <1>6
  <2>2. CASE i = 1
    BY <1>1, <1>2, <2>1, <2>2
  <2>3. CASE i # 1
    <3>1. i - 1 \in 1..n - 1 /\ s[i] = t[i - 1] /\ i - 1 < j - 1
      BY <1>1, <1>6, <2>3
    <3> QED BY <1>2, <2>1, <3>1
  <2> QED BY <2>2, <2>3
<1> QED
  BY <1>3, <1>5, <1>6 DEF Arranges, n

LEMMA FiniteSetsCanBeArranged ==
    ASSUME NEW T, IsFiniteSet(T), NEW R,
           \A S \in SUBSET T : S # {} => \E x \in S : \A y \in S \ {x} : <<x, y>> \in R
    PROVE  \A S \in SUBSET T : \E s : Arranges(s, S, R)
<1> DEFINE Bad == {n \in Nat : \E S \in SUBSET T : Cardinality(S) = n /\ ~ \E s : Arranges(s, S, R)}
<1>1. ASSUME NEW S \in SUBSET T PROVE IsFiniteSet(S) /\ Cardinality(S) \in Nat
  BY FS_Subset, FS_CardinalityType
<1>2. ASSUME Bad # {} PROVE FALSE
  <2>1. PICK n \in Bad : \A m \in Bad : n =< m
    BY <1>2, SmallestNumber
  <2>2. PICK S \in SUBSET T : Cardinality(S) = n /\ ~ \E s : Arranges(s, S, R)
    BY <2>1
  <2>3. CASE S = {}
    <3>1. Cardinality(S) = 0
      BY <2>3, FS_EmptySet
    <3>2. <<>> \in [1..Cardinality(S) -> S] /\ ToSet(<<>>) = S /\ DOMAIN <<>> = {}
      BY <2>3, <3>1 DEF ToSet
    <3>3. Arranges(<<>>, S, R)
      BY <3>2 DEF Arranges
    <3> QED BY <2>2, <3>3
  <2>4. CASE S # {}
    <3>1. PICK x \in S : \A y \in S \ {x} : <<x, y>> \in R
      BY <2>4
    <3>2. S \ {x} \in SUBSET T /\ Cardinality(S \ {x}) = n - 1 /\ n - 1 \in Nat
      BY <1>1, <2>2, FS_RemoveElement
    <3>3. n - 1 \notin Bad
      BY <2>1, <3>2
    <3>4. PICK t : Arranges(t, S \ {x}, R)
      BY <3>2, <3>3
    <3> QED BY <1>1, <2>2, <3>1, <3>4, FirstThenTheRest
  <2> QED BY <2>3, <2>4
<1> QED
  BY <1>1, <1>2

Active == {n \in Names : weight[n] >= 0}
LEMMA ActiveEndpoints ==
    /\ active_endpoints \in Seq(Active) /\ ToSet(active_endpoints) = Active
    /\ \A i, j \in DOMAIN active_endpoints :
            i < j => weight[active_endpoints[i]] <= weight[active_endpoints[j]]
    /\ Len(active_endpoints) \in Nat \ {0}
<1> USE AdapterAssumption DEF AdapterAssumption
<1> DEFINE R == {p \in Active \X Active : weight[p[1]] <= weight[p[2]]}
           P(s) == /\ s \in [1..Cardinality(Active) -> Active] /\ ToSet(s) = Active
                   /\ \A i, j \in DOMAIN s : i < j => weight[s[i]] <= weight[s[j]]
<1>1. Active \subseteq Names /\ Active # {} /\ \A n \in Active : weight[n] \in Nat
  BY DEF Active
<1>2. IsFiniteSet(Active) /\ Cardinality(Active) \in Nat
  BY <1>1, FS_Subset, FS_CardinalityType
<1>3. ASSUME NEW S \in SUBSET Active, S # {} PROVE \E x \in S : \A y \in S \ {x} : <<x, y>> \in R
  <2> DEFINE W == {weight[n] : n \in S}
  <2>1. W \in SUBSET Nat /\ W # {}
    BY <1>1, <1>3
  <2>2. PICK w \in W : \A v \in W : w =< v
    BY <2>1, SmallestNumber
  <2>3. PICK x \in S : weight[x] = w
    BY <2>2
  <2> QED
    BY <2>2, <2>3
<1>4. PICK s : Arranges(s, Active, R)
  <2> HIDE DEF R
  <2> QED BY <1>2, <1>3, FiniteSetsCanBeArranged
<1>5. P(s)
  <2>1. \A i \in DOMAIN s : s[i] \in Active
    BY <1>4 DEF Arranges
  <2> QED BY <1>4, <2>1 DEF Arranges
<1>6. active_endpoints = CHOOSE t \in [1..Cardinality(Active) -> Active] :
        ToSet(t) = Active /\ \A i, j \in DOMAIN t : i < j => weight[t[i]] <= weight[t[j]]
  BY DEF active_endpoints, Active
<1>7. P(active_endpoints)
  <2> HIDE DEF Active, AdapterAssumption
  <2> QED BY <1>5, <1>6
<1> HIDE DEF AdapterAssumption
<1>8. active_endpoints \in Seq(Active) /\ Len(active_endpoints) = Cardinality(Active)
  BY <1>2, <1>7
<1>9. Cardinality(Active) # 0
  BY <1>1, <1>2, FS_EmptySet
<1> QED
  BY <1>2, <1>7, <1>8, <1>9

(***************************************************************************)
(* The rows of a range can be put in order, for they are finitely many and *)
(* no two are at the same place.                                           *)
(***************************************************************************)
LEMMA RowsInOrder ==
    ASSUME NEW rows \in SUBSET Logs
    PROVE  /\ InOrder(rows) \in Seq(rows) /\ ToSet(InOrder(rows)) = rows
           /\ \A i, j \in DOMAIN InOrder(rows) : i < j => Before(InOrder(rows)[i], InOrder(rows)[j])
<1> DEFINE R == {p \in Logs \X Logs : Before(p[1], p[2])}
           P(s) == /\ s \in [1..Cardinality(rows) -> rows] /\ ToSet(s) = rows
                   /\ \A i, j \in DOMAIN s : i < j => Before(s[i], s[j])
<1>1. /\ IsFiniteSet(Logs)
      /\ \A l \in Logs : l.block \in Nat /\ l.index \in Nat /\ l = [block |-> l.block, index |-> l.index]
  BY AdapterAssumption DEF AdapterAssumption
<1>2. Cardinality(rows) \in Nat
  BY <1>1, FS_Subset, FS_CardinalityType
<1>3. ASSUME NEW S \in SUBSET Logs, S # {} PROVE \E x \in S : \A y \in S \ {x} : <<x, y>> \in R
  <2> DEFINE B == {l.block : l \in S}
  <2>0. B \in SUBSET Nat /\ B # {}
    BY <1>1, <1>3
  <2>1. PICK b \in B : \A c \in B : b =< c
    BY <2>0, SmallestNumber
  <2> DEFINE I == {i \in Nat : \E l \in S : l.block = b /\ l.index = i}
  <2>2. I \in SUBSET Nat /\ I # {}
    BY <1>1, <2>1
  <2>3. PICK k \in I : \A i \in I : k =< i
    BY <2>2, SmallestNumber
  <2>4. PICK x \in S : x.block = b /\ x.index = k
    BY <2>3
  <2>5. ASSUME NEW y \in S \ {x} PROVE Before(x, y)
    <3>1. b =< y.block /\ y.block \in Nat /\ b \in Nat
      BY <1>1, <2>1, <2>4
    <3>2. CASE y.block = b
      <4>1. y.index \in I /\ k =< y.index /\ y.index \in Nat /\ k \in Nat
        BY <1>1, <2>3, <3>2
      <4>2. y.index # k
        BY <1>1, <2>4, <2>5, <3>2
      <4> QED BY <2>4, <3>2, <4>1, <4>2 DEF Before
    <3> QED BY <2>4, <3>1, <3>2 DEF Before
  <2> QED
    BY <2>5
<1>4. PICK s : Arranges(s, rows, R)
  <2> HIDE DEF R
  <2> QED BY <1>1, <1>3, FiniteSetsCanBeArranged
<1>5. P(s)
  BY <1>4 DEF Arranges
<1>6. P(InOrder(rows))
  BY <1>5 DEF InOrder
<1> HIDE DEF P
<1>7. InOrder(rows) \in [1..Cardinality(rows) -> rows]
  BY <1>6 DEF P
<1>8. InOrder(rows) \in Seq(rows)
  BY <1>2, <1>7
<1> QED
  BY <1>6, <1>8 DEF P

-----------------------------------------------------------------------------
(***************************************************************************)
(* What the adapter's sequences hold.                                      *)
(***************************************************************************)
LEMMA RowsOfConcatenation ==
    ASSUME NEW S, NEW s \in Seq(S), NEW t \in Seq(S)
    PROVE  s \o t \in Seq(S) /\ ToSet(s \o t) = ToSet(s) \cup ToSet(t)
<1>1. /\ s \o t \in Seq(S) /\ Len(s \o t) = Len(s) + Len(t)
      /\ \A i \in 1..Len(s) + Len(t) : (s \o t)[i] = IF i <= Len(s) THEN s[i] ELSE t[i - Len(s)]
  BY ConcatProperties
<1>2. Len(s) \in Nat /\ Len(t) \in Nat /\ DOMAIN s = 1..Len(s) /\ DOMAIN t = 1..Len(t)
      /\ DOMAIN (s \o t) = 1..Len(s) + Len(t)
  BY <1>1, LenProperties
<1>3. ASSUME NEW x \in ToSet(s) PROVE x \in ToSet(s \o t)
  <2>1. PICK i \in 1..Len(s) : s[i] = x
    BY <1>2, <1>3 DEF ToSet
  <2>2. i \in 1..Len(s) + Len(t) /\ (s \o t)[i] = x
    BY <1>1, <1>2, <2>1
  <2> QED BY <1>2, <2>2 DEF ToSet
<1>4. ASSUME NEW x \in ToSet(t) PROVE x \in ToSet(s \o t)
  <2>1. PICK i \in 1..Len(t) : t[i] = x
    BY <1>2, <1>4 DEF ToSet
  <2>2. i + Len(s) \in 1..Len(s) + Len(t) /\ (s \o t)[i + Len(s)] = x
    BY <1>1, <1>2, <2>1
  <2> QED BY <1>2, <2>2 DEF ToSet
<1>5. ASSUME NEW x \in ToSet(s \o t) PROVE x \in ToSet(s) \cup ToSet(t)
  <2>1. PICK i \in 1..Len(s) + Len(t) : (s \o t)[i] = x
    BY <1>2, <1>5 DEF ToSet
  <2>2. CASE i <= Len(s)
    <3>1. i \in 1..Len(s) /\ s[i] = x
      BY <1>1, <1>2, <2>1, <2>2
    <3> QED BY <1>2, <3>1 DEF ToSet
  <2>3. CASE ~ (i <= Len(s))
    <3>1. i - Len(s) \in 1..Len(t) /\ t[i - Len(s)] = x
      BY <1>1, <1>2, <2>1, <2>3
    <3> QED BY <1>2, <3>1 DEF ToSet
  <2> QED BY <1>2, <2>1, <2>2, <2>3
<1> QED
  BY <1>1, <1>3, <1>4, <1>5

LEMMA LastAndTheRest ==
    ASSUME NEW S, NEW s \in Seq(S), s # <<>>
    PROVE  /\ Front(s) \in Seq(S) /\ Last(s) \in S
           /\ ToSet(s) = ToSet(Front(s)) \cup {Last(s)}
<1>1. Len(s) \in Nat \ {0} /\ DOMAIN s = 1..Len(s) /\ \A i \in 1..Len(s) : s[i] \in S
  BY EmptySeq, LenProperties, ElementOfSeq
<1> DEFINE n == Len(s)
<1>2. /\ SubSeq(s, 1, n - 1) \in Seq(S)
      /\ Len(SubSeq(s, 1, n - 1)) = n - 1
      /\ \A i \in 1..n - 1 : SubSeq(s, 1, n - 1)[i] = s[i]
  <2>1. \A i \in 1..n - 1 : s[i] \in S
    BY <1>1
  <2>2. 1 \in Int /\ n - 1 \in Int
    BY <1>1
  <2>3. /\ SubSeq(s, 1, n - 1) \in Seq(S)
        /\ Len(SubSeq(s, 1, n - 1)) = IF 1 <= n - 1 THEN n - 1 - 1 + 1 ELSE 0
        /\ \A i \in 1..n - 1 - 1 + 1 : SubSeq(s, 1, n - 1)[i] = s[1 + i - 1]
    BY <2>1, <2>2, SubSeqProperties
  <2>4. n - 1 - 1 + 1 = n - 1 /\ \A i \in 1..n - 1 : 1 + i - 1 = i
    BY <1>1
  <2> QED
    BY <1>1, <2>3, <2>4
<1>3. DOMAIN SubSeq(s, 1, n - 1) = 1..n - 1
  BY <1>2, LenProperties
<1>4. ToSet(Front(s)) = {s[i] : i \in 1..n - 1}
  BY <1>2, <1>3 DEF Front, ToSet
<1>5. ToSet(s) = {s[i] : i \in 1..n}
  BY <1>1 DEF ToSet
<1>6. 1..n = (1..n - 1) \cup {n}
  BY <1>1
<1> QED
  BY <1>1, <1>2, <1>4, <1>5, <1>6 DEF Front, Last

LEMMA RowsOfReverse ==
    ASSUME NEW S, NEW s \in Seq(S)
    PROVE  Reverse(s) \in Seq(S) /\ ToSet(Reverse(s)) = ToSet(s)
<1>1. Len(s) \in Nat /\ DOMAIN s = 1..Len(s) /\ \A i \in 1..Len(s) : s[i] \in S
  BY LenProperties, ElementOfSeq
<1>2. \A i \in 1..Len(s) : Len(s) - i + 1 \in 1..Len(s) /\ Len(s) - (Len(s) - i + 1) + 1 = i
  BY <1>1
<1>3. Reverse(s) \in [1..Len(s) -> S]
  BY <1>1, <1>2 DEF Reverse
<1>4. ASSUME NEW x \in ToSet(s) PROVE x \in ToSet(Reverse(s))
  <2>1. PICK i \in 1..Len(s) : s[i] = x
    BY <1>1, <1>4 DEF ToSet
  <2>2. Reverse(s)[Len(s) - i + 1] = x
    BY <1>2, <2>1 DEF Reverse
  <2> QED BY <1>2, <1>3, <2>2 DEF ToSet
<1>5. ASSUME NEW x \in ToSet(Reverse(s)) PROVE x \in ToSet(s)
  <2>1. PICK i \in 1..Len(s) : Reverse(s)[i] = x
    BY <1>3, <1>5 DEF ToSet
  <2>2. s[Len(s) - i + 1] = x
    BY <2>1 DEF Reverse
  <2> QED BY <1>1, <1>2, <2>2 DEF ToSet
<1> QED
  BY <1>1, <1>3, <1>4, <1>5

LEMMA RowsOfOne == \A S : \A x \in S : <<x>> \in Seq(S) /\ ToSet(<<x>>) = {x}
BY DEF ToSet
LEMMA RowsOfTwo == \A S : \A x, y \in S : <<x, y>> \in Seq(S) /\ ToSet(<<x, y>>) = {x, y}
<1> SUFFICES ASSUME NEW S, NEW x \in S, NEW y \in S PROVE <<x, y>> \in Seq(S) /\ ToSet(<<x, y>>) = {x, y}
  OBVIOUS
<1>1. DOMAIN <<x, y>> = {1, 2}
  OBVIOUS
<1> QED
  BY <1>1 DEF ToSet

(***************************************************************************)
(* A page holds the rows of its range, when no endpoint answers with null; *)
(* the halves of a range hold its rows between them.                       *)
(***************************************************************************)
Ranges == [lo : Int, hi : Int]
Covered(ranges) == UNION {Between(r.lo, r.hi) : r \in ToSet(ranges)}

LEMMA PagesHoldTheRange ==
    ASSUME NEW range, NEW page \in Pages(range)
    PROVE  /\ page \in Seq(Logs)
           /\ ToSet(page) \subseteq Between(range.lo, range.hi)
           /\ ~AnswersNull => ToSet(page) = Between(range.lo, range.hi)
<1> DEFINE rows == Between(range.lo, range.hi)
           sorted == InOrder(rows)
<1>1. rows \in SUBSET Logs
  BY DEF Between
<1>2. sorted \in Seq(Logs) /\ ToSet(sorted) = rows
  <2>1. sorted \in Seq(rows) /\ ToSet(sorted) = rows
    BY <1>1, RowsInOrder
  <2> QED BY <1>1, <2>1, SeqMonotonic
<1>3. /\ page \in {sorted, Reverse(sorted), sorted \o sorted} \/ page = <<>>
      /\ ~AnswersNull => page \in {sorted, Reverse(sorted), sorted \o sorted}
  BY DEF Pages
<1> HIDE DEF sorted, rows
<1>4. Reverse(sorted) \in Seq(Logs) /\ ToSet(Reverse(sorted)) = rows
  BY <1>2, RowsOfReverse
<1>5. sorted \o sorted \in Seq(Logs) /\ ToSet(sorted \o sorted) = rows
  <2>1. \A s, t \in Seq(Logs) : s \o t \in Seq(Logs) /\ ToSet(s \o t) = ToSet(s) \cup ToSet(t)
    BY RowsOfConcatenation
  <2> QED BY <1>2, <2>1, Zenon
<1>6. ToSet(<<>>) = {}
  BY DEF ToSet
<1> QED
  BY <1>2, <1>3, <1>4, <1>5, <1>6, EmptySeq DEF rows

LEMMA HalvesHoldTheRange ==
    ASSUME NEW range \in Ranges, split(range) # <<>>
    PROVE  /\ split(range) \in Seq(Ranges) /\ split(range) # <<>>
           /\ Covered(split(range)) = Between(range.lo, range.hi)
<1> DEFINE mid == (range.lo + range.hi) \div 2
           low == [lo |-> range.lo, hi |-> mid]
           high == [lo |-> mid + 1, hi |-> range.hi]
<1>1. split(range) = <<low, high>> /\ range.lo < range.hi
  BY DEF split, Ranges
<1>2. range.lo \in Int /\ range.hi \in Int /\ mid \in Int /\ range.lo <= mid /\ mid < range.hi
  BY <1>1 DEF Ranges
<1>3. low \in Ranges /\ high \in Ranges
  BY <1>2 DEF Ranges
<1>4. low.lo = range.lo /\ low.hi = mid /\ high.lo = mid + 1 /\ high.hi = range.hi
  OBVIOUS
<1> HIDE DEF low, high, mid
<1>5. <<low, high>> \in Seq(Ranges) /\ ToSet(<<low, high>>) = {low, high}
  BY <1>3, RowsOfTwo
<1>6. Covered(<<low, high>>) = Between(low.lo, low.hi) \cup Between(high.lo, high.hi)
  BY <1>5 DEF Covered
<1>7. ASSUME NEW l \in Logs
      PROVE  l.block \in range.lo..range.hi <=> (l.block \in low.lo..low.hi \/ l.block \in high.lo..high.hi)
  BY <1>2, <1>4
<1>8. Between(low.lo, low.hi) \cup Between(high.lo, high.hi) = Between(range.lo, range.hi)
  BY <1>7 DEF Between
<1> QED
  BY <1>1, <1>5, <1>6, <1>8

LEMMA CoveredByParts ==
    ASSUME NEW s \in Seq(Ranges)
    PROVE  /\ \A t \in Seq(Ranges) : Covered(s \o t) = Covered(s) \cup Covered(t)
           /\ s # <<>> => Covered(s) = Covered(Front(s)) \cup Between(Last(s).lo, Last(s).hi)
<1>1. \A t \in Seq(Ranges) : ToSet(s \o t) = ToSet(s) \cup ToSet(t)
  BY RowsOfConcatenation
<1>2. s # <<>> => ToSet(s) = ToSet(Front(s)) \cup {Last(s)}
  BY LastAndTheRest
<1> QED
  BY <1>1, <1>2 DEF Covered

-----------------------------------------------------------------------------
(***************************************************************************)
(* The types of adapter and router, with what keeps them: a call in        *)
(* progress has a range to ask for, and an alias that is asked has a call  *)
(* left to pay with.                                                       *)
(***************************************************************************)
Errors == {"none", "cannot_split", "exhausted", "refused"}
CallType ==
    [status : CallStatus, method : Methods \cup {"none"}, ranges : Seq(Ranges), logs : Seq(Logs),
     found : BOOLEAN, served : SUBSET Names, endpoint : 1..Len(active_endpoints),
     attempt : 0..retry_limit, backoff : 1..max_backoff, error : Errors]
CallInv == call \in CallType /\ (Running => call.ranges # <<>>)

Aliases == Names \cup {NoAlias}
Reasons == Errors \cup {"no_capable_endpoint", "budget_exhausted", "ok", "response_size_overflow",
                        "empty_response"}
CoverType ==
    [step : {"idle", "choose", "asked", "pinning"}, lo : Int, hi : Int,
     index : 1..Len(failover_order) + 1, last_error : Reasons, failover_from : Aliases]
DecisionType ==
    [state : {"none", "successful", "scanned_empty", "failed"}, alias : Aliases, failover_from : Aliases,
     reason : Reasons, rows : Seq(Logs), pinned : BOOLEAN]
LedgerType == [Names -> [calls : Nat, quota : Nat, time : BOOLEAN]]
RouterInv ==
    /\ cover \in CoverType /\ decision \in DecisionType /\ ledger \in LedgerType
    /\ cover.step # "idle" => run.waits = "decision"
    /\ cover.step \in {"asked", "pinning"} => cover.index <= Len(failover_order)
    /\ cover.step = "asked" =>
        ledger[Alias].calls >= 1 /\ call.method = "eth_getLogs" /\ call.status # "idle"

(***************************************************************************)
(* The calls.                                                              *)
(***************************************************************************)
LEMMA EndpointsAreThere ==
    /\ Len(active_endpoints) \in Nat \ {0} /\ 1 \in 1..Len(active_endpoints)
    /\ \A i \in 1..Len(active_endpoints) : active_endpoints[i] \in Names
<1>1. active_endpoints \in Seq(Active) /\ Len(active_endpoints) \in Nat \ {0} /\ Active \subseteq Names
  BY ActiveEndpoints DEF Active
<1>2. \A i \in 1..Len(active_endpoints) : active_endpoints[i] \in Active
  BY <1>1, ElementOfSeq
<1> QED
  BY <1>1, <1>2

LEMMA StartIsACall ==
    ASSUME NEW method \in Methods, NEW lo \in Int, NEW hi \in Int
    PROVE  /\ Start(method, lo, hi) \in CallType
           /\ Start(method, lo, hi).status = "running" /\ Start(method, lo, hi).method = method
           /\ Start(method, lo, hi).ranges = <<[lo |-> lo, hi |-> hi]>>
           /\ Start(method, lo, hi).logs = <<>>
<1> DEFINE r == <<[lo |-> lo, hi |-> hi]>>
<1>1. r \in Seq(Ranges) /\ <<>> \in Seq(Logs)
  BY DEF Ranges
<1>2. initial_backoff \in 1..max_backoff /\ 0 \in 0..retry_limit
  BY AdapterAssumption DEF AdapterAssumption
<1>0. Start(method, lo, hi) = [Idle EXCEPT !.status = "running", !.method = method, !.ranges = r]
  BY DEF Start
<1> HIDE DEF r
<1>3. Start(method, lo, hi) =
        [status |-> "running", method |-> method, ranges |-> r, logs |-> <<>>, found |-> FALSE,
         served |-> {}, endpoint |-> 1, attempt |-> 0, backoff |-> initial_backoff, error |-> "none"]
  BY <1>0 DEF Idle
<1>4. Start(method, lo, hi) \in CallType
  BY <1>1, <1>2, <1>3, EndpointsAreThere DEF CallType, CallStatus, Methods, Errors
<1> QED
  BY <1>3, <1>4 DEF r

LEMMA CallInvInit == Init => CallInv
<1> SUFFICES ASSUME Init PROVE CallInv
  OBVIOUS
<1>1. <<>> \in Seq(Ranges) /\ <<>> \in Seq(Logs)
  OBVIOUS
<1>2. initial_backoff \in 1..max_backoff /\ 0 \in 0..retry_limit
  BY AdapterAssumption DEF AdapterAssumption
<1>3. Idle \in CallType /\ Idle.status = "idle"
  BY <1>1, <1>2, EndpointsAreThere DEF Idle, CallType, CallStatus, Methods, Errors
<1> QED
  BY <1>3 DEF Init, AdapterInit, CallInv, Running

LEMMA AskedIsAnEndpoint ==
    ASSUME CallInv
    PROVE  AskedEndpoint \in Names
BY EndpointsAreThere DEF AskedEndpoint, CallInv, CallType

LEMMA RestartedCall ==
    ASSUME NEW c \in CallType
    PROVE  /\ Restart(c) \in CallType /\ Restart(c).method = c.method /\ Restart(c).ranges = c.ranges
           /\ Restart(c).status = c.status /\ Restart(c).logs = c.logs
<1>1. initial_backoff \in 1..max_backoff /\ 0 \in 0..retry_limit /\ 1 \in 1..Len(active_endpoints)
  BY AdapterAssumption, EndpointsAreThere DEF AdapterAssumption
<1> QED
  BY <1>1 DEF Restart, CallType

\* What an answered range leaves of the call.
AfterPage(page) ==
    LET rest == Front(call.ranges) IN
    Restart([call EXCEPT
                !.ranges = rest, !.served = @ \cup {AskedEndpoint},
                !.status = IF rest = <<>> THEN "returned" ELSE "running",
                !.logs = IF rest = <<>> THEN _dedupe_and_sort_logs(@ \o page) ELSE @ \o page])

LEMMA AnsweredCall ==
    ASSUME CallInv, Running, NEW page \in Seq(Logs)
    PROVE  LET c == AfterPage(page)
               rest == Front(call.ranges)
           IN  /\ c \in CallType /\ c.method = call.method /\ c.ranges = rest
               /\ c.status = IF rest = <<>> THEN "returned" ELSE "running"
               /\ c.logs = IF rest = <<>> THEN InOrder(ToSet(call.logs \o page)) ELSE call.logs \o page
<1> DEFINE rest == Front(call.ranges)
           rows == call.logs \o page
           logs == IF rest = <<>> THEN InOrder(ToSet(rows)) ELSE rows
           status == IF rest = <<>> THEN "returned" ELSE "running"
           served == call.served \cup {AskedEndpoint}
<1>1. call \in CallType /\ call.ranges \in Seq(Ranges) /\ call.ranges # <<>> /\ call.logs \in Seq(Logs)
  BY DEF CallInv, CallType
<1>2. rest \in Seq(Ranges)
  BY <1>1, LastAndTheRest
<1>3. rows \in Seq(Logs) /\ ToSet(rows) \in SUBSET Logs
  BY <1>1, RowsOfConcatenation, RangeEquality DEF ToSet
<1>4. InOrder(ToSet(rows)) \in Seq(Logs)
  BY <1>3, RowsInOrder, SeqMonotonic
<1>5. logs \in Seq(Logs) /\ status \in CallStatus /\ served \in SUBSET Names
  BY <1>1, <1>3, <1>4, AskedIsAnEndpoint DEF CallStatus, CallType
<1> DEFINE c == [call EXCEPT !.ranges = rest, !.served = served, !.status = status, !.logs = logs]
<1>6. AfterPage(page) = Restart(c)
  BY <1>1 DEF AfterPage, _dedupe_and_sort_logs, CallType
<1> HIDE DEF rest, logs, status, served
<1>7. /\ c \in CallType /\ c.method = call.method /\ c.ranges = rest
      /\ c.status = status /\ c.logs = logs
  BY <1>1, <1>2, <1>5 DEF CallType
<1> HIDE DEF c
<1>8. /\ AfterPage(page) \in CallType /\ AfterPage(page).method = call.method /\ AfterPage(page).ranges = rest
      /\ AfterPage(page).status = status /\ AfterPage(page).logs = logs
  BY <1>6, <1>7, RestartedCall
<1> QED
  BY <1>8 DEF rest, logs, status

LEMMA SplitCall ==
    ASSUME CallInv, Running, split(Current) # <<>>,
           call' = Restart([call EXCEPT !.ranges = Front(@) \o split(Current)])
    PROVE  /\ call' \in CallType /\ call'.method = call.method /\ call'.status = "running"
           /\ call'.logs = call.logs /\ call'.ranges = Front(call.ranges) \o split(Current)
           /\ call'.ranges # <<>>
<1> DEFINE parts == Front(call.ranges) \o split(Current)
<1>1. call \in CallType /\ call.ranges \in Seq(Ranges) /\ call.ranges # <<>>
  BY DEF CallInv, CallType
<1>2. Front(call.ranges) \in Seq(Ranges) /\ Current \in Ranges
  BY <1>1, LastAndTheRest DEF Current
<1>3. split(Current) \in Seq(Ranges)
  BY <1>2, HalvesHoldTheRange
<1>4. parts \in Seq(Ranges) /\ parts # <<>>
  BY <1>2, <1>3, ConcatProperties, ConcatEqualIffEmpty
<1> DEFINE c == [call EXCEPT !.ranges = parts]
<1>5. call' = Restart(c)
  BY <1>1 DEF CallType
<1> HIDE DEF parts
<1>6. c \in CallType /\ c.method = call.method /\ c.status = call.status /\ c.logs = call.logs /\ c.ranges = parts
  BY <1>1, <1>4 DEF CallType
<1> HIDE DEF c
<1>7. /\ call' \in CallType /\ call'.method = call.method /\ call'.status = call.status
      /\ call'.logs = call.logs /\ call'.ranges = parts
  BY <1>5, <1>6, RestartedCall
<1> QED
  BY <1>4, <1>7 DEF parts, Running

(***************************************************************************)
(* A request that brings no rows leaves what was asked and collected, or   *)
(* ends the call in an error.                                              *)
(***************************************************************************)
Unanswered ==
    /\ call' \in CallType /\ call'.method = call.method /\ call'.status \in {"running", "failed"}
    /\ call'.status = "running" => call'.ranges = call.ranges /\ call'.logs = call.logs

LEMMA EndedCall ==
    ASSUME CallInv, NEW status \in CallStatus \ {"running"}
    PROVE  /\ Ended(status) \in CallType /\ Ended(status).status = status
           /\ Ended(status).method = call.method
<1>1. <<>> \in Seq(Ranges) /\ <<>> \in Seq(Logs) /\ call.method \in Methods \cup {"none"}
  BY DEF CallInv, CallType
<1>2. initial_backoff \in 1..max_backoff /\ 0 \in 0..retry_limit
  BY AdapterAssumption DEF AdapterAssumption
<1> DEFINE m == call.method
<1>3. Ended(status) = [Idle EXCEPT !.status = status, !.method = m]
  BY DEF Ended
<1>4. m \in Methods \cup {"none"}
  BY <1>1
<1> HIDE DEF m
<1>5. Ended(status) =
        [status |-> status, method |-> m, ranges |-> <<>>, logs |-> <<>>, found |-> FALSE,
         served |-> {}, endpoint |-> 1, attempt |-> 0, backoff |-> initial_backoff, error |-> "none"]
  BY <1>3 DEF Idle
<1>6. Ended(status) \in CallType
  BY <1>1, <1>2, <1>4, <1>5, EndpointsAreThere DEF CallType, CallStatus, Errors
<1> QED
  BY <1>5, <1>6 DEF m

LEMMA RaisedCall ==
    ASSUME CallInv, Running, NEW error \in Errors, Raise(error)
    PROVE  Unanswered
<1> DEFINE ended == Ended("failed")
<1>1. ended \in CallType /\ ended.status = "failed" /\ ended.method = call.method
  BY EndedCall DEF CallStatus
<1>2. call' = [ended EXCEPT !.error = error]
  BY DEF Raise
<1> HIDE DEF ended
<1> QED
  BY <1>1, <1>2 DEF CallType, Unanswered

LEMMA FailedCall ==
    ASSUME CallInv, FailsToAnswer
    PROVE  Unanswered
<1> USE AdapterAssumption, EndpointsAreThere DEF AdapterAssumption
<1>1. call \in CallType /\ Running /\ call.status = "running"
  BY DEF CallInv, FailsToAnswer, Running
<1>2. /\ call.attempt \in 0..retry_limit /\ call.backoff \in 1..max_backoff
      /\ call.endpoint \in 1..Len(active_endpoints)
  BY <1>1 DEF CallType
<1>3. CASE call.attempt < retry_limit
  <2> DEFINE pause == IF 2 * call.backoff < max_backoff THEN 2 * call.backoff ELSE max_backoff
  <2>1. call' = [call EXCEPT !.attempt = call.attempt + 1, !.backoff = pause]
    BY <1>1, <1>3 DEF FailsToAnswer, CallType
  <2>2. pause \in 1..max_backoff /\ call.attempt + 1 \in 0..retry_limit
    BY <1>2, <1>3
  <2> HIDE DEF pause
  <2> QED BY <1>1, <2>1, <2>2 DEF CallType, Unanswered
<1>4. CASE ~ (call.attempt < retry_limit) /\ call.endpoint < Len(active_endpoints)
  <2>1. call' = [call EXCEPT !.endpoint = call.endpoint + 1, !.attempt = 0, !.backoff = initial_backoff]
    BY <1>1, <1>4 DEF FailsToAnswer, CallType
  <2>2. call.endpoint + 1 \in 1..Len(active_endpoints) /\ initial_backoff \in 1..max_backoff /\ 0 \in 0..retry_limit
    BY <1>2, <1>4
  <2> QED BY <1>1, <2>1, <2>2 DEF CallType, Unanswered
<1>5. CASE ~ (call.attempt < retry_limit) /\ ~ (call.endpoint < Len(active_endpoints))
  <2>1. Raise("exhausted")
    BY <1>5 DEF FailsToAnswer
  <2> QED BY <1>1, <2>1, RaisedCall DEF Errors
<1> QED
  BY <1>3, <1>4, <1>5

LEMMA HeaderCall ==
    ASSUME CallInv, AnswerHeader
    PROVE  call' \in CallType /\ call'.status = "returned" /\ call.method = "eth_getBlockByNumber"
<1>1. PICK found \in BOOLEAN :
        call' = [Ended("returned") EXCEPT !.found = found, !.served = {AskedEndpoint}]
  BY DEF AnswerHeader
<1> DEFINE ended == Ended("returned")
           asked == {AskedEndpoint}
<1>2. ended \in CallType /\ ended.status = "returned" /\ asked \in SUBSET Names
  BY EndedCall, AskedIsAnEndpoint DEF CallStatus, CallInv
<1>3. call' = [ended EXCEPT !.found = found, !.served = asked]
  BY <1>1
<1> HIDE DEF ended, asked
<1> QED
  BY <1>2, <1>3 DEF AnswerHeader, CallType

\* One request of the adapter, by what it makes of the call.
RequestOutcome ==
    \/ Unanswered
    \/ call.method = "eth_getBlockByNumber" /\ call'.status = "returned" /\ call' \in CallType
    \/ \E page \in Pages(Current) : call.method = "eth_getLogs" /\ call' = AfterPage(page)
    \/ /\ split(Current) # <<>> /\ call.method = "eth_getLogs"
       /\ call' = Restart([call EXCEPT !.ranges = Front(@) \o split(Current)])

LEMMA RequestOutcomes ==
    ASSUME CallInv, Request
    PROVE  Running /\ RequestOutcome
<1>1. CASE AnswerLogs
  BY <1>1 DEF AnswerLogs, RequestOutcome, AfterPage
<1>2. CASE AnswerHeader
  <2>1. Running
    BY <1>2 DEF AnswerHeader
  <2> QED BY <1>2, <2>1, HeaderCall DEF RequestOutcome
<1>3. CASE RangeTooLarge
  <2>1. Running /\ call.method = "eth_getLogs"
    BY <1>3 DEF RangeTooLarge
  <2>2. CASE split(Current) # <<>>
    BY <1>3, <2>1, <2>2 DEF RangeTooLarge, RequestOutcome
  <2>3. CASE split(Current) = <<>>
    <3>1. Raise("cannot_split")
      BY <1>3, <2>3 DEF RangeTooLarge
    <3> QED BY <2>1, <3>1, RaisedCall DEF RequestOutcome, Errors
  <2> QED BY <2>2, <2>3
<1>4. CASE FailsToAnswer
  <2>1. Running
    BY <1>4 DEF FailsToAnswer
  <2> QED BY <1>4, <2>1, FailedCall DEF RequestOutcome
<1>5. CASE Refuses
  <2>1. Running /\ Raise("refused")
    BY <1>5 DEF Refuses
  <2> QED BY <2>1, RaisedCall DEF RequestOutcome, Errors
<1> QED
  BY <1>1, <1>2, <1>3, <1>4, <1>5 DEF Request

LEMMA RequestKeepsCall ==
    ASSUME CallInv, Request
    PROVE  /\ CallInv' /\ call'.status # "idle" /\ call'.method \in Methods \cup {"none"}
           /\ call.method = "eth_getLogs" => call'.method = "eth_getLogs"
<1>1. Running /\ RequestOutcome /\ call.ranges # <<>> /\ call \in CallType
  BY RequestOutcomes DEF CallInv
<1>2. CASE Unanswered
  BY <1>1, <1>2 DEF Unanswered, CallInv, CallType, Running
<1>3. CASE call.method = "eth_getBlockByNumber" /\ call'.status = "returned" /\ call' \in CallType
  BY <1>3 DEF CallInv, CallType, Running
<1>4. ASSUME NEW page \in Pages(Current), call' = AfterPage(page), call.method = "eth_getLogs"
      PROVE  CallInv' /\ call'.status # "idle" /\ call'.method = "eth_getLogs"
  <2>1. page \in Seq(Logs)
    BY PagesHoldTheRange
  <2>2. /\ call' \in CallType /\ call'.method = call.method /\ call'.ranges = Front(call.ranges)
        /\ call'.status = IF Front(call.ranges) = <<>> THEN "returned" ELSE "running"
    BY <1>1, <1>4, <2>1, AnsweredCall
  <2> QED BY <1>4, <2>2 DEF CallInv, Running
<1>5. CASE /\ split(Current) # <<>> /\ call.method = "eth_getLogs"
           /\ call' = Restart([call EXCEPT !.ranges = Front(@) \o split(Current)])
  BY <1>1, <1>5, SplitCall DEF CallInv, CallType
<1> QED
  BY <1>1, <1>2, <1>3, <1>4, <1>5 DEF RequestOutcome, Methods

LEMMA CallInvStep ==
    ASSUME CallInv, RouterInv, HeaderInv, [Next]_vars
    PROVE  CallInv'
<1>1. ASSUME call' = call PROVE CallInv'
  BY <1>1 DEF CallInv, Running
<1>2. ASSUME NEW method \in Methods, NEW lo \in Int, NEW hi \in Int, call' = Start(method, lo, hi)
      PROVE  CallInv'
  <2>1. call' \in CallType /\ call'.ranges = <<[lo |-> lo, hi |-> hi]>>
    BY <1>2, StartIsACall
  <2> QED BY <2>1 DEF CallInv
<1>3. CASE Requesting
  BY <1>3, RequestKeepsCall DEF Requesting
<1>4. CASE Routing
  <2>1. cover.lo \in Int /\ cover.hi \in Int
    BY DEF RouterInv, CoverType
  <2>2. \/ call' = call
        \/ call' = Start("eth_getLogs", cover.lo, cover.hi)
        \/ call' = Start("eth_getBlockByNumber", cover.hi, cover.hi)
    BY <1>4 DEF Routing, Route, NoClient, TooWide, BudgetExhausted, call_get_logs, FailOver, Overflow, Succeed,
                get_block_hash_for_pin, ScannedEmpty, GiveUp
  <2> QED BY <1>1, <1>2, <2>1, <2>2 DEF Methods
<1>5. CASE Fetching
  <2>1. CASE call' = call BY <1>1, <2>1
  <2>2. CASE call' # call
    <3>1. fetch.batch # {} /\ call' = Start("eth_getBlockByNumber", Min(fetch.batch), Min(fetch.batch))
      BY <1>5, <2>2 DEF Fetching, FetchHeaders, BatchAnswered, BatchMalformed, BatchTransportFails,
                        _retry_batch, _fetch_one, Finish
    <3>2. Min(fetch.batch) \in Int
      BY <3>1, SmallestBlock DEF HeaderInv, FetchType, Blocks
    <3> QED BY <1>2, <3>1, <3>2 DEF Methods
  <2> QED BY <2>1, <2>2
<1>6. CASE Cover BY <1>1, <1>6 DEF Cover, CoverSubRange
<1>7. CASE OnDecision BY <1>1, <1>7 DEF OnDecision, get_headers_batch
<1>8. CASE OnHeaders BY <1>1, <1>8 DEF OnHeaders
<1>9. CASE UNCHANGED vars BY <1>1, <1>9 DEF vars
<1> QED
  BY <1>3, <1>4, <1>5, <1>6, <1>7, <1>8, <1>9 DEF Next

(***************************************************************************)
(* The router.                                                             *)
(***************************************************************************)
LEMMA RouterInvInit == Init => RouterInv
<1> SUFFICES ASSUME Init PROVE RouterInv
  OBVIOUS
<1>1. Len(failover_order) \in Nat /\ 1 \in 1..Len(failover_order) + 1 /\ <<>> \in Seq(Logs)
  BY RouterAssumption, EmptySeq DEF RouterAssumption
<1>2. ledger \in LedgerType
  BY RouterAssumption DEF Init, RouterInit, LedgerType, RouterAssumption
<1>3. cover \in CoverType /\ cover.step = "idle"
  BY <1>1 DEF Init, RouterInit, CoverType, Reasons, Errors, Aliases
<1>4. decision \in DecisionType
  BY <1>1 DEF Init, RouterInit, Undecided, DecisionType, Reasons, Errors, Aliases
<1> QED
  BY <1>2, <1>3, <1>4 DEF RouterInv

LEMMA AliasIsANode ==
    ASSUME RouterInv, cover.index <= Len(failover_order)
    PROVE  Alias \in Names /\ cover.index \in 1..Len(failover_order) /\ first_alias \in Names
<1>1. cover.index \in 1..Len(failover_order) /\ failover_order \in Seq(Names) /\ failover_order # <<>>
  BY RouterAssumption DEF RouterInv, CoverType, RouterAssumption
<1>2. 1 \in 1..Len(failover_order)
  BY <1>1, EmptySeq
<1> QED
  BY <1>1, <1>2, ElementOfSeq DEF Alias, first_alias

LEMMA CoverMoves ==
    ASSUME RouterInv, cover.index <= Len(failover_order), NEW error \in Reasons, NEW from \in Aliases
    PROVE  /\ [cover EXCEPT !.index = @ + 1, !.last_error = error] \in CoverType
           /\ [cover EXCEPT !.step = "choose", !.index = @ + 1, !.last_error = error, !.failover_from = from]
                \in CoverType
<1>1. cover.index \in 1..Len(failover_order) /\ Len(failover_order) \in Nat /\ cover \in CoverType
  BY AliasIsANode, RouterAssumption, LenProperties DEF RouterInv, RouterAssumption
<1>2. cover.index + 1 \in 1..Len(failover_order) + 1
  BY <1>1
<1> QED
  BY <1>1, <1>2 DEF CoverType

LEMMA SkipsKeepRouter ==
    ASSUME RouterInv, run.waits = "decision", UNCHANGED run,
           NoClient \/ TooWide \/ BudgetExhausted
    PROVE  RouterInv'
<1>1. Choosing /\ cover.step = "choose" /\ cover.index <= Len(failover_order)
  BY DEF NoClient, TooWide, BudgetExhausted, Choosing
<1>2. PICK error \in Reasons : Skip(error)
  <2>1. cover.last_error \in Reasons
    BY DEF RouterInv, CoverType
  <2> QED BY <2>1 DEF NoClient, TooWide, BudgetExhausted, Reasons
<1>3. cover' = [cover EXCEPT !.index = @ + 1, !.last_error = error] /\ cover \in CoverType
  BY <1>2 DEF Skip, RouterInv
<1>4. cover' \in CoverType
  <2>1. NoAlias \in Aliases
    BY DEF Aliases
  <2> QED BY <1>1, <1>3, <2>1, CoverMoves
<1>5. cover'.step = "choose"
  BY <1>1, <1>3 DEF CoverType
<1>6. decision' = decision /\ ledger' \in LedgerType
  <2>1. ledger \in LedgerType /\ Alias \in Names
    BY <1>1, AliasIsANode DEF RouterInv
  <2> QED BY <2>1 DEF NoClient, TooWide, BudgetExhausted, LedgerType
<1> QED
  BY <1>4, <1>5, <1>6 DEF RouterInv

LEMMA AskingKeepsRouter ==
    ASSUME RouterInv, CallInv, run.waits = "decision", UNCHANGED run, call_get_logs
    PROVE  RouterInv'
<1>1. /\ cover.index <= Len(failover_order) /\ has_budget(Alias)
      /\ call' = Start("eth_getLogs", cover.lo, cover.hi)
      /\ cover' = [cover EXCEPT !.step = "asked"] /\ ledger' = ledger /\ decision' = decision
  BY DEF call_get_logs, Choosing
<1>2. cover \in CoverType /\ cover.lo \in Int /\ cover.hi \in Int
  BY DEF RouterInv, CoverType
<1>3. cover' \in CoverType /\ cover'.step = "asked" /\ cover'.index = cover.index
  BY <1>1, <1>2 DEF CoverType
<1>4. call'.method = "eth_getLogs" /\ call'.status = "running"
  BY <1>1, <1>2, StartIsACall DEF Methods
<1>5. Alias' = Alias
  BY <1>3 DEF Alias
<1> QED
  BY <1>1, <1>3, <1>4, <1>5 DEF RouterInv, has_budget

LEMMA LedgerPays ==
    ASSUME RouterInv, cover.step = "asked", NEW bytes \in Nat, consume(Alias, bytes)
    PROVE  ledger' \in LedgerType
<1>1. Alias \in Names /\ ledger \in LedgerType /\ ledger[Alias].calls >= 1
  BY AliasIsANode DEF RouterInv
<1> DEFINE l == ledger[Alias]
           paid == [l EXCEPT !.calls = @ - 1, !.quota = IF @ > bytes THEN @ - bytes ELSE 0]
<1>2. l \in [calls : Nat, quota : Nat, time : BOOLEAN] /\ l.calls >= 1
  BY <1>1 DEF LedgerType
<1>3. ledger' = [ledger EXCEPT ![Alias] = paid]
  BY <1>1 DEF consume, LedgerType
<1> HIDE DEF l
<1> DEFINE left == IF l.quota > bytes THEN l.quota - bytes ELSE 0
<1>4. l.calls - 1 \in Nat /\ left \in Nat /\ l.time \in BOOLEAN
  BY <1>2
<1>5. paid = [l EXCEPT !.calls = l.calls - 1, !.quota = left]
  BY <1>2
<1> HIDE DEF left, paid
<1>6. paid \in [calls : Nat, quota : Nat, time : BOOLEAN]
  BY <1>2, <1>4, <1>5
<1> QED
  BY <1>1, <1>3, <1>6 DEF LedgerType

LEMMA FromIsAnAlias ==
    ASSUME RouterInv, cover.index <= Len(failover_order)
    PROVE  From \in Aliases
<1>1. first_alias \in Names /\ cover.failover_from \in Aliases
  BY AliasIsANode DEF RouterInv, CoverType
<1> QED
  BY <1>1 DEF From, Aliases

LEMMA AnswersKeepRouter ==
    ASSUME RouterInv, CallInv, run.waits = "decision", UNCHANGED run,
           FailOver \/ Overflow \/ Succeed \/ get_block_hash_for_pin \/ ScannedEmpty \/ GiveUp
    PROVE  RouterInv'
<1>1. cover \in CoverType /\ ledger \in LedgerType /\ cover.failover_from \in Aliases /\ cover.last_error \in Reasons
  BY DEF RouterInv, CoverType
<1>2. call.logs \in Seq(Logs) /\ call.error \in Errors /\ Len(call.logs) \in Nat /\ <<>> \in Seq(Logs)
  BY LenProperties DEF CallInv, CallType
<1>3. ASSUME cover.step \in {"asked", "pinning"}
      PROVE  /\ cover.index <= Len(failover_order) /\ Alias \in Aliases /\ From \in Aliases
             /\ first_alias \in Aliases
  BY <1>3, AliasIsANode, FromIsAnAlias DEF RouterInv, Aliases
<1>4. CASE FailOver
  <2>1. cover.step = "asked" /\ ledger' = ledger /\ decision' = decision
    BY <1>4 DEF FailOver, Replied
  <2>2. PICK from \in Aliases :
          cover' = [cover EXCEPT !.step = "choose", !.index = @ + 1, !.last_error = call.error, !.failover_from = from]
    BY <1>1, <1>3, <1>4, <2>1 DEF FailOver, CoverType
  <2>3. cover' \in CoverType
    BY <1>2, <1>3, <2>1, <2>2, CoverMoves DEF Reasons
  <2>4. cover'.step = "choose"
    BY <1>1, <2>2 DEF CoverType
  <2> QED BY <2>1, <2>3, <2>4 DEF RouterInv
<1>5. ASSUME cover' = [cover EXCEPT !.step = "idle"], ledger' \in LedgerType, decision' \in DecisionType
      PROVE  RouterInv'
  <2>1. cover' \in CoverType /\ cover'.step = "idle"
    BY <1>1, <1>5 DEF CoverType
  <2> QED BY <1>5, <2>1 DEF RouterInv
<1>6. CASE Overflow
  <2>1. cover.step = "asked"
    BY <1>6 DEF Overflow, Replied
  <2>2. decision' \in DecisionType
    BY <1>1, <1>2, <1>3, <1>6, <2>1 DEF Overflow, Undecided, DecisionType, Reasons, Errors, Aliases
  <2> QED BY <1>1, <1>5, <1>6, <2>2 DEF Overflow
<1>7. CASE Succeed
  <2>1. cover.step = "asked" /\ consume(Alias, Len(call.logs))
    BY <1>7 DEF Succeed, Fits, Replied
  <2>2. decision' \in DecisionType
    BY <1>2, <1>3, <1>7, <2>1 DEF Succeed, DecisionType, Reasons
  <2> QED BY <1>2, <1>5, <1>7, <2>1, <2>2, LedgerPays DEF Succeed
<1>8. CASE get_block_hash_for_pin
  <2>1. cover.step = "asked" /\ consume(Alias, 0) /\ decision' = decision
        /\ cover' = [cover EXCEPT !.step = "pinning"]
    BY <1>8 DEF get_block_hash_for_pin, Fits, Replied
  <2>2. ledger' \in LedgerType
    BY <2>1, LedgerPays
  <2>3. cover' \in CoverType /\ cover'.step = "pinning" /\ cover'.index = cover.index
    BY <1>1, <2>1 DEF CoverType
  <2> QED BY <1>3, <2>1, <2>2, <2>3 DEF RouterInv
<1>9. CASE ScannedEmpty
  <2>1. cover.step = "pinning"
    BY <1>9 DEF ScannedEmpty, Replied
  <2> DEFINE pinned == call.status = "returned" /\ call.found
  <2>2. decision' = [state |-> "scanned_empty", alias |-> Alias, reason |-> "empty_response", rows |-> <<>>,
                     failover_from |-> From, pinned |-> pinned]
    BY <1>9 DEF ScannedEmpty
  <2>3. pinned \in BOOLEAN
    OBVIOUS
  <2> HIDE DEF pinned
  <2>4. decision' \in DecisionType
    BY <1>2, <1>3, <2>1, <2>2, <2>3 DEF DecisionType, Reasons
  <2> QED BY <1>1, <1>5, <1>9, <2>4 DEF ScannedEmpty
<1>10. CASE GiveUp
  <2>1. decision' \in DecisionType
    BY <1>1, <1>2, <1>10 DEF GiveUp, Undecided, DecisionType, Reasons, Errors, Aliases
  <2> QED BY <1>1, <1>5, <1>10, <2>1 DEF GiveUp
<1> QED
  BY <1>4, <1>6, <1>7, <1>8, <1>9, <1>10

LEMMA RouterInvStep ==
    ASSUME RouterInv, CallInv, HeaderInv, [Next]_vars
    PROVE  RouterInv'
<1>1. ASSUME UNCHANGED routerVars, cover.step = "idle" PROVE RouterInv'
  BY <1>1 DEF RouterInv, routerVars
<1>2. CASE Requesting
  <2>1. UNCHANGED <<run, routerVars>> /\ call'.status # "idle"
        /\ (call.method = "eth_getLogs" => call'.method = "eth_getLogs")
    BY <1>2, RequestKeepsCall DEF Requesting
  <2>2. Alias' = Alias
    BY <2>1 DEF Alias, routerVars
  <2> QED BY <2>1, <2>2 DEF RouterInv, routerVars
<1>3. CASE Routing
  BY <1>3, SkipsKeepRouter, AskingKeepsRouter, AnswersKeepRouter DEF Routing, Route
<1>4. CASE Fetching BY <1>1, <1>4 DEF Fetching, RouterInv
<1>5. CASE OnDecision BY <1>1, <1>5 DEF OnDecision
<1>6. CASE OnHeaders BY <1>1, <1>6 DEF OnHeaders, RouterInv
<1>7. CASE Cover
  <2>1. PICK lo \in 0..LastBlock, hi \in 0..LastBlock : CoverSubRange(lo, hi)
    <3>1. LastBlock \in Nat
      BY AdapterAssumption DEF AdapterAssumption
    <3> QED BY <1>7, <3>1 DEF Cover
  <2>2. /\ cover' = [step |-> "choose", lo |-> lo, hi |-> hi, index |-> 1,
                     last_error |-> "no_capable_endpoint", failover_from |-> NoAlias]
        /\ decision' = Undecided /\ ledger' = ledger
    BY <2>1 DEF CoverSubRange
  <2>3. 1 \in 1..Len(failover_order) + 1 /\ <<>> \in Seq(Logs)
    BY RouterAssumption, EmptySeq DEF RouterAssumption
  <2>4. cover' \in CoverType /\ cover'.step = "choose"
    BY <2>2, <2>3 DEF CoverType, Reasons, Errors, Aliases
  <2>5. decision' \in DecisionType
    BY <2>2, <2>3 DEF Undecided, DecisionType, Reasons, Errors, Aliases
  <2>6. run'.waits = "decision"
    <3>1. run \in RunType /\ run' = [run EXCEPT !.waits = "decision", !.covers = @ + 1]
      BY <1>7 DEF Cover, HeaderInv
    <3> QED BY <3>1 DEF RunType
  <2> QED BY <2>2, <2>4, <2>5, <2>6 DEF RouterInv
<1>8. CASE UNCHANGED vars
  <2>1. UNCHANGED <<run, call, routerVars>>
    BY <1>8 DEF vars, routerVars
  <2>2. Alias' = Alias
    BY <2>1 DEF Alias, routerVars
  <2> QED BY <2>1, <2>2 DEF RouterInv, routerVars
<1> QED
  BY <1>2, <1>3, <1>4, <1>5, <1>6, <1>7, <1>8 DEF Next

(***************************************************************************)
(* Adapter, router, header source and runner keep their types: the call is *)
(* at an endpoint that is there, within its attempts, and no alias is made *)
(* to pay with a call it does not have.                                    *)
(***************************************************************************)
RpcInv == MetricsInv /\ HeaderInv /\ CallInv /\ RouterInv

LEMMA RpcInvInit == Init => RpcInv
<1>1. Init => MetricsInv
  BY DEF Init, AdapterInit, MetricsInv, MetricsType, MetricsReconcile, Outcomes
<1> QED
  BY <1>1, HeaderInvInit, CallInvInit, RouterInvInit DEF RpcInv

LEMMA RpcInvStep == RpcInv /\ [Next]_vars => RpcInv'
BY MetricsStep, HeaderInvStep, CallInvStep, RouterInvStep DEF RpcInv

LEMMA RpcInvTypes == RpcInv => TypeOK
<1> SUFFICES ASSUME RpcInv PROVE TypeOK
  OBVIOUS
<1>1. AdapterTypeOK
  BY DEF RpcInv, CallInv, CallType, MetricsInv, MetricsType, Outcomes, AdapterTypeOK
<1>2. RouterTypeOK
  BY DEF RpcInv, RouterInv, CoverType, DecisionType, LedgerType, RouterTypeOK
<1>3. counters \in [{"logical", "http", "failures"} -> Nat]
  BY DEF RpcInv, HeaderInv
<1>4. HeaderTypeOK
  BY <1>3 DEF RpcInv, HeaderInv, FetchType, FetchParts, Blocks, HeaderTypeOK
<1>5. run.waits \in {"nothing", "decision", "headers", "halted"} /\ run.covers \in 0..MaxCovers
  BY DEF RpcInv, HeaderInv, RunType
<1> QED
  BY <1>1, <1>2, <1>4, <1>5 DEF TypeOK

THEOREM TypesAreKept == Spec => []TypeOK
BY RpcInvInit, RpcInvStep, RpcInvTypes, PTL DEF Spec

-----------------------------------------------------------------------------
(***************************************************************************)
(* Why a decision is the truth about its range: while the range is asked   *)
(* for, the rows collected and those of the ranges still to be asked are   *)
(* together the rows of the range; what is returned is them in order.  An  *)
(* answer of null can only lose some of them.                              *)
(***************************************************************************)
SubRangeLogs == Between(cover.lo, cover.hi)
IsTheRange(rows) == rows \subseteq SubRangeLogs /\ (~AnswersNull => rows = SubRangeLogs)
InOrderOfTheRange(rows) == rows = InOrder(ToSet(rows)) /\ IsTheRange(ToSet(rows))

Overflowed == decision.reason = "response_size_overflow"
TruthInv ==
    /\ cover.step = "asked" =>
        /\ Running => IsTheRange(ToSet(call.logs) \cup Covered(call.ranges))
        /\ call.status = "returned" => InOrderOfTheRange(call.logs)
    /\ cover.step = "pinning" => IsTheRange({})
    /\ cover.step # "idle" => decision = Undecided
    /\ cover.last_error # "response_size_overflow"
    /\ decision.state = "successful" => decision.rows # <<>> /\ InOrderOfTheRange(decision.rows)
    /\ decision.state = "scanned_empty" => IsTheRange({})
    /\ Overflowed => SubRangeLogs # {}

\* What IngestionRunner takes an answer of its router to be: there are rows, and
\* they are of the range, each once and in order, and a range that overflows has
\* some.
DecisionIsOfItsRange ==
    LET logs == Between(cover.lo, cover.hi) IN
    /\ decision.state = "successful" =>
        /\ decision.rows # <<>> /\ ToSet(decision.rows) \subseteq logs
        /\ \A i, j \in DOMAIN decision.rows : i < j => Before(decision.rows[i], decision.rows[j])
    /\ decision.reason = "response_size_overflow" => logs # {}

LEMMA TruthInvDecides == TruthInv => DecisionIsOfItsRange /\ (~AnswersNull => DecisionIsTrue)
<1> SUFFICES ASSUME TruthInv PROVE DecisionIsOfItsRange /\ (~AnswersNull => DecisionIsTrue)
  OBVIOUS
<1>1. SubRangeLogs \in SUBSET Logs
  BY DEF SubRangeLogs, Between
<1>2. ASSUME NEW rows, InOrderOfTheRange(rows)
      PROVE  \A i, j \in DOMAIN rows : i < j => Before(rows[i], rows[j])
  <2>1. ToSet(rows) \in SUBSET Logs
    BY <1>1, <1>2 DEF InOrderOfTheRange, IsTheRange
  <2> QED
    BY <1>2, <2>1, RowsInOrder DEF InOrderOfTheRange
<1>3. DecisionIsOfItsRange
  BY <1>2 DEF TruthInv, DecisionIsOfItsRange, SubRangeLogs, InOrderOfTheRange, IsTheRange, Overflowed
<1>4. ~AnswersNull => DecisionIsTrue
  BY <1>2 DEF TruthInv, DecisionIsTrue, SubRangeLogs, InOrderOfTheRange, IsTheRange
<1> QED
  BY <1>3, <1>4

\* A list of rows that is in order is the list of its rows in order.
LEMMA SortedRows ==
    ASSUME NEW rows \in SUBSET Logs
    PROVE  ToSet(InOrder(rows)) = rows
BY RowsInOrder

\* A step that moves neither the range nor the call nor the decision.
LEMMA TruthKept ==
    ASSUME TruthInv, cover'.lo = cover.lo, cover'.hi = cover.hi, decision' = decision,
           cover'.last_error # "response_size_overflow",
           cover'.step = "choose" \/ cover'.step = "idle" \/ (cover'.step = cover.step /\ call' = call),
           cover.step = "idle" => cover'.step = "idle"
    PROVE  TruthInv'
<1>1. SubRangeLogs' = SubRangeLogs
  BY DEF SubRangeLogs
<1>2. \A rows : /\ IsTheRange(rows)' = IsTheRange(rows)
                /\ InOrderOfTheRange(rows)' = InOrderOfTheRange(rows)
  BY <1>1 DEF IsTheRange, InOrderOfTheRange
<1> QED
  BY <1>1, <1>2 DEF TruthInv, Running, Overflowed

LEMMA RequestKeepsTruth ==
    ASSUME TruthInv, RpcInv, Request, UNCHANGED routerVars
    PROVE  TruthInv'
<1>1. Running /\ RequestOutcome /\ CallInv /\ call.ranges # <<>> /\ call.ranges \in Seq(Ranges)
      /\ call.logs \in Seq(Logs)
  BY RequestOutcomes DEF RpcInv, CallInv, CallType
<1>2. SubRangeLogs' = SubRangeLogs /\ cover' = cover /\ decision' = decision
  BY DEF SubRangeLogs, routerVars
<1> DEFINE Kept == /\ Running' => IsTheRange(ToSet(call'.logs) \cup Covered(call'.ranges))
                   /\ call'.status = "returned" => InOrderOfTheRange(call'.logs)
<1>3. ASSUME cover.step = "asked" PROVE Kept
  <2>1. IsTheRange(ToSet(call.logs) \cup Covered(call.ranges)) /\ call.method = "eth_getLogs"
    BY <1>1, <1>3 DEF TruthInv, RpcInv, RouterInv
  <2>2. CASE Unanswered
    BY <2>1, <2>2 DEF Unanswered, Running
  <2>3. ASSUME NEW page \in Pages(Current), call' = AfterPage(page) PROVE Kept
    <3> DEFINE rest == Front(call.ranges)
               asked == Between(Current.lo, Current.hi)
    <3>1. page \in Seq(Logs) /\ ToSet(page) \subseteq asked /\ (~AnswersNull => ToSet(page) = asked)
      BY PagesHoldTheRange
    <3>2. /\ call'.ranges = rest /\ call'.status = IF rest = <<>> THEN "returned" ELSE "running"
          /\ call'.logs = IF rest = <<>> THEN InOrder(ToSet(call.logs \o page)) ELSE call.logs \o page
      BY <1>1, <2>3, <3>1, AnsweredCall
    <3>3. ToSet(call.logs \o page) = ToSet(call.logs) \cup ToSet(page)
      BY <1>1, <3>1, RowsOfConcatenation
    <3>4. Covered(call.ranges) = Covered(rest) \cup asked
      BY <1>1, CoveredByParts DEF Current
    <3>5. IsTheRange(ToSet(call.logs \o page) \cup Covered(rest))
      <4> HIDE DEF rest, asked
      <4> QED BY <2>1, <3>1, <3>3, <3>4 DEF IsTheRange
    <3>6. CASE rest = <<>>
      <4>1. Covered(rest) = {}
        BY <3>6 DEF Covered, ToSet
      <4>2. IsTheRange(ToSet(call.logs \o page))
        BY <3>5, <4>1
      <4>3. ToSet(call.logs \o page) \in SUBSET Logs
        BY <4>2 DEF IsTheRange, SubRangeLogs, Between
      <4>4. ToSet(call'.logs) = ToSet(call.logs \o page)
        BY <3>2, <3>6, <4>3, SortedRows
      <4> QED BY <3>2, <3>6, <4>2, <4>4 DEF InOrderOfTheRange, Running
    <3>7. CASE rest # <<>>
      BY <3>2, <3>5, <3>7
    <3> QED BY <3>6, <3>7
  <2>4. CASE /\ split(Current) # <<>>
             /\ call' = Restart([call EXCEPT !.ranges = Front(@) \o split(Current)])
    <3>1. /\ call'.status = "running" /\ call'.logs = call.logs
          /\ call'.ranges = Front(call.ranges) \o split(Current)
      BY <1>1, <2>4, SplitCall
    <3>2. Current \in Ranges /\ Front(call.ranges) \in Seq(Ranges)
      BY <1>1, LastAndTheRest DEF Current
    <3>3. split(Current) \in Seq(Ranges) /\ Covered(split(Current)) = Between(Current.lo, Current.hi)
      BY <2>4, <3>2, HalvesHoldTheRange
    <3>4. Covered(call'.ranges) = Covered(Front(call.ranges)) \cup Covered(split(Current))
      BY <3>1, <3>2, <3>3, CoveredByParts
    <3>5. Covered(call.ranges) = Covered(Front(call.ranges)) \cup Between(Current.lo, Current.hi)
      BY <1>1, CoveredByParts DEF Current
    <3>6. Covered(call'.ranges) = Covered(call.ranges)
      BY <3>3, <3>4, <3>5
    <3> QED BY <2>1, <3>1, <3>6
  <2> QED
    BY <1>1, <2>1, <2>2, <2>3, <2>4 DEF RequestOutcome
<1>4. \A rows : /\ IsTheRange(rows)' = IsTheRange(rows)
                /\ InOrderOfTheRange(rows)' = InOrderOfTheRange(rows)
  BY <1>2 DEF IsTheRange, InOrderOfTheRange
<1> QED
  BY <1>2, <1>3, <1>4 DEF TruthInv, Overflowed

LEMMA RouteKeepsTruth ==
    ASSUME TruthInv, RpcInv, Route
    PROVE  TruthInv'
<1>1. cover \in CoverType /\ cover.lo \in Int /\ cover.hi \in Int
  BY DEF RpcInv, RouterInv, CoverType
<1>2. CASE NoClient \/ TooWide \/ BudgetExhausted
  <2>1. PICK error : cover' = [cover EXCEPT !.index = @ + 1, !.last_error = error]
    BY <1>2 DEF NoClient, TooWide, BudgetExhausted, Skip
  <2>2. cover'.lo = cover.lo /\ cover'.hi = cover.hi /\ cover'.step = cover.step /\ cover.step = "choose"
        /\ decision' = decision
    BY <1>1, <1>2, <2>1 DEF CoverType, NoClient, TooWide, BudgetExhausted, Choosing
  <2>3. cover'.last_error \in {cover.last_error, "no_capable_endpoint", "budget_exhausted"}
    BY <1>1, <1>2 DEF CoverType, NoClient, TooWide, BudgetExhausted, Skip
  <2>4. cover'.last_error # "response_size_overflow"
    BY <2>3 DEF TruthInv
  <2> QED BY <2>2, <2>4, TruthKept
<1>3. CASE call_get_logs
  <2>1. cover' = [cover EXCEPT !.step = "asked"] /\ decision' = decision /\ cover.step = "choose"
        /\ call' = Start("eth_getLogs", cover.lo, cover.hi)
    BY <1>3 DEF call_get_logs, Choosing
  <2>2. cover'.lo = cover.lo /\ cover'.hi = cover.hi /\ cover'.step = "asked"
        /\ cover'.last_error = cover.last_error
    BY <1>1, <2>1 DEF CoverType
  <2>3. /\ call'.status = "running" /\ call'.logs = <<>>
        /\ call'.ranges = <<[lo |-> cover.lo, hi |-> cover.hi]>>
    BY <1>1, <2>1, StartIsACall DEF Methods
  <2> DEFINE r == [lo |-> cover.lo, hi |-> cover.hi]
  <2>4. r.lo = cover.lo /\ r.hi = cover.hi
    OBVIOUS
  <2> HIDE DEF r
  <2>5. ToSet(<<r>>) = {r} /\ ToSet(<<>>) = {}
    BY RowsOfOne DEF ToSet
  <2>6. Covered(<<r>>) = SubRangeLogs
    BY <2>4, <2>5 DEF Covered, SubRangeLogs
  <2>7. SubRangeLogs' = SubRangeLogs
    BY <2>2 DEF SubRangeLogs
  <2>8. IsTheRange(ToSet(call.logs) \cup Covered(call.ranges))'
    BY <2>3, <2>5, <2>6, <2>7 DEF r, IsTheRange
  <2>9. decision' = Undecided
    BY <2>1 DEF TruthInv
  <2>10. decision'.state = "none" /\ ~Overflowed'
    BY <2>9 DEF Undecided, Overflowed
  <2> QED BY <2>1, <2>2, <2>3, <2>8, <2>9, <2>10 DEF TruthInv
<1>4. CASE FailOver
  <2>1. PICK error, from :
          cover' = [cover EXCEPT !.step = "choose", !.index = @ + 1, !.last_error = error, !.failover_from = from]
    BY <1>4 DEF FailOver
  <2>2. cover'.lo = cover.lo /\ cover'.hi = cover.hi /\ cover'.step = "choose" /\ decision' = decision
        /\ cover.step = "asked"
    BY <1>1, <1>4, <2>1 DEF CoverType, FailOver, Replied
  <2>3. cover'.last_error = call.error /\ call.error \in Errors
    BY <1>1, <1>4 DEF CoverType, FailOver, RpcInv, CallInv, CallType
  <2>4. cover'.last_error # "response_size_overflow"
    BY <2>3 DEF Errors
  <2> QED BY <2>2, <2>4, TruthKept
<1>5. CASE get_block_hash_for_pin
  <2>1. /\ cover.step = "asked" /\ call.status = "returned" /\ call.logs = <<>>
        /\ cover' = [cover EXCEPT !.step = "pinning"] /\ decision' = decision
    BY <1>5 DEF get_block_hash_for_pin, Fits, Replied
  <2>2. cover'.lo = cover.lo /\ cover'.hi = cover.hi /\ cover'.step = "pinning"
        /\ cover'.last_error = cover.last_error
    BY <1>1, <2>1 DEF CoverType
  <2>3. SubRangeLogs' = SubRangeLogs
    BY <2>2 DEF SubRangeLogs
  <2>4. ToSet(call.logs) = {}
    BY <2>1 DEF ToSet
  <2>5. IsTheRange({})'
    BY <2>1, <2>3, <2>4 DEF TruthInv, InOrderOfTheRange, IsTheRange
  <2>6. decision' = Undecided
    BY <2>1 DEF TruthInv
  <2> QED BY <2>2, <2>5, <2>6 DEF TruthInv, Undecided, Overflowed
<1>6. ASSUME cover' = [cover EXCEPT !.step = "idle"],
             decision'.state = "successful" => decision'.rows # <<>> /\ InOrderOfTheRange(decision'.rows),
             decision'.state = "scanned_empty" => IsTheRange({}),
             Overflowed' => SubRangeLogs # {}
      PROVE  TruthInv'
  <2>1. cover'.lo = cover.lo /\ cover'.hi = cover.hi /\ cover'.step = "idle"
        /\ cover'.last_error = cover.last_error
    BY <1>1, <1>6 DEF CoverType
  <2>2. SubRangeLogs' = SubRangeLogs
    BY <2>1 DEF SubRangeLogs
  <2>3. \A rows : /\ IsTheRange(rows)' = IsTheRange(rows)
                  /\ InOrderOfTheRange(rows)' = InOrderOfTheRange(rows)
    BY <2>2 DEF IsTheRange, InOrderOfTheRange
  <2> QED BY <1>6, <2>1, <2>2, <2>3 DEF TruthInv
<1>7. CASE Overflow
  <2>1. decision'.state = "failed"
    BY <1>7 DEF Overflow, Undecided
  <2>2. cover.step = "asked" /\ call.status = "returned" /\ Len(call.logs) > max_response_bytes
    BY <1>7 DEF Overflow, Replied
  <2>3. call.logs \in Seq(Logs) /\ ToSet(call.logs) \subseteq SubRangeLogs
    BY <2>2 DEF TruthInv, RpcInv, CallInv, CallType, InOrderOfTheRange, IsTheRange
  <2>4. call.logs[1] \in ToSet(call.logs)
    BY <2>2, <2>3, RouterAssumption DEF RouterAssumption, ToSet
  <2> QED BY <1>6, <1>7, <2>1, <2>3, <2>4 DEF Overflow
<1>8. CASE Succeed
  <2>1. cover.step = "asked" /\ call.status = "returned" /\ call.logs # <<>>
    BY <1>8 DEF Succeed, Fits, Replied
  <2>2. decision'.state = "successful" /\ decision'.rows = call.logs /\ decision'.reason = "ok"
    BY <1>8 DEF Succeed
  <2>3. InOrderOfTheRange(call.logs)
    BY <2>1 DEF TruthInv
  <2> QED BY <1>6, <1>8, <2>1, <2>2, <2>3 DEF Succeed, Overflowed
<1>9. CASE ScannedEmpty
  <2>1. cover.step = "pinning"
    BY <1>9 DEF ScannedEmpty, Replied
  <2>2. IsTheRange({}) /\ decision'.state = "scanned_empty" /\ decision'.reason = "empty_response"
    BY <1>9, <2>1 DEF TruthInv, ScannedEmpty
  <2> QED BY <1>6, <1>9, <2>2 DEF ScannedEmpty, Overflowed
<1>10. CASE GiveUp
  <2>1. decision'.state = "failed" /\ decision'.reason = cover.last_error
    BY <1>10 DEF GiveUp, Undecided
  <2> QED BY <1>6, <1>10, <2>1 DEF GiveUp, TruthInv, Overflowed
<1> QED
  BY <1>2, <1>3, <1>4, <1>5, <1>7, <1>8, <1>9, <1>10 DEF Route

LEMMA TruthInvStep ==
    ASSUME TruthInv, RpcInv, [Next]_vars
    PROVE  TruthInv'
<1>1. ASSUME UNCHANGED routerVars, cover.step = "idle" PROVE TruthInv'
  BY <1>1, TruthKept DEF routerVars, TruthInv
<1>2. CASE Requesting BY <1>2, RequestKeepsTruth DEF Requesting
<1>3. CASE Routing BY <1>3, RouteKeepsTruth DEF Routing
<1>4. CASE Fetching BY <1>1, <1>4 DEF Fetching, RpcInv, RouterInv
<1>5. CASE OnDecision BY <1>1, <1>5 DEF OnDecision
<1>6. CASE OnHeaders BY <1>1, <1>6 DEF OnHeaders, RpcInv, RouterInv
<1>7. CASE Cover
  <2>1. cover'.step = "choose" /\ decision' = Undecided /\ cover'.last_error = "no_capable_endpoint"
    BY <1>7 DEF Cover, CoverSubRange
  <2> QED BY <2>1 DEF TruthInv, Undecided, Overflowed
<1>8. CASE UNCHANGED vars BY <1>8, TruthKept DEF vars, TruthInv
<1> QED
  BY <1>2, <1>3, <1>4, <1>5, <1>6, <1>7, <1>8 DEF Next

LEMMA TruthInvInit == Init => TruthInv
BY DEF Init, RouterInit, Undecided, TruthInv, Overflowed

LEMMA TruthIsInvariant == Spec => [](RpcInv /\ TruthInv)
<1>1. Init => RpcInv /\ TruthInv
  BY RpcInvInit, TruthInvInit
<1>2. (RpcInv /\ TruthInv) /\ [Next]_vars => (RpcInv /\ TruthInv)'
  BY RpcInvStep, TruthInvStep
<1> QED
  BY <1>1, <1>2, PTL DEF Spec

(***************************************************************************)
(* Whatever is split, retried, repeated, reordered or passed on to another *)
(* endpoint, a successful decision has rows, each of them of its range,    *)
(* once and in order; and a range of which the answer is too large is not  *)
(* empty, though not every row may be there: null answers are taken for    *)
(* empty pages.                                                            *)
(***************************************************************************)
THEOREM DecisionsAreOfTheirRange == Spec => []DecisionIsOfItsRange
<1>1. RpcInv /\ TruthInv => DecisionIsOfItsRange
  BY TruthInvDecides
<1> QED
  BY <1>1, TruthIsInvariant, PTL

(***************************************************************************)
(* And a successful decision carries every log of its range, an empty one  *)
(* is of a range without logs.  For that the endpoints must not answer     *)
(* eth_getLogs with null.                                                  *)
(***************************************************************************)
THEOREM DecisionsAreTrue == ~AnswersNull => (Spec => []DecisionIsTrue)
<1> SUFFICES ASSUME ~AnswersNull PROVE Spec => []DecisionIsTrue
  OBVIOUS
<1>1. RpcInv /\ TruthInv => DecisionIsTrue
  BY TruthInvDecides
<1> QED
  BY <1>1, TruthIsInvariant, PTL
=============================================================================
