---------------------------- MODULE IngestionRpc ----------------------------
(***************************************************************************)
(* The RPC side of one ingestion run: the runner covers one sub-range      *)
(* after another and fetches the headers of the rows; router and header    *)
(* source take turns on the one adapter.  A range that overflows is asked  *)
(* for in parts; any other failure halts the run (ingestion/runner.py).    *)
(***************************************************************************)
EXTENDS EndpointRouter, BlockHeaderSource

CONSTANT MaxCovers       \* bound: the sub-ranges of one run
ASSUME RunAssumption == MaxCovers \in Nat

VARIABLE run     \* the runner: what it waits for, the ranges covered, the blocks with events
vars == <<call, metrics, ledger, cover, decision, fetch, _cache, counters, run>>

Init ==
    /\ AdapterInit /\ RouterInit /\ HeaderInit
    /\ run = [waits |-> "nothing", covers |-> 0, blocks |-> {}]

EventBlocks(rows) == {b \in 0..LastBlock : \E log \in ToSet(rows) : log.block = b}

Cover ==
    /\ run.waits = "nothing" /\ run.covers < MaxCovers
    /\ \E lo \in 0..LastBlock : \E hi \in lo..LastBlock : CoverSubRange(lo, hi)
    /\ run' = [run EXCEPT !.waits = "decision", !.covers = @ + 1]
    /\ UNCHANGED headerVars

Halts(d) == d.state = "failed" /\ ~(d.reason = "response_size_overflow" /\ cover.lo < cover.hi)
OnDecision ==
    /\ run.waits = "decision" /\ cover.step = "idle"
    /\ IF decision.state = "successful"
       THEN /\ get_headers_batch(EventBlocks(decision.rows))
            /\ run' = [run EXCEPT !.waits = "headers", !.blocks = @ \cup EventBlocks(decision.rows)]
            /\ UNCHANGED routerVars
       ELSE /\ run' = [run EXCEPT !.waits = IF Halts(decision) THEN "halted" ELSE "nothing"]
            /\ UNCHANGED <<call, metrics, routerVars, headerVars>>

\* Faulty variant: a header that could not be obtained is left for a later window.
OnHeadersTolerant ==
    /\ run.waits = "headers" /\ fetch.status \in {"done", "raised"}
    /\ run' = [run EXCEPT !.waits = "nothing"]
    /\ fetch' = [fetch EXCEPT !.status = "done"]
    /\ UNCHANGED <<call, metrics, routerVars, _cache, counters>>
\* A missing header halts the run, it is never replaced by a default.
OnHeaders ==
    /\ run.waits = "headers" /\ fetch.status \in {"done", "raised"}
    /\ run' = [run EXCEPT !.waits = IF fetch.status = "done" /\ fetch.blocks \subseteq _cache
                                    THEN "nothing" ELSE "halted"]
    /\ UNCHANGED <<call, metrics, routerVars, headerVars>>

Routing == run.waits = "decision" /\ Route /\ UNCHANGED <<run, headerVars>>
Fetching == run.waits = "headers" /\ FetchHeaders /\ UNCHANGED <<run, routerVars>>
Requesting == Request /\ UNCHANGED <<run, routerVars, headerVars>>
Next == Cover \/ OnDecision \/ OnHeaders \/ Routing \/ Fetching \/ Requesting
Spec == Init /\ [][Next]_vars /\ WF_vars(OnDecision \/ OnHeaders \/ Routing \/ Fetching \/ Requesting)

-----------------------------------------------------------------------------
TypeOK ==
    /\ AdapterTypeOK /\ RouterTypeOK /\ HeaderTypeOK
    /\ run.waits \in {"nothing", "decision", "headers", "halted"}
    /\ run.covers \in 0..MaxCovers

\* "The logical-call counter never exceeds the number of distinct block numbers"
\* (get_headers_batch), over a whole run: the calls counted are those of answered
\* batches and of the blocks that were then fetched one by one.  A batch that the
\* transport failed was asked for as well and is not counted, so that a block may go
\* over the wire twice and count once.  Counted HTTP requests never exceed the calls.
HeaderCallsWithinBlocks ==
    counters.http <= counters.logical /\ counters.logical <= Cardinality(run.blocks)

\* The run goes on only with the header of every block it has seen an event of.
GoesOnWithHeaders == run.waits = "nothing" => run.blocks \subseteq _cache

\* A sub-range the runner asked for is decided, and its headers are fetched or
\* missed: with every request answered, refused or timed out, the retries,
\* failovers and splits of one sub-range come to an end.
CoverEnds == run.waits \in {"decision", "headers"} ~> run.waits \in {"nothing", "halted"}
=============================================================================
