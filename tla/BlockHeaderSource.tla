-------------------------- MODULE BlockHeaderSource --------------------------
(***************************************************************************)
(* RpcBlockHeaderSource.get_headers_batch (ingestion/                      *)
(* block_header_source.py).  The blocks not in the cache are asked for in  *)
(* batches that go past the adapter's retries to its first endpoint; a     *)
(* batch the transport fails is asked for again block by block through the *)
(* adapter.  The cache learns of the headers when every batch has ended.   *)
(***************************************************************************)
EXTENDS RpcAdapter

CONSTANT batch_size
ASSUME HeaderAssumption == batch_size \in Nat \ {0}

VARIABLES
    fetch,       \* the get_headers_batch in progress
    _cache,      \* the blocks whose header is in memory
    counters     \* BlockHeaderMetrics

headerVars == <<fetch, _cache, counters>>

HeaderInit ==
    /\ fetch = [status |-> "idle", blocks |-> {}, pending |-> {}, batch |-> {}, out |-> {}]
    /\ _cache = {}
    /\ counters = [logical |-> 0, http |-> 0, failures |-> 0]

\* The next batch: the lowest blocks that are still pending.
NextBatch == {b \in fetch.pending : Cardinality({a \in fetch.pending : a < b}) < batch_size}

\* Faulty variant: blocks of the cache are asked for again.
GetHeadersBatchUncached(blocks) ==
    /\ fetch.status \in {"idle", "done"}
    /\ fetch' = [status |-> "batches", blocks |-> blocks, pending |-> blocks, batch |-> {}, out |-> {}]
    /\ UNCHANGED <<call, metrics, _cache, counters>>
get_headers_batch(blocks) ==
    /\ fetch.status \in {"idle", "done"}
    /\ fetch' = [status |-> "batches", blocks |-> blocks, pending |-> blocks \ _cache, batch |-> {}, out |-> {}]
    /\ UNCHANGED <<call, metrics, _cache, counters>>

\* One HTTP request answers the whole batch; an entry may be an error of its own.
BatchAnswered ==
    /\ fetch.status = "batches" /\ fetch.pending # {}
    /\ \E got \in SUBSET NextBatch :
        fetch' = [fetch EXCEPT !.pending = @ \ NextBatch, !.out = @ \cup got]
    /\ counters' = [counters EXCEPT !.logical = @ + Cardinality(NextBatch), !.http = @ + 1]
    /\ UNCHANGED <<call, metrics, _cache>>

\* An answer of the wrong shape, or a null header, fails the whole fetch; what
\* earlier batches brought is dropped with it.
BatchMalformed ==
    /\ fetch.status = "batches" /\ fetch.pending # {}
    /\ fetch' = [fetch EXCEPT !.status = "raised"]
    /\ counters' = [counters EXCEPT !.failures = @ + 1]
    /\ UNCHANGED <<call, metrics, _cache>>

\* A timeout or an error of the transport: every block by itself.
BatchTransportFails ==
    /\ fetch.status = "batches" /\ fetch.pending # {}
    /\ fetch' = [fetch EXCEPT !.status = "retrying", !.batch = NextBatch, !.pending = @ \ NextBatch]
    /\ UNCHANGED <<call, metrics, _cache, counters>>
_retry_batch ==
    /\ fetch.status = "retrying"
    /\ IF fetch.batch = {}
       THEN /\ fetch' = [fetch EXCEPT !.status = "batches"]
            /\ UNCHANGED call
       ELSE /\ fetch' = [fetch EXCEPT !.status = "fetching"]
            /\ call' = Start("eth_getBlockByNumber", Min(fetch.batch), Min(fetch.batch))
    /\ UNCHANGED <<metrics, _cache, counters>>
_fetch_one ==
    /\ fetch.status = "fetching" /\ ~Running
    /\ LET found == call.status = "returned" /\ call.found IN
       /\ fetch' = [fetch EXCEPT !.status = "retrying", !.batch = @ \ {Min(@)},
                                 !.out = IF found THEN @ \cup {Min(fetch.batch)} ELSE @]
       /\ counters' = IF found THEN [counters EXCEPT !.logical = @ + 1, !.http = @ + 1] ELSE counters
    /\ UNCHANGED <<call, metrics, _cache>>

Finish ==
    /\ fetch.status = "batches" /\ fetch.pending = {}
    /\ fetch' = [fetch EXCEPT !.status = "done"]
    /\ _cache' = _cache \cup fetch.out
    /\ UNCHANGED <<call, metrics, counters>>

FetchHeaders == \/ BatchAnswered \/ BatchMalformed \/ BatchTransportFails
                \/ _retry_batch \/ _fetch_one \/ Finish

-----------------------------------------------------------------------------
HeaderTypeOK ==
    /\ fetch.status \in {"idle", "batches", "retrying", "fetching", "done", "raised"}
    /\ fetch.blocks \subseteq 0..LastBlock
    /\ fetch.pending \cup fetch.batch \cup fetch.out \subseteq fetch.blocks
    /\ _cache \subseteq 0..LastBlock
    /\ counters \in [{"logical", "http", "failures"} -> Nat]
=============================================================================
