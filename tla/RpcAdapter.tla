----------------------------- MODULE RpcAdapter -----------------------------
(***************************************************************************)
(* The bounded read-only RPC adapter (rpc/adapter.py).  One call is a      *)
(* stack of block ranges still to be asked, the endpoint being asked and   *)
(* its attempts; one action is one JSON-RPC request with its answer.  The  *)
(* endpoints hold the same chain and may fail, refuse or throttle any      *)
(* request.  A log is named by its block and its index in the block.       *)
(***************************************************************************)
EXTENDS Integers, SequencesExt

CONSTANTS
    Names,             \* the configured endpoints
    weight,            \* their weights; a negative one disables the endpoint
    Logs,              \* the logs of the chain
    LastBlock,         \* blocks are 0..LastBlock
    MaxRows,           \* the most rows each endpoint puts in one answer
    AnswersNull,       \* whether an endpoint may answer eth_getLogs with null
    retry_limit,
    initial_backoff,
    max_backoff

ASSUME AdapterAssumption ==
    /\ IsFiniteSet(Names) /\ weight \in [Names -> Int] /\ \E n \in Names : weight[n] >= 0
    /\ LastBlock \in Nat
    /\ IsFiniteSet(Logs) /\ Logs \subseteq [block : 0..LastBlock, index : Nat]
    /\ MaxRows \in [Names -> Nat]
    /\ AnswersNull \in BOOLEAN
    /\ retry_limit \in Nat
    /\ initial_backoff \in Nat \ {0} /\ max_backoff \in Nat /\ max_backoff >= initial_backoff

VARIABLES
    call,      \* the call in progress and its outcome
    metrics    \* RpcMetrics, with the calls that ended in an error of their own

Methods == {"eth_getLogs", "eth_getBlockByNumber"}
\* Lower weight is tried first.
active_endpoints ==
    LET active == {n \in Names : weight[n] >= 0}
    IN  CHOOSE s \in [1..Cardinality(active) -> active] :
            ToSet(s) = active /\ \A i, j \in DOMAIN s : i < j => weight[s[i]] <= weight[s[j]]

Between(lo, hi) == {l \in Logs : l.block \in lo..hi}
Before(a, b) == a.block < b.block \/ (a.block = b.block /\ a.index < b.index)
\* Every row once, by its place in the chain.
InOrder(logs) ==
    CHOOSE s \in [1..Cardinality(logs) -> logs] :
        ToSet(s) = logs /\ \A i, j \in DOMAIN s : i < j => Before(s[i], s[j])
\* Faulty variant: the pages are handed on as they came.
KeepsPageOrder(rows) == rows
_dedupe_and_sort_logs(rows) == InOrder(ToSet(rows))

\* A page may come in any order and hold a log twice; null is taken for a page
\* without rows.
Pages(range) ==
    LET sorted == InOrder(Between(range.lo, range.hi))
    IN  {sorted, Reverse(sorted), sorted \o sorted} \cup IF AnswersNull THEN {<<>>} ELSE {}

Idle == [status |-> "idle", method |-> "none", ranges |-> <<>>, logs |-> <<>>, found |-> FALSE,
         served |-> {}, endpoint |-> 1, attempt |-> 0, backoff |-> initial_backoff, error |-> "none"]
Start(method, lo, hi) ==
    [Idle EXCEPT !.status = "running", !.method = method, !.ranges = <<[lo |-> lo, hi |-> hi]>>]
AdapterInit ==
    /\ call = Idle
    /\ metrics = [requests |-> 0, successes |-> 0, retries |-> 0, failovers |-> 0,
                  range_splits |-> 0, raised |-> 0]

Running == call.status = "running"
Current == Last(call.ranges)
AskedEndpoint == active_endpoints[call.endpoint]
\* Every range starts again at the first endpoint, with a fresh budget of attempts.
Restart(c) == [c EXCEPT !.endpoint = 1, !.attempt = 0, !.backoff = initial_backoff]
\* A call that ends leaves its outcome behind and nothing of its ranges and attempts.
Ended(status) == [Idle EXCEPT !.status = status, !.method = call.method]
Raise(error) == call' = [Ended("failed") EXCEPT !.error = error]
Count(counters) ==
    metrics' = [m \in DOMAIN metrics |->
                    metrics[m] + IF m \in counters \cup {"requests"} THEN 1 ELSE 0]

-----------------------------------------------------------------------------
\* The endpoint answers with the rows of the range, when they are not too many.
AnswerLogs ==
    /\ Running /\ call.method = "eth_getLogs"
    /\ Cardinality(Between(Current.lo, Current.hi)) <= MaxRows[AskedEndpoint]
    /\ LET rest == Front(call.ranges) IN
       \E page \in Pages(Current) :
            call' = Restart([call EXCEPT
                        !.ranges = rest, !.served = @ \cup {AskedEndpoint},
                        !.status = IF rest = <<>> THEN "returned" ELSE "running",
                        !.logs = IF rest = <<>> THEN _dedupe_and_sort_logs(@ \o page) ELSE @ \o page])
    /\ Count({"successes"})

\* The endpoint answers with the header, or with null when it lacks the block.
AnswerHeader ==
    /\ Running /\ call.method = "eth_getBlockByNumber"
    /\ \E found \in BOOLEAN :
        call' = [Ended("returned") EXCEPT !.found = found, !.served = {AskedEndpoint}]
    /\ Count({"successes"})

\* The two halves, or none; a range of two blocks has its midpoint on the first.
split(range) ==
    LET mid == (range.lo + range.hi) \div 2
    IN  IF range.hi <= range.lo \/ mid = range.lo THEN <<>>
        ELSE <<[lo |-> range.lo, hi |-> mid], [lo |-> mid + 1, hi |-> range.hi]>>

\* The words that mean too many rows also occur in the errors of an endpoint
\* that throttles, so that any range may be called too large.
RangeTooLarge ==
    /\ Running /\ call.method = "eth_getLogs"
    /\ LET halves == split(Current) IN
       IF halves # <<>>
       THEN /\ call' = Restart([call EXCEPT !.ranges = Front(@) \o halves])
            /\ Count({"range_splits"})
       ELSE /\ Raise("cannot_split")
            /\ Count({"raised"})

\* Faulty variant: the attempts of the next endpoint go on from those of the last.
FailsToAnswerSharing ==
    /\ Running
    /\ IF call.attempt < retry_limit
       THEN /\ call' = [call EXCEPT !.attempt = @ + 1]
            /\ Count({"retries", "failovers"})
       ELSE /\ IF call.endpoint < Len(active_endpoints)
               THEN call' = [call EXCEPT !.endpoint = @ + 1] ELSE Raise("exhausted")
            /\ Count({"failovers"})
\* Faulty variant: after the last endpoint comes the first one again.
FailsToAnswerRoundRobin ==
    /\ Running
    /\ call' = IF call.attempt < retry_limit
               THEN [call EXCEPT !.attempt = @ + 1]
               ELSE [call EXCEPT !.attempt = 0, !.endpoint = (@ % Len(active_endpoints)) + 1]
    /\ UNCHANGED metrics
\* A timeout, a connection failure, 429, 5xx or an internal error: again after a
\* pause, then at the next endpoint.
FailsToAnswer ==
    /\ Running
    /\ IF call.attempt < retry_limit
       THEN /\ call' = [call EXCEPT !.attempt = @ + 1,
                                    !.backoff = IF 2 * @ < max_backoff THEN 2 * @ ELSE max_backoff]
            /\ Count({"retries"})
       ELSE /\ IF call.endpoint < Len(active_endpoints)
               THEN call' = [call EXCEPT !.endpoint = @ + 1, !.attempt = 0, !.backoff = initial_backoff]
               ELSE Raise("exhausted")
            /\ Count({"failovers"})

\* An error no retry can repair ends the call at once, and so does a result of
\* the wrong shape, which has been counted as a success by then.
Refuses ==
    /\ Running
    /\ Raise("refused")
    /\ Count({"raised"}) \/ Count({"successes"})

Request == AnswerLogs \/ AnswerHeader \/ RangeTooLarge \/ FailsToAnswer \/ Refuses

-----------------------------------------------------------------------------
CallStatus == {"idle", "running", "returned", "failed"}
AdapterTypeOK ==
    /\ call.status \in CallStatus
    /\ call.method \in Methods \cup {"none"}
    /\ call.endpoint \in 1..Len(active_endpoints)
    /\ call.attempt \in 0..retry_limit
    /\ call.backoff \in 1..max_backoff
    /\ metrics \in [{"requests", "successes", "retries", "failovers", "range_splits", "raised"} -> Nat]

\* Every request the adapter makes is accounted for: answered, repeated, passed
\* on to the next endpoint, split, or the end of its call (RpcMetrics.summary).
MetricsReconcile ==
    metrics.requests = metrics.successes + metrics.retries + metrics.failovers
                         + metrics.range_splits + metrics.raised
=============================================================================
