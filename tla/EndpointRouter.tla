--------------------------- MODULE EndpointRouter ---------------------------
(***************************************************************************)
(* The router (ingestion/router.py) with its budget ledger and the clients *)
(* it calls (ingestion/endpoint_client.py).  cover_sub_range walks the     *)
(* aliases of the failover order; every client forwards to the ONE adapter *)
(* that the command line gives to all of them (__main__.py).               *)
(***************************************************************************)
EXTENDS RpcAdapter

CONSTANTS
    failover_order,        \* the aliases in the order they are tried
    Clients,               \* the aliases with a client and a measured capability
    cap,                   \* the widest range each alias may be asked for
    Unobservable,          \* the aliases whose remaining budget cannot be observed
    remaining_calls,       \* the budget of each alias: calls, and bytes answered
    remaining_quota,
    max_response_bytes     \* of one answer; a row is one byte

ASSUME RouterAssumption ==
    /\ failover_order \in Seq(Names) /\ failover_order # <<>>
    /\ Clients \subseteq Names /\ Unobservable \subseteq Names
    /\ cap \in [Names -> Nat]
    /\ remaining_calls \in [Names -> Nat] /\ remaining_quota \in [Names -> Nat]
    /\ max_response_bytes \in Nat

VARIABLES
    ledger,      \* BudgetLedger: what is left of each alias' calls, quota and time
    cover,       \* the walk of cover_sub_range over the failover order
    decision     \* the CoverageDecision it returned last

routerVars == <<ledger, cover, decision>>

NoAlias == "none"
Undecided == [state |-> "none", alias |-> NoAlias, failover_from |-> NoAlias, reason |-> "none",
              rows |-> <<>>, pinned |-> FALSE]
RouterInit ==
    /\ ledger = [alias \in Names |-> [calls |-> remaining_calls[alias],
                                      quota |-> remaining_quota[alias], time |-> TRUE]]
    /\ cover = [step |-> "idle", lo |-> 0, hi |-> 0, index |-> 1, last_error |-> "no_capable_endpoint",
                failover_from |-> NoAlias]
    /\ decision = Undecided

Alias == failover_order[cover.index]
first_alias == failover_order[1]
_can_cover(alias) == cover.hi - cover.lo + 1 <= cap[alias]

\* Faulty variant: an answer is paid for even when nothing is left to pay with.
HasBudgetUnchecked(alias) == alias \notin Unobservable /\ ledger[alias].time
has_budget(alias) ==
    /\ alias \notin Unobservable
    /\ ledger[alias].calls >= 1 /\ ledger[alias].time /\ ledger[alias].quota >= 1
consume(alias, bytes) ==
    ledger' = [ledger EXCEPT ![alias].calls = @ - 1,
                             ![alias].quota = IF @ > bytes THEN @ - bytes ELSE 0]

-----------------------------------------------------------------------------
CoverSubRange(lo, hi) ==
    /\ cover.step = "idle"
    /\ cover' = [step |-> "choose", lo |-> lo, hi |-> hi, index |-> 1,
                 last_error |-> "no_capable_endpoint", failover_from |-> NoAlias]
    /\ decision' = Undecided
    /\ UNCHANGED <<call, metrics, ledger>>

Choosing == cover.step = "choose" /\ cover.index <= Len(failover_order)
Skip(error) == cover' = [cover EXCEPT !.index = @ + 1, !.last_error = error]
NoClient ==
    /\ Choosing /\ Alias \notin Clients
    /\ Skip(cover.last_error)
    /\ UNCHANGED <<call, metrics, ledger, decision>>
TooWide ==
    /\ Choosing /\ Alias \in Clients /\ ~_can_cover(Alias)
    /\ Skip("no_capable_endpoint")
    /\ UNCHANGED <<call, metrics, ledger, decision>>
\* The clock is read here only: the seconds of an alias may be over by now, and
\* then they stay so.
BudgetExhausted ==
    /\ Choosing /\ Alias \in Clients /\ _can_cover(Alias)
    /\ \/ ~has_budget(Alias) /\ UNCHANGED ledger
       \/ has_budget(Alias) /\ ledger' = [ledger EXCEPT ![Alias].time = FALSE]
    /\ Skip("budget_exhausted")
    /\ UNCHANGED <<call, metrics, decision>>

call_get_logs ==
    /\ Choosing /\ Alias \in Clients /\ _can_cover(Alias) /\ has_budget(Alias)
    /\ call' = Start("eth_getLogs", cover.lo, cover.hi)
    /\ cover' = [cover EXCEPT !.step = "asked"]
    /\ UNCHANGED <<metrics, ledger, decision>>

Replied(step) == cover.step = step /\ ~Running
From == IF Alias # first_alias THEN first_alias ELSE cover.failover_from

\* A failed call costs nothing of the budget, and the next alias is tried.
FailOver ==
    /\ Replied("asked") /\ call.status = "failed"
    /\ cover' = [cover EXCEPT !.step = "choose", !.index = @ + 1, !.last_error = call.error,
                     !.failover_from = IF cover.index = 1 THEN first_alias ELSE @]
    /\ UNCHANGED <<call, metrics, ledger, decision>>

\* An answer that is too large costs nothing either; it is the caller that splits.
Overflow ==
    /\ Replied("asked") /\ call.status = "returned" /\ Len(call.logs) > max_response_bytes
    /\ decision' = [Undecided EXCEPT !.state = "failed", !.alias = Alias,
                        !.failover_from = cover.failover_from, !.reason = "response_size_overflow"]
    /\ cover' = [cover EXCEPT !.step = "idle"]
    /\ UNCHANGED <<call, metrics, ledger>>

Fits == Replied("asked") /\ call.status = "returned" /\ Len(call.logs) <= max_response_bytes
Succeed ==
    /\ Fits /\ call.logs # <<>>
    /\ consume(Alias, Len(call.logs))
    /\ decision' = [state |-> "successful", alias |-> Alias, reason |-> "ok", rows |-> call.logs,
                    failover_from |-> From,
                    pinned |-> FALSE]
    /\ cover' = [cover EXCEPT !.step = "idle"]
    /\ UNCHANGED <<call, metrics>>

\* An empty answer is evidence once the hash of its last block is asked for; the
\* evidence stands without a hash when that call fails or finds no block.
get_block_hash_for_pin ==
    /\ Fits /\ call.logs = <<>>
    /\ consume(Alias, 0)
    /\ call' = Start("eth_getBlockByNumber", cover.hi, cover.hi)
    /\ cover' = [cover EXCEPT !.step = "pinning"]
    /\ UNCHANGED <<metrics, decision>>
ScannedEmpty ==
    /\ Replied("pinning")
    /\ decision' = [state |-> "scanned_empty", alias |-> Alias, reason |-> "empty_response", rows |-> <<>>,
                    failover_from |-> From,
                    pinned |-> call.status = "returned" /\ call.found]
    /\ cover' = [cover EXCEPT !.step = "idle"]
    /\ UNCHANGED <<call, metrics, ledger>>

GiveUp ==
    /\ cover.step = "choose" /\ cover.index > Len(failover_order)
    /\ decision' = [Undecided EXCEPT !.state = "failed", !.failover_from = cover.failover_from,
                                     !.reason = cover.last_error]
    /\ cover' = [cover EXCEPT !.step = "idle"]
    /\ UNCHANGED <<call, metrics, ledger>>

Route == \/ NoClient \/ TooWide \/ BudgetExhausted \/ call_get_logs \/ FailOver \/ Overflow \/ Succeed
         \/ get_block_hash_for_pin \/ ScannedEmpty \/ GiveUp

-----------------------------------------------------------------------------
RouterTypeOK ==
    /\ ledger \in [Names -> [calls : Nat, quota : Nat, time : BOOLEAN]]
    /\ cover.step \in {"idle", "choose", "asked", "pinning"}
    /\ cover.index \in 1..Len(failover_order) + 1
    /\ cover.step \in {"asked", "pinning"} => cover.index <= Len(failover_order)
    /\ decision.state \in {"none", "successful", "scanned_empty", "failed"}

\* A coverage decision is the truth about its range, whatever was split, retried,
\* repeated or reordered on the way: a successful one carries every log of the
\* range once and in order, an empty one is made of a range without logs.
DecisionIsTrue ==
    LET logs == Between(cover.lo, cover.hi) IN
    /\ decision.state = "successful" =>
        /\ ToSet(decision.rows) = logs
        /\ \A i, j \in DOMAIN decision.rows : i < j => Before(decision.rows[i], decision.rows[j])
    /\ decision.state = "scanned_empty" => logs = {}

\* The secondary endpoint takes part only within its capability and its budget:
\* rows that count against an alias came from the endpoint of that alias.
AnsweredByItsEndpoint ==
    decision.state = "successful" => call.served \subseteq {decision.alias}
=============================================================================
