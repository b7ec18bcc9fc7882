--------------------------- MODULE BacktestEngine ---------------------------
(***************************************************************************)
(* One run of the event-driven backtest engine (backtest/engine.py).  The  *)
(* loop admits the sorted events one by one; a step is what the loop does  *)
(* to one event: release a fill that waited for it, or react to it.  Time  *)
(* counts blocks, as the T112 bridge has it; what a fill does to the       *)
(* position is who filled it and when.                                     *)
(***************************************************************************)
EXTENDS Integers, Sequences, FiniteSets

CONSTANTS
    Kinds,             \* the kinds of market events
    react_to_kinds,    \* those the strategy is asked about
    fill_data_kinds,   \* those a fill may take its price from
    Manifests,         \* the lists of input events, in the order of the chain
    Latencies,         \* what latency_units may be
    Schedules          \* for each failure model, the times whose fills it rejects

Event == [timestamp : Nat, available_at : Nat, kind : Kinds \cup {"SHUTDOWN"}, cursor : Nat]

ASSUME EngineAssumption ==
    /\ "SHUTDOWN" \notin Kinds
    /\ react_to_kinds \subseteq Kinds /\ fill_data_kinds \subseteq Kinds
    /\ Manifests \subseteq Seq(Event)
    /\ Latencies \subseteq Nat

VARIABLES
    events,           \* sorted_events
    latency_units,    \* of the model bundle
    rejected,         \* the schedule of its failure model
    at,               \* the event the loop is at
    ledger,           \* the loop's own binding of the position
    ledger_ref,       \* the position the release helper works on
    pending_fills,    \* [trigger, data], indices into events
    audit_chain,
    status

vars == <<events, latency_units, rejected, at, ledger, ledger_ref, pending_fills, audit_chain, status>>
inputs == <<events, latency_units, rejected>>

-----------------------------------------------------------------------------
source_priority(e) == IF e.kind = "SHUTDOWN" THEN 5 ELSE 1
\* The counter of its source that an event is given.
sequence(s, i) == Cardinality({j \in 1..(i - 1) : source_priority(s[j]) = source_priority(s[i])})
Precedes(s, i, j) ==
    \/ s[i].timestamp < s[j].timestamp
    \/ /\ s[i].timestamp = s[j].timestamp
       /\ \/ sequence(s, i) < sequence(s, j)
          \/ sequence(s, i) = sequence(s, j) /\ source_priority(s[i]) < source_priority(s[j])

\* Events of one source and time come in the order of their content hashes,
\* which may be any order.
_normalise_input_events(manifest) ==
    {s \in {[i \in DOMAIN manifest |-> manifest[p[i]]] :
                p \in {p \in [DOMAIN manifest -> DOMAIN manifest] :
                            \A i, j \in DOMAIN manifest : p[i] = p[j] => i = j}} :
        \A i, j \in DOMAIN manifest : i < j => Precedes(s, i, j)}

fill_time(t) == events[t].timestamp + latency_units
FillCandidates(t) ==
    {i \in DOMAIN events : /\ events[i].kind \in fill_data_kinds
                           /\ events[i].timestamp >= fill_time(t)
                           /\ events[i].available_at <= fill_time(t)}
\* The first of them, or none.
_find_fill_data(t) == {d \in FillCandidates(t) : \A i \in FillCandidates(t) : d <= i}
Delayed(t, d) == events[d].timestamp > fill_time(t)

\* PositionState by its last fill, whose time it carries as last_accrual_time.
initial_ledger == [filled_by |-> 0, last_accrual_time |-> 0]
with_updates(t, d) == [filled_by |-> t, last_accrual_time |-> events[d].timestamp]
classify(d) == IF events[d].timestamp \in rejected THEN "REJECTED" ELSE "FILLED"

\* An audit event: its stage, the event whose cursor it binds (0 for none), the
\* trigger of its pipeline, the verdict or outcome, the position, and the event
\* the loop was at.  A decision has the position the strategy was shown.
Audit(stage, cursor, trigger, outcome, position) ==
    [stage |-> stage, cursor |-> cursor, trigger |-> trigger, outcome |-> outcome,
     ledger |-> position, emitted_at |-> at]
System(outcome, cursor) == Audit("SYSTEM", cursor, 0, outcome, ledger)
Decision(outcome) == Audit("DECISION", at, at, outcome, ledger)
Risk(outcome) == Audit("RISK", at, at, outcome, initial_ledger)
Filled(t, d, position) ==
    <<Audit("LATENCY", d, t, "NONE", initial_ledger), Audit("FILL", d, t, classify(d), position)>>
FillOn(position, t, d) == IF classify(d) = "REJECTED" THEN position ELSE with_updates(t, d)

Init ==
    /\ \E manifest \in Manifests : events \in _normalise_input_events(manifest)
    /\ latency_units \in Latencies
    /\ rejected \in Schedules
    /\ at = 1
    /\ ledger = initial_ledger /\ ledger_ref = initial_ledger
    /\ pending_fills = {}
    /\ audit_chain = <<[stage |-> "SYSTEM", cursor |-> 0, trigger |-> 0, outcome |-> "INIT",
                        ledger |-> initial_ledger, emitted_at |-> 0]>>
    /\ status = "running"

-----------------------------------------------------------------------------
AtEvent == status = "running" /\ at \in DOMAIN events
Due == {p \in pending_fills : p.data = at}
\* The next event; the top of the loop reads the position back.
Admit == at' = at + 1 /\ ledger' = ledger_ref'

\* Faulty variant: the loop goes on with the position of before the release.
ReleaseUnsynced ==
    /\ AtEvent
    /\ \E p \in Due :
        /\ \A q \in Due : events[p.trigger].cursor <= events[q.trigger].cursor
        /\ ledger_ref' = FillOn(ledger_ref, p.trigger, p.data)
        /\ audit_chain' = audit_chain \o Filled(p.trigger, p.data, ledger_ref')
        /\ pending_fills' = pending_fills \ {p}
    /\ UNCHANGED <<inputs, at, ledger, status>>
\* Faulty variant: the released fill stays in the queue.
ReleaseKeeping ==
    /\ AtEvent
    /\ \E p \in Due :
        /\ ledger_ref' = FillOn(ledger_ref, p.trigger, p.data)
        /\ audit_chain' = audit_chain \o Filled(p.trigger, p.data, ledger_ref')
    /\ UNCHANGED <<inputs, at, ledger, pending_fills, status>>
\* The fills that waited for this event, in the order of their triggers' cursors;
\* after the last of them the loop reads the position back.
_release_pending_fill ==
    /\ AtEvent
    /\ \E p \in Due :
        /\ \A q \in Due : events[p.trigger].cursor <= events[q.trigger].cursor
        /\ ledger_ref' = FillOn(ledger_ref, p.trigger, p.data)
        /\ audit_chain' = audit_chain \o Filled(p.trigger, p.data, ledger_ref')
        /\ pending_fills' = pending_fills \ {p}
        /\ ledger' = IF Due = {p} THEN ledger_ref' ELSE ledger
    /\ UNCHANGED <<inputs, at, status>>

\* What the loop does to an event once nothing waits for it.
Reached == AtEvent /\ Due = {}
Triggers == Reached /\ events[at].kind \in react_to_kinds

\* Fills that wait for a later event are dropped with the loop.
Shutdown ==
    /\ Reached /\ events[at].kind = "SHUTDOWN"
    /\ audit_chain' = Append(audit_chain, System("SHUTDOWN", at))
    /\ status' = "stopped"
    /\ UNCHANGED <<inputs, at, ledger, ledger_ref, pending_fills>>

Seen ==
    /\ Reached /\ events[at].kind \in Kinds \ react_to_kinds
    /\ audit_chain' = Append(audit_chain, System("SEEN", at))
    /\ UNCHANGED <<inputs, ledger_ref, pending_fills, status>>
    /\ Admit

\* NO_TRADE or WAIT.
Wait ==
    /\ Triggers
    /\ audit_chain' = Append(audit_chain, Decision("WAIT"))
    /\ UNCHANGED <<inputs, ledger_ref, pending_fills, status>>
    /\ Admit

RiskRejects ==
    /\ Triggers
    /\ audit_chain' = audit_chain \o <<Decision("PROPOSE"), Risk("REJECTED")>>
    /\ UNCHANGED <<inputs, ledger_ref, pending_fills, status>>
    /\ Admit

Approved == <<Decision("PROPOSE"), Risk("APPROVED")>>

\* No event was available in time: the run ends in an error.
FutureDataViolation ==
    /\ Triggers /\ _find_fill_data(at) = {}
    /\ audit_chain' = audit_chain \o Approved
    /\ status' = "raised"
    /\ UNCHANGED <<inputs, at, ledger, ledger_ref, pending_fills>>

\* Faulty variant: every fill is queued, also one whose event has been admitted.
QueueAlways ==
    /\ Triggers
    /\ \E d \in _find_fill_data(at) : pending_fills' = pending_fills \cup {[trigger |-> at, data |-> d]}
    /\ audit_chain' = audit_chain \o Approved
    /\ UNCHANGED <<inputs, ledger_ref, status>>
    /\ Admit
\* The fill waits for the event it takes its price from.
QueueFill ==
    /\ Triggers
    /\ \E d \in _find_fill_data(at) :
        /\ Delayed(at, d)
        /\ pending_fills' = pending_fills \cup {[trigger |-> at, data |-> d]}
    /\ audit_chain' = audit_chain \o Approved
    /\ UNCHANGED <<inputs, ledger_ref, status>>
    /\ Admit

\* An event exactly at the fill time is not delayed, admitted or not.
FillAtOnce ==
    /\ Triggers
    /\ \E d \in _find_fill_data(at) :
        /\ ~ Delayed(at, d)
        /\ ledger_ref' = FillOn(ledger, at, d)
        /\ audit_chain' = audit_chain \o Approved \o Filled(at, d, ledger_ref')
    /\ Admit
    /\ UNCHANGED <<inputs, pending_fills, status>>

\* The terminal marker, unless the last audit event is of the same stage.
Finish ==
    /\ status = "running" /\ at \notin DOMAIN events
    /\ audit_chain' = IF audit_chain[Len(audit_chain)].stage = "SYSTEM" THEN audit_chain
                      ELSE Append(audit_chain, System("SHUTDOWN", 0))
    /\ status' = "finished"
    /\ UNCHANGED <<inputs, at, ledger, ledger_ref, pending_fills>>

Next ==
    \/ _release_pending_fill \/ Shutdown \/ Seen \/ Wait \/ RiskRejects
    \/ FutureDataViolation \/ QueueFill \/ FillAtOnce \/ Finish
Spec == Init /\ [][Next]_vars

-----------------------------------------------------------------------------
Stages == {"SYSTEM", "DECISION", "RISK", "LATENCY", "FILL"}
Outcomes == {"INIT", "SHUTDOWN", "SEEN", "WAIT", "PROPOSE", "APPROVED", "REJECTED", "NONE", "FILLED"}
Ledger == [filled_by : Nat, last_accrual_time : Nat]
AuditEvent == [stage : Stages, cursor : Nat, trigger : Nat, outcome : Outcomes, ledger : Ledger, emitted_at : Nat]

\* Types; a fill waits for an event the loop has yet to leave behind, or it would
\* wait forever (BacktestEngine.run, the queue of _PendingFill).
TypeOK ==
    /\ events \in Seq(Event)
    /\ latency_units \in Nat
    /\ at \in 1..(Len(events) + 1)
    /\ ledger \in Ledger /\ ledger_ref \in Ledger
    /\ audit_chain \in Seq(AuditEvent)
    /\ status \in {"running", "finished", "stopped", "raised"}
    /\ \A p \in pending_fills :
        p.trigger \in 1..at /\ p.data \in at..Len(events) /\ p.trigger < p.data

Approvals == {k \in DOMAIN audit_chain : audit_chain[k].stage = "RISK" /\ audit_chain[k].outcome = "APPROVED"}
FillsOf(t) == {k \in DOMAIN audit_chain : audit_chain[k].stage = "FILL" /\ audit_chain[k].trigger = t}
Waiting(t) == \E p \in pending_fills : p.trigger = t

\* Unless the run raises, every approved intent waits in the queue or has been
\* settled by one FILL, filled or rejected, and a run that comes to the end of its
\* events leaves none waiting: nothing approved is hidden (engine.py, stage 6).
ApprovalsSettleOnce ==
    /\ status # "raised" =>
        \A k \in Approvals : LET t == audit_chain[k].trigger IN
            IF Waiting(t) THEN FillsOf(t) = {} ELSE \E f \in FillsOf(t) : FillsOf(t) = {f}
    /\ status = "finished" => pending_fills = {}

\* The position the fills before the k-th audit event have made.
MadeBefore(k, position) ==
    LET fills == {j \in 1..(k - 1) : audit_chain[j].stage = "FILL" /\ audit_chain[j].outcome = "FILLED"}
    IN  IF fills = {} THEN position = initial_ledger
        ELSE \E j \in fills : /\ \A i \in fills : i <= j
                              /\ position.filled_by = audit_chain[j].trigger
                              /\ position.last_accrual_time = events[audit_chain[j].cursor].timestamp

\* The strategy is shown the position that the fills on the audit chain have made,
\* and at least the fills that are due: every fill whose event the loop has come to is
\* among them (T109: the due fill is applied, then the callback).  The position the run
\* ends with is the one the chain made, too.  It is no upper bound: a fill taken ahead
\* of time (FillsWaitForTheirData, which fails) is on the chain and is shown as well.
DecisionsSeeDueFills ==
    /\ \A k \in DOMAIN audit_chain : audit_chain[k].stage = "DECISION" =>
        /\ MadeBefore(k, audit_chain[k].ledger)
        /\ \A j \in Approvals : \A d \in _find_fill_data(audit_chain[j].trigger) :
            j < k /\ d <= audit_chain[k].trigger
                => \E f \in FillsOf(audit_chain[j].trigger) : f < k
    /\ status \in {"finished", "stopped"} => MadeBefore(Len(audit_chain) + 1, ledger)

\* No fill is applied, and none is on the audit chain, before the loop has come to
\* the event the fill takes its price and cursor from (_PendingFill).
FillsWaitForTheirData ==
    \A k \in DOMAIN audit_chain :
        audit_chain[k].stage = "FILL" => audit_chain[k].cursor <= audit_chain[k].emitted_at
=============================================================================
