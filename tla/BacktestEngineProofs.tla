------------------------ MODULE BacktestEngineProofs ------------------------
(***************************************************************************)
(* Proofs about BacktestEngine, for every list of input events, latency    *)
(* and failure schedule.                                                   *)
(***************************************************************************)
EXTENDS BacktestEngine, TLAPS

LEMMA AppendTwo ==
  ASSUME NEW S, NEW s \in Seq(S), NEW a \in S, NEW b \in S
  PROVE  LET r == s \o <<a, b>> IN
         /\ r \in Seq(S) /\ Len(r) = Len(s) + 2 /\ DOMAIN r = 1..(Len(s) + 2)
         /\ \A i \in 1..Len(s) : r[i] = s[i]
         /\ r[Len(s) + 1] = a /\ r[Len(s) + 2] = b
  OBVIOUS

LEMMA AppendOne ==
  ASSUME NEW S, NEW s \in Seq(S), NEW a \in S
  PROVE  LET r == Append(s, a) IN
         /\ r \in Seq(S) /\ Len(r) = Len(s) + 1 /\ DOMAIN r = 1..(Len(s) + 1)
         /\ \A i \in 1..Len(s) : r[i] = s[i]
         /\ r[Len(s) + 1] = a
  OBVIOUS

-----------------------------------------------------------------------------
SortedByTime == \A i, j \in DOMAIN events : i <= j => events[i].timestamp <= events[j].timestamp

LEMMA EventTimes ==
  ASSUME events \in Seq(Event)
  PROVE  \A i \in DOMAIN events : i \in Nat /\ events[i].timestamp \in Nat
<1>1. \A e \in Event : e.timestamp \in Nat
  BY DEF Event
<1>2. \A i \in DOMAIN events : i \in Nat /\ events[i] \in Event
  OBVIOUS
<1> QED
  BY <1>1, <1>2

LEMMA SortedEvents ==
  ASSUME NEW manifest \in Manifests, events \in _normalise_input_events(manifest)
  PROVE  events \in Seq(Event) /\ SortedByTime
<1>1. manifest \in Seq(Event)
  BY EngineAssumption DEF EngineAssumption
<1>2. PICK p \in [DOMAIN manifest -> DOMAIN manifest] :
          events = [i \in DOMAIN manifest |-> manifest[p[i]]]
  BY DEF _normalise_input_events
<1>3. events \in Seq(Event) /\ DOMAIN events = DOMAIN manifest
  BY <1>1, <1>2
<1>4. \A i, j \in DOMAIN events : i < j => Precedes(events, i, j)
  BY <1>3 DEF _normalise_input_events
<1>5. \A i \in DOMAIN events : events[i].timestamp \in Nat /\ i \in Nat
  BY <1>3, EventTimes
<1>6. \A i, j \in DOMAIN events : Precedes(events, i, j) => events[i].timestamp <= events[j].timestamp
  BY <1>5 DEF Precedes
<1>7. SortedByTime
  BY <1>4, <1>5, <1>6 DEF SortedByTime
<1> QED
  BY <1>3, <1>7

-----------------------------------------------------------------------------
(***************************************************************************)
(* Type correctness.                                                       *)
(***************************************************************************)
TypeInv == TypeOK /\ SortedByTime

LEMMA AuditIsTyped ==
  ASSUME at \in Nat,
         NEW stage \in Stages, NEW cursor \in Nat, NEW trigger \in Nat, NEW outcome \in Outcomes,
         NEW position \in Ledger
  PROVE  Audit(stage, cursor, trigger, outcome, position) \in AuditEvent
BY DEF Audit, AuditEvent

\* An index of the events and its successor, as the loop moves.
LEMMA AtIsNat == TypeOK => at \in Nat /\ Len(events) \in Nat /\ DOMAIN events = 1..Len(events)
BY DEF TypeOK

LEMMA InitialLedgerIsTyped == initial_ledger \in Ledger
BY DEF initial_ledger, Ledger

LEMMA FillIsTyped ==
  ASSUME TypeOK, NEW t \in Nat, NEW d \in DOMAIN events, NEW position \in Ledger
  PROVE  /\ FillOn(position, t, d) \in Ledger
         /\ \A p \in Ledger : /\ Filled(t, d, p)[1] \in AuditEvent /\ Filled(t, d, p)[2] \in AuditEvent
                              /\ Filled(t, d, p) = <<Filled(t, d, p)[1], Filled(t, d, p)[2]>>
<1>1. events[d].timestamp \in Nat /\ d \in Nat
  BY EventTimes DEF TypeOK
<1>2. FillOn(position, t, d) \in Ledger
  BY <1>1 DEF FillOn, with_updates, Ledger
<1>3. classify(d) \in Outcomes /\ "NONE" \in Outcomes /\ "LATENCY" \in Stages /\ "FILL" \in Stages
  BY DEF classify, Outcomes, Stages
<1> QED
  BY <1>1, <1>2, <1>3, AtIsNat, AuditIsTyped, InitialLedgerIsTyped DEF Filled

LEMMA ApprovedIsTyped ==
  ASSUME TypeOK
  PROVE  /\ \A outcome \in Outcomes : Decision(outcome) \in AuditEvent /\ Risk(outcome) \in AuditEvent
         /\ \A outcome \in Outcomes, c \in Nat : System(outcome, c) \in AuditEvent
<1>1. at \in Nat /\ ledger \in Ledger /\ {"SYSTEM", "DECISION", "RISK"} \subseteq Stages
  BY AtIsNat DEF TypeOK, Stages
<1> QED
  BY <1>1, AuditIsTyped, InitialLedgerIsTyped DEF Decision, Risk, System

\* An event found for a delayed fill lies ahead of the trigger.
LEMMA DelayedIsAhead ==
  ASSUME TypeInv, NEW t \in DOMAIN events, NEW d \in _find_fill_data(t), Delayed(t, d)
  PROVE  d \in DOMAIN events /\ t < d
<1>1. d \in DOMAIN events
  BY DEF _find_fill_data, FillCandidates
<1>2. events[t].timestamp \in Nat /\ events[d].timestamp \in Nat /\ latency_units \in Nat
  BY <1>1, EventTimes DEF TypeInv, TypeOK
<1>3. events[t].timestamp < events[d].timestamp
  BY <1>2 DEF Delayed, fill_time
<1>4. ~ (d <= t)
  BY <1>1, <1>2, <1>3 DEF TypeInv, SortedByTime
<1> QED
  BY <1>1, <1>4, AtIsNat DEF TypeInv

LEMMA TypeInit == Init => TypeInv
<1> SUFFICES ASSUME Init PROVE TypeInv
  OBVIOUS
<1>1. events \in Seq(Event) /\ SortedByTime
  BY SortedEvents DEF Init
<1>2. latency_units \in Nat
  BY EngineAssumption DEF Init, EngineAssumption
<1>3. audit_chain \in Seq(AuditEvent)
  BY InitialLedgerIsTyped DEF Init, AuditEvent, Stages, Outcomes
<1>4. at \in 1..(Len(events) + 1)
  BY <1>1 DEF Init
<1> QED
  BY <1>1, <1>2, <1>3, <1>4, InitialLedgerIsTyped DEF Init, TypeInv, TypeOK

\* The audit chain is append-only.
Extends ==
    /\ audit_chain' \in Seq(AuditEvent) /\ Len(audit_chain') >= Len(audit_chain)
    /\ \A k \in DOMAIN audit_chain : k \in DOMAIN audit_chain' /\ audit_chain'[k] = audit_chain[k]

\* The next event to admit, and the fills that wait for it or a later one.
LEMMA AdmitKeepsTypes ==
  ASSUME TypeInv, Reached, Admit, inputs' = inputs, ledger_ref' = ledger_ref, status' = status,
         audit_chain' \in Seq(AuditEvent),
         \A p \in pending_fills' : \/ p \in pending_fills
                                   \/ p.trigger = at /\ p.data \in DOMAIN events /\ at < p.data
  PROVE  TypeInv'
<1>1. /\ events' = events /\ latency_units' = latency_units /\ status' = status
      /\ at' = at + 1 /\ ledger' = ledger_ref /\ ledger_ref' = ledger_ref
  BY DEF Admit, inputs
<1>2. at \in 1..Len(events) /\ Len(events) \in Nat /\ DOMAIN events = 1..Len(events)
  BY AtIsNat DEF Reached, AtEvent, TypeInv
<1>3. \A p \in pending_fills : p.trigger \in 1..at /\ p.data \in at..Len(events) /\ p.trigger < p.data /\ p.data # at
  BY DEF TypeInv, TypeOK, Reached, Due
<1>4. \A p \in pending_fills' : p.trigger \in 1..at' /\ p.data \in at'..Len(events') /\ p.trigger < p.data
  BY <1>1, <1>2, <1>3
<1>5. at' \in 1..(Len(events') + 1)
  BY <1>1, <1>2
<1>6. SortedByTime'
  BY <1>1 DEF TypeInv, SortedByTime
<1> QED
  BY <1>1, <1>4, <1>5, <1>6 DEF TypeInv, TypeOK

LEMMA ReleaseKeepsTypes == TypeInv /\ _release_pending_fill => TypeInv' /\ Extends
<1> SUFFICES ASSUME TypeInv, _release_pending_fill PROVE TypeInv' /\ Extends
  OBVIOUS
<1>1. PICK p \in Due :
        /\ ledger_ref' = FillOn(ledger_ref, p.trigger, p.data)
        /\ audit_chain' = audit_chain \o Filled(p.trigger, p.data, ledger_ref')
        /\ pending_fills' = pending_fills \ {p}
        /\ ledger' = IF Due = {p} THEN ledger_ref' ELSE ledger
  BY DEF _release_pending_fill
<1>2. events' = events /\ latency_units' = latency_units /\ at' = at /\ status' = status
  BY DEF _release_pending_fill, inputs
<1>3. p \in pending_fills /\ p.trigger \in Nat /\ p.data \in DOMAIN events
  BY AtIsNat DEF Due, AtEvent, _release_pending_fill, TypeInv, TypeOK
<1>4. ledger_ref' \in Ledger /\ ledger' \in Ledger
  BY <1>1, <1>3, FillIsTyped DEF TypeInv, TypeOK
<1>5. audit_chain' \in Seq(AuditEvent) /\ Extends
  <2> DEFINE f == Filled(p.trigger, p.data, ledger_ref')
  <2>1. f[1] \in AuditEvent /\ f[2] \in AuditEvent /\ f = <<f[1], f[2]>>
    BY <1>3, <1>4, FillIsTyped DEF TypeInv, TypeOK
  <2>2. audit_chain \in Seq(AuditEvent) /\ audit_chain' = audit_chain \o <<f[1], f[2]>>
    BY <1>1, <2>1 DEF TypeInv, TypeOK
  <2> HIDE DEF f
  <2> QED
    BY <2>1, <2>2, AppendTwo DEF Extends
<1>6. SortedByTime'
  BY <1>2 DEF TypeInv, SortedByTime
<1> QED
  BY <1>1, <1>2, <1>4, <1>5, <1>6 DEF TypeInv, TypeOK

LEMMA OneMore ==
  ASSUME TypeOK, NEW a \in AuditEvent, audit_chain' = Append(audit_chain, a)
  PROVE  /\ audit_chain' \in Seq(AuditEvent) /\ Extends
         /\ DOMAIN audit_chain' = 1..(Len(audit_chain) + 1) /\ Len(audit_chain') = Len(audit_chain) + 1
         /\ audit_chain'[Len(audit_chain) + 1] = a
<1>1. audit_chain \in Seq(AuditEvent)
  BY DEF TypeOK
<1> QED
  BY <1>1, AppendOne DEF Extends

LEMMA TwoMore ==
  ASSUME TypeOK, NEW a \in AuditEvent, NEW b \in AuditEvent, audit_chain' = audit_chain \o <<a, b>>
  PROVE  /\ audit_chain' \in Seq(AuditEvent) /\ Extends
         /\ DOMAIN audit_chain' = 1..(Len(audit_chain) + 2) /\ Len(audit_chain') = Len(audit_chain) + 2
         /\ audit_chain'[Len(audit_chain) + 1] = a /\ audit_chain'[Len(audit_chain) + 2] = b
<1>1. audit_chain \in Seq(AuditEvent)
  BY DEF TypeOK
<1> QED
  BY <1>1, AppendTwo DEF Extends

LEMMA FourMore ==
  ASSUME TypeOK, NEW a \in AuditEvent, NEW b \in AuditEvent, NEW c \in AuditEvent, NEW d \in AuditEvent,
         audit_chain' = audit_chain \o <<a, b>> \o <<c, d>>
  PROVE  /\ audit_chain' \in Seq(AuditEvent) /\ Extends
         /\ DOMAIN audit_chain' = 1..(Len(audit_chain) + 4) /\ Len(audit_chain') = Len(audit_chain) + 4
         /\ audit_chain'[Len(audit_chain) + 1] = a /\ audit_chain'[Len(audit_chain) + 2] = b
         /\ audit_chain'[Len(audit_chain) + 3] = c /\ audit_chain'[Len(audit_chain) + 4] = d
<1> DEFINE r == audit_chain \o <<a, b>>
<1>1. audit_chain \in Seq(AuditEvent) /\ Len(audit_chain) \in Nat /\ DOMAIN audit_chain = 1..Len(audit_chain)
  BY DEF TypeOK
<1>2. /\ r \in Seq(AuditEvent) /\ Len(r) = Len(audit_chain) + 2
      /\ \A i \in 1..Len(audit_chain) : r[i] = audit_chain[i]
      /\ r[Len(audit_chain) + 1] = a /\ r[Len(audit_chain) + 2] = b
  BY <1>1, AppendTwo
<1> HIDE DEF r
<1>3. audit_chain' = r \o <<c, d>>
  BY DEF r
<1>5. LET q == r \o <<c, d>> IN
      /\ q \in Seq(AuditEvent) /\ Len(q) = Len(r) + 2 /\ DOMAIN q = 1..(Len(r) + 2)
      /\ \A i \in 1..Len(r) : q[i] = r[i]
      /\ q[Len(r) + 1] = c /\ q[Len(r) + 2] = d
  BY <1>2, AppendTwo
<1>4. /\ audit_chain' \in Seq(AuditEvent) /\ Len(audit_chain') = Len(r) + 2
      /\ DOMAIN audit_chain' = 1..(Len(r) + 2)
      /\ \A i \in 1..Len(r) : audit_chain'[i] = r[i]
      /\ audit_chain'[Len(r) + 1] = c /\ audit_chain'[Len(r) + 2] = d
  BY <1>3, <1>5
<1> QED
  BY <1>1, <1>2, <1>4 DEF Extends

LEMMA FillAtOnceKeepsTypes == TypeInv /\ FillAtOnce => TypeInv' /\ Extends
<1> SUFFICES ASSUME TypeInv, FillAtOnce PROVE TypeInv' /\ Extends
  OBVIOUS
<1>1. PICK d \in _find_fill_data(at) :
        /\ ledger_ref' = FillOn(ledger, at, d)
        /\ audit_chain' = audit_chain \o Approved \o Filled(at, d, ledger_ref')
  BY DEF FillAtOnce
<1>2. /\ events' = events /\ latency_units' = latency_units /\ status' = status
      /\ at' = at + 1 /\ ledger' = ledger_ref' /\ pending_fills' = pending_fills
  BY DEF FillAtOnce, inputs, Admit
<1>3. at \in 1..Len(events) /\ Len(events) \in Nat /\ d \in DOMAIN events
  BY AtIsNat DEF FillAtOnce, Triggers, Reached, AtEvent, TypeInv, _find_fill_data, FillCandidates
<1>4. ledger_ref' \in Ledger
  BY <1>1, <1>3, FillIsTyped DEF TypeInv, TypeOK
<1>5. audit_chain' \in Seq(AuditEvent) /\ Extends
  <2> DEFINE f == Filled(at, d, ledger_ref')
  <2>0. TypeOK /\ at \in Nat
    BY <1>3 DEF TypeInv
  <2>1. f[1] \in AuditEvent /\ f[2] \in AuditEvent /\ f = <<f[1], f[2]>>
    BY <1>3, <1>4, <2>0, FillIsTyped DEF TypeInv
  <2>2. Decision("PROPOSE") \in AuditEvent /\ Risk("APPROVED") \in AuditEvent /\ TypeOK
    BY ApprovedIsTyped DEF TypeInv, Outcomes
  <2>3. audit_chain' = audit_chain \o <<Decision("PROPOSE"), Risk("APPROVED")>> \o <<f[1], f[2]>>
    BY <1>1, <2>1 DEF Approved
  <2> HIDE DEF f
  <2> QED
    BY <2>1, <2>2, <2>3, FourMore
<1>6. \A p \in pending_fills : p.trigger \in 1..at' /\ p.data \in at'..Len(events) /\ p.trigger < p.data
  BY <1>2, <1>3 DEF TypeInv, TypeOK, FillAtOnce, Triggers, Reached, Due
<1>7. SortedByTime' /\ at' \in 1..(Len(events') + 1)
  BY <1>2, <1>3 DEF TypeInv, SortedByTime
<1> QED
  BY <1>2, <1>4, <1>5, <1>6, <1>7 DEF TypeInv, TypeOK

LEMMA TypeStep == TypeInv /\ [Next]_vars => TypeInv' /\ (Extends \/ UNCHANGED audit_chain)
<1> SUFFICES ASSUME TypeInv, [Next]_vars PROVE TypeInv' /\ (Extends \/ UNCHANGED audit_chain)
  OBVIOUS
<1>0. at \in Nat /\ TypeOK /\ {"SHUTDOWN", "SEEN", "WAIT", "PROPOSE", "APPROVED", "REJECTED"} \subseteq Outcomes
  BY AtIsNat DEF TypeInv, Outcomes
<1>1. CASE _release_pending_fill
  BY <1>1, ReleaseKeepsTypes
<1>2. CASE Shutdown
  <2>1. audit_chain' \in Seq(AuditEvent) /\ Extends
    BY <1>0, <1>2, ApprovedIsTyped, OneMore DEF Shutdown
  <2> QED
    BY <1>2, <2>1 DEF Shutdown, inputs, TypeInv, TypeOK, SortedByTime
<1>3. CASE Seen
  <2>1. audit_chain' \in Seq(AuditEvent) /\ Extends
    BY <1>0, <1>3, ApprovedIsTyped, OneMore DEF Seen
  <2>4. Reached /\ Admit /\ inputs' = inputs /\ ledger_ref' = ledger_ref /\ status' = status
    BY <1>3 DEF Seen, inputs
  <2>5. \A p \in pending_fills' : \/ p \in pending_fills
                                  \/ p.trigger = at /\ p.data \in DOMAIN events /\ at < p.data
    BY <1>3 DEF Seen
  <2> QED
    BY <2>1, <2>4, <2>5, AdmitKeepsTypes
<1>4. CASE Wait
  <2>1. audit_chain' \in Seq(AuditEvent) /\ Extends
    BY <1>0, <1>4, ApprovedIsTyped, OneMore DEF Wait
  <2>4. Reached /\ Admit /\ inputs' = inputs /\ ledger_ref' = ledger_ref /\ status' = status
    BY <1>4 DEF Wait, Triggers, inputs
  <2>5. \A p \in pending_fills' : \/ p \in pending_fills
                                  \/ p.trigger = at /\ p.data \in DOMAIN events /\ at < p.data
    BY <1>4 DEF Wait
  <2> QED
    BY <2>1, <2>4, <2>5, AdmitKeepsTypes
<1>5. CASE RiskRejects
  <2>0. /\ Decision("PROPOSE") \in AuditEvent /\ Risk("REJECTED") \in AuditEvent
        /\ audit_chain' = audit_chain \o <<Decision("PROPOSE"), Risk("REJECTED")>>
    BY <1>0, <1>5, ApprovedIsTyped DEF RiskRejects
  <2>1. audit_chain' \in Seq(AuditEvent) /\ Extends
    BY <1>0, <2>0, TwoMore
  <2>4. Reached /\ Admit /\ inputs' = inputs /\ ledger_ref' = ledger_ref /\ status' = status
    BY <1>5 DEF RiskRejects, Triggers, inputs
  <2>5. \A p \in pending_fills' : \/ p \in pending_fills
                                  \/ p.trigger = at /\ p.data \in DOMAIN events /\ at < p.data
    BY <1>5 DEF RiskRejects
  <2> QED
    BY <2>1, <2>4, <2>5, AdmitKeepsTypes
<1>6. CASE FutureDataViolation
  <2>0. /\ Decision("PROPOSE") \in AuditEvent /\ Risk("APPROVED") \in AuditEvent
        /\ audit_chain' = audit_chain \o <<Decision("PROPOSE"), Risk("APPROVED")>>
    BY <1>0, <1>6, ApprovedIsTyped DEF FutureDataViolation, Approved
  <2>1. audit_chain' \in Seq(AuditEvent) /\ Extends
    BY <1>0, <2>0, TwoMore
  <2> QED
    BY <1>6, <2>1 DEF FutureDataViolation, inputs, TypeInv, TypeOK, SortedByTime
<1>7. CASE QueueFill
  <2>0. /\ Decision("PROPOSE") \in AuditEvent /\ Risk("APPROVED") \in AuditEvent
        /\ audit_chain' = audit_chain \o <<Decision("PROPOSE"), Risk("APPROVED")>>
    BY <1>0, <1>7, ApprovedIsTyped DEF QueueFill, Approved
  <2>1. audit_chain' \in Seq(AuditEvent) /\ Extends
    BY <1>0, <2>0, TwoMore
  <2>2. PICK d \in _find_fill_data(at) :
          Delayed(at, d) /\ pending_fills' = pending_fills \cup {[trigger |-> at, data |-> d]}
    BY <1>7 DEF QueueFill
  <2>3. d \in DOMAIN events /\ at < d
    BY <1>7, <2>2, DelayedIsAhead DEF QueueFill, Triggers, Reached, AtEvent
  <2>4. Reached /\ Admit /\ inputs' = inputs /\ ledger_ref' = ledger_ref /\ status' = status
    BY <1>7 DEF QueueFill, Triggers, inputs
  <2>5. \A p \in pending_fills' : \/ p \in pending_fills
                                  \/ p.trigger = at /\ p.data \in DOMAIN events /\ at < p.data
    BY <2>2, <2>3
  <2> QED
    BY <2>1, <2>4, <2>5, AdmitKeepsTypes
<1>8. CASE FillAtOnce
  BY <1>8, FillAtOnceKeepsTypes
<1>9. CASE Finish
  <2>1. \/ audit_chain' = audit_chain
        \/ audit_chain' \in Seq(AuditEvent) /\ Extends
    BY <1>0, <1>9, ApprovedIsTyped, OneMore DEF Finish
  <2> QED
    BY <1>9, <2>1 DEF Finish, inputs, TypeInv, TypeOK, SortedByTime
<1>10. CASE UNCHANGED vars
  BY <1>10 DEF vars, TypeInv, TypeOK, SortedByTime
<1> QED
  BY <1>1, <1>2, <1>3, <1>4, <1>5, <1>6, <1>7, <1>8, <1>9, <1>10 DEF Next

\* The state of a run stays typed and no fill waits for an event left behind.
THEOREM TypesAreKept == Spec => []TypeOK
<1>1. TypeInv => TypeOK
  BY DEF TypeInv
<1> QED
  BY TypeInit, TypeStep, <1>1, PTL DEF Spec

-----------------------------------------------------------------------------
(***************************************************************************)
(* Approved intents settle once.  The property alone is not inductive: a   *)
(* fill is the only one of its trigger because a trigger is reacted to     *)
(* once, on the event the loop is at, and queued at most once.             *)
(***************************************************************************)
IsFill(k, t) == audit_chain[k].stage = "FILL" /\ audit_chain[k].trigger = t
IsApproval(k, t) ==
    audit_chain[k].stage = "RISK" /\ audit_chain[k].outcome = "APPROVED" /\ audit_chain[k].trigger = t
Settled(t) == \E f \in DOMAIN audit_chain :
                  IsFill(f, t) /\ \A g \in DOMAIN audit_chain : IsFill(g, t) => g = f

TriggersAreBehind ==
    \A k \in DOMAIN audit_chain : audit_chain[k].stage \in {"RISK", "FILL"} => audit_chain[k].trigger < at
WaitingIsUnfilled ==
    \A p \in pending_fills : p.trigger < at /\ \A k \in DOMAIN audit_chain : ~ IsFill(k, p.trigger)
QueuedOnce == \A p, q \in pending_fills : p.trigger = q.trigger => p = q
ApprovedWaitsOrSettled ==
    \A k \in DOMAIN audit_chain, t \in Nat :
        IsApproval(k, t) => Waiting(t) \/ Settled(t)
SettleInv ==
    /\ status # "raised" =>
        TriggersAreBehind /\ WaitingIsUnfilled /\ QueuedOnce /\ ApprovedWaitsOrSettled
    /\ status = "finished" => pending_fills = {}

LEMMA AuditTriggers == TypeOK => \A k \in DOMAIN audit_chain : audit_chain[k].trigger \in Nat
<1>1. \A a \in AuditEvent : a.trigger \in Nat
  BY DEF AuditEvent
<1>2. TypeOK => \A k \in DOMAIN audit_chain : audit_chain[k] \in AuditEvent
  BY DEF TypeOK
<1> QED
  BY <1>1, <1>2

\* The audit chain grows by what neither approves nor fills.
LEMMA QuietKeepsSettled ==
  ASSUME TypeInv, SettleInv, Extends, status # "raised", at \in Nat, at' \in Nat, at' >= at,
         pending_fills' = pending_fills,
         \A k \in DOMAIN audit_chain' : k \notin DOMAIN audit_chain =>
            /\ audit_chain'[k].stage # "FILL"
            /\ audit_chain'[k].stage = "RISK" =>
                  audit_chain'[k].outcome # "APPROVED" /\ audit_chain'[k].trigger = at /\ at < at'
  PROVE  TriggersAreBehind' /\ WaitingIsUnfilled' /\ QueuedOnce' /\ ApprovedWaitsOrSettled'
<1>1. TriggersAreBehind /\ WaitingIsUnfilled /\ QueuedOnce /\ ApprovedWaitsOrSettled
  BY DEF SettleInv
<1>2. \A k \in DOMAIN audit_chain : k \in DOMAIN audit_chain' /\ audit_chain'[k] = audit_chain[k]
  BY DEF Extends
<1>3. \A k \in DOMAIN audit_chain : audit_chain[k].trigger \in Nat
  BY AuditTriggers DEF TypeInv
<1>4. \A p \in pending_fills : p.trigger \in Nat
  BY DEF TypeInv, TypeOK
<1>5. TriggersAreBehind'
  BY <1>1, <1>2, <1>3 DEF TriggersAreBehind
<1>6. WaitingIsUnfilled'
  BY <1>1, <1>2, <1>4 DEF WaitingIsUnfilled, IsFill
<1>7. QueuedOnce'
  BY <1>1 DEF QueuedOnce
<1>8. ASSUME NEW t, Waiting(t) \/ Settled(t) PROVE Waiting(t)' \/ Settled(t)'
  BY <1>2, <1>8 DEF Waiting, Settled, IsFill
<1>9. ASSUME NEW k \in DOMAIN audit_chain', NEW t \in Nat, IsApproval(k, t)'
      PROVE  Waiting(t)' \/ Settled(t)'
  <2>1. k \in DOMAIN audit_chain
    BY <1>9 DEF IsApproval
  <2>2. IsApproval(k, t)
    BY <1>2, <1>9, <2>1 DEF IsApproval
  <2>3. Waiting(t) \/ Settled(t)
    BY <1>1, <2>1, <2>2 DEF ApprovedWaitsOrSettled
  <2> QED
    BY <1>8, <2>3
<1> QED
  BY <1>5, <1>6, <1>7, <1>9 DEF ApprovedWaitsOrSettled

LEMMA ReleaseKeepsSettled == TypeInv /\ SettleInv /\ _release_pending_fill => SettleInv'
<1> SUFFICES ASSUME TypeInv, SettleInv, _release_pending_fill PROVE SettleInv'
  OBVIOUS
<1>n. PICK n \in Nat : n = Len(audit_chain) /\ DOMAIN audit_chain = 1..n
  BY DEF TypeInv, TypeOK
<1>1. PICK p \in Due :
        /\ ledger_ref' = FillOn(ledger_ref, p.trigger, p.data)
        /\ audit_chain' = audit_chain \o Filled(p.trigger, p.data, ledger_ref')
        /\ pending_fills' = pending_fills \ {p}
  BY DEF _release_pending_fill
<1>2. at' = at /\ status' = status /\ status = "running" /\ at \in Nat
  BY AtIsNat DEF _release_pending_fill, AtEvent, TypeInv
<1>3. TriggersAreBehind /\ WaitingIsUnfilled /\ QueuedOnce /\ ApprovedWaitsOrSettled
  BY <1>2 DEF SettleInv
<1>4. p \in pending_fills /\ p.trigger \in Nat /\ p.data \in DOMAIN events
  BY AtIsNat DEF Due, AtEvent, _release_pending_fill, TypeInv, TypeOK
<1>5. ledger_ref' \in Ledger
  BY <1>1, <1>4, FillIsTyped DEF TypeInv, TypeOK
<1> DEFINE f == Filled(p.trigger, p.data, ledger_ref')
<1>6. f[1] \in AuditEvent /\ f[2] \in AuditEvent /\ f = <<f[1], f[2]>>
  BY <1>4, <1>5, FillIsTyped DEF TypeInv, TypeOK
<1>7. f[1].stage = "LATENCY" /\ f[2].stage = "FILL" /\ f[2].trigger = p.trigger
  BY DEF Filled, Audit
<1> HIDE DEF f
<1>8. audit_chain' = audit_chain \o <<f[1], f[2]>> /\ TypeOK
  BY <1>1, <1>6 DEF f, TypeInv
<1>9. /\ Extends /\ DOMAIN audit_chain' = 1..(n + 2)
      /\ audit_chain'[n + 1] = f[1] /\ audit_chain'[n + 2] = f[2]
  BY <1>n, <1>6, <1>8, TwoMore
<1>11. \A k \in DOMAIN audit_chain : k \in DOMAIN audit_chain' /\ audit_chain'[k] = audit_chain[k]
  BY <1>9 DEF Extends
<1>12. \A k \in DOMAIN audit_chain' : k \in DOMAIN audit_chain \/ k = n + 1 \/ k = n + 2
  BY <1>n, <1>9
<1>13. n + 2 \in DOMAIN audit_chain' /\ n + 2 \notin DOMAIN audit_chain /\ n + 1 \notin DOMAIN audit_chain
  BY <1>n, <1>9
<1>14. TriggersAreBehind'
  <2>1. p.trigger < at'
    BY <1>2, <1>3, <1>4 DEF WaitingIsUnfilled
  <2> QED
    BY <1>2, <1>3, <1>7, <1>9, <1>11, <1>12, <2>1 DEF TriggersAreBehind
<1>15. WaitingIsUnfilled'
  <2> SUFFICES ASSUME NEW q \in pending_fills'
               PROVE  q.trigger < at' /\ \A k \in DOMAIN audit_chain' : ~ IsFill(k, q.trigger)'
    BY DEF WaitingIsUnfilled
  <2>1. q \in pending_fills /\ q.trigger # p.trigger
    BY <1>1, <1>3, <1>4 DEF QueuedOnce
  <2>2. q.trigger < at /\ \A k \in DOMAIN audit_chain : ~ IsFill(k, q.trigger)
    BY <1>3, <2>1 DEF WaitingIsUnfilled
  <2> QED
    BY <1>2, <1>7, <1>9, <1>11, <1>12, <2>1, <2>2 DEF IsFill
<1>16. QueuedOnce'
  BY <1>1, <1>3 DEF QueuedOnce
<1>17. Settled(p.trigger)'
  <2>1. \A k \in DOMAIN audit_chain : ~ IsFill(k, p.trigger)
    BY <1>3, <1>4 DEF WaitingIsUnfilled
  <2>2. \A k \in DOMAIN audit_chain' : IsFill(k, p.trigger)' => k = n + 2
    BY <1>7, <1>9, <1>11, <1>12, <2>1 DEF IsFill
  <2>3. IsFill(n + 2, p.trigger)'
    BY <1>7, <1>9 DEF IsFill
  <2> QED
    BY <1>13, <2>2, <2>3 DEF Settled
<1>18. ApprovedWaitsOrSettled'
  <2> SUFFICES ASSUME NEW k \in DOMAIN audit_chain', NEW t \in Nat, IsApproval(k, t)', t # p.trigger
               PROVE  Waiting(t)' \/ Settled(t)'
    BY <1>17 DEF ApprovedWaitsOrSettled
  <2>1. k \in DOMAIN audit_chain /\ IsApproval(k, t)
    BY <1>7, <1>9, <1>11, <1>12 DEF IsApproval
  <2>3. Waiting(t) \/ Settled(t)
    BY <1>3, <2>1 DEF ApprovedWaitsOrSettled
  <2>4. Waiting(t) => Waiting(t)'
    BY <1>1 DEF Waiting
  <2>5. Settled(t) => Settled(t)'
    <3>1. \A g \in DOMAIN audit_chain' : IsFill(g, t)' => g \in DOMAIN audit_chain /\ IsFill(g, t)
      BY <1>7, <1>9, <1>11, <1>12 DEF IsFill
    <3>2. \A g \in DOMAIN audit_chain : IsFill(g, t) => g \in DOMAIN audit_chain' /\ IsFill(g, t)'
      BY <1>11 DEF IsFill
    <3> QED
      BY <3>1, <3>2 DEF Settled
  <2> QED
    BY <2>3, <2>4, <2>5
<1> QED
  BY <1>2, <1>14, <1>15, <1>16, <1>18 DEF SettleInv

LEMMA QueueKeepsSettled == TypeInv /\ SettleInv /\ QueueFill => SettleInv'
<1> SUFFICES ASSUME TypeInv, SettleInv, QueueFill PROVE SettleInv'
  OBVIOUS
<1>n. PICK n \in Nat : n = Len(audit_chain) /\ DOMAIN audit_chain = 1..n
  BY DEF TypeInv, TypeOK
<1>1. PICK d \in _find_fill_data(at) : pending_fills' = pending_fills \cup {[trigger |-> at, data |-> d]}
  BY DEF QueueFill
<1>2. at' = at + 1 /\ status' = status /\ status = "running" /\ at \in Nat
  BY AtIsNat DEF QueueFill, Admit, Triggers, Reached, AtEvent, TypeInv
<1>3. TriggersAreBehind /\ WaitingIsUnfilled /\ QueuedOnce /\ ApprovedWaitsOrSettled
  BY <1>2 DEF SettleInv
<1>4. /\ Decision("PROPOSE") \in AuditEvent /\ Risk("APPROVED") \in AuditEvent /\ TypeOK
      /\ audit_chain' = audit_chain \o <<Decision("PROPOSE"), Risk("APPROVED")>>
  BY ApprovedIsTyped DEF QueueFill, Approved, Outcomes, TypeInv
<1>5. /\ Extends /\ DOMAIN audit_chain' = 1..(n + 2)
      /\ audit_chain'[n + 1] = Decision("PROPOSE") /\ audit_chain'[n + 2] = Risk("APPROVED")
  BY <1>n, <1>4, TwoMore
<1>6. /\ audit_chain'[n + 1].stage = "DECISION"
      /\ audit_chain'[n + 2].stage = "RISK" /\ audit_chain'[n + 2].trigger = at
  BY <1>5 DEF Decision, Risk, Audit
<1>7. \A k \in DOMAIN audit_chain : k \in DOMAIN audit_chain' /\ audit_chain'[k] = audit_chain[k]
  BY <1>5 DEF Extends
<1>8. \A k \in DOMAIN audit_chain' : k \in DOMAIN audit_chain \/ k = n + 1 \/ k = n + 2
  BY <1>n, <1>5
<1>9. \A k \in DOMAIN audit_chain : audit_chain[k].trigger \in Nat
  BY AuditTriggers DEF TypeInv
<1>10. \A p \in pending_fills : p.trigger \in Nat
  BY DEF TypeInv, TypeOK
<1>11. TriggersAreBehind'
  BY <1>2, <1>3, <1>6, <1>7, <1>8, <1>9 DEF TriggersAreBehind
<1>12. WaitingIsUnfilled'
  <2> SUFFICES ASSUME NEW q \in pending_fills'
               PROVE  q.trigger < at' /\ \A k \in DOMAIN audit_chain' : ~ IsFill(k, q.trigger)'
    BY DEF WaitingIsUnfilled
  <2>1. CASE q \in pending_fills
    BY <1>2, <1>3, <1>6, <1>7, <1>8, <1>10, <2>1 DEF WaitingIsUnfilled, IsFill
  <2>2. CASE q.trigger = at
    <3>1. \A k \in DOMAIN audit_chain : ~ IsFill(k, at)
      BY <1>2, <1>3 DEF TriggersAreBehind, IsFill
    <3> QED
      BY <1>2, <1>6, <1>7, <1>8, <2>2, <3>1 DEF IsFill
  <2> QED
    BY <1>1, <2>1, <2>2
<1>13. QueuedOnce'
  <2>1. \A p \in pending_fills : p.trigger # at
    BY <1>2, <1>3 DEF WaitingIsUnfilled
  <2> QED
    BY <1>1, <1>3, <2>1 DEF QueuedOnce
<1>14. ApprovedWaitsOrSettled'
  <2> SUFFICES ASSUME NEW k \in DOMAIN audit_chain', NEW t \in Nat, IsApproval(k, t)'
               PROVE  Waiting(t)' \/ Settled(t)'
    BY DEF ApprovedWaitsOrSettled
  <2>1. CASE t = at
    <3> DEFINE r == [trigger |-> at, data |-> d]
    <3>1. r \in pending_fills' /\ r.trigger = t
      BY <1>1, <2>1
    <3> QED
      BY <3>1 DEF Waiting
  <2>2. CASE t # at
    <3>1. k \in DOMAIN audit_chain /\ IsApproval(k, t)
      BY <1>6, <1>7, <1>8, <2>2 DEF IsApproval
    <3>2. Waiting(t) \/ Settled(t)
      BY <1>3, <3>1 DEF ApprovedWaitsOrSettled
    <3>3. Waiting(t) => Waiting(t)'
      BY <1>1 DEF Waiting
    <3>4. Settled(t) => Settled(t)'
      <4>1. \A g \in DOMAIN audit_chain' : IsFill(g, t)' => g \in DOMAIN audit_chain /\ IsFill(g, t)
        BY <1>6, <1>7, <1>8 DEF IsFill
      <4>2. \A g \in DOMAIN audit_chain : IsFill(g, t) => g \in DOMAIN audit_chain' /\ IsFill(g, t)'
        BY <1>7 DEF IsFill
      <4> QED
        BY <4>1, <4>2 DEF Settled
    <3> QED
      BY <3>2, <3>3, <3>4
  <2> QED
    BY <2>1, <2>2
<1> QED
  BY <1>2, <1>11, <1>12, <1>13, <1>14 DEF SettleInv

LEMMA FillAtOnceKeepsSettled == TypeInv /\ SettleInv /\ FillAtOnce => SettleInv'
<1> SUFFICES ASSUME TypeInv, SettleInv, FillAtOnce PROVE SettleInv'
  OBVIOUS
<1>n. PICK n \in Nat : n = Len(audit_chain) /\ DOMAIN audit_chain = 1..n
  BY DEF TypeInv, TypeOK
<1>1. PICK d \in _find_fill_data(at) :
        /\ ledger_ref' = FillOn(ledger, at, d)
        /\ audit_chain' = audit_chain \o Approved \o Filled(at, d, ledger_ref')
  BY DEF FillAtOnce
<1>2. at' = at + 1 /\ status' = status /\ status = "running" /\ at \in Nat /\ pending_fills' = pending_fills
  BY AtIsNat DEF FillAtOnce, Admit, Triggers, Reached, AtEvent, TypeInv
<1>3. TriggersAreBehind /\ WaitingIsUnfilled /\ QueuedOnce /\ ApprovedWaitsOrSettled
  BY <1>2 DEF SettleInv
<1>4. ledger_ref' \in Ledger /\ d \in DOMAIN events /\ TypeOK
  BY <1>1, <1>2, FillIsTyped DEF TypeInv, TypeOK, _find_fill_data, FillCandidates
<1>p. PICK a, b, f, g \in AuditEvent :
        /\ a = Decision("PROPOSE") /\ b = Risk("APPROVED")
        /\ f = Filled(at, d, ledger_ref')[1] /\ g = Filled(at, d, ledger_ref')[2]
        /\ Filled(at, d, ledger_ref') = <<f, g>>
  BY <1>2, <1>4, FillIsTyped, ApprovedIsTyped DEF Outcomes
<1>s. /\ a.stage = "DECISION" /\ b.stage = "RISK" /\ b.trigger = at
      /\ f.stage = "LATENCY" /\ g.stage = "FILL" /\ g.trigger = at
  BY <1>p DEF Decision, Risk, Filled, Audit
<1>c. audit_chain' = audit_chain \o <<a, b>> \o <<f, g>>
  BY <1>1, <1>p DEF Approved
<1>5. /\ Extends /\ DOMAIN audit_chain' = 1..(n + 4)
      /\ audit_chain'[n + 1] = a /\ audit_chain'[n + 2] = b
      /\ audit_chain'[n + 3] = f /\ audit_chain'[n + 4] = g
  BY <1>n, <1>4, <1>c, FourMore
<1>7. \A k \in DOMAIN audit_chain : k \in DOMAIN audit_chain' /\ audit_chain'[k] = audit_chain[k]
  BY <1>5 DEF Extends
<1>8. /\ \A k \in DOMAIN audit_chain' :
            k \in DOMAIN audit_chain \/ k = n + 1 \/ k = n + 2 \/ k = n + 3 \/ k = n + 4
      /\ n + 4 \in DOMAIN audit_chain'
  BY <1>n, <1>5
<1>9. \A k \in DOMAIN audit_chain : audit_chain[k].trigger \in Nat
  BY AuditTriggers DEF TypeInv
<1>10. \A p \in pending_fills : p.trigger \in Nat
  BY DEF TypeInv, TypeOK
<1>11. TriggersAreBehind'
  BY <1>2, <1>3, <1>s, <1>5, <1>7, <1>8, <1>9 DEF TriggersAreBehind
<1>12. WaitingIsUnfilled'
  <2> SUFFICES ASSUME NEW q \in pending_fills'
               PROVE  q.trigger < at' /\ \A k \in DOMAIN audit_chain' : ~ IsFill(k, q.trigger)'
    BY DEF WaitingIsUnfilled
  <2>1. q \in pending_fills /\ q.trigger < at /\ q.trigger # at
    BY <1>2, <1>3, <1>10 DEF WaitingIsUnfilled
  <2>2. \A k \in DOMAIN audit_chain : ~ IsFill(k, q.trigger)
    BY <1>3, <2>1 DEF WaitingIsUnfilled
  <2> QED
    BY <1>2, <1>s, <1>5, <1>7, <1>8, <1>10, <2>1, <2>2 DEF IsFill
<1>13. QueuedOnce'
  BY <1>2, <1>3 DEF QueuedOnce
<1>14. ApprovedWaitsOrSettled'
  <2> SUFFICES ASSUME NEW k \in DOMAIN audit_chain', NEW t \in Nat, IsApproval(k, t)'
               PROVE  Waiting(t)' \/ Settled(t)'
    BY DEF ApprovedWaitsOrSettled
  <2>1. CASE t = at
    <3>1. \A g1 \in DOMAIN audit_chain : ~ IsFill(g1, t)
      BY <1>2, <1>3, <2>1 DEF TriggersAreBehind, IsFill
    <3>2. \A g1 \in DOMAIN audit_chain' : IsFill(g1, t)' => g1 = n + 4
      BY <1>s, <1>5, <1>7, <1>8, <3>1 DEF IsFill
    <3>3. IsFill(n + 4, t)'
      BY <1>s, <1>5, <2>1 DEF IsFill
    <3> QED
      BY <1>8, <3>2, <3>3 DEF Settled
  <2>2. CASE t # at
    <3>1. k \in DOMAIN audit_chain /\ IsApproval(k, t)
      BY <1>s, <1>5, <1>7, <1>8, <2>2 DEF IsApproval
    <3>2. Waiting(t) \/ Settled(t)
      BY <1>3, <3>1 DEF ApprovedWaitsOrSettled
    <3>3. Waiting(t) => Waiting(t)'
      BY <1>2 DEF Waiting
    <3>4. Settled(t) => Settled(t)'
      <4>1. \A g1 \in DOMAIN audit_chain' : IsFill(g1, t)' => g1 \in DOMAIN audit_chain /\ IsFill(g1, t)
        BY <1>s, <1>5, <1>7, <1>8, <2>2 DEF IsFill
      <4>2. \A g1 \in DOMAIN audit_chain : IsFill(g1, t) => g1 \in DOMAIN audit_chain' /\ IsFill(g1, t)'
        BY <1>7 DEF IsFill
      <4> QED
        BY <4>1, <4>2 DEF Settled
    <3> QED
      BY <3>2, <3>3, <3>4
  <2> QED
    BY <2>1, <2>2
<1> QED
  BY <1>2, <1>11, <1>12, <1>13, <1>14 DEF SettleInv

LEMMA SettleInit == Init => SettleInv
BY DEF Init, SettleInv, TriggersAreBehind, WaitingIsUnfilled, QueuedOnce, ApprovedWaitsOrSettled, IsApproval

\* One audit event that neither approves nor fills, and nothing queued.
LEMMA OneQuietKeepsSettled ==
  ASSUME TypeInv, SettleInv, status = "running", at' = at \/ at' = at + 1,
         NEW a \in AuditEvent, audit_chain' = Append(audit_chain, a), a.stage \notin {"RISK", "FILL"},
         pending_fills' = pending_fills
  PROVE  TriggersAreBehind' /\ WaitingIsUnfilled' /\ QueuedOnce' /\ ApprovedWaitsOrSettled'
<1>n. PICK n \in Nat : n = Len(audit_chain) /\ DOMAIN audit_chain = 1..n
  BY DEF TypeInv, TypeOK
<1>1. Extends /\ DOMAIN audit_chain' = 1..(n + 1) /\ audit_chain'[n + 1] = a
  BY <1>n, OneMore DEF TypeInv
<1>2. \A k \in DOMAIN audit_chain' : k \notin DOMAIN audit_chain => k = n + 1
  BY <1>n, <1>1
<1>3. at \in Nat /\ at' \in Nat /\ at' >= at
  BY AtIsNat DEF TypeInv
<1> QED
  BY <1>1, <1>2, <1>3, QuietKeepsSettled

LEMMA RejectedKeepsSettled == TypeInv /\ SettleInv /\ RiskRejects => SettleInv'
<1> SUFFICES ASSUME TypeInv, SettleInv, RiskRejects PROVE SettleInv'
  OBVIOUS
<1>n. PICK n \in Nat : n = Len(audit_chain) /\ DOMAIN audit_chain = 1..n
  BY DEF TypeInv, TypeOK
<1>1. /\ Decision("PROPOSE") \in AuditEvent /\ Risk("REJECTED") \in AuditEvent /\ TypeOK
      /\ audit_chain' = audit_chain \o <<Decision("PROPOSE"), Risk("REJECTED")>>
  BY ApprovedIsTyped DEF RiskRejects, Outcomes, TypeInv
<1>2. /\ Extends /\ DOMAIN audit_chain' = 1..(n + 2)
      /\ audit_chain'[n + 1] = Decision("PROPOSE") /\ audit_chain'[n + 2] = Risk("REJECTED")
  BY <1>n, <1>1, TwoMore
<1>3. /\ audit_chain'[n + 1].stage = "DECISION"
      /\ audit_chain'[n + 2].stage = "RISK" /\ audit_chain'[n + 2].trigger = at
      /\ audit_chain'[n + 2].outcome = "REJECTED"
  BY <1>2 DEF Decision, Risk, Audit
<1>4. \A k \in DOMAIN audit_chain' : k \notin DOMAIN audit_chain => k = n + 1 \/ k = n + 2
  BY <1>n, <1>2
<1>5. /\ at' = at + 1 /\ status' = status /\ status = "running" /\ pending_fills' = pending_fills
      /\ at \in Nat /\ at' \in Nat /\ at' >= at /\ at < at'
  BY AtIsNat DEF RiskRejects, Admit, Triggers, Reached, AtEvent, TypeInv
<1> QED
  BY <1>2, <1>3, <1>4, <1>5, QuietKeepsSettled DEF SettleInv

LEMMA SettleStep == TypeInv /\ SettleInv /\ [Next]_vars => SettleInv'
<1> SUFFICES ASSUME TypeInv, SettleInv, [Next]_vars PROVE SettleInv'
  OBVIOUS
<1>0. at \in Nat /\ TypeOK /\ {"SHUTDOWN", "SEEN", "WAIT"} \subseteq Outcomes
  BY AtIsNat DEF TypeInv, Outcomes
<1>1. CASE _release_pending_fill
  BY <1>1, ReleaseKeepsSettled
<1>2. CASE Shutdown
  <2>1. /\ audit_chain' = Append(audit_chain, System("SHUTDOWN", at)) /\ pending_fills' = pending_fills
        /\ at' = at /\ status = "running" /\ status' = "stopped"
    BY <1>2 DEF Shutdown, Reached, AtEvent
  <2>2. System("SHUTDOWN", at) \in AuditEvent /\ System("SHUTDOWN", at).stage \notin {"RISK", "FILL"}
    BY <1>0, ApprovedIsTyped DEF System, Audit
  <2> QED
    BY <2>1, <2>2, OneQuietKeepsSettled DEF SettleInv
<1>3. CASE Seen
  <2>1. /\ audit_chain' = Append(audit_chain, System("SEEN", at)) /\ pending_fills' = pending_fills
        /\ at' = at + 1 /\ status = "running" /\ status' = status
    BY <1>3 DEF Seen, Admit, Reached, AtEvent
  <2>2. System("SEEN", at) \in AuditEvent /\ System("SEEN", at).stage \notin {"RISK", "FILL"}
    BY <1>0, ApprovedIsTyped DEF System, Audit
  <2> QED
    BY <2>1, <2>2, OneQuietKeepsSettled DEF SettleInv
<1>4. CASE Wait
  <2>1. /\ audit_chain' = Append(audit_chain, Decision("WAIT")) /\ pending_fills' = pending_fills
        /\ at' = at + 1 /\ status = "running" /\ status' = status
    BY <1>4 DEF Wait, Triggers, Admit, Reached, AtEvent
  <2>2. Decision("WAIT") \in AuditEvent /\ Decision("WAIT").stage \notin {"RISK", "FILL"}
    BY <1>0, ApprovedIsTyped DEF Decision, Audit
  <2> QED
    BY <2>1, <2>2, OneQuietKeepsSettled DEF SettleInv
<1>5. CASE RiskRejects
  BY <1>5, RejectedKeepsSettled
<1>6. CASE FutureDataViolation
  BY <1>6 DEF FutureDataViolation, SettleInv
<1>7. CASE QueueFill
  BY <1>7, QueueKeepsSettled
<1>8. CASE FillAtOnce
  BY <1>8, FillAtOnceKeepsSettled
<1>9. CASE Finish
  <2>1. pending_fills' = pending_fills /\ at' = at /\ status = "running" /\ status' = "finished"
    BY <1>9 DEF Finish
  <2>2. pending_fills = {}
    <3>1. DOMAIN events = 1..Len(events) /\ Len(events) \in Nat /\ at \in 1..(Len(events) + 1)
      BY AtIsNat DEF TypeInv, TypeOK
    <3>2. at = Len(events) + 1
      BY <1>9, <3>1 DEF Finish
    <3> QED
      BY <3>1, <3>2 DEF TypeInv, TypeOK
  <2>3. CASE audit_chain' = audit_chain
    BY <2>1, <2>2, <2>3 DEF SettleInv, TriggersAreBehind, WaitingIsUnfilled, QueuedOnce,
                            ApprovedWaitsOrSettled, IsApproval, Waiting, Settled, IsFill
  <2>4. CASE audit_chain' = Append(audit_chain, System("SHUTDOWN", 0))
    <3>1. System("SHUTDOWN", 0) \in AuditEvent /\ System("SHUTDOWN", 0).stage \notin {"RISK", "FILL"}
      BY <1>0, ApprovedIsTyped DEF System, Audit
    <3> QED
      BY <2>1, <2>2, <2>4, <3>1, OneQuietKeepsSettled DEF SettleInv
  <2> QED
    BY <1>9, <2>3, <2>4 DEF Finish
<1>10. CASE UNCHANGED vars
  BY <1>10 DEF vars, SettleInv, TriggersAreBehind, WaitingIsUnfilled, QueuedOnce,
               ApprovedWaitsOrSettled, IsApproval, Waiting, Settled, IsFill
<1> QED
  BY <1>1, <1>2, <1>3, <1>4, <1>5, <1>6, <1>7, <1>8, <1>9, <1>10 DEF Next

LEMMA SettleImplies == TypeInv /\ SettleInv => ApprovalsSettleOnce
<1> SUFFICES ASSUME TypeInv, SettleInv, status # "raised", NEW k \in Approvals
             PROVE  LET t == audit_chain[k].trigger IN
                    IF Waiting(t) THEN FillsOf(t) = {} ELSE \E f \in FillsOf(t) : FillsOf(t) = {f}
  BY DEF ApprovalsSettleOnce, SettleInv
<1>n. PICK t \in Nat : t = audit_chain[k].trigger
  BY AuditTriggers DEF TypeInv, Approvals
<1>1. k \in DOMAIN audit_chain /\ IsApproval(k, t)
  BY <1>n DEF Approvals, IsApproval
<1>2. WaitingIsUnfilled /\ (Waiting(t) \/ Settled(t))
  BY <1>1 DEF SettleInv, ApprovedWaitsOrSettled
<1>3. CASE Waiting(t)
  <2>1. FillsOf(t) = {}
    BY <1>2, <1>3 DEF Waiting, WaitingIsUnfilled, IsFill, FillsOf
  <2> QED
    BY <1>n, <1>3, <2>1
<1>4. CASE ~ Waiting(t)
  <2>1. PICK f \in DOMAIN audit_chain : IsFill(f, t) /\ \A g \in DOMAIN audit_chain : IsFill(g, t) => g = f
    BY <1>2, <1>4 DEF Settled
  <2>2. f \in FillsOf(t) /\ FillsOf(t) = {f}
    BY <2>1 DEF IsFill, FillsOf
  <2> QED
    BY <1>n, <1>4, <2>2
<1> QED
  BY <1>3, <1>4

\* Nothing approved is hidden or filled twice, whatever the events, the latency and
\* the failure schedule are.
THEOREM ApprovalsSettle == Spec => []ApprovalsSettleOnce
<1>1. Init => TypeInv /\ SettleInv
  BY TypeInit, SettleInit
<1>2. TypeInv /\ SettleInv /\ [Next]_vars => (TypeInv /\ SettleInv)'
  BY TypeStep, SettleStep
<1> QED
  BY <1>1, <1>2, SettleImplies, PTL DEF Spec

-----------------------------------------------------------------------------
(***************************************************************************)
(* Decisions see the fills that are due.  The position of the release      *)
(* helper is always the one the audit chain has made; the loop's own       *)
(* binding is the same unless a fill waits for the event the loop is at.   *)
(***************************************************************************)
LEMMA FillDataKept ==
  ASSUME inputs' = inputs, NEW t PROVE _find_fill_data(t)' = _find_fill_data(t)
BY DEF inputs, _find_fill_data, FillCandidates, fill_time

LEMMA FillDataUnique ==
  ASSUME events \in Seq(Event), NEW t, NEW d \in _find_fill_data(t), NEW e \in _find_fill_data(t)
  PROVE  d = e
<1>1. d \in DOMAIN events /\ e \in DOMAIN events /\ d <= e /\ e <= d
  BY DEF _find_fill_data, FillCandidates
<1>2. d \in Nat /\ e \in Nat
  BY <1>1, EventTimes
<1> QED
  BY <1>1, <1>2

IsFilled(j) == audit_chain[j].stage = "FILL" /\ audit_chain[j].outcome = "FILLED"
FilledBefore(k) == {j \in 1..(k - 1) : IsFilled(j)}

LEMMA MadeBeforeByFills ==
  ASSUME NEW k, NEW position
  PROVE  MadeBefore(k, position) <=>
            IF FilledBefore(k) = {} THEN position = initial_ledger
            ELSE \E j \in FilledBefore(k) :
                    /\ \A i \in FilledBefore(k) : i <= j
                    /\ position.filled_by = audit_chain[j].trigger
                    /\ position.last_accrual_time = events[audit_chain[j].cursor].timestamp
BY DEF MadeBefore, FilledBefore, IsFilled

\* What an earlier part of the chain has made stays so, and what is neither
\* filled nor in it makes nothing.
LEMMA MadeIsKept ==
  ASSUME TypeOK, Extends, events' = events, NEW m \in 1..(Len(audit_chain) + 1), NEW k \in Nat, m <= k,
         \A j \in 1..(k - 1) : j >= m => ~ IsFilled(j)',
         NEW position, MadeBefore(m, position)
  PROVE  MadeBefore(k, position)'
<1>1. \A j \in 1..(m - 1) : j \in DOMAIN audit_chain /\ audit_chain'[j] = audit_chain[j]
  BY DEF Extends, TypeOK
<1>2. FilledBefore(k)' = {j \in 1..(k - 1) : IsFilled(j)'}
  BY DEF FilledBefore
<1>3. ASSUME NEW j PROVE j \in FilledBefore(m) <=> j \in {i \in 1..(k - 1) : IsFilled(i)'}
  BY <1>1 DEF FilledBefore, IsFilled
<1>4. FilledBefore(k)' = FilledBefore(m)
  BY <1>2, <1>3
<1>5. \A j \in FilledBefore(m) : audit_chain'[j] = audit_chain[j]
  BY <1>1 DEF FilledBefore
<1>6. initial_ledger' = initial_ledger
  BY DEF initial_ledger
<1>7. CASE FilledBefore(m) = {}
  <2>1. position = initial_ledger
    BY <1>7, MadeBeforeByFills
  <2> QED
    BY <1>4, <1>6, <1>7, <2>1 DEF MadeBefore, FilledBefore, IsFilled
<1>8. CASE FilledBefore(m) # {}
  <2>1. PICK j \in FilledBefore(m) : /\ \A i \in FilledBefore(m) : i <= j
                                    /\ position.filled_by = audit_chain[j].trigger
                                    /\ position.last_accrual_time = events[audit_chain[j].cursor].timestamp
    BY <1>8, MadeBeforeByFills
  <2>2. /\ j \in FilledBefore(k)' /\ \A i \in FilledBefore(k)' : i <= j
        /\ position.filled_by = audit_chain'[j].trigger
        /\ position.last_accrual_time = events'[audit_chain'[j].cursor].timestamp
    BY <1>4, <1>5, <2>1
  <2> QED
    BY <2>2 DEF MadeBefore, FilledBefore, IsFilled
<1> QED
  BY <1>7, <1>8

\* A fill at the end of the chain makes the position it leaves.
LEMMA FillMakes ==
  ASSUME TypeOK, Extends, events' = events, NEW n \in Nat, n = Len(audit_chain'), n >= 1,
         NEW t, NEW d, NEW position,
         audit_chain'[n].trigger = t, audit_chain'[n].cursor = d, IsFilled(n)',
         position.filled_by = t, position.last_accrual_time = events[d].timestamp
  PROVE  MadeBefore(n + 1, position)'
<1>1. n \in FilledBefore(n + 1)' /\ \A i \in FilledBefore(n + 1)' : i <= n
  BY DEF FilledBefore
<1> QED
  BY <1>1 DEF MadeBefore, FilledBefore, IsFilled

DecisionsMatchFills ==
    \A k \in DOMAIN audit_chain, position \in Ledger :
        audit_chain[k].stage = "DECISION" /\ audit_chain[k].ledger = position => MadeBefore(k, position)
DecisionsSeeDue ==
    \A k \in DOMAIN audit_chain : audit_chain[k].stage = "DECISION" =>
        \A j \in DOMAIN audit_chain, t \in Nat : IsApproval(j, t) /\ j < k =>
            \A d \in _find_fill_data(t) :
                d <= audit_chain[k].trigger => \E f \in DOMAIN audit_chain : IsFill(f, t) /\ f < k
WaitForTheirData == \A p \in pending_fills : p.data \in _find_fill_data(p.trigger)
BooksMatchFills == \A k \in Nat : k = Len(audit_chain) + 1 => MadeBefore(k, ledger_ref)
BindingsAgree == (\A p \in pending_fills : p.data # at) => ledger = ledger_ref
SeenInv ==
    /\ DecisionsMatchFills /\ DecisionsSeeDue
    /\ status # "raised" => WaitForTheirData /\ BooksMatchFills /\ BindingsAgree
    /\ status = "stopped" => Due = {}

LEMMA SeenInit == Init => SeenInv
<1> SUFFICES ASSUME Init PROVE SeenInv
  OBVIOUS
<1>1. /\ DOMAIN audit_chain = {1} /\ audit_chain[1].stage = "SYSTEM" /\ Len(audit_chain) = 1
      /\ pending_fills = {} /\ ledger = initial_ledger /\ ledger_ref = initial_ledger
  BY DEF Init
<1>2. \A k \in Nat : k = 2 => FilledBefore(k) = {}
  BY <1>1 DEF FilledBefore, IsFilled
<1>3. BooksMatchFills
  BY <1>1, <1>2 DEF BooksMatchFills, MadeBefore, FilledBefore, IsFilled
<1> QED
  BY <1>1, <1>3 DEF SeenInv, DecisionsMatchFills, DecisionsSeeDue, WaitForTheirData, BindingsAgree, Due

\* What a step may add to the chain: a decision comes first, is about the event
\* the loop is at, which no fill waits for, and shows the loop's position.
Decides ==
    \A k \in DOMAIN audit_chain' : k \notin DOMAIN audit_chain /\ audit_chain'[k].stage = "DECISION" =>
        /\ k = Len(audit_chain) + 1 /\ status = "running" /\ Due = {}
        /\ audit_chain'[k].trigger = at /\ audit_chain'[k].ledger = ledger

LEMMA DecisionsKeepMatching ==
  ASSUME TypeInv, SeenInv, Extends, Decides, inputs' = inputs
  PROVE  DecisionsMatchFills'
<1>n. PICK n \in Nat : n = Len(audit_chain) /\ DOMAIN audit_chain = 1..n
  BY DEF TypeInv, TypeOK
<1>1. events' = events /\ TypeOK /\ Ledger' = Ledger
  BY DEF inputs, TypeInv, Ledger
<1> SUFFICES ASSUME NEW k \in DOMAIN audit_chain', NEW position \in Ledger,
                    audit_chain'[k].stage = "DECISION", audit_chain'[k].ledger = position
             PROVE  MadeBefore(k, position)'
  BY <1>1 DEF DecisionsMatchFills
<1>2. \A j \in DOMAIN audit_chain : audit_chain'[j] = audit_chain[j]
  BY DEF Extends
<1>3. CASE k \in DOMAIN audit_chain
  <2>1. MadeBefore(k, position)
    BY <1>2, <1>3 DEF SeenInv, DecisionsMatchFills
  <2>2. k \in Nat /\ k \in 1..(Len(audit_chain) + 1) /\ \A j \in 1..(k - 1) : ~ (j >= k)
    BY <1>n, <1>3
  <2> QED
    BY <1>1, <2>1, <2>2, MadeIsKept
<1>4. CASE k \notin DOMAIN audit_chain
  <2>1. k = n + 1 /\ position = ledger /\ status = "running" /\ Due = {}
    BY <1>n, <1>4 DEF Decides
  <2>2. ledger = ledger_ref
    BY <2>1 DEF SeenInv, BindingsAgree, Due
  <2>3. MadeBefore(k, position)
    BY <1>n, <2>1, <2>2 DEF SeenInv, BooksMatchFills
  <2>4. k \in Nat /\ k \in 1..(Len(audit_chain) + 1) /\ \A j \in 1..(k - 1) : ~ (j >= k)
    BY <1>n, <2>1
  <2> QED
    BY <1>1, <2>3, <2>4, MadeIsKept
<1> QED
  BY <1>3, <1>4

LEMMA DecisionsKeepSeeing ==
  ASSUME TypeInv, SettleInv, SeenInv, Extends, Decides, inputs' = inputs
  PROVE  DecisionsSeeDue'
<1>n. PICK n \in Nat : n = Len(audit_chain) /\ DOMAIN audit_chain = 1..n
  BY DEF TypeInv, TypeOK
<1>m. PICK m \in Nat : DOMAIN audit_chain' = 1..m
  BY DEF Extends
<1>1. events \in Seq(Event) /\ \A t : _find_fill_data(t)' = _find_fill_data(t)
  BY FillDataKept DEF TypeInv, TypeOK
<1> SUFFICES ASSUME NEW k \in DOMAIN audit_chain', audit_chain'[k].stage = "DECISION",
                    NEW j \in DOMAIN audit_chain', NEW t \in Nat, IsApproval(j, t)', j < k,
                    NEW d \in _find_fill_data(t), d <= audit_chain'[k].trigger
             PROVE  \E f \in DOMAIN audit_chain' : IsFill(f, t)' /\ f < k
  BY <1>1 DEF DecisionsSeeDue
<1>2. \A i \in DOMAIN audit_chain : i \in DOMAIN audit_chain' /\ audit_chain'[i] = audit_chain[i]
  BY DEF Extends
<1> SUFFICES \E f \in DOMAIN audit_chain : IsFill(f, t) /\ f < k
  BY <1>2 DEF IsFill
<1>4. CASE k \in DOMAIN audit_chain
  <2>1. j \in DOMAIN audit_chain
    BY <1>n, <1>m, <1>4
  <2>2. IsApproval(j, t) /\ audit_chain[k].stage = "DECISION" /\ d <= audit_chain[k].trigger
    BY <1>2, <1>4, <2>1 DEF IsApproval
  <2> QED
    BY <1>4, <2>1, <2>2 DEF SeenInv, DecisionsSeeDue
<1>5. CASE k \notin DOMAIN audit_chain
  <2>1. k = n + 1 /\ status = "running" /\ Due = {} /\ d <= at
    BY <1>n, <1>5 DEF Decides
  <2>2. j \in DOMAIN audit_chain /\ IsApproval(j, t)
    <3>1. j \in DOMAIN audit_chain
      BY <1>n, <1>m, <2>1
    <3> QED
      BY <1>2, <3>1 DEF IsApproval
  <2>3. Waiting(t) \/ Settled(t)
    BY <2>1, <2>2 DEF SettleInv, ApprovedWaitsOrSettled
  <2>4. ~ Waiting(t)
    <3> SUFFICES ASSUME NEW p \in pending_fills, p.trigger = t PROVE FALSE
      BY DEF Waiting
    <3>1. p.data \in _find_fill_data(t)
      BY <2>1 DEF SeenInv, WaitForTheirData
    <3>2. p.data = d
      BY <1>1, <3>1, FillDataUnique
    <3>3. p.data \in at..Len(events) /\ at \in Nat /\ Len(events) \in Nat
      BY AtIsNat DEF TypeInv, TypeOK
    <3>4. p.data = at
      BY <2>1, <3>2, <3>3
    <3> QED
      BY <2>1, <3>4 DEF Due
  <2>5. PICK f \in DOMAIN audit_chain : IsFill(f, t)
    BY <2>3, <2>4 DEF Settled
  <2>6. f < k
    BY <1>n, <2>1, <2>5
  <2> QED
    BY <2>5, <2>6
<1> QED
  BY <1>4, <1>5

\* Nothing is filled and nothing released: the books stand.
LEMMA UnfilledKeepsBooks ==
  ASSUME TypeInv, BooksMatchFills, Extends, events' = events, ledger_ref' = ledger_ref,
         \A k \in DOMAIN audit_chain' : k \notin DOMAIN audit_chain => ~ IsFilled(k)'
  PROVE  BooksMatchFills'
<1>n. PICK n \in Nat : n = Len(audit_chain) /\ DOMAIN audit_chain = 1..n
  BY DEF TypeInv, TypeOK
<1>m. PICK m \in Nat : m = Len(audit_chain') /\ DOMAIN audit_chain' = 1..m /\ n <= m
  BY <1>n DEF Extends
<1>1. MadeBefore(n + 1, ledger_ref)
  BY <1>n DEF BooksMatchFills
<1>2. \A j \in 1..m : j >= n + 1 => ~ IsFilled(j)'
  BY <1>n, <1>m
<1>3. m + 1 \in Nat /\ n + 1 \in 1..(Len(audit_chain) + 1) /\ n + 1 <= m + 1 /\ (m + 1) - 1 = m
  BY <1>n, <1>m
<1>4. PICK position : position = ledger_ref
  OBVIOUS
<1>5. MadeBefore(m + 1, position)'
  BY <1>1, <1>2, <1>3, <1>4, MadeIsKept DEF TypeInv
<1>6. MadeBefore(m + 1, ledger_ref)'
  BY <1>4, <1>5
<1> QED
  BY <1>m, <1>6 DEF BooksMatchFills

\* The last audit event is a fill, of the position as it was.
LEMMA FillKeepsBooks ==
  ASSUME TypeInv, BooksMatchFills, Extends, events' = events, rejected' = rejected,
         NEW m \in Nat, m = Len(audit_chain'), m > Len(audit_chain), DOMAIN audit_chain' = 1..m,
         \A k \in DOMAIN audit_chain' : k \notin DOMAIN audit_chain /\ k # m => ~ IsFilled(k)',
         NEW t, NEW d, ledger_ref' = FillOn(ledger_ref, t, d),
         audit_chain'[m].stage = "FILL", audit_chain'[m].trigger = t, audit_chain'[m].cursor = d,
         audit_chain'[m].outcome = classify(d)
  PROVE  BooksMatchFills'
<1>n. PICK n \in Nat : n = Len(audit_chain) /\ DOMAIN audit_chain = 1..n
  BY DEF TypeInv, TypeOK
<1>4. PICK position : position = ledger_ref'
  OBVIOUS
<1>1. CASE classify(d) = "REJECTED"
  <2>1. position = ledger_ref
    BY <1>1, <1>4 DEF FillOn
  <2>2. MadeBefore(n + 1, position)
    BY <1>n, <2>1 DEF BooksMatchFills
  <2>3. ~ IsFilled(m)'
    BY <1>1 DEF IsFilled
  <2>4. \A j \in 1..m : j >= n + 1 => ~ IsFilled(j)'
    BY <1>n, <2>3
  <2>5. m + 1 \in Nat /\ n + 1 \in 1..(Len(audit_chain) + 1) /\ n + 1 <= m + 1 /\ (m + 1) - 1 = m
    BY <1>n
  <2> QED
    BY <1>4, <2>2, <2>4, <2>5, MadeIsKept DEF TypeInv, BooksMatchFills
<1>2. CASE classify(d) # "REJECTED"
  <2>1. IsFilled(m)'
    BY <1>2 DEF IsFilled, classify
  <2>2. position.filled_by = t /\ position.last_accrual_time = events[d].timestamp
    BY <1>2, <1>4 DEF FillOn, with_updates
  <2>3. m >= 1
    BY <1>n
  <2>4. MadeBefore(m + 1, position)'
    BY <2>1, <2>2, <2>3, FillMakes DEF TypeInv
  <2> QED
    BY <1>4, <2>4 DEF BooksMatchFills
<1> QED
  BY <1>1, <1>2

LEMMA ReleaseKeepsSeen == TypeInv /\ SettleInv /\ SeenInv /\ _release_pending_fill => SeenInv'
<1> SUFFICES ASSUME TypeInv, SettleInv, SeenInv, _release_pending_fill PROVE SeenInv'
  OBVIOUS
<1>n. PICK n \in Nat : n = Len(audit_chain) /\ DOMAIN audit_chain = 1..n
  BY DEF TypeInv, TypeOK
<1>1. PICK p \in Due :
        /\ ledger_ref' = FillOn(ledger_ref, p.trigger, p.data)
        /\ audit_chain' = audit_chain \o Filled(p.trigger, p.data, ledger_ref')
        /\ pending_fills' = pending_fills \ {p}
        /\ ledger' = IF Due = {p} THEN ledger_ref' ELSE ledger
  BY DEF _release_pending_fill
<1>2. /\ at' = at /\ status' = status /\ status = "running" /\ inputs' = inputs
      /\ events' = events /\ rejected' = rejected
  BY DEF _release_pending_fill, AtEvent, inputs
<1>3. WaitForTheirData /\ BooksMatchFills
  BY <1>2 DEF SeenInv
<1>4. p \in pending_fills /\ p.data = at /\ p.trigger \in Nat /\ p.data \in DOMAIN events
  BY AtIsNat DEF Due, AtEvent, _release_pending_fill, TypeInv, TypeOK
<1>5. ledger_ref' \in Ledger
  BY <1>1, <1>4, FillIsTyped DEF TypeInv, TypeOK
<1>6. PICK f, g \in AuditEvent :
        /\ f = Filled(p.trigger, p.data, ledger_ref')[1] /\ g = Filled(p.trigger, p.data, ledger_ref')[2]
        /\ Filled(p.trigger, p.data, ledger_ref') = <<f, g>>
  <2> DEFINE F == Filled(p.trigger, p.data, ledger_ref')
  <2>1. F[1] \in AuditEvent /\ F[2] \in AuditEvent /\ F = <<F[1], F[2]>>
    BY <1>4, <1>5, FillIsTyped DEF TypeInv
  <2> HIDE DEF F
  <2>2. \E f, g \in AuditEvent : f = F[1] /\ g = F[2] /\ F = <<f, g>>
    BY <2>1
  <2> QED
    BY <2>2 DEF F
<1>7. /\ f.stage = "LATENCY" /\ g.stage = "FILL" /\ g.trigger = p.trigger /\ g.cursor = p.data
      /\ g.outcome = classify(p.data)
  BY <1>6 DEF Filled, Audit
<1>8. audit_chain' = audit_chain \o <<f, g>> /\ TypeOK
  BY <1>1, <1>6 DEF TypeInv
<1>9. /\ Extends /\ DOMAIN audit_chain' = 1..(n + 2) /\ Len(audit_chain') = n + 2
      /\ audit_chain'[n + 1] = f /\ audit_chain'[n + 2] = g
  BY <1>n, <1>8, TwoMore
<1>10. \A k \in DOMAIN audit_chain' : k \notin DOMAIN audit_chain => k = n + 1 \/ k = n + 2
  BY <1>n, <1>9
<1>11. Decides
  BY <1>7, <1>9, <1>10 DEF Decides
<1>12. WaitForTheirData'
  BY <1>1, <1>2, <1>3, FillDataKept DEF WaitForTheirData
<1>13. BooksMatchFills'
  <2>1. \A k \in DOMAIN audit_chain' : k \notin DOMAIN audit_chain /\ k # n + 2 => ~ IsFilled(k)'
    BY <1>7, <1>9, <1>10 DEF IsFilled
  <2>2. n + 2 \in Nat /\ n + 2 > Len(audit_chain)
    BY <1>n
  <2> QED
    BY <1>1, <1>2, <1>3, <1>7, <1>9, <2>1, <2>2, FillKeepsBooks
<1>14. BindingsAgree'
  <2> SUFFICES ASSUME \A q \in pending_fills' : q.data # at PROVE ledger' = ledger_ref'
    BY <1>2 DEF BindingsAgree
  <2>1. Due = {p}
    BY <1>1, <1>4 DEF Due
  <2> QED
    BY <1>1, <2>1
<1> QED
  BY <1>2, <1>9, <1>11, <1>12, <1>13, <1>14, DecisionsKeepMatching, DecisionsKeepSeeing DEF SeenInv

\* The loop goes on: what has been appended is at most a decision and is not filled.
LEMMA AdmitKeepsSeen ==
  ASSUME TypeInv, SettleInv, SeenInv, Extends, Decides, inputs' = inputs, Admit, status = "running",
         status' = status, ledger_ref' = ledger_ref,
         \A k \in DOMAIN audit_chain' : k \notin DOMAIN audit_chain => ~ IsFilled(k)',
         \A p \in pending_fills' : \/ p \in pending_fills
                                   \/ p.data \in _find_fill_data(p.trigger)
  PROVE  SeenInv'
<1>1. WaitForTheirData /\ BooksMatchFills /\ events' = events
  BY DEF SeenInv, inputs
<1>2. WaitForTheirData'
  BY <1>1, FillDataKept DEF WaitForTheirData
<1>3. BooksMatchFills'
  BY <1>1, UnfilledKeepsBooks
<1>4. BindingsAgree'
  BY DEF Admit, BindingsAgree
<1> QED
  BY <1>2, <1>3, <1>4, DecisionsKeepMatching, DecisionsKeepSeeing DEF SeenInv

\* The run ends, or an event is seen, with one more SYSTEM event or none.
LEMMA StopKeepsSeen ==
  ASSUME TypeInv, SettleInv, SeenInv, Extends, Decides, inputs' = inputs, at' = at, status = "running",
         status' \in {"finished", "stopped"}, ledger_ref' = ledger_ref, ledger' = ledger,
         pending_fills' = pending_fills, Due = {},
         \A k \in DOMAIN audit_chain' : k \notin DOMAIN audit_chain => ~ IsFilled(k)'
  PROVE  SeenInv'
<1>1. WaitForTheirData /\ BooksMatchFills /\ BindingsAgree /\ events' = events
  BY DEF SeenInv, inputs
<1>2. WaitForTheirData'
  BY <1>1, FillDataKept DEF WaitForTheirData
<1>3. BooksMatchFills'
  BY <1>1, UnfilledKeepsBooks
<1>4. BindingsAgree' /\ Due' = {}
  BY <1>1 DEF BindingsAgree, Due
<1> QED
  BY <1>2, <1>3, <1>4, DecisionsKeepMatching, DecisionsKeepSeeing DEF SeenInv

\* One audit event that is no decision, or the decision about this event.
LEMMA OneDecides ==
  ASSUME TypeInv, NEW a \in AuditEvent, audit_chain' = Append(audit_chain, a), a.stage # "FILL",
         \/ a.stage # "DECISION"
         \/ status = "running" /\ Due = {} /\ a.trigger = at /\ a.ledger = ledger
  PROVE  /\ Extends /\ Decides
         /\ \A k \in DOMAIN audit_chain' : k \notin DOMAIN audit_chain => ~ IsFilled(k)'
<1>n. PICK n \in Nat : n = Len(audit_chain) /\ DOMAIN audit_chain = 1..n
  BY DEF TypeInv, TypeOK
<1>1. Extends /\ DOMAIN audit_chain' = 1..(n + 1) /\ audit_chain'[n + 1] = a
  BY <1>n, OneMore DEF TypeInv
<1>2. \A k \in DOMAIN audit_chain' : k \notin DOMAIN audit_chain => k = n + 1
  BY <1>n, <1>1
<1> QED
  BY <1>n, <1>1, <1>2 DEF Decides, IsFilled

\* A proposal about this event and its verdict.
LEMMA ProposalDecides ==
  ASSUME TypeInv, Triggers, NEW outcome \in Outcomes,
         audit_chain' = audit_chain \o <<Decision("PROPOSE"), Risk(outcome)>>
  PROVE  /\ Extends /\ Decides
         /\ \A k \in DOMAIN audit_chain' : k \notin DOMAIN audit_chain => ~ IsFilled(k)'
<1>n. PICK n \in Nat : n = Len(audit_chain) /\ DOMAIN audit_chain = 1..n
  BY DEF TypeInv, TypeOK
<1>1. Decision("PROPOSE") \in AuditEvent /\ Risk(outcome) \in AuditEvent /\ TypeOK
  BY ApprovedIsTyped DEF Outcomes, TypeInv
<1>2. /\ Extends /\ DOMAIN audit_chain' = 1..(n + 2)
      /\ audit_chain'[n + 1] = Decision("PROPOSE") /\ audit_chain'[n + 2] = Risk(outcome)
  BY <1>n, <1>1, TwoMore
<1>3. /\ audit_chain'[n + 1].stage = "DECISION" /\ audit_chain'[n + 1].trigger = at
      /\ audit_chain'[n + 1].ledger = ledger /\ audit_chain'[n + 2].stage = "RISK"
  BY <1>2 DEF Decision, Risk, Audit
<1>4. \A k \in DOMAIN audit_chain' : k \notin DOMAIN audit_chain => k = n + 1 \/ k = n + 2
  BY <1>n, <1>2
<1>5. status = "running" /\ Due = {}
  BY DEF Triggers, Reached, AtEvent
<1> QED
  BY <1>n, <1>2, <1>3, <1>4, <1>5 DEF Decides, IsFilled

LEMMA FillAtOnceKeepsSeen == TypeInv /\ SettleInv /\ SeenInv /\ FillAtOnce => SeenInv'
<1> SUFFICES ASSUME TypeInv, SettleInv, SeenInv, FillAtOnce PROVE SeenInv'
  OBVIOUS
<1>n. PICK n \in Nat : n = Len(audit_chain) /\ DOMAIN audit_chain = 1..n
  BY DEF TypeInv, TypeOK
<1>1. PICK d \in _find_fill_data(at) :
        /\ ledger_ref' = FillOn(ledger, at, d)
        /\ audit_chain' = audit_chain \o Approved \o Filled(at, d, ledger_ref')
  BY DEF FillAtOnce
<1>2. /\ at' = at + 1 /\ ledger' = ledger_ref' /\ status' = status /\ status = "running" /\ Due = {}
      /\ inputs' = inputs /\ events' = events /\ rejected' = rejected
      /\ pending_fills' = pending_fills /\ at \in Nat
  BY AtIsNat DEF FillAtOnce, Admit, Triggers, Reached, AtEvent, TypeInv, inputs
<1>3. WaitForTheirData /\ BooksMatchFills /\ ledger = ledger_ref
  BY <1>2 DEF SeenInv, BindingsAgree, Due
<1>4. ledger_ref' \in Ledger /\ d \in DOMAIN events /\ TypeOK
  BY <1>1, <1>2, FillIsTyped DEF TypeInv, TypeOK, _find_fill_data, FillCandidates
<1>p. PICK a, b, f, g \in AuditEvent :
        /\ a = Decision("PROPOSE") /\ b = Risk("APPROVED")
        /\ f = Filled(at, d, ledger_ref')[1] /\ g = Filled(at, d, ledger_ref')[2]
        /\ Filled(at, d, ledger_ref') = <<f, g>>
  BY <1>2, <1>4, FillIsTyped, ApprovedIsTyped DEF Outcomes
<1>s. /\ a.stage = "DECISION" /\ a.trigger = at /\ a.ledger = ledger
      /\ b.stage = "RISK" /\ f.stage = "LATENCY"
      /\ g.stage = "FILL" /\ g.trigger = at /\ g.cursor = d /\ g.outcome = classify(d)
  BY <1>p DEF Decision, Risk, Filled, Audit
<1>c. audit_chain' = audit_chain \o <<a, b>> \o <<f, g>>
  BY <1>1, <1>p DEF Approved
<1>5. /\ Extends /\ DOMAIN audit_chain' = 1..(n + 4) /\ Len(audit_chain') = n + 4
      /\ audit_chain'[n + 1] = a /\ audit_chain'[n + 2] = b
      /\ audit_chain'[n + 3] = f /\ audit_chain'[n + 4] = g
  BY <1>n, <1>4, <1>c, FourMore
<1>6. \A k \in DOMAIN audit_chain' :
        k \notin DOMAIN audit_chain => k = n + 1 \/ k = n + 2 \/ k = n + 3 \/ k = n + 4
  BY <1>n, <1>5
<1>7. Decides
  BY <1>n, <1>2, <1>s, <1>5, <1>6 DEF Decides
<1>8. WaitForTheirData'
  BY <1>2, <1>3, FillDataKept DEF WaitForTheirData
<1>9. BooksMatchFills'
  <2>1. \A k \in DOMAIN audit_chain' : k \notin DOMAIN audit_chain /\ k # n + 4 => ~ IsFilled(k)'
    BY <1>s, <1>5, <1>6 DEF IsFilled
  <2>2. n + 4 \in Nat /\ n + 4 > Len(audit_chain)
    BY <1>n
  <2>3. PICK t : t = at
    OBVIOUS
  <2>4. /\ ledger_ref' = FillOn(ledger_ref, t, d) /\ audit_chain'[n + 4].stage = "FILL"
        /\ audit_chain'[n + 4].trigger = t /\ audit_chain'[n + 4].cursor = d
        /\ audit_chain'[n + 4].outcome = classify(d)
    BY <1>1, <1>3, <1>s, <1>5, <2>3
  <2> QED
    BY <1>2, <1>3, <1>5, <2>1, <2>2, <2>4, FillKeepsBooks
<1>10. BindingsAgree'
  BY <1>2 DEF BindingsAgree
<1> QED
  BY <1>2, <1>5, <1>7, <1>8, <1>9, <1>10, DecisionsKeepMatching, DecisionsKeepSeeing DEF SeenInv

LEMMA SeenStep == TypeInv /\ SettleInv /\ SeenInv /\ [Next]_vars => SeenInv'
<1> SUFFICES ASSUME TypeInv, SettleInv, SeenInv, [Next]_vars PROVE SeenInv'
  OBVIOUS
<1>0. at \in Nat /\ TypeOK /\ {"SHUTDOWN", "SEEN", "WAIT", "REJECTED", "APPROVED"} \subseteq Outcomes
  BY AtIsNat DEF TypeInv, Outcomes
<1>1. CASE _release_pending_fill
  BY <1>1, ReleaseKeepsSeen
<1>2. CASE Shutdown
  <2>1. /\ audit_chain' = Append(audit_chain, System("SHUTDOWN", at)) /\ pending_fills' = pending_fills
        /\ at' = at /\ status = "running" /\ status' = "stopped" /\ Due = {}
        /\ inputs' = inputs /\ ledger' = ledger /\ ledger_ref' = ledger_ref
    BY <1>2 DEF Shutdown, Reached, AtEvent
  <2>2. System("SHUTDOWN", at) \in AuditEvent /\ System("SHUTDOWN", at).stage = "SYSTEM"
    BY <1>0, ApprovedIsTyped DEF System, Audit
  <2>3. /\ Extends /\ Decides
        /\ \A k \in DOMAIN audit_chain' : k \notin DOMAIN audit_chain => ~ IsFilled(k)'
    BY <2>1, <2>2, OneDecides
  <2> QED
    BY <2>1, <2>3, StopKeepsSeen
<1>3. CASE Seen
  <2>1. /\ audit_chain' = Append(audit_chain, System("SEEN", at)) /\ pending_fills' = pending_fills
        /\ Admit /\ status = "running" /\ status' = status /\ inputs' = inputs /\ ledger_ref' = ledger_ref
    BY <1>3 DEF Seen, Reached, AtEvent
  <2>2. System("SEEN", at) \in AuditEvent /\ System("SEEN", at).stage = "SYSTEM"
    BY <1>0, ApprovedIsTyped DEF System, Audit
  <2>3. /\ Extends /\ Decides
        /\ \A k \in DOMAIN audit_chain' : k \notin DOMAIN audit_chain => ~ IsFilled(k)'
    BY <2>1, <2>2, OneDecides
  <2> QED
    BY <2>1, <2>3, AdmitKeepsSeen
<1>4. CASE Wait
  <2>1. /\ audit_chain' = Append(audit_chain, Decision("WAIT")) /\ pending_fills' = pending_fills
        /\ Admit /\ status = "running" /\ status' = status /\ Due = {}
        /\ inputs' = inputs /\ ledger_ref' = ledger_ref
    BY <1>4 DEF Wait, Triggers, Reached, AtEvent
  <2>2. /\ Decision("WAIT") \in AuditEvent /\ Decision("WAIT").stage # "FILL"
        /\ Decision("WAIT").trigger = at /\ Decision("WAIT").ledger = ledger
    BY <1>0, ApprovedIsTyped DEF Decision, Audit
  <2>3. /\ Extends /\ Decides
        /\ \A k \in DOMAIN audit_chain' : k \notin DOMAIN audit_chain => ~ IsFilled(k)'
    BY <2>1, <2>2, OneDecides
  <2> QED
    BY <2>1, <2>3, AdmitKeepsSeen
<1>5. CASE RiskRejects
  <2>1. /\ audit_chain' = audit_chain \o <<Decision("PROPOSE"), Risk("REJECTED")>>
        /\ pending_fills' = pending_fills /\ Triggers
        /\ Admit /\ status = "running" /\ status' = status /\ inputs' = inputs /\ ledger_ref' = ledger_ref
    BY <1>5 DEF RiskRejects, Triggers, Reached, AtEvent
  <2>2. /\ Extends /\ Decides
        /\ \A k \in DOMAIN audit_chain' : k \notin DOMAIN audit_chain => ~ IsFilled(k)'
    BY <1>0, <2>1, ProposalDecides
  <2> QED
    BY <2>1, <2>2, AdmitKeepsSeen
<1>6. CASE FutureDataViolation
  <2>1. /\ audit_chain' = audit_chain \o <<Decision("PROPOSE"), Risk("APPROVED")>> /\ Triggers
        /\ status' = "raised" /\ inputs' = inputs
    BY <1>6 DEF FutureDataViolation, Approved
  <2>2. Extends /\ Decides
    BY <1>0, <2>1, ProposalDecides
  <2> QED
    BY <2>1, <2>2, DecisionsKeepMatching, DecisionsKeepSeeing DEF SeenInv
<1>7. CASE QueueFill
  <2>1. /\ audit_chain' = audit_chain \o <<Decision("PROPOSE"), Risk("APPROVED")>> /\ Triggers
        /\ Admit /\ status = "running" /\ status' = status /\ inputs' = inputs /\ ledger_ref' = ledger_ref
    BY <1>7 DEF QueueFill, Approved, Triggers, Reached, AtEvent
  <2>2. /\ Extends /\ Decides
        /\ \A k \in DOMAIN audit_chain' : k \notin DOMAIN audit_chain => ~ IsFilled(k)'
    BY <1>0, <2>1, ProposalDecides
  <2>3. PICK d \in _find_fill_data(at) : pending_fills' = pending_fills \cup {[trigger |-> at, data |-> d]}
    BY <1>7 DEF QueueFill
  <2>4. \A p \in pending_fills' : \/ p \in pending_fills
                                  \/ p.data \in _find_fill_data(p.trigger)
    BY <2>3
  <2> QED
    BY <2>1, <2>2, <2>4, AdmitKeepsSeen
<1>8. CASE FillAtOnce
  BY <1>8, FillAtOnceKeepsSeen
<1>9. CASE Finish
  <2>1. /\ pending_fills' = pending_fills /\ at' = at /\ status = "running" /\ status' = "finished"
        /\ inputs' = inputs /\ ledger' = ledger /\ ledger_ref' = ledger_ref
    BY <1>9 DEF Finish
  <2>2. Due = {}
    BY <1>9, AtIsNat DEF Finish, Due, TypeInv, TypeOK
  <2>3. CASE audit_chain' = audit_chain
    <3>1. Extends /\ Decides /\ \A k \in DOMAIN audit_chain' : k \notin DOMAIN audit_chain => ~ IsFilled(k)'
      BY <2>3 DEF Extends, Decides, TypeInv, TypeOK
    <3> QED
      BY <2>1, <2>2, <3>1, StopKeepsSeen
  <2>4. CASE audit_chain' = Append(audit_chain, System("SHUTDOWN", 0))
    <3>1. System("SHUTDOWN", 0) \in AuditEvent /\ System("SHUTDOWN", 0).stage = "SYSTEM"
      BY <1>0, ApprovedIsTyped DEF System, Audit
    <3>2. /\ Extends /\ Decides
          /\ \A k \in DOMAIN audit_chain' : k \notin DOMAIN audit_chain => ~ IsFilled(k)'
      BY <2>4, <3>1, OneDecides
    <3> QED
      BY <2>1, <2>2, <3>2, StopKeepsSeen
  <2> QED
    BY <1>9, <2>3, <2>4 DEF Finish
<1>10. CASE UNCHANGED vars
  <2>1. /\ events' = events /\ inputs' = inputs /\ at' = at /\ status' = status /\ ledger' = ledger
        /\ ledger_ref' = ledger_ref /\ pending_fills' = pending_fills /\ audit_chain' = audit_chain
    BY <1>10 DEF vars, inputs
  <2>2. Extends /\ Decides /\ \A k \in DOMAIN audit_chain' : k \notin DOMAIN audit_chain => ~ IsFilled(k)'
    BY <2>1 DEF Extends, Decides, TypeInv, TypeOK
  <2>3. DecisionsMatchFills' /\ DecisionsSeeDue'
    BY <2>1, <2>2, DecisionsKeepMatching, DecisionsKeepSeeing
  <2>4. BooksMatchFills => BooksMatchFills'
    BY <2>1, <2>2, UnfilledKeepsBooks
  <2>5. WaitForTheirData => WaitForTheirData'
    BY <2>1, FillDataKept DEF WaitForTheirData
  <2> QED
    BY <2>1, <2>3, <2>4, <2>5 DEF SeenInv, BindingsAgree, Due
<1> QED
  BY <1>1, <1>2, <1>3, <1>4, <1>5, <1>6, <1>7, <1>8, <1>9, <1>10 DEF Next

LEMMA SeenImplies == TypeInv /\ SettleInv /\ SeenInv => DecisionsSeeDueFills
<1> SUFFICES ASSUME TypeInv, SettleInv, SeenInv PROVE DecisionsSeeDueFills
  OBVIOUS
<1>1. ASSUME NEW k \in DOMAIN audit_chain, audit_chain[k].stage = "DECISION"
      PROVE  MadeBefore(k, audit_chain[k].ledger)
  <2>1. audit_chain[k] \in AuditEvent
    BY DEF TypeInv, TypeOK
  <2>2. PICK position \in Ledger : position = audit_chain[k].ledger
    BY <2>1 DEF AuditEvent
  <2>3. MadeBefore(k, position)
    BY <1>1, <2>2 DEF SeenInv, DecisionsMatchFills
  <2> QED
    BY <2>2, <2>3
<1>2. ASSUME NEW k \in DOMAIN audit_chain, audit_chain[k].stage = "DECISION", NEW j \in Approvals,
             NEW d \in _find_fill_data(audit_chain[j].trigger), j < k, d <= audit_chain[k].trigger
      PROVE  \E f \in FillsOf(audit_chain[j].trigger) : f < k
  <2>1. PICK t \in Nat : t = audit_chain[j].trigger
    BY AuditTriggers DEF TypeInv, Approvals
  <2>2. j \in DOMAIN audit_chain /\ IsApproval(j, t) /\ d \in _find_fill_data(t)
    BY <1>2, <2>1 DEF Approvals, IsApproval
  <2>3. PICK f \in DOMAIN audit_chain : IsFill(f, t) /\ f < k
    BY <1>2, <2>2 DEF SeenInv, DecisionsSeeDue
  <2>4. f \in FillsOf(t)
    BY <2>3 DEF IsFill, FillsOf
  <2> QED
    BY <2>1, <2>3, <2>4
<1>3. ASSUME status \in {"finished", "stopped"} PROVE MadeBefore(Len(audit_chain) + 1, ledger)
  <2>1. Due = {} /\ status # "raised"
    BY <1>3 DEF Due, SettleInv, SeenInv
  <2>2. ledger = ledger_ref
    BY <2>1 DEF SeenInv, BindingsAgree, Due
  <2>3. PICK k \in Nat : k = Len(audit_chain) + 1
    BY DEF TypeInv, TypeOK
  <2>4. MadeBefore(k, ledger_ref)
    BY <2>1, <2>3 DEF SeenInv, BooksMatchFills
  <2> QED
    BY <2>2, <2>3, <2>4
<1> QED
  BY <1>1, <1>2, <1>3 DEF DecisionsSeeDueFills

\* The strategy is shown the position the fills on the chain have made, and at least
\* every fill whose event the loop has come to is among them: the loop reads the
\* position back after it released what was due (T109), whatever the events, the
\* latency and the failure schedule are.  FillsLookNoFurther bounds what else is.
THEOREM DecisionsSeeWhatIsDue == Spec => []DecisionsSeeDueFills
<1>1. Init => TypeInv /\ SettleInv /\ SeenInv
  BY TypeInit, SettleInit, SeenInit
<1>2. TypeInv /\ SettleInv /\ SeenInv /\ [Next]_vars => (TypeInv /\ SettleInv /\ SeenInv)'
  BY TypeStep, SettleStep, SeenStep
<1> QED
  BY <1>1, <1>2, SeenImplies, PTL DEF Spec

-----------------------------------------------------------------------------
(***************************************************************************)
(* How far ahead a fill may look.  FillsWaitForTheirData does not hold: a  *)
(* fill may be priced from an event the loop has not come to.  What holds  *)
(* instead is that its trigger has been admitted, that the event is the    *)
(* first one of the fill time or after it that is available by then, and   *)
(* that one not yet admitted is of exactly the fill time.                  *)
(***************************************************************************)
IsTimely(a) ==
    /\ a.trigger <= a.emitted_at
    /\ a.cursor \in _find_fill_data(a.trigger)
    /\ a.cursor > a.emitted_at =>
          a.emitted_at = a.trigger /\ events[a.cursor].timestamp = fill_time(a.trigger)
Emitted == {audit_chain[k] : k \in DOMAIN audit_chain}
FillsAreTimely == \A a \in Emitted : a.stage = "FILL" => IsTimely(a)

\* The events and the latency of a run stay, so does what a fill was made of.
LEMMA TimelinessIsKept ==
  ASSUME inputs' = inputs, NEW a, IsTimely(a)
  PROVE  IsTimely(a)'
<1>1. _find_fill_data(a.trigger)' = _find_fill_data(a.trigger)
  BY FillDataKept
<1>2. events' = events /\ latency_units' = latency_units
  BY DEF inputs
<1> QED
  BY <1>1, <1>2 DEF IsTimely, fill_time

\* A step that adds nothing but timely fills keeps every fill timely.
LEMMA ExtensionIsTimely ==
  ASSUME FillsAreTimely, Extends, inputs' = inputs,
         \A k \in DOMAIN audit_chain' :
            k \notin DOMAIN audit_chain /\ audit_chain'[k].stage = "FILL"
              => IsTimely(audit_chain'[k])
  PROVE  FillsAreTimely'
<1> SUFFICES ASSUME NEW a \in Emitted', a.stage = "FILL" PROVE IsTimely(a)'
  BY DEF FillsAreTimely
<1>1. PICK k \in DOMAIN audit_chain' : a = audit_chain'[k]
  BY DEF Emitted
<1>2. IsTimely(a)
  <2>1. CASE k \in DOMAIN audit_chain
    <3>1. a \in Emitted
      BY <1>1, <2>1 DEF Extends, Emitted
    <3> QED
      BY <3>1 DEF FillsAreTimely
  <2>2. CASE k \notin DOMAIN audit_chain
    BY <1>1, <2>2
  <2> QED
    BY <2>1, <2>2
<1> QED
  BY <1>2, TimelinessIsKept

\* A fill that waited is made when the loop is at its event.
LEMMA ReleaseIsTimely ==
  TypeInv /\ SeenInv /\ FillsAreTimely /\ _release_pending_fill => FillsAreTimely'
<1> SUFFICES ASSUME TypeInv, SeenInv, FillsAreTimely, _release_pending_fill PROVE FillsAreTimely'
  OBVIOUS
<1>n. PICK n \in Nat : n = Len(audit_chain) /\ DOMAIN audit_chain = 1..n
  BY DEF TypeInv, TypeOK
<1>1. PICK p \in Due :
        /\ ledger_ref' = FillOn(ledger_ref, p.trigger, p.data)
        /\ audit_chain' = audit_chain \o Filled(p.trigger, p.data, ledger_ref')
  BY DEF _release_pending_fill
<1>2. /\ p \in pending_fills /\ p.data = at /\ p.trigger \in Nat /\ p.data \in DOMAIN events
      /\ p.trigger <= at /\ at \in Nat /\ p.data \in _find_fill_data(p.trigger)
      /\ inputs' = inputs /\ TypeOK
  BY AtIsNat DEF Due, AtEvent, _release_pending_fill, TypeInv, TypeOK, SeenInv, WaitForTheirData
<1>3. ledger_ref' \in Ledger
  BY <1>1, <1>2, FillIsTyped DEF TypeOK
<1> DEFINE f == Filled(p.trigger, p.data, ledger_ref')
<1>4. f[1] \in AuditEvent /\ f[2] \in AuditEvent /\ f = <<f[1], f[2]>>
  BY <1>2, <1>3, FillIsTyped
<1>5. /\ f[1].stage = "LATENCY" /\ f[2].trigger = p.trigger /\ f[2].cursor = p.data
      /\ f[2].emitted_at = at
  BY DEF Filled, Audit
<1>6. IsTimely(f[2])
  BY <1>2, <1>5 DEF IsTimely
<1> HIDE DEF f
<1>7. audit_chain' = audit_chain \o <<f[1], f[2]>>
  BY <1>1, <1>4 DEF f
<1>8. /\ Extends /\ DOMAIN audit_chain' = 1..(n + 2)
      /\ audit_chain'[n + 1] = f[1] /\ audit_chain'[n + 2] = f[2]
  BY <1>n, <1>2, <1>4, <1>7, TwoMore
<1>9. \A k \in DOMAIN audit_chain' : k \notin DOMAIN audit_chain => k = n + 1 \/ k = n + 2
  BY <1>n, <1>8
<1> QED
  BY <1>2, <1>5, <1>6, <1>8, <1>9, ExtensionIsTimely

\* A fill that is not delayed is priced at its fill time.
LEMMA FillAtOnceIsTimely == TypeInv /\ FillsAreTimely /\ FillAtOnce => FillsAreTimely'
<1> SUFFICES ASSUME TypeInv, FillsAreTimely, FillAtOnce PROVE FillsAreTimely'
  OBVIOUS
<1>n. PICK n \in Nat : n = Len(audit_chain) /\ DOMAIN audit_chain = 1..n
  BY DEF TypeInv, TypeOK
<1>1. PICK d \in _find_fill_data(at) :
        /\ ~ Delayed(at, d)
        /\ ledger_ref' = FillOn(ledger, at, d)
        /\ audit_chain' = audit_chain \o Approved \o Filled(at, d, ledger_ref')
  BY DEF FillAtOnce
<1>2. /\ at \in Nat /\ at \in DOMAIN events /\ d \in DOMAIN events /\ inputs' = inputs /\ TypeOK
      /\ events[d].timestamp >= fill_time(at)
  BY AtIsNat DEF FillAtOnce, Triggers, Reached, AtEvent, TypeInv, _find_fill_data, FillCandidates
<1>3. events[d].timestamp = fill_time(at)
  <2>1. events[d].timestamp \in Nat /\ fill_time(at) \in Nat
    BY <1>2, EventTimes DEF TypeOK, fill_time
  <2>2. ~ (events[d].timestamp > fill_time(at))
    BY <1>1 DEF Delayed
  <2> QED
    BY <1>2, <2>1, <2>2
<1>4. ledger_ref' \in Ledger
  BY <1>1, <1>2, FillIsTyped DEF TypeOK
<1> DEFINE f == Filled(at, d, ledger_ref')
<1>5. f[1] \in AuditEvent /\ f[2] \in AuditEvent /\ f = <<f[1], f[2]>>
  BY <1>2, <1>4, FillIsTyped
<1>6. /\ f[1].stage = "LATENCY" /\ f[2].trigger = at /\ f[2].cursor = d /\ f[2].emitted_at = at
  BY DEF Filled, Audit
<1>7. IsTimely(f[2])
  BY <1>1, <1>2, <1>3, <1>6 DEF IsTimely
<1>8. /\ Decision("PROPOSE") \in AuditEvent /\ Risk("APPROVED") \in AuditEvent
      /\ Decision("PROPOSE").stage = "DECISION" /\ Risk("APPROVED").stage = "RISK"
  BY <1>2, ApprovedIsTyped DEF Outcomes, Decision, Risk, Audit
<1> HIDE DEF f
<1>9. audit_chain' = audit_chain \o <<Decision("PROPOSE"), Risk("APPROVED")>> \o <<f[1], f[2]>>
  BY <1>1, <1>5 DEF Approved, f
<1>10. /\ Extends /\ DOMAIN audit_chain' = 1..(n + 4)
       /\ audit_chain'[n + 1] = Decision("PROPOSE") /\ audit_chain'[n + 2] = Risk("APPROVED")
       /\ audit_chain'[n + 3] = f[1] /\ audit_chain'[n + 4] = f[2]
  <2> DEFINE a == Decision("PROPOSE")
             b == Risk("APPROVED")
             c == f[1]
             e == f[2]
  <2>1. /\ a \in AuditEvent /\ b \in AuditEvent /\ c \in AuditEvent /\ e \in AuditEvent
        /\ audit_chain' = audit_chain \o <<a, b>> \o <<c, e>>
    BY <1>5, <1>8, <1>9
  <2> HIDE DEF a, b, c, e
  <2>2. /\ Extends /\ DOMAIN audit_chain' = 1..(Len(audit_chain) + 4)
        /\ audit_chain'[Len(audit_chain) + 1] = a /\ audit_chain'[Len(audit_chain) + 2] = b
        /\ audit_chain'[Len(audit_chain) + 3] = c /\ audit_chain'[Len(audit_chain) + 4] = e
    BY <1>2, <2>1, FourMore
  <2> QED
    BY <1>n, <2>2 DEF a, b, c, e
<1>11. \A k \in DOMAIN audit_chain' : k \notin DOMAIN audit_chain => k \in {n + 1, n + 2, n + 3, n + 4}
  BY <1>n, <1>10
<1> QED
  BY <1>2, <1>6, <1>7, <1>8, <1>10, <1>11, ExtensionIsTimely

\* Whatever a step appends that is not a fill leaves the fills as they are.
LEMMA OneUnfilledIsTimely ==
  ASSUME TypeInv, FillsAreTimely, inputs' = inputs, NEW a \in AuditEvent, a.stage # "FILL",
         audit_chain' = Append(audit_chain, a)
  PROVE  FillsAreTimely'
<1>1. TypeOK /\ Len(audit_chain) \in Nat /\ DOMAIN audit_chain = 1..Len(audit_chain)
  BY DEF TypeInv, TypeOK
<1>2. /\ Extends /\ DOMAIN audit_chain' = 1..(Len(audit_chain) + 1)
      /\ audit_chain'[Len(audit_chain) + 1] = a
  BY <1>1, OneMore
<1>3. \A k \in DOMAIN audit_chain' : k \notin DOMAIN audit_chain => audit_chain'[k] = a
  BY <1>1, <1>2
<1> QED
  BY <1>2, <1>3, ExtensionIsTimely

LEMMA ProposalIsTimely ==
  ASSUME TypeInv, FillsAreTimely, inputs' = inputs, NEW outcome \in {"APPROVED", "REJECTED"},
         audit_chain' = audit_chain \o <<Decision("PROPOSE"), Risk(outcome)>>
  PROVE  FillsAreTimely'
<1>1. TypeOK /\ Len(audit_chain) \in Nat /\ DOMAIN audit_chain = 1..Len(audit_chain)
  BY DEF TypeInv, TypeOK
<1>2. /\ Decision("PROPOSE") \in AuditEvent /\ Risk(outcome) \in AuditEvent
      /\ Decision("PROPOSE").stage # "FILL" /\ Risk(outcome).stage # "FILL"
  BY <1>1, ApprovedIsTyped DEF Outcomes, Decision, Risk, Audit
<1>3. /\ Extends /\ DOMAIN audit_chain' = 1..(Len(audit_chain) + 2)
      /\ audit_chain'[Len(audit_chain) + 1] = Decision("PROPOSE")
      /\ audit_chain'[Len(audit_chain) + 2] = Risk(outcome)
  BY <1>1, <1>2, TwoMore
<1>4. \A k \in DOMAIN audit_chain' : k \notin DOMAIN audit_chain => audit_chain'[k].stage # "FILL"
  BY <1>1, <1>2, <1>3
<1> QED
  BY <1>3, <1>4, ExtensionIsTimely

LEMMA TimelyStep == TypeInv /\ SeenInv /\ FillsAreTimely /\ [Next]_vars => FillsAreTimely'
<1> SUFFICES ASSUME TypeInv, SeenInv, FillsAreTimely, [Next]_vars PROVE FillsAreTimely'
  OBVIOUS
<1>0. /\ \A outcome \in Outcomes, c \in Nat :
            System(outcome, c) \in AuditEvent /\ System(outcome, c).stage # "FILL"
      /\ \A outcome \in Outcomes : Decision(outcome) \in AuditEvent /\ Decision(outcome).stage # "FILL"
      /\ {"SHUTDOWN", "SEEN", "WAIT"} \subseteq Outcomes /\ at \in Nat
  BY ApprovedIsTyped, AtIsNat DEF TypeInv, System, Decision, Audit, Outcomes
<1>1. CASE UNCHANGED vars
  BY <1>1 DEF vars, FillsAreTimely, Emitted, IsTimely, _find_fill_data, FillCandidates, fill_time
<1>2. CASE Shutdown
  BY <1>0, <1>2, OneUnfilledIsTimely DEF Shutdown
<1>3. CASE Seen
  BY <1>0, <1>3, OneUnfilledIsTimely DEF Seen
<1>4. CASE Wait
  BY <1>0, <1>4, OneUnfilledIsTimely DEF Wait
<1>5. CASE RiskRejects
  BY <1>5, ProposalIsTimely DEF RiskRejects
<1>6. CASE FutureDataViolation
  BY <1>6, ProposalIsTimely DEF FutureDataViolation, Approved
<1>7. CASE QueueFill
  BY <1>7, ProposalIsTimely DEF QueueFill, Approved
<1>8. CASE Finish
  <2>1. CASE audit_chain' = audit_chain
    BY <1>8, <2>1 DEF Finish, inputs, FillsAreTimely, Emitted, IsTimely, _find_fill_data,
                          FillCandidates, fill_time
  <2>2. CASE audit_chain' = Append(audit_chain, System("SHUTDOWN", 0))
    BY <1>0, <1>8, <2>2, OneUnfilledIsTimely DEF Finish
  <2> QED
    BY <1>8, <2>1, <2>2 DEF Finish
<1> QED
  BY <1>1, <1>2, <1>3, <1>4, <1>5, <1>6, <1>7, <1>8, ReleaseIsTimely, FillAtOnceIsTimely DEF Next

\* A fill is made no earlier than its trigger, from the event the fill rule
\* chooses; it is priced from an event ahead of the loop only at the trigger
\* itself and only by one of exactly the modelled fill time: that is the one way
\* in which FillsWaitForTheirData fails.
THEOREM FillsLookNoFurther == Spec => []FillsAreTimely
<1>1. Init => TypeInv /\ SettleInv /\ SeenInv /\ FillsAreTimely
  <2>1. Init => FillsAreTimely
    BY DEF Init, FillsAreTimely, Emitted
  <2> QED
    BY <2>1, TypeInit, SettleInit, SeenInit
<1>2. TypeInv /\ SettleInv /\ SeenInv /\ FillsAreTimely /\ [Next]_vars
        => (TypeInv /\ SettleInv /\ SeenInv /\ FillsAreTimely)'
  BY TypeStep, SettleStep, SeenStep, TimelyStep
<1> QED
  BY <1>1, <1>2, PTL DEF Spec
=============================================================================
