---------------------------- MODULE WorkflowProofs ----------------------------
(***************************************************************************)
(* Proofs about Workflow, for any tasks, dependencies, repairs and bounds. *)
(* Any command may die halfway.  That a delivery is final and a number is  *)
(* never reused is false when abandon_task does; these two theorems name   *)
(* the exception, NoDeathInAbandon, the others need none.                  *)
(***************************************************************************)
EXTENDS Workflow, TLAPS

-----------------------------------------------------------------------------
(* Types.                                                                  *)

AttemptRecords == [attempt : 1..MaxAttempts, candidate : BOOLEAN, continued : BOOLEAN]
Impacts == [number : 0..MaxAmendments, task : Tasks]
AmendmentStatuses ==
    {"NONE", "PLANNING", "AWAITING_REVIEW", "CHANGES_REQUESTED", "BLOCKED"} \cup TERMINAL_AMENDMENT_STATES
AmendmentRecords ==
    [number : 0..MaxAmendments, status : AmendmentStatuses, target : Tasks \cup {NoTask},
     at : {"base", "candidate", "report", "main"}, reviewing : BOOLEAN,
     raised : SUBSET Impacts, resolves : SUBSET Impacts]
RepairRecords ==
    [status : STATES \cup {"NONE", "ESCALATED"}, at : {"base", "candidate", "report", "main"},
     reviewing : BOOLEAN]
Outcomes ==
    {"none", "made"} \cup DOMAIN _DEVELOPER_OUTCOMES \cup DOMAIN _REVIEW_VERDICTS
        \cup DOMAIN _TRIAGE_CLASSIFICATIONS \cup DOMAIN _PLANNER_OUTCOMES
        \cup DOMAIN _PLAN_REVIEW_VERDICTS
Heads == {"base", "candidate", "plan", "report"}
Handoffs == {"review", "triage", "plan", "plan_review"}
Worktrees ==
    [art : [Kinds -> Outcomes], at : Heads, config : Configs, open : SUBSET Handoffs]
WorktreeShape(w) == w \in Worktrees

TypeInv ==
    /\ main \in Configs
    /\ abandoned \subseteq Tasks /\ plan \subseteq Tasks /\ current \subseteq Works
    /\ impacts \subseteq Impacts
    /\ tree = [t \in Tasks |-> tree[t]]
    /\ attempt = [t \in Tasks |-> attempt[t]]
    /\ \A t \in Tasks : tree[t] = None \/ WorktreeShape(tree[t])
    /\ \A t \in Tasks : attempt[t] = None \/ attempt[t] \in AttemptRecords
    /\ opened \in [Tasks -> 0..MaxAttempts]
    /\ passed \subseteq Tasks \X (1..MaxAttempts)
    /\ faults \in 0..MaxFaults
    /\ amendment \in AmendmentRecords
    /\ repair \in [Repairs -> RepairRecords]

LEMMA StatesAre ==
  STATES = {"PLANNED", "READY", "IN_DEVELOPMENT", "AWAITING_REVIEW", "CHANGES_REQUESTED",
            "TRIAGE_REQUIRED", "PLANNING", "AWAITING_PLAN_REVIEW", "PLAN_REVIEW_BLOCKED",
            "OWNER_DECISION_REQUIRED", "BLOCKED", "APPROVED", "ABANDONED"}
BY DEF STATES, OpenTransitions, Closed

\* The status a result records is one of the states, and APPROVED only for a
\* review that passed.
LEMMA OutcomesAreStates ==
  /\ \A o \in DOMAIN _DEVELOPER_OUTCOMES : _DEVELOPER_OUTCOMES[o] \in STATES \ {"APPROVED"}
  /\ \A v \in DOMAIN _REVIEW_VERDICTS :
        _REVIEW_VERDICTS[v] \in STATES /\ (_REVIEW_VERDICTS[v] = "APPROVED" => v = "PASS")
  /\ \A c \in DOMAIN _TRIAGE_CLASSIFICATIONS : _TRIAGE_CLASSIFICATIONS[c] \in STATES \ {"APPROVED"}
  /\ \A o \in DOMAIN _PLANNER_OUTCOMES : _PLANNER_OUTCOMES[o] \in STATES \ {"APPROVED"}
  /\ \A v \in DOMAIN _PLAN_REVIEW_VERDICTS : _PLAN_REVIEW_VERDICTS[v] \in STATES \ {"APPROVED"}
<1>1. \A o \in DOMAIN _DEVELOPER_OUTCOMES : _DEVELOPER_OUTCOMES[o] \in STATES \ {"APPROVED"}
  BY StatesAre DEF _DEVELOPER_OUTCOMES
<1>2. \A v \in DOMAIN _REVIEW_VERDICTS :
        _REVIEW_VERDICTS[v] \in STATES /\ (_REVIEW_VERDICTS[v] = "APPROVED" => v = "PASS")
  BY StatesAre DEF _REVIEW_VERDICTS
<1>3. \A c \in DOMAIN _TRIAGE_CLASSIFICATIONS : _TRIAGE_CLASSIFICATIONS[c] \in STATES \ {"APPROVED"}
  BY StatesAre DEF _TRIAGE_CLASSIFICATIONS
<1>4. \A o \in DOMAIN _PLANNER_OUTCOMES : _PLANNER_OUTCOMES[o] \in STATES \ {"APPROVED"}
  BY StatesAre DEF _PLANNER_OUTCOMES
<1>5. \A v \in DOMAIN _PLAN_REVIEW_VERDICTS : _PLAN_REVIEW_VERDICTS[v] \in STATES \ {"APPROVED"}
  BY StatesAre DEF _PLAN_REVIEW_VERDICTS
<1> QED
  BY <1>1, <1>2, <1>3, <1>4, <1>5

\* What moving one task's status does to a configuration.
LEMMA SetStateIs ==
  ASSUME NEW config \in Configs, NEW t \in Tasks, NEW s \in STATES,
         NEW n \in 0..MaxAttempts, NEW a \in 0..MaxAttempts
  PROVE  LET next == _set_state(config, t, s, n, a) IN
         /\ next \in Configs /\ next.active = t
         /\ \A u \in Tasks \ {t} : next.task[u] = config.task[u]
         /\ next.task[t].attempt = n /\ next.task[t].approved = a
         /\ next.task[t].lifecycle = "DELIVERED" <=> s = "APPROVED"
         /\ next.task[t].lifecycle = "OPEN" <=> s \notin Closed
         /\ next.task[t].claimed <=> s \notin Closed \cup {"PLANNED"}
<1> DEFINE next == _set_state(config, t, s, n, a)
           new == [lifecycle |-> LIFECYCLE_OF[s].lifecycle, claimed |-> LIFECYCLE_OF[s].claimed,
                   attempt |-> n, approved |-> a]
<1>1. /\ LIFECYCLE_OF[s].lifecycle = (IF s = "APPROVED" THEN "DELIVERED"
                                      ELSE IF s = "ABANDONED" THEN "ABANDONED" ELSE "OPEN")
      /\ LIFECYCLE_OF[s].claimed = (s \notin Closed \cup {"PLANNED"})
  BY DEF LIFECYCLE_OF
<1>2. /\ LIFECYCLE_OF[s].lifecycle \in {"OPEN", "DELIVERED", "ABANDONED"}
      /\ LIFECYCLE_OF[s].claimed \in BOOLEAN
  BY <1>1
<1>3. new \in [lifecycle : {"OPEN", "DELIVERED", "ABANDONED"}, claimed : BOOLEAN,
               attempt : 0..MaxAttempts, approved : 0..MaxAttempts]
  BY <1>2
<1> HIDE DEF new
<1>4. next = [config EXCEPT !.task[t] = new, !.active = t, !.state = s]
  BY DEF _set_state, new
<1>5. next \in Configs /\ next.active = t /\ next.task[t] = new
      /\ \A u \in Tasks \ {t} : next.task[u] = config.task[u]
  <2>1. config.task \in [Tasks -> [lifecycle : {"OPEN", "DELIVERED", "ABANDONED"}, claimed : BOOLEAN,
                                   attempt : 0..MaxAttempts, approved : 0..MaxAttempts]]
        /\ config = [task |-> config.task, active |-> config.active, state |-> config.state]
    BY DEF Configs
  <2>2. next = [task |-> [config.task EXCEPT ![t] = new], active |-> t, state |-> s]
    BY <1>4, <2>1
  <2>3. [config.task EXCEPT ![t] = new] \in
            [Tasks -> [lifecycle : {"OPEN", "DELIVERED", "ABANDONED"}, claimed : BOOLEAN,
                       attempt : 0..MaxAttempts, approved : 0..MaxAttempts]]
    BY <1>3, <2>1
  <2>4. next \in Configs
    BY <2>2, <2>3 DEF Configs
  <2> HIDE DEF next
  <2> QED
    BY <2>1, <2>2, <2>4
<1>6. /\ new.attempt = n /\ new.approved = a
      /\ new.lifecycle = LIFECYCLE_OF[s].lifecycle /\ new.claimed = LIFECYCLE_OF[s].claimed
  BY DEF new
<1> QED
  BY <1>1, <1>5, <1>6, Zenon DEF Closed

LEMMA TypesOK == TypeInv => TypeOK
<1> SUFFICES ASSUME TypeInv PROVE TypeOK
  OBVIOUS
<1>1. \A i \in impacts : i.number \in 0..MaxAmendments /\ i.task \in Tasks
  BY DEF TypeInv, Impacts
<1>2. \A t \in Tasks : /\ tree[t] = None \/ (tree[t].config \in Configs /\ DOMAIN tree[t].art = Kinds)
                       /\ attempt[t] = None \/ attempt[t].attempt \in 1..MaxAttempts
  BY DEF TypeInv, WorktreeShape, Worktrees, AttemptRecords
<1> QED
  BY <1>1, <1>2 DEF TypeInv, TypeOK

LEMMA TypeInit == Init => TypeInv
<1> SUFFICES ASSUME Init PROVE TypeInv
  OBVIOUS
<1>1. main \in Configs
  BY WorkflowAssumption, StatesAre DEF Init, Configs, Planned, WorkflowAssumption
<1>2. impacts \subseteq Impacts
  BY WorkflowAssumption DEF Init, Impacts, Impacted, WorkflowAssumption
<1>3. amendment \in AmendmentRecords
  BY WorkflowAssumption DEF Init, AmendmentRecords, AmendmentRecord, AmendmentStatuses, WorkflowAssumption
<1>4. repair \in [Repairs -> RepairRecords]
  BY DEF Init, RepairRecords, MaintenanceRecord
<1> QED
  BY <1>1, <1>2, <1>3, <1>4, WorkflowAssumption DEF Init, TypeInv, WorkflowAssumption

-----------------------------------------------------------------------------
(* The steps of a task, by what they do to the facts.                      *)

\* A command on the branch of one task: it may move the status of that task in
\* its own configuration, and approves only what a reviewer has passed.
SessionStep(t) ==
    /\ Retained(t)
    /\ UNCHANGED <<main, abandoned, impacts, opened, laneVars, current>>
    /\ plan' \subseteq plan \cup {t}
    /\ passed \subseteq passed' /\ passed' \subseteq passed \cup {<<t, attempt[t].attempt>>}
    /\ faults' \in 0..MaxFaults
    /\ \E a \in AttemptRecords :
          attempt' = [attempt EXCEPT ![t] = a] /\ a.attempt = attempt[t].attempt
    /\ \E w : /\ tree' = [tree EXCEPT ![t] = w] /\ WorktreeShape(w)
              /\ \/ w.config = tree[t].config
                 \/ \E s \in STATES, n \in 0..MaxAttempts :
                       /\ w.config = _set_state(tree[t].config, t, s, attempt[t].attempt, n)
                       /\ s = "APPROVED" => <<t, n>> \in passed'

LEMMA FaultsCounted ==
  ASSUME TypeInv, NEW command, NEW died \in Interrupted(command), CountFault(died)
  PROVE  faults' \in 0..MaxFaults
<1>1. faults \in 0..MaxFaults /\ MaxFaults \in Nat
  BY WorkflowAssumption DEF TypeInv, WorkflowAssumption
<1>2. died => faults < MaxFaults
  BY DEF Interrupted
<1> QED
  BY <1>1, <1>2 DEF CountFault

LEMMA RetainedShape ==
  ASSUME TypeInv, NEW t \in Tasks, Retained(t)
  PROVE  /\ WorktreeShape(tree[t]) /\ tree[t].config \in Configs /\ tree[t].open \in SUBSET Handoffs /\ attempt[t] \in AttemptRecords
         /\ attempt[t].attempt \in 1..MaxAttempts /\ attempt[t].attempt \in 0..MaxAttempts
<1>1. WorktreeShape(tree[t]) /\ attempt[t] \in AttemptRecords
  BY DEF TypeInv, Retained
<1>2. attempt[t].attempt \in 1..MaxAttempts /\ MaxAttempts \in Nat
  BY <1>1, WorkflowAssumption DEF AttemptRecords, WorkflowAssumption
<1> QED
  BY <1>1, <1>2 DEF WorktreeShape, Worktrees

LEMMA RecordedIs ==
  ASSUME TypeInv, NEW t \in Tasks, Retained(t), NEW kind \in Kinds, NEW outcome \in Outcomes,
         NEW s \in STATES, NEW head \in Heads
  PROVE  LET w == Recorded(t, kind, outcome, s, head)
             n == IF s = "APPROVED" THEN attempt[t].attempt ELSE 0
         IN  /\ WorktreeShape(w) /\ w.open \in SUBSET Handoffs /\ n \in 0..MaxAttempts
             /\ w.config = _set_state(tree[t].config, t, s, attempt[t].attempt, n)
<1> DEFINE w == Recorded(t, kind, outcome, s, head)
           n == IF s = "APPROVED" THEN attempt[t].attempt ELSE 0
           c == _set_state(tree[t].config, t, s, attempt[t].attempt, n)
           files == [tree[t].art EXCEPT ![kind] = outcome]
<1>1. WorktreeShape(tree[t]) /\ attempt[t].attempt \in 0..MaxAttempts /\ tree[t].config \in Configs
  BY RetainedShape
<1>2. n \in 0..MaxAttempts
  BY <1>1, WorkflowAssumption DEF WorkflowAssumption
<1>3. c \in Configs
  BY <1>1, <1>2, SetStateIs
<1>4. files \in [Kinds -> Outcomes]
  BY <1>1 DEF WorktreeShape, Worktrees
<1> HIDE DEF n, c
<1>5. w = [tree[t] EXCEPT !.art = files, !.at = head, !.config = c]
  BY DEF Recorded, c, n
<1> HIDE DEF files
<1>6. WorktreeShape([tree[t] EXCEPT !.art = files, !.at = head, !.config = c])
      /\ [tree[t] EXCEPT !.art = files, !.at = head, !.config = c].config = c
  BY <1>1, <1>3, <1>4 DEF WorktreeShape, Worktrees
<1> HIDE DEF w
<1>7. w.open \in SUBSET Handoffs
  BY <1>5, <1>6 DEF WorktreeShape, Worktrees
<1> QED
  BY <1>2, <1>5, <1>6, <1>7 DEF w, n, c

LEMMA OutcomesAre ==
  /\ \A o \in DOMAIN _DEVELOPER_OUTCOMES : o \in Outcomes
  /\ \A v \in DOMAIN _REVIEW_VERDICTS : v \in Outcomes
  /\ \A c \in DOMAIN _TRIAGE_CLASSIFICATIONS : c \in Outcomes
  /\ \A o \in DOMAIN _PLANNER_OUTCOMES : o \in Outcomes
  /\ \A v \in DOMAIN _PLAN_REVIEW_VERDICTS : v \in Outcomes
  /\ "made" \in Outcomes
  /\ {"base", "candidate", "plan", "report"} \subseteq Heads
  /\ Kinds = {"developer", "review", "triage", "owner_decision", "planner", "plan_review"}
BY DEF Outcomes, Heads, Kinds

LEMMA OpenIs ==
  ASSUME NEW w, NEW x \in SUBSET Handoffs, WorktreeShape(w)
  PROVE  WorktreeShape([w EXCEPT !.open = x]) /\ [w EXCEPT !.open = x].config = w.config
BY DEF WorktreeShape, Worktrees

LEMMA RenewIs ==
  ASSUME NEW w, NEW c \in Configs, WorktreeShape(w)
  PROVE  LET renewed == [w EXCEPT !.config = c, !.art = NoArtifacts] IN
         WorktreeShape(renewed) /\ renewed.config = c
<1>1. NoArtifacts \in [Kinds -> Outcomes]
  BY DEF NoArtifacts, Outcomes
<1> QED
  BY <1>1 DEF WorktreeShape, Worktrees

LEMMA LeaveIs ==
  ASSUME NEW w, NEW outcome \in Outcomes, WorktreeShape(w)
  PROVE  LET left == [w EXCEPT !.art = [w.art EXCEPT !["planner"] = outcome]] IN
         WorktreeShape(left) /\ left.config = w.config
<1> DEFINE files == [w.art EXCEPT !["planner"] = outcome]
<1>1. files \in [Kinds -> Outcomes]
  BY DEF WorktreeShape, Worktrees, Kinds
<1> HIDE DEF files
<1> QED
  BY <1>1 DEF WorktreeShape, Worktrees

\* The commands that only open or resume a session, or leave an artifact that is
\* not committed.
LEMMA HandoffsAreSessions ==
  ASSUME TypeInv, NEW t \in Tasks,
         \/ continue_develop(t) \/ continue_task_review(t)
         \/ prepare_review(t) \/ prepare_triage(t) \/ prepare_plan_review(t)
         \/ finish_plan_unrecognised(t)
  PROVE  SessionStep(t)
<1>0. /\ tree = [u \in Tasks |-> tree[u]] /\ attempt = [u \in Tasks |-> attempt[u]]
      /\ faults \in 0..MaxFaults
  BY DEF TypeInv
<1>1. Retained(t) /\ UNCHANGED <<main, abandoned, impacts, opened, laneVars, current, plan, passed, faults>>
  BY DEF continue_develop, continue_task_review, prepare_review, prepare_triage, prepare_plan_review,
         finish_plan_unrecognised
<1>2. WorktreeShape(tree[t]) /\ attempt[t] \in AttemptRecords
  BY <1>1, RetainedShape
<1>3. \E a \in AttemptRecords :
          attempt' = [attempt EXCEPT ![t] = a] /\ a.attempt = attempt[t].attempt
  <2>1. CASE attempt' = attempt
    BY <2>1, <1>0, <1>2
  <2>2. CASE attempt' = [attempt EXCEPT ![t].continued = TRUE]
    <3>1. /\ attempt' = [attempt EXCEPT ![t] = [attempt[t] EXCEPT !.continued = TRUE]]
      BY <2>2
    <3>2. /\ [attempt[t] EXCEPT !.continued = TRUE] \in AttemptRecords
          /\ [attempt[t] EXCEPT !.continued = TRUE].attempt = attempt[t].attempt
      BY <1>2 DEF AttemptRecords
    <3> QED
      BY <3>1, <3>2
  <2> QED
    BY <2>1, <2>2
    DEF continue_develop, continue_task_review, prepare_review, prepare_triage, prepare_plan_review,
        finish_plan_unrecognised
<1>4. \E w : tree' = [tree EXCEPT ![t] = w] /\ WorktreeShape(w) /\ w.config = tree[t].config
  <2>1. CASE tree' = tree
    BY <2>1, <1>0, <1>2
  <2>2. ASSUME NEW handoff \in Handoffs, Open(t, handoff)
        PROVE  \E w : tree' = [tree EXCEPT ![t] = w] /\ WorktreeShape(w) /\ w.config = tree[t].config
    <3>1. tree' = [tree EXCEPT ![t] = [tree[t] EXCEPT !.open = tree[t].open \cup {handoff}]]
      BY <2>2 DEF Open
    <3>2. tree[t].open \cup {handoff} \in SUBSET Handoffs
      BY <1>1, RetainedShape
    <3> QED
      BY <3>1, <3>2, <1>2, OpenIs
  <2>3. ASSUME finish_plan_unrecognised(t)
        PROVE  \E w : tree' = [tree EXCEPT ![t] = w] /\ WorktreeShape(w) /\ w.config = tree[t].config
    <3>1. "CONTINUATION_REQUIRED" \in Outcomes
      BY DEF Outcomes, _PLANNER_OUTCOMES
    <3>2. tree' = [tree EXCEPT ![t] = [tree[t] EXCEPT
                      !.art = [tree[t].art EXCEPT !["planner"] = "CONTINUATION_REQUIRED"]]]
      BY <2>3 DEF finish_plan_unrecognised
    <3> QED
      BY <3>1, <3>2, <1>2, LeaveIs
  <2> QED
    BY <2>1, <2>2, <2>3
    DEF continue_develop, continue_task_review, prepare_review, prepare_triage, prepare_plan_review, Handoffs
<1> QED
  BY <1>0, <1>1, <1>3, <1>4 DEF SessionStep

\* The commands that record an outcome on the branch.
Records(t, kind, outcome, s, head, handoffs) ==
    LET w == Recorded(t, kind, outcome, s, head) IN
    \/ tree' = [tree EXCEPT ![t] = w]
    \/ tree' = [tree EXCEPT ![t] = [w EXCEPT !.open = handoffs]]
BesideTheRecord(t, s) ==
    /\ Retained(t)
    /\ s = "APPROVED" => <<t, attempt[t].attempt>> \in passed'
    /\ \/ attempt' = attempt
       \/ \E c \in BOOLEAN : attempt' = [attempt EXCEPT ![t].candidate = c]
    /\ UNCHANGED <<main, abandoned, impacts, opened, laneVars, current>>
    /\ plan' \subseteq plan \cup {t}
    /\ passed \subseteq passed' /\ passed' \subseteq passed \cup {<<t, attempt[t].attempt>>}
    /\ faults' \in 0..MaxFaults

LEMMA ResultsAreSessions ==
  ASSUME TypeInv, NEW t \in Tasks,
         NEW kind \in Kinds, NEW outcome \in Outcomes, NEW s \in STATES,
         NEW head \in Heads, NEW handoffs \in SUBSET Handoffs,
         Records(t, kind, outcome, s, head, handoffs), BesideTheRecord(t, s)
  PROVE  SessionStep(t)
<1> DEFINE r == Recorded(t, kind, outcome, s, head)
           n == IF s = "APPROVED" THEN attempt[t].attempt ELSE 0
<1>0. Retained(t)
  BY DEF BesideTheRecord
<1>1. /\ WorktreeShape(r) /\ n \in 0..MaxAttempts
      /\ r.config = _set_state(tree[t].config, t, s, attempt[t].attempt, n)
  BY <1>0, RecordedIs
<1>2. s = "APPROVED" => <<t, n>> \in passed'
  BY DEF BesideTheRecord
<1>3. \E a \in AttemptRecords :
          attempt' = [attempt EXCEPT ![t] = a] /\ a.attempt = attempt[t].attempt
  <2>1. attempt = [u \in Tasks |-> attempt[u]] /\ attempt[t] \in AttemptRecords
    BY <1>0, RetainedShape DEF TypeInv
  <2>2. ASSUME NEW c \in BOOLEAN, attempt' = [attempt EXCEPT ![t].candidate = c]
        PROVE  \E a \in AttemptRecords :
                  attempt' = [attempt EXCEPT ![t] = a] /\ a.attempt = attempt[t].attempt
    <3>1. attempt' = [attempt EXCEPT ![t] = [attempt[t] EXCEPT !.candidate = c]]
      BY <2>2
    <3>2. /\ [attempt[t] EXCEPT !.candidate = c] \in AttemptRecords
          /\ [attempt[t] EXCEPT !.candidate = c].attempt = attempt[t].attempt
      BY <2>1 DEF AttemptRecords
    <3> QED
      BY <3>1, <3>2
  <2> QED
    BY <2>1, <2>2 DEF BesideTheRecord
<1> HIDE DEF r, n
<1>4. \E w : /\ tree' = [tree EXCEPT ![t] = w] /\ WorktreeShape(w) /\ w.config = r.config
  BY <1>1, OpenIs DEF r, Records
<1> QED
  BY <1>1, <1>2, <1>3, <1>4 DEF SessionStep, BesideTheRecord

LEMMA FinishesAreSessions ==
  ASSUME TypeInv, NEW t \in Tasks,
         \/ \E o \in DOMAIN _DEVELOPER_OUTCOMES : finish_develop(t, o)
         \/ \E c \in DOMAIN _TRIAGE_CLASSIFICATIONS : finish_triage(t, c)
         \/ prepare_plan(t)
         \/ \E o \in DOMAIN _PLANNER_OUTCOMES : finish_plan(t, o)
         \/ \E v \in DOMAIN _PLAN_REVIEW_VERDICTS : finish_plan_review(t, v)
  PROVE  SessionStep(t)
<1>0. faults \in 0..MaxFaults
  BY DEF TypeInv
<1>1. ASSUME NEW o \in DOMAIN _DEVELOPER_OUTCOMES, finish_develop(t, o) PROVE SessionStep(t)
  <2> DEFINE head == IF o = "CANDIDATE_READY" THEN "candidate" ELSE "report"
             s == _DEVELOPER_OUTCOMES[o]
  <2>1. s \in STATES /\ s # "APPROVED" /\ head \in Heads /\ o \in Outcomes /\ "developer" \in Kinds
    BY OutcomesAreStates, OutcomesAre
  <2>2. PICK died \in Interrupted("finish_develop") \cup {FALSE} :
            /\ attempt' = [attempt EXCEPT ![t].candidate = (o = "CANDIDATE_READY") /\ ~died]
            /\ CountFault(died)
    BY <1>1 DEF finish_develop
  <2>3. faults' \in 0..MaxFaults
    BY <2>2, <1>0, FaultsCounted DEF CountFault
  <2>4. \E c \in BOOLEAN : attempt' = [attempt EXCEPT ![t].candidate = c]
    BY <2>2
  <2>5. Records(t, "developer", o, s, head, {})
    BY <1>1 DEF finish_develop, Records
  <2>6. /\ Retained(t)
        /\ UNCHANGED <<main, abandoned, impacts, opened, laneVars, current, plan, passed>>
    BY <1>1 DEF finish_develop
  <2>7. BesideTheRecord(t, s)
    BY <2>1, <2>3, <2>4, <2>6 DEF BesideTheRecord
  <2> HIDE DEF s, head
  <2> QED
    BY <2>1, <2>5, <2>7, {} \in SUBSET Handoffs, ResultsAreSessions
<1>2. ASSUME NEW c \in DOMAIN _TRIAGE_CLASSIFICATIONS, finish_triage(t, c) PROVE SessionStep(t)
  <2> DEFINE s == _TRIAGE_CLASSIFICATIONS[c]
             w == Recorded(t, "triage", c, s, "report")
  <2>1. s \in STATES /\ s # "APPROVED" /\ "report" \in Heads /\ c \in Outcomes /\ "triage" \in Kinds
    BY OutcomesAreStates, OutcomesAre
  <2>2. Records(t, "triage", c, s, "report", w.open \ {"triage"})
    BY <1>2 DEF finish_triage, Shut, Records
  <2>3. /\ Retained(t)
        /\ UNCHANGED <<main, abandoned, impacts, opened, laneVars, current, plan, passed, attempt, faults>>
    BY <1>2 DEF finish_triage
  <2>4. BesideTheRecord(t, s)
    BY <2>1, <2>3, <1>0 DEF BesideTheRecord
  <2> HIDE DEF s
  <2>5. w.open \ {"triage"} \in SUBSET Handoffs
    BY <2>1, <2>3, RecordedIs
  <2> QED
    BY <2>1, <2>2, <2>4, <2>5, ResultsAreSessions
<1>3. CASE prepare_plan(t)
  <2>1. /\ Retained(t)
        /\ UNCHANGED <<main, abandoned, impacts, opened, laneVars, current, plan, passed, attempt, faults>>
    BY <1>3 DEF prepare_plan
  <2>2. CASE "OWNER_DECISION_REQUIRED" \in InTree(t)
    <3> DEFINE w == Recorded(t, "owner_decision", "made", "PLANNING", "report")
    <3>1. Records(t, "owner_decision", "made", "PLANNING", "report", w.open \cup {"plan"})
      BY <1>3, <2>2 DEF prepare_plan, Records
    <3>2. "PLANNING" \in STATES /\ "owner_decision" \in Kinds /\ "made" \in Outcomes /\ "report" \in Heads
      BY StatesAre, OutcomesAre
    <3>3. w.open \cup {"plan"} \in SUBSET Handoffs
      BY <2>1, <3>2, RecordedIs DEF Handoffs
    <3>4. BesideTheRecord(t, "PLANNING")
      BY <2>1, <1>0 DEF BesideTheRecord
    <3> QED
      BY <3>1, <3>2, <3>3, <3>4, ResultsAreSessions
  <2>3. CASE "OWNER_DECISION_REQUIRED" \notin InTree(t)
    <3>1. tree' = [tree EXCEPT ![t] = [tree[t] EXCEPT !.open = tree[t].open \cup {"plan"}]]
      BY <1>3, <2>3 DEF prepare_plan, Open
    <3>2. WorktreeShape(tree[t]) /\ attempt[t] \in AttemptRecords
      BY <2>1, RetainedShape
    <3>3. attempt' = [attempt EXCEPT ![t] = attempt[t]]
      BY <2>1 DEF TypeInv
    <3>4. tree[t].open \cup {"plan"} \in SUBSET Handoffs
      BY <2>1, RetainedShape DEF Handoffs
    <3>5. \E w : tree' = [tree EXCEPT ![t] = w] /\ WorktreeShape(w) /\ w.config = tree[t].config
      BY <3>1, <3>2, <3>4, OpenIs
    <3> QED
      BY <2>1, <3>2, <3>3, <3>5, <1>0 DEF SessionStep
  <2> QED
    BY <2>2, <2>3
<1>4. ASSUME NEW o \in DOMAIN _PLANNER_OUTCOMES, finish_plan(t, o) PROVE SessionStep(t)
  <2> DEFINE s == _PLANNER_OUTCOMES[o]
             head == IF s = "AWAITING_PLAN_REVIEW" THEN "plan" ELSE "report"
             w == Recorded(t, "planner", o, s, head)
  <2>1. s \in STATES /\ s # "APPROVED" /\ head \in Heads /\ o \in Outcomes /\ "planner" \in Kinds
    BY OutcomesAreStates, OutcomesAre
  <2>2. PICK died \in Interrupted("finish_plan") \cup {FALSE} :
            /\ plan' = IF s = "AWAITING_PLAN_REVIEW" /\ ~died THEN plan \cup {t} ELSE plan
            /\ CountFault(died)
    BY <1>4 DEF finish_plan
  <2>3. faults' \in 0..MaxFaults
    BY <2>2, <1>0, FaultsCounted DEF CountFault
  <2>4. Records(t, "planner", o, s, head, w.open \ {"plan"})
    BY <1>4 DEF finish_plan, Shut, Records
  <2>5. /\ Retained(t)
        /\ UNCHANGED <<main, abandoned, impacts, opened, laneVars, current, passed, attempt>>
    BY <1>4 DEF finish_plan
  <2>6. BesideTheRecord(t, s)
    BY <2>1, <2>2, <2>3, <2>5 DEF BesideTheRecord
  <2> HIDE DEF s, head
  <2>7. w.open \ {"plan"} \in SUBSET Handoffs
    BY <2>1, <2>5, RecordedIs
  <2> QED
    BY <2>1, <2>4, <2>6, <2>7, ResultsAreSessions
<1>5. ASSUME NEW v \in DOMAIN _PLAN_REVIEW_VERDICTS, finish_plan_review(t, v) PROVE SessionStep(t)
  <2> DEFINE s == _PLAN_REVIEW_VERDICTS[v]
             head == IF v = "BLOCKED" THEN "plan" ELSE "report"
             w == Recorded(t, "plan_review", v, s, head)
  <2>1. s \in STATES /\ s # "APPROVED" /\ head \in Heads /\ v \in Outcomes /\ "plan_review" \in Kinds
    BY OutcomesAreStates, OutcomesAre
  <2>2. Records(t, "plan_review", v, s, head, w.open \ {"plan_review"})
    BY <1>5 DEF finish_plan_review, Shut, Records
  <2>3. /\ Retained(t) /\ plan' \subseteq plan
        /\ UNCHANGED <<main, abandoned, impacts, opened, laneVars, current, passed, attempt, faults>>
    BY <1>5 DEF finish_plan_review
  <2>4. BesideTheRecord(t, s)
    BY <2>1, <2>3, <1>0 DEF BesideTheRecord
  <2> HIDE DEF s, head
  <2>5. w.open \ {"plan_review"} \in SUBSET Handoffs
    BY <2>1, <2>3, RecordedIs
  <2> QED
    BY <2>1, <2>2, <2>4, <2>5, ResultsAreSessions
<1> QED
  BY <1>1, <1>2, <1>3, <1>4, <1>5

\* A review either leaves its verdict on the branch or lands the branch.
Landing(t) ==
    LET reviewed == _set_state(tree[t].config, t, "APPROVED", attempt[t].attempt, attempt[t].attempt) IN
    /\ Retained(t) /\ t \in current
    /\ main' = reviewed /\ MainMoves
    /\ tree' = [tree EXCEPT ![t] = None]
    /\ attempt' = attempt \/ attempt' = [attempt EXCEPT ![t] = None]
    /\ passed' = passed \cup {<<t, attempt[t].attempt>>}
    /\ faults' \in 0..MaxFaults
    /\ UNCHANGED <<abandoned, impacts, plan, opened, laneVars>>

LEMMA ReviewsAreSessionsOrLand ==
  ASSUME TypeInv, NEW t \in Tasks, NEW v \in DOMAIN _REVIEW_VERDICTS, finish_review(t, v)
  PROVE  SessionStep(t) \/ Landing(t)
<1> DEFINE s == _REVIEW_VERDICTS[v]
           w == Recorded(t, "review", v, s, "report")
<1>0. s \in STATES /\ (s = "APPROVED" => v = "PASS") /\ (v = "PASS" => s = "APPROVED")
  BY OutcomesAreStates DEF _REVIEW_VERDICTS
<1>1. /\ Retained(t)
      /\ passed' = IF v = "PASS" THEN passed \cup {<<t, attempt[t].attempt>>} ELSE passed
      /\ UNCHANGED <<abandoned, impacts, plan, opened, laneVars>>
  BY DEF finish_review
<1>2. "review" \in Kinds /\ v \in Outcomes /\ "report" \in Heads
  BY OutcomesAre
<1>3. CASE s # "APPROVED"
  <2>1. Records(t, "review", v, s, "report", w.open \ {"review"})
    BY <1>3 DEF finish_review, Shut, Records
  <2>2. UNCHANGED <<main, attempt, current, faults>>
    BY <1>3 DEF finish_review
  <2>3. BesideTheRecord(t, s)
    BY <1>0, <1>1, <1>3, <2>2 DEF BesideTheRecord, TypeInv
  <2> HIDE DEF s
  <2>4. w.open \ {"review"} \in SUBSET Handoffs
    BY <1>0, <1>1, <1>2, RecordedIs
  <2> QED
    BY <1>0, <1>2, <2>1, <2>3, <2>4, ResultsAreSessions
<1>4. CASE s = "APPROVED"
  <2>1. PICK died \in Interrupted("finish_review") :
            /\ CountFault(died)
            /\ \/ t \in current /\ Lands(t, w)
                  /\ attempt' = IF died THEN attempt ELSE [attempt EXCEPT ![t] = None]
               \/ tree' = [tree EXCEPT ![t] = w] /\ UNCHANGED <<main, attempt, current>>
    BY <1>4 DEF finish_review
  <2>2. faults' \in 0..MaxFaults
    BY <2>1, FaultsCounted
  <2>3. w.config = _set_state(tree[t].config, t, "APPROVED", attempt[t].attempt, attempt[t].attempt)
    <3> HIDE DEF s
    <3> QED
      BY <1>0, <1>1, <1>2, <1>4, RecordedIs
  <2>4. CASE t \in current /\ Lands(t, w) /\ attempt' = IF died THEN attempt ELSE [attempt EXCEPT ![t] = None]
    <3>1. main' = w.config /\ tree' = [tree EXCEPT ![t] = None] /\ MainMoves
      BY <2>4 DEF Lands
    <3> HIDE DEF w, s
    <3> QED
      BY <1>0, <1>1, <1>4, <2>2, <2>3, <2>4, <3>1 DEF Landing
  <2>5. CASE tree' = [tree EXCEPT ![t] = w] /\ UNCHANGED <<main, attempt, current>>
    <3>1. Records(t, "review", v, s, "report", {})
      BY <2>5 DEF Records
    <3>2. BesideTheRecord(t, s)
      BY <1>0, <1>1, <1>4, <2>2, <2>5 DEF BesideTheRecord
    <3> HIDE DEF s
    <3> QED
      BY <1>0, <1>2, <3>1, <3>2, {} \in SUBSET Handoffs, ResultsAreSessions
  <2> QED
    BY <2>1, <2>4, <2>5
<1> QED
  BY <1>3, <1>4

-----------------------------------------------------------------------------
(* The remaining steps of a task.                                          *)

\* A new attempt: its worktree has the configuration of main, or the one it had,
\* with the task in development.  A death in prepare_develop leaves a worktree
\* without an attempt.
Begins(t) ==
    /\ attempt[t] = None /\ tree[t] = None
    /\ "READY" \in InMain(main, t)
    /\ current' = current \cup {t}
    /\ faults' \in 0..MaxFaults
    /\ \E w : /\ tree' = [tree EXCEPT ![t] = w] /\ WorktreeShape(w)
              /\ \/ w.config = main /\ UNCHANGED <<attempt, opened>>
                 \/ \E a \in AttemptRecords :
                       /\ a.attempt = main.task[t].attempt + 1
                       /\ w.config = _set_state(main, t, "IN_DEVELOPMENT", a.attempt, 0)
                       /\ attempt' = [attempt EXCEPT ![t] = a]
                       /\ opened' = [opened EXCEPT ![t] = IF a.attempt > @ THEN a.attempt ELSE @]
    /\ UNCHANGED <<main, abandoned, impacts, plan, passed, laneVars>>

LEMMA PrepareBegins ==
  ASSUME TypeInv, NEW t \in Tasks, prepare_develop(t) PROVE Begins(t)
<1>1. PICK died \in Interrupted("prepare_develop") :
        LET number == main.task[t].attempt + 1
            config == IF died THEN main ELSE _set_state(main, t, "IN_DEVELOPMENT", number, 0)
        IN  /\ tree' = [tree EXCEPT ![t] = [config |-> config, art |-> NoArtifacts,
                                            at |-> "base", open |-> {}]]
            /\ IF died THEN UNCHANGED <<attempt, opened>>
               ELSE /\ attempt' = [attempt EXCEPT ![t] = [attempt |-> number, candidate |-> FALSE,
                                                          continued |-> FALSE]]
                    /\ opened' = [opened EXCEPT ![t] = IF number > @ THEN number ELSE @]
            /\ CountFault(died)
  BY DEF prepare_develop
<1> DEFINE number == main.task[t].attempt + 1
           config == IF died THEN main ELSE _set_state(main, t, "IN_DEVELOPMENT", number, 0)
           w == [config |-> config, art |-> NoArtifacts, at |-> "base", open |-> {}]
           a == [attempt |-> number, candidate |-> FALSE, continued |-> FALSE]
<1>2. /\ attempt[t] = None /\ tree[t] = None /\ "READY" \in InMain(main, t)
      /\ current' = current \cup {t} /\ main.task[t].attempt < MaxAttempts
      /\ UNCHANGED <<main, abandoned, impacts, plan, passed, laneVars>>
  BY DEF prepare_develop
<1>3. number \in 1..MaxAttempts /\ number \in 0..MaxAttempts /\ 0 \in 0..MaxAttempts
  BY <1>2, WorkflowAssumption DEF TypeInv, Configs, WorkflowAssumption
<1>4. config \in Configs
  <2>1. "IN_DEVELOPMENT" \in STATES /\ main \in Configs
    BY StatesAre DEF TypeInv
  <2> HIDE DEF number
  <2> QED
    BY <2>1, <1>3, SetStateIs
<1>5. WorktreeShape(w) /\ w.config = config
  <2>1. NoArtifacts \in [Kinds -> Outcomes]
    BY DEF NoArtifacts, Outcomes
  <2> HIDE DEF config
  <2> QED
    BY <1>4, <2>1 DEF WorktreeShape, Worktrees, Heads
<1>6. a \in AttemptRecords /\ a.attempt = number
  <2> HIDE DEF number
  <2> QED
    BY <1>3 DEF AttemptRecords
<1>7. faults' \in 0..MaxFaults
  BY <1>1, FaultsCounted
<1>8. tree' = [tree EXCEPT ![t] = w]
  BY <1>1
<1>9. \/ config = main /\ UNCHANGED <<attempt, opened>>
      \/ /\ config = _set_state(main, t, "IN_DEVELOPMENT", number, 0)
         /\ attempt' = [attempt EXCEPT ![t] = a]
         /\ opened' = [opened EXCEPT ![t] = IF number > @ THEN number ELSE @]
  BY <1>1
<1>10. \/ w.config = main /\ UNCHANGED <<attempt, opened>>
       \/ \E b \in AttemptRecords :
             /\ b.attempt = main.task[t].attempt + 1
             /\ w.config = _set_state(main, t, "IN_DEVELOPMENT", b.attempt, 0)
             /\ attempt' = [attempt EXCEPT ![t] = b]
             /\ opened' = [opened EXCEPT ![t] = IF b.attempt > @ THEN b.attempt ELSE @]
  <2>1. number = main.task[t].attempt + 1
    OBVIOUS
  <2> HIDE DEF number, config, w, a
  <2>2. CASE config = main /\ UNCHANGED <<attempt, opened>>
    BY <2>2, <1>5
  <2>3. CASE /\ config = _set_state(main, t, "IN_DEVELOPMENT", number, 0)
             /\ attempt' = [attempt EXCEPT ![t] = a]
             /\ opened' = [opened EXCEPT ![t] = IF number > @ THEN number ELSE @]
    BY <2>1, <2>3, <1>5, <1>6
  <2> QED
    BY <2>2, <2>3, <1>9
<1> HIDE DEF w
<1> QED
  BY <1>2, <1>5, <1>7, <1>8, <1>10 DEF Begins

Retries(t) ==
    /\ Retained(t)
    /\ \E w : /\ tree' = [tree EXCEPT ![t] = w] /\ WorktreeShape(w)
              /\ \E a \in AttemptRecords :
                    /\ a.attempt = attempt[t].attempt + 1
                    /\ w.config = _set_state(tree[t].config, t, "IN_DEVELOPMENT", a.attempt, 0)
                    /\ attempt' = [attempt EXCEPT ![t] = a]
                    /\ opened' = [opened EXCEPT ![t] = IF a.attempt > @ THEN a.attempt ELSE @]
    /\ UNCHANGED <<main, abandoned, impacts, plan, passed, laneVars, current, faults>>

LEMMA RetryRetries ==
  ASSUME TypeInv, NEW t \in Tasks, retry_develop(t) PROVE Retries(t)
<1> DEFINE number == attempt[t].attempt + 1
           config == _set_state(tree[t].config, t, "IN_DEVELOPMENT", number, 0)
           w == [tree[t] EXCEPT !.config = config, !.art = NoArtifacts]
           a == [attempt |-> number, candidate |-> FALSE, continued |-> FALSE]
<1>1. /\ Retained(t) /\ attempt[t].attempt < MaxAttempts
      /\ tree' = [tree EXCEPT ![t].config = _set_state(@, t, "IN_DEVELOPMENT", number, 0),
                              ![t].art = NoArtifacts]
      /\ attempt' = [attempt EXCEPT ![t] = a]
      /\ opened' = [opened EXCEPT ![t] = IF number > @ THEN number ELSE @]
      /\ UNCHANGED <<main, abandoned, impacts, plan, passed, laneVars, current, faults>>
  BY DEF retry_develop
<1>2. WorktreeShape(tree[t]) /\ tree[t].config \in Configs /\ attempt[t].attempt \in 1..MaxAttempts
  BY <1>1, RetainedShape
<1>3. number \in 1..MaxAttempts /\ number \in 0..MaxAttempts /\ 0 \in 0..MaxAttempts
  BY <1>1, <1>2, WorkflowAssumption DEF WorkflowAssumption
<1>4. config \in Configs
  <2>1. "IN_DEVELOPMENT" \in STATES
    BY StatesAre
  <2> HIDE DEF number
  <2> QED
    BY <2>1, <1>2, <1>3, SetStateIs
<1>5. a \in AttemptRecords /\ a.attempt = number
  <2> HIDE DEF number
  <2> QED
    BY <1>3 DEF AttemptRecords
<1>6. tree' = [tree EXCEPT ![t] = w]
  <2>1. tree = [u \in Tasks |-> tree[u]]
    BY DEF TypeInv
  <2>2. tree' = [tree EXCEPT ![t].config = config, ![t].art = NoArtifacts]
    BY <1>1
  <2> HIDE DEF config
  <2> QED
    BY <2>1, <2>2
<1>7. WorktreeShape(w) /\ w.config = config
  <2> HIDE DEF config
  <2> QED
    BY <1>2, <1>4, RenewIs
<1>8. \E b \in AttemptRecords :
          /\ b.attempt = attempt[t].attempt + 1
          /\ w.config = _set_state(tree[t].config, t, "IN_DEVELOPMENT", b.attempt, 0)
          /\ attempt' = [attempt EXCEPT ![t] = b]
          /\ opened' = [opened EXCEPT ![t] = IF b.attempt > @ THEN b.attempt ELSE @]
  <2>1. number = attempt[t].attempt + 1
    OBVIOUS
  <2>2. w.config = _set_state(tree[t].config, t, "IN_DEVELOPMENT", number, 0)
    BY <1>7
  <2> HIDE DEF number, w, a
  <2> QED
    BY <2>1, <2>2, <1>1, <1>5
<1> HIDE DEF w
<1> QED
  BY <1>1, <1>6, <1>7, <1>8 DEF Retries

\* The owner closes a task; with a live attempt the configuration of its worktree
\* replaces the one of main.
Closes(t) ==
    LET config == LiveConfig(t)
    IN  /\ config \in Configs /\ config.task[t].lifecycle = "OPEN"
        /\ main' \in Configs
        /\ main'.task[t].lifecycle = "ABANDONED" /\ ~main'.task[t].claimed
        /\ \A u \in Tasks \ {t} : main'.task[u] = config.task[u]
        /\ main'.active = IF config.active \in {NoTask, t} THEN t ELSE config.active
        /\ abandoned' = abandoned \cup {t}
        /\ \/ UNCHANGED <<attempt, tree>> /\ TRUE \in Interrupted("abandon_task")
           \/ attempt' = [attempt EXCEPT ![t] = None] /\ tree' = [tree EXCEPT ![t] = None]
        /\ faults' \in 0..MaxFaults
        /\ plan' \subseteq plan /\ MainMoves
        /\ UNCHANGED <<impacts, passed, opened, laneVars>>

LEMMA AbandonCloses ==
  ASSUME TypeInv, NEW t \in Tasks, abandon_task(t) PROVE Closes(t)
<1> DEFINE config == LiveConfig(t)
           n == config.task[t].attempt
           a == config.task[t].approved
           closed == _set_state(config, t, "ABANDONED", n, a)
<1>1. /\ MayAbandon(t)
      /\ main' = IF config.active \in {NoTask, t} THEN closed
                 ELSE [closed EXCEPT !.active = config.active, !.state = config.state]
      /\ abandoned' = abandoned \cup {t} /\ plan' = plan \ {t} /\ MainMoves
      /\ UNCHANGED <<impacts, passed, opened, laneVars>>
  BY DEF abandon_task
<1>2. PICK died \in Interrupted("abandon_task") :
         /\ IF died THEN UNCHANGED <<attempt, tree>>
            ELSE attempt' = [attempt EXCEPT ![t] = None] /\ tree' = [tree EXCEPT ![t] = None]
         /\ CountFault(died)
  BY DEF abandon_task
<1>3. faults' \in 0..MaxFaults
  BY <1>2, FaultsCounted
<1>4. config \in Configs
  BY RetainedShape DEF LiveConfig, TypeInv
<1>5. config.task[t].lifecycle = "OPEN"
  BY <1>1 DEF MayAbandon
<1>6. "ABANDONED" \in STATES /\ "ABANDONED" \in Closed /\ n \in 0..MaxAttempts /\ a \in 0..MaxAttempts
  BY <1>4, StatesAre DEF Configs, Closed
<1> HIDE DEF config, n, a
<1>7. /\ closed \in Configs /\ closed.active = t
      /\ \A u \in Tasks \ {t} : closed.task[u] = config.task[u]
      /\ ~(closed.task[t].lifecycle = "DELIVERED") /\ ~(closed.task[t].lifecycle = "OPEN")
      /\ ~closed.task[t].claimed
  BY <1>4, <1>6, SetStateIs
<1>8. closed.task[t].lifecycle = "ABANDONED"
  <2> HIDE DEF closed
  <2> QED
    BY <1>7 DEF Configs
<1> HIDE DEF closed
<1>9. /\ main' \in Configs /\ main'.task = closed.task
      /\ main'.active = IF config.active \in {NoTask, t} THEN t ELSE config.active
  <2>1. CASE config.active \in {NoTask, t}
    BY <2>1, <1>1, <1>7
  <2>2. CASE config.active \notin {NoTask, t}
    BY <2>2, <1>1, <1>4, <1>7 DEF Configs
  <2> QED
    BY <2>1, <2>2
<1>10. \/ UNCHANGED <<attempt, tree>> /\ TRUE \in Interrupted("abandon_task")
       \/ attempt' = [attempt EXCEPT ![t] = None] /\ tree' = [tree EXCEPT ![t] = None]
  BY <1>2 DEF Interrupted
<1> QED
  BY <1>1, <1>3, <1>4, <1>5, <1>7, <1>8, <1>9, <1>10 DEF Closes, config

LEMMA TaskStepCases ==
  ASSUME TypeInv, NEW t \in Tasks, TaskStep(t)
  PROVE  \/ ready(t) \/ Begins(t) \/ Retries(t) \/ SessionStep(t) \/ Landing(t) \/ Closes(t)
         \/ WorktreeLost(t) \/ discard_attempt(t)
BY HandoffsAreSessions, FinishesAreSessions, ReviewsAreSessionsOrLand, PrepareBegins,
   RetryRetries, AbandonCloses DEF TaskStep

LEMMA TaskKeepsTypes ==
  ASSUME TypeInv, NEW t \in Tasks, TaskStep(t) PROVE TypeInv'
<1>0. /\ main \in Configs /\ abandoned \subseteq Tasks /\ plan \subseteq Tasks /\ current \subseteq Works
      /\ t \in Works /\ 0 \in 0..MaxAttempts /\ MaxAttempts \in Nat
  BY WorkflowAssumption DEF TypeInv, Works, WorkflowAssumption
<1>1. CASE ready(t)
  <2>1. "READY" \in STATES /\ main.task[t].attempt \in 0..MaxAttempts /\ main.task[t].approved \in 0..MaxAttempts
    BY <1>0, StatesAre DEF Configs
  <2>2. main' \in Configs
    BY <1>0, <1>1, <2>1, SetStateIs DEF ready
  <2> QED
    BY <1>0, <1>1, <2>2 DEF ready, MainMoves, TypeInv, taskVars, laneVars
<1>2. CASE Begins(t)
  <2>1. PICK w : tree' = [tree EXCEPT ![t] = w] /\ WorktreeShape(w)
              /\ \/ UNCHANGED <<attempt, opened>>
                 \/ \E a \in AttemptRecords :
                       /\ attempt' = [attempt EXCEPT ![t] = a]
                       /\ opened' = [opened EXCEPT ![t] = IF a.attempt > @ THEN a.attempt ELSE @]
    BY <1>2 DEF Begins
  <2>2. opened' \in [Tasks -> 0..MaxAttempts] /\ attempt' = [u \in Tasks |-> attempt'[u]]
        /\ \A u \in Tasks : attempt'[u] = None \/ attempt'[u] \in AttemptRecords
    BY <1>0, <2>1 DEF TypeInv, AttemptRecords
  <2>3. /\ tree' = [u \in Tasks |-> tree'[u]]
        /\ \A u \in Tasks : tree'[u] = None \/ WorktreeShape(tree'[u])
    BY <2>1 DEF TypeInv
  <2> QED
    BY <1>0, <1>2, <2>2, <2>3 DEF Begins, TypeInv, laneVars, WorktreeShape, Worktrees, Configs
<1>3. CASE Retries(t)
  <2>1. PICK w : /\ tree' = [tree EXCEPT ![t] = w] /\ WorktreeShape(w)
                 /\ \E a \in AttemptRecords :
                       /\ attempt' = [attempt EXCEPT ![t] = a]
                       /\ opened' = [opened EXCEPT ![t] = IF a.attempt > @ THEN a.attempt ELSE @]
    BY <1>3 DEF Retries
  <2>2. opened' \in [Tasks -> 0..MaxAttempts] /\ attempt' = [u \in Tasks |-> attempt'[u]]
        /\ \A u \in Tasks : attempt'[u] = None \/ attempt'[u] \in AttemptRecords
    BY <1>0, <2>1 DEF TypeInv, AttemptRecords
  <2>3. /\ tree' = [u \in Tasks |-> tree'[u]]
        /\ \A u \in Tasks : tree'[u] = None \/ WorktreeShape(tree'[u])
    BY <2>1 DEF TypeInv
  <2> QED
    BY <1>0, <1>3, <2>2, <2>3 DEF Retries, TypeInv, laneVars, WorktreeShape, Worktrees, Configs
<1>4. CASE SessionStep(t)
  <2>1. /\ \E w : tree' = [tree EXCEPT ![t] = w] /\ WorktreeShape(w)
        /\ \E a \in AttemptRecords : attempt' = [attempt EXCEPT ![t] = a]
    BY <1>4 DEF SessionStep
  <2>2. /\ attempt' = [u \in Tasks |-> attempt'[u]]
        /\ \A u \in Tasks : attempt'[u] = None \/ attempt'[u] \in AttemptRecords
    BY <2>1 DEF TypeInv
  <2>3. /\ tree' = [u \in Tasks |-> tree'[u]]
        /\ \A u \in Tasks : tree'[u] = None \/ WorktreeShape(tree'[u])
    BY <2>1 DEF TypeInv
  <2>4. passed' \subseteq Tasks \X (1..MaxAttempts)
    BY <1>4, RetainedShape DEF SessionStep, TypeInv
  <2> QED
    BY <1>0, <1>4, <2>2, <2>3, <2>4 DEF SessionStep, TypeInv, laneVars, WorktreeShape, Worktrees, Configs
<1>5. CASE Landing(t)
  <2>1. /\ attempt' = [u \in Tasks |-> attempt'[u]]
        /\ \A u \in Tasks : attempt'[u] = None \/ attempt'[u] \in AttemptRecords
    BY <1>5 DEF Landing, TypeInv
  <2>2. /\ tree' = [u \in Tasks |-> tree'[u]]
        /\ \A u \in Tasks : tree'[u] = None \/ WorktreeShape(tree'[u])
    BY <1>5 DEF Landing, TypeInv
  <2>3. passed' \subseteq Tasks \X (1..MaxAttempts)
    BY <1>5, RetainedShape DEF Landing, TypeInv
  <2>4. main' \in Configs
    <3>1. "APPROVED" \in STATES
      BY StatesAre
    <3> QED
      BY <1>5, <3>1, RetainedShape, SetStateIs DEF Landing
  <2> QED
    BY <1>0, <1>5, <2>1, <2>2, <2>3, <2>4
    DEF Landing, MainMoves, TypeInv, laneVars, WorktreeShape, Worktrees, Configs
<1>6. CASE Closes(t)
  <2>1. /\ attempt' = [u \in Tasks |-> attempt'[u]]
        /\ \A u \in Tasks : attempt'[u] = None \/ attempt'[u] \in AttemptRecords
    BY <1>6 DEF Closes, TypeInv
  <2>2. /\ tree' = [u \in Tasks |-> tree'[u]]
        /\ \A u \in Tasks : tree'[u] = None \/ WorktreeShape(tree'[u])
    BY <1>6 DEF Closes, TypeInv
  <2>3. /\ main' \in Configs /\ abandoned' \subseteq Tasks /\ plan' \subseteq Tasks
        /\ current' = {} /\ faults' \in 0..MaxFaults
        /\ UNCHANGED <<impacts, passed, opened, amendment, repair>>
    BY <1>0, <1>6 DEF Closes, MainMoves, laneVars
  <2> QED
    BY <2>1, <2>2, <2>3 DEF TypeInv, WorktreeShape, Worktrees, Configs
<1>7. CASE WorktreeLost(t)
  <2>1. faults' \in 0..MaxFaults
    BY <1>7, WorkflowAssumption DEF WorktreeLost, TypeInv, WorkflowAssumption
  <2>2. /\ tree' = [u \in Tasks |-> tree'[u]]
        /\ \A u \in Tasks : tree'[u] = None \/ WorktreeShape(tree'[u])
    BY <1>7 DEF WorktreeLost, TypeInv
  <2> QED
    BY <1>7, <2>1, <2>2 DEF WorktreeLost, TypeInv, laneVars, WorktreeShape, Worktrees, Configs
<1>8. CASE discard_attempt(t)
  <2>1. /\ attempt' = [u \in Tasks |-> attempt'[u]]
        /\ \A u \in Tasks : attempt'[u] = None \/ attempt'[u] \in AttemptRecords
    BY <1>8 DEF discard_attempt, TypeInv
  <2>2. Consumed(t) \in 0..MaxAttempts
    BY <1>0, <1>8 DEF discard_attempt, Consumed, TypeInv, AttemptRecords, Configs
  <2>3. main' \in Configs
    <3> DEFINE number == Consumed(t)
               task == [main.task[t] EXCEPT !.attempt = number]
    <3>1. main' = [main EXCEPT !.task = [main.task EXCEPT ![t] = task]]
      BY <1>8 DEF discard_attempt
    <3> HIDE DEF number
    <3>2. task \in [lifecycle : {"OPEN", "DELIVERED", "ABANDONED"}, claimed : BOOLEAN,
                    attempt : 0..MaxAttempts, approved : 0..MaxAttempts]
      BY <1>0, <2>2 DEF number, Configs
    <3> HIDE DEF task
    <3> QED
      BY <1>0, <3>1, <3>2 DEF Configs
  <2> QED
    BY <1>8, <2>1, <2>3 DEF discard_attempt, MainMoves, TypeInv, laneVars, WorktreeShape, Worktrees, Configs
<1> QED
  BY <1>1, <1>2, <1>3, <1>4, <1>5, <1>6, <1>7, <1>8, TaskStepCases

\* Amendments and repairs leave the facts of every task alone.
LEMMA AmendmentsLeaveTasks ==
  ASSUME AmendmentStep PROVE UNCHANGED <<main, abandoned, taskVars, repair>>
BY DEF AmendmentStep, amendmentUnchanged, prepare_amendment, finish_amendment, block_amendment,
       prepare_amendment_review, finish_amendment_review, prepare_amendment_retry, withdraw_amendment

LEMMA RepairsLeaveTasks ==
  ASSUME NEW m \in Repairs, RepairStep(m)
  PROVE  UNCHANGED <<main, abandoned, impacts, taskVars, amendment>>
BY DEF RepairStep, repairUnchanged, prepare_maintenance, finish_maintenance_develop,
       prepare_maintenance_retry, prepare_maintenance_review, finish_maintenance_review,
       abandon_maintenance

LEMMA AmendmentKeepsTypes ==
  ASSUME TypeInv, AmendmentStep PROVE TypeInv'
<1>0. /\ amendment \in AmendmentRecords /\ impacts \subseteq Impacts /\ faults \in 0..MaxFaults
      /\ MaxAmendments \in Nat /\ AMENDMENT \in Works /\ current \subseteq Works
  BY WorkflowAssumption DEF TypeInv, Works, WorkflowAssumption
<1> DEFINE Typed == /\ amendment' \in AmendmentRecords /\ impacts' \subseteq Impacts
                    /\ faults' \in 0..MaxFaults /\ current' \subseteq Works
<1>1. ASSUME NEW target \in Tasks \cup {NoTask}, prepare_amendment(target) PROVE Typed
  <2>1. amendment.number + 1 \in 0..MaxAmendments
    BY <1>0, <1>1 DEF prepare_amendment, AmendmentRecords
  <2>2. AmendmentRecord(amendment.number + 1, "PLANNING", target) \in AmendmentRecords
    BY <2>1 DEF AmendmentRecord, AmendmentRecords, AmendmentStatuses
  <2> QED
    BY <1>0, <1>1, <2>2 DEF prepare_amendment
<1>2. ASSUME NEW raised \in Impacted, NEW resolves \in SUBSET impacts, finish_amendment(raised, resolves)
      PROVE  Typed
  <2> DEFINE conflicts == {[number |-> amendment.number, task |-> t] : t \in raised}
  <2>1. conflicts \subseteq Impacts
    BY <1>0, <1>2 DEF Impacted, Impacts, AmendmentRecords
  <2>2. amendment' = [amendment EXCEPT !.status = "AWAITING_REVIEW", !.at = "candidate",
                                       !.raised = conflicts, !.resolves = resolves]
    BY <1>2 DEF finish_amendment
  <2>3. resolves \subseteq Impacts
    BY <1>0
  <2> HIDE DEF conflicts
  <2>4. amendment' \in AmendmentRecords
    BY <1>0, <2>1, <2>2, <2>3 DEF AmendmentRecords, AmendmentStatuses
  <2> QED
    BY <1>0, <1>2, <2>4 DEF finish_amendment
<1>3. ASSUME block_amendment PROVE Typed
  BY <1>0, <1>3 DEF block_amendment, AmendmentRecords, AmendmentStatuses
<1>4. ASSUME prepare_amendment_review PROVE Typed
  BY <1>0, <1>4 DEF prepare_amendment_review, AmendmentRecords, AmendmentStatuses
<1>5. ASSUME NEW v \in DOMAIN _PLAN_REVIEW_VERDICTS, finish_amendment_review(v) PROVE Typed
  <2>1. PICK died \in (IF v = "PASS" THEN Interrupted("finish_amendment_review") ELSE {FALSE}) :
            CountFault(died)
    BY <1>5 DEF finish_amendment_review
  <2>2. faults' \in 0..MaxFaults
    BY <1>0, <2>1, FaultsCounted DEF CountFault
  <2>3. ClosedAmendment("APPROVED") \in AmendmentRecords
    BY <1>0, WorkflowAssumption
    DEF ClosedAmendment, AmendmentRecord, AmendmentRecords, AmendmentStatuses, TERMINAL_AMENDMENT_STATES
  <2> DEFINE judged == [amendment EXCEPT !.at = "report", !.reviewing = FALSE]
             status == IF v = "PASS" THEN judged.status
                       ELSE IF v = "FAIL" THEN "CHANGES_REQUESTED" ELSE "BLOCKED"
  <2>4. judged \in AmendmentRecords
    BY <1>0 DEF AmendmentRecords
  <2>5. \/ amendment' = ClosedAmendment("APPROVED")
        \/ amendment' = [judged EXCEPT !.at = "main"]
        \/ amendment' = [judged EXCEPT !.status = status]
    BY <1>5 DEF finish_amendment_review
  <2>8. [judged EXCEPT !.status = status] \in AmendmentRecords
    <3> HIDE DEF judged
    <3>1. status \in AmendmentStatuses
      BY <2>4 DEF AmendmentRecords, AmendmentStatuses
    <3> HIDE DEF status
    <3> QED
      BY <2>4, <3>1 DEF AmendmentRecords
  <2>9. [judged EXCEPT !.at = "main"] \in AmendmentRecords
    <3> HIDE DEF judged
    <3> QED
      BY <2>4 DEF AmendmentRecords
  <2>6. impacts' \subseteq Impacts /\ current' \subseteq Works
    BY <1>0, <1>5 DEF finish_amendment_review, MainMoves, AmendmentRecords
  <2> QED
    BY <2>2, <2>3, <2>5, <2>6, <2>8, <2>9
<1>6. ASSUME prepare_amendment_retry PROVE Typed
  BY <1>0, <1>6 DEF prepare_amendment_retry, AmendmentRecords, AmendmentStatuses
<1>7. ASSUME withdraw_amendment PROVE Typed
  BY <1>0, <1>7, WorkflowAssumption
  DEF withdraw_amendment, ClosedAmendment, AmendmentRecord, AmendmentRecords, AmendmentStatuses,
      TERMINAL_AMENDMENT_STATES
<1>8. Typed
  <2> HIDE DEF Typed
  <2> QED
    BY <1>1, <1>2, <1>3, <1>4, <1>5, <1>6, <1>7 DEF AmendmentStep
<1> QED
  BY <1>8, AmendmentsLeaveTasks DEF TypeInv, taskVars, WorktreeShape, Worktrees, Configs

LEMMA RepairKeepsTypes ==
  ASSUME TypeInv, NEW m \in Repairs, RepairStep(m) PROVE TypeInv'
<1>0. /\ repair \in [Repairs -> RepairRecords] /\ faults \in 0..MaxFaults
      /\ m \in Works /\ current \subseteq Works
  BY DEF TypeInv, Works
<1> DEFINE Typed == /\ repair' \in [Repairs -> RepairRecords]
                    /\ faults' \in 0..MaxFaults /\ current' \subseteq Works
<1>1. \A status \in STATES \cup {"NONE", "ESCALATED"} : MaintenanceRecord(status) \in RepairRecords
  BY DEF MaintenanceRecord, RepairRecords
<1>2. {"IN_DEVELOPMENT", "AWAITING_REVIEW", "BLOCKED", "APPROVED", "ABANDONED", "ESCALATED"}
         \subseteq STATES \cup {"NONE", "ESCALATED"}
  BY StatesAre
<1>3. ASSUME prepare_maintenance(m) PROVE Typed
  BY <1>0, <1>1, <1>2, <1>3 DEF prepare_maintenance
<1>4. ASSUME NEW o \in DOMAIN _DEVELOPER_OUTCOMES, finish_maintenance_develop(m, o) PROVE Typed
  <2>1. o \in {"CANDIDATE_READY", "TRIAGE_REQUIRED", "BLOCKED"}
    BY DEF _DEVELOPER_OUTCOMES
  <2>2. repair' \in [Repairs -> RepairRecords]
    <3> DEFINE status == CASE o = "CANDIDATE_READY" -> "AWAITING_REVIEW"
                           [] o = "TRIAGE_REQUIRED" -> "ESCALATED"
                           [] o = "BLOCKED" -> "BLOCKED"
               head == IF o = "CANDIDATE_READY" THEN "candidate" ELSE repair[m].at
    <3>1. status \in STATES \cup {"NONE", "ESCALATED"}
      BY <1>2, <2>1
    <3>2. repair[m] \in RepairRecords /\ head \in {"base", "candidate", "report", "main"}
      BY <1>0 DEF RepairRecords
    <3>3. repair' = [repair EXCEPT ![m] = [repair[m] EXCEPT !.status = status, !.at = head]]
      <4>1. repair' = [repair EXCEPT ![m].status = status, ![m].at = head]
        BY <1>4 DEF finish_maintenance_develop
      <4> HIDE DEF status, head
      <4> QED
        BY <1>0, <4>1
    <3> HIDE DEF status, head
    <3>4. [repair[m] EXCEPT !.status = status, !.at = head] \in RepairRecords
      BY <3>1, <3>2 DEF RepairRecords
    <3> QED
      BY <1>0, <3>3, <3>4
  <2> QED
    BY <1>0, <1>4, <2>2 DEF finish_maintenance_develop
<1>5. ASSUME prepare_maintenance_retry(m) PROVE Typed
  BY <1>0, <1>2, <1>5 DEF prepare_maintenance_retry, RepairRecords
<1>6. ASSUME prepare_maintenance_review(m) PROVE Typed
  BY <1>0, <1>2, <1>6 DEF prepare_maintenance_review, RepairRecords
<1>7. ASSUME NEW v \in DOMAIN _REVIEW_VERDICTS, finish_maintenance_review(m, v) PROVE Typed
  <2>1. PICK died \in (IF v = "PASS" THEN Interrupted("finish_maintenance_review") ELSE {FALSE}) :
            CountFault(died)
    BY <1>7 DEF finish_maintenance_review
  <2>2. faults' \in 0..MaxFaults
    BY <1>0, <2>1, FaultsCounted DEF CountFault
  <2> DEFINE judged == [repair[m] EXCEPT !.at = "report", !.reviewing = FALSE]
  <2>3. /\ judged \in RepairRecords /\ [judged EXCEPT !.at = "main"] \in RepairRecords
        /\ \A status \in STATES : [judged EXCEPT !.status = status] \in RepairRecords
    BY <1>0 DEF RepairRecords
  <2>4. \E x \in RepairRecords : repair' = [repair EXCEPT ![m] = x]
    <3>1. _REVIEW_VERDICTS[v] \in STATES /\ ClosedRepair("APPROVED") \in RepairRecords
      BY <1>1, <1>2, OutcomesAreStates DEF ClosedRepair
    <3>2. \/ repair' = [repair EXCEPT ![m] = ClosedRepair("APPROVED")]
          \/ repair' = [repair EXCEPT ![m] = [judged EXCEPT !.at = "main"]]
          \/ repair' = [repair EXCEPT ![m] = judged]
          \/ repair' = [repair EXCEPT ![m] = [judged EXCEPT !.status = _REVIEW_VERDICTS[v]]]
      BY <1>7 DEF finish_maintenance_review
    <3> HIDE DEF judged
    <3> QED
      BY <2>3, <3>1, <3>2
  <2>5. current' \subseteq Works
    BY <1>0, <1>7 DEF finish_maintenance_review, MainMoves
  <2> QED
    BY <1>0, <2>2, <2>4, <2>5
<1>8. ASSUME abandon_maintenance(m) PROVE Typed
  BY <1>0, <1>1, <1>2, <1>8 DEF abandon_maintenance, ClosedRepair
<1>9. Typed
  <2> HIDE DEF Typed
  <2> QED
    BY <1>3, <1>4, <1>5, <1>6, <1>7, <1>8 DEF RepairStep
<1> QED
  BY <1>9, RepairsLeaveTasks DEF TypeInv, taskVars, WorktreeShape, Worktrees, Configs

LEMMA TypeStep == TypeInv /\ [Next]_vars => TypeInv'
<1> SUFFICES ASSUME TypeInv, [Next]_vars PROVE TypeInv'
  OBVIOUS
<1>1. CASE UNCHANGED vars
  BY <1>1 DEF vars, taskVars, laneVars, TypeInv, WorktreeShape, Worktrees, Configs
<1> QED
  BY <1>1, TaskKeepsTypes, AmendmentKeepsTypes, RepairKeepsTypes DEF Next

LEMMA TypeAlways == Spec => []TypeInv
BY TypeInit, TypeStep, PTL DEF Spec

\* The configurations of main and of the worktrees, the records and the worktrees
\* stay typed, for any tasks, interruptions and bounds (what validate_config and the
\* readers of the runtime records require of them).
THEOREM TypesAreKept == Spec => []TypeOK
BY TypeAlways, TypesOK, PTL

-----------------------------------------------------------------------------
(* The configurations: at most one task holds the lane in main, and in a   *)
(* worktree none but its own; what either calls delivered was reviewed.    *)
(* Whatever takes over main keeps this, also from a worktree that a death  *)
(* in abandon_task has left behind.                                        *)

Reviewed(config) ==
    \A t \in Tasks : config.task[t].lifecycle = "DELIVERED" => <<t, config.task[t].approved>> \in passed
MainInv == OneClaim(main) /\ Reviewed(main)

TreeInv(t) ==
    tree[t] # None =>
        /\ tree[t].config.active = t
        /\ \A u \in Tasks \ {t} : ~tree[t].config.task[u].claimed
        /\ Reviewed(tree[t].config)
ConfigInv == MainInv /\ \A t \in Tasks : TreeInv(t)

LEMMA ConfigInit == Init => ConfigInv
<1> SUFFICES ASSUME Init PROVE ConfigInv
  OBVIOUS
<1>1. \A t \in Tasks : main.task[t] = Planned /\ tree[t] = None
  BY DEF Init
<1>2. Planned.lifecycle = "OPEN" /\ ~Planned.claimed
  BY DEF Planned
<1> QED
  BY <1>1, <1>2 DEF ConfigInv, MainInv, OneClaim, Reviewed, TreeInv

LEMMA ReadyFacts ==
  ASSUME NEW t \in Tasks, "READY" \in InMain(main, t)
  PROVE  main.task[t].lifecycle \notin {"DELIVERED", "ABANDONED"} /\ main.task[t].claimed /\ t \notin abandoned
<1> DEFINE derived == derive_status(main.task[t].approved > 0, t \in abandoned, main.task[t].attempt, NoArtifacts)
<1>1. "READY" \in admitted_statuses(main.task[t].lifecycle, main.task[t].claimed, derived)
  BY DEF InMain, Admitted
<1>2. t \in abandoned => derived \in {"APPROVED", "ABANDONED"}
  BY DEF derive_status
<1> HIDE DEF derived
<1> QED
  BY <1>1, <1>2 DEF admitted_statuses, UNSTARTED, IN_FLIGHT

LEMMA PlannedFacts ==
  ASSUME NEW t \in Tasks, "PLANNED" \in InMain(main, t)
  PROVE  main.task[t].lifecycle \notin {"DELIVERED", "ABANDONED"} /\ ~main.task[t].claimed /\ t \notin abandoned
<1> DEFINE derived == derive_status(main.task[t].approved > 0, t \in abandoned, main.task[t].attempt, NoArtifacts)
<1>1. "PLANNED" \in admitted_statuses(main.task[t].lifecycle, main.task[t].claimed, derived)
  BY DEF InMain, Admitted
<1>2. derived # "PLANNED" /\ (t \in abandoned => derived \in {"APPROVED", "ABANDONED"})
  BY DEF derive_status, NoArtifacts, Kinds, UNSTARTED, IN_FLIGHT
<1> HIDE DEF derived
<1> QED
  BY <1>1, <1>2 DEF admitted_statuses, UNSTARTED, IN_FLIGHT

LEMMA OpenIsTheRest ==
  ASSUME TypeInv, NEW t \in Tasks
  PROVE  /\ main.task[t].lifecycle \in {"OPEN", "DELIVERED", "ABANDONED"} /\ main.task[t].claimed \in BOOLEAN
         /\ main.task[t].attempt \in 0..MaxAttempts /\ main.task[t].approved \in 0..MaxAttempts
         /\ main \in Configs
BY DEF TypeInv, Configs

(***************************************************************************)
(* A configuration that a command writes for a task is one that task has   *)
(* to itself.                                                              *)
(***************************************************************************)
Unclaimed(config, t) == \A u \in Tasks \ {t} : ~config.task[u].claimed

LEMMA WrittenConfig ==
  ASSUME NEW config \in Configs, NEW t \in Tasks, NEW s \in STATES,
         NEW n \in 0..MaxAttempts, NEW a \in 0..MaxAttempts,
         Unclaimed(config, t), Reviewed(config), passed \subseteq passed',
         s = "APPROVED" => <<t, a>> \in passed'
  PROVE  LET next == _set_state(config, t, s, n, a) IN
         next.active = t /\ Unclaimed(next, t) /\ OneClaim(next) /\ Reviewed(next)'
<1> DEFINE next == _set_state(config, t, s, n, a)
<1>1. /\ next.active = t /\ \A u \in Tasks \ {t} : next.task[u] = config.task[u]
      /\ next.task[t].approved = a /\ (next.task[t].lifecycle = "DELIVERED" <=> s = "APPROVED")
  BY SetStateIs
<1> HIDE DEF next
<1>2. Unclaimed(next, t) /\ OneClaim(next)
  BY <1>1 DEF Unclaimed, OneClaim
<1>3. Reviewed(next)'
  BY <1>1 DEF Reviewed
<1> QED
  BY <1>1, <1>2, <1>3 DEF next

LEMMA ConfigsFollow ==
  ASSUME TypeInv, ConfigInv, passed \subseteq passed', MainInv', NEW t \in Tasks,
         \/ tree' = tree \/ tree' = [tree EXCEPT ![t] = None]
         \/ \E w : /\ tree' = [tree EXCEPT ![t] = w] /\ w.config.active = t
                   /\ Unclaimed(w.config, t) /\ Reviewed(w.config)'
  PROVE  ConfigInv'
<1>1. ASSUME NEW u \in Tasks, tree'[u] = tree[u] PROVE TreeInv(u)'
  BY <1>1 DEF ConfigInv, TreeInv, Reviewed
<1>2. \A u \in Tasks \ {t} : tree'[u] = tree[u]
  BY DEF TypeInv
<1>3. TreeInv(t)'
  <2>1. CASE tree' = tree
    BY <1>1, <2>1
  <2>2. CASE tree' = [tree EXCEPT ![t] = None]
    BY <2>2 DEF TypeInv, TreeInv
  <2>3. ASSUME NEW w, tree' = [tree EXCEPT ![t] = w], w.config.active = t,
               Unclaimed(w.config, t), Reviewed(w.config)'
        PROVE  TreeInv(t)'
    <3>1. tree'[t] = w
      BY <2>3 DEF TypeInv
    <3> QED
      BY <2>3, <3>1 DEF TreeInv, Unclaimed, Reviewed
  <2> QED
    BY <2>1, <2>2, <2>3
<1> QED
  BY <1>1, <1>2, <1>3 DEF ConfigInv

LEMMA MainConfig == ASSUME ConfigInv PROVE OneClaim(main) /\ Reviewed(main)
BY DEF ConfigInv, MainInv

LEMMA TreeConfig ==
  ASSUME TypeInv, ConfigInv, NEW t \in Tasks, Retained(t)
  PROVE  /\ tree[t].config \in Configs /\ attempt[t].attempt \in 0..MaxAttempts
         /\ tree[t].config.active = t /\ Unclaimed(tree[t].config, t) /\ Reviewed(tree[t].config)
BY RetainedShape DEF ConfigInv, TreeInv, Retained, Unclaimed

LEMMA ReadyKeepsConfigs ==
  ASSUME TypeInv, ConfigInv, NEW t \in Tasks, ready(t) PROVE ConfigInv'
<1>1. main' = _set_state(main, t, "READY", main.task[t].attempt, main.task[t].approved)
      /\ passed' = passed /\ tree' = tree
  BY DEF ready, taskVars
<1>2. Unclaimed(main, t)
  BY MainConfig, WorkflowAssumption DEF ready, ActiveClaimed, OneClaim, Unclaimed, WorkflowAssumption
<1>3. "READY" \in STATES /\ "READY" # "APPROVED"
  BY StatesAre
<1> DEFINE n == main.task[t].attempt
           a == main.task[t].approved
           config == main
           s == "READY"
<1>4. config \in Configs /\ n \in 0..MaxAttempts /\ a \in 0..MaxAttempts
      /\ Unclaimed(config, t) /\ Reviewed(config)
  BY <1>2, OpenIsTheRest, MainConfig
<1>5. /\ passed \subseteq passed' /\ main' = _set_state(config, t, s, n, a)
      /\ s \in STATES /\ (s = "APPROVED" => <<t, a>> \in passed')
  BY <1>1, <1>3
<1> HIDE DEF n, a, config, s
<1>7. MainInv'
  BY <1>4, <1>5, WrittenConfig DEF MainInv, OneClaim
<1> QED
  BY <1>1, <1>7, ConfigsFollow

LEMMA BeginsKeepsConfigs ==
  ASSUME TypeInv, ConfigInv, NEW t \in Tasks, Begins(t) PROVE ConfigInv'
<1>1. UNCHANGED <<main, passed>> /\ main.task[t].claimed
  BY ReadyFacts DEF Begins
<1>2. main.active = t /\ Unclaimed(main, t) /\ Reviewed(main)
  BY <1>1, MainConfig DEF OneClaim, Unclaimed
<1>3. MainInv'
  BY <1>1 DEF ConfigInv, MainInv, OneClaim, Reviewed
<1>4. PICK w : /\ tree' = [tree EXCEPT ![t] = w]
               /\ \/ w.config = main
                  \/ \E a \in AttemptRecords : w.config = _set_state(main, t, "IN_DEVELOPMENT", a.attempt, 0)
  BY DEF Begins
<1>5. w.config.active = t /\ Unclaimed(w.config, t) /\ Reviewed(w.config)'
  <2>1. CASE w.config = main
    BY <1>1, <1>2, <2>1 DEF Reviewed
  <2>2. ASSUME NEW a \in AttemptRecords, w.config = _set_state(main, t, "IN_DEVELOPMENT", a.attempt, 0)
        PROVE  <1>5
    <3>1. "IN_DEVELOPMENT" \in STATES /\ "IN_DEVELOPMENT" # "APPROVED"
          /\ a.attempt \in 0..MaxAttempts /\ 0 \in 0..MaxAttempts
      BY StatesAre, WorkflowAssumption DEF AttemptRecords, WorkflowAssumption
    <3> DEFINE n == a.attempt
               config == main
               s == "IN_DEVELOPMENT"
    <3>2. /\ n \in 0..MaxAttempts /\ w.config = _set_state(config, t, s, n, 0)
          /\ s \in STATES /\ (s = "APPROVED" => <<t, 0>> \in passed') /\ 0 \in 0..MaxAttempts
      BY <2>2, <3>1
    <3>3. config \in Configs /\ Unclaimed(config, t) /\ Reviewed(config) /\ passed \subseteq passed'
      BY <1>1, <1>2, OpenIsTheRest
    <3> HIDE DEF n, config, s
    <3> QED
      BY <3>2, <3>3, WrittenConfig
  <2> QED
    BY <1>4, <2>1, <2>2
<1> QED
  BY <1>1, <1>3, <1>4, <1>5, ConfigsFollow

\* A step on the branch of a task with an attempt.
LEMMA BranchKeepsConfigs ==
  ASSUME TypeInv, ConfigInv, NEW t \in Tasks, Retained(t), main' = main, passed \subseteq passed',
         NEW w, tree' = [tree EXCEPT ![t] = w],
         \/ w.config = tree[t].config
         \/ \E s \in STATES, n \in 0..MaxAttempts, a \in 0..MaxAttempts :
               /\ w.config = _set_state(tree[t].config, t, s, n, a)
               /\ s = "APPROVED" => <<t, a>> \in passed'
  PROVE  ConfigInv'
<1>1. MainInv'
  BY DEF ConfigInv, MainInv, OneClaim, Reviewed
<1> DEFINE config == tree[t].config
<1>2. config \in Configs /\ config.active = t /\ Unclaimed(config, t) /\ Reviewed(config)
  BY TreeConfig
<1> HIDE DEF config
<1>3. CASE w.config = config
  <2>1. Reviewed(w.config)'
    BY <1>2, <1>3 DEF Reviewed
  <2> QED
    BY <1>1, <1>2, <1>3, <2>1, ConfigsFollow
<1>4. ASSUME NEW s \in STATES, NEW n \in 0..MaxAttempts, NEW a \in 0..MaxAttempts,
             w.config = _set_state(config, t, s, n, a), s = "APPROVED" => <<t, a>> \in passed'
      PROVE  ConfigInv'
  <2>1. w.config.active = t /\ Unclaimed(w.config, t) /\ Reviewed(w.config)'
    BY <1>2, <1>4, WrittenConfig
  <2> QED
    BY <1>1, <2>1, ConfigsFollow
<1> QED
  BY <1>3, <1>4 DEF config

LEMMA RetriesKeepsConfigs ==
  ASSUME TypeInv, ConfigInv, NEW t \in Tasks, Retries(t) PROVE ConfigInv'
<1>1. Retained(t) /\ main' = main /\ passed' = passed
  BY DEF Retries
<1>2. PICK w : /\ tree' = [tree EXCEPT ![t] = w]
               /\ \E a \in AttemptRecords :
                     w.config = _set_state(tree[t].config, t, "IN_DEVELOPMENT", a.attempt, 0)
  BY DEF Retries
<1> PICK a \in AttemptRecords : w.config = _set_state(tree[t].config, t, "IN_DEVELOPMENT", a.attempt, 0)
  BY <1>2
<1>3. "IN_DEVELOPMENT" \in STATES /\ "IN_DEVELOPMENT" # "APPROVED"
      /\ a.attempt \in 0..MaxAttempts /\ 0 \in 0..MaxAttempts
  BY StatesAre, WorkflowAssumption DEF AttemptRecords, WorkflowAssumption
<1>4. \E s \in STATES, n \in 0..MaxAttempts, b \in 0..MaxAttempts :
          w.config = _set_state(tree[t].config, t, s, n, b) /\ (s = "APPROVED" => <<t, b>> \in passed')
  BY <1>2, <1>3, Zenon
<1> QED
  BY <1>1, <1>2, <1>4, BranchKeepsConfigs

LEMMA SessionKeepsConfigs ==
  ASSUME TypeInv, ConfigInv, NEW t \in Tasks, SessionStep(t) PROVE ConfigInv'
<1>1. Retained(t) /\ main' = main /\ passed \subseteq passed' /\ attempt[t].attempt \in 0..MaxAttempts
  BY RetainedShape DEF SessionStep
<1>2. PICK w : /\ tree' = [tree EXCEPT ![t] = w]
               /\ \/ w.config = tree[t].config
                  \/ \E s \in STATES, n \in 0..MaxAttempts :
                       /\ w.config = _set_state(tree[t].config, t, s, attempt[t].attempt, n)
                       /\ s = "APPROVED" => <<t, n>> \in passed'
  BY DEF SessionStep
<1> QED
  BY <1>1, <1>2, BranchKeepsConfigs

LEMMA LandingKeepsConfigs ==
  ASSUME TypeInv, ConfigInv, NEW t \in Tasks, Landing(t) PROVE ConfigInv'
<1> DEFINE config == tree[t].config
           n == attempt[t].attempt
<1>1. /\ Retained(t) /\ tree' = [tree EXCEPT ![t] = None] /\ passed \subseteq passed' /\ <<t, n>> \in passed'
      /\ main' = _set_state(config, t, "APPROVED", n, n)
  BY DEF Landing
<1>2. config \in Configs /\ n \in 0..MaxAttempts /\ Unclaimed(config, t) /\ Reviewed(config)
  BY <1>1, TreeConfig
<1>3. "APPROVED" \in STATES
  BY StatesAre
<1> HIDE DEF config, n
<1>4. MainInv'
  BY <1>1, <1>2, <1>3, WrittenConfig DEF MainInv, OneClaim
<1> QED
  BY <1>1, <1>4, ConfigsFollow

LEMMA ClosesKeepsConfigs ==
  ASSUME TypeInv, ConfigInv, NEW t \in Tasks, Closes(t) PROVE ConfigInv'
<1> DEFINE config == LiveConfig(t)
<1>1. /\ main'.task[t].lifecycle = "ABANDONED" /\ ~main'.task[t].claimed
      /\ \A u \in Tasks \ {t} : main'.task[u] = config.task[u]
      /\ main'.active = IF config.active \in {NoTask, t} THEN t ELSE config.active
      /\ passed' = passed /\ (tree' = tree \/ tree' = [tree EXCEPT ![t] = None])
  BY DEF Closes
<1>2. OneClaim(config) /\ Reviewed(config)
  BY MainConfig, TreeConfig DEF LiveConfig, OneClaim, Unclaimed
<1> HIDE DEF config
<1>3. ASSUME NEW u \in Tasks, main'.task[u].claimed PROVE main'.active = u
  <2>1. u # t /\ config.active = u
    BY <1>1, <1>2, <1>3 DEF OneClaim
  <2> QED
    BY <1>1, <2>1, WorkflowAssumption DEF WorkflowAssumption
<1>4. Reviewed(main)'
  BY <1>1, <1>2 DEF Reviewed
<1>5. MainInv'
  BY <1>3, <1>4 DEF MainInv, OneClaim
<1> QED
  BY <1>1, <1>5, ConfigsFollow

LEMMA DiscardKeepsConfigs ==
  ASSUME TypeInv, ConfigInv, NEW t \in Tasks, discard_attempt(t) PROVE ConfigInv'
<1>1. main' = [main EXCEPT !.task[t].attempt = Consumed(t)] /\ tree' = tree /\ passed' = passed
  BY DEF discard_attempt
<1>2. /\ main'.active = main.active
      /\ \A u \in Tasks : /\ main'.task[u].lifecycle = main.task[u].lifecycle
                          /\ main'.task[u].claimed = main.task[u].claimed
                          /\ main'.task[u].approved = main.task[u].approved
  BY <1>1, OpenIsTheRest DEF Configs
<1>3. MainInv'
  BY <1>1, <1>2, MainConfig DEF MainInv, OneClaim, Reviewed
<1> QED
  BY <1>1, <1>3, ConfigsFollow

LEMMA RestKeepsConfigs ==
  ASSUME ConfigInv, UNCHANGED <<main, tree, passed>> PROVE ConfigInv'
BY DEF ConfigInv, MainInv, OneClaim, Reviewed, TreeInv

LEMMA ConfigStep == ASSUME TypeInv, ConfigInv, [Next]_vars PROVE ConfigInv'
<1>1. ASSUME NEW t \in Tasks, TaskStep(t) PROVE ConfigInv'
  <2>1. CASE WorktreeLost(t)
    <3>1. MainInv' /\ passed' = passed /\ tree' = [tree EXCEPT ![t] = None]
      BY <2>1 DEF WorktreeLost, ConfigInv, MainInv, OneClaim, Reviewed
    <3> QED
      BY <3>1, ConfigsFollow
  <2> QED
    BY <1>1, <2>1, TaskStepCases, ReadyKeepsConfigs, BeginsKeepsConfigs, RetriesKeepsConfigs,
       SessionKeepsConfigs, LandingKeepsConfigs, ClosesKeepsConfigs, DiscardKeepsConfigs
<1>2. CASE AmendmentStep
  BY <1>2, AmendmentsLeaveTasks, RestKeepsConfigs DEF taskVars
<1>3. ASSUME NEW m \in Repairs, RepairStep(m) PROVE ConfigInv'
  BY <1>3, RepairsLeaveTasks, RestKeepsConfigs DEF taskVars
<1>4. CASE UNCHANGED vars
  BY <1>4, RestKeepsConfigs DEF vars, taskVars
<1> QED
  BY <1>1, <1>2, <1>3, <1>4 DEF Next

LEMMA ConfigAlways == Spec => [](TypeInv /\ ConfigInv)
<1>1. Init => TypeInv /\ ConfigInv
  BY TypeInit, ConfigInit
<1>2. (TypeInv /\ ConfigInv) /\ [Next]_vars => (TypeInv /\ ConfigInv)'
  BY TypeStep, ConfigStep
<1> QED
  BY <1>1, <1>2, PTL DEF Spec

\* A task is delivered in main only when a reviewer has passed the candidate the
\* configuration names (_record_review_result), whatever dies, is retried or is
\* abandoned in between.
THEOREM DeliveriesWereReviewed == Spec => []DeliveredWasReviewed
<1>1. ConfigInv => DeliveredWasReviewed
  BY DEF ConfigInv, MainInv, Reviewed, DeliveredWasReviewed
<1> QED
  BY <1>1, ConfigAlways, PTL

\* No command leaves a configuration, in main or in a worktree, that the next
\* command refuses to load because two tasks hold the lane (validate_config).
THEOREM ConfigurationsLoad == Spec => []ConfigsLoad
<1>1. ConfigInv => ConfigsLoad
  BY DEF ConfigInv, MainInv, TreeInv, OneClaim, ConfigsLoad
<1> QED
  BY <1>1, ConfigAlways, PTL

-----------------------------------------------------------------------------
(* The lane: at most one attempt is live, it is of the task that main      *)
(* says holds the lane, and its configuration agrees with main about every *)
(* other task that has not been abandoned since.                           *)

\* A death in abandon_task, after main is written and before the runtime record
\* is dropped, would leave a live attempt of a closed task.
NoDeathInAbandon == "abandon_task" \notin Interruptible

AttemptInv(t) ==
    attempt[t] # None =>
        /\ t \notin abandoned /\ attempt[t].attempt >= opened[t]
        /\ main.task[t].lifecycle = "OPEN" => main.task[t].claimed
RetainedInv(t) ==
    Retained(t) =>
        /\ main.task[t].lifecycle = "OPEN" /\ main.task[t].claimed
        /\ \A u \in Tasks \ {t} :
              /\ u \in abandoned => tree[t].config.task[u].lifecycle # "DELIVERED"
              /\ u \notin abandoned => tree[t].config.task[u] = main.task[u]
AbandonedInv(t) == t \in abandoned => main.task[t].lifecycle # "DELIVERED" /\ ~main.task[t].claimed
NumberInv(t) ==
    t \notin abandoned /\ main.task[t].lifecycle = "OPEN" /\ attempt[t] = None
        => main.task[t].attempt >= opened[t]
LaneOf(t) == AttemptInv(t) /\ RetainedInv(t) /\ AbandonedInv(t) /\ NumberInv(t)
LaneInv == ConfigInv /\ \A t \in Tasks : LaneOf(t)

LEMMA LaneInit == Init => LaneInv
<1> SUFFICES ASSUME Init PROVE LaneInv
  OBVIOUS
<1>1. \A t \in Tasks : main.task[t] = Planned /\ attempt[t] = None /\ tree[t] = None /\ opened[t] = 0
  BY DEF Init
<1>2. /\ Planned.lifecycle = "OPEN" /\ ~Planned.claimed /\ Planned.attempt = 0 /\ abandoned = {}
  BY DEF Init, Planned
<1> QED
  BY <1>1, <1>2, ConfigInit DEF LaneInv, LaneOf, AttemptInv, RetainedInv, AbandonedInv, NumberInv, Retained

\* Beside a live attempt no other task holds the lane or has a live attempt.
LEMMA SoleRetained ==
  ASSUME LaneInv, NEW t \in Tasks, NEW u \in Tasks \ {t}, Retained(t)
  PROVE  ~main.task[u].claimed /\ ~Retained(u) /\ (attempt[u] # None => main.task[u].lifecycle # "OPEN")
<1>1. main.task[t].claimed /\ OneClaim(main) /\ (Retained(u) => main.task[u].claimed)
  BY MainConfig DEF LaneInv, LaneOf, RetainedInv
<1>2. ~main.task[u].claimed
  BY <1>1 DEF OneClaim
<1> QED
  BY <1>1, <1>2 DEF LaneInv, LaneOf, AttemptInv

LEMMA ReadyKeepsLane ==
  ASSUME TypeInv, LaneInv, ConfigInv', NEW t \in Tasks, ready(t) PROVE LaneInv'
<1>1. /\ main' = _set_state(main, t, "READY", main.task[t].attempt, main.task[t].approved)
      /\ UNCHANGED <<abandoned, tree, attempt, opened, passed>>
      /\ main.task[t].lifecycle = "OPEN" /\ ~main.task[t].claimed /\ t \notin abandoned
  BY OpenIsTheRest, PlannedFacts DEF ready, taskVars
<1>2. \A u \in Tasks : ~main.task[u].claimed
  BY MainConfig, WorkflowAssumption DEF ready, ActiveClaimed, LaneInv, OneClaim, WorkflowAssumption
<1>3. "READY" \in STATES /\ "READY" \notin Closed
  BY StatesAre DEF Closed
<1>4. /\ main'.active = t /\ \A u \in Tasks \ {t} : main'.task[u] = main.task[u]
      /\ main'.task[t].attempt = main.task[t].attempt
      /\ main'.task[t].lifecycle = "OPEN" /\ main'.task[t].claimed
  BY <1>1, <1>3, OpenIsTheRest, SetStateIs
<1>5. \A u \in Tasks : ~Retained(u)
  BY <1>2 DEF LaneInv, LaneOf, RetainedInv
<1>6. ASSUME NEW u \in Tasks PROVE LaneOf(u)'
  BY <1>1, <1>4, <1>5 DEF LaneInv, LaneOf, AttemptInv, RetainedInv, AbandonedInv, NumberInv, Retained
<1> QED
  BY <1>6 DEF LaneInv

LEMMA BeginsKeepsLane ==
  ASSUME TypeInv, LaneInv, ConfigInv', NEW t \in Tasks, Begins(t) PROVE LaneInv'
<1>1. /\ UNCHANGED <<main, abandoned, passed>> /\ attempt[t] = None /\ tree[t] = None
      /\ main.task[t].lifecycle = "OPEN" /\ main.task[t].claimed /\ t \notin abandoned
  BY OpenIsTheRest, ReadyFacts DEF Begins
<1>2. PICK w : /\ tree' = [tree EXCEPT ![t] = w] /\ WorktreeShape(w)
               /\ \/ w.config = main /\ UNCHANGED <<attempt, opened>>
                  \/ \E a \in AttemptRecords :
                       /\ a.attempt = main.task[t].attempt + 1
                       /\ w.config = _set_state(main, t, "IN_DEVELOPMENT", a.attempt, 0)
                       /\ attempt' = [attempt EXCEPT ![t] = a]
                       /\ opened' = [opened EXCEPT ![t] = IF a.attempt > @ THEN a.attempt ELSE @]
  BY DEF Begins
<1>4. \A u \in Tasks \ {t} : w.config.task[u] = main.task[u]
  <2>1. CASE w.config = main
    BY <2>1
  <2>2. ASSUME NEW a \in AttemptRecords, w.config = _set_state(main, t, "IN_DEVELOPMENT", a.attempt, 0)
        PROVE  <1>4
    <3>1. "IN_DEVELOPMENT" \in STATES /\ a.attempt \in 0..MaxAttempts /\ 0 \in 0..MaxAttempts
      BY StatesAre, WorkflowAssumption DEF AttemptRecords, WorkflowAssumption
    <3> DEFINE n == a.attempt
               s == "IN_DEVELOPMENT"
               config == main
    <3>2. config \in Configs /\ n \in 0..MaxAttempts /\ s \in STATES /\ 0 \in 0..MaxAttempts
      BY <3>1, OpenIsTheRest
    <3>3. w.config = _set_state(config, t, s, n, 0)
      BY <2>2
    <3> HIDE DEF n, s, config
    <3>4. \A u \in Tasks \ {t} : w.config.task[u] = config.task[u]
      BY <3>2, <3>3, SetStateIs
    <3> QED
      BY <3>4 DEF config
  <2> QED
    BY <1>2, <2>1, <2>2
<1>5. /\ \A u \in Tasks \ {t} : tree'[u] = tree[u] /\ attempt'[u] = attempt[u] /\ opened'[u] = opened[u]
      /\ tree'[t] = w
  BY <1>2 DEF TypeInv
<1>6. /\ attempt'[t] # None => attempt'[t].attempt >= opened'[t]
      /\ attempt'[t] = None => opened'[t] = opened[t]
  <2>1. CASE UNCHANGED <<attempt, opened>>
    BY <2>1, <1>1
  <2>2. ASSUME NEW a \in AttemptRecords, a.attempt = main.task[t].attempt + 1,
               attempt' = [attempt EXCEPT ![t] = a],
               opened' = [opened EXCEPT ![t] = IF a.attempt > @ THEN a.attempt ELSE @]
        PROVE  <1>6
    <3>1. main.task[t].attempt >= opened[t]
      BY <1>1 DEF LaneInv, LaneOf, NumberInv
    <3>2. a # None
      BY WorkflowAssumption DEF WorkflowAssumption, AttemptRecords
    <3>3. attempt'[t] = a /\ opened'[t] = IF a.attempt > opened[t] THEN a.attempt ELSE opened[t]
      BY <2>2 DEF TypeInv
    <3>4. a.attempt \in Nat /\ opened[t] \in Nat /\ main.task[t].attempt \in Nat
      BY OpenIsTheRest, WorkflowAssumption DEF TypeInv, AttemptRecords, WorkflowAssumption
    <3> QED
      BY <2>2, <3>1, <3>2, <3>3, <3>4
  <2> QED
    BY <1>2, <2>1, <2>2
<1>8. ASSUME NEW u \in Tasks \ {t} PROVE LaneOf(u)'
  BY <1>1, <1>5 DEF LaneInv, LaneOf, AttemptInv, RetainedInv, AbandonedInv, NumberInv, Retained
<1>9. LaneOf(t)'
  <2>2. RetainedInv(t)'
    BY <1>1, <1>4, <1>5 DEF LaneInv, LaneOf, RetainedInv, AbandonedInv
  <2>3. AttemptInv(t)' /\ AbandonedInv(t)' /\ NumberInv(t)'
    BY <1>1, <1>6 DEF LaneInv, LaneOf, AttemptInv, AbandonedInv, NumberInv
  <2> QED
    BY <2>2, <2>3 DEF LaneOf
<1> QED
  BY <1>8, <1>9 DEF LaneInv

\* A step on the branch of a task with a live attempt: what it does to the
\* worktree and to the attempt.
OnBranch(t, w, a) ==
    /\ UNCHANGED <<main, abandoned>>
    /\ tree' = [tree EXCEPT ![t] = w] /\ attempt' = [attempt EXCEPT ![t] = a]
    /\ \A u \in Tasks \ {t} : w.config.task[u] = tree[t].config.task[u]
    /\ a.attempt >= opened'[t] /\ \A u \in Tasks \ {t} : opened'[u] = opened[u]

LEMMA BranchKeepsLane ==
  ASSUME TypeInv, LaneInv, ConfigInv', NEW t \in Tasks, Retained(t),
         NEW w, NEW a \in AttemptRecords, OnBranch(t, w, a)
  PROVE  LaneInv'
<1>0. /\ UNCHANGED <<main, abandoned>>
      /\ tree' = [tree EXCEPT ![t] = w] /\ attempt' = [attempt EXCEPT ![t] = a]
      /\ \A u \in Tasks \ {t} : w.config.task[u] = tree[t].config.task[u]
      /\ a.attempt >= opened'[t] /\ \A u \in Tasks \ {t} : opened'[u] = opened[u]
  BY DEF OnBranch
<1>1. /\ \A u \in Tasks \ {t} : tree'[u] = tree[u] /\ attempt'[u] = attempt[u]
      /\ tree'[t] = w /\ attempt'[t] = a
  BY <1>0 DEF TypeInv
<1>3. ASSUME NEW u \in Tasks \ {t} PROVE LaneOf(u)'
  BY <1>0, <1>1 DEF LaneInv, LaneOf, AttemptInv, RetainedInv, AbandonedInv, NumberInv, Retained
<1>4. a # None
  BY WorkflowAssumption DEF WorkflowAssumption, AttemptRecords
<1>6. RetainedInv(t)'
  BY <1>0, <1>1 DEF LaneInv, LaneOf, RetainedInv
<1>7. AttemptInv(t)' /\ AbandonedInv(t)' /\ NumberInv(t)'
  BY <1>0, <1>1, <1>4 DEF LaneInv, LaneOf, AttemptInv, AbandonedInv, NumberInv, Retained
<1> QED
  BY <1>3, <1>6, <1>7 DEF LaneInv, LaneOf

LEMMA RetriesKeepsLane ==
  ASSUME TypeInv, LaneInv, ConfigInv', NEW t \in Tasks, Retries(t) PROVE LaneInv'
<1>1. Retained(t) /\ UNCHANGED <<main, abandoned>>
  BY DEF Retries
<1>2. PICK w : /\ tree' = [tree EXCEPT ![t] = w]
               /\ \E a \in AttemptRecords :
                    /\ a.attempt = attempt[t].attempt + 1
                    /\ w.config = _set_state(tree[t].config, t, "IN_DEVELOPMENT", a.attempt, 0)
                    /\ attempt' = [attempt EXCEPT ![t] = a]
                    /\ opened' = [opened EXCEPT ![t] = IF a.attempt > @ THEN a.attempt ELSE @]
  BY DEF Retries
<1>3. PICK a \in AttemptRecords :
                    /\ a.attempt = attempt[t].attempt + 1
                    /\ w.config = _set_state(tree[t].config, t, "IN_DEVELOPMENT", a.attempt, 0)
                    /\ attempt' = [attempt EXCEPT ![t] = a]
                    /\ opened' = [opened EXCEPT ![t] = IF a.attempt > @ THEN a.attempt ELSE @]
  BY <1>2
<1>4. /\ "IN_DEVELOPMENT" \in STATES /\ a.attempt \in 0..MaxAttempts /\ 0 \in 0..MaxAttempts /\ a.attempt \in Nat
  BY StatesAre, WorkflowAssumption DEF AttemptRecords, WorkflowAssumption
<1>5. \A u \in Tasks \ {t} : w.config.task[u] = tree[t].config.task[u]
  <2> DEFINE config == tree[t].config
             number == a.attempt
             s == "IN_DEVELOPMENT"
  <2>1. config \in Configs /\ number \in 0..MaxAttempts /\ s \in STATES /\ 0 \in 0..MaxAttempts
    BY <1>1, <1>4, RetainedShape
  <2>2. w.config = _set_state(config, t, s, number, 0)
    BY <1>3
  <2> HIDE DEF config, number, s
  <2>3. \A u \in Tasks \ {t} : w.config.task[u] = config.task[u]
    BY <2>1, <2>2, SetStateIs
  <2> QED
    BY <2>3 DEF config
<1>6. /\ a.attempt >= opened'[t] /\ \A u \in Tasks \ {t} : opened'[u] = opened[u]
  <2>1. attempt[t].attempt >= opened[t] /\ attempt[t].attempt \in Nat /\ opened[t] \in Nat
    BY <1>1, RetainedShape, WorkflowAssumption
    DEF LaneInv, LaneOf, AttemptInv, Retained, TypeInv, WorkflowAssumption
  <2> QED
    BY <1>3, <1>4, <2>1 DEF TypeInv
<1>7. OnBranch(t, w, a)
  BY <1>1, <1>2, <1>3, <1>5, <1>6 DEF OnBranch
<1> QED
  BY <1>1, <1>7, BranchKeepsLane

LEMMA SessionKeepsLane ==
  ASSUME TypeInv, LaneInv, ConfigInv', NEW t \in Tasks, SessionStep(t) PROVE LaneInv'
<1>1. Retained(t) /\ UNCHANGED <<main, abandoned, opened>>
  BY DEF SessionStep
<1>2. PICK w : /\ tree' = [tree EXCEPT ![t] = w]
               /\ \/ w.config = tree[t].config
                  \/ \E s \in STATES, n \in 0..MaxAttempts :
                       w.config = _set_state(tree[t].config, t, s, attempt[t].attempt, n)
  BY DEF SessionStep
<1>3. PICK a \in AttemptRecords :
          attempt' = [attempt EXCEPT ![t] = a] /\ a.attempt = attempt[t].attempt
  BY DEF SessionStep
<1>4. attempt[t].attempt >= opened[t]
  BY <1>1 DEF LaneInv, LaneOf, AttemptInv, Retained
<1>5. \A u \in Tasks \ {t} : w.config.task[u] = tree[t].config.task[u]
  <2>1. CASE w.config = tree[t].config
    BY <2>1
  <2>2. ASSUME NEW s \in STATES, NEW n \in 0..MaxAttempts,
               w.config = _set_state(tree[t].config, t, s, attempt[t].attempt, n)
        PROVE  <1>5
    <3> DEFINE config == tree[t].config
               number == attempt[t].attempt
    <3>1. config \in Configs /\ number \in 0..MaxAttempts
      BY <1>1, RetainedShape
    <3>2. w.config = _set_state(config, t, s, number, n)
      BY <2>2
    <3> HIDE DEF config, number
    <3>3. \A u \in Tasks \ {t} : w.config.task[u] = config.task[u]
      BY <3>1, <3>2, SetStateIs
    <3> QED
      BY <3>3 DEF config
  <2> QED
    BY <1>2, <2>1, <2>2
<1>6. OnBranch(t, w, a)
  BY <1>1, <1>2, <1>3, <1>4, <1>5 DEF OnBranch
<1> QED
  BY <1>1, <1>6, BranchKeepsLane

\* Main takes over the configuration of the live worktree, with the status of its
\* task changed to a closed one.
LEMMA TakeoverKeepsLane ==
  ASSUME TypeInv, LaneInv, ConfigInv', NEW t \in Tasks, Retained(t),
         ~main'.task[t].claimed, main'.task[t].lifecycle # "OPEN",
         \A u \in Tasks \ {t} : main'.task[u] = tree[t].config.task[u],
         main'.task[t].lifecycle = "DELIVERED" => t \notin abandoned',
         tree' = [tree EXCEPT ![t] = None],
         attempt' = [attempt EXCEPT ![t] = None] \/ (attempt' = attempt /\ t \notin abandoned'),
         abandoned' \subseteq abandoned \cup {t}, abandoned \subseteq abandoned', opened' = opened
  PROVE  LaneInv'
<1>1. /\ \A u \in Tasks \ {t} : tree'[u] = tree[u] /\ attempt'[u] = attempt[u]
      /\ tree'[t] = None
      /\ attempt'[t] = None \/ (attempt'[t] = attempt[t] /\ t \notin abandoned')
  BY DEF TypeInv
<1>2. \A u \in Tasks \ {t} :
         /\ ~tree[t].config.task[u].claimed
         /\ u \in abandoned => tree[t].config.task[u].lifecycle # "DELIVERED"
         /\ u \notin abandoned => tree[t].config.task[u] = main.task[u]
  BY TreeConfig DEF LaneInv, LaneOf, RetainedInv, Unclaimed
<1>4. ASSUME NEW u \in Tasks \ {t} PROVE LaneOf(u)'
  <2>1. ~Retained(u) /\ (attempt[u] # None => main.task[u].lifecycle # "OPEN")
    BY SoleRetained
  <2>3. u \in abandoned' <=> u \in abandoned
    OBVIOUS
  <2>4. AttemptInv(u)' /\ RetainedInv(u)' /\ AbandonedInv(u)' /\ NumberInv(u)'
    BY <1>1, <1>2, <2>1, <2>3
    DEF LaneInv, LaneOf, AttemptInv, RetainedInv, AbandonedInv, NumberInv, Retained
  <2> QED
    BY <2>4 DEF LaneOf
<1>5. LaneOf(t)'
  BY <1>1 DEF LaneInv, LaneOf, AttemptInv, RetainedInv, AbandonedInv, NumberInv, Retained
<1> QED
  BY <1>4, <1>5 DEF LaneInv

LEMMA LandingKeepsLane ==
  ASSUME TypeInv, LaneInv, ConfigInv', NEW t \in Tasks, Landing(t) PROVE LaneInv'
<1>1. /\ Retained(t) /\ abandoned' = abandoned /\ opened' = opened
      /\ tree' = [tree EXCEPT ![t] = None]
      /\ attempt' = attempt \/ attempt' = [attempt EXCEPT ![t] = None]
  BY DEF Landing
<1>2. "APPROVED" \in STATES /\ "APPROVED" \in Closed
  BY StatesAre DEF Closed
<1>3. /\ \A u \in Tasks \ {t} : main'.task[u] = tree[t].config.task[u]
      /\ main'.task[t].lifecycle = "DELIVERED" /\ ~main'.task[t].claimed
  BY <1>1, <1>2, RetainedShape, SetStateIs DEF Landing
<1>4. t \notin abandoned'
  BY <1>1 DEF LaneInv, LaneOf, AttemptInv, Retained
<1> QED
  BY <1>1, <1>3, <1>4, TakeoverKeepsLane

LEMMA ClosesKeepsLane ==
  ASSUME NoDeathInAbandon, TypeInv, LaneInv, ConfigInv', NEW t \in Tasks, Closes(t) PROVE LaneInv'
<1>1. /\ main'.task[t].lifecycle = "ABANDONED" /\ ~main'.task[t].claimed
      /\ \A u \in Tasks \ {t} : main'.task[u] = LiveConfig(t).task[u]
      /\ LiveConfig(t).task[t].lifecycle = "OPEN"
      /\ abandoned' = abandoned \cup {t} /\ opened' = opened
  BY DEF Closes
<1>2. attempt' = [attempt EXCEPT ![t] = None] /\ tree' = [tree EXCEPT ![t] = None]
  BY DEF Closes, NoDeathInAbandon, Interrupted
<1>3. CASE Retained(t)
  <2>1. LiveConfig(t) = tree[t].config
    BY <1>3 DEF LiveConfig
  <2> QED
    BY <1>1, <1>2, <1>3, <2>1, TakeoverKeepsLane
<1>4. CASE ~Retained(t)
  <2>1. LiveConfig(t) = main
    BY <1>4 DEF LiveConfig
  <2>2. /\ \A u \in Tasks \ {t} : tree'[u] = tree[u] /\ attempt'[u] = attempt[u]
        /\ tree'[t] = None /\ attempt'[t] = None
    BY <1>2 DEF TypeInv
  <2>4. ASSUME NEW u \in Tasks \ {t} PROVE LaneOf(u)'
    <3>2. RetainedInv(u)'
      <4> SUFFICES ASSUME Retained(u)' PROVE RetainedInv(u)'
        BY DEF RetainedInv
      <4>1. Retained(u) /\ main'.task[u] = main.task[u] /\ tree'[u] = tree[u]
        BY <1>1, <2>1, <2>2 DEF Retained
      <4>2. main.task[t].lifecycle = "OPEN"
        BY <1>1, <2>1
      <4>3. \A v \in Tasks \ {u} :
               /\ v \in abandoned => tree[u].config.task[v].lifecycle # "DELIVERED"
               /\ v \notin abandoned => tree[u].config.task[v] = main.task[v]
        BY <4>1 DEF LaneInv, LaneOf, RetainedInv
      <4>4. \A v \in Tasks \ {u} :
               /\ v \in abandoned' => tree'[u].config.task[v].lifecycle # "DELIVERED"
               /\ v \notin abandoned' => tree'[u].config.task[v] = main'.task[v]
        BY <1>1, <2>1, <4>1, <4>2, <4>3
      <4> QED
        BY <4>1, <4>4 DEF LaneInv, LaneOf, RetainedInv
    <3>3. AttemptInv(u)' /\ AbandonedInv(u)' /\ NumberInv(u)'
      BY <1>1, <2>1, <2>2 DEF LaneInv, LaneOf, AttemptInv, AbandonedInv, NumberInv
    <3> QED
      BY <3>2, <3>3 DEF LaneOf
  <2>5. LaneOf(t)'
    BY <1>1, <2>2 DEF LaneOf, AttemptInv, RetainedInv, AbandonedInv, NumberInv, Retained
  <2> QED
    BY <2>4, <2>5 DEF LaneInv
<1> QED
  BY <1>3, <1>4

LEMMA LossKeepsLane ==
  ASSUME TypeInv, LaneInv, ConfigInv', NEW t \in Tasks, WorktreeLost(t) PROVE LaneInv'
<1>1. /\ UNCHANGED <<main, abandoned, attempt, opened>>
      /\ tree'[t] = None /\ \A u \in Tasks \ {t} : tree'[u] = tree[u]
  BY DEF WorktreeLost, TypeInv
<1>2. \A u \in Tasks : LaneOf(u)'
  BY <1>1 DEF LaneInv, LaneOf, AttemptInv, RetainedInv, AbandonedInv, NumberInv, Retained
<1> QED
  BY <1>2 DEF LaneInv

LEMMA DiscardKeepsLane ==
  ASSUME TypeInv, LaneInv, ConfigInv', NEW t \in Tasks, discard_attempt(t) PROVE LaneInv'
<1>1. /\ attempt[t] # None /\ tree[t] = None
      /\ main' = [main EXCEPT !.task[t].attempt = Consumed(t)]
      /\ UNCHANGED <<abandoned, tree, opened>>
      /\ attempt'[t] = None /\ \A u \in Tasks \ {t} : attempt'[u] = attempt[u]
  BY DEF discard_attempt, TypeInv
<1>2. /\ \A u \in Tasks \ {t} : main'.task[u] = main.task[u]
      /\ main'.task[t].lifecycle = main.task[t].lifecycle
      /\ main'.task[t].claimed = main.task[t].claimed
      /\ main'.task[t].attempt = Consumed(t)
      /\ Consumed(t) = main.task[t].attempt => main'.task[t] = main.task[t]
  BY <1>1, OpenIsTheRest DEF Configs
<1>3. t \notin abandoned /\ attempt[t].attempt >= opened[t]
  BY <1>1 DEF LaneInv, LaneOf, AttemptInv
<1>4. main.task[t].lifecycle = "OPEN" => Consumed(t) >= opened[t]
  <2>1. attempt[t].attempt \in Nat /\ main.task[t].attempt \in Nat /\ opened[t] \in Nat
    BY <1>1, OpenIsTheRest, WorkflowAssumption DEF TypeInv, AttemptRecords, WorkflowAssumption
  <2> QED
    BY <1>3, <2>1 DEF Consumed
<1>6. ASSUME NEW u \in Tasks \ {t} PROVE LaneOf(u)'
  <2>1. Retained(u) => main'.task[t] = main.task[t]
    <3>1. Retained(u) => main.task[t].lifecycle # "OPEN"
      BY <1>1, SoleRetained
    <3> QED
      BY <1>2, <3>1 DEF Consumed
  <2>3. RetainedInv(u)'
    BY <1>1, <1>2, <2>1 DEF LaneInv, LaneOf, RetainedInv, Retained
  <2>4. AttemptInv(u)' /\ AbandonedInv(u)' /\ NumberInv(u)'
    BY <1>1, <1>2 DEF LaneInv, LaneOf, AttemptInv, AbandonedInv, NumberInv
  <2> QED
    BY <2>3, <2>4 DEF LaneOf
<1>7. LaneOf(t)'
  BY <1>1, <1>2, <1>3, <1>4
  DEF LaneInv, LaneOf, AttemptInv, RetainedInv, AbandonedInv, NumberInv, Retained
<1> QED
  BY <1>6, <1>7 DEF LaneInv

LEMMA RestKeepsLane ==
  ASSUME LaneInv, ConfigInv', UNCHANGED <<main, abandoned, taskVars>> PROVE LaneInv'
BY DEF LaneInv, LaneOf, AttemptInv, RetainedInv, AbandonedInv, NumberInv, Retained, taskVars

LEMMA LaneStep ==
  ASSUME NoDeathInAbandon PROVE TypeInv /\ LaneInv /\ [Next]_vars => LaneInv'
<1> SUFFICES ASSUME TypeInv, LaneInv, [Next]_vars PROVE LaneInv'
  OBVIOUS
<1>0. ConfigInv'
  BY ConfigStep DEF LaneInv
<1>1. ASSUME NEW t \in Tasks, TaskStep(t) PROVE LaneInv'
  BY <1>0, <1>1, TaskStepCases, ReadyKeepsLane, BeginsKeepsLane, RetriesKeepsLane, SessionKeepsLane,
     LandingKeepsLane, ClosesKeepsLane, LossKeepsLane, DiscardKeepsLane
<1>2. CASE AmendmentStep
  BY <1>0, <1>2, AmendmentsLeaveTasks, RestKeepsLane
<1>3. ASSUME NEW m \in Repairs, RepairStep(m) PROVE LaneInv'
  BY <1>0, <1>3, RepairsLeaveTasks, RestKeepsLane
<1>4. CASE UNCHANGED vars
  BY <1>0, <1>4, RestKeepsLane DEF vars
<1> QED
  BY <1>1, <1>2, <1>3, <1>4 DEF Next

LEMMA LaneAlways ==
  ASSUME NoDeathInAbandon PROVE Spec => [](TypeInv /\ LaneInv)
<1>1. Init => TypeInv /\ LaneInv
  BY TypeInit, LaneInit
<1>2. (TypeInv /\ LaneInv) /\ [Next]_vars => (TypeInv /\ LaneInv)'
  BY TypeStep, LaneStep
<1> QED
  BY <1>1, <1>2, PTL DEF Spec

-----------------------------------------------------------------------------
(* What a step does to main.                                               *)

DeliveriesStay == \A t \in Tasks : main.task[t].lifecycle = "DELIVERED" => main'.task[t] = main.task[t]

\* A worktree that takes over main agrees with it about every delivered task.
LEMMA LiveConfigAgrees ==
  ASSUME LaneInv, NEW t \in Tasks, NEW u \in Tasks \ {t}, main.task[u].lifecycle = "DELIVERED"
  PROVE  LiveConfig(t).task[u] = main.task[u]
<1>1. u \notin abandoned
  BY DEF LaneInv, LaneOf, AbandonedInv
<1> QED
  BY <1>1 DEF LaneInv, LaneOf, RetainedInv, LiveConfig

LEMMA ReadyKeepsDeliveries ==
  ASSUME TypeInv, LaneInv, NEW t \in Tasks, ready(t) PROVE DeliveriesStay
<1>1. /\ main' = _set_state(main, t, "READY", main.task[t].attempt, main.task[t].approved)
      /\ main.task[t].lifecycle # "DELIVERED"
  BY PlannedFacts DEF ready
<1>2. "READY" \in STATES
  BY StatesAre
<1>3. \A u \in Tasks \ {t} : main'.task[u] = main.task[u]
  BY <1>1, <1>2, OpenIsTheRest, SetStateIs
<1> QED
  BY <1>1, <1>3 DEF DeliveriesStay

LEMMA LandingKeepsDeliveries ==
  ASSUME TypeInv, LaneInv, NEW t \in Tasks, Landing(t) PROVE DeliveriesStay
<1>1. Retained(t) /\ main.task[t].lifecycle # "DELIVERED"
  BY DEF Landing, LaneInv, LaneOf, RetainedInv
<1>2. "APPROVED" \in STATES
  BY StatesAre
<1>3. \A u \in Tasks \ {t} : main'.task[u] = LiveConfig(t).task[u]
  BY <1>1, <1>2, RetainedShape, SetStateIs DEF Landing, LiveConfig
<1> QED
  BY <1>1, <1>3, LiveConfigAgrees DEF DeliveriesStay

LEMMA ClosesKeepsDeliveries ==
  ASSUME LaneInv, NEW t \in Tasks, Closes(t) PROVE DeliveriesStay
<1>1. /\ \A u \in Tasks \ {t} : main'.task[u] = LiveConfig(t).task[u]
      /\ LiveConfig(t).task[t].lifecycle = "OPEN"
  BY DEF Closes
<1>2. main.task[t].lifecycle = "OPEN"
  BY <1>1 DEF LiveConfig, LaneInv, LaneOf, RetainedInv
<1> QED
  BY <1>1, <1>2, LiveConfigAgrees DEF DeliveriesStay

LEMMA DiscardKeepsDeliveries ==
  ASSUME TypeInv, NEW t \in Tasks, discard_attempt(t) PROVE DeliveriesStay
<1>1. main' = [main EXCEPT !.task[t].attempt = Consumed(t)] /\ main \in Configs
  BY OpenIsTheRest DEF discard_attempt
<1>2. \A u \in Tasks \ {t} : main'.task[u] = main.task[u]
  BY <1>1 DEF Configs
<1>3. Consumed(t) = main.task[t].attempt => main'.task[t] = main.task[t]
  BY <1>1 DEF Configs
<1> QED
  BY <1>2, <1>3 DEF DeliveriesStay, Consumed

LEMMA DeliveriesStayStep ==
  ASSUME TypeInv, LaneInv, [Next]_vars PROVE DeliveriesStay
<1>0. main' = main => DeliveriesStay
  BY DEF DeliveriesStay
<1>1. ASSUME NEW t \in Tasks, TaskStep(t) PROVE DeliveriesStay
  <2>1. CASE Begins(t) \/ Retries(t) \/ SessionStep(t) \/ WorktreeLost(t)
    BY <1>0, <2>1 DEF Begins, Retries, SessionStep, WorktreeLost
  <2> QED
    BY <1>1, <2>1, TaskStepCases, ReadyKeepsDeliveries, LandingKeepsDeliveries,
       ClosesKeepsDeliveries, DiscardKeepsDeliveries
<1>2. CASE AmendmentStep
  BY <1>0, <1>2, AmendmentsLeaveTasks
<1>3. ASSUME NEW m \in Repairs, RepairStep(m) PROVE DeliveriesStay
  BY <1>0, <1>3, RepairsLeaveTasks
<1>4. CASE UNCHANGED vars
  BY <1>0, <1>4 DEF vars
<1> QED
  BY <1>1, <1>2, <1>3, <1>4 DEF Next

\* A delivery is never undone: no later command, also none that writes the
\* configuration of an older worktree over main (finish_review, abandon_task),
\* changes anything main says of a delivered task.
THEOREM DeliveriesAreFinal == NoDeathInAbandon => (Spec => ApprovedIsFinal)
<1> SUFFICES ASSUME NoDeathInAbandon PROVE Spec => ApprovedIsFinal
  OBVIOUS
<1>1. TypeInv /\ LaneInv /\ [Next]_vars => [DeliveriesStay]_vars
  BY DeliveriesStayStep
<1>2. Spec => [][DeliveriesStay]_vars
  BY <1>1, LaneAlways, PTL DEF Spec
<1> QED
  BY <1>2 DEF DeliveriesStay, ApprovedIsFinal

-----------------------------------------------------------------------------
(* The numbers of the attempts.                                            *)

NumberIsNew(t) ==
    (attempt'[t] # None /\ (attempt[t] = None \/ attempt'[t].attempt # attempt[t].attempt))
        => attempt'[t].attempt > opened[t]
NumbersAreNew == \A t \in Tasks : NumberIsNew(t)

LEMMA BeginsIsNew ==
  ASSUME TypeInv, LaneInv, NEW t \in Tasks, Begins(t) PROVE NumbersAreNew
<1>1. /\ attempt[t] = None /\ main.task[t].lifecycle = "OPEN" /\ t \notin abandoned
  BY OpenIsTheRest, ReadyFacts DEF Begins
<1>2. main.task[t].attempt >= opened[t]
  BY <1>1 DEF LaneInv, LaneOf, NumberInv
<1>3. CASE attempt' = attempt
  BY <1>3 DEF NumbersAreNew, NumberIsNew
<1>4. ASSUME NEW a \in AttemptRecords, a.attempt = main.task[t].attempt + 1,
             attempt' = [attempt EXCEPT ![t] = a]
      PROVE  NumbersAreNew
  <2>1. attempt'[t] = a /\ \A u \in Tasks \ {t} : attempt'[u] = attempt[u]
    BY <1>4 DEF TypeInv
  <2>2. main.task[t].attempt \in Nat /\ opened[t] \in Nat
    BY OpenIsTheRest, WorkflowAssumption DEF TypeInv, WorkflowAssumption
  <2>3. a.attempt > opened[t]
    BY <1>2, <1>4, <2>2
  <2> QED
    BY <2>1, <2>3 DEF NumbersAreNew, NumberIsNew
<1> QED
  BY <1>3, <1>4 DEF Begins

LEMMA RetriesIsNew ==
  ASSUME TypeInv, LaneInv, NEW t \in Tasks, Retries(t) PROVE NumbersAreNew
<1>1. attempt[t] # None /\ attempt[t].attempt >= opened[t]
  BY DEF Retries, Retained, LaneInv, LaneOf, AttemptInv
<1>2. PICK a \in AttemptRecords :
          a.attempt = attempt[t].attempt + 1 /\ attempt' = [attempt EXCEPT ![t] = a]
  BY DEF Retries
<1>3. attempt'[t] = a /\ \A u \in Tasks \ {t} : attempt'[u] = attempt[u]
  BY <1>2 DEF TypeInv
<1>4. attempt[t].attempt \in Nat /\ opened[t] \in Nat
  BY <1>1, WorkflowAssumption DEF TypeInv, WorkflowAssumption, AttemptRecords
<1>5. a.attempt > opened[t]
  BY <1>1, <1>2, <1>4
<1> QED
  BY <1>3, <1>5 DEF NumbersAreNew, NumberIsNew

\* Every other step keeps the number of a record or drops the record.
LEMMA OthersAreNotNew ==
  ASSUME TypeInv, NEW t \in Tasks,
         \/ attempt' = attempt
         \/ attempt' = [attempt EXCEPT ![t] = None]
         \/ \E a \in AttemptRecords : /\ attempt' = [attempt EXCEPT ![t] = a]
                                       /\ attempt[t] # None /\ a.attempt = attempt[t].attempt
  PROVE  NumbersAreNew
<1>1. /\ \A u \in Tasks \ {t} : attempt'[u] = attempt[u]
      /\ \/ attempt'[t] = attempt[t] \/ attempt'[t] = None
         \/ attempt[t] # None /\ attempt'[t].attempt = attempt[t].attempt
  BY DEF TypeInv
<1> QED
  BY <1>1 DEF NumbersAreNew, NumberIsNew

LEMMA NumbersAreNewStep ==
  ASSUME TypeInv, LaneInv, [Next]_vars PROVE NumbersAreNew
<1>0. attempt' = attempt => NumbersAreNew
  BY DEF NumbersAreNew, NumberIsNew
<1>1. ASSUME NEW t \in Tasks, TaskStep(t) PROVE NumbersAreNew
  <2>1. CASE ready(t) \/ WorktreeLost(t)
    BY <1>0, <2>1 DEF ready, WorktreeLost, taskVars
  <2>2. CASE SessionStep(t)
    BY <2>2, OthersAreNotNew DEF SessionStep, Retained
  <2>3. CASE Landing(t) \/ Closes(t) \/ discard_attempt(t)
    BY <2>3, OthersAreNotNew DEF Landing, Closes, discard_attempt
  <2> QED
    BY <1>1, <2>1, <2>2, <2>3, TaskStepCases, BeginsIsNew, RetriesIsNew
<1>2. CASE AmendmentStep
  BY <1>0, <1>2, AmendmentsLeaveTasks DEF taskVars
<1>3. ASSUME NEW m \in Repairs, RepairStep(m) PROVE NumbersAreNew
  BY <1>0, <1>3, RepairsLeaveTasks DEF taskVars
<1>4. CASE UNCHANGED vars
  BY <1>0, <1>4 DEF vars, taskVars
<1> QED
  BY <1>1, <1>2, <1>3, <1>4 DEF Next

\* No attempt is given a number that an attempt of the same task has had, not even
\* after its worktree was lost and the attempt discarded (discard_attempt,
\* _attempt_number), so the name of a candidate means one candidate.
THEOREM NumbersAreNeverReused == NoDeathInAbandon => (Spec => AttemptsNeverReused)
<1> SUFFICES ASSUME NoDeathInAbandon PROVE Spec => AttemptsNeverReused
  OBVIOUS
<1>1. TypeInv /\ LaneInv /\ [Next]_vars => [NumbersAreNew]_vars
  BY NumbersAreNewStep
<1>2. Spec => [][NumbersAreNew]_vars
  BY <1>1, LaneAlways, PTL DEF Spec
<1> QED
  BY <1>2 DEF NumbersAreNew, NumberIsNew, AttemptsNeverReused

-----------------------------------------------------------------------------
(* What shares the main checkout with the tasks.                           *)

NoneClaimed == \A t \in Tasks : ~main.task[t].claimed

\* A branch of the owner's that can still land was started while no task held the
\* lane, and every change of main since would have left it behind.
BesideInv ==
    /\ current \ Tasks # {} => NoneClaimed
    /\ AMENDMENT \in current /\ amendment.target # NoTask => "PLANNED" \in InMain(main, amendment.target)
    /\ ClaimedContractsHold

LEMMA BesideInit == Init => BesideInv
<1> SUFFICES ASSUME Init PROVE BesideInv
  OBVIOUS
<1>1. current = {} /\ \A t \in Tasks : ~main.task[t].claimed
  BY DEF Init, Planned
<1> QED
  BY <1>1 DEF BesideInv, NoneClaimed, ClaimedContractsHold

LEMMA NobodyActive == ASSUME ConfigInv, ~ActiveClaimed PROVE NoneClaimed
BY WorkflowAssumption DEF ActiveClaimed, ConfigInv, MainInv, OneClaim, NoneClaimed, WorkflowAssumption

\* Only an activation gives the lane to a task.
LEMMA OnlyReadyClaims ==
  ASSUME TypeInv, ConfigInv, NEW t \in Tasks,
         Landing(t) \/ Closes(t) \/ discard_attempt(t), NEW u \in Tasks, main'.task[u].claimed
  PROVE  main.task[u].claimed
<1>1. CASE Landing(t)
  <2>1. Retained(t) /\ main' = _set_state(tree[t].config, t, "APPROVED", attempt[t].attempt, attempt[t].attempt)
    BY <1>1 DEF Landing
  <2>2. "APPROVED" \in STATES /\ "APPROVED" \in Closed
    BY StatesAre DEF Closed
  <2>3. /\ \A v \in Tasks \ {t} : main'.task[v] = tree[t].config.task[v]
        /\ ~main'.task[t].claimed
    BY <2>1, <2>2, RetainedShape, SetStateIs
  <2> QED
    BY <2>1, <2>3 DEF ConfigInv, TreeInv, Retained
<1>2. CASE Closes(t)
  <2>1. u # t /\ LiveConfig(t).task[u].claimed
    BY <1>2 DEF Closes
  <2> QED
    BY <2>1 DEF LiveConfig, ConfigInv, TreeInv, Retained
<1>3. CASE discard_attempt(t)
  BY <1>3, OpenIsTheRest DEF discard_attempt, Configs
<1> QED
  BY <1>1, <1>2, <1>3

LEMMA ReadyKeepsBeside ==
  ASSUME TypeInv, ConfigInv, BesideInv, NEW t \in Tasks, ready(t) PROVE BesideInv'
<1>1. /\ main' = _set_state(main, t, "READY", main.task[t].attempt, main.task[t].approved)
      /\ current' = {} /\ impacts' = impacts /\ NoneClaimed
      /\ \A d \in _dependency_closure(t) : _unresolved_task_impacts(d) = {}
  BY NobodyActive DEF ready, MainMoves
<1>2. "READY" \in STATES
  BY StatesAre
<1>3. \A u \in Tasks \ {t} : main'.task[u] = main.task[u]
  BY <1>1, <1>2, OpenIsTheRest, SetStateIs
<1>4. ClaimedContractsHold'
  <2> SUFFICES ASSUME NEW u \in Tasks, main'.task[u].claimed, NEW d \in _dependency_closure(u)
               PROVE  _unresolved_task_impacts(d)' = {}
    BY DEF ClaimedContractsHold, _dependency_closure
  <2>1. u = t
    BY <1>1, <1>3 DEF NoneClaimed
  <2> QED
    BY <1>1, <2>1 DEF _unresolved_task_impacts
<1> QED
  BY <1>1, <1>4 DEF BesideInv

\* A step that starts no branch of the owner's and raises no conflict.
LEMMA QuietKeepsBeside ==
  ASSUME BesideInv, impacts' = impacts, amendment' = amendment,
         \A u \in Tasks : main'.task[u].claimed => main.task[u].claimed,
         current' = {} \/ (main' = main /\ abandoned' = abandoned /\ current' \subseteq current \cup Tasks)
  PROVE  BesideInv'
<1>1. ClaimedContractsHold'
  BY DEF BesideInv, ClaimedContractsHold, _unresolved_task_impacts, _dependency_closure
<1>2. AMENDMENT \notin Tasks
  BY WorkflowAssumption DEF WorkflowAssumption
<1> QED
  BY <1>1, <1>2 DEF BesideInv, NoneClaimed, InMain, Admitted

LEMMA TaskKeepsBeside ==
  ASSUME TypeInv, ConfigInv, BesideInv, NEW t \in Tasks, TaskStep(t) PROVE BesideInv'
<1>1. CASE Begins(t)
  BY <1>1, QuietKeepsBeside DEF Begins, laneVars
<1>2. CASE Retries(t) \/ SessionStep(t) \/ WorktreeLost(t)
  BY <1>2, QuietKeepsBeside DEF Retries, SessionStep, WorktreeLost, laneVars
<1>3. CASE Landing(t) \/ Closes(t) \/ discard_attempt(t)
  <2>1. impacts' = impacts /\ amendment' = amendment /\ current' = {}
    BY <1>3 DEF Landing, Closes, discard_attempt, laneVars, MainMoves
  <2>2. \A u \in Tasks : main'.task[u].claimed => main.task[u].claimed
    BY <1>3, OnlyReadyClaims
  <2> QED
    BY <2>1, <2>2, QuietKeepsBeside
<1> QED
  BY <1>1, <1>2, <1>3, TaskStepCases, ReadyKeepsBeside

\* An amendment's own steps other than its start keep its target and the branches,
\* or close it; conflicts change only when it lands.
AmendmentGoesOn ==
    /\ amendment'.target = amendment.target \/ amendment'.target = NoTask
    /\ current' \subseteq current
    /\ impacts' = impacts \/ AMENDMENT \in current
    /\ Landed(amendment') => Landed(amendment) \/ AMENDMENT \in current

LEMMA AmendmentsGoOn ==
  ASSUME TypeInv, AmendmentStep, \A target \in Tasks \cup {NoTask} : ~prepare_amendment(target)
  PROVE  AmendmentGoesOn
<1>0. amendment \in AmendmentRecords
  BY DEF TypeInv
<1>1. ASSUME NEW raised \in Impacted, NEW resolves \in SUBSET impacts, finish_amendment(raised, resolves)
      PROVE  AmendmentGoesOn
  BY <1>0, <1>1 DEF finish_amendment, AmendmentGoesOn, AmendmentRecords, Landed
<1>2. CASE block_amendment \/ prepare_amendment_review \/ prepare_amendment_retry
  BY <1>0, <1>2
  DEF block_amendment, prepare_amendment_review, prepare_amendment_retry, AmendmentGoesOn, AmendmentRecords, Landed
<1>3. CASE withdraw_amendment
  BY <1>3 DEF withdraw_amendment, ClosedAmendment, AmendmentRecord, AmendmentGoesOn, Landed
<1>4. ASSUME NEW v \in DOMAIN _PLAN_REVIEW_VERDICTS, finish_amendment_review(v) PROVE AmendmentGoesOn
  <2> DEFINE judged == [amendment EXCEPT !.at = "report", !.reviewing = FALSE]
             status == IF v = "PASS" THEN judged.status
                       ELSE IF v = "FAIL" THEN "CHANGES_REQUESTED" ELSE "BLOCKED"
  <2>1. /\ judged.target = amendment.target /\ judged.status = amendment.status
        /\ judged.at = "report" /\ judged \in AmendmentRecords
    BY <1>0 DEF AmendmentRecords
  <2>2. \/ /\ AMENDMENT \in current /\ current' = {}
           /\ amendment' = ClosedAmendment("APPROVED") \/ amendment' = [judged EXCEPT !.at = "main"]
        \/ amendment' = [judged EXCEPT !.status = status] /\ impacts' = impacts /\ current' = current
    BY <1>4 DEF finish_amendment_review, MainMoves
  <2>3. ClosedAmendment("APPROVED").target = NoTask
    BY DEF ClosedAmendment, AmendmentRecord
  <2>4. status = "APPROVED" => amendment.status = "APPROVED"
    BY <2>1
  <2> HIDE DEF judged, status
  <2>5. /\ [judged EXCEPT !.status = status].target = judged.target
        /\ [judged EXCEPT !.status = status].status = status
        /\ [judged EXCEPT !.status = status].at = "report"
        /\ [judged EXCEPT !.at = "main"].target = judged.target
    BY <2>1 DEF AmendmentRecords
  <2> QED
    BY <2>1, <2>2, <2>3, <2>4, <2>5 DEF AmendmentGoesOn, Landed
<1> QED
  BY <1>1, <1>2, <1>3, <1>4 DEF AmendmentStep

LEMMA AmendmentKeepsBeside ==
  ASSUME TypeInv, ConfigInv, BesideInv, AmendmentStep PROVE BesideInv'
<1>0. UNCHANGED <<main, abandoned>>
  BY AmendmentsLeaveTasks
<1>1. ASSUME NEW target \in Tasks \cup {NoTask}, prepare_amendment(target) PROVE BesideInv'
  <2>1. NoneClaimed /\ impacts' = impacts /\ (target # NoTask => "PLANNED" \in InMain(main, target))
    BY <1>1, NobodyActive DEF prepare_amendment
  <2>2. amendment'.target = target
    BY <1>1 DEF prepare_amendment, AmendmentRecord
  <2> QED
    BY <1>0, <2>1, <2>2 DEF BesideInv, NoneClaimed, ClaimedContractsHold, InMain, Admitted
<1>2. CASE \A target \in Tasks \cup {NoTask} : ~prepare_amendment(target)
  <2>1. AmendmentGoesOn
    BY <1>2, AmendmentsGoOn
  <2>2. AMENDMENT \in current => NoneClaimed
    BY WorkflowAssumption DEF BesideInv, WorkflowAssumption
  <2>3. ClaimedContractsHold'
    <3>1. CASE impacts' = impacts
      BY <1>0, <3>1 DEF BesideInv, ClaimedContractsHold, _unresolved_task_impacts, _dependency_closure
    <3>2. CASE NoneClaimed
      BY <1>0, <3>2 DEF NoneClaimed, ClaimedContractsHold
    <3> QED
      BY <2>1, <2>2, <3>1, <3>2 DEF AmendmentGoesOn
  <2> QED
    BY <1>0, <2>1, <2>3 DEF AmendmentGoesOn, BesideInv, NoneClaimed, InMain, Admitted
<1> QED
  BY <1>1, <1>2

LEMMA RepairKeepsBeside ==
  ASSUME TypeInv, ConfigInv, BesideInv, NEW m \in Repairs, RepairStep(m) PROVE BesideInv'
<1>0. UNCHANGED <<main, abandoned, impacts, amendment>>
  BY RepairsLeaveTasks
<1>1. CASE prepare_maintenance(m)
  <2>1. NoneClaimed /\ current' = current \cup {m} /\ m # AMENDMENT
    BY <1>1, NobodyActive, WorkflowAssumption DEF prepare_maintenance, WorkflowAssumption
  <2> QED
    BY <1>0, <2>1 DEF BesideInv, NoneClaimed, ClaimedContractsHold, InMain, Admitted
<1>2. CASE ~prepare_maintenance(m)
  <2>1. current' \subseteq current
    BY <1>2 DEF RepairStep, finish_maintenance_develop, prepare_maintenance_retry,
       prepare_maintenance_review, finish_maintenance_review, abandon_maintenance, MainMoves
  <2> QED
    BY <1>0, <2>1, QuietKeepsBeside
<1> QED
  BY <1>1, <1>2

LEMMA BesideAlways == Spec => [](TypeInv /\ ConfigInv /\ BesideInv)
<1>1. TypeInv /\ ConfigInv /\ BesideInv /\ [Next]_vars => BesideInv'
  <2> SUFFICES ASSUME TypeInv, ConfigInv, BesideInv, [Next]_vars PROVE BesideInv'
    OBVIOUS
  <2>1. CASE UNCHANGED vars
    BY <2>1, QuietKeepsBeside DEF vars, laneVars
  <2> QED
    BY <2>1, TaskKeepsBeside, AmendmentKeepsBeside, RepairKeepsBeside DEF Next
<1> QED
  BY <1>1, BesideInit, ConfigAlways, PTL DEF Spec

\* While a task holds the lane no conflict is open on its contract or on anything
\* it depends on, however amendments and activations interleave (ready,
\* finish_amendment_review).
THEOREM ContractsHoldWhileClaimed == Spec => []ClaimedContractsHold
<1>1. BesideInv => ClaimedContractsHold
  BY DEF BesideInv
<1> QED
  BY <1>1, BesideAlways, PTL

AmendmentLands == Landed(amendment') /\ ~Landed(amendment)
RepairLands(m) == Landed(repair'[m]) /\ ~Landed(repair[m])

LEMMA LandingAmendmentIsCurrent ==
  ASSUME TypeInv, [Next]_vars, AmendmentLands PROVE AMENDMENT \in current
<1>1. AmendmentStep
  <2>1. amendment' # amendment
    BY DEF AmendmentLands
  <2> QED
    BY <2>1, TaskStepCases, RepairsLeaveTasks
    DEF Next, vars, laneVars, ready, Begins, Retries, SessionStep, Landing, Closes, WorktreeLost, discard_attempt
<1>2. ASSUME NEW target \in Tasks \cup {NoTask}, prepare_amendment(target) PROVE FALSE
  BY <1>2 DEF prepare_amendment, AmendmentRecord, AmendmentLands, Landed
<1>3. AmendmentGoesOn
  BY <1>1, <1>2, AmendmentsGoOn
<1> QED
  BY <1>3 DEF AmendmentGoesOn, AmendmentLands

LEMMA LandingRepairIsCurrent ==
  ASSUME TypeInv, [Next]_vars, NEW m \in Repairs, RepairLands(m) PROVE m \in current
<1>1. PICK r \in Repairs : RepairStep(r)
  <2>1. repair' # repair
    BY DEF RepairLands
  <2> QED
    BY <2>1, TaskStepCases, AmendmentsLeaveTasks
    DEF Next, vars, laneVars, ready, Begins, Retries, SessionStep, Landing, Closes, WorktreeLost, discard_attempt
<1>0. repair \in [Repairs -> RepairRecords]
  BY DEF TypeInv
<1>2. ASSUME NEW x, repair' = [repair EXCEPT ![r] = x] PROVE r = m /\ Landed(x)
  BY <1>0, <1>2 DEF RepairLands
<1>8. \A status : Landed(MaintenanceRecord(status)) => status = "APPROVED"
  BY DEF MaintenanceRecord, Landed
<1>3. CASE prepare_maintenance(r)
  <2>1. repair' = [repair EXCEPT ![r] = MaintenanceRecord("IN_DEVELOPMENT")]
    BY <1>3 DEF prepare_maintenance
  <2>2. ~Landed(MaintenanceRecord("IN_DEVELOPMENT"))
    BY <1>8
  <2> QED
    BY <1>0, <2>1, <2>2 DEF RepairLands
<1>4. ASSUME NEW o \in DOMAIN _DEVELOPER_OUTCOMES, finish_maintenance_develop(r, o) PROVE m \in current
  <2> DEFINE status == CASE o = "CANDIDATE_READY" -> "AWAITING_REVIEW"
                         [] o = "TRIAGE_REQUIRED" -> "ESCALATED"
                         [] o = "BLOCKED" -> "BLOCKED"
             head == IF o = "CANDIDATE_READY" THEN "candidate" ELSE repair[r].at
  <2>1. status # "APPROVED"
    BY DEF _DEVELOPER_OUTCOMES
  <2>2. repair' = [repair EXCEPT ![r].status = status, ![r].at = head]
    BY <1>4 DEF finish_maintenance_develop
  <2>4. head = "main" => repair[r].at = "main"
    OBVIOUS
  <2> HIDE DEF status, head
  <2>3. /\ repair'[r].status = status /\ repair'[r].at = head
        /\ \A n \in Repairs \ {r} : repair'[n] = repair[n]
    BY <1>0, <2>2 DEF RepairRecords
  <2> QED
    BY <2>1, <2>3, <2>4 DEF RepairLands, Landed
<1>5. CASE prepare_maintenance_retry(r) \/ prepare_maintenance_review(r)
  BY <1>0, <1>5 DEF prepare_maintenance_retry, prepare_maintenance_review, RepairLands, RepairRecords, Landed
<1>6. ASSUME NEW v \in DOMAIN _REVIEW_VERDICTS, finish_maintenance_review(r, v) PROVE m \in current
  <2> DEFINE judged == [repair[r] EXCEPT !.at = "report", !.reviewing = FALSE]
  <2>1. judged \in RepairRecords /\ judged.status = repair[r].status /\ judged.at = "report"
    BY <1>0 DEF RepairRecords
  <2>2. \/ r \in current /\ \E x : repair' = [repair EXCEPT ![r] = x]
        \/ repair' = [repair EXCEPT ![r] = judged]
        \/ /\ v # "PASS"
           /\ repair' = [repair EXCEPT ![r] = [judged EXCEPT !.status = _REVIEW_VERDICTS[v]]]
    BY <1>6 DEF finish_maintenance_review
  <2>3. v # "PASS" => _REVIEW_VERDICTS[v] # "APPROVED"
    BY OutcomesAreStates
  <2> HIDE DEF judged
  <2>4. v # "PASS" => ~Landed([judged EXCEPT !.status = _REVIEW_VERDICTS[v]])
    BY <2>1, <2>3 DEF RepairRecords, Landed
  <2>5. ASSUME repair' = [repair EXCEPT ![r] = judged] PROVE FALSE
    BY <1>2, <2>1, <2>5 DEF RepairLands, Landed
  <2> QED
    BY <1>2, <2>2, <2>4, <2>5
<1>7. CASE abandon_maintenance(r)
  <2>1. repair' = [repair EXCEPT ![r] = MaintenanceRecord("ABANDONED")]
    BY <1>7 DEF abandon_maintenance, ClosedRepair
  <2>2. ~Landed(MaintenanceRecord("ABANDONED"))
    BY <1>8
  <2> QED
    BY <1>0, <2>1, <2>2 DEF RepairLands
<1> QED
  BY <1>1, <1>3, <1>4, <1>5, <1>6, <1>7 DEF RepairStep

\* An amendment lands only while its target is still planned in main: activating
\* the target moves main and leaves the amendment's branch behind
\* (prepare_amendment, finish_amendment_review).
THEOREM AmendmentsFindTheirTarget == Spec => AmendmentsLandOnPlans
<1> DEFINE OnPlan == AmendmentLands /\ amendment.target # NoTask => "PLANNED" \in InMain(main, amendment.target)
<1>1. TypeInv /\ BesideInv /\ [Next]_vars => [OnPlan]_vars
  BY LandingAmendmentIsCurrent DEF BesideInv
<1>2. Spec => [][OnPlan]_vars
  BY <1>1, BesideAlways, PTL DEF Spec
<1> QED
  BY <1>2 DEF AmendmentLands, AmendmentsLandOnPlans

\* Neither an amendment nor a repair lands while a task holds the lane, although
\* nothing stops a task from being activated beside a repair (ready).
THEOREM LaneIsFreeAtLanding == Spec => LandsBesideNoTask
<1> DEFINE Free == (AmendmentLands \/ \E m \in Repairs : RepairLands(m)) => NoneClaimed
<1>1. ASSUME TypeInv, BesideInv, [Next]_vars PROVE Free
  <2>1. AMENDMENT \notin Tasks /\ \A m \in Repairs : m \notin Tasks
    BY WorkflowAssumption DEF WorkflowAssumption
  <2>2. AmendmentLands => NoneClaimed
    BY <1>1, <2>1, LandingAmendmentIsCurrent DEF BesideInv
  <2>3. ASSUME NEW m \in Repairs, RepairLands(m) PROVE NoneClaimed
    BY <1>1, <2>1, <2>3, LandingRepairIsCurrent DEF BesideInv
  <2> QED
    BY <2>2, <2>3
<1>2. Spec => [][Free]_vars
  BY <1>1, BesideAlways, PTL DEF Spec
<1> QED
  BY <1>2 DEF AmendmentLands, RepairLands, NoneClaimed, LandsBesideNoTask


-----------------------------------------------------------------------------
(* What may reopen a closed task.  ClosedStaysClosed does not hold: the    *)
(* configuration of an older worktree may be written over main.  A branch  *)
(* that lands by a fast-forward cannot do it, for it starts at the head of *)
(* main and says the same of every other task; only abandon_task can.      *)

BranchInv(t) ==
    t \in current /\ tree[t] # None =>
        /\ main.task[t].lifecycle = "OPEN"
        /\ \A u \in Tasks \ {t} : tree[t].config.task[u] = main.task[u]
BranchesAgree == \A t \in Tasks : BranchInv(t)

LEMMA BranchInit == Init => BranchesAgree
BY DEF Init, BranchesAgree, BranchInv

\* A worktree that is made, rewritten or lost while main stays.
LEMMA WorktreeKeepsBranches ==
  ASSUME TypeInv, BranchesAgree, NEW t \in Tasks, main' = main, current' \subseteq current \cup {t},
         \/ tree' = [tree EXCEPT ![t] = None]
         \/ \E w : /\ tree' = [tree EXCEPT ![t] = w]
                   /\ t \in current' => /\ main.task[t].lifecycle = "OPEN"
                                        /\ \A u \in Tasks \ {t} : w.config.task[u] = main.task[u]
  PROVE  BranchesAgree'
<1>1. \A u \in Tasks \ {t} : tree'[u] = tree[u]
  BY DEF TypeInv
<1>2. ASSUME NEW u \in Tasks \ {t} PROVE BranchInv(u)'
  BY <1>1 DEF BranchesAgree, BranchInv
<1>3. BranchInv(t)'
  <2>1. CASE tree' = [tree EXCEPT ![t] = None]
    BY <2>1 DEF TypeInv, BranchInv
  <2>2. ASSUME NEW w, tree' = [tree EXCEPT ![t] = w],
               t \in current' => /\ main.task[t].lifecycle = "OPEN"
                                 /\ \A u \in Tasks \ {t} : w.config.task[u] = main.task[u]
        PROVE  BranchInv(t)'
    <3>1. tree'[t] = w
      BY <2>2 DEF TypeInv
    <3> QED
      BY <2>2, <3>1 DEF BranchInv
  <2> QED
    BY <2>1, <2>2
<1> QED
  BY <1>2, <1>3 DEF BranchesAgree

\* The worktree of an attempt is a copy of main in which one task has changed.
LEMMA BeginsKeepsBranches ==
  ASSUME TypeInv, BranchesAgree, NEW t \in Tasks, Begins(t) PROVE BranchesAgree'
<1>1. /\ main' = main /\ current' = current \cup {t} /\ main.task[t].lifecycle = "OPEN"
  BY OpenIsTheRest, ReadyFacts DEF Begins
<1>2. PICK w : /\ tree' = [tree EXCEPT ![t] = w]
               /\ \/ w.config = main
                  \/ \E a \in AttemptRecords : w.config = _set_state(main, t, "IN_DEVELOPMENT", a.attempt, 0)
  BY DEF Begins
<1>3. \A u \in Tasks \ {t} : w.config.task[u] = main.task[u]
  <2>1. CASE w.config = main
    BY <2>1
  <2>2. ASSUME NEW a \in AttemptRecords, w.config = _set_state(main, t, "IN_DEVELOPMENT", a.attempt, 0)
        PROVE  <1>3
    <3> DEFINE n == a.attempt
               s == "IN_DEVELOPMENT"
               config == main
    <3>1. /\ config \in Configs /\ s \in STATES /\ n \in 0..MaxAttempts /\ 0 \in 0..MaxAttempts
          /\ w.config = _set_state(config, t, s, n, 0)
      BY <2>2, StatesAre, OpenIsTheRest, WorkflowAssumption DEF AttemptRecords, WorkflowAssumption
    <3> HIDE DEF n, s, config
    <3>2. \A u \in Tasks \ {t} : w.config.task[u] = config.task[u]
      BY <3>1, SetStateIs
    <3> QED
      BY <3>2 DEF config
  <2> QED
    BY <1>2, <2>1, <2>2
<1> QED
  BY <1>1, <1>2, <1>3, WorktreeKeepsBranches

\* A command on a branch writes about the branch's own task.
LEMMA BranchWrites ==
  ASSUME TypeInv, BranchesAgree, NEW t \in Tasks, Retained(t), main' = main, current' = current,
         NEW w, tree' = [tree EXCEPT ![t] = w],
         \/ w.config = tree[t].config
         \/ \E s \in STATES, n \in 0..MaxAttempts, a \in 0..MaxAttempts :
               w.config = _set_state(tree[t].config, t, s, n, a)
  PROVE  BranchesAgree'
<1> DEFINE config == tree[t].config
<1>1. config \in Configs
  BY RetainedShape
<1>2. \A u \in Tasks \ {t} : w.config.task[u] = config.task[u]
  <2> HIDE DEF config
  <2>1. CASE w.config = config
    BY <2>1
  <2>2. ASSUME NEW s \in STATES, NEW n \in 0..MaxAttempts, NEW a \in 0..MaxAttempts,
               w.config = _set_state(config, t, s, n, a)
        PROVE  <1>2
    BY <1>1, <2>2, SetStateIs
  <2> QED
    BY <2>1, <2>2 DEF config
<1>3. t \in current' => /\ main.task[t].lifecycle = "OPEN"
                        /\ \A u \in Tasks \ {t} : w.config.task[u] = main.task[u]
  BY <1>2 DEF BranchesAgree, BranchInv, Retained
<1> QED
  BY <1>3, WorktreeKeepsBranches

LEMMA RetriesWrites ==
  ASSUME TypeInv, BranchesAgree, NEW t \in Tasks, Retries(t) PROVE BranchesAgree'
<1>1. PICK w : /\ tree' = [tree EXCEPT ![t] = w]
               /\ \E a \in AttemptRecords :
                     w.config = _set_state(tree[t].config, t, "IN_DEVELOPMENT", a.attempt, 0)
  BY DEF Retries
<1>2. PICK a \in AttemptRecords : w.config = _set_state(tree[t].config, t, "IN_DEVELOPMENT", a.attempt, 0)
  BY <1>1
<1>3. "IN_DEVELOPMENT" \in STATES /\ a.attempt \in 0..MaxAttempts /\ 0 \in 0..MaxAttempts
  BY StatesAre, WorkflowAssumption DEF AttemptRecords, WorkflowAssumption
<1>4. \E s \in STATES, n \in 0..MaxAttempts, b \in 0..MaxAttempts :
          w.config = _set_state(tree[t].config, t, s, n, b)
  BY <1>2, <1>3, Zenon
<1> QED
  BY <1>1, <1>4, BranchWrites DEF Retries

LEMMA SessionWrites ==
  ASSUME TypeInv, BranchesAgree, NEW t \in Tasks, SessionStep(t) PROVE BranchesAgree'
<1>1. Retained(t) /\ main' = main /\ current' = current /\ attempt[t].attempt \in 0..MaxAttempts
  BY RetainedShape DEF SessionStep
<1>2. PICK w : /\ tree' = [tree EXCEPT ![t] = w]
               /\ \/ w.config = tree[t].config
                  \/ \E s \in STATES, n \in 0..MaxAttempts :
                       w.config = _set_state(tree[t].config, t, s, attempt[t].attempt, n)
  BY DEF SessionStep
<1> QED
  BY <1>1, <1>2, BranchWrites

\* A commit in main leaves no branch at its head.
LEMMA MovedMainKeepsBranches == current' = {} => BranchesAgree'
BY DEF BranchesAgree, BranchInv

LEMMA BranchStep == ASSUME TypeInv, BranchesAgree, [Next]_vars PROVE BranchesAgree'
<1>1. ASSUME UNCHANGED <<main, tree>>, current' \cap Tasks \subseteq current PROVE BranchesAgree'
  BY <1>1 DEF BranchesAgree, BranchInv
<1>2. ASSUME NEW t \in Tasks, TaskStep(t) PROVE BranchesAgree'
  <2>1. CASE ready(t) \/ Landing(t) \/ Closes(t) \/ discard_attempt(t)
    BY <2>1, MovedMainKeepsBranches DEF ready, Landing, Closes, discard_attempt, MainMoves
  <2>2. CASE WorktreeLost(t)
    BY <2>2, WorktreeKeepsBranches DEF WorktreeLost
  <2> QED
    BY <1>2, <2>1, <2>2, TaskStepCases, BeginsKeepsBranches, RetriesWrites, SessionWrites
<1>3. CASE AmendmentStep
  <2>1. current' \subseteq current \cup {AMENDMENT} /\ UNCHANGED <<main, tree>>
    BY <1>3, AmendmentsLeaveTasks
    DEF AmendmentStep, prepare_amendment, finish_amendment, block_amendment, prepare_amendment_review,
        finish_amendment_review, prepare_amendment_retry, withdraw_amendment, MainMoves, taskVars
  <2> QED
    BY <1>1, <2>1, WorkflowAssumption DEF WorkflowAssumption
<1>4. ASSUME NEW m \in Repairs, RepairStep(m) PROVE BranchesAgree'
  <2>1. current' \subseteq current \cup {m} /\ UNCHANGED <<main, tree>>
    BY <1>4, RepairsLeaveTasks
    DEF RepairStep, prepare_maintenance, finish_maintenance_develop, prepare_maintenance_retry,
        prepare_maintenance_review, finish_maintenance_review, abandon_maintenance, MainMoves, taskVars
  <2> QED
    BY <1>1, <2>1, WorkflowAssumption DEF WorkflowAssumption
<1>5. CASE UNCHANGED vars
  BY <1>1, <1>5 DEF vars, taskVars
<1> QED
  BY <1>2, <1>3, <1>4, <1>5 DEF Next

\* A task that is closed stays closed as it is, unless a worktree is abandoned.
StaysUnlessAbandoned ==
    \A t \in Tasks : main.task[t].lifecycle # "OPEN" =>
        \/ main'.task[t].lifecycle = main.task[t].lifecycle
        \/ \E u \in Tasks : Retained(u) /\ abandon_task(u)

LEMMA AbandonOfMain ==
  ASSUME TypeInv, NEW t \in Tasks, abandon_task(t), ~Retained(t) PROVE StaysUnlessAbandoned
<1>1. /\ main.task[t].lifecycle = "OPEN"
      /\ \A u \in Tasks \ {t} : main'.task[u] = main.task[u]
  BY AbandonCloses DEF Closes, LiveConfig
<1> QED
  BY <1>1 DEF StaysUnlessAbandoned

LEMMA LandingStays ==
  ASSUME TypeInv, BranchesAgree, NEW t \in Tasks, Landing(t) PROVE StaysUnlessAbandoned
<1>1. /\ Retained(t) /\ t \in current /\ "APPROVED" \in STATES
      /\ main' = _set_state(tree[t].config, t, "APPROVED", attempt[t].attempt, attempt[t].attempt)
  BY StatesAre DEF Landing
<1>2. \A u \in Tasks \ {t} : main'.task[u] = tree[t].config.task[u]
  BY <1>1, RetainedShape, SetStateIs
<1>3. /\ main.task[t].lifecycle = "OPEN"
      /\ \A u \in Tasks \ {t} : tree[t].config.task[u] = main.task[u]
  BY <1>1 DEF BranchesAgree, BranchInv, Retained
<1> QED
  BY <1>2, <1>3 DEF StaysUnlessAbandoned

LEMMA StaysStep == ASSUME TypeInv, BranchesAgree, [Next]_vars PROVE StaysUnlessAbandoned
<1>0. main' = main => StaysUnlessAbandoned
  BY DEF StaysUnlessAbandoned
<1>1. ASSUME NEW t \in Tasks, TaskStep(t) PROVE StaysUnlessAbandoned
  <2>1. CASE ready(t)
    <3>1. main' = _set_state(main, t, "READY", main.task[t].attempt, main.task[t].approved)
      BY <2>1 DEF ready
    <3>2. "READY" \in STATES /\ main.task[t].lifecycle = "OPEN"
      BY <2>1, StatesAre, OpenIsTheRest, PlannedFacts DEF ready
    <3>3. \A u \in Tasks \ {t} : main'.task[u] = main.task[u]
      BY <3>1, <3>2, OpenIsTheRest, SetStateIs
    <3> QED
      BY <3>2, <3>3 DEF StaysUnlessAbandoned
  <2>2. CASE Begins(t) \/ Retries(t) \/ SessionStep(t) \/ WorktreeLost(t)
    BY <1>0, <2>2 DEF Begins, Retries, SessionStep, WorktreeLost
  <2>3. CASE discard_attempt(t)
    <3>1. main' = [main EXCEPT !.task[t].attempt = Consumed(t)] /\ main \in Configs
      BY <2>3, OpenIsTheRest DEF discard_attempt
    <3>2. \A u \in Tasks : main'.task[u].lifecycle = main.task[u].lifecycle
      BY <3>1 DEF Configs
    <3> QED
      BY <3>2 DEF StaysUnlessAbandoned
  <2>4. CASE abandon_task(t)
    <3>1. CASE Retained(t)
      BY <2>4, <3>1 DEF StaysUnlessAbandoned
    <3>2. CASE ~Retained(t)
      BY <2>4, <3>2, AbandonOfMain
    <3> QED
      BY <3>1, <3>2
  <2>5. ready(t) \/ Begins(t) \/ Retries(t) \/ SessionStep(t) \/ Landing(t) \/ abandon_task(t)
        \/ WorktreeLost(t) \/ discard_attempt(t)
    BY <1>1, HandoffsAreSessions, FinishesAreSessions, ReviewsAreSessionsOrLand, PrepareBegins,
       RetryRetries DEF TaskStep
  <2> QED
    BY <2>1, <2>2, <2>3, <2>4, <2>5, LandingStays
<1>2. CASE AmendmentStep
  BY <1>0, <1>2, AmendmentsLeaveTasks
<1>3. ASSUME NEW m \in Repairs, RepairStep(m) PROVE StaysUnlessAbandoned
  BY <1>0, <1>3, RepairsLeaveTasks
<1>4. CASE UNCHANGED vars
  BY <1>0, <1>4 DEF vars
<1> QED
  BY <1>1, <1>2, <1>3, <1>4 DEF Next

\* No command reopens a closed task or closes it another way except abandon_task
\* with the configuration of a retained worktree, whatever dies, is lost or is
\* amended in between; the fast-forward of finish_review never does, because a
\* branch at the head of main says of every other task what main says.
THEOREM OnlyAbandonReopens == Spec => [][StaysUnlessAbandoned]_vars
<1>1. Init => TypeInv /\ BranchesAgree
  BY TypeInit, BranchInit
<1>2. (TypeInv /\ BranchesAgree) /\ [Next]_vars => (TypeInv /\ BranchesAgree)'
  BY TypeStep, BranchStep
<1>3. (TypeInv /\ BranchesAgree) /\ [Next]_vars => [StaysUnlessAbandoned]_vars
  BY StaysStep
<1> QED
  BY <1>1, <1>2, <1>3, PTL DEF Spec
=============================================================================
