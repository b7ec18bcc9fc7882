------------------------------ MODULE Workflow ------------------------------
(***************************************************************************)
(* The development workflow controller (tools/workflow/core.py): tasks     *)
(* developed, reviewed, triaged and planned on branches of their own, and  *)
(* the owner's amendments and low-risk repairs that share the main         *)
(* checkout with them.  One action is one command.  An agent's session is  *)
(* the time between a prepare command and the matching finish command; its *)
(* result is chosen when the finish command reads it.                      *)
(*                                                                         *)
(* Commits are abstracted: "current" holds the branches that start at the  *)
(* head of main, which is what "merge --ff-only" tests, and                *)
(* "at" says what the head of a branch is.  A task has one candidate for   *)
(* each attempt, so the attempt's number names the candidate.              *)
(***************************************************************************)
EXTENDS WorkflowStatus

CONSTANTS
    Tasks,           \* the tasks of todo/config.yaml
    depends_on,      \* the set of tasks each one depends on
    Repairs,         \* identifiers of low-risk repairs
    Interruptible,   \* the commands that may die halfway
    MaxAttempts,     \* bound: attempts of one task
    MaxAmendments,   \* bound: amendments started
    MaxFaults,       \* bound: deaths of a command and losses of a worktree
    NoTask,          \* no active task, an amendment without a target
    None             \* no record, no worktree

AMENDMENT == "amendment"
ASSUME WorkflowAssumption ==
    /\ depends_on \in [Tasks -> SUBSET Tasks]
    /\ NoTask \notin Tasks
    /\ Tasks \cap Repairs = {} /\ AMENDMENT \notin Tasks \cup Repairs
    /\ MaxAttempts \in Nat /\ MaxAmendments \in Nat /\ MaxFaults \in Nat
    /\ None \notin [attempt : 1..MaxAttempts, candidate : BOOLEAN, continued : BOOLEAN]

VARIABLES
    main,        \* the configuration in the main checkout
    abandoned,   \* tasks with a record under todo/abandoned in main
    impacts,     \* contract conflicts raised in main and not resolved
    tree,        \* the development worktree of each task
    attempt,     \* the runtime record of each task's attempt
    plan,        \* tasks with a runtime record of a plan candidate
    amendment,   \* the latest amendment's runtime record
    repair,      \* the runtime record of each repair
    current,     \* branches whose base is the head of main
    passed,      \* history: candidates a reviewer has passed
    opened,      \* history: the highest attempt number given out
    faults       \* bound: faults so far

taskVars == <<tree, attempt, plan, passed, opened>>
laneVars == <<amendment, repair>>
vars == <<main, abandoned, impacts, taskVars, laneVars, current, faults>>

Works == Tasks \cup Repairs \cup {AMENDMENT}
Interrupted(command) == IF command \in Interruptible /\ faults < MaxFaults THEN BOOLEAN ELSE {FALSE}
CountFault(died) == faults' = IF died THEN faults + 1 ELSE faults

-----------------------------------------------------------------------------
(* The stored facts and what they admit.                                   *)

Planned == [lifecycle |-> "OPEN", claimed |-> FALSE, attempt |-> 0, approved |-> 0]
Admitted(config, t, isAbandoned, art) ==
    LET task == config.task[t]
    IN  admitted_statuses(task.lifecycle, task.claimed,
                          derive_status(task.approved > 0, isAbandoned, task.attempt, art))
InMain(config, t) == Admitted(config, t, t \in abandoned, NoArtifacts)
InTree(t) == Admitted(tree[t].config, t, FALSE, tree[t].art)

Legal(admitted, status) ==
    /\ UNRECOGNISED \notin admitted
    /\ \A candidate \in admitted : candidate = status \/ status \in ALLOWED_TRANSITIONS[candidate]
_set_state(config, t, status, number, approved) ==
    [config EXCEPT !.task[t] = [lifecycle |-> LIFECYCLE_OF[status].lifecycle,
                                claimed |-> LIFECYCLE_OF[status].claimed,
                                attempt |-> number, approved |-> approved],
                   !.active = t, !.state = status]

ActiveClaimed == main.active # NoTask /\ main.task[main.active].claimed
_check_dependencies(t) == \A d \in depends_on[t] : "APPROVED" \in InMain(main, d)
_dependency_closure(t) ==
    {d \in Tasks : \A S \in SUBSET Tasks :
        (t \in S /\ \A x \in S : depends_on[x] \subseteq S) => d \in S}
_unresolved_task_impacts(t) == {i \in impacts : i.task = t}

TERMINAL_AMENDMENT_STATES == {"APPROVED", "ABANDONED"}
AmendmentActive == amendment.status \notin TERMINAL_AMENDMENT_STATES \cup {"NONE"}
TERMINAL_MAINTENANCE_STATES == {"APPROVED", "ABANDONED"}
MAINTENANCE_STATES ==
    {"IN_DEVELOPMENT", "AWAITING_REVIEW", "CHANGES_REQUESTED", "ESCALATED", "BLOCKED", "ABANDONED"}
Readable(m) == repair[m].status \in MAINTENANCE_STATES
\* Reading every repair record fails when one of them cannot be read.
NoActiveRepair ==
    \A m \in Repairs :
        /\ Readable(m) \/ repair[m].status \in {"NONE", "APPROVED"}
        /\ repair[m].status \notin {"IN_DEVELOPMENT", "AWAITING_REVIEW", "CHANGES_REQUESTED"}

\* A commit in main leaves every branch behind.
MainMoves == current' = {}

-----------------------------------------------------------------------------
AmendmentRecord(number, status, target) ==
    [number |-> number, status |-> status, target |-> target, at |-> "base",
     reviewing |-> FALSE, raised |-> {}, resolves |-> {}]
MaintenanceRecord(status) ==
    [status |-> status, at |-> "base", reviewing |-> FALSE]

\* A closed record only keeps its number and its status.
ClosedAmendment(status) == AmendmentRecord(amendment.number, status, NoTask)
ClosedRepair(status) == MaintenanceRecord(status)

\* The conflicts one amendment raises: none, or one on some task.
Impacted == {{}} \cup {{t} : t \in Tasks}

Init ==
    /\ main = [task |-> [t \in Tasks |-> Planned], active |-> NoTask, state |-> "PLANNED"]
    \* Earlier amendments may have left a conflict.
    /\ \E raised \in Impacted : impacts = {[number |-> 0, task |-> t] : t \in raised}
    /\ abandoned = {} /\ plan = {} /\ passed = {} /\ current = {}
    /\ tree = [t \in Tasks |-> None]
    /\ attempt = [t \in Tasks |-> None]
    /\ opened = [t \in Tasks |-> 0]
    /\ amendment = AmendmentRecord(0, "NONE", NoTask)
    /\ repair = [m \in Repairs |-> MaintenanceRecord("NONE")]
    /\ faults = 0

-----------------------------------------------------------------------------
(* Selecting and developing a task.                                        *)

\* Faulty variant: only the task's own contract is looked at.
ReadyOwnContract(t) ==
    /\ ~AmendmentActive
    /\ "PLANNED" \in InMain(main, t)
    /\ ~ActiveClaimed
    /\ _check_dependencies(t)
    /\ _unresolved_task_impacts(t) = {}
    /\ main' = _set_state(main, t, "READY", main.task[t].attempt, main.task[t].approved)
    /\ MainMoves
    /\ UNCHANGED <<abandoned, impacts, taskVars, laneVars, faults>>

ready(t) ==
    /\ ~AmendmentActive
    /\ "PLANNED" \in InMain(main, t)
    /\ ~ActiveClaimed
    /\ _check_dependencies(t)
    /\ \A d \in _dependency_closure(t) : _unresolved_task_impacts(d) = {}
    /\ main' = _set_state(main, t, "READY", main.task[t].attempt, main.task[t].approved)
    /\ MainMoves
    /\ UNCHANGED <<abandoned, impacts, taskVars, laneVars, faults>>

\* The worktree is made first and the runtime record last; the change of the
\* configuration stays uncommitted in the worktree until a finish command.
prepare_develop(t) ==
    /\ "READY" \in InMain(main, t)
    /\ _check_dependencies(t)
    /\ attempt[t] = None /\ tree[t] = None
    /\ main.task[t].attempt < MaxAttempts
    /\ \E died \in Interrupted("prepare_develop") :
        LET number == main.task[t].attempt + 1
            config == IF died THEN main ELSE _set_state(main, t, "IN_DEVELOPMENT", number, 0)
        IN  /\ tree' = [tree EXCEPT ![t] = [config |-> config, art |-> NoArtifacts,
                                            at |-> "base", open |-> {}]]
            /\ IF died THEN UNCHANGED <<attempt, opened>>
               ELSE /\ attempt' = [attempt EXCEPT ![t] = [attempt |-> number, candidate |-> FALSE,
                                                          continued |-> FALSE]]
                    /\ opened' = [opened EXCEPT ![t] = IF number > @ THEN number ELSE @]
            /\ CountFault(died)
    /\ current' = current \cup {t}
    /\ UNCHANGED <<main, abandoned, impacts, plan, passed, laneVars>>

Retained(t) == attempt[t] # None /\ tree[t] # None

\* The next attempt keeps the worktree and the base of the last one.
retry_develop(t) ==
    /\ Retained(t)
    /\ attempt[t].attempt < MaxAttempts
    /\ InTree(t) \cap {"BLOCKED", "CHANGES_REQUESTED"} # {}
    /\ Legal(InMain(tree[t].config, t), "IN_DEVELOPMENT")
    /\ LET number == attempt[t].attempt + 1
       IN  /\ tree' = [tree EXCEPT ![t].config = _set_state(@, t, "IN_DEVELOPMENT", number, 0),
                                   ![t].art = NoArtifacts]
           /\ attempt' = [attempt EXCEPT ![t] = [attempt |-> number, candidate |-> FALSE,
                                                 continued |-> FALSE]]
           /\ opened' = [opened EXCEPT ![t] = IF number > @ THEN number ELSE @]
    /\ UNCHANGED <<main, abandoned, impacts, plan, passed, laneVars, current, faults>>

continue_develop(t) ==
    /\ Retained(t)
    /\ "IN_DEVELOPMENT" \in InTree(t) /\ ~attempt[t].candidate
    /\ ~attempt[t].continued
    /\ attempt' = [attempt EXCEPT ![t].continued = TRUE]
    /\ UNCHANGED <<main, abandoned, impacts, tree, plan, passed, opened, laneVars, current, faults>>

\* A command that records an outcome writes the artifact first and moves the
\* status afterwards, judged against the artifacts that now include it.
Recorded(t, kind, outcome, status, head) ==
    [tree[t] EXCEPT !.art[kind] = outcome, !.at = head,
                    !.config = _set_state(@, t, status, attempt[t].attempt,
                                          IF status = "APPROVED" THEN attempt[t].attempt ELSE 0)]
MayRecord(t, kind, outcome, status) ==
    Legal(Admitted(tree[t].config, t, FALSE, [tree[t].art EXCEPT ![kind] = outcome]), status)

\* A session of the developer ends once: its result is removed when it is read.
finish_develop(t, outcome) ==
    LET status == _DEVELOPER_OUTCOMES[outcome]
        ready_ == outcome = "CANDIDATE_READY"
    IN  /\ Retained(t)
        /\ tree[t].art = NoArtifacts
        /\ MayRecord(t, "developer", outcome, status)
        /\ tree' = [tree EXCEPT ![t] = Recorded(t, "developer", outcome, status,
                                                IF ready_ THEN "candidate" ELSE "report")]
        /\ \E died \in IF ready_ THEN Interrupted("finish_develop") ELSE {FALSE} :
            /\ attempt' = [attempt EXCEPT ![t].candidate = ready_ /\ ~died]
            /\ CountFault(died)
        /\ UNCHANGED <<main, abandoned, impacts, plan, passed, opened, laneVars, current>>

-----------------------------------------------------------------------------
(* Reviewing, triaging and planning on the task's branch.  An open handoff *)
(* is a detached worktree, or a planning context, awaiting its agent.      *)

Open(t, handoff) == tree' = [tree EXCEPT ![t].open = @ \cup {handoff}]
Shut(record, handoff) == [record EXCEPT !.open = @ \ {handoff}]

prepare_review(t) ==
    /\ Retained(t) /\ attempt[t].candidate
    /\ "AWAITING_REVIEW" \in InTree(t)
    /\ tree[t].at = "candidate"
    /\ "review" \notin tree[t].open
    /\ Open(t, "review")
    /\ UNCHANGED <<main, abandoned, impacts, attempt, plan, passed, opened, laneVars, current, faults>>

\* The review shares the one continuation of the attempt with its developer.
continue_task_review(t) ==
    /\ Retained(t) /\ attempt[t].candidate
    /\ "review" \in tree[t].open
    /\ "AWAITING_REVIEW" \in InTree(t)
    /\ ~attempt[t].continued
    /\ attempt' = [attempt EXCEPT ![t].continued = TRUE]
    /\ UNCHANGED <<main, abandoned, impacts, tree, plan, passed, opened, laneVars, current, faults>>

\* The verdict is committed on the branch first.  An approval then lands by a
\* fast-forward of main; when it cannot, the branch keeps the approval and the
\* runtime record stays.  The same result is never committed a second time.
Lands(t, reviewed) == main' = reviewed.config /\ tree' = [tree EXCEPT ![t] = None] /\ MainMoves
finish_review(t, verdict) ==
    LET status == _REVIEW_VERDICTS[verdict]
        reviewed == Recorded(t, "review", verdict, status, "report")
    IN  /\ Retained(t) /\ attempt[t].candidate
        /\ "review" \in tree[t].open /\ tree[t].art.review = "none"
        /\ MayRecord(t, "review", verdict, status)
        /\ IF status # "APPROVED"
           THEN /\ tree' = [tree EXCEPT ![t] = Shut(reviewed, "review")]
                /\ UNCHANGED <<main, attempt, current, faults>>
           ELSE \E died \in Interrupted("finish_review") :
                /\ CountFault(died)
                /\ \/ \* the branch lands; a death leaves the runtime record
                      /\ t \in current
                      /\ Lands(t, reviewed)
                      /\ attempt' = IF died THEN attempt ELSE [attempt EXCEPT ![t] = None]
                   \/ \* main has moved, or a death comes before the merge
                      /\ t \notin current \/ died
                      /\ tree' = [tree EXCEPT ![t] = reviewed]
                      /\ UNCHANGED <<main, attempt, current>>
        /\ passed' = IF verdict = "PASS" THEN passed \cup {<<t, attempt[t].attempt>>} ELSE passed
        /\ UNCHANGED <<abandoned, impacts, plan, opened, laneVars>>

prepare_triage(t) ==
    /\ Retained(t)
    /\ "TRIAGE_REQUIRED" \in InTree(t)
    /\ "triage" \notin tree[t].open
    /\ Open(t, "triage")
    /\ UNCHANGED <<main, abandoned, impacts, attempt, plan, passed, opened, laneVars, current, faults>>

finish_triage(t, classification) ==
    LET status == _TRIAGE_CLASSIFICATIONS[classification] IN
    /\ Retained(t)
    /\ "triage" \in tree[t].open
    /\ MayRecord(t, "triage", classification, status)
    /\ tree' = [tree EXCEPT ![t] =
                    Shut(Recorded(t, "triage", classification, status, "report"), "triage")]
    /\ UNCHANGED <<main, abandoned, impacts, attempt, plan, passed, opened, laneVars, current, faults>>

\* On the owner's route the decision is recorded before the planner is asked.
prepare_plan(t) ==
    /\ Retained(t)
    /\ InTree(t) \cap {"PLANNING", "OWNER_DECISION_REQUIRED"} # {}
    /\ tree[t].art.triage # "none"
    /\ IF "OWNER_DECISION_REQUIRED" \in InTree(t)
       THEN /\ MayRecord(t, "owner_decision", "made", "PLANNING")
            /\ tree' = [tree EXCEPT ![t] =
                            [Recorded(t, "owner_decision", "made", "PLANNING", "report")
                                EXCEPT !.open = @ \cup {"plan"}]]
       ELSE Open(t, "plan")
    /\ UNCHANGED <<main, abandoned, impacts, attempt, plan, passed, opened, laneVars, current, faults>>

\* An artifact that an earlier session left uncommitted is outside what a planner
\* may change, and refuses its result.
finish_plan(t, outcome) ==
    LET status == _PLANNER_OUTCOMES[outcome]
        ready_ == status = "AWAITING_PLAN_REVIEW"
    IN  /\ Retained(t)
        /\ "plan" \in tree[t].open
        /\ UNRECOGNISED \notin InTree(t)
        /\ MayRecord(t, "planner", outcome, status)
        /\ tree' = [tree EXCEPT ![t] = Shut(Recorded(t, "planner", outcome, status,
                                                     IF ready_ THEN "plan" ELSE "report"), "plan")]
        /\ \E died \in IF ready_ THEN Interrupted("finish_plan") ELSE {FALSE} :
            /\ plan' = IF ready_ /\ ~died THEN plan \cup {t} ELSE plan
            /\ CountFault(died)
        /\ UNCHANGED <<main, abandoned, impacts, attempt, passed, opened, laneVars, current>>

\* The outcome no status is derived from: the command stops after the artifact is
\* written, uncommitted, and no later command gets past it in this worktree.
finish_plan_unrecognised(t) ==
    /\ Retained(t)
    /\ "plan" \in tree[t].open
    /\ UNRECOGNISED \notin InTree(t) /\ tree[t].art.plan_review = "none"
    /\ tree' = [tree EXCEPT ![t].art.planner = "CONTINUATION_REQUIRED"]
    /\ UNCHANGED <<main, abandoned, impacts, attempt, plan, passed, opened, laneVars, current, faults>>

prepare_plan_review(t) ==
    /\ Retained(t) /\ t \in plan
    /\ InTree(t) \cap {"AWAITING_PLAN_REVIEW", "PLAN_REVIEW_BLOCKED"} # {}
    /\ tree[t].at = "plan"
    /\ "plan_review" \notin tree[t].open
    /\ Open(t, "plan_review")
    /\ UNCHANGED <<main, abandoned, impacts, attempt, plan, passed, opened, laneVars, current, faults>>

\* A blocked review keeps the plan, whose candidate is now the commit of the report.
finish_plan_review(t, verdict) ==
    LET status == _PLAN_REVIEW_VERDICTS[verdict]
        blocked == verdict = "BLOCKED"
    IN  /\ Retained(t) /\ t \in plan
        /\ "plan_review" \in tree[t].open
        /\ MayRecord(t, "plan_review", verdict, status)
        /\ tree' = [tree EXCEPT ![t] = Shut(Recorded(t, "plan_review", verdict, status,
                                                     IF blocked THEN "plan" ELSE "report"),
                                            "plan_review")]
        /\ plan' = IF blocked THEN plan ELSE plan \ {t}
        /\ UNCHANGED <<main, abandoned, impacts, attempt, passed, opened, laneVars, current, faults>>

-----------------------------------------------------------------------------
(* The owner's exits.                                                      *)

\* While an attempt has a worktree, its configuration is the one that is read,
\* and written over the configuration of main.
LiveConfig(t) == IF Retained(t) THEN tree[t].config ELSE main
Stranded(t) ==
    {u \in Tasks \ {t} : LiveConfig(t).task[u].lifecycle = "OPEN" /\ t \in depends_on[u]}
\* Faulty variant: only the tasks that depend on it are looked at.
MayAbandonUnchecked(t) == Stranded(t) = {}
MayAbandon(t) ==
    /\ LiveConfig(t).task[t].lifecycle = "OPEN"
    /\ Stranded(t) = {}
    /\ Legal(IF Retained(t) THEN InTree(t) ELSE Admitted(main, t, TRUE, NoArtifacts), "ABANDONED")

abandon_task(t) ==
    LET config == LiveConfig(t)
        closed == _set_state(config, t, "ABANDONED", config.task[t].attempt, config.task[t].approved)
    IN  /\ MayAbandon(t)
        /\ main' = IF config.active \in {NoTask, t} THEN closed
                   ELSE [closed EXCEPT !.active = config.active, !.state = config.state]
        /\ abandoned' = abandoned \cup {t}
        /\ \E died \in Interrupted("abandon_task") :
            /\ IF died THEN UNCHANGED <<attempt, tree>>
               \* The worktree stays on disk; without the record no command reads it.
               ELSE /\ attempt' = [attempt EXCEPT ![t] = None]
                    /\ tree' = [tree EXCEPT ![t] = None]
            /\ CountFault(died)
        \* Without an attempt no command reads a record of its plan either.
        /\ plan' = plan \ {t}
        /\ MainMoves
        /\ UNCHANGED <<impacts, passed, opened, laneVars>>

\* A worktree that disappears outside the controller.
WorktreeLost(t) ==
    /\ Retained(t) /\ faults < MaxFaults
    /\ tree' = [tree EXCEPT ![t] = None]
    /\ faults' = faults + 1
    /\ UNCHANGED <<main, abandoned, impacts, attempt, plan, passed, opened, laneVars, current>>

\* Faulty variant: a discarded attempt gives its number back.
ConsumedNever(t) == main.task[t].attempt
\* The number of the lost attempt is consumed unless the task is closed.
Consumed(t) ==
    IF main.task[t].lifecycle = "OPEN" /\ attempt[t].attempt > main.task[t].attempt
    THEN attempt[t].attempt ELSE main.task[t].attempt
discard_attempt(t) ==
    /\ attempt[t] # None /\ tree[t] = None
    /\ main.task[t].lifecycle = "OPEN" => InMain(main, t) \subseteq {"PLANNED", "READY", "IN_DEVELOPMENT"}
    /\ main' = [main EXCEPT !.task[t].attempt = Consumed(t)]
    /\ attempt' = [attempt EXCEPT ![t] = None]
    /\ MainMoves
    /\ UNCHANGED <<abandoned, impacts, tree, plan, passed, opened, laneVars, faults>>

-----------------------------------------------------------------------------
(* Amendments: the owner's changes of contracts.  An amendment may raise a *)
(* conflict on a task and resolve the open conflicts of its target.        *)

amendmentUnchanged == UNCHANGED <<main, abandoned, taskVars, repair>>

prepare_amendment(target) ==
    /\ ~ActiveClaimed /\ ~AmendmentActive /\ NoActiveRepair
    /\ target # NoTask => "PLANNED" \in InMain(main, target)
    /\ amendment.number < MaxAmendments
    /\ amendment' = AmendmentRecord(amendment.number + 1, "PLANNING", target)
    /\ current' = current \cup {AMENDMENT}
    /\ amendmentUnchanged /\ UNCHANGED <<impacts, faults>>

Resolvable ==
    {i \in impacts : amendment.target \in {NoTask, i.task}}
\* The conflicts are written beside the candidate; a blocked attempt leaves none
\* that a later attempt does not overwrite.
finish_amendment(raised, resolves) ==
    /\ amendment.status = "PLANNING"
    /\ resolves \subseteq Resolvable
    /\ amendment.target \notin raised
    /\ amendment' = [amendment EXCEPT
            !.status = "AWAITING_REVIEW", !.at = "candidate",
            !.raised = {[number |-> amendment.number, task |-> t] : t \in raised},
            !.resolves = resolves]
    /\ amendmentUnchanged /\ UNCHANGED <<impacts, current, faults>>

block_amendment ==
    /\ amendment.status = "PLANNING"
    /\ amendment' = [amendment EXCEPT !.status = "BLOCKED", !.at = "report"]
    /\ amendmentUnchanged /\ UNCHANGED <<impacts, current, faults>>

prepare_amendment_review ==
    /\ amendment.status = "AWAITING_REVIEW" /\ amendment.at = "candidate"
    /\ ~amendment.reviewing
    /\ amendment' = [amendment EXCEPT !.reviewing = TRUE]
    /\ amendmentUnchanged /\ UNCHANGED <<impacts, current, faults>>

\* Faulty variant: an approved amendment lands although main has moved.
FinishAmendmentReviewStale(verdict) ==
    LET judged == [amendment EXCEPT !.at = "report", !.reviewing = FALSE] IN
    /\ amendment.reviewing
    /\ IF verdict = "PASS"
       THEN /\ amendment' = ClosedAmendment("APPROVED")
            /\ impacts' = (impacts \ amendment.resolves) \cup amendment.raised
            /\ MainMoves
       ELSE /\ amendment' = [judged EXCEPT !.status =
                   IF verdict = "FAIL" THEN "CHANGES_REQUESTED" ELSE "BLOCKED"]
            /\ UNCHANGED <<impacts, current>>
    /\ amendmentUnchanged /\ UNCHANGED faults

\* A death after the merge leaves the record of an amendment that awaits review:
\* its head is in main, and no command but the withdrawal accepts it.
finish_amendment_review(verdict) ==
    LET judged == [amendment EXCEPT !.at = "report", !.reviewing = FALSE] IN
    /\ amendment.reviewing
    /\ \E died \in IF verdict = "PASS" THEN Interrupted("finish_amendment_review") ELSE {FALSE} :
        /\ \/ /\ verdict = "PASS" /\ AMENDMENT \in current
              /\ amendment' = IF died THEN [judged EXCEPT !.at = "main"]
                              ELSE ClosedAmendment("APPROVED")
              /\ impacts' = (impacts \ amendment.resolves) \cup amendment.raised
              /\ MainMoves
           \/ \* main has moved, or a death comes before the merge
              /\ verdict = "PASS" => AMENDMENT \notin current \/ died
              /\ amendment' = [judged EXCEPT !.status =
                     IF verdict = "PASS" THEN @
                     ELSE IF verdict = "FAIL" THEN "CHANGES_REQUESTED" ELSE "BLOCKED"]
              /\ UNCHANGED <<impacts, current>>
        /\ CountFault(died)
    /\ amendmentUnchanged

prepare_amendment_retry ==
    /\ amendment.status \in {"CHANGES_REQUESTED", "BLOCKED"}
    /\ amendment' = [amendment EXCEPT !.status = "PLANNING", !.at = "base", !.raised = {}, !.resolves = {}]
    /\ amendmentUnchanged /\ UNCHANGED <<impacts, current, faults>>

withdraw_amendment ==
    /\ AmendmentActive
    /\ amendment' = ClosedAmendment("ABANDONED")
    /\ current' = current \ {AMENDMENT}
    /\ amendmentUnchanged /\ UNCHANGED <<impacts, faults>>

-----------------------------------------------------------------------------
(* Low-risk repairs.  Every command reads the record of its repair first.  *)

repairUnchanged == UNCHANGED <<main, abandoned, impacts, taskVars, amendment>>

prepare_maintenance(m) ==
    /\ ~AmendmentActive /\ ~ActiveClaimed /\ NoActiveRepair
    /\ repair[m].status = "NONE"
    /\ repair' = [repair EXCEPT ![m] = MaintenanceRecord("IN_DEVELOPMENT")]
    /\ current' = current \cup {m}
    /\ repairUnchanged /\ UNCHANGED faults

finish_maintenance_develop(m, outcome) ==
    /\ repair[m].status = "IN_DEVELOPMENT"
    /\ repair' = [repair EXCEPT
            ![m].status = CASE outcome = "CANDIDATE_READY" -> "AWAITING_REVIEW"
                            [] outcome = "TRIAGE_REQUIRED" -> "ESCALATED"
                            [] outcome = "BLOCKED" -> "BLOCKED",
            ![m].at = IF outcome = "CANDIDATE_READY" THEN "candidate" ELSE @]
    /\ repairUnchanged /\ UNCHANGED <<current, faults>>

\* Nothing asks whether a task or an amendment has taken the lane meanwhile.
prepare_maintenance_retry(m) ==
    /\ repair[m].status \in {"CHANGES_REQUESTED", "BLOCKED"}
    /\ repair' = [repair EXCEPT ![m].status = "IN_DEVELOPMENT"]
    /\ repairUnchanged /\ UNCHANGED <<current, faults>>

prepare_maintenance_review(m) ==
    /\ repair[m].status = "AWAITING_REVIEW" /\ repair[m].at = "candidate"
    /\ ~repair[m].reviewing
    /\ repair' = [repair EXCEPT ![m].reviewing = TRUE]
    /\ repairUnchanged /\ UNCHANGED <<current, faults>>

\* Faulty variant: an approved repair lands although main has moved.
FinishMaintenanceReviewStale(m, verdict) ==
    /\ Readable(m) /\ repair[m].reviewing
    /\ IF verdict = "PASS"
       THEN repair' = [repair EXCEPT ![m] = ClosedRepair("APPROVED")] /\ MainMoves
       ELSE /\ repair' = [repair EXCEPT ![m].status = _REVIEW_VERDICTS[verdict],
                                      ![m].reviewing = FALSE]
            /\ UNCHANGED current
    /\ repairUnchanged /\ UNCHANGED faults

\* The verdict is saved as the status, whether or not the record can hold it.  A
\* death after the merge leaves the record, which only an abandonment accepts.
finish_maintenance_review(m, verdict) ==
    LET judged == [repair[m] EXCEPT !.at = "report", !.reviewing = FALSE] IN
    /\ Readable(m) /\ repair[m].reviewing
    /\ \E died \in IF verdict = "PASS" THEN Interrupted("finish_maintenance_review") ELSE {FALSE} :
        /\ \/ /\ verdict = "PASS" /\ m \in current
              /\ repair' = [repair EXCEPT ![m] =
                     IF died THEN [judged EXCEPT !.at = "main"] ELSE ClosedRepair("APPROVED")]
              /\ MainMoves
           \/ \* main has moved, or a death comes before the merge
              /\ verdict = "PASS" => m \notin current \/ died
              /\ repair' = [repair EXCEPT ![m] =
                     IF verdict = "PASS" THEN judged
                     ELSE [judged EXCEPT !.status = _REVIEW_VERDICTS[verdict]]]
              /\ UNCHANGED current
        /\ CountFault(died)
    /\ repairUnchanged

MayAbandonRepair(m) == Readable(m) /\ repair[m].status \notin TERMINAL_MAINTENANCE_STATES
abandon_maintenance(m) ==
    /\ MayAbandonRepair(m)
    /\ repair' = [repair EXCEPT ![m] = ClosedRepair("ABANDONED")]
    /\ current' = current \ {m}
    /\ repairUnchanged /\ UNCHANGED faults

-----------------------------------------------------------------------------
TaskStep(t) ==
    \/ ready(t) \/ prepare_develop(t) \/ retry_develop(t) \/ continue_develop(t)
    \/ \E o \in DOMAIN _DEVELOPER_OUTCOMES : finish_develop(t, o)
    \/ prepare_review(t) \/ continue_task_review(t)
    \/ \E v \in DOMAIN _REVIEW_VERDICTS : finish_review(t, v)
    \/ prepare_triage(t)
    \/ \E c \in DOMAIN _TRIAGE_CLASSIFICATIONS : finish_triage(t, c)
    \/ prepare_plan(t)
    \/ \E o \in DOMAIN _PLANNER_OUTCOMES : finish_plan(t, o)
    \/ finish_plan_unrecognised(t)
    \/ prepare_plan_review(t)
    \/ \E v \in DOMAIN _PLAN_REVIEW_VERDICTS : finish_plan_review(t, v)
    \/ abandon_task(t) \/ WorktreeLost(t) \/ discard_attempt(t)

AmendmentStep ==
    \/ \E target \in Tasks \cup {NoTask} : prepare_amendment(target)
    \/ \E raised \in Impacted, resolves \in SUBSET impacts : finish_amendment(raised, resolves)
    \/ block_amendment
    \/ prepare_amendment_review
    \/ \E v \in DOMAIN _PLAN_REVIEW_VERDICTS : finish_amendment_review(v)
    \/ prepare_amendment_retry \/ withdraw_amendment

RepairStep(m) ==
    \/ prepare_maintenance(m)
    \/ \E o \in DOMAIN _DEVELOPER_OUTCOMES : finish_maintenance_develop(m, o)
    \/ prepare_maintenance_retry(m) \/ prepare_maintenance_review(m)
    \/ \E v \in DOMAIN _REVIEW_VERDICTS : finish_maintenance_review(m, v)
    \/ abandon_maintenance(m)

Next ==
    \/ \E t \in Tasks : TaskStep(t)
    \/ AmendmentStep
    \/ \E m \in Repairs : RepairStep(m)

Spec == Init /\ [][Next]_vars

-----------------------------------------------------------------------------
Configs ==
    [task : [Tasks -> [lifecycle : {"OPEN", "DELIVERED", "ABANDONED"}, claimed : BOOLEAN,
                       attempt : 0..MaxAttempts, approved : 0..MaxAttempts]],
     active : Tasks \cup {NoTask}, state : STATES]

\* Every configuration, in main or in a worktree, holds lifecycles, states and
\* attempt numbers that validate_config accepts, and every record what its
\* command writes.
TypeOK ==
    /\ main \in Configs
    /\ abandoned \subseteq Tasks /\ plan \subseteq Tasks /\ current \subseteq Works
    /\ \A i \in impacts : i.number \in 0..MaxAmendments /\ i.task \in Tasks
    /\ \A t \in Tasks :
        /\ tree[t] = None \/ (tree[t].config \in Configs /\ DOMAIN tree[t].art = Kinds)
        /\ attempt[t] = None \/ attempt[t].attempt \in 1..MaxAttempts
    /\ passed \subseteq Tasks \X (1..MaxAttempts)
    /\ faults \in 0..MaxFaults

\* The configuration of main and of every worktree loads: validate_config
\* refuses one in which a task other than the active one holds the lane.
OneClaim(config) == \A t \in Tasks : config.task[t].claimed => config.active = t
ConfigsLoad == OneClaim(main) /\ \A t \in Tasks : tree[t] # None => OneClaim(tree[t].config)

\* A task is delivered in main only when a reviewer passed exactly the candidate
\* that the configuration names as approved (_record_review_result).
DeliveredWasReviewed ==
    \A t \in Tasks : main.task[t].lifecycle = "DELIVERED" => <<t, main.task[t].approved>> \in passed

\* While a task holds the lane, no conflict is open on its contract or on what it
\* depends on, although amendments raise them after it was looked at (ready).
ClaimedContractsHold ==
    \A t \in Tasks : main.task[t].claimed =>
        \A d \in _dependency_closure(t) : _unresolved_task_impacts(d) = {}

\* A delivered task stays delivered, with the same candidate (ALLOWED_TRANSITIONS).
ApprovedIsFinal ==
    [][\A t \in Tasks : main.task[t].lifecycle = "DELIVERED" => main'.task[t] = main.task[t]]_vars

\* ABANDONED is terminal as well, todo/WORKFLOW.md says: no later command changes
\* whether a task is closed, or how.  It does not hold: a task abandoned in main is
\* open again when the configuration of an older worktree is written over main
\* (abandon_task of another task).
ClosedStaysClosed ==
    [][\A t \in Tasks : main.task[t].lifecycle # "OPEN" =>
            main'.task[t].lifecycle = main.task[t].lifecycle]_vars

\* The number of an attempt is never given out twice (discard_attempt).
AttemptsNeverReused ==
    [][\A t \in Tasks :
        (attempt'[t] # None /\ (attempt[t] = None \/ attempt'[t].attempt # attempt[t].attempt))
            => attempt'[t].attempt > opened[t]]_vars

\* The change is in main, whatever became of the command that merged it.
Landed(record) == record.status = "APPROVED" \/ record.at = "main"

\* An amendment lands only while its target is still planned in main.
AmendmentsLandOnPlans ==
    [][(Landed(amendment') /\ ~Landed(amendment) /\ amendment.target # NoTask)
            => "PLANNED" \in InMain(main, amendment.target)]_vars

\* An amendment or a repair lands only while no task holds the lane in main, the
\* repair although nothing stops a task from being activated beside it (ready).
LandsBesideNoTask ==
    [][((Landed(amendment') /\ ~Landed(amendment))
          \/ \E m \in Repairs : Landed(repair'[m]) /\ ~Landed(repair[m]))
            => \A t \in Tasks : ~main.task[t].claimed]_vars

\* Every open task that no open task of main depends on can be abandoned, which
\* todo/WORKFLOW.md calls the exit of every status that is not terminal.
TasksHaveAnExit ==
    \A t \in Tasks :
        (main.task[t].lifecycle = "OPEN"
            /\ \A u \in Tasks \ {t} : main.task[u].lifecycle = "OPEN" => t \notin depends_on[u])
        => MayAbandon(t)
=============================================================================
