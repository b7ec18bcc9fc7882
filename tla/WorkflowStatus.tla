--------------------------- MODULE WorkflowStatus ---------------------------
(***************************************************************************)
(* The status algebra of the development workflow controller               *)
(* (tools/workflow/core.py): which transitions exist, how a status         *)
(* decomposes into lifecycle and lane claim, and how the status of a task  *)
(* is derived from the artifacts its attempt has committed.                *)
(***************************************************************************)
EXTENDS Naturals, FiniteSets

\* The derived values no artifact can decide.
UNSTARTED == "UNSTARTED"
IN_FLIGHT == "IN_FLIGHT"
\* No value at all: derive_status raises, and so does every command that asks.
UNRECOGNISED == "UNRECOGNISED"

\* Outcomes that map to the same status are one here: the triage's
\* CONTRACT_MISMATCH is its SPEC_DEFECT, the planner's NO_CHANGE_REQUIRED, which
\* also asks for a review of the plan, is its PLAN_READY.
\* One outcome per kind of artifact; "none" when the file does not exist.
Kinds == {"developer", "review", "triage", "owner_decision", "planner", "plan_review"}
NoArtifacts == [k \in Kinds |-> "none"]

_DEVELOPER_OUTCOMES ==
    [CANDIDATE_READY |-> "AWAITING_REVIEW", TRIAGE_REQUIRED |-> "TRIAGE_REQUIRED",
     BLOCKED |-> "BLOCKED"]
\* Faulty variant: a review that could not be carried out counts as passed.
ReviewVerdictsLenient ==
    [PASS |-> "APPROVED", FAIL |-> "CHANGES_REQUESTED",
     TRIAGE_REQUIRED |-> "TRIAGE_REQUIRED", BLOCKED |-> "APPROVED"]
_REVIEW_VERDICTS ==
    [PASS |-> "APPROVED", FAIL |-> "CHANGES_REQUESTED",
     TRIAGE_REQUIRED |-> "TRIAGE_REQUIRED", BLOCKED |-> "BLOCKED"]
_TRIAGE_CLASSIFICATIONS ==
    [IMPLEMENTATION_DEFECT |-> "CHANGES_REQUESTED", SPEC_DEFECT |-> "PLANNING",
     OWNER_DECISION_REQUIRED |-> "OWNER_DECISION_REQUIRED", EXTERNAL_BLOCKED |-> "BLOCKED"]
\* CONTINUATION_REQUIRED is valid for the planner, but no artifact may hold it.
_PLANNER_OUTCOMES ==
    [PLAN_READY |-> "AWAITING_PLAN_REVIEW", BLOCKED |-> "BLOCKED",
     CONTINUATION_REQUIRED |-> "AWAITING_PLAN_REVIEW",
     OWNER_DECISION_REQUIRED |-> "OWNER_DECISION_REQUIRED"]
_PLAN_REVIEW_VERDICTS ==
    [PASS |-> "CHANGES_REQUESTED", FAIL |-> "PLANNING", BLOCKED |-> "PLAN_REVIEW_BLOCKED"]

\* The statuses each status may move to; ABANDONED is reachable from every open one.
OpenTransitions ==
    [PLANNED |-> {"READY"},
     READY |-> {"IN_DEVELOPMENT", "BLOCKED"},
     IN_DEVELOPMENT |-> {"AWAITING_REVIEW", "TRIAGE_REQUIRED", "BLOCKED"},
     AWAITING_REVIEW |-> {"APPROVED", "CHANGES_REQUESTED", "TRIAGE_REQUIRED", "BLOCKED"},
     CHANGES_REQUESTED |-> {"IN_DEVELOPMENT", "BLOCKED"},
     TRIAGE_REQUIRED |-> {"CHANGES_REQUESTED", "PLANNING", "OWNER_DECISION_REQUIRED", "BLOCKED"},
     PLANNING |-> {"AWAITING_PLAN_REVIEW", "OWNER_DECISION_REQUIRED", "BLOCKED"},
     AWAITING_PLAN_REVIEW |-> {"CHANGES_REQUESTED", "PLANNING", "PLAN_REVIEW_BLOCKED"},
     PLAN_REVIEW_BLOCKED |-> {"CHANGES_REQUESTED", "PLANNING", "PLAN_REVIEW_BLOCKED"},
     OWNER_DECISION_REQUIRED |-> {"PLANNING", "BLOCKED"},
     BLOCKED |-> {"READY"}]
Closed == {"APPROVED", "ABANDONED"}
STATES == DOMAIN OpenTransitions \cup Closed
ALLOWED_TRANSITIONS ==
    [s \in STATES |-> IF s \in Closed THEN {} ELSE OpenTransitions[s] \cup {"ABANDONED"}]

\* Faulty variants: a closed task keeps its claim; a blocked task's lifecycle is
\* its status, as before the two were split.
LifecycleKeepsClaim ==
    [s \in STATES |-> [lifecycle |-> IF s = "APPROVED" THEN "DELIVERED"
                                     ELSE IF s = "ABANDONED" THEN "ABANDONED" ELSE "OPEN",
                       claimed |-> s # "PLANNED"]]
LifecycleComposite ==
    [s \in STATES |-> [lifecycle |-> IF s = "APPROVED" THEN "DELIVERED"
                                     ELSE IF s \in {"ABANDONED", "BLOCKED"} THEN s ELSE "OPEN",
                       claimed |-> s \notin Closed \cup {"PLANNED"}]]

\* A status as the task's own lifecycle and its claim on the single lane.
LIFECYCLE_OF ==
    [s \in STATES |-> [lifecycle |-> IF s = "APPROVED" THEN "DELIVERED"
                                     ELSE IF s = "ABANDONED" THEN "ABANDONED" ELSE "OPEN",
                       claimed |-> s \notin Closed \cup {"PLANNED"}]]

\* The latest event of an attempt decides, in the controller's order of ranks.
derive_status(approved, abandoned, attempt, art) ==
    IF approved THEN "APPROVED"
    ELSE IF abandoned THEN "ABANDONED"
    ELSE IF art.plan_review # "none" THEN _PLAN_REVIEW_VERDICTS[art.plan_review]
    ELSE IF art.planner = "CONTINUATION_REQUIRED" THEN UNRECOGNISED
    ELSE IF art.planner # "none" THEN _PLANNER_OUTCOMES[art.planner]
    ELSE IF art.owner_decision # "none" THEN "PLANNING"
    ELSE IF art.triage # "none" THEN _TRIAGE_CLASSIFICATIONS[art.triage]
    ELSE IF art.review # "none" THEN _REVIEW_VERDICTS[art.review]
    ELSE IF art.developer # "none" THEN _DEVELOPER_OUTCOMES[art.developer]
    ELSE IF attempt = 0 THEN UNSTARTED ELSE IN_FLIGHT

\* The statuses the stored facts admit; none when they do not add up.
admitted_statuses(lifecycle, claimed, derived) ==
    IF lifecycle = "DELIVERED" THEN {"APPROVED"} \cap {derived}
    ELSE IF lifecycle = "ABANDONED" THEN {"ABANDONED"} \cap {derived}
    ELSE IF ~claimed THEN IF derived = UNSTARTED THEN {"PLANNED"} ELSE {}
    ELSE IF derived = UNSTARTED THEN {"READY"}
    ELSE IF derived = IN_FLIGHT THEN {"READY", "IN_DEVELOPMENT"}
    ELSE {derived}
=============================================================================
