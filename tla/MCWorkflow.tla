----------------------------- MODULE MCWorkflow -----------------------------
(***************************************************************************)
(* Small instances of Workflow.                                            *)
(***************************************************************************)
EXTENDS Workflow

CONSTANTS t1, t2, m1

\* The second task depends on the first.
Chain == [t \in {t1, t2} |-> IF t = t2 THEN {t1} ELSE {}]
Independent == [t \in {t1, t2} |-> {}]
=============================================================================
