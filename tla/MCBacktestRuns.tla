---------------------------- MODULE MCBacktestRuns ----------------------------
(***************************************************************************)
(* Small instances of BacktestRuns.                                        *)
(***************************************************************************)
EXTENDS BacktestRuns, TLC

RunSymmetry == Permutations(Runs)
=============================================================================
