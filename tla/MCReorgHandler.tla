---------------------------- MODULE MCReorgHandler ----------------------------
(* The reorg handler over two branches of a short chain. *)
EXTENDS ReorgHandler, TLC

BranchSymmetry == Permutations(Labels)
=============================================================================
