-------------------------- MODULE MCIngestionRunner --------------------------
(***************************************************************************)
(* Small instances of IngestionRunner.                                     *)
(***************************************************************************)
EXTENDS IngestionRunner

\* Events in the partial first cell, in a full cell and at the chain's end.
MCEventBlocks == {1, 3, 4}

\* A chain whose first windows are empty, so that checkpoints carry a hash.
SparseEventBlocks == {4, 6}

\* The same, with two events in one cell: a run that stops between them leaves
\* a cell that a later run cannot complete.
DenseEventBlocks == {4, 5, 6}
=============================================================================
