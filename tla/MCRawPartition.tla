--------------------------- MODULE MCRawPartition ---------------------------
(***************************************************************************)
(* Small instances of RawPartitionWriter and RawPartitionReader.           *)
(***************************************************************************)
EXTENDS RawPartitionReader, FiniteSets, TLC

CONSTANTS k1, k2, k3   \* EventKeys: k1, k2 in the first cell, k3 in the next

MCBlockOf == (k1 :> 0) @@ (k2 :> 1) @@ (k3 :> 2)

\* Two EventKeys of one block, for the runs with two writers.
OneBlockOf == (k1 :> 0) @@ (k2 :> 0)

ContentSymmetry == Permutations(Contents) \cup Permutations(Acquisitions)
WriterSymmetry == ContentSymmetry \cup Permutations(Writers) \cup Permutations({k1, k2})

\* The bound of the runs with two writers: batches of two records at most.
SmallBatches == \A w \in Writers : Cardinality(op[w].batch) <= 2

\* The writers alone, with the readers' variables at rest.
WritersSpec == ReaderInit /\ [][WriterMoves]_allVars
=============================================================================
