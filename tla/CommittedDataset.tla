--------------------------- MODULE CommittedDataset ---------------------------
(***************************************************************************)
(* What the raw-partition storage promises its readers: a partition is     *)
(* published whole, in one step, and its rows never change; its only later *)
(* event is to be halted, once and for all.                                *)
(***************************************************************************)
CONSTANTS
    Cells,         \* the partitions
    Rows,          \* what a partition can hold when it is published
    Unpublished    \* a partition nobody has committed

VARIABLES
    dataset,       \* partition -> its rows
    halted         \* the partitions a reader is refused

vars == <<dataset, halted>>

Init ==
    /\ dataset = [c \in Cells |-> Unpublished]
    /\ halted = {}

\* A first commit; the batch may contradict itself or an earlier observation.
Publish(c) ==
    /\ dataset[c] = Unpublished
    /\ \E r \in Rows : dataset' = [dataset EXCEPT ![c] = r]
    /\ halted' \in {halted, halted \cup {c}}

Halt(c) ==
    /\ dataset[c] # Unpublished
    /\ halted' = halted \cup {c}
    /\ UNCHANGED dataset

Next == \E c \in Cells : Publish(c) \/ Halt(c)

Spec == Init /\ [][Next]_vars
=============================================================================
