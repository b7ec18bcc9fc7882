----------------------------- MODULE ReorgHandler -----------------------------
(***************************************************************************)
(* storage/reorg: the handler that reconciles an observed chain with the   *)
(* canonical view of the process and journals what it demotes.             *)
(*                                                                         *)
(* A block is the branch taken at every height from genesis, so its hash   *)
(* binds its ancestry: the parent of block b is b without its last label.  *)
(* An observation is the whole chain up to a tip, which is what            *)
(* add_header demands of the fresh view (every parent already in it).      *)
(* The view lives in memory, the journal in the manifest.                  *)
(***************************************************************************)
EXTENDS Integers, Sequences

CONSTANTS
    Labels,       \* branches a block may have been mined on
    MaxHeight,    \* bound: highest block an observation reaches
    Threshold,    \* policy.deep_reorg_threshold_blocks
    MaxCalls      \* bound: calls of the handler and restarts

ASSUME HeightAssumption == MaxHeight \in Nat
ASSUME ThresholdAssumption == Threshold \in Nat \ {0}
ASSUME CallsAssumption == MaxCalls \in Nat

Heights == 0 .. MaxHeight
Blocks == UNION {[1 .. n -> Labels] : n \in Heights}
Prefix(b, n) == [k \in 1 .. n |-> b[k]]
Headers(chain) == [n \in 0 .. Len(chain) |-> Prefix(chain, n)]

Reasons == {"shallow_reorg", "deep_reorg", "removed_log", "orphan_reappearance"}
Verdicts == {"none", "continue", "halt_deep_reorg", "halt_critical_incident",
             "reconcile_removed_log", "reconcile_orphan_reappearance", "raised"}

\* A row of reorg_journal: replacement is {} for NULL.
Row(orphan, replacement, reason) ==
    [orphan |-> orphan, replacement |-> replacement, reason |-> reason]

VARIABLES
    view,        \* CanonicalChainView: height -> block
    journal,     \* rows of reorg_journal, repetitions of a row not counted
    incidents,   \* blocks with a critical-incident candidate
    verdict,     \* kind of the last decision
    accepted,    \* ghost: the chain of the last observation answered "continue"
    calls        \* how many calls and restarts there have been

vars == <<view, journal, incidents, verdict, accepted, calls>>

EmptyView == [n \in {} |-> <<>>]
Opened == view # EmptyView
Tip == CHOOSE n \in Heights : DOMAIN view = 0 .. n

TypeOK ==
    /\ view = EmptyView \/ \E n \in Heights : view \in [0 .. n -> Blocks]
    /\ \A n \in DOMAIN view : view[n] \in [1 .. n -> Labels]
    /\ journal \subseteq [orphan : Blocks, replacement : SUBSET Blocks, reason : Reasons]
    /\ incidents \subseteq Blocks
    /\ verdict \in Verdicts
    /\ accepted \in Blocks
    /\ calls \in 0 .. MaxCalls

Init ==
    /\ view = EmptyView
    /\ journal = {}
    /\ incidents = {}
    /\ verdict = "none"
    /\ accepted = <<>>
    /\ calls = 0

-----------------------------------------------------------------------------
Shared(chain) == {n \in DOMAIN view \cap (0 .. Len(chain)) : view[n] = Prefix(chain, n)}

\* Highest block both hold; genesis is the same on every branch.
CommonAncestor(chain) == CHOOSE n \in Shared(chain) : \A m \in Shared(chain) : m <= n

\* The walk from the observed tip gives up after Threshold parent steps.
Unreachable(chain) == Len(chain) - CommonAncestor(chain) > Threshold
OrphanDepth(chain) == Tip - CommonAncestor(chain)
IsDeep(chain) == Unreachable(chain) \/ OrphanDepth(chain) >= Threshold

\* Plausible bug: lower_exclusive taken at its word skips genesis.
AbsorbedExclusively(chain) ==
    [n \in DOMAIN view \cup (1 .. Len(chain)) |->
        IF n \in DOMAIN view THEN view[n] ELSE Headers(chain)[n]]

\* A height already in the view keeps its block: the view may mix branches.
Absorbed(chain) ==
    [n \in DOMAIN view \cup DOMAIN Headers(chain) |->
        IF n \in DOMAIN view THEN view[n] ELSE Headers(chain)[n]]

\* Rows for the canonical blocks above the ancestor, up to a height.
OrphanRows(chain, last) ==
    {Row(view[n], {Prefix(chain, n) : m \in {n} \cap (0 .. Len(chain))}, "shallow_reorg") :
        n \in CommonAncestor(chain) + 1 .. last}

Accept(chain) ==
    /\ view' = Absorbed(chain)
    /\ accepted' = chain
    /\ verdict' = "continue"
    /\ UNCHANGED incidents

ObserveFirst(chain) ==
    /\ ~Opened
    /\ Accept(chain)
    /\ UNCHANGED journal

\* Plausible bug: the observed blocks are kept for the next look.
HaltDeepReorgAbsorbing(chain) ==
    /\ Opened /\ IsDeep(chain)
    /\ journal' = journal \cup {Row(view[Tip], {}, "deep_reorg")}
    /\ view' = Absorbed(chain)
    /\ verdict' = "halt_deep_reorg"
    /\ UNCHANGED <<incidents, accepted>>

HaltDeepReorg(chain) ==
    /\ Opened /\ IsDeep(chain)
    /\ journal' = journal \cup {Row(view[Tip], {}, "deep_reorg")}
    /\ verdict' = "halt_deep_reorg"
    /\ UNCHANGED <<view, incidents, accepted>>

Reconcile(chain) ==
    /\ Opened /\ ~IsDeep(chain)
    /\ journal' = journal \cup OrphanRows(chain, Tip)
    /\ Accept(chain)

\* Plausible bug: the view takes the blocks before the rows are written.
FailToJournalAbsorbed(chain) ==
    /\ Opened /\ ~IsDeep(chain)
    /\ \E last \in CommonAncestor(chain) .. Tip - 1 :
          journal' = journal \cup OrphanRows(chain, last)
    /\ view' = Absorbed(chain)
    /\ verdict' = "raised"
    /\ UNCHANGED <<incidents, accepted>>

\* Each row is its own transaction; the one that fails ends the observation.
FailToJournal(chain) ==
    /\ Opened
    /\ \/ IsDeep(chain) /\ UNCHANGED journal
       \/ /\ ~IsDeep(chain)
          /\ \E last \in CommonAncestor(chain) .. Tip - 1 :
                journal' = journal \cup OrphanRows(chain, last)
    /\ verdict' = "raised"
    /\ UNCHANGED <<view, incidents, accepted>>

DetectFinalizedAncestryViolation(block) ==
    /\ incidents' = incidents \cup {block}
    /\ verdict' = "halt_critical_incident"
    /\ UNCHANGED <<view, journal, accepted>>

RecordRemovedLog(block) ==
    /\ journal' = journal \cup {Row(block, {}, "removed_log")}
    /\ verdict' = "reconcile_removed_log"
    /\ UNCHANGED <<view, incidents, accepted>>

RecordOrphanReappearance(block, replacement) ==
    /\ journal' = journal \cup {Row(block, {replacement}, "orphan_reappearance")}
    /\ verdict' = "reconcile_orphan_reappearance"
    /\ UNCHANGED <<view, incidents, accepted>>

\* A new process builds a new handler: the journal stays, the view is empty.
Restart ==
    /\ Opened
    /\ view' = EmptyView
    /\ accepted' = <<>>
    /\ verdict' = "none"
    /\ UNCHANGED <<journal, incidents>>

Observe(chain) ==
    ObserveFirst(chain) \/ HaltDeepReorg(chain) \/ Reconcile(chain) \/ FailToJournal(chain)

\* The callers' notices are about blocks they have seen in the view.
Notify ==
    \E n \in DOMAIN view :
        \/ DetectFinalizedAncestryViolation(view[n])
        \/ RecordRemovedLog(view[n])
        \/ \E other \in [1 .. n -> Labels] \ {view[n]} :
               RecordOrphanReappearance(view[n], other)

Next ==
    /\ calls < MaxCalls
    /\ calls' = calls + 1
    /\ (\E chain \in Blocks : Observe(chain)) \/ Notify \/ Restart

Spec == Init /\ [][Next]_vars

-----------------------------------------------------------------------------
\* Wherever the view mixes branches -- a block whose ancestor at a lower
\* height is not the block the view holds there -- the journal says which
\* block was demoted and what replaced it, even if observations failed on
\* the way: the rows are written before the view takes the new blocks.
DisagreementsAreJournaled ==
    \A b, c \in DOMAIN view :
        c < b /\ view[c] # Prefix(view[b], c) =>
            Row(view[c], {Prefix(view[b], c)}, "shallow_reorg") \in journal

\* A chain that orphans Threshold or more blocks of the view (the second test of
\* observe_new_tip) goes on doing so, whatever is accepted in between, until the
\* process and its view are gone.  This is about the depth the handler measures; a
\* chain refused because the walk from its tip is too long can come in later.
MeasuredDepthStaysDeep ==
    [][\A chain \in Blocks :
         Opened /\ Opened' /\ OrphanDepth(chain) >= Threshold =>
             OrphanDepth(chain)' >= Threshold]_vars

\* False of the code: a chain whose ancestor is too far from its own tip is refused,
\* a shorter piece of it is accepted as shallow, and then the chain is in order.
HaltedForksStayHalted ==
    [][\A chain \in Blocks : Opened /\ Opened' /\ IsDeep(chain) => IsDeep(chain)']_vars

\* Evidence only grows: no journal row or incident is withdrawn, and a view
\* never re-points a height, it only ends with its process.
EvidenceOnlyGrows ==
    [][/\ journal \subseteq journal'
       /\ incidents \subseteq incidents'
       /\ view' # EmptyView => \A n \in DOMAIN view : view[n] = view'[n]]_vars

\* What policy.py says of the threshold: when more blocks than Threshold of
\* the chain last accepted are orphaned, the handler halts.
DeepReorgHalts ==
    [][verdict' = "continue" /\ Opened =>
         \E n \in 0 .. Len(accepted) :
             /\ n <= Len(accepted')
             /\ Prefix(accepted, n) = Prefix(accepted', n)
             /\ Len(accepted) - n <= Threshold]_vars

=============================================================================
