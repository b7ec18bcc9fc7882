-------------------------- MODULE ReorgHandlerProofs --------------------------
(***************************************************************************)
(* The safety properties of ReorgHandler for every number of branches,     *)
(* every height and every threshold.                                       *)
(***************************************************************************)
EXTENDS ReorgHandler, FiniteSetTheorems, SequenceTheorems, WellFoundedInduction, TLAPS

(***************************************************************************)
(* Blocks, their prefixes and the highest height two chains share.         *)
(***************************************************************************)

\* An interval from one determines its end.
LEMMA IntervalLength ==
  ASSUME NEW i \in Nat, NEW j \in Nat, 1 .. i = 1 .. j
  PROVE  i = j
<1>1. ~(i < j)
  <2>1. i < j => j \in 1 .. j /\ j \notin 1 .. i
    OBVIOUS
  <2> QED BY <2>1
<1>2. ~(j < i)
  <2>1. j < i => i \in 1 .. i /\ i \notin 1 .. j
    OBVIOUS
  <2> QED BY <2>1
<1> QED BY <1>1, <1>2

\* A block is a sequence of labels, one per height above genesis.
LEMMA BlockShape ==
  ASSUME NEW b \in Blocks
  PROVE  Len(b) \in Heights /\ b \in [1 .. Len(b) -> Labels]
<1>1. PICK n \in Heights : b \in [1 .. n -> Labels]
  BY DEF Blocks
<1>2. n \in Nat
  BY <1>1, HeightAssumption DEF Heights
<1>3. b \in Seq(Labels)
  BY <1>1, <1>2
<1>4. Len(b) \in Nat /\ b \in [1 .. Len(b) -> Labels] /\ DOMAIN b = 1 .. Len(b)
  BY <1>3, LenProperties
<1>5. 1 .. Len(b) = 1 .. n
  BY <1>1, <1>4
<1>6. Len(b) = n
  <2>1. Len(b) \in Nat
    BY <1>4
  <2> QED BY <1>2, <1>5, <2>1, IntervalLength
<1> QED BY <1>1, <1>4, <1>6

\* A prefix is the block of its height; a prefix of a prefix is a prefix.
LEMMA PrefixShape ==
  ASSUME NEW b \in Blocks, NEW n \in 0 .. Len(b)
  PROVE  /\ Prefix(b, n) \in [1 .. n -> Labels]
         /\ Prefix(b, n) \in Blocks
         /\ \A m \in 0 .. n : Prefix(Prefix(b, n), m) = Prefix(b, m)
<1>1. Len(b) \in Heights /\ b \in [1 .. Len(b) -> Labels]
  BY BlockShape
<1>2. Len(b) \in Nat /\ n \in Heights
  BY <1>1, HeightAssumption DEF Heights
<1>3. Prefix(b, n) \in [1 .. n -> Labels]
  BY <1>1, <1>2 DEF Prefix
<1>4. Prefix(b, n) \in Blocks
  BY <1>2, <1>3 DEF Blocks
<1>5. ASSUME NEW m \in 0 .. n PROVE Prefix(Prefix(b, n), m) = Prefix(b, m)
  <2>1. \A k \in 1 .. m : k \in 1 .. n
    BY <1>2
  <2> QED BY <2>1 DEF Prefix
<1> QED BY <1>3, <1>4, <1>5

\* A set of heights that is not empty has a highest one.
LEMMA HighestHeight ==
  ASSUME NEW N \in Nat, NEW S \in SUBSET (0 .. N), S # {}
  PROVE  \E n \in S : \A m \in S : m <= n
<1> DEFINE Above(x) == x .. N
           T == {Above(x) : x \in S}
<1>1. IsWellFoundedOn(StrictSubsetOrdering(0 .. N), FiniteSubsetsOf(0 .. N))
  BY FS_StrictSubsetOrderingWellFounded
<1>2. ASSUME NEW x \in S PROVE Above(x) \in FiniteSubsetsOf(0 .. N)
  <2>1. IsFiniteSet(x .. N)
    BY FS_Interval
  <2>2. x .. N \subseteq 0 .. N
    OBVIOUS
  <2> QED BY <2>1, <2>2 DEF FiniteSubsetsOf
<1>3. T \subseteq FiniteSubsetsOf(0 .. N) /\ T # {}
  BY <1>2
<1> HIDE DEF T
<1>4. PICK A \in T : \A B \in T : ~ (<<B, A>> \in StrictSubsetOrdering(0 .. N))
  BY <1>1, <1>3, WFMin
<1>5. PICK n \in S : A = Above(n)
  BY <1>4 DEF T
<1>6. ASSUME NEW m \in S, ~(m <= n) PROVE FALSE
  <2>1. Above(m) \in T /\ Above(m) \in SUBSET (0 .. N) /\ A \in SUBSET (0 .. N)
    BY <1>5 DEF T
  <2>2. Above(m) \subseteq A /\ n \in A /\ n \notin Above(m)
    BY <1>5, <1>6
  <2>3. <<Above(m), A>> \in StrictSubsetOrdering(0 .. N)
    <3> HIDE DEF Above
    <3> QED BY <2>1, <2>2 DEF StrictSubsetOrdering
  <2> QED BY <1>4, <2>1, <2>3
<1> QED BY <1>6

-----------------------------------------------------------------------------
(***************************************************************************)
(* The view.                                                               *)
(***************************************************************************)

\* A view that is not empty holds every height up to its tip.
LEMMA ViewShape ==
  ASSUME TypeOK, Opened
  PROVE  /\ Tip \in Heights /\ DOMAIN view = 0 .. Tip
         /\ view \in [0 .. Tip -> Blocks]
         /\ \A n \in 0 .. Tip : view[n] \in [1 .. n -> Labels]
<1>1. PICK n \in Heights : view \in [0 .. n -> Blocks]
  BY DEF TypeOK, Opened
<1>2. DOMAIN view = 0 .. n
  BY <1>1
<1>3. Tip \in Heights /\ DOMAIN view = 0 .. Tip
  BY <1>2 DEF Tip
<1> QED BY <1>1, <1>2, <1>3 DEF TypeOK

\* Genesis is shared, so there is a highest shared height: what the walk of
\* find_common_ancestor stops at.
LEMMA AncestorIsHighestShared ==
  ASSUME TypeOK, Opened, NEW chain \in Blocks
  PROVE  /\ CommonAncestor(chain) \in Shared(chain)
         /\ \A m \in Shared(chain) : m <= CommonAncestor(chain)
<1>1. /\ Tip \in Nat /\ Len(chain) \in Nat
      /\ DOMAIN view = 0 .. Tip
      /\ view[0] \in [1 .. 0 -> Labels]
  BY ViewShape, BlockShape, HeightAssumption DEF Heights
<1>2. Prefix(chain, 0) \in [1 .. 0 -> Labels]
  BY <1>1, PrefixShape
<1>3. view[0] = Prefix(chain, 0)
  <2>1. \A k \in 1 .. 0 : view[0][k] = Prefix(chain, 0)[k]
    OBVIOUS
  <2> QED BY <1>1, <1>2, <2>1
<1>4. 0 \in Shared(chain)
  BY <1>1, <1>3 DEF Shared
<1>5. Shared(chain) \in SUBSET (0 .. Tip)
  BY <1>1 DEF Shared
<1>6. \E n \in Shared(chain) : \A m \in Shared(chain) : m <= n
  BY <1>1, <1>4, <1>5, HighestHeight
<1> QED BY <1>6 DEF CommonAncestor

\* Absorbing a chain keeps every height of the view and adds the chain's
\* blocks above it.
LEMMA AbsorbedShape ==
  ASSUME TypeOK, NEW chain \in Blocks
  PROVE  /\ \E n \in Heights : Absorbed(chain) \in [0 .. n -> Blocks]
         /\ DOMAIN Absorbed(chain) = DOMAIN view \cup (0 .. Len(chain))
         /\ \A n \in DOMAIN view : Absorbed(chain)[n] = view[n]
         /\ \A n \in (0 .. Len(chain)) \ DOMAIN view : Absorbed(chain)[n] = Prefix(chain, n)
         /\ \A n \in DOMAIN Absorbed(chain) : Absorbed(chain)[n] \in [1 .. n -> Labels]
<1>1. Len(chain) \in Heights /\ Len(chain) \in Nat
  BY BlockShape, HeightAssumption DEF Heights
<1>2. \A n \in 0 .. Len(chain) : Prefix(chain, n) \in Blocks /\ Prefix(chain, n) \in [1 .. n -> Labels]
  BY PrefixShape
<1>3. DOMAIN Headers(chain) = 0 .. Len(chain)
  BY DEF Headers
<1>4. \A n \in 0 .. Len(chain) : Headers(chain)[n] = Prefix(chain, n)
  BY DEF Headers
<1>5. /\ DOMAIN Absorbed(chain) = DOMAIN view \cup (0 .. Len(chain))
      /\ \A n \in DOMAIN view : Absorbed(chain)[n] = view[n]
      /\ \A n \in (0 .. Len(chain)) \ DOMAIN view : Absorbed(chain)[n] = Prefix(chain, n)
  BY <1>3, <1>4 DEF Absorbed
<1>6. \A n \in DOMAIN Absorbed(chain) : Absorbed(chain)[n] \in [1 .. n -> Labels]
  BY <1>2, <1>5 DEF TypeOK
<1>7. \A n \in DOMAIN view : view[n] \in Blocks
  BY DEF TypeOK, EmptyView
<1>8. \E n \in Heights : DOMAIN view \cup (0 .. Len(chain)) = 0 .. n
  <2>1. CASE view = EmptyView
    <3>1. DOMAIN view = {}
      BY <2>1 DEF EmptyView
    <3> QED BY <1>1, <3>1
  <2>2. CASE Opened
    <3>1. Tip \in Heights /\ Tip \in Nat /\ DOMAIN view = 0 .. Tip
      BY <2>2, ViewShape, HeightAssumption DEF Heights
    <3>2. CASE Tip <= Len(chain)
      BY <1>1, <3>1, <3>2
    <3>3. CASE ~(Tip <= Len(chain))
      BY <1>1, <3>1, <3>3
    <3> QED BY <3>2, <3>3
  <2> QED BY <2>1, <2>2 DEF Opened
<1>9. \A n \in DOMAIN Absorbed(chain) : Absorbed(chain)[n] \in Blocks
  BY <1>2, <1>5, <1>7
<1>10. Absorbed(chain) = [n \in DOMAIN Absorbed(chain) |-> Absorbed(chain)[n]]
  BY DEF Absorbed
<1>11. \E n \in Heights : Absorbed(chain) \in [0 .. n -> Blocks]
  BY <1>5, <1>8, <1>9, <1>10
<1> QED BY <1>5, <1>6, <1>11

-----------------------------------------------------------------------------
(***************************************************************************)
(* Type correctness.                                                       *)
(***************************************************************************)

\* The rows a shallow reorg journals are typed.
LEMMA RowType ==
  ASSUME NEW o \in Blocks, NEW R \in SUBSET Blocks, NEW r \in Reasons
  PROVE  Row(o, R, r) \in [orphan : Blocks, replacement : SUBSET Blocks, reason : Reasons]
BY DEF Row

\* The blocks of the view are blocks.
LEMMA ViewBlocks == TypeOK => \A n \in DOMAIN view : view[n] \in Blocks
BY DEF TypeOK, EmptyView

\* Every row a reconciliation writes is well-formed.
LEMMA OrphanRowsType ==
  ASSUME TypeOK, Opened, NEW chain \in Blocks, NEW last \in CommonAncestor(chain) .. Tip
  PROVE  OrphanRows(chain, last) \subseteq
           [orphan : Blocks, replacement : SUBSET Blocks, reason : Reasons]
<1>1. /\ Tip \in Nat /\ DOMAIN view = 0 .. Tip
      /\ CommonAncestor(chain) \in 0 .. Tip
  BY ViewShape, AncestorIsHighestShared, HeightAssumption DEF Heights, Shared
<1>2. ASSUME NEW n \in CommonAncestor(chain) + 1 .. last
      PROVE  Row(view[n], {Prefix(chain, n) : m \in {n} \cap (0 .. Len(chain))}, "shallow_reorg")
               \in [orphan : Blocks, replacement : SUBSET Blocks, reason : Reasons]
  <2>1. view[n] \in Blocks
    BY <1>1, ViewBlocks
  <2>2. {Prefix(chain, n) : m \in {n} \cap (0 .. Len(chain))} \in SUBSET Blocks
    BY PrefixShape
  <2>3. "shallow_reorg" \in Reasons
    BY DEF Reasons
  <2> QED BY <2>1, <2>2, <2>3, RowType
<1> QED BY <1>2 DEF OrphanRows

\* The empty view and journal are typed.
LEMMA TypeInit == Init => TypeOK
<1> SUFFICES ASSUME Init PROVE TypeOK
  OBVIOUS
<1>1. DOMAIN view = {}
  BY DEF Init, EmptyView
<1>2. <<>> \in Blocks
  <2>1. 0 \in Heights
    BY HeightAssumption DEF Heights
  <2>2. <<>> \in [1 .. 0 -> Labels]
    OBVIOUS
  <2> QED BY <2>1, <2>2 DEF Blocks
<1> QED BY <1>1, <1>2, CallsAssumption DEF Init, TypeOK, Verdicts

\* Every call, notice and restart keeps the state typed.
LEMMA TypeStep == TypeOK /\ [Next]_vars => TypeOK'
<1> SUFFICES ASSUME TypeOK, [Next]_vars PROVE TypeOK'
  OBVIOUS
<1>1. CASE UNCHANGED vars
  BY <1>1 DEF vars, TypeOK
<1> DEFINE WellFormed == [orphan : Blocks, replacement : SUBSET Blocks, reason : Reasons]
           Rest == /\ view' = EmptyView \/ \E n \in Heights : view' \in [0 .. n -> Blocks]
                   /\ \A n \in DOMAIN view' : view'[n] \in [1 .. n -> Labels]
                   /\ journal' \subseteq WellFormed
                   /\ incidents' \subseteq Blocks
                   /\ verdict' \in Verdicts
                   /\ accepted' \in Blocks
<1>2. CASE Next
  <2>0. calls' \in 0 .. MaxCalls
    BY <1>2, CallsAssumption DEF Next, TypeOK
  <2>1. ASSUME NEW chain \in Blocks, ObserveFirst(chain) PROVE Rest
    <3>1. view' = Absorbed(chain)
      BY <2>1 DEF ObserveFirst, Accept
    <3> QED BY <2>1, <3>1, AbsorbedShape DEF ObserveFirst, Accept, TypeOK, Verdicts
  <2>2. ASSUME NEW chain \in Blocks, HaltDeepReorg(chain) PROVE Rest
    <3>1. Opened /\ Tip \in DOMAIN view
      BY <2>2, ViewShape, HeightAssumption DEF HaltDeepReorg, Heights
    <3>2. Row(view[Tip], {}, "deep_reorg") \in WellFormed
      BY <3>1, ViewBlocks, RowType DEF Reasons
    <3> QED BY <2>2, <3>2 DEF HaltDeepReorg, TypeOK, Verdicts
  <2>3. ASSUME NEW chain \in Blocks, Reconcile(chain) PROVE Rest
    <3>1. view' = Absorbed(chain) /\ Opened /\ journal' = journal \cup OrphanRows(chain, Tip)
      BY <2>3 DEF Reconcile, Accept
    <3>2. Tip \in CommonAncestor(chain) .. Tip
      BY <3>1, ViewShape, AncestorIsHighestShared, HeightAssumption DEF Heights, Shared
    <3>3. journal' \subseteq WellFormed
      BY <3>1, <3>2, OrphanRowsType DEF TypeOK
    <3> QED BY <2>3, <3>1, <3>3, AbsorbedShape DEF Reconcile, Accept, TypeOK, Verdicts
  <2>4. ASSUME NEW chain \in Blocks, FailToJournal(chain) PROVE Rest
    <3>1. Opened
      BY <2>4 DEF FailToJournal
    <3>2. ASSUME NEW last \in CommonAncestor(chain) .. Tip - 1
          PROVE  last \in CommonAncestor(chain) .. Tip
      BY <3>1, ViewShape, AncestorIsHighestShared, HeightAssumption DEF Heights, Shared
    <3>3. journal' \subseteq WellFormed
      BY <2>4, <3>1, <3>2, OrphanRowsType DEF FailToJournal, TypeOK
    <3> QED BY <2>4, <3>3 DEF FailToJournal, TypeOK, Verdicts
  <2>5. ASSUME Notify PROVE Rest
    <3>1. PICK n \in DOMAIN view :
             \/ DetectFinalizedAncestryViolation(view[n])
             \/ RecordRemovedLog(view[n])
             \/ \E other \in [1 .. n -> Labels] \ {view[n]} :
                    RecordOrphanReappearance(view[n], other)
      BY <2>5 DEF Notify
    <3>2. view[n] \in Blocks
      BY ViewBlocks
    <3>3. n \in Heights
      <4>1. Opened
        BY DEF Opened, EmptyView
      <4> QED BY <4>1, ViewShape, HeightAssumption DEF Heights
    <3>4. CASE DetectFinalizedAncestryViolation(view[n])
      BY <3>2, <3>4 DEF DetectFinalizedAncestryViolation, TypeOK, Verdicts
    <3>5. CASE RecordRemovedLog(view[n])
      <4>1. Row(view[n], {}, "removed_log") \in WellFormed
        BY <3>2, RowType DEF Reasons
      <4> QED BY <3>5, <4>1 DEF RecordRemovedLog, TypeOK, Verdicts
    <3>6. ASSUME NEW other \in [1 .. n -> Labels], RecordOrphanReappearance(view[n], other)
          PROVE  Rest
      <4>1. other \in Blocks
        BY <3>3 DEF Blocks
      <4>2. Row(view[n], {other}, "orphan_reappearance") \in WellFormed
        BY <3>2, <4>1, RowType DEF Reasons
      <4> QED BY <3>6, <4>2 DEF RecordOrphanReappearance, TypeOK, Verdicts
    <3> QED BY <3>1, <3>4, <3>5, <3>6
  <2>6. ASSUME Restart PROVE Rest
    <3>1. DOMAIN EmptyView = {}
      BY DEF EmptyView
    <3>2. <<>> \in Blocks
      <4>1. 0 \in Heights
        BY HeightAssumption DEF Heights
      <4>2. <<>> \in [1 .. 0 -> Labels]
        OBVIOUS
      <4> QED BY <4>1, <4>2 DEF Blocks
    <3> QED BY <2>6, <3>1, <3>2 DEF Restart, TypeOK, Verdicts
  <2>7. Rest
    BY <1>2, <2>1, <2>2, <2>3, <2>4, <2>5, <2>6 DEF Next, Observe
  <2> QED BY <2>0, <2>7 DEF TypeOK
<1> QED BY <1>1, <1>2

\* The state of the handler and of its journal stays typed, for every number
\* of branches, heights and calls.
THEOREM TypesAreKept == Spec => []TypeOK
BY TypeInit, TypeStep, PTL DEF Spec

-----------------------------------------------------------------------------
(***************************************************************************)
(* What a step can do to the view: take it over, extend it or drop it.     *)
(***************************************************************************)

\* Only an accepted observation changes the view without ending it, and only
\* a reconciliation that is not deep changes one that is open.
LEMMA ViewMoves ==
  ASSUME TypeOK, [Next]_vars
  PROVE  \/ UNCHANGED view /\ journal \subseteq journal'
         \/ view' = EmptyView /\ UNCHANGED journal
         \/ \E chain \in Blocks : ~Opened /\ view' = Absorbed(chain) /\ UNCHANGED journal
         \/ \E chain \in Blocks : Reconcile(chain)
<1>1. CASE UNCHANGED vars
  BY <1>1 DEF vars
<1>2. CASE Next
  <2>1. ASSUME NEW chain \in Blocks, Observe(chain)
        PROVE  \/ UNCHANGED view /\ journal \subseteq journal'
               \/ ~Opened /\ view' = Absorbed(chain) /\ UNCHANGED journal
               \/ Reconcile(chain)
    BY <2>1 DEF Observe, ObserveFirst, Accept, HaltDeepReorg, FailToJournal
  <2>2. ASSUME Notify PROVE UNCHANGED view /\ journal \subseteq journal'
    BY <2>2 DEF Notify, DetectFinalizedAncestryViolation, RecordRemovedLog,
                RecordOrphanReappearance
  <2>3. ASSUME Restart PROVE view' = EmptyView /\ UNCHANGED journal
    BY <2>3 DEF Restart
  <2> QED BY <1>2, <2>1, <2>2, <2>3 DEF Next
<1> QED BY <1>1, <1>2

\* No step of the handler withdraws evidence or re-points a height: the view
\* it holds is extended or ends with its process.
THEOREM EvidenceIsKept == Spec => EvidenceOnlyGrows
<1> DEFINE Grows == /\ journal \subseteq journal'
                    /\ incidents \subseteq incidents'
                    /\ view' # EmptyView => \A n \in DOMAIN view : view[n] = view'[n]
<1>1. ASSUME TypeOK, [Next]_vars PROVE Grows
  <2>1. incidents \subseteq incidents'
    BY <1>1 DEF vars, Next, Observe, ObserveFirst, HaltDeepReorg, Reconcile, Accept,
                FailToJournal, Notify, DetectFinalizedAncestryViolation, RecordRemovedLog,
                RecordOrphanReappearance, Restart
  <2>2. ASSUME NEW chain \in Blocks, view' = Absorbed(chain)
        PROVE  \A n \in DOMAIN view : view[n] = view'[n]
    BY <1>1, <2>2, AbsorbedShape
  <2>3. ASSUME NEW chain \in Blocks, Reconcile(chain)
        PROVE  journal \subseteq journal' /\ view' = Absorbed(chain)
    BY <2>3 DEF Reconcile, Accept
  <2> QED BY <1>1, <2>1, <2>2, <2>3, ViewMoves
<1>2. TypeOK /\ [Next]_vars => [Grows]_vars
  BY <1>1
<1> HIDE DEF Grows
<1>3. Spec => [][Grows]_vars
  BY <1>2, TypeInit, TypeStep, PTL DEF Spec
<1> QED BY <1>3 DEF Grows, EvidenceOnlyGrows

-----------------------------------------------------------------------------
(***************************************************************************)
(* The journal explains every disagreement of the view.                    *)
(***************************************************************************)

JournalInv == TypeOK /\ DisagreementsAreJournaled

\* An empty view disagrees with nothing.
LEMMA JournalInit == Init => JournalInv
<1> SUFFICES ASSUME Init PROVE DisagreementsAreJournaled
  BY TypeInit DEF JournalInv
<1>1. DOMAIN view = {}
  BY DEF Init, EmptyView
<1> QED BY <1>1 DEF DisagreementsAreJournaled

\* A reconciliation journals each height above the ancestor; below it, the
\* view's block at the ancestor disagrees exactly where the chain does.
LEMMA ReconcileJournals ==
  ASSUME JournalInv, NEW chain \in Blocks, Reconcile(chain)
  PROVE  DisagreementsAreJournaled'
<1> DEFINE A == CommonAncestor(chain)
           Journaled(x, y) == Row(x, {y}, "shallow_reorg") \in journal'
<1>1. /\ TypeOK /\ Opened /\ view' = Absorbed(chain)
      /\ journal' = journal \cup OrphanRows(chain, Tip)
  BY DEF JournalInv, Reconcile, Accept
<1>2. /\ Tip \in Nat /\ Len(chain) \in Nat /\ DOMAIN view = 0 .. Tip
      /\ DOMAIN view' = (0 .. Tip) \cup (0 .. Len(chain))
      /\ \A n \in 0 .. Tip : view'[n] = view[n]
      /\ \A n \in (0 .. Len(chain)) \ (0 .. Tip) : view'[n] = Prefix(chain, n)
  <2>1. Tip \in Nat /\ DOMAIN view = 0 .. Tip
    BY <1>1, ViewShape, HeightAssumption DEF Heights
  <2>2. Len(chain) \in Nat
    BY BlockShape, HeightAssumption DEF Heights
  <2> QED BY <1>1, <2>1, <2>2, AbsorbedShape
<1>3. A \in 0 .. Tip /\ A \in 0 .. Len(chain) /\ view[A] = Prefix(chain, A)
  BY <1>1, <1>2, AncestorIsHighestShared DEF Shared
<1> HIDE DEF A
<1>4. ASSUME NEW b \in DOMAIN view', NEW c \in DOMAIN view', c < b,
             view'[c] # Prefix(view'[b], c)
      PROVE  Journaled(view'[c], Prefix(view'[b], c))
  <2>1. CASE b \in 0 .. Tip
    <3>1. c \in 0 .. Tip
      BY <1>2, <1>4, <2>1
    <3> QED BY <1>1, <1>2, <1>4, <2>1, <3>1 DEF JournalInv, DisagreementsAreJournaled
  <2>2. CASE b \notin 0 .. Tip
    <3>1. b \in 0 .. Len(chain) /\ c \in 0 .. Len(chain) /\ c \in 0 .. b
          /\ view'[b] = Prefix(chain, b)
      BY <1>2, <1>4, <2>2
    <3>2. Prefix(view'[b], c) = Prefix(chain, c)
      BY <3>1, PrefixShape
    <3>3. c \in 0 .. Tip /\ view'[c] = view[c] /\ view[c] # Prefix(chain, c)
      BY <1>2, <1>4, <3>1, <3>2
    <3>4. CASE c > A
      <4>1. c \in A + 1 .. Tip
        BY <1>2, <1>3, <3>3, <3>4
      <4>2. {Prefix(chain, c) : m \in {c} \cap (0 .. Len(chain))} = {Prefix(chain, c)}
        BY <3>1
      <4>3. Row(view[c], {Prefix(chain, c)}, "shallow_reorg") \in OrphanRows(chain, Tip)
        BY <4>1, <4>2 DEF OrphanRows, A
      <4> QED BY <1>1, <3>2, <3>3, <4>3
    <3>5. CASE c < A
      <4>1. Prefix(view[A], c) = Prefix(chain, c)
        BY <1>2, <1>3, <3>3, <3>5, PrefixShape
      <4>2. Row(view[c], {Prefix(view[A], c)}, "shallow_reorg") \in journal
        BY <1>2, <1>3, <3>3, <3>5, <4>1 DEF JournalInv, DisagreementsAreJournaled
      <4> QED BY <1>1, <3>2, <3>3, <4>1, <4>2
    <3>6. c # A
      BY <1>3, <3>3
    <3> QED BY <1>2, <1>3, <3>3, <3>4, <3>5, <3>6
  <2> QED BY <2>1, <2>2
<1> QED BY <1>4 DEF DisagreementsAreJournaled

\* The first observation fills the view from one chain, which agrees with
\* itself.
LEMMA FirstAgrees ==
  ASSUME TypeOK, ~Opened, NEW chain \in Blocks, view' = Absorbed(chain)
  PROVE  DisagreementsAreJournaled'
<1>1. DOMAIN view = {} /\ Len(chain) \in Nat
  BY BlockShape, HeightAssumption DEF Opened, EmptyView, Heights
<1>2. DOMAIN view' = 0 .. Len(chain) /\ \A n \in 0 .. Len(chain) : view'[n] = Prefix(chain, n)
  BY <1>1, AbsorbedShape
<1>3. ASSUME NEW b \in DOMAIN view', NEW c \in DOMAIN view', c < b
      PROVE  view'[c] = Prefix(view'[b], c)
  BY <1>1, <1>2, <1>3, PrefixShape
<1> QED BY <1>3 DEF DisagreementsAreJournaled

\* A step replaces the view only with what it journaled first.
LEMMA JournalStep == JournalInv /\ [Next]_vars => JournalInv'
<1> SUFFICES ASSUME JournalInv, [Next]_vars PROVE DisagreementsAreJournaled'
  BY TypeStep DEF JournalInv
<1>1. CASE UNCHANGED view /\ journal \subseteq journal'
  BY <1>1 DEF JournalInv, DisagreementsAreJournaled
<1>2. CASE view' = EmptyView
  <2>1. DOMAIN view' = {}
    BY <1>2 DEF EmptyView
  <2> QED BY <2>1 DEF DisagreementsAreJournaled
<1>3. ASSUME NEW chain \in Blocks, ~Opened, view' = Absorbed(chain)
      PROVE  DisagreementsAreJournaled'
  BY <1>3, FirstAgrees DEF JournalInv
<1>4. ASSUME NEW chain \in Blocks, Reconcile(chain)
      PROVE  DisagreementsAreJournaled'
  BY <1>4, ReconcileJournals
<1>5. TypeOK
  BY DEF JournalInv
<1> QED BY <1>1, <1>2, <1>3, <1>4, <1>5, ViewMoves

\* Wherever the view mixes branches the journal names the demoted block and
\* its replacement, also after journal writes that failed midway.
THEOREM MixturesAreJournaled == Spec => []DisagreementsAreJournaled
<1>1. JournalInv => DisagreementsAreJournaled
  BY DEF JournalInv
<1> QED BY JournalInit, JournalStep, <1>1, PTL DEF Spec

-----------------------------------------------------------------------------
(***************************************************************************)
(* A fork that is too deep stays too deep.                                 *)
(***************************************************************************)

\* Accepting one chain cannot raise the ancestor another shares with the
\* view unless the other is as close to the view as the accepted one.
LEMMA DepthIsKept ==
  ASSUME TypeOK, TypeOK', Opened', NEW other \in Blocks, Reconcile(other),
         NEW chain \in Blocks, OrphanDepth(chain) >= Threshold
  PROVE  OrphanDepth(chain)' >= Threshold
<1>1. /\ Opened /\ view' = Absorbed(other) /\ ~IsDeep(other)
  BY DEF Reconcile, Accept
<1>2. Tip \in Nat /\ DOMAIN view = 0 .. Tip
  BY <1>1, ViewShape, HeightAssumption DEF Heights
<1>3. Len(chain) \in Nat /\ Len(other) \in Nat
  BY BlockShape, HeightAssumption DEF Heights
<1>4. /\ DOMAIN view' = (0 .. Tip) \cup (0 .. Len(other))
      /\ \A n \in 0 .. Tip : view'[n] = view[n]
      /\ \A n \in (0 .. Len(other)) \ (0 .. Tip) : view'[n] = Prefix(other, n)
  BY <1>1, <1>2, AbsorbedShape
<1>5. Tip' \in Nat /\ Tip' >= Tip
  <2>1. PICK n \in Heights : view' \in [0 .. n -> Blocks]
    BY DEF TypeOK, Opened
  <2>2. DOMAIN view' = 0 .. n
    BY <2>1
  <2>3. Tip' \in Heights /\ DOMAIN view' = 0 .. Tip'
    BY <2>2 DEF Tip
  <2>4. Tip' \in Nat
    BY <2>3, HeightAssumption DEF Heights
  <2>5. Tip \in DOMAIN view'
    BY <1>2, <1>4
  <2>6. Tip \in 0 .. Tip'
    BY <2>3, <2>5
  <2> QED BY <1>2, <2>4, <2>6
\* A height above the old tip at which chain agrees with the view makes chain
\* and other agree up to the old tip: other would have been as deep.
<1>6. ASSUME NEW n \in Shared(chain)' PROVE n \in 0 .. Tip
  <2> SUFFICES ASSUME n \notin 0 .. Tip PROVE FALSE
    OBVIOUS
  <2>1. n \in 0 .. Len(chain) /\ n \in 0 .. Len(other) /\ Prefix(chain, n) = Prefix(other, n)
    BY <1>4 DEF Shared
  <2>2. \A m \in 0 .. Tip : m \in 0 .. n /\ m \in 0 .. Len(chain) /\ m \in 0 .. Len(other)
    BY <1>2, <1>3, <2>1
  <2>3. ASSUME NEW m \in 0 .. Tip PROVE Prefix(chain, m) = Prefix(other, m)
    <3>1. /\ Prefix(Prefix(chain, n), m) = Prefix(chain, m)
          /\ Prefix(Prefix(other, n), m) = Prefix(other, m)
      BY <2>1, <2>2, PrefixShape
    <3> QED BY <2>1, <3>1
  <2>4. Shared(chain) = Shared(other)
    BY <1>2, <2>2, <2>3 DEF Shared
  <2>5. OrphanDepth(other) = OrphanDepth(chain)
    BY <2>4 DEF OrphanDepth, CommonAncestor
  <2> QED BY <1>1, <2>5 DEF IsDeep
<1>7. Shared(chain)' = Shared(chain)
  BY <1>2, <1>4, <1>6 DEF Shared
<1>8. CommonAncestor(chain)' = CommonAncestor(chain)
  BY <1>7 DEF CommonAncestor
<1>9. CommonAncestor(chain) \in 0 .. Tip
  BY <1>1, <1>2, AncestorIsHighestShared DEF Shared
<1>10. OrphanDepth(chain)' = Tip' - CommonAncestor(chain)
  BY <1>8 DEF OrphanDepth
<1> QED BY <1>2, <1>5, <1>9, <1>10, ThresholdAssumption DEF OrphanDepth

\* A chain whose measured orphan depth reaches the threshold keeps such a depth as
\* long as the process lives: nothing accepted in between brings the fork nearer.
\* It says nothing of a chain refused only because its ancestor was out of reach.
THEOREM MeasuredDepthIsKept == Spec => MeasuredDepthStaysDeep
<1> DEFINE Stays == \A chain \in Blocks :
                      Opened /\ Opened' /\ OrphanDepth(chain) >= Threshold =>
                          OrphanDepth(chain)' >= Threshold
<1>1. ASSUME TypeOK, TypeOK', [Next]_vars PROVE Stays
  <2> SUFFICES ASSUME NEW chain \in Blocks, Opened, Opened', OrphanDepth(chain) >= Threshold
               PROVE  OrphanDepth(chain)' >= Threshold
    OBVIOUS
  <2>1. CASE UNCHANGED view
    BY <2>1 DEF OrphanDepth, Tip, CommonAncestor, Shared
  <2>2. ASSUME NEW other \in Blocks, Reconcile(other) PROVE OrphanDepth(chain)' >= Threshold
    BY <1>1, <2>2, DepthIsKept
  <2>3. view' # EmptyView
    BY DEF Opened
  <2> QED BY <1>1, <2>1, <2>2, <2>3, ViewMoves
<1>2. TypeOK /\ TypeOK' /\ [Next]_vars => [Stays]_vars
  BY <1>1
<1> HIDE DEF Stays
<1>3. Spec => [][Stays]_vars
  BY <1>2, TypeInit, TypeStep, PTL DEF Spec
<1> QED BY <1>3 DEF Stays, MeasuredDepthStaysDeep

-----------------------------------------------------------------------------
(***************************************************************************)
(* What DeepReorgHalts needs.  The comment in policy.py is broken by a run *)
(* in which the view mixes branches.  Until the first shallow reorg is     *)
(* journaled the view is the chain last accepted, and the comment is true. *)
(***************************************************************************)
NoShallowReorg == \A row \in journal : row.reason # "shallow_reorg"

ViewIsAccepted ==
    /\ DOMAIN view = 0 .. Len(accepted)
    /\ \A n \in 0 .. Len(accepted) : view[n] = Prefix(accepted, n)

UnmixedInv == TypeOK /\ (Opened /\ NoShallowReorg => ViewIsAccepted)

\* What DeepReorgHalts says of a step.
HaltsIfDeep ==
    verdict' = "continue" /\ Opened =>
        \E n \in 0 .. Len(accepted) :
            /\ n <= Len(accepted')
            /\ Prefix(accepted, n) = Prefix(accepted', n)
            /\ Len(accepted) - n <= Threshold

\* A reconciliation that journals no shallow reorg extends the view.
LEMMA QuietReconcileExtends ==
  ASSUME TypeOK, NEW chain \in Blocks, Reconcile(chain), NoShallowReorg'
  PROVE  Tip \in 0 .. Len(chain) /\ view[Tip] = Prefix(chain, Tip)
<1>1. Opened /\ journal' = journal \cup OrphanRows(chain, Tip)
  BY DEF Reconcile
<1>2. /\ Tip \in Nat /\ Len(chain) \in Nat /\ DOMAIN view = 0 .. Tip
      /\ CommonAncestor(chain) \in 0 .. Tip
      /\ CommonAncestor(chain) \in 0 .. Len(chain)
      /\ view[CommonAncestor(chain)] = Prefix(chain, CommonAncestor(chain))
  BY <1>1, ViewShape, BlockShape, AncestorIsHighestShared, HeightAssumption DEF Heights, Shared
<1>3. CommonAncestor(chain) = Tip
  <2> SUFFICES ASSUME CommonAncestor(chain) # Tip PROVE FALSE
    OBVIOUS
  <2> DEFINE row == Row(view[Tip], {Prefix(chain, Tip) : m \in {Tip} \cap (0 .. Len(chain))},
                        "shallow_reorg")
  <2>1. Tip \in CommonAncestor(chain) + 1 .. Tip
    BY <1>2
  <2>2. row \in OrphanRows(chain, Tip)
    BY <2>1 DEF OrphanRows
  <2>3. row \in journal' /\ row.reason = "shallow_reorg"
    BY <1>1, <2>2 DEF Row
  <2> QED BY <2>3 DEF NoShallowReorg
<1> QED BY <1>2, <1>3

\* An empty view is nobody's chain.
LEMMA UnmixedInit == Init => UnmixedInv
BY TypeInit DEF UnmixedInv, Init, Opened

\* Absorbing a chain that extends the view makes the view that chain.
LEMMA ExtensionIsChain ==
  ASSUME TypeOK, NEW chain \in Blocks, view' = Absorbed(chain), accepted' = chain,
         \A n \in DOMAIN view : n \in 0 .. Len(chain) /\ view[n] = Prefix(chain, n)
  PROVE  ViewIsAccepted'
<1>1. /\ DOMAIN view' = DOMAIN view \cup (0 .. Len(chain))
      /\ \A n \in DOMAIN view : view'[n] = view[n]
      /\ \A n \in (0 .. Len(chain)) \ DOMAIN view : view'[n] = Prefix(chain, n)
  BY AbsorbedShape
<1>2. DOMAIN view' = 0 .. Len(chain) /\ \A n \in 0 .. Len(chain) : view'[n] = Prefix(chain, n)
  BY <1>1
<1> QED BY <1>2 DEF ViewIsAccepted

\* Only an accepted chain changes the view, and it changes what was accepted
\* with it; the end of the process ends both.
LEMMA UnmixedStep == UnmixedInv /\ [Next]_vars => UnmixedInv'
<1> SUFFICES ASSUME UnmixedInv, [Next]_vars, Opened', NoShallowReorg' PROVE ViewIsAccepted'
  BY TypeStep DEF UnmixedInv
<1>1. TypeOK
  BY DEF UnmixedInv
<1>2. ASSUME UNCHANGED <<view, accepted>>, journal \subseteq journal' PROVE ViewIsAccepted'
  <2>1. NoShallowReorg /\ Opened
    BY <1>2 DEF NoShallowReorg, Opened
  <2> QED BY <1>2, <2>1 DEF UnmixedInv, ViewIsAccepted
<1>3. CASE UNCHANGED vars
  BY <1>2, <1>3 DEF vars
<1>4. ASSUME NEW chain \in Blocks, ObserveFirst(chain) PROVE ViewIsAccepted'
  <2>1. DOMAIN view = {}
    BY <1>4 DEF ObserveFirst, Opened, EmptyView
  <2> QED BY <1>1, <1>4, <2>1, ExtensionIsChain DEF ObserveFirst, Accept
<1>5. ASSUME NEW chain \in Blocks, Reconcile(chain) PROVE ViewIsAccepted'
  <2>1. /\ Opened /\ view' = Absorbed(chain) /\ accepted' = chain /\ journal \subseteq journal'
    BY <1>5 DEF Reconcile, Accept
  <2>2. NoShallowReorg
    BY <2>1 DEF NoShallowReorg
  <2>3. ViewIsAccepted
    BY <2>1, <2>2 DEF UnmixedInv
  <2>4. Tip \in 0 .. Len(chain) /\ view[Tip] = Prefix(chain, Tip)
    BY <1>1, <1>5, QuietReconcileExtends
  <2>5. /\ Tip \in Nat /\ DOMAIN view = 0 .. Tip /\ Len(accepted) \in Nat
        /\ Len(chain) \in Nat /\ accepted \in Blocks
    BY <1>1, <2>1, ViewShape, BlockShape, HeightAssumption DEF Heights, TypeOK
  <2>6. Tip = Len(accepted)
    BY <2>3, <2>5 DEF ViewIsAccepted
  <2>7. ASSUME NEW n \in 0 .. Tip PROVE n \in 0 .. Len(chain) /\ view[n] = Prefix(chain, n)
    <3>1. view[n] = Prefix(accepted, n) /\ view[Tip] = Prefix(accepted, Tip)
      BY <2>3, <2>5, <2>6 DEF ViewIsAccepted
    <3>2. /\ Prefix(Prefix(accepted, Tip), n) = Prefix(accepted, n)
          /\ Prefix(Prefix(chain, Tip), n) = Prefix(chain, n)
      <4>1. Tip \in 0 .. Len(accepted)
        BY <2>5, <2>6
      <4> QED BY <2>4, <2>5, <4>1, PrefixShape
    <3> QED BY <2>4, <2>5, <3>1, <3>2
  <2> QED BY <1>1, <2>1, <2>5, <2>7, ExtensionIsChain
<1>6. ASSUME NEW chain \in Blocks, HaltDeepReorg(chain) \/ FailToJournal(chain)
      PROVE  ViewIsAccepted'
  BY <1>2, <1>6 DEF HaltDeepReorg, FailToJournal
<1>7. CASE Notify
  BY <1>2, <1>7 DEF Notify, DetectFinalizedAncestryViolation, RecordRemovedLog,
                    RecordOrphanReappearance
<1>8. ~Restart
  BY DEF Restart, Opened
<1> QED BY <1>3, <1>4, <1>5, <1>6, <1>7, <1>8 DEF Next, Observe

\* An accepted chain shares with a view that is the chain last accepted all
\* but the blocks the walk counted.
LEMMA AcceptedIsShallow ==
  ASSUME TypeOK, [Next]_vars, Opened, ViewIsAccepted, calls' # calls
  PROVE  HaltsIfDeep
<1> SUFFICES ASSUME verdict' = "continue" PROVE HaltsIfDeep
  BY DEF HaltsIfDeep
<1>1. PICK chain \in Blocks : Reconcile(chain)
  <2>1. Next
    BY DEF vars
  <2>2. ~Notify /\ ~Restart
    BY DEF Notify, DetectFinalizedAncestryViolation, RecordRemovedLog,
           RecordOrphanReappearance, Restart
  <2>3. \A chain \in Blocks : ~ObserveFirst(chain) /\ ~HaltDeepReorg(chain) /\ ~FailToJournal(chain)
    BY DEF ObserveFirst, HaltDeepReorg, FailToJournal
  <2> QED BY <2>1, <2>2, <2>3 DEF Next, Observe
<1> DEFINE A == CommonAncestor(chain)
<1>2. accepted' = chain /\ Tip - A < Threshold /\ Tip - A \in Int
  <2>1. accepted' = chain /\ ~(Tip - A >= Threshold)
    BY <1>1 DEF Reconcile, Accept, IsDeep, OrphanDepth
  <2>2. Tip \in Nat /\ A \in 0 .. Tip
    BY ViewShape, AncestorIsHighestShared, HeightAssumption DEF Heights, Shared
  <2> HIDE DEF A
  <2> QED BY <2>1, <2>2, ThresholdAssumption
<1>3. /\ Tip \in Nat /\ DOMAIN view = 0 .. Tip /\ Len(accepted) \in Nat /\ Len(chain) \in Nat
      /\ A \in 0 .. Tip /\ A \in 0 .. Len(chain) /\ view[A] = Prefix(chain, A)
  BY ViewShape, BlockShape, AncestorIsHighestShared, HeightAssumption
     DEF Heights, Shared, TypeOK
<1>4. Tip = Len(accepted)
  BY <1>3, IntervalLength DEF ViewIsAccepted
<1> HIDE DEF A
<1>5. /\ A \in 0 .. Len(accepted)
      /\ A <= Len(accepted')
      /\ Prefix(accepted, A) = Prefix(accepted', A)
      /\ Len(accepted) - A <= Threshold
  BY <1>2, <1>3, <1>4, ThresholdAssumption DEF ViewIsAccepted
<1> QED BY <1>5 DEF HaltsIfDeep

\* Until a shallow reorg is journaled, a chain that orphans more blocks of the
\* last accepted one than the threshold allows is never accepted: a deep reorg
\* gets past the handler only through a view an earlier shallow one left mixed.
THEOREM FirstDeepReorgHalts == Spec => [][NoShallowReorg => HaltsIfDeep]_vars
<1>1. UnmixedInv /\ [Next]_vars => [NoShallowReorg => HaltsIfDeep]_vars
  <2> SUFFICES ASSUME UnmixedInv, Next, NoShallowReorg, Opened PROVE HaltsIfDeep
    BY DEF HaltsIfDeep
  <2>1. calls' # calls
    BY DEF Next, UnmixedInv, TypeOK
  <2> QED BY <2>1, AcceptedIsShallow DEF UnmixedInv
<1> QED BY <1>1, UnmixedInit, UnmixedStep, PTL DEF Spec
=============================================================================
