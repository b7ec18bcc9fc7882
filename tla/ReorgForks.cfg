\* Two branches of three blocks, two orphans are one too many.
CONSTANTS
    Labels = {a, b}
    MaxHeight = 3
    Threshold = 2
    MaxCalls = 4
SPECIFICATION Spec
SYMMETRY BranchSymmetry
INVARIANTS TypeOK DisagreementsAreJournaled
PROPERTIES MeasuredDepthStaysDeep
CHECK_DEADLOCK FALSE
