\* Two writers that race for one cell.
CONSTANTS
    Writers = {w1, w2}
    Readers = {}
    k1 = k1
    k2 = k2
    k3 = k3
    Keys = {k1, k2}
    Contents = {x, y}
    Acquisitions = {a}
    BlockOf <- OneBlockOf
    BlocksPerPartition = 2
    NoFile = NoFile
    NoRow = NoRow
    NoTable = NoTable
SPECIFICATION WritersSpec
SYMMETRY WriterSymmetry
CONSTRAINT SmallBatches
INVARIANTS TypeOK ConflictsHalt AcknowledgedIsDurable
PROPERTIES NeverUndone
