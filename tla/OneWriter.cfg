\* One writer and one reader over two grid cells.
CONSTANTS
    Writers = {w1}
    Readers = {r1}
    k1 = k1
    k2 = k2
    k3 = k3
    Keys = {k1, k2, k3}
    Contents = {x, y}
    Acquisitions = {a}
    BlockOf <- MCBlockOf
    BlocksPerPartition = 2
    NoFile = NoFile
    NoRow = NoRow
    NoTable = NoTable
SPECIFICATION ReaderSpec
SYMMETRY ContentSymmetry
CONSTRAINT SmallBatches
INVARIANTS FileMatchesManifest IndexMatchesFile ReturnsCommittedRows RefusesHalted
PROPERTIES ImplementsCommittedDataset
