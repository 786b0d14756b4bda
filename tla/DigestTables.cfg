SPECIFICATION MCSpec
CONSTANTS
    k1 = k1
    k2 = k2
    k3 = k3
    a = a
    b = b
    Key = {k1, k2, k3}
    Cell = {a, b}
    CellHash <- MCCellHash
    capacity = 2
    Tables = 1
    RefusedAt = {1}
    Row = {1}
    Bucket = {1, 2}
    Hash <- MCHash
    THRESHOLD = 1
    MaxCount = 1
    Version = {1, 2}
    None = None
    ReadTable = t0
    WriteTable = t1
    Unset = {0}
INVARIANTS
    BooksAgree TablesMatchBooks CountersOwn LatestWhileCached
    TablesMatchCache DigestOwnsCell
VIEW View
SYMMETRY Symmetry
