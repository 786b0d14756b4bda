SPECIFICATION Spec
CONSTANTS
    Flow = {f1, f2, f3}
    capacity = 2
    MaxPending = 2
    MaxAnnounced = 1
    None = None
SYMMETRY Symmetric
INVARIANTS BooksMatchTables OneKeyedIndex
