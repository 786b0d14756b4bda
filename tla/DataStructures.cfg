SPECIFICATION MCSpec
CONSTANTS
    IndexRange = 4
    MaxTime = 2
    Notifier = {n1, n2}
    Worker = {w1, w2}
    NoThread = NoThread
    ka = ka  kb = kb  kc = kc  kd = kd  ke = ke
    Capacity = 4
    Key = {ka, kb, kc, kd, ke}
    Val = {1, 2}
    ZeroKey = ka
    khash <- MCHash
    Ptr = {p1, p2, p3, p4}
    Copy = {c1, c2}
    capacity = 2
    TableKey = {k1, k2, k3}
    TableVal = {v1}
VIEW View
INVARIANTS
    AllocListSound
    FreeListSound
    ChainCounts
    GuardExact
    MutualExclusion
    SessionSound
PROPERTIES
    ImplementsLru
    ImplementsDictionary
    IndexReclaimed
    KeyReclaimed
    LockReleased
