SPECIFICATION CuckooSpec
CONSTANTS
    Packet = {p1, p2}
    Key <- MCKey
    Place <- MCPlace
    Hash1 <- MCHash1
    Hash2 <- MCHash2
    BloomCell <- MCCell
    BloomHash <- MCBloom
    MaxLoops = 2
    Timeout = 1
    MaxCount = 2
    MaxTime = 4
    Wrap = 16
    MaxLost = 1
INVARIANTS WaitedFor MovesSeen ValuesOwn
SYMMETRY MCSymmetry
