---------------------------- MODULE CountMinSketch ----------------------------
(***************************************************************************)
(* The count-min sketch of dpdk-nfs (lib/state/cms.c): height rows of      *)
(* width buckets; a key is counted in one bucket of each row, and its      *)
(* count is estimated by the least of them.  A sketch is a function        *)
(* b[row][column]; the column of a key in each row is a constant.          *)
(***************************************************************************)
EXTENDS Integers

CONSTANTS
    height, width,
    Client,                 \* the keys
    crc                     \* crc[h][key]: the salted hash of row h

ASSUME SketchAssumption ==
    /\ height \in Nat \ {0} /\ width \in Nat \ {0}
    /\ crc \in [0 .. height - 1 -> [Client -> Nat]]

Row == 0 .. height - 1
Column == 0 .. width - 1

\* cms_allocate: the buckets are zeroed
ClearBuckets == [h \in Row |-> [c \in Column |-> 0]]

\* hash % width
column(h, k) == crc[h][k] % width

cms_increment(b, k) ==
    [h \in Row |-> [b[h] EXCEPT ![column(h, k)] = @ + 1]]

\* cms_count_min
cms_count_min(b, k) ==
    CHOOSE m \in { b[h][column(h, k)] : h \in Row } :
        \A h \in Row : m <= b[h][column(h, k)]
==============================================================================
