--------------------------------- MODULE Cht ---------------------------------
(***************************************************************************)
(* The consistent hash table of the load balancer (lib/state/cht.c): for   *)
(* each of cht_height hashes a row with every backend once, in an order of *)
(* preference.  cht_fill_cht is modelled one iteration of its inner loop   *)
(* per step.  A row that received a backend twice would push the next one  *)
(* into the row that follows, and out of the vector after the last.        *)
(***************************************************************************)
EXTENDS ChtOrder

CONSTANTS Heights, Capacities       \* the sizes the table is built with

SizesAssumption ==
    /\ Heights \subseteq { h \in Nat : is_prime(h) }
    /\ Capacities \subseteq Nat \ {0}

VARIABLES
    cht_height, backend_capacity,
    i, j,                   \* the loops' counters
    next,                   \* how many backends each row has
    cht                     \* the vector

vars == <<cht_height, backend_capacity, i, j, next, cht>>


Done == i = cht_height

\* The vector and next are allocated zeroed.
Init ==
    /\ cht_height \in Heights /\ backend_capacity \in Capacities
    /\ i = 0 /\ j = 0
    /\ next = [r \in Rows(cht_height) |-> 0]
    /\ cht = [c \in Cells(cht_height, backend_capacity) |-> 0]

\* The cell the current iteration writes.
Bucket == Permutation(j, i, cht_height)
Cell == backend_capacity * Bucket + next[Bucket]

\* One iteration of the inner loop.  A write past the vector is left without
\* effect here; WritesInRow says that there is none.
Fill ==
    /\ ~Done
    /\ next' = [next EXCEPT ![Bucket] = @ + 1]
    /\ cht' = [cht EXCEPT ![Cell] = j]
    /\ j' = (j + 1) % backend_capacity
    /\ i' = IF j' = 0 THEN i + 1 ELSE i
    /\ UNCHANGED <<cht_height, backend_capacity>>

\* cht_fill_cht returns 1.
Filled == Done /\ UNCHANGED vars

Next == Fill \/ Filled

Spec == Init /\ [][Next]_vars

Row(h) == { cht[backend_capacity * h + p] : p \in 0 .. backend_capacity - 1 }

\* When the table is built every row names every backend, so the search of
\* cht_find_preferred_available_backend misses none.
RowsComplete ==
    Done => \A r \in Rows(cht_height) : Row(r) = 0 .. backend_capacity - 1
==============================================================================
