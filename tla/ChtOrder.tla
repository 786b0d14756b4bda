------------------------------ MODULE ChtOrder ------------------------------
(***************************************************************************)
(* The order of preference in which the rows of the load balancer's        *)
(* consistent hash table name the backends, and the search in a row        *)
(* (lib/state/cht.c).  Cht fills the table with the code's loops,          *)
(* LoadBalancer searches it.                                               *)
(***************************************************************************)
EXTENDS Integers, FiniteSets

\* lib/util/compute.h, as nf_config_init of the load balancer uses it
is_prime(n) == n >= 2 /\ \A d \in 2 .. n - 1 : n % d # 0

Rows(h) == 0 .. h - 1
Cells(h, n) == 0 .. h * n - 1

\* Fault: the shift is taken modulo the height.
PermutationWrongModulus(b, k, h) == (31 * b + ((b % h) + 1) * k) % h

\* permutations[b * h + k]
Permutation(b, k, h) ==
    LET offset == (31 * b) % h
        shift == (b % (h - 1)) + 1
    IN (offset + shift * k) % h

\* The table without the loops, as the load balancer reads it: Round is when
\* backend b names row r, and the cell p of a row holds the backend that comes
\* after p others.
Round(b, r, h) == CHOOSE k \in 0 .. h - 1 : Permutation(b, k, h) = r

Before(a, b, r, h) ==
    \/ Round(a, r, h) < Round(b, r, h)
    \/ Round(a, r, h) = Round(b, r, h) /\ a < b

PreferenceTable(h, n) ==
    [c \in Cells(h, n) |->
        CHOOSE b \in 0 .. n - 1 :
            Cardinality({ a \in 0 .. n - 1 : Before(a, b, c \div n, h) }) = c % n]

\* Fault: the row starts at the hash itself, not after the rows before it.
candidate_idx_unscaled(r, p, n) == r + p

\* The cell with the candidate in place p of row r.
candidate_idx(r, p, n) == r * n + p

\* The places of row r that hold an active backend.
FoundInRow(table, r, active, n) ==
    { p \in 0 .. n - 1 : table[candidate_idx(r, p, n)] \in active }

\* cht_find_preferred_available_backend, when it finds one: the active
\* backend in the first place of the row the hash selects.
Preferred(table, hash, active, h, n) ==
    LET r == hash % h
        found == FoundInRow(table, r, active, n)
        first == CHOOSE p \in found : \A q \in found : p <= q
    IN table[candidate_idx(r, first, n)]

\* ... and whether it does.
PreferredExists(table, hash, active, h, n) ==
    FoundInRow(table, hash % h, active, n) # {}
==============================================================================
