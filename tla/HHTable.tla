------------------------------- MODULE HHTable -------------------------------
(***************************************************************************)
(* libsycon's heavy-hitter table: a map whose keys the data plane itself   *)
(* asks for.  A lookup that misses is counted in a count-min sketch, and   *)
(* the key is sent to the controller in a digest; the controller gives the *)
(* key an index, or the index of a cached key that was counted less often. *)
(* A cached key is removed when every copy of the table has announced that *)
(* it is idle there.                                                       *)
(*                                                                         *)
(* Every callback runs in one transaction of the session (SyconSession).   *)
(* Digests reach the controller late and may repeat.                       *)
(***************************************************************************)
EXTENDS Integers, FiniteSets, Functions

CONSTANTS
    Key, capacity,
    Tables,             \* how many copies of the table there are
    RefusedAt,          \* the copies whose driver may refuse an entry
    Row, Bucket, Hash,  \* the sketch: Hash[k][r] is the bucket of key k in row r
    THRESHOLD,
    MaxCount            \* bound: packets counted between two clears

Copy == 1 .. Tables
Index == 0 .. capacity - 1

ASSUME HHAssumption ==
    /\ Tables \in Nat \ {0} /\ capacity \in Nat \ {0}
    /\ RefusedAt \subseteq {1}
    /\ Row # {} /\ Hash \in [Key -> [Row -> Bucket]]
    /\ MaxCount \in Nat /\ THRESHOLD \in Nat

VARIABLES
    key_to_index, index_to_key, free_indices, used_indices,
    expirations_per_key,
    entries, idle, notified,    \* the copies of the table (SwitchTables)
    reg_cached_counters, count_min_sketch,
    digests,                    \* digests under way
    hits                        \* history: packets that hit a key since it was
                                \* cached or the counters were cleared

T == INSTANCE SwitchTables WITH Val <- Index

books == <<key_to_index, index_to_key, free_indices, used_indices>>
switch == <<entries, idle>>
counters == <<reg_cached_counters, count_min_sketch>>
vars == <<books, expirations_per_key, switch, notified, counters, digests, hits>>

\* What the constructor inserts into free_indices.
AllIndexes == 0 .. capacity - 1

Init ==
    /\ key_to_index = <<>> /\ index_to_key = <<>>
    /\ free_indices = AllIndexes /\ used_indices = {}
    /\ expirations_per_key = [k \in Key |-> {}]
    /\ T!TablesInit
    /\ reg_cached_counters = [i \in Index |-> 0]
    /\ count_min_sketch = [r \in Row |-> [b \in Bucket |-> 0]]
    /\ digests = {}
    /\ hits = [k \in Key |-> 0]

Cached(k) == k \in DOMAIN key_to_index

With(f, x, y) == [z \in DOMAIN f \cup {x} |-> IF z = x THEN y ELSE f[z]]
Without(f, x) == Restrict(f, DOMAIN f \ {x})

------------------------------------------------------------------------------
(* The controller                                                           *)

\* Fault: the new owner of an index inherits its counter.
ResetCounterForgotten(i) == UNCHANGED reg_cached_counters

ResetCounter(i) == reg_cached_counters' = [reg_cached_counters EXCEPT ![i] = 0]

\* The new entry is written to the copies before copy f, which refuses it or
\* has the key already.
RefusedBy(f, k, i) ==
    /\ f \in RefusedAt \/ T!Holds(f, k)
    /\ \A c \in 1 .. f - 1 : ~T!Holds(c, k)
    /\ entries' = [c \in Copy |-> IF c < f THEN With(entries[c], k, i) ELSE entries[c]]
    /\ UNCHANGED idle

\* insert, of a key that is not cached while there are free indexes
insert(k) ==
    \E i \in free_indices :
        \/ /\ T!AddEntry(k, i)
           /\ free_indices' = free_indices \ {i}
           /\ used_indices' = used_indices \cup {i}
           /\ index_to_key' = With(index_to_key, i, k)
           /\ key_to_index' = With(key_to_index, k, i)
           /\ ResetCounter(i)
           /\ hits' = [hits EXCEPT ![k] = 0]
        \/ /\ \E f \in Copy : RefusedBy(f, k, i)
           /\ UNCHANGED <<books, reg_cached_counters, hits>>

\* Fault: the old key stays in key_to_index.
TakeOverKeepsOldKey(i, k) ==
    /\ index_to_key' = [index_to_key EXCEPT ![i] = k]
    /\ key_to_index' = With(key_to_index, k, i)

\* Index i passes from its key to key k, in the books of the controller.
TakeOver(i, k) ==
    /\ index_to_key' = [index_to_key EXCEPT ![i] = k]
    /\ key_to_index' = With(Without(key_to_index, index_to_key[i]), k, i)

\* replace: del_entry of the old key and add_entry of the new one on every
\* copy; either one that fails ends the program
replace(i, k) ==
    LET old == index_to_key[i] IN
    /\ TakeOver(i, k)
    /\ \A c \in Copy : T!Holds(c, old) /\ ~T!Holds(c, k)
    /\ entries' = [c \in Copy |-> With(Without(entries[c], old), k, i)]
    /\ idle' = [c \in Copy |-> idle[c] \ {old, k}]
    /\ ResetCounter(i)
    /\ hits' = [hits EXCEPT ![k] = 0]
    /\ UNCHANGED <<free_indices, used_indices>>

\* cms_get_min is x
EstimateIs(k, x) ==
    /\ \E r \in Row : x = count_min_sketch[r][Hash[k][r]]
    /\ \A r \in Row : x <= count_min_sketch[r][Hash[k][r]]

\* key_counter > probe_counter
Heavier(k, i) == \E x \in 0 .. MaxCount : EstimateIs(k, x) /\ x > reg_cached_counters[i]

\* probabilistic_replace: the first probe of a lighter key is replaced; the
\* probes are random and may all meet heavier ones.
probabilistic_replace(k) ==
    \E probe \in 0 .. Cardinality(used_indices) - 1 :
        \/ Heavier(k, probe) /\ replace(key_to_index[index_to_key[probe]], k)
        \/ ~Heavier(k, probe) /\ UNCHANGED <<books, switch, reg_cached_counters, hits>>

\* digest_callback, for one of the keys it carries
digest_callback(k) ==
    /\ k \in digests /\ digests' \in {digests, digests \ {k}}
    /\ \/ Cached(k) /\ UNCHANGED <<books, switch, reg_cached_counters, hits>>
       \/ ~Cached(k) /\ free_indices # {} /\ insert(k)
       \/ ~Cached(k) /\ free_indices = {} /\ probabilistic_replace(k)
    /\ UNCHANGED <<expirations_per_key, notified, count_min_sketch>>

GiveBack(i) ==
    /\ free_indices' = free_indices \cup {i}
    /\ used_indices' = used_indices \ {i}

\* Fault: the entries stay in the tables.
DelEntryForgotten(k) == UNCHANGED switch

\* del_entry on every copy
DelEntry(k) == T!DelEntry(k)

\* remove
remove(k) ==
    \/ /\ Cached(k)
       /\ key_to_index' = Without(key_to_index, k)
       /\ index_to_key' = Without(index_to_key, key_to_index[k])
       /\ GiveBack(key_to_index[k])
       /\ DelEntry(k)
    \/ ~Cached(k) /\ UNCHANGED <<books, switch>>

\* What is remembered of key k with the announcement of copy c.
Record(c, k) == expirations_per_key[k] \cup {c}

\* expiration_callback
expiration_callback(c, k) ==
    /\ T!Take(c, k)
    /\ \/ /\ Record(c, k) = Copy
          /\ remove(k)
          /\ expirations_per_key' = [expirations_per_key EXCEPT ![k] = {}]
       \/ /\ Record(c, k) # Copy
          /\ expirations_per_key' = [expirations_per_key EXCEPT ![k] = Record(c, k)]
          /\ UNCHANGED <<books, switch>>
    /\ UNCHANGED <<counters, digests, hits>>

\* clear_counters, which a thread of its own calls every RESET_TIMER seconds
clear_counters ==
    /\ reg_cached_counters' = [i \in Index |-> 0]
    /\ count_min_sketch' = [r \in Row |-> [b \in Bucket |-> 0]]
    /\ hits' = [k \in Key |-> 0]
    /\ UNCHANGED <<books, expirations_per_key, switch, notified, digests>>

------------------------------------------------------------------------------
(* The data plane, as the compiler writes it                                *)

\* A packet's lookup of k in copy c hits.
LookupHit(c, k) ==
    /\ T!Hit(c, k)
    /\ reg_cached_counters[entries[c][k]] < MaxCount
    /\ reg_cached_counters' = [reg_cached_counters EXCEPT ![entries[c][k]] = @ + 1]
    /\ hits' = [hits EXCEPT ![k] = @ + 1]
    /\ UNCHANGED <<books, expirations_per_key, notified, count_min_sketch, digests>>

\* The sketch after the key is counted in every row.
Counted(k) ==
    [r \in Row |-> [count_min_sketch[r] EXCEPT ![Hash[k][r]] = @ + 1]]

\* A lookup misses; the packet sampler picks the packet, or not.  The test
\* before the digest is on the sign of the estimate, not of its difference to
\* the threshold.
LookupMiss(c, k) ==
    /\ ~T!Holds(c, k)
    /\ \A r \in Row : count_min_sketch[r][Hash[k][r]] < MaxCount
    /\ \/ count_min_sketch' = Counted(k) /\ digests' = digests \cup {k}
       \/ UNCHANGED <<count_min_sketch, digests>>
    /\ UNCHANGED <<books, expirations_per_key, switch, notified, reg_cached_counters, hits>>

TimeOut(c, k) ==
    /\ T!TimeOut(c, k)
    /\ UNCHANGED <<books, expirations_per_key, counters, digests, hits>>

Next ==
    \/ \E k \in Key : digest_callback(k)
    \/ clear_counters
    \/ \E c \in Copy, k \in Key :
        expiration_callback(c, k) \/ LookupHit(c, k) \/ LookupMiss(c, k) \/ TimeOut(c, k)

Spec == Init /\ [][Next]_vars

------------------------------------------------------------------------------
(* Properties                                                               *)

PartialFunction(D, R) == UNION { [S -> R] : S \in SUBSET D }

\* Every variable has its type.
TypeOK ==
    /\ key_to_index \in PartialFunction(Key, Index)
    /\ index_to_key \in PartialFunction(Index, Key)
    /\ free_indices \subseteq Index /\ used_indices \subseteq Index
    /\ expirations_per_key \in [Key -> SUBSET Copy]
    /\ T!TablesTypeOK
    /\ reg_cached_counters \in [Index -> 0 .. MaxCount]
    /\ count_min_sketch \in [Row -> [Bucket -> 0 .. MaxCount]]
    /\ digests \subseteq Key
    /\ hits \in [Key -> Nat]

\* The four books of the controller agree: an index is free or belongs to
\* exactly one key.  probabilistic_replace depends on it: its probes take the
\* number of used indexes for the range of them.
BooksAgree ==
    /\ used_indices = Index \ free_indices
    /\ DOMAIN index_to_key = used_indices
    /\ \A k \in DOMAIN key_to_index :
        key_to_index[k] \in DOMAIN index_to_key /\ index_to_key[key_to_index[k]] = k
    /\ \A i \in DOMAIN index_to_key : Cached(index_to_key[i]) /\ key_to_index[index_to_key[i]] = i

\* Every copy of the table holds exactly the cached keys with their indexes,
\* so that no del_entry or add_entry fails, although digests and announcements
\* come late and for keys that were removed, replaced or cached again.
TablesMatchBooks == \A c \in Copy : entries[c] = key_to_index

\* The counter of an index counts the packets of the key that owns it now, not
\* those of a key that owned it before: the decision to replace is fair.
CountersOwn == \A k \in DOMAIN key_to_index : reg_cached_counters[key_to_index[k]] = hits[k]
==============================================================================
