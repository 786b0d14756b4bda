----------------------------- MODULE DchainTable -----------------------------
(***************************************************************************)
(* libsycon's DchainTable: the index allocator of a network function on    *)
(* the switch.  The controller keeps the set of free indexes; an allocated *)
(* index is an entry in every copy of the data plane's table, and it is    *)
(* freed when each copy has announced that the index is idle there.        *)
(*                                                                         *)
(* Every action runs in one transaction of the session (SyconSession), so  *)
(* calls and callbacks do not interleave.                                  *)
(***************************************************************************)
EXTENDS Integers

CONSTANTS Copy, capacity

DchainAssumption == Copy # {} /\ capacity \in Nat

VARIABLES
    free_indexes,
    expirations_per_index,
    entries, idle, notified

Index == 0 .. capacity - 1

T == INSTANCE SwitchTables WITH Key <- Index, Val <- {TRUE}

vars == <<free_indexes, expirations_per_index, entries, idle, notified>>

\* What the constructor inserts into free_indexes.
AllIndexes == 0 .. capacity - 1

Init ==
    /\ free_indexes = AllIndexes
    /\ expirations_per_index = [i \in Index |-> {}]
    /\ T!TablesInit

is_index_allocated(i) == i \notin free_indexes

\* refresh_index; of a free index nothing happens
refresh_index(i) ==
    /\ \/ is_index_allocated(i) /\ T!ModEntry(i, TRUE)
       \/ ~is_index_allocated(i) /\ UNCHANGED <<entries, idle>>
    /\ UNCHANGED <<free_indexes, expirations_per_index, notified>>

\* allocate_new_index: the least free index, as the set is ordered
allocate_new_index(i) ==
    /\ i \in free_indexes /\ \A x \in free_indexes : i <= x
    /\ T!AddEntry(i, TRUE)
    /\ free_indexes' = free_indexes \ {i}
    /\ UNCHANGED <<expirations_per_index, notified>>

\* ... and when it refuses
OutOfIndexes == free_indexes = {} /\ UNCHANGED vars

\* free_index; of a free index nothing happens
Release(i) ==
    \/ /\ is_index_allocated(i)
       /\ T!DelEntry(i)
       /\ free_indexes' = free_indexes \cup {i}
    \/ ~is_index_allocated(i) /\ UNCHANGED <<free_indexes, entries, idle>>

\* free_index, called by the network function
free_index(i) == Release(i) /\ UNCHANGED <<expirations_per_index, notified>>

\* Fault: the copies that announced an index are forgotten when one is missing.
RecordDropped(c, i) == {}

\* What is remembered of index i with the announcement of copy c.
Record(c, i) == expirations_per_index[i] \cup {c}

\* Every copy has announced index i.
AllExpired(c, i) == Record(c, i) = Copy

\* expiration_callback
expiration_callback(c, i) ==
    /\ T!Take(c, i)
    /\ \/ /\ AllExpired(c, i)
          /\ Release(i)
          /\ expirations_per_index' = [expirations_per_index EXCEPT ![i] = {}]
       \/ /\ ~AllExpired(c, i)
          /\ expirations_per_index' = [expirations_per_index EXCEPT ![i] = Record(c, i)]
          /\ UNCHANGED <<free_indexes, entries, idle>>

\* The data plane's part
Hit(c, i) == T!Hit(c, i) /\ UNCHANGED <<free_indexes, expirations_per_index, notified>>
TimeOut(c, i) == T!TimeOut(c, i) /\ UNCHANGED <<free_indexes, expirations_per_index>>

Next ==
    \/ \E i \in Index : allocate_new_index(i) \/ refresh_index(i) \/ free_index(i)
    \/ OutOfIndexes
    \/ \E c \in Copy, i \in Index : expiration_callback(c, i) \/ Hit(c, i) \/ TimeOut(c, i)

Spec == Init /\ [][Next]_vars

\* Timers run out, and the driver's thread calls the callbacks.
Fairness ==
    \A c \in Copy, i \in Index : WF_vars(TimeOut(c, i)) /\ WF_vars(expiration_callback(c, i))

------------------------------------------------------------------------------
(* Properties                                                               *)

TypeOK ==
    /\ free_indexes \subseteq Index
    /\ expirations_per_index \in [Index -> SUBSET Copy]
    /\ T!TablesTypeOK

\* Every copy of the table holds exactly the indexes that are not free: the
\* data plane never treats a free index as allocated or the reverse, and no
\* call to a table fails, although indexes are freed by callbacks that come
\* late, for indexes that were freed and allocated again meanwhile.
TablesMatchFree ==
    \A c \in Copy : DOMAIN entries[c] = Index \ free_indexes

\* No index is lost: when its owner neither looks it up nor refreshes it any
\* more, it becomes free, however the announcements of its copies, and old
\* ones, are ordered.
Reclaimed ==
    \A i \in Index :
        <>[][~(refresh_index(i) \/ allocate_new_index(i) \/ \E c \in Copy : Hit(c, i))]_vars
            => <>[](i \in free_indexes)
==============================================================================
