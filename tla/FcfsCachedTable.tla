--------------------------- MODULE FcfsCachedTable ---------------------------
(***************************************************************************)
(* libsycon's FCFSCachedTable and the program it is tested with: a map     *)
(* from keys to indexes that the data plane fills by itself.  A packet of  *)
(* a new key takes an index from the ring and, if the cell its key hashes  *)
(* to is not alive, keeps both there and announces them by a digest; if    *)
(* the cell belongs to another key, the packet goes to the controller with *)
(* its index.  The controller moves what it is told into the tables and    *)
(* frees the cell; keys idle in all tables are deleted.                    *)
(*                                                                         *)
(* Packets take indexes at the head of the ring, the controller puts them  *)
(* back at the tail.  A register action that does not assign its output    *)
(* leaves it unset: Unset are the values it may then have (the Tofino's    *)
(* stateful units give 0).                                                 *)
(*                                                                         *)
(* The controller's set of free indexes is written and never read; it is   *)
(* left out.                                                               *)
(***************************************************************************)
EXTENDS Integers, FiniteSets, Functions

CONSTANTS
    ReadTable, WriteTable,  \* the copies: fcfs_ct_table_0 and fcfs_ct_table_1
    capacity, Unset,
    Key, Cell, Hash         \* hash function into the cells of the cache

Copy == {ReadTable, WriteTable}
Index == 0 .. capacity - 1

FcfsAssumption ==
    /\ ReadTable # WriteTable /\ Hash \in [Key -> Cell]
    /\ capacity \in Nat /\ capacity > 1 /\ Unset \subseteq Index

VARIABLES
    head, tail, indexes,    \* the ring of free indexes
    pending,                \* indexes handed out and not yet acknowledged
    cache,                  \* the controller's map
    expirations_per_key,
    alive,                  \* reg_liveness
    keys, values,           \* the cells' keys and indexes
    digests, toController,  \* under way: pairs of a key and an index
    entries, idle, notified

T == INSTANCE SwitchTables WITH Val <- Index

ring == <<head, tail, indexes, pending>>
cells == <<alive, keys, values>>
vars == <<ring, cache, expirations_per_key, cells, digests, toController,
          entries, idle, notified>>

\* init_tail, and the constructor's loop: one place of the ring stays unused.
RingInit ==
    /\ head = 0
    /\ tail = capacity - 1
    /\ indexes = [i \in Index |-> IF i < capacity - 1 THEN i ELSE 0]
    /\ pending = {}

Init ==
    /\ RingInit
    /\ cache = <<>>
    /\ expirations_per_key = [k \in Key |-> {}]
    /\ alive = {}
    /\ keys \in [Cell -> Key] /\ values = [c \in Cell |-> 0]
    /\ digests = {} /\ toController = {}
    /\ T!TablesInit

------------------------------------------------------------------------------
(* The ring                                                                 *)

After(i) == (i + 1) % capacity

\* What head_inc returns to a packet
OldHead(h) == IF head # tail THEN h = head ELSE h \in Unset

\* A packet takes index i.
TakeIndex(i) ==
    \E h \in Index :
        /\ OldHead(h) /\ h # tail
        /\ i = indexes[h]
        /\ head' = IF head # tail THEN After(head) ELSE head
        /\ pending' = pending \cup {i}
        /\ UNCHANGED <<tail, indexes>>

\* A packet finds that there is none.
NoIndex == (\E h \in Index : OldHead(h) /\ h = tail) /\ UNCHANGED ring

\* advance_tail
PutBack(i) ==
    /\ indexes' = [indexes EXCEPT ![tail] = i]
    /\ tail' = After(tail)
    /\ UNCHANGED head

------------------------------------------------------------------------------
(* The data plane                                                           *)

\* A packet that reads, or writes a key that the table has: its timer restarts.
TableHit(c, k) ==
    /\ T!Hit(c, k)
    /\ UNCHANGED <<ring, cache, expirations_per_key, cells, digests, toController, notified>>

\* Fault: the cell is taken without a look at the liveness register.
ClaimableAlways(k) == ~T!Holds(WriteTable, k)

\* May the packet take the cell of its key?
Claimable(k) == ~T!Holds(WriteTable, k) /\ Hash[k] \notin alive

\* A packet of a new key takes the cell of its key, and an index if there is
\* one; if not, the key stays with the cell's old index.
Claim(k) ==
    /\ Claimable(k)
    /\ alive' = alive \cup {Hash[k]}
    /\ keys' = [keys EXCEPT ![Hash[k]] = k]
    /\ \/ \E i \in Index :
              /\ TakeIndex(i)
              /\ values' = [values EXCEPT ![Hash[k]] = i]
              /\ digests' = digests \cup {<<k, i>>}
       \/ NoIndex /\ UNCHANGED <<values, digests>>
    /\ UNCHANGED <<cache, expirations_per_key, toController, entries, idle, notified>>

\* The cell belongs to another key.
Collide(k) ==
    /\ ~T!Holds(WriteTable, k) /\ Hash[k] \in alive /\ keys[Hash[k]] # k
    /\ \/ \E i \in Index : TakeIndex(i) /\ toController' = toController \cup {<<k, i>>}
       \/ NoIndex /\ UNCHANGED toController
    /\ UNCHANGED <<cache, expirations_per_key, cells, digests, entries, idle, notified>>

TimeOut(c, k) ==
    /\ T!TimeOut(c, k)
    /\ UNCHANGED <<ring, cache, expirations_per_key, cells, digests, toController>>

------------------------------------------------------------------------------
(* The controller                                                           *)

\* put; a full map only warns.
Put(k, i) ==
    \/ /\ Cardinality(DOMAIN cache) < capacity
       /\ T!AddOrModEntry(k, i)
       /\ cache' = [x \in DOMAIN cache \cup {k} |-> IF x = k THEN i ELSE cache[x]]
    \/ /\ Cardinality(DOMAIN cache) >= capacity
       /\ UNCHANGED <<cache, entries, idle>>

\* digest_callback; the digest of a key that is known by now is passed over.
digest_callback(k, i) ==
    /\ <<k, i>> \in digests
    /\ digests' = digests \ {<<k, i>>}
    /\ \/ /\ k \notin DOMAIN cache
          /\ Put(k, i)
          /\ pending' = pending \ {i}
          /\ alive' = alive \ {Hash[k]}
       \/ k \in DOMAIN cache /\ UNCHANGED <<cache, entries, idle, pending, alive>>
    /\ UNCHANGED <<head, tail, indexes, expirations_per_key, keys, values, toController, notified>>

\* nf_process, for a packet that met a collision
nf_process(k, i) ==
    /\ <<k, i>> \in toController
    /\ toController' = toController \ {<<k, i>>}
    /\ \/ k \notin DOMAIN cache /\ Put(k, i)
       \/ k \in DOMAIN cache /\ UNCHANGED <<cache, entries, idle>>
    /\ UNCHANGED <<ring, expirations_per_key, cells, digests, notified>>

\* Fault: the entries stay in the tables.
DelKeepsEntries(k) ==
    /\ k \in DOMAIN cache
    /\ cache' = Restrict(cache, DOMAIN cache \ {k})
    /\ PutBack(cache[k])
    /\ UNCHANGED <<entries, idle>>

\* del
Del(k) ==
    \/ /\ k \in DOMAIN cache
       /\ T!DelEntry(k)
       /\ PutBack(cache[k])
       /\ cache' = Restrict(cache, DOMAIN cache \ {k})
    \/ k \notin DOMAIN cache /\ UNCHANGED <<cache, entries, idle, head, tail, indexes>>

Record(c, k) == expirations_per_key[k] \cup {c}

\* expiration_callback
expiration_callback(c, k) ==
    /\ T!Take(c, k)
    /\ \/ /\ Record(c, k) = Copy
          /\ expirations_per_key' = [expirations_per_key EXCEPT ![k] = {}]
          /\ Del(k)
       \/ /\ Record(c, k) # Copy
          /\ expirations_per_key' = [expirations_per_key EXCEPT ![k] = Record(c, k)]
          /\ UNCHANGED <<cache, entries, idle, head, tail, indexes>>
    /\ UNCHANGED <<pending, cells, digests, toController>>

Next ==
    \/ \E k \in Key : Claim(k) \/ Collide(k)
    \/ \E c \in Copy, k \in Key : TableHit(c, k) \/ TimeOut(c, k) \/ expiration_callback(c, k)
    \/ \E k \in Key, i \in Index : digest_callback(k, i) \/ nf_process(k, i)

Spec == Init /\ [][Next]_vars

------------------------------------------------------------------------------
(* Properties                                                               *)

\* Every table holds exactly what the controller believes, although keys
\* reach it by digests and by packets, twice or late, and are deleted on
\* announcements that may be about an earlier stay in the table.
TablesMatchCache == \A c \in Copy : entries[c] = cache

\* A digest under way still describes its cell: when the controller frees the
\* cell, it never takes it from another key that claimed it meanwhile.
DigestOwnsCell ==
    \A d \in digests :
        Hash[d[1]] \in alive /\ keys[Hash[d[1]]] = d[1] /\ values[Hash[d[1]]] = d[2]
==============================================================================
