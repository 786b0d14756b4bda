------------------------------- MODULE MapTable -------------------------------
(***************************************************************************)
(* libsycon's MapTable and GuardedMapTable: a map whose entries the data   *)
(* plane looks up in several copies, kept by the controller in cache.      *)
(* GuardedMapTable adds a register, the guard, that tells the data plane   *)
(* whether a put could succeed, so that it does not send packets to the    *)
(* controller in vain; a MapTable is one whose guard nobody reads.         *)
(*                                                                         *)
(* Every action runs in one transaction of the session.                    *)
(***************************************************************************)
EXTENDS Integers, FiniteSets, Functions

CONSTANTS Copy, TableKey, TableVal, capacity

TableAssumption == Copy # {} /\ capacity \in Nat \ {0}

VARIABLES
    cache,                  \* a function from the keys present
    guard,
    expirations_per_key,
    entries, idle, notified

T == INSTANCE SwitchTables WITH Key <- TableKey, Val <- TableVal

tableVars == <<cache, guard, expirations_per_key, entries, idle, notified>>

\* The constructor allows puts.
TableInit ==
    /\ cache = <<>>
    /\ guard = TRUE
    /\ expirations_per_key = [k \in TableKey |-> {}]
    /\ T!TablesInit

Present(k) == k \in DOMAIN cache

Full == Cardinality(DOMAIN cache) >= capacity

\* guard_disallow, when a put has filled the cache
GuardAfterPut(c) == guard /\ Cardinality(DOMAIN c) < capacity

\* put of a new key, or of another value for a key
put(k, v) ==
    /\ ~Full
    /\ T!AddOrModEntry(k, v)
    /\ cache' = [x \in DOMAIN cache \cup {k} |-> IF x = k THEN v ELSE cache[x]]
    /\ guard' = GuardAfterPut(cache')
    /\ UNCHANGED <<expirations_per_key, notified>>

\* put into a full map, of a key it has too: a warning, and nothing changes
PutRefused == Full /\ UNCHANGED tableVars

\* Fault: the guard stays closed.
RemoveKeepsGuard(k) ==
    \/ /\ Present(k)
       /\ T!DelEntry(k)
       /\ cache' = Restrict(cache, DOMAIN cache \ {k})
       /\ UNCHANGED guard
    \/ ~Present(k) /\ UNCHANGED <<cache, guard, entries, idle>>

\* del; of an absent key nothing happens
Remove(k) ==
    \/ /\ Present(k)
       /\ T!DelEntry(k)
       /\ cache' = Restrict(cache, DOMAIN cache \ {k})
       /\ guard' = TRUE
    \/ ~Present(k) /\ UNCHANGED <<cache, guard, entries, idle>>

\* del, called by the network function
del(k) == Remove(k) /\ UNCHANGED <<expirations_per_key, notified>>

\* Fault: the copies that announced a key are forgotten when one is missing.
RecordDropped(c, k) == {}

\* What is remembered of key k with the announcement of copy c.
Record(c, k) == expirations_per_key[k] \cup {c}
AllExpired(c, k) == Record(c, k) = Copy

\* expiration_callback
expiration_callback(c, k) ==
    /\ T!Take(c, k)
    /\ \/ /\ AllExpired(c, k)
          /\ Remove(k)
          /\ expirations_per_key' = [expirations_per_key EXCEPT ![k] = {}]
       \/ /\ ~AllExpired(c, k)
          /\ expirations_per_key' = [expirations_per_key EXCEPT ![k] = Record(c, k)]
          /\ UNCHANGED <<cache, guard, entries, idle>>

\* The data plane's part
Hit(c, k) == T!Hit(c, k) /\ UNCHANGED <<cache, guard, expirations_per_key, notified>>
TimeOut(c, k) == T!TimeOut(c, k) /\ UNCHANGED <<cache, guard, expirations_per_key>>

TableNext ==
    \/ \E k \in TableKey : del(k) \/ \E v \in TableVal : put(k, v)
    \/ PutRefused
    \/ \E c \in Copy, k \in TableKey : expiration_callback(c, k) \/ Hit(c, k) \/ TimeOut(c, k)

TableSpec == TableInit /\ [][TableNext]_tableVars

\* Timers run out, and the driver's thread calls the callbacks.
TableFairness ==
    \A c \in Copy, k \in TableKey : WF_tableVars(TimeOut(c, k)) /\ WF_tableVars(expiration_callback(c, k))

------------------------------------------------------------------------------
(* Properties                                                               *)

TableTypeOK ==
    /\ cache \in UNION { [S -> TableVal] : S \in SUBSET TableKey }
    /\ Cardinality(DOMAIN cache) <= capacity
    /\ guard \in BOOLEAN
    /\ expirations_per_key \in [TableKey -> SUBSET Copy]
    /\ T!TablesTypeOK

\* Every copy of the table holds what the controller believes the map to be,
\* keys and values: no call to a table fails, and the data plane answers every
\* lookup as the controller would, although keys expire by announcements that
\* may be about an earlier entry of the same key.
TablesMatchCache == \A c \in Copy : entries[c] = cache

\* The guard is open exactly while a new key can be put: the data plane never
\* sends a packet for a put that is refused, and never keeps a packet away
\* from a map that has room.
GuardExact == guard <=> ~Full

\* A key nobody looks up or puts any more leaves the map.
KeyReclaimed ==
    \A k \in TableKey :
        <>[][~((\E v \in TableVal : put(k, v)) \/ \E c \in Copy : Hit(c, k))]_tableVars
            => <>[](~Present(k))
==============================================================================
