-------------------------- MODULE SwitchTablesProofs --------------------------
(***************************************************************************)
(* The structures libsycon keeps in tables of the switch: MapTable and     *)
(* GuardedMapTable, and next to them a DchainTable with tables of its own; *)
(* for any copies, keys, values and capacity.                              *)
(***************************************************************************)
EXTENDS MapTable, FiniteSetTheorems, TLAPS

\* The DchainTable
VARIABLES free_indexes, expirations_per_index, dentries, didle, dnotified

Chain == INSTANCE DchainTable WITH entries <- dentries, idle <- didle, notified <- dnotified

------------------------------------------------------------------------------
(* Partial functions: what a copy of a table holds                          *)

PartialFunctions(K, V) == UNION { [S -> V] : S \in SUBSET K }

\* A function on some of the keys is a partial function.
LEMMA PartialIntro ==
    ASSUME NEW K, NEW V, NEW S \in SUBSET K, NEW f \in [S -> V]
    PROVE  f \in PartialFunctions(K, V)
BY DEF PartialFunctions

\* ... and every partial function is one on its own domain.
LEMMA PartialElim ==
    ASSUME NEW K, NEW V, NEW f \in PartialFunctions(K, V)
    PROVE  DOMAIN f \subseteq K /\ f \in [DOMAIN f -> V]
BY DEF PartialFunctions

\* The empty map, with which every table begins, is a partial function.
LEMMA PartialEmpty ==
    ASSUME NEW K, NEW V
    PROVE  <<>> \in PartialFunctions(K, V) /\ DOMAIN <<>> = {}
<1>1. DOMAIN <<>> = {} OBVIOUS
<1>2. <<>> \in [{} -> V] OBVIOUS
<1> QED BY <1>1, <1>2, PartialIntro

\* Giving one key a value (a put, an added entry) keeps the type.
LEMMA PartialUpdate ==
    ASSUME NEW K, NEW V, NEW f \in PartialFunctions(K, V), NEW k \in K, NEW v \in V
    PROVE  [x \in DOMAIN f \cup {k} |-> IF x = k THEN v ELSE f[x]] \in PartialFunctions(K, V)
<1>1. DOMAIN f \subseteq K /\ f \in [DOMAIN f -> V] BY PartialElim
<1>2. [x \in DOMAIN f \cup {k} |-> IF x = k THEN v ELSE f[x]] \in [DOMAIN f \cup {k} -> V] BY <1>1
<1>3. DOMAIN f \cup {k} \in SUBSET K BY <1>1
<1> QED BY <1>2, <1>3, PartialIntro

\* Taking keys away (an erase, a deleted entry) keeps the type.
LEMMA PartialRestrict ==
    ASSUME NEW K, NEW V, NEW f \in PartialFunctions(K, V), NEW S
    PROVE  [x \in DOMAIN f \ S |-> f[x]] \in PartialFunctions(K, V)
<1>1. DOMAIN f \subseteq K /\ f \in [DOMAIN f -> V] BY PartialElim
<1>2. [x \in DOMAIN f \ S |-> f[x]] \in [DOMAIN f \ S -> V] BY <1>1
<1>3. DOMAIN f \ S \in SUBSET K BY <1>1
<1> QED BY <1>2, <1>3, PartialIntro

------------------------------------------------------------------------------
(* MapTable and GuardedMapTable.  The guard is a statement about the number *)
(* of keys, so the invariant also keeps that the cache is finite and within *)
(* its capacity.                                                            *)

Maps == PartialFunctions(TableKey, TableVal)

FiniteCache == IsFiniteSet(DOMAIN cache)

\* The invariant without what the tables hold besides cache.
Books ==
    /\ TableAssumption
    /\ cache \in Maps /\ FiniteCache /\ Cardinality(DOMAIN cache) <= capacity
    /\ guard \in BOOLEAN /\ GuardExact

MapInv ==
    /\ Books /\ TablesMatchCache
    /\ expirations_per_key \in [TableKey -> SUBSET Copy]
    /\ T!TablesTypeOK

\* After the constructor the map is empty and its guard open.
LEMMA MapInitInv == TableAssumption /\ TableInit => MapInv
<1> SUFFICES ASSUME TableAssumption, TableInit PROVE MapInv
  OBVIOUS
<1>1. cache \in Maps /\ DOMAIN cache = {}
  BY PartialEmpty DEF TableInit, Maps
<1>2. FiniteCache /\ Cardinality(DOMAIN cache) = 0
  BY <1>1, FS_EmptySet DEF FiniteCache
<1>3. Books
  BY <1>1, <1>2 DEF TableAssumption, Books, TableInit, GuardExact, Full
<1>4. entries \in [Copy -> Maps]
  BY PartialEmpty DEF TableInit, T!TablesInit, Maps
<1>5. T!TablesTypeOK
  BY <1>4 DEF TableInit, T!TablesInit, T!TablesTypeOK, Maps, PartialFunctions
<1> QED
  BY <1>3, <1>5 DEF MapInv, TableInit, TablesMatchCache, T!TablesInit

\* The tables stay well typed when each copy gets the same well typed map.
LEMMA SameMapTyped ==
    ASSUME T!TablesTypeOK, NEW m \in Maps, entries' = [c \in Copy |-> m],
           NEW k, idle' = [c \in Copy |-> idle[c] \ {k}], notified' \subseteq notified
    PROVE  T!TablesTypeOK'
<1>1. entries' \in [Copy -> Maps]
  OBVIOUS
<1> QED
  BY <1>1 DEF T!TablesTypeOK, Maps, PartialFunctions

\* put
LEMMA MapPutInv ==
    ASSUME MapInv, NEW k \in TableKey, NEW v \in TableVal, put(k, v)
    PROVE  MapInv'
<1> DEFINE new == [x \in DOMAIN cache \cup {k} |-> IF x = k THEN v ELSE cache[x]]
<1>1. Books /\ TablesMatchCache /\ T!TablesTypeOK
  BY DEF MapInv
<1>c. capacity \in Nat \ {0}
  BY <1>1 DEF Books, TableAssumption
<1>2. cache' = new /\ guard' = GuardAfterPut(new) /\ ~Full
  BY DEF put, GuardAfterPut
<1>3. new \in Maps /\ DOMAIN new = DOMAIN cache \cup {k}
  BY <1>1, PartialUpdate DEF Books, Maps
<1>4. IsFiniteSet(DOMAIN new) /\ Cardinality(DOMAIN new) <= capacity
  <2>1. Cardinality(DOMAIN cache) \in Nat /\ Cardinality(DOMAIN cache) < capacity
    BY <1>1, <1>2, FS_CardinalityType DEF TableAssumption, Books, FiniteCache, Full
  <2>2. /\ IsFiniteSet(DOMAIN cache \cup {k})
        /\ \/ Cardinality(DOMAIN cache \cup {k}) = Cardinality(DOMAIN cache)
           \/ Cardinality(DOMAIN cache \cup {k}) = Cardinality(DOMAIN cache) + 1
    BY <1>1, FS_AddElement DEF Books, FiniteCache
  <2> QED
    BY <1>3, <1>c, <2>1, <2>2
<1>5. guard' \in BOOLEAN /\ (guard' <=> ~(Cardinality(DOMAIN new) >= capacity))
  <2>1. guard = TRUE
    BY <1>1, <1>2 DEF Books, GuardExact
  <2>2. Cardinality(DOMAIN new) \in Nat
    BY <1>4, FS_CardinalityType
  <2> DEFINE n == Cardinality(DOMAIN new)
  <2>3. CASE n < capacity
    <3>1. guard' = TRUE
      BY <1>2, <2>1, <2>3, Zenon DEF GuardAfterPut
    <3> QED
      BY <1>c, <2>2, <2>3, <3>1
  <2>4. CASE ~(n < capacity)
    <3>1. guard' = FALSE
      BY <1>2, <2>1, <2>4, Zenon DEF GuardAfterPut
    <3>2. n >= capacity
      BY <1>c, <2>2, <2>4
    <3> QED
      BY <3>1, <3>2, Zenon
  <2> QED
    BY <2>3, <2>4
<1>6. Books'
  BY <1>1, <1>2, <1>3, <1>4, <1>5 DEF Books, TableAssumption, FiniteCache, GuardExact, Full
<1>7. entries' = [c \in Copy |-> new] /\ idle' = [c \in Copy |-> idle[c] \ {k}]
  BY <1>1 DEF put, T!AddOrModEntry, T!Write, TablesMatchCache
<1>8. T!TablesTypeOK' /\ TablesMatchCache'
  BY <1>1, <1>2, <1>3, <1>7, SameMapTyped DEF put, TablesMatchCache
<1>9. expirations_per_key' \in [TableKey -> SUBSET Copy]
  BY DEF MapInv, put
<1> QED
  BY <1>6, <1>8, <1>9 DEF MapInv

\* del, called by the network function or by a callback
LEMMA MapRemoveInv ==
    ASSUME MapInv, NEW k \in TableKey, Remove(k), notified' \subseteq notified
    PROVE  Books' /\ TablesMatchCache' /\ T!TablesTypeOK'
<1> DEFINE new == Restrict(cache, DOMAIN cache \ {k})
<1>1. Books /\ TablesMatchCache /\ T!TablesTypeOK
  BY DEF MapInv
<1>2. CASE Present(k) /\ T!DelEntry(k) /\ cache' = new /\ guard' = TRUE
  <2>1. new \in Maps /\ DOMAIN new = DOMAIN cache \ {k}
    BY <1>1, PartialRestrict DEF Books, Maps, Restrict
  <2>2. IsFiniteSet(DOMAIN new) /\ Cardinality(DOMAIN new) = Cardinality(DOMAIN cache) - 1
    BY <1>1, <1>2, <2>1, FS_RemoveElement DEF Books, FiniteCache, Present
  <2>3. Cardinality(DOMAIN cache) \in Nat
    BY <1>1, FS_CardinalityType DEF Books, FiniteCache
  <2>4. Books'
    BY <1>1, <1>2, <2>1, <2>2, <2>3 DEF TableAssumption, Books, FiniteCache, GuardExact, Full
  <2>5. entries' = [c \in Copy |-> new] /\ idle' = [c \in Copy |-> idle[c] \ {k}]
    BY <1>1, <1>2 DEF T!DelEntry, T!Restrict, Restrict, TablesMatchCache
  <2> QED
    BY <1>1, <1>2, <2>1, <2>4, <2>5, SameMapTyped DEF TablesMatchCache
<1>3. CASE UNCHANGED <<cache, guard, entries, idle>>
  BY <1>1, <1>3 DEF Books, FiniteCache, GuardExact, Full, TablesMatchCache, T!TablesTypeOK
<1> QED
  BY <1>2, <1>3 DEF Remove

\* Every call, callback and lookup keeps the invariant.
LEMMA MapNextInv == MapInv /\ [TableNext]_tableVars => MapInv'
<1> SUFFICES ASSUME MapInv, [TableNext]_tableVars PROVE MapInv'
  OBVIOUS
<1>p. /\ Books /\ TablesMatchCache /\ T!TablesTypeOK
      /\ expirations_per_key \in [TableKey -> SUBSET Copy]
  BY DEF MapInv
<1>b. ASSUME UNCHANGED <<cache, guard>> PROVE Books'
  BY <1>p, <1>b DEF Books, TableAssumption, FiniteCache, GuardExact, Full
<1>1. CASE UNCHANGED tableVars
  BY <1>1, <1>p, <1>b DEF MapInv, tableVars, TablesMatchCache, T!TablesTypeOK
<1>2. ASSUME NEW k \in TableKey, NEW v \in TableVal, put(k, v) PROVE MapInv'
  BY <1>2, MapPutInv
<1>3. ASSUME NEW k \in TableKey, del(k) PROVE MapInv'
  BY <1>3, <1>p, MapRemoveInv DEF MapInv, del
<1>4. CASE PutRefused
  BY <1>1, <1>4 DEF PutRefused
<1>5. ASSUME NEW c \in Copy, NEW k \in TableKey, expiration_callback(c, k) PROVE MapInv'
  <2>1. notified' \subseteq notified
    BY <1>5 DEF expiration_callback, T!Take
  <2>2. expirations_per_key' \in [TableKey -> SUBSET Copy]
    BY <1>5, <1>p DEF expiration_callback, Record
  <2>3. CASE Remove(k)
    BY <2>1, <2>2, <2>3, MapRemoveInv DEF MapInv
  <2>4. CASE UNCHANGED <<cache, guard, entries, idle>>
    BY <1>p, <1>b, <2>1, <2>2, <2>4 DEF MapInv, TablesMatchCache, T!TablesTypeOK
  <2> QED
    BY <1>5, <2>3, <2>4 DEF expiration_callback
<1>6. ASSUME NEW c \in Copy, NEW k \in TableKey, Hit(c, k) PROVE MapInv'
  <2>1. T!TablesTypeOK'
    BY <1>6, <1>p DEF Hit, T!Hit, T!TablesTypeOK
  <2> QED
    BY <1>6, <1>p, <1>b, <2>1 DEF MapInv, Hit, T!Hit, TablesMatchCache
<1>7. ASSUME NEW c \in Copy, NEW k \in TableKey, TimeOut(c, k) PROVE MapInv'
  <2>1. /\ idle' = [idle EXCEPT ![c] = idle[c] \cup {k}] /\ entries' = entries
        /\ notified' = notified \cup {<<c, k>>}
        /\ UNCHANGED <<cache, guard, expirations_per_key>>
    BY <1>7 DEF TimeOut, T!TimeOut
  <2>2. <<c, k>> \in Copy \X TableKey
    OBVIOUS
  <2>3. notified' \subseteq Copy \X TableKey
    BY <1>p, <2>1, <2>2 DEF T!TablesTypeOK
  <2>4. idle' \in [Copy -> SUBSET TableKey]
    BY <1>p, <2>1 DEF T!TablesTypeOK
  <2>5. T!TablesTypeOK'
    BY <1>p, <2>1, <2>3, <2>4 DEF T!TablesTypeOK
  <2> QED
    BY <1>p, <1>b, <2>1, <2>5 DEF MapInv, TablesMatchCache
<1> QED
  BY <1>1, <1>2, <1>3, <1>4, <1>5, <1>6, <1>7 DEF TableNext

\* The invariant holds always.
LEMMA MapInductive == TableAssumption /\ TableSpec => []MapInv
  BY MapInitInv, MapNextInv, PTL DEF TableSpec

\* The variables keep their types and the map never outgrows its capacity,
\* for any number of copies, keys and values.
THEOREM MapTypeCorrect == TableAssumption /\ TableSpec => []TableTypeOK
<1>1. MapInv => TableTypeOK BY DEF MapInv, Books, TableTypeOK, Maps, PartialFunctions
<1> QED BY MapInductive, <1>1, PTL

\* However late the announcements of idle entries arrive, every copy of the
\* table holds what the controller's cache holds: no call to a table fails.
THEOREM MapTablesMatch == TableAssumption /\ TableSpec => []TablesMatchCache
<1>1. MapInv => TablesMatchCache BY DEF MapInv
<1> QED BY MapInductive, <1>1, PTL

\* The guard register is open exactly while a put can succeed, through puts,
\* deletions and expirations.
THEOREM GuardTellsTheTruth == TableAssumption /\ TableSpec => []GuardExact
<1>1. MapInv => GuardExact BY DEF MapInv, Books
<1> QED BY MapInductive, <1>1, PTL

------------------------------------------------------------------------------
(* DchainTable.  That the tables hold exactly the allocated indexes is      *)
(* inductive together with the types: every operation that moves an index   *)
(* between free_indexes and allocated does so on all copies, in the same    *)
(* transaction.                                                             *)

ChainInv == Chain!TypeOK /\ Chain!TablesMatchFree

\* After the constructor every index is free and every table empty.
LEMMA ChainInitInv == Chain!Init => ChainInv
<1> SUFFICES ASSUME Chain!Init PROVE ChainInv
  OBVIOUS
<1>1. dentries \in [Copy -> PartialFunctions(Chain!Index, {TRUE})]
  BY PartialEmpty DEF Chain!Init, Chain!T!TablesInit
<1>2. Chain!T!TablesTypeOK
  BY <1>1 DEF Chain!Init, Chain!T!TablesInit, Chain!T!TablesTypeOK, PartialFunctions
<1>3. free_indexes = Chain!Index /\ expirations_per_index \in [Chain!Index -> SUBSET Copy]
  BY DEF Chain!Init, Chain!AllIndexes, Chain!Index
<1>4. \A c \in Copy : DOMAIN dentries[c] = {}
  BY PartialEmpty DEF Chain!Init, Chain!T!TablesInit
<1> QED
  BY <1>2, <1>3, <1>4 DEF ChainInv, Chain!TypeOK, Chain!TablesMatchFree

\* What a write to every copy leaves in the tables.
LEMMA WriteEffect ==
    ASSUME Chain!T!TablesTypeOK, NEW i \in Chain!Index, Chain!T!Write(i, TRUE), dnotified' = dnotified
    PROVE  /\ Chain!T!TablesTypeOK'
           /\ \A c \in Copy : DOMAIN dentries'[c] = DOMAIN dentries[c] \cup {i}
<1> USE DEF Chain!T!TablesTypeOK, Chain!T!Write
<1>1. \A c \in Copy : dentries[c] \in PartialFunctions(Chain!Index, {TRUE})
  BY DEF PartialFunctions
<1>2. \A c \in Copy : dentries'[c] \in PartialFunctions(Chain!Index, {TRUE})
  BY <1>1, PartialUpdate
<1>3. dentries' \in [Copy -> PartialFunctions(Chain!Index, {TRUE})]
  BY <1>2
<1> QED
  BY <1>3 DEF PartialFunctions

\* What a deletion from every copy leaves in the tables.
LEMMA DelEffect ==
    ASSUME Chain!T!TablesTypeOK, NEW i \in Chain!Index, Chain!T!DelEntry(i), dnotified' \subseteq dnotified
    PROVE  /\ Chain!T!TablesTypeOK'
           /\ \A c \in Copy : DOMAIN dentries'[c] = DOMAIN dentries[c] \ {i}
<1> USE DEF Chain!T!TablesTypeOK, Chain!T!DelEntry
<1>1. \A c \in Copy : dentries[c] \in PartialFunctions(Chain!Index, {TRUE})
  BY DEF PartialFunctions
<1>2. \A c \in Copy : /\ dentries'[c] \in PartialFunctions(Chain!Index, {TRUE})
                      /\ DOMAIN dentries'[c] = DOMAIN dentries[c] \ {i}
  BY <1>1, PartialRestrict DEF Chain!T!Restrict, Restrict
<1>3. dentries' \in [Copy -> PartialFunctions(Chain!Index, {TRUE})]
  BY <1>2
<1> QED
  BY <1>2, <1>3 DEF PartialFunctions

\* free_index, called by the network function or by a callback
LEMMA ChainReleaseInv ==
    ASSUME ChainInv, NEW i \in Chain!Index, Chain!Release(i), dnotified' \subseteq dnotified
    PROVE  Chain!T!TablesTypeOK' /\ free_indexes' \subseteq Chain!Index /\ Chain!TablesMatchFree'
<1>1. CASE Chain!is_index_allocated(i) /\ Chain!T!DelEntry(i) /\ free_indexes' = free_indexes \cup {i}
  BY <1>1, DelEffect DEF ChainInv, Chain!TypeOK, Chain!TablesMatchFree
<1>2. CASE UNCHANGED <<free_indexes, dentries, didle>>
  BY <1>2 DEF ChainInv, Chain!TypeOK, Chain!TablesMatchFree, Chain!T!TablesTypeOK
<1> QED
  BY <1>1, <1>2 DEF Chain!Release

\* Every call, callback and lookup keeps the invariant.
LEMMA ChainNextInv == ChainInv /\ [Chain!Next]_(Chain!vars) => ChainInv'
<1> SUFFICES ASSUME ChainInv, [Chain!Next]_(Chain!vars) PROVE ChainInv'
  OBVIOUS
<1> USE DEF ChainInv, Chain!TypeOK, Chain!TablesMatchFree
<1>1. CASE UNCHANGED Chain!vars
  BY <1>1 DEF Chain!vars, Chain!T!TablesTypeOK
<1>2. ASSUME NEW i \in Chain!Index, Chain!allocate_new_index(i) PROVE ChainInv'
  <2>1. i \in free_indexes /\ Chain!T!Write(i, TRUE) /\ dnotified' = dnotified
        /\ free_indexes' = free_indexes \ {i} /\ expirations_per_index' = expirations_per_index
    BY <1>2 DEF Chain!allocate_new_index, Chain!T!AddEntry
  <2>2. Chain!T!TablesTypeOK' /\ \A c \in Copy : DOMAIN dentries'[c] = DOMAIN dentries[c] \cup {i}
    BY <2>1, WriteEffect
  <2> QED
    BY <2>1, <2>2
<1>3. ASSUME NEW i \in Chain!Index, Chain!refresh_index(i) PROVE ChainInv'
  <2>1. CASE Chain!is_index_allocated(i) /\ Chain!T!ModEntry(i, TRUE)
    <3>1. /\ Chain!T!Write(i, TRUE) /\ dnotified' = dnotified
          /\ UNCHANGED <<free_indexes, expirations_per_index>>
          /\ \A c \in Copy : i \in DOMAIN dentries[c]
      BY <1>3, <2>1 DEF Chain!refresh_index, Chain!T!ModEntry, Chain!T!Holds
    <3>2. Chain!T!TablesTypeOK' /\ \A c \in Copy : DOMAIN dentries'[c] = DOMAIN dentries[c] \cup {i}
      BY <3>1, WriteEffect
    <3>3. \A c \in Copy : DOMAIN dentries'[c] = DOMAIN dentries[c]
      BY <3>1, <3>2
    <3> QED
      BY <3>1, <3>2, <3>3
  <2>2. CASE UNCHANGED <<dentries, didle>>
    BY <1>3, <2>2 DEF Chain!refresh_index, Chain!T!TablesTypeOK
  <2> QED
    BY <1>3, <2>1, <2>2 DEF Chain!refresh_index
<1>4. ASSUME NEW i \in Chain!Index, Chain!free_index(i) PROVE ChainInv'
  BY <1>4, ChainReleaseInv DEF Chain!free_index
<1>5. CASE Chain!OutOfIndexes
  BY <1>1, <1>5 DEF Chain!OutOfIndexes
<1>6. ASSUME NEW c \in Copy, NEW i \in Chain!Index, Chain!expiration_callback(c, i) PROVE ChainInv'
  <2>1. dnotified' \subseteq dnotified
    BY <1>6 DEF Chain!expiration_callback, Chain!T!Take
  <2>2. expirations_per_index' \in [Chain!Index -> SUBSET Copy]
    BY <1>6 DEF Chain!expiration_callback, Chain!Record
  <2>3. Chain!T!TablesTypeOK' /\ free_indexes' \subseteq Chain!Index /\ Chain!TablesMatchFree'
    <3>1. CASE Chain!Release(i)
      BY <2>1, <3>1, ChainReleaseInv
    <3>2. CASE UNCHANGED <<free_indexes, dentries, didle>>
      BY <2>1, <3>2 DEF Chain!T!TablesTypeOK
    <3> QED
      BY <1>6, <3>1, <3>2 DEF Chain!expiration_callback
  <2> QED
    BY <2>2, <2>3
<1>7. ASSUME NEW c \in Copy, NEW i \in Chain!Index, Chain!Hit(c, i) PROVE ChainInv'
  BY <1>7 DEF Chain!Hit, Chain!T!Hit, Chain!T!Holds, Chain!T!TablesTypeOK
<1>8. ASSUME NEW c \in Copy, NEW i \in Chain!Index, Chain!TimeOut(c, i) PROVE ChainInv'
  <2>1. didle' = [didle EXCEPT ![c] = didle[c] \cup {i}] /\ dentries' = dentries
        /\ dnotified' = dnotified \cup {<<c, i>>}
        /\ free_indexes' = free_indexes /\ expirations_per_index' = expirations_per_index
    BY <1>8 DEF Chain!TimeOut, Chain!T!TimeOut
  <2>2. Chain!T!TablesTypeOK'
    <3>1. <<c, i>> \in Copy \X Chain!Index
      OBVIOUS
    <3>2. dnotified' \subseteq Copy \X Chain!Index
      BY <2>1, <3>1 DEF Chain!T!TablesTypeOK
    <3>3. didle' \in [Copy -> SUBSET Chain!Index]
      BY <2>1 DEF Chain!T!TablesTypeOK
    <3> QED
      BY <2>1, <3>2, <3>3 DEF Chain!T!TablesTypeOK
  <2> QED
    BY <2>1, <2>2
<1> QED
  BY <1>1, <1>2, <1>3, <1>4, <1>5, <1>6, <1>7, <1>8 DEF Chain!Next

\* The invariant holds always.
LEMMA ChainInductive == Chain!Spec => []ChainInv
  BY ChainInitInv, ChainNextInv, PTL DEF Chain!Spec

\* The variables keep their types, for any number of copies and indexes.
THEOREM DchainTypeCorrect == Chain!Spec => []Chain!TypeOK
<1>1. ChainInv => Chain!TypeOK BY DEF ChainInv
<1> QED BY ChainInductive, <1>1, PTL

\* However late announcements arrive, every copy of the table holds exactly
\* the indexes that are not free.
THEOREM DchainTablesMatch == Chain!Spec => []Chain!TablesMatchFree
<1>1. ChainInv => Chain!TablesMatchFree BY DEF ChainInv
<1> QED BY ChainInductive, <1>1, PTL
==============================================================================
