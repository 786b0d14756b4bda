--------------------------- MODULE ControllerProofs ---------------------------
(***************************************************************************)
(* The controller's side of the switch: the session its threads share, the *)
(* heavy-hitter table with the key value store on it, and the FCFS cached  *)
(* table; for any threads, keys, capacity, sketch, cells and copies.       *)
(***************************************************************************)
EXTENDS MCDigestTables, SyconSession, FiniteSetTheorems, TLAPS

------------------------------------------------------------------------------
(* Partial functions: what a copy of a table holds                          *)

PartialFunctions(K, V) == UNION { [S -> V] : S \in SUBSET K }

\* A function on some of the keys is a partial function.
LEMMA PartialIntro ==
    ASSUME NEW K, NEW V, NEW S \in SUBSET K, NEW f \in [S -> V]
    PROVE  f \in PartialFunctions(K, V)
BY DEF PartialFunctions

\* ... and every partial function is one on its own domain.
LEMMA PartialElim ==
    ASSUME NEW K, NEW V, NEW f \in PartialFunctions(K, V)
    PROVE  DOMAIN f \subseteq K /\ f \in [DOMAIN f -> V]
BY DEF PartialFunctions

\* The empty map, with which every table begins, is a partial function.
LEMMA PartialEmpty ==
    ASSUME NEW K, NEW V
    PROVE  <<>> \in PartialFunctions(K, V) /\ DOMAIN <<>> = {}
<1>1. DOMAIN <<>> = {} OBVIOUS
<1>2. <<>> \in [{} -> V] OBVIOUS
<1> QED BY <1>1, <1>2, PartialIntro

\* Giving one key a value (a put, an added entry) keeps the type.
LEMMA PartialUpdate ==
    ASSUME NEW K, NEW V, NEW f \in PartialFunctions(K, V), NEW k \in K, NEW v \in V
    PROVE  [x \in DOMAIN f \cup {k} |-> IF x = k THEN v ELSE f[x]] \in PartialFunctions(K, V)
<1>1. DOMAIN f \subseteq K /\ f \in [DOMAIN f -> V] BY PartialElim
<1>2. [x \in DOMAIN f \cup {k} |-> IF x = k THEN v ELSE f[x]] \in [DOMAIN f \cup {k} -> V] BY <1>1
<1>3. DOMAIN f \cup {k} \in SUBSET K BY <1>1
<1> QED BY <1>2, <1>3, PartialIntro

\* Taking keys away (an erase, a deleted entry) keeps the type.
LEMMA PartialRestrict ==
    ASSUME NEW K, NEW V, NEW f \in PartialFunctions(K, V), NEW S
    PROVE  [x \in DOMAIN f \ S |-> f[x]] \in PartialFunctions(K, V)
<1>1. DOMAIN f \subseteq K /\ f \in [DOMAIN f -> V] BY PartialElim
<1>2. [x \in DOMAIN f \ S |-> f[x]] \in [DOMAIN f \ S -> V] BY <1>1
<1>3. DOMAIN f \ S \in SUBSET K BY <1>1
<1> QED BY <1>2, <1>3, PartialIntro

------------------------------------------------------------------------------
(* The session.  Mutual exclusion is not inductive alone: the lock word has *)
(* to be 1 while a thread holds the lock, and the session's transaction has *)
(* to belong to a thread that is inside.                                    *)

LockWord == \A t \in Thread : Holds(t) => atom = 1
SessionOwner == \A t \in Thread : session = t => pc[t] = "inside"

SessionInv == SessionTypeOK /\ LockWord /\ MutualExclusion /\ SessionOwner /\ SessionSound

\* config_t's constructor establishes the invariant.
LEMMA SessionInitInv == SessionInit => SessionInv
  BY ThreadAssumption
     DEF SessionInit, SessionInv, SessionTypeOK, LockWord, MutualExclusion, SessionOwner,
         SessionSound, Holds, Thread

\* Every step of a thread preserves it.
LEMMA SessionNextInv == SessionInv /\ [SessionNext]_sessionVars => SessionInv'
<1> SUFFICES ASSUME SessionInv, [SessionNext]_sessionVars PROVE SessionInv'
  OBVIOUS
<1> USE ThreadAssumption DEF SessionInv, SessionTypeOK, LockWord, MutualExclusion, SessionOwner,
                          SessionSound, Holds, Thread, Goto
<1>1. CASE UNCHANGED sessionVars
  BY <1>1 DEF sessionVars
<1>2. ASSUME NEW t \in Thread, Notify(t) PROVE SessionInv'
  BY <1>2 DEF Notify, atomic64_inc
<1>3. ASSUME NEW t \in Thread, Request(t) PROVE SessionInv'
  BY <1>3 DEF Request
<1>4. ASSUME NEW t \in Thread, WaitDone(t) PROVE SessionInv'
  BY <1>4 DEF WaitDone
<1>5. ASSUME NEW t \in Thread, Lock(t) PROVE SessionInv'
  BY <1>5 DEF Lock
<1>6. ASSUME NEW t \in Thread, Begin(t) PROVE SessionInv'
  BY <1>6 DEF Begin
<1>7. ASSUME NEW t \in Thread, End(t) PROVE SessionInv'
  BY <1>7 DEF End
<1>8. ASSUME NEW t \in Thread, Dec(t) PROVE SessionInv'
  BY <1>8 DEF Dec, atomic64_dec
<1>9. ASSUME NEW t \in Thread, Unlock(t) PROVE SessionInv'
  BY <1>9 DEF Unlock
<1> QED
  BY <1>1, <1>2, <1>3, <1>4, <1>5, <1>6, <1>7, <1>8, <1>9 DEF SessionNext, Proceed

\* SessionInv is an invariant.
LEMMA SessionInductive == SessionSpec => []SessionInv
  BY SessionInitInv, SessionNextInv, PTL DEF SessionSpec

\* The variables keep their types.
THEOREM SessionTypeCorrect == SessionSpec => []SessionTypeOK
<1>1. SessionInv => SessionTypeOK BY DEF SessionInv
<1> QED BY SessionInductive, <1>1, PTL

\* At most one thread is between lock() and unlock(), for any set of threads.
THEOREM LockExcludes == SessionSpec => []MutualExclusion
<1>1. SessionInv => MutualExclusion BY DEF SessionInv
<1> QED BY SessionInductive, <1>1, PTL

\* beginTransaction always finds the session free, and commitTransaction finds
\* the caller's own transaction.
THEOREM SessionInTurns == SessionSpec => []SessionSound
<1>1. SessionInv => SessionSound BY DEF SessionInv
<1> QED BY SessionInductive, <1>1, PTL

------------------------------------------------------------------------------
(* The heavy-hitter table.  The tables match the books because a            *)
(* replacement deletes the old key of the index it takes over, which is     *)
(* cached (BooksAgree), so that no del_entry fails; the counters follow     *)
(* because two keys never share an index (BooksAgree again).  The invariant *)
(* is the conjunction of all of them.  The number of probes needs one fact  *)
(* of finite sets: when no index is free, the used ones are as many as the  *)
(* capacity.                                                                *)

BooksTyped ==
    /\ key_to_index \in PartialFunctions(Key, Index)
    /\ index_to_key \in PartialFunctions(Index, Key)
    /\ free_indices \subseteq Index /\ used_indices \subseteq Index

CountersTyped ==
    /\ reg_cached_counters \in [Index -> 0 .. MaxCount]
    /\ count_min_sketch \in [Row -> [Bucket -> 0 .. MaxCount]]
    /\ hits \in [Key -> Nat]

Rest == expirations_per_key \in [Key -> SUBSET Copy] /\ digests \subseteq Key

TableInv ==
    /\ BooksTyped /\ BooksAgree
    /\ T!TablesTypeOK /\ TablesMatchBooks
    /\ CountersTyped /\ CountersOwn
    /\ Rest

\* With and Without, on partial functions
LEMMA WithTyped ==
    ASSUME NEW K, NEW V, NEW f \in PartialFunctions(K, V), NEW k \in K, NEW v \in V
    PROVE  /\ With(f, k, v) \in PartialFunctions(K, V)
           /\ DOMAIN With(f, k, v) = DOMAIN f \cup {k}
           /\ With(f, k, v)[k] = v
           /\ \A x \in DOMAIN f \ {k} : With(f, k, v)[x] = f[x]
BY PartialUpdate DEF With

\* ... and with a key taken away.
LEMMA WithoutTyped ==
    ASSUME NEW K, NEW V, NEW f \in PartialFunctions(K, V), NEW k \in K
    PROVE  /\ Without(f, k) \in PartialFunctions(K, V)
           /\ DOMAIN Without(f, k) = DOMAIN f \ {k}
           /\ \A x \in DOMAIN f \ {k} : Without(f, k)[x] = f[x]
BY PartialElim, PartialRestrict DEF Without, Restrict

\* The same, of the map from indexes to keys.
LEMMA IndexWithout ==
    ASSUME NEW f \in PartialFunctions(Index, Key), NEW i \in Index
    PROVE  /\ Without(f, i) \in PartialFunctions(Index, Key)
           /\ DOMAIN Without(f, i) = DOMAIN f \ {i}
           /\ \A x \in DOMAIN f \ {i} : Without(f, i)[x] = f[x]
BY PartialElim, PartialRestrict DEF Without, Restrict

\* After the constructor every index is free and nothing is cached.
LEMMA TableInitInv == Init => TableInv
<1> SUFFICES ASSUME Init PROVE TableInv
  OBVIOUS
<1>1. /\ key_to_index \in PartialFunctions(Key, Index) /\ DOMAIN key_to_index = {}
      /\ index_to_key \in PartialFunctions(Index, Key) /\ DOMAIN index_to_key = {}
  BY PartialEmpty DEF Init
<1>2. free_indices = Index /\ used_indices = {}
  BY DEF Init, AllIndexes, Index
<1>3. BooksTyped /\ BooksAgree
  BY <1>1, <1>2 DEF BooksTyped, BooksAgree
<1>4. entries \in [Copy -> PartialFunctions(Key, Index)]
  BY PartialEmpty DEF Init, T!TablesInit
<1>5. T!TablesTypeOK
  BY <1>4 DEF Init, T!TablesInit, T!TablesTypeOK, PartialFunctions
<1>6. TablesMatchBooks
  BY DEF Init, T!TablesInit, TablesMatchBooks
<1>7. CountersTyped
  <2>1. 0 \in 0 .. MaxCount
    BY HHAssumption
  <2> QED
    BY <2>1 DEF Init, CountersTyped
<1>8. CountersOwn
  BY <1>1 DEF CountersOwn
<1>9. Rest
  BY DEF Init, Rest
<1> QED
  BY <1>3, <1>5, <1>6, <1>7, <1>8, <1>9 DEF TableInv

\* The tables stay well typed when every copy gets the books.
LEMMA TablesFollow ==
    ASSUME T!TablesTypeOK, key_to_index' \in PartialFunctions(Key, Index),
           entries' = [c \in Copy |-> key_to_index'],
           NEW S, idle' = [c \in Copy |-> idle[c] \ S], notified' \subseteq notified
    PROVE  T!TablesTypeOK' /\ TablesMatchBooks'
<1>1. entries' \in [Copy -> PartialFunctions(Key, Index)]
  OBVIOUS
<1>2. idle' \in [Copy -> SUBSET Key]
  BY DEF T!TablesTypeOK
<1>3. \A c \in Copy : entries'[c] = key_to_index'
  OBVIOUS
<1> QED
  BY <1>1, <1>2, <1>3 DEF T!TablesTypeOK, TablesMatchBooks, PartialFunctions

\* Index i becomes the index of k, which was not cached; its counter is reset.
LEMMA CountersFollow ==
    ASSUME TableInv, NEW i \in Index, NEW k \in Key, ~Cached(k), ResetCounter(i),
           hits' = [hits EXCEPT ![k] = 0],
           DOMAIN key_to_index' \subseteq DOMAIN key_to_index \cup {k},
           key_to_index'[k] = i,
           \A x \in DOMAIN key_to_index' \ {k} :
                key_to_index'[x] = key_to_index[x] /\ key_to_index[x] # i
    PROVE  /\ reg_cached_counters' \in [Index -> 0 .. MaxCount]
           /\ hits' \in [Key -> Nat]
           /\ CountersOwn'
<1> USE DEF TableInv, CountersTyped, ResetCounter
<1>1. 0 \in 0 .. MaxCount
  BY HHAssumption
<1>2. reg_cached_counters' \in [Index -> 0 .. MaxCount] /\ hits' \in [Key -> Nat]
  BY <1>1
<1>3. DOMAIN key_to_index \subseteq Key /\ key_to_index \in [DOMAIN key_to_index -> Index]
  BY PartialElim DEF BooksTyped
<1>4. ASSUME NEW x \in DOMAIN key_to_index' PROVE reg_cached_counters'[key_to_index'[x]] = hits'[x]
  <2>1. CASE x = k
    BY <2>1
  <2>2. CASE x # k
    BY <1>3, <1>4, <2>2 DEF CountersOwn
  <2> QED
    BY <2>1, <2>2
<1> QED
  BY <1>2, <1>4 DEF CountersOwn

\* insert
LEMMA InsertInv ==
    ASSUME TableInv, NEW k \in Key, ~Cached(k), insert(k), notified' = notified
    PROVE  /\ BooksTyped' /\ BooksAgree' /\ T!TablesTypeOK' /\ TablesMatchBooks'
           /\ reg_cached_counters' \in [Index -> 0 .. MaxCount]
           /\ hits' \in [Key -> Nat]
           /\ CountersOwn'
<1> USE DEF TableInv
<1>1. PICK i \in free_indices :
        \/ /\ T!AddEntry(k, i)
           /\ free_indices' = free_indices \ {i}
           /\ used_indices' = used_indices \cup {i}
           /\ index_to_key' = With(index_to_key, i, k)
           /\ key_to_index' = With(key_to_index, k, i)
           /\ ResetCounter(i)
           /\ hits' = [hits EXCEPT ![k] = 0]
        \/ /\ \E f \in Copy : RefusedBy(f, k, i)
           /\ UNCHANGED <<books, reg_cached_counters, hits>>
  BY DEF insert
<1>2. i \in Index /\ DOMAIN key_to_index \subseteq Key /\ DOMAIN index_to_key \subseteq Index
      /\ i \notin DOMAIN index_to_key /\ k \notin DOMAIN key_to_index
  BY PartialElim DEF BooksTyped, BooksAgree, Cached
<1>3. CASE /\ T!AddEntry(k, i)
           /\ free_indices' = free_indices \ {i}
           /\ used_indices' = used_indices \cup {i}
           /\ index_to_key' = With(index_to_key, i, k)
           /\ key_to_index' = With(key_to_index, k, i)
           /\ ResetCounter(i)
           /\ hits' = [hits EXCEPT ![k] = 0]
  <2>1. /\ key_to_index' \in PartialFunctions(Key, Index)
        /\ DOMAIN key_to_index' = DOMAIN key_to_index \cup {k}
        /\ key_to_index'[k] = i
        /\ \A x \in DOMAIN key_to_index : key_to_index'[x] = key_to_index[x]
    BY <1>2, <1>3, WithTyped DEF BooksTyped
  <2>2. /\ index_to_key' \in PartialFunctions(Index, Key)
        /\ DOMAIN index_to_key' = DOMAIN index_to_key \cup {i}
        /\ index_to_key'[i] = k
        /\ \A x \in DOMAIN index_to_key : index_to_key'[x] = index_to_key[x]
    <3>1. index_to_key \in PartialFunctions(Index, Key)
      BY DEF BooksTyped
    <3>2. /\ With(index_to_key, i, k) \in PartialFunctions(Index, Key)
          /\ DOMAIN With(index_to_key, i, k) = DOMAIN index_to_key \cup {i}
          /\ With(index_to_key, i, k)[i] = k
          /\ \A x \in DOMAIN index_to_key \ {i} : With(index_to_key, i, k)[x] = index_to_key[x]
      BY <1>2, <3>1, WithTyped
    <3> QED
      BY <1>2, <1>3, <3>2
  <2>3. BooksTyped'
    BY <1>2, <1>3, <2>1, <2>2 DEF BooksTyped
  <2>4. BooksAgree'
    <3>1. used_indices' = Index \ free_indices' /\ DOMAIN index_to_key' = used_indices'
      BY <1>2, <1>3, <2>2 DEF BooksAgree, BooksTyped
    <3>2. \A x \in DOMAIN key_to_index' :
            key_to_index'[x] \in DOMAIN index_to_key' /\ index_to_key'[key_to_index'[x]] = x
      BY <2>1, <2>2 DEF BooksAgree
    <3>3. \A j \in DOMAIN index_to_key' :
            index_to_key'[j] \in DOMAIN key_to_index' /\ key_to_index'[index_to_key'[j]] = j
      BY <1>2, <2>1, <2>2 DEF BooksAgree, Cached
    <3> QED
      BY <3>1, <3>2, <3>3 DEF BooksAgree, Cached
  <2>5. entries' = [c \in Copy |-> key_to_index'] /\ idle' = [c \in Copy |-> idle[c] \ {k}]
    BY <1>3 DEF T!AddEntry, T!Write, TablesMatchBooks, With
  <2>6. T!TablesTypeOK' /\ TablesMatchBooks'
    BY <2>1, <2>5, TablesFollow
  <2>7. \A x \in DOMAIN key_to_index' \ {k} :
            key_to_index'[x] = key_to_index[x] /\ key_to_index[x] # i
    BY <1>2, <2>1 DEF BooksAgree
  <2>8. /\ reg_cached_counters' \in [Index -> 0 .. MaxCount]
        /\ hits' \in [Key -> Nat] /\ CountersOwn'
    BY <1>2, <1>3, <2>1, <2>7, CountersFollow
  <2> QED
    BY <2>3, <2>4, <2>6, <2>8
<1>4. CASE /\ \E f \in Copy : RefusedBy(f, k, i)
           /\ UNCHANGED <<books, reg_cached_counters, hits>>
  <2>1. PICK f \in Copy : RefusedBy(f, k, i)
    BY <1>4
  <2>2. f = 1
    BY <1>2, <2>1, HHAssumption DEF RefusedBy, T!Holds, TablesMatchBooks
  <2>3. entries' = entries /\ idle' = idle
    <3>1. \A c \in Copy : ~(c < 1)
      BY HHAssumption DEF Copy
    <3>2. entries' = [c \in Copy |-> entries[c]] /\ idle' = idle
      BY <2>1, <2>2, <3>1 DEF RefusedBy
    <3> QED
      BY <3>2 DEF T!TablesTypeOK
  <2>4. BooksTyped' /\ BooksAgree'
    BY <1>4 DEF books, BooksTyped, BooksAgree, Cached
  <2>5. T!TablesTypeOK' /\ TablesMatchBooks'
    BY <1>4, <2>3 DEF books, T!TablesTypeOK, TablesMatchBooks
  <2>6. /\ reg_cached_counters' \in [Index -> 0 .. MaxCount]
        /\ hits' \in [Key -> Nat] /\ CountersOwn'
    BY <1>4 DEF books, CountersTyped, CountersOwn
  <2> QED
    BY <2>4, <2>5, <2>6
<1> QED
  BY <1>1, <1>3, <1>4

\* replace
LEMMA ReplaceInv ==
    ASSUME TableInv, NEW i \in DOMAIN index_to_key, NEW k \in Key, ~Cached(k), replace(i, k),
           notified' = notified
    PROVE  /\ BooksTyped' /\ BooksAgree' /\ T!TablesTypeOK' /\ TablesMatchBooks'
           /\ reg_cached_counters' \in [Index -> 0 .. MaxCount]
           /\ hits' \in [Key -> Nat]
           /\ CountersOwn'
<1> USE DEF TableInv
<1> DEFINE old == index_to_key[i]
           rest == Without(key_to_index, old)
<1>1. /\ DOMAIN key_to_index \subseteq Key /\ DOMAIN index_to_key \subseteq Index
      /\ index_to_key \in [DOMAIN index_to_key -> Key]
      /\ old \in DOMAIN key_to_index /\ key_to_index[old] = i
      /\ k \notin DOMAIN key_to_index
  BY PartialElim DEF BooksTyped, BooksAgree, Cached
<1>2. /\ index_to_key' = [index_to_key EXCEPT ![i] = k]
      /\ key_to_index' = With(rest, k, i)
      /\ UNCHANGED <<free_indices, used_indices>>
      /\ ResetCounter(i) /\ hits' = [hits EXCEPT ![k] = 0]
  BY DEF replace, TakeOver
<1>3. /\ rest \in PartialFunctions(Key, Index)
      /\ DOMAIN rest = DOMAIN key_to_index \ {old}
      /\ \A x \in DOMAIN rest : rest[x] = key_to_index[x]
  <2>0. old \in Key
    BY <1>1
  <2> HIDE DEF old
  <2>1. key_to_index \in PartialFunctions(Key, Index)
    BY DEF BooksTyped
  <2>2. /\ Without(key_to_index, old) \in PartialFunctions(Key, Index)
        /\ DOMAIN Without(key_to_index, old) = DOMAIN key_to_index \ {old}
        /\ \A x \in DOMAIN key_to_index \ {old} :
                Without(key_to_index, old)[x] = key_to_index[x]
    BY <2>0, <2>1, WithoutTyped
  <2> QED
    BY <2>2
<1>4. /\ key_to_index' \in PartialFunctions(Key, Index)
      /\ DOMAIN key_to_index' = (DOMAIN key_to_index \ {old}) \cup {k}
      /\ key_to_index'[k] = i
      /\ \A x \in DOMAIN key_to_index \ {old} : key_to_index'[x] = key_to_index[x]
  <2> HIDE DEF rest
  <2>1. /\ With(rest, k, i) \in PartialFunctions(Key, Index)
        /\ DOMAIN With(rest, k, i) = DOMAIN rest \cup {k}
        /\ With(rest, k, i)[k] = i
        /\ \A x \in DOMAIN rest \ {k} : With(rest, k, i)[x] = rest[x]
    <3>1. rest \in PartialFunctions(Key, Index) /\ i \in Index
      BY <1>1, <1>3
    <3> QED
      BY <3>1, WithTyped
  <2> QED
    BY <1>1, <1>2, <1>3, <2>1
<1>5. /\ index_to_key' \in [DOMAIN index_to_key -> Key]
      /\ index_to_key'[i] = k
      /\ \A j \in DOMAIN index_to_key \ {i} : index_to_key'[j] = index_to_key[j]
  BY <1>1, <1>2
<1>6. BooksTyped'
  <2>1. index_to_key' \in PartialFunctions(Index, Key)
    BY <1>1, <1>5, PartialIntro
  <2> QED
    BY <1>2, <1>4, <2>1 DEF BooksTyped
<1>7. BooksAgree'
  <2>1. used_indices' = Index \ free_indices' /\ DOMAIN index_to_key' = used_indices'
    BY <1>2, <1>5 DEF BooksAgree
  <2>2. ASSUME NEW x \in DOMAIN key_to_index'
        PROVE  key_to_index'[x] \in DOMAIN index_to_key' /\ index_to_key'[key_to_index'[x]] = x
    <3>1. CASE x = k
      BY <1>4, <1>5, <3>1
    <3>2. CASE x \in DOMAIN key_to_index /\ x # old
      BY <1>1, <1>4, <1>5, <3>2 DEF BooksAgree
    <3> QED
      BY <1>4, <3>1, <3>2
  <2>3. ASSUME NEW j \in DOMAIN index_to_key'
        PROVE  index_to_key'[j] \in DOMAIN key_to_index' /\ key_to_index'[index_to_key'[j]] = j
    <3>1. CASE j = i
      BY <1>4, <1>5, <3>1
    <3>2. CASE j # i
      BY <1>1, <1>4, <1>5, <3>2 DEF BooksAgree, Cached
    <3> QED
      BY <3>1, <3>2
  <2> QED
    BY <2>1, <2>2, <2>3 DEF BooksAgree, Cached
<1>8. T!TablesTypeOK' /\ TablesMatchBooks'
  <2>1. /\ entries' = [c \in Copy |-> With(Without(entries[c], old), k, i)]
        /\ idle' = [c \in Copy |-> idle[c] \ {old, k}]
    BY DEF replace
  <2>2. entries' = [c \in Copy |-> key_to_index']
    BY <1>2, <2>1 DEF TablesMatchBooks
  <2> QED
    BY <1>4, <2>1, <2>2, TablesFollow
<1>9. \A x \in DOMAIN key_to_index' \ {k} :
          key_to_index'[x] = key_to_index[x] /\ key_to_index[x] # i
  BY <1>1, <1>4 DEF BooksAgree
<1>10. /\ reg_cached_counters' \in [Index -> 0 .. MaxCount]
       /\ hits' \in [Key -> Nat] /\ CountersOwn'
  <2>1. i \in Index /\ DOMAIN key_to_index' \subseteq DOMAIN key_to_index \cup {k}
    BY <1>1, <1>4
  <2> QED
    BY <1>2, <1>4, <1>9, <2>1, CountersFollow
<1> QED
  BY <1>6, <1>7, <1>8, <1>10

\* probabilistic_replace: while no index is free, every probe finds a key.
LEMMA ProbabilisticInv ==
    ASSUME TableInv, NEW k \in Key, ~Cached(k), free_indices = {}, probabilistic_replace(k),
           notified' = notified
    PROVE  /\ BooksTyped' /\ BooksAgree' /\ T!TablesTypeOK' /\ TablesMatchBooks'
           /\ reg_cached_counters' \in [Index -> 0 .. MaxCount]
           /\ hits' \in [Key -> Nat]
           /\ CountersOwn'
<1>1. Cardinality(used_indices) = capacity
  <2>1. used_indices = 0 .. capacity - 1
    BY DEF TableInv, BooksAgree, Index
  <2>2. Cardinality(0 .. capacity - 1) = capacity
    BY FS_Interval, HHAssumption
  <2> QED
    BY <2>1, <2>2
<1>2. PICK probe \in 0 .. Cardinality(used_indices) - 1 :
        \/ Heavier(k, probe) /\ replace(key_to_index[index_to_key[probe]], k)
        \/ ~Heavier(k, probe) /\ UNCHANGED <<books, switch, reg_cached_counters, hits>>
  BY DEF probabilistic_replace
<1>3. probe \in DOMAIN index_to_key /\ key_to_index[index_to_key[probe]] = probe
  BY <1>1, <1>2 DEF TableInv, BooksAgree, Index
<1>4. CASE replace(key_to_index[index_to_key[probe]], k)
  BY <1>3, <1>4, ReplaceInv
<1>5. CASE UNCHANGED <<books, switch, reg_cached_counters, hits>>
  <2>1. BooksTyped' /\ BooksAgree'
    BY <1>5 DEF TableInv, books, BooksTyped, BooksAgree, Cached
  <2>2. T!TablesTypeOK' /\ TablesMatchBooks'
    BY <1>5 DEF TableInv, books, switch, T!TablesTypeOK, TablesMatchBooks
  <2> QED
    BY <1>5, <2>1, <2>2 DEF TableInv, books, CountersTyped, CountersOwn
<1> QED
  BY <1>2, <1>4, <1>5

\* digest_callback
LEMMA DigestInv ==
    ASSUME TableInv, NEW k \in Key, digest_callback(k)
    PROVE  TableInv'
<1>1. /\ digests' \subseteq digests
      /\ UNCHANGED <<expirations_per_key, notified, count_min_sketch>>
  BY DEF digest_callback
<1>2. /\ BooksTyped' /\ BooksAgree' /\ T!TablesTypeOK' /\ TablesMatchBooks'
      /\ reg_cached_counters' \in [Index -> 0 .. MaxCount]
      /\ hits' \in [Key -> Nat]
      /\ CountersOwn'
  <2>1. CASE UNCHANGED <<books, switch, reg_cached_counters, hits>>
    <3>1. BooksTyped' /\ BooksAgree'
      BY <2>1 DEF TableInv, books, BooksTyped, BooksAgree, Cached
    <3>2. T!TablesTypeOK' /\ TablesMatchBooks'
      BY <1>1, <2>1 DEF TableInv, books, switch, T!TablesTypeOK, TablesMatchBooks
    <3> QED
      BY <2>1, <3>1, <3>2 DEF TableInv, books, CountersTyped, CountersOwn
  <2>2. CASE ~Cached(k) /\ insert(k)
    BY <1>1, <2>2, InsertInv
  <2>3. CASE ~Cached(k) /\ free_indices = {} /\ probabilistic_replace(k)
    BY <1>1, <2>3, ProbabilisticInv
  <2> QED
    BY <2>1, <2>2, <2>3 DEF digest_callback
<1>3. count_min_sketch' \in [Row -> [Bucket -> 0 .. MaxCount]] /\ Rest'
  BY <1>1 DEF TableInv, CountersTyped, Rest
<1> QED
  BY <1>2, <1>3 DEF TableInv, CountersTyped

\* remove, called by a callback
LEMMA RemoveInv ==
    ASSUME TableInv, NEW k \in Key, remove(k), notified' \subseteq notified, UNCHANGED <<counters, hits>>
    PROVE  BooksTyped' /\ BooksAgree' /\ T!TablesTypeOK' /\ TablesMatchBooks' /\ CountersOwn'
<1> USE DEF TableInv
<1>1. CASE ~Cached(k) /\ UNCHANGED <<books, switch>>
  <2>1. BooksTyped' /\ BooksAgree'
    BY <1>1 DEF books, BooksTyped, BooksAgree, Cached
  <2>2. T!TablesTypeOK' /\ TablesMatchBooks'
    BY <1>1 DEF books, switch, T!TablesTypeOK, TablesMatchBooks
  <2> QED
    BY <1>1, <2>1, <2>2 DEF books, counters, CountersOwn
<1>2. CASE /\ Cached(k)
           /\ key_to_index' = Without(key_to_index, k)
           /\ index_to_key' = Without(index_to_key, key_to_index[k])
           /\ GiveBack(key_to_index[k])
           /\ DelEntry(k)
  <2>1. PICK i \in Index : i = key_to_index[k]
    BY <1>2, PartialElim DEF BooksTyped, Cached
  <2>2. k \in DOMAIN key_to_index /\ i \in DOMAIN index_to_key /\ index_to_key[i] = k
    BY <1>2, <2>1 DEF BooksAgree, Cached
  <2>3. /\ key_to_index' \in PartialFunctions(Key, Index)
        /\ DOMAIN key_to_index' = DOMAIN key_to_index \ {k}
        /\ \A x \in DOMAIN key_to_index \ {k} : key_to_index'[x] = key_to_index[x]
    <3>1. key_to_index' = Without(key_to_index, k) /\ key_to_index \in PartialFunctions(Key, Index)
      BY <1>2 DEF BooksTyped
    <3>2. /\ Without(key_to_index, k) \in PartialFunctions(Key, Index)
          /\ DOMAIN Without(key_to_index, k) = DOMAIN key_to_index \ {k}
          /\ \A x \in DOMAIN key_to_index \ {k} : Without(key_to_index, k)[x] = key_to_index[x]
      BY <3>1, WithoutTyped
    <3> QED
      BY <3>1, <3>2
  <2>4. /\ index_to_key' \in PartialFunctions(Index, Key)
        /\ DOMAIN index_to_key' = DOMAIN index_to_key \ {i}
        /\ \A j \in DOMAIN index_to_key \ {i} : index_to_key'[j] = index_to_key[j]
    <3>1. index_to_key' = Without(index_to_key, i) /\ index_to_key \in PartialFunctions(Index, Key)
      BY <1>2, <2>1 DEF BooksTyped
    <3>2. /\ Without(index_to_key, i) \in PartialFunctions(Index, Key)
          /\ DOMAIN Without(index_to_key, i) = DOMAIN index_to_key \ {i}
          /\ \A j \in DOMAIN index_to_key \ {i} : Without(index_to_key, i)[j] = index_to_key[j]
      BY <3>1, IndexWithout
    <3> QED
      BY <3>1, <3>2
  <2>5. free_indices' = free_indices \cup {i} /\ used_indices' = used_indices \ {i}
    BY <1>2, <2>1 DEF GiveBack
  <2>6. BooksTyped'
    BY <2>3, <2>4, <2>5 DEF BooksTyped
  <2>7. BooksAgree'
    <3>1. used_indices' = Index \ free_indices' /\ DOMAIN index_to_key' = used_indices'
      BY <2>4, <2>5 DEF BooksAgree
    <3>2. \A x \in DOMAIN key_to_index' :
            key_to_index'[x] \in DOMAIN index_to_key' /\ index_to_key'[key_to_index'[x]] = x
      BY <2>2, <2>3, <2>4 DEF BooksAgree
    <3>3. \A j \in DOMAIN index_to_key' :
            index_to_key'[j] \in DOMAIN key_to_index' /\ key_to_index'[index_to_key'[j]] = j
      BY <2>1, <2>2, <2>3, <2>4 DEF BooksAgree, Cached
    <3> QED
      BY <3>1, <3>2, <3>3 DEF BooksAgree, Cached
  <2>8. entries' = [c \in Copy |-> key_to_index'] /\ idle' = [c \in Copy |-> idle[c] \ {k}]
    BY <1>2 DEF DelEntry, T!DelEntry, T!Restrict, Without, Restrict, TablesMatchBooks
  <2>9. T!TablesTypeOK' /\ TablesMatchBooks'
    BY <2>3, <2>8, TablesFollow
  <2>10. CountersOwn'
    BY <2>3 DEF counters, CountersOwn
  <2> QED
    BY <2>6, <2>7, <2>9, <2>10
<1> QED
  BY <1>1, <1>2 DEF remove

\* expiration_callback
LEMMA ExpirationInv ==
    ASSUME TableInv, NEW c \in Copy, NEW k \in Key, expiration_callback(c, k)
    PROVE  TableInv'
<1>1. notified' \subseteq notified /\ UNCHANGED <<counters, digests, hits>>
  BY DEF expiration_callback, T!Take
<1>2. CountersTyped' /\ Rest'
  <2>1. expirations_per_key' \in [Key -> SUBSET Copy]
    BY DEF TableInv, Rest, expiration_callback, Record
  <2> QED
    BY <1>1, <2>1 DEF TableInv, counters, CountersTyped, Rest
<1>3. CASE remove(k)
  BY <1>1, <1>2, <1>3, RemoveInv DEF TableInv
<1>4. CASE UNCHANGED <<books, switch>>
  <2>1. BooksTyped' /\ BooksAgree'
    BY <1>4 DEF TableInv, books, BooksTyped, BooksAgree, Cached
  <2>2. T!TablesTypeOK' /\ TablesMatchBooks'
    BY <1>1, <1>4 DEF TableInv, books, switch, T!TablesTypeOK, TablesMatchBooks
  <2>3. CountersOwn'
    BY <1>1, <1>4 DEF TableInv, books, counters, CountersOwn
  <2> QED
    BY <1>2, <2>1, <2>2, <2>3 DEF TableInv
<1> QED
  BY <1>3, <1>4 DEF expiration_callback

\* A step that leaves the books, the entries and the timers' announcements
\* alone preserves what the invariant says of them.
LEMMA BooksStay ==
    ASSUME TableInv, UNCHANGED books, entries' = entries
    PROVE  BooksTyped' /\ BooksAgree' /\ TablesMatchBooks'
<1>1. BooksTyped' /\ BooksAgree'
  BY DEF TableInv, books, BooksTyped, BooksAgree, Cached
<1>2. TablesMatchBooks'
  BY DEF TableInv, books, TablesMatchBooks
<1> QED
  BY <1>1, <1>2

\* A packet that hits: the key's own counter and its history move together.
LEMMA HitInv ==
    ASSUME TableInv, NEW c \in Copy, NEW k \in Key, LookupHit(c, k)
    PROVE  TableInv'
<1>1. /\ k \in DOMAIN entries[c] /\ entries' = entries
      /\ idle' = [idle EXCEPT ![c] = idle[c] \ {k}]
      /\ reg_cached_counters[entries[c][k]] < MaxCount
      /\ reg_cached_counters' = [reg_cached_counters EXCEPT ![entries[c][k]] = @ + 1]
      /\ hits' = [hits EXCEPT ![k] = @ + 1]
      /\ UNCHANGED <<books, expirations_per_key, notified, count_min_sketch, digests>>
  BY DEF LookupHit, T!Hit, T!Holds
<1>2. BooksTyped' /\ BooksAgree' /\ TablesMatchBooks'
  BY <1>1, BooksStay
<1>3. T!TablesTypeOK'
  BY <1>1 DEF TableInv, T!TablesTypeOK
<1>4. PICK i \in Index : k \in DOMAIN key_to_index /\ key_to_index[k] = i /\ entries[c][k] = i
  BY <1>1, PartialElim DEF TableInv, TablesMatchBooks, BooksTyped
<1>5. CountersTyped'
  <2>1. reg_cached_counters[i] + 1 \in 0 .. MaxCount
    BY <1>1, <1>4, HHAssumption DEF TableInv, CountersTyped
  <2> QED
    BY <1>1, <1>4, <2>1 DEF TableInv, CountersTyped
<1>6. CountersOwn'
  <2>1. UNCHANGED key_to_index
    BY <1>1 DEF books
  <2>2. DOMAIN key_to_index \subseteq Key /\ key_to_index \in [DOMAIN key_to_index -> Index]
    BY PartialElim DEF TableInv, BooksTyped
  <2>3. ASSUME NEW x \in DOMAIN key_to_index PROVE reg_cached_counters'[key_to_index[x]] = hits'[x]
    <3>1. CASE x = k
      BY <1>1, <1>4, <2>2, <3>1 DEF TableInv, CountersTyped, CountersOwn
    <3>2. CASE x # k
      <4>1. key_to_index[x] # i
        BY <1>4, <3>2 DEF TableInv, BooksAgree
      <4> QED
        BY <1>1, <1>4, <2>2, <3>2, <4>1 DEF TableInv, CountersTyped, CountersOwn
    <3> QED
      BY <3>1, <3>2
  <2> QED
    BY <2>1, <2>3 DEF CountersOwn
<1>7. Rest'
  BY <1>1 DEF TableInv, Rest
<1> QED
  BY <1>2, <1>3, <1>5, <1>6, <1>7 DEF TableInv

\* Every digest, callback, lookup and reset keeps the invariant.
LEMMA TableNextInv == TableInv /\ [Next]_vars => TableInv'
<1> SUFFICES ASSUME TableInv, [Next]_vars PROVE TableInv'
  OBVIOUS
<1>1. CASE UNCHANGED vars
  <2>1. BooksTyped' /\ BooksAgree' /\ TablesMatchBooks'
    BY <1>1, BooksStay DEF vars, switch
  <2> QED
    BY <1>1, <2>1 DEF TableInv, vars, books, switch, counters, T!TablesTypeOK, CountersTyped,
                      CountersOwn, Rest
<1>2. ASSUME NEW k \in Key, digest_callback(k) PROVE TableInv'
  BY <1>2, DigestInv
<1>3. CASE clear_counters
  <2>1. BooksTyped' /\ BooksAgree' /\ TablesMatchBooks' /\ T!TablesTypeOK'
    BY <1>3, BooksStay DEF clear_counters, switch, TableInv, T!TablesTypeOK
  <2>2. CountersTyped'
    BY <1>3, HHAssumption DEF clear_counters, CountersTyped
  <2>3. CountersOwn'
    BY <1>3, PartialElim DEF clear_counters, books, TableInv, BooksTyped, CountersOwn
  <2> QED
    BY <1>3, <2>1, <2>2, <2>3 DEF clear_counters, TableInv, Rest
<1>4. ASSUME NEW c \in Copy, NEW k \in Key, expiration_callback(c, k) PROVE TableInv'
  BY <1>4, ExpirationInv
<1>5. ASSUME NEW c \in Copy, NEW k \in Key, LookupHit(c, k) PROVE TableInv'
  BY <1>5, HitInv
<1>6. ASSUME NEW c \in Copy, NEW k \in Key, LookupMiss(c, k) PROVE TableInv'
  <2>1. BooksTyped' /\ BooksAgree' /\ TablesMatchBooks' /\ T!TablesTypeOK'
    BY <1>6, BooksStay DEF LookupMiss, switch, TableInv, T!TablesTypeOK
  <2>2. count_min_sketch' \in [Row -> [Bucket -> 0 .. MaxCount]]
    <3>1. CASE count_min_sketch' = Counted(k)
      <4>1. ASSUME NEW r \in Row
            PROVE  [count_min_sketch[r] EXCEPT ![Hash[k][r]] = @ + 1] \in [Bucket -> 0 .. MaxCount]
        BY <1>6, HHAssumption DEF LookupMiss, TableInv, CountersTyped
      <4> QED
        BY <3>1, <4>1 DEF Counted
    <3>2. CASE UNCHANGED count_min_sketch
      BY <3>2 DEF TableInv, CountersTyped
    <3> QED
      BY <1>6, <3>1, <3>2 DEF LookupMiss
  <2>3. CountersTyped' /\ CountersOwn'
    BY <1>6, <2>2 DEF LookupMiss, books, TableInv, CountersTyped, CountersOwn
  <2>4. Rest'
    BY <1>6 DEF LookupMiss, TableInv, Rest
  <2> QED
    BY <2>1, <2>3, <2>4 DEF TableInv
<1>7. ASSUME NEW c \in Copy, NEW k \in Key, TimeOut(c, k) PROVE TableInv'
  <2>1. /\ idle' = [idle EXCEPT ![c] = idle[c] \cup {k}] /\ entries' = entries
        /\ notified' = notified \cup {<<c, k>>}
        /\ UNCHANGED <<books, expirations_per_key, counters, digests, hits>>
    BY <1>7 DEF TimeOut, T!TimeOut
  <2>2. BooksTyped' /\ BooksAgree' /\ TablesMatchBooks'
    BY <2>1, BooksStay
  <2>3. <<c, k>> \in Copy \X Key
    OBVIOUS
  <2>4. notified' \subseteq Copy \X Key
    BY <2>1, <2>3 DEF TableInv, T!TablesTypeOK
  <2>5. idle' \in [Copy -> SUBSET Key]
    BY <2>1 DEF TableInv, T!TablesTypeOK
  <2>6. T!TablesTypeOK'
    BY <2>1, <2>4, <2>5 DEF TableInv, T!TablesTypeOK
  <2>7. CountersTyped' /\ CountersOwn' /\ Rest'
    BY <2>1 DEF TableInv, books, counters, CountersTyped, CountersOwn, Rest
  <2> QED
    BY <2>2, <2>6, <2>7 DEF TableInv
<1> QED
  BY <1>1, <1>2, <1>3, <1>4, <1>5, <1>6, <1>7 DEF Next

\* The invariant holds always.
LEMMA TableInductive == Spec => []TableInv
  BY TableInitInv, TableNextInv, PTL DEF Spec

\* The variables keep their types, for any keys, capacity, sketch and number
\* of copies.
THEOREM HHTypeCorrect == Spec => []TypeOK
<1>1. TableInv => TypeOK
  BY DEF TableInv, TypeOK, BooksTyped, CountersTyped, Rest, PartialFunctions, PartialFunction
<1> QED BY TableInductive, <1>1, PTL

\* The controller's four books agree: an index is free or belongs to one key.
\* replace keeps this only because it renames the index in both maps, and
\* probabilistic_replace, which probes used indexes by their number, needs it.
THEOREM HHBooksAgree == Spec => []BooksAgree
<1>1. TableInv => BooksAgree BY DEF TableInv
<1> QED BY TableInductive, <1>1, PTL

\* Every copy of the table holds the cached keys with their indexes, however
\* late and however often digests and announcements arrive.
THEOREM HHTablesMatch == Spec => []TablesMatchBooks
<1>1. TableInv => TablesMatchBooks BY DEF TableInv
<1> QED BY TableInductive, <1>1, PTL

\* The counter of an index belongs to its present key: insert and replace
\* reset it.
THEOREM HHCountersOwn == Spec => []CountersOwn
<1>1. TableInv => CountersOwn BY DEF TableInv
<1> QED BY TableInductive, <1>1, PTL

------------------------------------------------------------------------------
(* The key value store on top of the table                                  *)

KvsInv == TableInv /\ KvsTypeOK /\ LatestWhileCached

\* Every step of the store is a step of the table, or leaves it alone.
LEMMA KvsStepIsTableStep == [KvsNext]_kvsVars => [Next]_vars
<1>1. 1 \in Copy
  BY HHAssumption DEF Copy
<1> QED
  BY <1>1 DEF KvsNext, kvsVars, Next, GetHit, PutHit, Miss, Controller

\* The key value store uses the table as HHTable allows: hiding the registers,
\* every behaviour of the store is one of the table, and what is proved of the
\* table holds of the store.
THEOREM KvsImplementsTable == KvsSpec => Spec
<1>1. KvsInit => Init
  BY DEF KvsInit
<1> QED
  BY <1>1, KvsStepIsTableStep, PTL DEF KvsSpec, Spec

\* Taking an index over changes the value of no key that was there and stays.
LEMMA TakeOverKeeps ==
    ASSUME NEW f, NEW old, NEW k, NEW i, NEW x \in DOMAIN f, x # k,
           x \in DOMAIN With(Without(f, old), k, i)
    PROVE  With(Without(f, old), k, i)[x] = f[x]
<1>1. DOMAIN With(Without(f, old), k, i) = DOMAIN Without(f, old) \cup {k}
  BY DEF With
<1>2. x \in DOMAIN Without(f, old)
  BY <1>1
<1>3. Without(f, old)[x] = f[x]
  BY <1>2 DEF Without, Restrict
<1> QED
  BY <1>2, <1>3 DEF With

\* A key that stays cached keeps its index.
LEMMA IndexKept ==
    ASSUME TableInv, Next, NEW x \in DOMAIN key_to_index, x \in DOMAIN key_to_index'
    PROVE  key_to_index'[x] = key_to_index[x]
<1> USE DEF TableInv
<1>1. CASE UNCHANGED books
  BY <1>1 DEF books
<1>2. ASSUME NEW k \in Key, digest_callback(k) PROVE key_to_index'[x] = key_to_index[x]
  <2>1. CASE ~Cached(k) /\ insert(k)
    BY <1>1, <2>1 DEF insert, With, Cached
  <2>2. CASE ~Cached(k) /\ probabilistic_replace(k)
    <3>1. ASSUME NEW i, replace(i, k) PROVE key_to_index'[x] = key_to_index[x]
      <4>1. key_to_index' = With(Without(key_to_index, index_to_key[i]), k, i)
        BY <3>1 DEF replace, TakeOver
      <4>2. x # k
        BY <2>2 DEF Cached
      <4> QED
        BY <4>1, <4>2, TakeOverKeeps
    <3> QED
      BY <1>1, <2>2, <3>1 DEF probabilistic_replace
  <2> QED
    BY <1>1, <1>2, <2>1, <2>2 DEF digest_callback
<1>3. ASSUME NEW k \in Key, remove(k) PROVE key_to_index'[x] = key_to_index[x]
  BY <1>3 DEF remove, Without, Restrict, books
<1>4. ASSUME NEW c \in Copy, NEW k \in Key, expiration_callback(c, k)
      PROVE  key_to_index'[x] = key_to_index[x]
  BY <1>1, <1>3, <1>4 DEF expiration_callback
<1> QED
  BY <1>1, <1>2, <1>4 DEF Next, clear_counters, LookupHit, LookupMiss, TimeOut

\* Before the first packet nothing is cached and nothing was written.
LEMMA KvsInitInv == KvsInit => KvsInv
<1> SUFFICES ASSUME KvsInit PROVE KvsInv
  OBVIOUS
<1>1. TableInv
  BY TableInitInv DEF KvsInit
<1> QED
  BY <1>1 DEF KvsInv, KvsInit, KvsTypeOK, LatestWhileCached, Registers

\* Requests, digests and callbacks keep the last PUT of a cached key in the
\* register of its index.
LEMMA KvsNextInv == KvsInv /\ [KvsNext]_kvsVars => KvsInv'
<1> SUFFICES ASSUME KvsInv, [KvsNext]_kvsVars PROVE KvsInv'
  OBVIOUS
<1>1. TableInv'
  BY TableNextInv, KvsStepIsTableStep DEF KvsInv
<1>2. CASE UNCHANGED <<key_to_index, vector_register, written>>
  BY <1>1, <1>2 DEF KvsInv, KvsTypeOK, LatestWhileCached, Cached
<1>3. ASSUME NEW k \in Key, NEW v, GetHit(k, v) PROVE KvsInv'
  BY <1>2, <1>3 DEF GetHit, LookupHit, books
<1>4. ASSUME NEW k \in Key, Miss(k) PROVE KvsInv'
  BY <1>2, <1>4 DEF Miss, LookupMiss, books
<1>5. ASSUME NEW k \in Key, NEW n \in Version, PutHit(k, n) PROVE KvsInv'
  <2>1. /\ UNCHANGED key_to_index /\ k \in DOMAIN entries[1]
        /\ vector_register' = [vector_register EXCEPT ![entries[1][k]] = <<k, n>>]
        /\ written' = [written EXCEPT ![k] = <<k, n>>]
    BY <1>5 DEF PutHit, WriteRegister, IndexOf, LookupHit, books, T!Hit, T!Holds
  <2>2. entries[1] = key_to_index
    BY HHAssumption DEF KvsInv, TableInv, TablesMatchBooks, Copy
  <2>3. PICK i \in Index : i = key_to_index[k]
    BY <2>1, <2>2, PartialElim DEF KvsInv, TableInv, BooksTyped
  <2>4. KvsTypeOK'
    BY <2>1, <2>2, <2>3 DEF KvsInv, KvsTypeOK, Value
  <2>5. ASSUME NEW x \in Key, written'[x] # None
        PROVE  x \in DOMAIN key_to_index /\ vector_register'[key_to_index[x]] = written'[x]
    <3>1. CASE x = k
      BY <2>1, <2>2, <2>3, <3>1 DEF KvsInv, KvsTypeOK
    <3>2. CASE x # k
      <4>1. x \in DOMAIN key_to_index /\ vector_register[key_to_index[x]] = written[x]
        BY <2>1, <2>5, <3>2 DEF KvsInv, KvsTypeOK, LatestWhileCached, Cached
      <4>2. key_to_index[x] # i
        BY <2>1, <2>2, <2>3, <3>2, <4>1 DEF KvsInv, TableInv, BooksAgree
      <4>3. key_to_index[x] \in Index
        BY <4>1, PartialElim DEF KvsInv, TableInv, BooksTyped
      <4> QED
        BY <2>1, <2>2, <2>3, <3>2, <4>1, <4>2, <4>3 DEF KvsInv, KvsTypeOK
    <3> QED
      BY <3>1, <3>2
  <2> QED
    BY <1>1, <2>1, <2>4, <2>5 DEF KvsInv, LatestWhileCached, Cached
<1>6. CASE Controller
  <2>1. /\ UNCHANGED vector_register
        /\ written' = [x \in Key |->
               IF Cached(x) /\ x \in DOMAIN key_to_index' THEN written[x] ELSE None]
    BY <1>6 DEF Controller
  <2>2. Next
    BY <1>6, HHAssumption DEF Controller, Next, Copy
  <2>3. KvsTypeOK'
    BY <2>1 DEF KvsInv, KvsTypeOK
  <2>4. ASSUME NEW x \in Key, written'[x] # None
        PROVE  x \in DOMAIN key_to_index' /\ vector_register'[key_to_index'[x]] = written'[x]
    <3>1. x \in DOMAIN key_to_index /\ x \in DOMAIN key_to_index' /\ written'[x] = written[x]
      BY <2>1, <2>4 DEF Cached
    <3>2. key_to_index'[x] = key_to_index[x]
      BY <2>2, <3>1, IndexKept DEF KvsInv
    <3> QED
      BY <2>1, <2>4, <3>1, <3>2 DEF KvsInv, LatestWhileCached
  <2> QED
    BY <1>1, <2>3, <2>4 DEF KvsInv, LatestWhileCached, Cached
<1>7. CASE UNCHANGED kvsVars
  BY <1>2, <1>7 DEF kvsVars, vars, books
<1> QED
  BY <1>3, <1>4, <1>5, <1>6, <1>7 DEF KvsNext

\* While a key stays cached, a GET of it finds the value of the last PUT,
\* whatever else is inserted, replaced or removed.
THEOREM KvsLatestWhileCached == KvsSpec => []LatestWhileCached
<1>1. KvsInv => LatestWhileCached
  BY DEF KvsInv
<1> QED
  BY KvsInitInv, KvsNextInv, <1>1, PTL DEF KvsSpec

------------------------------------------------------------------------------
(* The FCFS cached table.  A digest owns its cell because the cell stays    *)
(* alive until the digest is taken, and a cell that is alive is not         *)
(* claimed; two digests of one cell are the same digest.                    *)

FcfsTyped ==
    /\ alive \subseteq Cell
    /\ keys \in [Cell -> Key] /\ values \in [Cell -> Fcfs!Index]
    /\ ctDigests \subseteq Key \X Fcfs!Index

FcfsInv == FcfsTyped /\ TablesMatchCache /\ DigestOwnsCell

\* The cells before the first packet, and the tables as allocated
LEMMA FcfsInitInv == Fcfs!Init => FcfsInv
<1> SUFFICES ASSUME Fcfs!Init PROVE FcfsInv
  OBVIOUS
<1>1. 0 \in Fcfs!Index
  BY CachedTableAssumption DEF Fcfs!FcfsAssumption, Fcfs!Index
<1> QED
  BY <1>1 DEF Fcfs!Init, Fcfs!T!TablesInit, FcfsInv, FcfsTyped, TablesMatchCache,
              Fcfs!TablesMatchCache, DigestOwnsCell, Fcfs!DigestOwnsCell

\* put: every copy gets the entry.
LEMMA FcfsPut ==
    ASSUME TablesMatchCache, NEW k, NEW i, Fcfs!Put(k, i)
    PROVE  TablesMatchCache'
<1> USE DEF TablesMatchCache, Fcfs!TablesMatchCache
<1>1. CASE /\ Fcfs!T!AddOrModEntry(k, i)
           /\ cache' = [x \in DOMAIN cache \cup {k} |-> IF x = k THEN i ELSE cache[x]]
  BY <1>1 DEF Fcfs!T!AddOrModEntry, Fcfs!T!Write
<1>2. CASE UNCHANGED <<cache, ctEntries>>
  BY <1>2
<1> QED
  BY <1>1, <1>2 DEF Fcfs!Put

\* del: every copy loses the entry.
LEMMA FcfsDel ==
    ASSUME TablesMatchCache, NEW k, Fcfs!Del(k)
    PROVE  TablesMatchCache'
<1> USE DEF TablesMatchCache, Fcfs!TablesMatchCache
<1>1. CASE /\ Fcfs!T!DelEntry(k)
           /\ cache' = Fcfs!Restrict(cache, DOMAIN cache \ {k})
  BY <1>1 DEF Fcfs!T!DelEntry, Fcfs!Restrict, Fcfs!T!Restrict
<1>2. CASE UNCHANGED <<cache, ctEntries>>
  BY <1>2
<1> QED
  BY <1>1, <1>2 DEF Fcfs!Del

\* A packet claims the cell of its key.
LEMMA FcfsClaim ==
    ASSUME FcfsTyped, DigestOwnsCell, NEW k \in Key, Fcfs!Claim(k)
    PROVE  FcfsTyped' /\ DigestOwnsCell'
<1> DEFINE cell == CellHash[k]
<1>1. cell \in Cell
  BY CachedTableAssumption DEF Fcfs!FcfsAssumption
<1>2. cell \notin alive /\ alive' = alive \cup {cell} /\ keys' = [keys EXCEPT ![cell] = k]
  BY DEF Fcfs!Claim, Fcfs!Claimable
<1>3. ASSUME NEW d \in ctDigests PROVE CellHash[d[1]] \in alive /\ CellHash[d[1]] # cell
  BY <1>2 DEF DigestOwnsCell, Fcfs!DigestOwnsCell
<1>4. CASE UNCHANGED <<values, ctDigests>>
  BY <1>1, <1>2, <1>3, <1>4 DEF FcfsTyped, DigestOwnsCell, Fcfs!DigestOwnsCell
<1>5. ASSUME NEW i \in Fcfs!Index,
             values' = [values EXCEPT ![cell] = i], ctDigests' = ctDigests \cup {<<k, i>>}
      PROVE  FcfsTyped' /\ DigestOwnsCell'
  <2>1. FcfsTyped'
    BY <1>1, <1>2, <1>5 DEF FcfsTyped
  <2>2. ASSUME NEW d \in ctDigests'
        PROVE  /\ CellHash[d[1]] \in alive' /\ keys'[CellHash[d[1]]] = d[1]
               /\ values'[CellHash[d[1]]] = d[2]
    <3>1. CASE d = <<k, i>>
      BY <1>1, <1>2, <1>5, <3>1 DEF FcfsTyped
    <3>2. CASE d \in ctDigests
      BY <1>2, <1>3, <1>5, <3>2 DEF FcfsTyped, DigestOwnsCell, Fcfs!DigestOwnsCell
    <3> QED
      BY <1>5, <3>1, <3>2
  <2> QED
    BY <2>1, <2>2 DEF DigestOwnsCell, Fcfs!DigestOwnsCell
<1> QED
  BY <1>4, <1>5 DEF Fcfs!Claim

\* The controller takes a digest.
LEMMA FcfsDigest ==
    ASSUME FcfsTyped, DigestOwnsCell, NEW k \in Key, NEW i \in Fcfs!Index,
           Fcfs!digest_callback(k, i)
    PROVE  FcfsTyped' /\ DigestOwnsCell'
<1> USE DEF FcfsTyped, DigestOwnsCell, Fcfs!DigestOwnsCell
<1>1. /\ <<k, i>> \in ctDigests /\ ctDigests' = ctDigests \ {<<k, i>>}
      /\ alive' = alive \ {CellHash[k]} \/ alive' = alive
      /\ UNCHANGED <<keys, values>>
  BY DEF Fcfs!digest_callback
<1>2. keys[CellHash[k]] = k /\ values[CellHash[k]] = i
  BY <1>1
<1>3. ASSUME NEW d \in ctDigests' PROVE CellHash[d[1]] # CellHash[k]
  <2>1. d \in Key \X Fcfs!Index /\ d # <<k, i>> /\ d \in ctDigests
    BY <1>1, <1>3
  <2>2. ~(d[1] = k /\ d[2] = i)
    BY <2>1
  <2> QED
    BY <1>2, <2>1, <2>2
<1> QED
  BY <1>1, <1>3

\* Every step of a packet, the controller or a table keeps the invariant.
LEMMA FcfsNextInv == FcfsInv /\ [Fcfs!Next]_(Fcfs!vars) => FcfsInv'
<1> SUFFICES ASSUME FcfsInv, [Fcfs!Next]_(Fcfs!vars) PROVE FcfsInv'
  OBVIOUS
<1>p. FcfsTyped /\ TablesMatchCache /\ DigestOwnsCell
  BY DEF FcfsInv
<1>t. ASSUME UNCHANGED <<cache, ctEntries>> PROVE TablesMatchCache'
  BY <1>p, <1>t DEF TablesMatchCache, Fcfs!TablesMatchCache
<1>d. ASSUME UNCHANGED <<alive, keys, values, ctDigests>> PROVE FcfsTyped' /\ DigestOwnsCell'
  BY <1>p, <1>d DEF FcfsTyped, DigestOwnsCell, Fcfs!DigestOwnsCell
<1>1. CASE UNCHANGED Fcfs!vars
  BY <1>1, <1>t, <1>d DEF Fcfs!vars, Fcfs!ring, Fcfs!cells, FcfsInv
<1>2. ASSUME NEW k \in Key, Fcfs!Claim(k) PROVE FcfsInv'
  <2>1. UNCHANGED <<cache, ctEntries>>
    BY <1>2 DEF Fcfs!Claim
  <2> QED
    BY <1>2, <1>p, <1>t, <2>1, FcfsClaim DEF FcfsInv
<1>3. ASSUME NEW k \in Key, Fcfs!Collide(k) PROVE FcfsInv'
  BY <1>3, <1>t, <1>d DEF Fcfs!Collide, Fcfs!cells, FcfsInv
<1>4. ASSUME NEW c, NEW k, Fcfs!TableHit(c, k) PROVE FcfsInv'
  BY <1>4, <1>t, <1>d DEF Fcfs!TableHit, Fcfs!T!Hit, Fcfs!cells, FcfsInv
<1>5. ASSUME NEW c, NEW k, Fcfs!TimeOut(c, k) PROVE FcfsInv'
  BY <1>5, <1>t, <1>d DEF Fcfs!TimeOut, Fcfs!T!TimeOut, Fcfs!cells, FcfsInv
<1>6. ASSUME NEW c, NEW k, Fcfs!expiration_callback(c, k) PROVE FcfsInv'
  <2>1. UNCHANGED <<alive, keys, values, ctDigests>>
    BY <1>6 DEF Fcfs!expiration_callback, Fcfs!cells
  <2>2. TablesMatchCache'
    BY <1>6, <1>p, <1>t, FcfsDel DEF Fcfs!expiration_callback
  <2> QED
    BY <1>d, <2>1, <2>2 DEF FcfsInv
<1>7. ASSUME NEW k \in Key, NEW i \in Fcfs!Index, Fcfs!digest_callback(k, i) PROVE FcfsInv'
  <2>1. TablesMatchCache'
    BY <1>7, <1>p, <1>t, FcfsPut DEF Fcfs!digest_callback
  <2> QED
    BY <1>7, <1>p, <2>1, FcfsDigest DEF FcfsInv
<1>8. ASSUME NEW k, NEW i, Fcfs!nf_process(k, i) PROVE FcfsInv'
  <2>1. UNCHANGED <<alive, keys, values, ctDigests>>
    BY <1>8 DEF Fcfs!nf_process, Fcfs!cells
  <2>2. TablesMatchCache'
    BY <1>8, <1>p, <1>t, FcfsPut DEF Fcfs!nf_process
  <2> QED
    BY <1>d, <2>1, <2>2 DEF FcfsInv
<1> QED
  BY <1>1, <1>2, <1>3, <1>4, <1>5, <1>6, <1>7, <1>8 DEF Fcfs!Next

\* The invariant holds always.
LEMMA FcfsInductive == Fcfs!Spec => []FcfsInv
BY FcfsInitInv, FcfsNextInv, PTL DEF Fcfs!Spec

\* Whether keys reach the controller by digests, by packets, twice or late,
\* and whenever they are deleted, both tables hold what the controller
\* believes: for any keys, cells, hash and capacity.
THEOREM FcfsTablesMatch == Fcfs!Spec => []TablesMatchCache
<1>1. FcfsInv => TablesMatchCache BY DEF FcfsInv
<1> QED BY FcfsInductive, <1>1, PTL

\* A digest under way still describes its cell: no packet claims the cell
\* before the controller has taken the digest.
THEOREM FcfsDigestsOwnCells == Fcfs!Spec => []DigestOwnsCell
<1>1. FcfsInv => DigestOwnsCell BY DEF FcfsInv
<1> QED BY FcfsInductive, <1>1, PTL
==============================================================================
