-------------------------- MODULE SwitchProgramProofs --------------------------
(***************************************************************************)
(* Two programs generated for the switch.                                  *)
(*                                                                         *)
(* The firewall, for any number of flows and indexes.  Its steps are steps *)
(* of the map and of the index allocator, each at most one at a time and   *)
(* on tables of their own, so what is proved of a MapTable and of a        *)
(* DchainTable holds of the composition.                                   *)
(*                                                                         *)
(* The key value store with the cuckoo hash table, for any keys, cells,    *)
(* hash functions, packets under way and limits.                           *)
(***************************************************************************)
EXTENDS SwitchFirewall, MCCuckooTable, FiniteSetTheorems, TLAPS

------------------------------------------------------------------------------
(* The firewall                                                             *)

M == INSTANCE SwitchTablesProofs WITH
         Copy <- Side, TableKey <- Flow, TableVal <- Index, expirations_per_key <- mexp,
         entries <- mentries, idle <- midle, notified <- mnotified,
         expirations_per_index <- dexp

\* The two instances of the map count alike.
LEMMA SameCardinality == \A S : M!Cardinality(S) = Map!Cardinality(S)
BY DEF M!Cardinality, Map!Cardinality

\* The map's operations, called in this composition, are steps of a MapTable.
LEMMA MapCalls ==
    /\ \A c \in Side, f \in Flow : Map!Hit(c, f) => M!TableNext
    /\ \A f \in Flow, i \in Index : Map!put(f, i) => M!TableNext
    /\ \A c \in Side, f \in Flow : Map!TimeOut(c, f) => M!TableNext
    /\ \A c \in Side, f \in Flow : Map!expiration_callback(c, f) => M!TableNext
<1>1. ASSUME NEW c \in Side, NEW f \in Flow, Map!Hit(c, f) PROVE M!TableNext
  <2>1. M!Hit(c, f)
    BY <1>1 DEF Map!Hit, M!Hit, Map!T!Hit, M!T!Hit, Map!T!Holds, M!T!Holds
  <2> QED
    BY <2>1 DEF M!TableNext
<1>2. ASSUME NEW f \in Flow, NEW i \in Index, Map!put(f, i) PROVE M!TableNext
  <2>1. M!put(f, i)
    BY <1>2, SameCardinality
       DEF Map!put, M!put, Map!Full, M!Full, Map!GuardAfterPut, M!GuardAfterPut,
                Map!T!AddOrModEntry, M!T!AddOrModEntry, Map!T!Write, M!T!Write
  <2> QED
    BY <2>1 DEF M!TableNext
<1>3. ASSUME NEW c \in Side, NEW f \in Flow, Map!TimeOut(c, f) PROVE M!TableNext
  <2>1. M!TimeOut(c, f)
    BY <1>3 DEF Map!TimeOut, M!TimeOut, Map!T!TimeOut, M!T!TimeOut, Map!T!Holds, M!T!Holds
  <2> QED
    BY <2>1 DEF M!TableNext
<1>4. ASSUME NEW c \in Side, NEW f \in Flow, Map!expiration_callback(c, f) PROVE M!TableNext
  <2>1. M!expiration_callback(c, f)
    BY <1>4 DEF Map!expiration_callback, M!expiration_callback, Map!T!Take, M!T!Take,
                Map!AllExpired, M!AllExpired, Map!Record, M!Record, Map!Remove, M!Remove,
                Map!Present, M!Present, Map!T!DelEntry, M!T!DelEntry, Map!T!Holds, M!T!Holds,
                Map!T!Restrict, M!T!Restrict, Map!Restrict, M!Restrict
  <2> QED
    BY <2>1 DEF M!TableNext
<1> QED
  BY <1>1, <1>2, <1>3, <1>4

\* The index allocator's operations are steps of a DchainTable.
LEMMA ChainCalls ==
    /\ \A c \in Side : \A i : M!ChainInv /\ Chain!Hit(c, i) => M!Chain!Next
    /\ \A i \in Index : Chain!allocate_new_index(i) => M!Chain!Next
    /\ \A c \in Side, i \in Index : Chain!TimeOut(c, i) => M!Chain!Next
    /\ \A c \in Side, i \in Index : Chain!expiration_callback(c, i) => M!Chain!Next
<1>0. M!Chain!Index = Index
  BY DEF M!Chain!Index, Index
<1>1. ASSUME NEW c \in Side, NEW i, Chain!Hit(c, i), M!ChainInv PROVE M!Chain!Next
  <2>1. M!Chain!Hit(c, i)
    BY <1>1 DEF Chain!Hit, M!Chain!Hit, Chain!T!Hit, M!Chain!T!Hit, Chain!T!Holds, M!Chain!T!Holds
  <2>2. i \in Index
    BY <1>0, <1>1 DEF M!ChainInv, M!Chain!TablesMatchFree, Chain!Hit, Chain!T!Hit, Chain!T!Holds
  <2> QED
    BY <1>0, <2>1, <2>2 DEF M!Chain!Next
<1>2. ASSUME NEW i \in Index, Chain!allocate_new_index(i) PROVE M!Chain!Next
  <2>1. M!Chain!allocate_new_index(i)
    BY <1>2 DEF Chain!allocate_new_index, M!Chain!allocate_new_index, Chain!T!AddEntry, M!Chain!T!AddEntry,
                Chain!T!Write, M!Chain!T!Write, Chain!T!Holds, M!Chain!T!Holds
  <2> QED
    BY <1>0, <2>1 DEF M!Chain!Next
<1>3. ASSUME NEW c \in Side, NEW i \in Index, Chain!TimeOut(c, i) PROVE M!Chain!Next
  <2>1. M!Chain!TimeOut(c, i)
    BY <1>3 DEF Chain!TimeOut, M!Chain!TimeOut, Chain!T!TimeOut, M!Chain!T!TimeOut, Chain!T!Holds, M!Chain!T!Holds
  <2> QED
    BY <1>0, <2>1 DEF M!Chain!Next
<1>4. ASSUME NEW c \in Side, NEW i \in Index, Chain!expiration_callback(c, i) PROVE M!Chain!Next
  <2>1. M!Chain!expiration_callback(c, i)
    BY <1>4 DEF Chain!expiration_callback, M!Chain!expiration_callback, Chain!T!Take, M!Chain!T!Take,
                Chain!AllExpired, M!Chain!AllExpired, Chain!Record, M!Chain!Record,
                Chain!Release, M!Chain!Release, Chain!is_index_allocated, M!Chain!is_index_allocated,
                Chain!T!DelEntry, M!Chain!T!DelEntry, Chain!T!Holds, M!Chain!T!Holds,
                Chain!T!Restrict, M!Chain!T!Restrict
  <2> QED
    BY <1>0, <2>1 DEF M!Chain!Next
<1> QED
  BY <1>1, <1>2, <1>3, <1>4

\* The two structures keep the invariants proved of each of them alone.
BothInv == M!MapInv /\ M!ChainInv

\* At the start both structures' invariants hold.
LEMMA BothInit == Init => BothInv
<1> SUFFICES ASSUME Init PROVE BothInv
  OBVIOUS
<1>1. M!TableInit
  BY DEF Init, Map!TableInit, M!TableInit, Map!T!TablesInit, M!T!TablesInit
<1>2. M!Chain!Init
  BY DEF Init, Chain!Init, M!Chain!Init, Chain!T!TablesInit, M!Chain!T!TablesInit, Chain!Index, M!Chain!Index,
         Chain!AllIndexes, M!Chain!AllIndexes
<1>3. Side # {} /\ capacity \in Nat \ {0} /\ capacity \in Nat
  BY SwitchAssumption DEF Side
<1>4. M!MapInv
  BY <1>1, <1>3, M!MapInitInv DEF M!TableAssumption
<1>5. M!ChainInv
  BY <1>2, <1>3, M!ChainInitInv
<1> QED
  BY <1>4, <1>5 DEF BothInv

\* Every step is a step of the map or leaves it alone, and the same of the
\* index allocator.
LEMMA BothStep ==
    ASSUME BothInv, [Next]_vars
    PROVE  [M!TableNext]_(M!tableVars) /\ [M!Chain!Next]_(M!Chain!vars)
<1>m. ASSUME UNCHANGED map PROVE UNCHANGED M!tableVars
  BY <1>m DEF map, M!tableVars
<1>c. ASSUME UNCHANGED chain PROVE UNCHANGED M!Chain!vars
  BY <1>c DEF chain, M!Chain!vars
<1>1. CASE UNCHANGED <<map, chain>>
  BY <1>1, <1>m, <1>c
<1>2. ASSUME NEW side \in Side, NEW f \in Flow, Lookup(side, f)
      PROVE  [M!TableNext]_(M!tableVars) /\ [M!Chain!Next]_(M!Chain!vars)
  BY <1>2, <1>c, MapCalls, ChainCalls DEF Lookup, BothInv
<1>3. ASSUME NEW f \in Flow, Track(f)
      PROVE  [M!TableNext]_(M!tableVars) /\ [M!Chain!Next]_(M!Chain!vars)
  <2>1. PICK i \in free_indexes :
            /\ Chain!allocate_new_index(i)
            /\ Map!put(f, i) \/ UNCHANGED map
    BY <1>3 DEF Track, Map!PutRefused, Map!tableVars, map
  <2>2. i \in Index
    BY DEF BothInv, M!ChainInv, M!Chain!TypeOK, M!Chain!Index, Index
  <2>3. M!Chain!Next
    BY <2>1, <2>2, ChainCalls
  <2>4. CASE Map!put(f, i)
    BY <2>2, <2>3, <2>4, MapCalls
  <2>5. CASE UNCHANGED map
    BY <2>3, <2>5, <1>m
  <2> QED
    BY <2>1, <2>4, <2>5
<1>4. ASSUME NEW c \in Side, NEW f \in Flow, MapAges(c, f)
      PROVE  [M!TableNext]_(M!tableVars) /\ [M!Chain!Next]_(M!Chain!vars)
  BY <1>4, <1>c, MapCalls DEF MapAges
<1>5. ASSUME NEW c \in Side, NEW i \in Index, ChainAges(c, i)
      PROVE  [M!TableNext]_(M!tableVars) /\ [M!Chain!Next]_(M!Chain!vars)
  BY <1>5, <1>m, ChainCalls DEF ChainAges
<1> QED
  BY <1>1, <1>2, <1>3, <1>4, <1>5
     DEF Next, vars, SendToController, Drop, Reexecute, Abort, Untracked

\* Every step keeps both structures' invariants, by what is proved of each.
LEMMA BothNext == BothInv /\ [Next]_vars => BothInv'
<1> SUFFICES ASSUME BothInv, [Next]_vars PROVE BothInv'
  OBVIOUS
<1>1. [M!TableNext]_(M!tableVars) /\ [M!Chain!Next]_(M!Chain!vars)
  BY BothStep
<1>2. Side # {} /\ capacity \in Nat \ {0} /\ capacity \in Nat
  BY SwitchAssumption DEF Side
<1>3. M!MapInv'
  BY <1>1, <1>2, M!MapNextInv DEF BothInv
<1>4. M!ChainInv'
  BY <1>1, <1>2, M!ChainNextInv DEF BothInv
<1> QED
  BY <1>3, <1>4 DEF BothInv

\* After every transaction, aborted ones included, the controller's books and
\* the tables of both structures agree.
THEOREM SwitchBooksMatchTables == Spec => []BooksMatchTables
<1>1. BothInv => BooksMatchTables
  BY DEF BothInv, M!MapInv, M!ChainInv, BooksMatchTables, Map!TablesMatchCache, M!TablesMatchCache,
         Chain!TablesMatchFree, M!Chain!TablesMatchFree, Chain!Index, M!Chain!Index
<1> QED
  BY BothInit, BothNext, <1>1, PTL DEF Spec

------------------------------------------------------------------------------
(* One keyed index for a flow                                               *)

IndexInv ==
    /\ owner \in [Index -> Flow \cup {None}]
    /\ OneKeyedIndex

\* A step that gives no index and no key keeps the indexes with their keys:
\* those that lose an owner are freed, or the owner's key expires.
LEMMA IndexKept ==
    ASSUME IndexInv, Histories(owner, keyless),
           \A f \in DOMAIN cache' : f \in DOMAIN cache /\ cache'[f] = cache[f]
    PROVE  IndexInv'
<1>1. owner' \in [Index -> Flow \cup {None}]
  BY DEF IndexInv, Histories
<1>2. ASSUME NEW i \in Index, owner'[i] # None, i \notin keyless'
      PROVE  owner'[i] \in DOMAIN cache' /\ cache'[owner'[i]] = i
  <2>1. /\ owner'[i] = owner[i] /\ i \notin free_indexes'
        /\ owner[i] \notin DOMAIN cache \ DOMAIN cache'
    BY <1>2 DEF IndexInv, Histories
  <2>2. owner[i] \in DOMAIN cache /\ cache[owner[i]] = i
    BY <1>2, <2>1 DEF IndexInv, OneKeyedIndex, Histories
  <2> QED
    BY <2>1, <2>2
<1> QED
  BY <1>1, <1>2 DEF IndexInv, OneKeyedIndex

\* A flow that gets an index gets a key with it, or is refused one: the keys
\* of the others stay, and what it held before it holds without a key.
LEMMA IndexGiven ==
    ASSUME IndexInv, NEW f \in Flow, Track(f)
    PROVE  IndexInv'
<1>1. PICK i \in free_indexes :
          /\ Chain!allocate_new_index(i)
          /\ \/ Map!put(f, i) /\ Histories([owner EXCEPT ![i] = f], keyless)
             \/ Map!PutRefused /\ Histories([owner EXCEPT ![i] = f], keyless \cup {i})
  BY DEF Track
<1>2. f \notin DOMAIN cache
  BY DEF Track, StillUnknown, Map!Present
<1>3. owner' \in [Index -> Flow \cup {None}]
  BY <1>1 DEF IndexInv, Histories
<1>4. i \notin free_indexes'
  BY <1>1 DEF Chain!allocate_new_index
<1>5. CASE Map!put(f, i) /\ Histories([owner EXCEPT ![i] = f], keyless)
  <2>1. /\ DOMAIN cache' = DOMAIN cache \cup {f}
        /\ cache'[f] = i
        /\ \A g \in DOMAIN cache : cache'[g] = cache[g]
    BY <1>2, <1>5 DEF Map!put
  <2>2. ASSUME NEW j \in Index, owner'[j] # None, j \notin keyless'
        PROVE  owner'[j] \in DOMAIN cache' /\ cache'[owner'[j]] = j
    <3>1. CASE j = i
      BY <1>4, <1>5, <2>1, <2>2, <3>1 DEF IndexInv, Histories
    <3>2. CASE j # i
      <4>1. owner'[j] = owner[j] /\ j \notin keyless
        BY <1>5, <2>2, <3>2 DEF IndexInv, Histories
      <4> QED
        BY <2>1, <2>2, <4>1 DEF IndexInv, OneKeyedIndex
    <3> QED
      BY <3>1, <3>2
  <2> QED
    BY <1>3, <2>2 DEF IndexInv, OneKeyedIndex
<1>6. CASE Map!PutRefused /\ Histories([owner EXCEPT ![i] = f], keyless \cup {i})
  <2>1. cache' = cache
    BY <1>6 DEF Map!PutRefused, Map!tableVars
  <2>2. ASSUME NEW j \in Index, owner'[j] # None, j \notin keyless'
        PROVE  owner'[j] \in DOMAIN cache /\ cache[owner'[j]] = j
    <3>1. j # i
      BY <1>4, <1>6, <2>2 DEF Histories
    <3>2. owner'[j] = owner[j] /\ j \notin keyless
      BY <1>6, <2>2, <3>1 DEF IndexInv, Histories
    <3> QED
      BY <2>2, <3>2 DEF IndexInv, OneKeyedIndex
  <2> QED
    BY <1>3, <2>1, <2>2 DEF IndexInv, OneKeyedIndex
<1> QED
  BY <1>1, <1>5, <1>6

\* Every step keeps each index with its key: only a flow the controller finds
\* unknown is given one.
LEMMA IndexNext == IndexInv /\ [Next]_vars => IndexInv'
<1> SUFFICES ASSUME IndexInv, [Next]_vars PROVE IndexInv'
  OBVIOUS
<1>1. CASE UNCHANGED <<cache, owner, keyless>>
  BY <1>1 DEF IndexInv, OneKeyedIndex
<1>2. CASE UNCHANGED cache /\ Histories(owner, keyless)
  BY <1>2, IndexKept
<1>3. ASSUME NEW c \in Side, NEW f \in Flow, MapAges(c, f) PROVE IndexInv'
  <2>1. \A g \in DOMAIN cache' : g \in DOMAIN cache /\ cache'[g] = cache[g]
    BY <1>3 DEF MapAges, Map!TimeOut, Map!expiration_callback, Map!Remove, Map!Restrict
  <2> QED
    BY <1>3, <2>1, IndexKept DEF MapAges
<1> QED
  BY <1>1, <1>2, <1>3, IndexGiven
     DEF Next, vars, map, history, Lookup, Map!Hit, SendToController, Drop, Reexecute, Abort,
         Untracked, ChainAges

\* However many packets of a new flow are under way to the controller, the
\* flow has one index that came with a key, the one the map answers, until key
\* or index expires: the controller checks again that the flow is unknown.
\* Whatever else it holds was taken while the map was full.
THEOREM SwitchOneKeyedIndex == Spec => []OneKeyedIndex
<1>1. Init => IndexInv
  BY DEF Init, IndexInv, OneKeyedIndex
<1>2. IndexInv => OneKeyedIndex
  BY DEF IndexInv
<1> QED
  BY <1>1, <1>2, IndexNext, PTL DEF Spec

------------------------------------------------------------------------------
(* The cuckoo hash table.  A packet under way moves an entry or it does     *)
(* not; a cell's counters differ by the packets that do, until a counter    *)
(* saturates, a PUT gives up or a packet is lost.                           *)

\* Cells of the tables: a key's own value, and no time stamp where no key is
Slots ==
    { s \in [key : Key \cup {0}, val : Key \cup {0}, ts : 0 .. MaxTime] :
        s.val = s.key /\ (s.key = 0 => s.ts = 0) }

Headers ==
    { h \in [op : {"LOOKUP", "UPDATE", "INSERT", "SWAP"}, recirc_cntr : Nat,
             key : Key, val : Key \cup {0}, ts : 0 .. MaxTime] :
        h.op # "LOOKUP" => h.val = h.key }

Counters == [BloomCell -> 0 .. MaxCount]

CuckooTyped ==
    /\ table1 \in [Place -> Slots] /\ table2 \in [Place -> Slots]
    /\ swap \in Counters /\ swapped \in Counters
    /\ pkt \in [Packet -> Headers \cup {Cuckoo!NoPacket}]
    /\ time \in Timeout + 1 .. MaxTime
    /\ lost \in [BloomCell -> Nat]

CuckooInv == CuckooTyped /\ WaitedFor /\ MovesSeen

\* The header carries an entry of cell c.
Carries(h, c) == h.op \in {"INSERT", "SWAP"} /\ BloomHash[h.key] = c

Moving(c) == Cardinality(Cuckoo!Carriers(c))

\* The assumptions, one by one
LEMMA CuckooSizes ==
    /\ IsFiniteSet(Packet)
    /\ Hash1 \in [Key -> Place] /\ Hash2 \in [Key -> Place] /\ BloomHash \in [Key -> BloomCell]
    /\ 0 \notin Key /\ MaxLoops \in Nat \ {0} /\ MaxCount \in Nat
    /\ Timeout \in Nat /\ MaxTime \in Nat /\ Wrap \in Nat
    /\ MaxTime < Wrap /\ Timeout + 1 <= MaxTime
BY CuckooConstants DEF Cuckoo!CuckooAssumption, Cuckoo!IsFiniteSet, IsFiniteSet

LEMMA CuckooCounts == \A set : Cuckoo!Cardinality(set) = Cardinality(set)
BY DEF Cuckoo!Cardinality, Cardinality

\* A place without a packet is no header.
LEMMA NoHeader == Cuckoo!NoPacket.op = "NONE" /\ Cuckoo!NoPacket \notin Headers
BY DEF Cuckoo!NoPacket, Headers

\* The carriers of a cell are the packets under way whose header says so.
LEMMA CarriersAre ==
    ASSUME pkt \in [Packet -> Headers \cup {Cuckoo!NoPacket}], NEW c
    PROVE  Cuckoo!Carriers(c) = { p \in Packet : Carries(pkt[p], c) }
<1>1. \A p \in Packet : Carries(pkt[p], c) => pkt[p] # Cuckoo!NoPacket
  BY NoHeader DEF Carries
<1> QED
  BY <1>1 DEF Cuckoo!Carriers, Cuckoo!UnderWay, Carries

\* One packet's header changes: the count of carriers follows.
LEMMA MovingChanges ==
    ASSUME pkt \in [Packet -> Headers \cup {Cuckoo!NoPacket}],
           NEW p \in Packet, NEW h \in Headers \cup {Cuckoo!NoPacket},
           pkt' = [pkt EXCEPT ![p] = h], NEW c
    PROVE  /\ Moving(c) \in Nat /\ Moving(c)' \in Nat
           /\ (Carries(pkt[p], c) <=> Carries(h, c)) => Moving(c)' = Moving(c)
           /\ Carries(pkt[p], c) /\ ~Carries(h, c) => Moving(c)' = Moving(c) - 1
           /\ ~Carries(pkt[p], c) /\ Carries(h, c) => Moving(c)' = Moving(c) + 1
<1> DEFINE old == { q \in Packet : Carries(pkt[q], c) }
           new == { q \in Packet : Carries(pkt'[q], c) }
<1>1. pkt' \in [Packet -> Headers \cup {Cuckoo!NoPacket}]
  OBVIOUS
<1>2. Cuckoo!Carriers(c) = old
  BY CarriersAre
<1>3. Cuckoo!Carriers(c)' = new
  <2>1. \A q \in Packet : Carries(pkt'[q], c) => pkt'[q] # Cuckoo!NoPacket
    BY NoHeader DEF Carries
  <2> QED
    BY <2>1 DEF Cuckoo!Carriers, Cuckoo!UnderWay, Carries
<1>4. IsFiniteSet(old) /\ IsFiniteSet(new)
  <2>1. old \subseteq Packet /\ new \subseteq Packet
    OBVIOUS
  <2> HIDE DEF old, new
  <2> QED
    BY <2>1, CuckooSizes, FS_Subset
<1>5. /\ \A q \in Packet : q \in old <=> Carries(pkt[q], c)
      /\ \A q \in Packet : q \in new <=> (IF q = p THEN Carries(h, c) ELSE Carries(pkt[q], c))
      /\ old \subseteq Packet /\ new \subseteq Packet
  OBVIOUS
<1> HIDE DEF old, new
<1>6. Cardinality(old) \in Nat /\ Cardinality(new) \in Nat
  BY <1>4, FS_CardinalityType
<1>7. Moving(c) = Cardinality(old) /\ Moving(c)' = Cardinality(new)
  BY <1>2, <1>3 DEF Moving
<1>8. CASE Carries(pkt[p], c) <=> Carries(h, c)
  <2>1. old = new
    BY <1>5, <1>8
  <2> QED
    BY <1>6, <1>7, <1>8, <2>1
<1>9. CASE Carries(pkt[p], c) /\ ~Carries(h, c)
  <2>1. new = old \ {p} /\ p \in old
    BY <1>5, <1>9
  <2> QED
    BY <1>4, <1>6, <1>7, <1>9, <2>1, FS_RemoveElement
<1>10. CASE ~Carries(pkt[p], c) /\ Carries(h, c)
  <2>1. new = old \cup {p} /\ p \notin old
    BY <1>5, <1>10
  <2> QED
    BY <1>4, <1>6, <1>7, <1>10, <2>1, FS_AddElement
<1> QED
  BY <1>8, <1>9, <1>10, <1>6, <1>7

\* A counter counts up to where it saturates.
LEMMA IncFacts ==
    ASSUME NEW r \in Counters, NEW c \in BloomCell
    PROVE  /\ Cuckoo!Inc(r, c) \in Counters
           /\ Cuckoo!Inc(r, c)[c] = IF r[c] < MaxCount THEN r[c] + 1 ELSE MaxCount
           /\ \A x \in BloomCell \ {c} : Cuckoo!Inc(r, c)[x] = r[x]
BY CuckooSizes DEF Cuckoo!Inc, Counters

\* What WaitedFor and MovesSeen say of one cell
WaitsEnd(c) == swap[c] <= swapped[c] + Moving(c) + lost[c]
Seen(c) == c \notin gaveUp /\ swap[c] < MaxCount => swapped[c] + Moving(c) <= swap[c]

LEMMA CellWise == WaitedFor /\ MovesSeen <=> \A c \in BloomCell : WaitsEnd(c) /\ Seen(c)
BY CuckooCounts
   DEF WaitedFor, MovesSeen, Cuckoo!WaitedFor, Cuckoo!MovesSeen, WaitsEnd, Seen, Moving

\* A packet that carries nothing, before and after, leaves the counts alone; it
\* may count a move as ended if its PUT gives up.
LEMMA NothingMoves ==
    ASSUME CuckooTyped, WaitedFor, MovesSeen,
           NEW p \in Packet, NEW h \in Headers \cup {Cuckoo!NoPacket},
           pkt' = [pkt EXCEPT ![p] = h],
           \A c : ~Carries(pkt[p], c) /\ ~Carries(h, c),
           UNCHANGED <<swap, swapped, lost, gaveUp>>
    PROVE  WaitedFor' /\ MovesSeen'
<1>1. \A c \in BloomCell : Moving(c)' = Moving(c)
  BY MovingChanges DEF CuckooTyped
<1>2. \A c \in BloomCell : WaitsEnd(c)' /\ Seen(c)'
  BY <1>1, CellWise DEF WaitsEnd, Seen
<1>3. WaitedFor' /\ MovesSeen' <=> \A c \in BloomCell : WaitsEnd(c)' /\ Seen(c)'
  BY CuckooCounts
     DEF WaitedFor, MovesSeen, Cuckoo!WaitedFor, Cuckoo!MovesSeen, WaitsEnd, Seen, Moving
<1> QED
  BY <1>2, <1>3
\* What has to hold of the counts after a step
LEMMA CellWiseNext ==
    WaitedFor' /\ MovesSeen' <=> \A c \in BloomCell : WaitsEnd(c)' /\ Seen(c)'
BY CuckooCounts
   DEF WaitedFor, MovesSeen, Cuckoo!WaitedFor, Cuckoo!MovesSeen, WaitsEnd, Seen, Moving

\* Registers after a look-up hold a key with its own value, as before.
LEMMA RefreshedSlot ==
    ASSUME NEW h \in Headers, NEW s \in Slots
    PROVE  Cuckoo!Refreshed(h, s) \in Slots
<1>1. s \in [key : Key \cup {0}, val : Key \cup {0}, ts : 0 .. MaxTime]
      /\ s.val = s.key /\ (s.key = 0 => s.ts = 0)
  BY DEF Slots
<1>2. h.key \in Key /\ h.ts \in 0 .. MaxTime /\ (h.op = "UPDATE" => h.val = h.key)
  BY DEF Headers
<1>3. CASE Cuckoo!Hit(h, s) /\ h.op = "UPDATE"
  <2>1. Cuckoo!Refreshed(h, s) = [s EXCEPT !.ts = h.ts, !.val = h.val] /\ s.key = h.key
    BY <1>3 DEF Cuckoo!Refreshed, Cuckoo!Hit, Cuckoo!Match
  <2> QED
    BY <1>1, <1>2, <1>3, <2>1, CuckooSizes DEF Slots
<1>4. CASE Cuckoo!Hit(h, s) /\ h.op # "UPDATE"
  <2>1. Cuckoo!Refreshed(h, s) = [s EXCEPT !.ts = h.ts, !.val = s.val] /\ s.key = h.key
    BY <1>4 DEF Cuckoo!Refreshed, Cuckoo!Hit, Cuckoo!Match
  <2> QED
    BY <1>1, <1>2, <2>1, CuckooSizes DEF Slots
<1>5. CASE ~Cuckoo!Hit(h, s)
  <2>1. Cuckoo!Refreshed(h, s) \in {s, [s EXCEPT !.ts = 0]}
    BY <1>5 DEF Cuckoo!Refreshed
  <2>2. 0 \in 0 .. MaxTime
    BY CuckooSizes
  <2> QED
    BY <1>1, <2>1, <2>2 DEF Slots
<1> QED
  BY <1>3, <1>4, <1>5

LEMMA ProbeTyped ==
    ASSUME table1 \in [Place -> Slots], table2 \in [Place -> Slots],
           NEW h \in Headers, Cuckoo!Probe(h)
    PROVE  table1' \in [Place -> Slots] /\ table2' \in [Place -> Slots]
<1>1. h.key \in Key
  BY DEF Headers
<1>2. Hash1[h.key] \in Place /\ Hash2[h.key] \in Place
  BY <1>1, CuckooSizes
<1> QED
  BY <1>2, RefreshedSlot DEF Cuckoo!Probe

\* A header that goes around once more
LEMMA OnceMore ==
    ASSUME NEW h \in Headers, NEW new, new = [h EXCEPT !.recirc_cntr = @ + 1]
    PROVE  new \in Headers /\ new.op = h.op /\ new.key = h.key
BY DEF Headers

\* A look-up, a PUT that waits or gives up, and one that becomes an insertion:
\* that begins when its cell is stable, so nothing of the cell is on the move.
LEMMA LookKeeps ==
    ASSUME CuckooInv, NEW p \in Packet, Cuckoo!Look(p)
    PROVE  CuckooInv'
<1> DEFINE h == pkt[p]
           b == BloomHash[h.key]
<1>1. /\ table1 \in [Place -> Slots] /\ table2 \in [Place -> Slots]
      /\ swap \in Counters /\ swapped \in Counters
      /\ pkt \in [Packet -> Headers \cup {Cuckoo!NoPacket}]
      /\ time \in Timeout + 1 .. MaxTime
      /\ lost \in [BloomCell -> Nat]
      /\ WaitedFor /\ MovesSeen
  BY DEF CuckooInv, CuckooTyped
<1>2. /\ h \in Headers /\ h.op \in {"LOOKUP", "UPDATE"}
      /\ Cuckoo!Probe(h) /\ UNCHANGED <<time, lost>>
  BY <1>1 DEF Cuckoo!Look, Cuckoo!UnderWay
<1>3. table1' \in [Place -> Slots] /\ table2' \in [Place -> Slots]
  BY <1>1, <1>2, ProbeTyped
<1>4. h.key \in Key /\ b \in BloomCell
  BY <1>2, CuckooSizes DEF Headers
<1>5. \A c : ~Carries(h, c) /\ ~Carries(Cuckoo!NoPacket, c)
  BY <1>2, NoHeader DEF Carries
<1>6. ASSUME NEW new \in Headers \cup {Cuckoo!NoPacket}, pkt' = [pkt EXCEPT ![p] = new],
             swap' \in Counters, swapped' \in Counters
      PROVE  CuckooTyped'
  BY <1>1, <1>2, <1>3, <1>6 DEF CuckooTyped
<1>7. ASSUME NEW new \in Headers \cup {Cuckoo!NoPacket}, pkt' = [pkt EXCEPT ![p] = new],
             \A c : ~Carries(new, c), UNCHANGED <<swap, swapped, gaveUp>>
      PROVE  CuckooInv'
  <2>1. CuckooTyped'
    BY <1>1, <1>6, <1>7
  <2>2. WaitedFor' /\ MovesSeen'
    BY <1>1, <1>2, <1>5, <1>7, NothingMoves DEF CuckooInv
  <2> QED
    BY <2>1, <2>2 DEF CuckooInv
<1>8. ASSUME Cuckoo!Leave(p), UNCHANGED <<swap, swapped, gaveUp>>
      PROVE  CuckooInv'
  BY <1>5, <1>7, <1>8 DEF Cuckoo!Leave
<1>9. ASSUME Cuckoo!Recirculate(p, h), UNCHANGED <<swap, swapped, gaveUp>>
      PROVE  CuckooInv'
  <2> DEFINE new == [h EXCEPT !.recirc_cntr = @ + 1]
  <2>1. new \in Headers /\ new.op = h.op
    BY <1>2, OnceMore
  <2>2. pkt' = [pkt EXCEPT ![p] = new]
    BY <1>9 DEF Cuckoo!Recirculate
  <2> HIDE DEF new, h
  <2>3. \A c : ~Carries(new, c)
    BY <1>2, <2>1 DEF Carries
  <2> QED
    BY <1>7, <1>9, <2>1, <2>2, <2>3
<1>10. CASE Cuckoo!PassGiveUp(p)
  <2>1. /\ pkt' = [pkt EXCEPT ![p] = Cuckoo!NoPacket]
        /\ swapped' = Cuckoo!Inc(swapped, b)
        /\ gaveUp' = gaveUp \cup {b} /\ swap' = swap
    BY <1>10 DEF Cuckoo!PassGiveUp, Cuckoo!Leave
  <2>2. /\ swapped' \in Counters /\ swapped'[b] >= swapped[b]
        /\ \A x \in BloomCell \ {b} : swapped'[x] = swapped[x]
    <3>1. /\ Cuckoo!Inc(swapped, b) \in Counters
          /\ Cuckoo!Inc(swapped, b)[b]
               = IF swapped[b] < MaxCount THEN swapped[b] + 1 ELSE MaxCount
          /\ \A x \in BloomCell \ {b} : Cuckoo!Inc(swapped, b)[x] = swapped[x]
      BY <1>1, <1>4, IncFacts
    <3>2. swapped[b] \in 0 .. MaxCount
      BY <1>1, <1>4 DEF Counters
    <3> HIDE DEF b
    <3> QED
      BY <2>1, <3>1, <3>2, CuckooSizes
  <2>3. \A c \in BloomCell : Moving(c)' = Moving(c) /\ Moving(c) \in Nat
    BY <1>1, <1>5, <2>1, MovingChanges
  <2>4. \A c \in BloomCell : WaitsEnd(c) /\ Seen(c)
    BY <1>1, CellWise
  <2>5. \A c \in BloomCell : swap[c] \in Int /\ swapped[c] \in Int /\ swapped'[c] \in Int
                             /\ lost[c] \in Int /\ Moving(c) \in Int
    BY <1>1, <2>2, <2>3 DEF Counters
  <2>6. \A c \in BloomCell : WaitsEnd(c)' /\ Seen(c)'
    <3> SUFFICES ASSUME NEW c \in BloomCell PROVE WaitsEnd(c)' /\ Seen(c)'
      OBVIOUS
    <3> HIDE DEF b
    <3>1. swapped'[c] >= swapped[c] /\ (c # b => swapped'[c] = swapped[c])
      BY <2>2, <2>5
    <3>2. WaitsEnd(c)'
      BY <1>2, <2>1, <2>3, <2>4, <2>5, <3>1 DEF WaitsEnd
    <3>3. Seen(c)'
      BY <2>1, <2>3, <2>4, <3>1 DEF Seen
    <3> QED
      BY <3>2, <3>3
  <2>7. CuckooTyped'
    BY <1>1, <1>6, <2>1, <2>2
  <2> QED
    BY <2>6, <2>7, CellWiseNext DEF CuckooInv
<1>11. CASE /\ Cuckoo!Stable(b)
            /\ swap' = [swap EXCEPT ![b] = Cuckoo!Inc(swapped, b)[b]]
            /\ Cuckoo!Recirculate(p, [h EXCEPT !.op = "INSERT", !.recirc_cntr = 0])
            /\ h.op = "UPDATE"
            /\ UNCHANGED <<swapped, gaveUp>>
  <2> DEFINE insert == [h EXCEPT !.op = "INSERT", !.recirc_cntr = 0]
             new == [insert EXCEPT !.recirc_cntr = @ + 1]
  <2>1. insert \in Headers /\ insert.op = "INSERT" /\ insert.key = h.key
    BY <1>2, <1>11 DEF Headers
  <2> HIDE DEF insert
  <2>2. new \in Headers /\ new.op = "INSERT" /\ new.key = h.key
    BY <2>1, OnceMore
  <2>3. pkt' = [pkt EXCEPT ![p] = new]
    BY <1>11 DEF Cuckoo!Recirculate, insert
  <2> HIDE DEF new
  <2>4. \A c : Carries(new, c) <=> c = b
    BY <2>2 DEF Carries
  <2>5. /\ Cuckoo!Inc(swapped, b)[b]
             = IF swapped[b] < MaxCount THEN swapped[b] + 1 ELSE MaxCount
        /\ Cuckoo!Inc(swapped, b)[b] \in 0 .. MaxCount
    BY <1>1, <1>4, IncFacts DEF Counters
  <2>6. /\ swap' \in Counters
        /\ swap'[b] = IF swapped[b] < MaxCount THEN swapped[b] + 1 ELSE MaxCount
        /\ \A x \in BloomCell \ {b} : swap'[x] = swap[x]
    BY <1>1, <1>4, <1>11, <2>5 DEF Counters
  <2>7. \A c \in BloomCell : /\ Moving(c) \in Nat
                             /\ Moving(c)' = IF c = b THEN Moving(c) + 1 ELSE Moving(c)
    BY <1>1, <1>5, <2>2, <2>3, <2>4, MovingChanges
  <2>8. \A c \in BloomCell : WaitsEnd(c) /\ Seen(c)
    BY <1>1, CellWise
  <2>9. \A c \in BloomCell : /\ swap[c] \in 0 .. MaxCount /\ swapped[c] \in 0 .. MaxCount
                             /\ lost[c] \in Nat
    BY <1>1 DEF Counters
  <2>10. swap[b] <= swapped[b]
    BY <1>11 DEF Cuckoo!Stable
  <2> HIDE DEF b, h
  <2>11. ASSUME NEW c \in BloomCell, c = b PROVE WaitsEnd(c)' /\ Seen(c)'
    BY <1>2, <1>4, <1>11, <2>11, <2>6, <2>7, <2>8, <2>9, <2>10, CuckooSizes DEF WaitsEnd, Seen
  <2>12. ASSUME NEW c \in BloomCell, c # b PROVE WaitsEnd(c)' /\ Seen(c)'
    BY <1>2, <1>11, <2>12, <2>6, <2>7, <2>8 DEF WaitsEnd, Seen
  <2>13. CuckooTyped'
    BY <1>1, <1>6, <1>11, <2>2, <2>3, <2>6
  <2> QED
    BY <2>11, <2>12, <2>13, CellWiseNext DEF CuckooInv
<1>12. \/ Cuckoo!Leave(p) /\ UNCHANGED <<swap, swapped, gaveUp>>
       \/ Cuckoo!Recirculate(p, h) /\ UNCHANGED <<swap, swapped, gaveUp>>
       \/ Cuckoo!PassGiveUp(p)
       \/ /\ Cuckoo!Stable(b)
          /\ swap' = [swap EXCEPT ![b] = Cuckoo!Inc(swapped, b)[b]]
          /\ Cuckoo!Recirculate(p, [h EXCEPT !.op = "INSERT", !.recirc_cntr = 0])
          /\ h.op = "UPDATE"
          /\ UNCHANGED <<swapped, gaveUp>>
  BY DEF Cuckoo!Look, Cuckoo!PassFound, Cuckoo!PassLookup, Cuckoo!PassUpdate
<1> QED
  BY <1>8, <1>9, <1>10, <1>11, <1>12

\* An empty cell does not count as filled: its time stamp is too old.
LEMMA LiveHasKey ==
    ASSUME time \in Timeout + 1 .. MaxTime, NEW s \in Slots, Cuckoo!Live(s)
    PROVE  s.key \in Key
<1>1. time \in Nat /\ time < Wrap /\ Wrap \in Nat /\ Timeout < time
  BY CuckooSizes
<1>2. time % Wrap = time
  BY <1>1
<1>3. CASE s.key = 0
  <2>1. s.ts = 0
    BY <1>3 DEF Slots
  <2>2. (time - 0) % Wrap < Timeout
    BY <2>1 DEF Cuckoo!Live, Cuckoo!Age
  <2>3. time < Timeout
    BY <1>1, <1>2, <2>2
  <2> QED
    BY <1>1, <2>3, CuckooSizes
<1> QED
  BY <1>3 DEF Slots

\* An insertion ends one move and may begin the next.
LEMMA InsertKeeps ==
    ASSUME CuckooInv, NEW p \in Packet, Cuckoo!Insert(p)
    PROVE  CuckooInv'
<1> DEFINE h == pkt[p]
           b == BloomHash[h.key]
           d1 == table1[Hash1[h.key]]
           d2 == table2[Hash2[h.key]]
           entry == [key |-> h.key, val |-> h.val, ts |-> h.ts]
           on == [h EXCEPT !.op = "SWAP", !.key = d2.key, !.val = d2.val, !.ts = d2.ts]
           e == BloomHash[d2.key]
<1>1. /\ table1 \in [Place -> Slots] /\ table2 \in [Place -> Slots]
      /\ swap \in Counters /\ swapped \in Counters
      /\ pkt \in [Packet -> Headers \cup {Cuckoo!NoPacket}]
      /\ time \in Timeout + 1 .. MaxTime
      /\ lost \in [BloomCell -> Nat]
      /\ \A c \in BloomCell : WaitsEnd(c) /\ Seen(c)
  BY CellWise DEF CuckooInv, CuckooTyped
<1>2. /\ h \in Headers /\ h.op \in {"INSERT", "SWAP"}
      /\ table1' = [table1 EXCEPT ![Hash1[h.key]] = entry]
      /\ swapped' = Cuckoo!Inc(swapped, b)
      /\ table2' = [table2 EXCEPT ![Hash2[h.key]] = d1] \/ table2' = table2
      /\ \/ /\ Cuckoo!Live(d2)
            /\ swap' = Cuckoo!Inc(swap, e)
            /\ pkt' = [pkt EXCEPT ![p] = [on EXCEPT !.recirc_cntr = @ + 1]]
         \/ /\ pkt' = [pkt EXCEPT ![p] = Cuckoo!NoPacket]
            /\ swap' = swap
      /\ UNCHANGED <<time, lost, gaveUp>>
  BY <1>1 DEF Cuckoo!Insert, Cuckoo!UnderWay, Cuckoo!Displaced, Cuckoo!Entry, Cuckoo!MoveEnds,
              Cuckoo!NextMove, Cuckoo!Recirculate, Cuckoo!Leave, Cuckoo!history
<1>3. /\ h.key \in Key /\ h.val = h.key /\ h.ts \in 0 .. MaxTime
      /\ b \in BloomCell /\ Hash1[h.key] \in Place /\ Hash2[h.key] \in Place
  BY <1>2, CuckooSizes DEF Headers
<1>4. d1 \in Slots /\ d2 \in Slots
  BY <1>1, <1>3
<1>5. entry \in Slots
  BY <1>3, CuckooSizes DEF Slots
<1>6. table1' \in [Place -> Slots] /\ table2' \in [Place -> Slots]
  BY <1>1, <1>2, <1>3, <1>4, <1>5
<1>7. \A c : Carries(h, c) <=> c = b
  BY <1>2 DEF Carries
<1>8. /\ swapped' \in Counters
      /\ swapped'[b] = IF swapped[b] < MaxCount THEN swapped[b] + 1 ELSE MaxCount
      /\ \A x \in BloomCell \ {b} : swapped'[x] = swapped[x]
  BY <1>1, <1>2, <1>3, IncFacts
<1>9. \A c \in BloomCell : /\ swap[c] \in 0 .. MaxCount /\ swapped[c] \in 0 .. MaxCount
                           /\ lost[c] \in Nat
  BY <1>1 DEF Counters
<1>10. ASSUME NEW new \in Headers \cup {Cuckoo!NoPacket}, pkt' = [pkt EXCEPT ![p] = new],
              swap' \in Counters, \A c \in BloomCell : WaitsEnd(c)' /\ Seen(c)'
       PROVE  CuckooInv'
  <2>1. CuckooTyped'
    BY <1>1, <1>2, <1>6, <1>8, <1>10 DEF CuckooTyped
  <2> QED
    BY <1>10, <2>1, CellWiseNext DEF CuckooInv
<1>11. CASE pkt' = [pkt EXCEPT ![p] = Cuckoo!NoPacket] /\ swap' = swap
  <2>1. \A c \in BloomCell : /\ Moving(c) \in Nat /\ Moving(c)' \in Nat
                             /\ Moving(c)' = IF c = b THEN Moving(c) - 1 ELSE Moving(c)
    <3>1. \A c : ~Carries(Cuckoo!NoPacket, c)
      BY NoHeader DEF Carries
    <3> QED
      BY <1>1, <1>7, <1>11, <3>1, MovingChanges
  <2> HIDE DEF b, h
  <2>2. ASSUME NEW c \in BloomCell PROVE WaitsEnd(c)' /\ Seen(c)'
    BY <1>1, <1>2, <1>8, <1>9, <1>11, <2>1, CuckooSizes DEF WaitsEnd, Seen
  <2> QED
    BY <1>1, <1>10, <1>11, <2>2
<1>12. CASE /\ Cuckoo!Live(d2)
            /\ swap' = Cuckoo!Inc(swap, e)
            /\ pkt' = [pkt EXCEPT ![p] = [on EXCEPT !.recirc_cntr = @ + 1]]
  <2> DEFINE new == [on EXCEPT !.recirc_cntr = @ + 1]
  <2>1. d2.key \in Key /\ d2.val = d2.key /\ d2.ts \in 0 .. MaxTime
    BY <1>1, <1>4, <1>12, LiveHasKey DEF Slots
  <2>2. on \in Headers /\ on.op = "SWAP" /\ on.key = d2.key
    <3> HIDE DEF d2
    <3> QED
      BY <1>2, <2>1 DEF Headers
  <2> HIDE DEF on
  <2>3. new \in Headers /\ new.op = "SWAP" /\ new.key = d2.key
    BY <2>2, OnceMore
  <2>4. pkt' = [pkt EXCEPT ![p] = new]
    BY <1>12
  <2> HIDE DEF new
  <2>5. e \in BloomCell
    BY <2>1, CuckooSizes
  <2>6. \A c : Carries(new, c) <=> c = e
    BY <2>3 DEF Carries
  <2>7. /\ swap' \in Counters
        /\ swap'[e] = IF swap[e] < MaxCount THEN swap[e] + 1 ELSE MaxCount
        /\ \A x \in BloomCell \ {e} : swap'[x] = swap[x]
    BY <1>1, <1>12, <2>5, IncFacts
  <2>8. \A c \in BloomCell :
           /\ Moving(c) \in Nat /\ Moving(c)' \in Nat
           /\ Moving(c)' = Moving(c) - (IF c = b THEN 1 ELSE 0) + (IF c = e THEN 1 ELSE 0)
    <3>1. ASSUME NEW c \in BloomCell
          PROVE  /\ Moving(c) \in Nat /\ Moving(c)' \in Nat
                 /\ (c = b <=> c = e) => Moving(c)' = Moving(c)
                 /\ c = b /\ c # e => Moving(c)' = Moving(c) - 1
                 /\ c # b /\ c = e => Moving(c)' = Moving(c) + 1
      BY <1>1, <1>7, <2>3, <2>4, <2>6, MovingChanges
    <3> HIDE DEF b, e, h
    <3> QED
      BY <3>1
  <2> HIDE DEF b, e, h
  <2>9. ASSUME NEW c \in BloomCell PROVE WaitsEnd(c)' /\ Seen(c)'
    <3>1. WaitsEnd(c)'
      BY <1>1, <1>2, <1>8, <1>9, <2>7, <2>8, CuckooSizes DEF WaitsEnd
    <3>2. Seen(c)'
      BY <1>1, <1>2, <1>8, <1>9, <2>7, <2>8, CuckooSizes DEF Seen
    <3> QED
      BY <3>1, <3>2
  <2> QED
    BY <1>10, <2>3, <2>4, <2>7, <2>9
<1> QED
  BY <1>2, <1>11, <1>12

\* A packet lost with an entry is still waited for, and nothing else is.
LEMMA LoseKeeps ==
    ASSUME CuckooInv, NEW p \in Packet, Cuckoo!Lose(p)
    PROVE  CuckooInv'
<1> DEFINE h == pkt[p]
           b == BloomHash[h.key]
<1>1. /\ pkt \in [Packet -> Headers \cup {Cuckoo!NoPacket}]
      /\ swap \in Counters /\ swapped \in Counters /\ lost \in [BloomCell -> Nat]
      /\ \A c \in BloomCell : WaitsEnd(c) /\ Seen(c)
  BY CellWise DEF CuckooInv, CuckooTyped
<1>2. /\ h \in Headers /\ pkt' = [pkt EXCEPT ![p] = Cuckoo!NoPacket]
      /\ lost' = IF h.op \in {"INSERT", "SWAP"} THEN [lost EXCEPT ![b] = @ + 1] ELSE lost
      /\ UNCHANGED <<table1, table2, swap, swapped, time, gaveUp>>
  BY <1>1 DEF Cuckoo!Lose, Cuckoo!UnderWay, Cuckoo!Leave
<1>3. b \in BloomCell
  BY <1>2, CuckooSizes DEF Headers
<1>4. /\ lost' \in [BloomCell -> Nat]
      /\ \A c \in BloomCell : lost'[c] = IF Carries(h, c) THEN lost[c] + 1 ELSE lost[c]
  BY <1>1, <1>2, <1>3 DEF Carries
<1>5. \A c \in BloomCell : /\ Moving(c) \in Nat /\ Moving(c)' \in Nat
                           /\ Moving(c)' = IF Carries(h, c) THEN Moving(c) - 1 ELSE Moving(c)
  <2>1. \A c : ~Carries(Cuckoo!NoPacket, c)
    BY NoHeader DEF Carries
  <2> QED
    BY <1>1, <1>2, <2>1, MovingChanges
<1>6. CuckooTyped'
  BY <1>1, <1>2, <1>4 DEF CuckooInv, CuckooTyped
<1> HIDE DEF h, b
<1>7. \A c \in BloomCell : swap[c] \in Nat /\ swapped[c] \in Nat /\ lost[c] \in Nat
  BY <1>1 DEF Counters
<1>8. ASSUME NEW c \in BloomCell PROVE WaitsEnd(c)' /\ Seen(c)'
  BY <1>1, <1>2, <1>4, <1>5, <1>7 DEF WaitsEnd, Seen
<1> QED
  BY <1>6, <1>8, CellWiseNext DEF CuckooInv

\* A new request carries nothing.
LEMMA ArriveKeeps ==
    ASSUME CuckooInv, NEW p \in Packet, NEW k \in Key, NEW op \in {"LOOKUP", "UPDATE"},
           Cuckoo!Arrive(p, k, op)
    PROVE  CuckooInv'
<1> DEFINE new == [op |-> op, recirc_cntr |-> 0, key |-> k,
                   val |-> IF op = "UPDATE" THEN k ELSE 0, ts |-> time]
<1>1. /\ pkt[p] = Cuckoo!NoPacket /\ pkt' = [pkt EXCEPT ![p] = new]
      /\ UNCHANGED <<table1, table2, swap, swapped, time, lost, gaveUp>>
  BY DEF Cuckoo!Arrive, Cuckoo!UnderWay, Cuckoo!history
<1>2. time \in 0 .. MaxTime
  BY CuckooSizes DEF CuckooInv, CuckooTyped
<1>3. new \in Headers /\ new.op \notin {"INSERT", "SWAP"}
  BY <1>2 DEF Headers
<1> HIDE DEF new
<1>4. \A c : ~Carries(pkt[p], c) /\ ~Carries(new, c)
  BY <1>1, <1>3, NoHeader DEF Carries
<1>5. WaitedFor' /\ MovesSeen'
  BY <1>1, <1>3, <1>4, NothingMoves DEF CuckooInv
<1>6. CuckooTyped'
  BY <1>1, <1>3 DEF CuckooInv, CuckooTyped
<1> QED
  BY <1>5, <1>6 DEF CuckooInv

\* Steps that leave tables, counters and packets alone
LEMMA NothingKeeps ==
    ASSUME CuckooInv, UNCHANGED <<table1, table2, swap, swapped, pkt, lost, gaveUp>>,
           time' \in Timeout + 1 .. MaxTime
    PROVE  CuckooInv'
<1>1. \A c \in BloomCell : Moving(c)' = Moving(c)
  BY DEF Moving, Cuckoo!Carriers, Cuckoo!UnderWay
<1>2. \A c \in BloomCell : WaitsEnd(c)' /\ Seen(c)'
  BY <1>1, CellWise DEF CuckooInv, WaitsEnd, Seen
<1> QED
  BY <1>2, CellWiseNext DEF CuckooInv, CuckooTyped

LEMMA CuckooStarts == Cuckoo!Init => CuckooInv
<1> SUFFICES ASSUME Cuckoo!Init PROVE CuckooInv
  OBVIOUS
<1>1. [key |-> 0, val |-> 0, ts |-> 0] \in Slots
  BY CuckooSizes DEF Slots
<1>2. CuckooTyped
  BY <1>1, CuckooSizes DEF Cuckoo!Init, CuckooTyped, Counters
<1>3. \A c \in BloomCell : Cuckoo!Carriers(c) = {}
  BY DEF Cuckoo!Init, Cuckoo!Carriers, Cuckoo!UnderWay
<1>4. \A c \in BloomCell : Moving(c) = 0
  BY <1>3, FS_EmptySet DEF Moving
<1>5. \A c \in BloomCell : WaitsEnd(c) /\ Seen(c)
  BY <1>4 DEF Cuckoo!Init, WaitsEnd, Seen
<1> QED
  BY <1>2, <1>5, CellWise DEF CuckooInv

LEMMA CuckooNext == CuckooInv /\ [Cuckoo!Next]_Cuckoo!vars => CuckooInv'
<1> SUFFICES ASSUME CuckooInv, [Cuckoo!Next]_Cuckoo!vars PROVE CuckooInv'
  OBVIOUS
<1>1. time \in Timeout + 1 .. MaxTime
  BY DEF CuckooInv, CuckooTyped
<1>2. CASE UNCHANGED Cuckoo!vars
  BY <1>1, <1>2, NothingKeeps DEF Cuckoo!vars, Cuckoo!history
<1>3. CASE Cuckoo!Tick
  <2>1. time' \in Timeout + 1 .. MaxTime
    BY <1>1, <1>3, CuckooSizes DEF Cuckoo!Tick
  <2> QED
    BY <1>3, <2>1, NothingKeeps DEF Cuckoo!Tick, Cuckoo!history
<1> QED
  BY <1>2, <1>3, ArriveKeeps, LookKeeps, InsertKeeps, LoseKeeps DEF Cuckoo!Next

LEMMA CuckooInductive == CuckooSpec => []CuckooInv
BY CuckooStarts, CuckooNext, PTL DEF CuckooSpec, Cuckoo!Spec

\* WaitedFor of the cuckoo table: the counters of a bloom-filter cell
\* (swap_transient, swapped_transient) never show more moves under way than
\* packets that carry an entry, or were lost with one, account for.
THEOREM CuckooWaitsEnd == CuckooSpec => []WaitedFor
<1>1. CuckooInv => WaitedFor
  BY DEF CuckooInv
<1> QED
  BY <1>1, CuckooInductive, PTL

\* MovesSeen of the cuckoo table: nor do they show fewer, as long as no PUT gave
\* up on the cell and no counter saturated.
THEOREM CuckooMovesSeen == CuckooSpec => []MovesSeen
<1>1. CuckooInv => MovesSeen
  BY DEF CuckooInv
<1> QED
  BY <1>1, CuckooInductive, PTL

\* ValuesOwn of the cuckoo table: keys and values are exchanged one after the
\* other (reg_k, reg_v) and stay together.
THEOREM CuckooValuesOwn == CuckooSpec => []ValuesOwn
<1>1. CuckooInv => ValuesOwn
  BY NoHeader DEF CuckooInv, CuckooTyped, Slots, Headers, ValuesOwn, Cuckoo!ValuesOwn,
                  Cuckoo!UnderWay
<1> QED
  BY <1>1, CuckooInductive, PTL
==============================================================================
