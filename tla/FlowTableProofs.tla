---------------------------- MODULE FlowTableProofs ----------------------------
(***************************************************************************)
(* The flow table, for any number of flows, any hash function and any      *)
(* expiration time.  What is proved of a double chain and of a hash map    *)
(* holds of the two in the table, because each call the network functions  *)
(* make is one they allow; and that follows from what relates the two,     *)
(* Coherent.  FirewallProofs and NatDetectorProofs build on this.          *)
(***************************************************************************)
EXTENDS FlowTable, FiniteSetTheorems, TLAPS

S == INSTANCE DataStructureProofs WITH
         IndexRange <- MaxFlows, ret <- chainRet,
         Capacity <- MaxFlows, Key <- Flow, Val <- Index, Ptr <- Index,
         ZeroKey <- ZeroFlow, mem <- fv

TableInv == S!IInv /\ S!MapInv /\ Coherent

\* The sizes suit both structures.
LEMMA TableSizes ==
    /\ S!Sizes /\ S!MapAssumption
    /\ S!IndexRangeAssumption /\ S!MaxTimeAssumption
BY MaxFlowsAssumption, FlowAssumption, TimeAssumption
   DEF S!Sizes, S!MapAssumption, S!IndexRangeAssumption, S!MaxTimeAssumption

------------------------------------------------------------------------------
(* The chain and the map of the table are the ones the proofs are about.    *)

LEMMA SameChain ==
    /\ S!Index = Index /\ Heap!Index = Index
    /\ Heap!HasOldest <=> S!HasOldest
    /\ Heap!Oldest = S!Oldest
    /\ Heap!Oldest = next[0] - 2
    /\ \A i : Heap!IsAllocated(i) <=> S!IsAllocated(i)
    /\ Heap!Init <=> S!Init
    /\ Heap!Allocate <=> S!Allocate
    /\ Heap!AllocateFull <=> S!AllocateFull
    /\ \A i : Heap!Rejuvenate(i) <=> S!Rejuvenate(i)
    /\ \A t : Heap!Expire(t) <=> S!Expire(t)
    /\ Heap!FREE_LIST_HEAD = S!FREE_LIST_HEAD /\ Heap!INDEX_SHIFT = S!INDEX_SHIFT
    /\ Fresh = next[S!FREE_LIST_HEAD] - S!INDEX_SHIFT
<1>1. S!Index = Index /\ Heap!Index = Index
  BY DEF S!Index, Heap!Index, Index
<1>2. /\ Heap!FREE_LIST_HEAD = S!FREE_LIST_HEAD /\ Heap!INDEX_SHIFT = S!INDEX_SHIFT
      /\ Heap!ALLOC_LIST_HEAD = S!ALLOC_LIST_HEAD
  BY DEF Heap!FREE_LIST_HEAD, S!FREE_LIST_HEAD, Heap!INDEX_SHIFT, S!INDEX_SHIFT,
         Heap!ALLOC_LIST_HEAD, S!ALLOC_LIST_HEAD
<1>3. /\ Heap!HasOldest <=> S!HasOldest
      /\ Heap!Oldest = S!Oldest /\ Heap!Oldest = next[0] - 2
  BY DEF Heap!HasOldest, S!HasOldest, Heap!Oldest, S!Oldest, Heap!ALLOC_LIST_HEAD,
         S!ALLOC_LIST_HEAD, Heap!INDEX_SHIFT, S!INDEX_SHIFT
<1>4. ASSUME NEW i PROVE Heap!IsAllocated(i) <=> S!IsAllocated(i)
  BY <1>2 DEF Heap!IsAllocated, S!IsAllocated
<1>5. Heap!Init <=> S!Init
  BY <1>1, <1>2 DEF Heap!Init, S!Init, Heap!Cell, S!Cell, Heap!InitLink, S!InitLink,
                    Heap!Time, S!Time
<1>6. ASSUME NEW c PROVE /\ Heap!PopFree(c) <=> S!PopFree(c)
                         /\ Heap!PushFree(c) <=> S!PushFree(c)
                         /\ Heap!MoveToEnd(c) <=> S!MoveToEnd(c)
  BY <1>2 DEF Heap!PopFree, S!PopFree, Heap!PushFree, S!PushFree, Heap!MoveToEnd, S!MoveToEnd
<1>7. Heap!Allocate <=> S!Allocate
  BY <1>2, <1>6 DEF Heap!Allocate, S!Allocate, Heap!Without, S!Without
<1>8. Heap!AllocateFull <=> S!AllocateFull
  BY <1>2 DEF Heap!AllocateFull, S!AllocateFull, Heap!cells, S!cells
<1>9. ASSUME NEW i PROVE Heap!Rejuvenate(i) <=> S!Rejuvenate(i)
  BY <1>2, <1>4, <1>6 DEF Heap!Rejuvenate, S!Rejuvenate, Heap!cells, S!cells, Heap!Touch, S!Touch,
                     Heap!Without, S!Without
<1>10. ASSUME NEW t PROVE Heap!Expire(t) <=> S!Expire(t)
  BY <1>1, <1>2, <1>3, <1>4, <1>6
     DEF Heap!Expire, S!Expire, Heap!Release, S!Release, Heap!Without, S!Without
<1> QED
  BY <1>1, <1>2, <1>3, <1>4, <1>5, <1>7, <1>8, <1>9, <1>10 DEF Fresh

LEMMA SameMap ==
    /\ Fm!Busy = S!Busy /\ S!Slot = Index
    /\ Fm!MapInit <=> S!MapInit
    /\ \A f : Fm!find_key(f) = S!find_key(f)
    /\ \A f : Fm!EmptyRounds(f) = S!EmptyRounds(f)
    /\ \A f, i : Fm!MayPut(f, i) <=> S!MayPut(f, i)
    /\ \A f : Fm!MayErase(f) <=> S!MayErase(f)
    /\ \A f : Fm!Get(f) <=> S!Get(f)
    /\ \A f, i, v : Fm!PutSlot(f, i, v) <=> S!PutSlot(f, i, v)
    /\ \A f : Fm!EraseSlot(f) <=> S!EraseSlot(f)
<1>1. Fm!Slot = S!Slot /\ S!Slot = Index /\ Fm!Busy = S!Busy
  BY DEF Fm!Slot, S!Slot, Index, Fm!Busy, S!Busy
<1>2. ASSUME NEW f, NEW i PROVE Fm!Probe(f, i) = S!Probe(f, i)
  BY DEF Fm!Probe, S!Probe, Fm!loop, S!loop
<1>3. ASSUME NEW A PROVE Fm!Least(A) = S!Least(A)
  BY DEF Fm!Least, S!Least
<1>4. ASSUME NEW f PROVE Fm!find_key(f) = S!find_key(f)
  BY <1>2, <1>3 DEF Fm!find_key, S!find_key, Fm!Stops, S!Stops, Fm!Match, S!Match,
                    Fm!SameHash, S!SameHash
<1>5. ASSUME NEW f PROVE Fm!EmptyRounds(f) = S!EmptyRounds(f) /\ Fm!MatchRounds(f) = S!MatchRounds(f)
  BY <1>2 DEF Fm!EmptyRounds, S!EmptyRounds, Fm!MatchRounds, S!MatchRounds, Fm!Match, S!Match,
              Fm!SameHash, S!SameHash
<1>6. ASSUME NEW f, NEW r PROVE Fm!Passed(f, r) = S!Passed(f, r)
  BY <1>2 DEF Fm!Passed, S!Passed
<1>7. ASSUME NEW f, NEW i, NEW v PROVE Fm!PutSlot(f, i, v) <=> S!PutSlot(f, i, v)
  BY <1>1, <1>2, <1>3, <1>5, <1>6 DEF Fm!PutSlot, S!PutSlot
<1>8. ASSUME NEW f PROVE Fm!EraseSlot(f) <=> S!EraseSlot(f)
  BY <1>1, <1>2, <1>3, <1>5, <1>6 DEF Fm!EraseSlot, S!EraseSlot
<1>9. ASSUME NEW f PROVE Fm!Get(f) <=> S!Get(f)
  BY <1>4 DEF Fm!Get, S!Get, Fm!slots, S!slots
<1>10. ASSUME NEW f, NEW i PROVE (Fm!MayPut(f, i) <=> S!MayPut(f, i)) /\ (Fm!MayErase(f) <=> S!MayErase(f))
  BY <1>1 DEF Fm!MayPut, S!MayPut, Fm!MayErase, S!MayErase
<1>11. Fm!MapInit <=> S!MapInit
  BY <1>1 DEF Fm!MapInit, S!MapInit
<1> QED
  BY <1>1, <1>4, <1>5, <1>7, <1>8, <1>9, <1>10, <1>11

\* No operation of the chain reads or writes the map's state, nor the reverse.
LEMMA FrameChain == ASSUME UNCHANGED <<heap, now>>, S!IInv PROVE S!IInv'
BY TableSizes, S!FrameInv
   DEF heap, S!cells, S!IInv, S!TypeOK, S!Time, S!Sizes

LEMMA FrameMap == ASSUME UNCHANGED <<fm, fv>>, S!MapInv PROVE S!MapInv'
BY TableSizes, S!MapNextInv DEF fm, S!mapVars

LEMMA FrameCoherent ==
    ASSUME Coherent, Fm!Busy' = Fm!Busy, UNCHANGED <<used, keyps, vals>>
    PROVE  Coherent'
BY DEF Coherent

------------------------------------------------------------------------------
(* The entries of the table                                                 *)

\* The set of an injective function's values is as large as its domain.
LEMMA AsManyValues ==
    ASSUME NEW A, NEW f, IsFiniteSet(A), \A x, y \in A : f[x] = f[y] => x = y
    PROVE  IsFiniteSet({f[x] : x \in A}) /\ Cardinality({f[x] : x \in A}) = Cardinality(A)
<1> DEFINE g == [x \in A |-> f[x]]
<1>1. g \in Bijection(A, {f[x] : x \in A})
  BY DEF Bijection, Injection, Surjection, IsInjective
<1> QED
  BY <1>1, FS_Bijection DEF ExistsBijection

\* An entry's cell is that of the index in use it stands for, and holds its flow.
LEMMA EntryFacts ==
    ASSUME TableInv
    PROVE  /\ Fm!Busy \subseteq Index /\ used \subseteq Index /\ IsFiniteSet(Fm!Busy)
           /\ \A s \in Fm!Busy : /\ vals[s] \in used /\ vals[s] \in Index /\ keyps[s] = vals[s]
                                 /\ fv[vals[s]] \in Flow
           /\ \A s, t \in Fm!Busy : fv[keyps[s]] = fv[keyps[t]] => s = t
           /\ \A i \in used : \E s \in Fm!Busy : vals[s] = i
           /\ Cardinality(used) = Cardinality(Fm!Busy)
           /\ vals \in [Index -> Index] /\ keyps \in [Index -> Index] /\ fv \in [Index -> Flow]
           /\ timestamps \in [Index -> 0 .. MaxTime] /\ now \in 0 .. MaxTime
<1>1. Coherent /\ S!Typed /\ S!KeysDistinct /\ S!TypeOK
  BY DEF TableInv, S!MapInv, S!IInv
<1>2. Fm!Busy \subseteq Index
  BY SameMap DEF S!Busy
<1>3. used \subseteq Index /\ timestamps \in [Index -> 0 .. MaxTime] /\ now \in 0 .. MaxTime
  BY <1>1, SameChain DEF S!TypeOK, S!Time
<1>4. vals \in [Index -> Index] /\ keyps \in [Index -> Index] /\ fv \in [Index -> Flow]
  BY <1>1, SameMap DEF S!Typed
<1>5. \A s \in Fm!Busy : /\ vals[s] \in used /\ vals[s] \in Index /\ keyps[s] = vals[s]
                         /\ fv[vals[s]] \in Flow
  BY <1>1, <1>2, <1>4 DEF Coherent
<1>6. \A s, t \in Fm!Busy : fv[keyps[s]] = fv[keyps[t]] => s = t
  BY <1>1, SameMap DEF S!KeysDistinct
<1>7. \A i \in used : \E s \in Fm!Busy : vals[s] = i
  BY <1>1 DEF Coherent
<1>8. IsFiniteSet(Fm!Busy)
  <2>1. IsFiniteSet(Index)
    BY MaxFlowsAssumption, FS_Interval DEF Index
  <2> QED
    BY <1>2, <2>1, FS_Subset
<1>9. Cardinality(used) = Cardinality(Fm!Busy)
  BY <1>1, <1>8, AsManyValues DEF Coherent
<1> QED
  BY <1>2, <1>3, <1>4, <1>5, <1>6, <1>7, <1>8, <1>9

\* No entry was used last in the future, and no two are of the same flow.
LEMMA UsedFacts ==
    ASSUME TableInv
    PROVE  /\ \A i \in used : i \in Index /\ fv[i] \in Flow /\ timestamps[i] \in 0 .. now
           /\ \A i, j \in used : fv[i] = fv[j] => i = j
<1>1. \A i \in used : timestamps[i] <= now
  BY DEF TableInv, S!IInv, S!StampsFollowOrder
<1>2. \A i \in used : i \in Index /\ fv[i] \in Flow /\ timestamps[i] \in 0 .. MaxTime
  BY EntryFacts
<1>3. now \in Int
  BY EntryFacts
<1>4. ASSUME NEW i \in used, NEW j \in used, fv[i] = fv[j] PROVE i = j
  <2>1. PICK s, t \in Fm!Busy : vals[s] = i /\ vals[t] = j
    BY EntryFacts
  <2>2. keyps[s] = i /\ keyps[t] = j
    BY <2>1, EntryFacts
  <2>3. s = t
    BY <1>4, <2>2, EntryFacts
  <2> QED
    BY <2>1, <2>3
<1> QED
  BY <1>1, <1>2, <1>3, <1>4

\* The map is full exactly when the chain is.
LEMMA FullTogether ==
    ASSUME TableInv
    PROVE  /\ used = Index <=> Fm!Busy = Index
           /\ Cardinality(Fm!Busy) <= MaxFlows
           /\ Cardinality(Fm!Busy) = MaxFlows <=> Fm!Busy = Index
<1>1. IsFiniteSet(Index) /\ Cardinality(Index) = MaxFlows
  BY MaxFlowsAssumption, FS_Interval DEF Index
<1> QED
  BY <1>1, EntryFacts, FS_Subset

\* map_get on a flow that has an entry gives that entry's index ...
LEMMA PresentFacts ==
    ASSUME TableInv, NEW f \in Flow, Present(f)
    PROVE  \E s \in Fm!Busy : fv[keyps[s]] = f /\ IndexOf(f) = vals[s]
<1>1. S!MapInv /\ S!find_key(f) # -1
  BY SameMap DEF TableInv, Present
<1>2. PICK s \in S!Busy : fv[keyps[s]] = f
  BY <1>1, TableSizes, S!FindsNothingElse
<1>3. S!find_key(f) = s
  BY <1>1, <1>2, TableSizes, S!FindsEntry
<1> QED
  BY <1>2, <1>3, SameMap DEF IndexOf

\* ... and finds none for a flow that has none.
LEMMA AbsentFacts ==
    ASSUME TableInv, NEW f \in Flow, ~Present(f)
    PROVE  \A s \in Fm!Busy : fv[keyps[s]] # f
<1> SUFFICES ASSUME NEW s \in Fm!Busy, fv[keyps[s]] = f PROVE FALSE
  OBVIOUS
<1>1. S!MapInv /\ S!find_key(f) = -1 /\ s \in S!Busy
  BY SameMap DEF TableInv, Present
<1>2. S!find_key(f) = s
  BY <1>1, TableSizes, S!FindsEntry
<1> QED
  BY <1>1, <1>2, EntryFacts DEF Index

------------------------------------------------------------------------------
(* What the network functions do with the table is what the structures      *)
(* allow.                                                                   *)

\* A free index comes with a free slot, and no entry is keyed by its cell.
LEMMA MayInsert ==
    ASSUME TableInv, next[S!FREE_LIST_HEAD] # S!FREE_LIST_HEAD
    PROVE  /\ Fresh \in Index \ used
           /\ \A f \in Flow : ~Present(f) => Fm!EmptyRounds(f) # {} /\ Fm!MayPut(f, Fresh)
<1>0. next[S!FREE_LIST_HEAD] - S!INDEX_SHIFT \in S!Index \ used
  BY TableSizes, S!FreshFacts DEF TableInv
<1>1. Fresh \in Index \ used
  BY <1>0, SameChain
<1>2. ASSUME NEW f \in Flow, ~Present(f) PROVE Fm!EmptyRounds(f) # {} /\ Fm!MayPut(f, Fresh)
  <2>1. PICK s \in Index : s \notin Fm!Busy
    BY <1>1, EntryFacts, FullTogether
  <2>2. S!Dist(f, s) \in S!Round /\ S!Probe(f, S!Dist(f, s)) = s
    BY <2>1, SameMap, TableSizes, S!DistOf
  <2>3. S!Dist(f, s) \in S!EmptyRounds(f)
    BY <2>1, <2>2, SameMap DEF S!EmptyRounds, S!Round, S!Busy
  <2>4. \A t \in S!Busy : fv[keyps[t]] # f /\ keyps[t] # Fresh
    BY <1>1, <1>2, SameMap, AbsentFacts, EntryFacts
  <2> QED
    BY <2>3, <2>4, SameMap DEF S!MayPut
<1> QED
  BY <1>1, <1>2

\* The oldest index has its entry in the map.
LEMMA MayExpire ==
    ASSUME TableInv, Heap!HasOldest
    PROVE  Heap!Oldest \in used /\ Fm!MayErase(fv[Heap!Oldest])
<1>0. S!HasOldest => S!Oldest \in used
  BY TableSizes, S!OldestFacts DEF TableInv
<1>1. Heap!Oldest \in used
  BY <1>0, SameChain
<1>2. PICK s \in Fm!Busy : vals[s] = Heap!Oldest /\ keyps[s] = Heap!Oldest
  BY <1>1, EntryFacts
<1> QED
  BY <1>1, <1>2, SameMap DEF S!MayErase

------------------------------------------------------------------------------
(* The operations                                                           *)

\* alloc_state: three empty structures are coherent.
LEMMA TableInitInv == TableInit => TableInv
<1> SUFFICES ASSUME TableInit PROVE TableInv
  OBVIOUS
<1>1. S!IInv /\ S!MapInv
  BY TableSizes, SameChain, SameMap, S!InitInv, S!MapInitInv
     DEF TableInit
<1>2. used = {}
  BY DEF TableInit, Heap!Init
<1>3. Fm!Busy = {}
  BY DEF TableInit, Fm!MapInit, Fm!Busy
<1> QED
  BY <1>1, <1>2, <1>3 DEF TableInv, Coherent

\* One iteration of the expiry loop takes one entry out of the three structures.
LEMMA ExpireOneEffect ==
    ASSUME TableInv, ExpireOne
    PROVE  /\ TableInv'
           /\ \E s \in Fm!Busy :
                 /\ vals[s] = Heap!Oldest /\ timestamps[vals[s]] < last_time
                 /\ Fm!Busy' = Fm!Busy \ {s} /\ used' = used \ {vals[s]}
                 /\ UNCHANGED <<keyps, vals, fv, timestamps, now>>
<1> DEFINE o == Heap!Oldest
<1>1. Heap!Expire(last_time) /\ Fm!EraseSlot(fv[o]) /\ Heap!HasOldest
  BY DEF ExpireOne, Heap!Expire
<1>2. o \in used /\ Fm!MayErase(fv[o]) /\ o \in Index /\ fv[o] \in Flow
  BY <1>1, MayExpire, EntryFacts
<1>3. S!MapInv /\ S!Erase(fv[o])
  BY <1>1, <1>2, SameMap DEF TableInv, S!Erase
<1>4. PICK s \in S!Busy :
          /\ fv[keyps[s]] = fv[o] /\ S!Busy' = S!Busy \ {s}
          /\ UNCHANGED <<keyps, vals, fv>>
  BY <1>2, <1>3, TableSizes, S!EraseEffect
<1>5. PICK t \in Fm!Busy : vals[t] = o /\ keyps[t] = o
  BY <1>2, EntryFacts
<1>6. s = t /\ s \in Fm!Busy /\ Fm!Busy' = Fm!Busy \ {s}
  <2>1. Fm!Busy' = S!Busy'
    BY DEF Fm!Busy, S!Busy, Fm!Slot, S!Slot
  <2> QED
    BY <1>4, <1>5, <2>1, EntryFacts, SameMap
<1>7. /\ used' = used \ {o} /\ timestamps' = timestamps /\ now' = now /\ timestamps[o] < last_time
  BY <1>1 DEF Heap!Expire, Heap!Release
<1>8. S!MapInv'
  BY <1>2, <1>3, TableSizes, S!EraseInv
<1>9. S!IInv'
  <2>1. S!IInv /\ S!Expire(last_time)
    BY <1>1, SameChain DEF TableInv
  <2>2. timestamps[o] \in 0 .. MaxTime /\ now \in 0 .. MaxTime
    BY <1>2, EntryFacts
  <2>3. last_time \in 0 .. now
    BY <1>7, <2>2, TimeAssumption DEF last_time
  <2>4. S!Next
    BY <2>1, <2>3 DEF S!Next
  <2> QED
    BY <2>1, <2>4, TableSizes, S!NextInv
<1>10. Coherent'
  <2> HIDE DEF o
  <2>1. used = {vals[x] : x \in Fm!Busy} /\ Coherent
    BY DEF TableInv, Coherent
  <2>2. \A x \in Fm!Busy' : x \in Fm!Busy /\ vals'[x] = vals[x] /\ keyps'[x] = keyps[x] /\ vals[x] # o
    BY <1>4, <1>5, <1>6, EntryFacts
  <2>3. used' = {vals'[x] : x \in Fm!Busy'}
    BY <1>4, <1>5, <1>6, <1>7, <2>1, <2>2
  <2> QED
    BY <2>1, <2>2, <2>3 DEF Coherent
<1> QED
  BY <1>4, <1>5, <1>6, <1>7, <1>8, <1>9, <1>10 DEF TableInv

\* dchain_rejuvenate_index on an index in use: the index gets the current time.
LEMMA RejuvenateEffect ==
    ASSUME TableInv, NEW i \in used, Heap!Rejuvenate(i)
    PROVE  S!IInv' /\ timestamps' = [timestamps EXCEPT ![i] = now] /\ UNCHANGED <<used, now>>
<1>1. i \in S!Index /\ S!Rejuvenate(i) /\ S!IInv
  BY EntryFacts, SameChain DEF TableInv
<1>2. S!IInv'
  BY <1>1, TableSizes, S!RejuvenateInv
<1>3. S!IsAllocated(i)
  <2>1. S!AllocatedExact
    BY <1>1, TableSizes, S!AllocatedTest DEF S!IInv
  <2> QED
    BY <1>1, <2>1 DEF S!AllocatedExact
<1> QED
  BY <1>1, <1>2, <1>3 DEF S!Rejuvenate

\* A packet of a known flow gives its entry the current time.
LEMMA RefreshEffect ==
    ASSUME TableInv, NEW f \in Flow, Present(f), Refresh(f)
    PROVE  /\ TableInv'
           /\ \E s \in Fm!Busy :
                 /\ fv[keyps[s]] = f /\ IndexOf(f) = vals[s]
                 /\ timestamps' = [timestamps EXCEPT ![vals[s]] = now]
                 /\ Fm!Busy' = Fm!Busy
                 /\ UNCHANGED <<used, keyps, vals, fv, now>>
<1>1. PICK s \in Fm!Busy : fv[keyps[s]] = f /\ IndexOf(f) = vals[s]
  BY PresentFacts
<1>2. vals[s] \in used /\ Heap!Rejuvenate(vals[s]) /\ Fm!Get(f)
  BY <1>1, EntryFacts DEF Refresh
<1>3. S!IInv' /\ timestamps' = [timestamps EXCEPT ![vals[s]] = now] /\ UNCHANGED <<used, now>>
  BY <1>2, RejuvenateEffect
<1>4. UNCHANGED <<busybits, keyps, khs, chns, vals, size, fv>>
  BY <1>2 DEF Fm!Get, Fm!slots
<1>5. S!MapInv'
  <2>1. S!MapInv /\ S!Get(f)
    BY <1>2, SameMap DEF TableInv
  <2>2. S!MapNext
    BY <2>1 DEF S!MapNext
  <2> QED
    BY <2>1, <2>2, TableSizes, S!MapNextInv
<1>6. Fm!Busy' = Fm!Busy
  BY <1>4 DEF Fm!Busy
<1>7. Coherent'
  BY <1>3, <1>4, <1>6, FrameCoherent DEF TableInv
<1> QED
  BY <1>1, <1>3, <1>4, <1>5, <1>6, <1>7 DEF TableInv

\* A packet of an unknown flow, with an index free, adds an entry to the three.
LEMMA InsertEffect ==
    ASSUME TableInv, NEW f \in Flow, ~Present(f), Insert(f)
    PROVE  /\ TableInv'
           /\ Fresh \in Index \ used
           /\ \E s \in Index :
                 /\ s \notin Fm!Busy /\ Fm!Busy' = Fm!Busy \cup {s}
                 /\ keyps' = [keyps EXCEPT ![s] = Fresh] /\ vals' = [vals EXCEPT ![s] = Fresh]
                 /\ fv' = [fv EXCEPT ![Fresh] = f]
                 /\ timestamps' = [timestamps EXCEPT ![Fresh] = now]
                 /\ used' = used \cup {Fresh} /\ now' = now
<1> DEFINE i == Fresh
<1>1. Heap!Allocate /\ Fm!PutSlot(f, i, i) /\ next[S!FREE_LIST_HEAD] # S!FREE_LIST_HEAD
  BY SameChain DEF Insert, Heap!Allocate
<1>2. i \in Index /\ i \notin used /\ Fm!MayPut(f, i)
  BY <1>1, MayInsert
<1>3. S!MapInv /\ S!Put(f, i, i)
  BY <1>1, <1>2, SameMap DEF TableInv, S!Put
<1>4. /\ timestamps' = [timestamps EXCEPT ![i] = now] /\ used' = used \cup {i} /\ now' = now
  BY <1>1 DEF Heap!Allocate, Fresh
<1>5. S!IInv'
  <2>1. S!IInv /\ S!Allocate
    BY <1>1, SameChain DEF TableInv
  <2> QED
    BY <2>1, TableSizes, S!AllocateInv
<1> HIDE DEF i
<1>6. PICK s \in S!Slot :
          /\ s \notin S!Busy /\ S!Busy' = S!Busy \cup {s}
          /\ keyps' = [keyps EXCEPT ![s] = i] /\ vals' = [vals EXCEPT ![s] = i]
          /\ fv' = [fv EXCEPT ![i] = f]
  BY <1>2, <1>3, TableSizes, S!PutEffect
<1>7. S!MapInv'
  BY <1>2, <1>3, TableSizes, S!PutInv
<1>8. s \in Index /\ s \notin Fm!Busy /\ Fm!Busy' = Fm!Busy \cup {s}
  <2>1. Fm!Busy' = S!Busy'
    BY DEF Fm!Busy, S!Busy, Fm!Slot, S!Slot
  <2> QED
    BY <1>6, <2>1, SameMap
<1>9. Coherent'
  <2>1. used = {vals[x] : x \in Fm!Busy} /\ Coherent
    BY DEF TableInv, Coherent
  <2>2. /\ vals'[s] = i /\ keyps'[s] = i
        /\ \A x \in Fm!Busy : vals'[x] = vals[x] /\ keyps'[x] = keyps[x] /\ vals[x] # i
    BY <1>2, <1>6, <1>8, EntryFacts
  <2>3. used' = {vals'[x] : x \in Fm!Busy'}
    BY <1>4, <1>8, <2>1, <2>2
  <2> QED
    BY <1>8, <2>1, <2>2, <2>3 DEF Coherent
<1> QED
  BY <1>2, <1>4, <1>5, <1>6, <1>7, <1>8, <1>9 DEF TableInv, i

\* With every index in use an unknown flow changes nothing in the table.
LEMMA RefuseEffect ==
    ASSUME TableInv, NEW f \in Flow, Refuse(f)
    PROVE  /\ TableInv' /\ used = Index
           /\ Fm!Busy' = Fm!Busy /\ UNCHANGED <<used, keyps, vals, fv, timestamps, now>>
<1>1. Heap!AllocateFull /\ Fm!Get(f)
  BY DEF Refuse
<1>2. UNCHANGED <<used, timestamps, now>>
  BY <1>1 DEF Heap!AllocateFull
<1>3. UNCHANGED <<busybits, keyps, khs, chns, vals, size, fv>>
  BY <1>1 DEF Fm!Get, Fm!slots
<1>4. S!IInv /\ S!AllocateFull /\ S!MapInv /\ S!Get(f)
  BY <1>1, SameChain, SameMap DEF TableInv
<1>5. S!IInv'
  <2>1. S!Next
    BY <1>4 DEF S!Next
  <2> QED
    BY <1>4, <2>1, TableSizes, S!NextInv
<1>6. S!MapInv'
  <2>1. S!MapNext
    BY <1>4 DEF S!MapNext
  <2> QED
    BY <1>4, <2>1, TableSizes, S!MapNextInv
<1>7. Fm!Busy' = Fm!Busy
  BY <1>3 DEF Fm!Busy
<1>8. Coherent'
  BY <1>2, <1>3, <1>7, FrameCoherent DEF TableInv
<1>9. used = Index
  <2>1. next[S!FREE_LIST_HEAD] = S!FREE_LIST_HEAD
    BY <1>4 DEF S!AllocateFull
  <2>2. used = S!Index
    BY <1>4, <2>1, TableSizes, S!FreshFacts
  <2> QED
    BY <2>2, SameChain
<1> QED
  BY <1>2, <1>3, <1>5, <1>6, <1>7, <1>8, <1>9 DEF TableInv

\* The clock may move on while the table stays as it is.
LEMMA LaterInv ==
    ASSUME TableInv, UNCHANGED <<heap, fm, fv>>, now' \in now .. MaxTime
    PROVE  TableInv'
<1>1. UNCHANGED <<next, prev, timestamps, used, older, sooner, chainRet>>
      /\ UNCHANGED <<busybits, keyps, khs, chns, vals, size, mapRet>>
  BY DEF heap, fm
<1>2. now \in 0 .. MaxTime
  BY EntryFacts
<1>3. S!IInv'
  <2>1. S!IInv /\ chainRet \in S!Answer
    BY DEF TableInv, S!IInv, S!TypeOK
  <2>2. chainRet' \in S!Answer
    BY <1>1, <2>1
  <2>3. UNCHANGED <<S!cells, timestamps, used, older, sooner>>
    BY <1>1 DEF S!cells
  <2>4. now' \in S!Time /\ now' >= now
    BY <1>2, TimeAssumption DEF S!Time
  <2> QED
    BY <2>1, <2>2, <2>3, <2>4, TableSizes, S!FrameInv
<1>4. S!MapInv'
  BY FrameMap DEF TableInv
<1>5. Fm!Busy' = Fm!Busy
  BY <1>1 DEF Fm!Busy
<1> QED
  BY <1>1, <1>3, <1>4, <1>5, FrameCoherent DEF TableInv

\* A call that leaves the whole table alone.
LEMMA FrameInv == ASSUME TableInv, UNCHANGED tableVars PROVE TableInv' /\ Fm!Busy' = Fm!Busy
<1>1. now' \in now .. MaxTime /\ UNCHANGED <<heap, fm, fv>>
  BY EntryFacts, TimeAssumption DEF tableVars
<1>2. Fm!Busy' = Fm!Busy
  BY DEF tableVars, fm, Fm!Busy
<1> QED
  BY <1>1, <1>2, LaterInv

\* dchain_is_index_allocated tells the indexes in use.
LEMMA AllocatedFacts ==
    ASSUME TableInv, NEW i \in Index
    PROVE  Heap!IsAllocated(i) <=> i \in used
<1>1. S!IInv /\ i \in S!Index
  BY SameChain DEF TableInv
<1>2. S!AllocatedExact
  BY <1>1, TableSizes, S!AllocatedTest DEF S!IInv
<1> QED
  BY <1>1, <1>2, SameChain DEF S!AllocatedExact

\* An index may be refreshed without a look at the map.
LEMMA TouchEffect ==
    ASSUME TableInv, NEW i \in used, Heap!Rejuvenate(i), UNCHANGED <<fm, fv>>
    PROVE  /\ TableInv' /\ Fm!Busy' = Fm!Busy
           /\ timestamps' = [timestamps EXCEPT ![i] = now]
           /\ UNCHANGED <<used, keyps, vals, fv, now>>
<1>1. S!IInv' /\ timestamps' = [timestamps EXCEPT ![i] = now] /\ UNCHANGED <<used, now>>
  BY RejuvenateEffect
<1>2. Fm!Busy' = Fm!Busy /\ UNCHANGED <<keyps, vals>>
  BY DEF fm, Fm!Busy
<1>3. S!MapInv' /\ Coherent'
  BY <1>1, <1>2, FrameMap, FrameCoherent DEF TableInv
<1> QED
  BY <1>1, <1>2, <1>3 DEF TableInv

------------------------------------------------------------------------------
(* What a step of the table does to the entries that are there already      *)

\* An entry after the step was there before, or is the entry of a new flow.
EntriesKept ==
    \A s \in Fm!Busy' :
        \/ s \in Fm!Busy /\ vals'[s] = vals[s] /\ fv'[keyps'[s]] = fv[keyps[s]]
        \/ \A t \in Fm!Busy : fv[keyps[t]] # fv'[keyps'[s]]

\* A flow is known when it has an entry, whose index the map gives.
Known(f) == \E s \in Fm!Busy : fv[keyps[s]] = f /\ IndexOf(f) = vals[s]

\* The same of the next state.
LEMMA KnownNext == ASSUME NEW f \in Flow PROVE TableInv' /\ Present(f)' => Known(f)'
<1>1. TableInv /\ Present(f) => Known(f)
  BY PresentFacts DEF Known
<1> QED
  BY <1>1, PTL

\* While a flow is known the map gives it the same index.
LEMMA IndexKept ==
    ASSUME TableInv, TableInv', EntriesKept, NEW f \in Flow, Present(f), Present(f)'
    PROVE  IndexOf(f)' = IndexOf(f)
<1>1. PICK s \in Fm!Busy : fv[keyps[s]] = f /\ IndexOf(f) = vals[s]
  BY PresentFacts
<1>2. PICK t \in Fm!Busy' : fv'[keyps'[t]] = f /\ IndexOf(f)' = vals'[t]
  BY KnownNext DEF Known
<1>3. t \in Fm!Busy /\ vals'[t] = vals[t] /\ fv[keyps[t]] = f
  BY <1>1, <1>2 DEF EntriesKept
<1>4. t = s
  BY <1>1, <1>3, EntryFacts
<1> QED
  BY <1>1, <1>2, <1>3, <1>4

\* No operation moves an entry.
LEMMA OperationsKeepEntries ==
    ASSUME TableInv
    PROVE  /\ Fm!Busy' = Fm!Busy /\ UNCHANGED <<keyps, vals, fv>> => EntriesKept
           /\ ExpireOne => EntriesKept
           /\ \A f \in Flow : Present(f) /\ Refresh(f) => EntriesKept
           /\ \A f \in Flow : ~Present(f) /\ Insert(f) => EntriesKept
<1>1. ASSUME Fm!Busy' = Fm!Busy, UNCHANGED <<keyps, vals, fv>> PROVE EntriesKept
  BY <1>1 DEF EntriesKept
<1>2. ASSUME ExpireOne PROVE EntriesKept
  BY <1>2, ExpireOneEffect DEF EntriesKept
<1>3. ASSUME NEW f \in Flow, Present(f), Refresh(f) PROVE EntriesKept
  BY <1>3, RefreshEffect DEF EntriesKept
<1>4. ASSUME NEW f \in Flow, ~Present(f), Insert(f) PROVE EntriesKept
  <2>1. PICK s \in Index :
            /\ Fresh \notin used /\ Fresh \in Index
            /\ s \notin Fm!Busy /\ Fm!Busy' = Fm!Busy \cup {s}
            /\ keyps' = [keyps EXCEPT ![s] = Fresh] /\ vals' = [vals EXCEPT ![s] = Fresh]
            /\ fv' = [fv EXCEPT ![Fresh] = f]
    BY <1>4, InsertEffect
  <2>2. fv'[keyps'[s]] = f /\ \A t \in Fm!Busy : fv[keyps[t]] # f
    BY <1>4, <2>1, AbsentFacts, EntryFacts
  <2>3. ASSUME NEW t \in Fm!Busy
        PROVE  vals'[t] = vals[t] /\ fv'[keyps'[t]] = fv[keyps[t]]
    BY <2>1, EntryFacts
  <2> QED
    BY <2>1, <2>2, <2>3 DEF EntriesKept
<1> QED
  BY <1>1, <1>2, <1>3, <1>4
------------------------------------------------------------------------------
(* The table as one value.  The modules of the other network functions are  *)
(* written with AgedTable, where a table is a function from its keys to the *)
(* index and the time stamp of each.  Whatever a network function does with *)
(* its chain, vector and map, the three together are that function.         *)

Aged == INSTANCE AgedTable

\* The flows of the table, each with the index the map gives for it and the
\* time of its last use.
Entries == [f \in {fv[keyps[s]] : s \in Fm!Busy} |->
               [index |-> IndexOf(f), stamp |-> timestamps[IndexOf(f)]]]

\* lb_get_backend, for a flow whose backend is gone: map_erase, then
\* dchain_free_index
Remove(id) == Fm!EraseSlot(id) /\ Heap!Free(IndexOf(id))

\* What a network function may do with its table: an iteration of the expiry
\* loop, a known flow refreshed or removed, a new one entered or refused, an
\* index it holds refreshed without a look at the map, and time that passes.
Uses ==
    \/ ExpireOne
    \/ \E f \in Flow :
          \/ Present(f) /\ (Refresh(f) \/ Remove(f))
          \/ ~Present(f) /\ (Insert(f) \/ Refuse(f))
    \/ \E i \in used : Heap!Rejuvenate(i) /\ UNCHANGED <<fm, fv>>
    \/ now' \in now .. MaxTime /\ UNCHANGED <<heap, fm, fv>>

TableRuns == TableInit /\ [][Uses]_tableVars

\* What the expiry loop has to leave.
Remaining == Aged!expire_items_single_map(Entries, last_time)

\* The calls that only ask get the answer the value gives: map_get, the test
\* of an index, the call that ends the expiry loop, and whether an index is
\* free for a new flow.
AgedAnswers ==
    /\ Entries \in Aged!Tables(Flow, MaxFlows, 0 .. now)
    /\ \A f, g \in DOMAIN Entries : Entries[f].index = Entries[g].index => f = g
    /\ \A f \in Flow : /\ Present(f) <=> f \in DOMAIN Entries
                       /\ Present(f) => IndexOf(f) = Entries[f].index
    /\ \A i \in Index : Heap!IsAllocated(i) <=> Aged!IsAllocated(Entries, i)
    /\ Expired <=> Entries = Remaining
    /\ IF next[Heap!FREE_LIST_HEAD] = Heap!FREE_LIST_HEAD
       THEN Aged!Free(Entries, MaxFlows) = {}
       ELSE Fresh \in Aged!Free(Entries, MaxFlows)

\* The calls that change the table change the value as AgedTable says.  An
\* iteration of the expiry loop erases an entry that has been idle for too
\* long, and for longest, so that what the loop has to leave stays the same.
AgedChanges ==
    /\ ExpireOne =>
          \E f \in DOMAIN Entries :
             /\ Entries[f].stamp < last_time
             /\ \A g \in DOMAIN Entries : Entries[f].stamp <= Entries[g].stamp
             /\ Entries' = Aged!Erase(Entries, f) /\ Remaining' = Remaining
    /\ \A f \in Flow :
          /\ Present(f) /\ Refresh(f) => Entries' = Aged!Rejuvenate(Entries, f, now)
          /\ Present(f) /\ Remove(f) => Entries' = Aged!Erase(Entries, f)
          /\ ~Present(f) /\ Insert(f) => Entries' = Aged!Enter(Entries, f, Fresh, now)
          /\ ~Present(f) /\ Refuse(f) => Entries' = Entries
    /\ \A f \in DOMAIN Entries :
          Heap!Rejuvenate(Entries[f].index) /\ UNCHANGED <<fm, fv>> =>
             Entries' = Aged!Rejuvenate(Entries, f, now)
    /\ now' \in now .. MaxTime /\ UNCHANGED <<heap, fm, fv>> => Entries' = Entries

LEMMA SameFree == \A i : Heap!Free(i) <=> S!Free(i)
<1>1. ASSUME NEW c PROVE Heap!PushFree(c) <=> S!PushFree(c)
  BY DEF Heap!PushFree, S!PushFree, Heap!FREE_LIST_HEAD, S!FREE_LIST_HEAD
<1>2. Heap!INDEX_SHIFT = S!INDEX_SHIFT /\ Heap!Index = S!Index
  BY SameChain
<1>3. ASSUME NEW i PROVE Heap!Release(i) <=> S!Release(i)
  BY <1>1, <1>2 DEF Heap!Release, S!Release, Heap!Without, S!Without
<1>4. ASSUME NEW i PROVE Heap!IsAllocated(i) <=> S!IsAllocated(i)
  BY SameChain
<1> QED
  BY <1>3, <1>4 DEF Heap!Free, S!Free, Heap!cells, S!cells

\* Removing a known flow takes its entry out of the three structures.
LEMMA RemoveEffect ==
    ASSUME TableInv, NEW f \in Flow, Present(f), Remove(f)
    PROVE  /\ TableInv'
           /\ \E s \in Fm!Busy :
                 /\ fv[keyps[s]] = f /\ Fm!Busy' = Fm!Busy \ {s}
                 /\ UNCHANGED <<keyps, vals, fv, timestamps, now>>
<1>1. PICK t \in Fm!Busy : fv[keyps[t]] = f /\ IndexOf(f) = vals[t]
  BY PresentFacts
<1> DEFINE o == vals[t]
<1>2. /\ Fm!EraseSlot(f) /\ Heap!Free(o) /\ o \in used /\ o \in Index
  BY <1>1, EntryFacts DEF Remove
<1>3. S!MapInv /\ S!Erase(f)
  BY <1>1, <1>2, SameMap DEF TableInv, S!Erase, S!MayErase
<1>4. PICK s \in S!Busy :
          /\ fv[keyps[s]] = f /\ S!Busy' = S!Busy \ {s}
          /\ UNCHANGED <<keyps, vals, fv>>
  BY <1>3, TableSizes, S!EraseEffect
<1>5. s = t /\ s \in Fm!Busy /\ Fm!Busy' = Fm!Busy \ {s}
  <2>1. Fm!Busy' = S!Busy'
    BY DEF Fm!Busy, S!Busy, Fm!Slot, S!Slot
  <2> QED
    BY <1>1, <1>4, <2>1, EntryFacts, SameMap
<1>6. used' = used \ {o} /\ timestamps' = timestamps /\ now' = now
  <2>1. Heap!IsAllocated(o)
    BY <1>2, AllocatedFacts
  <2> QED
    BY <1>2, <2>1 DEF Heap!Free, Heap!Release
<1>7. S!MapInv'
  BY <1>3, TableSizes, S!EraseInv
<1>8. S!IInv'
  <2>1. S!IInv /\ S!Free(o) /\ o \in S!Index
    BY <1>2, SameChain, SameFree DEF TableInv
  <2>2. S!Next
    BY <2>1 DEF S!Next
  <2> QED
    BY <2>1, <2>2, TableSizes, S!NextInv
<1>9. Coherent'
  <2>1. used = {vals[x] : x \in Fm!Busy} /\ Coherent
    BY DEF TableInv, Coherent
  <2>2. ASSUME NEW x \in Fm!Busy'
        PROVE  x \in Fm!Busy /\ vals'[x] = vals[x] /\ keyps'[x] = keyps[x] /\ vals[x] # o
    BY <1>4, <1>5, <2>1 DEF Coherent
  <2> HIDE DEF o
  <2>3. used' = {vals'[x] : x \in Fm!Busy'}
    <3>1. o = vals[s]
      BY <1>5 DEF o
    <3> QED
      BY <1>5, <1>6, <2>1, <2>2, <3>1
  <2> QED
    BY <2>1, <2>2, <2>3 DEF Coherent
<1> QED
  BY <1>4, <1>5, <1>6, <1>7, <1>8, <1>9 DEF TableInv

\* Nothing a network function does with its table breaks it.
LEMMA UsesInv == TableInv /\ [Uses]_tableVars => TableInv'
<1> SUFFICES ASSUME TableInv, [Uses]_tableVars PROVE TableInv'
  OBVIOUS
<1>1. CASE ExpireOne
  BY <1>1, ExpireOneEffect
<1>2. ASSUME NEW f \in Flow, Present(f), Refresh(f) \/ Remove(f) PROVE TableInv'
  BY <1>2, RefreshEffect, RemoveEffect
<1>3. ASSUME NEW f \in Flow, ~Present(f), Insert(f) \/ Refuse(f) PROVE TableInv'
  BY <1>3, InsertEffect, RefuseEffect
<1>4. ASSUME NEW i \in used, Heap!Rejuvenate(i), UNCHANGED <<fm, fv>> PROVE TableInv'
  BY <1>4, TouchEffect
<1>5. CASE now' \in now .. MaxTime /\ UNCHANGED <<heap, fm, fv>>
  BY <1>5, LaterInv
<1>6. CASE UNCHANGED tableVars
  BY <1>6, FrameInv
<1> QED
  BY <1>1, <1>2, <1>3, <1>4, <1>5, <1>6 DEF Uses

LEMMA TableInductive == TableRuns => []TableInv
BY TableInitInv, UsesInv, PTL DEF TableRuns

\* An entry of the map is one of the value, index and time stamp.
EntriesAgree ==
    /\ Entries = [f \in {fv[keyps[s]] : s \in Fm!Busy} |-> Entries[f]]
    /\ \A s \in Fm!Busy :
          Entries[fv[keyps[s]]] = [index |-> vals[s], stamp |-> timestamps[vals[s]]]

LEMMA EntriesFacts == TableInv => EntriesAgree
<1> SUFFICES ASSUME TableInv PROVE EntriesAgree
  OBVIOUS
<1>1. ASSUME NEW s \in Fm!Busy PROVE IndexOf(fv[keyps[s]]) = vals[s]
  <2>1. S!MapInv /\ s \in S!Busy
    BY SameMap DEF TableInv
  <2>2. S!find_key(fv[keyps[s]]) = s
    BY <2>1, TableSizes, S!FindsEntry
  <2> QED
    BY <2>2, SameMap DEF IndexOf
<1>2. ASSUME NEW s \in Fm!Busy
      PROVE  Entries[fv[keyps[s]]] = [index |-> vals[s], stamp |-> timestamps[vals[s]]]
  BY <1>1 DEF Entries
<1>3. Entries = [f \in {fv[keyps[s]] : s \in Fm!Busy} |-> Entries[f]]
  BY DEF Entries
<1> QED
  BY <1>2, <1>3 DEF EntriesAgree

\* The same of the next state.
LEMMA EntriesFactsNext ==
    ASSUME TableInv'
    PROVE  /\ Entries' = [f \in {fv'[keyps'[s]] : s \in Fm!Busy'} |-> Entries'[f]]
           /\ \A s \in Fm!Busy' : Entries'[fv'[keyps'[s]]]
                                  = [index |-> vals'[s], stamp |-> timestamps'[vals'[s]]]
<1>1. EntriesAgree'
  BY EntriesFacts, PTL
<1> QED
  BY <1>1 DEF EntriesAgree

\* The entries of the next state are those of t if they are of the same flows,
\* each with the same index and the same time stamp.
LEMMA EntriesAre ==
    ASSUME TableInv', NEW T, T = [f \in DOMAIN T |-> T[f]],
           DOMAIN T = {fv'[keyps'[s]] : s \in Fm!Busy'},
           \A s \in Fm!Busy' : T[fv'[keyps'[s]]]
                               = [index |-> vals'[s], stamp |-> timestamps'[vals'[s]]]
    PROVE  Entries' = T
<1>1. ASSUME NEW f \in DOMAIN T PROVE Entries'[f] = T[f]
  <2>1. PICK s \in Fm!Busy' : f = fv'[keyps'[s]]
    OBVIOUS
  <2> QED
    BY <2>1, EntriesFactsNext
<1>2. Entries' = [f \in DOMAIN T |-> Entries'[f]]
  BY EntriesFactsNext
<1>3. Entries' = [f \in DOMAIN T |-> T[f]]
  BY <1>1, <1>2
<1> QED
  BY <1>3

\* The flows of the value are those of the map's entries.
LEMMA FlowsOfEntries ==
    ASSUME TableInv
    PROVE  /\ DOMAIN Entries = {fv[keyps[s]] : s \in Fm!Busy}
           /\ \A s \in Fm!Busy : /\ fv[keyps[s]] \in Flow
                                 /\ Entries[fv[keyps[s]]].index = vals[s]
                                 /\ Entries[fv[keyps[s]]].stamp = timestamps[vals[s]]
<1>1. DOMAIN Entries = {fv[keyps[s]] : s \in Fm!Busy}
  BY DEF Entries
<1>2. ASSUME NEW s \in Fm!Busy PROVE fv[keyps[s]] \in Flow
  BY EntryFacts
<1>3. ASSUME NEW s \in Fm!Busy
      PROVE  /\ Entries[fv[keyps[s]]].index = vals[s]
             /\ Entries[fv[keyps[s]]].stamp = timestamps[vals[s]]
  <2>1. EntriesAgree
    BY EntriesFacts
  <2>2. Entries[fv[keyps[s]]] = [index |-> vals[s], stamp |-> timestamps[vals[s]]]
    BY <2>1 DEF EntriesAgree
  <2> QED
    BY <2>2
<1> QED
  BY <1>1, <1>2, <1>3

LEMMA EntryErased ==
    ASSUME TableInv, TableInv', NEW s \in Fm!Busy, Fm!Busy' = Fm!Busy \ {s},
           UNCHANGED <<keyps, vals, fv, timestamps>>
    PROVE  Entries' = Aged!Erase(Entries, fv[keyps[s]])
<1> DEFINE k == fv[keyps[s]]
           T == [f \in DOMAIN Entries \ {k} |-> Entries[f]]
<1>1. Aged!Erase(Entries, k) = T
  BY DEF Aged!Erase, Aged!Restrict
<1>2. \A t \in Fm!Busy : fv[keyps[t]] = k <=> t = s
  BY EntryFacts
<1> HIDE DEF k
<1>3. {fv'[keyps'[t]] : t \in Fm!Busy'} = DOMAIN Entries \ {k}
  BY <1>2, FlowsOfEntries
<1>4. ASSUME NEW t \in Fm!Busy'
      PROVE  T[fv'[keyps'[t]]] = [index |-> vals'[t], stamp |-> timestamps'[vals'[t]]]
  <2>1. t \in Fm!Busy /\ fv'[keyps'[t]] = fv[keyps[t]] /\ fv[keyps[t]] \in DOMAIN Entries \ {k}
    BY <1>3
  <2>2. Entries[fv[keyps[t]]] = [index |-> vals[t], stamp |-> timestamps[vals[t]]]
    BY <2>1, EntriesFacts DEF EntriesAgree
  <2> QED
    BY <2>1, <2>2
<1>5. Entries' = T
  <2>1. DOMAIN T = {fv'[keyps'[t]] : t \in Fm!Busy'} /\ T = [f \in DOMAIN T |-> T[f]]
    BY <1>3
  <2> HIDE DEF T
  <2> QED
    BY <1>4, <2>1, EntriesAre
<1> QED
  BY <1>1, <1>5 DEF k

LEMMA EntryRefreshed ==
    ASSUME TableInv, TableInv', NEW s \in Fm!Busy, Fm!Busy' = Fm!Busy,
           timestamps' = [timestamps EXCEPT ![vals[s]] = now], UNCHANGED <<keyps, vals, fv>>
    PROVE  Entries' = Aged!Rejuvenate(Entries, fv[keyps[s]], now)
<1> DEFINE k == fv[keyps[s]]
           T == Aged!Rejuvenate(Entries, k, now)
<1>1. T = [Entries EXCEPT ![k].stamp = now]
  BY DEF Aged!Rejuvenate
<1>2. /\ \A t \in Fm!Busy : fv[keyps[t]] = k <=> t = s
      /\ \A t \in Fm!Busy : vals[t] = vals[s] <=> t = s
  BY EntryFacts DEF TableInv, Coherent
<1> HIDE DEF k
<1>3. DOMAIN T = {fv'[keyps'[t]] : t \in Fm!Busy'} /\ T = [f \in DOMAIN T |-> T[f]]
  <2>1. DOMAIN T = DOMAIN Entries /\ T = [f \in DOMAIN T |-> T[f]]
    BY <1>1
  <2> QED
    BY <2>1, FlowsOfEntries
<1>4. ASSUME NEW t \in Fm!Busy
      PROVE  T[fv'[keyps'[t]]] = [index |-> vals'[t], stamp |-> timestamps'[vals'[t]]]
  <2>1. Entries[fv[keyps[t]]] = [index |-> vals[t], stamp |-> timestamps[vals[t]]]
    BY EntriesFacts DEF EntriesAgree
  <2>2. fv[keyps[t]] \in DOMAIN Entries /\ vals[t] \in Index
    BY FlowsOfEntries, EntryFacts
  <2>3. timestamps'[vals[t]] = IF t = s THEN now ELSE timestamps[vals[t]]
    BY <1>2, <2>2, EntryFacts
  <2>4. T[fv[keyps[t]]] = IF t = s THEN [Entries[fv[keyps[t]]] EXCEPT !.stamp = now]
                                   ELSE Entries[fv[keyps[t]]]
    BY <1>1, <1>2, <2>2
  <2> HIDE DEF T
  <2> QED
    BY <2>1, <2>3, <2>4
<1> HIDE DEF T
<1>5. Entries' = T
  BY <1>3, <1>4, EntriesAre
<1> QED
  BY <1>5 DEF T, k

LEMMA EntryEntered ==
    ASSUME TableInv, TableInv', NEW f \in Flow, NEW s, NEW i \in Index,
           s \notin Fm!Busy, Fm!Busy' = Fm!Busy \cup {s},
           \A t \in Fm!Busy : /\ keyps'[t] = keyps[t] /\ vals'[t] = vals[t]
                              /\ fv'[keyps'[t]] = fv[keyps[t]] /\ fv[keyps[t]] # f
                              /\ timestamps'[vals'[t]] = timestamps[vals[t]],
           keyps'[s] = i, vals'[s] = i, fv'[i] = f, timestamps'[i] = now
    PROVE  Entries' = Aged!Enter(Entries, f, i, now)
<1> DEFINE T == [x \in DOMAIN Entries \cup {f} |->
                   IF x = f THEN [index |-> i, stamp |-> now] ELSE Entries[x]]
<1>1. Aged!Enter(Entries, f, i, now) = T
  BY DEF Aged!Enter
<1>2. {fv'[keyps'[t]] : t \in Fm!Busy'} = DOMAIN Entries \cup {f}
  BY FlowsOfEntries
<1>3. ASSUME NEW t \in Fm!Busy'
      PROVE  T[fv'[keyps'[t]]] = [index |-> vals'[t], stamp |-> timestamps'[vals'[t]]]
  <2>1. CASE t = s
    BY <2>1
  <2>2. CASE t \in Fm!Busy
    <3>1. Entries[fv[keyps[t]]] = [index |-> vals[t], stamp |-> timestamps[vals[t]]]
      BY <2>2, EntriesFacts DEF EntriesAgree
    <3>2. fv[keyps[t]] \in DOMAIN Entries
      BY <2>2, FlowsOfEntries
    <3>3. T[fv[keyps[t]]] = Entries[fv[keyps[t]]]
      BY <2>2, <3>2
    <3> HIDE DEF T
    <3> QED
      BY <2>2, <3>1, <3>3
  <2> QED
    BY <2>1, <2>2
<1>4. DOMAIN T = {fv'[keyps'[t]] : t \in Fm!Busy'} /\ T = [x \in DOMAIN T |-> T[x]]
  BY <1>2
<1> HIDE DEF T
<1> QED
  BY <1>1, <1>3, <1>4, EntriesAre

LEMMA EntriesUntouched ==
    ASSUME TableInv, TableInv', Fm!Busy' = Fm!Busy, UNCHANGED <<keyps, vals, fv, timestamps>>
    PROVE  Entries' = Entries
<1>1. /\ Entries = [f \in DOMAIN Entries |-> Entries[f]]
      /\ DOMAIN Entries = {fv'[keyps'[s]] : s \in Fm!Busy'}
      /\ \A s \in Fm!Busy' : Entries[fv'[keyps'[s]]]
                             = [index |-> vals'[s], stamp |-> timestamps'[vals'[s]]]
  BY EntriesFacts, FlowsOfEntries DEF EntriesAgree
<1> QED
  BY <1>1, EntriesAre

\* Each entry of the value is that of an index in use, and the other way round.
LEMMA EntryOf ==
    ASSUME TableInv
    PROVE  /\ \A f \in DOMAIN Entries :
                 /\ f \in Flow /\ Entries[f].index \in used
                 /\ fv[Entries[f].index] = f /\ Entries[f].stamp = timestamps[Entries[f].index]
                 /\ Entries[f] = [index |-> Entries[f].index, stamp |-> Entries[f].stamp]
           /\ \A i \in used : fv[i] \in DOMAIN Entries /\ Entries[fv[i]].index = i
<1>1. ASSUME NEW f \in DOMAIN Entries
      PROVE  /\ f \in Flow /\ Entries[f].index \in used
             /\ fv[Entries[f].index] = f /\ Entries[f].stamp = timestamps[Entries[f].index]
             /\ Entries[f] = [index |-> Entries[f].index, stamp |-> Entries[f].stamp]
  <2>1. PICK s \in Fm!Busy : f = fv[keyps[s]]
    BY FlowsOfEntries
  <2>2. Entries[f] = [index |-> vals[s], stamp |-> timestamps[vals[s]]]
    BY <2>1, EntriesFacts DEF EntriesAgree
  <2>3. f \in Flow /\ vals[s] \in used /\ fv[vals[s]] = f
    BY <2>1, EntryFacts
  <2> QED
    BY <2>2, <2>3
<1>2. ASSUME NEW i \in used PROVE fv[i] \in DOMAIN Entries /\ Entries[fv[i]].index = i
  <2>1. PICK s \in Fm!Busy : vals[s] = i
    BY EntryFacts
  <2>2. keyps[s] = i
    BY <2>1, EntryFacts
  <2> QED
    BY <2>1, <2>2, FlowsOfEntries
<1> QED
  BY <1>1, <1>2

\* The indexes of the value are those in use.
LEMMA InUseFacts ==
    ASSUME TableInv
    PROVE  Aged!InUse(Entries) = used /\ Aged!Free(Entries, MaxFlows) = Index \ used
<1>1. Aged!InUse(Entries) = used
  BY EntryOf DEF Aged!InUse
<1> QED
  BY <1>1 DEF Aged!Free, Index

\* The expiry loop ends when the entries left are those it has to leave.
LEMMA ExpiredFacts ==
    ASSUME TableInv
    PROVE  Expired <=> Entries = Remaining
<1> DEFINE keep == {f \in DOMAIN Entries : Entries[f].stamp >= last_time}
<1>0. last_time \in Int
  BY EntryFacts, TimeAssumption DEF last_time
<1>1. Remaining = [f \in keep |-> Entries[f]]
  BY DEF Remaining, Aged!expire_items_single_map, Aged!Restrict
<1>2. Entries = Remaining <=> keep = DOMAIN Entries
  <2>1. Entries = [f \in DOMAIN Entries |-> Entries[f]]
    BY DEF Entries
  <2> HIDE DEF keep
  <2> QED
    BY <1>1, <2>1
<1>3. ASSUME Expired, NEW f \in DOMAIN Entries PROVE Entries[f].stamp >= last_time
  <2> DEFINE i == Entries[f].index
  <2>1. i \in used /\ Entries[f].stamp = timestamps[i]
    BY EntryOf
  <2> HIDE DEF i
  <2>2. /\ S!HasOldest /\ S!Oldest \in used /\ S!IsAllocated(S!Oldest)
        /\ i # S!Oldest => timestamps[S!Oldest] <= timestamps[i]
    BY <2>1, TableSizes, S!OldestFacts DEF TableInv
  <2>3. ~(timestamps[S!Oldest] < last_time)
    BY <1>3, <2>2, SameChain DEF Expired
  <2>4. timestamps[S!Oldest] \in Int /\ timestamps[i] \in Int
    BY <2>1, <2>2, EntryFacts
  <2> QED
    BY <1>0, <2>1, <2>2, <2>3, <2>4
<1>4. ASSUME ~Expired PROVE keep # DOMAIN Entries
  <2>1. Heap!Oldest \in used /\ timestamps[Heap!Oldest] < last_time
    BY <1>4, MayExpire DEF Expired
  <2>2. PICK f \in DOMAIN Entries : Entries[f].stamp = timestamps[Heap!Oldest]
    BY <2>1, EntryOf
  <2>3. timestamps[Heap!Oldest] \in Int
    BY <2>1, EntryFacts
  <2>4. f \notin keep
    BY <1>0, <2>1, <2>2, <2>3
  <2> QED
    BY <2>4
<1> QED
  BY <1>2, <1>3, <1>4

LEMMA AnswersFacts == TableInv => AgedAnswers
<1> SUFFICES ASSUME TableInv PROVE AgedAnswers
  OBVIOUS
<1>1. Entries \in Aged!Tables(Flow, MaxFlows, 0 .. now)
  <2>1. ASSUME NEW f \in DOMAIN Entries
        PROVE  Entries[f] \in [index : 0 .. MaxFlows - 1, stamp : 0 .. now]
    <3>1. Entries[f].index \in Index /\ Entries[f].stamp \in 0 .. now
      BY EntryOf, UsedFacts
    <3>2. Entries[f] = [index |-> Entries[f].index, stamp |-> Entries[f].stamp]
      BY EntryOf
    <3> QED
      BY <3>1, <3>2 DEF Index
  <2>2. Entries = [f \in DOMAIN Entries |-> Entries[f]] /\ DOMAIN Entries \in SUBSET Flow
    BY EntryOf DEF Entries
  <2>3. Entries \in [DOMAIN Entries -> [index : 0 .. MaxFlows - 1, stamp : 0 .. now]]
    BY <2>1, <2>2
  <2> QED
    BY <2>2, <2>3 DEF Aged!Tables
<1>2. ASSUME NEW f \in DOMAIN Entries, NEW g \in DOMAIN Entries,
             Entries[f].index = Entries[g].index
      PROVE  f = g
  BY <1>2, EntryOf
<1>3. ASSUME NEW f \in Flow
      PROVE  /\ Present(f) <=> f \in DOMAIN Entries
             /\ Present(f) => IndexOf(f) = Entries[f].index
  <2>1. ASSUME Present(f) PROVE f \in DOMAIN Entries /\ IndexOf(f) = Entries[f].index
    <3>1. PICK s \in Fm!Busy : fv[keyps[s]] = f /\ IndexOf(f) = vals[s]
      BY <2>1, PresentFacts
    <3> QED
      BY <3>1, FlowsOfEntries
  <2>2. ASSUME ~Present(f) PROVE f \notin DOMAIN Entries
    BY <2>2, AbsentFacts, FlowsOfEntries
  <2> QED
    BY <2>1, <2>2
<1>4. ASSUME NEW i \in Index PROVE Heap!IsAllocated(i) <=> Aged!IsAllocated(Entries, i)
  BY AllocatedFacts, InUseFacts DEF Aged!IsAllocated
<1>5. IF next[Heap!FREE_LIST_HEAD] = Heap!FREE_LIST_HEAD
      THEN Aged!Free(Entries, MaxFlows) = {}
      ELSE Fresh \in Aged!Free(Entries, MaxFlows)
  <2>1. Heap!FREE_LIST_HEAD = S!FREE_LIST_HEAD /\ S!Index = Index
    BY SameChain
  <2>2. next[S!FREE_LIST_HEAD] = S!FREE_LIST_HEAD => used = Index
    BY <2>1, TableSizes, S!FreshFacts DEF TableInv
  <2> QED
    BY <2>1, <2>2, MayInsert, InUseFacts
<1> QED
  BY <1>1, <1>2, <1>3, <1>4, <1>5, ExpiredFacts DEF AgedAnswers

\* An iteration of the expiry loop brings the table closer to what it leaves.
LEMMA ExpireOneErases ==
    ASSUME TableInv, ExpireOne
    PROVE  \E f \in DOMAIN Entries :
             /\ Entries[f].stamp < last_time
             /\ \A g \in DOMAIN Entries : Entries[f].stamp <= Entries[g].stamp
             /\ Entries' = Aged!Erase(Entries, f) /\ Remaining' = Remaining
<1>0. TableInv'
  BY ExpireOneEffect
<1>1. PICK s \in Fm!Busy :
         /\ vals[s] = Heap!Oldest /\ timestamps[vals[s]] < last_time
         /\ Fm!Busy' = Fm!Busy \ {s} /\ UNCHANGED <<keyps, vals, fv, timestamps, now>>
  BY ExpireOneEffect
<1> DEFINE f == fv[keyps[s]]
<1>2. f \in DOMAIN Entries /\ Entries[f].stamp = timestamps[vals[s]]
  BY FlowsOfEntries
<1>3. Entries' = Aged!Erase(Entries, f)
  BY <1>0, <1>1, EntryErased
<1> HIDE DEF f
<1>4. ASSUME NEW g \in DOMAIN Entries PROVE Entries[f].stamp <= Entries[g].stamp
  <2> DEFINE i == Entries[g].index
  <2>1. i \in used /\ Entries[g].stamp = timestamps[i]
    BY EntryOf
  <2> HIDE DEF i
  <2>2. S!Oldest = vals[s] /\ S!Oldest \in used
        /\ (i # S!Oldest => timestamps[S!Oldest] <= timestamps[i])
    BY <1>1, <2>1, SameChain, TableSizes, S!OldestFacts DEF TableInv
  <2>3. timestamps[S!Oldest] \in Int
    BY <2>2, EntryFacts
  <2> QED
    BY <1>2, <2>1, <2>2, <2>3
<1>5. Remaining' = Remaining
  <2> DEFINE keep == {g \in DOMAIN Entries : Entries[g].stamp >= last_time}
             rest == DOMAIN Entries \ {f}
  <2>1. last_time' = last_time /\ last_time \in Int
    BY <1>1, EntryFacts, TimeAssumption DEF last_time
  <2>2. timestamps[vals[s]] \in Int
    BY EntryFacts
  <2>3. f \notin keep
    BY <1>1, <1>2, <2>1, <2>2
  <2>4. Entries' = [g \in rest |-> Entries[g]]
    BY <1>3 DEF Aged!Erase, Aged!Restrict
  <2>5. {g \in DOMAIN Entries' : Entries'[g].stamp >= last_time} = keep
    BY <2>3, <2>4
  <2>6. \A g \in keep : Entries'[g] = Entries[g]
    BY <2>3, <2>4
  <2>7. Remaining = [g \in keep |-> Entries[g]]
    BY DEF Remaining, Aged!expire_items_single_map, Aged!Restrict
  <2>8. Remaining' = [g \in {h \in DOMAIN Entries' : Entries'[h].stamp >= last_time'} |-> Entries'[g]]
    BY DEF Remaining, Aged!expire_items_single_map, Aged!Restrict
  <2> HIDE DEF keep
  <2>9. Remaining' = [g \in keep |-> Entries'[g]]
    BY <2>1, <2>5, <2>8
  <2> QED
    BY <2>6, <2>7, <2>9
<1> QED
  BY <1>1, <1>2, <1>3, <1>4, <1>5

LEMMA ChangesStep == TableInv => AgedChanges
<1> SUFFICES ASSUME TableInv PROVE AgedChanges
  OBVIOUS
<1>1. ASSUME NEW f \in Flow, Present(f), Refresh(f)
      PROVE  Entries' = Aged!Rejuvenate(Entries, f, now)
  BY <1>1, RefreshEffect, EntryRefreshed
<1>2. ASSUME NEW f \in Flow, Present(f), Remove(f) PROVE Entries' = Aged!Erase(Entries, f)
  BY <1>2, RemoveEffect, EntryErased
<1>3. ASSUME NEW f \in Flow, ~Present(f), Insert(f)
      PROVE  Entries' = Aged!Enter(Entries, f, Fresh, now)
  <2>0. TableInv' /\ Fresh \in Index /\ Fresh \notin used
    BY <1>3, InsertEffect
  <2>1. PICK s \in Index :
            /\ s \notin Fm!Busy /\ Fm!Busy' = Fm!Busy \cup {s}
            /\ keyps' = [keyps EXCEPT ![s] = Fresh] /\ vals' = [vals EXCEPT ![s] = Fresh]
            /\ fv' = [fv EXCEPT ![Fresh] = f]
            /\ timestamps' = [timestamps EXCEPT ![Fresh] = now]
    BY <1>3, InsertEffect
  <2>2. keyps'[s] = Fresh /\ vals'[s] = Fresh /\ fv'[Fresh] = f /\ timestamps'[Fresh] = now
    BY <2>0, <2>1, EntryFacts
  <2>3. ASSUME NEW t \in Fm!Busy
        PROVE  /\ keyps'[t] = keyps[t] /\ vals'[t] = vals[t]
               /\ fv'[keyps'[t]] = fv[keyps[t]] /\ fv[keyps[t]] # f
               /\ timestamps'[vals'[t]] = timestamps[vals[t]]
    BY <1>3, <2>0, <2>1, EntryFacts, AbsentFacts
  <2> QED
    BY <2>0, <2>1, <2>2, <2>3, EntryEntered
<1>4. ASSUME NEW f \in Flow, Refuse(f) PROVE Entries' = Entries
  BY <1>4, RefuseEffect, EntriesUntouched
<1>5. ASSUME NEW f \in DOMAIN Entries, Heap!Rejuvenate(Entries[f].index), UNCHANGED <<fm, fv>>
      PROVE  Entries' = Aged!Rejuvenate(Entries, f, now)
  <2>1. PICK s \in Fm!Busy : f = fv[keyps[s]] /\ Entries[f].index = vals[s]
    BY FlowsOfEntries
  <2>2. vals[s] \in used
    BY EntryFacts
  <2>3. /\ TableInv' /\ Fm!Busy' = Fm!Busy /\ timestamps' = [timestamps EXCEPT ![vals[s]] = now]
        /\ UNCHANGED <<keyps, vals, fv>>
    BY <1>5, <2>1, <2>2, TouchEffect
  <2> QED
    BY <2>1, <2>3, EntryRefreshed
<1>6. ASSUME now' \in now .. MaxTime, UNCHANGED <<heap, fm, fv>> PROVE Entries' = Entries
  <2>1. TableInv'
    BY <1>6, LaterInv
  <2>2. Fm!Busy' = Fm!Busy /\ UNCHANGED <<keyps, vals, fv, timestamps>>
    BY <1>6 DEF heap, fm, Fm!Busy
  <2> QED
    BY <2>1, <2>2, EntriesUntouched
<1> QED
  BY <1>1, <1>2, <1>3, <1>4, <1>5, <1>6, ExpireOneErases DEF AgedChanges

\* The chain, the vector and the map of a network function are together the
\* table that AgedTable describes, operation by operation: it starts empty, a
\* question gets the value's answer, and a change is the value's change.  The
\* loop of expire_items_single_map ends exactly when what is left is the table
\* without the entries idle for too long.  Hence the network functions whose
\* modules are written with AgedTable may be: see LoadBalancer,
\* ConnectionLimiter, KeyValueCache and PortScanDetector.
THEOREM TableIsAged ==
    TableRuns => Entries = Aged!EmptyTable /\ []AgedAnswers /\ [][AgedChanges]_tableVars
<1>1. TableInit => Entries = Aged!EmptyTable
  <2> SUFFICES ASSUME TableInit PROVE Entries = Aged!EmptyTable
    OBVIOUS
  <2>1. Fm!Busy = {}
    BY DEF TableInit, Fm!MapInit, Fm!Busy
  <2>2. Entries = [f \in {} |-> [index |-> IndexOf(f), stamp |-> timestamps[IndexOf(f)]]]
    BY <2>1 DEF Entries
  <2> QED
    BY <2>2 DEF Aged!EmptyTable
<1>2. TableInv => [AgedChanges]_tableVars
  BY ChangesStep
<1> QED
  BY <1>1, <1>2, AnswersFacts, TableInductive, PTL DEF TableRuns
==============================================================================
