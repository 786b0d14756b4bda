--------------------------- MODULE NatDetectorProofs ---------------------------
(***************************************************************************)
(* The address translator and the heavy hitter detector, each with a flow  *)
(* table of its own, for all values of their constants: no two flows share *)
(* a port, replies go back to the flow that used the port last, and a flow *)
(* keeps its port.                                                         *)
(***************************************************************************)
EXTENDS MCFlowTables, FlowTableProofs

------------------------------------------------------------------------------
(* The translator's flow table is one FlowTableProofs is about.             *)

F == INSTANCE FlowTableProofs WITH
    Flow <- Host \X Host, ZeroFlow <- natZeroFlow, khash <- natHash,
    ExpirationTime <- natExpiration, MaxTime <- natMaxTime,
    next <- natNext, prev <- natPrev, timestamps <- natTimestamps,
    used <- natUsed, older <- natOlder, sooner <- natSooner,
    chainRet <- natChainRet, busybits <- natBusybits, keyps <- natKeyps,
    khs <- natKhs, chns <- natChns, vals <- natVals, size <- natSize,
    mapRet <- natMapRet, fv <- natFv, now <- natNow

NatFlow == Host \X Host

LEMMA NatAssumptions ==
    F!MaxFlowsAssumption /\ F!FlowAssumption /\ F!TimeAssumption
BY MaxFlowsAssumption, TranslatorAssumption
   DEF F!MaxFlowsAssumption, F!FlowAssumption, F!TimeAssumption,
       N!FlowAssumption, N!TimeAssumption

LEMMA SameTableChain ==
    /\ F!Index = Index /\ N!Index = Index
    /\ N!Heap!Init <=> F!Heap!Init
    /\ N!Heap!HasOldest <=> F!Heap!HasOldest
    /\ N!Heap!Oldest = F!Heap!Oldest
    /\ \A i : N!Heap!IsAllocated(i) <=> F!Heap!IsAllocated(i)
    /\ N!Heap!Allocate <=> F!Heap!Allocate
    /\ N!Heap!AllocateFull <=> F!Heap!AllocateFull
    /\ \A i : N!Heap!Rejuvenate(i) <=> F!Heap!Rejuvenate(i)
    /\ \A t : N!Heap!Expire(t) <=> F!Heap!Expire(t)
    /\ N!Fresh = F!Fresh
<1>1. F!Index = Index /\ N!Index = Index /\ N!Heap!Index = F!Heap!Index
  BY DEF F!Index, N!Index, Index, N!Heap!Index, F!Heap!Index
<1>2. /\ N!Heap!FREE_LIST_HEAD = F!Heap!FREE_LIST_HEAD
      /\ N!Heap!INDEX_SHIFT = F!Heap!INDEX_SHIFT
      /\ N!Heap!ALLOC_LIST_HEAD = F!Heap!ALLOC_LIST_HEAD
  BY DEF N!Heap!FREE_LIST_HEAD, F!Heap!FREE_LIST_HEAD, N!Heap!INDEX_SHIFT, F!Heap!INDEX_SHIFT,
         N!Heap!ALLOC_LIST_HEAD, F!Heap!ALLOC_LIST_HEAD
<1>3. /\ N!Heap!HasOldest <=> F!Heap!HasOldest
      /\ N!Heap!Oldest = F!Heap!Oldest
  BY <1>2 DEF N!Heap!HasOldest, F!Heap!HasOldest, N!Heap!Oldest, F!Heap!Oldest
<1>4. ASSUME NEW i PROVE N!Heap!IsAllocated(i) <=> F!Heap!IsAllocated(i)
  BY <1>2 DEF N!Heap!IsAllocated, F!Heap!IsAllocated
<1>5. N!Heap!Init <=> F!Heap!Init
  BY <1>1, <1>2 DEF N!Heap!Init, F!Heap!Init, N!Heap!Cell, F!Heap!Cell,
                    N!Heap!InitLink, F!Heap!InitLink, N!Heap!Time, F!Heap!Time
<1>6. ASSUME NEW c PROVE /\ N!Heap!PopFree(c) <=> F!Heap!PopFree(c)
                         /\ N!Heap!PushFree(c) <=> F!Heap!PushFree(c)
                         /\ N!Heap!MoveToEnd(c) <=> F!Heap!MoveToEnd(c)
  BY <1>2 DEF N!Heap!PopFree, F!Heap!PopFree, N!Heap!PushFree, F!Heap!PushFree,
              N!Heap!MoveToEnd, F!Heap!MoveToEnd
<1>7. N!Heap!Allocate <=> F!Heap!Allocate
  BY <1>2, <1>6 DEF N!Heap!Allocate, F!Heap!Allocate, N!Heap!Without, F!Heap!Without
<1>8. N!Heap!AllocateFull <=> F!Heap!AllocateFull
  BY <1>2 DEF N!Heap!AllocateFull, F!Heap!AllocateFull, N!Heap!cells, F!Heap!cells
<1>9. ASSUME NEW i PROVE N!Heap!Rejuvenate(i) <=> F!Heap!Rejuvenate(i)
  BY <1>2, <1>4, <1>6 DEF N!Heap!Rejuvenate, F!Heap!Rejuvenate, N!Heap!cells, F!Heap!cells,
                          N!Heap!Touch, F!Heap!Touch, N!Heap!Without, F!Heap!Without
<1>10. ASSUME NEW t PROVE N!Heap!Expire(t) <=> F!Heap!Expire(t)
  BY <1>1, <1>2, <1>3, <1>4, <1>6
     DEF N!Heap!Expire, F!Heap!Expire, N!Heap!Release, F!Heap!Release,
         N!Heap!Without, F!Heap!Without
<1>11. N!Fresh = F!Fresh
  BY <1>2 DEF N!Fresh, F!Fresh
<1> QED
  BY <1>1, <1>3, <1>4, <1>5, <1>7, <1>8, <1>9, <1>10, <1>11

LEMMA SameTableMap ==
    /\ N!Fm!MapInit <=> F!Fm!MapInit
    /\ \A f : N!Fm!find_key(f) = F!Fm!find_key(f)
    /\ \A f : N!Fm!Get(f) <=> F!Fm!Get(f)
    /\ \A f, i, v : N!Fm!PutSlot(f, i, v) <=> F!Fm!PutSlot(f, i, v)
    /\ \A f : N!Fm!EraseSlot(f) <=> F!Fm!EraseSlot(f)
<1>1. N!Fm!Slot = F!Fm!Slot /\ N!Index = F!Index
  BY DEF N!Fm!Slot, F!Fm!Slot, N!Index, F!Index
<1>2. ASSUME NEW f, NEW i PROVE N!Fm!Probe(f, i) = F!Fm!Probe(f, i)
  BY DEF N!Fm!Probe, F!Fm!Probe, N!Fm!loop, F!Fm!loop
<1>3. ASSUME NEW A PROVE N!Fm!Least(A) = F!Fm!Least(A)
  BY DEF N!Fm!Least, F!Fm!Least
<1>4. ASSUME NEW f PROVE N!Fm!find_key(f) = F!Fm!find_key(f)
  BY <1>2, <1>3 DEF N!Fm!find_key, F!Fm!find_key, N!Fm!Stops, F!Fm!Stops, N!Fm!Match, F!Fm!Match,
                    N!Fm!SameHash, F!Fm!SameHash
<1>5. ASSUME NEW f PROVE /\ N!Fm!EmptyRounds(f) = F!Fm!EmptyRounds(f)
                         /\ N!Fm!MatchRounds(f) = F!Fm!MatchRounds(f)
  BY <1>2 DEF N!Fm!EmptyRounds, F!Fm!EmptyRounds, N!Fm!MatchRounds, F!Fm!MatchRounds,
              N!Fm!Match, F!Fm!Match, N!Fm!SameHash, F!Fm!SameHash
<1>6. ASSUME NEW f, NEW r PROVE N!Fm!Passed(f, r) = F!Fm!Passed(f, r)
  BY <1>2 DEF N!Fm!Passed, F!Fm!Passed
<1>7. ASSUME NEW f, NEW i, NEW v PROVE N!Fm!PutSlot(f, i, v) <=> F!Fm!PutSlot(f, i, v)
  BY <1>1, <1>2, <1>3, <1>5, <1>6 DEF N!Fm!PutSlot, F!Fm!PutSlot
<1>8. ASSUME NEW f PROVE N!Fm!EraseSlot(f) <=> F!Fm!EraseSlot(f)
  BY <1>1, <1>2, <1>3, <1>5, <1>6 DEF N!Fm!EraseSlot, F!Fm!EraseSlot
<1>9. ASSUME NEW f PROVE N!Fm!Get(f) <=> F!Fm!Get(f)
  BY <1>4 DEF N!Fm!Get, F!Fm!Get, N!Fm!slots, F!Fm!slots
<1>10. N!Fm!MapInit <=> F!Fm!MapInit
  BY <1>1 DEF N!Fm!MapInit, F!Fm!MapInit
<1> QED
  BY <1>4, <1>7, <1>8, <1>9, <1>10

\* The table's operations are the same.
LEMMA SameTable ==
    /\ N!TableInit <=> F!TableInit
    /\ N!ExpireOne <=> F!ExpireOne
    /\ N!last_time = natNow - natExpiration /\ F!last_time = natNow - natExpiration
    /\ \A f : N!Present(f) <=> F!Present(f)
    /\ \A f : N!IndexOf(f) = F!IndexOf(f)
    /\ \A f : N!Refresh(f) <=> F!Refresh(f)
    /\ \A f : N!Insert(f) <=> F!Insert(f)
    /\ \A f : N!Refuse(f) <=> F!Refuse(f)
    /\ N!heap = F!heap /\ N!fm = F!fm /\ N!tableVars = F!tableVars
<1>1. N!last_time = natNow - natExpiration /\ F!last_time = natNow - natExpiration
  BY DEF N!last_time, F!last_time
<1>2. ASSUME NEW f PROVE (N!Present(f) <=> F!Present(f)) /\ N!IndexOf(f) = F!IndexOf(f)
  BY SameTableMap DEF N!Present, F!Present, N!IndexOf, F!IndexOf
<1>3. ASSUME NEW f PROVE N!Refresh(f) <=> F!Refresh(f)
  BY <1>2, SameTableChain, SameTableMap DEF N!Refresh, F!Refresh
<1>4. ASSUME NEW f PROVE N!Insert(f) <=> F!Insert(f)
  BY SameTableChain, SameTableMap DEF N!Insert, F!Insert
<1>5. ASSUME NEW f PROVE N!Refuse(f) <=> F!Refuse(f)
  BY SameTableChain, SameTableMap DEF N!Refuse, F!Refuse
<1>6. N!ExpireOne <=> F!ExpireOne
  BY <1>1, SameTableChain, SameTableMap DEF N!ExpireOne, F!ExpireOne
<1>7. N!TableInit <=> F!TableInit
  BY SameTableChain, SameTableMap DEF N!TableInit, F!TableInit
<1>8. N!heap = F!heap /\ N!fm = F!fm /\ N!tableVars = F!tableVars
  BY DEF N!heap, F!heap, N!fm, F!fm, N!tableVars, F!tableVars
<1> QED
  BY <1>1, <1>2, <1>3, <1>4, <1>5, <1>6, <1>7, <1>8

------------------------------------------------------------------------------
(* The translator's ports                                                   *)

\* A port in use was used last by the flow in its cell, at its time stamp; a
\* port that is free was used too long ago, if ever.
PortUse ==
    /\ last \in [Index -> [flow : NatFlow \cup {DROP}, time : Int]]
    /\ \A i \in natUsed : last[i].flow = natFv[i] /\ last[i].time = natTimestamps[i]
    /\ \A i \in Index \ natUsed :
          last[i] # N!NoUse => last[i].time < natNow - natExpiration

NatInv == F!TableInv /\ natPkt \in N!Packet /\ PortUse

\* What the table is known to be like.
LEMMA NatFacts ==
    ASSUME NatInv
    PROVE  /\ natUsed \subseteq Index /\ natFv \in [Index -> NatFlow]
           /\ natTimestamps \in [Index -> Int] /\ natNow \in Int /\ natExpiration \in Int
           /\ \A i \in Index : natFv[i] = <<natFv[i][1], natFv[i][2]>>
<1>1. F!TableInv /\ F!Index = Index
  BY SameTableChain DEF NatInv
<1>2. /\ natUsed \subseteq Index /\ natFv \in [Index -> NatFlow]
      /\ natTimestamps \in [Index -> 0 .. natMaxTime] /\ natNow \in 0 .. natMaxTime
  BY <1>1, NatAssumptions, F!EntryFacts DEF NatFlow
<1>3. natExpiration \in Nat /\ natMaxTime \in Nat
  BY NatAssumptions DEF F!TimeAssumption
<1>4. ASSUME NEW i \in Index PROVE natFv[i] = <<natFv[i][1], natFv[i][2]>>
  BY <1>2 DEF NatFlow
<1> QED
  BY <1>2, <1>3, <1>4

\* The identifier of a packet from inside is one the table may hold.
LEMMA NatIdTyped ==
    ASSUME NatInv, N!is_internal(natPkt.dev)
    PROVE  <<natPkt.src, natPkt.dst>> \in NatFlow
<1>1. natPkt.dev \notin N!Outside
  BY DEF N!is_internal, N!Outside
<1> QED
  BY <1>1 DEF NatInv, N!Packet, NatFlow

\* A packet from outside names a port.
LEMMA NatPortTyped ==
    ASSUME NatInv, ~N!is_internal(natPkt.dev)
    PROVE  natPkt.port \in Index
BY SameTableChain DEF NatInv, N!Packet, N!is_internal

\* What a packet from inside does: it goes out on a port of its own flow, or on
\* one that was free, or not at all.
LEMMA FromInsideEffect ==
    ASSUME NatInv, N!FromInside
    PROVE  /\ F!TableInv' /\ F!EntriesKept /\ natPkt' = natPkt /\ natNow' = natNow
           /\ \/ \E i \in natUsed :
                    /\ last' = [last EXCEPT ![i] = [flow |-> natFv[i], time |-> natNow]]
                    /\ natTimestamps' = [natTimestamps EXCEPT ![i] = natNow]
                    /\ UNCHANGED <<natUsed, natFv>>
              \/ \E i \in Index \ natUsed, id \in NatFlow :
                    /\ last' = [last EXCEPT ![i] = [flow |-> id, time |-> natNow]]
                    /\ natTimestamps' = [natTimestamps EXCEPT ![i] = natNow]
                    /\ natFv' = [natFv EXCEPT ![i] = id] /\ natUsed' = natUsed \cup {i}
              \/ UNCHANGED <<last, natUsed, natFv, natTimestamps>>
<1> DEFINE id == <<natPkt.src, natPkt.dst>>
<1>1. F!TableInv /\ id \in NatFlow
  BY NatIdTyped DEF NatInv, N!FromInside
<1>2. /\ natPkt' = natPkt
      /\ \/ F!Present(id) /\ F!Refresh(id) /\ N!SendFromPort(id, F!IndexOf(id))
         \/ ~F!Present(id) /\ F!Insert(id) /\ N!SendFromPort(id, F!Fresh)
         \/ ~F!Present(id) /\ F!Refuse(id) /\ UNCHANGED last
  BY SameTable, SameTableChain DEF N!FromInside, N!SendFromPort, N!Send, N!Finish
<1> HIDE DEF id
<1>3. CASE F!Present(id) /\ F!Refresh(id) /\ N!SendFromPort(id, F!IndexOf(id))
  <2>1. F!TableInv' /\ F!EntriesKept
    BY <1>1, <1>3, NatAssumptions, F!RefreshEffect, F!OperationsKeepEntries DEF NatFlow
  <2>2. PICK s \in F!Fm!Busy :
            /\ natFv[natKeyps[s]] = id /\ F!IndexOf(id) = natVals[s]
            /\ natTimestamps' = [natTimestamps EXCEPT ![natVals[s]] = natNow]
            /\ UNCHANGED <<natUsed, natFv, natNow>>
    BY <1>1, <1>3, NatAssumptions, F!RefreshEffect DEF NatFlow
  <2>3. natVals[s] \in natUsed /\ natFv[natVals[s]] = id
    BY <1>1, <2>2, NatAssumptions, F!EntryFacts
  <2>4. last' = [last EXCEPT ![natVals[s]] = [flow |-> id, time |-> natNow]]
    BY <1>3, <2>2 DEF N!SendFromPort
  <2> QED
    BY <1>2, <2>1, <2>2, <2>3, <2>4
<1>4. CASE ~F!Present(id) /\ F!Insert(id) /\ N!SendFromPort(id, F!Fresh)
  <2>1. F!TableInv' /\ F!EntriesKept
    BY <1>1, <1>4, NatAssumptions, F!InsertEffect, F!OperationsKeepEntries DEF NatFlow
  <2>2. /\ F!Fresh \in F!Index \ natUsed /\ natFv' = [natFv EXCEPT ![F!Fresh] = id]
        /\ natTimestamps' = [natTimestamps EXCEPT ![F!Fresh] = natNow]
        /\ natUsed' = natUsed \cup {F!Fresh} /\ natNow' = natNow
    BY <1>1, <1>4, NatAssumptions, F!InsertEffect DEF NatFlow
  <2>3. last' = [last EXCEPT ![F!Fresh] = [flow |-> id, time |-> natNow]]
    BY <1>4 DEF N!SendFromPort
  <2> QED
    BY <1>1, <1>2, <2>1, <2>2, <2>3, SameTableChain
<1>5. CASE ~F!Present(id) /\ F!Refuse(id) /\ UNCHANGED last
  <2>1. /\ F!TableInv' /\ F!Fm!Busy' = F!Fm!Busy
        /\ UNCHANGED <<natUsed, natKeyps, natVals, natFv, natTimestamps, natNow>>
    BY <1>1, <1>5, NatAssumptions, F!RefuseEffect DEF NatFlow
  <2>2. F!EntriesKept
    BY <1>1, <2>1, NatAssumptions, F!OperationsKeepEntries
  <2> QED
    BY <1>2, <1>5, <2>1, <2>2
<1> QED
  BY <1>2, <1>3, <1>4, <1>5

\* What a packet from outside does: it refreshes the port it names, if in use.
LEMMA FromOutsideEffect ==
    ASSUME NatInv, N!FromOutside
    PROVE  /\ F!TableInv' /\ F!EntriesKept /\ natPkt' = natPkt
           /\ UNCHANGED <<natUsed, natFv, natNow>>
           /\ IF natPkt.port \in natUsed
              THEN /\ last' = [last EXCEPT ![natPkt.port] =
                                   [flow |-> natFv[natPkt.port], time |-> natNow]]
                   /\ natTimestamps' = [natTimestamps EXCEPT ![natPkt.port] = natNow]
              ELSE UNCHANGED <<last, natTimestamps>>
           /\ natOut' # DROP => /\ natPkt.port \in natUsed
                                /\ natFv[natPkt.port][2] = natPkt.src
                                /\ natOut'.hdr.dst = natFv[natPkt.port][1]
<1> DEFINE i == natPkt.port
<1>1. F!TableInv /\ i \in Index /\ i \in F!Index
  BY NatPortTyped, SameTableChain DEF NatInv, N!FromOutside
<1>2. N!Heap!IsAllocated(i) <=> i \in natUsed
  <2>1. F!Heap!IsAllocated(i) <=> i \in natUsed
    BY <1>1, NatAssumptions, F!AllocatedFacts
  <2> QED
    BY <2>1, SameTableChain
<1>3. /\ natPkt' = natPkt
      /\ last' = IF i \in natUsed THEN [last EXCEPT ![i].time = natNow] ELSE last
  BY <1>2 DEF N!FromOutside, N!Send, N!Finish
<1>7. N!get_external(i)
  BY DEF N!FromOutside
<1>4. natOut' # DROP => /\ i \in natUsed /\ natFv[i][2] = natPkt.src
                        /\ natOut'.hdr.dst = natFv[i][1]
  BY <1>2 DEF N!FromOutside, N!Send, N!Finish
<1> HIDE DEF i
<1>5. CASE i \in natUsed
  <2>1. F!Heap!Rejuvenate(i) /\ UNCHANGED <<F!fm, natFv>>
    BY <1>2, <1>5, <1>7, SameTableChain DEF N!get_external, N!fm, F!fm
  <2>2. /\ F!TableInv' /\ F!Fm!Busy' = F!Fm!Busy
        /\ natTimestamps' = [natTimestamps EXCEPT ![i] = natNow]
        /\ UNCHANGED <<natUsed, natKeyps, natVals, natFv, natNow>>
    BY <1>1, <1>5, <2>1, NatAssumptions, F!TouchEffect
  <2>3. F!EntriesKept
    BY <1>1, <2>2, NatAssumptions, F!OperationsKeepEntries
  <2>4. /\ last \in [Index -> [flow : NatFlow \cup {DROP}, time : Int]]
        /\ last[i].flow = natFv[i]
    BY <1>5 DEF NatInv, PortUse
  <2>5. last' = [last EXCEPT ![i] = [flow |-> natFv[i], time |-> natNow]]
    <3>1. last' = [last EXCEPT ![i].time = natNow]
      BY <1>3, <1>5
    <3>2. last[i] \in [flow : NatFlow \cup {DROP}, time : Int]
      BY <1>1, <2>4
    <3>3. [last[i] EXCEPT !.time = natNow] = [flow |-> natFv[i], time |-> natNow]
      BY <2>4, <3>2
    <3> QED
      BY <3>1, <3>3
  <2> QED
    BY <1>3, <1>4, <1>5, <2>2, <2>3, <2>5 DEF i
<1>6. CASE i \notin natUsed
  <2>1. UNCHANGED F!tableVars
    BY <1>2, <1>6, <1>7
       DEF N!get_external, N!tableVars, F!tableVars, N!heap, F!heap, N!fm, F!fm
  <2>2. F!TableInv' /\ F!Fm!Busy' = F!Fm!Busy
    BY <1>1, <2>1, NatAssumptions, F!FrameInv
  <2>3. UNCHANGED <<natUsed, natKeyps, natVals, natFv, natTimestamps, natNow>>
    BY <2>1 DEF F!tableVars, F!heap, F!fm
  <2>4. F!EntriesKept
    BY <1>1, <2>2, <2>3, NatAssumptions, F!OperationsKeepEntries
  <2> QED
    BY <1>3, <1>4, <1>6, <2>2, <2>3, <2>4 DEF i
<1> QED
  BY <1>5, <1>6

\* A new packet finds the table and the ports as they were.
LEMMA ReceiveEffect ==
    ASSUME NatInv, NEW p \in N!Packet, N!Receive(p)
    PROVE  NatInv' /\ F!EntriesKept /\ last' = last
<1>1. F!TableInv /\ natNow' \in natNow .. natMaxTime /\ natPkt' = p /\ last' = last
      /\ UNCHANGED <<F!heap, F!fm, natFv>>
  BY DEF NatInv, N!Receive, N!heap, F!heap, N!fm, F!fm
<1>2. F!TableInv'
  BY <1>1, NatAssumptions, F!LaterInv
<1>3. UNCHANGED <<natUsed, natTimestamps, natFv, natKeyps, natVals>> /\ F!Fm!Busy' = F!Fm!Busy
  BY <1>1 DEF F!heap, F!fm, F!Fm!Busy
<1>4. F!EntriesKept
  BY <1>1, <1>3, NatAssumptions, F!OperationsKeepEntries
<1>5. PortUse'
  <2>1. natNow \in Int /\ natNow' \in Int /\ natNow <= natNow' /\ natExpiration \in Int
    BY <1>1, NatFacts
  <2>2. N!NoUse' = N!NoUse
    BY DEF N!NoUse
  <2>3. \A i \in Index : last[i].time \in Int
    BY DEF NatInv, PortUse
  <2> QED
    BY <1>1, <1>3, <2>1, <2>2, <2>3 DEF NatInv, PortUse
<1> QED
  BY <1>1, <1>2, <1>4, <1>5 DEF NatInv

\* An index that expires leaves behind a mark that is as old.
LEMMA ExpiringEffect ==
    ASSUME NatInv, N!Expiring
    PROVE  NatInv' /\ F!EntriesKept /\ last' = last
<1>1. F!TableInv /\ F!ExpireOne /\ natPkt' = natPkt /\ last' = last
  BY SameTable DEF NatInv, N!Expiring
<1>2. F!TableInv' /\ F!EntriesKept
  BY <1>1, NatAssumptions, F!ExpireOneEffect, F!OperationsKeepEntries
<1>3. PICK s \in F!Fm!Busy :
          /\ natTimestamps[natVals[s]] < F!last_time
          /\ natUsed' = natUsed \ {natVals[s]}
          /\ UNCHANGED <<natFv, natTimestamps, natNow>>
  BY <1>1, NatAssumptions, F!ExpireOneEffect
<1>4. natVals[s] \in natUsed
  BY <1>1, NatAssumptions, F!EntryFacts
<1>5. PortUse'
  <2>1. last[natVals[s]].time < natNow - natExpiration
    BY <1>3, <1>4, SameTable DEF NatInv, PortUse
  <2>2. N!NoUse' = N!NoUse
    BY DEF N!NoUse
  <2> QED
    BY <1>1, <1>3, <2>1, <2>2 DEF NatInv, PortUse
<1> QED
  BY <1>1, <1>2, <1>5 DEF NatInv

\* Whatever is done to the ports but a use of one leaves their marks right.
LEMMA NatFrame ==
    ASSUME NatInv, UNCHANGED F!tableVars, natPkt' = natPkt, last' = last
    PROVE  NatInv' /\ F!EntriesKept
<1>1. F!TableInv /\ F!TableInv' /\ F!Fm!Busy' = F!Fm!Busy
  BY NatAssumptions, F!FrameInv DEF NatInv
<1>2. UNCHANGED <<natUsed, natKeyps, natVals, natFv, natTimestamps, natNow>>
  BY DEF F!tableVars, F!heap, F!fm
<1>3. F!EntriesKept
  BY <1>1, <1>2, NatAssumptions, F!OperationsKeepEntries
<1>4. N!NoUse' = N!NoUse
  BY DEF N!NoUse
<1>5. PortUse'
  BY <1>2, <1>4 DEF NatInv, PortUse
<1> QED
  BY <1>1, <1>3, <1>5 DEF NatInv

LEMMA NatInitInv == N!Init => NatInv
<1> SUFFICES ASSUME N!Init PROVE NatInv
  OBVIOUS
<1>1. F!TableInit
  BY SameTable DEF N!Init
<1>2. F!TableInv
  BY <1>1, NatAssumptions, F!TableInitInv
<1>3. natUsed = {}
  BY <1>1 DEF F!TableInit, F!Heap!Init
<1>4. last = [i \in Index |-> N!NoUse]
  BY SameTableChain DEF N!Init
<1>5. PortUse
  BY <1>3, <1>4 DEF PortUse, N!NoUse
<1> QED
  BY <1>2, <1>5 DEF NatInv, N!Init

\* Every step keeps the invariant and every entry where it is, and hands on
\* only a port that was free.
LEMMA NatStep ==
    ASSUME NatInv, N!Next
    PROVE  /\ NatInv' /\ F!EntriesKept
           /\ \A i \in Index : last'[i].flow # last[i].flow => i \notin natUsed
<1>1. ASSUME NEW p \in N!Packet, N!Receive(p)
      PROVE  NatInv' /\ F!EntriesKept /\ last' = last
  BY <1>1, ReceiveEffect
<1>2. ASSUME N!Expiring PROVE NatInv' /\ F!EntriesKept /\ last' = last
  BY <1>2, ExpiringEffect
<1>3. ASSUME N!NotTcpUdp PROVE NatInv' /\ F!EntriesKept /\ last' = last
  <2>1. UNCHANGED F!tableVars /\ natPkt' = natPkt /\ last' = last
    BY <1>3 DEF N!NotTcpUdp, N!Finish, N!tableVars, F!tableVars, N!heap, F!heap, N!fm, F!fm
  <2> QED
    BY <2>1, NatFrame
<1>4. ASSUME N!FromInside
      PROVE  /\ NatInv' /\ F!EntriesKept
             /\ \A i \in Index : last'[i].flow # last[i].flow => i \notin natUsed
  <2>1. F!TableInv' /\ F!EntriesKept /\ natPkt' = natPkt /\ natNow' = natNow
    BY <1>4, FromInsideEffect
  <2>2. N!NoUse' = N!NoUse /\ natNow \in Int
    BY NatFacts DEF N!NoUse
  <2>3. CASE \E i \in natUsed :
                /\ last' = [last EXCEPT ![i] = [flow |-> natFv[i], time |-> natNow]]
                /\ natTimestamps' = [natTimestamps EXCEPT ![i] = natNow]
                /\ UNCHANGED <<natUsed, natFv>>
    <3>1. PICK i \in natUsed :
              /\ last' = [last EXCEPT ![i] = [flow |-> natFv[i], time |-> natNow]]
              /\ natTimestamps' = [natTimestamps EXCEPT ![i] = natNow]
              /\ UNCHANGED <<natUsed, natFv>>
      BY <2>3
    <3>2. i \in Index /\ last[i].flow = natFv[i] /\ natFv[i] \in NatFlow
      BY NatFacts DEF NatInv, PortUse
    <3>3. PortUse'
      BY <2>1, <2>2, <3>1, <3>2, NatFacts DEF NatInv, PortUse
    <3>4. \A j \in Index : last'[j].flow = last[j].flow
      BY <3>1, <3>2 DEF NatInv, PortUse
    <3> QED
      BY <2>1, <3>3, <3>4 DEF NatInv
  <2>4. CASE \E i \in Index \ natUsed, id \in NatFlow :
                /\ last' = [last EXCEPT ![i] = [flow |-> id, time |-> natNow]]
                /\ natTimestamps' = [natTimestamps EXCEPT ![i] = natNow]
                /\ natFv' = [natFv EXCEPT ![i] = id] /\ natUsed' = natUsed \cup {i}
    <3>1. PICK i \in Index \ natUsed, id \in NatFlow :
              /\ last' = [last EXCEPT ![i] = [flow |-> id, time |-> natNow]]
              /\ natTimestamps' = [natTimestamps EXCEPT ![i] = natNow]
              /\ natFv' = [natFv EXCEPT ![i] = id] /\ natUsed' = natUsed \cup {i}
      BY <2>4
    <3>2. PortUse'
      BY <2>1, <2>2, <3>1, NatFacts DEF NatInv, PortUse
    <3>3. \A j \in Index : j # i => last'[j] = last[j]
      BY <3>1 DEF NatInv, PortUse
    <3> QED
      BY <2>1, <3>1, <3>2, <3>3 DEF NatInv
  <2>5. CASE UNCHANGED <<last, natUsed, natFv, natTimestamps>>
    <3>1. PortUse'
      BY <2>1, <2>2, <2>5 DEF NatInv, PortUse
    <3> QED
      BY <2>1, <2>5, <3>1 DEF NatInv
  <2> QED
    BY <1>4, <2>3, <2>4, <2>5, FromInsideEffect
<1>5. ASSUME N!FromOutside
      PROVE  NatInv' /\ F!EntriesKept /\ \A i \in Index : last'[i].flow = last[i].flow
  <2> DEFINE i == natPkt.port
  <2>1. /\ F!TableInv' /\ F!EntriesKept /\ natPkt' = natPkt
        /\ UNCHANGED <<natUsed, natFv, natNow>>
        /\ IF i \in natUsed
           THEN /\ last' = [last EXCEPT ![i] = [flow |-> natFv[i], time |-> natNow]]
                /\ natTimestamps' = [natTimestamps EXCEPT ![i] = natNow]
           ELSE UNCHANGED <<last, natTimestamps>>
    BY <1>5, FromOutsideEffect
  <2>2. N!NoUse' = N!NoUse /\ natNow \in Int
    BY NatFacts DEF N!NoUse
  <2> HIDE DEF i
  <2>3. i \in natUsed => i \in Index /\ last[i].flow = natFv[i] /\ natFv[i] \in NatFlow
    BY NatFacts DEF NatInv, PortUse
  <2>4. PortUse'
    BY <2>1, <2>2, <2>3, NatFacts DEF NatInv, PortUse
  <2>5. \A j \in Index : last'[j].flow = last[j].flow
    BY <2>1, <2>3 DEF NatInv, PortUse
  <2> QED
    BY <2>1, <2>4, <2>5 DEF NatInv
<1> QED
  BY <1>1, <1>2, <1>3, <1>4, <1>5 DEF N!Next, N!nf_process

LEMMA NatStutter == ASSUME NatInv, UNCHANGED N!vars PROVE NatInv' /\ F!EntriesKept /\ last' = last
<1>1. UNCHANGED F!tableVars /\ natPkt' = natPkt /\ last' = last
  BY DEF N!vars, N!tableVars, F!tableVars, N!heap, F!heap, N!fm, F!fm
<1> QED
  BY <1>1, NatFrame

LEMMA NatInductive == N!Spec => []NatInv
<1>1. NatInv /\ [N!Next]_N!vars => NatInv'
  BY NatStep, NatStutter
<1> QED
  BY <1>1, NatInitInv, PTL DEF N!Spec

\* In the model of the two functions the translator runs as it does alone.
LEMMA TranslatorRuns == NfSpec => N!Spec
<1>1. NfInit => N!Init
  BY DEF NfInit
<1>2. [NfNext]_<<nf, vars, natVars>> => [N!Next]_N!vars
  BY DEF NfNext, natVars, N!vars, N!tableVars, N!heap, N!fm
<1> QED
  BY <1>1, <1>2, PTL DEF NfSpec, N!Spec

\* No two flows share a port within the expiration time: a port passes to
\* another flow only once it is free, and then the last packet through it is
\* older than the deadline (flow_manager_allocate_flow, expire_items_single_map).
THEOREM NoSharedPort == NfSpec => PortNotShared
<1>1. NatInv /\ [N!Next]_N!vars =>
         [\A i \in N!Index :
             last[i] # N!NoUse /\ last'[i].flow # last[i].flow =>
                 last[i].time < natNow - natExpiration]_N!vars
  <2> SUFFICES ASSUME NatInv, N!Next, NEW i \in Index,
                      last[i] # N!NoUse, last'[i].flow # last[i].flow
               PROVE  last[i].time < natNow - natExpiration
    BY SameTableChain
  <2>1. i \notin natUsed
    BY NatStep
  <2> QED
    BY <2>1 DEF NatInv, PortUse
<1> QED
  BY <1>1, NatInductive, TranslatorRuns, PTL DEF PortNotShared, N!PortNotShared, N!Spec

\* A reply that is let in goes to the flow that last sent through the port it
\* names, and comes from that flow's peer (flow_manager_get_external).
THEOREM RepliesGoBack == NfSpec => ReplyGoesBack
<1>1. NatInv /\ [N!Next]_N!vars =>
         [natBusy /\ ~natBusy' /\ ~N!is_internal(natPkt.dev) /\ natOut' # DROP =>
             last[natPkt.port].flow = <<natOut'.hdr.dst, natPkt.src>>]_N!vars
  <2> SUFFICES ASSUME NatInv, N!Next, natBusy, ~natBusy', ~N!is_internal(natPkt.dev),
                      natOut' # DROP
               PROVE  last[natPkt.port].flow = <<natOut'.hdr.dst, natPkt.src>>
    OBVIOUS
  <2>1. N!FromOutside
    BY DEF N!Next, N!nf_process, N!Receive, N!Expiring, N!NotTcpUdp, N!FromInside, N!Finish
  <2>2. /\ natPkt.port \in natUsed /\ natFv[natPkt.port][2] = natPkt.src
        /\ natOut'.hdr.dst = natFv[natPkt.port][1]
    BY <2>1, FromOutsideEffect
  <2>3. last[natPkt.port].flow = natFv[natPkt.port]
    BY <2>2 DEF NatInv, PortUse
  <2>4. natFv[natPkt.port] = <<natFv[natPkt.port][1], natFv[natPkt.port][2]>>
    BY <2>2, NatFacts
  <2> QED
    BY <2>2, <2>3, <2>4
<1> QED
  BY <1>1, NatInductive, TranslatorRuns, PTL DEF ReplyGoesBack, N!ReplyGoesBack, N!Spec

LEMMA SamePresentNext ==
    ASSUME NEW f PROVE (N!Present(f) <=> F!Present(f))' /\ (N!IndexOf(f) = F!IndexOf(f))'
<1>1. (N!Present(f) <=> F!Present(f)) /\ N!IndexOf(f) = F!IndexOf(f)
  BY SameTable
<1> QED
  BY <1>1, PTL

\* A flow keeps its port for as long as it is in the table: no operation of
\* the three structures moves an entry.
THEOREM FlowsKeepPorts == NfSpec => PortKept
<1>1. NatInv /\ NatInv' /\ [N!Next]_N!vars =>
         [\A f \in Host \X Host :
             N!Present(f) /\ N!Present(f)' => N!IndexOf(f)' = N!IndexOf(f)]_N!vars
  <2> SUFFICES ASSUME NatInv, NatInv', N!Next, NEW f \in Host \X Host,
                      N!Present(f), N!Present(f)'
               PROVE  N!IndexOf(f)' = N!IndexOf(f)
    OBVIOUS
  <2>1. F!TableInv /\ F!TableInv' /\ F!EntriesKept
    BY NatStep DEF NatInv
  <2>2. F!Present(f) /\ F!Present(f)'
    BY SameTable, SamePresentNext
  <2>3. F!IndexOf(f)' = F!IndexOf(f)
    BY <2>1, <2>2, NatAssumptions, F!IndexKept
  <2> QED
    BY <2>3, SameTable, SamePresentNext
<1> QED
  BY <1>1, NatInductive, TranslatorRuns, PTL DEF PortKept, N!PortKept, N!Spec

------------------------------------------------------------------------------
(* The detector's buckets.  A bucket is rounded twice: the tokens a refill  *)
(* adds are rounded down, but so is the time after which it counts as full, *)
(* which gives away up to Rate - 1 of the smallest units that granted       *)
(* counts.  Such a gift is made only to a bucket that then holds a token,   *)
(* and a token is worth NS_TO_S_MULTIPLIER units: with a Rate no higher     *)
(* than that (plus one) gifts do not add up.  With a higher rate they do,   *)
(* and the rate is not enforced.                                            *)

\* The code's integers are wide enough, and the rate is not above one token a
\* clock tick: tb->burst * NS_TO_S_MULTIPLIER fits 64 bits, and so does a time.
ModestRate ==
    /\ Full + Burst < Word /\ MaxTime < Word
    /\ Rate <= NS_TO_S_MULTIPLIER + 1

\* What rounding may have given to a bucket that holds t tokens.
Slack(t) == IF t = 0 THEN 0 ELSE Rate - 1

\* A bucket that held t tokens d ticks ago is backed by a grant of g.
Backed(g, t, d) ==
    g >= Full \/ g >= t * NS_TO_S_MULTIPLIER + d * Rate - Slack(t)

\* Dividing rounds down to the last multiple.
LEMMA DivBounds ==
    ASSUME NEW n \in Nat, NEW d \in Nat \ {0}
    PROVE  n \div d \in Nat /\ (n \div d) * d <= n /\ n < (n \div d) * d + d
OBVIOUS

LEMMA TimesMonotone ==
    ASSUME NEW m \in Int, NEW n \in Int, NEW c \in Nat, m <= n
    PROVE  m * c <= n * c
OBVIOUS

LEMMA ModSmall ==
    ASSUME NEW n \in Nat, NEW d \in Nat, n < d
    PROVE  n % d = n
OBVIOUS

LEMMA BucketNumbers ==
    /\ Rate \in Nat /\ Rate >= 1 /\ Burst \in Nat /\ NS_TO_S_MULTIPLIER \in Nat
    /\ NS_TO_S_MULTIPLIER >= 1 /\ Word \in Nat /\ Full \in Nat
    /\ Full = Burst * NS_TO_S_MULTIPLIER
    /\ \A len \in Length : len \in Nat /\ len <= Burst
BY DetectorAssumption DEF RateAssumption, LengthsFit, Full

\* The same without the product.
LEMMA BucketTypes ==
    /\ Rate \in Nat \ {0} /\ Burst \in Nat /\ NS_TO_S_MULTIPLIER \in Nat \ {0}
    /\ Word \in Nat /\ Full \in Nat
BY BucketNumbers

LEMMA FullMod == ASSUME ModestRate PROVE Full % Word = Full
<1>1. Full \in Nat /\ Word \in Nat /\ Full < Word
  BY BucketTypes DEF ModestRate
<1> QED
  BY <1>1, ModSmall

\* A refilled bucket is backed by the grant that backed it before.
LEMMA RefillBacked ==
    ASSUME ModestRate, NEW bkt, bkt.tokens \in 0 .. Burst, bkt.time \in Int, now \in Int,
           now - bkt.time \in 0 .. MaxTime, MaxTime \in Nat,
           NEW g \in Int, Backed(g, bkt.tokens, now - bkt.time)
    PROVE  Refilled(bkt) \in 0 .. Burst /\ Backed(g, Refilled(bkt), 0)
<1> DEFINE t == bkt.tokens
           d == now - bkt.time
           ad == (d * Rate) \div NS_TO_S_MULTIPLIER
           th == Full \div Rate
           R == Refilled(bkt)
           NS == NS_TO_S_MULTIPLIER
<1>1. d \in Nat /\ d % Word = d /\ t \in Nat /\ t <= Burst
  BY BucketNumbers, ModSmall DEF ModestRate
<1>2. Full % Word = Full
  BY FullMod
<1>3. th \in Nat /\ th * Rate <= Full /\ Full < th * Rate + Rate
  BY BucketTypes, DivBounds
<1>4. CASE d < th
  <2>1. d * Rate \in Nat /\ d * Rate <= Full
    BY <1>1, <1>3, <1>4, BucketNumbers, TimesMonotone
  <2>2. (d * Rate) % Word = d * Rate
    BY <2>1, BucketNumbers, ModSmall DEF ModestRate
  <2>3. ad \in Nat /\ ad * NS <= d * Rate
    BY <2>1, BucketTypes, DivBounds
  <2>4. ad <= Full
    <3>1. ad <= ad * NS
      BY <2>3, BucketNumbers
    <3> QED
      BY <2>1, <2>3, <3>1, BucketNumbers
  <2>5. t + ad \in Nat /\ (t + ad) % Word = t + ad
    <3>1. t + ad \in Nat /\ Word \in Nat /\ t + ad < Word
      BY <1>1, <2>3, <2>4, BucketTypes DEF ModestRate
    <3> QED
      BY <3>1, ModSmall
  <2>6. R = IF t + ad <= Burst THEN t + ad ELSE Burst
    BY <1>1, <1>2, <1>4, <2>2, <2>5 DEF Refilled, Full
  <2>7. (t + ad) * NS = t * NS + ad * NS
    BY <1>1, <2>3, BucketNumbers
  <2>8. t * NS \in Nat /\ ad * NS \in Nat
    BY <1>1, <2>3, BucketNumbers
  <2>9. CASE t + ad <= Burst
    <3>1. R = t + ad /\ (t + ad = 0 => t = 0)
      BY <1>1, <2>3, <2>6, <2>9
    <3>2. Slack(t) <= Slack(t + ad) /\ Slack(t) \in Nat /\ Slack(t + ad) \in Nat
      BY <3>1, BucketNumbers DEF Slack
    <3>3. g >= Full \/ g >= (t + ad) * NS - Slack(t + ad)
      BY <1>1, <2>1, <2>3, <2>7, <2>8, <3>2, BucketNumbers DEF Backed
    <3>4. ASSUME NEW v \in Int, g >= Full \/ g >= v * NS - Slack(v), v * NS - Slack(v) \in Int
          PROVE  Backed(g, v, 0)
      <4>1. 0 * Rate = 0 /\ v * NS \in Int
        BY <3>4, BucketTypes
      <4>2. Slack(v) \in Int
        BY BucketTypes DEF Slack
      <4> QED
        BY <3>4, <4>1, <4>2 DEF Backed
    <3>5. t + ad \in Int /\ (t + ad) * NS - Slack(t + ad) \in Int
      BY <1>1, <2>3, <2>7, <2>8, <3>2, BucketTypes
    <3>6. Backed(g, t + ad, 0)
      BY <3>3, <3>4, <3>5
    <3>7. t + ad \in 0 .. Burst
      BY <1>1, <2>3, <2>9, BucketTypes
    <3> HIDE DEF t, ad, R
    <3>8. R \in 0 .. Burst /\ Backed(g, R, 0)
      BY <3>1, <3>6, <3>7
    <3> QED
      BY <3>8 DEF R
  <2>10. CASE t + ad > Burst
    <3>1. R = Burst /\ (Burst + 1) * NS <= (t + ad) * NS
      BY <1>1, <2>3, <2>6, <2>10, BucketNumbers, TimesMonotone
    <3>2. (Burst + 1) * NS = Full + NS
      BY BucketNumbers
    <3>3. Slack(t) <= NS /\ Slack(t) \in Nat
      BY BucketNumbers DEF Slack, ModestRate
    <3>4. g >= Full
      BY <1>1, <2>1, <2>3, <2>7, <2>8, <3>1, <3>2, <3>3, BucketNumbers DEF Backed
    <3> QED
      BY <3>1, <3>4, BucketNumbers DEF Backed
  <2> QED
    BY <1>1, <2>3, <2>9, <2>10, BucketNumbers
<1>5. CASE d >= th
  <2>1. R = Burst
    BY <1>1, <1>2, <1>5, <1>3 DEF Refilled, Full
  <2>2. th * Rate <= d * Rate /\ d * Rate \in Nat /\ th * Rate \in Nat
    BY <1>1, <1>3, <1>5, BucketNumbers, TimesMonotone
  <2>3. t * NS - Slack(t) >= 0 /\ t * NS - Slack(t) \in Int
    <3>1. CASE t = 0
      BY <3>1, BucketNumbers DEF Slack
    <3>2. CASE t # 0
      <4>1. NS <= t * NS /\ t * NS \in Nat
        BY <1>1, <3>2, BucketNumbers
      <4> QED
        BY <3>2, <4>1, BucketNumbers DEF Slack, ModestRate
    <3> QED
      BY <3>1, <3>2
  <2>4. g >= Full - (Rate - 1)
    <3>1. d * Rate >= Full - (Rate - 1)
      BY <1>3, <2>2, BucketNumbers
    <3>2. Slack(t) \in Nat /\ t * NS \in Nat
      BY <1>1, BucketNumbers DEF Slack
    <3> QED
      BY <2>2, <2>3, <3>1, <3>2, BucketNumbers DEF Backed
  <2>5. Slack(Burst) = Rate - 1 /\ 0 * Rate = 0
    BY BucketNumbers, DetectorAssumption DEF Slack, RateAssumption
  <2> QED
    BY <2>1, <2>4, <2>5, BucketNumbers DEF Backed
<1> QED
  BY <1>1, <1>3, <1>4, <1>5

\* A packet let through takes as much from the grant as from the bucket.
LEMMA PassBacked ==
    ASSUME NEW g \in Int, NEW t \in 0 .. Burst, NEW len \in Length, t > len, Backed(g, t, 0)
    PROVE  t - len \in 0 .. Burst /\ Backed(g - len * NS_TO_S_MULTIPLIER, t - len, 0)
<1>1. len \in Nat /\ t - len \in Nat /\ t - len >= 1 /\ t - len <= Burst - len
  BY BucketNumbers
<1>2. (t - len) * NS_TO_S_MULTIPLIER = t * NS_TO_S_MULTIPLIER - len * NS_TO_S_MULTIPLIER
  BY <1>1, BucketNumbers
<1>3. /\ (t - len) * NS_TO_S_MULTIPLIER <= (Burst - len) * NS_TO_S_MULTIPLIER
      /\ (Burst - len) * NS_TO_S_MULTIPLIER = Full - len * NS_TO_S_MULTIPLIER
  BY <1>1, BucketNumbers, TimesMonotone
<1>4. Slack(t) = Rate - 1 /\ Slack(t - len) = Rate - 1 /\ 0 * Rate = 0
  BY <1>1, BucketNumbers DEF Slack
<1>5. len * NS_TO_S_MULTIPLIER \in Int /\ t * NS_TO_S_MULTIPLIER \in Int
  BY <1>1, BucketNumbers
<1> QED
  BY <1>1, <1>2, <1>3, <1>4, <1>5, BucketNumbers DEF Backed

\* A full grant backs the bucket of a new subnet.
LEMMA AllocateBacked ==
    ASSUME NEW len \in Length
    PROVE  Burst - len \in 0 .. Burst /\ Backed(Full - len * NS_TO_S_MULTIPLIER, Burst - len, 0)
<1>1. len \in Nat /\ len <= Burst
  BY BucketNumbers
<1>2. (Burst - len) * NS_TO_S_MULTIPLIER = Full - len * NS_TO_S_MULTIPLIER
  BY <1>1, BucketNumbers
<1>3. Slack(Burst - len) \in Nat /\ 0 * Rate = 0 /\ len * NS_TO_S_MULTIPLIER \in Int
  BY <1>1, BucketNumbers DEF Slack
<1> QED
  BY <1>1, <1>2, <1>3, BucketNumbers DEF Backed

\* Time passes: the grant grows by as much as the bucket is owed, up to Full.
LEMMA ClockBacked ==
    ASSUME NEW g \in Int, NEW t \in 0 .. Burst, NEW d \in Nat, NEW e \in Nat, Backed(g, t, d),
           NEW h \in Int, h = IF g + e * Rate > Full THEN Full ELSE g + e * Rate
    PROVE  Backed(h, t, d + e)
<1>1. (d + e) * Rate = d * Rate + e * Rate /\ d * Rate \in Nat /\ e * Rate \in Nat
  BY BucketNumbers
<1>2. Slack(t) \in Nat /\ t * NS_TO_S_MULTIPLIER \in Nat
  BY BucketNumbers DEF Slack
<1> QED
  BY <1>1, <1>2, BucketNumbers DEF Backed

\* A grant that backs a bucket is not overdrawn; and once the bucket is idle
\* for longer than ExpirationTime, the grant is full.
LEMMA BackedFacts ==
    ASSUME ModestRate, NEW g \in Int, NEW t \in 0 .. Burst, NEW d \in Nat, Backed(g, t, d)
    PROVE  g >= 0 /\ (d > ExpirationTime => g >= Full)
<1>1. t * NS_TO_S_MULTIPLIER - Slack(t) >= 0 /\ t * NS_TO_S_MULTIPLIER - Slack(t) \in Int
  <2>1. CASE t = 0
    BY <2>1, BucketNumbers DEF Slack
  <2>2. CASE t # 0
    <3>1. NS_TO_S_MULTIPLIER <= t * NS_TO_S_MULTIPLIER /\ t * NS_TO_S_MULTIPLIER \in Nat
      BY <2>2, BucketNumbers
    <3> QED
      BY <2>2, <3>1, BucketNumbers DEF Slack, ModestRate
  <2> QED
    BY <2>1, <2>2
<1>2. d * Rate \in Nat /\ Slack(t) \in Nat /\ t * NS_TO_S_MULTIPLIER \in Nat
  BY BucketNumbers DEF Slack
<1>3. g >= 0
  BY <1>1, <1>2, BucketNumbers DEF Backed
<1>4. ASSUME d > ExpirationTime PROVE g >= Full
  <2>1. Full % Word = Full /\ NS_TO_S_MULTIPLIER * Burst = Full
    BY FullMod, BucketNumbers
  <2>2. ExpirationTime = Full \div Rate
    BY <2>1, DetectorAssumption DEF ExpirationAssumption
  <2>3. ExpirationTime \in Nat /\ Full < ExpirationTime * Rate + Rate
    BY <2>2, BucketTypes, DivBounds
  <2>4. (ExpirationTime + 1) * Rate <= d * Rate
    BY <1>4, <2>3, BucketNumbers, TimesMonotone
  <2>5. (ExpirationTime + 1) * Rate = ExpirationTime * Rate + Rate
    BY <2>3, BucketNumbers
  <2>6. ExpirationTime * Rate \in Nat
    BY <2>3, BucketNumbers
  <2> QED
    BY <1>1, <1>2, <2>3, <2>4, <2>5, <2>6, BucketNumbers DEF Backed
<1> QED
  BY <1>3, <1>4

\* The bucket of every address in the table is backed by the address's grant,
\* and an address that is not in the table has its whole grant.
BucketsBacked ==
    /\ buckets \in [Index -> [tokens : 0 .. Burst, time : Int]]
    /\ granted \in [Flow -> Int]
    /\ \A f \in Flow : granted[f] <= Full
    /\ \A i \in used : /\ buckets[i].time = timestamps[i]
                       /\ Backed(granted[fv[i]], buckets[i].tokens, now - timestamps[i])
    /\ \A f \in Flow : (\A i \in used : fv[i] # f) => granted[f] = Full

DetectorInv == TableInv /\ pkt \in Packet /\ BucketsBacked

LEMMA DetectorTypes ==
    ASSUME DetectorInv
    PROVE  /\ now \in 0 .. MaxTime /\ MaxTime \in Nat /\ timestamps \in [Index -> Int]
           /\ pkt.src \in Flow /\ pkt.len \in Length /\ pkt.len \in Nat
           /\ fv \in [Index -> Flow] /\ used \subseteq Index
           /\ \A i \in used : /\ buckets[i].tokens \in 0 .. Burst /\ buckets[i].time \in Int
                              /\ now - timestamps[i] \in 0 .. MaxTime
<1>1. /\ now \in 0 .. MaxTime /\ timestamps \in [Index -> 0 .. MaxTime]
      /\ fv \in [Index -> Flow] /\ used \subseteq Index
  BY EntryFacts DEF DetectorInv
<1>2. MaxTime \in Nat
  BY TimeAssumption
<1>3. pkt.src \in Flow /\ pkt.len \in Length
  BY DEF DetectorInv, Packet
<1>4. \A i \in used : i \in Index /\ timestamps[i] \in 0 .. now
  BY UsedFacts DEF DetectorInv
<1>5. \A i \in used : buckets[i].tokens \in 0 .. Burst /\ buckets[i].time \in Int
  BY <1>1 DEF DetectorInv, BucketsBacked
<1> QED
  BY <1>1, <1>2, <1>3, <1>4, <1>5, BucketNumbers

LEMMA DetectorInitInv == Init => DetectorInv
<1> SUFFICES ASSUME Init PROVE DetectorInv
  OBVIOUS
<1>1. TableInit /\ pkt \in Packet
  BY DEF Init, BucketInit
<1>2. TableInv
  BY <1>1, TableInitInv
<1>3. used = {}
  BY <1>1 DEF TableInit, Heap!Init
<1>4. buckets = [i \in Index |-> [tokens |-> 0, time |-> 0]] /\ granted = [f \in Flow |-> Full]
  BY DEF Init, BucketInit
<1>5. BucketsBacked
  BY <1>3, <1>4, BucketTypes DEF BucketsBacked
<1> QED
  BY <1>1, <1>2, <1>5 DEF DetectorInv

\* What does not touch the table or the buckets keeps them backed.
LEMMA DetectorFrame ==
    ASSUME DetectorInv, UNCHANGED <<tableVars, bucketVars, pkt>>
    PROVE  DetectorInv'
<1>1. TableInv'
  BY FrameInv DEF DetectorInv
<1>2. UNCHANGED <<used, timestamps, fv, now, buckets, granted, pkt>>
  BY DEF tableVars, heap, bucketVars
<1>3. BucketsBacked'
  BY <1>2 DEF DetectorInv, BucketsBacked
<1> QED
  BY <1>1, <1>2, <1>3 DEF DetectorInv

\* Receiving a packet lets time pass.
LEMMA ClockInv ==
    ASSUME DetectorInv, NEW p \in Packet, Receive(p)
    PROVE  DetectorInv'
<1>1. /\ pkt' = p /\ now' \in now .. MaxTime
      /\ UNCHANGED <<heap, fm, fv, buckets>>
      /\ granted' = [f \in Flow |->
             IF granted[f] + (now' - now) * Rate > Full THEN Full
             ELSE granted[f] + (now' - now) * Rate]
  BY DEF Receive, Clock
<1>2. TableInv'
  BY <1>1, LaterInv DEF DetectorInv
<1>3. UNCHANGED <<used, timestamps, fv, buckets>>
  BY <1>1 DEF heap
<1> DEFINE e == now' - now
<1>4. e \in Nat /\ e * Rate \in Nat /\ Full \in Nat
  BY <1>1, DetectorTypes, BucketTypes
<1>5. granted' = [f \in Flow |-> IF granted[f] + e * Rate > Full THEN Full
                                  ELSE granted[f] + e * Rate]
  BY <1>1
<1>6. now' = now + e /\ now \in Int
  BY <1>1, DetectorTypes
<1> HIDE DEF e
<1>7. ASSUME NEW f \in Flow
      PROVE  /\ granted[f] \in Int /\ granted'[f] \in Int /\ granted'[f] <= Full
             /\ granted[f] = Full => granted'[f] = Full
             /\ granted'[f] = IF granted[f] + e * Rate > Full THEN Full
                              ELSE granted[f] + e * Rate
  <2>1. granted[f] \in Int /\ granted[f] <= Full
    BY DEF DetectorInv, BucketsBacked
  <2> QED
    BY <1>4, <1>5, <2>1
<1>8. granted' \in [Flow -> Int]
  BY <1>5, <1>7
<1>9. ASSUME NEW i \in used
      PROVE  /\ buckets'[i].time = timestamps'[i]
             /\ Backed(granted'[fv'[i]], buckets'[i].tokens, now' - timestamps'[i])
  <2>1. /\ buckets[i].time = timestamps[i] /\ i \in Index /\ fv[i] \in Flow
        /\ Backed(granted[fv[i]], buckets[i].tokens, now - timestamps[i])
    BY DetectorTypes DEF DetectorInv, BucketsBacked
  <2>2. buckets[i].tokens \in 0 .. Burst /\ now - timestamps[i] \in Nat
    BY DetectorTypes
  <2>3. Backed(granted'[fv[i]], buckets[i].tokens, (now - timestamps[i]) + e)
    BY <1>4, <1>7, <2>1, <2>2, ClockBacked
  <2>4. (now - timestamps[i]) + e = now' - timestamps[i]
    BY <1>4, <1>6, <2>1, DetectorTypes
  <2> QED
    BY <1>3, <2>1, <2>3, <2>4
<1>10. BucketsBacked'
  BY <1>3, <1>7, <1>8, <1>9 DEF DetectorInv, BucketsBacked, Backed, Slack
<1> QED
  BY <1>1, <1>2, <1>10 DEF DetectorInv

\* An address that leaves the table has been idle long enough to be granted
\* everything again.
LEMMA DetectorExpiring ==
    ASSUME ModestRate, DetectorInv, Expiring
    PROVE  DetectorInv'
<1>1. ExpireOne /\ UNCHANGED <<buckets, granted, pkt>>
  BY DEF Expiring, bucketVars
<1>2. TableInv'
  BY <1>1, ExpireOneEffect DEF DetectorInv
<1>3. PICK s \in Fm!Busy :
          /\ timestamps[vals[s]] < last_time /\ used' = used \ {vals[s]}
          /\ UNCHANGED <<fv, timestamps, now>>
  BY <1>1, ExpireOneEffect DEF DetectorInv
<1> DEFINE i == vals[s]
<1>4. i \in used
  BY EntryFacts DEF DetectorInv
<1> HIDE DEF i
<1>5. granted[fv[i]] = Full
  <2>1. i \in Index /\ fv[i] \in Flow /\ now - timestamps[i] \in Nat
    BY <1>4, DetectorTypes
  <2>2. now - timestamps[i] > ExpirationTime
    BY <1>3, <1>4, <2>1, DetectorTypes, TimeAssumption DEF last_time, i
  <2>3. granted[fv[i]] \in Int /\ granted[fv[i]] <= Full
    BY <2>1 DEF DetectorInv, BucketsBacked
  <2>4. /\ buckets[i].tokens \in 0 .. Burst
        /\ Backed(granted[fv[i]], buckets[i].tokens, now - timestamps[i])
    BY <1>4, DetectorTypes DEF DetectorInv, BucketsBacked
  <2>5. granted[fv[i]] >= Full
    BY <2>1, <2>2, <2>3, <2>4, BackedFacts
  <2> QED
    BY <2>3, <2>5, BucketTypes
<1>6. BucketsBacked'
  <2>1. ASSUME NEW f \in Flow, \A j \in used' : fv[j] # f PROVE granted[f] = Full
    <3>1. f = fv[i] \/ \A j \in used : fv[j] # f
      BY <1>3, <2>1 DEF i
    <3> QED
      BY <1>5, <3>1 DEF DetectorInv, BucketsBacked
  <2> QED
    BY <1>1, <1>3, <2>1 DEF DetectorInv, BucketsBacked, Backed, Slack
<1> QED
  BY <1>1, <1>2, <1>6 DEF DetectorInv

\* A packet whose address holds index i afterwards, with t tokens counted now
\* and a grant of g that backs them.
LEMMA UseBacked ==
    ASSUME DetectorInv, NEW f \in Flow, NEW i \in Index, NEW t \in 0 .. Burst, NEW g \in Int,
           Backed(g, t, 0), g <= Full,
           \A j \in used : fv[j] = f => j = i,
           used' = used \cup {i}, fv' = [fv EXCEPT ![i] = f], i \in used => fv[i] = f,
           timestamps' = [timestamps EXCEPT ![i] = now], now' = now,
           buckets' = [buckets EXCEPT ![i] = [tokens |-> t, time |-> now]],
           granted' = [granted EXCEPT ![f] = g]
    PROVE  BucketsBacked'
<1>1. now \in Int /\ timestamps \in [Index -> Int] /\ fv \in [Index -> Flow] /\ used \subseteq Index
  BY DetectorTypes
<1>2. /\ buckets \in [Index -> [tokens : 0 .. Burst, time : Int]] /\ granted \in [Flow -> Int]
      /\ \A h \in Flow : granted[h] <= Full
  BY DEF DetectorInv, BucketsBacked
<1>3. ASSUME NEW j \in used'
      PROVE  /\ buckets'[j].time = timestamps'[j]
             /\ Backed(granted'[fv'[j]], buckets'[j].tokens, now' - timestamps'[j])
  <2>1. CASE j = i
    <3>1. /\ timestamps'[j] = now /\ fv'[j] = f /\ granted'[f] = g
          /\ buckets'[j] = [tokens |-> t, time |-> now] /\ now' - timestamps'[j] = 0
      BY <1>1, <1>2, <2>1
    <3> QED
      BY <3>1
  <2>2. CASE j # i
    <3>1. j \in used /\ fv[j] # f /\ fv[j] \in Flow /\ j \in Index
      BY <1>1, <2>2
    <3>2. /\ timestamps'[j] = timestamps[j] /\ fv'[j] = fv[j] /\ buckets'[j] = buckets[j]
          /\ granted'[fv[j]] = granted[fv[j]]
      BY <1>1, <1>2, <2>2, <3>1
    <3> QED
      BY <3>1, <3>2 DEF DetectorInv, BucketsBacked
  <2> QED
    BY <2>1, <2>2
<1>4. ASSUME NEW h \in Flow, \A j \in used' : fv'[j] # h PROVE granted'[h] = Full
  <2>1. h # f /\ \A j \in used : fv[j] # h
    BY <1>1, <1>4
  <2> QED
    BY <1>2, <2>1 DEF DetectorInv, BucketsBacked
<1>5. buckets' \in [Index -> [tokens : 0 .. Burst, time : Int]]
  BY <1>1, <1>2
<1>6. granted' \in [Flow -> Int] /\ \A h \in Flow : granted'[h] <= Full
  BY <1>2
<1> QED
  BY <1>3, <1>4, <1>5, <1>6 DEF BucketsBacked, Backed, Slack, Full

LEMMA DetectorUpdate ==
    ASSUME ModestRate, DetectorInv, UpdateBucket
    PROVE  DetectorInv'
<1> DEFINE f == pkt.src
           len == pkt.len
<1>1. /\ f \in Flow /\ len \in Length /\ len \in Nat /\ Present(f)
      /\ UpdateAndCheck(f, len) /\ pkt' = pkt
      /\ IF Pass(f, len) THEN Grant(f, len) ELSE UNCHANGED granted
  BY DetectorTypes DEF UpdateBucket, Finish
<1> HIDE DEF f, len
<1>2. Refresh(f)
  BY <1>1 DEF UpdateAndCheck
<1>3. TableInv'
  BY <1>1, <1>2, RefreshEffect DEF DetectorInv
<1>4. PICK s \in Fm!Busy :
          /\ fv[keyps[s]] = f /\ IndexOf(f) = vals[s]
          /\ timestamps' = [timestamps EXCEPT ![vals[s]] = now]
          /\ UNCHANGED <<used, fv, now>>
  BY <1>1, <1>2, RefreshEffect DEF DetectorInv
<1> DEFINE i == vals[s]
           R == Refilled(buckets[i])
           g == granted[f]
<1>5. i \in used /\ i \in Index /\ fv[i] = f
  BY <1>4, EntryFacts DEF DetectorInv
<1>6. /\ buckets' = [buckets EXCEPT ![i] =
                        [tokens |-> IF R > len THEN R - len ELSE R, time |-> now]]
      /\ Pass(f, len) <=> R > len
  BY <1>1, <1>4 DEF UpdateAndCheck, Pass
<1>7. g \in Int /\ g <= Full
  BY <1>1 DEF DetectorInv, BucketsBacked
<1>8. R \in 0 .. Burst /\ Backed(g, R, 0)
  <2>1. /\ buckets[i].tokens \in 0 .. Burst /\ buckets[i].time \in Int
        /\ buckets[i].time = timestamps[i] /\ now - timestamps[i] \in 0 .. MaxTime
        /\ Backed(g, buckets[i].tokens, now - timestamps[i])
    BY <1>5, DetectorTypes DEF DetectorInv, BucketsBacked
  <2>2. now \in Int /\ MaxTime \in Nat
    BY DetectorTypes
  <2> QED
    BY <1>7, <2>1, <2>2, RefillBacked
<1>9. /\ \A j \in used : fv[j] = f => j = i
      /\ used' = used \cup {i} /\ fv' = [fv EXCEPT ![i] = f]
      /\ timestamps' = [timestamps EXCEPT ![i] = now] /\ now' = now
  BY <1>4, <1>5, UsedFacts, DetectorTypes DEF DetectorInv
<1> HIDE DEF i, R, g
<1>10. BucketsBacked'
  <2>1. CASE R > len
    <3>1. R - len \in 0 .. Burst /\ Backed(g - len * NS_TO_S_MULTIPLIER, R - len, 0)
      BY <1>1, <1>7, <1>8, <2>1, PassBacked
    <3>2. len * NS_TO_S_MULTIPLIER \in Nat /\ Full \in Int
      BY <1>1, BucketTypes
    <3>3. g - len * NS_TO_S_MULTIPLIER \in Int /\ g - len * NS_TO_S_MULTIPLIER <= Full
      BY <1>7, <3>2
    <3>4. granted' = [granted EXCEPT ![f] = g - len * NS_TO_S_MULTIPLIER]
      BY <1>1, <1>6, <2>1 DEF Grant, g
    <3>5. buckets' = [buckets EXCEPT ![i] = [tokens |-> R - len, time |-> now]]
      BY <1>6, <2>1
    <3> QED
      BY <1>1, <1>5, <1>9, <3>1, <3>3, <3>4, <3>5, UseBacked
  <2>2. CASE ~(R > len)
    <3>1. granted' = [granted EXCEPT ![f] = g]
      BY <1>1, <1>6, <2>2 DEF g, DetectorInv, BucketsBacked
    <3>2. buckets' = [buckets EXCEPT ![i] = [tokens |-> R, time |-> now]]
      BY <1>6, <2>2
    <3> QED
      BY <1>1, <1>5, <1>7, <1>8, <1>9, <3>1, <3>2, UseBacked
  <2> QED
    BY <2>1, <2>2
<1> QED
  BY <1>1, <1>3, <1>10 DEF DetectorInv

LEMMA DetectorAllocate ==
    ASSUME ModestRate, DetectorInv, Allocate
    PROVE  DetectorInv'
<1> DEFINE f == pkt.src
           len == pkt.len
           i == Fresh
<1>1. /\ f \in Flow /\ len \in Length /\ len \in Nat /\ ~Present(f)
      /\ Insert(f) /\ FillBucket(len) /\ Grant(f, len) /\ pkt' = pkt
  BY DetectorTypes DEF Allocate, Finish
<1> HIDE DEF f, len
<1>2. TableInv' /\ i \in Index /\ i \notin used
  BY <1>1, InsertEffect DEF DetectorInv
<1>3. /\ fv' = [fv EXCEPT ![i] = f] /\ timestamps' = [timestamps EXCEPT ![i] = now]
      /\ used' = used \cup {i} /\ now' = now
  BY <1>1, InsertEffect DEF DetectorInv
<1>4. \A j \in used : fv[j] # f
  <2>1. \A s \in Fm!Busy : fv[keyps[s]] # f
    BY <1>1, AbsentFacts DEF DetectorInv
  <2> QED
    BY <2>1, EntryFacts DEF DetectorInv
<1>5. granted[f] = Full
  BY <1>1, <1>4 DEF DetectorInv, BucketsBacked
<1>6. Burst - len \in 0 .. Burst /\ Backed(Full - len * NS_TO_S_MULTIPLIER, Burst - len, 0)
  BY <1>1, AllocateBacked
<1>7. (Burst - len) % Word = Burst - len
  <2>1. Burst - len \in Nat /\ Word \in Nat /\ Burst - len < Word
    BY <1>1, <1>6, BucketTypes, DetectorAssumption DEF RateAssumption
  <2> QED
    BY <2>1, ModSmall
<1>8. Full - len * NS_TO_S_MULTIPLIER \in Int /\ Full - len * NS_TO_S_MULTIPLIER <= Full
  <2>1. len * NS_TO_S_MULTIPLIER \in Nat /\ Full \in Int
    BY <1>1, BucketTypes
  <2> QED
    BY <2>1
<1>9. granted' = [granted EXCEPT ![f] = Full - len * NS_TO_S_MULTIPLIER]
  BY <1>1, <1>5 DEF Grant
<1>10. buckets' = [buckets EXCEPT ![i] = [tokens |-> Burst - len, time |-> now]]
  BY <1>1, <1>7 DEF FillBucket
<1> HIDE DEF i
<1>11. BucketsBacked'
  BY <1>1, <1>2, <1>3, <1>4, <1>6, <1>8, <1>9, <1>10, UseBacked
<1> QED
  BY <1>1, <1>2, <1>11 DEF DetectorInv

LEMMA DetectorRefused ==
    ASSUME DetectorInv, AllocateRefused
    PROVE  DetectorInv'
<1>1. pkt.src \in Flow /\ Refuse(pkt.src) /\ UNCHANGED <<buckets, granted, pkt>>
  BY DetectorTypes DEF AllocateRefused, Finish, bucketVars
<1>2. TableInv' /\ UNCHANGED <<used, fv, timestamps, now>>
  BY <1>1, RefuseEffect DEF DetectorInv
<1>3. BucketsBacked'
  BY <1>1, <1>2 DEF DetectorInv, BucketsBacked
<1> QED
  BY <1>1, <1>2, <1>3 DEF DetectorInv

LEMMA DetectorStep ==
    ASSUME ModestRate, DetectorInv, [Next]_vars
    PROVE  DetectorInv'
<1>1. ASSUME NEW p \in Packet, Receive(p) PROVE DetectorInv'
  BY <1>1, ClockInv
<1>2. ASSUME NotIpv4 \/ NotCounted \/ UNCHANGED vars PROVE DetectorInv'
  <2>1. UNCHANGED <<tableVars, bucketVars, pkt>>
    BY <1>2 DEF NotIpv4, NotCounted, Finish, vars
  <2> QED
    BY <2>1, DetectorFrame
<1> QED
  BY <1>1, <1>2, DetectorExpiring, DetectorUpdate, DetectorAllocate, DetectorRefused
     DEF Next, nf_process

\* The rate is enforced (update_buckets, allocate, expire_entries of the heavy
\* hitter detector): over any time, no address is let through more than the
\* burst and what a Rate of up to one token a clock tick adds, whatever the
\* times between packets, the hash collisions, the expiry and the re-creation
\* of buckets, and the rounding of refills.
THEOREM RateHolds == ModestRate /\ Spec => []RateEnforced
<1> SUFFICES ASSUME ModestRate PROVE Spec => []RateEnforced
  OBVIOUS
<1>1. ASSUME DetectorInv PROVE RateEnforced
  <2> SUFFICES ASSUME NEW f \in Flow PROVE granted[f] >= 0
    BY DEF RateEnforced
  <2>1. CASE \A i \in used : fv[i] # f
    BY <1>1, <2>1, BucketTypes DEF DetectorInv, BucketsBacked
  <2>2. CASE \E i \in used : fv[i] = f
    <3>1. PICK i \in used : fv[i] = f
      BY <2>2
    <3>2. /\ granted[f] \in Int /\ buckets[i].tokens \in 0 .. Burst
          /\ now - timestamps[i] \in Nat
          /\ Backed(granted[f], buckets[i].tokens, now - timestamps[i])
      BY <1>1, <3>1, DetectorTypes DEF DetectorInv, BucketsBacked
    <3> QED
      BY <1>1, <3>2, BackedFacts
  <2> QED
    BY <2>1, <2>2
<1>2. DetectorInv /\ [Next]_vars => DetectorInv'
  BY DetectorStep
<1> QED
  BY <1>1, <1>2, DetectorInitInv, PTL DEF Spec
------------------------------------------------------------------------------
(* Their tables as values.  By TableIsAged, each function's chain, vector   *)
(* and map are a table of AgedTable, operation by operation.                *)

\* The translator's table: what it does with it is what TableRuns allows, a
\* reply that refreshes a port without a look at the map included.
THEOREM TranslatorTableIsAged ==
    NfSpec => F!TableRuns /\ []F!AgedAnswers /\ [][F!AgedChanges]_(F!tableVars)
<1>1. NatInv /\ [N!Next]_N!vars => [F!Uses]_(F!tableVars)
  <2> SUFFICES ASSUME NatInv, [N!Next]_N!vars PROVE [F!Uses]_(F!tableVars)
    OBVIOUS
  <2>1. ASSUME NEW p \in N!Packet, N!Receive(p) PROVE F!Uses
    BY <2>1 DEF N!Receive, F!Uses, N!heap, F!heap, N!fm, F!fm
  <2>2. CASE N!Expiring
    BY <2>2, SameTable DEF N!Expiring, F!Uses
  <2>3. CASE N!NotTcpUdp
    BY <2>3 DEF N!NotTcpUdp, N!tableVars, F!tableVars, N!heap, F!heap, N!fm, F!fm
  <2>4. CASE N!FromInside
    <3> DEFINE id == <<natPkt.src, natPkt.dst>>
    <3>1. id \in NatFlow
      BY <2>4, NatIdTyped DEF N!FromInside
    <3>2. \/ F!Present(id) /\ F!Refresh(id)
          \/ ~F!Present(id) /\ (F!Insert(id) \/ F!Refuse(id))
      BY <2>4, SameTable DEF N!FromInside
    <3> HIDE DEF id
    <3> QED
      BY <3>1, <3>2 DEF F!Uses, NatFlow
  <2>5. CASE N!FromOutside
    <3> DEFINE i == natPkt.port
    <3>1. N!get_external(i) /\ i \in F!Index
      BY <2>5, NatPortTyped, SameTableChain DEF N!FromOutside
    <3> HIDE DEF i
    <3>2. CASE N!Heap!IsAllocated(i)
      <4>1. F!Heap!IsAllocated(i) /\ F!Heap!Rejuvenate(i) /\ UNCHANGED <<F!fm, natFv>>
        BY <3>1, <3>2, SameTableChain DEF N!get_external, N!fm, F!fm
      <4>2. i \in natUsed
        BY <3>1, <4>1, NatAssumptions, F!AllocatedFacts DEF NatInv
      <4> QED
        BY <4>1, <4>2 DEF F!Uses
    <3>3. CASE ~N!Heap!IsAllocated(i)
      BY <3>1, <3>3 DEF N!get_external, N!tableVars, F!tableVars, N!heap, F!heap, N!fm, F!fm
    <3> QED
      BY <3>2, <3>3
  <2>6. CASE UNCHANGED N!vars
    BY <2>6 DEF N!vars, N!tableVars, F!tableVars, N!heap, F!heap, N!fm, F!fm
  <2> QED
    BY <2>1, <2>2, <2>3, <2>4, <2>5, <2>6 DEF N!Next, N!nf_process
<1>2. N!Init => F!TableInit
  BY SameTable DEF N!Init
<1>3. N!Spec => F!TableRuns
  BY <1>1, <1>2, NatInductive, PTL DEF N!Spec, F!TableRuns
<1> QED
  BY <1>3, TranslatorRuns, NatAssumptions, F!TableIsAged

\* The heavy hitter detector's table, whatever its rate.
THEOREM DetectorTableIsAged ==
    Spec => TableRuns /\ []AgedAnswers /\ [][AgedChanges]_tableVars
<1>1. pkt \in Packet /\ [Next]_vars => (pkt \in Packet)'
  BY DEF Next, nf_process, Receive, NotIpv4, Expiring, NotCounted, UpdateBucket, Allocate,
         AllocateRefused, Finish, vars
<1>2. pkt \in Packet /\ [Next]_vars => [Uses]_tableVars
  <2> SUFFICES ASSUME pkt \in Packet, [Next]_vars PROVE [Uses]_tableVars
    OBVIOUS
  <2>1. pkt.src \in Flow
    BY DEF Packet
  <2>2. ASSUME NEW p \in Packet, Receive(p) PROVE Uses
    BY <2>2 DEF Receive, Clock, Uses
  <2>3. CASE Expiring
    BY <2>3 DEF Expiring, Uses
  <2>4. CASE NotIpv4 \/ NotCounted \/ UNCHANGED vars
    BY <2>4 DEF NotIpv4, NotCounted, vars
  <2>5. CASE UpdateBucket
    <3>1. Present(pkt.src) /\ Refresh(pkt.src)
      BY <2>5 DEF UpdateBucket, UpdateAndCheck
    <3> QED
      BY <2>1, <3>1 DEF Uses
  <2>6. CASE Allocate \/ AllocateRefused
    <3>1. ~Present(pkt.src) /\ (Insert(pkt.src) \/ Refuse(pkt.src))
      BY <2>6 DEF Allocate, AllocateRefused
    <3> QED
      BY <2>1, <3>1 DEF Uses
  <2> QED
    BY <2>2, <2>3, <2>4, <2>5, <2>6 DEF Next, nf_process
<1>3. Init => TableInit /\ pkt \in Packet
  BY DEF Init, BucketInit
<1>4. Spec => TableRuns
  BY <1>1, <1>2, <1>3, PTL DEF Spec, TableRuns
<1> QED
  BY <1>4, TableIsAged
==============================================================================
