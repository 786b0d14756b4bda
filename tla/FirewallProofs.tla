---------------------------- MODULE FirewallProofs ----------------------------
(***************************************************************************)
(* The firewall, for any number of flows, any hash function, any set of    *)
(* devices and rules and any expiration time: its chain, vector and map    *)
(* stay coherent, it calls the map as the map asks, and it does what       *)
(* FirewallPolicy promises.                                                *)
(***************************************************************************)
EXTENDS Firewall, FlowTableProofs

------------------------------------------------------------------------------
(* The firewall                                                             *)

FirewallInv == TableInv /\ pkt \in Packet

\* The identifier nf_process looks up is one the table may hold.
LEMMA FlowIdTyped == pkt \in Packet => FlowId(pkt) \in Flow
BY FlowsArePairs DEF Packet, FlowId

\* Every step of the worker loop keeps the three structures coherent.
LEMMA FirewallNext == FirewallInv /\ [Next]_vars => FirewallInv'
<1> SUFFICES ASSUME FirewallInv, [Next]_vars PROVE FirewallInv'
  OBVIOUS
<1>1. TableInv /\ pkt \in Packet /\ FlowId(pkt) \in Flow
  BY FlowIdTyped DEF FirewallInv
<1>2. ASSUME UNCHANGED tableVars PROVE TableInv'
  BY <1>1, <1>2, FrameInv
<1>3. ASSUME NEW p \in Packet, Receive(p) PROVE FirewallInv'
  BY <1>1, <1>3, LaterInv DEF Receive, FirewallInv
<1>4. CASE Expiring
  BY <1>1, <1>4, ExpireOneEffect DEF Expiring, FirewallInv
<1>5. CASE NotTcpUdp
  BY <1>1, <1>2, <1>5 DEF NotTcpUdp, Finish, FirewallInv
<1>6. CASE FromInside
  <2>1. AllocateOrRefresh(FlowId(pkt)) /\ pkt' = pkt
    BY <1>6 DEF FromInside, Finish
  <2> QED
    BY <1>1, <2>1, RefreshEffect, InsertEffect, RefuseEffect DEF AllocateOrRefresh, FirewallInv
<1>7. CASE FromOutside
  <2>1. GetRefresh(FlowId(pkt)) /\ pkt' = pkt
    BY <1>7 DEF FromOutside, Finish
  <2> QED
    BY <1>1, <1>2, <2>1, RefreshEffect DEF GetRefresh, FirewallInv
<1>8. CASE UNCHANGED vars
  BY <1>1, <1>2, <1>8 DEF vars, FirewallInv
<1> QED
  BY <1>3, <1>4, <1>5, <1>6, <1>7, <1>8 DEF Next, nf_process

\* The invariant holds of every state of the firewall.
LEMMA FirewallInductive == Spec => []FirewallInv
<1>1. Init => FirewallInv
  BY TableInitInv DEF Init, FirewallInv
<1> QED
  BY <1>1, FirewallNext, PTL DEF Spec

\* The chain, the vector and the map of the firewall stay coherent, as
\* expirator.h asks: the indexes in use are the values of the map's entries,
\* each keyed by the flow in that index's cell.
THEOREM FirewallCoherent == Spec => []Coherent
<1>1. FirewallInv => Coherent
  BY DEF FirewallInv, TableInv
<1> QED
  BY <1>1, FirewallInductive, PTL

\* The firewall calls map_put only with a free slot, an absent key and a cell
\* no entry points to, and map_erase only with a key the map has.
THEOREM FirewallCallsAllowed == Spec => []MapCallsAllowed
<1>1. FirewallInv => MapCallsAllowed
  BY MayInsert, MayExpire, SameChain DEF FirewallInv, MapCallsAllowed
<1> QED
  BY <1>1, FirewallInductive, PTL

------------------------------------------------------------------------------
(* The firewall's table as one value                                        *)

\* All the firewall does with its chain, vector and map is what TableRuns
\* allows, so by TableIsAged the three are a table of AgedTable: its expiry
\* loop leaves exactly the flows last used within the expiration time, a flow
\* is known exactly when it is in the table, and a new one gets a free index
\* whenever there is one.
THEOREM FirewallTableIsAged ==
    Spec => TableRuns /\ []AgedAnswers /\ [][AgedChanges]_tableVars
<1>1. FirewallInv /\ [Next]_vars => [Uses]_tableVars
  <2> SUFFICES ASSUME FirewallInv, [Next]_vars PROVE [Uses]_tableVars
    OBVIOUS
  <2>1. FlowId(pkt) \in Flow
    BY FlowIdTyped DEF FirewallInv
  <2>2. ASSUME NEW p \in Packet, Receive(p) PROVE Uses
    BY <2>2 DEF Receive, Uses
  <2>3. CASE Expiring
    BY <2>3 DEF Expiring, Uses
  <2>4. CASE NotTcpUdp
    BY <2>4 DEF NotTcpUdp
  <2>5. CASE FromInside
    <3>1. AllocateOrRefresh(FlowId(pkt))
      BY <2>5 DEF FromInside
    <3> QED
      BY <2>1, <3>1 DEF AllocateOrRefresh, Uses
  <2>6. CASE FromOutside
    <3>1. GetRefresh(FlowId(pkt))
      BY <2>6 DEF FromOutside
    <3> QED
      BY <2>1, <3>1 DEF GetRefresh, Uses
  <2>7. CASE UNCHANGED vars
    BY <2>7 DEF vars
  <2> QED
    BY <2>2, <2>3, <2>4, <2>5, <2>6, <2>7 DEF Next, nf_process
<1>2. Init => TableInit
  BY DEF Init
<1>3. Spec => TableRuns
  BY <1>1, <1>2, FirewallInductive, PTL DEF Spec, TableRuns
<1> QED
  BY <1>3, TableIsAged

------------------------------------------------------------------------------
(* The firewall's policy                                                    *)

\* A flow of the table was last seen at the time stamp of its entry's index.
LEMMA SeenFacts ==
    ASSUME TableInv
    PROVE  /\ DOMAIN Seen = {fv[keyps[s]] : s \in Fm!Busy}
           /\ \A s \in Fm!Busy : Seen[fv[keyps[s]]] = timestamps[vals[s]]
           /\ IsFiniteSet(DOMAIN Seen) /\ Cardinality(DOMAIN Seen) = Cardinality(Fm!Busy)
<1>1. ASSUME NEW s \in Fm!Busy PROVE SlotOf(fv[keyps[s]]) = s
  BY EntryFacts DEF SlotOf
<1>2. DOMAIN Seen = {fv[keyps[s]] : s \in Fm!Busy}
  BY DEF Seen
<1>3. ASSUME NEW s \in Fm!Busy PROVE Seen[fv[keyps[s]]] = timestamps[vals[s]]
  BY <1>1 DEF Seen
<1>4. IsFiniteSet(DOMAIN Seen) /\ Cardinality(DOMAIN Seen) = Cardinality(Fm!Busy)
  <2> DEFINE flow == [s \in Fm!Busy |-> fv[keyps[s]]]
  <2>1. \A s, t \in Fm!Busy : flow[s] = flow[t] => s = t
    BY EntryFacts
  <2>2. DOMAIN Seen = {flow[s] : s \in Fm!Busy}
    BY <1>2
  <2> HIDE DEF flow
  <2> QED
    BY <2>1, <2>2, EntryFacts, AsManyValues
<1> QED
  BY <1>2, <1>3, <1>4

\* The same of the next state.
LEMMA SeenFactsNext ==
    ASSUME TableInv'
    PROVE  /\ Seen' = [f \in {fv'[keyps'[s]] : s \in Fm!Busy'} |-> Seen'[f]]
           /\ \A s \in Fm!Busy' : Seen'[fv'[keyps'[s]]] = timestamps'[vals'[s]]
<1>1. \A s, t \in Fm!Busy' : fv'[keyps'[s]] = fv'[keyps'[t]] => s = t
  <2>1. Fm!Busy' = S!Busy'
    BY DEF Fm!Busy, S!Busy, Fm!Slot, S!Slot
  <2> QED
    BY <2>1 DEF TableInv, S!MapInv, S!KeysDistinct
<1>2. ASSUME NEW s \in Fm!Busy'
      PROVE  (CHOOSE t \in Fm!Busy' : fv'[keyps'[t]] = fv'[keyps'[s]]) = s
  BY <1>1
<1>3. Seen' = [f \in {fv'[keyps'[s]] : s \in Fm!Busy'} |-> Seen'[f]]
  BY DEF Seen
<1>4. ASSUME NEW s \in Fm!Busy' PROVE Seen'[fv'[keyps'[s]]] = timestamps'[vals'[s]]
  BY <1>2 DEF Seen, SlotOf
<1> QED
  BY <1>3, <1>4

\* A new firewall remembers no flow.
LEMMA InitSeen == Init => Policy!Init
<1> SUFFICES ASSUME Init PROVE Policy!Init
  OBVIOUS
<1>1. Fm!Busy = {}
  BY DEF Init, TableInit, Fm!MapInit, Fm!Busy
<1>2. Seen = [f \in {} |-> 0]
  BY <1>1 DEF Seen
<1>3. now = 0
  BY DEF Init, TableInit, Heap!Init
<1> QED
  BY <1>2, <1>3 DEF Init, Policy!Init

\* A step that leaves the entries and their stamps alone forgets and sees nothing.
LEMMA FrameSeen ==
    ASSUME Fm!Busy' = Fm!Busy, UNCHANGED <<keyps, vals, fv, timestamps>>
    PROVE  UNCHANGED Seen
BY DEF Seen, SlotOf

\* Expiring an index forgets its flow, which has been idle for too long.
LEMMA ExpiringStep ==
    ASSUME FirewallInv, Expiring
    PROVE  \E f \in DOMAIN Seen : Policy!Forget(f)
<1>0. TableInv /\ TableInv'
  BY ExpireOneEffect DEF FirewallInv, Expiring
<1>1. PICK s \in Fm!Busy :
          /\ timestamps[vals[s]] < last_time /\ Fm!Busy' = Fm!Busy \ {s}
          /\ UNCHANGED <<keyps, vals, fv, timestamps, now>>
  BY <1>0, ExpireOneEffect DEF Expiring
<1> DEFINE f == fv[keyps[s]]
<1>2. f \in DOMAIN Seen /\ Seen[f] < now - ExpirationTime
  BY <1>0, <1>1, SeenFacts DEF last_time
<1>3. {fv'[keyps'[t]] : t \in Fm!Busy'} = DOMAIN Seen \ {f}
  BY <1>0, <1>1, SeenFacts, EntryFacts
<1>4. ASSUME NEW g \in DOMAIN Seen \ {f} PROVE Seen'[g] = Seen[g]
  <2>1. PICK t \in Fm!Busy' : g = fv'[keyps'[t]]
    BY <1>3
  <2>2. t \in Fm!Busy /\ g = fv[keyps[t]] /\ vals'[t] = vals[t] /\ timestamps' = timestamps
    BY <1>1, <2>1
  <2>3. Seen'[g] = timestamps'[vals'[t]]
    BY <1>0, <2>1, SeenFactsNext
  <2>4. Seen[g] = timestamps[vals[t]]
    BY <1>0, <2>2, SeenFacts
  <2> QED
    BY <2>2, <2>3, <2>4
<1> HIDE DEF f
<1>5. Seen' = [g \in DOMAIN Seen \ {f} |-> Seen[g]]
  BY <1>0, <1>3, <1>4, SeenFactsNext
<1>6. Policy!Forget(f)
  BY <1>1, <1>2, <1>5 DEF Policy!Forget, Policy!Stale, Expiring
<1> QED
  BY <1>2, <1>6

\* When the expiry loop has ended no flow that is left has been idle too long.
LEMMA NothingStale ==
    ASSUME TableInv, Expired
    PROVE  \A g \in DOMAIN Seen : ~Policy!Stale(g)
<1> SUFFICES ASSUME NEW g \in DOMAIN Seen PROVE ~(Seen[g] < last_time)
  BY DEF Policy!Stale, last_time
<1>1. PICK s \in Fm!Busy : g = fv[keyps[s]] /\ Seen[g] = timestamps[vals[s]]
  BY SeenFacts
<1>2. vals[s] \in used /\ vals[s] \in Index
  BY EntryFacts
<1>3. S!HasOldest /\ S!Oldest \in used /\ S!IsAllocated(S!Oldest)
      /\ (vals[s] # S!Oldest => timestamps[S!Oldest] <= timestamps[vals[s]])
  BY <1>2, TableSizes, S!OldestFacts DEF TableInv
<1>4. ~(timestamps[S!Oldest] < last_time)
  BY <1>3, SameChain DEF Expired
<1>5. timestamps[S!Oldest] \in Int /\ timestamps[vals[s]] \in Int /\ last_time \in Int
  BY <1>2, <1>3, EntryFacts, TimeAssumption DEF last_time
<1> QED
  BY <1>1, <1>3, <1>4, <1>5

\* Refreshing the entry of a flow sees it now.
LEMMA RefreshStep ==
    ASSUME TableInv, NEW f \in Flow, Present(f), Refresh(f)
    PROVE  f \in DOMAIN Seen /\ Policy!See(f) /\ now' = now
<1>0. TableInv'
  BY RefreshEffect
<1>1. PICK s \in Fm!Busy :
          /\ fv[keyps[s]] = f /\ timestamps' = [timestamps EXCEPT ![vals[s]] = now]
          /\ Fm!Busy' = Fm!Busy /\ UNCHANGED <<used, keyps, vals, fv, now>>
  BY RefreshEffect
<1>2. f \in DOMAIN Seen /\ DOMAIN Seen \cup {f} = {fv'[keyps'[t]] : t \in Fm!Busy'}
  BY <1>1, SeenFacts
<1>3. ASSUME NEW t \in Fm!Busy
      PROVE  Seen'[fv[keyps[t]]] = IF fv[keyps[t]] = f THEN now ELSE Seen[fv[keyps[t]]]
  <2>1. Seen'[fv[keyps[t]]] = timestamps'[vals[t]] /\ Seen[fv[keyps[t]]] = timestamps[vals[t]]
    BY <1>0, <1>1, SeenFacts, SeenFactsNext
  <2>2. fv[keyps[t]] = f <=> t = s
    BY <1>1, EntryFacts
  <2>3. vals[t] = vals[s] <=> t = s
    BY DEF TableInv, Coherent
  <2>4. vals[t] \in Index /\ vals[s] \in Index /\ timestamps \in [Index -> 0 .. MaxTime]
    BY EntryFacts
  <2> QED
    BY <1>1, <2>1, <2>2, <2>3, <2>4
<1>4. Seen' = [g \in DOMAIN Seen \cup {f} |-> IF g = f THEN now ELSE Seen[g]]
  <2>1. Seen' = [g \in DOMAIN Seen \cup {f} |-> Seen'[g]]
    BY <1>0, <1>2, SeenFactsNext
  <2>2. ASSUME NEW g \in DOMAIN Seen \cup {f} PROVE Seen'[g] = IF g = f THEN now ELSE Seen[g]
    <3>1. PICK t \in Fm!Busy : g = fv[keyps[t]]
      BY <1>2, SeenFacts
    <3> QED
      BY <1>3, <3>1
  <2> QED
    BY <2>1, <2>2
<1> QED
  BY <1>1, <1>2, <1>4 DEF Policy!See

\* Adding an entry for a flow sees it now, for the first time, and is done only
\* while fewer than max_flows flows are remembered.
LEMMA InsertStep ==
    ASSUME TableInv, NEW f \in Flow, ~Present(f), Insert(f)
    PROVE  Cardinality(DOMAIN Seen) < MaxFlows /\ Policy!See(f) /\ now' = now
<1>0. TableInv' /\ Fresh \in Index /\ Fresh \notin used
  BY InsertEffect
<1>1. PICK s \in Index :
          /\ s \notin Fm!Busy /\ Fm!Busy' = Fm!Busy \cup {s}
          /\ keyps' = [keyps EXCEPT ![s] = Fresh] /\ vals' = [vals EXCEPT ![s] = Fresh]
          /\ fv' = [fv EXCEPT ![Fresh] = f]
          /\ timestamps' = [timestamps EXCEPT ![Fresh] = now]
          /\ now' = now
  BY InsertEffect
<1>2. Cardinality(DOMAIN Seen) < MaxFlows
  <2>1. Fm!Busy # Index
    BY <1>1
  <2>2. Cardinality(Fm!Busy) \in Nat
    BY EntryFacts, FS_CardinalityType
  <2> QED
    BY <2>1, <2>2, FullTogether, SeenFacts, MaxFlowsAssumption
<1>3. /\ keyps'[s] = Fresh /\ vals'[s] = Fresh /\ fv'[Fresh] = f /\ timestamps'[Fresh] = now
      /\ \A t \in Fm!Busy : /\ keyps'[t] = keyps[t] /\ vals'[t] = vals[t]
                            /\ fv'[keyps'[t]] = fv[keyps[t]] /\ fv[keyps[t]] # f
                            /\ timestamps'[vals'[t]] = timestamps[vals[t]]
  BY <1>0, <1>1, EntryFacts, AbsentFacts
<1>4. {fv'[keyps'[t]] : t \in Fm!Busy'} = DOMAIN Seen \cup {f}
  BY <1>1, <1>3, SeenFacts
<1>5. ASSUME NEW g \in DOMAIN Seen \cup {f} PROVE Seen'[g] = IF g = f THEN now ELSE Seen[g]
  <2>1. CASE g = f
    BY <1>0, <1>1, <1>3, <2>1, SeenFactsNext
  <2>2. CASE g # f
    <3>1. PICK t \in Fm!Busy : g = fv[keyps[t]]
      BY <2>2, SeenFacts
    <3>2. Seen'[g] = timestamps'[vals'[t]] /\ Seen[g] = timestamps[vals[t]]
      BY <1>0, <1>1, <1>3, <3>1, SeenFacts, SeenFactsNext
    <3> QED
      BY <1>3, <2>2, <3>2
  <2> QED
    BY <2>1, <2>2
<1>6. Seen' = [g \in DOMAIN Seen \cup {f} |-> IF g = f THEN now ELSE Seen[g]]
  <2>1. Seen' = [g \in DOMAIN Seen \cup {f} |-> Seen'[g]]
    BY <1>0, <1>4, SeenFactsNext
  <2> QED
    BY <1>5, <2>1
<1> QED
  BY <1>1, <1>2, <1>6 DEF Policy!See

\* A packet of a flow the full table does not know changes nothing that the
\* firewall remembers; max_flows flows are remembered then.
LEMMA RefuseStep ==
    ASSUME TableInv, NEW f \in Flow, ~Present(f), Refuse(f)
    PROVE  /\ f \notin DOMAIN Seen /\ ~(Cardinality(DOMAIN Seen) < MaxFlows)
           /\ UNCHANGED <<Seen, now>>
<1>1. used = Index /\ Fm!Busy' = Fm!Busy /\ UNCHANGED <<keyps, vals, fv, timestamps, now>>
  BY RefuseEffect
<1>2. f \notin DOMAIN Seen
  BY AbsentFacts, SeenFacts
<1>3. Cardinality(DOMAIN Seen) = MaxFlows
  BY <1>1, FullTogether, SeenFacts
<1> QED
  BY <1>1, <1>2, <1>3, FrameSeen, MaxFlowsAssumption

\* The policy counts flows as the table does.
LEMMA PolicyCounts == \A set : Policy!Cardinality(set) = Cardinality(set)
BY DEF Policy!Cardinality, Cardinality

\* map_get and the policy agree on which flows are known.
LEMMA PresentSeen ==
    ASSUME TableInv, NEW f \in Flow
    PROVE  Present(f) <=> f \in DOMAIN Seen
BY PresentFacts, AbsentFacts, SeenFacts

\* Each way out of nf_process is the decision the policy takes.
LEMMA DecideStep ==
    ASSUME FirewallInv, NotTcpUdp \/ FromInside \/ FromOutside
    PROVE  Policy!Decide
<1> DEFINE f == FlowId(pkt)
           inside == pkt.dev \in internal_devs
           passes == pkt.tcpudp /\ (inside \/ f \in DOMAIN Seen)
<1>0. TableInv /\ pkt \in Packet /\ f \in Flow
  BY FlowIdTyped DEF FirewallInv
<1>1. busy /\ busy' = FALSE /\ pkt' = pkt /\ \A g \in DOMAIN Seen : ~Policy!Stale(g)
  <2>1. busy /\ Expired /\ busy' = FALSE /\ pkt' = pkt
    BY DEF NotTcpUdp, FromInside, FromOutside, Finish
  <2> QED
    BY <1>0, <2>1, NothingStale
<1>2. Policy!FlowOf(pkt) = f
  BY DEF Policy!FlowOf, FlowId, is_internal
<1>3. [d \in Device |-> get_dst_dev(d)][pkt.dev] = get_dst_dev(pkt.dev)
  BY <1>0 DEF Packet
<1>4. ASSUME UNCHANGED tableVars PROVE UNCHANGED <<Seen, now>>
  <2>1. Fm!Busy' = Fm!Busy /\ UNCHANGED <<keyps, vals, fv, timestamps, now>>
    BY <1>4 DEF tableVars, heap, fm, Fm!Busy
  <2> QED
    BY <2>1, FrameSeen
<1>5. ASSUME /\ IF passes /\ Policy!Admits(f) THEN Policy!See(f) ELSE UNCHANGED Seen
             /\ out' = IF passes THEN get_dst_dev(pkt.dev) ELSE DROP
             /\ now' = now
      PROVE  Policy!Decide
  <2> HIDE DEF f
  <2> QED
    BY <1>1, <1>2, <1>3, <1>5 DEF Policy!Decide
<1>6. CASE NotTcpUdp
  BY <1>4, <1>5, <1>6 DEF NotTcpUdp, Finish
<1>7. CASE FromInside
  <2>1. passes /\ AllocateOrRefresh(f) /\ out' = get_dst_dev(pkt.dev)
    BY <1>7 DEF FromInside, Finish, is_internal
  <2> HIDE DEF f
  <2>2. CASE Present(f) /\ Refresh(f)
    BY <1>0, <1>5, <2>1, <2>2, RefreshStep DEF Policy!Admits
  <2>3. CASE ~Present(f) /\ Insert(f)
    BY <1>0, <1>5, <2>1, <2>3, InsertStep, PolicyCounts DEF Policy!Admits
  <2>4. CASE ~Present(f) /\ Refuse(f)
    BY <1>0, <1>5, <2>1, <2>4, RefuseStep, PolicyCounts DEF Policy!Admits
  <2> QED
    BY <2>1, <2>2, <2>3, <2>4 DEF AllocateOrRefresh
<1>8. CASE FromOutside
  <2>1. /\ ~inside /\ pkt.tcpudp /\ GetRefresh(f)
        /\ out' = IF Present(f) THEN get_dst_dev(pkt.dev) ELSE DROP
    BY <1>8 DEF FromOutside, Finish, is_internal
  <2>2. Present(f) <=> passes
    BY <1>0, <2>1, PresentSeen
  <2> HIDE DEF f, inside, passes
  <2>3. CASE Present(f)
    <3>1. f \in DOMAIN Seen /\ Policy!See(f) /\ now' = now
      BY <1>0, <2>1, <2>3, RefreshStep DEF GetRefresh
    <3> QED
      BY <1>5, <2>1, <2>2, <2>3, <3>1 DEF Policy!Admits
  <2>4. CASE ~Present(f)
    <3>1. UNCHANGED <<Seen, now>>
      BY <1>4, <2>1, <2>4 DEF GetRefresh
    <3> QED
      BY <1>5, <2>1, <2>2, <2>4, <3>1
  <2> QED
    BY <2>3, <2>4
<1> QED
  BY <1>6, <1>7, <1>8

\* Every step of the firewall is one the policy allows.
LEMMA FirewallStep == FirewallInv /\ [Next]_vars => [Policy!Next]_(Policy!vars)
<1> SUFFICES ASSUME FirewallInv, [Next]_vars PROVE [Policy!Next]_(Policy!vars)
  OBVIOUS
<1>1. ASSUME UNCHANGED <<heap, fm, fv>> PROVE UNCHANGED Seen
  BY <1>1, FrameSeen DEF heap, fm, Fm!Busy
<1>2. ASSUME NEW p \in Packet, Receive(p) PROVE Policy!Receive(p)
  BY <1>1, <1>2 DEF Receive, Policy!Receive
<1>3. CASE Expiring
  BY <1>3, ExpiringStep DEF Policy!Next
<1>4. CASE NotTcpUdp \/ FromInside \/ FromOutside
  BY <1>4, DecideStep DEF Policy!Next
<1>5. CASE UNCHANGED vars
  BY <1>1, <1>5 DEF vars, tableVars, Policy!vars
<1> QED
  BY <1>2, <1>3, <1>4, <1>5 DEF Next, nf_process, Policy!Next

\* With its chain, vector and map the firewall does what the policy says, for
\* any number of flows, any hash function and any expiration time: it forgets
\* a flow only when idle for longer than the expiration time, and before the
\* next packet is decided; it lets a packet in only as the reply of a flow it
\* remembers; and it turns a new flow away only when max_flows are remembered.
THEOREM FirewallPolicyHolds == Spec => ImplementsPolicy
<1>1. Init => Policy!Init
  BY InitSeen
<1> QED
  BY <1>1, FirewallInductive, FirewallStep, PTL DEF Spec, ImplementsPolicy, Policy!Spec
==============================================================================
