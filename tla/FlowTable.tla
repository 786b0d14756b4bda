------------------------------ MODULE FlowTable ------------------------------
(***************************************************************************)
(* The flow table every stateful network function of dpdk-nfs is built on: *)
(* a double chain that allocates indexes and ages them (heap), a vector    *)
(* that holds the flow identifier of each index (fv), and a map from       *)
(* identifiers to indexes whose keys ARE the vector's cells (fm).  All     *)
(* three have max_flows elements.  This module composes DoubleChain and    *)
(* HashMap and gives the operations the network functions perform on the   *)
(* three together; Firewall and Nat say when they perform them.            *)
(*                                                                         *)
(* The map calls are the ones of the code, without the conditions that     *)
(* HashMap asks of its callers: that they hold is shown here.              *)
(***************************************************************************)
EXTENDS Integers, FiniteSets

CONSTANTS
    MaxFlows,         \* config.max_flows
    Flow,             \* flow identifiers (struct FlowId)
    khash,            \* their hashes
    ZeroFlow,         \* what a zeroed vector cell reads as
    ExpirationTime,   \* manager->expiration_time
    MaxTime           \* bound on the clock

ASSUME MaxFlowsAssumption ==
    MaxFlows \in Nat \ {0} /\ \E n \in 0 .. MaxFlows : MaxFlows = 2 ^ n
ASSUME FlowAssumption == ZeroFlow \in Flow /\ khash \in [Flow -> Nat]
ASSUME TimeAssumption == ExpirationTime \in Nat /\ MaxTime \in Nat

VARIABLES
    next, prev, timestamps, used, older, sooner, chainRet,   \* heap
    busybits, keyps, khs, chns, vals, size, mapRet,          \* fm
    fv,
    now                                       \* the time of the current packet

heap == <<next, prev, timestamps, used, older, sooner, chainRet>>
fm == <<busybits, keyps, khs, chns, vals, size, mapRet>>
tableVars == <<heap, fm, fv, now>>

Index == 0 .. MaxFlows - 1

Heap == INSTANCE DoubleChain WITH IndexRange <- MaxFlows, ret <- chainRet

Fm == INSTANCE HashMap WITH
          Capacity <- MaxFlows, Key <- Flow, Val <- Index, Ptr <- Index,
          ZeroKey <- ZeroFlow, mem <- fv

\* alloc_state
TableInit == Heap!Init /\ Fm!MapInit

\* flow_manager_expire: the deadline may be before the clock's zero
last_time == now - ExpirationTime

\* Fault: the map keeps the entry of an index that has expired.
ExpireOneKeepsMap == Heap!Expire(last_time) /\ UNCHANGED <<fm, fv>>

\* One iteration of the loop of expire_items_single_map: the chain gives up
\* its oldest index, then the key in that index's cell is erased from the map.
ExpireOne == Heap!Expire(last_time) /\ Fm!EraseSlot(fv[Heap!Oldest])

\* Fault: the loop ends only when the chain is empty.
ExpiredWhenEmpty == ~Heap!HasOldest

\* The call that ends the loop: the chain refuses, and nothing changes.
Expired ==
    ~(/\ Heap!HasOldest
      /\ timestamps[Heap!Oldest] < last_time
      /\ Heap!IsAllocated(Heap!Oldest))

\* map_get(fm, id, &index)
Present(id) == Fm!find_key(id) # -1
IndexOf(id) == vals[Fm!find_key(id)]

\* dchain_rejuvenate_index on the index the map gave for id
Refresh(id) == Fm!Get(id) /\ Heap!Rejuvenate(IndexOf(id))

\* The index the chain would hand out next.
Fresh == next[Heap!FREE_LIST_HEAD] - Heap!INDEX_SHIFT

\* dchain_allocate_new_index, memcpy of id into the vector, map_put
Insert(id) == Heap!Allocate /\ Fm!PutSlot(id, Fresh, Fresh)

\* dchain_allocate_new_index with every index in use
Refuse(id) == Heap!AllocateFull /\ Fm!Get(id)

------------------------------------------------------------------------------
(* Properties                                                               *)

\* expirator.h asks for a chain, a vector and a map that are "coherent": the
\* indexes in use are exactly the values of the map's entries, and the entry
\* of an index is keyed by the identifier in that index's vector cell.
Coherent ==
    /\ used = {vals[s] : s \in Fm!Busy}
    /\ \A s \in Fm!Busy : keyps[s] = vals[s]
    /\ \A s, t \in Fm!Busy : vals[s] = vals[t] => s = t

\* Nothing checks map_put's and map_erase's requirements at run time: when the
\* chain has a free index, the map has a free slot and no entry is keyed by
\* the cell about to be overwritten; when an index expires, the map has its key.
MapCallsAllowed ==
    /\ next[Heap!FREE_LIST_HEAD] # Heap!FREE_LIST_HEAD =>
         \A f \in Flow : ~Present(f) => Fm!EmptyRounds(f) # {} /\ Fm!MayPut(f, Fresh)
    /\ Heap!HasOldest => Fm!MayErase(fv[Heap!Oldest])
==============================================================================
