--------------------------- MODULE PortScanDetector ---------------------------
(***************************************************************************)
(* The port scan detector (dpdk-nfs/psd): a source outside may reach       *)
(* max_ports ports while it is tracked, and is dropped at the next one.    *)
(* Tracked sources hold an index (srcs); the ports they touched are the    *)
(* keys of one map, ports, whose key cells are max_ports to an index.      *)
(* Expiring a source leaves its ports in that map: they are to be erased   *)
(* when the index is given to the next source.                             *)
(*                                                                         *)
(* The map is HashMap's, called as the code calls it: nothing checks at    *)
(* run time that a key put is absent and a key erased present.             *)
(***************************************************************************)
EXTENDS AgedTable, FiniteSets

CONSTANTS
    capacity, max_ports,
    Src, Port,
    khash, ZeroKey,         \* of struct TouchedPort
    ExpirationTime,
    MaxTime                 \* bound on the clock

DetectorAssumption ==
    /\ capacity \in Nat \ {0} /\ max_ports \in Nat \ {0}
    /\ ExpirationTime \in Nat /\ MaxTime \in Nat

VARIABLES
    srcs,                   \* srcs, srcs_key and allocator
    touched_ports_counter,
    busybits, keyps, khs, chns, vals, size, mapRet,     \* ports
    ports_key,
    now,
    pc,                     \* "idle", or inside allocate
    cur, i,                 \* its source, port and index; the clean-up's i
    out,                    \* the last packet from outside, and whether it passed
    reached,                \* history: ports a source got to since it is tracked
    leftBehind              \* history: an allocation has left ports in the map that
                            \* it was to erase

TouchedPort == Src \X Port
Index == 0 .. capacity - 1
Cell == 0 .. capacity * max_ports - 1

portsMap == <<busybits, keyps, khs, chns, vals, size, mapRet>>
vars == <<srcs, touched_ports_counter, portsMap, ports_key, now, pc, cur, i, out, reached,
          leftBehind>>

Ports == INSTANCE HashMap WITH
             Capacity <- capacity * max_ports, Key <- TouchedPort,
             Val <- 0 .. max_ports - 1, Ptr <- Cell, mem <- ports_key

Idle == pc = "idle"
NoPacket == [src |-> ZeroKey[1], port |-> ZeroKey[2], index |-> 0]

\* alloc_state
Init ==
    /\ srcs = EmptyTable
    /\ touched_ports_counter = [x \in Index |-> 0]
    /\ Ports!MapInit
    /\ now = 0
    /\ pc = "idle" /\ cur = NoPacket /\ i = 0
    /\ out = [src |-> ZeroKey[1], port |-> ZeroKey[2], passed |-> TRUE]
    /\ reached = [s \in Src |-> {}]
    /\ leftBehind = FALSE

\* expire_entries: the sources as the rest of nf_process sees them
expire_entries(t) == expire_items_single_map(srcs, t - ExpirationTime)

Passes(s, p) == out' = [src |-> s, port |-> p, passed |-> TRUE]

\* Malformed packets and packets from inside: only the expiration happens.
NotChecked(t) ==
    /\ Idle
    /\ srcs' = expire_entries(t)
    /\ now' = t
    /\ UNCHANGED <<touched_ports_counter, portsMap, ports_key, pc, cur, i, out, reached,
                   leftBehind>>

\* allocate with no free index: the packet passes, the source stays unknown
AllocateFull(t, s, p) ==
    LET tracked == expire_entries(t)
    IN /\ Idle
       /\ s \notin DOMAIN tracked
       /\ Free(tracked, capacity) = {}
       /\ srcs' = tracked
       /\ now' = t
       /\ Passes(s, p)
       /\ UNCHANGED <<touched_ports_counter, portsMap, ports_key, pc, cur, i, reached,
                      leftBehind>>

\* Fault: the clean-up is not reached.
CleanupStartSkipped(x) == max_ports

\* The cell expire_items_single_map_iteratively starts from: the index itself
\* is passed for it.
CleanupStart(x) == x

\* dchain_allocate_new_index hands out an index that was freed before the
\* least one never used; the counter of a used one is not 0.
NewIndexes(tracked) ==
    LET free == Free(tracked, capacity)
        reused == { x \in free : touched_ports_counter[x] # 0 }
    IN IF reused # {} THEN reused ELSE { x \in free : \A y \in free : x <= y }

\* What index x or source s has left in the map is in no cell from x up to the
\* counter, those the clean-up goes through: such as all ports left at an index
\* other than 0, and those s left at another index than the one it gets now.
LeavesBehind(s, x) ==
    \E e \in Ports!Busy :
        /\ keyps[e] \div max_ports = x \/ ports_key[keyps[e]][1] = s
        /\ keyps[e] \notin x .. touched_ports_counter[x] - 1

\* allocate: a free index is taken, and the clean-up begins
Allocate(t, s, p) ==
    LET tracked == expire_entries(t)
    IN /\ Idle
       /\ s \notin DOMAIN tracked
       /\ \E x \in NewIndexes(tracked) :
             /\ srcs' = Enter(tracked, s, x, t)
             /\ cur' = [src |-> s, port |-> p, index |-> x]
             /\ i' = CleanupStart(x)
             /\ leftBehind' = (leftBehind \/ LeavesBehind(s, x))
       /\ now' = t
       /\ pc' = "cleanup"
       /\ UNCHANGED <<touched_ports_counter, portsMap, ports_key, out, reached>>

\* The condition of the loop: it ends at the cell numbered counter.
CleanupLeft == i < touched_ports_counter[cur.index]

\* One iteration of expire_items_single_map_iteratively: the key in cell i is
\* erased from the map.
Cleanup ==
    /\ pc = "cleanup"
    /\ CleanupLeft
    /\ Ports!EraseSlot(ports_key[i])
    /\ i' = i + 1
    /\ UNCHANGED <<srcs, touched_ports_counter, now, pc, cur, out, reached, leftBehind>>

\* The rest of allocate: the source's first port
FirstPort ==
    /\ pc = "cleanup"
    /\ ~CleanupLeft
    /\ touched_ports_counter' = [touched_ports_counter EXCEPT ![cur.index] = 1]
    /\ Ports!PutSlot(<<cur.src, cur.port>>, max_ports * cur.index, 0)
    /\ pc' = "idle" /\ cur' = NoPacket /\ i' = 0
    /\ Passes(cur.src, cur.port)
    /\ reached' = [reached EXCEPT ![cur.src] = {cur.port}]
    /\ UNCHANGED <<srcs, now, leftBehind>>

LimitReached(x) == touched_ports_counter[x] >= max_ports

\* Fault: ports of the same number share an entry, whatever the source.
PortKeyWithoutSource(s, p) == <<ZeroKey[1], p>>

PortKey(s, p) == <<s, p>>

\* detect_port_scanning for a tracked source: a known port passes, a new one
\* is dropped at the limit and entered below it
Detect(t, s, p) ==
    LET tracked == expire_entries(t)
        x == tracked[s].index
        present == Ports!find_key(PortKey(s, p)) # -1
    IN /\ Idle
       /\ s \in DOMAIN tracked
       /\ srcs' = Rejuvenate(tracked, s, t)
       /\ now' = t
       /\ \/ /\ present
             /\ Passes(s, p)
             /\ reached' = [reached EXCEPT ![s] = @ \cup {p}]
             /\ UNCHANGED <<touched_ports_counter, portsMap, ports_key>>
          \/ /\ ~present /\ LimitReached(x)
             /\ out' = [src |-> s, port |-> p, passed |-> FALSE]
             /\ UNCHANGED <<touched_ports_counter, portsMap, ports_key, reached>>
          \/ /\ ~present /\ ~LimitReached(x)
             /\ Ports!PutSlot(PortKey(s, p), max_ports * x + touched_ports_counter[x],
                              touched_ports_counter[x])
             /\ touched_ports_counter' = [touched_ports_counter EXCEPT ![x] = @ + 1]
             /\ Passes(s, p)
             /\ reached' = [reached EXCEPT ![s] = @ \cup {p}]
       /\ UNCHANGED <<pc, cur, i, leftBehind>>

Next ==
    \/ \E t \in now .. MaxTime :
          \/ NotChecked(t)
          \/ \E s \in Src, p \in Port :
                AllocateFull(t, s, p) \/ Allocate(t, s, p) \/ Detect(t, s, p)
    \/ Cleanup
    \/ FirstPort

Spec == Init /\ [][Next]_vars

------------------------------------------------------------------------------
(* Properties                                                               *)

\* The entries of ports whose key lies in the cells of index x.
EntriesOf(x) == { s \in Ports!Busy : keyps[s] \div max_ports = x }

\* Between packets the map of ports has, for every tracked source, exactly the
\* ports it reached since it is tracked: what a former holder of the index (or
\* the source itself, before it expired) left behind is gone, as the comment
\* "Cleanup previous state first" in allocate says.
CleanedUp ==
    Idle => \A s \in DOMAIN srcs :
                LET entries == EntriesOf(srcs[s].index)
                IN /\ Cardinality(entries) = touched_ports_counter[srcs[s].index]
                   /\ { ports_key[keyps[e]] : e \in entries } = {s} \X reached[s]

\* The code keeps that promise until an allocation takes an index other than 0
\* that was used before, or a source comes back to another index: with live
\* sources side by side, each one's ports stay apart from all others', also
\* from those of expired ones that are still in the map.
CleanedUpUntilLeft == ~leftBehind => CleanedUp

\* Until then a tracked source is dropped exactly when it has reached max_ports
\* ports and asks for another one: no more get through, and none is dropped
\* earlier, whoever had the index and those map slots before.
DetectionExact ==
    ~leftBehind =>
        /\ \A s \in DOMAIN srcs : Cardinality(reached[s]) <= max_ports
        /\ ~out.passed => /\ Cardinality(reached[out.src]) = max_ports
                          /\ out.port \notin reached[out.src]
==============================================================================
