----------------------------- MODULE Dictionary ------------------------------
(***************************************************************************)
(* What a map promises its callers (dpdk-nfs/lib/state/map.h): a partial   *)
(* function from keys to values, with no slots, probes or chain counters.  *)
(* HashMap.tla is shown to implement it.                                   *)
(***************************************************************************)
EXTENDS Naturals

CONSTANTS Key, Val

VARIABLES
    dict,   \* dict[k] : the value k was put with, for the keys now in the map
    ret     \* the answer to the last call

vars == <<dict, ret>>

Init ==
    /\ dict = [k \in {} |-> 0]
    /\ ret = [op |-> "init"]

Put(k, v) ==
    /\ k \notin DOMAIN dict
    /\ dict' = [j \in DOMAIN dict \cup {k} |-> IF j = k THEN v ELSE dict[j]]
    /\ ret' = [op |-> "put", key |-> k]

Erase(k) ==
    /\ k \in DOMAIN dict
    /\ dict' = [j \in DOMAIN dict \ {k} |-> dict[j]]
    /\ ret' = [op |-> "erase", key |-> k]

Get(k) ==
    /\ ret' = IF k \in DOMAIN dict
              THEN [op |-> "get", key |-> k, found |-> TRUE, value |-> dict[k]]
              ELSE [op |-> "get", key |-> k, found |-> FALSE]
    /\ UNCHANGED dict

Next == \E k \in Key : Get(k) \/ Erase(k) \/ \E v \in Val : Put(k, v)

Spec == Init /\ [][Next]_vars
==============================================================================
