--------------------------- MODULE MCDataStructures ---------------------------
(***************************************************************************)
(* The data structures of dpdk-nfs and libsycon, and the lock the latter   *)
(* are used under, side by side for TLC.  They share no state.  structure, *)
(* chosen at the start, says which one is used; the others stay as they    *)
(* were allocated.                                                         *)
(*                                                                         *)
(* HashMap has four slots and five keys whose probes overlap in every way  *)
(* the code distinguishes: ka and kb have the same hash, kc another one    *)
(* that starts at the same slot, kd starts in the middle and ke at the     *)
(* last, so that its probe wraps around.                                   *)
(***************************************************************************)
EXTENDS DoubleChain, HashMap, MapTable, SyconSession, TLC

CONSTANTS ka, kb, kc, kd, ke

MCHash == (ka :> 4) @@ (kb :> 4) @@ (kc :> 0) @@ (kd :> 1) @@ (ke :> 3)

VARIABLES
    structure,
    \* DchainTable, which uses the tables of MapTable when that is not used
    free_indexes, expirations_per_index

indexVars == <<free_indexes, expirations_per_index>>
keyVars == <<cache, guard, expirations_per_key>>
tables == <<entries, idle, notified>>

Indexes == INSTANCE DchainTable

ASSUME MapAssumption
ASSUME Indexes!DchainAssumption
ASSUME TableAssumption

MCInit ==
    /\ structure \in {"chain", "map", "session", "indexes", "keys"}
    /\ structure = "chain" \/ timestamps = [x \in Index |-> 0]
    /\ Init
    /\ \/ structure = "map"
       \/ /\ keyps = [s \in Slot |-> CHOOSE p \in Ptr : TRUE]
          /\ vals = [s \in Slot |-> CHOOSE v \in Val : TRUE]
    /\ MapInit
    /\ SessionInit /\ Indexes!Init /\ TableInit

MCNext ==
    /\ UNCHANGED structure
    /\ \/ /\ structure = "chain" /\ Next
          /\ UNCHANGED <<mapVars, sessionVars, indexVars, keyVars, tables>>
       \/ /\ structure = "map" /\ MapNext
          /\ UNCHANGED <<vars, sessionVars, indexVars, keyVars, tables>>
       \/ /\ structure = "session" /\ SessionNext
          /\ UNCHANGED <<vars, mapVars, indexVars, keyVars, tables>>
       \/ /\ structure = "indexes" /\ Indexes!Next
          /\ UNCHANGED <<vars, mapVars, sessionVars, keyVars>>
       \/ /\ structure = "keys" /\ TableNext
          /\ UNCHANGED <<vars, mapVars, sessionVars, indexVars>>

\* The fairness of each: threads that have called go on, timers run out, and
\* the driver's thread calls the callbacks.
MCSpec ==
    /\ MCInit
    /\ [][MCNext]_<<structure, vars, mapVars, sessionVars, indexVars, keyVars, tables>>
    /\ SessionFairness /\ Indexes!Fairness /\ TableFairness

\* Of the map, a free slot's stale fields, cells no entry points to, which cell
\* an entry's key is in and the last answer: no property tells them apart.
View ==
    <<structure, sooner,
      CASE structure = "chain" -> vars
        [] structure = "map" ->
              <<chns, size, [s \in Busy |-> <<mem[keyps[s]], khs[s], vals[s]>>]>>
        [] structure = "session" -> sessionVars
        [] structure = "indexes" -> <<indexVars, tables>>
        [] structure = "keys" -> <<keyVars, tables>>>>

------------------------------------------------------------------------------
(* Properties: those of DoubleChain, HashMap, MapTable and SyconSession, and *)
(* of DchainTable:                                                          *)

\* An index nobody uses any more becomes free.
IndexReclaimed == Indexes!Reclaimed
==============================================================================
