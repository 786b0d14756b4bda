---------------------------- MODULE MCDigestTables ----------------------------
(***************************************************************************)
(* The two tables of libsycon that the data plane fills by digests, side   *)
(* by side for TLC: the heavy-hitter table, with the key value store that  *)
(* is built on it, and the FCFS cached table.  They share no state.  table, *)
(* chosen at the start, says which one is used; the other stays as it was  *)
(* allocated.                                                              *)
(*                                                                         *)
(* Heavy-hitter table: three keys for two indexes; k1 and k2 share one of  *)
(* the sketch's two buckets.  FCFS cached table: three keys, of which k1   *)
(* and k2 share one of the two cells.                                      *)
(***************************************************************************)
EXTENDS SwitchKvs, TLC

CONSTANTS
    Cell, CellHash,         \* FCFS cached table: Cell and Hash
    ReadTable, WriteTable, Unset,
    k1, k2, k3, a, b        \* what the configuration makes keys and cells of

MCHash == [k \in {k1, k2, k3} |-> [r \in {1} |-> IF k = k3 THEN 2 ELSE 1]]

MCCellHash == (k1 :> a) @@ (k2 :> a) @@ (k3 :> b)

VARIABLES
    table,
    head, tail, indexes, ctPending, cache, ctExpirations, alive, keys, values,
    ctDigests, toController, ctEntries, ctIdle, ctNotified

ctVars == <<head, tail, indexes, ctPending, cache, ctExpirations, alive, keys, values,
            ctDigests, toController, ctEntries, ctIdle, ctNotified>>

Fcfs == INSTANCE FcfsCachedTable WITH
    Hash <- CellHash, pending <- ctPending,
    expirations_per_key <- ctExpirations, digests <- ctDigests,
    entries <- ctEntries, idle <- ctIdle, notified <- ctNotified

ASSUME CachedTableAssumption == Fcfs!FcfsAssumption

MCInit ==
    /\ table \in {"hh", "fcfs"}
    /\ KvsInit
    /\ table = "fcfs" \/ keys = [c \in Cell |-> k3]
    /\ Fcfs!Init

MCNext ==
    /\ UNCHANGED table
    /\ \/ table = "hh" /\ KvsNext /\ UNCHANGED ctVars
       \/ table = "fcfs" /\ Fcfs!Next /\ UNCHANGED kvsVars

MCSpec == MCInit /\ [][MCNext]_<<table, kvsVars, ctVars>>

\* Of the cached table, ctPending is never read, nor is the key of a cell that is
\* not alive.
View ==
    <<table,
      IF table = "hh" THEN kvsVars
      ELSE <<head, tail, indexes, cache, ctExpirations, alive, [c \in alive |-> keys[c]],
             values, ctDigests, toController, ctEntries, ctIdle, ctNotified>>>>

\* The two keys that hash alike may be exchanged.
Symmetry == Permutations({k1, k2})

------------------------------------------------------------------------------
(* Properties: those of HHTable and SwitchKvs, and of FcfsCachedTable:      *)

\* FcfsCachedTable: every table holds exactly what the controller believes.
TablesMatchCache == Fcfs!TablesMatchCache

\* FcfsCachedTable: a digest under way still describes its cell.
DigestOwnsCell == Fcfs!DigestOwnsCell
==============================================================================
