---------------------------- MODULE MCCuckooTable ----------------------------
(***************************************************************************)
(* The cuckoo hash table with constants and state of its own names.  For   *)
(* TLC, three keys: the first two meet in the first table, the last two in *)
(* the second and in the bloom filter.                                     *)
(***************************************************************************)
EXTENDS Integers, FiniteSets, TLC

CONSTANTS
    Packet, Key, Place, Hash1, Hash2, BloomCell, BloomHash,
    MaxLoops, Timeout, MaxCount, MaxTime, Wrap, MaxLost

VARIABLES table1, table2, swap, swapped, pkt, time, lost, gaveUp

Cuckoo == INSTANCE CuckooTable WITH Index <- Place, Cell <- BloomCell

ASSUME CuckooConstants == Cuckoo!CuckooAssumption

CuckooSpec == Cuckoo!Spec

MCKey == 1 .. 3
MCPlace == 0 .. 1
MCCell == 0 .. 1
MCHash1 == <<0, 0, 1>>
MCHash2 == <<0, 1, 1>>
MCBloom == <<0, 1, 1>>
MCSymmetry == Permutations(Packet)

\* A packet that waits for an entry on the move waits for one that is.
WaitedFor == Cuckoo!WaitedFor

\* An entry on the move is seen to be by every look-up of its key.
MovesSeen == Cuckoo!MovesSeen

\* A key keeps its value, in the tables and on the way.
ValuesOwn == Cuckoo!ValuesOwn
==============================================================================
