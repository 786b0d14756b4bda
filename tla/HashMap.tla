------------------------------- MODULE HashMap -------------------------------
(***************************************************************************)
(* The hash map of dpdk-nfs/lib/state (map.c, map-impl-pow2.c): open       *)
(* addressing with linear probing over a power-of-two array.  A slot keeps *)
(* a busy bit, a POINTER to the key, its hash, its value and a chain       *)
(* counter: how many keys were pushed past this slot when they were put.   *)
(* A lookup may stop at a slot whose counter is 0; that is how it ends     *)
(* before it has seen the whole array.                                     *)
(*                                                                         *)
(* The keys live in memory the caller owns (the key vectors of the network *)
(* functions), modelled by mem.  Callers follow the pattern of every       *)
(* network function: write the key into a cell no entry points to, then    *)
(* put that cell's address; put only absent keys, and only while a slot is *)
(* free; erase only present keys.  None of this is checked by the code, so *)
(* it is the guard of the actions here, and the modules that use the map   *)
(* have to earn it.                                                        *)
(***************************************************************************)
EXTENDS Integers, FiniteSets

CONSTANTS
    Capacity,   \* slots in the array
    Key, Val,
    Ptr,        \* addresses of key cells
    khash,      \* khash[k] : the CRC of key k (map.c, khash)
    ZeroKey     \* the key an unwritten cell reads as

MapAssumption ==
    /\ Capacity \in Nat \ {0}
    /\ \E n \in 0 .. Capacity : Capacity = 2 ^ n
    /\ khash \in [Key -> Nat]
    /\ ZeroKey \in Key

VARIABLES busybits, keyps, khs, chns, vals, size, mem, mapRet

slots == <<busybits, keyps, khs, chns, vals, size>>
mapVars == <<busybits, keyps, khs, chns, vals, size, mem, mapRet>>

Slot == 0 .. Capacity - 1

\* loop: k & (capacity - 1), with capacity a power of two
loop(k) == k % Capacity

\* The slot looked at in round i of a probe for key k.
Probe(k, i) == loop(loop(khash[k]) + i)

Busy == {s \in Slot : busybits[s]}

------------------------------------------------------------------------------
(* map_impl_init clears the busy bits and the chain counters, and nothing   *)
(* else: the other fields of a slot are unspecified until it is busy (a     *)
(* single value stands for the hashes, which are read only behind the bit). *)

MapInit ==
    /\ busybits = [s \in Slot |-> FALSE]
    /\ chns = [s \in Slot |-> 0]
    /\ keyps \in [Slot -> Ptr]
    /\ khs \in [Slot -> {khash[ZeroKey]}]
    /\ vals \in [Slot -> Val]
    /\ size = 0
    /\ mem = [p \in Ptr |-> ZeroKey]
    /\ mapRet = [op |-> "init"]

------------------------------------------------------------------------------

\* The slot's hash matches the key looked for ...
SameHash(k, s) == busybits[s] /\ khs[s] = khash[k]

\* Fault: equal hashes taken for equal keys.
MatchHashOnly(k, s) == SameHash(k, s)

\* ... and so does the key it points to (keq).
Match(k, s) == SameHash(k, s) /\ mem[keyps[s]] = k

\* The rounds at which find_key returns: the key itself, or a slot that no
\* longer probe passed (not tested when only the hash matches).
Stops(k) ==
    {i \in 0 .. Capacity - 1 :
        LET s == Probe(k, i)
        IN  Match(k, s) \/ (~SameHash(k, s) /\ chns[s] = 0)}

Least(S) == CHOOSE i \in S : \A j \in S : i <= j

\* find_key: the slot of k, or -1
find_key(k) ==
    IF Stops(k) # {} /\ Match(k, Probe(k, Least(Stops(k))))
    THEN Probe(k, Least(Stops(k)))
    ELSE -1

\* find_empty: the rounds at which a free slot would be found
EmptyRounds(k) == {i \in 0 .. Capacity - 1 : ~busybits[Probe(k, i)]}

\* find_key_remove_chain: the rounds at which k would be found
MatchRounds(k) == {i \in 0 .. Capacity - 1 : Match(k, Probe(k, i))}

\* The slots a probe for k looks at before round r.
Passed(k, r) == {Probe(k, i) : i \in 0 .. r - 1}

\* map_get
Get(k) ==
    /\ mapRet' = IF find_key(k) # -1
              THEN [op |-> "get", key |-> k, found |-> TRUE, value |-> vals[find_key(k)]]
              ELSE [op |-> "get", key |-> k, found |-> FALSE]
    /\ UNCHANGED <<slots, mem>>

\* Fault: the slots on the way are not marked as passed.
PutSlotUncounted(k, p, v) ==
    LET s == Probe(k, Least(EmptyRounds(k)))
    IN  /\ EmptyRounds(k) # {}
        /\ mem' = [mem EXCEPT ![p] = k]
        /\ busybits' = [busybits EXCEPT ![s] = TRUE]
        /\ keyps' = [keyps EXCEPT ![s] = p]
        /\ khs' = [khs EXCEPT ![s] = khash[k]]
        /\ vals' = [vals EXCEPT ![s] = v]
        /\ size' = size + 1
        /\ mapRet' = [op |-> "put", key |-> k]
        /\ UNCHANGED chns

\* map_put, after the caller has written k into the cell p: every busy slot on
\* the way to the first free one is marked as passed.  With no free slot the
\* code writes to busybits[-1]; no caller may get there.
PutSlot(k, p, v) ==
    LET r == Least(EmptyRounds(k))
        s == Probe(k, r)
    IN  /\ EmptyRounds(k) # {}
        /\ mem' = [mem EXCEPT ![p] = k]
        /\ chns' = [t \in Slot |-> IF t \in Passed(k, r) THEN chns[t] + 1 ELSE chns[t]]
        /\ busybits' = [busybits EXCEPT ![s] = TRUE]
        /\ keyps' = [keyps EXCEPT ![s] = p]
        /\ khs' = [khs EXCEPT ![s] = khash[k]]
        /\ vals' = [vals EXCEPT ![s] = v]
        /\ size' = size + 1
        /\ mapRet' = [op |-> "put", key |-> k]

\* map_erase: the busy bit is cleared where k is found, and the slots on the
\* way there are no longer passed by it.  A key that is nowhere to be found
\* costs every slot a count, and the map one entry.
EraseSlot(k) ==
    LET found == MatchRounds(k) # {}
        r == IF found THEN Least(MatchRounds(k)) ELSE Capacity
    IN  /\ chns' = [t \in Slot |-> IF t \in Passed(k, r) THEN chns[t] - 1 ELSE chns[t]]
        /\ busybits' = IF found THEN [busybits EXCEPT ![Probe(k, r)] = FALSE] ELSE busybits
        /\ size' = size - 1
        /\ mapRet' = [op |-> "erase", key |-> k]
        /\ UNCHANGED <<keyps, khs, vals, mem>>

\* What the code asks of the caller of map_put and of map_erase.
MayPut(k, p) == \A t \in Busy : mem[keyps[t]] # k /\ keyps[t] # p
MayErase(k)  == \E t \in Busy : mem[keyps[t]] = k

Put(k, p, v) == MayPut(k, p) /\ PutSlot(k, p, v)
Erase(k) == MayErase(k) /\ EraseSlot(k)

MapNext ==
    \E k \in Key :
        \/ Get(k)
        \/ Erase(k)
        \/ \E p \in Ptr, v \in Val : Put(k, p, v)

MapSpec == MapInit /\ [][MapNext]_mapVars

------------------------------------------------------------------------------
(* Properties                                                               *)

\* How far behind the start of its probe sequence slot s lies.
Dist(k, s) == IF s >= loop(khash[k]) THEN s - loop(khash[k])
                                     ELSE s - loop(khash[k]) + Capacity

\* The entries whose key was pushed past slot s.
Passing(s) == {t \in Busy : Dist(mem[keyps[t]], s) < Dist(mem[keyps[t]], t)}

\* A slot's chain counter is the number of entries that were pushed past it,
\* whatever puts and erases came in between and in whatever order.
ChainCounts == \A s \in Slot : chns[s] = Cardinality(Passing(s))

StoredKeys == {mem[keyps[s]] : s \in Busy}
Contents == [k \in StoredKeys |-> vals[CHOOSE s \in Busy : mem[keyps[s]] = k]]

\* The slots implement a dictionary, answers included.
Dict == INSTANCE Dictionary WITH dict <- Contents, ret <- mapRet
ImplementsDictionary == Dict!Spec
==============================================================================
