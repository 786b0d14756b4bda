----------------------------- MODULE CuckooTable -----------------------------
(***************************************************************************)
(* The cuckoo hash table that caches the key-value store in the data       *)
(* plane: two tables of registers and a pair of counters per bloom-filter  *)
(* cell.  A packet passes the pipeline once or, by recirculation, several  *)
(* times; a pass is one step, since the stages work on packets in order,   *)
(* and packets interleave between passes.                                  *)
(*                                                                         *)
(* A GET or a PUT looks both tables up.  A PUT that misses waits until no  *)
(* entry of its key is on the move, then inserts: it takes the place of    *)
(* the entry in the first table, that one takes the place of an entry in   *)
(* the second, and this one travels on with the packet, up to MaxLoops     *)
(* times.  An entry whose time stamp is older than Timeout is gone.        *)
(*                                                                         *)
(* The hash functions are arbitrary.  Values are named by the key they     *)
(* were put for.  Replies of the server pass by without touching a table.  *)
(***************************************************************************)
EXTENDS Integers, FiniteSets

CONSTANTS
    Packet,         \* places for packets under way
    Key,            \* the clients' keys; 0, what registers hold at first, is none
    Index, Hash1, Hash2,    \* cells of the tables, and the hash functions
    Cell, BloomHash,        \* cells of the bloom filter, and its hash function
    MaxLoops,       \* CUCKOO_MAX_LOOPS
    Timeout,        \* CUCKOO_ENTRY_TIMEOUT
    MaxCount,       \* where the counters saturate: 2^16 - 1
    MaxTime,        \* bound on the clock, at most Wrap - 1
    Wrap,           \* clock arithmetic is modulo Wrap: 2^32
    MaxLost         \* bound on the packets lost in recirculation

CuckooAssumption ==
    /\ IsFiniteSet(Packet)
    /\ Hash1 \in [Key -> Index] /\ Hash2 \in [Key -> Index] /\ BloomHash \in [Key -> Cell]
    /\ 0 \notin Key /\ MaxLoops \in Nat \ {0} /\ MaxCount \in Nat /\ MaxLost \in Nat
    /\ Timeout \in Nat /\ MaxTime \in Nat /\ Wrap \in Nat
    /\ MaxTime < Wrap /\ Timeout + 1 <= MaxTime

VARIABLES
    table1, table2, \* registers reg_k, reg_v and reg_ts
    swap, swapped,  \* swap_transient: moves begun, swapped_transient: moves ended
    pkt,            \* the cuckoo header of a packet under way, or NoPacket
    time,           \* the clock of the pipeline
    lost,           \* history: lost[c], packets lost with an entry of cell c
    gaveUp          \* history: cells a PUT gave up on

history == <<lost, gaveUp>>
vars == <<table1, table2, swap, swapped, pkt, time, history>>

NoPacket == [op |-> "NONE"]

Init ==
    /\ table1 = [i \in Index |-> [key |-> 0, val |-> 0, ts |-> 0]]
    /\ table2 = table1
    /\ swap = [c \in Cell |-> 0]
    /\ swapped = swap
    /\ pkt = [p \in Packet |-> NoPacket]
    /\ time = Timeout + 1
    /\ lost = [c \in Cell |-> 0]
    /\ gaveUp = {}

UnderWay(p) == pkt[p] # NoPacket
Age(now, ts) == (now - ts) % Wrap

\* |+| : addition saturates
Inc(counter, c) == [counter EXCEPT ![c] = IF @ < MaxCount THEN @ + 1 ELSE @]

\* No entry of cell c is on the move, as far as the counters tell.
Stable(c) == swap[c] <= swapped[c]

\* Time stamps are taken when a packet enters the pipeline for the first time.
Tick ==
    /\ time < MaxTime
    /\ \A p \in Packet : UnderWay(p) => pkt[p].recirc_cntr > 0
    /\ time' = time + 1
    /\ UNCHANGED <<table1, table2, swap, swapped, pkt, history>>

\* A request arrives: build_cuckoo_hdr
Arrive(p, k, op) ==
    /\ ~UnderWay(p)
    /\ pkt' = [pkt EXCEPT ![p] = [op |-> op, recirc_cntr |-> 0, key |-> k,
                                  val |-> IF op = "UPDATE" THEN k ELSE 0, ts |-> time]]
    /\ UNCHANGED <<table1, table2, swap, swapped, time, history>>

\* The packet leaves the pipeline, answered or for the server.
Leave(p) == pkt' = [pkt EXCEPT ![p] = NoPacket]

Recirculate(p, h) == pkt' = [pkt EXCEPT ![p] = [h EXCEPT !.recirc_cntr = @ + 1]]

------------------------------------------------------------------------------
(* Look-ups                                                                 *)

Match(h, slot) == slot.key = h.key
\* ts_query_and_refresh: the age is taken from the packet's own time stamp.
Active(h, slot) == Age(h.ts, slot.ts) <= Timeout
Hit(h, slot) == Match(h, slot) /\ Active(h, slot)

\* A cell after a look-up
Refreshed(h, slot) ==
    IF Hit(h, slot) THEN [slot EXCEPT !.ts = h.ts, !.val = IF h.op = "UPDATE" THEN h.val ELSE @]
    ELSE IF Match(h, slot) THEN [slot EXCEPT !.ts = 0] ELSE slot

\* The table stage of a look-up; the second table is tried after a miss.
Probe(h) ==
    LET s1 == table1[Hash1[h.key]]
        s2 == table2[Hash2[h.key]]
    IN  /\ table1' = [table1 EXCEPT ![Hash1[h.key]] = Refreshed(h, s1)]
        /\ table2' = [table2 EXCEPT ![Hash2[h.key]] = IF Hit(h, s1) THEN s2 ELSE Refreshed(h, s2)]

Found(h) == Hit(h, table1[Hash1[h.key]]) \/ Hit(h, table2[Hash2[h.key]])

\* Answered from the table
PassFound(p) == Found(pkt[p]) /\ Leave(p) /\ UNCHANGED <<swap, swapped, gaveUp>>

\* A GET that misses goes to the server, unless its entry may be on the move.
PassLookup(p) ==
    /\ pkt[p].op = "LOOKUP" /\ ~Found(pkt[p])
    /\ \/ Stable(BloomHash[pkt[p].key]) /\ Leave(p)
       \/ pkt[p].recirc_cntr >= MaxLoops /\ Leave(p)
       \/ /\ ~Stable(BloomHash[pkt[p].key]) /\ pkt[p].recirc_cntr < MaxLoops
          /\ Recirculate(p, pkt[p])
    /\ UNCHANGED <<swap, swapped, gaveUp>>

\* Give up and send to KVS server.
PassGiveUp(p) ==
    /\ pkt[p].op = "UPDATE" /\ ~Found(pkt[p]) /\ pkt[p].recirc_cntr >= MaxLoops
    /\ swapped' = Inc(swapped, BloomHash[pkt[p].key])
    /\ gaveUp' = gaveUp \cup {BloomHash[pkt[p].key]}
    /\ Leave(p)
    /\ UNCHANGED swap

\* A PUT that misses becomes an insertion, or waits.
PassUpdate(p) ==
    LET c == BloomHash[pkt[p].key] IN
    /\ pkt[p].op = "UPDATE" /\ ~Found(pkt[p]) /\ pkt[p].recirc_cntr < MaxLoops
    /\ \/ /\ Stable(c)
          /\ swap' = [swap EXCEPT ![c] = Inc(swapped, c)[c]]
          /\ Recirculate(p, [pkt[p] EXCEPT !.op = "INSERT", !.recirc_cntr = 0])
       \/ /\ ~Stable(c)
          /\ Recirculate(p, pkt[p])
          /\ UNCHANGED swap
    /\ UNCHANGED <<swapped, gaveUp>>

Look(p) ==
    /\ UnderWay(p) /\ pkt[p].op \in {"LOOKUP", "UPDATE"}
    /\ Probe(pkt[p])
    /\ PassFound(p) \/ PassLookup(p) \/ PassGiveUp(p) \/ PassUpdate(p)
    /\ UNCHANGED <<time, lost>>

------------------------------------------------------------------------------
(* Insertions                                                               *)

Entry(h) == [key |-> h.key, val |-> h.val, ts |-> h.ts]

\* Fault: the time stamp and the value travel on, the key does not.
DisplacedKeepsKey(h, slot) == [slot EXCEPT !.key = h.key]

\* What a swap of the registers hands to the packet.
Displaced(h, slot) == slot

\* Does the entry still count when the packet looks at the clock?
Live(slot) == Age(time, slot.ts) < Timeout

\* Fault: the move of an entry that was displaced is never counted as ended.
MoveEndsOfNew(h) == IF h.op = "INSERT" THEN Inc(swapped, BloomHash[h.key]) ELSE swapped

\* The entry the packet came with is in its place.
MoveEnds(h) == Inc(swapped, BloomHash[h.key])

\* Fault: the next move is counted for the key the packet came with.
NextMoveOldKey(h, d) == Inc(swap, BloomHash[h.key])

\* The entry that was displaced is on the move.
NextMove(h, d) == Inc(swap, BloomHash[d.key])

\* An INSERT or a SWAP: all three hashes are of the key the packet came with.
Insert(p) ==
    LET h == pkt[p]
        d1 == Displaced(h, table1[Hash1[h.key]])
        d2 == Displaced(h, table2[Hash2[h.key]])
        on == [h EXCEPT !.op = "SWAP", !.key = d2.key, !.val = d2.val, !.ts = d2.ts]
    IN  /\ UnderWay(p) /\ h.op \in {"INSERT", "SWAP"}
        /\ table1' = [table1 EXCEPT ![Hash1[h.key]] = Entry(h)]
        /\ swapped' = MoveEnds(h)
        /\ table2' = IF Live(d1) THEN [table2 EXCEPT ![Hash2[h.key]] = d1] ELSE table2
        /\ \/ /\ Live(d1) /\ Live(d2) /\ h.recirc_cntr < MaxLoops
              /\ swap' = NextMove(h, d2)
              /\ Recirculate(p, on)
           \/ /\ ~(Live(d1) /\ Live(d2) /\ h.recirc_cntr < MaxLoops)
              /\ Leave(p)
              /\ UNCHANGED swap
        /\ UNCHANGED <<time, history>>

\* The recirculation port drops a packet.
Lose(p) ==
    /\ UnderWay(p) /\ pkt[p].recirc_cntr > 0
    /\ \A c \in Cell : lost[c] < MaxLost
    /\ lost' = IF pkt[p].op \in {"INSERT", "SWAP"}
               THEN [lost EXCEPT ![BloomHash[pkt[p].key]] = @ + 1] ELSE lost
    /\ Leave(p)
    /\ UNCHANGED <<table1, table2, swap, swapped, time, gaveUp>>

Next ==
    \/ Tick
    \/ \E p \in Packet :
         \/ \E k \in Key, op \in {"LOOKUP", "UPDATE"} : Arrive(p, k, op)
         \/ Look(p) \/ Insert(p) \/ Lose(p)

Spec == Init /\ [][Next]_vars

------------------------------------------------------------------------------
(* Properties                                                               *)

\* The packets under way that carry an entry of cell c
Carriers(c) ==
    { p \in Packet : UnderWay(p) /\ pkt[p].op \in {"INSERT", "SWAP"} /\ BloomHash[pkt[p].key] = c }

\* Whoever waits for a key waits for something that ends the wait: a packet
\* carries an entry of its cell, or one that did was lost, and then giving up
\* makes up for it.  No wait is left behind by an insertion that is over.
WaitedFor ==
    \A c \in Cell : swap[c] <= swapped[c] + Cardinality(Carriers(c)) + lost[c]

\* An entry on the move is seen to be: until a PUT gives up on its cell or the
\* counter saturates, no look-up takes a key for absent while a packet
\* carries it (but a GET that has waited MaxLoops times leaves as a miss all
\* the same), and no second insertion of it begins.
MovesSeen ==
    \A c \in Cell \ gaveUp :
        swap[c] < MaxCount => swapped[c] + Cardinality(Carriers(c)) <= swap[c]

\* Updates, displacements and insertions, of whatever packets, never part a
\* value from its key, in the tables or on the way.  (A cell's registers are
\* one record: a packet that exchanges them has the stages to itself.)
ValuesOwn ==
    /\ \A i \in Index : table1[i].val = table1[i].key /\ table2[i].val = table2[i].key
    /\ \A p \in Packet :
          UnderWay(p) /\ pkt[p].op # "LOOKUP" => pkt[p].val = pkt[p].key
==============================================================================
