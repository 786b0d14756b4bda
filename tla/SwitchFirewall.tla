---------------------------- MODULE SwitchFirewall ----------------------------
(***************************************************************************)
(* The firewall as the compiler splits it between the switch and its       *)
(* controller (synthesized/fw-f40000-c10000-zipf0_2-hmax-tput).  The data  *)
(* plane looks flows up in a MapTable and their indexes in a DchainTable,  *)
(* each with one copy for packets from inside and one for packets from     *)
(* outside, and sends the packet of an unknown flow from inside to the     *)
(* controller.  The controller has to check again that the flow is         *)
(* unknown: more of its packets may have been under way.                   *)
(*                                                                         *)
(* A controller call is one transaction (SyconSession).  The map and the   *)
(* index allocator are aged by their own tables, key by key and index by   *)
(* index; nothing ties the two together.                                   *)
(***************************************************************************)
EXTENDS Integers, FiniteSets, Functions

CONSTANTS
    Flow, capacity,
    MaxPending,             \* bound on the packets under way to the controller
    MaxAnnounced,           \* bound on announcements under way
    None

ASSUME SwitchAssumption ==
    capacity \in Nat \ {0} /\ MaxPending \in Nat /\ MaxAnnounced \in Nat /\ None \notin Flow

VARIABLES
    cache, guard, mexp, mentries, midle, mnotified,         \* map_table
    free_indexes, dexp, dentries, didle, dnotified,         \* dchain_table
    pending,                \* packets under way to the controller
    owner,                  \* history: the flow an index was allocated for, until the
                            \* index is freed or the flow's key expires
    keyless                 \* history: allocated indexes whose flow's key was refused

Index == 0 .. capacity - 1
Side == {"inside", "outside"}

Map == INSTANCE MapTable WITH
           Copy <- Side, TableKey <- Flow, TableVal <- Index, expirations_per_key <- mexp,
           entries <- mentries, idle <- midle, notified <- mnotified

Chain == INSTANCE DchainTable WITH
             Copy <- Side, expirations_per_index <- dexp,
             entries <- dentries, idle <- didle, notified <- dnotified

map == <<cache, guard, mexp, mentries, midle, mnotified>>
chain == <<free_indexes, dexp, dentries, didle, dnotified>>
history == <<owner, keyless>>
vars == <<map, chain, pending, history>>

Init ==
    /\ Map!TableInit /\ Chain!Init
    /\ pending = [f \in Flow |-> 0]
    /\ owner = [i \in Index |-> None] /\ keyless = {}

\* The history after a step: what its allocation makes of owner and of keyless
\* (o and k), without the indexes the step frees and, in owner, the flows whose
\* key it expires.
Histories(o, k) ==
    /\ owner' = [i \in Index |->
                    IF i \in free_indexes' \/ o[i] \in DOMAIN cache \ DOMAIN cache'
                    THEN None ELSE o[i]]
    /\ keyless' = k \ free_indexes'

\* The lookup of f on one side, and then of the index it yields: both hits
\* restart timers; the index may have expired while the key has not.
Lookup(side, f) ==
    /\ Map!Hit(side, f)
    /\ LET i == mentries[side][f]
       IN \/ Chain!Hit(side, i)
          \/ i \notin DOMAIN dentries[side] /\ UNCHANGED chain
    /\ UNCHANGED <<pending, history>>

\* A packet from inside whose flow the map does not have
SendToController(f) ==
    /\ f \notin DOMAIN mentries["inside"]
    /\ FoldFunction(+, 0, pending) < MaxPending
    /\ pending' = [pending EXCEPT ![f] = @ + 1]
    /\ UNCHANGED <<map, chain, history>>

\* A packet from outside whose flow the map does not have is dropped.
Drop(f) == f \notin DOMAIN mentries["outside"] /\ UNCHANGED vars

Take(f) == pending[f] > 0 /\ pending' = [pending EXCEPT ![f] = @ - 1]

\* Fault: the controller does not check again.
StillUnknownUnchecked(f) == TRUE

\* The check the controller repeats before it writes.
StillUnknown(f) == ~Map!Present(f)

\* Fault: the index is allocated first; the abort undoes the table entries,
\* the set of free indexes stays as it is.
AbortLeavesState(f) ==
    IF free_indexes = {} THEN UNCHANGED <<map, chain>>
    ELSE /\ free_indexes' = free_indexes \ {CHOOSE i \in free_indexes : TRUE}
         /\ UNCHANGED <<map, dexp, dentries, didle, dnotified>>

\* abort_transaction: nothing was written before.
Abort(f) == UNCHANGED <<map, chain>>

\* The flow is known by now: the transaction is aborted, and the packet goes
\* through the data plane once more (as another packet from inside).
Reexecute(f) ==
    /\ Take(f)
    /\ ~StillUnknown(f)
    /\ Abort(f)
    /\ Histories(owner, keyless)

\* The flow gets an index and a key; a full map refuses the key, the index is
\* left without one, and the flow's next packet comes here again.
Track(f) ==
    /\ Take(f)
    /\ StillUnknown(f)
    /\ \E i \in free_indexes :
          /\ Chain!allocate_new_index(i)
          /\ \/ Map!put(f, i) /\ Histories([owner EXCEPT ![i] = f], keyless)
             \/ Map!PutRefused /\ Histories([owner EXCEPT ![i] = f], keyless \cup {i})

\* No free index: the packet is forwarded, the flow stays unknown.
Untracked(f) ==
    /\ Take(f)
    /\ StillUnknown(f)
    /\ Chain!OutOfIndexes
    /\ UNCHANGED <<map, chain, history>>

MayAnnounce == Cardinality(mnotified) + Cardinality(dnotified) < MaxAnnounced

MapAges(c, f) ==
    /\ (MayAnnounce /\ Map!TimeOut(c, f)) \/ Map!expiration_callback(c, f)
    /\ UNCHANGED <<chain, pending>>
    /\ Histories(owner, keyless)

ChainAges(c, i) ==
    /\ (MayAnnounce /\ Chain!TimeOut(c, i)) \/ Chain!expiration_callback(c, i)
    /\ UNCHANGED <<map, pending>>
    /\ Histories(owner, keyless)

Next ==
    \/ \E f \in Flow :
          \/ \E side \in Side : Lookup(side, f)
          \/ SendToController(f)
          \/ Drop(f)
          \/ Reexecute(f)
          \/ Track(f)
          \/ Untracked(f)
    \/ \E c \in Side, f \in Flow : MapAges(c, f)
    \/ \E c \in Side, i \in Index : ChainAges(c, i)

Spec == Init /\ [][Next]_vars

------------------------------------------------------------------------------
(* Properties                                                               *)

\* The controller's books (keys, values, free indexes) and the four tables
\* agree after every transaction, aborted ones included: the abort is decided
\* before anything is written, which matters for free_indexes, no table's.
BooksMatchTables == Map!TablesMatchCache /\ Chain!TablesMatchFree

\* However many packets of a new flow were sent to the controller before its
\* entries were in place, the flow has one index that was given to it with a
\* key, and it is the one the map answers, until the key or the index expires.
\* Every further index it holds was taken while the map was full: put then
\* refuses the key, so that each packet of the flow takes an index.
OneKeyedIndex ==
    \A i \in Index :
        \/ owner[i] = None
        \/ i \in keyless
        \/ owner[i] \in DOMAIN cache /\ cache[owner[i]] = i
==============================================================================
