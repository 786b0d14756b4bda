---------------------------- MODULE LruAllocator ----------------------------
(***************************************************************************)
(* What a double chain promises its callers (dpdk-nfs/lib/state/           *)
(* double-chain.h), with no cells and no lists: a set of index values that *)
(* are in use, the time each one was last touched, and the order in which  *)
(* they were touched.  DoubleChain.tla is shown to implement it.           *)
(***************************************************************************)
EXTENDS Integers

CONSTANTS
    IndexRange,   \* number of indexes the allocator manages
    MaxTime       \* bound on the clock

VARIABLES
    used,         \* indexes handed out and not yet freed or expired
    older,        \* <<i, j>> : i was touched before j, both in use
    stamp,        \* stamp[i] : the time i was last touched, for i in use
    now,          \* the caller's clock
    ret           \* the answer to the last call

vars == <<used, older, stamp, now, ret>>

Index == 0 .. IndexRange - 1
Time  == 0 .. MaxTime

Touched(i)   == older \cup {<<j, i>> : j \in used \ {i}}
Without(R, i) == {p \in R : p[1] # i /\ p[2] # i}

Init ==
    /\ used = {}
    /\ older = {}
    /\ stamp = [i \in {} |-> 0]
    /\ now = 0
    /\ ret = [op |-> "init", ok |-> TRUE]

Tick ==
    /\ now < MaxTime
    /\ now' = now + 1
    /\ UNCHANGED <<used, older, stamp, ret>>

\* An index nobody holds is handed out, and becomes the most recent one.
Allocate ==
    \E i \in Index \ used :
        /\ used' = used \cup {i}
        /\ older' = Touched(i)
        /\ stamp' = [j \in used \cup {i} |-> IF j = i THEN now ELSE stamp[j]]
        /\ ret' = [op |-> "allocate", ok |-> TRUE, index |-> i]
        /\ UNCHANGED now

\* The allocator refuses only when every index is held.
AllocateFull ==
    /\ used = Index
    /\ ret' = [op |-> "allocate", ok |-> FALSE]
    /\ UNCHANGED <<used, older, stamp, now>>

Rejuvenate(i) ==
    /\ IF i \in used
       THEN /\ older' = Without(older, i) \cup {<<j, i>> : j \in used \ {i}}
            /\ stamp' = [stamp EXCEPT ![i] = now]
       ELSE UNCHANGED <<older, stamp>>
    /\ ret' = [op |-> "rejuvenate", ok |-> i \in used, index |-> i]
    /\ UNCHANGED <<used, now>>

Release(i) ==
    /\ used' = used \ {i}
    /\ older' = Without(older, i)
    /\ stamp' = [j \in used \ {i} |-> stamp[j]]

Free(i) ==
    /\ Release(i)
    /\ ret' = [op |-> "free", ok |-> i \in used, index |-> i]
    /\ UNCHANGED now

\* Expiry takes the least recently touched index, if it is older than t ...
Expire(t) ==
    \E i \in used :
        /\ \A j \in used \ {i} : <<i, j>> \in older
        /\ stamp[i] < t
        /\ Release(i)
        /\ ret' = [op |-> "expire", ok |-> TRUE, index |-> i, before |-> t]
        /\ UNCHANGED now

\* ... and answers "none" only when nothing in use is older than t.
ExpireNone(t) ==
    /\ \A i \in used : stamp[i] >= t
    /\ ret' = [op |-> "expire", ok |-> FALSE, before |-> t]
    /\ UNCHANGED <<used, older, stamp, now>>

Next ==
    \/ Tick
    \/ Allocate
    \/ AllocateFull
    \/ \E i \in Index : Rejuvenate(i) \/ Free(i)
    \/ \E t \in 0 .. now : Expire(t) \/ ExpireNone(t)

Spec == Init /\ [][Next]_vars
=============================================================================
