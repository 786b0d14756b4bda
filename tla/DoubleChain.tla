----------------------------- MODULE DoubleChain -----------------------------
(***************************************************************************)
(* The double chain of dpdk-nfs/lib/state: an array of cells threaded into *)
(* two circular lists that share it.  Cell 0 heads the list of allocated   *)
(* cells, doubly linked from the least to the most recently touched; cell  *)
(* 1 heads the list of free cells, singly linked, whose cells store the    *)
(* link twice (prev = next).  That is the only mark that tells a free cell *)
(* from an allocated one.                                                  *)
(*                                                                         *)
(* next, prev : the cells; timestamps : one per index.  used, older and    *)
(* sooner are history variables: the indexes the callers hold, the order   *)
(* in which they were touched, and the order in which free ones will be    *)
(* handed out.  No guard reads them.                                       *)
(***************************************************************************)
EXTENDS Integers

CONSTANTS
    IndexRange,   \* the index_range argument of dchain_allocate
    MaxTime       \* bound on the clock

ASSUME IndexRangeAssumption == IndexRange \in Nat \ {0}
ASSUME MaxTimeAssumption == MaxTime \in Nat

VARIABLES next, prev, timestamps, now, ret, used, older, sooner

cells == <<next, prev>>
vars == <<next, prev, timestamps, now, ret, used, older, sooner>>

ALLOC_LIST_HEAD == 0
FREE_LIST_HEAD  == 1
INDEX_SHIFT     == 2

Index == 0 .. IndexRange - 1
Cell  == 0 .. IndexRange + INDEX_SHIFT - 1
Time  == 0 .. MaxTime

\* R without the pairs that mention i.
Without(R, i) == {p \in R : p[1] # i /\ p[2] # i}

------------------------------------------------------------------------------
(* dchain_allocate: malloc leaves the timestamps unspecified, then          *)
(* dchain_impl_init empties the allocated list and threads every cell onto  *)
(* the free list in increasing order.                                       *)

InitLink(c) ==
    IF c = ALLOC_LIST_HEAD THEN ALLOC_LIST_HEAD
    ELSE IF c = FREE_LIST_HEAD THEN INDEX_SHIFT
    ELSE IF c < IndexRange + INDEX_SHIFT - 1 THEN c + 1
    ELSE FREE_LIST_HEAD

Init ==
    /\ next = [c \in Cell |-> InitLink(c)]
    /\ prev = next
    /\ timestamps \in [Index -> Time]
    /\ now = 0
    /\ ret = [op |-> "init", ok |-> TRUE]
    /\ used = {}
    /\ older = {}
    /\ sooner = {p \in Index \X Index : p[1] < p[2]}

------------------------------------------------------------------------------
(* dchain_impl_*: the operations on the cells.                              *)

\* dchain_impl_is_index_allocated, the test every other operation repeats.
IsAllocated(i) ==
    LET c == i + INDEX_SHIFT
    IN  next[c] = prev[c] => next[c] = ALLOC_LIST_HEAD

\* dchain_impl_get_oldest_index
HasOldest == next[ALLOC_LIST_HEAD] # ALLOC_LIST_HEAD
Oldest == next[ALLOC_LIST_HEAD] - INDEX_SHIFT

\* Fault: the free list's head keeps its old prev link.
PopFreeKeepsHeadPrev(c) ==
    LET next1 == [next EXCEPT ![FREE_LIST_HEAD] = next[c]]
        next2 == [next1 EXCEPT ![c] = ALLOC_LIST_HEAD]
        prev2 == [prev EXCEPT ![c] = prev[ALLOC_LIST_HEAD]]
    IN  /\ next' = [next2 EXCEPT ![prev[ALLOC_LIST_HEAD]] = c]
        /\ prev' = [prev2 EXCEPT ![ALLOC_LIST_HEAD] = c]

\* dchain_impl_allocate_new_index, past its early return: pop the free list,
\* append at the new end of the allocated list.  Assignments in source order.
PopFree(c) ==
    LET next1 == [next EXCEPT ![FREE_LIST_HEAD] = next[c]]
        prev1 == [prev EXCEPT ![FREE_LIST_HEAD] = next[c]]
        next2 == [next1 EXCEPT ![c] = ALLOC_LIST_HEAD]
        prev2 == [prev1 EXCEPT ![c] = prev[ALLOC_LIST_HEAD]]
    IN  /\ next' = [next2 EXCEPT ![prev[ALLOC_LIST_HEAD]] = c]
        /\ prev' = [prev2 EXCEPT ![ALLOC_LIST_HEAD] = c]

\* dchain_impl_free_index, past its early return: unlink and push.
PushFree(c) ==
    LET next1 == [next EXCEPT ![prev[c]] = next[c]]
        prev1 == [prev EXCEPT ![next[c]] = prev[c]]
    IN  /\ next' = [next1 EXCEPT ![c] = next1[FREE_LIST_HEAD],
                                 ![FREE_LIST_HEAD] = c]
        /\ prev' = [prev1 EXCEPT ![c] = next1[FREE_LIST_HEAD],
                                 ![FREE_LIST_HEAD] = c]

\* Fault: the head still names the previous last cell.
MoveToEndKeepsLast(c) ==
    LET next1 == [next EXCEPT ![prev[c]] = next[c]]
        prev1 == [prev EXCEPT ![next[c]] = prev[c]]
        last  == prev1[ALLOC_LIST_HEAD]
    IN  /\ next' = [next1 EXCEPT ![c] = ALLOC_LIST_HEAD, ![last] = c]
        /\ prev' = [prev1 EXCEPT ![c] = last]

\* dchain_impl_rejuvenate_index, past its early returns: unlink and append.
MoveToEnd(c) ==
    LET next1 == [next EXCEPT ![prev[c]] = next[c]]
        prev1 == [prev EXCEPT ![next[c]] = prev[c]]
        last  == prev1[ALLOC_LIST_HEAD]
        next2 == [next1 EXCEPT ![c] = ALLOC_LIST_HEAD]
        prev2 == [prev1 EXCEPT ![c] = last]
    IN  /\ next' = [next2 EXCEPT ![last] = c]
        /\ prev' = [prev2 EXCEPT ![ALLOC_LIST_HEAD] = c]

------------------------------------------------------------------------------
(* dchain_*: the calls the network functions make.                          *)

Tick ==
    /\ now < MaxTime
    /\ now' = now + 1
    /\ UNCHANGED <<cells, timestamps, ret, used, older, sooner>>

\* dchain_allocate_new_index(chain, &index, now), when a cell is free
Allocate ==
    LET c == next[FREE_LIST_HEAD]
        i == c - INDEX_SHIFT
    IN  /\ c # FREE_LIST_HEAD
        /\ PopFree(c)
        /\ timestamps' = [timestamps EXCEPT ![i] = now]
        /\ ret' = [op |-> "allocate", ok |-> TRUE, index |-> i]
        /\ used' = used \cup {i}
        /\ older' = older \cup {<<j, i>> : j \in used \ {i}}
        /\ sooner' = Without(sooner, i)
        /\ UNCHANGED now

\* ... and when none is
AllocateFull ==
    /\ next[FREE_LIST_HEAD] = FREE_LIST_HEAD
    /\ ret' = [op |-> "allocate", ok |-> FALSE]
    /\ UNCHANGED <<cells, timestamps, now, used, older, sooner>>

\* The history of touching index i.
Touch(i) ==
    older' = IF IsAllocated(i)
             THEN Without(older, i) \cup {<<j, i>> : j \in used \ {i}}
             ELSE older

\* Fault: the index gets its time but stays where it is.
RejuvenateInPlace(i) ==
    /\ timestamps' = IF IsAllocated(i) THEN [timestamps EXCEPT ![i] = now] ELSE timestamps
    /\ Touch(i)
    /\ ret' = [op |-> "rejuvenate", ok |-> IsAllocated(i), index |-> i]
    /\ UNCHANGED <<cells, now, used, sooner>>

\* dchain_rejuvenate_index(chain, index, now): a lone allocated cell keeps its
\* links but still gets its timestamp; a free index is refused.
Rejuvenate(i) ==
    LET c == i + INDEX_SHIFT
    IN  /\ IF next[c] = prev[c] THEN UNCHANGED cells ELSE MoveToEnd(c)
        /\ timestamps' = IF IsAllocated(i) THEN [timestamps EXCEPT ![i] = now]
                                           ELSE timestamps
        /\ Touch(i)
        /\ ret' = [op |-> "rejuvenate", ok |-> IsAllocated(i), index |-> i]
        /\ UNCHANGED <<now, used, sooner>>

\* Cell and history effects of a dchain_impl_free_index that succeeds.
Release(i) ==
    /\ PushFree(i + INDEX_SHIFT)
    /\ used' = used \ {i}
    /\ older' = Without(older, i)
    /\ sooner' = sooner \cup {<<i, j>> : j \in Index \ (used \cup {i})}

\* dchain_free_index(chain, index)
Free(i) ==
    /\ IF IsAllocated(i) THEN Release(i)
                         ELSE UNCHANGED <<cells, used, older, sooner>>
    /\ ret' = [op |-> "free", ok |-> IsAllocated(i), index |-> i]
    /\ UNCHANGED <<timestamps, now>>

\* dchain_expire_one_index(chain, &index, t): dchain_impl_free_index repeats
\* the is-allocated test on the oldest index and its answer is returned.
Expire(t) ==
    /\ HasOldest
    /\ timestamps[Oldest] < t
    /\ IsAllocated(Oldest)
    /\ Release(Oldest)
    /\ ret' = [op |-> "expire", ok |-> TRUE, index |-> Oldest, before |-> t]
    /\ UNCHANGED <<timestamps, now>>

ExpireNone(t) ==
    /\ ~(HasOldest /\ timestamps[Oldest] < t /\ IsAllocated(Oldest))
    /\ ret' = [op |-> "expire", ok |-> FALSE, before |-> t]
    /\ UNCHANGED <<cells, timestamps, now, used, older, sooner>>

Next ==
    \/ Tick
    \/ Allocate
    \/ AllocateFull
    \/ \E i \in Index : Rejuvenate(i) \/ Free(i)
    \/ \E t \in 0 .. now : Expire(t) \/ ExpireNone(t)

Spec == Init /\ [][Next]_vars

------------------------------------------------------------------------------
(* Properties                                                               *)

Answer ==
    [op : {"init"}, ok : {TRUE}]
    \cup [op : {"allocate"}, ok : {FALSE}]
    \cup [op : {"allocate"}, ok : {TRUE}, index : Index]
    \cup [op : {"rejuvenate", "free"}, ok : BOOLEAN, index : Index]
    \cup [op : {"expire"}, ok : {TRUE}, index : Index, before : Time]
    \cup [op : {"expire"}, ok : {FALSE}, before : Time]

\* Links stay inside the array, so no operation reads or writes outside the
\* index_range + 2 cells and the index_range timestamps that were allocated.
TypeOK ==
    /\ next \in [Cell -> Cell]
    /\ prev \in [Cell -> Cell]
    /\ timestamps \in [Index -> Time]
    /\ now \in Time
    /\ used \subseteq Index
    /\ older \subseteq Index \X Index
    /\ sooner \subseteq Index \X Index
    /\ ret \in Answer

\* dchain_is_index_allocated answers exactly for the indexes in use, although
\* it infers the answer from two links of the cell (prev = next).
AllocatedExact == \A i \in Index : IsAllocated(i) <=> i \in used

AllocCells == {c \in Cell : c - INDEX_SHIFT \in used}
FreeCells  == {c \in Cell : c - INDEX_SHIFT \in Index \ used}

\* The list headed by h, following nx, runs through exactly the cells of S in
\* the order R (a relation on indexes), and comes back to h.
Threads(h, S, nx, R) ==
    /\ S = {} => nx[h] = h
    /\ S # {} => /\ nx[h] \in S
                 /\ \A d \in S : d # nx[h] =>
                        <<nx[h] - INDEX_SHIFT, d - INDEX_SHIFT>> \in R
    /\ \A c \in S :
        /\ nx[c] \in S \cup {h}
        /\ nx[c] = h => \A d \in S : d # c =>
                            <<d - INDEX_SHIFT, c - INDEX_SHIFT>> \in R
        /\ nx[c] # h =>
            /\ <<c - INDEX_SHIFT, nx[c] - INDEX_SHIFT>> \in R
            /\ \A d \in S :
                  <<c - INDEX_SHIFT, d - INDEX_SHIFT>> \in R /\ d # nx[c] =>
                      <<nx[c] - INDEX_SHIFT, d - INDEX_SHIFT>> \in R

\* pv undoes nx along that list, and conversely.
Mirrors(h, S, nx, pv) ==
    \A c \in S \cup {h} :
        /\ pv[c] \in S \cup {h}
        /\ pv[nx[c]] = c
        /\ nx[pv[c]] = c

StrictOrderOn(S, R) ==
    /\ R \subseteq S \X S
    /\ \A i \in S : <<i, i>> \notin R
    /\ \A i, j, k \in S : <<i, j>> \in R /\ <<j, k>> \in R => <<i, k>> \in R
    /\ \A i, j \in S : i # j => <<i, j>> \in R \/ <<j, i>> \in R

\* The allocated list holds exactly the indexes in use, from the least to the
\* most recently touched, and prev undoes next along it.
AllocListSound ==
    /\ StrictOrderOn(used, older)
    /\ Threads(ALLOC_LIST_HEAD, AllocCells, next, older)
    /\ Mirrors(ALLOC_LIST_HEAD, AllocCells, next, prev)

\* The free list holds exactly the other indexes: none is lost, so allocation
\* fails only when every index is in use; its cells carry the free mark.
FreeListSound ==
    /\ StrictOrderOn(Index \ used, sooner)
    /\ Threads(FREE_LIST_HEAD, FreeCells, next, sooner)
    /\ \A c \in FreeCells \cup {FREE_LIST_HEAD} : prev[c] = next[c]

\* An index touched earlier never carries a later time: the list order is the
\* expiry order, which is what lets expiry look at the head alone.
StampsFollowOrder ==
    /\ \A p \in older : timestamps[p[1]] <= timestamps[p[2]]
    /\ \A i \in used : timestamps[i] <= now

\* When dchain_expire_one_index answers 0, nothing in use is older than the
\* deadline it was given: the loop in the expirator never stops early.
ExpireMissesNothing ==
    ret.op = "expire" /\ ~ret.ok => \A i \in used : timestamps[i] >= ret.before

\* The cells implement the least-recently-used allocator, answers included.
Lru == INSTANCE LruAllocator WITH
           used <- {i \in Index : IsAllocated(i)},
           stamp <- [i \in {j \in Index : IsAllocated(j)} |-> timestamps[i]]

ImplementsLru == Lru!Spec
==============================================================================
