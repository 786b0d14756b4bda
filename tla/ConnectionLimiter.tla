-------------------------- MODULE ConnectionLimiter --------------------------
(***************************************************************************)
(* The connection limiter (dpdk-nfs/cl).  Packets of tracked flows pass;   *)
(* one of a new flow is counted for its client (the pair of addresses) in  *)
(* a count-min sketch, and dropped when the estimate exceeds max_clients.  *)
(* The sketch is cleared every cleanup_interval, by the packet that finds  *)
(* it due.                                                                 *)
(*                                                                         *)
(* One action is one call of nf_process.  A flow is a client and a number  *)
(* that stands for the ports and the protocol.                             *)
(***************************************************************************)
EXTENDS AgedTable, CountMinSketch

CONSTANTS
    Flow,                   \* a subset of Client \X Nat
    max_flows, max_clients,
    ExpirationTime, cleanup_interval,
    MaxTime,                \* bound on the clock
    MaxAttempts             \* bound on the new flows counted per client

ASSUME LimiterAssumption ==
    /\ Flow \subseteq Client \X Nat
    /\ max_flows \in Nat /\ max_clients \in Nat
    /\ ExpirationTime \in Nat /\ cleanup_interval \in Nat \ {0}
    /\ MaxTime \in Nat \ {0} /\ MaxAttempts \in Nat

VARIABLES
    flows,                  \* flows, flows_keys and flow_allocator
    buckets, last_cleanup,  \* cms
    now,
    attempts,               \* history: new-flow packets per client since the sketch is clear
    admitted,               \* history: ... those that passed
    since                   \* history: the time of the first of them

vars == <<flows, buckets, last_cleanup, now, attempts, admitted, since>>

\* alloc_state; the clock of current_time() is past 0 when the first packet comes
Init ==
    /\ flows = EmptyTable
    /\ buckets = ClearBuckets /\ last_cleanup = 0
    /\ now = 1
    /\ attempts = [c \in Client |-> 0] /\ admitted = [c \in Client |-> 0]
    /\ since = 0

\* Fault: a clean-up that is due waits for the next tick.
CleanupDueLate(t) == last_cleanup # 0 /\ t - last_cleanup > cleanup_interval

\* cms_periodic_cleanup clears the buckets; the first packet only starts the
\* interval.
CleanupDue(t) == last_cleanup # 0 /\ t - last_cleanup >= cleanup_interval

BucketsAt(t) == IF CleanupDue(t) THEN ClearBuckets ELSE buckets
AttemptsAt(t) == IF CleanupDue(t) THEN [c \in Client |-> 0] ELSE attempts
AdmittedAt(t) == IF CleanupDue(t) THEN [c \in Client |-> 0] ELSE admitted

\* expire_entries: the flows and the sketch as the rest of nf_process sees them
FlowsAt(t) == expire_items_single_map(flows, t - ExpirationTime)
MoveTo(t) ==
    /\ now' = t
    /\ last_cleanup' = IF CleanupDue(t) \/ last_cleanup = 0 THEN t ELSE last_cleanup

\* Nothing is counted.
NotCounted(t) ==
    /\ buckets' = BucketsAt(t)
    /\ attempts' = AttemptsAt(t) /\ admitted' = AdmittedAt(t)
    /\ UNCHANGED since

\* Malformed packets and packets from inside
NotLimited(t) ==
    /\ MoveTo(t)
    /\ flows' = FlowsAt(t)
    /\ NotCounted(t)

\* limit_clients for a tracked flow
Tracked(t, f) ==
    /\ f \in DOMAIN FlowsAt(t)
    /\ MoveTo(t)
    /\ flows' = Rejuvenate(FlowsAt(t), f, t)
    /\ NotCounted(t)

\* Fault: the estimate is read before the packet is counted.
EstimateBefore(t, c) == cms_count_min(BucketsAt(t), c)

\* cms_increment, then cms_count_min
Estimate(t, c) == cms_count_min(cms_increment(BucketsAt(t), c), c)

\* limit_clients for a flow that is not tracked: counted, and over the limit
\* dropped; else tracked if there is room, and forwarded in any case.
NewFlow(t, f) ==
    LET c == f[1]
        tracked == FlowsAt(t)
        over == Estimate(t, c) > max_clients
    IN /\ AttemptsAt(t)[c] < MaxAttempts
       /\ f \notin DOMAIN tracked
       /\ MoveTo(t)
       /\ buckets' = cms_increment(BucketsAt(t), c)
       /\ attempts' = [AttemptsAt(t) EXCEPT ![c] = @ + 1]
       /\ since' = IF \A d \in Client : AttemptsAt(t)[d] = 0 THEN t ELSE since
       /\ \/ /\ over
             /\ flows' = tracked
             /\ admitted' = AdmittedAt(t)
          \/ /\ ~over
             /\ admitted' = [AdmittedAt(t) EXCEPT ![c] = @ + 1]
             /\ \/ \E i \in Free(tracked, max_flows) : flows' = Enter(tracked, f, i, t)
                \/ Free(tracked, max_flows) = {} /\ flows' = tracked

Next ==
    \E t \in now .. MaxTime :
        \/ NotLimited(t)
        \/ \E f \in Flow : Tracked(t, f) \/ NewFlow(t, f)

Spec == Init /\ [][Next]_vars

------------------------------------------------------------------------------
(* Properties                                                               *)

TypeOK ==
    /\ flows \in Tables(Flow, max_flows, 1 .. MaxTime)
    /\ buckets \in [Row -> [Column -> Nat]]
    /\ last_cleanup \in 0 .. MaxTime /\ now \in 1 .. MaxTime
    /\ attempts \in [Client -> 0 .. MaxAttempts]
    /\ admitted \in [Client -> 0 .. MaxAttempts]

\* No client gets more than max_clients new flows through between two
\* clean-ups, whether they were tracked, found the table full or expired and
\* came back.
LimitEnforced == \A c \in Client : admitted[c] <= max_clients

\* What is held against a client is recent: nothing in the sketch is older
\* than the clean-up interval when a packet is judged, although only packets
\* run the clean-up.
WindowBounded ==
    (\E c \in Client : attempts[c] > 0) => now - since < cleanup_interval
==============================================================================
