---------------------------- MODULE HeavyHitter ----------------------------
(***************************************************************************)
(* The heavy hitter detector (dpdk-nfs/hhh), configured with one subnet    *)
(* size: packets from the outside are counted against the bucket of their  *)
(* source's subnet, and one that finds too few tokens is reported.  All    *)
(* packets are forwarded.                                                  *)
(***************************************************************************)
EXTENDS TokenBucket

CONSTANTS Device, lan_device, wan_device, DROP

DetectorDevices == {lan_device, wan_device} \subseteq Device /\ DROP \notin Device
\* update_buckets' asserts: packets are no longer than the burst
LengthsFit == \A len \in Length : len <= Burst
ExpirationAssumption ==
    ExpirationTime = ((NS_TO_S_MULTIPLIER * Burst) % Word) \div Rate

VARIABLES
    busy,       \* nf_process is running
    pkt,        \* ... on this packet
    reported,   \* captured_hh, for the last packet
    out         \* what nf_process returned for it

vars == <<tableVars, bucketVars, busy, pkt, reported, out>>

Packet == [dev : Device, src : Flow, len : Length, ipv4 : BOOLEAN]

Init ==
    /\ BucketInit
    /\ busy = FALSE
    /\ pkt \in Packet
    /\ reported = FALSE
    /\ out = DROP

\* worker_loop: the next packet, and the time it is processed at
Receive(p) ==
    /\ ~busy
    /\ busy' = TRUE
    /\ pkt' = p
    /\ Clock
    /\ UNCHANGED <<heap, fm, fv, buckets, reported, out>>

Finish(verdict, hit) ==
    /\ out' = verdict
    /\ reported' = hit
    /\ busy' = FALSE
    /\ UNCHANGED pkt

\* A packet that is not IPv4 is dropped before anything expires.
NotIpv4 ==
    /\ busy
    /\ ~pkt.ipv4
    /\ UNCHANGED <<tableVars, bucketVars>>
    /\ Finish(DROP, FALSE)

\* expire_entries, one index at a time
Expiring ==
    /\ busy /\ pkt.ipv4
    /\ ExpireOne
    /\ UNCHANGED <<bucketVars, busy, pkt, reported, out>>

\* Outgoing packets, and packets of other devices, are not looked at.
NotCounted ==
    /\ busy /\ pkt.ipv4 /\ Expired
    /\ pkt.dev # wan_device \/ pkt.dev = lan_device
    /\ UNCHANGED <<tableVars, bucketVars>>
    /\ Finish(IF pkt.dev = lan_device THEN wan_device ELSE DROP, FALSE)

Incoming ==
    /\ busy /\ pkt.ipv4 /\ Expired
    /\ pkt.dev = wan_device /\ pkt.dev # lan_device

\* update_buckets for a subnet that has a bucket
UpdateBucket ==
    /\ Incoming
    /\ Present(pkt.src)
    /\ UpdateAndCheck(pkt.src, pkt.len)
    /\ IF Pass(pkt.src, pkt.len) THEN Grant(pkt.src, pkt.len) ELSE UNCHANGED granted
    /\ Finish(lan_device, ~Pass(pkt.src, pkt.len))

\* update_buckets and allocate for a subnet that has none
Allocate ==
    /\ Incoming
    /\ ~Present(pkt.src)
    /\ Insert(pkt.src)
    /\ FillBucket(pkt.len)
    /\ Grant(pkt.src, pkt.len)
    /\ Finish(lan_device, FALSE)

\* ... when the table is full: the packet goes by uncounted.
AllocateRefused ==
    /\ Incoming
    /\ ~Present(pkt.src)
    /\ Refuse(pkt.src)
    /\ UNCHANGED bucketVars
    /\ Finish(lan_device, FALSE)

nf_process ==
    \/ NotIpv4 \/ Expiring \/ NotCounted
    \/ UpdateBucket \/ Allocate \/ AllocateRefused

Next == (\E p \in Packet : Receive(p)) \/ nf_process

Spec == Init /\ [][Next]_vars

------------------------------------------------------------------------------
(* Properties: those of TokenBucket and FlowTable.                          *)
=============================================================================
