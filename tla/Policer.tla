------------------------------- MODULE Policer -------------------------------
(***************************************************************************)
(* The policer (dpdk-nfs/pol): a packet from outside takes tokens from the *)
(* bucket of its destination, and is dropped when there are too few.       *)
(* ExpirationTime is the exp_time that tb_expire computes.                 *)
(***************************************************************************)
EXTENDS TokenBucket, NfDevice

\* tb_expire divides before it multiplies: whole seconds only
exp_time == NS_TO_S_MULTIPLIER * (Burst \div Rate)

VARIABLES
    phase,   \* where nf_process is
    pkt,
    out

vars == <<tableVars, bucketVars, phase, pkt, out>>

Packet == [dev : Device, dst : Flow, len : Length, ipv4 : BOOLEAN]

Init ==
    /\ BucketInit
    /\ phase = "idle"
    /\ pkt \in Packet
    /\ out = DROP

Receive(p) ==
    /\ phase = "idle"
    /\ phase' = "expire"
    /\ pkt' = p
    /\ Clock
    /\ UNCHANGED <<heap, fm, fv, buckets, out>>

\* tb_expire, one index at a time
Expiring ==
    /\ phase = "expire"
    /\ ExpireOne
    /\ UNCHANGED <<bucketVars, phase, pkt, out>>

Finish(verdict) ==
    /\ out' = verdict
    /\ phase' = "idle"
    /\ UNCHANGED pkt

\* Packets that are not IPv4, and packets from inside, are not policed.
NotPoliced ==
    /\ phase = "expire" /\ Expired
    /\ ~pkt.ipv4 \/ is_internal(pkt.dev)
    /\ UNCHANGED <<tableVars, bucketVars>>
    /\ Finish(IF pkt.ipv4 THEN get_dst_dev(pkt.dev) ELSE DROP)

Incoming == phase = "expire" /\ Expired /\ pkt.ipv4 /\ ~is_internal(pkt.dev)

\* tb_is_tracing, then tb_update_and_check when it says yes
Check ==
    /\ Incoming
    /\ Present(pkt.dst)
    /\ UpdateAndCheck(pkt.dst, pkt.len)
    /\ UNCHANGED granted
    /\ IF Pass(pkt.dst, pkt.len)
       THEN phase' = "trace" /\ UNCHANGED <<pkt, out>>
       ELSE Finish(DROP)

CheckAbsent ==
    /\ Incoming
    /\ ~Present(pkt.dst)
    /\ phase' = "trace"
    /\ UNCHANGED <<tableVars, bucketVars, pkt, out>>

\* tb_trace, which nf_process calls whether or not the address was present
Trace ==
    /\ phase = "trace"
    /\ \/ /\ Insert(pkt.dst)
          /\ FillBucket(pkt.len)
          /\ Grant(pkt.dst, pkt.len)
          /\ Finish(get_dst_dev(pkt.dev))
       \/ Refuse(pkt.dst) /\ UNCHANGED bucketVars /\ Finish(DROP)

nf_process == Expiring \/ NotPoliced \/ Check \/ CheckAbsent \/ Trace

Next == (\E p \in Packet : Receive(p)) \/ nf_process

Spec == Init /\ [][Next]_vars
==============================================================================
