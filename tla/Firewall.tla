------------------------------- MODULE Firewall -------------------------------
(***************************************************************************)
(* The firewall (dpdk-nfs/fw): nf.c's worker loop takes one packet at a    *)
(* time, reads the clock and calls nf_process, which first expires old     *)
(* flows one by one and then decides.  Packets from internal devices open  *)
(* or refresh a flow; packets from outside pass only as replies of one.    *)
(*                                                                         *)
(* An endpoint stands for an address and a port (and the protocol), so a   *)
(* flow identifier is a pair of endpoints, and the reply has them swapped. *)
(***************************************************************************)
EXTENDS FlowTable, NfDevice

CONSTANT Endpoint

ASSUME FlowsArePairs == Flow = Endpoint \X Endpoint

VARIABLES
    busy,   \* nf_process is running
    pkt,    \* ... on this packet
    out     \* what it returned for the last one

vars == <<tableVars, busy, pkt, out>>

\* tcpudp: whether nf_then_get_ipv4_header and ..._tcpudp_header succeed
Packet == [dev : Device, src : Endpoint, dst : Endpoint, tcpudp : BOOLEAN]

\* Fault: the reply's endpoints are not swapped.
FlowIdNotSwapped(p) == <<p.src, p.dst>>

\* The flow identifier nf_process builds from the headers.
FlowId(p) == IF is_internal(p.dev) THEN <<p.src, p.dst>> ELSE <<p.dst, p.src>>

Init ==
    /\ TableInit
    /\ busy = FALSE
    /\ pkt \in Packet
    /\ out = DROP

\* worker_loop: the next packet, and the time it is processed at
Receive(p) ==
    /\ ~busy
    /\ busy' = TRUE
    /\ pkt' = p
    /\ now' \in now .. MaxTime
    /\ UNCHANGED <<heap, fm, fv, out>>

\* flow_manager_expire, one index at a time
Expiring ==
    /\ busy
    /\ ExpireOne
    /\ UNCHANGED <<busy, pkt, out>>

\* flow_manager_allocate_or_refresh_flow
AllocateOrRefresh(id) ==
    \/ Present(id) /\ Refresh(id)
    \/ ~Present(id) /\ (Insert(id) \/ Refuse(id))

\* flow_manager_get_refresh_flow
GetRefresh(id) == IF Present(id) THEN Refresh(id) ELSE UNCHANGED tableVars

\* The rest of nf_process, once the chain has nothing left to expire.
Finish(verdict) ==
    /\ out' = verdict
    /\ busy' = FALSE
    /\ UNCHANGED pkt

NotTcpUdp ==
    /\ busy /\ Expired
    /\ ~pkt.tcpudp
    /\ UNCHANGED tableVars
    /\ Finish(DROP)

FromInside ==
    /\ busy /\ Expired
    /\ pkt.tcpudp /\ is_internal(pkt.dev)
    /\ AllocateOrRefresh(FlowId(pkt))
    /\ Finish(get_dst_dev(pkt.dev))

FromOutside ==
    /\ busy /\ Expired
    /\ pkt.tcpudp /\ ~is_internal(pkt.dev)
    /\ GetRefresh(FlowId(pkt))
    /\ Finish(IF Present(FlowId(pkt)) THEN get_dst_dev(pkt.dev) ELSE DROP)

nf_process == Expiring \/ NotTcpUdp \/ FromInside \/ FromOutside

Next == (\E p \in Packet : Receive(p)) \/ nf_process

Spec == Init /\ [][Next]_vars

\* The worker loop runs alone on its core and never blocks inside nf_process.
FairSpec == Spec /\ WF_vars(nf_process)

------------------------------------------------------------------------------
(* Properties                                                               *)

\* Every packet taken in gets a verdict: the expiry loop ends.
PacketDecided == busy ~> ~busy

\* The flows the three structures hold between them, and their times.
SlotOf(f) == CHOOSE s \in Fm!Busy : fv[keyps[s]] = f
Seen == [f \in {fv[keyps[s]] : s \in Fm!Busy} |-> timestamps[vals[SlotOf(f)]]]

Policy == INSTANCE FirewallPolicy WITH
              seen <- Seen,
              Internal <- internal_devs,
              FwdRule <- [d \in Device |-> get_dst_dev(d)]

\* The chain, the vector and the map together are a table of flows with the
\* time each was last seen: the firewall forgets exactly the flows idle for
\* longer than the expiration time, and admits exactly their replies.
ImplementsPolicy == Policy!Spec
==============================================================================
