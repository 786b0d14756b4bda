--------------------------------- MODULE Nat ---------------------------------
(***************************************************************************)
(* The network address translator (dpdk-nfs/nat).  A packet from inside is *)
(* sent on with the index of its flow as source port; a packet from        *)
(* outside names that port, and is translated back from the vector cell of *)
(* the index without looking at the map.  The code keeps the two views of  *)
(* the table (map by flow, vector by port) consistent only through the     *)
(* chain.                                                                  *)
(*                                                                         *)
(* Every port a packet can name is an index of the table, as with the      *)
(* 65536 flows the Makefile configures.  The last user of each port is     *)
(* kept in the history variable last.                                      *)
(***************************************************************************)
EXTENDS FlowTable, NfDevice

CONSTANT Endpoint   \* addresses with ports, of hosts inside and outside

FlowsArePairs == Flow = Endpoint \X Endpoint

VARIABLES
    busy, pkt,
    out,    \* the translated packet, or DROP
    last    \* last[i] : the flow whose packet last went through port i, and when

vars == <<tableVars, busy, pkt, out, last>>

NoUse == [flow |-> DROP, time |-> -1]

Outside == Device \ internal_devs

\* tcpudp: whether nf_then_get_ipv4_header and ..._tcpudp_header succeed.
\* From outside only the port of the translator's own address matters.
Packet ==
    [dev : internal_devs, src : Endpoint, dst : Endpoint, tcpudp : BOOLEAN]
    \cup [dev : Outside, src : Endpoint, port : Index, tcpudp : BOOLEAN]

Init ==
    /\ TableInit
    /\ busy = FALSE
    /\ pkt \in Packet
    /\ out = DROP
    /\ last = [i \in Index |-> NoUse]

Receive(p) ==
    /\ ~busy
    /\ busy' = TRUE
    /\ pkt' = p
    /\ now' \in now .. MaxTime
    /\ UNCHANGED <<heap, fm, fv, out, last>>

\* flow_manager_expire, one index at a time
Expiring ==
    /\ busy
    /\ ExpireOne
    /\ UNCHANGED <<busy, pkt, out, last>>

Finish(verdict) ==
    /\ out' = verdict
    /\ busy' = FALSE
    /\ UNCHANGED pkt

NotTcpUdp ==
    /\ busy /\ Expired
    /\ ~pkt.tcpudp
    /\ UNCHANGED <<tableVars, last>>
    /\ Finish(DROP)

\* The packet with its headers rewritten, sent where the rules say.
Send(hdr) ==
    Finish(IF get_dst_dev(pkt.dev) = DROP THEN DROP ELSE [to |-> get_dst_dev(pkt.dev), hdr |-> hdr])

\* The packet leaves from port i, and leaves its mark on it.
SendFromPort(id, i) ==
    /\ Send([port |-> i, dst |-> id[2]])
    /\ last' = [last EXCEPT ![i] = [flow |-> id, time |-> now]]

\* Fault: a new index for every packet.
FromInsideAllocatesAlways ==
    LET id == <<pkt.src, pkt.dst>>
    IN  /\ busy /\ Expired
        /\ pkt.tcpudp /\ is_internal(pkt.dev)
        /\ \/ Insert(id) /\ SendFromPort(id, Fresh)
           \/ Refuse(id) /\ Finish(DROP) /\ UNCHANGED last

\* nf_process on a packet from inside: flow_manager_get_internal, and
\* flow_manager_allocate_flow when that finds nothing
FromInside ==
    LET id == <<pkt.src, pkt.dst>>
    IN  /\ busy /\ Expired
        /\ pkt.tcpudp /\ is_internal(pkt.dev)
        /\ \/ Present(id) /\ Refresh(id) /\ SendFromPort(id, IndexOf(id))
           \/ ~Present(id) /\ Insert(id) /\ SendFromPort(id, Fresh)
           \/ ~Present(id) /\ Refuse(id) /\ Finish(DROP) /\ UNCHANGED last

\* Fault: replies do not keep the flow alive.
get_external_no_refresh(i) == UNCHANGED tableVars

\* flow_manager_get_external: the vector alone says whose port i is
get_external(i) ==
    IF Heap!IsAllocated(i)
    THEN Heap!Rejuvenate(i) /\ UNCHANGED <<fm, fv>>
    ELSE UNCHANGED tableVars

\* Fault: the sender is not compared with the flow's peer.
FromOutsideAnySender ==
    LET i == pkt.port
    IN  /\ busy /\ Expired
        /\ pkt.tcpudp /\ ~is_internal(pkt.dev)
        /\ get_external(i)
        /\ last' = IF Heap!IsAllocated(i) THEN [last EXCEPT ![i].time = now] ELSE last
        /\ IF Heap!IsAllocated(i) THEN Send([src |-> pkt.src, dst |-> fv[i][1]]) ELSE Finish(DROP)

\* nf_process on a packet from outside.  The port's flow is rejuvenated before
\* its peer is compared with the sender, so a stranger's packet refreshes it.
FromOutside ==
    LET i == pkt.port
        id == fv[i]
    IN  /\ busy /\ Expired
        /\ pkt.tcpudp /\ ~is_internal(pkt.dev)
        /\ get_external(i)
        /\ last' = IF Heap!IsAllocated(i) THEN [last EXCEPT ![i].time = now] ELSE last
        /\ IF Heap!IsAllocated(i) /\ id[2] = pkt.src
           THEN Send([src |-> pkt.src, dst |-> id[1]])
           ELSE Finish(DROP)

nf_process == Expiring \/ NotTcpUdp \/ FromInside \/ FromOutside

Next == (\E p \in Packet : Receive(p)) \/ nf_process

Spec == Init /\ [][Next]_vars

------------------------------------------------------------------------------
(* Properties                                                               *)

\* No two flows share a port within the expiration time: when a port passes
\* from one flow to another, its last packet is older than the deadline.
PortNotShared ==
    [][\A i \in Index :
          last[i] # NoUse /\ last'[i].flow # last[i].flow =>
              last[i].time < now - ExpirationTime]_vars

\* A reply that is let in goes to the flow whose packet left last through the
\* port it names, and comes from the peer of that flow.
ReplyGoesBack ==
    [][busy /\ ~busy' /\ ~is_internal(pkt.dev) /\ out' # DROP =>
          last[pkt.port].flow = <<out'.hdr.dst, pkt.src>>]_vars

\* A flow keeps its port for as long as it is in the table.
PortKept ==
    [][\A f \in Flow :
          Present(f) /\ Present(f)' => IndexOf(f)' = IndexOf(f)]_vars
==============================================================================
