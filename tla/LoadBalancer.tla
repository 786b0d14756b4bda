----------------------------- MODULE LoadBalancer -----------------------------
(***************************************************************************)
(* The load balancer (dpdk-nfs/lb).  Backends announce themselves with     *)
(* heartbeats, packets from any device but the WAN's; packets from the WAN *)
(* are given to a backend, a new flow to the one the consistent hash table *)
(* prefers, a tracked flow to the one it had.  Flows and backends expire   *)
(* independently, and a flow remembers the INDEX of its backend.           *)
(*                                                                         *)
(* One action is one call of nf_process: it expires flows and backends,    *)
(* then decides.  A backend's MAC address is written and read with its     *)
(* nic, and left out.                                                      *)
(***************************************************************************)
EXTENDS AgedTable, ChtOrder

CONSTANTS
    Flow, fhash,            \* struct LoadBalancedFlow, and hash_obj of it
    Ip,                     \* backends' addresses
    Device, wan_device,
    flow_capacity, backend_capacity, cht_height,
    FlowExpiration, BackendExpiration,
    MaxTime,                \* bound on the clock
    DROP, None

BalancerAssumption ==
    /\ fhash \in [Flow -> Nat] /\ wan_device \in Device /\ DROP \notin Device
    /\ None \notin Flow \cup Ip
    /\ flow_capacity \in Nat /\ backend_capacity \in Nat \ {0}
    /\ cht_height \in Nat /\ is_prime(cht_height)
    /\ FlowExpiration \in Nat /\ BackendExpiration \in Nat /\ MaxTime \in Nat

VARIABLES
    flows,                  \* flow_to_flow_id, flow_heap, flow_chain
    flow_id_to_backend_id,
    ips,                    \* ip_to_backend_id, backend_ips, active_backends
    backends,
    now,
    out,                    \* the last packet: its flow, the device and the
                            \* address nf_process sent it to
    heard,                  \* history: each backend's last heartbeat
    served,                 \* history: the backend each flow was last sent to
    lost                    \* history: flows whose backend expired since then

vars == <<flows, flow_id_to_backend_id, ips, backends, now, out, heard, served, lost>>

FlowIndex == 0 .. flow_capacity - 1
BackendIndex == 0 .. backend_capacity - 1

\* What cht_fill_cht leaves in the table (Cht)
cht == PreferenceTable(cht_height, backend_capacity)

\* alloc_state; the vectors are zeroed
Init ==
    /\ flows = EmptyTable /\ ips = EmptyTable
    /\ flow_id_to_backend_id = [i \in FlowIndex |-> 0]
    /\ backends = [b \in BackendIndex |-> [ip |-> None, nic |-> wan_device]]
    /\ now = 0
    /\ out = [flow |-> None, ip |-> None, nic |-> DROP]
    /\ heard = [a \in Ip |-> -1]
    /\ served = [f \in Flow |-> None]
    /\ lost = {}

\* lb_expire_flows and lb_expire_backends: the tables as nf_process sees them
lb_expire_flows(t) == expire_items_single_map(flows, t - FlowExpiration)
lb_expire_backends(t) == expire_items_single_map(ips, t - BackendExpiration)

LostBy(t) ==
    lost \cup { f \in Flow : served[f] \in DOMAIN ips \ DOMAIN lb_expire_backends(t) }

Dropped == [flow |-> None, ip |-> None, nic |-> DROP]

\* No IPv4 or no TCP/UDP header: only the expirations happen.
Malformed(t) ==
    /\ flows' = lb_expire_flows(t)
    /\ ips' = lb_expire_backends(t)
    /\ now' = t
    /\ out' = Dropped
    /\ lost' = LostBy(t)
    /\ UNCHANGED <<flow_id_to_backend_id, backends, heard, served>>

\* The backend's record.
new_backend(b, a, nic) == [backends EXCEPT ![b] = [ip |-> a, nic |-> nic]]

\* lb_process_heartbit: a known backend is rejuvenated, its record kept; a new
\* one gets an index if one is free, and is ignored otherwise.
Heartbeat(t, nic, a) ==
    LET active == lb_expire_backends(t)
    IN /\ nic # wan_device
       /\ \/ /\ a \in DOMAIN active
             /\ ips' = Rejuvenate(active, a, t)
             /\ UNCHANGED backends
          \/ /\ a \notin DOMAIN active
             /\ \E b \in Free(active, backend_capacity) :
                   /\ backends' = new_backend(b, a, nic)
                   /\ ips' = Enter(active, a, b, t)
          \/ /\ a \notin DOMAIN active
             /\ Free(active, backend_capacity) = {}
             /\ ips' = active
             /\ UNCHANGED backends
       /\ flows' = lb_expire_flows(t)
       /\ now' = t
       /\ out' = Dropped
       /\ heard' = [heard EXCEPT ![a] = t]
       /\ lost' = LostBy(t)
       /\ UNCHANGED <<flow_id_to_backend_id, served>>

\* The packet of f leaves for backend b.
SendTo(f, b) ==
    /\ out' = [flow |-> f, ip |-> backends[b].ip, nic |-> backends[b].nic]
    /\ served' = [served EXCEPT ![f] = backends[b].ip]
    /\ lost' = LostBy(now') \ {f}

\* Fault: the flow's backend is not recorded.
TrackUnrecorded(t, f, b, tracked) ==
    \E i \in Free(tracked, flow_capacity) :
        flows' = Enter(tracked, f, i, t) /\ UNCHANGED flow_id_to_backend_id

\* The flow is entered with its backend.
Track(t, f, b, tracked) ==
    \E i \in Free(tracked, flow_capacity) :
        /\ flows' = Enter(tracked, f, i, t)
        /\ flow_id_to_backend_id' = [flow_id_to_backend_id EXCEPT ![i] = b]

\* lb_assign_backend: the preferred active backend, and the flow tracked if
\* there is room ("Doesn't matter if we can't insert"); without a backend
\* the packet goes to the WAN device, unchanged.
lb_assign_backend(t, f, tracked) ==
    LET active == InUse(lb_expire_backends(t))
        found == PreferredExists(cht, fhash[f], active, cht_height, backend_capacity)
        b == Preferred(cht, fhash[f], active, cht_height, backend_capacity)
    IN \/ /\ found
          /\ \/ Track(t, f, b, tracked)
             \/ /\ Free(tracked, flow_capacity) = {}
                /\ flows' = tracked
                /\ UNCHANGED flow_id_to_backend_id
          /\ SendTo(f, b)
       \/ /\ ~found
          /\ flows' = tracked
          /\ out' = [flow |-> f, ip |-> None, nic |-> wan_device]
          /\ lost' = LostBy(t)
          /\ UNCHANGED <<flow_id_to_backend_id, served>>

\* Fault: a tracked flow's backend is not looked up in active_backends.
BackendGoneUnchecked(b, t) == FALSE

\* dchain_is_index_allocated(active_backends, backend_index) is 0.
BackendGone(b, t) == ~IsAllocated(lb_expire_backends(t), b)

\* lb_get_backend
Balance(t, f) ==
    LET tracked == lb_expire_flows(t)
        b == flow_id_to_backend_id[tracked[f].index]
    IN /\ now' = t
       /\ ips' = lb_expire_backends(t)
       /\ \/ f \notin DOMAIN tracked /\ lb_assign_backend(t, f, tracked)
          \/ /\ f \in DOMAIN tracked
             /\ BackendGone(b, t)
             /\ lb_assign_backend(t, f, Erase(tracked, f))
          \/ /\ f \in DOMAIN tracked
             /\ ~BackendGone(b, t)
             /\ flows' = Rejuvenate(tracked, f, t)
             /\ SendTo(f, b)
             /\ UNCHANGED flow_id_to_backend_id
       /\ UNCHANGED <<backends, heard>>

Next ==
    \E t \in now .. MaxTime :
        \/ Malformed(t)
        \/ \E nic \in Device, a \in Ip : Heartbeat(t, nic, a)
        \/ \E f \in Flow : Balance(t, f)

Spec == Init /\ [][Next]_vars

\* A packet of the WAN is only sent to a backend whose last heartbeat is within
\* the expiration time, although a flow keeps the index of its backend after
\* that has expired and although the index may since belong to another.
ForwardsToLive ==
    out.ip # None => heard[out.ip] >= now - BackendExpiration

\* A tracked flow stays with its backend: it is sent elsewhere only after that
\* backend was expired (a heartbeat came too late), even if it is back since.
\* Indexes of flows and backends are reused meanwhile, and other backends come.
Affinity ==
    [][\A f \in Flow :
          (/\ out'.flow = f
           /\ f \in DOMAIN lb_expire_flows(now')
           /\ f \notin LostBy(now'))
          => out'.ip = served[f]]_vars

\* The search finds a backend whenever one is active: only when there is none
\* is a packet of the WAN not sent to a backend.
FoundIfAny == out.nic = wan_device => DOMAIN ips = {}
==============================================================================
