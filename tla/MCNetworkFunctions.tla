-------------------------- MODULE MCNetworkFunctions --------------------------
(***************************************************************************)
(* Four network functions and the loop that runs them, side by side for    *)
(* TLC: the connection limiter, the load balancer, the key value cache,    *)
(* the port scan detector and the worker loop; and, under "cht", the       *)
(* filling of the balancer's consistent hash table, which runs before      *)
(* there are packets.  They share no state.  nf, chosen at the start among *)
(* Functions, says which one runs; the others stay as they were allocated. *)
(*                                                                         *)
(* Limiter: three clients and two rows of two buckets; the first two       *)
(* clients share a bucket in the first row, the last two in the second.    *)
(* Balancer: one place for two flows and two for three backends, so that   *)
(* flows stay untracked, heartbeats are ignored and indexes go to others.  *)
(* Cache: one place, two keys.  Detector: two places for three sources;    *)
(* two ports are allowed and there are three, so that a source can be      *)
(* dropped; all keys of s1 start at slot 1, those of s2 and s3 are spread. *)
(***************************************************************************)
EXTENDS ConnectionLimiter, TLC

CONSTANTS
    Functions,
    \* LoadBalancer
    LbFlow, fhash, Ip, LbDevice, wan_device, flow_capacity, backend_capacity, cht_height,
    FlowExpiration, BackendExpiration, LbMaxTime, DROP, None,
    \* Cht
    ChtHeights, ChtCapacities,
    \* KeyValueCache
    Key, Value, KvClient, KvCapacity, KvExpiration, KvMaxTime, MaxInFlight,
    \* PortScanDetector
    Src, Port, khash, ZeroKey, SourceCapacity, max_ports, PsExpiration, PsMaxTime,
    \* WorkerLoop
    devices_count, Mbuf, BATCH_SIZE, TxMayRefuse,
    \* what the configurations make clients, flows, sources and ports of
    c1, c2, c3, f1, f2, s1, s2, s3, p1, p2, p3

MCFlow == {<<c1, 1>>, <<c1, 2>>, <<c2, 1>>, <<c3, 1>>}
MCCrc == (0 :> (c1 :> 0 @@ c2 :> 2 @@ c3 :> 1)) @@ (1 :> (c1 :> 0 @@ c2 :> 3 @@ c3 :> 1))

MCBalancerHash == (f1 :> 0) @@ (f2 :> 4)

MCZeroKey == <<s1, p1>>
MCPortHash ==
    (<<s1, p1>> :> 1) @@ (<<s1, p2>> :> 5) @@ (<<s1, p3>> :> 1) @@
    (<<s2, p1>> :> 0) @@ (<<s2, p2>> :> 1) @@ (<<s2, p3>> :> 6) @@
    (<<s3, p1>> :> 2) @@ (<<s3, p2>> :> 3) @@ (<<s3, p3>> :> 1)

VARIABLES
    nf,
    \* LoadBalancer
    lbFlows, flow_id_to_backend_id, ips, backends, lbNow, lbOut, heard, served, lost,
    \* Cht
    fill_height, fill_capacity, fill_i, fill_j, filled, cht,
    \* KeyValueCache
    kvs, values, kvNow, requests, replies, store, answer, latest,
    \* PortScanDetector
    srcs, touched_ports_counter, busybits, keyps, khs, chns, vals, size, mapRet,
    ports_key, psNow, pc, cur, i, psOut, reached, leftBehind,
    \* WorkerLoop
    owner, device, mbufs, n, txBatch, dst_device, freedTwice

lbVars == <<lbFlows, flow_id_to_backend_id, ips, backends, lbNow, lbOut, heard, served, lost>>
chtVars == <<fill_height, fill_capacity, fill_i, fill_j, filled, cht>>
kvVars == <<kvs, values, kvNow, requests, replies, store, answer, latest>>
psVars == <<srcs, touched_ports_counter, busybits, keyps, khs, chns, vals, size, mapRet,
            ports_key, psNow, pc, cur, i, psOut, reached, leftBehind>>
workerVars == <<owner, device, mbufs, n, txBatch, dst_device, freedTwice>>

Balancer == INSTANCE LoadBalancer WITH
    Flow <- LbFlow, Device <- LbDevice, MaxTime <- LbMaxTime,
    flows <- lbFlows, now <- lbNow, out <- lbOut

Filling == INSTANCE Cht WITH
    Heights <- ChtHeights, Capacities <- ChtCapacities,
    cht_height <- fill_height, backend_capacity <- fill_capacity,
    i <- fill_i, j <- fill_j, next <- filled

Cache == INSTANCE KeyValueCache WITH
    Client <- KvClient, capacity <- KvCapacity, ExpirationTime <- KvExpiration,
    MaxTime <- KvMaxTime, now <- kvNow

Detector == INSTANCE PortScanDetector WITH
    capacity <- SourceCapacity, ExpirationTime <- PsExpiration, MaxTime <- PsMaxTime,
    now <- psNow, out <- psOut

Worker == INSTANCE WorkerLoop

ASSUME BalancerConstants == Balancer!BalancerAssumption
ASSUME FillingConstants == Filling!SizesAssumption
ASSUME CacheConstants == Cache!CacheAssumption
ASSUME DetectorConstants == Detector!DetectorAssumption /\ Detector!Ports!MapAssumption
ASSUME WorkerConstants == Worker!WorkerAssumption

NfInit ==
    /\ nf \in Functions
    /\ Init /\ Balancer!Init /\ Cache!Init
    /\ \/ nf = "psd"
       \/ /\ keyps = [s \in Detector!Cell |-> 0] /\ vals = [s \in Detector!Cell |-> 0]
    /\ \/ nf = "cht"
       \/ /\ fill_height = (CHOOSE h \in ChtHeights : TRUE)
          /\ fill_capacity = (CHOOSE c \in ChtCapacities : TRUE)
    /\ Filling!Init /\ Detector!Init /\ Worker!Init

NfNext ==
    /\ UNCHANGED nf
    /\ \/ nf = "cl" /\ Next /\ UNCHANGED <<lbVars, chtVars, kvVars, psVars, workerVars>>
       \/ nf = "lb" /\ Balancer!Next /\ UNCHANGED <<vars, chtVars, kvVars, psVars, workerVars>>
       \/ nf = "cht" /\ Filling!Next /\ UNCHANGED <<vars, lbVars, kvVars, psVars, workerVars>>
       \/ nf = "kvs" /\ Cache!Next /\ UNCHANGED <<vars, lbVars, chtVars, psVars, workerVars>>
       \/ nf = "psd" /\ Detector!Next /\ UNCHANGED <<vars, lbVars, chtVars, kvVars, workerVars>>
       \/ nf = "loop" /\ Worker!Next /\ UNCHANGED <<vars, lbVars, chtVars, kvVars, psVars>>

NfSpec == NfInit /\ [][NfNext]_<<nf, vars, lbVars, chtVars, kvVars, psVars, workerVars>>

\* Of the detector, no action reads free slots, the map's answers, or the last
\* packet, which is looked at when it was dropped.
DetectorView ==
    <<srcs, touched_ports_counter, chns, size, ports_key, psNow, pc, cur, i, reached, leftBehind,
      IF psOut.passed THEN <<>> ELSE psOut,
      [s \in Detector!Ports!Busy |-> <<keyps[s], khs[s], vals[s]>>]>>

\* Of what follows once ports were left behind nothing is claimed: it is one
\* state.
View ==
    <<nf,
      CASE nf = "cl" -> vars
        [] nf = "lb" -> lbVars
        [] nf = "cht" -> chtVars
        [] nf = "kvs" -> kvVars
        [] nf = "psd" -> IF leftBehind THEN <<>> ELSE DetectorView
        [] nf = "loop" -> workerVars>>

\* The balancer looks at no address but to compare it.
Symmetry == Permutations(Ip)

------------------------------------------------------------------------------
(* Properties: those of ConnectionLimiter, and of the others:               *)

\* LoadBalancer: packets of the WAN only go to backends that were heard lately.
ForwardsToLive == Balancer!ForwardsToLive

\* LoadBalancer: a packet finds a backend whenever one is active.
FoundIfAny == Balancer!FoundIfAny

\* Cht: every row of the table names every backend, once.
RowsComplete == Filling!RowsComplete

\* LoadBalancer: a tracked flow stays with its backend until that expires.
Affinity == Balancer!Affinity

\* KeyValueCache: a cached value is the one of the key's last PUT.
HitsLatest == Cache!HitsLatest

\* PortScanDetector: the map holds exactly the ports tracked sources reached ...
CleanedUp == Detector!CleanedUp

\* ... until an allocation leaves some behind.
CleanedUpUntilLeft == Detector!CleanedUpUntilLeft

\* PortScanDetector: a source is dropped exactly at its limit.
DetectionExact == Detector!DetectionExact

\* WorkerLoop: no buffer leaks and none is freed twice or while it is sent.
BuffersAccounted == Worker!BuffersAccounted
==============================================================================
