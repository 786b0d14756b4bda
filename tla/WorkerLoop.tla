------------------------------ MODULE WorkerLoop ------------------------------
(***************************************************************************)
(* The worker loop of dpdk-nfs/nf.c.  For each device in turn it receives  *)
(* a batch of buffers, runs nf_process on each, and either frees the       *)
(* buffer or appends it to the batch of its destination; then it hands     *)
(* every destination's batch to the driver, which may take only a first    *)
(* part of it.                                                             *)
(*                                                                         *)
(* A buffer is the driver's ("nic": in the pool, or queued for             *)
(* transmission) or the loop's ("app").  freedTwice collects the buffers   *)
(* the loop frees while they are not its own.                              *)
(***************************************************************************)
EXTENDS Integers, Sequences, FiniteSets

CONSTANTS
    devices_count,
    Mbuf,
    BATCH_SIZE,
    TxMayRefuse,   \* whether rte_eth_tx_burst may send less than it is given
    DROP

WorkerAssumption ==
    /\ devices_count \in Nat \ {0}
    /\ BATCH_SIZE \in Nat \ {0}
    /\ TxMayRefuse \in BOOLEAN

VARIABLES
    owner,         \* owner[m] : "nic" or "app"
    device,        \* the device of this turn of the for loop
    mbufs,         \* what it received; the first rx_count elements
    n,             \* buffers processed so far, or -1 before receiving
    txBatch,       \* txBatch[d] : tx_batch_per_port[d]
    dst_device,    \* the next batch to send, once all are processed
    freedTwice

vars == <<owner, device, mbufs, n, txBatch, dst_device, freedTwice>>

Device == 0 .. devices_count - 1
Last == devices_count - 1

Init ==
    /\ owner = [m \in Mbuf |-> "nic"]
    /\ device = 0
    /\ mbufs = <<>>
    /\ n = -1
    /\ txBatch = [d \in Device |-> <<>>]
    /\ dst_device = 0
    /\ freedTwice = {}

\* Arrangements of up to k free buffers.
Batches(k) ==
    UNION {{s \in [1 .. j -> {m \in Mbuf : owner[m] = "nic"}] :
               \A a, b \in 1 .. j : a # b => s[a] # s[b]} : j \in 0 .. k}

\* rte_eth_rx_burst(device, 0, mbufs, BATCH_SIZE)
RxBurst ==
    /\ n = -1
    /\ \E s \in Batches(BATCH_SIZE) :
          /\ mbufs' = s
          /\ owner' = [m \in Mbuf |-> IF \E j \in DOMAIN s : s[j] = m THEN "app" ELSE owner[m]]
    /\ n' = 0
    /\ UNCHANGED <<device, txBatch, dst_device, freedTwice>>

\* rte_pktmbuf_free of the buffers in S
FreeAll(S) ==
    /\ owner' = [m \in Mbuf |-> IF m \in S THEN "nic" ELSE owner[m]]
    /\ freedTwice' = freedTwice \cup {m \in S : owner[m] # "app"}

\* Fault: a dropped buffer is not freed.
DropLeaks(m) == UNCHANGED <<owner, freedTwice>>

\* A verdict of DROP
Drop(m) == FreeAll({m})

\* nf_process on the next buffer, whatever it decides
ProcessOne(dst) ==
    LET m == mbufs[n + 1]
    IN  /\ n \in 0 .. Len(mbufs) - 1
        /\ n' = n + 1
        /\ IF dst = DROP
           THEN Drop(m) /\ UNCHANGED txBatch
           ELSE /\ txBatch' = [txBatch EXCEPT ![dst] = Append(@, m)]
                /\ UNCHANGED <<owner, freedTwice>>
        /\ UNCHANGED <<device, mbufs, dst_device>>

EmptyBatch == txBatch' = [txBatch EXCEPT ![dst_device] = <<>>]

\* rte_eth_tx_burst takes the first sent buffers of the batch; the clean-up
\* loop then frees mbufs[sent .. tx_count - 1], and the batch is emptied.
TxBurst(sent) ==
    LET batch == txBatch[dst_device]
        taken == {batch[j] : j \in 1 .. sent}
        freed == {mbufs[j] : j \in sent + 1 .. Len(batch)}
    IN  /\ n = Len(mbufs)
        /\ sent \in 0 .. Len(batch)
        /\ ~TxMayRefuse => sent = Len(batch)
        /\ owner' = [m \in Mbuf |-> IF m \in taken \cup freed THEN "nic" ELSE owner[m]]
        /\ freedTwice' = freedTwice \cup {m \in freed : m \in taken \/ owner[m] # "app"}
        /\ EmptyBatch
        /\ IF dst_device # Last
           THEN dst_device' = dst_device + 1 /\ UNCHANGED <<n, device, mbufs>>
           ELSE /\ dst_device' = 0
                /\ n' = -1
                /\ mbufs' = <<>>
                /\ device' = IF device = Last THEN 0 ELSE device + 1

Next ==
    \/ RxBurst
    \/ \E dst \in Device \cup {DROP} : ProcessOne(dst)
    \/ \E sent \in 0 .. BATCH_SIZE : TxBurst(sent)

Spec == Init /\ [][Next]_vars

------------------------------------------------------------------------------
(* Properties                                                               *)

\* Buffers the loop still has a pointer to: received and not yet processed,
\* or waiting in a batch.
Waiting == {m \in Mbuf : \E d \in Device : \E j \in DOMAIN txBatch[d] : txBatch[d][j] = m}
Unprocessed == {mbufs[j] : j \in n + 1 .. Len(mbufs)}

\* Every buffer the loop owns is one it can still reach, so none leaks, and it
\* frees none twice nor one the driver is sending.
BuffersAccounted ==
    /\ freedTwice = {}
    /\ {m \in Mbuf : owner[m] = "app"} = (IF n = -1 THEN {} ELSE Unprocessed) \cup Waiting
==============================================================================
