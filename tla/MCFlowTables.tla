----------------------------- MODULE MCFlowTables -----------------------------
(***************************************************************************)
(* The heavy hitter detector and the translator side by side, for TLC.     *)
(* They share no state.  nf, chosen at the start, says which of the two    *)
(* takes packets; the other stays as its alloc_state left it.              *)
(*                                                                         *)
(* Two flow slots each.  For the detector three subnets, two of which      *)
(* share a hash, a burst that is not a multiple of what a second adds, and *)
(* seconds of three ticks, so that refills are rounded and buckets expire  *)
(* between seconds.  For the translator two endpoints and so four flows:   *)
(* the table fills up, and ports are handed on.                            *)
(***************************************************************************)
EXTENDS HeavyHitter, TLC

CONSTANTS
    \* the translator's
    Host, natHash, natZeroFlow, natExpiration, natMaxTime,
    natDevice, natInternal, natRules,
    \* for TLC
    x, y, z, a, b, lan, wan

MCHash == (x :> 1) @@ (y :> 2) @@ (z :> 1)

MCNatHash == (<<a, a>> :> 2) @@ (<<a, b>> :> 0) @@ (<<b, a>> :> 2) @@ (<<b, b>> :> 1)
MCNatZeroFlow == <<a, a>>
MCNatRules == (lan :> wan) @@ (wan :> lan)

VARIABLES
    nf,
    \* the translator's state
    natNext, natPrev, natTimestamps, natUsed, natOlder, natSooner, natChainRet,
    natBusybits, natKeyps, natKhs, natChns, natVals, natSize, natMapRet, natFv,
    natNow, natBusy, natPkt, natOut, last

natVars == <<
    natNext, natPrev, natTimestamps, natUsed, natOlder, natSooner, natChainRet,
    natBusybits, natKeyps, natKhs, natChns, natVals, natSize, natMapRet, natFv,
    natNow, natBusy, natPkt, natOut, last>>

N == INSTANCE Nat WITH
    Endpoint <- Host, Flow <- Host \X Host, ZeroFlow <- natZeroFlow, khash <- natHash,
    Device <- natDevice, internal_devs <- natInternal, fwd_rules <- natRules,
    ExpirationTime <- natExpiration, MaxTime <- natMaxTime,
    next <- natNext, prev <- natPrev, timestamps <- natTimestamps,
    used <- natUsed, older <- natOlder, sooner <- natSooner,
    chainRet <- natChainRet, busybits <- natBusybits, keyps <- natKeyps,
    khs <- natKhs, chns <- natChns, vals <- natVals, size <- natSize,
    mapRet <- natMapRet, fv <- natFv, now <- natNow, busy <- natBusy,
    pkt <- natPkt, out <- natOut

ASSUME DetectorAssumption ==
    RateAssumption /\ DetectorDevices /\ LengthsFit /\ ExpirationAssumption
ASSUME TranslatorAssumption ==
    N!FlowAssumption /\ N!TimeAssumption /\ N!DeviceAssumption /\ N!FlowsArePairs

\* What malloc leaves unspecified, in a function that takes no packets.
Asleep(me, stamps, ptrs, values, p, Packets) ==
    \/ nf = me
    \/ /\ nf # me
       /\ stamps = [i \in Index |-> 0]
       /\ ptrs = [i \in Index |-> 0] /\ values = [i \in Index |-> 0]
       /\ p = CHOOSE q \in Packets : TRUE

NfInit ==
    /\ nf \in {"hhh", "nat"}
    /\ Asleep("hhh", timestamps, keyps, vals, pkt, Packet) /\ Init
    /\ Asleep("nat", natTimestamps, natKeyps, natVals, natPkt, N!Packet) /\ N!Init

NfNext ==
    \/ nf = "hhh" /\ Next /\ UNCHANGED <<nf, natVars>>
    \/ nf = "nat" /\ N!Next /\ UNCHANGED <<nf, vars>>

NfSpec == NfInit /\ [][NfNext]_<<nf, vars, natVars>>

\* The last answers, packets and results, the fields of free slots and of free
\* indexes are read by no action; an idle function remembers no packet.
View ==
    <<nf, sooner, natSooner,
      CASE nf = "hhh" ->
            <<next, prev, used, older, chns, size,
              [i \in used |-> <<timestamps[i], buckets[i], fv[i]>>],
              [s \in Fm!Busy |-> <<fv[keyps[s]], khs[s], vals[s], keyps[s]>>],
              now, granted, IF busy THEN <<pkt>> ELSE <<>> >>
        [] nf = "nat" ->
            <<natNext, natPrev, natUsed, natOlder, natChns, natSize, last,
              [i \in natUsed |-> <<natTimestamps[i], natFv[i]>>],
              [s \in N!Fm!Busy |-> <<natFv[natKeyps[s]], natKhs[s], natVals[s], natKeyps[s]>>],
              natNow, IF natBusy THEN <<natPkt>> ELSE <<>> >> >>

------------------------------------------------------------------------------
(* Properties: those of TokenBucket, and of Nat:                            *)

\* No two flows share a port within the expiration time (nat, heap and fv).
PortNotShared == N!PortNotShared

\* A reply goes to the flow that last sent through the port it names.
ReplyGoesBack == N!ReplyGoesBack

\* A flow keeps its port while it is in the table.
PortKept == N!PortKept
==============================================================================
