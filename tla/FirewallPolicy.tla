---------------------------- MODULE FirewallPolicy ----------------------------
(***************************************************************************)
(* What the firewall promises, with no chain, vector or map: it remembers  *)
(* at most MaxFlows flows and when each was last seen, forgets those not   *)
(* seen for longer than ExpirationTime before it looks at a packet, and    *)
(* lets a packet in from outside only as the reply of a remembered flow.   *)
(* Firewall.tla is shown to implement it.                                  *)
(***************************************************************************)
EXTENDS Integers, FiniteSets

CONSTANTS MaxFlows, Flow, ExpirationTime, MaxTime,
          Device, Packet, Internal, FwdRule, DROP

VARIABLES
    seen,            \* seen[f] : when f was last seen, for the remembered flows
    now, pkt, busy,  \* the packet being processed, if busy
    out              \* where the last packet went

vars == <<seen, now, pkt, busy, out>>

\* The flow a packet belongs to: replies are filed under the outgoing flow.
FlowOf(p) == IF p.dev \in Internal THEN <<p.src, p.dst>> ELSE <<p.dst, p.src>>

Stale(f) == seen[f] < now - ExpirationTime

Init ==
    /\ seen = [f \in {} |-> 0]
    /\ now = 0
    /\ pkt \in Packet
    /\ busy = FALSE
    /\ out = DROP

Receive(p) ==
    /\ ~busy
    /\ busy' = TRUE
    /\ pkt' = p
    /\ now' \in now .. MaxTime
    /\ UNCHANGED <<seen, out>>

Forget(f) ==
    /\ busy
    /\ Stale(f)
    /\ seen' = [g \in DOMAIN seen \ {f} |-> seen[g]]
    /\ UNCHANGED <<now, pkt, busy, out>>

See(f) == seen' = [g \in DOMAIN seen \cup {f} |-> IF g = f THEN now ELSE seen[g]]

Admits(f) == f \in DOMAIN seen \/ Cardinality(DOMAIN seen) < MaxFlows

Decide ==
    LET f == FlowOf(pkt)
        inside == pkt.dev \in Internal
        passes == pkt.tcpudp /\ (inside \/ f \in DOMAIN seen)
    IN  /\ busy
        /\ \A g \in DOMAIN seen : ~Stale(g)
        /\ IF passes /\ Admits(f) THEN See(f) ELSE UNCHANGED seen
        /\ out' = IF passes THEN FwdRule[pkt.dev] ELSE DROP
        /\ busy' = FALSE
        /\ UNCHANGED <<now, pkt>>

Next ==
    \/ \E p \in Packet : Receive(p)
    \/ \E f \in DOMAIN seen : Forget(f)
    \/ Decide

Spec == Init /\ [][Next]_vars
==============================================================================
