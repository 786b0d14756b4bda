------------------------------ MODULE MCFirewall ------------------------------
(***************************************************************************)
(* Two flow slots, two endpoints (so four flow identifiers), one device on *)
(* each side and a third one whose rule points back at itself.             *)
(***************************************************************************)
EXTENDS Firewall, TLC

CONSTANTS a, b, lan, wan

MCFlow == Endpoint \X Endpoint
MCHash == (<<a, a>> :> 2) @@ (<<a, b>> :> 0) @@ (<<b, a>> :> 2) @@ (<<b, b>> :> 1)
MCZeroFlow == <<a, a>>
MCRules == [d \in Device |-> CASE d = lan -> wan [] d = wan -> lan [] OTHER -> d]

\* The last answers and the last packet, the fields of free slots and what
\* free indexes were used for are read by no action.
View ==
    <<next, prev, used, older, sooner, chns, size,
      [i \in used |-> <<timestamps[i], fv[i]>>],
      [s \in Fm!Busy |-> <<fv[keyps[s]], khs[s], vals[s], keyps[s]>>],
      now, out, IF busy THEN <<pkt>> ELSE <<>> >>
==============================================================================
