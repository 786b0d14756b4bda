------------------------------ MODULE MCPolicer ------------------------------
(***************************************************************************)
(* Two buckets, two addresses, one device on each side.                    *)
(***************************************************************************)
EXTENDS Policer, TLC

CONSTANTS x, y, lan, wan

MCHash == (x :> 1) @@ (y :> 2)
MCRules == [d \in Device |-> CASE d = lan -> wan [] d = wan -> lan [] OTHER -> d]

\* As in MCFlowTables, with the cells of free indexes: a stale map entry may
\* still point to them.
View ==
    <<next, prev, used, older, sooner, chns, size, busybits,
      [i \in used |-> <<timestamps[i], buckets[i]>>], fv,
      [s \in Fm!Busy |-> <<fv[keyps[s]], khs[s], vals[s], keyps[s]>>],
      now, granted, phase, IF phase # "idle" THEN <<pkt>> ELSE <<>> >>
==============================================================================
