--------------------------- MODULE MCSwitchFirewall ---------------------------
(***************************************************************************)
(* Three flows, which are interchangeable, and room for two: when both     *)
(* keys outlive an index, the third flow gets that index and no key.  Two  *)
(* packets under way make the race of a new flow's packets, or of two      *)
(* flows for the last place.                                               *)
(***************************************************************************)
EXTENDS SwitchFirewall, TLC

Symmetric == Permutations(Flow)
==============================================================================
