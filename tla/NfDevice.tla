------------------------------- MODULE NfDevice -------------------------------
(***************************************************************************)
(* The two configuration vectors every network function keeps (alloc_state *)
(* in its state.c fills them from the command line and nothing writes them *)
(* again): which devices face inside, and where each device's packets go.  *)
(***************************************************************************)

CONSTANTS
    Device,
    internal_devs,   \* the devices that face inside
    fwd_rules,       \* where each device's packets go, or DROP
    DROP

ASSUME DeviceAssumption ==
    /\ internal_devs \subseteq Device
    /\ fwd_rules \in [Device -> Device \cup {DROP}]
    /\ DROP \notin Device

is_internal(dev) == dev \in internal_devs

\* A rule that sends a packet back where it came from drops it.
get_dst_dev(dev) == IF fwd_rules[dev] = dev THEN DROP ELSE fwd_rules[dev]
==============================================================================
