----------------------------- MODULE SwitchTables -----------------------------
(***************************************************************************)
(* The copies of one data structure in the data plane.  The switch program *)
(* looks a structure up in several places, so the controller keeps one     *)
(* exact-match table for each place and writes them all.  The tables age   *)
(* their entries by themselves: a lookup that hits restarts an entry's     *)
(* timer, and an entry that was not hit for the timeout is announced to    *)
(* the controller, once until it is hit again.  Each table sees only the   *)
(* lookups of its own place.                                               *)
(*                                                                         *)
(* Announcements reach the controller in any order and any time later.     *)
(* The tables themselves are external; the operations are the ones of      *)
(* libsycon's Table.  Those that fail there end the program                *)
(* (ASSERT_BF_STATUS), and are disabled here.                              *)
(***************************************************************************)
EXTENDS Integers, Functions

CONSTANTS Copy, Key, Val

VARIABLES
    entries,        \* entries[c]: what copy c holds, a function from keys
    idle,           \* idle[c]: entries whose timer has run out
    notified        \* announcements under way: pairs of a copy and a key

TablesInit ==
    /\ entries = [c \in Copy |-> <<>>]
    /\ idle = [c \in Copy |-> {}]
    /\ notified = {}

Holds(c, k) == k \in DOMAIN entries[c]

Write(k, v) ==
    /\ entries' = [c \in Copy |->
           [x \in DOMAIN entries[c] \cup {k} |-> IF x = k THEN v ELSE entries[c][x]]]
    /\ idle' = [c \in Copy |-> idle[c] \ {k}]

\* add_entry on every copy
AddEntry(k, v) == (\A c \in Copy : ~Holds(c, k)) /\ Write(k, v)

\* mod_entry on every copy
ModEntry(k, v) == (\A c \in Copy : Holds(c, k)) /\ Write(k, v)

\* add_or_mod_entry on every copy
AddOrModEntry(k, v) == Write(k, v)

\* del_entry on every copy
DelEntry(k) ==
    /\ \A c \in Copy : Holds(c, k)
    /\ entries' = [c \in Copy |-> Restrict(entries[c], DOMAIN entries[c] \ {k})]
    /\ idle' = [c \in Copy |-> idle[c] \ {k}]

\* A packet's lookup in copy c hits.
Hit(c, k) ==
    /\ Holds(c, k)
    /\ idle' = [idle EXCEPT ![c] = @ \ {k}]
    /\ UNCHANGED entries

\* The timer of an entry runs out (set_notify_mode).
TimeOut(c, k) ==
    /\ Holds(c, k) /\ k \notin idle[c]
    /\ idle' = [idle EXCEPT ![c] = @ \cup {k}]
    /\ notified' = notified \cup {<<c, k>>}
    /\ UNCHANGED entries

\* The controller takes an announcement: a callback begins.
Take(c, k) ==
    /\ <<c, k>> \in notified
    /\ notified' = notified \ {<<c, k>>}

TablesTypeOK ==
    /\ entries \in [Copy -> UNION { [S -> Val] : S \in SUBSET Key }]
    /\ idle \in [Copy -> SUBSET Key]
    /\ notified \subseteq Copy \X Key
==============================================================================
