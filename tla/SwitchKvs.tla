------------------------------ MODULE SwitchKvs ------------------------------
(***************************************************************************)
(* The key value store as the compiler puts it on the switch: HHTable maps *)
(* cached keys to indexes, and a register holds the value of each index.   *)
(* The data plane answers requests for cached keys and forwards the others *)
(* to the storage server; the program for the controller handles no packet *)
(* at all.                                                                 *)
(*                                                                         *)
(* A value is a pair of the key it was put for and a version.              *)
(***************************************************************************)
EXTENDS HHTable

CONSTANTS Version, None     \* None: a register that was never written

Value == Key \X Version

VARIABLES
    vector_register,
    written         \* history: the value that a PUT of the key left in the
                    \* cache, since the key was cached

kvsVars == <<vars, vector_register, written>>

\* The registers before the first packet.
Registers == [i \in Index |-> None]

KvsInit ==
    /\ Init
    /\ vector_register = Registers
    /\ written = [k \in Key |-> None]

IndexOf(k) == entries[1][k]

\* A GET of a cached key is answered with the register of its index.
GetHit(k, v) ==
    /\ LookupHit(1, k)
    /\ v = vector_register[IndexOf(k)]
    /\ UNCHANGED <<vector_register, written>>

\* Fault: a PUT of a cached key is answered and not written.
WriteAround(k, v) == UNCHANGED vector_register

\* The register of a cached key's index takes the new value.
WriteRegister(k, v) == vector_register' = [vector_register EXCEPT ![IndexOf(k)] = v]

\* A PUT of a cached key is written to the register and answered.
PutHit(k, n) ==
    /\ LookupHit(1, k)
    /\ WriteRegister(k, <<k, n>>)
    /\ written' = [written EXCEPT ![k] = <<k, n>>]

\* A request for any other key, GET or PUT, goes to the server.
Miss(k) ==
    /\ LookupMiss(1, k)
    /\ UNCHANGED <<vector_register, written>>

\* The controller's part: it changes the table and no register.
Controller ==
    /\ \/ \E k \in Key : digest_callback(k)
       \/ clear_counters
       \/ \E k \in Key : expiration_callback(1, k) \/ TimeOut(1, k)
    /\ written' = [k \in Key |->
           IF Cached(k) /\ k \in DOMAIN key_to_index' THEN written[k] ELSE None]
    /\ UNCHANGED vector_register

KvsNext ==
    \/ \E k \in Key : Miss(k)
    \/ \E k \in Key, v \in Value \cup {None} : GetHit(k, v)
    \/ \E k \in Key, n \in Version : PutHit(k, n)
    \/ Controller

KvsSpec == KvsInit /\ [][KvsNext]_kvsVars

------------------------------------------------------------------------------
(* Properties                                                               *)

\* The variables of this module have their type.
KvsTypeOK ==
    /\ vector_register \in [Index -> Value \cup {None}]
    /\ written \in [Key -> Value \cup {None}]

\* While a key stays cached, the register of its index keeps the value of the
\* last PUT, whatever is cached, replaced or removed besides it.
LatestWhileCached ==
    \A k \in Key : written[k] # None =>
        Cached(k) /\ vector_register[key_to_index[k]] = written[k]
==============================================================================
