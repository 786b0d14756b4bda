----------------------------- MODULE TokenBucket -----------------------------
(***************************************************************************)
(* Rate limiting on top of the flow table: a bucket of tokens per index,   *)
(* which refills at Rate tokens a second up to Burst, and is given up with *)
(* its index once it has been idle long enough to be full again.  The code *)
(* exists twice, as lib/state/token-bucket.c (the policer) and inside      *)
(* hhh/hhh_main.c (the heavy hitter detector); the two differ in when they *)
(* allocate and in how they compute the time after which a bucket expires. *)
(* FlowTable's flows are addresses here.                                   *)
(*                                                                         *)
(* granted is not in the code: for each address, a bucket that is never    *)
(* given up and never rounds.  What the code lets through is taken from it.*)
(***************************************************************************)
EXTENDS FlowTable

CONSTANTS
    Rate, Burst,
    NS_TO_S_MULTIPLIER,   \* clock ticks in a second
    Length,               \* packet lengths
    Word                  \* 2^64 in the code: tokens and times are unsigned

RateAssumption ==
    /\ Rate \in Nat \ {0} /\ Burst \in Nat \ {0} /\ NS_TO_S_MULTIPLIER \in Nat \ {0}
    /\ Word \in Nat /\ Burst < Word /\ Length \subseteq 0 .. Word - 1

VARIABLES
    buckets,   \* per index: tokens, and the time they were counted
    granted    \* per address, in tokens * NS_TO_S_MULTIPLIER

bucketVars == <<buckets, granted>>

Full == Burst * NS_TO_S_MULTIPLIER

\* tb_allocate: vector_allocate zeroes the buckets
BucketInit ==
    /\ TableInit
    /\ buckets = [i \in Index |-> [tokens |-> 0, time |-> 0]]
    /\ granted = [f \in Flow |-> Full]

\* The clock is read once for each packet; granted refills with it.
Clock ==
    /\ now' \in now .. MaxTime
    /\ granted' = [f \in Flow |->
           LET level == granted[f] + (now' - now) * Rate
           IN  IF level > Full THEN Full ELSE level]

\* A packet let through costs its address len tokens.
Grant(f, len) == granted' = [granted EXCEPT ![f] = @ - len * NS_TO_S_MULTIPLIER]

\* tb_update_and_check: the tokens in bucket b once it has been refilled
Refilled(b) ==
    LET time_diff == (now - b.time) % Word
        added_tokens == ((time_diff * Rate) % Word) \div NS_TO_S_MULTIPLIER
        tokens == (b.tokens + added_tokens) % Word
    IN  IF /\ time_diff < ((Burst * NS_TO_S_MULTIPLIER) % Word) \div Rate
           /\ tokens <= Burst
        THEN tokens ELSE Burst

\* Fault: a packet is tested against the bucket and not taken from it.
UpdateAndCheckTakesNothing(f, len) ==
    LET i == IndexOf(f)
    IN  /\ Refresh(f)
        /\ buckets' = [buckets EXCEPT ![i] = [tokens |-> Refilled(buckets[i]), time |-> now]]

\* whether a packet of this length finds enough tokens
Pass(f, len) == Refilled(buckets[IndexOf(f)]) > len

\* tb_update_and_check for an address that has a bucket
UpdateAndCheck(f, len) ==
    LET i == IndexOf(f)
        tokens == Refilled(buckets[i])
    IN  /\ Refresh(f)
        /\ buckets' = [buckets EXCEPT ![i] =
               [tokens |-> IF Pass(f, len) THEN tokens - len ELSE tokens, time |-> now]]

\* The bucket of a new index: the packet's tokens are gone from it already,
\* and a packet longer than the burst leaves it with almost 2^64.
FillBucket(len) ==
    buckets' = [buckets EXCEPT ![Fresh] =
                   [tokens |-> (Burst - len) % Word, time |-> now]]

------------------------------------------------------------------------------
(* Properties                                                               *)

\* The rate is enforced: over any time, an address is let through no more than
\* the burst and what the rate adds up to, although its bucket is rounded,
\* forgotten when idle, and created full when the address comes back.
RateEnforced == \A f \in Flow : granted[f] >= 0
==============================================================================
