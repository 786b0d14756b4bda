---------------------------- MODULE KeyValueCache ----------------------------
(***************************************************************************)
(* The key value store function (dpdk-nfs/kvs): a cache in front of a      *)
(* storage server.  A request for a cached key is answered on the spot; a  *)
(* PUT of another key enters the cache if there is room and is answered    *)
(* too; everything else goes to the server, which remembers in the header  *)
(* (client_port) where the reply has to go.  Keys expire when unused.      *)
(*                                                                         *)
(* One action is one call of nf_process.  The network to the server and    *)
(* the server are external: requests are answered in any order.            *)
(***************************************************************************)
EXTENDS AgedTable, FiniteSets

CONSTANTS
    Key, Value,
    Client,                 \* the devices of clients; the server has its own
    capacity, ExpirationTime,
    MaxTime,                \* bound on the clock
    MaxInFlight,            \* bound on requests and replies of the server
    None

CacheAssumption ==
    /\ capacity \in Nat /\ ExpirationTime \in Nat
    /\ MaxTime \in Nat /\ MaxInFlight \in Nat /\ None \notin Value

VARIABLES
    kvs,                    \* kvs, keys and heap
    values,
    now,
    requests, replies,      \* to and from the server
    store,                  \* the server's contents
    answer,                 \* the last reply a client got
    latest                  \* history: the value of the last PUT of each key

vars == <<kvs, values, now, requests, replies, store, answer, latest>>

Index == 0 .. capacity - 1

\* alloc_state; the values are zeroed
Init ==
    /\ kvs = EmptyTable
    /\ values = [i \in Index |-> None]
    /\ now = 0
    /\ requests = {} /\ replies = {}
    /\ store = [k \in Key |-> None]
    /\ answer = [by |-> "none"]
    /\ latest = [k \in Key |-> None]

kvs_expire(t) == expire_items_single_map(kvs, t - ExpirationTime)

\* A hit: the reply goes back to the device the request came from.
AnswerHit(d, op, k, v) ==
    answer' = [by |-> "cache", op |-> op, key |-> k, value |-> v, to |-> d]

\* Malformed packets: only the expiration happens.
Malformed(t) ==
    /\ kvs' = kvs_expire(t)
    /\ now' = t
    /\ UNCHANGED <<values, requests, replies, store, answer, latest>>

\* kvs_cache_lookup with GET
GetHit(t, d, k) ==
    LET cached == kvs_expire(t)
    IN /\ k \in DOMAIN cached
       /\ kvs' = Rejuvenate(cached, k, t)
       /\ now' = t
       /\ AnswerHit(d, "GET", k, values[cached[k].index])
       /\ UNCHANGED <<values, requests, replies, store, latest>>

\* Fault: a PUT of a cached key goes past the cache.
WriteHitAround(i, v) == values

\* The value a PUT leaves in the cell of its key.
WriteHit(i, v) == [values EXCEPT ![i] = v]

WriteNew(i, v) == [values EXCEPT ![i] = v]

\* kvs_cache_lookup with PUT, or kvs_on_cache_miss with a free index
PutCached(t, d, k, v) ==
    LET cached == kvs_expire(t)
    IN /\ \/ /\ k \in DOMAIN cached
             /\ kvs' = Rejuvenate(cached, k, t)
             /\ values' = WriteHit(cached[k].index, v)
          \/ /\ k \notin DOMAIN cached
             /\ \E i \in Free(cached, capacity) :
                   /\ kvs' = Enter(cached, k, i, t)
                   /\ values' = WriteNew(i, v)
       /\ now' = t
       /\ AnswerHit(d, "PUT", k, v)
       /\ latest' = [latest EXCEPT ![k] = v]
       /\ UNCHANGED <<requests, replies, store>>

\* kvs_hdr->client_port = device
ClientPort(d) == d

\* Neither answered nor cached: on to the storage server.
Forward(t, d, op, k, v) ==
    LET cached == kvs_expire(t)
    IN /\ Cardinality(requests \cup replies) < MaxInFlight
       /\ k \notin DOMAIN cached
       /\ op = "PUT" => Free(cached, capacity) = {}
       /\ kvs' = cached
       /\ now' = t
       /\ requests' = requests \cup
             {[from |-> d, hdr |-> [op |-> op, key |-> k, value |-> v, client_port |-> ClientPort(d)]]}
       /\ latest' = IF op = "PUT" THEN [latest EXCEPT ![k] = v] ELSE latest
       /\ UNCHANGED <<values, replies, store, answer>>

\* The storage server (external): it stores or reads, and answers.
Serve(r) ==
    /\ requests' = requests \ {r}
    /\ store' = IF r.hdr.op = "PUT" THEN [store EXCEPT ![r.hdr.key] = r.hdr.value] ELSE store
    /\ replies' = replies \cup {[r EXCEPT !.hdr.value = store'[r.hdr.key]]}
    /\ UNCHANGED <<kvs, values, now, answer, latest>>

\* A packet of the server's device is sent to the header's client_port.
Reply(t, r) ==
    /\ kvs' = kvs_expire(t)
    /\ now' = t
    /\ replies' = replies \ {r}
    /\ answer' = [by |-> "server", op |-> r.hdr.op, key |-> r.hdr.key, value |-> r.hdr.value,
                  to |-> r.hdr.client_port, asked |-> r.from]
    /\ UNCHANGED <<values, requests, store, latest>>

Next ==
    \/ \E t \in now .. MaxTime :
          \/ Malformed(t)
          \/ \E r \in replies : Reply(t, r)
          \/ \E d \in Client, k \in Key :
                \/ GetHit(t, d, k)
                \/ Forward(t, d, "GET", k, None)
                \/ \E v \in Value : PutCached(t, d, k, v) \/ Forward(t, d, "PUT", k, v)
    \/ \E r \in requests : Serve(r)

Spec == Init /\ [][Next]_vars

------------------------------------------------------------------------------
(* Properties                                                               *)

\* What the cache answers is the value of the last PUT of that key by any
\* client, wherever it went: a PUT that was sent to the server because the
\* cache was full is never followed by a hit with an older value, and an index
\* taken over from an expired key never shows that key's value.
HitsLatest ==
    \A k \in DOMAIN kvs : values[kvs[k].index] = latest[k]
==============================================================================
