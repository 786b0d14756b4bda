------------------------------ MODULE AgedTable ------------------------------
(***************************************************************************)
(* The table of a network function as the function sees it: a map from     *)
(* keys to the index each one holds and the time of its last use.  In the  *)
(* code it is a map, a vector with the keys and a double chain; that the   *)
(* three together behave like this value, operation by operation, is       *)
(* TableIsAged of FlowTableProofs.  Which free index an allocation gets is *)
(* left open, as in LruAllocator.                                          *)
(*                                                                         *)
(* A table is a function from its keys to records [index, stamp].          *)
(***************************************************************************)
EXTENDS Integers, Functions

\* map_allocate, vector_allocate and dchain_allocate
EmptyTable == <<>>

\* Every table over these keys with indexes below capacity.
Tables(keys, capacity, times) ==
    UNION { [S -> [index : 0 .. capacity - 1, stamp : times]] : S \in SUBSET keys }

InUse(t) == { t[k].index : k \in DOMAIN t }

\* dchain_is_index_allocated
IsAllocated(t, i) == i \in InUse(t)

\* The indexes dchain_allocate_new_index may hand out; none when it refuses.
Free(t, capacity) == (0 .. capacity - 1) \ InUse(t)

\* The whole loop: everything last used before the deadline leaves the chain
\* and the map.
expire_items_single_map(t, time) ==
    Restrict(t, { k \in DOMAIN t : t[k].stamp >= time })

\* dchain_allocate_new_index, the key copied to the vector, and map_put
Enter(t, k, i, time) ==
    [x \in DOMAIN t \cup {k} |->
        IF x = k THEN [index |-> i, stamp |-> time] ELSE t[x]]

\* dchain_rejuvenate_index
Rejuvenate(t, k, time) == [t EXCEPT ![k].stamp = time]

\* map_erase and dchain_free_index
Erase(t, k) == Restrict(t, DOMAIN t \ {k})
==============================================================================
