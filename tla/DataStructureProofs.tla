-------------------------- MODULE DataStructureProofs --------------------------
(***************************************************************************)
(* The two structures of dpdk-nfs/lib/state that every flow table is built *)
(* from, each for all values of its constants.                             *)
(*                                                                         *)
(* The double chain is correct for every index_range: its two lists always *)
(* partition the indexes, the allocated list is in order of use, and the   *)
(* whole implements the least-recently-used allocator.                     *)
(*                                                                         *)
(* The hash map is correct for every capacity, hash function, set of keys  *)
(* and of key cells: its chain counters are exact, and with them a lookup  *)
(* never stops before the key it looks for; so the slots implement a       *)
(* dictionary.                                                             *)
(***************************************************************************)
EXTENDS DoubleChain, HashMap, FiniteSetTheorems, WellFoundedInduction, TLAPS

\* Among natural numbers there is a least one.
LEMMA LeastOfNats ==
    ASSUME NEW S \in SUBSET Nat, S # {}
    PROVE  \E m \in S : \A x \in S : m <= x
<1> DEFINE R == OpToRel(<, Nat)
<1>1. IsWellFoundedOn(R, Nat)
  BY NatLessThanWellFounded
<1>2. \A x, y \in Nat : x < y => <<x, y>> \in R
  BY DEF OpToRel
<1> HIDE DEF R
<1>3. PICK m \in S : \A y \in S : ~(<<y, m>> \in R)
  BY <1>1, WFMin
<1>4. ASSUME NEW y \in S PROVE m <= y
  <2>1. m \in Nat /\ y \in Nat /\ ~(y < m)
    BY <1>2, <1>3
  <2> QED
    BY <2>1
<1> QED
  BY <1>4

\* Going around a ring of n places.
LEMMA RingStep ==
    ASSUME NEW n \in Nat \ {0}, NEW x \in 0 .. n - 1, NEW y \in 0 .. n - 1
    PROVE  (x + y) % n = (IF x + y < n THEN x + y ELSE x + y - n)
<1> DEFINE z == x + y
<1>1. z \in Nat /\ z < 2 * n
  OBVIOUS
<1> HIDE DEF z
<1>2. CASE z < n
  <2>1. z % n = z
    BY <1>1, <1>2
  <2> QED
    BY <1>2, <2>1 DEF z
<1>3. CASE n <= z
  <2>1. z % n = z - n
    BY <1>1, <1>3
  <2> QED
    BY <1>1, <1>3, <2>1 DEF z
<1> QED
  BY <1>1, <1>2, <1>3


Shape == AllocListSound /\ FreeListSound

IInv == TypeOK /\ Shape /\ StampsFollowOrder

Sizes == IndexRange \in Nat \ {0} /\ MaxTime \in Nat

------------------------------------------------------------------------------
(* The list surgery, once and for all, on arbitrary lists threaded through  *)
(* the cells.                                                               *)

\* Unlinking c from a threaded list leaves the rest threaded in the same order
\* (the first half of dchain_impl_free_index and dchain_impl_rejuvenate_index).
LEMMA UnlinkThreads ==
    ASSUME Sizes, NEW h \in Cell, h < INDEX_SHIFT, NEW S \in SUBSET Cell,
           \A x \in S : x >= INDEX_SHIFT,
           NEW nx \in [Cell -> Cell], NEW pv \in [Cell -> Cell], NEW R, NEW T,
           Threads(h, S, nx, R), Mirrors(h, S, nx, pv), StrictOrderOn(T, R),
           \A x \in S : x - INDEX_SHIFT \in T,
           NEW c \in S,
           NEW ny \in [Cell -> Cell],
           \A x \in (S \cup {h}) \ {c} : ny[x] = IF x = pv[c] THEN nx[c] ELSE nx[x]
    PROVE  Threads(h, S \ {c}, ny, Without(R, c - INDEX_SHIFT))
<1> DEFINE B(x, y) == <<x - INDEX_SHIFT, y - INDEX_SHIFT>> \in R
<1> DEFINE W(x, y) == <<x - INDEX_SHIFT, y - INDEX_SHIFT>> \in Without(R, c - INDEX_SHIFT)
<1>0. \A x \in S : x \in Int /\ x - INDEX_SHIFT \in T
  BY DEF Sizes, Cell, INDEX_SHIFT
<1>1. ASSUME NEW x \in S \ {c}, NEW y \in S \ {c} PROVE W(x, y) <=> B(x, y)
  <2>1. x - INDEX_SHIFT # c - INDEX_SHIFT /\ y - INDEX_SHIFT # c - INDEX_SHIFT
    BY <1>0 DEF INDEX_SHIFT
  <2> QED BY <2>1 DEF Without
<1>2. \A x, y, z \in S : B(x, y) /\ B(y, z) => B(x, z)
  BY DEF StrictOrderOn
<1>4. \A x \in S : ~B(x, x)
  BY DEF StrictOrderOn
<1>3. ASSUME NEW x \in S, NEW y \in S, x # y
      PROVE  (B(x, y) \/ B(y, x)) /\ ~(B(x, y) /\ B(y, x))
  <2>1. x - INDEX_SHIFT # y - INDEX_SHIFT
    BY <1>0, <1>3 DEF INDEX_SHIFT
  <2>2. B(x, y) \/ B(y, x)
    BY <2>1, <1>0 DEF StrictOrderOn
  <2> QED BY <2>2, <1>2, <1>4
<1>5. pv[c] \in S \cup {h} /\ nx[pv[c]] = c /\ nx[c] \in S \cup {h} /\ h \notin S
  <2>1. pv[c] \in S \cup {h} /\ nx[pv[c]] = c
    BY DEF Mirrors
  <2>2. nx[c] \in S \cup {h}
    BY DEF Threads
  <2>3. h \notin S
    BY DEF INDEX_SHIFT, Cell, Sizes
  <2> QED BY <2>1, <2>2, <2>3
<1>6. nx[c] # c /\ pv[c] # c
  <2>1. \A x \in S : nx[x] \in S => B(x, nx[x])
    BY <1>5 DEF Threads
  <2>2. nx[c] # c
    BY <1>4, <2>1
  <2> QED BY <1>5, <2>2
<1>7. \A x \in S \cup {h} : nx[x] = c => x = pv[c]
  BY DEF Mirrors
<1>8. S \ {c} = {} => ny[h] = h
  BY <1>5, <1>6, <1>7 DEF Threads
<1>9. ASSUME S \ {c} # {}
      PROVE  /\ ny[h] \in S \ {c}
             /\ \A d \in S \ {c} : d # ny[h] => B(ny[h], d)
  <2>1. CASE pv[c] = h
    <3>1. ny[h] = nx[c] /\ nx[h] = c
      BY <2>1, <1>5
    <3>2. nx[c] # h
      <4>1. \A d \in S : d # c => B(c, d)
        BY <3>1 DEF Threads
      <4>2. nx[c] = h => \A d \in S : d # c => B(d, c)
        BY DEF Threads
      <4>3. PICK d \in S : d # c
        BY <1>9
      <4> QED
        BY <4>1, <4>2, <4>3, <1>3
    <3>3. QED  BY <3>1, <3>2, <1>5, <1>6, <1>2, <1>3, <1>9 DEF Threads
  <2>2. CASE pv[c] # h
    BY <2>2, <1>5, <1>7, <1>9 DEF Threads
  <2> QED BY <2>1, <2>2
<1>10. ASSUME NEW x \in S \ {c}
       PROVE  /\ ny[x] \in (S \ {c}) \cup {h}
              /\ ny[x] = h => \A d \in S \ {c} : d # x => B(d, x)
              /\ ny[x] # h => /\ B(x, ny[x])
                              /\ \A d \in S \ {c} : B(x, d) /\ d # ny[x] => B(ny[x], d)
  <2>1. CASE x = pv[c]
    <3>1. ny[x] = nx[c] /\ nx[x] = c /\ B(x, c)
      BY <2>1, <1>5, <1>10 DEF Threads
    <3>2. ASSUME ny[x] = h, NEW d \in S \ {c}, d # x PROVE B(d, x)
      BY <3>1, <3>2, <1>2, <1>3, <1>5 DEF Threads
    <3>3. ASSUME ny[x] # h PROVE B(x, ny[x])
      BY <3>1, <3>3, <1>2, <1>5 DEF Threads
    <3>4. ASSUME ny[x] # h, NEW d \in S \ {c}, B(x, d), d # ny[x] PROVE B(ny[x], d)
      BY <3>1, <3>4, <1>2, <1>5 DEF Threads
    <3> QED BY <3>1, <3>2, <3>3, <3>4, <1>5, <1>6
  <2>2. CASE x # pv[c]
    BY <2>2, <1>5, <1>7 DEF Threads
  <2> QED BY <2>1, <2>2
<1> QED
  BY <1>1, <1>5, <1>8, <1>9, <1>10 DEF Threads

\* ... and the back links still mirror the forward ones.
LEMMA UnlinkMirrors ==
    ASSUME NEW h \in Cell, NEW S \in SUBSET Cell, h \notin S,
           NEW nx \in [Cell -> Cell], NEW pv \in [Cell -> Cell],
           \A x \in S \cup {h} : nx[x] \in S \cup {h},
           Mirrors(h, S, nx, pv),
           NEW c \in S, nx[c] # c,
           NEW ny \in [Cell -> Cell], NEW py \in [Cell -> Cell],
           \A x \in (S \cup {h}) \ {c} : ny[x] = IF x = pv[c] THEN nx[c] ELSE nx[x],
           \A x \in (S \cup {h}) \ {c} : py[x] = IF x = nx[c] THEN pv[c] ELSE pv[x]
    PROVE  Mirrors(h, S \ {c}, ny, py)
<1> SUFFICES ASSUME NEW x \in (S \ {c}) \cup {h}
             PROVE  /\ py[x] \in (S \ {c}) \cup {h}
                    /\ py[ny[x]] = x
                    /\ ny[py[x]] = x
  BY DEF Mirrors
<1>1. pv[c] \in S \cup {h} /\ nx[pv[c]] = c /\ nx[c] \in S \cup {h} /\ pv[nx[c]] = c
  BY DEF Mirrors
<1>2. pv[x] \in S \cup {h} /\ nx[pv[x]] = x /\ nx[x] \in S \cup {h} /\ pv[nx[x]] = x /\ x # c
  BY DEF Mirrors
<1>3. pv[c] # c /\ nx[c] # c
  BY <1>1
<1>4. py[x] \in (S \ {c}) \cup {h}
  BY <1>1, <1>2, <1>3
<1>5. py[ny[x]] = x
  BY <1>1, <1>2, <1>3
<1>6. ny[py[x]] = x
  BY <1>1, <1>2, <1>3
<1> QED BY <1>4, <1>5, <1>6

\* Linking a new cell c before the head makes it the last of the list (the
\* second half of dchain_impl_allocate_new_index and ..._rejuvenate_index).
LEMMA AppendThreads ==
    ASSUME Sizes, NEW h \in Cell, h < INDEX_SHIFT, NEW S \in SUBSET Cell,
           \A x \in S : x >= INDEX_SHIFT,
           NEW nx \in [Cell -> Cell], NEW pv \in [Cell -> Cell], NEW R, NEW T,
           Threads(h, S, nx, R), Mirrors(h, S, nx, pv), StrictOrderOn(T, R),
           \A x \in S : x - INDEX_SHIFT \in T,
           NEW c \in Cell, c >= INDEX_SHIFT, c - INDEX_SHIFT \notin T,
           NEW ny \in [Cell -> Cell], ny[c] = h,
           \A x \in S \cup {h} : ny[x] = IF x = pv[h] THEN c ELSE nx[x]
    PROVE  Threads(h, S \cup {c}, ny, R \cup {<<j, c - INDEX_SHIFT>> : j \in T})
<1> DEFINE R2 == R \cup {<<j, c - INDEX_SHIFT>> : j \in T}
<1> DEFINE B(x, y) == <<x - INDEX_SHIFT, y - INDEX_SHIFT>> \in R
<1> DEFINE W(x, y) == <<x - INDEX_SHIFT, y - INDEX_SHIFT>> \in R2
<1>0. /\ \A x \in S : x \in Int /\ x - INDEX_SHIFT \in T /\ x # c
      /\ c \in Int /\ h \notin S /\ c # h
  BY DEF Sizes, Cell, INDEX_SHIFT
<1>1. ASSUME NEW x \in S, NEW y \in S PROVE W(x, y) <=> B(x, y)
  <2>1. y - INDEX_SHIFT # c - INDEX_SHIFT
    BY <1>0 DEF INDEX_SHIFT
  <2> QED BY <2>1
<1>2. \A x \in S : W(x, c)
  BY <1>0
<1>3. ASSUME NEW x \in S \cup {c} PROVE ~W(c, x)
  BY <1>0 DEF StrictOrderOn
<1>4. /\ pv[h] \in S \cup {h} /\ nx[pv[h]] = h
      /\ \A x \in S \cup {h} : nx[x] = h => x = pv[h]
  BY DEF Mirrors
<1>5. /\ ny[h] \in S \cup {c}
      /\ \A d \in S \cup {c} : d # ny[h] => W(ny[h], d)
  <2>1. CASE S = {}
    BY <2>1, <1>4, <1>0
  <2>2. CASE S # {}
    <3>1. nx[h] \in S /\ pv[h] # h /\ ny[h] = nx[h]
      BY <2>2, <1>0, <1>4 DEF Threads
    <3>2. ASSUME NEW d \in S, d # ny[h] PROVE W(ny[h], d)
      BY <3>1, <3>2, <1>1, <2>2 DEF Threads
    <3> QED BY <3>1, <3>2, <1>2
  <2> QED BY <2>1, <2>2
<1>6. ASSUME NEW x \in S
      PROVE  /\ ny[x] \in S \cup {c}
             /\ W(x, ny[x])
             /\ \A d \in S \cup {c} : W(x, d) /\ d # ny[x] => W(ny[x], d)
  <2>1. CASE x = pv[h]
    <3>1. ny[x] = c /\ nx[x] = h
      BY <2>1, <1>4, <1>0
    <3>2. ASSUME NEW d \in S PROVE ~W(x, d)
      <4>1. d # x => B(d, x)
        BY <3>1 DEF Threads
      <4>2. ~B(x, d)
        BY <4>1, <1>0 DEF StrictOrderOn
      <4> QED BY <4>2, <1>1
    <3> QED BY <3>1, <3>2, <1>2
  <2>2. CASE x # pv[h]
    <3>1. ny[x] = nx[x] /\ nx[x] \in S /\ nx[x] # h
      BY <2>2, <1>4, <1>0 DEF Threads
    <3>2. B(x, nx[x]) /\ \A d \in S : B(x, d) /\ d # nx[x] => B(nx[x], d)
      BY <3>1 DEF Threads
    <3> QED BY <3>1, <3>2, <1>1, <1>2
  <2> QED BY <2>1, <2>2
<1>7. \A d \in S \cup {c} : d # c => W(d, c)
  BY <1>2
<1> QED
  BY <1>0, <1>5, <1>6, <1>7 DEF Threads

\* Appending a cell at the tail keeps prev the inverse of next.
LEMMA AppendMirrors ==
    ASSUME NEW h \in Cell, NEW S \in SUBSET Cell, h \notin S,
           NEW nx \in [Cell -> Cell], NEW pv \in [Cell -> Cell],
           \A x \in S \cup {h} : nx[x] \in S \cup {h},
           Mirrors(h, S, nx, pv),
           NEW c \in Cell, c \notin S, c # h,
           NEW ny \in [Cell -> Cell], NEW py \in [Cell -> Cell],
           ny[c] = h, py[c] = pv[h], py[h] = c,
           \A x \in S \cup {h} : ny[x] = IF x = pv[h] THEN c ELSE nx[x],
           \A x \in S : py[x] = pv[x]
    PROVE  Mirrors(h, S \cup {c}, ny, py)
<1> SUFFICES ASSUME NEW x \in S \cup {c, h}
             PROVE  /\ py[x] \in S \cup {c, h}
                    /\ py[ny[x]] = x
                    /\ ny[py[x]] = x
  BY DEF Mirrors
<1>1. pv[h] \in S \cup {h} /\ nx[pv[h]] = h
  BY DEF Mirrors
<1>2. x # c => pv[x] \in S \cup {h} /\ nx[pv[x]] = x /\ nx[x] \in S \cup {h} /\ pv[nx[x]] = x
  BY DEF Mirrors
<1>3. CASE x = c
  BY <1>1, <1>3
<1>4. CASE x = h
  BY <1>1, <1>2, <1>4
<1>5. CASE x \in S
  BY <1>1, <1>2, <1>5
<1> QED BY <1>3, <1>4, <1>5

\* Taking the first cell of a threaded list (dchain_impl_allocate_new_index).
LEMMA PopThreads ==
    ASSUME Sizes, NEW h \in Cell, h < INDEX_SHIFT, NEW S \in SUBSET Cell,
           \A x \in S : x >= INDEX_SHIFT,
           NEW nx \in [Cell -> Cell], NEW R, NEW T,
           Threads(h, S, nx, R), StrictOrderOn(T, R),
           \A x \in S : x - INDEX_SHIFT \in T,
           NEW c \in S, c = nx[h],
           NEW ny \in [Cell -> Cell], ny[h] = nx[c],
           \A x \in S \ {c} : ny[x] = nx[x]
    PROVE  Threads(h, S \ {c}, ny, Without(R, c - INDEX_SHIFT))
<1> DEFINE B(x, y) == <<x - INDEX_SHIFT, y - INDEX_SHIFT>> \in R
<1> DEFINE W(x, y) == <<x - INDEX_SHIFT, y - INDEX_SHIFT>> \in Without(R, c - INDEX_SHIFT)
<1>0. /\ \A x \in S : x \in Int /\ x - INDEX_SHIFT \in T
      /\ h \notin S
  BY DEF Sizes, Cell, INDEX_SHIFT
<1>1. ASSUME NEW x \in S \ {c}, NEW y \in S \ {c} PROVE W(x, y) <=> B(x, y)
  <2>1. x - INDEX_SHIFT # c - INDEX_SHIFT /\ y - INDEX_SHIFT # c - INDEX_SHIFT
    BY <1>0 DEF INDEX_SHIFT
  <2> QED BY <2>1 DEF Without
<1>2. \A x, y \in S : ~(B(x, y) /\ B(y, x))
  BY <1>0 DEF StrictOrderOn
<1>3. \A d \in S : d # c => B(c, d)
  BY DEF Threads
<1>4. ASSUME NEW x \in S, nx[x] = c PROVE FALSE
  <2>1. B(x, c)
    BY <1>4, <1>0 DEF Threads
  <2> QED BY <2>1, <1>2, <1>3
<1>5. S \ {c} = {} => ny[h] = h
  BY <1>4 DEF Threads
<1>6. ASSUME S \ {c} # {}
      PROVE  /\ ny[h] \in S \ {c}
             /\ \A d \in S \ {c} : d # ny[h] => B(ny[h], d)
  <2>1. nx[c] # h
    <3>1. nx[c] = h => \A d \in S : d # c => B(d, c)
      BY DEF Threads
    <3>2. PICK d \in S : d # c
      BY <1>6
    <3> QED
      BY <1>2, <1>3, <3>1, <3>2
  <2> QED BY <2>1, <1>3, <1>4 DEF Threads
<1>7. ASSUME NEW x \in S \ {c}
      PROVE  /\ ny[x] \in (S \ {c}) \cup {h}
             /\ ny[x] = h => \A d \in S \ {c} : d # x => B(d, x)
             /\ ny[x] # h => /\ B(x, ny[x])
                             /\ \A d \in S \ {c} : B(x, d) /\ d # ny[x] => B(ny[x], d)
  BY <1>4 DEF Threads
<1> QED
  BY <1>0, <1>1, <1>5, <1>6, <1>7 DEF Threads

\* Pushing a new cell c at the front (dchain_impl_free_index).
LEMMA PushThreads ==
    ASSUME Sizes, NEW h \in Cell, h < INDEX_SHIFT, NEW S \in SUBSET Cell,
           \A x \in S : x >= INDEX_SHIFT,
           NEW nx \in [Cell -> Cell], NEW R, NEW T,
           Threads(h, S, nx, R), StrictOrderOn(T, R),
           \A x \in S : x - INDEX_SHIFT \in T,
           NEW c \in Cell, c >= INDEX_SHIFT, c - INDEX_SHIFT \notin T,
           NEW ny \in [Cell -> Cell], ny[h] = c, ny[c] = nx[h],
           \A x \in S : ny[x] = nx[x]
    PROVE  Threads(h, S \cup {c}, ny, R \cup {<<c - INDEX_SHIFT, j>> : j \in T})
<1> DEFINE R2 == R \cup {<<c - INDEX_SHIFT, j>> : j \in T}
<1> DEFINE B(x, y) == <<x - INDEX_SHIFT, y - INDEX_SHIFT>> \in R
<1> DEFINE W(x, y) == <<x - INDEX_SHIFT, y - INDEX_SHIFT>> \in R2
<1>0. /\ \A x \in S : x \in Int /\ x - INDEX_SHIFT \in T /\ x # c
      /\ c \in Int /\ h \notin S /\ c # h
  BY DEF Sizes, Cell, INDEX_SHIFT
<1>1. ASSUME NEW x \in S, NEW y \in S PROVE W(x, y) <=> B(x, y)
  <2>1. x - INDEX_SHIFT # c - INDEX_SHIFT
    BY <1>0 DEF INDEX_SHIFT
  <2> QED BY <2>1
<1>2. \A x \in S : W(c, x)
  BY <1>0
<1>3. ASSUME NEW x \in S \cup {c} PROVE ~W(x, c)
  BY <1>0 DEF StrictOrderOn
<1>4. ASSUME NEW x \in S
      PROVE  /\ ny[x] \in S \cup {h}
             /\ ny[x] = h => \A d \in S \cup {c} : d # x => W(d, x)
             /\ ny[x] # h => /\ W(x, ny[x])
                             /\ \A d \in S \cup {c} : W(x, d) /\ d # ny[x] => W(ny[x], d)
  BY <1>0, <1>1, <1>2, <1>3 DEF Threads
<1>5. /\ ny[c] \in S \cup {h}
      /\ ny[c] = h => S = {}
      /\ ny[c] # h => \A d \in S : d # ny[c] => W(ny[c], d)
  BY <1>0, <1>1 DEF Threads
<1> QED
  BY <1>0, <1>2, <1>3, <1>4, <1>5 DEF Threads

------------------------------------------------------------------------------
(* The history relations stay strict total orders.                          *)

\* A strict order stays one when an index leaves it,
LEMMA OrderWithout ==
    ASSUME NEW T, NEW R, StrictOrderOn(T, R), NEW i
    PROVE  StrictOrderOn(T \ {i}, Without(R, i))
<1>1. Without(R, i) \subseteq (T \ {i}) \X (T \ {i})
  BY DEF StrictOrderOn, Without
<1>2. ASSUME NEW x \in T \ {i}, NEW y \in T \ {i}
      PROVE  <<x, y>> \in Without(R, i) <=> <<x, y>> \in R
  BY DEF Without
<1> QED
  BY <1>1, <1>2 DEF StrictOrderOn

\* never relates two indexes both ways,
LEMMA OrderAsym ==
    ASSUME NEW T, NEW R, StrictOrderOn(T, R), NEW x \in T, NEW y \in T, <<x, y>> \in R
    PROVE  <<y, x>> \notin R
BY DEF StrictOrderOn

\* and stays one with a new youngest,
LEMMA OrderAppend ==
    ASSUME NEW T, NEW R, StrictOrderOn(T, R), NEW i, i \notin T
    PROVE  StrictOrderOn(T \cup {i}, R \cup {<<j, i>> : j \in T})
<1> DEFINE R2 == R \cup {<<j, i>> : j \in T}
<1>1. R2 \subseteq (T \cup {i}) \X (T \cup {i})
  BY DEF StrictOrderOn
<1>2. ASSUME NEW x \in T \cup {i}, NEW y \in T \cup {i}
      PROVE  <<x, y>> \in R2 <=> (x \in T /\ (y = i \/ <<x, y>> \in R))
  BY DEF StrictOrderOn
<1>3. \A x \in T : <<x, i>> \notin R
  BY DEF StrictOrderOn
<1> QED
  BY <1>1, <1>2, <1>3 DEF StrictOrderOn

\* or a new first index.
LEMMA OrderPush ==
    ASSUME NEW T, NEW R, StrictOrderOn(T, R), NEW i, i \notin T
    PROVE  StrictOrderOn(T \cup {i}, R \cup {<<i, j>> : j \in T})
<1> DEFINE R2 == R \cup {<<i, j>> : j \in T}
<1>1. R2 \subseteq (T \cup {i}) \X (T \cup {i})
  BY DEF StrictOrderOn
<1>2. ASSUME NEW x \in T \cup {i}, NEW y \in T \cup {i}
      PROVE  <<x, y>> \in R2 <=> (y \in T /\ (x = i \/ <<x, y>> \in R))
  BY DEF StrictOrderOn
<1>3. \A x \in T : <<i, x>> \notin R
  BY DEF StrictOrderOn
<1> QED
  BY <1>1, <1>2, <1>3 DEF StrictOrderOn

------------------------------------------------------------------------------
(* Consequences of the invariant used in every step.                        *)

\* The two list heads, the allocated cells and the free cells are kept apart.
LEMMA CellFacts ==
    ASSUME Sizes, TypeOK
    PROVE  /\ 0 \in Cell /\ 1 \in Cell /\ AllocCells \in SUBSET Cell /\ FreeCells \in SUBSET Cell
           /\ \A x \in AllocCells : x \in Int /\ x >= INDEX_SHIFT /\ x - INDEX_SHIFT \in used
           /\ \A x \in FreeCells : x \in Int /\ x >= INDEX_SHIFT /\ x - INDEX_SHIFT \in Index \ used
           /\ \A i \in Index : /\ i + INDEX_SHIFT \in Cell
                               /\ (i + INDEX_SHIFT) - INDEX_SHIFT = i
                               /\ i + INDEX_SHIFT >= INDEX_SHIFT
                               /\ i \in used <=> i + INDEX_SHIFT \in AllocCells
                               /\ i \notin used <=> i + INDEX_SHIFT \in FreeCells
           /\ 0 \notin AllocCells \cup FreeCells /\ 1 \notin AllocCells \cup FreeCells
           /\ AllocCells \cap FreeCells = {}
<1>a. 0 \in Cell /\ 1 \in Cell
  BY DEF Sizes, Cell, INDEX_SHIFT
<1>b. AllocCells \subseteq Cell /\ FreeCells \subseteq Cell
  BY DEF AllocCells, FreeCells
<1>1. 0 \in Cell /\ 1 \in Cell /\ AllocCells \in SUBSET Cell /\ FreeCells \in SUBSET Cell
  BY <1>a, <1>b
<1>2. \A x \in AllocCells : x \in Int /\ x >= INDEX_SHIFT /\ x - INDEX_SHIFT \in used
  BY DEF Sizes, TypeOK, AllocCells, Cell, Index, INDEX_SHIFT
<1>3. \A x \in FreeCells : x \in Int /\ x >= INDEX_SHIFT /\ x - INDEX_SHIFT \in Index \ used
  BY DEF Sizes, TypeOK, FreeCells, Cell, Index, INDEX_SHIFT
<1>4. ASSUME NEW i \in Index
      PROVE  /\ i + INDEX_SHIFT \in Cell
             /\ (i + INDEX_SHIFT) - INDEX_SHIFT = i
             /\ i + INDEX_SHIFT >= INDEX_SHIFT
             /\ i \in used <=> i + INDEX_SHIFT \in AllocCells
             /\ i \notin used <=> i + INDEX_SHIFT \in FreeCells
  <2>1. i \in Int /\ i >= 0 /\ i + 2 \in Cell /\ (i + 2) - 2 = i
    BY DEF Sizes, Cell, Index, INDEX_SHIFT
  <2> QED BY <2>1 DEF AllocCells, FreeCells, INDEX_SHIFT
<1>5. 0 \notin AllocCells \cup FreeCells /\ 1 \notin AllocCells \cup FreeCells
  BY <1>2, <1>3 DEF INDEX_SHIFT
<1>6. AllocCells \cap FreeCells = {}
  BY <1>2, <1>3
<1> QED BY <1>1, <1>2, <1>3, <1>4, <1>5, <1>6

\* The test on prev = next tells free cells from allocated ones: an allocated
\* cell whose two links agree and are not the head would come before and after
\* the same neighbour.
LEMMA AllocatedTest == Sizes /\ TypeOK /\ Shape => AllocatedExact
<1> SUFFICES ASSUME Sizes, TypeOK, Shape, NEW i \in Index
             PROVE  IsAllocated(i) <=> i \in used
  BY DEF AllocatedExact
<1> DEFINE c == i + INDEX_SHIFT
<1>1. CASE i \in used
  <2>1. c \in AllocCells /\ c \in Int /\ 0 \notin AllocCells
    BY <1>1, CellFacts
  <2>2. ASSUME next[c] = prev[c], next[c] # 0 PROVE FALSE
    <3> DEFINE d == next[c]
    <3>1. d \in AllocCells /\ <<c - INDEX_SHIFT, d - INDEX_SHIFT>> \in older
      BY <2>1, <2>2 DEF Shape, AllocListSound, Threads, ALLOC_LIST_HEAD
    <3>2. next[d] = c
      BY <2>1, <2>2 DEF Shape, AllocListSound, Mirrors, ALLOC_LIST_HEAD
    <3>3. <<d - INDEX_SHIFT, c - INDEX_SHIFT>> \in older
      BY <3>1, <3>2, <2>1 DEF Shape, AllocListSound, Threads, ALLOC_LIST_HEAD
    <3>4. c - INDEX_SHIFT \in used /\ d - INDEX_SHIFT \in used
      BY <2>1, <3>1, CellFacts
    <3>5. StrictOrderOn(used, older)
      BY DEF Shape, AllocListSound
    <3> HIDE DEF c, d
    <3> QED BY <3>1, <3>3, <3>4, <3>5, OrderAsym
  <2> QED BY <1>1, <2>2 DEF IsAllocated, ALLOC_LIST_HEAD
<1>2. CASE i \notin used
  <2>1. c \in FreeCells /\ 0 \notin FreeCells
    BY <1>2, CellFacts
  <2>2. prev[c] = next[c] /\ next[c] \in FreeCells \cup {1}
    BY <2>1 DEF Shape, FreeListSound, Threads, FREE_LIST_HEAD
  <2> QED BY <1>2, <2>1, <2>2 DEF IsAllocated, ALLOC_LIST_HEAD
<1> QED BY <1>1, <1>2

\* dchain_impl_init links every index into the free list.
LEMMA InitInv == Sizes /\ Init => IInv
<1> SUFFICES ASSUME Sizes, Init PROVE IInv
  OBVIOUS
<1>0. Cell = 0 .. IndexRange + 1 /\ Index = 0 .. IndexRange - 1 /\ IndexRange \in Nat \ {0}
  BY DEF Sizes, Cell, Index, INDEX_SHIFT
<1>1. \A c \in Cell : InitLink(c) \in Cell
  BY <1>0 DEF InitLink, ALLOC_LIST_HEAD, FREE_LIST_HEAD, INDEX_SHIFT
<1>2. TypeOK
  <2>1. next \in [Cell -> Cell] /\ prev \in [Cell -> Cell]
    BY <1>1 DEF Init
  <2>2. now \in Time
    BY DEF Init, Time, Sizes
  <2>3. ret \in Answer
    BY DEF Init, Answer
  <2> QED BY <2>1, <2>2, <2>3 DEF Init, TypeOK
<1>3. AllocCells = {}
  BY DEF Init, AllocCells
<1>4. AllocListSound
  <2>1. next[0] = 0 /\ prev[0] = 0
    BY <1>0 DEF Init, InitLink, ALLOC_LIST_HEAD
  <2>2. StrictOrderOn(used, older)
    BY DEF Init, StrictOrderOn
  <2>3. Threads(ALLOC_LIST_HEAD, AllocCells, next, older)
    BY <1>3, <2>1 DEF Threads, ALLOC_LIST_HEAD
  <2>4. Mirrors(ALLOC_LIST_HEAD, AllocCells, next, prev)
    BY <1>3, <2>1 DEF Mirrors, ALLOC_LIST_HEAD
  <2> QED BY <2>2, <2>3, <2>4 DEF AllocListSound
<1>5. FreeCells = 2 .. IndexRange + 1
  BY <1>0 DEF Init, FreeCells, INDEX_SHIFT
<1>6. FreeListSound
  <2>1. StrictOrderOn(Index \ used, sooner)
    <3>1. \A i, j \in Index : <<i, j>> \in sooner <=> i < j
      BY DEF Init
    <3>2. Index \ used = Index /\ sooner \subseteq Index \X Index
      BY DEF Init
    <3>3. \A i \in Index : i \in Int
      BY <1>0
    <3>4. \A i \in Index : <<i, i>> \notin sooner
      BY <3>1, <3>3
    <3>5. ASSUME NEW i \in Index, NEW j \in Index, NEW k \in Index, <<i, j>> \in sooner, <<j, k>> \in sooner
          PROVE  <<i, k>> \in sooner
      <4>1. i < j /\ j < k /\ i \in Int /\ j \in Int /\ k \in Int
        BY <3>1, <3>3, <3>5
      <4> QED BY <4>1, <3>1
    <3>6. ASSUME NEW i \in Index, NEW j \in Index, i # j
          PROVE  <<i, j>> \in sooner \/ <<j, i>> \in sooner
      <4>1. (i < j \/ j < i) /\ i \in Int /\ j \in Int
        BY <3>3, <3>6
      <4> QED BY <4>1, <3>1
    <3> QED BY <3>2, <3>4, <3>5, <3>6 DEF StrictOrderOn
  <2>2. \A c, d \in FreeCells : <<c - INDEX_SHIFT, d - INDEX_SHIFT>> \in sooner <=> c < d
    <3> SUFFICES ASSUME NEW c \in FreeCells, NEW d \in FreeCells
                 PROVE  <<c - INDEX_SHIFT, d - INDEX_SHIFT>> \in sooner <=> c < d
      OBVIOUS
    <3>1. c \in Int /\ d \in Int /\ c - 2 \in Index /\ d - 2 \in Index
      BY <1>0, <1>5
    <3> QED BY <3>1 DEF Init, INDEX_SHIFT
  <2>3. /\ next[1] = 2 /\ \A c \in FreeCells : next[c] = IF c < IndexRange + 1 THEN c + 1 ELSE 1
        /\ prev = next
    <3>1. prev = next /\ \A c \in Cell : next[c] = InitLink(c)
      BY DEF Init
    <3>2. 1 \in Cell /\ InitLink(1) = 2
      BY <1>0 DEF InitLink, ALLOC_LIST_HEAD, FREE_LIST_HEAD, INDEX_SHIFT
    <3>3. ASSUME NEW c \in FreeCells
          PROVE  c \in Cell /\ InitLink(c) = IF c < IndexRange + 1 THEN c + 1 ELSE 1
      <4>1. c \in Cell /\ c \in Int /\ c >= 2 /\ IndexRange + 2 - 1 = IndexRange + 1
        BY <1>0, <1>5
      <4> QED BY <4>1 DEF InitLink, ALLOC_LIST_HEAD, FREE_LIST_HEAD, INDEX_SHIFT
    <3> QED BY <3>1, <3>2, <3>3
  <2>4. Threads(FREE_LIST_HEAD, FreeCells, next, sooner)
    <3>1. /\ next[1] \in FreeCells
          /\ \A d \in FreeCells : d # next[1] => <<next[1] - INDEX_SHIFT, d - INDEX_SHIFT>> \in sooner
      BY <1>0, <1>5, <2>2, <2>3
    <3>2. ASSUME NEW c \in FreeCells
          PROVE  /\ next[c] \in FreeCells \cup {1}
                 /\ next[c] = 1 => \A d \in FreeCells : d # c =>
                        <<d - INDEX_SHIFT, c - INDEX_SHIFT>> \in sooner
                 /\ next[c] # 1 =>
                      /\ <<c - INDEX_SHIFT, next[c] - INDEX_SHIFT>> \in sooner
                      /\ \A d \in FreeCells :
                          <<c - INDEX_SHIFT, d - INDEX_SHIFT>> \in sooner /\ d # next[c] =>
                              <<next[c] - INDEX_SHIFT, d - INDEX_SHIFT>> \in sooner
      BY <1>0, <1>5, <2>2, <2>3
    <3> QED BY <3>1, <3>2 DEF Threads, FREE_LIST_HEAD
  <2> QED BY <2>1, <2>3, <2>4 DEF FreeListSound
<1>7. StampsFollowOrder
  BY DEF Init, StampsFollowOrder
<1> QED BY <1>2, <1>4, <1>6, <1>7 DEF IInv, Shape

------------------------------------------------------------------------------
(* One lemma per way the cells change.                                      *)

\* dchain_allocate_new_index preserves the invariant.
LEMMA AllocateInv == Sizes /\ IInv /\ Allocate => IInv'
<1> SUFFICES ASSUME Sizes, IInv, Allocate PROVE IInv'
  OBVIOUS
<1> DEFINE c == next[1]
           i == c - INDEX_SHIFT
           p == prev[0]
<1>0. TypeOK /\ AllocListSound /\ FreeListSound /\ StampsFollowOrder
  BY DEF IInv, Shape
<1>1. c \in FreeCells
  BY <1>0 DEF Allocate, FreeListSound, Threads, FREE_LIST_HEAD
<1>2. /\ c \in Cell /\ c \in Int /\ c >= INDEX_SHIFT /\ c # 0 /\ c # 1 /\ c \notin AllocCells
      /\ i \in Index /\ i \notin used
  BY <1>0, <1>1, CellFacts
<1>3. p \in AllocCells \cup {0} /\ p # 1 /\ p # c /\ p \in Cell
  <2>1. p \in AllocCells \cup {0}
    BY <1>0 DEF AllocListSound, Mirrors, ALLOC_LIST_HEAD
  <2> QED BY <2>1, <1>0, <1>1, CellFacts
<1>4. /\ next' \in [Cell -> Cell] /\ prev' \in [Cell -> Cell]
      /\ next'[1] = next[c] /\ next'[c] = 0 /\ next'[p] = c
      /\ \A x \in Cell \ {1, c, p} : next'[x] = next[x]
      /\ prev'[1] = next[c] /\ prev'[c] = p /\ prev'[0] = c
      /\ \A x \in Cell \ {1, c, 0} : prev'[x] = prev[x]
  <2>1. 0 \in Cell /\ 1 \in Cell /\ next \in [Cell -> Cell] /\ prev \in [Cell -> Cell]
    BY <1>0, CellFacts DEF TypeOK
  <2>2. /\ next' = [[[next EXCEPT ![1] = next[c]] EXCEPT ![c] = 0] EXCEPT ![p] = c]
        /\ prev' = [[[prev EXCEPT ![1] = next[c]] EXCEPT ![c] = p] EXCEPT ![0] = c]
    BY DEF Allocate, PopFree, FREE_LIST_HEAD, ALLOC_LIST_HEAD
  <2> HIDE DEF c, p
  <2> QED BY <1>2, <1>3, <2>1, <2>2
<1>5. /\ used' = used \cup {i} /\ older' = older \cup {<<j, i>> : j \in used}
      /\ sooner' = Without(sooner, i) /\ now' = now /\ timestamps' = [timestamps EXCEPT ![i] = now]
      /\ ret' = [op |-> "allocate", ok |-> TRUE, index |-> i]
  <2>1. used \ {i} = used
    BY <1>2
  <2> QED BY <2>1 DEF Allocate, FREE_LIST_HEAD
<1>6. AllocCells' = AllocCells \cup {c} /\ FreeCells' = FreeCells \ {c}
  <2>1. ASSUME NEW x \in Cell PROVE x - INDEX_SHIFT = i <=> x = c
    BY <1>2 DEF Cell, INDEX_SHIFT, Sizes
  <2> HIDE DEF c
  <2> QED BY <1>2, <1>5, <2>1 DEF AllocCells, FreeCells
<1>7. TypeOK'
  <2>1. timestamps' \in [Index -> Time] /\ now' \in Time
    BY <1>0, <1>2, <1>5 DEF TypeOK
  <2>2. used' \subseteq Index /\ sooner' \subseteq Index \X Index
    BY <1>0, <1>2, <1>5 DEF TypeOK, Without
  <2>3. older' \subseteq Index \X Index
    BY <1>0, <1>2, <1>5 DEF TypeOK
  <2>4. ret' \in Answer
    BY <1>2, <1>5 DEF Answer
  <2> QED BY <1>4, <2>1, <2>2, <2>3, <2>4 DEF TypeOK
<1>8. AllocListSound'
  <2>1. StrictOrderOn(used', older')
    BY <1>0, <1>2, <1>5, OrderAppend DEF AllocListSound
  <2>2. Threads(0, AllocCells \cup {c}, next', older \cup {<<j, i>> : j \in used})
    <3>1. Threads(0, AllocCells, next, older) /\ Mirrors(0, AllocCells, next, prev) /\ StrictOrderOn(used, older)
      BY <1>0 DEF AllocListSound, ALLOC_LIST_HEAD
    <3>2. \A x \in AllocCells \cup {0} : next'[x] = IF x = prev[0] THEN c ELSE next[x]
      BY <1>0, <1>1, <1>4, CellFacts
    <3>3. 0 < INDEX_SHIFT
      BY DEF INDEX_SHIFT
    <3> HIDE DEF c
    <3> QED BY <1>0, <1>2, <1>4, <3>1, <3>2, <3>3, CellFacts, AppendThreads DEF TypeOK
  <2>3. Mirrors(0, AllocCells \cup {c}, next', prev')
    <3>1. Mirrors(0, AllocCells, next, prev) /\ \A x \in AllocCells \cup {0} : next[x] \in AllocCells \cup {0}
      BY <1>0 DEF AllocListSound, ALLOC_LIST_HEAD, Threads
    <3>2. \A x \in AllocCells \cup {0} : next'[x] = IF x = prev[0] THEN c ELSE next[x]
      BY <1>0, <1>1, <1>4, CellFacts
    <3>3. \A x \in AllocCells : prev'[x] = prev[x]
      BY <1>0, <1>1, <1>4, CellFacts
    <3> HIDE DEF c
    <3> QED BY <1>0, <1>2, <1>4, <3>1, <3>2, <3>3, CellFacts, AppendMirrors DEF TypeOK
  <2> QED BY <1>5, <1>6, <2>1, <2>2, <2>3 DEF AllocListSound, ALLOC_LIST_HEAD
<1>9. FreeListSound'
  <2>1. StrictOrderOn(Index \ used', sooner')
    <3>1. Index \ used' = (Index \ used) \ {i}
      BY <1>5
    <3> QED BY <1>0, <1>5, <3>1, OrderWithout DEF FreeListSound
  <2>2. Threads(1, FreeCells \ {c}, next', Without(sooner, i))
    <3>1. Threads(1, FreeCells, next, sooner) /\ StrictOrderOn(Index \ used, sooner)
      BY <1>0 DEF FreeListSound, FREE_LIST_HEAD
    <3>2. \A x \in FreeCells \ {c} : next'[x] = next[x]
      BY <1>0, <1>3, <1>4, CellFacts
    <3>3. 1 < INDEX_SHIFT /\ c = next[1]
      BY DEF INDEX_SHIFT
    <3>4. /\ 1 \in Cell /\ FreeCells \in SUBSET Cell /\ next \in [Cell -> Cell]
          /\ \A x \in FreeCells : x >= INDEX_SHIFT
          /\ \A x \in FreeCells : x - INDEX_SHIFT \in Index \ used
      BY <1>0, CellFacts DEF TypeOK
    <3> HIDE DEF c
    <3> QED BY <1>1, <1>4, <3>1, <3>2, <3>3, <3>4, PopThreads
  <2>3. \A x \in (FreeCells \ {c}) \cup {1} : prev'[x] = next'[x]
    BY <1>0, <1>3, <1>4, CellFacts DEF FreeListSound, FREE_LIST_HEAD
  <2> QED BY <1>5, <1>6, <2>1, <2>2, <2>3 DEF FreeListSound, FREE_LIST_HEAD
<1>10. StampsFollowOrder'
  <2>1. \A j \in Index : timestamps[j] \in Int /\ now \in Int
    BY <1>0 DEF TypeOK, Time
  <2>2. timestamps'[i] = now /\ \A j \in used : timestamps'[j] = timestamps[j]
    BY <1>0, <1>2, <1>5 DEF TypeOK
  <2>3. ASSUME NEW q \in older' PROVE timestamps'[q[1]] <= timestamps'[q[2]]
    <3>1. CASE q \in older
      <4>1. q[1] \in used /\ q[2] \in used
        BY <1>0, <3>1 DEF AllocListSound, StrictOrderOn
      <4> QED BY <3>1, <4>1, <2>2, <1>0 DEF StampsFollowOrder
    <3>2. CASE q \in {<<j, i>> : j \in used}
      BY <3>2, <2>1, <2>2, <1>0 DEF StampsFollowOrder
    <3> QED BY <3>1, <3>2, <1>5
  <2>4. \A j \in used' : timestamps'[j] <= now'
    BY <1>0, <1>5, <2>1, <2>2 DEF StampsFollowOrder, TypeOK, Time
  <2> QED BY <2>3, <2>4 DEF StampsFollowOrder
<1> QED BY <1>7, <1>8, <1>9, <1>10 DEF IInv, Shape

\* An allocated cell's neighbours are other allocated cells or the head.
LEMMA Neighbours ==
    ASSUME Sizes, TypeOK, AllocListSound, NEW c \in AllocCells
    PROVE  /\ next[c] \in AllocCells \cup {0} /\ prev[c] \in AllocCells \cup {0}
           /\ next[c] # c /\ prev[c] # c
           /\ \A x \in AllocCells \cup {0} : next[x] \in AllocCells \cup {0}
<1>0. 0 \notin AllocCells /\ \A x \in AllocCells : x - INDEX_SHIFT \in used
  BY CellFacts
<1>1. \A x \in AllocCells \cup {0} : next[x] \in AllocCells \cup {0}
  BY DEF AllocListSound, Threads, ALLOC_LIST_HEAD
<1>2. prev[c] \in AllocCells \cup {0} /\ next[prev[c]] = c
  BY DEF AllocListSound, Mirrors, ALLOC_LIST_HEAD
<1>3. next[c] # c
  <2>1. next[c] = c => <<c - INDEX_SHIFT, c - INDEX_SHIFT>> \in older
    BY <1>0 DEF AllocListSound, Threads, ALLOC_LIST_HEAD
  <2>2. <<c - INDEX_SHIFT, c - INDEX_SHIFT>> \notin older
    BY <1>0 DEF AllocListSound, StrictOrderOn
  <2> QED BY <2>1, <2>2
<1> QED BY <1>1, <1>2, <1>3

\* Restricting a relation only loses pairs.
LEMMA StampsWithout ==
    ASSUME NEW R, NEW i, NEW f, \A q \in R : f[q[1]] <= f[q[2]]
    PROVE  \A q \in Without(R, i) : f[q[1]] <= f[q[2]]
BY DEF Without

\* So does dchain_impl_free_index, from wherever it is called ...
LEMMA ReleaseInv ==
    ASSUME Sizes, IInv, NEW i \in used, Release(i), timestamps' = timestamps, now' = now,
           ret' \in Answer
    PROVE  IInv'
<1> DEFINE c == i + INDEX_SHIFT
           p == prev[c]
           n == next[c]
           f == next[1]
<1>0. TypeOK /\ AllocListSound /\ FreeListSound /\ StampsFollowOrder /\ i \in Index
  BY DEF IInv, Shape, TypeOK
<1>1. /\ c \in AllocCells /\ c \in Cell /\ c \in Int /\ c >= INDEX_SHIFT /\ c # 0 /\ c # 1 /\ c \notin FreeCells
      /\ c - INDEX_SHIFT = i
  BY <1>0, CellFacts
<1>2. /\ n \in AllocCells \cup {0} /\ p \in AllocCells \cup {0} /\ n # c /\ p # c
      /\ \A x \in AllocCells \cup {0} : next[x] \in AllocCells \cup {0}
  BY <1>0, <1>1, Neighbours
<1>3. n # 1 /\ p # 1 /\ n \in Cell /\ p \in Cell /\ f \in Cell
  BY <1>0, <1>2, CellFacts DEF TypeOK
<1>4. /\ next' \in [Cell -> Cell] /\ prev' \in [Cell -> Cell]
      /\ next'[p] = n /\ next'[c] = f /\ next'[1] = c
      /\ \A x \in Cell \ {1, c, p} : next'[x] = next[x]
      /\ prev'[n] = p /\ prev'[c] = f /\ prev'[1] = c
      /\ \A x \in Cell \ {1, c, n} : prev'[x] = prev[x]
  <2>1. 0 \in Cell /\ 1 \in Cell /\ next \in [Cell -> Cell] /\ prev \in [Cell -> Cell]
    BY <1>0, CellFacts DEF TypeOK
  <2>2. /\ next' = [[next EXCEPT ![p] = n] EXCEPT ![c] = [next EXCEPT ![p] = n][1], ![1] = c]
        /\ prev' = [[prev EXCEPT ![n] = p] EXCEPT ![c] = [next EXCEPT ![p] = n][1], ![1] = c]
    BY DEF Release, PushFree, FREE_LIST_HEAD, ALLOC_LIST_HEAD
  <2>3. [next EXCEPT ![p] = n][1] = f
    BY <2>1, <1>3
  <2> HIDE DEF c, p, n, f
  <2> QED BY <1>1, <1>2, <1>3, <2>1, <2>2, <2>3
<1>5. /\ used' = used \ {i} /\ older' = Without(older, i)
      /\ sooner' = sooner \cup {<<i, j>> : j \in Index \ used}
  <2>1. used \cup {i} = used
    OBVIOUS
  <2> QED BY <2>1 DEF Release
<1>6. AllocCells' = AllocCells \ {c} /\ FreeCells' = FreeCells \cup {c}
  <2>1. ASSUME NEW x \in Cell PROVE x - INDEX_SHIFT = i <=> x = c
    BY <1>1 DEF Cell, INDEX_SHIFT, Sizes
  <2> HIDE DEF c
  <2> QED BY <1>0, <1>1, <1>5, <2>1 DEF AllocCells, FreeCells
<1>7. TypeOK'
  <2>1. used' \subseteq Index /\ older' \subseteq Index \X Index
    BY <1>0, <1>5 DEF TypeOK, Without
  <2>2. sooner' \subseteq Index \X Index
    BY <1>0, <1>5 DEF TypeOK
  <2> QED BY <1>0, <1>4, <2>1, <2>2 DEF TypeOK
<1>8. AllocListSound'
  <2>0. /\ Threads(0, AllocCells, next, older) /\ Mirrors(0, AllocCells, next, prev)
        /\ StrictOrderOn(used, older)
    BY <1>0 DEF AllocListSound, ALLOC_LIST_HEAD
  <2>1. StrictOrderOn(used', older')
    BY <2>0, <1>5, OrderWithout
  <2>2. \A x \in (AllocCells \cup {0}) \ {c} : next'[x] = IF x = prev[c] THEN next[c] ELSE next[x]
    BY <1>0, <1>4, CellFacts
  <2>3. \A x \in (AllocCells \cup {0}) \ {c} : prev'[x] = IF x = next[c] THEN prev[c] ELSE prev[x]
    BY <1>0, <1>4, CellFacts
  <2>4. /\ 0 \in Cell /\ 0 < INDEX_SHIFT /\ AllocCells \in SUBSET Cell /\ 0 \notin AllocCells
        /\ next \in [Cell -> Cell] /\ prev \in [Cell -> Cell]
        /\ \A x \in AllocCells : x >= INDEX_SHIFT
        /\ \A x \in AllocCells : x - INDEX_SHIFT \in used
    BY <1>0, CellFacts DEF TypeOK, INDEX_SHIFT
  <2> HIDE DEF c
  <2>5. Threads(0, AllocCells \ {c}, next', Without(older, c - INDEX_SHIFT))
    BY <1>1, <1>4, <2>0, <2>2, <2>4, UnlinkThreads
  <2>6. Mirrors(0, AllocCells \ {c}, next', prev')
    BY <1>1, <1>2, <1>4, <2>0, <2>2, <2>3, <2>4, UnlinkMirrors
  <2> QED BY <1>1, <1>5, <1>6, <2>1, <2>5, <2>6 DEF AllocListSound, ALLOC_LIST_HEAD
<1>9. FreeListSound'
  <2>0. Threads(1, FreeCells, next, sooner) /\ StrictOrderOn(Index \ used, sooner)
    BY <1>0 DEF FreeListSound, FREE_LIST_HEAD
  <2>1. StrictOrderOn(Index \ used', sooner')
    <3>1. Index \ used' = (Index \ used) \cup {i} /\ i \notin Index \ used
      BY <1>0, <1>5
    <3> QED BY <2>0, <1>5, <3>1, OrderPush
  <2>2. \A x \in FreeCells : next'[x] = next[x]
    BY <1>0, <1>1, <1>2, <1>4, CellFacts
  <2>3. /\ 1 \in Cell /\ 1 < INDEX_SHIFT /\ FreeCells \in SUBSET Cell /\ next \in [Cell -> Cell]
        /\ \A x \in FreeCells : x >= INDEX_SHIFT
        /\ \A x \in FreeCells : x - INDEX_SHIFT \in Index \ used
    BY <1>0, CellFacts DEF TypeOK, INDEX_SHIFT
  <2>4. \A x \in FreeCells \cup {c, 1} : prev'[x] = next'[x]
    BY <1>0, <1>1, <1>2, <1>4, CellFacts DEF FreeListSound, FREE_LIST_HEAD
  <2>5. c - INDEX_SHIFT \notin Index \ used /\ f = next[1]
    BY <1>1
  <2> HIDE DEF c, f
  <2>6. Threads(1, FreeCells \cup {c}, next', sooner \cup {<<c - INDEX_SHIFT, j>> : j \in Index \ used})
    BY <1>1, <1>4, <2>0, <2>2, <2>3, <2>5, PushThreads
  <2> QED BY <1>1, <1>5, <1>6, <2>1, <2>4, <2>6 DEF FreeListSound, FREE_LIST_HEAD
<1>10. StampsFollowOrder'
  BY <1>0, <1>5, StampsWithout DEF StampsFollowOrder
<1> QED BY <1>7, <1>8, <1>9, <1>10 DEF IInv, Shape

\* The allocated list has one cell when the links of c both name the head.
LEMMA LoneCell ==
    ASSUME Sizes, TypeOK, AllocListSound, NEW i \in used,
           next[i + INDEX_SHIFT] = 0, prev[i + INDEX_SHIFT] = 0
    PROVE  used = {i} /\ older = {}
<1> DEFINE c == i + INDEX_SHIFT
<1>1. c \in AllocCells /\ c - INDEX_SHIFT = i /\ i \in Index
  BY CellFacts DEF TypeOK
<1>2. next[0] = c
  BY <1>1 DEF AllocListSound, Mirrors, ALLOC_LIST_HEAD
<1>3. ASSUME NEW j \in used, j # i PROVE FALSE
  <2> DEFINE d == j + INDEX_SHIFT
  <2>1. d \in AllocCells /\ d - INDEX_SHIFT = j /\ d # c /\ j \in Index
    BY <1>1, <1>3, CellFacts DEF TypeOK
  <2> HIDE DEF c, d
  <2>2. <<j, i>> \in older
    BY <1>1, <2>1 DEF AllocListSound, Threads, ALLOC_LIST_HEAD, c
  <2>3. <<i, j>> \in older
    BY <1>1, <1>2, <2>1 DEF AllocListSound, Threads, ALLOC_LIST_HEAD
  <2> QED BY <2>2, <2>3, OrderAsym DEF AllocListSound
<1>4. used = {i}
  BY <1>3
<1>5. older = {}
  BY <1>4 DEF AllocListSound, StrictOrderOn
<1> QED BY <1>4, <1>5

\* ... and dchain_rejuvenate_index, on its three paths.
LEMMA RejuvenateInv ==
    ASSUME Sizes, IInv, NEW i \in Index, Rejuvenate(i)
    PROVE  IInv'
<1> DEFINE c == i + INDEX_SHIFT
           p == prev[c]
           n == next[c]
<1>0. TypeOK /\ AllocListSound /\ FreeListSound /\ StampsFollowOrder /\ AllocatedExact
  BY AllocatedTest DEF IInv, Shape
<1>1. ret' \in Answer
  <2>1. IsAllocated(i) \in BOOLEAN
    BY DEF IsAllocated
  <2> QED BY <2>1 DEF Rejuvenate, Touch, Answer
<1>2. CASE i \notin used
  <2>1. ~IsAllocated(i) /\ n = p
    BY <1>0, <1>2 DEF AllocatedExact, IsAllocated
  <2>2. /\ next' = next /\ prev' = prev /\ timestamps' = timestamps /\ older' = older
        /\ now' = now /\ used' = used /\ sooner' = sooner
    BY <2>1 DEF Rejuvenate, Touch, cells
  <2>3. AllocCells' = AllocCells /\ FreeCells' = FreeCells
    BY <2>2 DEF AllocCells, FreeCells
  <2> QED BY <1>0, <1>1, <2>2, <2>3 DEF IInv, Shape, TypeOK, AllocListSound, FreeListSound, StampsFollowOrder
<1>3. CASE i \in used
  <2>0. /\ c \in AllocCells /\ c \in Cell /\ c \in Int /\ c >= INDEX_SHIFT /\ c # 0 /\ c # 1
        /\ c \notin FreeCells /\ c - INDEX_SHIFT = i
    BY <1>0, <1>3, CellFacts
  <2>1. /\ used' = used /\ sooner' = sooner /\ now' = now
        /\ timestamps' = [timestamps EXCEPT ![i] = now]
        /\ older' = Without(older, i) \cup {<<j, i>> : j \in used \ {i}}
    BY <1>0, <1>3 DEF Rejuvenate, Touch, AllocatedExact
  <2>2. AllocCells' = AllocCells /\ FreeCells' = FreeCells
    BY <2>1 DEF AllocCells, FreeCells
  <2>3. StampsFollowOrder'
    <3>1. \A j \in Index : timestamps[j] \in Int /\ now \in Int
      BY <1>0 DEF TypeOK, Time
    <3>2. timestamps'[i] = now /\ \A j \in used \ {i} : timestamps'[j] = timestamps[j]
      BY <1>0, <1>3, <2>1 DEF TypeOK
    <3>3. ASSUME NEW q \in older' PROVE timestamps'[q[1]] <= timestamps'[q[2]]
      <4>1. CASE q \in Without(older, i)
        <5>1. q \in older /\ q[1] \in used \ {i} /\ q[2] \in used \ {i}
          BY <1>0, <4>1 DEF AllocListSound, StrictOrderOn, Without
        <5> QED BY <5>1, <3>2, <1>0 DEF StampsFollowOrder
      <4>2. CASE q \in {<<j, i>> : j \in used \ {i}}
        BY <4>2, <3>1, <3>2, <1>0 DEF StampsFollowOrder
      <4> QED BY <4>1, <4>2, <2>1
    <3>4. \A j \in used' : timestamps'[j] <= now'
      BY <1>0, <1>3, <2>1, <3>1, <3>2 DEF StampsFollowOrder, TypeOK
    <3> QED BY <3>3, <3>4 DEF StampsFollowOrder
  <2>4. /\ timestamps' \in [Index -> Time] /\ now' \in Time /\ used' \subseteq Index
        /\ older' \subseteq Index \X Index /\ sooner' \subseteq Index \X Index
    <3>1. older' \subseteq Index \X Index
      BY <1>0, <1>3, <2>1 DEF TypeOK, Without
    <3> QED BY <1>0, <1>3, <2>1, <3>1 DEF TypeOK
  <2>5. CASE n = p
    <3>1. n = 0 /\ p = 0
      BY <1>0, <1>3, <2>5 DEF AllocatedExact, IsAllocated, ALLOC_LIST_HEAD
    <3>2. used = {i} /\ older = {}
      BY <1>0, <1>3, <3>1, LoneCell
    <3>3. older' = older
      BY <2>1, <3>2 DEF Without
    <3>4. next' = next /\ prev' = prev
      BY <2>5 DEF Rejuvenate, Touch, cells
    <3> QED BY <1>0, <1>1, <2>1, <2>2, <2>3, <2>4, <3>3, <3>4
            DEF IInv, Shape, TypeOK, AllocListSound, FreeListSound
  <2>6. CASE n # p
    <3> DEFINE next1 == [next EXCEPT ![p] = n]
               prev1 == [prev EXCEPT ![n] = p]
               last  == prev1[0]
               S     == AllocCells \ {c}
    <3>1. /\ n \in AllocCells \cup {0} /\ p \in AllocCells \cup {0} /\ n # c /\ p # c
          /\ \A x \in AllocCells \cup {0} : next[x] \in AllocCells \cup {0}
      BY <1>0, <2>0, Neighbours
    <3>2. /\ 0 \in Cell /\ 1 \in Cell /\ 0 < INDEX_SHIFT /\ AllocCells \in SUBSET Cell
          /\ 0 \notin AllocCells /\ 1 \notin AllocCells
          /\ next \in [Cell -> Cell] /\ prev \in [Cell -> Cell]
          /\ \A x \in AllocCells : x >= INDEX_SHIFT
          /\ \A x \in AllocCells : x - INDEX_SHIFT \in used
          /\ AllocCells \cap FreeCells = {} /\ FreeCells \in SUBSET Cell /\ 0 \notin FreeCells
      BY <1>0, CellFacts DEF TypeOK, INDEX_SHIFT
    <3>3. n \in Cell /\ p \in Cell
      BY <3>1, <3>2
    <3>4. /\ next' = [[next1 EXCEPT ![c] = 0] EXCEPT ![last] = c]
          /\ prev' = [[prev1 EXCEPT ![c] = last] EXCEPT ![0] = c]
      BY <2>6 DEF Rejuvenate, Touch, MoveToEnd, ALLOC_LIST_HEAD
    <3>5. /\ Threads(0, AllocCells, next, older) /\ Mirrors(0, AllocCells, next, prev)
          /\ StrictOrderOn(used, older)
      BY <1>0 DEF AllocListSound, ALLOC_LIST_HEAD
    <3>6. next1 \in [Cell -> Cell] /\ prev1 \in [Cell -> Cell]
      BY <3>2, <3>3
    <3>7. /\ \A x \in (AllocCells \cup {0}) \ {c} : next1[x] = IF x = prev[c] THEN next[c] ELSE next[x]
          /\ \A x \in (AllocCells \cup {0}) \ {c} : prev1[x] = IF x = next[c] THEN prev[c] ELSE prev[x]
      BY <3>2, <3>3
    <3> HIDE DEF c, next1, prev1
    <3>8. Threads(0, S, next1, Without(older, c - INDEX_SHIFT))
      BY <2>0, <3>2, <3>5, <3>6, <3>7, UnlinkThreads
    <3>9. Mirrors(0, S, next1, prev1)
      BY <2>0, <3>1, <3>2, <3>5, <3>6, <3>7, UnlinkMirrors
    <3>10. StrictOrderOn(used \ {i}, Without(older, i))
      BY <3>5, OrderWithout
    <3>11. last \in S \cup {0} /\ last # c /\ last \in Cell
      BY <2>0, <3>2, <3>9 DEF Mirrors
    <3> HIDE DEF last
    <3>12. /\ next' \in [Cell -> Cell] /\ prev' \in [Cell -> Cell]
           /\ next'[c] = 0 /\ next'[last] = c /\ \A x \in Cell \ {c, last} : next'[x] = next1[x]
           /\ prev'[c] = last /\ prev'[0] = c /\ \A x \in Cell \ {c, 0} : prev'[x] = prev1[x]
      BY <2>0, <3>2, <3>4, <3>6, <3>11
    <3>13. /\ S \in SUBSET Cell /\ c \notin S /\ 0 \notin S
           /\ \A x \in S : x >= INDEX_SHIFT
           /\ \A x \in S : x - INDEX_SHIFT \in used \ {i}
      <4>1. ASSUME NEW x \in S PROVE x - INDEX_SHIFT # i
        BY <2>0, <1>0, CellFacts DEF INDEX_SHIFT
      <4> QED BY <3>2, <4>1
    <3>14. \A x \in S \cup {0} : next'[x] = IF x = prev1[0] THEN c ELSE next1[x]
      BY <3>2, <3>12, <3>13, <2>0 DEF last
    <3>15. \A x \in S : prev'[x] = prev1[x]
      BY <3>12, <3>13
    <3>16. Threads(0, S \cup {c}, next',
                  Without(older, i) \cup {<<j, c - INDEX_SHIFT>> : j \in used \ {i}})
      BY <2>0, <3>2, <3>6, <3>8, <3>9, <3>10, <3>12, <3>13, <3>14, AppendThreads
    <3>17. Mirrors(0, S \cup {c}, next', prev')
      <4>1. \A x \in S \cup {0} : next1[x] \in S \cup {0}
        BY <3>8 DEF Threads
      <4>2. prev'[c] = prev1[0]
        BY <3>12 DEF last
      <4> QED BY <2>0, <3>2, <3>6, <3>9, <3>12, <3>13, <3>14, <3>15, <4>1, <4>2, AppendMirrors
    <3>18. S \cup {c} = AllocCells
      BY <2>0
    <3>19. StrictOrderOn(used, older')
      <4>1. (used \ {i}) \cup {i} = used
        BY <1>3
      <4>2. StrictOrderOn((used \ {i}) \cup {i}, Without(older, i) \cup {<<j, i>> : j \in used \ {i}})
        BY <3>10, OrderAppend
      <4> QED BY <2>1, <4>1, <4>2
    <3>20. AllocListSound'
      BY <2>0, <2>1, <2>2, <3>16, <3>17, <3>18, <3>19 DEF AllocListSound, ALLOC_LIST_HEAD
    <3>21. \A x \in FreeCells \cup {1} : next'[x] = next[x] /\ prev'[x] = prev[x]
      <4>1. ASSUME NEW x \in FreeCells \cup {1} PROVE x \in Cell \ {c, last, 0, n, p}
        BY <2>0, <3>1, <3>2, <3>11
      <4>2. \A x \in FreeCells \cup {1} : next1[x] = next[x] /\ prev1[x] = prev[x]
        BY <4>1, <3>2, <3>3 DEF next1, prev1
      <4> QED BY <4>1, <4>2, <3>12
    <3>22. FreeListSound'
      BY <1>0, <2>1, <2>2, <3>21 DEF FreeListSound, Threads, FREE_LIST_HEAD
    <3> QED BY <1>1, <2>3, <2>4, <3>12, <3>20, <3>22 DEF IInv, Shape, TypeOK
  <2> QED BY <2>5, <2>6
<1> QED BY <1>2, <1>3

\* dchain_impl_get_oldest_index reads the head of the allocated list: there is
\* one exactly when something is in use, and nothing in use is older than it.
LEMMA OldestFacts ==
    ASSUME Sizes, IInv
    PROVE  /\ HasOldest <=> used # {}
           /\ HasOldest => /\ Oldest \in used /\ IsAllocated(Oldest)
                           /\ \A j \in used \ {Oldest} :
                                 <<Oldest, j>> \in older /\ timestamps[Oldest] <= timestamps[j]
<1> DEFINE a == next[0]
<1>0. TypeOK /\ AllocListSound /\ StampsFollowOrder /\ AllocatedExact
  BY AllocatedTest DEF IInv, Shape
<1>1. used # {} <=> AllocCells # {}
  <2>1. ASSUME NEW i \in used PROVE i + INDEX_SHIFT \in AllocCells
    BY <1>0, CellFacts DEF TypeOK
  <2>2. ASSUME NEW x \in AllocCells PROVE x - INDEX_SHIFT \in used
    BY <1>0, CellFacts
  <2> QED BY <2>1, <2>2
<1>2. HasOldest <=> used # {}
  <2>1. 0 \notin AllocCells
    BY <1>0, CellFacts
  <2> QED BY <1>0, <1>1, <2>1 DEF AllocListSound, Threads, ALLOC_LIST_HEAD, HasOldest
<1>3. ASSUME HasOldest
      PROVE  /\ Oldest \in used /\ IsAllocated(Oldest)
             /\ \A j \in used \ {Oldest} : <<Oldest, j>> \in older
  <2>1. a \in AllocCells /\ Oldest = a - INDEX_SHIFT
    BY <1>0, <1>1, <1>2, <1>3 DEF AllocListSound, Threads, ALLOC_LIST_HEAD, Oldest
  <2>2. Oldest \in used /\ Oldest \in Index
    BY <1>0, <2>1, CellFacts DEF TypeOK
  <2>3. ASSUME NEW j \in used \ {Oldest} PROVE <<Oldest, j>> \in older
    <3> DEFINE d == j + INDEX_SHIFT
    <3>1. d \in AllocCells /\ d - INDEX_SHIFT = j
      BY <1>0, CellFacts DEF TypeOK
    <3>2. d # a
      BY <3>1, <2>1
    <3> HIDE DEF d
    <3>3. <<a - INDEX_SHIFT, d - INDEX_SHIFT>> \in older
      BY <1>0, <2>1, <3>1, <3>2 DEF AllocListSound, Threads, ALLOC_LIST_HEAD
    <3> QED BY <2>1, <3>1, <3>3
  <2> QED BY <1>0, <2>2, <2>3 DEF AllocatedExact
<1>4. ASSUME HasOldest, NEW j \in used \ {Oldest} PROVE timestamps[Oldest] <= timestamps[j]
  BY <1>0, <1>3, <1>4 DEF StampsFollowOrder
<1> QED BY <1>2, <1>3, <1>4

\* A call that touches neither list, later or at the same time, leaves both
\* sound and every stamp in the past.
LEMMA FrameInv ==
    ASSUME Sizes, IInv, UNCHANGED <<cells, timestamps, used, older, sooner>>,
           now' \in Time, now' >= now, ret' \in Answer
    PROVE  IInv'
<1>0. TypeOK /\ UNCHANGED <<next, prev>>
  BY DEF IInv, cells
<1>1. AllocCells' = AllocCells /\ FreeCells' = FreeCells
  BY DEF AllocCells, FreeCells
<1>2. TypeOK'
  BY <1>0 DEF TypeOK
<1>3. Shape'
  BY <1>0, <1>1 DEF IInv, Shape, AllocListSound, FreeListSound
<1>4. StampsFollowOrder'
  <2>1. ASSUME NEW j \in used PROVE timestamps[j] <= now'
    <3>1. timestamps[j] \in Int /\ now \in Int /\ now' \in Int /\ timestamps[j] <= now
      BY <1>0 DEF TypeOK, Time, IInv, StampsFollowOrder
    <3> QED BY <3>1
  <2> QED BY <2>1 DEF IInv, StampsFollowOrder
<1> QED BY <1>2, <1>3, <1>4 DEF IInv

\* dchain_impl_allocate_new_index finds the free list empty exactly when every
\* index is in use; otherwise the cell it pops is that of a free index.
LEMMA FreshFacts ==
    ASSUME Sizes, IInv
    PROVE  /\ next[FREE_LIST_HEAD] = FREE_LIST_HEAD <=> used = Index
           /\ next[FREE_LIST_HEAD] # FREE_LIST_HEAD =>
                 next[FREE_LIST_HEAD] - INDEX_SHIFT \in Index \ used
<1>0. TypeOK /\ FreeListSound
  BY DEF IInv, Shape
<1>1. used = Index <=> FreeCells = {}
  <2>1. ASSUME FreeCells = {} PROVE used = Index
    <3>1. \A i \in Index : i \in used
      BY <1>0, <2>1, CellFacts
    <3> QED BY <1>0, <3>1 DEF TypeOK
  <2> QED BY <2>1 DEF FreeCells
<1>2. next[FREE_LIST_HEAD] # FREE_LIST_HEAD <=> next[FREE_LIST_HEAD] \in FreeCells
  BY <1>0, CellFacts DEF FreeListSound, Threads, FREE_LIST_HEAD
<1>3. next[FREE_LIST_HEAD] = FREE_LIST_HEAD <=> FreeCells = {}
  BY <1>0, CellFacts DEF FreeListSound, Threads, FREE_LIST_HEAD
<1> QED BY <1>0, <1>1, <1>2, <1>3, CellFacts

\* Every operation keeps the two lists and the stamps in order.
LEMMA NextInv == Sizes /\ IInv /\ [Next]_vars => IInv'
<1> SUFFICES ASSUME Sizes, IInv, [Next]_vars PROVE IInv'
  OBVIOUS
<1>0. TypeOK /\ AllocatedExact
  BY AllocatedTest DEF IInv
<1>1. ASSUME UNCHANGED <<cells, timestamps, used, older, sooner>>,
             now' \in Time, now' >= now, ret' \in Answer
      PROVE  IInv'
  BY <1>1, FrameInv
<1>2. ret \in Answer /\ now \in Time /\ now \in Int /\ now >= now
  BY <1>0 DEF TypeOK, Time
<1>3. CASE Tick
  BY <1>1, <1>2, <1>3 DEF Tick, Time, Sizes
<1>4. CASE Allocate
  BY <1>4, AllocateInv
<1>5. CASE AllocateFull
  <2>1. ret' \in Answer
    BY <1>5 DEF AllocateFull, Answer
  <2> QED BY <1>1, <1>2, <1>5, <2>1 DEF AllocateFull
<1>6. ASSUME NEW i \in Index, Rejuvenate(i) PROVE IInv'
  BY <1>6, RejuvenateInv
<1>7. ASSUME NEW i \in Index, Free(i) PROVE IInv'
  <2>1. ret' \in Answer
    <3>1. IsAllocated(i) \in BOOLEAN
      BY DEF IsAllocated
    <3> QED BY <1>7, <3>1 DEF Free, Answer
  <2>2. CASE IsAllocated(i)
    <3>1. i \in used /\ Release(i) /\ timestamps' = timestamps /\ now' = now
      BY <1>0, <1>7, <2>2 DEF Free, AllocatedExact
    <3> QED BY <2>1, <3>1, ReleaseInv
  <2>3. CASE ~IsAllocated(i)
    BY <1>1, <1>2, <1>7, <2>1, <2>3 DEF Free
  <2> QED BY <2>2, <2>3
<1>8. ASSUME NEW t \in 0 .. now, Expire(t) PROVE IInv'
  <2>1. Oldest \in used /\ Oldest \in Index
    BY <1>0, <1>8, OldestFacts DEF Expire, TypeOK
  <2>2. t \in Time
    BY <1>2 DEF Time, Sizes
  <2>3. ret' \in Answer
    BY <1>8, <2>1, <2>2 DEF Expire, Answer
  <2> QED BY <1>8, <2>1, <2>3, ReleaseInv DEF Expire
<1>9. ASSUME NEW t \in 0 .. now, ExpireNone(t) PROVE IInv'
  <2>1. t \in Time
    BY <1>2 DEF Time, Sizes
  <2>2. ret' \in Answer
    BY <1>9, <2>1 DEF ExpireNone, Answer
  <2> QED BY <1>1, <1>2, <1>9, <2>2 DEF ExpireNone
<1>10. CASE UNCHANGED vars
  BY <1>1, <1>2, <1>10 DEF vars, cells
<1> QED
  BY <1>3, <1>4, <1>5, <1>6, <1>7, <1>8, <1>9, <1>10 DEF Next

\* The invariant holds in every state of every behaviour.
LEMMA InductiveInvariant == Sizes /\ Spec => []IInv
<1> SUFFICES ASSUME Sizes PROVE Spec => []IInv
  OBVIOUS
<1>1. Init => IInv
  BY InitInv
<1>2. IInv /\ [Next]_vars => IInv'
  BY NextInv
<1> QED BY <1>1, <1>2, PTL DEF Spec

\* The assumptions on the constants, in the form the lemmas use.
LEMMA SizesHold == Sizes
BY IndexRangeAssumption, MaxTimeAssumption DEF Sizes

------------------------------------------------------------------------------

\* For every index_range, no operation reads or writes outside the cells and
\* timestamps dchain_allocate reserved.
THEOREM TypeCorrect == Spec => []TypeOK
<1>1. IInv => TypeOK
  BY DEF IInv
<1> QED BY <1>1, SizesHold, InductiveInvariant, PTL

\* The two lists always partition the indexes: the allocated list holds the
\* indexes in use, in order of last use, and the free list all the others.
THEOREM ListsSound == Spec => [](AllocListSound /\ FreeListSound)
<1>1. IInv => AllocListSound /\ FreeListSound
  BY DEF IInv, Shape
<1> QED BY <1>1, SizesHold, InductiveInvariant, PTL

\* The free list holds the free indexes, each once, singly linked through the
\* cells, whatever was allocated, expired or freed before.
THEOREM FreeListHolds == Spec => []FreeListSound
<1>1. AllocListSound /\ FreeListSound => FreeListSound
  OBVIOUS
<1> QED BY ListsSound, <1>1, PTL

\* dchain_is_index_allocated, and the test the other operations repeat, never
\* mistakes a free cell for an allocated one or the reverse.
THEOREM AllocatedExactHolds == Spec => []AllocatedExact
<1>1. IInv => AllocatedExact
  BY SizesHold, AllocatedTest DEF IInv
<1> QED BY <1>1, SizesHold, InductiveInvariant, PTL

\* Order of last use is order of timestamps.
THEOREM StampsOrdered == Spec => []StampsFollowOrder
<1>1. IInv => StampsFollowOrder
  BY DEF IInv
<1> QED BY <1>1, SizesHold, InductiveInvariant, PTL

\* A step that refuses to expire leaves nothing expired behind.
LEMMA NextExpireMissesNothing ==
    ASSUME IInv, ExpireMissesNothing, [Next]_vars
    PROVE  ExpireMissesNothing'
<1>0. /\ TypeOK /\ AllocatedExact
      /\ \A j \in Index : timestamps[j] \in Int /\ now \in Int
  BY SizesHold, AllocatedTest DEF IInv, TypeOK, Time
<1>1. ASSUME ret' = ret, used' = used, timestamps' = timestamps PROVE ExpireMissesNothing'
  BY <1>1 DEF ExpireMissesNothing
<1>2. CASE Tick \/ UNCHANGED vars
  BY <1>1, <1>2 DEF Tick, vars
<1>3. CASE Allocate \/ AllocateFull \/ \E i \in Index : Rejuvenate(i) \/ Free(i)
  <2>1. ret'.op \in {"allocate", "rejuvenate", "free"}
    BY <1>3 DEF Allocate, AllocateFull, Rejuvenate, Touch, Free
  <2> QED BY <2>1 DEF ExpireMissesNothing
<1>4. ASSUME NEW t \in 0 .. now, Expire(t) PROVE ExpireMissesNothing'
  BY <1>4 DEF Expire, ExpireMissesNothing
<1>5. ASSUME NEW t \in 0 .. now, ExpireNone(t) PROVE ExpireMissesNothing'
  <2>1. ret'.before = t /\ used' = used /\ timestamps' = timestamps /\ t \in Int
    BY <1>0, <1>5 DEF ExpireNone
  <2>2. ASSUME NEW j \in used PROVE timestamps[j] >= t
    <3>1. HasOldest /\ Oldest \in used /\ IsAllocated(Oldest)
      BY SizesHold, OldestFacts
    <3>2. timestamps[Oldest] >= t
      BY <1>0, <1>5, <3>1, <2>1 DEF ExpireNone, TypeOK
    <3>3. CASE j = Oldest
      BY <3>2, <3>3
    <3>4. CASE j # Oldest
      <4>1. timestamps[Oldest] <= timestamps[j]
        BY <3>1, <3>4, SizesHold, OldestFacts
      <4>2. timestamps[Oldest] \in Int /\ timestamps[j] \in Int
        BY <1>0, <3>1 DEF TypeOK
      <4> QED BY <2>1, <3>2, <4>1, <4>2
    <3> QED BY <3>3, <3>4
  <2> QED BY <2>1, <2>2 DEF ExpireMissesNothing
<1> QED BY <1>2, <1>3, <1>4, <1>5 DEF Next

\* A refusal by dchain_expire_one_index means nothing in use is too old: the
\* loop of expire_items_single_map ends only when its work is done.
THEOREM ExpireComplete == Spec => []ExpireMissesNothing
<1>1. Init => ExpireMissesNothing
  BY DEF Init, ExpireMissesNothing
<1>2. IInv /\ ExpireMissesNothing /\ [Next]_vars => ExpireMissesNothing'
  BY NextExpireMissesNothing
<1> QED BY <1>1, <1>2, SizesHold, InductiveInvariant, PTL DEF Spec

------------------------------------------------------------------------------
(* Refinement of the least-recently-used allocator.                         *)

AbsUsed  == {i \in Index : IsAllocated(i)}
AbsStamp == [i \in {j \in Index : IsAllocated(j)} |-> timestamps[i]]

\* What the refinement mapping reads off the cells.
LEMMA AbsFacts ==
    ASSUME TypeOK, AllocatedExact
    PROVE  AbsUsed = used /\ AbsStamp = [i \in used |-> timestamps[i]]
<1>1. {i \in Index : IsAllocated(i)} = used
  BY DEF AllocatedExact, TypeOK
<1> QED BY <1>1 DEF AbsUsed, AbsStamp

\* The initial cells map to an allocator with every index free.
LEMMA InitRefines == Init => Lru!Init
<1> SUFFICES ASSUME Init PROVE Lru!Init
  OBVIOUS
<1>1. IInv
  BY SizesHold, InitInv
<1>2. AbsUsed = {} /\ AbsStamp = [i \in {} |-> timestamps[i]]
  BY <1>1, SizesHold, AllocatedTest, AbsFacts DEF IInv, Init
<1>3. AbsStamp = [i \in {} |-> 0]
  BY <1>2
<1> QED BY <1>2, <1>3 DEF Init, Lru!Init, AbsUsed, AbsStamp

\* The exactness of the test, after a step.
LEMMA AllocatedExactPrimed == IInv' => AllocatedExact'
<1>1. IInv => AllocatedExact
  BY SizesHold, AllocatedTest DEF IInv
<1> QED BY <1>1, PTL

\* Every step of the cells is a step of the allocator, or changes nothing in it.
LEMMA StepRefines ==
    ASSUME IInv, [Next]_vars
    PROVE  [Lru!Next]_(Lru!vars)
<1>0. /\ TypeOK /\ AllocatedExact /\ AllocListSound /\ FreeListSound
      /\ TypeOK' /\ AllocatedExact' /\ Lru!Index = Index
  <2>1. IInv'
    BY SizesHold, NextInv
  <2>2. IInv => AllocatedExact
    BY SizesHold, AllocatedTest DEF IInv
  <2>3. AllocatedExact'
    BY <2>1, AllocatedExactPrimed
  <2> QED BY <2>1, <2>2, <2>3 DEF IInv, Shape, Lru!Index, Index
<1>1. AbsUsed = used /\ AbsStamp = [i \in used |-> timestamps[i]]
  BY <1>0, AbsFacts
<1>2. AbsUsed' = used' /\ AbsStamp' = [i \in used' |-> timestamps'[i]]
  <2>1. AbsUsed' = used'
    BY <1>0 DEF AllocatedExact, TypeOK, AbsUsed
  <2> QED BY <2>1 DEF AbsUsed, AbsStamp
<1>3. CASE Tick
  <2>1. AbsUsed' = AbsUsed /\ AbsStamp' = AbsStamp
    BY <1>1, <1>2, <1>3 DEF Tick
  <2>2. Lru!Tick
    BY <1>3, <2>1 DEF Tick, Lru!Tick, AbsUsed, AbsStamp
  <2> QED BY <2>2 DEF Lru!Next
<1>4. CASE Allocate
  <2> DEFINE i == next[FREE_LIST_HEAD] - INDEX_SHIFT
  <2>2. i \in Index \ used
    BY <1>4, SizesHold, FreshFacts DEF Allocate
  <2>3. /\ used' = used \cup {i} /\ older' = older \cup {<<j, i>> : j \in used \ {i}}
        /\ timestamps' = [timestamps EXCEPT ![i] = now] /\ now' = now
        /\ ret' = [op |-> "allocate", ok |-> TRUE, index |-> i]
    BY <1>4 DEF Allocate
  <2> HIDE DEF i
  <2>4. AbsStamp' = [j \in AbsUsed \cup {i} |-> IF j = i THEN now ELSE AbsStamp[j]]
    BY <1>0, <1>1, <1>2, <2>2, <2>3 DEF TypeOK
  <2>5. Lru!Allocate
    BY <1>0, <1>1, <1>2, <2>2, <2>3, <2>4 DEF Lru!Allocate, Lru!Touched, AbsUsed, AbsStamp
  <2> QED BY <2>5 DEF Lru!Next
<1>5. CASE AllocateFull
  <2>1. used = Index
    BY <1>5, SizesHold, FreshFacts DEF AllocateFull
  <2>2. AbsUsed' = AbsUsed /\ AbsStamp' = AbsStamp
    BY <1>1, <1>2, <1>5 DEF AllocateFull
  <2>3. Lru!AllocateFull
    BY <1>0, <1>1, <1>5, <2>1, <2>2 DEF AllocateFull, Lru!AllocateFull, AbsUsed, AbsStamp
  <2> QED BY <2>3 DEF Lru!Next
<1>6. ASSUME NEW i \in Index, Rejuvenate(i) PROVE Lru!Rejuvenate(i)
  <2>1. IsAllocated(i) = (i \in AbsUsed)
    BY DEF AbsUsed, IsAllocated
  <2>2. /\ used' = used /\ now' = now
        /\ ret' = [op |-> "rejuvenate", ok |-> i \in AbsUsed, index |-> i]
    BY <1>6, <2>1 DEF Rejuvenate, Touch
  <2>3. CASE i \in used
    <3>1. /\ timestamps' = [timestamps EXCEPT ![i] = now]
          /\ older' = Without(older, i) \cup {<<j, i>> : j \in used \ {i}}
      BY <1>1, <1>6, <2>1, <2>3 DEF Rejuvenate, Touch
    <3>2. AbsStamp' = [AbsStamp EXCEPT ![i] = now]
      BY <1>0, <1>1, <1>2, <2>2, <2>3, <3>1 DEF TypeOK
    <3> QED BY <1>1, <1>2, <2>2, <2>3, <3>1, <3>2
            DEF Lru!Rejuvenate, Lru!Without, Without, AbsUsed, AbsStamp
  <2>4. CASE i \notin used
    <3>1. timestamps' = timestamps /\ older' = older
      BY <1>1, <1>6, <2>1, <2>4 DEF Rejuvenate, Touch
    <3> QED BY <1>1, <1>2, <2>2, <2>4, <3>1 DEF Lru!Rejuvenate, AbsUsed, AbsStamp
  <2> QED BY <2>3, <2>4
<1>7. ASSUME NEW i \in Index, used' = used \ {i}, older' = Without(older, i), timestamps' = timestamps
      PROVE  Lru!Release(i)
  <2>1. AbsStamp' = [j \in AbsUsed \ {i} |-> AbsStamp[j]]
    BY <1>1, <1>2, <1>7
  <2> QED BY <1>1, <1>2, <1>7, <2>1 DEF Lru!Release, Lru!Without, Without, AbsUsed, AbsStamp
<1>8. ASSUME NEW i \in Index, Free(i) PROVE Lru!Free(i)
  <2>1. IsAllocated(i) = (i \in AbsUsed)
    BY DEF AbsUsed, IsAllocated
  <2>2. ret' = [op |-> "free", ok |-> i \in AbsUsed, index |-> i] /\ now' = now /\ timestamps' = timestamps
    BY <1>8, <2>1 DEF Free
  <2>3. CASE i \in used
    <3>1. used' = used \ {i} /\ older' = Without(older, i)
      BY <1>1, <1>8, <2>1, <2>3 DEF Free, Release
    <3> QED BY <1>7, <2>2, <3>1 DEF Lru!Free, AbsUsed
  <2>4. CASE i \notin used
    <3>1. used' = used \ {i} /\ older' = older
      BY <1>1, <1>8, <2>1, <2>4 DEF Free
    <3>2. older = Without(older, i)
      BY <1>0, <2>4 DEF AllocListSound, StrictOrderOn, Without
    <3> QED BY <1>7, <2>2, <3>1, <3>2 DEF Lru!Free, AbsUsed
  <2> QED BY <2>3, <2>4
<1>9. ASSUME NEW t \in 0 .. now, Expire(t) PROVE Lru!Expire(t)
  <2>0. Oldest \in Index
    BY <1>0, <1>9, SizesHold, OldestFacts DEF Expire, TypeOK
  <2> PICK o \in Index : o = Oldest
    BY <2>0
  <2>1. /\ o \in used /\ o \in Index
        /\ \A j \in used \ {o} : <<o, j>> \in older
    BY <1>0, <1>9, SizesHold, OldestFacts DEF Expire, TypeOK
  <2>2. /\ used' = used \ {o} /\ older' = Without(older, o) /\ timestamps' = timestamps
        /\ ret' = [op |-> "expire", ok |-> TRUE, index |-> o, before |-> t]
        /\ now' = now /\ timestamps[o] < t
    BY <1>9 DEF Expire, Release
  <2>3. Lru!Release(o)
    BY <1>7, <2>1, <2>2
  <2>4. /\ o \in AbsUsed /\ AbsStamp[o] < t
        /\ \A j \in AbsUsed \ {o} : <<o, j>> \in older
    BY <1>1, <2>1, <2>2
  <2> QED BY <2>2, <2>3, <2>4 DEF Lru!Expire, AbsUsed, AbsStamp
<1>10. ASSUME NEW t \in 0 .. now, ExpireNone(t) PROVE Lru!ExpireNone(t)
  <2>1. AbsUsed' = AbsUsed /\ AbsStamp' = AbsStamp
    BY <1>1, <1>2, <1>10 DEF ExpireNone
  <2>2. \A j \in used : timestamps[j] >= t
    <3>1. ASSUME NEW j \in used PROVE timestamps[j] >= t
      <4>1. HasOldest /\ Oldest \in used /\ IsAllocated(Oldest)
        BY SizesHold, OldestFacts
      <4>2. timestamps[Oldest] \in Int /\ timestamps[j] \in Int /\ t \in Int
        BY <1>0, <4>1 DEF TypeOK, Time
      <4>3. timestamps[Oldest] >= t
        BY <1>10, <4>1, <4>2 DEF ExpireNone
      <4>4. j # Oldest => timestamps[Oldest] <= timestamps[j]
        BY <4>1, SizesHold, OldestFacts
      <4> QED BY <4>2, <4>3, <4>4
    <3> QED BY <3>1
  <2> QED BY <1>1, <1>10, <2>1, <2>2 DEF ExpireNone, Lru!ExpireNone, AbsUsed, AbsStamp
<1>11. CASE UNCHANGED vars
  <2>1. AbsUsed' = AbsUsed /\ AbsStamp' = AbsStamp
    BY <1>1, <1>2, <1>11 DEF vars
  <2> QED BY <1>11, <2>1 DEF vars, Lru!vars, AbsUsed, AbsStamp
<1> QED
  BY <1>0, <1>3, <1>4, <1>5, <1>6, <1>8, <1>9, <1>10, <1>11 DEF Next, Lru!Next

\* The cells, with their two interleaved lists, implement the allocator that
\* double-chain.h describes, for every index_range, answers included.
THEOREM RefinesLru == Spec => ImplementsLru
<1>1. Init => Lru!Init
  BY InitRefines
<1>2. IInv /\ [Next]_vars => [Lru!Next]_(Lru!vars)
  BY StepRefines
<1> QED BY <1>1, <1>2, SizesHold, InductiveInvariant, PTL DEF Spec, ImplementsLru, Lru!Spec

------------------------------------------------------------------------------
(* The hash map.                                                            *)
(*                                                                          *)
(* The argument is in terms of distances.  A probe for key k visits the     *)
(* slot at distance i in round i, and every slot in one round.  An entry of *)
(* k at distance d was pushed past exactly the slots nearer than d, so each *)
(* of them has a counter above zero, and find_key goes on until d.          *)


------------------------------------------------------------------------------
(* Probes and distances                                                     *)

Round == 0 .. Capacity - 1

\* A key's probe starts in the array.
LEMMA HomeInArray ==
    ASSUME MapAssumption, NEW k \in Key
    PROVE  Capacity \in Nat \ {0} /\ loop(khash[k]) \in Slot
<1>1. Capacity \in Nat \ {0} /\ khash[k] \in Nat
  BY DEF MapAssumption
<1> QED
  BY <1>1 DEF loop, Slot

\* Round i of a probe looks at the slot at distance i ...
LEMMA ProbeAt ==
    ASSUME MapAssumption, NEW k \in Key, NEW i \in Round
    PROVE  Probe(k, i) \in Slot /\ Dist(k, Probe(k, i)) = i
<1> DEFINE h == loop(khash[k])
<1>1. Capacity \in Nat \ {0} /\ h \in 0 .. Capacity - 1 /\ i \in 0 .. Capacity - 1
  BY HomeInArray DEF Slot, Round
<1>2. Probe(k, i) = (h + i) % Capacity
  BY DEF Probe, loop
<1> HIDE DEF h
<1>3. (h + i) % Capacity = IF h + i < Capacity THEN h + i ELSE h + i - Capacity
  BY <1>1, RingStep
<1>4. Dist(k, Probe(k, i)) = IF Probe(k, i) >= h THEN Probe(k, i) - h
                                                 ELSE Probe(k, i) - h + Capacity
  BY DEF Dist, h
<1> QED
  BY <1>1, <1>2, <1>3, <1>4 DEF Slot

\* ... and every slot is looked at in the round of its distance.
LEMMA DistOf ==
    ASSUME MapAssumption, NEW k \in Key, NEW s \in Slot
    PROVE  Dist(k, s) \in Round /\ Probe(k, Dist(k, s)) = s
<1> DEFINE h == loop(khash[k])
           d == Dist(k, s)
<1>1. Capacity \in Nat \ {0} /\ h \in 0 .. Capacity - 1 /\ s \in 0 .. Capacity - 1
  BY HomeInArray DEF Slot
<1>2. Probe(k, d) = (h + d) % Capacity
  BY DEF Probe, loop
<1>3. d = IF s >= h THEN s - h ELSE s - h + Capacity
  BY DEF Dist
<1> HIDE DEF h, d
<1>4. d \in 0 .. Capacity - 1
  BY <1>1, <1>3
<1>5. (h + d) % Capacity = IF h + d < Capacity THEN h + d ELSE h + d - Capacity
  BY <1>1, <1>4, RingStep
<1>6. Probe(k, d) = s /\ d \in Round
  BY <1>1, <1>2, <1>3, <1>4, <1>5 DEF Round
<1> QED
  BY <1>6 DEF d

\* The slots passed before round r are those nearer than r.
LEMMA PassedAreNearer ==
    ASSUME MapAssumption, NEW k \in Key, NEW r \in 0 .. Capacity
    PROVE  Passed(k, r) = {s \in Slot : Dist(k, s) < r}
<1>0. Capacity \in Nat
  BY DEF MapAssumption
<1>1. ASSUME NEW s \in Passed(k, r) PROVE s \in Slot /\ Dist(k, s) < r
  <2>1. PICK i \in 0 .. r - 1 : s = Probe(k, i)
    BY <1>1 DEF Passed
  <2>2. i \in Round /\ i < r
    BY <1>0 DEF Round
  <2> QED
    BY <2>1, <2>2, ProbeAt
<1>2. ASSUME NEW s \in Slot, Dist(k, s) < r PROVE s \in Passed(k, r)
  <2>1. Dist(k, s) \in 0 .. r - 1 /\ Probe(k, Dist(k, s)) = s
    BY <1>0, <1>2, DistOf DEF Round
  <2> QED
    BY <2>1 DEF Passed
<1> QED
  BY <1>1, <1>2

\* The first of some rounds.
LEMMA LeastIsFirst ==
    ASSUME NEW S \in SUBSET Nat, S # {}
    PROVE  Least(S) \in S /\ \A j \in S : Least(S) <= j
BY LeastOfNats DEF Least

------------------------------------------------------------------------------
(* The invariant                                                            *)

Typed ==
    /\ busybits \in [Slot -> BOOLEAN]
    /\ keyps \in [Slot -> Ptr] /\ vals \in [Slot -> Val]
    /\ khs \in [Slot -> Nat] /\ chns \in [Slot -> Int]
    /\ mem \in [Ptr -> Key]

HashesStored == \A s \in Busy : khs[s] = khash[mem[keyps[s]]]

KeysDistinct == \A s, t \in Busy : mem[keyps[s]] = mem[keyps[t]] => s = t

MapInv == Typed /\ HashesStored /\ KeysDistinct /\ ChainCounts

\* The key of an entry.
LEMMA EntryKey ==
    ASSUME Typed, NEW s \in Busy
    PROVE  s \in Slot /\ keyps[s] \in Ptr /\ mem[keyps[s]] \in Key
BY DEF Typed, Busy

\* The array is finite, and so is every set of slots.
LEMMA SlotsFinite ==
    ASSUME MapAssumption, NEW S \in SUBSET Slot
    PROVE  IsFiniteSet(S) /\ Cardinality(S) \in Nat
<1>1. IsFiniteSet(Slot)
  BY FS_Interval DEF MapAssumption, Slot
<1> QED
  BY <1>1, FS_Subset, FS_CardinalityType

\* A slot matches a key exactly when it is busy and points to it.
LEMMA MatchIsEntry ==
    ASSUME HashesStored, NEW k, NEW s \in Slot
    PROVE  Match(k, s) <=> s \in Busy /\ mem[keyps[s]] = k
BY DEF HashesStored, Match, SameHash, Busy

\* After map_impl_init the map has no entry and nothing was pushed past.
LEMMA MapInitInv == MapAssumption /\ MapInit => MapInv
<1> SUFFICES ASSUME MapAssumption, MapInit PROVE MapInv
  OBVIOUS
<1>1. Busy = {}
  BY DEF MapInit, Busy
<1>2. Typed
  BY DEF MapInit, Typed, MapAssumption
<1>3. \A s \in Slot : Passing(s) = {}
  BY <1>1 DEF Passing
<1>4. ChainCounts
  BY <1>3, FS_EmptySet DEF ChainCounts, MapInit
<1> QED
  BY <1>1, <1>2, <1>4 DEF MapInv, HashesStored, KeysDistinct

------------------------------------------------------------------------------
(* Lookups                                                                  *)

\* The counter of a slot that lies before an entry on its key's way is not 0.
LEMMA CountedBefore ==
    ASSUME MapAssumption, MapInv, NEW t \in Busy, NEW s \in Slot,
           Dist(mem[keyps[t]], s) < Dist(mem[keyps[t]], t)
    PROVE  chns[s] # 0
<1>1. t \in Passing(s) /\ Passing(s) \subseteq Slot
  BY DEF Passing, Busy
<1>2. IsFiniteSet(Passing(s)) /\ chns[s] = Cardinality(Passing(s))
  BY <1>1, SlotsFinite DEF MapInv, ChainCounts
<1> QED
  BY <1>1, <1>2, FS_EmptySet

\* find_key finds the entry of a key, whatever lies on the way ...
LEMMA FindsEntry ==
    ASSUME MapAssumption, MapInv, NEW t \in Busy
    PROVE  find_key(mem[keyps[t]]) = t
<1> DEFINE k == mem[keyps[t]]
           d == Dist(k, t)
<1>1. Typed /\ HashesStored /\ KeysDistinct
  BY DEF MapInv
<1>2. k \in Key /\ t \in Slot
  BY <1>1, EntryKey
<1>3. d \in Round /\ Probe(k, d) = t
  BY <1>2, DistOf
<1>4. Match(k, t)
  BY <1>1, <1>2, MatchIsEntry
<1>5. d \in Stops(k)
  BY <1>3, <1>4 DEF Stops, Round
<1>6. ASSUME NEW i \in Stops(k), i < d PROVE FALSE
  <2> DEFINE s == Probe(k, i)
  <2>1. i \in Round /\ s \in Slot /\ Dist(k, s) = i
    BY <1>2, ProbeAt DEF Stops, Round
  <2>2. s # t
    BY <1>6, <2>1 DEF Round
  <2>3. ~Match(k, s)
    BY <1>1, <2>1, <2>2, MatchIsEntry DEF KeysDistinct
  <2>4. chns[s] = 0
    BY <2>3 DEF Stops
  <2> QED
    BY <1>6, <2>1, <2>4, CountedBefore
<1>7. Stops(k) \in SUBSET Nat /\ Stops(k) # {}
  <2>1. Stops(k) \subseteq 0 .. Capacity - 1
    BY DEF Stops
  <2>2. Capacity \in Nat
    BY DEF MapAssumption
  <2> QED
    BY <1>5, <2>1, <2>2
<1>8. Least(Stops(k)) \in Stops(k) /\ Least(Stops(k)) <= d
  BY <1>5, <1>7, LeastIsFirst
<1>9. Least(Stops(k)) = d
  BY <1>3, <1>5, <1>6, <1>7, <1>8
<1> HIDE DEF k, d
<1>10. find_key(k) = t
  BY <1>3, <1>4, <1>7, <1>9 DEF find_key
<1> QED
  BY <1>10 DEF k

\* ... and nothing else.
LEMMA FindsNothingElse ==
    ASSUME MapAssumption, MapInv, NEW k \in Key, \A t \in Busy : mem[keyps[t]] # k
    PROVE  find_key(k) = -1
<1>1. HashesStored
  BY DEF MapInv
<1>2. \A s \in Slot : ~Match(k, s)
  BY <1>1, MatchIsEntry
<1>3. ASSUME Stops(k) # {} PROVE Probe(k, Least(Stops(k))) \in Slot
  <2>1. Stops(k) \in SUBSET Nat /\ Stops(k) \subseteq Round
    BY DEF MapAssumption, Stops, Round
  <2> QED
    BY <1>3, <2>1, LeastIsFirst, ProbeAt
<1> QED
  BY <1>2, <1>3 DEF find_key

------------------------------------------------------------------------------
(* map_put                                                                  *)

\* What map_put does: the slot it takes is free, and is at the distance of the
\* slots that it marks as passed.
LEMMA PutEffect ==
    ASSUME MapAssumption, MapInv,
           NEW k \in Key, NEW p \in Ptr, NEW v \in Val, Put(k, p, v)
    PROVE  \E s \in Slot :
               /\ s \notin Busy /\ Busy' = Busy \cup {s}
               /\ keyps' = [keyps EXCEPT ![s] = p] /\ khs' = [khs EXCEPT ![s] = khash[k]]
               /\ vals' = [vals EXCEPT ![s] = v] /\ mem' = [mem EXCEPT ![p] = k]
               /\ busybits' = [busybits EXCEPT ![s] = TRUE]
               /\ chns' = [t \in Slot |-> IF Dist(k, t) < Dist(k, s) THEN chns[t] + 1
                                                                    ELSE chns[t]]
<1> DEFINE r == Least(EmptyRounds(k))
           s == Probe(k, r)
<1>1. Typed /\ PutSlot(k, p, v)
  BY DEF MapInv, Put
<1>2. r \in EmptyRounds(k)
  <2>1. EmptyRounds(k) \in SUBSET Nat /\ EmptyRounds(k) # {}
    BY <1>1 DEF MapAssumption, EmptyRounds, PutSlot
  <2> QED
    BY <2>1, LeastIsFirst
<1>3. r \in Round /\ ~busybits[s]
  BY <1>2 DEF EmptyRounds, Round
<1>4. s \in Slot /\ Dist(k, s) = r
  BY <1>3, ProbeAt
<1>5. /\ keyps' = [keyps EXCEPT ![s] = p] /\ khs' = [khs EXCEPT ![s] = khash[k]]
      /\ vals' = [vals EXCEPT ![s] = v] /\ mem' = [mem EXCEPT ![p] = k]
      /\ busybits' = [busybits EXCEPT ![s] = TRUE]
      /\ chns' = [t \in Slot |-> IF t \in Passed(k, r) THEN chns[t] + 1 ELSE chns[t]]
  BY <1>1, Zenon DEF PutSlot
<1>6. Passed(k, r) = {t \in Slot : Dist(k, t) < r}
  BY <1>3, PassedAreNearer DEF MapAssumption, Round
<1> HIDE DEF r, s
<1>7. chns' = [t \in Slot |-> IF Dist(k, t) < Dist(k, s) THEN chns[t] + 1 ELSE chns[t]]
  BY <1>4, <1>5, <1>6
<1>8. s \notin Busy /\ Busy' = Busy \cup {s}
  BY <1>1, <1>3, <1>4, <1>5 DEF Busy, Typed
<1> QED
  BY <1>4, <1>5, <1>7, <1>8

\* map_put keeps the invariant, for a caller that puts an absent key into a
\* cell no entry points to.
LEMMA PutInv ==
    ASSUME MapAssumption, MapInv,
           NEW k \in Key, NEW p \in Ptr, NEW v \in Val, Put(k, p, v)
    PROVE  MapInv'
<1>1. PICK s \in Slot :
          /\ s \notin Busy /\ Busy' = Busy \cup {s}
          /\ keyps' = [keyps EXCEPT ![s] = p] /\ khs' = [khs EXCEPT ![s] = khash[k]]
          /\ vals' = [vals EXCEPT ![s] = v] /\ mem' = [mem EXCEPT ![p] = k]
          /\ busybits' = [busybits EXCEPT ![s] = TRUE]
          /\ chns' = [t \in Slot |-> IF Dist(k, t) < Dist(k, s) THEN chns[t] + 1 ELSE chns[t]]
  BY PutEffect
<1>2. Typed /\ HashesStored /\ KeysDistinct /\ ChainCounts /\ MayPut(k, p)
  BY DEF MapInv, Put
<1>3. Typed'
  BY <1>1, <1>2 DEF Typed, MapAssumption
<1>4. /\ keyps'[s] = p /\ mem'[p] = k /\ khs'[s] = khash[k]
      /\ \A t \in Busy : t # s /\ keyps'[t] = keyps[t] /\ khs'[t] = khs[t]
                        /\ mem'[keyps'[t]] = mem[keyps[t]] /\ mem[keyps[t]] # k
  BY <1>1, <1>2, EntryKey DEF Typed, MayPut, Busy
<1>5. HashesStored' /\ KeysDistinct'
  BY <1>1, <1>2, <1>4 DEF HashesStored, KeysDistinct
<1>6. ASSUME NEW t \in Slot PROVE chns'[t] = Cardinality(Passing(t)')
  <2>1. \A x \in Busy : x \in Passing(t)' <=> x \in Passing(t)
    <3>1. \A x \in Busy : Dist(mem'[keyps'[x]], t) = Dist(mem[keyps[x]], t)
                       /\ Dist(mem'[keyps'[x]], x) = Dist(mem[keyps[x]], x)
      BY <1>4
    <3> QED
      BY <1>1, <3>1 DEF Passing, Dist
  <2>4. s \in Passing(t)' <=> Dist(k, t) < Dist(k, s)
    <3>1. Dist(mem'[keyps'[s]], t) = Dist(k, t) /\ Dist(mem'[keyps'[s]], s) = Dist(k, s)
      BY <1>4
    <3> QED
      BY <1>1, <3>1 DEF Passing, Dist
  <2>5. Passing(t)' \subseteq Busy \cup {s} /\ Passing(t) \subseteq Busy
    BY <1>1 DEF Passing
  <2>2. /\ IsFiniteSet(Passing(t)) /\ Cardinality(Passing(t)) \in Nat /\ s \notin Passing(t)
    BY <1>1, SlotsFinite DEF Passing, Busy
  <2>3. chns[t] = Cardinality(Passing(t))
    BY <1>2 DEF ChainCounts
  <2>6. CASE Dist(k, t) < Dist(k, s)
    <3>1. Passing(t)' = Passing(t) \cup {s}
      BY <2>1, <2>4, <2>5, <2>6
    <3> QED
      BY <1>1, <2>2, <2>3, <2>6, <3>1, FS_AddElement
  <2>7. CASE ~(Dist(k, t) < Dist(k, s))
    <3>1. Passing(t)' = Passing(t)
      BY <1>1, <2>1, <2>4, <2>5, <2>7
    <3> QED
      BY <1>1, <2>3, <2>7, <3>1
  <2> QED
    BY <2>6, <2>7
<1>7. ChainCounts'
  BY <1>6 DEF ChainCounts
<1> QED
  BY <1>3, <1>5, <1>7 DEF MapInv

------------------------------------------------------------------------------
(* map_erase                                                                *)

\* What map_erase does when the key is there: the slot of its entry is freed
\* and the slots its key was pushed past are no longer counted for it.
LEMMA EraseEffect ==
    ASSUME MapAssumption, MapInv, NEW k \in Key, Erase(k)
    PROVE  \E s \in Busy :
               /\ mem[keyps[s]] = k /\ Busy' = Busy \ {s}
               /\ busybits' = [busybits EXCEPT ![s] = FALSE]
               /\ chns' = [t \in Slot |-> IF Dist(k, t) < Dist(k, s) THEN chns[t] - 1
                                                                    ELSE chns[t]]
               /\ UNCHANGED <<keyps, khs, vals, mem>>
<1> DEFINE r == Least(MatchRounds(k))
           s == Probe(k, r)
<1>1. Typed /\ HashesStored /\ MayErase(k) /\ EraseSlot(k)
  BY DEF MapInv, Erase
<1>2. MatchRounds(k) \in SUBSET Nat /\ MatchRounds(k) # {}
  <2>1. PICK t \in Busy : mem[keyps[t]] = k
    BY <1>1 DEF MayErase
  <2>2. Dist(k, t) \in Round /\ Match(k, Probe(k, Dist(k, t)))
    BY <1>1, <2>1, DistOf, MatchIsEntry DEF Busy
  <2> QED
    BY <2>2 DEF MapAssumption, MatchRounds, Round
<1>3. r \in Round /\ Match(k, s)
  <2>1. r \in MatchRounds(k)
    BY <1>2, LeastIsFirst
  <2> QED
    BY <2>1 DEF MatchRounds, Round
<1>4. s \in Slot /\ Dist(k, s) = r
  BY <1>3, ProbeAt
<1>5. s \in Busy /\ mem[keyps[s]] = k
  BY <1>1, <1>3, <1>4, MatchIsEntry
<1>6. /\ busybits' = [busybits EXCEPT ![s] = FALSE]
      /\ chns' = [t \in Slot |-> IF t \in Passed(k, r) THEN chns[t] - 1 ELSE chns[t]]
      /\ UNCHANGED <<keyps, khs, vals, mem>>
  BY <1>1, <1>2, Zenon DEF EraseSlot
<1>7. Passed(k, r) = {t \in Slot : Dist(k, t) < r}
  BY <1>3, PassedAreNearer DEF MapAssumption, Round
<1> HIDE DEF r, s
<1>8. Busy' = Busy \ {s}
  BY <1>1, <1>4, <1>6 DEF Busy, Typed
<1> QED
  BY <1>4, <1>5, <1>6, <1>7, <1>8

\* map_erase keeps the invariant, for a key that is there.
LEMMA EraseInv ==
    ASSUME MapAssumption, MapInv, NEW k \in Key, Erase(k)
    PROVE  MapInv'
<1>1. PICK s \in Busy :
          /\ mem[keyps[s]] = k /\ Busy' = Busy \ {s}
          /\ busybits' = [busybits EXCEPT ![s] = FALSE]
          /\ chns' = [t \in Slot |-> IF Dist(k, t) < Dist(k, s) THEN chns[t] - 1 ELSE chns[t]]
          /\ UNCHANGED <<keyps, khs, vals, mem>>
  BY EraseEffect
<1>2. Typed /\ HashesStored /\ KeysDistinct /\ ChainCounts
  BY DEF MapInv
<1>3. Typed'
  <2>1. busybits' \in [Slot -> BOOLEAN]
    BY <1>1, <1>2 DEF Typed
  <2>2. chns' \in [Slot -> Int]
    BY <1>1, <1>2 DEF Typed
  <2> QED
    BY <1>1, <1>2, <2>1, <2>2 DEF Typed
<1>4. HashesStored' /\ KeysDistinct'
  BY <1>1, <1>2 DEF HashesStored, KeysDistinct
<1>5. ASSUME NEW t \in Slot PROVE chns'[t] = Cardinality(Passing(t)')
  <2>1. Passing(t)' = Passing(t) \ {s}
    BY <1>1, Zenon DEF Passing, Dist
  <2>2. s \in Passing(t) <=> Dist(k, t) < Dist(k, s)
    BY <1>1 DEF Passing
  <2>3. IsFiniteSet(Passing(t)) /\ Cardinality(Passing(t)) \in Nat
    BY SlotsFinite DEF Passing, Busy
  <2>4. chns[t] = Cardinality(Passing(t))
    BY <1>2 DEF ChainCounts
  <2>5. CASE s \in Passing(t)
    <3>1. Cardinality(Passing(t) \ {s}) = Cardinality(Passing(t)) - 1
      BY <2>3, <2>5, FS_RemoveElement
    <3>2. chns'[t] = chns[t] - 1
      BY <1>1, <2>2, <2>5
    <3> QED
      BY <2>1, <2>4, <3>1, <3>2
  <2>6. CASE s \notin Passing(t)
    <3>1. Passing(t)' = Passing(t)
      BY <2>1, <2>6
    <3> QED
      BY <1>1, <2>2, <2>4, <2>6, <3>1
  <2> QED
    BY <2>5, <2>6
<1>6. ChainCounts'
  BY <1>5 DEF ChainCounts
<1> QED
  BY <1>3, <1>4, <1>6 DEF MapInv

------------------------------------------------------------------------------
(* The theorems                                                             *)

\* Every step keeps the invariant; map_get changes nothing of the map.
LEMMA MapNextInv == MapAssumption /\ MapInv /\ [MapNext]_mapVars => MapInv'
<1> SUFFICES ASSUME MapAssumption, MapInv, [MapNext]_mapVars PROVE MapInv'
  OBVIOUS
<1>1. ASSUME NEW k \in Key, Get(k) PROVE MapInv'
  BY <1>1 DEF Get, slots, MapInv, Typed, HashesStored, KeysDistinct, ChainCounts,
              Passing, Dist, Busy
<1>2. ASSUME NEW k \in Key, Erase(k) PROVE MapInv'
  BY <1>2, EraseInv
<1>3. ASSUME NEW k \in Key, NEW p \in Ptr, NEW v \in Val, Put(k, p, v) PROVE MapInv'
  BY <1>3, PutInv
<1>4. ASSUME UNCHANGED mapVars PROVE MapInv'
  BY <1>4 DEF mapVars, MapInv, Typed, HashesStored, KeysDistinct, ChainCounts,
              Passing, Dist, Busy
<1> QED
  BY <1>1, <1>2, <1>3, <1>4 DEF MapNext

\* The invariant holds of every state the map can be in.
LEMMA MapInductive == MapAssumption /\ MapSpec => []MapInv
<1> SUFFICES ASSUME MapAssumption PROVE MapSpec => []MapInv
  OBVIOUS
<1>1. MapInit => MapInv
  BY MapInitInv
<1>2. MapInv /\ [MapNext]_mapVars => MapInv'
  BY MapNextInv
<1> QED
  BY <1>1, <1>2, PTL DEF MapSpec

\* Whatever puts and erases came in between and in whatever order, a slot's
\* chain counter is the number of entries that were pushed past it (map_put's
\* chns++ and the chns-- of find_key_remove_chain).
THEOREM ChainCountsExact == MapAssumption /\ MapSpec => []ChainCounts
<1>1. MapInv => ChainCounts
  BY DEF MapInv
<1> QED
  BY <1>1, MapInductive, PTL

------------------------------------------------------------------------------
(* The slots implement a dictionary                                         *)

\* The value of an entry is the one the dictionary holds for its key.
LEMMA ContentsAt ==
    ASSUME KeysDistinct
    PROVE  /\ DOMAIN Contents = StoredKeys
           /\ \A t \in Busy : Contents[mem[keyps[t]]] = vals[t]
<1>1. ASSUME NEW t \in Busy
      PROVE  (CHOOSE s \in Busy : mem[keyps[s]] = mem[keyps[t]]) = t
  BY DEF KeysDistinct
<1>2. DOMAIN Contents = StoredKeys
  BY DEF Contents
<1>3. ASSUME NEW t \in Busy PROVE Contents[mem[keyps[t]]] = vals[t]
  <2>1. mem[keyps[t]] \in StoredKeys
    BY DEF StoredKeys
  <2> QED
    BY <1>1, <2>1 DEF Contents
<1> QED
  BY <1>2, <1>3

\* The same of the next state.
LEMMA ContentsAtNext ==
    ASSUME KeysDistinct'
    PROVE  /\ DOMAIN Contents' = StoredKeys'
           /\ Contents' = [k \in StoredKeys' |-> Contents'[k]]
           /\ \A t \in Busy' : Contents'[mem'[keyps'[t]]] = vals'[t]
<1>1. ASSUME NEW t \in Busy'
      PROVE  (CHOOSE s \in Busy' : mem'[keyps'[s]] = mem'[keyps'[t]]) = t
  BY DEF KeysDistinct
<1>2. DOMAIN Contents' = StoredKeys' /\ Contents' = [k \in StoredKeys' |-> Contents'[k]]
  BY DEF Contents
<1>3. ASSUME NEW t \in Busy' PROVE Contents'[mem'[keyps'[t]]] = vals'[t]
  <2>1. mem'[keyps'[t]] \in StoredKeys'
    BY DEF StoredKeys
  <2> QED
    BY <1>1, <2>1 DEF Contents
<1> QED
  BY <1>2, <1>3

\* An empty map is an empty dictionary.
LEMMA InitContents == MapInit => Dict!Init
<1> SUFFICES ASSUME MapInit PROVE Dict!Init
  OBVIOUS
<1>1. Busy = {}
  BY DEF MapInit, Busy
<1>2. StoredKeys = {}
  BY <1>1 DEF StoredKeys
<1>3. Contents = [k \in {} |-> 0]
  BY <1>2 DEF Contents
<1> QED
  BY <1>3 DEF MapInit, Dict!Init

\* map_put adds the key with its value ...
LEMMA PutStep ==
    ASSUME MapAssumption, MapInv,
           NEW k \in Key, NEW p \in Ptr, NEW v \in Val, Put(k, p, v)
    PROVE  Dict!Put(k, v)
<1>1. PICK s \in Slot :
          /\ s \notin Busy /\ Busy' = Busy \cup {s}
          /\ keyps' = [keyps EXCEPT ![s] = p] /\ khs' = [khs EXCEPT ![s] = khash[k]]
          /\ vals' = [vals EXCEPT ![s] = v] /\ mem' = [mem EXCEPT ![p] = k]
          /\ busybits' = [busybits EXCEPT ![s] = TRUE]
          /\ chns' = [t \in Slot |-> IF Dist(k, t) < Dist(k, s) THEN chns[t] + 1 ELSE chns[t]]
  BY PutEffect
<1>2. Typed /\ KeysDistinct /\ MayPut(k, p) /\ KeysDistinct'
  BY PutInv DEF MapInv, Put
<1>3. /\ keyps'[s] = p /\ mem'[p] = k /\ vals'[s] = v
      /\ \A t \in Busy : mem'[keyps'[t]] = mem[keyps[t]] /\ vals'[t] = vals[t]
                        /\ mem[keyps[t]] # k
  BY <1>1, <1>2, EntryKey DEF Typed, MayPut, Busy
<1>4. k \notin StoredKeys /\ StoredKeys' = StoredKeys \cup {k}
  BY <1>1, <1>3 DEF StoredKeys
<1>5. Contents'[k] = v
  BY <1>1, <1>2, <1>3, ContentsAtNext
<1>6. ASSUME NEW j \in StoredKeys PROVE Contents'[j] = Contents[j]
  <2>1. PICK t \in Busy : j = mem[keyps[t]]
    BY DEF StoredKeys
  <2> QED
    BY <1>1, <1>2, <1>3, <2>1, ContentsAt, ContentsAtNext
<1>7. Contents' = [j \in StoredKeys \cup {k} |-> IF j = k THEN v ELSE Contents[j]]
  BY <1>2, <1>4, <1>5, <1>6, ContentsAtNext
<1>8. mapRet' = [op |-> "put", key |-> k]
  BY DEF Put, PutSlot
<1> QED
  BY <1>2, <1>4, <1>7, <1>8, ContentsAt DEF Dict!Put

\* ... map_erase removes it ...
LEMMA EraseStep ==
    ASSUME MapAssumption, MapInv, NEW k \in Key, Erase(k)
    PROVE  Dict!Erase(k)
<1>1. PICK s \in Busy :
          /\ mem[keyps[s]] = k /\ Busy' = Busy \ {s}
          /\ busybits' = [busybits EXCEPT ![s] = FALSE]
          /\ chns' = [t \in Slot |-> IF Dist(k, t) < Dist(k, s) THEN chns[t] - 1 ELSE chns[t]]
          /\ UNCHANGED <<keyps, khs, vals, mem>>
  BY EraseEffect
<1>2. KeysDistinct /\ KeysDistinct'
  BY EraseInv DEF MapInv
<1>3. k \in StoredKeys /\ StoredKeys' = StoredKeys \ {k}
  BY <1>1, <1>2 DEF StoredKeys, KeysDistinct
<1>4. ASSUME NEW j \in StoredKeys' PROVE Contents'[j] = Contents[j]
  <2>1. PICK t \in Busy' : j = mem'[keyps'[t]]
    BY DEF StoredKeys
  <2>2. t \in Busy /\ j = mem[keyps[t]] /\ vals'[t] = vals[t]
    BY <1>1, <2>1
  <2> QED
    BY <1>2, <2>1, <2>2, ContentsAt, ContentsAtNext
<1>5. Contents' = [j \in StoredKeys \ {k} |-> Contents[j]]
  BY <1>2, <1>3, <1>4, ContentsAtNext
<1>6. mapRet' = [op |-> "erase", key |-> k]
  BY DEF Erase, EraseSlot
<1> QED
  BY <1>2, <1>3, <1>5, <1>6, ContentsAt DEF Dict!Erase

\* ... and map_get answers what the dictionary holds for it.
LEMMA GetStep ==
    ASSUME MapAssumption, MapInv, NEW k \in Key, Get(k)
    PROVE  Dict!Get(k)
<1>1. KeysDistinct /\ UNCHANGED <<slots, mem>>
      /\ mapRet' = IF find_key(k) # -1
                 THEN [op |-> "get", key |-> k, found |-> TRUE, value |-> vals[find_key(k)]]
                 ELSE [op |-> "get", key |-> k, found |-> FALSE]
  BY DEF MapInv, Get
<1>2. UNCHANGED Contents
  BY <1>1 DEF slots, Contents, StoredKeys, Busy
<1>3. CASE k \in StoredKeys
  <2>1. PICK t \in Busy : k = mem[keyps[t]]
    BY <1>3 DEF StoredKeys
  <2>2. find_key(k) = t /\ t # -1 /\ Contents[k] = vals[t]
    BY <1>1, <2>1, FindsEntry, ContentsAt DEF Busy, Slot, MapAssumption
  <2> QED
    BY <1>1, <1>2, <1>3, <2>2, ContentsAt DEF Dict!Get
<1>4. CASE k \notin StoredKeys
  <2>1. find_key(k) = -1
    BY <1>4, FindsNothingElse DEF StoredKeys
  <2> QED
    BY <1>1, <1>2, <1>4, <2>1, ContentsAt DEF Dict!Get
<1> QED
  BY <1>3, <1>4

\* The hash map answers every call as a dictionary would: map_get finds a key
\* exactly when it was put and not erased since, with the value of that put,
\* although find_key stops at the first slot with no chain count.
THEOREM MapIsDictionary == MapAssumption /\ MapSpec => ImplementsDictionary
<1> SUFFICES ASSUME MapAssumption PROVE MapSpec => ImplementsDictionary
  OBVIOUS
<1>1. MapInit => Dict!Init
  BY InitContents
<1>2. MapInv /\ [MapNext]_mapVars => [Dict!Next]_(Dict!vars)
  <2> SUFFICES ASSUME MapInv, [MapNext]_mapVars PROVE [Dict!Next]_(Dict!vars)
    OBVIOUS
  <2>1. ASSUME NEW k \in Key, Get(k) PROVE Dict!Next
    BY <2>1, GetStep DEF Dict!Next
  <2>2. ASSUME NEW k \in Key, Erase(k) PROVE Dict!Next
    BY <2>2, EraseStep DEF Dict!Next
  <2>3. ASSUME NEW k \in Key, NEW p \in Ptr, NEW v \in Val, Put(k, p, v) PROVE Dict!Next
    BY <2>3, PutStep DEF Dict!Next
  <2>4. ASSUME UNCHANGED mapVars PROVE UNCHANGED Dict!vars
    BY <2>4 DEF mapVars, Dict!vars, Contents, StoredKeys, Busy
  <2> QED
    BY <2>1, <2>2, <2>3, <2>4 DEF MapNext
<1> QED
  BY <1>1, <1>2, MapInductive, PTL DEF MapSpec, ImplementsDictionary, Dict!Spec
==============================================================================
