----------------------- MODULE NetworkFunctionsProofs -----------------------
(***************************************************************************)
(* The connection limiter, the key value cache, the load balancer with its *)
(* consistent hash table, the worker loop and the port scan detector, for  *)
(* any keys, clients, flows, sources, sizes and times.                     *)
(***************************************************************************)
EXTENDS MCNetworkFunctions, ChtOrder, FiniteSetTheorems, SequenceTheorems,
        WellFoundedInduction, TLAPS

\* Among natural numbers there is a least one.
LEMMA LeastOfNats ==
    ASSUME NEW S \in SUBSET Nat, S # {}
    PROVE  \E m \in S : \A x \in S : m <= x
<1> DEFINE R == OpToRel(<, Nat)
<1>1. IsWellFoundedOn(R, Nat)
  BY NatLessThanWellFounded
<1>2. \A x, y \in Nat : x < y => <<x, y>> \in R
  BY DEF OpToRel
<1> HIDE DEF R
<1>3. PICK m \in S : \A y \in S : ~(<<y, m>> \in R)
  BY <1>1, WFMin
<1>4. ASSUME NEW y \in S PROVE m <= y
  <2>1. m \in Nat /\ y \in Nat /\ ~(y < m)
    BY <1>2, <1>3
  <2> QED
    BY <2>1
<1> QED
  BY <1>4

------------------------------------------------------------------------------
(* AgedTable                                                                *)

\* A table over the keys K with indexes below cap and stamps in T, as a
\* partial function
Entry(cap, T) == [index : 0 .. cap - 1, stamp : T]
Table(K, cap, T) == UNION { [S -> Entry(cap, T)] : S \in SUBSET K }

\* No index is held by two keys.
Injective(t) == \A a, b \in DOMAIN t : t[a].index = t[b].index => a = b

\* A function on some of the keys is a table, and a table is one.
LEMMA TableIntro ==
    ASSUME NEW K, NEW cap, NEW T, NEW S \in SUBSET K, NEW t \in [S -> Entry(cap, T)]
    PROVE  t \in Table(K, cap, T)
BY DEF Table

LEMMA TableElim ==
    ASSUME NEW K, NEW cap, NEW T, NEW t \in Table(K, cap, T)
    PROVE  DOMAIN t \subseteq K /\ t \in [DOMAIN t -> Entry(cap, T)]
BY DEF Table

\* alloc_state's table
LEMMA EmptyFacts ==
    ASSUME NEW K, NEW cap, NEW T
    PROVE  EmptyTable \in Table(K, cap, T) /\ DOMAIN EmptyTable = {} /\ Injective(EmptyTable)
<1>1. DOMAIN EmptyTable = {} BY DEF EmptyTable
<1>2. EmptyTable \in [{} -> Entry(cap, T)] BY DEF EmptyTable
<1>3. EmptyTable \in Table(K, cap, T) BY <1>2, TableIntro
<1> QED BY <1>1, <1>3 DEF Injective

\* Taking keys away keeps the other entries as they are.
LEMMA RestrictFacts ==
    ASSUME NEW K, NEW cap, NEW T, NEW t \in Table(K, cap, T), NEW S \in SUBSET DOMAIN t
    PROVE  /\ Restrict(t, S) \in Table(K, cap, T)
           /\ DOMAIN Restrict(t, S) = S
           /\ \A a \in S : Restrict(t, S)[a] = t[a]
           /\ Injective(t) => Injective(Restrict(t, S))
<1>1. DOMAIN t \subseteq K /\ t \in [DOMAIN t -> Entry(cap, T)]
  BY TableElim
<1>2. Restrict(t, S) = [a \in S |-> t[a]]
  BY DEF Restrict
<1>3. [a \in S |-> t[a]] \in [S -> Entry(cap, T)] /\ S \in SUBSET K
  BY <1>1
<1>4. Restrict(t, S) \in Table(K, cap, T)
  BY <1>2, <1>3, TableIntro
<1> QED
  BY <1>2, <1>4 DEF Injective

\* expire_items_single_map keeps what was used since the deadline.
LEMMA ExpireFacts ==
    ASSUME NEW K, NEW cap, NEW T, NEW t \in Table(K, cap, T), NEW time,
           NEW e, e = expire_items_single_map(t, time)
    PROVE  /\ e \in Table(K, cap, T)
           /\ \A a : a \in DOMAIN e <=> a \in DOMAIN t /\ t[a].stamp >= time
           /\ \A a \in DOMAIN e : e[a] = t[a]
           /\ Injective(t) => Injective(e)
<1> DEFINE S == { a \in DOMAIN t : t[a].stamp >= time }
<1>1. S \in SUBSET DOMAIN t /\ e = Restrict(t, S)
  BY DEF expire_items_single_map
<1> HIDE DEF S
<1>2. /\ e \in Table(K, cap, T) /\ DOMAIN e = S /\ \A a \in S : e[a] = t[a]
      /\ Injective(t) => Injective(e)
  BY <1>1, RestrictFacts
<1> QED
  BY <1>2 DEF S

\* A new key gets a free index.
LEMMA EnterFacts ==
    ASSUME NEW K, NEW cap, NEW T, NEW t \in Table(K, cap, T),
           NEW k \in K, NEW x \in Free(t, cap), NEW time \in T, k \notin DOMAIN t,
           NEW e, e = Enter(t, k, x, time)
    PROVE  /\ e \in Table(K, cap, T)
           /\ DOMAIN e = DOMAIN t \cup {k}
           /\ e[k].index = x /\ e[k].stamp = time
           /\ \A a \in DOMAIN t : e[a] = t[a] /\ e[a].index # x
           /\ Injective(t) => Injective(e)
<1>1. DOMAIN t \subseteq K /\ t \in [DOMAIN t -> Entry(cap, T)]
  BY TableElim
<1>2. x \in 0 .. cap - 1 /\ \A a \in DOMAIN t : t[a].index # x
  BY DEF Free, InUse
<1> DEFINE new == [index |-> x, stamp |-> time]
<1>3. new \in Entry(cap, T)
  BY <1>2 DEF Entry
<1>4. new.index = x /\ new.stamp = time
  OBVIOUS
<1>5. e = [a \in DOMAIN t \cup {k} |-> IF a = k THEN new ELSE t[a]]
  BY DEF Enter
<1> HIDE DEF new
<1>6. e \in [DOMAIN t \cup {k} -> Entry(cap, T)] /\ DOMAIN t \cup {k} \in SUBSET K
  BY <1>1, <1>3, <1>5
<1>7. e \in Table(K, cap, T)
  BY <1>6, TableIntro
<1>8. e[k] = new /\ \A a \in DOMAIN t : e[a] = t[a] /\ e[a].index # x
  BY <1>2, <1>5
<1> QED
  BY <1>4, <1>5, <1>7, <1>8 DEF Injective, new

\* A key that is used gets a new stamp and keeps its index.
LEMMA RejuvenateFacts ==
    ASSUME NEW K, NEW cap, NEW T, NEW t \in Table(K, cap, T),
           NEW k \in DOMAIN t, NEW time \in T,
           NEW e, e = Rejuvenate(t, k, time)
    PROVE  /\ e \in Table(K, cap, T)
           /\ DOMAIN e = DOMAIN t
           /\ e[k].index = t[k].index /\ e[k].stamp = time
           /\ \A a \in DOMAIN t \ {k} : e[a] = t[a]
           /\ Injective(t) => Injective(e)
<1>1. DOMAIN t \subseteq K /\ t \in [DOMAIN t -> Entry(cap, T)]
  BY TableElim
<1>2. e = [t EXCEPT ![k].stamp = time]
  BY DEF Rejuvenate
<1>3. e \in [DOMAIN t -> Entry(cap, T)] /\ e[k].index = t[k].index /\ e[k].stamp = time
  BY <1>1, <1>2 DEF Entry
<1>4. \A a \in DOMAIN t \ {k} : e[a] = t[a]
  BY <1>1, <1>2
<1>5. e \in Table(K, cap, T)
  BY <1>1, <1>3, TableIntro
<1> QED
  BY <1>3, <1>4, <1>5 DEF Injective

------------------------------------------------------------------------------
(* The connection limiter.  A client's admitted flows never exceed any of   *)
(* its buckets, so the least of its buckets bounds them; and whatever is    *)
(* counted was counted after the last clean-up, which is recent.            *)

Sketches == [Row -> [Column -> Nat]]

\* The columns of the hash functions lie in the rows of the sketch.
LEMMA ColumnTyped == \A h \in Row, k \in Client : column(h, k) \in Column
<1> SUFFICES ASSUME NEW h \in Row, NEW k \in Client PROVE column(h, k) \in Column
  OBVIOUS
<1>1. crc[h][k] \in Nat
  BY SketchAssumption DEF Row
<1> QED
  BY <1>1, SketchAssumption DEF column, Column

\* cms_count_min returns one of the key's buckets, and none of them is less.
LEMMA CountMinIsLeast ==
    ASSUME NEW b \in Sketches, NEW k \in Client
    PROVE  \E g \in Row : cms_count_min(b, k) = b[g][column(g, k)]
<1> DEFINE S == { b[h][column(h, k)] : h \in Row }
<1>1. S \in SUBSET Nat /\ S # {}
  <2>1. 0 \in Row
    BY SketchAssumption DEF Row
  <2> QED
    BY <2>1, ColumnTyped DEF Sketches
<1>2. PICK m \in S : \A x \in S : m <= x
  BY <1>1, LeastOfNats
<1>3. \E x \in S : \A h \in Row : x <= b[h][column(h, k)]
  BY <1>2
<1>4. cms_count_min(b, k) \in S
  BY <1>3 DEF cms_count_min
<1> QED
  BY <1>4

\* cms_increment adds one to every bucket of the key and lowers none.
LEMMA IncrementRaises ==
    ASSUME NEW b \in Sketches, NEW k \in Client
    PROVE  /\ cms_increment(b, k) \in Sketches
           /\ \A h \in Row : cms_increment(b, k)[h][column(h, k)] = b[h][column(h, k)] + 1
           /\ \A h \in Row, c \in Column : cms_increment(b, k)[h][c] >= b[h][c]
BY ColumnTyped DEF cms_increment, Sketches

------------------------------------------------------------------------------
(* The limit                                                                *)

\* A client's admitted flows are counted in each of its buckets.
Covered(b, a) == \A h \in Row, k \in Client : a[k] <= b[h][column(h, k)]

LimitInv ==
    /\ buckets \in Sketches
    /\ admitted \in [Client -> Nat]
    /\ Covered(buckets, admitted)
    /\ LimitEnforced

\* A clear sketch covers clients that nothing was admitted for.
LEMMA LimitInit == Init => LimitInv
BY ColumnTyped, LimiterAssumption
   DEF Init, LimitInv, Sketches, ClearBuckets, Covered, LimitEnforced

\* The invariant holds of the sketch that a packet finds after the clean-up.
LEMMA LimitAt ==
    ASSUME LimitInv, NEW t
    PROVE  /\ BucketsAt(t) \in Sketches
           /\ AdmittedAt(t) \in [Client -> Nat]
           /\ Covered(BucketsAt(t), AdmittedAt(t))
           /\ \A k \in Client : AdmittedAt(t)[k] <= max_clients
<1>1. CASE CleanupDue(t)
  BY <1>1, ColumnTyped, LimiterAssumption
     DEF BucketsAt, AdmittedAt, Sketches, ClearBuckets, Covered
<1>2. CASE ~CleanupDue(t)
  BY <1>2 DEF BucketsAt, AdmittedAt, LimitInv, LimitEnforced
<1> QED
  BY <1>1, <1>2

\* Every packet keeps the limit: an admitted one was counted first.
LEMMA LimitNext == LimitInv /\ [Next]_vars => LimitInv'
<1> SUFFICES ASSUME LimitInv, [Next]_vars PROVE LimitInv'
  OBVIOUS
<1>1. CASE UNCHANGED vars
  BY <1>1 DEF vars, LimitInv, Covered, LimitEnforced
<1>2. ASSUME NEW t, NotCounted(t) PROVE LimitInv'
  BY <1>2, LimitAt DEF NotCounted, LimitInv, Covered, LimitEnforced
<1>3. ASSUME NEW t, NEW f \in Flow, NewFlow(t, f) PROVE LimitInv'
  <2> DEFINE c == f[1]
             b == BucketsAt(t)
             a == AdmittedAt(t)
             more == cms_increment(b, c)
  <2>1. c \in Client
    BY LimiterAssumption
  <2>2. /\ b \in Sketches /\ a \in [Client -> Nat] /\ Covered(b, a)
        /\ \A k \in Client : a[k] <= max_clients
    BY LimitAt
  <2>3. /\ buckets' = more
        /\ \/ admitted' = a
           \/ /\ ~(cms_count_min(more, c) > max_clients)
              /\ admitted' = [a EXCEPT ![c] = @ + 1]
    BY <1>3 DEF NewFlow, Estimate
  <2> HIDE DEF a, b, c
  <2>4. /\ more \in Sketches
        /\ \A h \in Row : more[h][column(h, c)] = b[h][column(h, c)] + 1
        /\ \A h \in Row, x \in Column : more[h][x] >= b[h][x]
    BY <2>1, <2>2, IncrementRaises
  <2> HIDE DEF more
  <2>5. Covered(more, a)
    <3> SUFFICES ASSUME NEW h \in Row, NEW k \in Client
                 PROVE  a[k] <= more[h][column(h, k)]
      BY DEF Covered
    <3>1. column(h, k) \in Column
      BY ColumnTyped
    <3>2. a[k] <= b[h][column(h, k)] /\ b[h][column(h, k)] <= more[h][column(h, k)]
      BY <2>2, <2>4, <3>1 DEF Covered
    <3>3. a[k] \in Nat /\ b[h][column(h, k)] \in Nat /\ more[h][column(h, k)] \in Nat
      BY <2>2, <2>4, <3>1 DEF Sketches
    <3> QED
      BY <3>2, <3>3
  <2>6. CASE admitted' = a
    BY <2>2, <2>3, <2>4, <2>5, <2>6 DEF LimitInv, Covered, LimitEnforced
  <2>7. CASE ~(cms_count_min(more, c) > max_clients) /\ admitted' = [a EXCEPT ![c] = @ + 1]
    <3>1. PICK g \in Row : cms_count_min(more, c) = more[g][column(g, c)]
      BY <2>1, <2>4, CountMinIsLeast
    <3>2. a[c] + 1 <= more[g][column(g, c)] /\ more[g][column(g, c)] \in Nat /\ a[c] \in Nat
      BY <2>1, <2>2, <2>4, ColumnTyped DEF Covered, Sketches
    <3>3. a[c] + 1 <= max_clients
      BY <2>7, <3>1, <3>2, LimiterAssumption
    <3>4. admitted' \in [Client -> Nat] /\ admitted'[c] = a[c] + 1
      BY <2>1, <2>2, <2>7
    <3>5. \A k \in Client \ {c} : admitted'[k] = a[k]
      BY <2>1, <2>2, <2>7
    <3>6. \A k \in Client : admitted'[k] <= max_clients
      BY <2>2, <3>3, <3>4, <3>5
    <3>7. \A h \in Row, k \in Client : admitted'[k] <= more[h][column(h, k)]
      <4> SUFFICES ASSUME NEW h \in Row, NEW k \in Client
                   PROVE  admitted'[k] <= more[h][column(h, k)]
        OBVIOUS
      <4>1. CASE k = c
        BY <2>1, <2>2, <2>4, <3>4, <4>1, ColumnTyped DEF Covered, Sketches
      <4>2. CASE k # c
        BY <2>5, <3>5, <4>2 DEF Covered
      <4> QED
        BY <4>1, <4>2
    <3> QED
      BY <2>3, <2>4, <3>4, <3>6, <3>7 DEF LimitInv, Covered, LimitEnforced
  <2> QED
    BY <2>3, <2>6, <2>7
<1> QED
  BY <1>1, <1>2, <1>3 DEF Next, NotLimited, Tracked

\* Whatever the hash functions, a client gets at most max_clients new flows
\* through between two clean-ups: the sketch may count too much for it, and
\* never too little.
THEOREM LimiterEnforcesLimit == Spec => []LimitEnforced
<1>1. LimitInv => LimitEnforced
  BY DEF LimitInv
<1> QED
  BY LimitInit, LimitNext, <1>1, PTL DEF Spec

------------------------------------------------------------------------------
(* The window                                                               *)

\* What is counted was counted after the last clean-up, and that is recent.
WindowInv ==
    /\ now \in Nat \ {0} /\ since \in Nat /\ last_cleanup \in Nat
    /\ attempts \in [Client -> Nat]
    /\ last_cleanup <= now
    /\ last_cleanup = 0 => \A c \in Client : attempts[c] = 0
    /\ (\E c \in Client : attempts[c] > 0) =>
            last_cleanup <= since /\ now - last_cleanup < cleanup_interval

\* Every packet keeps what is counted within the window.
LEMMA WindowNext == WindowInv /\ [Next]_vars => WindowInv'
<1> SUFFICES ASSUME WindowInv, [Next]_vars PROVE WindowInv'
  OBVIOUS
<1> USE LimiterAssumption DEF WindowInv
<1>1. CASE UNCHANGED vars
  BY <1>1 DEF vars
<1>2. ASSUME NEW t \in now .. MaxTime, MoveTo(t), NotCounted(t) PROVE WindowInv'
  BY <1>2 DEF MoveTo, NotCounted, AttemptsAt, CleanupDue
<1>3. ASSUME NEW t \in now .. MaxTime, NEW f \in Flow, NewFlow(t, f) PROVE WindowInv'
  <2>1. /\ MoveTo(t)
        /\ attempts' = [AttemptsAt(t) EXCEPT ![f[1]] = @ + 1]
        /\ since' = IF \A d \in Client : AttemptsAt(t)[d] = 0 THEN t ELSE since
    BY <1>3 DEF NewFlow
  <2>2. f[1] \in Client
    OBVIOUS
  <2>3. AttemptsAt(t) \in [Client -> Nat]
    BY DEF AttemptsAt
  <2>4. attempts' \in [Client -> Nat]
    BY <2>1, <2>2, <2>3
  <2>5. /\ now' = t /\ t \in Nat \ {0}
        /\ last_cleanup' \in Nat \ {0} /\ last_cleanup' <= t
        /\ t - last_cleanup' < cleanup_interval
    BY <2>1 DEF MoveTo, CleanupDue
  <2>6. since' \in Nat /\ last_cleanup' <= since'
    <3>1. CASE \A d \in Client : AttemptsAt(t)[d] = 0
      BY <2>1, <2>5, <3>1
    <3>2. CASE ~\A d \in Client : AttemptsAt(t)[d] = 0
      <4>1. ~CleanupDue(t) /\ \E d \in Client : attempts[d] > 0
        BY <3>2 DEF AttemptsAt
      <4>2. last_cleanup' = last_cleanup
        BY <2>1, <4>1 DEF MoveTo
      <4> QED
        BY <2>1, <3>2, <4>1, <4>2
    <3> QED
      BY <3>1, <3>2
  <2> QED
    BY <2>4, <2>5, <2>6
<1> QED
  BY <1>1, <1>2, <1>3 DEF Next, NotLimited, Tracked

\* A client is judged by what it did within the last cleanup_interval, however
\* rare the packets are that run the clean-up.
THEOREM LimiterForgets == Spec => []WindowBounded
<1>1. Init => WindowInv
  BY DEF Init, WindowInv
<1>2. WindowInv => WindowBounded
  BY LimiterAssumption DEF WindowInv, WindowBounded
<1> QED
  BY <1>1, <1>2, WindowNext, PTL DEF Spec

------------------------------------------------------------------------------
(* Types                                                                    *)

Stamps == 1 .. MaxTime

FlowsTyped == flows \in Table(Flow, max_flows, Stamps)

\* Ageing keeps entries as they are.
LEMMA AgedTyped ==
    ASSUME FlowsTyped, NEW t
    PROVE  FlowsAt(t) \in Table(Flow, max_flows, Stamps)
BY ExpireFacts DEF FlowsTyped, FlowsAt

CountsTyped ==
    /\ attempts \in [Client -> 0 .. MaxAttempts]
    /\ admitted \in [Client -> Nat]
    /\ \A c \in Client : admitted[c] <= attempts[c]
    /\ last_cleanup \in 0 .. MaxTime /\ now \in 1 .. MaxTime

TypeInv == FlowsTyped /\ CountsTyped /\ LimitInv

\* alloc_state establishes the types.
LEMMA TypeInit == Init => TypeInv
<1> SUFFICES ASSUME Init PROVE TypeInv
  OBVIOUS
<1>1. FlowsTyped
  BY EmptyFacts DEF Init, FlowsTyped
<1>2. CountsTyped
  BY LimiterAssumption DEF Init, CountsTyped
<1> QED
  BY <1>1, <1>2, LimitInit DEF TypeInv

\* Every packet keeps the types.
LEMMA TypeNext == TypeInv /\ [Next]_vars => TypeInv'
<1> SUFFICES ASSUME TypeInv, [Next]_vars PROVE TypeInv'
  OBVIOUS
<1>0. FlowsTyped /\ CountsTyped /\ LimitInv /\ LimitInv'
  BY LimitNext DEF TypeInv
<1>1. CASE UNCHANGED vars
  BY <1>0, <1>1 DEF TypeInv, vars, FlowsTyped, CountsTyped
<1>a. ASSUME NEW t \in now .. MaxTime, MoveTo(t)
      PROVE  /\ t \in 1 .. MaxTime
             /\ now' \in 1 .. MaxTime /\ last_cleanup' \in 0 .. MaxTime
             /\ AttemptsAt(t) \in [Client -> 0 .. MaxAttempts]
             /\ AdmittedAt(t) \in [Client -> Nat]
             /\ \A c \in Client : AdmittedAt(t)[c] <= AttemptsAt(t)[c]
  <2>1. t \in 1 .. MaxTime /\ now' \in 1 .. MaxTime /\ last_cleanup' \in 0 .. MaxTime
    BY <1>0, <1>a, LimiterAssumption DEF MoveTo, CountsTyped
  <2>2. 0 \in 0 .. MaxAttempts
    BY LimiterAssumption
  <2> QED
    BY <1>0, <2>1, <2>2 DEF AttemptsAt, AdmittedAt, CountsTyped
<1>2. ASSUME NEW t \in now .. MaxTime, NotLimited(t) PROVE TypeInv'
  BY <1>0, <1>2, <1>a, AgedTyped DEF NotLimited, NotCounted, TypeInv, FlowsTyped, CountsTyped
<1>3. ASSUME NEW t \in now .. MaxTime, NEW f \in Flow, Tracked(t, f) PROVE TypeInv'
  <2>1. FlowsAt(t) \in Table(Flow, max_flows, Stamps) /\ MoveTo(t) /\ NotCounted(t)
        /\ flows' = Rejuvenate(FlowsAt(t), f, t) /\ f \in DOMAIN FlowsAt(t)
    BY <1>0, <1>3, AgedTyped DEF Tracked
  <2>4. FlowsTyped'
    <3>1. t \in Stamps
      BY <1>a, <2>1 DEF Stamps
    <3>2. flows' \in Table(Flow, max_flows, Stamps)
      BY <2>1, <3>1, RejuvenateFacts
    <3> QED
      BY <3>2 DEF FlowsTyped
  <2> QED
    BY <1>0, <1>a, <2>1, <2>4 DEF NotCounted, TypeInv, CountsTyped
<1>4. ASSUME NEW t \in now .. MaxTime, NEW f \in Flow, NewFlow(t, f) PROVE TypeInv'
  <2> DEFINE c == f[1]
  <2>1. /\ MoveTo(t) /\ AttemptsAt(t)[c] < MaxAttempts
        /\ attempts' = [AttemptsAt(t) EXCEPT ![c] = @ + 1]
        /\ \/ admitted' = AdmittedAt(t)
           \/ admitted' = [AdmittedAt(t) EXCEPT ![c] = @ + 1]
        /\ \/ flows' = FlowsAt(t)
           \/ \E x \in Free(FlowsAt(t), max_flows) : flows' = Enter(FlowsAt(t), f, x, t)
        /\ f \notin DOMAIN FlowsAt(t)
    BY <1>4 DEF NewFlow
  <2>2. c \in Client
    BY LimiterAssumption
  <2>3. FlowsAt(t) \in Table(Flow, max_flows, Stamps)
    BY <1>0, AgedTyped
  <2>4. FlowsTyped'
    <3>1. CASE flows' = FlowsAt(t)
      BY <2>3, <3>1 DEF FlowsTyped
    <3>2. ASSUME NEW x \in Free(FlowsAt(t), max_flows), flows' = Enter(FlowsAt(t), f, x, t)
          PROVE  FlowsTyped'
      <4> DEFINE tracked == FlowsAt(t)
      <4>1. t \in Stamps /\ f \notin DOMAIN tracked
        BY <1>a, <2>1 DEF Stamps
      <4>2. tracked \in Table(Flow, max_flows, Stamps) /\ x \in Free(tracked, max_flows)
            /\ flows' = Enter(tracked, f, x, t)
        BY <2>3, <3>2
      <4> HIDE DEF tracked
      <4>3. flows' \in Table(Flow, max_flows, Stamps)
        BY <4>1, <4>2, EnterFacts
      <4> QED
        BY <4>3 DEF FlowsTyped
    <3> QED
      BY <2>1, <3>1, <3>2
  <2> HIDE DEF c
  <2>5. attempts' \in [Client -> 0 .. MaxAttempts]
    BY <1>a, <2>1, <2>2, LimiterAssumption
  <2>6. admitted' \in [Client -> Nat] /\ \A k \in Client : admitted'[k] <= attempts'[k]
    BY <1>a, <2>1, <2>2, LimiterAssumption
  <2> QED
    BY <1>0, <1>a, <2>1, <2>4, <2>5, <2>6 DEF TypeInv, CountsTyped
<1> QED
  BY <1>1, <1>2, <1>3, <1>4 DEF Next

\* Every variable keeps its type: entries have indexes below max_flows, however
\* flows come, expire and come back.
THEOREM LimiterTypeCorrect == Spec => []TypeOK
<1>1. TypeInv => TypeOK
  <2> SUFFICES ASSUME TypeInv PROVE TypeOK
    OBVIOUS
  <2>1. flows \in Tables(Flow, max_flows, 1 .. MaxTime)
    BY DEF TypeInv, FlowsTyped, Stamps, Table, Tables, Entry
  <2>2. admitted \in [Client -> 0 .. MaxAttempts]
    BY LimiterAssumption DEF TypeInv, CountsTyped
  <2> QED
    BY <2>1, <2>2 DEF TypeInv, CountsTyped, LimitInv, Sketches, TypeOK
<1> QED
  BY TypeInit, TypeNext, <1>1, PTL DEF Spec

------------------------------------------------------------------------------
(* The key value cache.  That hits show the latest PUT is inductive         *)
(* together with the table: no two keys share an index, so a value written  *)
(* for one key never shows under another.                                   *)

Times == Int

CacheInv ==
    /\ kvs \in Table(Key, KvCapacity, Times) /\ Injective(kvs)
    /\ values \in [Cache!Index -> Value \cup {None}]
    /\ latest \in [Key -> Value \cup {None}]
    /\ HitsLatest

\* The cache and the balancer use the same table.
LEMMA CacheTable ==
    /\ Cache!EmptyTable = EmptyTable
    /\ \A t, time : Cache!expire_items_single_map(t, time) = expire_items_single_map(t, time)
    /\ \A t, k, time : Cache!Rejuvenate(t, k, time) = Rejuvenate(t, k, time)
    /\ \A t, k, x, time : Cache!Enter(t, k, x, time) = Enter(t, k, x, time)
    /\ \A t, cap : Cache!Free(t, cap) = Free(t, cap)
BY DEF Cache!EmptyTable, EmptyTable, Cache!expire_items_single_map, expire_items_single_map,
       Cache!Restrict, Restrict, Cache!Rejuvenate, Rejuvenate, Cache!Enter, Enter,
       Cache!Free, Free, Cache!InUse, InUse

\* The cache begins empty.
LEMMA CacheInit == Cache!Init => CacheInv
<1> SUFFICES ASSUME Cache!Init PROVE CacheInv
  OBVIOUS
<1>1. kvs = EmptyTable
  BY CacheTable DEF Cache!Init
<1>2. kvs \in Table(Key, KvCapacity, Times) /\ Injective(kvs) /\ DOMAIN kvs = {}
  BY <1>1, EmptyFacts
<1> QED
  BY <1>2 DEF Cache!Init, CacheInv, HitsLatest, Cache!HitsLatest

\* kvs_expire only takes keys away.
LEMMA CacheExpires ==
    ASSUME CacheInv, NEW t, NEW cached, cached = Cache!kvs_expire(t)
    PROVE  /\ cached \in Table(Key, KvCapacity, Times) /\ Injective(cached)
           /\ DOMAIN cached \subseteq DOMAIN kvs /\ DOMAIN kvs \subseteq Key
           /\ \A k \in DOMAIN cached :
                /\ cached[k].index \in Cache!Index
                /\ values[cached[k].index] = latest[k]
<1> DEFINE deadline == t - KvExpiration
<1>1. cached = expire_items_single_map(kvs, deadline)
  BY CacheTable DEF Cache!kvs_expire
<1> HIDE DEF deadline
<1>2. kvs \in Table(Key, KvCapacity, Times) /\ Injective(kvs)
  BY DEF CacheInv
<1>3. /\ cached \in Table(Key, KvCapacity, Times)
      /\ \A k : k \in DOMAIN cached <=> k \in DOMAIN kvs /\ kvs[k].stamp >= deadline
      /\ \A k \in DOMAIN cached : cached[k] = kvs[k]
      /\ Injective(cached)
  BY <1>1, <1>2, ExpireFacts
<1>4. DOMAIN kvs \subseteq Key /\ kvs \in [DOMAIN kvs -> Entry(KvCapacity, Times)]
  BY <1>2, TableElim
<1>5. \A k \in DOMAIN cached : cached[k].index \in Cache!Index
  BY <1>3, <1>4 DEF Entry, Cache!Index
<1>6. \A k \in DOMAIN cached : values[cached[k].index] = latest[k]
  BY <1>3 DEF CacheInv, HitsLatest, Cache!HitsLatest
<1> QED
  BY <1>3, <1>4, <1>5, <1>6

\* A PUT that is answered: the key's cell gets the value, in place or in a
\* free index.
LEMMA CachePut ==
    ASSUME CacheInv, NEW t \in Times, NEW d, NEW k \in Key, NEW v \in Value,
           Cache!PutCached(t, d, k, v)
    PROVE  CacheInv'
<1> DEFINE cached == Cache!kvs_expire(t)
<1>1. /\ cached \in Table(Key, KvCapacity, Times) /\ Injective(cached)
      /\ DOMAIN cached \subseteq Key
      /\ \A j \in DOMAIN cached :
            /\ cached[j].index \in Cache!Index
            /\ values[cached[j].index] = latest[j]
  BY CacheExpires
<1>2. /\ \/ /\ k \in DOMAIN cached
            /\ kvs' = Rejuvenate(cached, k, t)
            /\ values' = [values EXCEPT ![cached[k].index] = v]
         \/ /\ k \notin DOMAIN cached
            /\ \E x \in Free(cached, KvCapacity) :
                  /\ kvs' = Enter(cached, k, x, t)
                  /\ values' = [values EXCEPT ![x] = v]
      /\ latest' = [latest EXCEPT ![k] = v]
  BY CacheTable DEF Cache!PutCached, Cache!WriteHit, Cache!WriteNew
<1>3. values \in [Cache!Index -> Value \cup {None}] /\ latest \in [Key -> Value \cup {None}]
  BY DEF CacheInv
<1> HIDE DEF cached
<1>4. latest' \in [Key -> Value \cup {None}] /\ latest'[k] = v
      /\ \A j \in Key \ {k} : latest'[j] = latest[j]
  BY <1>2, <1>3
<1>5. ASSUME k \in DOMAIN cached, kvs' = Rejuvenate(cached, k, t),
             values' = [values EXCEPT ![cached[k].index] = v]
      PROVE  CacheInv'
  <2>1. /\ kvs' \in Table(Key, KvCapacity, Times) /\ Injective(kvs')
        /\ DOMAIN kvs' = DOMAIN cached /\ kvs'[k].index = cached[k].index
        /\ \A j \in DOMAIN cached \ {k} : kvs'[j] = cached[j]
    BY <1>1, <1>5, RejuvenateFacts
  <2>2. ASSUME NEW j \in DOMAIN kvs' PROVE values'[kvs'[j].index] = latest'[j]
    <3>1. CASE j = k
      BY <1>1, <1>3, <1>4, <1>5, <2>1, <3>1
    <3>2. CASE j # k
      <4>1. cached[j].index # cached[k].index
        BY <1>1, <1>5, <2>1, <3>2 DEF Injective
      <4> QED
        BY <1>1, <1>3, <1>4, <1>5, <2>1, <3>2, <4>1
    <3> QED
      BY <3>1, <3>2
  <2>3. values' \in [Cache!Index -> Value \cup {None}]
    BY <1>3, <1>5
  <2> QED
    BY <1>4, <2>1, <2>2, <2>3 DEF CacheInv, Injective, HitsLatest, Cache!HitsLatest
<1>6. ASSUME k \notin DOMAIN cached, NEW x \in Free(cached, KvCapacity),
             kvs' = Enter(cached, k, x, t), values' = [values EXCEPT ![x] = v]
      PROVE  CacheInv'
  <2>1. /\ kvs' \in Table(Key, KvCapacity, Times) /\ Injective(kvs')
        /\ DOMAIN kvs' = DOMAIN cached \cup {k} /\ kvs'[k].index = x
        /\ \A j \in DOMAIN cached : kvs'[j] = cached[j] /\ kvs'[j].index # x
    BY <1>1, <1>6, EnterFacts
  <2>2. x \in Cache!Index
    BY DEF Free, Cache!Index
  <2>3. ASSUME NEW j \in DOMAIN kvs' PROVE values'[kvs'[j].index] = latest'[j]
    <3>1. CASE j = k
      BY <1>3, <1>4, <1>6, <2>1, <2>2, <3>1
    <3>2. CASE j # k
      BY <1>1, <1>3, <1>4, <1>6, <2>1, <3>2
    <3> QED
      BY <3>1, <3>2
  <2>4. values' \in [Cache!Index -> Value \cup {None}]
    BY <1>3, <1>6
  <2> QED
    BY <1>4, <2>1, <2>3, <2>4 DEF CacheInv, Injective, HitsLatest, Cache!HitsLatest
<1> QED
  BY <1>2, <1>5, <1>6

\* Every packet and every reply keeps the invariant.
LEMMA CacheNext == CacheInv /\ [Cache!Next]_(Cache!vars) => CacheInv'
<1> SUFFICES ASSUME CacheInv, [Cache!Next]_(Cache!vars) PROVE CacheInv'
  OBVIOUS
<1>1. CASE UNCHANGED <<kvs, values, latest>>
  BY <1>1 DEF CacheInv, Injective, HitsLatest, Cache!HitsLatest
<1>2. ASSUME NEW t \in Times, kvs' = Cache!kvs_expire(t), UNCHANGED <<values, latest>>
      PROVE  CacheInv'
  <2>1. /\ kvs' \in Table(Key, KvCapacity, Times) /\ Injective(kvs')
        /\ \A k \in DOMAIN kvs' : values[kvs'[k].index] = latest[k]
    BY <1>2, CacheExpires
  <2> QED
    BY <1>2, <2>1 DEF CacheInv, Injective, HitsLatest, Cache!HitsLatest
<1>3. ASSUME NEW t \in Times, NEW d, NEW k \in Key, Cache!GetHit(t, d, k)
      PROVE  CacheInv'
  <2> DEFINE cached == Cache!kvs_expire(t)
  <2>1. /\ k \in DOMAIN cached /\ kvs' = Rejuvenate(cached, k, t)
        /\ UNCHANGED <<values, latest>>
    BY <1>3, CacheTable DEF Cache!GetHit
  <2>2. /\ cached \in Table(Key, KvCapacity, Times) /\ Injective(cached)
        /\ \A j \in DOMAIN cached : values[cached[j].index] = latest[j]
    BY CacheExpires
  <2> HIDE DEF cached
  <2>3. /\ kvs' \in Table(Key, KvCapacity, Times) /\ Injective(kvs')
        /\ DOMAIN kvs' = DOMAIN cached /\ kvs'[k].index = cached[k].index
        /\ \A j \in DOMAIN cached \ {k} : kvs'[j] = cached[j]
    BY <2>1, <2>2, RejuvenateFacts
  <2>4. \A j \in DOMAIN kvs' : values[kvs'[j].index] = latest[j]
    BY <2>2, <2>3
  <2> QED
    BY <2>1, <2>3, <2>4 DEF CacheInv, Injective, HitsLatest, Cache!HitsLatest
<1>4. ASSUME NEW t \in Times, NEW d, NEW k \in Key, NEW op, NEW v \in Value \cup {None},
             op = "PUT" => v \in Value, Cache!Forward(t, d, op, k, v)
      PROVE  CacheInv'
  <2> DEFINE cached == Cache!kvs_expire(t)
  <2>1. /\ k \notin DOMAIN cached /\ kvs' = cached /\ values' = values
        /\ latest' = IF op = "PUT" THEN [latest EXCEPT ![k] = v] ELSE latest
    BY <1>4 DEF Cache!Forward
  <2>2. /\ cached \in Table(Key, KvCapacity, Times) /\ Injective(cached)
        /\ DOMAIN cached \subseteq Key
        /\ \A j \in DOMAIN cached : values[cached[j].index] = latest[j]
    BY CacheExpires
  <2> HIDE DEF cached
  <2>3. latest' \in [Key -> Value \cup {None}] /\ \A j \in Key \ {k} : latest'[j] = latest[j]
    BY <2>1 DEF CacheInv
  <2>4. \A j \in DOMAIN cached : values[cached[j].index] = latest'[j]
    BY <2>1, <2>2, <2>3
  <2> QED
    BY <2>1, <2>2, <2>3, <2>4 DEF CacheInv, Injective, HitsLatest, Cache!HitsLatest
<1>5. ASSUME NEW t \in kvNow .. KvMaxTime PROVE t \in Times
  BY DEF Times
<1>6. ASSUME NEW t \in Times, Cache!Malformed(t) PROVE CacheInv'
  BY <1>2, <1>6 DEF Cache!Malformed
<1>7. ASSUME NEW t \in Times, NEW r \in replies, Cache!Reply(t, r) PROVE CacheInv'
  BY <1>2, <1>7 DEF Cache!Reply
<1>8. ASSUME NEW r, Cache!Serve(r) PROVE CacheInv'
  BY <1>1, <1>8 DEF Cache!Serve
<1>9. ASSUME NEW t \in Times, NEW d \in KvClient, NEW k \in Key,
             \/ Cache!GetHit(t, d, k) \/ Cache!Forward(t, d, "GET", k, None)
             \/ \E v \in Value : Cache!PutCached(t, d, k, v) \/ Cache!Forward(t, d, "PUT", k, v)
      PROVE  CacheInv'
  BY <1>3, <1>4, <1>9, CachePut
<1> QED
  BY <1>1, <1>5, <1>6, <1>7, <1>8, <1>9 DEF Cache!Next, Cache!vars

\* What the cache answers is the key's last PUT, for any keys, values, clients
\* and capacity, however requests to the server are delayed and reordered.
THEOREM CacheHitsLatest == Cache!Spec => []HitsLatest
<1>1. CacheInv => HitsLatest
  BY DEF CacheInv
<1> QED
  BY CacheInit, CacheNext, <1>1, PTL DEF Cache!Spec

------------------------------------------------------------------------------
(* The consistent hash table.  For a height that is prime each backend      *)
(* names each row in one round, which orders the backends of a row; a       *)
(* backend's place is the number of those that come before it.              *)

\* Quotient and remainder
LEMMA DivMod ==
    ASSUME NEW a \in Nat, NEW d \in Nat \ {0}
    PROVE  /\ a \div d \in Nat /\ a % d \in 0 .. d - 1
           /\ a = d * (a \div d) + (a % d)
OBVIOUS

\* ... are the only ones.
LEMMA DivModUnique ==
    ASSUME NEW q \in Nat, NEW d \in Nat \ {0}, NEW r \in 0 .. d - 1
    PROVE  (q * d + r) \div d = q /\ (q * d + r) % d = r
OBVIOUS

\* A prime divides no product of two numbers below it.
LEMMA PrimeApart ==
    ASSUME NEW h \in Nat, is_prime(h), NEW s \in 1 .. h - 1, NEW m \in 1 .. h - 1,
           NEW q \in Nat
    PROVE  s * m # h * q
<1> DEFINE D == { x \in 1 .. h - 1 : \E y \in Nat : s * x = h * y }
<1>1. SUFFICES D = {}
  OBVIOUS
<1>2. SUFFICES ASSUME D # {} PROVE FALSE
  OBVIOUS
<1>3. PICK x \in D : \A z \in D : x <= z
  <2>1. D \in SUBSET Nat
    OBVIOUS
  <2> HIDE DEF D
  <2> QED
    BY <1>2, <2>1, LeastOfNats
<1>4. PICK y \in Nat : s * x = h * y
  OBVIOUS
<1>5. x # 1
  <2> SUFFICES ASSUME x = 1 PROVE FALSE
    OBVIOUS
  <2>1. s = h * y
    BY <1>4
  <2>2. CASE y = 0
    BY <2>1, <2>2
  <2>3. CASE y >= 1
    <3>1. h * y >= h
      BY <2>3
    <3> QED
      BY <2>1, <3>1
  <2> QED
    BY <2>2, <2>3
<1>6. h % x # 0
  <2>1. x \in 2 .. h - 1
    BY <1>5
  <2> HIDE DEF D
  <2> QED
    BY <2>1 DEF is_prime
<1> DEFINE e == h \div x
           r == h % x
<1>7. e \in Nat /\ r \in 1 .. x - 1 /\ h = x * e + r
  <2>1. x \in Nat \ {0}
    OBVIOUS
  <2> HIDE DEF D
  <2>2. e \in Nat /\ r \in 0 .. x - 1 /\ h = x * e + r
    BY <2>1, DivMod
  <2> QED
    BY <1>6, <2>2
<1> HIDE DEF e, r
<1>8. r \in D
  <2>1. s * r = s * h - s * (x * e)
    BY <1>7
  <2>2. s * (x * e) = (s * x) * e
    BY <1>7
  <2>3. s * r = h * (s - y * e)
    BY <1>4, <1>7, <2>1, <2>2
  <2>4. s - y * e \in Nat
    <3> SUFFICES ASSUME s - y * e < 0 PROVE FALSE
      BY <1>7
    <3>1. h * (s - y * e) < 0
      BY <1>7
    <3>2. s * r >= 0
      BY <1>7
    <3>3. s * r \in Int /\ h * (s - y * e) \in Int
      BY <1>7
    <3> QED
      BY <2>3, <3>1, <3>2, <3>3
  <2> QED
    BY <1>7, <2>3, <2>4
<1> QED
  BY <1>3, <1>7, <1>8

\* The rounds lead a backend to each row once.
LEMMA PermutationOnce ==
    ASSUME NEW h \in Nat, is_prime(h), NEW b \in Nat,
           NEW k1 \in 0 .. h - 1, NEW k2 \in 0 .. h - 1, k1 < k2
    PROVE  Permutation(b, k1, h) # Permutation(b, k2, h)
<1> DEFINE o == (31 * b) % h
           s == (b % (h - 1)) + 1
           m == k2 - k1
<1> SUFFICES ASSUME (o + s * k1) % h = (o + s * k2) % h PROVE FALSE
  BY DEF Permutation
<1>1. h >= 2 /\ m \in 1 .. h - 1
  BY DEF is_prime
<1>2. o \in Nat /\ s \in 1 .. h - 1
  <2>1. h \in Nat \ {0} /\ 31 * b \in Nat
    BY <1>1
  <2>2. h - 1 \in Nat \ {0}
    BY <1>1
  <2>3. (31 * b) % h \in Nat
    BY <2>1, DivMod
  <2>4. b % (h - 1) \in 0 .. (h - 1) - 1
    BY <2>2, DivMod
  <2> QED
    BY <2>3, <2>4
<1> HIDE DEF o, s
<1> DEFINE a1 == o + s * k1
           a2 == o + s * k2
<1>3. a1 \in Nat /\ a2 \in Nat /\ a2 = a1 + s * m
  BY <1>1, <1>2
<1>4. s * m >= 0
  BY <1>1, <1>2
<1>5. a1 % h = a2 % h
  OBVIOUS
<1> HIDE DEF a1, a2, m
<1>6. /\ a1 \div h \in Nat /\ a1 = h * (a1 \div h) + (a1 % h)
      /\ a2 \div h \in Nat /\ a2 = h * (a2 \div h) + (a2 % h)
      /\ a1 % h \in 0 .. h - 1
  <2>1. h \in Nat \ {0}
    BY <1>1
  <2>2. a1 \in Nat /\ a2 \in Nat
    BY <1>3
  <2> QED
    BY <2>1, <2>2, DivMod
<1> DEFINE q1 == a1 \div h
           q2 == a2 \div h
<1>7. q1 \in Nat /\ q2 \in Nat /\ s * m = h * q2 - h * q1
  BY <1>1, <1>2, <1>3, <1>5, <1>6
<1> HIDE DEF q1, q2
<1>8. s * m = h * (q2 - q1)
  BY <1>7
<1>9. q2 - q1 \in Nat
  <2> SUFFICES ASSUME q2 - q1 < 0 PROVE FALSE
    BY <1>7
  <2>1. h * (q2 - q1) < 0
    BY <1>1, <1>7
  <2>2. s * m \in Int
    BY <1>1, <1>2
  <2> QED
    BY <1>4, <1>8, <2>1, <2>2
<1> QED
  BY <1>1, <1>2, <1>8, <1>9, PrimeApart

\* Hence to every row: Round is the round that does.
LEMMA RoundFacts ==
    ASSUME NEW h \in Nat, is_prime(h), NEW b \in Nat
    PROVE  /\ \A r \in Rows(h) :
                 Round(b, r, h) \in 0 .. h - 1 /\ Permutation(b, Round(b, r, h), h) = r
           /\ \A k \in 0 .. h - 1 :
                 Permutation(b, k, h) \in Rows(h) /\ Round(b, Permutation(b, k, h), h) = k
<1> DEFINE f == [k \in 0 .. h - 1 |-> Permutation(b, k, h)]
<1>1. h >= 2
  BY DEF is_prime
<1>2. \A k \in 0 .. h - 1 : Permutation(b, k, h) \in 0 .. h - 1
  <2> SUFFICES ASSUME NEW k \in 0 .. h - 1 PROVE Permutation(b, k, h) \in 0 .. h - 1
    OBVIOUS
  <2> DEFINE o == (31 * b) % h
             s == (b % (h - 1)) + 1
  <2>1. o \in Nat /\ s \in Nat
    <3>1. h \in Nat \ {0} /\ 31 * b \in Nat /\ h - 1 \in Nat \ {0}
      BY <1>1
    <3> QED
      BY <3>1, DivMod
  <2> HIDE DEF o, s
  <2> DEFINE a == o + s * k
  <2>2. a \in Nat /\ h \in Nat \ {0}
    BY <1>1, <2>1
  <2> HIDE DEF a
  <2>3. a % h \in 0 .. h - 1
    BY <2>2, DivMod
  <2> QED
    BY <2>3 DEF Permutation, a, o, s
<1>3. \A k1, k2 \in 0 .. h - 1 :
          Permutation(b, k1, h) = Permutation(b, k2, h) => k1 = k2
  <2> SUFFICES ASSUME NEW k1 \in 0 .. h - 1, NEW k2 \in 0 .. h - 1,
                      Permutation(b, k1, h) = Permutation(b, k2, h), k1 # k2
               PROVE  FALSE
    OBVIOUS
  <2>1. CASE k1 < k2
    BY <2>1, PermutationOnce
  <2>2. CASE k2 < k1
    BY <2>2, PermutationOnce
  <2> QED
    BY <2>1, <2>2
<1>4. f \in Injection(0 .. h - 1, 0 .. h - 1)
  BY <1>2, <1>3, Zenon DEF Injection, IsInjective
<1>5. IsFiniteSet(0 .. h - 1)
  BY FS_Interval
<1>6. f \in Surjection(0 .. h - 1, 0 .. h - 1)
  BY <1>4, <1>5, FS_Injection
<1>7. \A r \in 0 .. h - 1 : \E k \in 0 .. h - 1 : Permutation(b, k, h) = r
  BY <1>6 DEF Surjection
<1>8. \A r \in Rows(h) :
          Round(b, r, h) \in 0 .. h - 1 /\ Permutation(b, Round(b, r, h), h) = r
  BY <1>7, Zenon DEF Rows, Round
<1> QED
  BY <1>2, <1>3, <1>8, Zenon DEF Rows

\* A round's positions are rounds and rows.
LEMMA RoundTyped ==
    ASSUME NEW h \in Nat, is_prime(h), NEW b \in Nat, NEW r \in Rows(h)
    PROVE  Round(b, r, h) \in Nat /\ Round(b, r, h) \in 0 .. h - 1
<1>1. Round(b, r, h) \in 0 .. h - 1
  BY RoundFacts
<1> QED
  BY <1>1

\* The order of preference of row r: rank is how many backends come before.
Preceding(b, r, h, m) == { a \in 0 .. m - 1 : Before(a, b, r, h) }
Rank(b, r, h, m) == Cardinality(Preceding(b, r, h, m))

\* Fewer elements are in a part than in the whole.
LEMMA FewerInPart ==
    ASSUME NEW S, IsFiniteSet(S), NEW U \in SUBSET S, U # S
    PROVE  Cardinality(U) < Cardinality(S)
<1>1. IsFiniteSet(U) /\ Cardinality(U) <= Cardinality(S) /\ Cardinality(U) # Cardinality(S)
  BY FS_Subset
<1>2. Cardinality(U) \in Nat /\ Cardinality(S) \in Nat
  BY <1>1, FS_CardinalityType
<1> QED
  BY <1>1, <1>2

\* Ranks are places of the row, no two backends have the same, and every place
\* is somebody's.
LEMMA RankFacts ==
    ASSUME NEW h \in Nat, is_prime(h), NEW m \in Nat, NEW r \in Rows(h)
    PROVE  /\ \A b \in 0 .. m - 1 : Rank(b, r, h, m) \in 0 .. m - 1
           /\ \A a, b \in 0 .. m - 1 : Rank(a, r, h, m) = Rank(b, r, h, m) => a = b
           /\ \A p \in 0 .. m - 1 : \E b \in 0 .. m - 1 : Rank(b, r, h, m) = p
<1> DEFINE B == 0 .. m - 1
           P(b) == Preceding(b, r, h, m)
           R(b) == Rank(b, r, h, m)
<1>1. IsFiniteSet(B) /\ Cardinality(B) = m
  BY FS_Interval
<1>2. \A b \in B : Round(b, r, h) \in Int
  BY RoundFacts
<1>3. \A b \in B : P(b) \subseteq B /\ IsFiniteSet(P(b)) /\ R(b) \in Nat
  <2>1. ASSUME NEW b \in B PROVE P(b) \subseteq B
    BY DEF Preceding
  <2>2. ASSUME NEW b \in B PROVE IsFiniteSet(P(b))
    BY <1>1, <2>1, FS_Subset
  <2>3. ASSUME NEW b \in B PROVE R(b) \in Nat
    BY <2>2, FS_CardinalityType DEF Rank
  <2> QED
    BY <2>1, <2>2, <2>3
<1>4. \A b \in B : b \notin P(b)
  BY <1>2 DEF Preceding, Before
<1>5. \A b \in B : R(b) \in B
  <2> SUFFICES ASSUME NEW b \in B PROVE R(b) < m
    BY <1>3
  <2>1. P(b) \subseteq B /\ P(b) # B
    BY <1>3, <1>4
  <2> HIDE DEF B, P, R
  <2>2. Cardinality(P(b)) < Cardinality(B)
    BY <1>1, <2>1, FewerInPart
  <2> QED
    BY <1>1, <2>2 DEF R, P, Rank
<1>6. \A a, b \in B : Before(a, b, r, h) => R(a) < R(b)
  <2> SUFFICES ASSUME NEW a \in B, NEW b \in B, Before(a, b, r, h) PROVE R(a) < R(b)
    OBVIOUS
  <2>1. P(a) \subseteq P(b)
    <3> SUFFICES ASSUME NEW c \in B, Before(c, a, r, h) PROVE Before(c, b, r, h)
      BY DEF Preceding
    <3>1. Round(a, r, h) \in Int /\ Round(b, r, h) \in Int /\ Round(c, r, h) \in Int
      BY <1>2
    <3> QED
      BY <3>1 DEF Before
  <2>2. a \in P(b) /\ a \notin P(a)
    BY <1>4 DEF Preceding
  <2>3. IsFiniteSet(P(b))
    BY <1>3
  <2>4. P(a) \in SUBSET P(b) /\ P(a) # P(b)
    BY <2>1, <2>2
  <2> HIDE DEF B, P, R
  <2>5. Cardinality(P(a)) < Cardinality(P(b))
    BY <2>3, <2>4, FewerInPart
  <2> QED
    BY <2>5 DEF R, P, Rank
<1>7. \A a, b \in B : R(a) = R(b) => a = b
  <2> SUFFICES ASSUME NEW a \in B, NEW b \in B, R(a) = R(b), a # b PROVE FALSE
    OBVIOUS
  <2>1. Before(a, b, r, h) \/ Before(b, a, r, h)
    BY <1>2 DEF Before
  <2>2. R(a) \in Int /\ R(b) \in Int
    BY <1>3
  <2> HIDE DEF B, P, R
  <2> QED
    BY <1>6, <2>1, <2>2
<1> DEFINE f == [b \in B |-> R(b)]
<1>8. f \in Injection(B, B)
  BY <1>5, <1>7, Zenon DEF Injection, IsInjective
<1>9. f \in Surjection(B, B)
  BY <1>1, <1>8, FS_Injection
<1>10. \A p \in B : \E b \in B : R(b) = p
  BY <1>9 DEF Surjection
<1> QED
  BY <1>5, <1>7, <1>10

\* The cells of row r
LEMMA CellFacts ==
    ASSUME NEW h \in Nat, NEW m \in Nat, NEW r \in Rows(h), NEW p \in 0 .. m - 1
    PROVE  /\ r * m + p \in Cells(h, m)
           /\ (r * m + p) \div m = r /\ (r * m + p) % m = p
<1>1. m \in Nat \ {0} /\ r \in Nat /\ r <= h - 1
  BY DEF Rows
<1>2. (r * m + p) \div m = r /\ (r * m + p) % m = p
  BY <1>1, DivModUnique
<1>3. r * m \in Nat /\ r * m <= (h - 1) * m /\ (h - 1) * m = h * m - m /\ h * m \in Nat
  BY <1>1
<1>4. r * m + p \in Cells(h, m)
  BY <1>1, <1>3 DEF Cells
<1> QED
  BY <1>2, <1>4

\* Each row of the table has backend b in the cell its rank gives.
LEMMA PreferenceRows ==
    ASSUME NEW h \in Nat, is_prime(h), NEW m \in Nat,
           NEW r \in Rows(h), NEW b \in 0 .. m - 1
    PROVE  /\ Rank(b, r, h, m) \in 0 .. m - 1
           /\ PreferenceTable(h, m)[r * m + Rank(b, r, h, m)] = b
<1> DEFINE p == Rank(b, r, h, m)
           c == r * m + p
<1>1. p \in 0 .. m - 1
  BY RankFacts
<1>2. c \in Cells(h, m) /\ c \div m = r /\ c % m = p
  BY <1>1, CellFacts
<1>3. PreferenceTable(h, m)[c] = CHOOSE x \in 0 .. m - 1 : Rank(x, c \div m, h, m) = c % m
  BY <1>2 DEF PreferenceTable, Rank, Preceding
<1> HIDE DEF c
<1>4. PreferenceTable(h, m)[c] = CHOOSE x \in 0 .. m - 1 : Rank(x, r, h, m) = p
  BY <1>2, <1>3
<1>5. \A x \in 0 .. m - 1 : Rank(x, r, h, m) = p => x = b
  BY RankFacts
<1>6. PreferenceTable(h, m)[c] = b
  BY <1>4, <1>5, Zenon
<1> QED
  BY <1>1, <1>6 DEF c

------------------------------------------------------------------------------
(* cht_fill_cht.  When the loops are at round i and backend j, a row has    *)
(* received the backends whose turn was before (i, j), each in the cell its *)
(* rank gives: next counts the backends that precede the one to come.       *)

\* The backends row r has received before round k reaches backend c.
Received(r, k, c, h, m) ==
    { b \in 0 .. m - 1 : Round(b, r, h) < k \/ (Round(b, r, h) = k /\ b < c) }

FillTyped ==
    /\ fill_height \in Nat /\ is_prime(fill_height) /\ fill_capacity \in Nat \ {0}
    /\ fill_i \in 0 .. fill_height /\ fill_j \in 0 .. fill_capacity - 1
    /\ fill_i = fill_height => fill_j = 0
    /\ filled \in [Rows(fill_height) -> Nat]
    /\ cht \in [Cells(fill_height, fill_capacity) -> 0 .. fill_capacity - 1]

FillInv ==
    /\ FillTyped
    /\ \A r \in Rows(fill_height) :
          LET got == Received(r, fill_i, fill_j, fill_height, fill_capacity)
          IN /\ filled[r] = Cardinality(got)
             /\ \A b \in got :
                   cht[r * fill_capacity + Rank(b, r, fill_height, fill_capacity)] = b

\* The loops use the permutations, rows and cells of ChtOrder.
LEMMA FillOrder ==
    /\ \A b, k, h : Filling!Permutation(b, k, h) = Permutation(b, k, h)
    /\ \A h : Filling!Rows(h) = Rows(h)
    /\ \A h, m : Filling!Cells(h, m) = Cells(h, m)
BY DEF Filling!Permutation, Permutation, Filling!Rows, Rows, Filling!Cells, Cells

\* Before the first iteration nothing is filled in.
LEMMA FillInit == Filling!Init => FillInv
<1> SUFFICES ASSUME Filling!Init PROVE FillInv
  OBVIOUS
<1>1. fill_height \in Nat /\ is_prime(fill_height) /\ fill_capacity \in Nat \ {0}
  BY FillingConstants DEF Filling!Init, Filling!SizesAssumption, Filling!is_prime, is_prime
<1>2. /\ fill_i = 0 /\ fill_j = 0
      /\ filled = [r \in Rows(fill_height) |-> 0]
      /\ cht = [c \in Cells(fill_height, fill_capacity) |-> 0]
  BY FillOrder DEF Filling!Init
<1>3. FillTyped
  <2>1. fill_height >= 2
    BY <1>1 DEF is_prime
  <2> QED
    BY <1>1, <1>2, <2>1 DEF FillTyped
<1>4. ASSUME NEW r \in Rows(fill_height)
      PROVE  Received(r, fill_i, fill_j, fill_height, fill_capacity) = {}
  <2>1. \A b \in 0 .. fill_capacity - 1 : Round(b, r, fill_height) \in Nat
    BY <1>1, RoundFacts
  <2> QED
    BY <1>2, <2>1 DEF Received
<1> QED
  BY <1>2, <1>3, <1>4, FS_EmptySet DEF FillInv

\* The iteration (l, d) that follows iteration (k, c) when m backends take turns.
NextTurn(k, c, l, d, m) == d = (c + 1) % m /\ (d = 0 => l = k + 1) /\ (d # 0 => l = k)

\* One iteration: the row named in round k by c has received exactly those
\* that precede c, and receives c; the others receive nothing.
LEMMA OneIteration ==
    ASSUME NEW h \in Nat, is_prime(h), NEW m \in Nat \ {0},
           NEW k \in 0 .. h - 1, NEW c \in 0 .. m - 1,
           NEW d \in Nat, NEW l \in Nat, NEW t \in Rows(h),
           NextTurn(k, c, l, d, m), Permutation(c, k, h) = t
    PROVE  /\ d \in 0 .. m - 1 /\ l \in 0 .. h /\ (l = h => d = 0)
           /\ Received(t, k, c, h, m) = Preceding(c, t, h, m)
           /\ Received(t, l, d, h, m) = Received(t, k, c, h, m) \cup {c}
           /\ \A r \in Rows(h) \ {t} : Received(r, l, d, h, m) = Received(r, k, c, h, m)
<1>1. Round(c, t, h) = k
  BY RoundFacts
<1>0. d = (c + 1) % m /\ (d = 0 => l = k + 1) /\ (d # 0 => l = k)
  BY DEF NextTurn
<1>2. \/ c + 1 < m /\ d = c + 1
      \/ c + 1 = m /\ d = 0
  <2>1. CASE c + 1 < m
    <3>1. c + 1 \in 0 .. m - 1
      BY <2>1
    <3>2. (0 * m + (c + 1)) % m = c + 1
      BY <3>1, DivModUnique
    <3>3. 0 * m + (c + 1) = c + 1
      BY <3>1
    <3> QED
      BY <1>0, <2>1, <3>2, <3>3
  <2>2. CASE c + 1 = m
    <3>1. (1 * m + 0) % m = 0
      BY DivModUnique
    <3>2. 1 * m + 0 = m
      OBVIOUS
    <3> QED
      BY <1>0, <2>2, <3>1, <3>2
  <2> QED
    BY <2>1, <2>2
<1>t. /\ d = 0 => l = k + 1
      /\ d # 0 => l = k
  BY <1>0
<1>3. d \in 0 .. m - 1 /\ l \in 0 .. h /\ (l = h => d = 0)
  BY <1>2, <1>t
<1>4. ASSUME NEW b \in 0 .. m - 1, NEW r \in Rows(h) PROVE Round(b, r, h) \in Nat
  <2>1. b \in Nat
    OBVIOUS
  <2> QED
    BY <2>1, RoundTyped
<1>5. Received(t, k, c, h, m) = Preceding(c, t, h, m)
  BY <1>1, <1>4 DEF Received, Preceding, Before
<1>6. \A r \in Rows(h), b \in 0 .. m - 1 :
          b \in Received(r, l, d, h, m)
            <=> b \in Received(r, k, c, h, m) \/ (b = c /\ Round(b, r, h) = k)
  <2> SUFFICES ASSUME NEW r \in Rows(h), NEW b \in 0 .. m - 1
               PROVE  (Round(b, r, h) < l \/ (Round(b, r, h) = l /\ b < d))
                        <=> \/ Round(b, r, h) < k \/ (Round(b, r, h) = k /\ b < c)
                            \/ b = c /\ Round(b, r, h) = k
    BY DEF Received
  <2>1. Round(b, r, h) \in Nat
    BY <1>4
  <2> QED
    BY <1>2, <1>t, <2>1
<1>7. \A r \in Rows(h) : Round(c, r, h) = k => r = t
  BY RoundFacts
<1>8. \A r : Received(r, l, d, h, m) \subseteq 0 .. m - 1 /\ Received(r, k, c, h, m) \subseteq 0 .. m - 1
  BY DEF Received
<1>9. Received(t, l, d, h, m) = Received(t, k, c, h, m) \cup {c}
  BY <1>1, <1>6, <1>8
<1>10. \A r \in Rows(h) \ {t} : Received(r, l, d, h, m) = Received(r, k, c, h, m)
  BY <1>6, <1>7, <1>8
<1> QED
  BY <1>1, <1>3, <1>5, <1>9, <1>10

\* The fields the code writes are those the invariant counts.
LEMMA FillStep == FillInv /\ Filling!Fill => FillInv'
<1> SUFFICES ASSUME FillInv, Filling!Fill PROVE FillInv'
  OBVIOUS
<1> DEFINE h == fill_height
           m == fill_capacity
           t == Permutation(fill_j, fill_i, h)
           got(r) == Received(r, fill_i, fill_j, h, m)
           then(r) == Received(r, fill_i', fill_j', h, m)
           cell == t * m + filled[t]
<1>1. /\ h \in Nat /\ is_prime(h) /\ m \in Nat \ {0}
      /\ fill_i \in 0 .. h - 1 /\ fill_j \in 0 .. m - 1
      /\ filled \in [Rows(h) -> Nat] /\ cht \in [Cells(h, m) -> 0 .. m - 1]
  BY DEF FillInv, FillTyped, Filling!Fill, Filling!Done
<1>2. /\ fill_height' = h /\ fill_capacity' = m
      /\ fill_j' = (fill_j + 1) % m
      /\ fill_i' = (IF fill_j' = 0 THEN fill_i + 1 ELSE fill_i)
      /\ filled' = [filled EXCEPT ![t] = @ + 1]
  BY FillOrder DEF Filling!Fill, Filling!Bucket
<1>3. cht' = [cht EXCEPT ![m * t + filled[t]] = fill_j]
  BY FillOrder DEF Filling!Fill, Filling!Bucket, Filling!Cell
<1>4. /\ t \in Rows(h)
      /\ fill_j' \in 0 .. m - 1 /\ fill_i' \in 0 .. h /\ (fill_i' = h => fill_j' = 0)
      /\ got(t) = Preceding(fill_j, t, h, m)
      /\ then(t) = got(t) \cup {fill_j}
      /\ \A r \in Rows(h) \ {t} : then(r) = got(r)
  <2> HIDE DEF h, m, t
  <2> DEFINE d == fill_j'
             l == fill_i'
  <2>1. Permutation(fill_j, fill_i, h) = t
    BY DEF t
  <2>2. d = (fill_j + 1) % m /\ (d = 0 => l = fill_i + 1) /\ (d # 0 => l = fill_i)
    BY <1>2
  <2>3. h \in Nat /\ is_prime(h) /\ m \in Nat \ {0} /\ fill_i \in 0 .. h - 1 /\ fill_j \in 0 .. m - 1
    BY <1>1
  <2>t. t \in Rows(h)
    BY <2>1, <2>3, RoundFacts
  <2>d. d \in Nat /\ l \in Nat
    <3>1. fill_j + 1 \in Nat
      BY <2>3
    <3>2. d \in Nat
      BY <2>2, <2>3, <3>1, DivMod
    <3> QED
      BY <2>2, <2>3, <3>2
  <2>n. NextTurn(fill_i, fill_j, l, d, m)
    BY <2>2 DEF NextTurn
  <2> HIDE DEF d, l
  <2>4. /\ d \in 0 .. m - 1 /\ l \in 0 .. h /\ (l = h => d = 0)
        /\ Received(t, fill_i, fill_j, h, m) = Preceding(fill_j, t, h, m)
        /\ Received(t, l, d, h, m) = Received(t, fill_i, fill_j, h, m) \cup {fill_j}
        /\ \A r \in Rows(h) \ {t} :
              Received(r, l, d, h, m) = Received(r, fill_i, fill_j, h, m)
    BY <2>1, <2>3, <2>t, <2>d, <2>n, OneIteration
  <2> QED
    BY <2>4, <2>t DEF d, l
<1>5. \A r \in Rows(h) :
          /\ filled[r] = Cardinality(got(r))
          /\ \A b \in got(r) : cht[r * m + Rank(b, r, h, m)] = b
  BY DEF FillInv
<1> HIDE DEF h, m, t, got, then
<1>6. filled[t] = Rank(fill_j, t, h, m) /\ filled[t] \in 0 .. m - 1
  <2>1. filled[t] = Rank(fill_j, t, h, m)
    BY <1>4, <1>5 DEF Rank
  <2>2. Rank(fill_j, t, h, m) \in 0 .. m - 1
    BY <1>1, <1>4, RankFacts
  <2> QED
    BY <2>1, <2>2
<1>7. cell \in Cells(h, m) /\ cell \div m = t /\ cell % m = filled[t]
  BY <1>1, <1>4, <1>6, CellFacts
<1>8. cell = m * t + filled[t]
  BY <1>1, <1>4, <1>6 DEF Rows
<1> HIDE DEF cell
<1>9. cht' = [cht EXCEPT ![cell] = fill_j] /\ cht' \in [Cells(h, m) -> 0 .. m - 1]
  BY <1>1, <1>3, <1>7, <1>8
<1>10. filled' \in [Rows(h) -> Nat]
  BY <1>1, <1>2, <1>4
<1>11. FillTyped'
  BY <1>1, <1>2, <1>4, <1>9, <1>10 DEF FillTyped
<1>12. ASSUME NEW r \in Rows(h) PROVE filled'[r] = Cardinality(then(r))
  <2>1. CASE r = t
    <3>1. IsFiniteSet(0 .. m - 1)
      BY <1>1, FS_Interval
    <3>2. got(t) \subseteq 0 .. m - 1
      BY DEF got, Received
    <3>3. IsFiniteSet(got(t))
      BY <3>1, <3>2, FS_Subset
    <3>4. fill_j \notin got(t)
      <4>1. \A r1 \in Rows(h) : Round(fill_j, r1, h) \in Nat
        <5>1. fill_j \in Nat
          BY <1>1
        <5> QED
          BY <1>1, <5>1, RoundTyped
      <4>2. ~Before(fill_j, fill_j, t, h)
        BY <1>1, <1>4, <4>1 DEF Before
      <4> QED
        BY <1>4, <4>2 DEF Preceding
    <3>5. Cardinality(got(t) \cup {fill_j}) = Cardinality(got(t)) + 1
      BY <3>3, <3>4, FS_AddElement
    <3> QED
      BY <1>1, <1>2, <1>4, <1>5, <2>1, <3>5
  <2>2. CASE r # t
    BY <1>1, <1>2, <1>4, <1>5, <2>2
  <2> QED
    BY <2>1, <2>2
<1>13. ASSUME NEW r \in Rows(h), NEW b \in then(r)
       PROVE  cht'[r * m + Rank(b, r, h, m)] = b
  <2> DEFINE p == Rank(b, r, h, m)
             c == r * m + p
  <2>1. b \in 0 .. m - 1
    BY DEF then, Received
  <2>2. p \in 0 .. m - 1
    BY <1>1, <2>1, RankFacts
  <2>3. c \in Cells(h, m) /\ c \div m = r /\ c % m = p
    BY <1>1, <2>2, CellFacts
  <2> HIDE DEF c
  <2>4. CASE r = t /\ b = fill_j
    <3>1. c = cell
      BY <1>6, <2>4 DEF c, cell
    <3> QED
      BY <1>1, <1>7, <1>9, <2>4, <3>1 DEF c
  <2>5. CASE ~(r = t /\ b = fill_j)
    <3>1. b \in got(r)
      BY <1>4, <2>5
    <3>2. c # cell
      <4> SUFFICES ASSUME c = cell PROVE FALSE
        OBVIOUS
      <4>1. r = t /\ p = Rank(fill_j, t, h, m)
        BY <1>6, <1>7, <2>3
      <4>2. b = fill_j
        BY <1>1, <2>1, <4>1, RankFacts
      <4> QED
        BY <2>5, <4>1, <4>2
    <3>3. cht[c] = b
      BY <1>5, <3>1 DEF c
    <3> QED
      BY <1>1, <1>9, <2>3, <3>2, <3>3 DEF c
  <2> QED
    BY <2>4, <2>5
<1> QED
  BY <1>2, <1>11, <1>12, <1>13 DEF FillInv, h, m, then

\* The invariant of the filling holds throughout.
LEMMA FillInductive == Filling!Spec => []FillInv
<1>1. FillInv /\ [Filling!Next]_Filling!vars => FillInv'
  <2> SUFFICES ASSUME FillInv, [Filling!Next]_Filling!vars PROVE FillInv'
    OBVIOUS
  <2>1. CASE UNCHANGED Filling!vars
    BY <2>1 DEF Filling!vars, FillInv, FillTyped
  <2> QED
    BY <2>1, FillStep DEF Filling!Next, Filling!Filled
<1> QED
  BY <1>1, FillInit, PTL DEF Filling!Spec

\* At the end every row has received every backend.
LEMMA AllReceived ==
    ASSUME FillInv, Filling!Done,
           NEW r \in Rows(fill_height), NEW b \in 0 .. fill_capacity - 1
    PROVE  LET p == Rank(b, r, fill_height, fill_capacity)
           IN  p \in 0 .. fill_capacity - 1 /\ cht[r * fill_capacity + p] = b
<1>1. /\ fill_height \in Nat /\ is_prime(fill_height) /\ fill_capacity \in Nat
      /\ fill_i = fill_height /\ fill_j = 0
  BY DEF FillInv, FillTyped, Filling!Done
<1>2. Round(b, r, fill_height) \in 0 .. fill_height - 1
  <2>1. b \in Nat
    BY <1>1
  <2> QED
    BY <1>1, <2>1, RoundTyped
<1>3. b \in Received(r, fill_i, fill_j, fill_height, fill_capacity)
  BY <1>1, <1>2 DEF Received
<1>4. Rank(b, r, fill_height, fill_capacity) \in 0 .. fill_capacity - 1
  BY <1>1, RankFacts
<1> QED
  BY <1>3, <1>4 DEF FillInv

\* RowsComplete (cht_fill_cht): when the table is built every row names every
\* backend, in all of its cells and so each once, for any prime height and any
\* number of backends.
THEOREM ChtRowsComplete == Filling!Spec => []RowsComplete
<1>1. FillInv => RowsComplete
  <2> SUFFICES ASSUME FillInv, Filling!Done, NEW r \in Rows(fill_height)
               PROVE  Filling!Row(r) = 0 .. fill_capacity - 1
    BY FillOrder DEF RowsComplete, Filling!RowsComplete
  <2> DEFINE m == fill_capacity
  <2>1. fill_height \in Nat /\ m \in Nat /\ cht \in [Cells(fill_height, m) -> 0 .. m - 1]
    BY DEF FillInv, FillTyped
  <2>2. \A p \in 0 .. m - 1 : r * m + p \in Cells(fill_height, m) /\ m * r + p = r * m + p
    <3> SUFFICES ASSUME NEW p \in 0 .. m - 1
                 PROVE  r * m + p \in Cells(fill_height, m) /\ m * r + p = r * m + p
      OBVIOUS
    <3> HIDE DEF m
    <3>1. r * m + p \in Cells(fill_height, m)
      BY <2>1, CellFacts
    <3>2. m * r + p = r * m + p
      BY <2>1 DEF Rows
    <3> QED
      BY <3>1, <3>2
  <2>3. \A p \in 0 .. m - 1 : cht[m * r + p] \in 0 .. m - 1
    BY <2>1, <2>2
  <2>4. \A b \in 0 .. m - 1 : \E p \in 0 .. m - 1 : cht[m * r + p] = b
    <3> SUFFICES ASSUME NEW b \in 0 .. m - 1
                 PROVE  \E p \in 0 .. m - 1 : cht[m * r + p] = b
      OBVIOUS
    <3> DEFINE q == Rank(b, r, fill_height, m)
    <3>1. q \in 0 .. m - 1 /\ cht[r * m + q] = b
      BY AllReceived
    <3> HIDE DEF q, m
    <3> QED
      BY <2>2, <3>1
  <2> QED
    BY <2>3, <2>4 DEF Filling!Row
<1> QED
  BY <1>1, FillInductive, PTL

\* cht_fill_cht leaves the table that the load balancer reads: cell for cell
\* the one ChtOrder defines without loops.
THEOREM ChtFillsPreference ==
    Filling!Spec => [](Filling!Done => cht = PreferenceTable(fill_height, fill_capacity))
<1>1. FillInv => (Filling!Done => cht = PreferenceTable(fill_height, fill_capacity))
  <2> SUFFICES ASSUME FillInv, Filling!Done
               PROVE  cht = PreferenceTable(fill_height, fill_capacity)
    OBVIOUS
  <2> DEFINE h == fill_height
             m == fill_capacity
  <2>1. /\ h \in Nat /\ is_prime(h) /\ m \in Nat \ {0}
        /\ cht \in [Cells(h, m) -> 0 .. m - 1]
    BY DEF FillInv, FillTyped
  <2>2. PreferenceTable(h, m) = [c \in Cells(h, m) |-> PreferenceTable(h, m)[c]]
    <3> DEFINE F(c) == CHOOSE b \in 0 .. m - 1 :
                           Cardinality({ a \in 0 .. m - 1 : Before(a, b, c \div m, h) }) = c % m
    <3>1. PreferenceTable(h, m) = [c \in Cells(h, m) |-> F(c)]
      BY DEF PreferenceTable
    <3> HIDE DEF F
    <3> QED
      BY <3>1
  <2>3. ASSUME NEW c \in Cells(h, m) PROVE cht[c] = PreferenceTable(h, m)[c]
    <3> DEFINE r == c \div m
               p == c % m
    <3>1. c \in Nat /\ c < h * m
      BY <2>1 DEF Cells
    <3>2. r \in Nat /\ p \in 0 .. m - 1 /\ c = m * r + p
      BY <2>1, <3>1, DivMod
    <3> HIDE DEF r, p, h, m
    <3>3. c = r * m + p
      BY <2>1, <3>2
    <3>4. r \in Rows(h)
      <4> SUFFICES ASSUME r >= h PROVE FALSE
        BY <2>1, <3>2 DEF Rows
      <4>1. r * m >= h * m
        BY <2>1, <3>2
      <4>2. h * m \in Int /\ r * m \in Int
        BY <2>1, <3>2
      <4> QED
        BY <3>1, <3>2, <3>3, <4>1, <4>2
    <3>5. PICK b \in 0 .. m - 1 : Rank(b, r, h, m) = p
      BY <2>1, <3>2, <3>4, RankFacts
    <3>6. PreferenceTable(h, m)[r * m + p] = b
      BY <2>1, <3>4, <3>5, PreferenceRows
    <3>7. cht[r * m + p] = b
      BY <3>4, <3>5, AllReceived DEF h, m
    <3> QED
      BY <3>3, <3>6, <3>7
  <2> HIDE DEF h, m
  <2>4. cht = PreferenceTable(h, m)
    BY <2>1, <2>2, <2>3
  <2> QED
    BY <2>4 DEF h, m
<1> QED
  BY <1>1, FillInductive, PTL

------------------------------------------------------------------------------
(* The load balancer.  Two facts about its tables are enough: the record of *)
(* an active backend's index is that backend's, with its last heartbeat as  *)
(* the stamp; and a tracked flow whose backend has not expired since holds  *)
(* the index of the backend it was last sent to.                            *)

Owners(active, records, beats) ==
    \A a \in DOMAIN active : records[active[a].index].ip = a /\ beats[a] = active[a].stamp

Stays(tracked, active, gone, assigned, sent) ==
    \A f \in DOMAIN tracked :
        f \notin gone => /\ sent[f] \in DOMAIN active
                         /\ active[sent[f]].index = assigned[tracked[f].index]

BalancerTyped ==
    /\ lbFlows \in Table(LbFlow, flow_capacity, Times) /\ Injective(lbFlows)
    /\ ips \in Table(Ip, backend_capacity, Times) /\ Injective(ips)
    /\ flow_id_to_backend_id \in [Balancer!FlowIndex -> Balancer!BackendIndex]
    /\ backends \in [Balancer!BackendIndex -> [ip : Ip \cup {None}, nic : LbDevice]]
    /\ heard \in [Ip -> Times]
    /\ served \in [LbFlow -> Ip \cup {None}]

BalancerInv ==
    /\ BalancerTyped
    /\ Owners(ips, backends, heard)
    /\ Stays(lbFlows, ips, lost, flow_id_to_backend_id, served)
    /\ ForwardsToLive

\* The balancer's tables are those of AgedTable.
LEMMA BalancerTable ==
    /\ Balancer!EmptyTable = EmptyTable
    /\ \A t, time : Balancer!expire_items_single_map(t, time) = expire_items_single_map(t, time)
    /\ \A t, k, time : Balancer!Rejuvenate(t, k, time) = Rejuvenate(t, k, time)
    /\ \A t, k, x, time : Balancer!Enter(t, k, x, time) = Enter(t, k, x, time)
    /\ \A t, k : Balancer!Erase(t, k) = Restrict(t, DOMAIN t \ {k})
    /\ \A t, cap : Balancer!Free(t, cap) = Free(t, cap)
    /\ \A t : Balancer!InUse(t) = InUse(t)
BY DEF Balancer!EmptyTable, EmptyTable,
       Balancer!expire_items_single_map, expire_items_single_map, Balancer!Erase,
       Balancer!Restrict, Restrict, Balancer!Rejuvenate, Rejuvenate, Balancer!Enter, Enter,
       Balancer!Free, Free, Balancer!InUse, InUse

\* The search returns one of the active backends when it finds any.
LEMMA PreferredActive ==
    ASSUME NEW table, NEW hash, NEW active, NEW h, NEW m \in Nat,
           Balancer!PreferredExists(table, hash, active, h, m)
    PROVE  Balancer!Preferred(table, hash, active, h, m) \in active
<1> DEFINE r == hash % h
           found == Balancer!FoundInRow(table, r, active, m)
           first == CHOOSE p \in found : \A q \in found : p <= q
<1>1. found \in SUBSET Nat /\ found # {}
  BY DEF Balancer!PreferredExists, Balancer!FoundInRow
<1>2. \E p \in found : \A q \in found : p <= q
  BY <1>1, LeastOfNats
<1>3. first \in found
  BY <1>2
<1>4. table[Balancer!candidate_idx(r, first, m)] \in active
  BY <1>3 DEF Balancer!FoundInRow
<1> QED
  BY <1>4 DEF Balancer!Preferred

\* alloc_state
LEMMA BalancerInit == Balancer!Init => BalancerInv
<1> SUFFICES ASSUME Balancer!Init PROVE BalancerInv
  OBVIOUS
<1>1. lbFlows = EmptyTable /\ ips = EmptyTable
  BY BalancerTable DEF Balancer!Init
<1>2. /\ lbFlows \in Table(LbFlow, flow_capacity, Times) /\ Injective(lbFlows)
      /\ ips \in Table(Ip, backend_capacity, Times) /\ Injective(ips)
      /\ DOMAIN lbFlows = {} /\ DOMAIN ips = {}
  BY <1>1, EmptyFacts
<1>3. 0 \in Balancer!BackendIndex /\ wan_device \in LbDevice
  BY BalancerConstants DEF Balancer!BalancerAssumption, Balancer!BackendIndex
<1>4. -1 \in Times
  BY DEF Times
<1>5. BalancerTyped
  BY <1>2, <1>3, <1>4 DEF Balancer!Init, BalancerTyped
<1> QED
  BY <1>2, <1>5 DEF Balancer!Init, BalancerInv, Owners, Stays, ForwardsToLive,
                    Balancer!ForwardsToLive

\* lb_expire_flows and lb_expire_backends leave what is held true, with the
\* flows that lost their backend apart; what is left was heard lately.
LEMMA BalancerExpires ==
    ASSUME BalancerInv, NEW t \in Times,
           NEW tracked, tracked = Balancer!lb_expire_flows(t),
           NEW active, active = Balancer!lb_expire_backends(t),
           NEW gone, gone = Balancer!LostBy(t)
    PROVE  /\ tracked \in Table(LbFlow, flow_capacity, Times) /\ Injective(tracked)
           /\ active \in Table(Ip, backend_capacity, Times) /\ Injective(active)
           /\ Owners(active, backends, heard)
           /\ Stays(tracked, active, gone, flow_id_to_backend_id, served)
           /\ \A a \in DOMAIN active : heard[a] >= t - BackendExpiration
<1> DEFINE fdeadline == t - FlowExpiration
           bdeadline == t - BackendExpiration
<1>1. /\ tracked = expire_items_single_map(lbFlows, fdeadline)
      /\ active = expire_items_single_map(ips, bdeadline)
  BY BalancerTable DEF Balancer!lb_expire_flows, Balancer!lb_expire_backends
<1> HIDE DEF fdeadline, bdeadline
<1>2. /\ lbFlows \in Table(LbFlow, flow_capacity, Times) /\ Injective(lbFlows)
      /\ ips \in Table(Ip, backend_capacity, Times) /\ Injective(ips)
      /\ Owners(ips, backends, heard)
      /\ Stays(lbFlows, ips, lost, flow_id_to_backend_id, served)
  BY DEF BalancerInv, BalancerTyped
<1>3. /\ tracked \in Table(LbFlow, flow_capacity, Times) /\ Injective(tracked)
      /\ DOMAIN tracked \subseteq DOMAIN lbFlows
      /\ \A f \in DOMAIN tracked : tracked[f] = lbFlows[f]
  BY <1>1, <1>2, ExpireFacts
<1>4. /\ active \in Table(Ip, backend_capacity, Times) /\ Injective(active)
      /\ \A a : a \in DOMAIN active <=> a \in DOMAIN ips /\ ips[a].stamp >= bdeadline
      /\ \A a \in DOMAIN active : active[a] = ips[a]
  BY <1>1, <1>2, ExpireFacts
<1>5. Owners(active, backends, heard)
  BY <1>2, <1>4 DEF Owners
<1>6. \A a \in DOMAIN active : heard[a] >= bdeadline
  BY <1>4, <1>5 DEF Owners
<1>7. Stays(tracked, active, gone, flow_id_to_backend_id, served)
  <2> SUFFICES ASSUME NEW f \in DOMAIN tracked, f \notin gone
               PROVE  /\ served[f] \in DOMAIN active
                      /\ active[served[f]].index = flow_id_to_backend_id[tracked[f].index]
    BY DEF Stays
  <2>1. f \in LbFlow
    BY <1>3, TableElim
  <2>2. f \notin lost /\ ~(served[f] \in DOMAIN ips \ DOMAIN active)
    BY <2>1 DEF Balancer!LostBy
  <2>3. served[f] \in DOMAIN ips /\ ips[served[f]].index = flow_id_to_backend_id[lbFlows[f].index]
    BY <1>2, <1>3, <2>2 DEF Stays
  <2>4. served[f] \in DOMAIN active
    BY <2>2, <2>3
  <2> QED
    BY <1>3, <1>4, <2>3, <2>4
<1> QED
  BY <1>3, <1>4, <1>5, <1>6, <1>7 DEF bdeadline

\* A heartbeat: the backend's record and stamp follow, nobody else's change.
LEMMA HeartbeatInv ==
    ASSUME BalancerInv, NEW t \in Times, NEW nic \in LbDevice, NEW a \in Ip,
           Balancer!Heartbeat(t, nic, a)
    PROVE  BalancerInv'
<1> DEFINE tracked == Balancer!lb_expire_flows(t)
           active == Balancer!lb_expire_backends(t)
           gone == Balancer!LostBy(t)
<1>1. /\ tracked \in Table(LbFlow, flow_capacity, Times) /\ Injective(tracked)
      /\ active \in Table(Ip, backend_capacity, Times) /\ Injective(active)
      /\ Owners(active, backends, heard)
      /\ Stays(tracked, active, gone, flow_id_to_backend_id, served)
  BY BalancerExpires
<1>2. /\ \/ /\ a \in DOMAIN active
            /\ ips' = Rejuvenate(active, a, t)
            /\ backends' = backends
         \/ /\ a \notin DOMAIN active
            /\ \E b \in Free(active, backend_capacity) :
                  /\ backends' = [backends EXCEPT ![b] = [ip |-> a, nic |-> nic]]
                  /\ ips' = Enter(active, a, b, t)
         \/ /\ a \notin DOMAIN active
            /\ ips' = active
            /\ backends' = backends
      /\ lbFlows' = tracked /\ lost' = gone
      /\ heard' = [heard EXCEPT ![a] = t]
      /\ UNCHANGED <<flow_id_to_backend_id, served>>
  BY BalancerTable DEF Balancer!Heartbeat, Balancer!new_backend
<1>3. ForwardsToLive'
  BY DEF Balancer!Heartbeat, Balancer!Dropped, ForwardsToLive, Balancer!ForwardsToLive
<1> HIDE DEF tracked, active, gone
<1>4. /\ flow_id_to_backend_id' \in [Balancer!FlowIndex -> Balancer!BackendIndex]
      /\ heard' \in [Ip -> Times] /\ heard'[a] = t /\ \A x \in Ip \ {a} : heard'[x] = heard[x]
      /\ served' \in [LbFlow -> Ip \cup {None}]
      /\ backends \in [Balancer!BackendIndex -> [ip : Ip \cup {None}, nic : LbDevice]]
  BY <1>2 DEF BalancerInv, BalancerTyped
<1>5. DOMAIN active \subseteq Ip /\ active \in [DOMAIN active -> Entry(backend_capacity, Times)]
  BY <1>1, TableElim
<1>6. ASSUME /\ ips' \in Table(Ip, backend_capacity, Times) /\ Injective(ips')
             /\ backends' \in [Balancer!BackendIndex -> [ip : Ip \cup {None}, nic : LbDevice]]
             /\ Owners(ips', backends', heard')
             /\ \A x \in DOMAIN active : x \in DOMAIN ips' /\ ips'[x].index = active[x].index
      PROVE  BalancerInv'
  <2>1. Stays(lbFlows', ips', lost', flow_id_to_backend_id', served')
    BY <1>1, <1>2, <1>6 DEF Stays
  <2>2. BalancerTyped'
    BY <1>1, <1>2, <1>4, <1>6 DEF BalancerTyped, Injective
  <2> QED
    BY <1>3, <1>6, <2>1, <2>2 DEF BalancerInv, Owners, Stays
<1>7. ASSUME a \in DOMAIN active, ips' = Rejuvenate(active, a, t), backends' = backends
      PROVE  BalancerInv'
  <2>1. /\ ips' \in Table(Ip, backend_capacity, Times) /\ Injective(ips')
        /\ DOMAIN ips' = DOMAIN active
        /\ ips'[a].index = active[a].index /\ ips'[a].stamp = t
        /\ \A x \in DOMAIN active \ {a} : ips'[x] = active[x]
    BY <1>1, <1>7, RejuvenateFacts
  <2>2. Owners(ips', backends', heard')
    BY <1>1, <1>4, <1>5, <1>7, <2>1 DEF Owners
  <2> QED
    BY <1>4, <1>6, <1>7, <2>1, <2>2
<1>8. ASSUME a \notin DOMAIN active, NEW b \in Free(active, backend_capacity),
             backends' = [backends EXCEPT ![b] = [ip |-> a, nic |-> nic]],
             ips' = Enter(active, a, b, t)
      PROVE  BalancerInv'
  <2> DEFINE e == Enter(active, a, b, t)
  <2>e. /\ e \in Table(Ip, backend_capacity, Times) /\ Injective(e)
        /\ DOMAIN e = DOMAIN active \cup {a}
        /\ e[a].index = b /\ e[a].stamp = t
        /\ \A x \in DOMAIN active : e[x] = active[x] /\ e[x].index # b
    <3>1. b \in Free(active, backend_capacity) /\ a \notin DOMAIN active
      BY <1>8
    <3> QED
      BY <1>1, <3>1, EnterFacts
  <2> HIDE DEF e
  <2>1. /\ ips' \in Table(Ip, backend_capacity, Times) /\ Injective(ips')
        /\ DOMAIN ips' = DOMAIN active \cup {a}
        /\ ips'[a].index = b /\ ips'[a].stamp = t
        /\ \A x \in DOMAIN active : ips'[x] = active[x] /\ ips'[x].index # b
    BY <1>8, <2>e DEF e
  <2>2. b \in Balancer!BackendIndex
    BY <1>8 DEF Free, Balancer!BackendIndex
  <2>3. backends' \in [Balancer!BackendIndex -> [ip : Ip \cup {None}, nic : LbDevice]]
    BY <1>4, <1>8, <2>2
  <2>4. backends'[b].ip = a /\ \A x \in Balancer!BackendIndex \ {b} : backends'[x] = backends[x]
    BY <1>4, <1>8, <2>2
  <2>5. \A x \in DOMAIN active : active[x].index \in Balancer!BackendIndex
    BY <1>5 DEF Entry, Balancer!BackendIndex
  <2>6. Owners(ips', backends', heard')
    BY <1>1, <1>4, <1>5, <1>8, <2>1, <2>4, <2>5 DEF Owners
  <2> QED
    BY <1>6, <2>1, <2>3, <2>6
<1>9. ASSUME a \notin DOMAIN active, ips' = active, backends' = backends
      PROVE  BalancerInv'
  <2>1. Owners(ips', backends', heard')
    BY <1>1, <1>4, <1>5, <1>9 DEF Owners
  <2> QED
    BY <1>1, <1>4, <1>6, <1>9, <2>1
<1> QED
  BY <1>2, <1>7, <1>8, <1>9

\* An index in use among the active backends is that of one of them, whose
\* address the backend's record holds, and which was heard lately.
LEMMA SendsToActive ==
    ASSUME BalancerInv, NEW t \in Times, NEW f \in LbFlow, NEW b, lbNow' = t,
           NEW active, active = Balancer!lb_expire_backends(t),
           NEW gone, gone = Balancer!LostBy(t),
           b \in InUse(active), Balancer!SendTo(f, b)
    PROVE  \E a \in DOMAIN active :
              /\ active[a].index = b
              /\ heard[a] >= t - BackendExpiration
              /\ lbOut'.ip = a /\ lbOut'.flow = f
              /\ served' = [served EXCEPT ![f] = a]
              /\ lost' = gone \ {f}
<1>1. /\ Owners(active, backends, heard)
      /\ \A a \in DOMAIN active : heard[a] >= t - BackendExpiration
  BY BalancerExpires
<1>2. PICK a \in DOMAIN active : active[a].index = b
  BY DEF InUse
<1>3. backends[b].ip = a
  BY <1>1, <1>2 DEF Owners
<1>4. /\ lbOut' = [flow |-> f, ip |-> backends[b].ip, nic |-> backends[b].nic]
      /\ served' = [served EXCEPT ![f] = backends[b].ip]
      /\ lost' = Balancer!LostBy(t) \ {f}
  BY DEF Balancer!SendTo
<1> QED
  BY <1>1, <1>2, <1>3, <1>4

\* A packet of f is sent at time t to the backend with address a, when those of
\* active are the backends not expired, and gone the flows whose backend was.
SentTo(a, f, t, active, gone) ==
    /\ heard[a] >= t - BackendExpiration
    /\ lbNow' = t /\ ips' = active /\ backends' = backends /\ heard' = heard
    /\ lbOut'.ip = a /\ served' = [served EXCEPT ![f] = a] /\ lost' = gone \ {f}

\* What a packet leaves: f keeps, or gets, the index of the backend it is sent
\* to, and no other flow's changes.
LEMMA SentInv ==
    ASSUME BalancerInv, NEW t \in Times, NEW f \in LbFlow,
           NEW active, active = Balancer!lb_expire_backends(t),
           NEW gone, gone = Balancer!LostBy(t),
           NEW trk \in Table(LbFlow, flow_capacity, Times),
           Stays(trk, active, gone, flow_id_to_backend_id, served),
           lbFlows' \in Table(LbFlow, flow_capacity, Times), Injective(lbFlows'),
           flow_id_to_backend_id' \in [Balancer!FlowIndex -> Balancer!BackendIndex],
           NEW a \in DOMAIN active, SentTo(a, f, t, active, gone),
           f \in DOMAIN lbFlows' =>
               active[a].index = flow_id_to_backend_id'[lbFlows'[f].index],
           \A g \in DOMAIN lbFlows' \ {f} :
               /\ g \in DOMAIN trk
               /\ flow_id_to_backend_id'[lbFlows'[g].index]
                    = flow_id_to_backend_id[trk[g].index]
    PROVE  BalancerInv'
<1>0. /\ heard[a] >= t - BackendExpiration
      /\ lbNow' = t /\ ips' = active /\ backends' = backends /\ heard' = heard
      /\ lbOut'.ip = a /\ served' = [served EXCEPT ![f] = a] /\ lost' = gone \ {f}
  BY DEF SentTo
<1>1. /\ active \in Table(Ip, backend_capacity, Times) /\ Injective(active)
      /\ Owners(active, backends, heard)
  BY BalancerExpires
<1>2. a \in Ip /\ DOMAIN lbFlows' \subseteq LbFlow
  BY <1>1, TableElim
<1>3. /\ served \in [LbFlow -> Ip \cup {None}] /\ heard \in [Ip -> Times]
      /\ backends \in [Balancer!BackendIndex -> [ip : Ip \cup {None}, nic : LbDevice]]
  BY DEF BalancerInv, BalancerTyped
<1>4. /\ served' \in [LbFlow -> Ip \cup {None}]
      /\ served'[f] = a /\ \A g \in LbFlow \ {f} : served'[g] = served[g]
  BY <1>0, <1>2, <1>3
<1>5. Stays(lbFlows', ips', lost', flow_id_to_backend_id', served')
  <2> SUFFICES ASSUME NEW g \in DOMAIN lbFlows', g \notin lost'
               PROVE  /\ served'[g] \in DOMAIN active
                      /\ active[served'[g]].index
                           = flow_id_to_backend_id'[lbFlows'[g].index]
    BY <1>0 DEF Stays
  <2>1. CASE g = f
    BY <1>4, <2>1
  <2>2. CASE g # f
    <3>1. g \in DOMAIN trk /\ g \notin gone /\ served'[g] = served[g]
      BY <1>0, <1>2, <1>4, <2>2
    <3> QED
      BY <2>2, <3>1 DEF Stays
  <2> QED
    BY <2>1, <2>2
<1>6. BalancerTyped'
  BY <1>0, <1>1, <1>3, <1>4 DEF BalancerTyped, Injective
<1>7. ForwardsToLive'
  BY <1>0 DEF ForwardsToLive, Balancer!ForwardsToLive
<1>8. Owners(ips', backends', heard')
  BY <1>0, <1>1
<1> QED
  BY <1>5, <1>6, <1>7, <1>8 DEF BalancerInv, Owners, Stays

\* lb_assign_backend, for a flow that is not (or no longer) tracked
LEMMA AssignInv ==
    ASSUME BalancerInv, NEW t \in Times, NEW f \in LbFlow,
           NEW trk \in Table(LbFlow, flow_capacity, Times), Injective(trk),
           Stays(trk, Balancer!lb_expire_backends(t), Balancer!LostBy(t),
                 flow_id_to_backend_id, served),
           f \notin DOMAIN trk,
           Balancer!lb_assign_backend(t, f, trk),
           lbNow' = t, ips' = Balancer!lb_expire_backends(t), backends' = backends, heard' = heard
    PROVE  BalancerInv'
<1> DEFINE active == Balancer!lb_expire_backends(t)
           gone == Balancer!LostBy(t)
           found == Balancer!PreferredExists(Balancer!cht, fhash[f], InUse(active), cht_height,
                                             backend_capacity)
           b == Balancer!Preferred(Balancer!cht, fhash[f], InUse(active), cht_height,
                                   backend_capacity)
<1>1. /\ active \in Table(Ip, backend_capacity, Times) /\ Injective(active)
      /\ Owners(active, backends, heard)
  BY BalancerExpires
<1>2. /\ flow_id_to_backend_id \in [Balancer!FlowIndex -> Balancer!BackendIndex]
      /\ served \in [LbFlow -> Ip \cup {None}] /\ heard \in [Ip -> Times]
      /\ backends \in [Balancer!BackendIndex -> [ip : Ip \cup {None}, nic : LbDevice]]
  BY DEF BalancerInv, BalancerTyped
<1>3. \/ /\ found
         /\ \/ \E x \in Free(trk, flow_capacity) :
                  /\ lbFlows' = Enter(trk, f, x, t)
                  /\ flow_id_to_backend_id' = [flow_id_to_backend_id EXCEPT ![x] = b]
            \/ lbFlows' = trk /\ flow_id_to_backend_id' = flow_id_to_backend_id
         /\ Balancer!SendTo(f, b)
      \/ /\ lbFlows' = trk /\ flow_id_to_backend_id' = flow_id_to_backend_id
         /\ lbOut'.ip = None /\ served' = served /\ lost' = gone
  BY BalancerTable DEF Balancer!lb_assign_backend, Balancer!Track
<1>4. Stays(trk, active, gone, flow_id_to_backend_id, served)
  OBVIOUS
<1> HIDE DEF active, gone, found, b
<1>5. CASE /\ lbFlows' = trk /\ flow_id_to_backend_id' = flow_id_to_backend_id
           /\ lbOut'.ip = None /\ served' = served /\ lost' = gone
  <2>0. ips' = active
    BY DEF active
  <2>1. BalancerTyped'
    BY <1>1, <1>2, <1>5, <2>0 DEF BalancerTyped, Injective
  <2>2. ForwardsToLive'
    BY <1>5 DEF ForwardsToLive, Balancer!ForwardsToLive
  <2>3. Owners(ips', backends', heard')
        /\ Stays(lbFlows', ips', lost', flow_id_to_backend_id', served')
    BY <1>1, <1>4, <1>5, <2>0
  <2> QED
    BY <2>1, <2>2, <2>3 DEF BalancerInv, Owners, Stays
<1>6. CASE found /\ Balancer!SendTo(f, b)
           /\ \/ \E x \in Free(trk, flow_capacity) :
                    /\ lbFlows' = Enter(trk, f, x, t)
                    /\ flow_id_to_backend_id' = [flow_id_to_backend_id EXCEPT ![x] = b]
              \/ lbFlows' = trk /\ flow_id_to_backend_id' = flow_id_to_backend_id
  <2>0. ips' = active /\ active = Balancer!lb_expire_backends(t) /\ gone = Balancer!LostBy(t)
    BY DEF active, gone
  <2>1. b \in InUse(active)
    BY <1>6, BalancerConstants, PreferredActive DEF found, b, Balancer!BalancerAssumption
  <2>2. PICK a \in DOMAIN active :
              /\ active[a].index = b /\ heard[a] >= t - BackendExpiration
              /\ lbOut'.ip = a /\ served' = [served EXCEPT ![f] = a] /\ lost' = gone \ {f}
    BY <1>6, <2>0, <2>1, SendsToActive
  <2>s. SentTo(a, f, t, active, gone)
    BY <2>0, <2>2 DEF SentTo
  <2>3. b \in Balancer!BackendIndex
    BY <1>1, <2>2, TableElim DEF Entry, Balancer!BackendIndex
  <2>4. CASE lbFlows' = trk /\ flow_id_to_backend_id' = flow_id_to_backend_id
    <3>1. lbFlows' \in Table(LbFlow, flow_capacity, Times) /\ Injective(lbFlows')
      BY <2>4 DEF Injective
    <3>2. flow_id_to_backend_id' \in [Balancer!FlowIndex -> Balancer!BackendIndex]
      BY <1>2, <2>4
    <3>3. f \in DOMAIN lbFlows' =>
              active[a].index = flow_id_to_backend_id'[lbFlows'[f].index]
      BY <2>4
    <3>4. \A g \in DOMAIN lbFlows' \ {f} :
              /\ g \in DOMAIN trk
              /\ flow_id_to_backend_id'[lbFlows'[g].index]
                   = flow_id_to_backend_id[trk[g].index]
      BY <2>4
    <3> QED
      BY <1>4, <2>0, <2>2, <2>s, <3>1, <3>2, <3>3, <3>4, SentInv
  <2>5. ASSUME NEW x \in Free(trk, flow_capacity), lbFlows' = Enter(trk, f, x, t),
               flow_id_to_backend_id' = [flow_id_to_backend_id EXCEPT ![x] = b]
        PROVE  BalancerInv'
    <3> DEFINE e == Enter(trk, f, x, t)
    <3>e. /\ e \in Table(LbFlow, flow_capacity, Times) /\ Injective(e)
          /\ DOMAIN e = DOMAIN trk \cup {f}
          /\ e[f].index = x
          /\ \A g \in DOMAIN trk : e[g] = trk[g] /\ e[g].index # x
      BY EnterFacts
    <3> HIDE DEF e
    <3>1. /\ lbFlows' \in Table(LbFlow, flow_capacity, Times) /\ Injective(lbFlows')
          /\ DOMAIN lbFlows' = DOMAIN trk \cup {f}
          /\ lbFlows'[f].index = x
          /\ \A g \in DOMAIN trk : lbFlows'[g] = trk[g] /\ lbFlows'[g].index # x
      BY <2>5, <3>e DEF e
    <3>2. x \in Balancer!FlowIndex
      BY <2>5 DEF Free, Balancer!FlowIndex
    <3>3. /\ flow_id_to_backend_id' \in [Balancer!FlowIndex -> Balancer!BackendIndex]
          /\ flow_id_to_backend_id'[x] = b
          /\ \A y \in Balancer!FlowIndex \ {x} :
                flow_id_to_backend_id'[y] = flow_id_to_backend_id[y]
      BY <1>2, <2>3, <2>5, <3>2
    <3>4. \A g \in DOMAIN trk : trk[g].index \in Balancer!FlowIndex
      BY TableElim DEF Entry, Balancer!FlowIndex
    <3>5. \A g \in DOMAIN lbFlows' \ {f} :
              /\ g \in DOMAIN trk
              /\ flow_id_to_backend_id'[lbFlows'[g].index]
                   = flow_id_to_backend_id[trk[g].index]
      BY <3>1, <3>3, <3>4
    <3>6. active[a].index = flow_id_to_backend_id'[lbFlows'[f].index]
      BY <2>2, <3>1, <3>3
    <3> QED
      BY <1>4, <2>0, <2>2, <2>s, <3>1, <3>3, <3>5, <3>6, SentInv
  <2> QED
    BY <1>6, <2>4, <2>5
<1> QED
  BY <1>3, <1>5, <1>6

\* Every packet from the WAN keeps the invariant.
LEMMA BalanceInv ==
    ASSUME BalancerInv, NEW t \in Times, NEW f \in LbFlow, Balancer!Balance(t, f)
    PROVE  BalancerInv'
<1> DEFINE tracked == Balancer!lb_expire_flows(t)
           active == Balancer!lb_expire_backends(t)
           gone == Balancer!LostBy(t)
           b == flow_id_to_backend_id[tracked[f].index]
           rest == Restrict(tracked, DOMAIN tracked \ {f})
<1>1. /\ tracked \in Table(LbFlow, flow_capacity, Times) /\ Injective(tracked)
      /\ Stays(tracked, active, gone, flow_id_to_backend_id, served)
  BY BalancerExpires
<1>2. /\ lbNow' = t /\ ips' = active /\ backends' = backends /\ heard' = heard
      /\ \/ f \notin DOMAIN tracked /\ Balancer!lb_assign_backend(t, f, tracked)
         \/ f \in DOMAIN tracked /\ Balancer!lb_assign_backend(t, f, rest)
         \/ /\ f \in DOMAIN tracked /\ b \in InUse(active)
            /\ lbFlows' = Rejuvenate(tracked, f, t)
            /\ Balancer!SendTo(f, b)
            /\ flow_id_to_backend_id' = flow_id_to_backend_id
  BY BalancerTable DEF Balancer!Balance, Balancer!BackendGone, Balancer!IsAllocated
<1>3. CASE f \notin DOMAIN tracked /\ Balancer!lb_assign_backend(t, f, tracked)
  BY <1>1, <1>2, <1>3, AssignInv
<1>4. CASE f \in DOMAIN tracked /\ Balancer!lb_assign_backend(t, f, rest)
  <2> HIDE DEF tracked
  <2>1. /\ rest \in Table(LbFlow, flow_capacity, Times) /\ Injective(rest)
        /\ DOMAIN rest = DOMAIN tracked \ {f}
        /\ \A g \in DOMAIN rest : rest[g] = tracked[g]
    BY <1>1, RestrictFacts
  <2> HIDE DEF rest
  <2>2. Stays(rest, active, gone, flow_id_to_backend_id, served)
    <3> HIDE DEF active, gone
    <3> QED
      BY <1>1, <2>1 DEF Stays
  <2> QED
    BY <1>2, <1>4, <2>1, <2>2, AssignInv
<1>5. CASE /\ f \in DOMAIN tracked /\ b \in InUse(active)
           /\ lbFlows' = Rejuvenate(tracked, f, t)
           /\ Balancer!SendTo(f, b)
           /\ flow_id_to_backend_id' = flow_id_to_backend_id
  <2>0. active = Balancer!lb_expire_backends(t) /\ gone = Balancer!LostBy(t)
    OBVIOUS
  <2> HIDE DEF tracked, active, gone
  <2>1. PICK a \in DOMAIN active :
              /\ active[a].index = b /\ heard[a] >= t - BackendExpiration
              /\ lbOut'.ip = a /\ served' = [served EXCEPT ![f] = a] /\ lost' = gone \ {f}
    BY <1>2, <1>5, <2>0, SendsToActive
  <2>2. /\ lbFlows' \in Table(LbFlow, flow_capacity, Times) /\ Injective(lbFlows')
        /\ DOMAIN lbFlows' = DOMAIN tracked
        /\ lbFlows'[f].index = tracked[f].index
        /\ \A g \in DOMAIN tracked \ {f} : lbFlows'[g] = tracked[g]
    BY <1>1, <1>5, RejuvenateFacts
  <2>3. flow_id_to_backend_id' \in [Balancer!FlowIndex -> Balancer!BackendIndex]
    BY <1>5 DEF BalancerInv, BalancerTyped
  <2>4. active[a].index = flow_id_to_backend_id'[lbFlows'[f].index]
    BY <1>5, <2>1, <2>2
  <2>5. \A g \in DOMAIN lbFlows' \ {f} :
            /\ g \in DOMAIN tracked
            /\ flow_id_to_backend_id'[lbFlows'[g].index]
                 = flow_id_to_backend_id[tracked[g].index]
    BY <1>5, <2>2
  <2>6. /\ Stays(tracked, active, gone, flow_id_to_backend_id, served)
        /\ tracked \in Table(LbFlow, flow_capacity, Times)
    BY <1>1, <1>2
  <2>7. SentTo(a, f, t, active, gone)
    BY <1>2, <2>1 DEF SentTo
  <2> QED
    BY <2>0, <2>1, <2>2, <2>3, <2>4, <2>5, <2>6, <2>7, SentInv
<1> QED
  BY <1>2, <1>3, <1>4, <1>5

\* Every packet keeps the invariant.
LEMMA BalancerNext == BalancerInv /\ [Balancer!Next]_Balancer!vars => BalancerInv'
<1> SUFFICES ASSUME BalancerInv, [Balancer!Next]_Balancer!vars PROVE BalancerInv'
  OBVIOUS
<1>1. CASE UNCHANGED Balancer!vars
  BY <1>1 DEF Balancer!vars, BalancerInv, BalancerTyped, Injective, Owners, Stays,
              ForwardsToLive, Balancer!ForwardsToLive
<1>2. ASSUME NEW t \in Times, Balancer!Malformed(t) PROVE BalancerInv'
  <2> DEFINE tracked == Balancer!lb_expire_flows(t)
             active == Balancer!lb_expire_backends(t)
             gone == Balancer!LostBy(t)
  <2>1. /\ tracked \in Table(LbFlow, flow_capacity, Times) /\ Injective(tracked)
        /\ active \in Table(Ip, backend_capacity, Times) /\ Injective(active)
        /\ Owners(active, backends, heard)
        /\ Stays(tracked, active, gone, flow_id_to_backend_id, served)
    BY BalancerExpires
  <2>2. /\ lbFlows' = tracked /\ ips' = active /\ lost' = gone
        /\ lbOut'.ip = None
        /\ UNCHANGED <<flow_id_to_backend_id, backends, heard, served>>
    BY <1>2 DEF Balancer!Malformed, Balancer!Dropped
  <2> HIDE DEF tracked, active, gone
  <2> QED
    BY <2>1, <2>2 DEF BalancerInv, BalancerTyped, Injective, Owners, Stays,
                      ForwardsToLive, Balancer!ForwardsToLive
<1>3. \A t \in lbNow .. LbMaxTime : t \in Times
  BY DEF Times
<1> QED
  BY <1>1, <1>2, <1>3, HeartbeatInv, BalanceInv DEF Balancer!Next

\* The balancer's invariant holds throughout.
LEMMA BalancerInductive == Balancer!Spec => []BalancerInv
BY BalancerInit, BalancerNext, PTL DEF Balancer!Spec

\* ForwardsToLive of the load balancer (lb_get_backend): a packet of the WAN is
\* only sent to a backend that was heard within the expiration time, although
\* flows remember indexes that may since belong to other backends.
THEOREM BalancerForwardsToLive == Balancer!Spec => []ForwardsToLive
<1>1. BalancerInv => ForwardsToLive
  BY DEF BalancerInv
<1> QED
  BY <1>1, BalancerInductive, PTL

\* A packet of a tracked flow goes where the flow's packets went before, unless
\* that backend has expired.
LEMMA AffinityStep ==
    ASSUME BalancerInv, Balancer!Next, NEW f \in LbFlow, lbOut'.flow = f,
           f \in DOMAIN Balancer!lb_expire_flows(lbNow'), f \notin Balancer!LostBy(lbNow')
    PROVE  lbOut'.ip = served[f]
<1>1. PICK t \in Times : \/ Balancer!Malformed(t)
                         \/ \E nic \in LbDevice, a \in Ip : Balancer!Heartbeat(t, nic, a)
                         \/ \E g \in LbFlow : Balancer!Balance(t, g)
  BY DEF Balancer!Next, Times
<1>2. f # None
  BY BalancerConstants DEF Balancer!BalancerAssumption
<1>3. PICK g \in LbFlow : Balancer!Balance(t, g)
  BY <1>1, <1>2 DEF Balancer!Malformed, Balancer!Heartbeat, Balancer!Dropped
<1> DEFINE tracked == Balancer!lb_expire_flows(t)
           active == Balancer!lb_expire_backends(t)
           gone == Balancer!LostBy(t)
           b == flow_id_to_backend_id[tracked[f].index]
<1>4. /\ Owners(active, backends, heard)
      /\ Stays(tracked, active, gone, flow_id_to_backend_id, served)
  BY BalancerExpires
<1>5. lbNow' = t /\ lbOut'.flow = g
  BY <1>3 DEF Balancer!Balance, Balancer!lb_assign_backend, Balancer!SendTo
<1>6. g = f /\ f \in DOMAIN tracked /\ f \notin gone
  BY <1>5
<1>7. \/ ~(b \in InUse(active))
      \/ lbOut'.ip = backends[b].ip
  BY <1>3, <1>6, BalancerTable
     DEF Balancer!Balance, Balancer!BackendGone, Balancer!IsAllocated, Balancer!SendTo
<1> HIDE DEF tracked, active, gone
<1>8. served[f] \in DOMAIN active /\ active[served[f]].index = b
  BY <1>4, <1>6 DEF Stays
<1>9. b \in InUse(active) /\ backends[b].ip = served[f]
  BY <1>4, <1>8 DEF InUse, Owners
<1> QED
  BY <1>7, <1>9

\* Affinity of the load balancer (lb_get_backend): indexes of flows and of
\* backends are reused, and a tracked flow still goes to the backend it went to.
THEOREM BalancerAffinity == Balancer!Spec => Affinity
<1>1. BalancerInv /\ [Balancer!Next]_Balancer!vars =>
         [\A f \in LbFlow :
             (/\ lbOut'.flow = f
              /\ f \in DOMAIN Balancer!lb_expire_flows(lbNow')
              /\ f \notin Balancer!LostBy(lbNow'))
             => lbOut'.ip = served[f]]_Balancer!vars
  BY AffinityStep
<1> QED
  BY <1>1, BalancerInductive, PTL DEF Balancer!Spec, Affinity, Balancer!Affinity

------------------------------------------------------------------------------
(* The search of the load balancer reads the row the hash selects; every    *)
(* backend is somewhere in it, so an active one is found.                   *)

\* The balancer's table is the one of ChtOrder.
LEMMA BalancerOrder ==
    \A h, m : Balancer!PreferenceTable(h, m) = PreferenceTable(h, m)
<1> USE DEF Balancer!PreferenceTable, PreferenceTable, Balancer!Before, Before,
            Balancer!Round, Round, Balancer!Permutation, Permutation, Balancer!Cells, Cells,
            Balancer!Cardinality, Cardinality
<1> QED
  OBVIOUS

\* Among the active backends, if there are any, one is found.
LEMMA SearchFinds ==
    ASSUME NEW hash \in Nat, NEW active \in SUBSET Balancer!BackendIndex, active # {}
    PROVE  Balancer!PreferredExists(Balancer!cht, hash, active, cht_height, backend_capacity)
<1> DEFINE r == hash % cht_height
<1>1. /\ cht_height \in Nat \ {0} /\ is_prime(cht_height) /\ backend_capacity \in Nat
  BY BalancerConstants DEF Balancer!BalancerAssumption, Balancer!is_prime, is_prime
<1>2. r \in Rows(cht_height)
  BY <1>1, DivMod DEF Rows
<1>3. PICK b \in active : b \in 0 .. backend_capacity - 1
  BY DEF Balancer!BackendIndex
<1> HIDE DEF r
<1> DEFINE p == Rank(b, r, cht_height, backend_capacity)
<1>4. /\ p \in 0 .. backend_capacity - 1
      /\ PreferenceTable(cht_height, backend_capacity)[r * backend_capacity + p] = b
  BY <1>1, <1>2, <1>3, PreferenceRows
<1> HIDE DEF p
<1>5. Balancer!cht[r * backend_capacity + p] = b
  BY <1>4, BalancerOrder DEF Balancer!cht
<1>6. p \in Balancer!FoundInRow(Balancer!cht, r, active, backend_capacity)
  BY <1>3, <1>4, <1>5 DEF Balancer!FoundInRow, Balancer!candidate_idx
<1> QED
  BY <1>6 DEF Balancer!PreferredExists, r

\* Active backends do not sit behind the WAN's device.
Insiders(active, records) ==
    \A a \in DOMAIN active : records[active[a].index].nic # wan_device

FindsInv == Insiders(ips, backends) /\ FoundIfAny

\* What expiry leaves was there before.
LEMMA FewerBackends ==
    ASSUME BalancerInv, NEW t \in Times, NEW active, active = Balancer!lb_expire_backends(t)
    PROVE  /\ DOMAIN active \subseteq DOMAIN ips
           /\ \A a \in DOMAIN active : active[a] = ips[a]
           /\ InUse(active) \in SUBSET Balancer!BackendIndex
           /\ InUse(active) = {} => DOMAIN active = {}
           /\ Insiders(ips, backends) => Insiders(active, backends)
<1>1. /\ ips \in Table(Ip, backend_capacity, Times)
      /\ active = expire_items_single_map(ips, t - BackendExpiration)
  BY BalancerTable DEF BalancerInv, BalancerTyped, Balancer!lb_expire_backends
<1>2. /\ active \in Table(Ip, backend_capacity, Times)
      /\ DOMAIN active \subseteq DOMAIN ips
      /\ \A a \in DOMAIN active : active[a] = ips[a]
  BY <1>1, ExpireFacts
<1>3. \A a \in DOMAIN active : active[a].index \in Balancer!BackendIndex
  BY <1>2, TableElim DEF Entry, Balancer!BackendIndex
<1> QED
  BY <1>2, <1>3 DEF InUse, Insiders

\* A packet sent to an active backend does not leave by the WAN's device.
LEMMA SentInside ==
    ASSUME NEW active, Insiders(active, backends), NEW f, NEW b \in InUse(active),
           Balancer!SendTo(f, b)
    PROVE  lbOut'.nic # wan_device
<1>1. PICK a \in DOMAIN active : active[a].index = b
  BY DEF InUse
<1> QED
  BY <1>1 DEF Balancer!SendTo, Insiders

\* lb_assign_backend
LEMMA AssignFinds ==
    ASSUME BalancerInv, NEW t \in Times, NEW f \in LbFlow, NEW trk,
           NEW active, active = Balancer!lb_expire_backends(t), Insiders(active, backends),
           Balancer!lb_assign_backend(t, f, trk)
    PROVE  lbOut'.nic = wan_device => DOMAIN active = {}
<1> DEFINE found == Balancer!PreferredExists(Balancer!cht, fhash[f], InUse(active), cht_height,
                                             backend_capacity)
           b == Balancer!Preferred(Balancer!cht, fhash[f], InUse(active), cht_height,
                                   backend_capacity)
<1>1. \/ found /\ Balancer!SendTo(f, b)
      \/ ~found
  BY BalancerTable DEF Balancer!lb_assign_backend
<1>2. fhash[f] \in Nat /\ backend_capacity \in Nat
  BY BalancerConstants DEF Balancer!BalancerAssumption
<1>3. InUse(active) \in SUBSET Balancer!BackendIndex /\ (InUse(active) = {} => DOMAIN active = {})
  BY FewerBackends
<1>4. CASE found /\ Balancer!SendTo(f, b)
  <2>1. b \in InUse(active)
    BY <1>2, <1>4, PreferredActive
  <2> HIDE DEF b
  <2> QED
    BY <1>4, <2>1, SentInside
<1>5. CASE ~found
  BY <1>2, <1>3, <1>5, SearchFinds
<1> QED
  BY <1>1, <1>4, <1>5

\* Every packet keeps it that a packet finds a backend when one is active.
LEMMA FindsNext ==
    BalancerInv /\ FindsInv /\ [Balancer!Next]_Balancer!vars => FindsInv'
<1> SUFFICES ASSUME BalancerInv, FindsInv, [Balancer!Next]_Balancer!vars PROVE FindsInv'
  OBVIOUS
<1> USE DEF FoundIfAny, Balancer!FoundIfAny
<1>0. Insiders(ips, backends) /\ DROP # wan_device
  BY BalancerConstants DEF FindsInv, Balancer!BalancerAssumption
<1>1. CASE UNCHANGED Balancer!vars
  BY <1>1 DEF Balancer!vars, FindsInv, Insiders
<1>2. ASSUME NEW t \in Times, Balancer!Malformed(t) PROVE FindsInv'
  <2> DEFINE active == Balancer!lb_expire_backends(t)
  <2>1. ips' = active /\ backends' = backends /\ lbOut'.nic = DROP
    BY <1>2 DEF Balancer!Malformed, Balancer!Dropped
  <2>2. Insiders(active, backends)
    BY <1>0, FewerBackends
  <2> HIDE DEF active
  <2> QED
    BY <1>0, <2>1, <2>2 DEF FindsInv, Insiders
<1>3. ASSUME NEW t \in Times, NEW nic \in LbDevice, NEW a \in Ip, Balancer!Heartbeat(t, nic, a)
      PROVE  FindsInv'
  <2> DEFINE active == Balancer!lb_expire_backends(t)
  <2>1. /\ nic # wan_device /\ lbOut'.nic = DROP
        /\ \/ /\ a \in DOMAIN active
              /\ ips' = Rejuvenate(active, a, t)
              /\ backends' = backends
           \/ /\ a \notin DOMAIN active
              /\ \E b \in Free(active, backend_capacity) :
                    /\ backends' = [backends EXCEPT ![b] = [ip |-> a, nic |-> nic]]
                    /\ ips' = Enter(active, a, b, t)
           \/ ips' = active /\ backends' = backends
    BY <1>3, BalancerTable DEF Balancer!Heartbeat, Balancer!Dropped, Balancer!new_backend
  <2>2. Insiders(active, backends)
    BY <1>0, FewerBackends
  <2>3. active \in Table(Ip, backend_capacity, Times)
    BY BalancerExpires
  <2>4. backends \in [Balancer!BackendIndex -> [ip : Ip \cup {None}, nic : LbDevice]]
    BY DEF BalancerInv, BalancerTyped
  <2> HIDE DEF active
  <2>5. CASE a \in DOMAIN active /\ ips' = Rejuvenate(active, a, t) /\ backends' = backends
    <3>1. /\ DOMAIN ips' = DOMAIN active /\ ips'[a].index = active[a].index
          /\ \A x \in DOMAIN active \ {a} : ips'[x] = active[x]
      BY <2>3, <2>5, RejuvenateFacts
    <3> QED
      BY <1>0, <2>1, <2>2, <2>5, <3>1 DEF FindsInv, Insiders
  <2>6. ASSUME a \notin DOMAIN active, NEW b \in Free(active, backend_capacity),
               backends' = [backends EXCEPT ![b] = [ip |-> a, nic |-> nic]],
               ips' = Enter(active, a, b, t)
        PROVE  FindsInv'
    <3> DEFINE e == Enter(active, a, b, t)
    <3>1. /\ e \in Table(Ip, backend_capacity, Times)
          /\ DOMAIN e = DOMAIN active \cup {a}
          /\ e[a].index = b /\ e[a].stamp = t
          /\ \A x \in DOMAIN active : e[x] = active[x] /\ e[x].index # b
      <4>1. b \in Free(active, backend_capacity) /\ a \notin DOMAIN active
        BY <2>6
      <4> QED
        BY <2>3, <4>1, EnterFacts
    <3> HIDE DEF e
    <3>2. ips' = e
      BY <2>6 DEF e
    <3>3. b \in Balancer!BackendIndex
      BY DEF Free, Balancer!BackendIndex
    <3>4. \A x \in DOMAIN active : active[x].index \in Balancer!BackendIndex
      BY <2>3, TableElim DEF Entry, Balancer!BackendIndex
    <3>5. /\ backends'[b].nic = nic
          /\ \A x \in Balancer!BackendIndex \ {b} : backends'[x] = backends[x]
      BY <2>4, <2>6, <3>3
    <3>6. Insiders(ips', backends')
      BY <2>1, <2>2, <3>1, <3>2, <3>4, <3>5 DEF Insiders
    <3> QED
      BY <1>0, <2>1, <3>6 DEF FindsInv
  <2>7. CASE ips' = active /\ backends' = backends
    BY <1>0, <2>1, <2>2, <2>7 DEF FindsInv, Insiders
  <2> QED
    BY <2>1, <2>5, <2>6, <2>7
<1>4. ASSUME NEW t \in Times, NEW f \in LbFlow, Balancer!Balance(t, f) PROVE FindsInv'
  <2> DEFINE active == Balancer!lb_expire_backends(t)
             tracked == Balancer!lb_expire_flows(t)
             b == flow_id_to_backend_id[tracked[f].index]
  <2>1. /\ ips' = active /\ backends' = backends
        /\ \/ \E trk : Balancer!lb_assign_backend(t, f, trk)
           \/ b \in InUse(active) /\ Balancer!SendTo(f, b)
    BY <1>4, BalancerTable DEF Balancer!Balance, Balancer!BackendGone, Balancer!IsAllocated
  <2>2. Insiders(active, backends)
    BY <1>0, FewerBackends
  <2>3. lbOut'.nic = wan_device => DOMAIN active = {}
    <3>1. CASE \E trk : Balancer!lb_assign_backend(t, f, trk)
      BY <2>2, <3>1, AssignFinds
    <3>2. CASE b \in InUse(active) /\ Balancer!SendTo(f, b)
      <4> HIDE DEF b, active
      <4> QED
        BY <2>2, <3>2, SentInside
    <3> QED
      BY <2>1, <3>1, <3>2
  <2> HIDE DEF active
  <2> QED
    BY <2>1, <2>2, <2>3 DEF FindsInv, Insiders
<1>5. \A t \in lbNow .. LbMaxTime : t \in Times
  BY DEF Times
<1> QED
  BY <1>1, <1>2, <1>3, <1>4, <1>5 DEF Balancer!Next

\* FoundIfAny of the load balancer (cht_find_preferred_available_backend, as
\* lb_assign_backend calls it): a packet of the WAN is left without a backend
\* only when none is active, for any prime height, any number of backends,
\* also more than the table has rows, and any hash.
THEOREM BalancerFindsBackend == Balancer!Spec => []FoundIfAny
<1>1. Balancer!Init => FindsInv
  <2> SUFFICES ASSUME Balancer!Init PROVE FindsInv
    OBVIOUS
  <2>1. DOMAIN ips = {}
    BY BalancerTable, EmptyFacts DEF Balancer!Init
  <2> QED
    BY <2>1 DEF FindsInv, Insiders, FoundIfAny, Balancer!FoundIfAny
<1>2. FindsInv => FoundIfAny
  BY DEF FindsInv
<1> QED
  BY <1>1, <1>2, FindsNext, BalancerInit, BalancerNext, PTL DEF Balancer!Spec

------------------------------------------------------------------------------
(* The worker loop, with a driver that takes every batch whole.  The        *)
(* buffers a batch holds are in no other batch and are not still to be      *)
(* processed, and the loop owns exactly those it can reach.                 *)

\* Buffers received and not yet processed.
Unread(s, k) == { s[j] : j \in k + 1 .. Len(s) }
Left == IF n = -1 THEN {} ELSE Unread(mbufs, n)

WorkerTyped ==
    /\ owner \in [Mbuf -> {"nic", "app"}]
    /\ mbufs \in Seq(Mbuf)
    /\ \A a, b \in 1 .. Len(mbufs) : mbufs[a] = mbufs[b] => a = b
    /\ n \in -1 .. Len(mbufs)
    /\ txBatch \in [Worker!Device -> Seq(Mbuf)]
    /\ dst_device \in Worker!Device

\* Batches are sent in the order of the devices, once all buffers are processed.
InTurn ==
    /\ n = -1 => dst_device = 0 /\ \A d \in Worker!Device : Range(txBatch[d]) = {}
    /\ dst_device # 0 => n = Len(mbufs)
    /\ \A d \in Worker!Device : d < dst_device => Range(txBatch[d]) = {}

Apart ==
    \A d \in Worker!Device :
        /\ Range(txBatch[d]) \cap Left = {}
        /\ \A e \in Worker!Device : d # e => Range(txBatch[d]) \cap Range(txBatch[e]) = {}

\* The loop's buffers, and none freed that was not one of them.
Reached ==
    /\ freedTwice = {}
    /\ \A m \in Mbuf :
          owner[m] = "app" <=>
              m \in Left \/ \E d \in Worker!Device : m \in Range(txBatch[d])

WorkerInv == WorkerTyped /\ InTurn /\ Apart /\ Reached

\* What Reached says of the loop's buffers is what BuffersAccounted says.
LEMMA ReachedIsAccounted == WorkerInv => BuffersAccounted
<1> SUFFICES ASSUME WorkerInv PROVE BuffersAccounted
  OBVIOUS
<1>1. \A d \in Worker!Device : Range(txBatch[d]) \subseteq Mbuf
  BY ElementOfSeq DEF WorkerInv, WorkerTyped, Range
<1>2. Left \subseteq Mbuf
  BY ElementOfSeq DEF WorkerInv, WorkerTyped, Left, Unread
<1>3. Left = IF n = -1 THEN {} ELSE Worker!Unprocessed
  BY DEF Left, Unread, Worker!Unprocessed
<1>4. \A m \in Mbuf :
         m \in Worker!Waiting <=> \E d \in Worker!Device : m \in Range(txBatch[d])
  BY DEF Worker!Waiting, Range
<1>5. Worker!Waiting \subseteq Mbuf
  BY DEF Worker!Waiting
<1>6. { m \in Mbuf : owner[m] = "app" } = Left \cup Worker!Waiting
  BY <1>2, <1>4, <1>5 DEF WorkerInv, Reached
<1> QED
  BY <1>3, <1>6 DEF WorkerInv, Reached, BuffersAccounted, Worker!BuffersAccounted

\* nf_main begins with nothing read and nothing to send.
LEMMA WorkerStarts == Worker!Init => WorkerInv
<1> SUFFICES ASSUME Worker!Init PROVE WorkerInv
  OBVIOUS
<1>1. 0 \in Worker!Device
  BY WorkerConstants DEF Worker!WorkerAssumption, Worker!Device
<1>2. << >> \in Seq(Mbuf) /\ Len(<< >>) = 0 /\ Range(<< >>) = {}
  BY EmptySeq DEF Range
<1>3. \A d \in Worker!Device : txBatch[d] = << >> /\ ~(d < 0)
  BY WorkerConstants DEF Worker!Init, Worker!WorkerAssumption, Worker!Device
<1>4. Left = {}
  BY DEF Worker!Init, Left
<1>5. WorkerTyped
  BY <1>1, <1>2 DEF Worker!Init, WorkerTyped
<1>6. InTurn /\ Apart
  BY <1>2, <1>3, <1>4 DEF Worker!Init, InTurn, Apart
<1>7. Reached
  BY <1>2, <1>3, <1>4 DEF Worker!Init, Reached
<1> QED
  BY <1>5, <1>6, <1>7 DEF WorkerInv

\* rte_eth_rx_burst: the received buffers were the driver's, and no other is the
\* loop's.
LEMMA RxBurstKeeps == WorkerInv /\ Worker!RxBurst => WorkerInv'
<1> SUFFICES ASSUME WorkerInv, Worker!RxBurst PROVE WorkerInv'
  OBVIOUS
<1>0. PICK k \in Nat : \E s \in [1 .. k -> { m \in Mbuf : owner[m] = "nic" }] :
          /\ \A a, b \in 1 .. k : a # b => s[a] # s[b]
          /\ mbufs' = s
          /\ owner' = [m \in Mbuf |-> IF \E j \in DOMAIN s : s[j] = m THEN "app" ELSE owner[m]]
  BY WorkerConstants DEF Worker!RxBurst, Worker!Batches, Worker!WorkerAssumption
<1>1. PICK s \in [1 .. k -> { m \in Mbuf : owner[m] = "nic" }] :
          /\ \A a, b \in 1 .. k : a # b => s[a] # s[b]
          /\ mbufs' = s
          /\ owner' = [m \in Mbuf |-> IF \E j \in DOMAIN s : s[j] = m THEN "app" ELSE owner[m]]
  BY <1>0
<1>2. s \in Seq(Mbuf) /\ Len(s) = k /\ DOMAIN s = 1 .. k
  BY <1>1
<1>3. n = -1 /\ n' = 0 /\ UNCHANGED <<txBatch, dst_device, freedTwice>>
  BY DEF Worker!RxBurst
<1>4. Left' = Range(s)
  BY <1>1, <1>2, <1>3 DEF Left, Unread, Range
<1>5. WorkerTyped'
  BY <1>1, <1>2, <1>3 DEF WorkerInv, WorkerTyped
<1>6. \A d \in Worker!Device : Range(txBatch'[d]) = {}
  BY <1>3 DEF WorkerInv, InTurn
<1>7. dst_device' = 0 /\ \A d \in Worker!Device : ~(d < 0)
  BY <1>3 DEF WorkerInv, InTurn, Worker!Device
<1>8. InTurn' /\ Apart'
  BY <1>3, <1>6, <1>7 DEF InTurn, Apart
<1>9. \A m \in Mbuf : owner[m] # "app"
  BY <1>3 DEF WorkerInv, Reached, InTurn, Left
<1>10. \A m \in Mbuf : owner'[m] = "app" <=> m \in Range(s)
  BY <1>1, <1>9 DEF Range
<1>11. Reached'
  BY <1>3, <1>4, <1>6, <1>10 DEF WorkerInv, Reached
<1> QED
  BY <1>5, <1>8, <1>11 DEF WorkerInv

\* A batch holds the appended buffer and those it held.
LEMMA AppendRange ==
    ASSUME NEW s \in Seq(Mbuf), NEW m \in Mbuf
    PROVE  Append(s, m) \in Seq(Mbuf) /\ Range(Append(s, m)) = Range(s) \cup {m}
<1>1. /\ Append(s, m) \in Seq(Mbuf)
      /\ Len(s) \in Nat /\ DOMAIN s = 1 .. Len(s)
      /\ DOMAIN Append(s, m) = 1 .. Len(s) + 1
      /\ \A j \in 1 .. Len(s) : Append(s, m)[j] = s[j]
      /\ Append(s, m)[Len(s) + 1] = m
  OBVIOUS
<1> DEFINE t == Append(s, m)
<1> HIDE DEF t
<1>2. \A j \in DOMAIN s : j \in DOMAIN t /\ t[j] = s[j]
  BY <1>1 DEF t
<1>3. Len(s) + 1 \in DOMAIN t /\ t[Len(s) + 1] = m
  BY <1>1 DEF t
<1>4. \A j \in DOMAIN t : j \in DOMAIN s \/ j = Len(s) + 1
  BY <1>1 DEF t
<1>5. Range(t) = Range(s) \cup {m}
  BY <1>2, <1>3, <1>4 DEF Range
<1> QED
  BY <1>1, <1>5 DEF t

\* A processed buffer is either the driver's again or in one more batch.
LEMMA ProcessOneKeeps ==
    ASSUME WorkerInv, NEW dst \in Worker!Device \cup {DROP}, Worker!ProcessOne(dst)
    PROVE  WorkerInv'
<1> DEFINE m == mbufs[n + 1]
<1>1. /\ mbufs \in Seq(Mbuf) /\ Len(mbufs) \in Nat
      /\ \A a, b \in 1 .. Len(mbufs) : mbufs[a] = mbufs[b] => a = b
      /\ n \in 0 .. Len(mbufs) - 1 /\ n' = n + 1
      /\ UNCHANGED <<mbufs, dst_device>>
  BY DEF WorkerInv, WorkerTyped, Worker!ProcessOne
<1>2. m \in Mbuf
  BY <1>1, ElementOfSeq
<1>3. Left = Unread(mbufs, n) /\ Left' = Unread(mbufs, n + 1)
  BY <1>1 DEF Left
<1>4. m \in Left /\ Left' = Left \ {m}
  <2>1. m \in Left
    BY <1>1, <1>3 DEF Unread
  <2>2. \A x : x \in Left <=> x = m \/ x \in Left'
    <3>1. \A j \in n + 1 .. Len(mbufs) : j = n + 1 \/ j \in n + 2 .. Len(mbufs)
      BY <1>1
    <3>2. \A j \in n + 2 .. Len(mbufs) : j \in n + 1 .. Len(mbufs)
      BY <1>1
    <3>3. n + 1 + 1 = n + 2
      BY <1>1
    <3> QED
      BY <1>3, <2>1, <3>1, <3>2, <3>3 DEF Unread
  <2>3. m \notin Left'
    <3>1. \A j \in n + 1 + 1 .. Len(mbufs) : mbufs[j] # m
      BY <1>1
    <3> QED
      BY <1>3, <3>1 DEF Unread
  <2> QED
    BY <2>2, <2>3
<1>5. dst_device = 0 /\ \A d \in Worker!Device : ~(d < 0)
  BY <1>1 DEF WorkerInv, InTurn, Worker!Device
<1>6. \/ /\ owner' = [x \in Mbuf |-> IF x \in {m} THEN "nic" ELSE owner[x]]
         /\ freedTwice' = freedTwice \cup {x \in {m} : owner[x] # "app"}
         /\ txBatch' = txBatch
      \/ /\ dst \in Worker!Device
         /\ txBatch' = [txBatch EXCEPT ![dst] = Append(@, m)]
         /\ UNCHANGED <<owner, freedTwice>>
  BY DEF Worker!ProcessOne, Worker!Drop, Worker!FreeAll
<1>7. n' # -1 /\ n' \in -1 .. Len(mbufs)
  BY <1>1
<1> HIDE DEF m
<1>8. CASE /\ owner' = [x \in Mbuf |-> IF x \in {m} THEN "nic" ELSE owner[x]]
           /\ freedTwice' = freedTwice \cup {x \in {m} : owner[x] # "app"}
           /\ txBatch' = txBatch
  <2>1. WorkerTyped'
    BY <1>1, <1>7, <1>8 DEF WorkerInv, WorkerTyped
  <2>2. InTurn' /\ Apart'
    BY <1>1, <1>4, <1>5, <1>7, <1>8 DEF WorkerInv, InTurn, Apart
  <2>3. owner[m] = "app"
    BY <1>2, <1>4 DEF WorkerInv, Reached
  <2>4. \A d \in Worker!Device : m \notin Range(txBatch[d])
    BY <1>4 DEF WorkerInv, Apart
  <2>5. Reached'
    BY <1>4, <1>8, <2>3, <2>4 DEF WorkerInv, Reached
  <2> QED
    BY <2>1, <2>2, <2>5 DEF WorkerInv
<1>9. CASE /\ dst \in Worker!Device
           /\ txBatch' = [txBatch EXCEPT ![dst] = Append(@, m)]
           /\ UNCHANGED <<owner, freedTwice>>
  <2>1. txBatch \in [Worker!Device -> Seq(Mbuf)]
    BY DEF WorkerInv, WorkerTyped
  <2>2. /\ txBatch' \in [Worker!Device -> Seq(Mbuf)]
        /\ Range(txBatch'[dst]) = Range(txBatch[dst]) \cup {m}
        /\ \A d \in Worker!Device \ {dst} : txBatch'[d] = txBatch[d]
    BY <1>2, <1>9, <2>1, AppendRange
  <2>3. WorkerTyped'
    BY <1>1, <1>7, <1>9, <2>2 DEF WorkerInv, WorkerTyped
  <2>4. InTurn'
    BY <1>1, <1>5, <1>7 DEF InTurn
  <2>5. \A d \in Worker!Device : m \notin Range(txBatch[d])
    BY <1>4 DEF WorkerInv, Apart
  <2>6. Apart'
    BY <1>4, <1>9, <2>2, <2>5 DEF WorkerInv, Apart
  <2>7. Reached'
    BY <1>4, <1>9, <2>2 DEF WorkerInv, Reached
  <2> QED
    BY <2>3, <2>4, <2>6, <2>7 DEF WorkerInv
<1> QED
  BY <1>6, <1>8, <1>9

\* A batch the driver takes whole leaves nothing to clean up, and after the last
\* one every buffer is the driver's.
LEMMA TxBurstKeeps ==
    ASSUME ~TxMayRefuse, WorkerInv, NEW sent, Worker!TxBurst(sent)
    PROVE  WorkerInv'
<1> DEFINE batch == txBatch[dst_device]
<1>1. /\ owner \in [Mbuf -> {"nic", "app"}]
      /\ mbufs \in Seq(Mbuf) /\ Len(mbufs) \in Nat
      /\ txBatch \in [Worker!Device -> Seq(Mbuf)]
      /\ dst_device \in Worker!Device
      /\ n = Len(mbufs)
  BY DEF WorkerInv, WorkerTyped, Worker!TxBurst
<1>2. batch \in Seq(Mbuf) /\ Len(batch) \in Nat /\ DOMAIN batch = 1 .. Len(batch)
  BY <1>1
<1>3. /\ owner' = [m \in Mbuf |->
                     IF m \in { batch[j] : j \in 1 .. sent }
                               \cup { mbufs[j] : j \in sent + 1 .. Len(batch) }
                     THEN "nic" ELSE owner[m]]
      /\ freedTwice' = freedTwice \cup
             {m \in { mbufs[j] : j \in sent + 1 .. Len(batch) } :
                 m \in { batch[j] : j \in 1 .. sent } \/ owner[m] # "app"}
      /\ txBatch' = [txBatch EXCEPT ![dst_device] = << >>]
      /\ sent = Len(batch)
  BY DEF Worker!TxBurst, Worker!EmptyBatch
<1>4. \/ /\ dst_device # Worker!Last
         /\ dst_device' = dst_device + 1 /\ UNCHANGED <<n, mbufs>>
      \/ /\ dst_device = Worker!Last
         /\ dst_device' = 0 /\ n' = -1 /\ mbufs' = << >>
  BY DEF Worker!TxBurst
<1>5. { mbufs[j] : j \in sent + 1 .. Len(batch) } = {}
  BY <1>2, <1>3
<1>6. { batch[j] : j \in 1 .. sent } = Range(batch)
  BY <1>2, <1>3 DEF Range
<1> HIDE DEF batch
<1>7. /\ owner' = [m \in Mbuf |-> IF m \in Range(batch) THEN "nic" ELSE owner[m]]
      /\ freedTwice' = {}
  BY <1>3, <1>5, <1>6 DEF WorkerInv, Reached
<1>8. << >> \in Seq(Mbuf) /\ Len(<< >>) = 0 /\ Range(<< >>) = {}
  BY EmptySeq DEF Range
<1>9. /\ txBatch' \in [Worker!Device -> Seq(Mbuf)]
      /\ Range(txBatch'[dst_device]) = {}
      /\ \A d \in Worker!Device \ {dst_device} : txBatch'[d] = txBatch[d]
      /\ batch = txBatch[dst_device]
  BY <1>1, <1>3, <1>8 DEF batch
<1>10. Left = {} /\ Left' = {}
  BY <1>1, <1>4 DEF Left, Unread
<1>11. Apart'
  BY <1>9, <1>10 DEF WorkerInv, Apart
<1>12. Reached'
  BY <1>1, <1>7, <1>9, <1>10 DEF WorkerInv, Apart, Reached
<1>13. \A d \in Worker!Device : d \in Int /\ 0 <= d /\ d <= Worker!Last
  BY WorkerConstants DEF Worker!WorkerAssumption, Worker!Device, Worker!Last
<1>14. CASE dst_device # Worker!Last /\ dst_device' = dst_device + 1 /\ UNCHANGED <<n, mbufs>>
  <2>1. dst_device' \in Worker!Device
    BY <1>1, <1>14, WorkerConstants DEF Worker!WorkerAssumption, Worker!Device, Worker!Last
  <2>2. WorkerTyped'
    BY <1>7, <1>1, <1>9, <1>14, <2>1 DEF WorkerInv, WorkerTyped
  <2>3. InTurn'
    BY <1>1, <1>9, <1>13, <1>14, <2>1 DEF WorkerInv, InTurn
  <2> QED
    BY <1>11, <1>12, <2>2, <2>3 DEF WorkerInv
<1>15. CASE dst_device = Worker!Last /\ dst_device' = 0 /\ n' = -1 /\ mbufs' = << >>
  <2>1. 0 \in Worker!Device
    BY WorkerConstants DEF Worker!WorkerAssumption, Worker!Device
  <2>2. WorkerTyped'
    BY <1>7, <1>1, <1>8, <1>9, <1>15, <2>1 DEF WorkerInv, WorkerTyped
  <2>3. \A d \in Worker!Device : Range(txBatch'[d]) = {}
    <3>1. \A d \in Worker!Device : d < dst_device => Range(txBatch[d]) = {}
      BY DEF WorkerInv, InTurn
    <3>2. \A d \in Worker!Device : d = dst_device \/ d < dst_device
      BY <1>1, <1>13, <1>15
    <3>3. \A d \in Worker!Device \ {dst_device} : Range(txBatch'[d]) = {}
      BY <1>9, <3>1, <3>2
    <3> QED
      BY <1>9, <3>3
  <2>4. InTurn'
    BY <1>15, <2>3 DEF InTurn
  <2> QED
    BY <1>11, <1>12, <2>2, <2>4 DEF WorkerInv
<1> QED
  BY <1>4, <1>14, <1>15

\* Every step of the loop keeps the invariant.
LEMMA WorkerNext == ~TxMayRefuse /\ WorkerInv /\ [Worker!Next]_Worker!vars => WorkerInv'
<1> SUFFICES ASSUME ~TxMayRefuse, WorkerInv, [Worker!Next]_Worker!vars PROVE WorkerInv'
  OBVIOUS
<1>1. CASE UNCHANGED Worker!vars
  BY <1>1 DEF Worker!vars, WorkerInv, WorkerTyped, InTurn, Apart, Reached, Left
<1>2. CASE Worker!Next
  BY <1>2, RxBurstKeeps, ProcessOneKeeps, TxBurstKeeps DEF Worker!Next
<1> QED
  BY <1>1, <1>2

\* BuffersAccounted of the worker loop (nf.c): as long as the driver takes every
\* batch whole, no buffer leaks and none is freed twice, for any number of
\* devices and buffers, any batch size and whatever nf_process decides.
THEOREM WorkerAccountsForBuffers ==
    ASSUME ~TxMayRefuse
    PROVE  Worker!Spec => []BuffersAccounted
<1>1. WorkerInv /\ [Worker!Next]_Worker!vars => WorkerInv'
  BY WorkerNext
<1> QED
  BY <1>1, WorkerStarts, ReachedIsAccounted, PTL DEF Worker!Spec

------------------------------------------------------------------------------
(* The port scan detector, for any sources, indexes, ports, hash and limit, *)
(* until an allocation leaves ports behind: it does when a used index other *)
(* than 0 is given out again (the run port_scan_sources).  D are the        *)
(* theorems of the hash map, whose calls the detector makes; nothing here   *)
(* has a chain.                                                             *)

D == INSTANCE DataStructureProofs WITH
         IndexRange <- 1, MaxTime <- 0, next <- << >>, prev <- << >>, timestamps <- << >>,
         now <- 0, ret <- << >>, used <- {}, older <- {}, sooner <- {},
         Capacity <- SourceCapacity * max_ports, Key <- Detector!TouchedPort,
         Val <- 0 .. max_ports - 1, Ptr <- Detector!Cell, mem <- ports_key

\* The sizes suit the map.
LEMMA PortsSizes == D!MapAssumption /\ D!IndexRangeAssumption /\ D!MaxTimeAssumption
BY DetectorConstants
   DEF D!MapAssumption, D!IndexRangeAssumption, D!MaxTimeAssumption, Detector!Ports!MapAssumption

\* The detector's map is the one the theorems are about ...
LEMMA SamePorts ==
    /\ Detector!Ports!Busy = D!Busy
    /\ Detector!Ports!MapInit <=> D!MapInit
    /\ \A k : Detector!Ports!find_key(k) = D!find_key(k)
    /\ \A k, p, v : Detector!Ports!PutSlot(k, p, v) <=> D!PutSlot(k, p, v)
    /\ \A k : Detector!Ports!EraseSlot(k) <=> D!EraseSlot(k)
<1>1. Detector!Ports!Slot = D!Slot /\ Detector!Ports!Busy = D!Busy
  BY DEF Detector!Ports!Slot, D!Slot, Detector!Ports!Busy, D!Busy
<1>2. ASSUME NEW k, NEW r PROVE Detector!Ports!Probe(k, r) = D!Probe(k, r)
  BY DEF Detector!Ports!Probe, D!Probe, Detector!Ports!loop, D!loop
<1>3. ASSUME NEW A PROVE Detector!Ports!Least(A) = D!Least(A)
  BY DEF Detector!Ports!Least, D!Least
<1>4. ASSUME NEW k PROVE Detector!Ports!find_key(k) = D!find_key(k)
  BY <1>2, <1>3 DEF Detector!Ports!find_key, D!find_key, Detector!Ports!Stops, D!Stops,
                    Detector!Ports!Match, D!Match, Detector!Ports!SameHash, D!SameHash
<1>5. ASSUME NEW k
      PROVE  /\ Detector!Ports!EmptyRounds(k) = D!EmptyRounds(k)
             /\ Detector!Ports!MatchRounds(k) = D!MatchRounds(k)
  BY <1>2 DEF Detector!Ports!EmptyRounds, D!EmptyRounds, Detector!Ports!MatchRounds,
              D!MatchRounds, Detector!Ports!Match, D!Match, Detector!Ports!SameHash, D!SameHash
<1>6. ASSUME NEW k, NEW r PROVE Detector!Ports!Passed(k, r) = D!Passed(k, r)
  BY <1>2 DEF Detector!Ports!Passed, D!Passed
<1>7. ASSUME NEW k, NEW p, NEW v PROVE Detector!Ports!PutSlot(k, p, v) <=> D!PutSlot(k, p, v)
  BY <1>1, <1>2, <1>3, <1>5, <1>6 DEF Detector!Ports!PutSlot, D!PutSlot
<1>8. ASSUME NEW k PROVE Detector!Ports!EraseSlot(k) <=> D!EraseSlot(k)
  BY <1>1, <1>2, <1>3, <1>5, <1>6 DEF Detector!Ports!EraseSlot, D!EraseSlot
<1>9. Detector!Ports!MapInit <=> D!MapInit
  BY <1>1 DEF Detector!Ports!MapInit, D!MapInit
<1> QED
  BY <1>1, <1>4, <1>7, <1>8, <1>9

\* ... and its table of sources works as the limiter's.
LEMMA DetectorTable ==
    /\ Detector!EmptyTable = EmptyTable
    /\ \A t, time : Detector!expire_items_single_map(t, time) = expire_items_single_map(t, time)
    /\ \A t, k, time : Detector!Rejuvenate(t, k, time) = Rejuvenate(t, k, time)
    /\ \A t, k, x, time : Detector!Enter(t, k, x, time) = Enter(t, k, x, time)
    /\ \A t, cap : Detector!Free(t, cap) = Free(t, cap)
BY DEF Detector!EmptyTable, EmptyTable, Detector!expire_items_single_map,
       expire_items_single_map, Detector!Restrict, Restrict, Detector!Rejuvenate, Rejuvenate,
       Detector!Enter, Enter, Detector!Free, Free, Detector!InUse, InUse

Tracking == srcs \in Table(Src, SourceCapacity, Times) /\ Injective(srcs)

DetectorTyped ==
    /\ Tracking
    /\ touched_ports_counter \in [Detector!Index -> 0 .. max_ports]
    /\ reached \in [Src -> SUBSET Port]
    /\ pc \in {"idle", "cleanup"}
    /\ pc = "cleanup" =>
           /\ cur.src \in DOMAIN srcs /\ srcs[cur.src].index = cur.index /\ cur.port \in Port
           /\ \/ cur.index = 0 /\ i \in 0 .. touched_ports_counter[0]
              \/ cur.index # 0 /\ touched_ports_counter[cur.index] = 0 /\ i \in Nat

\* Cell c of the cells of index x; where the key of entry e lies; whose it is.
PlaceOf(x, c) == max_ports * x + c
Home(e) == keyps[e] \div max_ports
Whose(e) == ports_key[keyps[e]][1]

\* The cells of index x up to its counter that the clean-up has not come to
CleanUpAt(x) == pc = "cleanup" /\ x = 0 /\ cur.index = 0
Held(x) == (IF CleanUpAt(x) THEN i ELSE 0) .. touched_ports_counter[x] - 1

\* The key cells of the map's entries are those, one to an entry.
CellsHeld ==
    /\ \A e, f \in D!Busy : keyps[e] = keyps[f] => e = f
    /\ \A e \in D!Busy : \E x \in Detector!Index : \E c \in Held(x) : keyps[e] = PlaceOf(x, c)
    /\ \A x \in Detector!Index : \A c \in Held(x) : \E e \in D!Busy : keyps[e] = PlaceOf(x, c)

\* A tracked source has no ports but at its index.
AtHome == \A s \in DOMAIN srcs : \A e \in D!Busy : Whose(e) = s => Home(e) = srcs[s].index

\* There the keys are the source and the ports it reached, when it is not being
\* allocated.
PortsOwn ==
    \A s \in DOMAIN srcs :
        \/ pc = "cleanup" /\ s = cur.src
        \/ /\ \A e \in D!Busy : Home(e) = srcs[s].index => ports_key[keyps[e]] \in {s} \X reached[s]
           /\ \A p \in reached[s] : \E e \in D!Busy : ports_key[keyps[e]] = <<s, p>>

Limits ==
    /\ \A s \in Src : IsFiniteSet(reached[s]) /\ Cardinality(reached[s]) <= max_ports
    /\ ~psOut.passed => /\ psOut.src \in Src
                        /\ Cardinality(reached[psOut.src]) = max_ports
                        /\ psOut.port \notin reached[psOut.src]

ScanInv == D!MapInv /\ DetectorTyped /\ CellsHeld /\ AtHome /\ PortsOwn /\ Limits

\* Until an allocation leaves ports behind
DetectorInv == ~leftBehind => ScanInv

\* The sizes, and the cells of the indexes: they do not overlap.
LEMMA Places ==
    /\ max_ports \in Nat \ {0} /\ Detector!Index \subseteq Nat /\ 0 \in Detector!Index
    /\ \A x \in Detector!Index, c \in 0 .. max_ports - 1 :
          PlaceOf(x, c) \in Detector!Cell /\ PlaceOf(x, c) \div max_ports = x
    /\ \A x, y \in Detector!Index : \A c, d \in 0 .. max_ports - 1 :
          PlaceOf(x, c) = PlaceOf(y, d) => x = y /\ c = d
    /\ \A c \in Int : PlaceOf(0, c) = c
    /\ \A x \in Detector!Index : max_ports * x = PlaceOf(x, 0)
<1>1. /\ max_ports \in Nat \ {0} /\ SourceCapacity \in Nat \ {0}
      /\ Detector!Index = 0 .. SourceCapacity - 1
      /\ Detector!Cell = 0 .. SourceCapacity * max_ports - 1
  BY DetectorConstants DEF Detector!DetectorAssumption, Detector!Index, Detector!Cell
<1>2. ASSUME NEW x \in Detector!Index, NEW c \in 0 .. max_ports - 1
      PROVE  PlaceOf(x, c) \in Detector!Cell /\ PlaceOf(x, c) \div max_ports = x
  <2>1. x \in Nat /\ x * max_ports = max_ports * x
    BY <1>1
  <2>2. (x * max_ports + c) \div max_ports = x
    BY <1>1, <2>1, DivModUnique
  <2>3. x * max_ports \in Nat /\ (x + 1) * max_ports = x * max_ports + max_ports
    BY <1>1, <2>1
  <2>4. (x + 1) * max_ports <= SourceCapacity * max_ports
    BY <1>1, <2>1
  <2> QED
    BY <1>1, <2>1, <2>2, <2>3, <2>4 DEF PlaceOf
<1>3. ASSUME NEW x \in Detector!Index, NEW y \in Detector!Index,
             NEW c \in 0 .. max_ports - 1, NEW d \in 0 .. max_ports - 1,
             PlaceOf(x, c) = PlaceOf(y, d)
      PROVE  x = y /\ c = d
  <2>1. x = y
    BY <1>2, <1>3
  <2>2. max_ports * x \in Int
    BY <1>1
  <2> QED
    BY <1>1, <1>3, <2>1, <2>2 DEF PlaceOf
<1>4. \A c \in Int : PlaceOf(0, c) = c
  <2>1. max_ports * 0 = 0
    BY <1>1
  <2> QED
    BY <2>1 DEF PlaceOf
<1>5. ASSUME NEW x \in Detector!Index PROVE max_ports * x = PlaceOf(x, 0)
  <2>1. max_ports * x \in Int
    BY <1>1
  <2> QED
    BY <2>1 DEF PlaceOf
<1>6. Detector!Index \subseteq Nat /\ 0 \in Detector!Index
  BY <1>1
<1> QED
  BY <1>1, <1>2, <1>3, <1>4, <1>5, <1>6

LEMMA PlacesApart ==
    ASSUME NEW x \in Detector!Index, NEW y \in Detector!Index,
           NEW c \in 0 .. max_ports - 1, NEW d \in 0 .. max_ports - 1,
           PlaceOf(x, c) = PlaceOf(y, d)
    PROVE  x = y /\ c = d
BY Places

LEMMA PlaceHome ==
    ASSUME NEW e, NEW x \in Detector!Index, NEW c \in 0 .. max_ports - 1, keyps[e] = PlaceOf(x, c)
    PROVE  Home(e) = x
BY Places DEF Home

\* The image of an injective function is as large as its domain.
LEMMA ImageSize ==
    ASSUME NEW A, NEW B, NEW f \in [A -> B], IsFiniteSet(A),
           \A x, y \in A : f[x] = f[y] => x = y,
           \A z \in B : \E x \in A : f[x] = z
    PROVE  IsFiniteSet(B) /\ Cardinality(B) = Cardinality(A)
<1>1. f \in Bijection(A, B)
  BY DEF Bijection, Injection, Surjection, IsInjective
<1> QED
  BY <1>1, FS_Bijection DEF ExistsBijection

\* A counter never exceeds the limit, so that the cells of an index suffice.
LEMMA HeldFits ==
    ASSUME DetectorTyped, NEW x \in Detector!Index
    PROVE  /\ touched_ports_counter[x] \in 0 .. max_ports
           /\ Held(x) \subseteq 0 .. max_ports - 1
           /\ ~CleanUpAt(x) => Held(x) = 0 .. touched_ports_counter[x] - 1
<1>1. touched_ports_counter[x] \in 0 .. max_ports /\ max_ports \in Nat
  BY Places DEF DetectorTyped
<1>2. CleanUpAt(x) => i \in 0 .. touched_ports_counter[x]
  BY DEF DetectorTyped, CleanUpAt
<1> QED
  BY <1>1, <1>2 DEF Held

\* An entry lies in a cell of its index that is held, and no other index has it.
LEMMA EntryPlace ==
    ASSUME DetectorTyped, CellsHeld, NEW e \in D!Busy
    PROVE  \E c \in Held(Home(e)) :
               /\ Home(e) \in Detector!Index /\ c \in 0 .. max_ports - 1
               /\ keyps[e] = PlaceOf(Home(e), c)
<1>1. PICK x \in Detector!Index : \E c \in Held(x) : keyps[e] = PlaceOf(x, c)
  BY DEF CellsHeld
<1>2. PICK c \in Held(x) : keyps[e] = PlaceOf(x, c)
  BY <1>1
<1>3. c \in 0 .. max_ports - 1
  BY HeldFits
<1>4. Home(e) = x
  BY <1>2, <1>3, Places DEF Home
<1> QED
  BY <1>2, <1>3, <1>4

\* Tracked sources have an index each.
LEMMA TrackedAt ==
    ASSUME NEW t \in Table(Src, SourceCapacity, Times)
    PROVE  /\ DOMAIN t \subseteq Src
           /\ \A s \in DOMAIN t : t[s].index \in Detector!Index
BY TableElim DEF Entry, Detector!Index

\* Between packets a tracked source has reached as many ports as its counter
\* says, which are as many as the map has entries in the cells of its index.
LEMMA ReachedCounted ==
    ASSUME ScanInv, pc = "idle", NEW s \in DOMAIN srcs, NEW x, x = srcs[s].index
    PROVE  /\ s \in Src /\ x \in Detector!Index /\ touched_ports_counter[x] \in 0 .. max_ports
           /\ IsFiniteSet(reached[s]) /\ Cardinality(reached[s]) = touched_ports_counter[x]
           /\ Cardinality({ e \in D!Busy : Home(e) = x }) = touched_ports_counter[x]
           /\ { ports_key[keyps[e]] : e \in { f \in D!Busy : Home(f) = x } } = {s} \X reached[s]
<1> DEFINE count == touched_ports_counter[x]
           here == { e \in D!Busy : Home(e) = x }
<1>0. /\ D!MapInv /\ D!KeysDistinct /\ DetectorTyped /\ CellsHeld
      /\ \A e \in here : ports_key[keyps[e]] \in {s} \X reached[s]
      /\ \A p \in reached[s] : \E e \in D!Busy : ports_key[keyps[e]] = <<s, p>>
      /\ \A e \in D!Busy : Whose(e) = s => Home(e) = x
  BY DEF ScanInv, PortsOwn, AtHome, D!MapInv
<1>1. s \in Src /\ x \in Detector!Index
  BY <1>0, TrackedAt DEF DetectorTyped, Tracking
<1>2. count \in 0 .. max_ports /\ Held(x) = 0 .. count - 1 /\ max_ports \in Nat
  BY <1>0, <1>1, HeldFits, Places DEF CleanUpAt
<1>3. IsFiniteSet(here) /\ Cardinality(here) = count
  <2> DEFINE held == 0 .. count - 1
             f == [c \in held |-> CHOOSE e \in D!Busy : keyps[e] = PlaceOf(x, c)]
  <2>1. ASSUME NEW c \in held PROVE f[c] \in here /\ keyps[f[c]] = PlaceOf(x, c)
    <3>1. f[c] \in D!Busy /\ keyps[f[c]] = PlaceOf(x, c)
      BY <1>0, <1>1, <1>2 DEF CellsHeld
    <3>2. Home(f[c]) = x
      BY <1>1, <1>2, <3>1, Places DEF Home
    <3> QED
      BY <3>1, <3>2
  <2>2. f \in [held -> here]
    BY <2>1
  <2>3. ASSUME NEW c \in held, NEW d \in held, f[c] = f[d] PROVE c = d
    <3>1. PlaceOf(x, c) = PlaceOf(x, d)
      BY <2>1, <2>3
    <3>2. c \in 0 .. max_ports - 1 /\ d \in 0 .. max_ports - 1
      BY <1>2
    <3> HIDE DEF f, held
    <3> QED
      BY <1>1, <3>1, <3>2, PlacesApart
  <2>4. ASSUME NEW e \in here PROVE \E c \in held : f[c] = e
    <3>1. PICK c \in Held(x) : keyps[e] = PlaceOf(x, c)
      BY <1>0, EntryPlace
    <3>2. f[c] \in D!Busy /\ keyps[f[c]] = keyps[e]
      BY <1>2, <2>1, <3>1
    <3> QED
      BY <1>0, <1>2, <3>2 DEF CellsHeld
  <2>5. IsFiniteSet(held) /\ Cardinality(held) = count
    <3>1. 0 \in Int /\ count - 1 \in Int /\ count \in Nat
      BY <1>2
    <3> HIDE DEF count, f
    <3> QED
      BY <3>1, FS_Interval
  <2> HIDE DEF f, held, here
  <2> QED
    BY <2>2, <2>3, <2>4, <2>5, ImageSize
<1>4. \A p \in reached[s] : \E e \in here : ports_key[keyps[e]] = <<s, p>>
  BY <1>0 DEF Whose
<1>5. IsFiniteSet(reached[s]) /\ Cardinality(reached[s]) = Cardinality(here)
  <2> DEFINE f == [e \in here |-> ports_key[keyps[e]][2]]
  <2>1. f \in [here -> reached[s]]
    BY <1>0
  <2>2. ASSUME NEW e \in here, NEW g \in here, f[e] = f[g] PROVE e = g
    <3>1. ports_key[keyps[e]] = ports_key[keyps[g]]
      BY <1>0, <2>2
    <3> QED
      BY <1>0, <3>1 DEF D!KeysDistinct
  <2>3. ASSUME NEW p \in reached[s] PROVE \E e \in here : f[e] = p
    <3>1. PICK e \in here : ports_key[keyps[e]] = <<s, p>>
      BY <1>4
    <3> QED
      BY <3>1
  <2> HIDE DEF f, here
  <2> QED
    BY <1>3, <2>1, <2>2, <2>3, ImageSize
<1>6. { ports_key[keyps[e]] : e \in here } = {s} \X reached[s]
  <2>1. ASSUME NEW k \in {s} \X reached[s] PROVE \E e \in here : ports_key[keyps[e]] = k
    <3>1. k = <<s, k[2]>> /\ k[2] \in reached[s]
      OBVIOUS
    <3> QED
      BY <1>4, <3>1
  <2> QED
    BY <1>0, <2>1
<1> QED
  BY <1>1, <1>2, <1>3, <1>5, <1>6

\* Two names of one operator
LEMMA DetectorCounts == \A set : Detector!Cardinality(set) = Cardinality(set)
BY DEF Detector!Cardinality, Cardinality

\* What the invariant says of the map and of drops.
LEMMA ScanInvImplies == DetectorInv => CleanedUpUntilLeft /\ DetectionExact
<1> SUFFICES ASSUME DetectorInv PROVE CleanedUpUntilLeft /\ DetectionExact
  OBVIOUS
<1>1. ASSUME ~leftBehind, pc = "idle", NEW s \in DOMAIN srcs
      PROVE  LET entries == Detector!EntriesOf(srcs[s].index)
             IN /\ Cardinality(entries) = touched_ports_counter[srcs[s].index]
                /\ { ports_key[keyps[e]] : e \in entries } = {s} \X reached[s]
  <2>1. Detector!EntriesOf(srcs[s].index) = { e \in D!Busy : Home(e) = srcs[s].index }
    BY SamePorts DEF Detector!EntriesOf, Home
  <2> QED
    BY <1>1, <2>1, ReachedCounted DEF DetectorInv
<1>2. CleanedUpUntilLeft
  BY <1>1, DetectorCounts
     DEF CleanedUpUntilLeft, Detector!CleanedUpUntilLeft, Detector!CleanedUp, Detector!Idle
<1>3. ASSUME ~leftBehind
      PROVE  /\ \A s \in DOMAIN srcs : Cardinality(reached[s]) <= max_ports
             /\ ~psOut.passed => /\ Cardinality(reached[psOut.src]) = max_ports
                                 /\ psOut.port \notin reached[psOut.src]
  <2>1. Limits /\ DOMAIN srcs \subseteq Src
    BY <1>3, TrackedAt DEF DetectorInv, ScanInv, DetectorTyped, Tracking
  <2> QED
    BY <2>1 DEF Limits
<1>4. DetectionExact
  BY <1>3, DetectorCounts DEF DetectionExact, Detector!DetectionExact
<1> QED
  BY <1>2, <1>4

\* alloc_state
LEMMA ScanInit == Detector!Init => ScanInv
<1> SUFFICES ASSUME Detector!Init PROVE ScanInv
  OBVIOUS
<1>1. D!MapInit
  BY SamePorts DEF Detector!Init
<1>2. D!MapInv /\ D!Busy = {}
  <2>1. D!MapInv
    BY <1>1, PortsSizes, D!MapInitInv
  <2> QED
    BY <1>1, <2>1 DEF D!MapInit, D!Busy
<1>3. /\ srcs = EmptyTable /\ touched_ports_counter = [x \in Detector!Index |-> 0]
      /\ pc = "idle" /\ reached = [s \in Src |-> {}] /\ psOut.passed
  BY DetectorTable DEF Detector!Init
<1>4. DOMAIN srcs = {} /\ Tracking
  BY <1>3, EmptyFacts DEF Tracking
<1>5. DetectorTyped
  <2>1. 0 \in 0 .. max_ports
    BY Places
  <2> QED
    BY <1>3, <1>4, <2>1 DEF DetectorTyped
<1>6. CellsHeld
  <2>1. ASSUME NEW x \in Detector!Index PROVE Held(x) = {}
    <3>1. Held(x) = 0 .. touched_ports_counter[x] - 1 /\ touched_ports_counter[x] = 0
      BY <1>3, <1>5, <2>1, HeldFits DEF CleanUpAt
    <3> QED
      BY <3>1
  <2> QED
    BY <1>2, <2>1 DEF CellsHeld
<1>7. AtHome /\ PortsOwn
  BY <1>4 DEF AtHome, PortsOwn
<1>8. Limits
  <2>1. IsFiniteSet({}) /\ Cardinality({}) = 0 /\ 0 <= max_ports
    BY FS_EmptySet, Places
  <2> QED
    BY <1>3, <2>1 DEF Limits
<1> QED
  BY <1>2, <1>5, <1>6, <1>7, <1>8 DEF ScanInv

\* Ageing only takes sources away.
LEMMA SourcesExpire ==
    ASSUME ScanInv, NEW t, NEW tracked, tracked = Detector!expire_entries(t)
    PROVE  /\ tracked \in Table(Src, SourceCapacity, Times) /\ Injective(tracked)
           /\ DOMAIN tracked \subseteq DOMAIN srcs /\ DOMAIN srcs \subseteq Src
           /\ \A s \in DOMAIN tracked : tracked[s] = srcs[s]
<1> DEFINE deadline == t - PsExpiration
<1>1. tracked = expire_items_single_map(srcs, deadline)
  BY DetectorTable DEF Detector!expire_entries
<1> HIDE DEF deadline
<1>2. srcs \in Table(Src, SourceCapacity, Times) /\ Injective(srcs)
  BY DEF ScanInv, DetectorTyped, Tracking
<1>3. /\ tracked \in Table(Src, SourceCapacity, Times) /\ Injective(tracked)
      /\ DOMAIN tracked \subseteq DOMAIN srcs /\ \A s \in DOMAIN tracked : tracked[s] = srcs[s]
  BY <1>1, <1>2, ExpireFacts
<1> QED
  BY <1>2, <1>3, TrackedAt

\* A step that leaves the map and its key cells alone
LEMMA PortsKept ==
    ASSUME ScanInv, UNCHANGED <<Detector!portsMap, ports_key>>
    PROVE  /\ D!MapInv' /\ D!Busy' = D!Busy /\ UNCHANGED <<keyps, ports_key>>
           /\ \A e : Home(e)' = Home(e) /\ Whose(e)' = Whose(e)
<1>1. UNCHANGED D!mapVars
  BY DEF Detector!portsMap, D!mapVars
<1>2. D!MapInv'
  BY <1>1, PortsSizes, D!MapNextInv DEF ScanInv
<1> QED
  BY <1>1, <1>2 DEF D!mapVars, D!Busy, Home, Whose

\* Packets that change no more than the table of sources, which holds none
\* that it did not hold ...
LEMMA QuietMap ==
    ASSUME ScanInv, pc = "idle", Tracking', DOMAIN srcs' \subseteq DOMAIN srcs,
           \A s \in DOMAIN srcs' : srcs'[s].index = srcs[s].index,
           UNCHANGED <<touched_ports_counter, Detector!portsMap, ports_key, pc, reached>>
    PROVE  D!MapInv' /\ DetectorTyped' /\ CellsHeld' /\ AtHome' /\ PortsOwn'
<1>1. /\ D!MapInv' /\ D!Busy' = D!Busy /\ UNCHANGED <<keyps, ports_key>>
      /\ \A e : Home(e)' = Home(e) /\ Whose(e)' = Whose(e)
  BY PortsKept
<1>2. DetectorTyped'
  BY DEF ScanInv, DetectorTyped
<1>3. CellsHeld'
  <2>1. ASSUME NEW x \in Detector!Index PROVE Held(x)' = Held(x)
    BY DEF Held, CleanUpAt
  <2> QED
    BY <1>1, <2>1 DEF ScanInv, CellsHeld, PlaceOf
<1>4. AtHome'
  BY <1>1 DEF ScanInv, AtHome, Home, Whose
<1>5. PortsOwn'
  <2>1. ASSUME NEW s \in DOMAIN srcs'
        PROVE  /\ \A e \in D!Busy' : Home(e)' = srcs'[s].index
                                        => ports_key'[keyps'[e]] \in {s} \X reached'[s]
               /\ \A p \in reached'[s] : \E e \in D!Busy' : ports_key'[keyps'[e]] = <<s, p>>
    BY <1>1 DEF ScanInv, PortsOwn
  <2> QED
    BY <2>1 DEF PortsOwn, Home
<1> QED
  BY <1>1, <1>2, <1>3, <1>4, <1>5

\* ... and the last packet's fate
LEMMA QuietKeeps ==
    ASSUME ScanInv, pc = "idle", Tracking', DOMAIN srcs' \subseteq DOMAIN srcs,
           \A s \in DOMAIN srcs' : srcs'[s].index = srcs[s].index,
           UNCHANGED <<touched_ports_counter, Detector!portsMap, ports_key, pc, reached>>,
           psOut' = psOut \/ psOut'.passed
    PROVE  ScanInv'
<1>1. D!MapInv' /\ DetectorTyped' /\ CellsHeld' /\ AtHome' /\ PortsOwn'
  BY QuietMap
<1>2. Limits'
  BY DEF ScanInv, Limits
<1> QED
  BY <1>1, <1>2 DEF ScanInv

\* Where an allocation leaves nothing behind, its index is 0 or was never used,
\* and the source has ports only there.
LEMMA NothingLeft ==
    ASSUME ScanInv, pc = "idle", NEW s, NEW x \in Detector!Index,
           ~Detector!LeavesBehind(s, x)
    PROVE  /\ x = 0 \/ touched_ports_counter[x] = 0
           /\ \A e \in D!Busy : Whose(e) = s => Home(e) = x
<1>1. \A e \in D!Busy : Home(e) = x \/ Whose(e) = s
                          => keyps[e] \in x .. touched_ports_counter[x] - 1
  BY SamePorts DEF Detector!LeavesBehind, Home, Whose
<1>2. /\ DetectorTyped /\ CellsHeld
      /\ touched_ports_counter[x] \in 0 .. max_ports /\ max_ports \in Nat \ {0}
      /\ Held(x) = 0 .. touched_ports_counter[x] - 1 /\ x \in Nat
  BY HeldFits, Places DEF ScanInv, CleanUpAt
<1>3. \A e \in D!Busy : Home(e) = x \/ Whose(e) = s => keyps[e] \in 0 .. max_ports - 1
  BY <1>1, <1>2
<1>4. ASSUME touched_ports_counter[x] # 0 PROVE x = 0
  <2>1. 0 \in Held(x) /\ 0 \in 0 .. max_ports - 1
    BY <1>2, <1>4
  <2>2. PICK e \in D!Busy : keyps[e] = PlaceOf(x, 0)
    BY <1>2, <2>1 DEF CellsHeld
  <2>3. Home(e) = x
    BY <2>1, <2>2, Places DEF Home
  <2>4. keyps[e] \in 0 .. max_ports - 1
    BY <1>3, <2>3
  <2>5. PlaceOf(0, keyps[e]) = PlaceOf(x, 0) /\ 0 \in Detector!Index
    BY <2>2, <2>4, Places
  <2> QED
    BY <2>1, <2>4, <2>5, PlacesApart
<1>5. ASSUME NEW e \in D!Busy, Whose(e) = s PROVE Home(e) = x
  <2>1. keyps[e] \in x .. touched_ports_counter[x] - 1
    BY <1>1, <1>5
  <2>2. x = 0
    BY <1>2, <1>4, <2>1
  <2>3. keyps[e] \in 0 .. max_ports - 1
    BY <1>3, <1>5
  <2>4. keyps[e] = PlaceOf(0, keyps[e]) /\ PlaceOf(0, keyps[e]) \div max_ports = 0
    BY <2>3, Places
  <2> QED
    BY <2>2, <2>4 DEF Home
<1> QED
  BY <1>4, <1>5

\* allocate, up to the clean-up
LEMMA AllocateKeeps ==
    ASSUME ScanInv, ~leftBehind',
           NEW t \in Int, NEW s \in Src, NEW p \in Port, Detector!Allocate(t, s, p)
    PROVE  ScanInv'
<1> DEFINE tracked == Detector!expire_entries(t)
<1>1. PICK x \in Detector!NewIndexes(tracked) :
          /\ srcs' = Enter(tracked, s, x, t)
          /\ cur' = [src |-> s, port |-> p, index |-> x]
          /\ i' = x
          /\ leftBehind' = (leftBehind \/ Detector!LeavesBehind(s, x))
  BY DetectorTable DEF Detector!Allocate, Detector!CleanupStart
<1>2. /\ s \notin DOMAIN tracked /\ pc = "idle" /\ pc' = "cleanup"
      /\ UNCHANGED <<touched_ports_counter, Detector!portsMap, ports_key, psOut, reached>>
  BY DEF Detector!Allocate, Detector!Idle
<1>3. /\ tracked \in Table(Src, SourceCapacity, Times) /\ Injective(tracked)
      /\ DOMAIN tracked \subseteq DOMAIN srcs
      /\ \A r \in DOMAIN tracked : tracked[r] = srcs[r]
  BY SourcesExpire
<1>4. x \in Free(tracked, SourceCapacity)
  BY DetectorTable DEF Detector!NewIndexes
<1> HIDE DEF tracked
<1>5. /\ Tracking' /\ DOMAIN srcs' = DOMAIN tracked \cup {s} /\ srcs'[s].index = x
      /\ \A r \in DOMAIN tracked : srcs'[r].index = srcs[r].index /\ r # s
  <2>1. t \in Times
    BY DEF Times
  <2> QED
    BY <1>1, <1>2, <1>3, <1>4, <2>1, EnterFacts DEF Tracking
<1>6. /\ D!MapInv' /\ D!Busy' = D!Busy /\ UNCHANGED <<keyps, ports_key>>
      /\ \A e : Home(e)' = Home(e) /\ Whose(e)' = Whose(e)
  BY <1>2, PortsKept
<1>7. /\ x \in Detector!Index
      /\ x = 0 \/ touched_ports_counter[x] = 0
      /\ \A e \in D!Busy : Whose(e) = s => Home(e) = x
  <2>1. x \in Detector!Index
    BY <1>4 DEF Free, Detector!Index
  <2> QED
    BY <1>1, <1>2, <2>1, NothingLeft
<1>8. DetectorTyped'
  <2>1. x \in Nat /\ touched_ports_counter[x] \in 0 .. max_ports /\ max_ports \in Nat
    BY <1>7, Places DEF ScanInv, DetectorTyped
  <2>2. \/ x = 0 /\ i' \in 0 .. touched_ports_counter'[0]
        \/ x # 0 /\ touched_ports_counter'[x] = 0 /\ i' \in Nat
    BY <1>1, <1>2, <1>7, <2>1
  <2>3. cur'.src = s /\ cur'.port = p /\ cur'.index = x
    BY <1>1
  <2> QED
    BY <1>2, <1>5, <2>2, <2>3 DEF ScanInv, DetectorTyped
<1>9. CellsHeld'
  <2>1. ASSUME NEW y \in Detector!Index PROVE Held(y)' = Held(y)
    BY <1>1, <1>2 DEF Held, CleanUpAt
  <2> QED
    BY <1>6, <2>1 DEF ScanInv, CellsHeld, PlaceOf
<1>10. AtHome'
  BY <1>3, <1>5, <1>6, <1>7 DEF ScanInv, AtHome, Home, Whose
<1>11. PortsOwn'
  <2>1. ASSUME NEW r \in DOMAIN srcs', r # s
        PROVE  /\ \A e \in D!Busy' : Home(e)' = srcs'[r].index
                                        => ports_key'[keyps'[e]] \in {r} \X reached'[r]
               /\ \A q \in reached'[r] : \E e \in D!Busy' : ports_key'[keyps'[e]] = <<r, q>>
    <3>1. r \in DOMAIN srcs /\ srcs'[r].index = srcs[r].index
      BY <1>3, <1>5, <2>1
    <3> QED
      BY <1>2, <1>6, <3>1 DEF ScanInv, PortsOwn
  <2>2. cur'.src = s
    BY <1>1
  <2> QED
    BY <1>2, <2>1, <2>2 DEF PortsOwn, Home
<1>12. Limits'
  BY <1>2 DEF ScanInv, Limits
<1> QED
  BY <1>6, <1>8, <1>9, <1>10, <1>11, <1>12 DEF ScanInv

\* The clean-up's next key is in the map, and with it goes its cell's entry.
LEMMA CleanupKeeps ==
    ASSUME ScanInv, Detector!Cleanup
    PROVE  ScanInv'
<1> DEFINE count == touched_ports_counter[0]
           k == ports_key[i]
<1>0. D!MapInv /\ D!Typed /\ D!KeysDistinct /\ DetectorTyped /\ CellsHeld
  BY DEF ScanInv, D!MapInv
<1>1. /\ pc = "cleanup" /\ cur.index = 0 /\ i \in 0 .. count - 1 /\ i' = i + 1
      /\ srcs[cur.src].index = 0 /\ cur.src \in DOMAIN srcs
      /\ D!EraseSlot(k)
      /\ UNCHANGED <<srcs, touched_ports_counter, pc, cur, psOut, reached>>
  <2>1. pc = "cleanup" /\ i < touched_ports_counter[cur.index]
    BY DEF Detector!Cleanup, Detector!CleanupLeft
  <2>2. cur.index = 0 /\ i \in 0 .. count
    BY <1>0, <2>1 DEF DetectorTyped
  <2>3. count \in 0 .. max_ports /\ max_ports \in Nat
    BY <1>0, HeldFits, Places
  <2> QED
    BY <1>0, <2>1, <2>2, <2>3, SamePorts DEF Detector!Cleanup, DetectorTyped
<1>2. /\ count \in 0 .. max_ports /\ max_ports \in Nat \ {0} /\ 0 \in Detector!Index
      /\ Held(0) = i .. count - 1 /\ Held(0)' = i + 1 .. count - 1
      /\ i \in 0 .. max_ports - 1
  BY <1>0, <1>1, HeldFits, Places DEF Held, CleanUpAt
<1>3. ASSUME NEW x \in Detector!Index, x # 0 PROVE Held(x)' = Held(x)
  BY <1>1, <1>3 DEF Held, CleanUpAt
<1>4. PICK e \in D!Busy : keyps[e] = PlaceOf(0, i)
  <2>1. i \in Held(0)
    BY <1>1, <1>2
  <2> QED
    BY <1>0, <1>2, <2>1 DEF CellsHeld
<1>5. k \in Detector!TouchedPort /\ D!Erase(k) /\ k = ports_key[keyps[e]] /\ Home(e) = 0
  <2>1. keyps[e] = i /\ Home(e) = 0
    BY <1>1, <1>2, <1>4, Places DEF Home
  <2>2. k \in Detector!TouchedPort
    BY <1>0, <2>1, D!EntryKey
  <2>3. D!MayErase(k)
    BY <2>1 DEF D!MayErase
  <2> QED
    BY <1>1, <2>1, <2>2, <2>3 DEF D!Erase
<1> HIDE DEF k
<1>6. D!MapInv'
  BY <1>0, <1>5, PortsSizes, D!EraseInv
<1>7. PICK f \in D!Busy :
          /\ ports_key[keyps[f]] = k /\ D!Busy' = D!Busy \ {f}
          /\ UNCHANGED <<keyps, khs, vals, ports_key>>
  BY <1>0, <1>5, PortsSizes, D!EraseEffect
<1>8. /\ D!Busy' = D!Busy \ {e} /\ UNCHANGED <<keyps, ports_key>>
      /\ \A d : Home(d)' = Home(d) /\ Whose(d)' = Whose(d)
  BY <1>0, <1>5, <1>7 DEF D!KeysDistinct, Home, Whose
<1>9. DetectorTyped'
  <2>1. i' \in 0 .. count
    BY <1>1, <1>2
  <2> QED
    BY <1>0, <1>1, <2>1 DEF DetectorTyped, Tracking
<1>10. CellsHeld'
  <2>1. \A d, g \in D!Busy' : keyps'[d] = keyps'[g] => d = g
    BY <1>0, <1>8 DEF CellsHeld
  <2>2. ASSUME NEW d \in D!Busy'
        PROVE  \E x \in Detector!Index : \E c \in Held(x)' : keyps'[d] = PlaceOf(x, c)
    <3>1. d \in D!Busy /\ d # e
      BY <1>8
    <3>2. PICK x \in Detector!Index : \E c \in Held(x) : keyps[d] = PlaceOf(x, c)
      BY <1>0, <3>1 DEF CellsHeld
    <3>3. PICK c \in Held(x) : keyps[d] = PlaceOf(x, c)
      BY <3>2
    <3>4. CASE x # 0
      BY <1>3, <1>8, <3>3, <3>4
    <3>5. CASE x = 0
      <4>1. c # i
        BY <1>0, <1>4, <3>1, <3>3, <3>5 DEF CellsHeld
      <4>2. c \in Held(0)'
        BY <1>1, <1>2, <3>3, <3>5, <4>1
      <4> QED
        BY <1>2, <1>8, <3>3, <3>5, <4>2
    <3> QED
      BY <3>4, <3>5
  <2>3. ASSUME NEW x \in Detector!Index, NEW c \in Held(x)'
        PROVE  \E d \in D!Busy' : keyps'[d] = PlaceOf(x, c)
    <3>1. c \in Held(x) /\ ~(x = 0 /\ c = i)
      BY <1>1, <1>2, <1>3, <2>3
    <3>2. PICK d \in D!Busy : keyps[d] = PlaceOf(x, c)
      BY <1>0, <3>1 DEF CellsHeld
    <3>3. c \in 0 .. max_ports - 1
      BY <1>0, <3>1, HeldFits
    <3>4. d # e
      BY <1>2, <1>4, <3>1, <3>2, <3>3, PlacesApart
    <3> QED
      BY <1>8, <3>2, <3>4
  <2> QED
    BY <2>1, <2>2, <2>3 DEF CellsHeld, PlaceOf
<1>11. AtHome'
  BY <1>1, <1>8 DEF ScanInv, AtHome, Home, Whose
<1>12. PortsOwn'
  <2>1. ASSUME NEW r \in DOMAIN srcs, r # cur.src, NEW q \in reached[r]
        PROVE  \E d \in D!Busy' : ports_key[keyps[d]] = <<r, q>>
    <3>1. PICK d \in D!Busy : ports_key[keyps[d]] = <<r, q>>
      BY <2>1 DEF ScanInv, PortsOwn
    <3>2. Home(d) = srcs[r].index
      BY <3>1 DEF ScanInv, AtHome, Whose
    <3>3. srcs[r].index # 0
      BY <1>0, <1>1, <2>1 DEF DetectorTyped, Tracking, Injective
    <3> QED
      BY <1>5, <1>8, <3>1, <3>2, <3>3
  <2>2. ASSUME NEW r \in DOMAIN srcs, r # cur.src, NEW d \in D!Busy', Home(d)' = srcs[r].index
        PROVE  ports_key[keyps[d]] \in {r} \X reached[r]
    BY <1>8, <2>2 DEF ScanInv, PortsOwn
  <2>3. ASSUME NEW r \in DOMAIN srcs', r # cur'.src
        PROVE  /\ \A d \in D!Busy' : Home(d)' = srcs'[r].index
                                        => ports_key'[keyps'[d]] \in {r} \X reached'[r]
               /\ \A q \in reached'[r] : \E d \in D!Busy' : ports_key'[keyps'[d]] = <<r, q>>
    BY <1>1, <1>8, <2>1, <2>2, <2>3
  <2> QED
    BY <1>1, <2>3 DEF PortsOwn, Home
<1>13. Limits'
  BY <1>1 DEF ScanInv, Limits
<1> QED
  BY <1>6, <1>9, <1>10, <1>11, <1>12, <1>13 DEF ScanInv

\* Putting a key that is not in the map, at a cell no entry has: every other
\* entry keeps its cell and its key.
LEMMA PortPut ==
    ASSUME ScanInv, NEW k \in Detector!TouchedPort, NEW x \in Detector!Index,
           NEW c \in 0 .. max_ports - 1,
           \A e \in D!Busy : ports_key[keyps[e]] # k /\ keyps[e] # PlaceOf(x, c),
           D!PutSlot(k, PlaceOf(x, c), c)
    PROVE  /\ D!MapInv'
           /\ \E e \in D!Slot :
                 /\ e \notin D!Busy /\ D!Busy' = D!Busy \cup {e}
                 /\ keyps'[e] = PlaceOf(x, c) /\ Home(e)' = x
                 /\ ports_key'[keyps'[e]] = k /\ Whose(e)' = k[1]
                 /\ \A f \in D!Busy :
                       /\ f # e /\ keyps'[f] = keyps[f]
                       /\ ports_key'[keyps'[f]] = ports_key[keyps[f]]
                       /\ Home(f)' = Home(f) /\ Whose(f)' = Whose(f)
<1> DEFINE place == PlaceOf(x, c)
<1>1. D!MapInv /\ D!Typed /\ place \in Detector!Cell /\ place \div max_ports = x
  BY Places DEF ScanInv, D!MapInv
<1>2. D!Put(k, place, c)
  BY DEF D!Put, D!MayPut
<1>3. \A e \in D!Busy : keyps[e] # place
  OBVIOUS
<1> HIDE DEF place
<1>4. D!MapInv'
  BY <1>1, <1>2, PortsSizes, D!PutInv
<1>5. PICK e \in D!Slot :
          /\ e \notin D!Busy /\ D!Busy' = D!Busy \cup {e}
          /\ keyps' = [keyps EXCEPT ![e] = place]
          /\ ports_key' = [ports_key EXCEPT ![place] = k]
  BY <1>1, <1>2, PortsSizes, D!PutEffect
<1>6. keyps'[e] = place /\ ports_key'[place] = k
  BY <1>1, <1>5 DEF D!Typed
<1>7. ASSUME NEW f \in D!Busy
      PROVE  f # e /\ keyps'[f] = keyps[f] /\ ports_key'[keyps'[f]] = ports_key[keyps[f]]
  <2>1. f # e /\ keyps'[f] = keyps[f] /\ keyps[f] # place
    BY <1>1, <1>3, <1>5 DEF D!Typed
  <2>2. keyps[f] \in Detector!Cell
    BY <1>1, D!EntryKey
  <2> QED
    BY <1>1, <1>5, <2>1, <2>2 DEF D!Typed
<1>8. Home(e)' = x /\ Whose(e)' = k[1]
  BY <1>1, <1>6 DEF Home, Whose
<1>9. \A f \in D!Busy : Home(f)' = Home(f) /\ Whose(f)' = Whose(f)
  BY <1>7 DEF Home, Whose
<1> QED
  BY <1>4, <1>5, <1>6, <1>7, <1>8, <1>9 DEF place

\* With the counter of that index one past the cell, and no clean-up going on
\* after it, the cells held are the former ones and this one.
LEMMA PutHolds ==
    ASSUME DetectorTyped, CellsHeld, NEW x \in Detector!Index, NEW c \in 0 .. max_ports - 1,
           pc' = "idle", Held(x) = 0 .. c - 1,
           \A y \in Detector!Index \ {x} : ~CleanUpAt(y),
           touched_ports_counter' = [touched_ports_counter EXCEPT ![x] = c + 1],
           NEW e \in D!Slot, e \notin D!Busy, D!Busy' = D!Busy \cup {e},
           keyps'[e] = PlaceOf(x, c), \A f \in D!Busy : f # e /\ keyps'[f] = keyps[f]
    PROVE  CellsHeld' /\ touched_ports_counter' \in [Detector!Index -> 0 .. max_ports]
<1>1. max_ports \in Nat \ {0} /\ touched_ports_counter \in [Detector!Index -> 0 .. max_ports]
  BY Places DEF DetectorTyped
<1>2. touched_ports_counter' \in [Detector!Index -> 0 .. max_ports]
  <2>1. c + 1 \in 0 .. max_ports
    BY <1>1
  <2> QED
    BY <1>1, <2>1
<1>3. Held(x)' = 0 .. c
  <2>1. Held(x)' = 0 .. touched_ports_counter'[x] - 1 /\ touched_ports_counter'[x] = c + 1
    BY <1>1 DEF Held, CleanUpAt
  <2> QED
    BY <2>1
<1>4. ASSUME NEW y \in Detector!Index, y # x PROVE Held(y)' = Held(y)
  BY <1>1, <1>4 DEF Held, CleanUpAt
<1>5. \A y \in Detector!Index : \A d \in Held(y)' : d \in Held(y) \/ (y = x /\ d = c)
  BY <1>3, <1>4
<1>6. \A y \in Detector!Index : \A d \in Held(y) : d \in Held(y)' /\ d \in 0 .. max_ports - 1
  BY <1>3, <1>4, HeldFits
<1>7. c \in Held(x)' /\ c \notin Held(x)
  BY <1>3
<1>8. ASSUME NEW f \in D!Busy PROVE keyps[f] # PlaceOf(x, c)
  <2>1. PICK y \in Detector!Index : \E d \in Held(y) : keyps[f] = PlaceOf(y, d)
    BY DEF CellsHeld
  <2>2. PICK d \in Held(y) : keyps[f] = PlaceOf(y, d)
    BY <2>1
  <2>3. d \in 0 .. max_ports - 1
    BY <1>6
  <2> QED
    BY <1>7, <2>2, <2>3, PlacesApart
<1>9. \A f, g \in D!Busy' : keyps'[f] = keyps'[g] => f = g
  BY <1>8 DEF CellsHeld
<1>10. ASSUME NEW f \in D!Busy'
       PROVE  \E y \in Detector!Index : \E d \in Held(y)' : keyps'[f] = PlaceOf(y, d)
  <2>1. CASE f = e
    BY <1>7, <2>1
  <2>2. CASE f \in D!Busy
    BY <1>6, <2>2 DEF CellsHeld
  <2> QED
    BY <2>1, <2>2
<1>11. ASSUME NEW y \in Detector!Index, NEW d \in Held(y)'
       PROVE  \E f \in D!Busy' : keyps'[f] = PlaceOf(y, d)
  <2>1. CASE y = x /\ d = c
    BY <2>1
  <2>2. CASE d \in Held(y)
    BY <2>2 DEF CellsHeld
  <2> QED
    BY <1>5, <2>1, <2>2
<1> QED
  BY <1>2, <1>9, <1>10, <1>11 DEF CellsHeld, PlaceOf

\* The clean-up is over: the index has no cell that is held, the source no port
\* in the map, and both have the source's first port after this.
LEMMA FirstPortKeeps ==
    ASSUME ScanInv, Detector!FirstPort
    PROVE  ScanInv'
<1> DEFINE s == cur.src
           p == cur.port
           x == cur.index
           k == <<s, p>>
<1>0. D!MapInv /\ DetectorTyped /\ CellsHeld
  BY DEF ScanInv
<1>1. /\ pc = "cleanup" /\ pc' = "idle" /\ srcs' = srcs
      /\ touched_ports_counter' = [touched_ports_counter EXCEPT ![x] = 1]
      /\ reached' = [reached EXCEPT ![s] = {p}]
      /\ psOut'.passed
      /\ D!PutSlot(k, max_ports * x, 0)
      /\ ~(i < touched_ports_counter[x])
  BY SamePorts DEF Detector!FirstPort, Detector!Passes, Detector!CleanupLeft
<1>2. /\ s \in DOMAIN srcs /\ s \in Src /\ p \in Port /\ srcs[s].index = x
      /\ x \in Detector!Index /\ k \in Detector!TouchedPort
      /\ 0 \in 0 .. max_ports - 1 /\ max_ports \in Nat \ {0} /\ max_ports * x = PlaceOf(x, 0)
  <2>1. s \in DOMAIN srcs /\ srcs[s].index = x /\ p \in Port
    BY <1>0, <1>1 DEF DetectorTyped
  <2>2. s \in Src /\ srcs[s].index \in Detector!Index
    BY <1>0, <2>1, TrackedAt DEF DetectorTyped, Tracking
  <2>3. x \in Detector!Index
    BY <2>1, <2>2
  <2>4. max_ports \in Nat \ {0} /\ \A y \in Detector!Index : max_ports * y = PlaceOf(y, 0)
    BY Places
  <2>5. k \in Detector!TouchedPort
    BY <2>1, <2>2 DEF Detector!TouchedPort
  <2> QED
    BY <2>1, <2>2, <2>3, <2>4, <2>5
<1>3. Held(x) = {}
  <2>1. touched_ports_counter[x] \in 0 .. max_ports
    BY <1>0, <1>2, HeldFits
  <2>2. CASE x = 0
    <3>1. i = touched_ports_counter[x] /\ Held(x) = i .. touched_ports_counter[x] - 1
      BY <1>0, <1>1, <2>1, <2>2 DEF DetectorTyped, Held, CleanUpAt
    <3> QED
      BY <2>1, <3>1
  <2>3. CASE x # 0
    <3>1. touched_ports_counter[x] = 0 /\ Held(x) = 0 .. touched_ports_counter[x] - 1
      BY <1>0, <1>1, <2>3 DEF DetectorTyped, Held, CleanUpAt
    <3> QED
      BY <3>1
  <2> QED
    BY <2>2, <2>3
<1>4. \A e \in D!Busy : Home(e) # x /\ Whose(e) # s
  <2>1. \A e \in D!Busy : Home(e) # x
    BY <1>0, <1>3, EntryPlace
  <2> QED
    BY <1>2, <2>1 DEF ScanInv, AtHome
<1>5. \A e \in D!Busy : ports_key[keyps[e]] # k /\ keyps[e] # PlaceOf(x, 0)
  <2>1. ASSUME NEW e \in D!Busy, ports_key[keyps[e]] = k PROVE FALSE
    BY <1>4, <2>1 DEF Whose
  <2>2. ASSUME NEW e \in D!Busy, keyps[e] = PlaceOf(x, 0) PROVE FALSE
    <3>1. x \in Detector!Index /\ 0 \in 0 .. max_ports - 1
      BY <1>2
    <3> HIDE DEF x
    <3>2. Home(e) = x
      BY <2>2, <3>1, PlaceHome
    <3> QED
      BY <1>4, <3>2
  <2> QED
    BY <2>1, <2>2
<1>6. D!PutSlot(k, PlaceOf(x, 0), 0) /\ k[1] = s
  BY <1>1, <1>2
<1>7. k = <<s, p>>
  OBVIOUS
<1> HIDE DEF k
<1>8. /\ D!MapInv'
      /\ \E e \in D!Slot :
            /\ e \notin D!Busy /\ D!Busy' = D!Busy \cup {e}
            /\ keyps'[e] = PlaceOf(x, 0) /\ Home(e)' = x
            /\ ports_key'[keyps'[e]] = k /\ Whose(e)' = s
            /\ \A f \in D!Busy : /\ f # e /\ keyps'[f] = keyps[f]
                                 /\ ports_key'[keyps'[f]] = ports_key[keyps[f]]
                                 /\ Home(f)' = Home(f) /\ Whose(f)' = Whose(f)
  BY <1>2, <1>5, <1>6, PortPut
<1>9. PICK e \in D!Slot :
            /\ e \notin D!Busy /\ D!Busy' = D!Busy \cup {e}
            /\ keyps'[e] = PlaceOf(x, 0) /\ Home(e)' = x
            /\ ports_key'[keyps'[e]] = k /\ Whose(e)' = s
            /\ \A f \in D!Busy : /\ f # e /\ keyps'[f] = keyps[f]
                                 /\ ports_key'[keyps'[f]] = ports_key[keyps[f]]
                                 /\ Home(f)' = Home(f) /\ Whose(f)' = Whose(f)
  BY <1>8
<1>10. reached' \in [Src -> SUBSET Port] /\ reached'[s] = {p}
       /\ \A r \in Src : r # s => reached'[r] = reached[r]
  BY <1>0, <1>1, <1>2 DEF DetectorTyped
<1>11. CellsHeld' /\ touched_ports_counter' \in [Detector!Index -> 0 .. max_ports]
  <2>1. \A y \in Detector!Index \ {x} : ~CleanUpAt(y)
    BY DEF CleanUpAt
  <2>2. Held(x) = 0 .. 0 - 1 /\ touched_ports_counter' = [touched_ports_counter EXCEPT ![x] = 0 + 1]
    BY <1>1, <1>3
  <2>3. \A f \in D!Busy : f # e /\ keyps'[f] = keyps[f]
    BY <1>9
  <2>4. /\ e \in D!Slot /\ e \notin D!Busy /\ D!Busy' = D!Busy \cup {e}
        /\ keyps'[e] = PlaceOf(x, 0) /\ pc' = "idle"
        /\ x \in Detector!Index /\ 0 \in 0 .. max_ports - 1
    BY <1>1, <1>2, <1>9
  <2> HIDE DEF x
  <2> QED
    BY <1>0, <2>1, <2>2, <2>3, <2>4, PutHolds
<1>12. DetectorTyped'
  BY <1>0, <1>1, <1>10, <1>11 DEF DetectorTyped, Tracking
<1>13. AtHome'
  <2>1. ASSUME NEW r \in DOMAIN srcs, NEW f \in D!Busy', Whose(f)' = r
        PROVE  Home(f)' = srcs[r].index
    <3>1. CASE f = e
      BY <1>2, <1>9, <2>1, <3>1
    <3>2. CASE f \in D!Busy
      BY <1>9, <2>1, <3>2 DEF ScanInv, AtHome
    <3> QED
      BY <1>9, <3>1, <3>2
  <2> QED
    BY <1>1, <2>1 DEF AtHome, Home, Whose
<1>14. PortsOwn'
  <2>1. ASSUME NEW r \in DOMAIN srcs', NEW f \in D!Busy', Home(f)' = srcs'[r].index
        PROVE  ports_key'[keyps'[f]] \in {r} \X reached'[r]
    <3>1. r \in Src /\ (r # s => srcs[r].index # x)
      BY <1>0, <1>1, <1>2, TrackedAt DEF DetectorTyped, Tracking, Injective
    <3>2. CASE r = s
      <4>1. f = e
        BY <1>1, <1>2, <1>4, <1>9, <2>1, <3>2
      <4> QED
        BY <1>7, <1>9, <1>10, <3>2, <4>1
    <3>3. CASE r # s
      <4>1. f \in D!Busy /\ Home(f) = srcs[r].index
        BY <1>1, <1>9, <2>1, <3>1, <3>3
      <4>2. ports_key[keyps[f]] \in {r} \X reached[r]
        BY <1>1, <3>3, <4>1 DEF ScanInv, PortsOwn
      <4> QED
        BY <1>9, <1>10, <3>1, <3>3, <4>1, <4>2
    <3> QED
      BY <3>2, <3>3
  <2>2. ASSUME NEW r \in DOMAIN srcs', NEW q \in reached'[r]
        PROVE  \E f \in D!Busy' : ports_key'[keyps'[f]] = <<r, q>>
    <3>1. r \in DOMAIN srcs /\ r \in Src
      BY <1>0, <1>1, TrackedAt DEF DetectorTyped, Tracking
    <3>2. CASE r = s
      BY <1>7, <1>9, <1>10, <2>2, <3>2
    <3>3. CASE r # s
      <4>1. q \in reached[r]
        BY <1>10, <2>2, <3>1, <3>3
      <4>2. PICK f \in D!Busy : ports_key[keyps[f]] = <<r, q>>
        BY <3>1, <3>3, <4>1 DEF ScanInv, PortsOwn
      <4> QED
        BY <1>9, <4>2
    <3> QED
      BY <3>2, <3>3
  <2> QED
    BY <2>1, <2>2 DEF PortsOwn, Home
<1>15. Limits'
  <2>1. IsFiniteSet({p}) /\ Cardinality({p}) <= max_ports
    <3> DEFINE one == {p}
    <3>1. IsFiniteSet(one) /\ Cardinality(one) = 1
      BY FS_Singleton
    <3> QED
      BY <1>2, <3>1
  <2> QED
    BY <1>1, <1>10, <2>1 DEF ScanInv, Limits
<1> QED
  BY <1>8, <1>11, <1>12, <1>13, <1>14, <1>15 DEF ScanInv

\* A packet of a tracked source: its port is known exactly if the source has
\* reached it, and its counter is at the limit exactly if it has reached
\* max_ports.
LEMMA DetectKeeps ==
    ASSUME ScanInv, NEW t \in Int, NEW s \in Src, NEW p \in Port, Detector!Detect(t, s, p)
    PROVE  ScanInv'
<1> DEFINE k == <<s, p>>
           tracked == Detector!expire_entries(t)
           x == tracked[s].index
           count == touched_ports_counter[x]
<1>0. D!MapInv /\ DetectorTyped /\ CellsHeld
  BY DEF ScanInv
<1>1. /\ pc = "idle" /\ s \in DOMAIN tracked /\ srcs' = Rejuvenate(tracked, s, t)
      /\ UNCHANGED <<pc, cur, i>>
  BY DetectorTable DEF Detector!Detect, Detector!Idle
<1>2. \/ /\ D!find_key(k) # -1
         /\ psOut'.passed
         /\ reached' = [reached EXCEPT ![s] = @ \cup {p}]
         /\ UNCHANGED <<touched_ports_counter, Detector!portsMap, ports_key>>
      \/ /\ D!find_key(k) = -1 /\ count >= max_ports
         /\ psOut' = [src |-> s, port |-> p, passed |-> FALSE]
         /\ UNCHANGED <<touched_ports_counter, Detector!portsMap, ports_key, reached>>
      \/ /\ D!find_key(k) = -1 /\ ~(count >= max_ports)
         /\ D!PutSlot(k, PlaceOf(x, count), count)
         /\ touched_ports_counter' = [touched_ports_counter EXCEPT ![x] = @ + 1]
         /\ psOut'.passed
         /\ reached' = [reached EXCEPT ![s] = @ \cup {p}]
  BY SamePorts
     DEF Detector!Detect, Detector!PortKey, Detector!LimitReached, Detector!Passes, PlaceOf
<1>3. /\ tracked \in Table(Src, SourceCapacity, Times) /\ Injective(tracked)
      /\ DOMAIN tracked \subseteq DOMAIN srcs /\ DOMAIN srcs \subseteq Src
      /\ \A r \in DOMAIN tracked : tracked[r] = srcs[r]
  BY SourcesExpire
<1>4. x = srcs[s].index
  BY <1>1, <1>3
<1> HIDE DEF tracked, x
<1>5. /\ Tracking' /\ DOMAIN srcs' \subseteq DOMAIN srcs /\ s \in DOMAIN srcs
      /\ \A r \in DOMAIN srcs' : srcs'[r].index = srcs[r].index
  <2>1. t \in Times
    BY DEF Times
  <2> QED
    BY <1>1, <1>3, <2>1, RejuvenateFacts DEF Tracking
<1>6. /\ x \in Detector!Index /\ count \in 0 .. max_ports /\ max_ports \in Nat \ {0}
      /\ IsFiniteSet(reached[s]) /\ Cardinality(reached[s]) = count
  BY <1>1, <1>4, <1>5, ReachedCounted, Places
<1>7. /\ \A e \in D!Busy : Home(e) = x => ports_key[keyps[e]] \in {s} \X reached[s]
      /\ \A q \in reached[s] : \E e \in D!Busy : ports_key[keyps[e]] = <<s, q>>
      /\ \A e \in D!Busy : Whose(e) = s => Home(e) = x
      /\ k \in Detector!TouchedPort
  BY <1>1, <1>4, <1>5 DEF ScanInv, PortsOwn, AtHome, Detector!TouchedPort
<1>8. /\ p \in reached[s] => D!find_key(k) # -1
      /\ p \notin reached[s] => /\ D!find_key(k) = -1
                                /\ \A e \in D!Busy : ports_key[keyps[e]] # k
  <2>1. ASSUME p \in reached[s] PROVE D!find_key(k) # -1
    <3>1. PICK e \in D!Busy : ports_key[keyps[e]] = k
      BY <1>7, <2>1
    <3>2. D!find_key(ports_key[keyps[e]]) = e
      BY <1>0, PortsSizes, D!FindsEntry
    <3>3. e \in Nat
      BY DEF D!Busy, D!Slot
    <3> QED
      BY <3>1, <3>2, <3>3
  <2>2. ASSUME p \notin reached[s] PROVE \A e \in D!Busy : ports_key[keyps[e]] # k
    <3>1. ASSUME NEW e \in D!Busy, ports_key[keyps[e]] = k PROVE FALSE
      <4>1. Whose(e) = s
        BY <3>1 DEF Whose
      <4> QED
        BY <1>7, <2>2, <3>1, <4>1
    <3> QED
      BY <3>1
  <2>3. ASSUME p \notin reached[s] PROVE D!find_key(k) = -1
    <3>1. \A e \in D!Busy : ports_key[keyps[e]] # k
      BY <2>2, <2>3
    <3> HIDE DEF k
    <3> QED
      BY <1>0, <1>7, <3>1, PortsSizes, D!FindsNothingElse
  <2> QED
    BY <2>1, <2>2, <2>3
<1>9. k = <<s, p>> /\ k[1] = s
  OBVIOUS
<1> HIDE DEF k, count
<1>10. CASE p \in reached[s]
  <2>1. reached' = reached /\ psOut'.passed
        /\ UNCHANGED <<touched_ports_counter, Detector!portsMap, ports_key>>
    <3>1. reached \in [Src -> SUBSET Port] /\ reached[s] \cup {p} = reached[s]
      BY <1>0, <1>10 DEF DetectorTyped
    <3>2. [reached EXCEPT ![s] = @ \cup {p}] = reached
      BY <3>1
    <3> QED
      BY <1>2, <1>8, <1>10, <3>2
  <2> QED
    BY <1>1, <1>5, <2>1, QuietKeeps
<1>11. CASE p \notin reached[s] /\ count >= max_ports
  <2>1. psOut' = [src |-> s, port |-> p, passed |-> FALSE]
        /\ UNCHANGED <<touched_ports_counter, Detector!portsMap, ports_key, reached>>
    BY <1>2, <1>8, <1>11
  <2>2. D!MapInv' /\ DetectorTyped' /\ CellsHeld' /\ AtHome' /\ PortsOwn'
    BY <1>1, <1>5, <2>1, QuietMap
  <2>3. Cardinality(reached[s]) = max_ports
    BY <1>6, <1>11
  <2>4. Limits'
    BY <1>11, <2>1, <2>3 DEF ScanInv, Limits
  <2> QED
    BY <2>2, <2>4 DEF ScanInv
<1>12. CASE p \notin reached[s] /\ ~(count >= max_ports)
  <2>1. /\ D!PutSlot(k, PlaceOf(x, count), count)
        /\ touched_ports_counter' = [touched_ports_counter EXCEPT ![x] = count + 1]
        /\ psOut'.passed
        /\ reached' = [reached EXCEPT ![s] = @ \cup {p}]
    BY <1>2, <1>8, <1>12 DEF count
  <2>2. count \in 0 .. max_ports - 1 /\ Held(x) = 0 .. count - 1
    BY <1>0, <1>1, <1>6, <1>12, HeldFits DEF CleanUpAt, count
  <2>3. \A e \in D!Busy : ports_key[keyps[e]] # k /\ keyps[e] # PlaceOf(x, count)
    <3>1. ASSUME NEW e \in D!Busy, keyps[e] = PlaceOf(x, count) PROVE FALSE
      <4>1. Home(e) = x
        BY <1>6, <2>2, <3>1, PlaceHome
      <4>2. PICK c \in Held(x) : c \in 0 .. max_ports - 1 /\ keyps[e] = PlaceOf(x, c)
        BY <1>0, <4>1, EntryPlace
      <4>3. PlaceOf(x, c) = PlaceOf(x, count) /\ x \in Detector!Index
        BY <1>6, <3>1, <4>2
      <4>4. c = count
        BY <2>2, <4>2, <4>3, PlacesApart
      <4> QED
        BY <1>6, <2>2, <4>2, <4>4
    <3> QED
      BY <1>8, <1>12, <3>1
  <2>4. /\ D!MapInv'
        /\ \E e \in D!Slot :
              /\ e \notin D!Busy /\ D!Busy' = D!Busy \cup {e}
              /\ keyps'[e] = PlaceOf(x, count) /\ Home(e)' = x
              /\ ports_key'[keyps'[e]] = k /\ Whose(e)' = k[1]
              /\ \A f \in D!Busy : /\ f # e /\ keyps'[f] = keyps[f]
                                   /\ ports_key'[keyps'[f]] = ports_key[keyps[f]]
                                   /\ Home(f)' = Home(f) /\ Whose(f)' = Whose(f)
    BY <1>6, <1>7, <2>1, <2>2, <2>3, PortPut
  <2>5. PICK e \in D!Slot :
              /\ e \notin D!Busy /\ D!Busy' = D!Busy \cup {e}
              /\ keyps'[e] = PlaceOf(x, count) /\ Home(e)' = x
              /\ ports_key'[keyps'[e]] = k /\ Whose(e)' = s
              /\ \A f \in D!Busy : /\ f # e /\ keyps'[f] = keyps[f]
                                   /\ ports_key'[keyps'[f]] = ports_key[keyps[f]]
                                   /\ Home(f)' = Home(f) /\ Whose(f)' = Whose(f)
    BY <1>9, <2>4
  <2>6. CellsHeld' /\ touched_ports_counter' \in [Detector!Index -> 0 .. max_ports]
    <3>1. \A y \in Detector!Index \ {x} : ~CleanUpAt(y)
      BY <1>1 DEF CleanUpAt
    <3>2. \A f \in D!Busy : f # e /\ keyps'[f] = keyps[f]
      BY <2>5
    <3>3. /\ e \in D!Slot /\ e \notin D!Busy /\ D!Busy' = D!Busy \cup {e}
          /\ keyps'[e] = PlaceOf(x, count) /\ pc' = "idle" /\ x \in Detector!Index
          /\ count \in 0 .. max_ports - 1 /\ Held(x) = 0 .. count - 1
          /\ touched_ports_counter' = [touched_ports_counter EXCEPT ![x] = count + 1]
      BY <1>1, <1>6, <2>1, <2>2, <2>5
    <3> QED
      BY <1>0, <3>1, <3>2, <3>3, PutHolds
  <2>7. /\ reached' \in [Src -> SUBSET Port] /\ reached'[s] = reached[s] \cup {p}
        /\ \A r \in Src : r # s => reached'[r] = reached[r]
    BY <1>0, <2>1 DEF DetectorTyped
  <2>8. DetectorTyped'
    BY <1>1, <1>5, <2>6, <2>7 DEF DetectorTyped
  <2>9. AtHome'
    <3>1. ASSUME NEW r \in DOMAIN srcs', NEW f \in D!Busy', Whose(f)' = r
          PROVE  Home(f)' = srcs'[r].index
      <4>1. CASE f = e
        BY <1>4, <1>5, <2>5, <3>1, <4>1
      <4>2. CASE f \in D!Busy
        BY <1>5, <2>5, <3>1, <4>2 DEF ScanInv, AtHome
      <4> QED
        BY <2>5, <4>1, <4>2
    <3> QED
      BY <3>1 DEF AtHome, Home, Whose
  <2>10. PortsOwn'
    <3>1. ASSUME NEW r \in DOMAIN srcs', NEW f \in D!Busy', Home(f)' = srcs'[r].index
          PROVE  ports_key'[keyps'[f]] \in {r} \X reached'[r]
      <4>1. r \in DOMAIN srcs /\ r \in Src /\ srcs'[r].index = srcs[r].index
        BY <1>3, <1>5
      <4>2. r # s => srcs[r].index # x
        BY <1>0, <1>4, <1>5, <4>1 DEF DetectorTyped, Tracking, Injective
      <4>3. CASE f = e
        <5>1. r = s
          BY <2>5, <3>1, <4>1, <4>2, <4>3
        <5> QED
          BY <1>9, <2>5, <2>7, <4>3, <5>1
      <4>4. CASE f \in D!Busy
        <5>1. ports_key[keyps[f]] \in {r} \X reached[r]
          BY <1>1, <2>5, <3>1, <4>1, <4>4 DEF ScanInv, PortsOwn
        <5> QED
          BY <2>5, <2>7, <4>1, <4>4, <5>1
      <4> QED
        BY <2>5, <4>3, <4>4
    <3>2. ASSUME NEW r \in DOMAIN srcs', NEW q \in reached'[r]
          PROVE  \E f \in D!Busy' : ports_key'[keyps'[f]] = <<r, q>>
      <4>1. r \in DOMAIN srcs /\ r \in Src
        BY <1>3, <1>5
      <4>2. CASE r = s /\ q = p
        BY <1>9, <2>5, <4>2
      <4>3. CASE q \in reached[r]
        <5>1. PICK f \in D!Busy : ports_key[keyps[f]] = <<r, q>>
          BY <1>1, <4>1, <4>3 DEF ScanInv, PortsOwn
        <5> QED
          BY <2>5, <5>1
      <4> QED
        BY <2>7, <3>2, <4>1, <4>2, <4>3
    <3> QED
      BY <3>1, <3>2 DEF PortsOwn, Home
  <2>11. Limits'
    <3>1. /\ IsFiniteSet(reached[s] \cup {p})
          /\ Cardinality(reached[s] \cup {p}) = count + 1
      BY <1>6, <1>12, FS_AddElement
    <3>2. IsFiniteSet(reached'[s]) /\ Cardinality(reached'[s]) = count + 1
      BY <2>7, <3>1
    <3>3. count + 1 <= max_ports
      BY <1>6, <2>2
    <3> QED
      BY <2>1, <2>7, <3>2, <3>3 DEF ScanInv, Limits
  <2> QED
    BY <2>4, <2>6, <2>8, <2>9, <2>10, <2>11 DEF ScanInv
<1> QED
  BY <1>10, <1>11, <1>12

\* Every packet and every step of a clean-up keeps the invariant, until ports
\* are left behind.
LEMMA ScanNext ==
    ASSUME DetectorInv, [Detector!Next]_(Detector!vars) PROVE DetectorInv'
<1> USE DetectorTable
<1>0. leftBehind => leftBehind'
  <2>1. ASSUME NEW t, NEW s, NEW p, Detector!Allocate(t, s, p) PROVE leftBehind => leftBehind'
    BY <2>1 DEF Detector!Allocate
  <2>2. ASSUME NEW t, NEW s, NEW p,
               \/ Detector!NotChecked(t) \/ Detector!AllocateFull(t, s, p)
               \/ Detector!Detect(t, s, p) \/ Detector!Cleanup \/ Detector!FirstPort
               \/ UNCHANGED Detector!vars
        PROVE  leftBehind' = leftBehind
    BY <2>2 DEF Detector!NotChecked, Detector!AllocateFull, Detector!Detect,
                Detector!Cleanup, Detector!FirstPort, Detector!vars
  <2> QED
    BY <2>1, <2>2 DEF Detector!Next
<1> SUFFICES ASSUME ~leftBehind', ScanInv PROVE ScanInv'
  BY <1>0 DEF DetectorInv
<1>1. CASE UNCHANGED Detector!vars
  <2>1. UNCHANGED <<srcs, touched_ports_counter, Detector!portsMap, ports_key, pc, cur, i,
                    psOut, reached>>
    BY <1>1 DEF Detector!vars
  <2>2. /\ D!MapInv' /\ D!Busy' = D!Busy /\ UNCHANGED <<keyps, ports_key>>
        /\ \A e : Home(e)' = Home(e) /\ Whose(e)' = Whose(e)
    BY <2>1, PortsKept
  <2>3. DetectorTyped' /\ Limits'
    BY <2>1 DEF ScanInv, DetectorTyped, Tracking, Limits
  <2>4. AtHome'
    BY <2>1, <2>2 DEF ScanInv, AtHome, Home, Whose
  <2>5. PortsOwn'
    <3>1. ASSUME NEW s \in DOMAIN srcs', ~(pc' = "cleanup" /\ s = cur'.src)
          PROVE  /\ \A e \in D!Busy' : Home(e)' = srcs'[s].index
                                          => ports_key'[keyps'[e]] \in {s} \X reached'[s]
                 /\ \A p \in reached'[s] : \E e \in D!Busy' : ports_key'[keyps'[e]] = <<s, p>>
      BY <2>1, <2>2, <3>1 DEF ScanInv, PortsOwn
    <3> QED
      BY <3>1 DEF PortsOwn, Home
  <2>6. CellsHeld'
    BY <2>1, <2>2 DEF ScanInv, CellsHeld, Held, CleanUpAt, PlaceOf
  <2> QED
    BY <2>2, <2>3, <2>4, <2>5, <2>6 DEF ScanInv
<1>2. ASSUME NEW t, srcs' = Detector!expire_entries(t)
      PROVE  /\ Tracking' /\ DOMAIN srcs' \subseteq DOMAIN srcs
             /\ \A s \in DOMAIN srcs' : srcs'[s].index = srcs[s].index
  BY <1>2, SourcesExpire DEF Tracking
<1>3. ASSUME NEW t, Detector!NotChecked(t) PROVE ScanInv'
  <2>1. /\ pc = "idle" /\ srcs' = Detector!expire_entries(t) /\ psOut' = psOut
        /\ UNCHANGED <<touched_ports_counter, Detector!portsMap, ports_key, pc, reached>>
    BY <1>3 DEF Detector!NotChecked, Detector!Idle
  <2> QED
    BY <1>2, <2>1, QuietKeeps
<1>4. ASSUME NEW t, NEW s, NEW p, Detector!AllocateFull(t, s, p) PROVE ScanInv'
  <2>1. /\ pc = "idle" /\ srcs' = Detector!expire_entries(t) /\ psOut'.passed
        /\ UNCHANGED <<touched_ports_counter, Detector!portsMap, ports_key, pc, reached>>
    BY <1>4 DEF Detector!AllocateFull, Detector!Idle, Detector!Passes
  <2> QED
    BY <1>2, <2>1, QuietKeeps
<1>5. ASSUME NEW t \in psNow .. PsMaxTime PROVE t \in Int
  OBVIOUS
<1> QED
  BY <1>1, <1>3, <1>4, <1>5, AllocateKeeps, DetectKeeps, CleanupKeeps, FirstPortKeeps
     DEF Detector!Next

\* CleanedUp of the port scan detector (psd), for any number of sources and
\* indexes, any ports, hash, limit and expiration time: until an allocation
\* leaves ports behind, the map has between packets, at the index of every
\* tracked source, that source and the ports it reached, whoever was there
\* before.
THEOREM DetectorCleansUp == Detector!Spec => []CleanedUpUntilLeft
<1>1. DetectorInv /\ [Detector!Next]_(Detector!vars) => DetectorInv'
  BY ScanNext
<1>2. Detector!Init => DetectorInv
  BY ScanInit DEF DetectorInv
<1>3. DetectorInv => CleanedUpUntilLeft
  BY ScanInvImplies
<1> QED
  BY <1>1, <1>2, <1>3, PTL DEF Detector!Spec

\* DetectionExact of the port scan detector, for the same: until then a source
\* gets to max_ports ports while it is tracked, and is dropped at the next new
\* one, however many other sources are tracked or have left ports in the map.
THEOREM DetectorExact == Detector!Spec => []DetectionExact
<1>1. DetectorInv /\ [Detector!Next]_(Detector!vars) => DetectorInv'
  BY ScanNext
<1>2. Detector!Init => DetectorInv
  BY ScanInit DEF DetectorInv
<1>3. DetectorInv => DetectionExact
  BY ScanInvImplies
<1> QED
  BY <1>1, <1>2, <1>3, PTL DEF Detector!Spec
==============================================================================
