# A TLA+ model of synapse-project

synapse-project generates network functions for heterogeneous data planes. It
starts from network functions written in C over a small library of stateful data
structures (`dpdk-nfs`), analyses them, searches for an implementation that splits
them between a programmable switch and its controller, and generates the code for
both; the controller's part runs on a C++ library (`libsycon`).

This directory models the parts that keep state and run for ever: the C library
with the network functions built on it, the controller's run time, and the
programs the compiler generates for switch and controller, where the three meet.
Section 1 is the inventory, section 2 the plan and how far it is; sections 3 to 7
say what is modelled, checked and proved.

## 1. Inventory

### dpdk-nfs: data structures and network functions in C

One lcore runs `worker_loop` (nf.c): receive a batch from each device in turn,
call `nf_process` on every buffer, hand the result to the driver. Nothing here is
concurrent; what is hard is what long sequences of calls leave behind in
structures that share indexes and memory, and what happens at their limits.

| Component | State | Operations | Right when |
|---|---|---|---|
| double chain (`lib/state/double-chain*.c`) | an array of cells threaded into two lists; a timestamp per index | allocate, rejuvenate, free, expire one, is allocated | both lists hold exactly their cells; list order is age order; allocation fails only when all are in use |
| map (`lib/state/map*.c`) | busy bits, key pointers, hashes, chain counters, values | get, put, erase, size | a dictionary; no lookup stops early; no entry is corrupted through its key pointer |
| vector (`lib/state/vector.c`) | an array of cells | borrow, return | address arithmetic; its cells are the map's keys |
| expirator (`lib/util/expirator.c`) | none | the loop that expires indexes and erases their keys | chain, vector and map stay coherent |
| firewall (`fw/`) | chain + vector + map | `nf_process` | exactly the replies of live flows pass |
| NAT (`nat/`) | the same table, read by flow and by port | `nf_process` | no port serves two flows; replies go back to the flow that sent |
| token bucket (`lib/state/token-bucket.c`), policer (`pol/`), heavy hitters (`hhh/`) | the table with a bucket per index | trace, update and check, expire | rate and burst are enforced although buckets are forgotten |
| worker loop (`nf.c`) | receive array, one batch per destination | receive, process, transmit | every buffer is sent or freed exactly once |
| load balancer (`lb/`) | a table of flows and a table of backends, a flow naming its backend by index; the consistent hash table | `nf_process` | packets go to live backends; flows stay with theirs; one is found if there is one |
| consistent hash table (`lib/state/cht.c`) | a vector of rows | fill, find the preferred backend | every row names every backend once |
| port scan detector (`psd/`) | a table of sources, a map of their ports, a counter per source | `nf_process` | a source's ports are its own, also after its index is reused |
| connection limiter (`cl/`), count-min sketch (`lib/state/cms.c`) | a table of flows; counters shared by hash, cleared periodically | `nf_process` | no client gets more flows through than allowed; old counts are forgotten |
| key value store (`kvs/`) | a table of keys with their values | `nf_process`; the storage server behind it | hits are never stale; replies find who asked |

### libsycon: the controller's run time in C++

Concurrent: the packet thread (`pcie_rx`), driver threads that deliver digests and
idle timeouts, and periodic clean-up threads all change the same structures and
share one driver session.

| Component | State | Operations | Right when |
|---|---|---|---|
| session (`config.h`, `pcie.cpp`) | lock word, notification count, the session's transaction | begin, commit, abort for workers and for notifications | one thread at a time; transactions never overlap; the lock is released; notifications go first |
| dchain table (`dchain_table.h`) | free indexes; which copies of the table announced an index idle | allocate, refresh, free; idle callback | tables and free indexes agree; abandoned indexes come back |
| map and guarded map table (`map_table.h`, `guarded_map_table.h`) | cache of the table copies; a register that tells the switch whether there is room | put, delete; idle callback | cache, copies and guard agree, also after an abort |
| heavy hitter table (`hh_table.cpp`) | key to index and back, free and used indexes | digest: insert or replace; idle callback; the thread that clears the sketch | the books agree with each other and the table; counters belong to their key |
| FCFS cached table (`fcfs_cached_table.h`) | a ring of indexes in registers that the switch takes from and the controller gives back to; a cache | digests, packets, idle callbacks | tables match the cache; a cell is freed only for the key that is in it |
| integer allocator (`integer_allocator.h`) | the same ring, and the indexes announced as taken | digests, idle callbacks | (not modelled) |
| vector table, count-min sketch | none of its own beyond the tables | write, read, clear | (not modelled) |

### Generated programs

The compiler turns one network function into a P4 program and a C++ controller
(`synthesized/`). A packet is served by the switch, or goes to the controller,
which changes its tables in a transaction.

| Component | Hard because |
|---|---|
| switch firewall (`fw-f40000-c10000-zipf0_2-hmax-tput`) | several packets of a new flow are under way to the controller at once; an aborted transaction may leave no trace in the controller's books, which the driver does not undo; the map and the allocator age by themselves |
| switch key value store, heavy hitter table (`kvs-...-hhtable`) | keys move in and out of indexes by the table's policy, and each index has a value register the policy does not know |
| switch key value store, cuckoo table (`kvs-...-cuckoo`) | entries travel with recirculated packets between two passes; packets are lost; time stamps are older than the entries they meet |

### The rest

The Synapse compiler (`synapse/`: expressions, decision diagrams, search, code
generation), the other P4 programs (`tofino/`) and generated programs, the models
for symbolic execution (`dpdk-nfs/lib/models`), the store used in experiments
(`key_value_store/`) and the scripts (`eval/`, `tools/`, `plots/`, `tests/`) are not
modelled; section 7 says why.

`PROJECT.json` lists the components with their status and, under `hazards`, the
lines where this code is hard to test.

## 2. Plan

1. *Done.* The data structures: `DoubleChain` against `LruAllocator`, `HashMap`
   against `Dictionary`; the chain proved for every size.
2. *Done.* `FlowTable` composes the two with the key vector, and the network
   functions run on it: `Firewall` (against `FirewallPolicy`), `Nat`,
   `TokenBucket` with `Policer` and `HeavyHitter`. `WorkerLoop` on its own.
3. *Done.* `SyconSession`: lock and transactions, proved for every set of threads.
4. *Done.* The controller's tables: `SwitchTables` (copies, timers, announcements),
   `DchainTable`, `MapTable`, `HHTable`, `FcfsCachedTable`.
5. *Done.* The load balancer with its consistent hash table, the port scan
   detector, the connection limiter with its sketch, the key value store.
6. *Done.* Generated programs: `SwitchFirewall` composes map and allocator,
   `SwitchKvs` implements `HHTable`, `CuckooTable` has recirculation and loss.
7. *Proved.* Every invariant, action property and refinement that a passing run
   checks, for all values of the constants; section 5 names the hypotheses where
   one is needed.
8. *Left.* Several subnet sizes in the heavy hitter detector; libsycon's vector table,
   count-min sketch and integer allocator.

## 3. Modules and code

Definitions carry the names of the code where they can; `PROJECT.json`'s `map`
gives the lines. Operators whose comment starts with *Fault* are single mistakes
the properties are tried against (`mutants`); no specification uses them.

* **DoubleChain** keeps `next` and `prev` cell by cell and performs the code's link
  assignments in order; a free cell is recognised, as in the code, only by
  `prev = next`. `used`, `older` and `sooner` are history: which indexes callers
  hold, in which order they were touched, in which order they will be handed out.
  **LruAllocator** is the same allocator with no cells.
* **HashMap** keeps the five parallel arrays. `mem` is memory the *caller* owns: the
  map stores pointers to keys, so a caller who overwrites a cell changes a key
  inside the map. `Put` and `Erase` carry the conditions `MayPut` and `MayErase`
  that the code expects and does not check; `PutSlot` and `EraseSlot` are the raw
  effects, and `EraseSlot` of an absent key does the damage the code does.
  **Dictionary** is the abstract map. `map_put` and `map_erase` store and return
  nothing else, and the hash is an arbitrary function.
* **FlowTable** instantiates both over `max_flows` elements, with the vector of flow
  identifiers `fv` as the map's `mem`, and calls the raw effects: that the map's
  conditions hold is a property (`MapCallsAllowed`), not a guard. `ExpireOne` is
  one iteration of `expire_items_single_map`, `Expired` the test that ends the
  loop, `Insert` allocation + copy + `map_put`. The deadline may be negative, as it
  is in the code's signed type.
* **Firewall**, **Nat**, **Policer**, **HeavyHitter**: `Receive` is the worker loop
  picking a packet and reading the clock, which never goes back but may stand
  still (`CLOCK_MONOTONIC`); then `nf_process` runs, its expiry loop one step at
  a time, and its decision in one step (for the policer two: check, then trace).
  Headers are abstracted to endpoints, and whether parsing succeeds is part of the
  packet. **NfDevice** holds the two configuration vectors. **FirewallPolicy** is
  the firewall with a set of flows and the time each was seen instead of a table.
* **TokenBucket** adds the buckets, in unsigned arithmetic modulo `Word`, and
  `granted`, a bucket per address that is never rounded and never forgotten, from
  which everything let through is taken: it is the reference for the rate.
* **WorkerLoop** follows the ownership of each buffer between the driver and the
  loop. The driver is external: it hands over any free buffers, and takes all of
  a batch or, with `TxMayRefuse`, any first part of it.
* **SyconSession** has one program counter per thread and one action per access to
  shared state; its definitions are named `SessionInit`, `SessionNext` and so on, as those of
  `HashMap` are named `MapInit`, `MapNext`, since both are checked in one module with
  `DoubleChain`. `atomic64_inc` and `atomic64_dec` do what their assembly does: the
  operand is the pointer variable, so the counter does not change.
* **AgedTable** is the table of keys that `FlowTable` keeps cell by cell, for functions
  whose subject is elsewhere: an index has a key and a time, or nothing; the map is
  the inverse of the keys. That chain, vector and map are worth such a table, operation by
  operation, is the theorem `TableIsAged`. A whole expiry loop is one operation here,
  and which free index is handed out is left open.
* **LoadBalancer** has two such tables. **ChtOrder** gives the consistent hash table
  by the order it should have, **Cht** fills it as `cht_fill_cht` does and is compared
  with that order.
* **PortScanDetector** works on the raw slots of `HashMap`, since a cell of the ports
  vector that is written while the map still points to it changes the map;
  the clean-up loop runs one iteration per step. `leftBehind` is history: it becomes true
  when an allocation starts whose clean-up will not go through every cell in which its index or
  its source has left a port (`LeavesBehind`).
* **ConnectionLimiter** uses **CountMinSketch**, the rows of counters with arbitrary
  hashes. `admitted` and `attempts` are history: what the sketch must not undercount,
  and what it may at most hold against a client.
* **KeyValueCache** is the cache with the server's answers under way as a set, in any
  order; `latest` is history.
* **SwitchTables** is the driver's view of one structure: copies of a table, the
  timers of their entries, announcements under way. A packet looks up one copy and
  restarts only that timer. **DchainTable**, **MapTable** and **HHTable** add the
  controller's caches, an operation or a callback being one step: `SyconSession`
  shows that they hold the lock.
* **FcfsCachedTable** has the ring of free indexes that switch and controller share, with
  the registers' outputs left `Unset` where the program does not assign them, the
  cells of the data plane, and the controller that hears of keys by digest and by packet.
* **SwitchFirewall** instantiates `MapTable` and `DchainTable`. The controller's call is
  split by how it ends: a packet is taken (`Take`), then the flow gets index and key (`Track`), or the
  transaction is aborted (`Reexecute`), which the code decides before it writes anything, so
  that `Abort` changes nothing. Packets under way are a bag bounded by `MaxPending`. `owner` and
  `keyless` are history: which flow an index was taken for, and whether a full map then
  refused its key.
* **SwitchKvs** extends `HHTable` with the registers the generated program reads and
  writes in the same pass.
* **CuckooTable** makes a pass through the pipeline one step, since stages work on
  packets in order, and lets packets interleave between passes. Time is modulo `Wrap`.

The MC modules bring components together for the runs. `MCDataStructures`,
`MCFlowTables`, `MCNetworkFunctions` and `MCDigestTables` hold several components *side by
side*: a variable chosen in the initial state (`structure`, `nf`, `table`) says which one
takes steps, and the others keep the state they were allocated with. So the behaviours of
such a run are exactly those of its components, one at a time; that components which
do share state work together is the subject of the modules that compose them
(`FlowTable`, `Firewall`, `SwitchFirewall`, `SwitchKvs`). Each component has constants and
variables of its own there, which the configurations give their values: a theorem
about an instance holds for every value of them, and not only for the run's. A
component that is instantiated names its assumptions as a definition (`MapAssumption`,
`DchainAssumption`, `CuckooAssumption`, ...), which the MC module assumes of its own constants.

## 4. Runs

Passing:

| Run | What it checks | States | Bounds |
|---|---|---|---|
| `data_structures` | *double chain*: both lists stay threaded in the right order (`AllocListSound`, `FreeListSound`), and the cells implement `LruAllocator`, answers included (`ImplementsLru`). *Hash map*: chain counters are exact (`ChainCounts`) and the slots implement `Dictionary` (`ImplementsDictionary`). *Session*: one thread at a time (`MutualExclusion`), transactions in turn (`SessionSound`), the lock is released (`LockReleased`). *Dchain table*: abandoned indexes come back (`IndexReclaimed`). *Map table*: the guard is open exactly while there is room (`GuardExact`), abandoned keys leave (`KeyReclaimed`) | 144,473 | 4 indexes: the first, a middle, the last and one more cell take different paths; clock 0..2 for equal and unequal stamps. 4 slots, 5 keys (one more than fit) with equal hashes and hashes equal modulo the capacity, so probes collide, wrap around and pass each other. 2 notifiers, 2 workers. 2 copies and 2 indexes or places, so that one copy's timer runs against the other's look-ups; 3 keys, 1 value |
| `firewall` | chain, vector and map stay coherent (`Coherent`), the map's callers respect what it does not test (`MapCallsAllowed`), the table implements `FirewallPolicy` (`ImplementsPolicy`), every packet gets a verdict (`PacketDecided`) | 43,134 | 2 slots for 4 flow identifiers, so the table fills; colliding hashes; a device that is routed back to itself; clock 0..3 with expiration 1: flows live, expire and return |
| `flow_tables` | *NAT*: a port passes to another flow only after the expiration time (`PortNotShared`), a reply reaches the flow that last used the port (`ReplyGoesBack`), a flow keeps its port (`PortKept`). *Heavy hitters*: an address is never let through above burst plus rate times time, through rounding, expiry and re-creation (`RateEnforced`) | 924,471 | NAT: 2 ports, 4 flows, clock 0..3. Heavy hitters: 2 buckets for 3 subnets; 2 tokens in 3 ticks, burst 3: rounding happens at most refills; clock 0..6 lets a bucket expire (after 4) and come back |
| `network_functions` | *Connection limiter*: no client exceeds the limit (`LimitEnforced`), old counts are forgotten (`WindowBounded`). *Load balancer*: packets go to live backends (`ForwardsToLive`), one is found if there is one (`FoundIfAny`), a flow stays (`Affinity`). *Consistent hash table*: every row names every backend once (`RowsComplete`). *Key value store*: hits are the latest value (`HitsLatest`). *Port scan detector*: until a clean-up misses cells, the map has the ports of every tracked source at its own index (`CleanedUpUntilLeft`), and a source is dropped exactly at its limit (`DetectionExact`). *Worker loop*: every buffer is accounted for (`BuffersAccounted`) | 612,458 | 3 clients in 2 rows of 2 buckets, so that each row confuses two of them, a flow table of 2, clock 0..4. One place for 2 flows and 2 for 3 backends, which expire faster than flows; 3 rows. The filling: heights 2 to 11 with 1 to 7 backends, more backends than rows and fewer. 2 keys for 1 index, 2 clients, 2 requests at the server. 2 indexes for 3 sources, 3 ports, limit 2, clock 0..2: two sources are tracked side by side, index 0 is cleaned and given on, sources are dropped beside another's ports and beside leftovers of expired ones. 3 devices, 4 buffers, batches of 3 |
| `switch_firewall` | after commits and aborts the books match the tables (`BooksMatchTables`); a flow gets one index with a key, and others only from a full map (`OneKeyedIndex`) | 2,034,960 | 3 flows, 2 indexes, a map for 2: indexes expire before keys, so the map refuses keys while indexes are free, even twice to one flow. 2 packets under way to the controller, of one flow or of two; 1 announcement, since announcements about entries long removed are the subject of `digest_tables` and `data_structures` table by table, and of `SwitchBooksMatchTables` for any number |
| `digest_tables` | *Heavy hitter table and the store on it*: the books agree (`BooksAgree`) with each other and the table (`TablesMatchBooks`), counters are their key's own (`CountersOwn`), a cached key's register holds what was last put (`LatestWhileCached`). *FCFS cached table*: tables match the cache (`TablesMatchCache`), a digest under way still describes its cell (`DigestOwnsCell`) | 2,277,274 | 3 keys for 2 indexes, so keys are replaced; 2 of them share a counter of the sketch; 2 versions of a value; the driver may refuse. 3 keys in 2 cells, ring of 2 |
| `cuckoo_table` | waits end (`WaitedFor`), entries on the move are seen (`MovesSeen`), keys keep their values (`ValuesOwn`) | 5,835,953 | 2 packets, 3 keys, tables of 2 cells, 2 loops, one packet lost per bloom cell, saturation at 2 |

Ending in a violation, each a disagreement between the code and what the
repository says of it (`findings`):

| Run | Code | Behaviour |
|---|---|---|
| `policer_coherence` | `pol/policer_main.c:75` | `tb_trace` also runs for addresses that have a bucket, so the same key is put into the map again; when a copy expires, another copy's entry is erased, and the chain and map the expirator calls "coherent" no longer are |
| `policer_rate` | `lib/state/token-bucket.c:129` | `burst / rate` is divided in whole seconds; with a burst smaller than a second's tokens, as in the defaults (100 kB, 1 MB/s), every bucket is forgotten when the clock moves and the documented rate is not enforced. The heavy hitter detector multiplies first, and there the property holds |
| `worker_loop_refused` | `nf.c:181` | after a partial transmission the clean-up frees `mbufs[n]`, the n-th buffer *received*, instead of the n-th of the batch |
| `sycon_priority` | `config.h:31` | the notification counter never changes, so workers do not wait for notifications. With a counter that counts, the same property holds |
| `port_scan_sources` | `psd/psd_main.c:79` | the clean-up of index *x* starts at cell *x* and not at the index's own cells: for any index but 0 a source is judged by its predecessor's ports, and cells of index 0 may be cleaned instead. What holds before that happens is checked in `network_functions` |

`policer_rate` uses packets of exactly one burst: a second bucket for an address is
then never created, and the run does not depend on the first disagreement.

**Disagreements met without a run of their own.** The models behave as the code does at
these places, and no property says otherwise:

| Code | Behaviour |
|---|---|
| `lb/balancer.c:63` | without a backend the packet that line 62 marks `// Drop` goes back to the WAN |
| `dchain_table.h:162` | which copies announced an index is remembered across look-ups and refreshes, so an index may be freed though its copies were never idle at once |
| `map_table.h:142` | on the switch, a flow's key and its index age in tables of their own, though `lib/util/expirator.h:12` says "simultaneously": a flow may be in the map while its index is free |
| `map_table.h:59` | a full map refuses a key with no more than a warning, after the index was allocated: the index stays taken without a key until it expires, and every further packet of the flow takes another. With key and index ageing apart (the row above), the map can be full while indexes are free |
| `TofinoSynthesizer.cpp:3042` | the generated program tests the sign of the count instead of its difference with the threshold, and announces every key; the hand-written `hh_table.p4:278` compares the two |
| generated store with heavy hitter table, line 640 | a key cached by a GET is answered from a register nobody wrote for it; the C function caches on PUT only (`kvs/kvs_main.c:68`). `LatestWhileCached` therefore starts at a key's first PUT |
| generated store with cuckoo table, line 392 | the second table's cell is computed before the swap, so a displaced entry goes to another key's cell |
| the same program, line 344 | a packet older than an entry's last refresh finds its age below zero, that is huge, and drops the entry as expired |
| `fcfs_cached_table.p4:351` | with the ring empty the register action assigns no output, and a packet takes the index at place 0, which is in use. No program under `synthesized/` uses this table |
| `fcfs_cached_table.h:217` | a digest of a key that is cached by now is passed over with the index it names, which no one puts back into the ring. No property speaks of the ring: with the row above, it may also give one index to two keys |
| `integer_allocator.h:123` (not modelled) | `expiration_callback` puts an index back without deleting its entries; they may expire again and put the same index back twice, and the ring, which `integer_allocator.h:44` says leaves one place unused, can fill up |

**Views and symmetry.** The views leave out the last answers, the fields of slots
and indexes that are free, the keys of dead cells, and the last packet of an idle
network function. No action reads these and no invariant of the run does; the action
properties of the NAT are evaluated on every step, and before it read only state the
view keeps. The port scan detector's states after `leftBehind` count as one in
`network_functions`: the history never turns back, and both properties claim nothing
from there on. `port_scan_sources` tells them apart (`DetectorView`). In the policer a
stale entry may point to the cell of a free index, so its
view keeps all cells. Of the components side by side, the view shows the one that runs.

Interchangeable are the load balancer's addresses (`Affinity` speaks of every flow
alike), the flows of the switch firewall, the two keys of the digest tables that hash
alike, and the packets of the cuckoo table. No run with a symmetry checks liveness.

**Fairness.** The firewall assumes weak fairness of `nf_process`: the loop has a
core of its own and nothing in `nf_process` blocks. Packets need not arrive.
`data_structures` assumes, of the dchain and map tables, that the timer of an entry
that stays unused runs out, and that the driver's threads call the callbacks that
are due; look-ups and calls of the network function need not happen. Of the session
it assumes weak fairness of each thread's next step once it has called: threads are
scheduled preemptively, and what runs under the lock ends. Nothing is
assumed about who wins the lock, and no thread is promised it: the spin lock has no
queue. The other runs assume nothing. No run switches deadlock checking off.

## 5. Theorems

Eight modules hold the proofs. `PROJECT.json` lists their 53 theorems; 36 state a property
of a run, for every value of the constants that the named assumptions allow. None of these
assumptions speaks of the bounds of a run: they ask for positive sizes, natural clocks
and disjoint kinds of threads. Where a theorem has a further hypothesis, it is given below with
its reason.

| Module | About | Inductive invariant |
|---|---|---|
| `DataStructureProofs` | double chain, hash map | `IInv`, `MapInv` |
| `FlowTableProofs` | the flow table, and that it is an `AgedTable` (the next two build on it) | `TableInv` |
| `FirewallProofs` | firewall | `FirewallInv` |
| `NatDetectorProofs` | NAT, heavy hitter detector | `NatInv`, `DetectorInv` |
| `SwitchTablesProofs` | map table, dchain table | `MapInv`, `ChainInv` |
| `SwitchProgramProofs` | switch firewall, cuckoo table | `BothInv`, `IndexInv`, `CuckooInv` |
| `ControllerProofs` | session, heavy hitter table with its store, FCFS table | `SessionInv`, `TableInv`, `KvsInv`, `FcfsInv` |
| `NetworkFunctionsProofs` | limiter, cache, balancer, consistent hash table, worker loop, port scan detector | `LimitInv`, `CacheInv`, `BalancerInv`, `FindsInv`, `FillInv`, `WorkerInv`, `ScanInv` |

### Data structures

*Double chain.* The lists, the free mark, the time order and the refinement of
`LruAllocator` are not inductive alone. `IInv` joins the types, both list invariants and
the order of the timestamps. A list is described without induction over its length, by
`Threads`: `used` is strictly and totally ordered by `older`, the head's successor is the
least cell, and each cell's successor is the least one above it. An operation changes a
few links and one element of the order, so preservation is first-order reasoning over the
cells it touches; `UnlinkThreads`, `AppendThreads`, `PopThreads` and `PushThreads` say it
once for any list, with companions for `prev` (`Mirrors`). That the free mark is exact
(`AllocatedTest`) follows from the shape: a cell with `prev = next` on the
allocated list is the only one, and its links are the head.

*Hash map.* A probe for a key visits the slot at distance *i* from its start in round *i*,
and every slot in one round (`ProbeAt`, `DistOf`). So an entry at distance *d* of its key
was pushed past exactly the nearer slots, and each of them has a counter above zero;
`find_key` goes on until *d* and finds it (`FindsEntry`), and finds nothing else
(`FindsNothingElse`). `MapInv` adds that stored hashes are those of the stored keys, that
no key is stored twice and that counters are exact. Counters are cardinalities of sets of
entries; a put adds one element to those of the nearer slots and an erase takes one away. The
refinement of `Dictionary` follows, answers included.

### Network functions in C

*Flow table.* `FlowTableProofs` instantiates `DataStructureProofs` for the table's chain and map.
`TableInv` is the chain's invariant, the map's, and `Coherent`: an index is in use exactly if
the map has an entry for it, pointing to its cell. `Coherent` is what shows that each raw
call is one the map allows, so that the map's own theorems apply (`Insert`, `ExpireOne`), and the
three go together. There are as many slots as indexes, so a free index leaves a free slot.

*The table as one value.* `TableIsAged` closes the gap between the network functions modelled
with the cells and those modelled with `AgedTable`. `Entries` is the refinement mapping: the flows
in the map's slots, each with the index `map_get` gives for it and that index's time stamp.
`TableRuns` allows anything a function may do with its table: an expiry iteration, a refresh by
flow or by index, an insertion, a refusal, a removal, time that passes. Each of these is the
operation of `AgedTable` of that name on `Entries` (`AgedChanges`), and each question has the
value's answer (`AgedAnswers`). The two loops meet in `Remaining`, the table without the
entries idle for too long: an iteration leaves it unchanged and erases one entry that is not in
it, and the loop ends exactly when the table is `Remaining`. The proof goes entry by entry:
`EntriesAre` says when a function is the next `Entries`, and `EntryErased`, `EntryRefreshed` and
`EntryEntered` apply it to the effects known from `TableInv`. `FirewallTableIsAged`,
`TranslatorTableIsAged` and `DetectorTableIsAged` show that the three functions modelled cell by
cell stay within `TableRuns`. For the load balancer, the limiter, the cache and the
port scan detector this is read off their code: each allocates a chain, a vector of keys and a map
of one size and makes the calls of `TableRuns` on them (`lb_get_backend` alone removes a key).

*Firewall.* `FirewallCoherent` and `FirewallCallsAllowed` come from `TableInv`.
`FirewallPolicyHolds` is the refinement: the policy's set of flows is the
table's, with the times of the chain, and a loop iteration that expires one flow is a step
or a stutter of the policy.

*NAT.* `PortUse` ties the history to the table: a port in use was last used by the flow in its
cell at its time stamp; a free port that was ever used was used before the expiration
time. Both action properties and the invariant follow from it.

*Heavy hitter detector.* `BucketsBacked`: the bucket of an address in the table is backed by
what the reference grants it, and an address that is not in the table has its whole
grant. A bucket is rounded twice: the tokens of a refill are rounded down, but so is the
time after which it counts as full, which gives away up to `Rate - 1` units (`Slack`). The
theorem `RateHolds` has the hypothesis `ModestRate`: no overflow of the word, and `Rate` at
most `NS_TO_S_MULTIPLIER + 1`, that is about a gigabyte a second. Above that the gifts
add up and `RateEnforced` is false: TLC finds it violated with `NS_TO_S_MULTIPLIER = 1`, `Rate = 3` and
`Burst = 5`.

*Connection limiter.* The limit is not inductive, as an estimate is a minimum over rows.
`Covered` strengthens it: in every row, a client's bucket holds at least what was
admitted for it. That the estimate is one of the rows' buckets needs a least element of a
set of naturals (`LeastOfNats`, from the well-foundedness of `<`). The window needs that
the last clean-up is younger than the interval whenever something is counted.

*Key value store.* Hits are the latest value because no two keys share an index (`Injective`):
a value written for one never shows under the other.

*Load balancer.* A backend's entry names it and carries the time it was last heard (`Owners`); a
tracked flow whose backend has not expired since holds the index of the backend it was
last sent to (`Stays`). `ForwardsToLive` and `Affinity` follow. That a packet
finds a backend if one is active (`BalancerFindsBackend`) rests on the preference table:
the search goes through a row in order, and a row names every backend.

*Consistent hash table.* That rows do is arithmetic: with a prime height, `offset + i * skip` takes
every value once (`PrimeApart`, `PermutationOnce`), so a backend names each row in exactly
one round, and the order of these rounds, ties broken by number, orders the backends of a
row. `FillInv` says that when the loops stand at round *i* and backend *j*, a row has received
exactly the backends whose turn was before (`Received`), each in the cell its rank gives
(`RankFacts`). `ChtRowsComplete` is `RowsComplete`, and `ChtFillsPreference` says that the filled
table is, cell for cell, the `PreferenceTable` that the balancer's model reads.

*Worker loop.* `WorkerAccountsForBuffers` has the hypothesis `~TxMayRefuse`, since the run
`worker_loop_refused` shows that buffers are freed wrongly when the driver takes part of a batch.
`WorkerInv`: a buffer belongs to the loop exactly if it is received and not yet
processed, or in one batch (`Reached`); it is in no two places (`Apart`); and batches are
only sent when all are processed (`InTurn`).

*Port scan detector.* `DetectorCleansUp` and `DetectorExact` hold for any number of indexes; as
the run `port_scan_sources` shows, they cannot hold for ever, so both speak of the time
until an allocation leaves ports behind. The module instantiates the hash map's theorems once
more, for the raw slots that the detector uses. `ScanInv`: the cells that the entries point to
are, index by index, those up to the counter that the clean-up has not come to
(`CellsHeld`), whether or not the source that filled them is still tracked, which makes every
erase one of a key that is there and every put one into a free cell; a tracked source has
entries only at its own index (`AtHome`), where they are the ports it reached
(`PortsOwn`), so the counter is the number of them (`ReachedCounted`, by two bijections). While
an allocation leaves nothing behind, its index is 0 or was never used (`NothingLeft`); that
cells of different indexes do not overlap (`Places`) keeps the others' entries apart.

### Controller and generated programs

*Session.* For any disjoint sets of threads, finite or not: the lock word is 1 exactly when
some thread is between `lock()` and `unlock()`, and an open transaction belongs to it.

*Map table and dchain table.* Every operation writes all copies or none, so types, agreement
of copies and cache, and the guard go together. `GuardTellsTheTruth` adds that the
cache is finite and its cardinality below capacity exactly while the guard is open. It is the
property `GuardExact` of the run `data_structures`.

*Heavy hitter table.* The invariant joins the books (key to index and index to key are inverse;
free and used indexes partition the rest), the table, and the counters with the history
`hits`. `TakeOver` moves an index from one key to another, and is where all of them
move at once. All of it holds for any number of copies as long as only the first refuses
entries (`RefusedAt`): `insert` gives up at a refusal without taking back what it wrote to
earlier copies. The 58 generated tables have one copy, as does the run. `KvsImplementsTable`
shows that every step of the generated store is a step of the table or a stutter, so
the table's invariants hold there; `KvsLatestWhileCached` then adds that an index that keeps
its key keeps its register.

*FCFS cached table.* A digest owns its cell because the cell stays alive until the digest is
taken, and a cell that is alive is not claimed; two digests of one cell are the same.

*Switch firewall.* Each step is, for each of its two tables, an operation or a
stutter, as an aborted transaction is one, so the components' theorems hold of the
composition. `SwitchOneKeyedIndex` is inductive once typed (`IndexInv`): an index gets a key
only for a flow that the controller, not the switch, finds unknown, and one whose key a full
map refused is in `keyless` until it expires.

*Cuckoo table.* `CuckooInv` types the slots (a key has its own value beside it, an empty slot no
time stamp) and the headers of packets under way, and states both properties of the bloom
filter cell by cell (`CellWise`): a cell's two counters differ by the packets that carry an
entry of it, until a counter saturates or a packet is lost. A step changes the counters
of one cell and the header of one packet.

## 6. Only model-checked

The liveness properties `PacketDecided`, `LockReleased`, `IndexReclaimed` and `KeyReclaimed` are
checked by TLC alone: their proofs need `ENABLED`, which the provers do not
handle. With that, the policer has no theorem, since both of its runs end in a violation.

What a theorem says of a finite set of entries, ports or backends is proved through
bijections, unions and single elements; nothing is proved by induction over data.

## 7. Abstractions and what is left out

* Failures of `malloc` at start-up: the program ends before there is state.
* The clock is bounded by `MaxTime`, and signed 64-bit times do not overflow.
* Packet contents, checksums and command line parsing. Configuration is a constant.
* The NAT assumes what its Makefile configures, a table with an index for every
  port; the code does not check it.
* The heavy hitter detector has one subnet size. Its assertion that a packet is no
  longer than the burst is an assumption on packet lengths.
* The bucket's refill is rounded down at every packet and its time moved on, so
  packets closer together than one token's time never refill it. The model has this
  behaviour; no property speaks about it, because nothing in the code promises
  how close to the rate a sender may get.
* Announcements and digests under way are sets: a repetition merges with the first
  while that is under way, and may be made again afterwards.
* A driver call that libsycon asserts to succeed is disabled where it cannot, as the
  program would end. `try_add_entry` may fail where the code handles it.
* A heavy hitter table probes several random indexes; the model chooses one, which
  has every outcome that several have.
* The load balancer's MAC addresses, which follow the nic.

### Not modelled

* *libsycon's vector table and count-min sketch*: the first writes a value to all
  copies and has no callback, the second forwards register reads and a clear. What
  interacts with other state is in `MapTable` and `HHTable`.
* *libsycon's integer allocator*: no generated program uses it, only its own test program
  under `tofino/data_structures/integer_allocator`. Its ring is the one of `FcfsCachedTable`;
  section 4 lists what its expiry does with it.
* *The Synapse compiler* (about 60,000 lines): expressions, decision diagrams, search
  and code generation over Z3 and KLEE. Each run transforms immutable trees in
  sequence and ends; the state space of its inputs is not one TLC enumerates, and its
  result is judged by the programs it generates, of which three are modelled.
* *`synthesized/` and `tofino/`*: most of the repository's lines are generated
  programs, the same few structures laid out again for other workloads and placements
  (35 of them hold the cuckoo table that is modelled here), and P4 text that
  places registers in stages. A definition stands for the one program it was read
  from; the share of all lines that `map` names is small for that reason.
* *`dpdk-nfs/lib/models`* replaces the library during symbolic execution and is no
  part of the running program; `lib/kernel` and the drivers are external.
* *`key_value_store/`, `eval/`, `tools/`, `plots/`, `tests/`*: testbed and measurements.
