# My-YCSB: a TLA+ verification project

My-YCSB is a multi-threaded benchmark for key-value stores (Redis, Memcached,
WiredTiger), written in C++.  A benchmark is worth what its numbers are worth:
which operations were made, which of them were measured, and over which window
of time.  This project models the parts that decide that, checks them with TLC
on small instances, and proves the core with TLAPS for every number of threads,
operation types, operations and keys.

## 1. Inventory

| Component | State | Operations | Who uses it |
|---|---|---|---|
| `OpMeasurement` (core/measurement.cpp) | atomic counters per operation type, `start_time`/`end_time`/`rt_time` (plain), `finished`, `nr_active_client`, `final_result_lock`, per-client vectors, final vectors | enable_client, start_measure, record_op, record_progress, finish_measure, get_rt_throughput, finalize_measure, get_* , save_latency | every thread of a run, concurrently |
| run loop (core/worker.cpp) | clients, threads, loop indices | create, spawn, join, finalize, join monitor, destroy; worker loop; monitor loop | the benchmark programs |
| workload generators (core/workload.cpp) | operation counter, random seed, `cur_ack_key` (latest), lines left (trace) | has_next_op, next_op, clone | one per worker |
| initial load (core/worker.cpp, `InitWorkload`) | the partition of the keys | one range of INSERTs per worker | init_* programs |
| `RedisClient` (redis/) | hiredis connection, `cur_batch`, `last_reply` | do_operation with and without batches, reset, close | one per worker |
| `MemcachedClient` (memcached/) | context, `last_reply` | get, set, reset, close | one per worker |
| `WiredTigerClient`, `WiredTigerFactory` (wiredtiger/) | session, cursor; connection | read, update/insert, scan, read-modify-write, reset, close | one per worker |
| `AVLTree` (core/include/avl_tree.h) | nodes with pointers up and down, heights and subtree sizes | insert, remove, rank, index, percentile, iterate | nobody: included by the measurement, never instantiated |
| programs, configuration, scripts | - | parse a file; warm-up round and measured round | the user |

How they interact.  `run_workload_with_op_measurement` creates one client per
thread, registers its id with the measurement, starts the workers and the
monitor, joins the workers, finalizes the measurement (which releases the mutex
the constructor took), joins the monitor and destroys the clients.  A worker
alternates `next_op` of its own workload with `do_operation` of its own client;
all it shares is the measurement.  The monitor polls the measurement once a
second until `finished`, then waits for the mutex and prints the report.  No
thread catches an exception: any throw ends the process (`std::terminate`).

What is hard in this code, and what makes each part correct:

* **OpMeasurement and the run loop.**  Who opens and closes the measured window
  depends on the order in which workers start and finish, decided by the value
  one atomic counter had before an increment.  The window must have both ends or
  none, each written once; the report must be made of exactly the recorded
  samples; the monitor's `exchange(0)` must lose nothing; nothing may be
  destroyed while a thread uses it; and a run must return.
* **Workload generators.**  Boundary draws of floats; `is_last_op` computed after
  the counter; a `LatestWorkload` that starts with no key and must never ask for
  one it has not inserted.
* **Initial load.**  A division that rounds up, with more threads than keys.
* **Pacing.**  A worker that is late keeps its slots: what must hold is that it makes up
  for the delay, and that no delay lasts.
* **The clients' handles, for all stores.**  The factory calls `close` and then `delete`, whose
  destructor closes again; only a pointer set to null keeps it from closing twice, and
  a warm-up round goes through it all before the measured one.
* **RedisClient.**  `cur_batch` must count exactly the replies still owed: one
  more and the worker waits for ever, one fewer and every later reply belongs to
  the wrong operation.  A reply is freed by the next one, by close or by the destructor.
* **WiredTigerClient.**  A cursor walks through a table other threads insert into; any
  return value but 0 throws, the end of the table included; the sessions of both
  rounds must be closed before the connection they share.
* **MemcachedClient.**  The memory of a GET's reply has one owner and a pointer to it
  in the operation; close, the destructor and the next GET all free it.
* **AVLTree.**  Duplicates go to the left, but a rotation may bring an equal element to the
  right; removal swaps values between nodes while an iterator points at them.

`PROJECT.json` lists the hazards line by line with the properties that cover each.

## 2. Modules

| Module | Models | Kind |
|---|---|---|
| `OpMeasurement` | the shared struct and the atomic steps of its methods | component |
| `BenchRun` | one call of `run_workload_with_op_measurement`: main, workers, monitor over `OpMeasurement` | composition |
| `MeasuredRun` | what a run promises: record, close, report exactly what was recorded, return | abstract |
| `Pacing` | the clock of one worker: the loop over `next_op_time` | component |
| `Workload` | the generators as operators (choice of type, index of the latest keys, partition of the load, validity of a trace line) | operators |
| `WorkloadRun` | one generator from construction to last operation or throw | component |
| `InitLoad` | the concurrent load of all keys, over `Workload`'s partition | component |
| `ClientLifecycle` | main of a run_* program: create, join, close and delete the clients, for two rounds | component |
| `ReplyMemory` | the replies a client owns, over `ClientLifecycle` | component |
| `RedisRun` | workers with `RedisClient`s, hiredis buffers and the server, over `ReplyMemory` | composition |
| `MemcachedRun` | workers with `MemcachedClient`s and the server, over `ReplyMemory` | composition |
| `WiredTigerRun` | workers with `WiredTigerClient`s over one factory and an ordered table, over `ClientLifecycle` | composition |
| `ClientSession` | what the `Client` interface promises for any store | abstract |
| `AvlTree` | the tree class, call by call, with its iterator | component |
| `OrderedBag` | what an ordered collection with duplicates and an iterator promises | abstract |
| `BenchRunProofs` | theorems about `BenchRun`: types, lifecycle, data, the refinement of `MeasuredRun` | proofs |
| `WorkloadRunProofs` | theorems about `WorkloadRun` | proofs |
| `WorkerProofs` | theorems about `InitLoad` and `Pacing`, the two loops of worker.cpp | proofs |
| `AvlTreeProofs` | theorems about `AvlTree` | proofs |
| `ClientProofs` | lemmas about `ClientLifecycle` and `ReplyMemory`, which the stores share | proofs |
| `RedisProofs`, `MemcachedProofs`, `WiredTigerProofs` | theorems about the three stores | proofs |
| `MC*` | constants for TLC | instances |

### OpMeasurement and BenchRun

Each action is one access to shared state, with the thread-local work around it.
`start_measure` is `StartMeasure` (fetch_add, deciding on the value before it),
`StoreStartTime` and `StoreRtTime`; `record_op` is `RecordCheck`, `RecordCount`,
`RecordPush`; `finish_measure` is `FinishMeasure`, `StoreFinished`,
`StoreEndTime`; `get_rt_throughput` is `MonitorSeesInactive` or
`MonitorSeesActive`, then one `MonitorExchange` per type and
`MonitorStoreRtTime`.  Between any two of these steps any other thread may run.

`start_time` and `rt_time` are plain variables, written by one thread while others read them: a
data race.  They are aligned 64-bit integers, and the model lets a reader see
the old or the new value.  A time is kept as 0 (never set) or the number of its
write; a sample keeps the `start_time` its timestamp was computed from.  The
vectors of latencies are sets of samples, since only their contents as a
multiset are used and every sample is distinct.  Counters are unbounded integers:
a `long` counting single operations does not overflow in a run that ends.

`WorkerThrows` and `MainThrows` set `aborted`, after which nothing happens:
`std::terminate` ends every thread.

### Workload, WorkloadRun, InitLoad

`rand_r` is a nondeterministic draw.  Where the boundary matters, the choice of
the operation type, the draw is the integer `rand_r` returned, and the
comparison `(double) r / RAND_MAX <= running_sum` is done exactly: a `float` of at least
1/32 is a multiple of 2^-28, sums of such are exact in a `double`, and
`LastDrawWithin` gives the last draw below a sum.  `Boundaries` holds the draws on both sides
of every boundary of every shipped configuration.  A uniform key is made of two draws (`RandomLong`): one
shifted over the other, with the sign bit a `long` has, and the remainder C takes of it.  The width of
a draw is a parameter (`RandMax`), and `int` and `long` are as much wider as they are on the platforms
the code is built for.  A zipfian index is any of 0 to `nr_entry`: both ends are returned for some
draw.  `fnv1_64_hash` is some function from indices to numbers, which are not keys until they are
reduced.

A `ZipfianWorkload` and a `LatestWorkload` are built by `clone`, as the workers' are:
`Constructed` over 3 keys, and then patched field by field (`Clone`).  What they draw with is kept by
what it is computed from: `zetan` by the terms it sums, `eta` by the number of keys and the two sums; so
a constant that is still the one of 3 keys differs from the one of all.  `theta` and `alpha` depend on the
zipfian constant alone and are left out.

Each generator has a next_op of its own, which counts the operation and then sets `is_last_op` by its own
`has_next_op`.  A
`TraceWorkload` reads its lines in the constructor (`Files` are the files it may find,
short ones included) and takes one off the list before it looks at it.

`InitLoad` tries all sizes in one run, since `nr_entry` and `nr_thread` are chosen in `Init`.

### Pacing

Time is an integer that passes in three places: getting the next operation, making
it, and waiting for its slot.  Each of the first two takes any of a set of durations.  The
property compares the start times the loop produces with those of a queue that has
the slots as arrivals, written without a clock: the maximum, over the slots so far, of the slot
plus the work since.  For it the model records the time spent working (`work`), which the loop does
not, and what it was when each operation started.

### ClientLifecycle and ReplyMemory

What the three run_* programs do with their clients is one component, and its actions
are conjuncts of the run modules' `Main`.  Between the workers and the cleanup main waits for the
monitor (`JoinMonitor`), which is not part of these modules and may never return.  `handle` is whether the client's pointer
(context or session) is set, `opened` how many handles it has open: the two differ as soon
as a pointer is not cleared or a handle not closed.  `round` is 0 in the warm-up, which is
skipped if it has no operations, as the programs do.

`ReplyMemory` is the same for the blocks of memory in `last_reply`.  `heap` holds those
a client has allocated, named by the operation they answer; `FreeReply` is what close
does, `DestroyReply` what the destructor does, `SetLastReply` what `set_last_reply` does, with
their tests for null; freeing what is not in `heap` sets `double_free`.
`reply_value_buffer` is the pointer in the worker's `Operation`.

### RedisRun

`out`, `wire` and `replies` are the three places a command of a connection can
be: in hiredis's output buffer, on its way, answered.  `redisAppendCommand`
extends `out`; `redisGetReply` sends it (`WriteBuffer`) if no reply is at hand,
and waits (`SingleReply`, `FlushReply`), or finds the connection lost (`ReplyFails`).  `Execute`
is the server, and `Refuse` a server that answers with an error, which the client takes for
any other reply.  The actions that stand for hiredis and the server are external: they are
modelled from how the code uses them.  A batch of commands is assumed to fit the socket
buffers, and `redisAppendCommand` to succeed: it fails only without memory, and the client, which does
not look at what it returns (redis_client.cpp:45, 77), would then count a command that was never sent.

`config` is chosen in `Init`: one run checks clients with and without batches, on uniform
and on latest workloads, with and without a warm-up and refusals.

### WiredTigerRun

A client's handle is its session.  Main does what `ClientLifecycle` says and then
`Disconnect`, the factory's destructor.  A worker's operation is `SetUp` (reset,
set_key, set_value), then one action per call that touches the table: `Search`,
`ScanNext`, `Insert`.  Other workers may run between any two of them, so a SCAN
walks through a table that changes, and a READ_MODIFY_WRITE (`Search`,
`SetValue`, `Insert`) is two operations on the store.  `visited` and `there`
are history: what the operation at hand has read, and which keys were present when
it began.  `failure` keeps why the process ended: a call failed (`store`), a key was
not there (`not_found`), or `next` found no further record (`past_end`).
WiredTiger is external: an ordered table whose calls take effect at once, as
"isolation=read-uncommitted" lets the code assume.

### MemcachedRun

A call is `Call`, `Execute` (the server), and `SetReturns` or `GetReturns`; it may
fail on either side of `Execute`.  Its replies are those of `ReplyMemory`.

All three clients are shown to implement `ClientSession`: by one operation at a
time for WiredTiger and Memcached, by a batch for Redis.

### AvlTree

A tree is a record of functions over the nodes (value, left, right, parent, height,
number of nodes), and a call is an operator from trees to trees: `Replace` hangs a
subtree below a parent, the rotations are built from it, `Balance` walks to the root as `balance`
does.  The loops that go from node to node (`LeftMost`, `InsertionPoint`, `Find`, ...) are
`Chase` of the step they take.  The class is for one thread, so a call is one action; an iterator's loop
body runs between `cur_node` and `next_node`.  `VisitAndRemove`, a body that removes the
element it is at, is allowed only without duplicates: `remove` looks a value up
from the root, and may find another equal element, `next_node` among them.

Percentiles are exact: a rational p/q for the `float`, and values times q.  The same interpolation
(`Interpolate`) stands for `get_percentile` and for
`OpMeasurement::get_latency_percentile`, and a property compares both.  So the bounds of an index are
covered, and what the rounding of `(size - 1) * p` could do to it is not.  `percent_less` and
`percent_greater` are quotients of modelled counts and left out.  Memory is not modelled: nodes are
`shared_ptr`s with pointers to their parents, which keep each other alive.

## 3. Runs

| Run | Result | What it shows |
|---|---|---|
| `bench` | passes | the report is complete and consistent, counters and samples agree, progress ends at 100%, the two ends of the window, the lifecycle invariant, lifetimes; a run whose workers overlap returns; `BenchRun` implements `MeasuredRun` |
| `bench_returns` | violated | a worker that finishes before the last has started makes the run hang |
| `workload` | passes | all generators: is_last_op against the loop's guard, latest keys, boundary draws, keys of the database, clones that draw as their original, traces |
| `workload_ycsb_b` | violated | 0.95f + 0.05f < 1: the largest draws make the worker throw |
| `init_load` | passes | every key once, for all sizes up to 6 keys and 4 threads |
| `redis` | passes | batch accounting, bounded batches, empty at exit, contexts and replies freed once, single reads deliver, no GET of a `LatestWorkload` misses, implements `ClientSession`, every worker exits |
| `redis_reply` | violated | with a batch of two, a READ returns with `reply_value_buffer` not set |
| `wt` | passes | sessions closed once and before the connection, SCANs read a gapless run of the length asked, implements `ClientSession` |
| `wt_scan` | violated | a SCAN near the end of the table throws |
| `memcached` | passes | replies and contexts freed once, the operation's reply stays allocated, implements `ClientSession` |
| `avl` | passes | shape, heights and sizes after any calls; ranks, indices, percentiles; implements `OrderedBag` |
| `pacing` | passes | operations start as a queue over the slots would serve them |

Bounds, and why they are enough.

* `bench`: three workers, so that "the last starter" and "the first finisher" can be
  different threads from a third one in between, and one without operations, which can finish
  before the others start.  Two types make the monitor's exchange loop interleave with
  increments of the type before and after the one it is at.  `MaxProgress` is
  the sum the callers pass.
* `workload`: four operations over two keys, two more than a `LatestWorkload`
  needs to insert them all, so that the change from INSERT to UPDATE happens, and not the 3 keys a clone is
  constructed over; two hashes that are no keys and fall on different ones, for each index; draws of two
  bits for a uniform key, with an `int` of three and a `long` of six; all traces of three to five lines over lines that are valid, too short, or
  of an unknown type.
* `redis`: batches of 1, 2 and 3 with up to 4 operations: a full batch followed by one
  only `is_last_op` flushes, and an INSERT and a READ of its key in one batch.  Two
  keys, so that the hash of a latest workload may send two indices to one key or to two.  One
  configuration has a warm-up of one operation, which leaves a reply to be freed between the rounds.
  Refusals go with the uniform workloads: with a refused INSERT a latest workload's GET may miss.
* `wt`: three keys of which the middle one is missing: a SCAN of length 2 has a key
  to find that another worker may insert under it, or reaches the end.  Lengths 0
  and 2 are on both sides of the loop's bound.  One operation in the warm-up, two in
  the measured round.
* `wt_scan`: a full table, so that nothing but the end can stop a SCAN.
* `memcached`: three operations after a warm-up of one, so that a GET replaces the reply of one
  before it with a SET in between; two keys, loaded or not.
* `avl`: six nodes and four values: every rotation, single and double, on both sides, at the root
  and below it, removal of nodes with no, one and two children, and duplicates on both sides of a
  rotated node.  No tree of height 4 fits (it takes seven nodes), so a rebalancing that
  rotates at two levels for one removal is not reached.
* `pacing`: five operations that fit their slot, fill it, or take more than two of them: a
  backlog of two slots can build up and be served before the end.
* No counter is cut off by a state constraint: the number of operations bounds every run.

Deadlock is checked in every run: a system that is done says so with a `Stopped` step.

Fairness.  `BenchRun!FairSpec` assumes that the operating system runs each
thread that can take a step, and that a store answers each operation or fails: weak
fairness of main, of the monitor and of each worker separately.  Nothing is
assumed of exceptions.  The mutex is taken once by the monitor when main has
released it for good, so weak fairness is enough for it.  `RedisRun!FairSpec`
assumes the same of main and of each worker, and that the server answers what it has
received: a client that waits for a reply nobody owes it still waits for ever, which is what
`WorkersExit` is about.  It does not assume that main gets past the join of the monitor, and nothing
is claimed of what follows: `bench_returns` shows that it need not.

### Disagreements between code and documentation

1. `bench_returns`: `finished` is set only by a worker that finds all clients
   active when it finishes (measurement.cpp:36).  If one finishes before the last
   has started, `nr_active_client` never reaches the number of clients, `finished`
   stays false, the monitor never leaves its loop and main waits in
   `stat_thread.join()`.  The positive side, `OverlapReturns`, is checked in
   `bench`: if all workers are active together once, the run returns.
2. `workload_ycsb_b`: the proportions of wiredtiger/config/ycsb_b.yaml:14-15.  (A draw of
   0 chooses the first type even if its proportion is 0, workload.cpp:35; `DrawsAsConfigured`
   allows for it: every other draw chooses a type that was configured.)
3. `redis_reply`: core/include/workload.h:31 says that `reply_value_buffer` is for READ.  In the trace a
   READ that does not fill its batch has returned and the buffer has not been set.  (By the code, not shown by the
   run: the flush that follows, if it is made by a READ, sets that READ's buffer to the strings of the replies of
   all the batch's commands in turn, redis_client.cpp:87; one made by a SET frees the replies without setting it.  Nothing in the repository reads the buffer.)
4. `wt_scan`: wiredtiger/config/ycsb_e.yaml:16-17 and 25-26 ask for SCANs of 100
   records from any key; one from the last 99 keys ends the process.

## 4. Proofs

All theorems hold for every value of the constants under the assumptions the
modules declare (`NrThread` and `NrOpType` positive, `NrOp` a function to the
integers, `Missing` neither a client nor the reply `OK`, the proportions natural numbers, and so
on).  `MissingAssumption` of `RedisRun` says that a null reply is neither a value some client has
written nor the status of a SET, which the code tells apart by the reply's type.

* `BenchRunProofs`, first part: `TypeCorrect`.  The type invariant is split by owner (main,
  workers, monitor, and four groups of the shared state), so that a step of one thread has to
  re-establish only the groups it touches.
* Second part: `Lifecycle`, that `LifecycleInv` is an invariant, and from it
  `StartIffEndHolds`, `OwnersOutliveHolds`, `StartWindowHolds` and
  `WindowWrittenOnceHolds`.

  The argument.  None of the four is inductive: whether a `fetch_sub` closes the window
  depends on the counter, and the counter on what the other workers are doing.
  `LifecycleInv` has five parts.  `MainInv` ties main's loops to the threads:
  before the spawn loop has passed a worker it is unborn, after the join
  loop has passed it it has exited.  `LockInv` says who holds the mutex.  `ActiveInv` says that
  `nr_active_client` is the number of workers between their `fetch_add` and their
  `fetch_sub`; with it "the counter was one less than the number of clients"
  means "all the others are active" (`ActiveCount`).  `StartInv` then says that the window is
  open, or about to be opened by exactly one worker, only if no worker is left to start, and
  that it is open or someone has finished once none is left; `EndInv` that
  a window once opened is closed, by exactly one worker, as soon as someone finishes.
  A step that moves no worker across one of the points these speak of keeps
  them (`QuietStep`); the seven steps that do are treated one by one.
* Third part: `CountsMatchHolds`, `RtCountsHold`, `ReportIsCompleteHolds`, `ProgressBoundedHolds`
  and `MeasuredRunImplemented`.

  The argument.  The counts say nothing of each other unless samples are
  distinct, so `DataInv` names each sample by its worker and operation: `OpsInv`
  numbers the operations a worker has taken, `SamplesInv` says that a client's vector holds
  samples of its own worker only, and not of the operation underway until it is pushed;
  a push therefore adds a new element to the sets that are counted.  `ProgressInv` equates
  `cur_progress` with the number of operations done, a subset of `Ops`, whose size is
  `max_progress` (`OpsAreFinite`).  `FinalInv` says what `finalize_measure` leaves behind, which needs the
  lifecycle: main collects only after the joins, and the report waits for the mutex.  With
  `DataInv`, every step is a step of `MeasuredRun` or a stutter: a push records, `finalize_measure`
  closes, the report reports, an exception aborts (`WorkerRefines`, `MonitorRefines`,
  `MainRefines`, `StopRefines`).
* `WorkloadRunProofs`: `TypesHold`, `LastOpIsFlagged`, `KeysAreOfDatabase`, `DrawsAreAsConfigured`,
  `TraceIsReplayed`, `LatestHitsItsInserts`, for every number of operations and of keys, every hash,
  all proportions and draws, and every trace file.  All rest on `TypeInv`, whose `LinesInv` says that
  the lines left of a trace are those from `cur_nr_op` on and whose `ConfigInv` that a clone draws as a
  generator constructed over all the keys (`CloneDrawsAlike`).  `RandomLongPositive` is the arithmetic of a
  uniform key, for every width of a draw: the shift stays below the sign bit.  `AckInv` equates `cur_ack_key` with the
  number of INSERTs in the history; without it nothing says that an index below the counter was
  inserted.  The draws are settled by lemmas about the operators: the five partial sums
  (`RunningSums`) bound disjoint ranges of draws (`DrawsDisjoint`), which cover them all
  if they sum to one (`DrawsCovered`), and that of a proportion of zero holds 0 at most
  (`ZeroProportion`).
* `WorkerProofs`, first part: `InsertsCorrect` (each worker has inserted a prefix of its
  range), `NoKeyTwiceHolds`, `AllKeysLoadedHolds`, all from `Inductive`, which adds the types.  The
  arithmetic is in three lemmas: the ranges are apart (`MultiplesApart`), cover all keys
  (`KeyHasOwner`), and a key has one owner (`OwnerIsUnique`).
* `ClientProofs`, first part: lemmas that the steps of main keep `MainInv`, one per step.
  `HandlesBalanced` alone is not inductive, because it does not say what the loops have passed:
  `HandlesInv` says that exactly the clients below `thread_index` have been created or
  closed, and `CountsInv` that a set pointer is an open handle.
  The second part does the same for `RepliesInv`, and is for the two stores whose clients keep replies: a client owns the reply `last_reply` points to and
  main has cleared the pointer of each client it has closed.  `SetKeepsReplies` assumes
  that the reply set is newer than the one held (else it would free the block it has just stored);
  that this is so is for each client to show.
* `MemcachedProofs`: `ContextsFreedOnce`, `RepliesFreedOnce`, `BufferStaysAllocated`,
  `SessionImplemented`.  The
  reply of a GET is named by its operation, and `PointersInv` says that the operation at hand is
  newer than the last reply until it has returned.
* `RedisProofs`: `ConnectionsClosedOnce`, `RepliesFreedOnce`, `BatchesCounted`, `BatchesBounded`,
  `SingleReadsDelivered`, for every batch size (zero and negative ones included), every number of
  operations and every hash.  `BatchInv` ties `cur_batch` to the commands in the three
  buffers and to the worker's place.  Whether a reply is newer than the last, and whether it is the
  one a READ waits for, needs more: `OrderInv` numbers the commands.  `Before(c)` is the number of
  the last command whose reply has been read, and the commands in `replies`, `wire` and `out` are the
  next ones, without gaps.  `DeliveredInv` is the pointer's part of a client without batches.
* `WiredTigerProofs`: `SessionsClosedOnce`, and `ScansAreRuns` for every `scan_length` and every
  number of workers that insert meanwhile.  What a cursor has read so far is `Gapless`: it starts
  at the operation's key, ascends, and has every key between its ends that was present at the
  beginning.  `ThereInv` says that these keys are still in the table, so that the next key the cursor
  goes to, the least one ahead, cannot be past one of them; that there is a least one is
  `MinIsLeast`, from the well-foundedness of the naturals.

* The refinements of `ClientSession` (`SessionImplemented` in the modules of all three stores) map what a
  client has been given to the operations its store has yet to execute: none or the one in
  `do_operation` for Memcached and WiredTiger; for Redis the commands in the output buffer and on the
  wire, so that the bound on how far a client runs ahead, and that it owes nothing when it leaves,
  come from `BatchInv`.  A step gives an
  operation, applies the oldest one, lets a worker leave, fails, or changes nothing the
  abstract state shows.
* `LatestReadsAlwaysHit` (`RedisProofs`), for every batch size, every hash and any number of clients that
  insert the same keys.  A key counts as inserted before the server has it.  `HitInv` therefore
  speaks of the commands a client has yet to have executed: at each GET among them the key is in the
  store or a SET of it stands before (`ReadsHit`), and so is every key below `cur_ack_key` by the end of
  them (`Held`).  Other clients only add keys to the store.

* `WorkerProofs`, second part: `ServedOnScheduleHolds`, for every interval and all durations.  `ClockInv` says that
  `next_op_time` is the slot of the operation that starts next, and that the clock is where the work
  since the last start has taken it (`Unwaited`) or, after some waiting, no further than the slot.
  So an operation starts at the later of the two, and the maximum over the slots before, which
  `ServedInv` carries, moves on by one.

* `AvlTreeProofs`: `TreeWellFormed`, for every finite set of nodes and every set of values, after any
  calls.  TLC reaches no tree of height 4, so it is only here that a removal which rotates at
  two levels is covered.

  The argument.  `WellFormed` is not inductive: it allows a second root, or pointers in a circle.
  `TreeInv` adds `Linked` (each node of the tree hangs from the one its `parent` points to, on
  one side only, and the root alone has no parent) and types.  Circles need no clause of their
  own: sizes grow from child to parent.  What a call does in between is
  `Defect(t, n, d)`: the tree is as it should be except at `n`, whose height and size are those of
  before the call, with `d` nodes more or fewer below it now, and whose subtrees differ in height by no
  more than one such change allows (`Stale`).  The tree is whole when the defect is at `Null`.

  `RoundMovesDefectUp` is the core: one round of `balance` at a defect, whatever it rotates, leaves a
  subtree that is right, one node larger or smaller, and at most one level
  higher or lower, so the defect is at the parent now.  Which nodes a rotation touches, and that they
  are distinct, is settled first (`RightRotateFields`, `DefectNeighbours`), then what it leaves of
  links (`RightRotateLinked`) and of measures.  The cases of a defect too high on the right are those too
  high on the left in the mirror (`Mirror`): every operator commutes with swapping left and right
  (`MirrorUpdateMeta`, `MirrorReplace`, `MirrorLeftRotate`).  A removal may find the sibling's
  balance at zero, an insertion does not; both are covered, as `d` is either.

  `BalanceRestores` adds the number of rounds: each moves the defect to a node with a larger
  size on record, so `Cardinality(Node)` rounds, the model's bound, are enough, and `Balance` does what the
  unbounded loop does.  In the same way `ChaseEnds` shows that a loop from node to node ends in the
  model where it ends in the code, with the size of the subtree as its measure; from this
  `InsertedIsWhole` and `RemovedIsWhole` get that an insertion hangs the new node in a
  free place, and that the node a removal splices out has at most one child.

  Second part, the order: `TreeImplementsBag` and `TreeQueriesExact`, for every finite set of nodes and all
  values and percentiles.  Both speak of `Elements`, a recursion over the tree, and of what
  other recursions find in it: the ranks, the index, the iterator.  Instead of an induction for each pair of
  these, the nodes are laid out once.  `Lists(t, row)` says that `row` has the nodes from left to right: with the
  places `lo`, `mid` and `hi`, each node stands at its `mid`, its left subtree is the
  range of the row before it and its right subtree the range after (`Spans`).  That is a property of
  each node and its children, with no recursion in it, so a step of the code is shown to keep it by looking at
  the nodes it touches.

  A rotation leaves the row as it is and changes only the ranges of the two nodes it turns (`RightRotateLists`; the
  left rotation in the mirror, where the row is read from its end), hence `BalanceKeepsOrder`.  `insert` puts the new
  node next to its parent in the row (`HungLists`); that this is after the smaller elements and before all
  others, although a rotation may have brought equal ones to the right, follows from what the descent leaves on
  either side (`InsertionPlace`).  `remove` takes one place out (`SplicedOutLists`): when it
  first copies the value of the right-most node on the left, that is the place just before.
  These are `InsertedInOrder` and `RemovedInOrder`.

  `BagInv` is `TreeInv` with the elements ascending in the row and the iterator at a node of the tree or at none,
  with its successor already found.  `ElementsAreListed`, `WalkIsSlice`, `CountIsRank` and
  `AtIsListed` connect the recursions to the row, each once: the elements are the row's values, the
  iterator still has to visit the rest of the row from `next_node` on (`ClimbStands`, `NextStands`), the ranks
  add up to a place, and the descent by index ends at the node that stands there.  What `VisitAndRemove`
  leaves to visit is the delicate case: the removal may move the value of the place before into
  `cur_node`, or splice `cur_node` out, but it never touches a place after it (`VisitedIsTaken`).
  `PercentileExact` adds the arithmetic: the two neighbours of a percentile are indices of the vector, and
  more than the asked share of the elements lies on either side of what is interpolated.

Only model-checked: liveness (`OverlapReturns`, `WorkersExit`), which is out of the prover's reach.

## 5. Not modelled, and the plan

Left out for good: the text of keys and values, printing and the layout of the
latency file, throughput and averages as numbers, YAML parsing, connection set-up, WiredTiger's
statistics, the zipfian distribution (which draws are likely), the shell scripts, the memory of
the tree's nodes.  Of the `run_*_workload` functions only the initial load is a module: the others
allocate one generator per thread, which `WorkloadRun` starts from, and call
`run_workload_with_op_measurement`, which is `BenchRun`.

Planned, most important first:

1. The bulk cursor of init_wt, which needs keys in ascending order, as a property of `InitLoad`.
