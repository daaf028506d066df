# A verification of Matching_Machine

TLA+ models of the matching engine of this repository and of the scripts that
measure it, model-checked with TLC, and theorems about them checked with TLAPS.
Paths below are relative to the repository root.

Contents: 1 the system · 2 the modules · 3 how the models correspond to the
code · 4 what the runs check · 5 fairness · 6 what is proved · 7 where code and
documentation disagree · 8 what is not modelled · 9 plan.

## 1. The system

| Component | State | Operations | Talks to |
|---|---|---|---|
| SPSC ring buffer, `include/spsc_ring_buffer.h` | `head_`, `tail_` (atomics), `buffer_` | `try_push`, `try_pop` | carries `Order*` between two threads |
| Memory pool, `include/memory_pool.h` | index free list, `free_head_`, `available_` | `allocate`, `deallocate`, `reset` | producer thread only |
| Trade ring buffer, `include/trade_ring_buffer.h` | `buffer_`, `write_pos_`, `count_`, `total_written_` | `push_trade`/`alloc_slot`, `drain`, `operator[]` | written by the order book |
| Order book, `include/order_book.h`, `src/order_book.cpp` | a map of price levels per side, each a vector with a cursor and holes; `order_index_` | `add_order`, `add_order_noalloc`, `cancel_order`, `clear` | calls the deallocator back in the middle of matching |
| Matching pipeline, `include/matching_engine.h`, `src/matching_engine.cpp` | two threads, two rings, a pool, three flags, counters | `start`, `stop`, `producer_loop`, `consumer_loop` | composes all of the above |
| Feed simulator, `src/feed_simulator.cpp` | next ID, random source | `generate_into` | fills the producer's slots |
| Thread placement, `include/thread_placement.h` | a `pthread_t` | create pinned (may throw), `join` | used by both pipelines |
| Latency recorder, `include/latency_recorder.h` | a vector of samples | `record`, `reset`, percentiles | consumer thread |
| First order book, `benchmarks/order_book_v1.h` | lists per price and an index | as the order book | baseline of the benchmarks |
| Mutex pipeline, `benchmarks/bench_baseline_mutex.cpp` | a queue under a mutex, a condition variable | `start`, `stop`, two loops | baseline of the benchmarks |
| Measurement mode, `scripts/env/bench_env.sh` | machine settings, online CPUs, a state file and an interrupt file | `setup`, `restore` | run with sudo by both recorders and by hand |
| Recording sessions, `scripts/record/bench_record.py` | a `Study` in memory; affinities of every task of the user; a recovery file, tables, raw files | sessions, rounds, `apply_affinity`, `leave`, `write` | measurement mode, the user's tasks |
| One launch, `bench_record.py` | a process session, a pipe | `launch`, `kill_launch_session` | used by both recorders |
| Diagnostic sessions, `scripts/record/bench_diagnose.py` | a `DiagnosticStudy`, the same files and `env.json`'s `complete` | as above, with checkpoints, deferred signals and an archive | the same machine |
| Diagnostic report, `scripts/report/diagnose_report.py` | none | `summarize`, `raw_files`, `layout_rows` | reads what either recorder left |
| Benchmark report, `scripts/report/bench_report.py` | none | statistics | reads the tables |
| Installation, `scripts/env/install_bench_env.sh` | installed copy, sudoers rule, pinned cores | install, pin, roll back | root-owned files |
| Environment capture, `scripts/env/capture_env.sh`, `scripts/diagnostics` | none | reads and prints | the recorders |

What is hard about it, and what makes each part correct:

* **Ring.** Two threads share two indices and the slots with no lock. Loads may
  be stale; a slot may be reused only after its read, and read only after its
  write; indices wrap, and equal indices must mean empty. Correct when it is a
  FIFO queue in which a refusal always has a reason in what the caller can see.
* **Pool.** The free list is the only record of what is in use, and a reset
  happens with slots still out. Correct when no slot is given to two owners and
  none is lost.
* **Trade buffer.** Where the oldest trade is depends on whether the buffer has
  wrapped. Correct when it always holds the most recent trades, oldest first.
* **Order book.** Cancels leave holes, cursors skip them, compaction moves what
  is under the cursor, and the deallocator runs while matching is in progress.
  Correct when every trade respects price and time, quantities balance, the
  index leads exactly to what rests, and each order object goes back exactly
  once, after nothing leads to it any more.
* **Pipeline.** Each side may fill the queue the other one needs drained; the
  last orders race with the "done" flags in both directions; a thread may fail
  to start; a slot may be reused before its latency is recorded; a run leaves
  resting orders behind. Correct when each slot has one owner at a time, no
  order is lost or counted twice, and every run ends.
* **Measurement mode.** Settings are saved in two files and then changed one by
  one, and a refused write or a signal may end the script after any of them.
  Correct when at every moment what has been changed can be put back from the
  files.
* **Recording and diagnosis.** A failure, a signal or a kill comes between any
  two steps; the user's tasks fork, end and have their numbers reused while
  `apply_affinity` walks through them; CPUs that are offline are lost from an
  affinity. Correct when binaries run only in measurement mode, cleared tasks
  are off the measurement cores, every task gets its CPUs back or a recovery
  file stays, and no file of a launch is lost.
* **A launch.** Its processes fork, lead new groups, write without end and keep the
  pipe open while the program looks for them by number, and a signal may be
  raised at any step, also of the way out. Correct when it ends, kills all of its
  own and nothing else, and keeps its output.
* **Report.** It is given whatever a study left behind. Correct when it
  summarizes only whole studies.

`PROJECT.json` lists these hazards one by one, at the lines where they bite.

## 2. The modules

```
SPSCQueue  <--refines--  SPSCRingBuffer
    ^
    | two instances
MatchingEngine --instance--> SlotPool     <--refines--  MemoryPool
    |
    +------------instance--> BookContract <--refines--  OrderBook
                                                          | refines
RecentTrades <--refines-- TradeRingBuffer                 v
                                          OrderData <-- PriceTimeBook

Machine <-- MeasurementMode --+-- RecordingSession  --+
        <-- TaskAffinity -----+                       +--instances--> Studies
            StudyDirectory ---+-- DiagnosticSession --+                  |
                          <------ DiagnoseReport <-----------------------+

Launch
```

Eight modules hold proofs for TLAPS, each named after the module it is about:
`SPSCRingBufferProofs`, `MemoryPoolProofs`, `TradeRingBufferProofs`,
`OrderBookProofs`, `MatchingEngineProofs`, `MeasurementModeProofs`,
`StudiesProofs` (which extends the one before) and `LaunchProofs`.

| Module | What it is |
|---|---|
| `SPSCQueue` | abstract: a bounded FIFO whose two sides see each other's work with delay |
| `SPSCRingBuffer` | the ring, one step per atomic or slot access, with stale loads and happens-before |
| `SPSCRingBufferProofs` | the ring is safe and implements `SPSCQueue`, for every capacity |
| `SlotPool` / `MemoryPool` | abstract pool / the index free list |
| `RecentTrades` / `TradeRingBuffer` | abstract list of recent trades / the buffer |
| `MemoryPoolProofs` / `TradeRingBufferProofs` | their invariants and refinements, for every capacity |
| `OrderData` | orders, trades, price comparisons |
| `PriceTimeBook` | abstract: price-time priority over a set of resting orders |
| `BookContract` | abstract: who owns an order object |
| `OrderBook` | levels, cursors, holes, compaction, index, matching, cancels |
| `OrderBookProofs` | the book's invariants and both refinements, for any orders |
| `MatchingEngine` | main, producer and consumer threads over the abstract parts |
| `MatchingEngineProofs` | who owns a slot, what a sample is about and how a run ends, for any sizes |
| `Machine` | the kernel's side of the scripts: CPUs, settings, the user's tasks |
| `MeasurementMode` | `setup` and `restore`, one setting per step, ended anywhere |
| `TaskAffinity` | the baseline, and `apply_affinity` process by process and task by task |
| `StudyDirectory` | what a study leaves on disk |
| `RecordingSession` | one run of `bench_record.py` |
| `DiagnosticSession` | one run of `bench_diagnose.py` |
| `DiagnoseReport` | what `diagnose_report.py` accepts of a directory |
| `Studies` | both recorders, the scripts they start, the tasks, and recovery by hand, on one machine |
| `MeasurementModeProofs` | TLAPS proof that a script running alone keeps the machine restorable |
| `StudiesProofs` | TLAPS proofs of the safety properties of `Studies`: the machine, the tasks, the files, for any design |
| `Launch` | one launch: its processes, its pipe, the timeout and the kill of its session |
| `LaunchProofs` | TLAPS proofs of the safety properties of `Launch` |
| `MC*` | configurations for TLC, and for the pipeline what is symmetric |

A part is checked against an abstract specification and `MatchingEngine` is
built on that specification, so a pipeline state stays small while everything
the threads may observe of a part (a stale queue, any free slot, any matching
outcome) remains possible. `Studies` composes the detailed modules themselves:
what matters there is how a script that dies, a program that unwinds and tasks
that come and go meet in one machine.

## 3. How the models correspond to the code

**`SPSCRingBuffer`.** `try_push` is `PushBegin` (load the own index, compute
`next_tail`), `PushRefused` or `PushAccepted` (the acquire load of `head_` and
the test), `PushWrite` (the slot) and `PushPublish` (the release store).
`try_pop` is the mirror image. The two overloads of `try_push` differ in copying
or moving the element only. The memory model: an index has a newest value and a
value visible to the other thread, which advances on its own (`SeeHead`,
`SeeTail`) by any number of stores; a load returns the visible value. Being
visible is not being synchronised with: `readsKnown` and `writesKnown` count
the slot accesses of the other side that happen before this side's next one, and
only an acquire load of a release store raises them. A slot access without
happens-before is a data race and reads any value. `AcquireRelaxed`, the
mutation to a relaxed load, shows the difference. `x & mask_` is the remainder
by `Capacity`, a power of two (the `static_assert`s are the module's
assumption). `sent` and `got` are history variables.

**`MemoryPool`.** The three variables are the class's; `given` and `inUse` are
history. `Deallocate` is guarded by `s \in inUse`, the precondition its comment
states. Assertions about foreign pointers are left out.

**`TradeRingBuffer`.** One action for `push_trade` and `alloc_slot`, which
change the same fields. `write_pos_` is the unmasked counter of the code (a
`size_t`; the model stops long before it could wrap).

**`OrderBook`.** One step is one trade, one removal, or one call of the
deallocator; these are the moments the object graph is visible to code outside
the book. `Match` is one iteration of the inner loop of `match`/`match_noalloc`
(both sides, by symmetry of `Opposite`), `EndFilled` and `EndResting` the end of
`match` with the end of `add_order(_noalloc)`, `CancelRequested` and `EndCancel`
the cancel branch of `add_order_noalloc`, `CancelOrder` is `cancel_order`. A
level is `[orders, head]`; the code's index `i` is the model's `i + 1`. The
level that a trade has emptied stays in the map until the deallocator returns,
as in the code (`HandBack`). `CompactAfter` is the 16 of `pop_front`.
`handing` is the deallocator's argument; after `add_order` and `cancel_order`,
which have no deallocator, it stands for the object the caller may free.
Objects are numbered in the order they are handed over, which is also how
`FeedSimulator` numbers orders; a cancel request may name any number, so it may
name an order that is filled, cancelled, another request, or not there. Left out:
symbol, timestamps, `trade_id_counter_`, `reserve` and rehashing. Assumed, as
the class comment does: unique live IDs, positive quantities.

**`MatchingEngine`.** The threads are program counters over the lines of
`start`/`stop`, `producer_loop` and `consumer_loop`. A queue operation is one
step (that is what the ring refines), and a flag has a value and a value seen by
the thread that polls it. An acquire load that returns true synchronises with
everything before the store (`SyncConsumer`, `SyncProducer`), as do thread
creation and join. Matching one order is any sequence of releases of resting
orders followed by resting or finishing, which is what `BookContract` allows and
`OrderBook` implements. `stamp` records which order a slot was last filled for, so
that reading the timestamp late would be noticed. `SpawnFails` is either
`PinnedThread` constructor throwing; the destructor's call of `stop()` is
`StopJoinsProducer` and `StopJoinsConsumer`. `abandoned` is a history variable:
the slots whose orders rested when the consumer's book was destroyed.
`trade_buf_` is not part of this module: the consumer alone writes it and it is
read between runs, so there is nothing for a second thread to interleave with.

**`Machine`** is external code: what the kernel does when the scripts ask. A
task whose CPUs are all taken offline may run on every CPU from then on, an
affinity read is the task's mask without the offline CPUs, a mask naming only
offline CPUs is refused for an interrupt, and a child inherits its parent's
CPUs. `knob.power` stands for governors, turbo and the minimum frequency, which
`setup` and `restore` write one after the other. A script ended between two of
them counts as ended before the first or after the last: all were saved before,
and `restore` writes them all whichever were changed. `irq` stands for all
interrupt masks. At first one task is pinned to the measurement cores, and
a second one is its thread on a sibling CPU, or a process that refuses to be
moved.

**`MeasurementMode`.** `cmd_setup` is `SetupBegin` (the test for the state file
and the choice of CPUs), `SetupOpen` and `SetupSave` (the file opened, the lines
in it), `SetupSaveIrqs`, `SetupTune`, `SetupOffline`, `SetupParanoid`,
`SetupSteer` (interrupts the kernel manages refuse to move), `SetupAppend` and
`SetupVerify`; `cmd_restore` is `RestoreBegin` (with `load_saved_state`, which
takes the strictest `perf_event_paranoid` when the file has none),
`RestoreOnline`, `RestoreIrqs`, `RestoreLimits`, `RestoreParanoid`,
`RestoreRemove`. `Abort` is `set -e` or a signal after any step.

**`TaskAffinity`.** `apply_affinity` lists the processes (`ApplyBegin`), the
threads of one when it comes to it (`ApplyProcess`), and looks up and moves one
task (`ApplyTask`); between any two of these the tasks change. `Known` is
`task_start`'s look into `/proc/PID/task/TID`, which is there for the number of
any thread of a process. The program's own tasks are not among the modelled ones
(`pid == me` is skipped, and its own affinity is left out).

**`RecordingSession`** and **`DiagnosticSession`** are program counters over
`prepare`, `session`, `one`, `leave` and `write` or `archive`. A group of
statements between two calls that act on the machine or on a file is one step.
An exception is `Raising`: the `finally` blocks are followed to the last
`leave()`. `Interrupt` is a signal at any point: in `bench_record.py` an
exception wherever the program is, which leaves `subprocess.run` only when the
script has ended (`Reap`); in `bench_diagnose.py` deferred by `privileged()` as
`pending`. `Kill` leaves a running script to itself. The mid-study
checkpoint of the diagnostic tables is one step; a benchmark that ran fewer
repetitions than asked without failing is counted as a fault in
`RecordingSession`, which does not look for it. Files are removed from `raw/`
one at a time, in one fixed order.

**`DiagnoseReport`.** `Accepts` holds of the directories for which `summarize`
raises no error, `LayoutsJoin` of those whose logs `layout_rows` joins to their
launches. A directory without `env.json` is taken to be one of five repetitions
without warm-up, as the code does.

**`Studies`.** Recovery by hand is what the documentation prescribes after a
kill: `restore`, then `bench_record.py --restore-affinity`. One study runs at a
time; refused writes, signals and kills share the bound `MaxFaults`; tasks fork
and end only while a recovery file exists (`Listed`), since before and after
nobody has a list that could be outdated.

**`Launch`.** Where the program is between two steps is one of `Points`, in four
parts: after `Popen` and before the `try` (`begin`), inside the `try` (`Reading`),
in `kill_launch_session` (`Scanning`), and in the rest of the `except` (`Leaving`).
`Poll` is `select()` with the test of the time behind it, `Read` is `os.read`,
`Append` is `out += chunk`, `Wait` is the return of `wait4`, and `Return` leaves the
`try`. An exception leads through `List`, and for each number `Scan` (the first
`getsid`), `Open` (the descriptor), `Again` (the second `getsid`), `Kill`; then
`KillGroup` (`killpg`), `Reap` (`proc.wait()`), and `Drain` and `Keep` (the last
loop). `Interrupt` is the exception of a signal's handler, which Python raises
wherever the program is: inside the `try` it leads to the `except`, before the
`try` or in the `except` it leads to the caller, with no more cleanup than
closing the pipe, and takes with it what was read and not yet appended.

Between any two steps, processes of the launch write, fork into their parent's
group or a new one and end, and free numbers go to someone else. A number is
given out when no process has it, and no group or session is called by it. A
zombie keeps its number and its session until it is waited for; then the number
of the session may be given out too, and `Scan`, `Again` and `KillGroup` see
whoever has it now. Output is counted in pieces: `pipe` are those in the pipe,
which holds `PipeSize`; `chunk` those read and not appended; `owed` all that
are not in the output. A writer waits while the pipe is full and may otherwise
write for ever. `os.read` takes all there is, as its 64 KiB are what a pipe
holds. `struck` is a history variable: the points at which a signal came. The
properties name with it the windows which the code leaves open (section 7).
Assumed: a prefix starts no new session (the docstring says so), a process
changes its group only at its birth, and closes the pipe only by ending.

## 4. What the runs check

| Run | Configuration | Checks |
|---|---|---|
| `ring` | 4 slots, 2 items, 6 pushes | `TypeOK`, `FifoDelivery`, `NoSlotRace`, `OneSlotStaysEmpty`, `RefusalsJustified`, refinement of `SPSCQueue`, `EveryPushDelivered`, and the inductive invariant `IInv` |
| `book_match` | 4 objects, prices 1-2, quantities 1-2, compaction from the first dead entry | `TypeOK`, `LevelsServable`, `IndexMatchesLevels`, `NotCrossed`, `QuantitiesBalance`, `HandedBackOnce`, refinement of `PriceTimeBook` and of `BookContract` |
| `book_prefix` | 4 objects at one price | `DeadPrefixBounded`, violated (section 7) |
| `pool` | 5 slots | `TypeOK`, `FreeListIsExact`, refinement of `SlotPool` |
| `trades` | capacity 4, 14 trades | `TypeOK`, refinement of `RecentTrades` |
| `engine_safety` | 3 slots, 4 orders a run, queues of 2 and 1, 2 runs | `TypeOK`, `EverySlotHasOneOwner`, `SamplesAreOwn`, `ShutdownIsClean`, `ThreadsNeverOverwritten` |
| `engine_live` | 4 slots, 4 orders, queues of 1 | `EveryRunEnds` |
| `engine_exhaustion` | 1 slot, 2 orders | `EveryRunEnds`, violated (section 7) |
| `studies` | 3 CPUs, 2 tasks, 1 birth, 1 exit; 2 sessions of 1 round and 1 launch; 2 faults; 1 study | `TypeOK`, `RestorableMachine`, `LaunchesInMeasurementMode`, `ClearedTasksAreOff`, `DiagnosisLeavesNoTrace`, `ReportAcceptsOnlyWhole`, `RawFilesKept`, `BaselineGivenBack` |
| `recorder_leaves` | as `studies` with 1 fault, no births and no exits | `RecordingLeavesMode`, violated (section 7) |
| `cleared_tasks` | as `studies` | `ClearedMeansEveryTask`, violated (section 7) |
| `launch` | 3 process numbers, 3 births, a pipe of 2 pieces, output and signals without a bound | `TypeOK`, `OnlyOwnKilled`, `NoSurvivors`, `OutputKept`, `LaunchEnds` |

Why the bounds are enough:

* Six pushes on four slots wrap both indices, reach the full and the empty ring
  from every offset, and leave room for each index to be stale by up to a whole
  ring. Two items distinguish an order from its permutation. For larger rings and
  any number of pushes there are the theorems of section 6, as there are for
  larger books, pools, trade buffers and pipelines.
* Four orders at two prices and two quantities give partial fills on either
  side, one order sweeping two levels, a cancel of a partially filled order, and
  a cancel request behind a fill. Compaction from the first dead entry meets
  live orders behind the cursor already with four orders in a level; the
  `CompactAfter` of 16 would need 17 and changes no case distinction.
* Five slots give free lists of every order and reset with any subset in use.
  Fourteen trades in a buffer of four wrap the buffer three times and allow
  drains at each fill level.
* Fewer slots than orders means that slots are reused within a run; queues
  shorter than the pool fill up; a return queue of one makes the consumer
  block in the deallocator. The second run starts with the first one's
  abandoned slots and after every kind of failed start. In the liveness run four
  slots are the fewest with which both queues can be full while the producer
  holds an order to push and the consumer one to return.

* One measurement core, one sibling and one CPU for the rest are the fewest that
  tell the three apart. Two sessions give `bench_record.py` one round in
  either condition and a second baseline after a first cleanup; two repetitions
  of which one is a warm-up distinguish a short launch. They leave one counted
  repetition, so no group of the report is partly there and partly missing: that
  branch of `summarize` is covered by the theorem `OnlyWhole` only. Two faults are a setup
  that fails and a signal or a kill in the cleanup after it, or a kill and
  the death of the script it leaves behind; the second one is what makes
  cleanup code fail. One birth and one exit give a task that inherits an
  affinity, a number that is reused, and a leader that is gone. For any number of
  tasks, CPUs, sessions, rounds, launches and faults there are the theorems of
  section 6.
* In `recorder_leaves` one fault is the failure of `setup`; with it gone nothing
  cuts `leave` short, so what the run finds is a cleanup that went to its end.
* Three process numbers with three births are the launched process, one in a
  group of its own, and a number that changes hands during the scan, twice. Once
  the child is waited for, the births left also suffice for its number to be given
  to someone else, by whom the scan or `killpg` is misled. A pipe of two pieces can
  be full, partly full and empty; the output has no bound, as what has been
  appended is not counted. For any number and any pipe there are the theorems of
  section 6.

Deadlock checking is off in `studies` and its two companions and in `launch`:
the programs end there, and with them, at the bounds, the system. It is on in
every other run; where a model may stop at a bound it says so by an explicit
stuttering step (`Rest`, `Stop`).

For every property of every passing run `PROJECT.json` names a mutant (for
`BaselineGivenBack` one in each recorder): a
definition of the module with a plausible bug put in (a relaxed load, a missing
full test, no compaction of the cursor, no second drain...), under which TLC
finds that property violated. The mutated definitions stand in the modules just
before the definitions they mutate and are used nowhere else.

## 5. Fairness

* `SPSCRingBuffer!LiveSpec`: the consumer keeps calling `try_pop`
  (`consumer_loop` does, in a loop without a wait), and a store becomes visible
  to the other thread in a finite time, which C++ asks of implementations
  ([intro.progress]). Nothing is assumed of the producer.
* `MatchingEngine!LiveSpec`: each of the three threads is scheduled, weak
  fairness on its steps as a whole and not on single branches; each store
  becomes visible; a caller who started a run calls `stop()`. Nothing forces
  an order to trade rather than rest, or a thread creation to succeed.
* `Launch!Spec`: the program is scheduled, weak fairness on its steps as a whole, and
  the time given runs out. Nothing is assumed of the processes, which may write,
  fork and hold the pipe for ever; as they may keep `select` from ever coming
  back empty, a time tested only then would not end the launch, and that is the
  mutant of `LaunchEnds`. That the killed child becomes a zombie is part of the
  step that kills it. The last loop ends when the pipe is found empty, and a
  process that strayed from the scan alive may keep filling it: `LaunchEnds`
  promises an end, or such a process.
* `Studies` claims nothing of liveness: `bench_record.py` gives its launches no
  time limit, so a benchmark that hangs makes it wait for ever, by design.

## 6. What is proved

Each module of proofs has the same plan. No property is inductive as it stands, so
there is an `IInv` that is; TLC checked it on the bounds of section 4 before it was
proved. One lemma per action says that the action keeps `IInv`, `Invariance`
combines them, and each theorem follows from `Invariance` by temporal logic.

`SPSCRingBufferProofs`, for every capacity that is a power of two (only
`Capacity >= 2` is used), every set of items, any number of pushes, any
interleaving and any staleness:

| Theorem | States |
|---|---|
| `TypeCorrect` | `Spec => []TypeOK` |
| `Fifo` | `Spec => []FifoDelivery` |
| `RaceFree` | `Spec => []NoSlotRace` |
| `NeverFullToTheLastSlot` | `Spec => []OneSlotStaysEmpty` |
| `Invariance` | `Spec => []IInv`, the inductive invariant below |
| `Refusals` | `Spec => RefusalsJustified` |
| `RingImplementsQueue` | `Spec => ImplementsQueue`, that is `Queue!Spec` under the refinement mapping |

`IInv` adds to these properties:

* `InOrder`: around the ring lie, in this order, the `head_` the producer last
  saw, `head_`, the `tail_` the consumer last saw, `tail_`. That is what makes a
  stale load safe: a thread that acts on an old value underestimates what it may
  do.
* `OneSlotStaysEmpty`: the distance from `head_` to `tail_` is the number of
  pushes minus the number of pops, so counts (in which the properties are stated)
  and indices (on which the code acts) can be traded for each other.
* `SlotsHoldSent`: the slots in between hold what was sent and not yet received.
* `PushInFlight`, `PopInFlight`: what each call still knows between its test and
  its store. The other side moves meanwhile, but only in the direction that
  keeps this true.
* `SeenIsPast`: a visible value was stored, so the counts derived from it are
  natural numbers.

Three lemmas give the arithmetic of the wrapped indices (`NextIndexWraps`,
`DistRange` and the step lemmas on `Dist`). `IInv` is an invariant of the run
`ring` too.

For the refinement, the queue is the *window* of slots from `head_` to `tail_`.
Four lemmas say what happens to a window as a sequence: its length, what it
gains when the far end moves (`Append`), what it loses when the near end moves
(`Tail`), and that a write at the far end does not show. With `IInv` they turn
the two release stores into `Push` and `Pop`, the two visibility steps into
`SeePops` and `SeePushes`, and every other step into a stutter. So what
`MatchingEngine` assumes of `order_queue_` and `return_queue_` holds for rings
of any size, not only for the four slots of `ring`.

`MemoryPoolProofs`, for any number of slots (`PoolAssumption`: at least one):

| Theorem | States |
|---|---|
| `TypeCorrect` | `Spec => []TypeOK` |
| `FreeListExact` | `Spec => []FreeListIsExact` |
| `PoolImplementsSlotPool` | `Spec => ImplementsPool`: the free list is a `SlotPool` |

`IInv` names the chain of free slots that the links make: each free slot once, each
linked to the next, the last to `Null`. `FreeListIsExact` walks the links with the
recursive function `NthFree`; `NthFreeUnfolds` shows that a function with its
equation exists, and `SetInduction`, over a set of naturals, that the
walk follows the chain.

`TradeRingBufferProofs`, for every capacity that is a power of two and any number of
trades and drains:

| Theorem | States |
|---|---|
| `TypeCorrect` | `Spec => []TypeOK` |
| `BufferImplementsRecent` | `Spec => ImplementsRecent`: the buffer shows the latest trades, oldest first |

`IInv` adds `Positions` (the unmasked `write_pos_` equals `count_` until the buffer is
full, so the oldest record is at 0 before that and under the next write after
it) and `HeldAreLatest` (from the oldest record on there are the last
`count_` trades). The lemmas on `Masked` say that two positions less than a
capacity apart never share a slot.

`OrderBookProofs`, for any number of order objects, any finite set of prices, any
quantities, any threshold of compaction, and any requests in any order
(`OrderAssumption`, `CompactAssumption`):

| Theorem | States |
|---|---|
| `TypeCorrect` | `Spec => []TypeOK` |
| `AlwaysServable` | `Spec => []LevelsServable` |
| `IndexExact` | `Spec => []IndexMatchesLevels` |
| `NeverCrossed` | `Spec => []NotCrossed` |
| `BackOnce` | `Spec => []HandedBackOnce` |
| `Balanced` | `Spec => []QuantitiesBalance` |
| `BookImplementsContract` | `Spec => ImplementsContract`, what the pipeline assumes of the book |
| `BookImplementsPriceTime` | `Spec => ImplementsPriceTime`, price-time priority |

The first part is about one level: `Queue(lv)` says that behind the cursor the orders
stand as they came. `PastHolesStops`, `CompactKeeps`, `PopFrontTakesFront`,
`PushPutsLast` and `RemoveTakesOne` say what each operation of a level does to the set of
orders that rest there, whatever the holes, and that the front is the earliest of
them. The second is about the map of levels (`PutLevel`, `DropLevel`,
`SweepLevels`). `IInv` then consists of:

* `Homes`: each level is a queue of orders of its own side and price, so an ID
  leads through the index to the level its order is in.
* `LevelsServable`, `Indexed`, `Uncrossed`: an order rests exactly if the index has
  it, but for the one being matched; bids lie below asks also between two trades of
  one order.
* `OnePlace`: an object is resting, incoming, being handed back, handed back once or
  not submitted, and only one of these.
* `Numbered`: the incoming order came last. With `Queue` it gives time priority.
* `Accounts`: what rests has a remainder, so every trade moves something and none
  overfills.

For `QuantitiesBalance` a second invariant, `Ledger`, relates `filled_qty` to the sum
over the trades of an order. Sums are folds over sets, whose value does not
depend on the order of choice; that is proved by induction on finite subsets
(`SubsetInduction`, from the library's well-founded order on them) and gives
`SumOfOneMore`, what one more trade adds.

`MatchingEngineProofs`, for any number of slots, orders, runs, and any sizes of the
two queues (`EngineAssumption`: slots are finite and some, queues hold at least one):

| Theorem | States |
|---|---|
| `TypeCorrect` | `Spec => []TypeOK` |
| `OneOwner` | `Spec => []EverySlotHasOneOwner` |
| `OwnSamples` | `Spec => []SamplesAreOwn` |
| `CleanShutdown` | `Spec => []ShutdownIsClean` |
| `NeverOverwritten` | `Spec => []ThreadsNeverOverwritten` |

`IInv` consists of `Phases` (which thread exists and how far it may be, at each place
of `start`, `stop` and the destructor), `Flags` (a flag is seen after it was
set, and with it everything pushed before: at `popAgain` and `lastDrain` the
thread sees the whole queue), `Pointers` (when each local variable holds a slot),
`Custody` (a used slot is with one of the producer, a queue, the consumer, the
book, or the orders left behind by a run), `Counted` (consumed, in hand and queued
make up what was pushed) and `Stamped` (the orders in the queue are the next ones, in
order). The theorems need the last drain and the second pop of the code:
without them `Flags` is not kept.

`LaunchProofs`, for every set of process numbers, any size of the pipe, any amount of
output, any number of births, and signals anywhere:

| Theorem | States |
|---|---|
| `TypeCorrect` | `Spec => []TypeOK` |
| `OnlyOwn` | `Spec => []OnlyOwnKilled` |
| `NoneSurvives` | `Spec => []NoSurvivors` |
| `NothingLost` | `Spec => []OutputKept` |

Assumed is only that `Main` is a process number, that the pipe holds something and
that the bound is a natural number. Three of the properties are conditional:
`OnlyOwnKilled` on no signal between the return of `wait4` and the end of the `try`,
`NoSurvivors` on none before the `try` or in `kill_launch_session`, and `OutputKept`
on none before the `try`, between a read and its append, or in the `except`. TLC
finds each of them violated when any one of these points is left out of its
condition, so they are the windows of the code and no wider. Signals elsewhere,
several of them too, are covered. `IInv` adds to the types:

* `Unstruck`: a signal leaves the `try` once, and the `except` for good, so where the
  program is limits where signals can have come.
* `Conserved`: what is not in the output is in the pipe or on the way from it.
* `SeenToTheEnd`: an empty read means that no writer is left, and, as only a
  writer starts another, that none will come; and whoever goes through the last
  loop leaves the pipe empty.
* `Held`: the child has its number, and with it that of the session, until the
  program has waited for it; nobody else can be in a group of that number before.
* `Pinned`: after the second `getsid` the descriptor, if its process is still
  there, is of a process of the session; a number given to someone else has
  voided it.
* `Covered`: every process of the launch is in the first group, or still on the
  list, or the one being looked at. It is kept by a fork because a child born in
  another group during the scan sets `strayed`, and it is what makes the
  signal to the group after the scan sufficient.

`MeasurementModeProofs` and `StudiesProofs`, for any CPUs, measured cores and
siblings, tasks, births and exits, sessions, rounds and launches, and any number
of faults:

| Theorem | States |
|---|---|
| `Restorable` | `Spec => []RestorableMachine` |
| `MeasuredInMode` | `Spec => []LaunchesInMeasurementMode` |
| `TypeCorrect` | `Spec => []TypeOK` |
| `Cleared` | `Spec => []ClearedTasksAreOff` |
| `OnlyWhole` | `Spec => []ReportAcceptsOnlyWhole` |
| `FilesKept` | `Spec => []RawFilesKept` |
| `NoTrace` | `Spec => []DiagnosisLeavesNoTrace` |
| `GivenBack` | `Spec => BaselineGivenBack` |

Assumed are `CPUsDivide` (CPUs are numbered from 0; siblings, measured CPUs and the
rest, which is not empty, are disjoint), `TasksAssumption` (the two tasks of the
start have numbers, and the bounds are natural numbers), `DesignAssumption` (a
study has sessions, rounds, launches and repetitions, and fewer of these are
warm-up than there are),
`NoFileAssumption` (no file is not a file's contents, and the number of faults is
a number) and `CallersAssumption` (scripts are started by the two recorders and by
hand, and no recovery file is not a baseline). None of the invariants is
inductive. For the first two, a restore that loads the wrong thing and a
setup that starts changing too early are both a few steps away from a state that
satisfies them. `IInv` says what rules them out:

* `FilesSound`: without a state file nothing is changed, and a file never names a
  setting of measurement mode as the one to go back to.
* `SetupUnderWay`: until `setup` has saved everything nothing is changed, and from
  then on the files hold every usual setting and every sibling.
* `RestoreUnderWay`: `restore` holds what the files say, and has put back what its
  place in the order says, so nothing is on when it removes the files.
* `Alone`: one script runs at a time, of the study that runs, of what is done by
  hand, or of a study that was killed and left it behind.
* `RecorderInMode`, `DiagnosisInMode`: from the `setup` that succeeded to
  `restore`, no script of anyone runs and the verified settings hold.

`MeasurementModeProofs` has one lemma per step of a script, under the assumption
`Sole` that no other runs. `StudiesProofs` shows for each step of either recorder
that it does nothing to the machine except start a script or take its exit status
(`Calls`), and then, actor by actor, that `IInv` is kept; `Alone` discharges
`Sole`. That a study is not begun while another runs is part of the model
(section 8), so the theorems say nothing of two at once.

What the studies promise of tasks and files needs more than the mode. `StudiesInv`
is `IInv` with:

* `TasksInv`: every thread has its leader and no task is younger than the clock
  (`Living`); the baselines of running studies are of tasks that were there
  (`Timely`), so one born later with the same number does not match them; and
  while a walk clears the cores, each task of the baseline is still ahead of it,
  in the list it holds, or off the cores (`Clearing`). A step of a walk, a fork,
  an exit and a reused number all keep that.
* `RecorderInv`, `DiagnosisInv`: where the program is says how far it has come
  (`...Place`), and what it knows of its end (`...Flags`); the rows are those of the
  launches `Prior` to that place in the nested loops, one for each (`...Rows`);
  every row has its log in `raw/` or in the archive, also between packing and
  removing (`...Files`); and the tables are written only of what is whole, after
  the recovery file is gone (`...Tables`). `PriorOfStudy` is the counting
  argument: what precedes the end of the last round is the whole design.
* `Counts`: what is done by hand, and the number of studies.

`Cleared` follows from the first, `OnlyWhole` and `FilesKept` from the second, and
`TypeCorrect` from all.

`TraceInv`, for `NoTrace`, follows `bench_diagnose.py` through its cleanup: it has
noted the attempt and holds a baseline as long as it can still have changed
something, `restore` says `done` only when the state file is gone, and only
then, with no error, may the recovery file go.

That `bench_record.py` has tried to leave the mode before it gives tasks their CPUs is
part of `RecorderFlags`: in both passes of `leave` the mode is not noted as entered.

`ReturnInv`, for `GivenBack`, is about the walk that gives tasks their CPUs back:

* `Scriptless` and `Walking`: no script of anyone runs during a walk, so the CPUs it
  was begun with are those online at its end, and they are all when the state
  file is gone.
* `Powered` and `SoundFiles`: no task is ever without a CPU, so no baseline has an
  empty mask, for which a walk would want all CPUs instead.
* `Returned`: in the walk that decides whether the recovery file goes, each task of
  the baseline that can be moved is still ahead, to be looked up under its own
  process, or where the baseline says, as long as the walk has changed nothing
  or no task was born. With `Led`: with no task born, every task is looked up
  under its own process.

The condition that the walk changed nothing, or that no task was born (`Settled`),
came out of the proof: without it the invariant is not inductive, and the property
is false beyond the bounds of `studies`. `apply_affinity` looks a task up as a
thread of the number it was listed under. When that process has ended and its number
went to a thread of another one, which ends too before the rest of its process is
looked up, these tasks get every CPU instead of their own; TLC reaches that with two
births, three exits and no fault. The walk that does this has changed something.
`bench_diagnose.py` keeps the recovery file then, so for it the theorem has no
condition. `bench_record.py`, if this was the second pass, logs that tasks are not at
the baseline and removes the file all the same
(`scripts/record/bench_record.py:582-587`), although `leave` is to "return every
task to its baseline affinity" (`:572`).

Only model-checked: liveness (`EveryPushDelivered`, `EveryRunEnds`, `LaunchEnds`),
which is out of TLAPS's reach under fairness. Every other property of every
passing run is the subject of a theorem.

## 7. Where code and documentation disagree

1. *Dead prefix of a level* (`book_prefix`). The comment of `PriceLevel`
   (`include/order_book.h:85-87`) says that the dead prefix "is erased once it is
   more than half the vector". `cancel_resting` (`src/order_book.cpp:65-68`)
   advances the cursor without compacting, so cancels at the front of a level grow
   the prefix until an order of that level is next filled. Matching stays
   correct (`book_match`); the memory of a level that is only cancelled is not
   given back.
2. *Exhausted pool* (`engine_exhaustion`). The comment of `start`
   (`include/matching_engine.h:67-68`) says that the producer generates
   `order_count` orders and stops; `docs/AUDIT.md:268-275` describes the hang on
   exhaustion as fixed. `producer_loop` still waits without an exit for a slot
   (`src/matching_engine.cpp:107-114`) while every slot may belong to a resting
   order, and `start` does not compare `order_count` with the capacity. The
   rule that avoids it is stated (`include/matching_engine.h:27-30`: N orders
   need N slots), and under it `engine_live` shows that every run ends.
3. *Leaving measurement mode* (`recorder_leaves`). The docstring of
   `scripts/record/bench_record.py:24-26` says that the script enters and leaves
   measurement mode itself. `session` sets `entered` only after `setup` has
   succeeded (`:513`). In the run, `setup` saves the settings, changes those of
   power, takes the sibling offline, sets `perf_event_paranoid`, and is ended by
   the one fault there is. `leave` then runs no `restore`, goes over the tasks
   twice with the sibling offline, removes the recovery file and comes to its
   end; the program ends in measurement mode, without the message that a restore
   failed. The machine can still be restored by hand (`RestorableMachine`); the CPUs
   of the task that was pinned to the sibling cannot. `bench_diagnose.py`, which
   notes the attempt first and defers signals, does leave
   (`DiagnosisLeavesNoTrace`).
4. *Cleared tasks* (`cleared_tasks`). `scripts/record/bench_record.py:13-14`
   says that in the cleared condition every task of the user is restricted to
   the other cores for the duration of the round. `apply_affinity` goes once
   through a list of processes; one that is forked meanwhile by a process not
   yet moved is not on it and keeps its parent's CPUs. For tasks of the
   baseline the claim holds (`ClearedTasksAreOff`).

There is no run of its own for what follows; the conditions of the properties of
`launch` say it, and section 6 how they were found necessary. The recorders' signal
handlers raise `SystemExit` at any step of `launch`
(`scripts/record/bench_record.py:647-650`, `scripts/record/bench_diagnose.py:397-401`),
and the code does not protect these:

* *After `wait4`* (`:341`). A signal raised when `wait4` has reaped the child, and
  before the `try` is left, sends the scan and `killpg` (`:298`) to a number that
  nobody holds and the kernel may have given away. The comment of the scan says
  "so PID reuse cannot redirect the signal" (`:286-287`); that holds while the child
  is not waited for.
* *In `kill_launch_session`* (`:345`). A second signal, or one after a timeout, leaves by
  the `finally`, with processes of the launch alive.
* *In the `except`* (`:345-359`). The same signal leaves what is in the pipe unread.
* *Between read and append* (`:331-334`, and `:352-357` in the last loop). What was read is
  gone, and so is the claim of the comment "Preserve available output" (`:347`) for it.
* *Before the `try`* (`:319-323`). The child is running, and nobody kills it.
* *Born outside the group during the scan* (`:296-300`). A process that was not there when
  `/proc` was listed, in a group of its own, is not found; it can go on filling the
  pipe, and then the last loop, made so as not to wait for it, goes on reading.

## 8. What is not modelled

* Timing, cache lines, pinning: they change no outcome.
* The single-threaded mode of `MatchingEngine`: a map from symbols to books.
* Random distributions and the CSV reader of `FeedSimulator`.
* `LatencyRecorder`'s percentiles; the benchmarks' own loops; `src/main.cpp`.
* `scripts/report/bench_report.py` and the tables of `diagnose_report.py`:
  real-valued statistics over recorded data (permutation tests, rank
  correlations), pure functions without state whose numbers are out of TLC's
  reach.
* `scripts/env/capture_env.sh`, `scripts/diagnostics`: they read and print, or
  place new threads.
* `scripts/env/install_bench_env.sh`: a sequential installation with a
  rollback and tests of its own; nothing runs beside it.
* In the recorders: telemetry values and their parsing, `--unpinned`, `--smoke`
  (a study of another size), `summary()`, the reading of the matrix file; in
  `bench_env.sh`: the ranking of cores, `status`, `throttle`, `--dry-run`.
* Two studies at once, or a `setup` by hand beside a study: the test for the
  state file and its creation are two steps of `setup`, so two of them can
  overlap. `MeasurementMode` has a script per caller and could show it;
  `Studies` starts one study at a time.
* In `launch`: a child that closes its output and goes on running, for which
  `wait4` waits without a limit; a prefix that starts a new session; a process that
  changes its group later than at its birth; and what follows the `try` (from
  `:362`), which only computes the record.
* In `apply_affinity`: the look at a task's start time (`:256`) and
  `sched_setaffinity` (`:262`) are one step (`ApplyTask`), so that a number which is
  given away between these two is not covered. No task sets its own affinity
  during a walk.
* In `bench_record.py`: a second signal while the program waits for a script to end
  after a first one (`RecordingSession!Interrupt` is off at `reaping` and `dying`).
* The two baselines under `benchmarks/`: the list-based book and the pipeline
  with a mutex.

## 9. Plan

Done: the data structures, the book and the pipeline with the proofs of their safety
properties and refinements; measurement mode, both recorders, the tasks and the
report with the proofs of what they promise; the launch with its proofs. Left, in
this order:

1. Two studies at once over `MeasurementMode`.
2. `MutexPipeline`: the mutex and condition-variable baseline; lost wake-ups,
   failed start, last order. `OrderBookV1`: the list-based book as a second
   implementation of `PriceTimeBook`.
3. Installation with its rollback.
