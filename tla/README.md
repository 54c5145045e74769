# TLA+ models of the Arandu runtime and tool chain

Arandu is a compiled language. The repository holds its compiler (lexer to four code
generators), the native runtime that compiled programs link, a language server, and a command
line driver with incremental builds and a build daemon. This directory holds TLA+ models of the
parts of that system where several actors touch shared state or where a file outlives the process
that wrote it, and of one compiler analysis whose mistakes would be silent; the TLC
configurations that check the models on small instances; and TLAPS proofs of the safety
properties for every value of the constants.

`PROJECT.json` lists the components, runs, mutants, findings, hazards and theorems, and says for
every definition which lines of the source it stands for.

## The system and its parts

| Part | Where | Module | What is hard about it |
|------|-------|--------|-----------------------|
| Phase-fair lock | `arandu_runtime/src/rt_runtime/phase_lock.rs` | `PhaseLock` | hand-over to parked threads, fairness, reentry |
| Condition variable, mutex | `rt_runtime/thread.rs`, `condvar.aru`, `mutex.aru` | `Condvar` | lost wake-ups, a timeout racing a notify |
| Worker pool | `worker_scheduler/pool.rs` | `WorkerPool` | nested work, admission bound, shutdown |
| Parallel fold | `worker_scheduler/parallel.rs` | `ParallelFold` | which error wins, cancellation |
| Native threads | `native_thread.rs`, the JIT's unload | `NativeThread` | claims racing completion, threads that start threads |
| Generational arenas | `genref.rs` | `GenArena` | stale handles, the generation limit |
| Supervisor | `supervisor_runtime.rs` | `Supervisor` | concurrent polls, orphan processes |
| Wakers | `waker_runtime.rs` | `Waker` | wake against wait and destroy |
| Reactor and TCP sockets | `reactor_runtime/`, `socket_runtime/tcp.rs` | `Reactor` | reuse of descriptors, one-shot interest, the one timer |
| Language server | `arandu_lsp/src/pool.rs`, `dispatcher.rs`, `handlers/` | `LspScheduler` | one reply per request, writes against snapshots |
| Build daemon | `arandu_cli/src/daemon/` | `Daemon` | shared and superseded builds, stop, successors, crashes |
| Incremental builds | `arandu_cli/src/commands/build*.rs`, `cgu.rs`, `linker_elf.rs`, `artifact/` | `Incremental` | a crash between two file operations, reuse of old files |
| Ownership analyses | `arandu_mir/src/move_checker/`, `definite_init.rs`, `drop_elaborate/` | `Ownership` | a destructor that runs twice or never |

How the parts meet. A compiled program calls the runtime through its C ABI. `std.sync` builds
`Mutex` and `RwLock` on the phase-fair lock and `Condvar` on the sequence monitor;
`Mutex.lock` is a writer of the same lock, so the condition-variable model contains a mutex.
Parallel loops call the fold, the fold submits to the one process-wide worker pool, and a fold
may itself run inside a pool worker. Native threads run callbacks of a JIT module, which can only
be unloaded after all of them. The reactor wakes wakers, which is why `Reactor` extends `Waker`
and its wakes are that module's actions. In the tool chain, the language server's loop owns the
incremental database: readers are snapshots in worker jobs, and a write waits until every
snapshot is gone. The daemon runs builds, and builds of other processes share its files.

## Modules

Each component module models one object (one lock address, one pool, one supervisor, one
project). `MC_<module>` instantiates it for TLC and `<module>.cfg` gives the constants.

| Module | State | Actions and the code they stand for |
|--------|-------|-------------------------------------|
| `PhaseLock` | the fields of `PhaseState`, the guards that threads own, `pc` | `Acquire` (read, write, try_read, try_write: admit, park, fail or abort), `Resume` (a signalled thread returns), `ReadUnlock`, `WriteUnlock` (release with its hand-over) |
| `PhaseFairness` | two history variables: how often a waiter was passed over | `HNext`: every step of `PhaseLock`, counting |
| `RwLock` | who reads, writes, waits | abstract: queue, enter, leave, break |
| `Condvar` | the sequence word, registered waiters, the mutex and its queue, the predicate | consumers sample, unlock, register, wake, deregister, lock again, take an item or give up after a timeout; producers lock, change the predicate, advance and notify before or after the unlock |
| `WorkerPool` | the bounded queue, the counter, result channels, the stack of tasks a worker executes | `New`, `TrySubmit`/`TrySend`, `Submit`/`Send`, `Wait`/`WaitReturns`, `Recv`, `Start`, `Finish`, `Cancel`, `DropPool`, `WorkerExits`, `Joined` |
| `ParallelFold` | the shared chunk counter, the stop flag, an outcome per executor | `Enter`, `SubmitTask`, `SubmitFails`, `RunOwnShare`, `StartTask`, `CheckStop`, `TakeChunk`, `FinishChunk`, `Collect`, the inline path |
| `NativeThread` | the thread table, child states, results, the barrier's batch | `Spawn`, `Insert`, `Call` (join or drop), `Claim`, `FinishClaim`, `Return`, `Complete`, `Barrier`, `JoinBatch`, `Unload` |
| `GenArena` | two levels of slots with generations and free stacks | `create_arena`, `insert`, `remove`, `destroy_arena`, each with reuse, growth, refusal and failing allocation; `Lookup` |
| `HandleSet` | handles issued and alive | abstract: issue, end some |
| `Supervisor` | workers, processes, the two levels of locks, each thread's call | `Enter`, `Spawn`, `PollChild`/`PollRestart`/`PollReplace`, `WaitChild`, `KillChild`, `DestroyClose`/`Unregister`/`DestroyReap`, `Exit` |
| `Waker` | the generation-tagged table, flags, sleeping threads | `Create`, `Find`/`SetFlag`/`NotifyOne`, `Check`, `Destroy` |
| `Reactor` | the reactor's slot, the kernel's interest and readiness, descriptors and who has them, each thread's call | `Register`, `ArmTimer`, `SleepPolls`, `RingSleep`, `PollEnter`/`PollWait`/`PollDispatch`/`PollReturn`, `Unpublish`/`CloseSlot`, `Open`, `Close`, `Readiness`, `Tick` |
| `LspScheduler` | jobs with their tokens and snapshots, queues, the result channel, deferred work, the documents known, what the current handler has left to do | `WorkerStep` (take, start, run, drop the snapshot, send, retire), the handlers `OnRequest`, `OnCancel`, `OnFileEvent`, `OnChange`, `OnSave`, `OnResult`, `OnTimeout`, `OnWorkspace`, and `LoopStep`, their continuation |
| `Daemon` | the project lock and socket; per process the main thread, the builder and its jobs; per client its request and connection | client: `Begin`, `Connect`, `SpawnWait`, `Abandon`; main thread: `Lock`, `CheckStop`, `Accept`, `Wait`, `Close`, `Drain`, `Exit`; connection: `ReadRequest`, `Supersede`, `SendJob`, `Await`; builder: `Take`, `Start`, `Refresh`, `GivenUp`, `Finish`; `Crash` |
| `Incremental` | source, cached objects, executables, the three records on disk and all that they were before, locks, each process's build | `check_incremental`, `Partition`, `CompileUnit`, `collect_cache`, `Choose`, `Patch`, `PublishExe`, `WriteState`, `record_elf_layout`, `record_session`, `Edit`, `Crash`, `PowerLoss` |
| `Ownership` | a function and its elaborated code; at run time the paths that are owned, misused, leaked | `Compile` (the two analyses, the errors, the insertion of drops), then `Store`, `Use`, `Destroy`, `StorageDead`, `Jump`, `Return` |

A lock that the code holds for a whole function makes that function one action. Where the code
releases a lock, blocks, or calls back into the program, the action is cut there, and the next
action starts from what the thread remembered. A handler of the language server is the list
`todo` of its remaining calls, because it may block in a database write while workers go on.
The wait in that write is taken from salsa, the library behind it: it cancels running queries and
waits for every clone of the storage.

Some variables are history and decide nothing: `overtaken` and `reader_phases`
(`PhaseFairness`), `displaced` (`Supervisor`), `late` (`LspScheduler`), `crossed` and `robbed`
(fields of a call in `Reactor`), `mixed` (`Incremental`), `fresh` (a field of a connection in
`Daemon`), `created` and `issued` (`GenArena`).

## Runs

| Run | Instance | Checks | States |
|-----|----------|--------|--------|
| `phase_lock` | 4 threads, a reader counter of 0..3, 2 guards per thread | `MutualExclusion`, `GuardReleaseSucceeds`, `NoLostWaiter`, `BoundedOvertaking`, `WaiterAdmitted`, `ImplementsRwLock` | 3,453 |
| `condvar` | 2 consumers, 2 producers, the sequence anywhere up to its limit | `NoLostWakeup`, `ConsumersServed` | 59,971 |
| `worker_pool` | 1 worker, 2 clients, 3 tasks, a queue of 1 | `TaskInOnePlace`, `DropDrains`, `NobodyBlocksForever` | 155,657 |
| `parallel_fold` | up to 3 chunks and 3 executors, 2 error codes | `SuccessMeansAllChunks`, `LowestErrorReported`, `NothingRunsAfterReturn`, `FoldReturns` | 22,631 |
| `native_thread` | the main thread and 2 children | `NoCallbackAfterUnload`, `OneClaimant`, `UnloadEnds` | 7,983 |
| `gen_arena` | 2 arenas of 2 slots, 2 generations, 3 handles | `NoSlotLost`, `ImplementsHandleSet` | 6,872 |
| `supervisor` | 3 threads, 3 processes, 2 workers, 1 restart | `NoOrphan`, `CallsReturn` | 63,763 |
| `reactor` | each backend, 2 threads, 2 sockets on 1 descriptor, 1 waker, batches of 1 | `NoLostWake`, `RegistrationsReachTheirOwn`, `OneWakePerRegistration`, `SleepTimed` | 884,727 |
| `lsp_scheduler` | 2 requests, 2 documents of which 1 is open, 1 worker, capacities of 1, 2 notifications | `SingleReply`, `SnapshotsReachable`, `RetiredBeforeCommit`, `RequestsAnswered` | 368,249 |
| `daemon` | 2 clients, 2 processes, 2 builds, 2 toolchains, 1 superseded build in a row | `FreshAnswer`, `BuilderOutlivesJobs`, `OneBuilder`, `RequestsEnd` | 164,416 |
| `ownership` | 8,148 functions with one local | `NoMisuse`, `FactsSound`, `LeakOnlyIfAmbiguous` | 76,802 |
| `incremental` | 2 processes, 3 builds of 3 versions with 1 or 2 functions, 2 edits, 1 fault | `RightUnlessMixed`, `ObjectsHeld` | 1,388,974 |

What they show:

* `phase_lock`: guards exclude each other and each can be released. A parked thread is in one
  queue or signalled and always has a holder ahead of it. A queued reader lets at most one write
  phase pass, the first queued writer at most one reader phase. Reentry that would wait for
  itself aborts. Every parked thread enters. The lock implements `RwLock`, whose writers enter
  in the order of their arrival.
* `condvar`: items never lie around while everyone who wants one sleeps and no notify is under
  way, although consumers that are told of a timeout leave: a timeout that loses its race with a
  notify must report the notify. A consumer gets its item or is told of a timeout, or the
  sequence was exhausted and the program aborted.
* `worker_pool`: a task is with its caller, in the queue, under way, executing or delivered,
  and in one of these places only, through refusals, inline help, failed construction and drop.
  Drop leaves nothing behind. Nobody waits forever, with one exception described under findings.
* `parallel_fold`: success means that all chunks ran; a failing call reports the failing chunk
  with the lowest index among those that ran, whatever the schedule; nothing touches the
  caller's buffers after the return; the call returns, from a worker thread too.
* `native_thread`: no code of a module runs once it is unloaded, although children start
  children and destructors start threads; a handle has one claimant and no row goes before its
  thread is joined; the unload ends.
* `gen_arena`: a slot that is not retired is reachable, and the arenas implement `HandleSet`:
  what a removed handle names is never revived by the reuse of its slot or of its arena's slot.
* `supervisor`: a process that was not reaped is in somebody's hands. Every call returns, although
  workers may run forever, unless a wait for its own worker holds it up (or, a finding, one for a
  worker that somebody polls).
* `reactor`: a set flag with a sleeping waiter always has a notify on its way or an awake waiter
  to take it; what the kernel watches is the socket its registration was made for; a
  registration wakes once; a sleep that waits in the kernel has a timer.
* `lsp_scheduler`: one terminal response per request; a job with a snapshot is always reachable
  for `cancel_analysis`; after it the writer waits only for jobs that are cancelled and running;
  every request is answered.
* `daemon`: an answer comes from a daemon of the client's toolchain and from inputs read after
  the request; the builder, which ends when the channel's last sender is gone, is there as long as a
  connection can send it a job; only the lock's holder listens or builds; every request ends.
* `ownership`: an accepted function never uses, moves or destroys what is not there, what the
  analyses claim of a point holds there in every run, and what leaks was moved on some paths
  and not on others.
* `incremental`: what a build reports is what its sources compile to, through crashes, power
  losses and concurrent builds, unless it reused an executable that the recorded layout does
  not describe; an object is not collected before it is linked.

Nine of these properties name an exception, `RequestsAnswered` two; they are described under
findings.

### Bounds

The bounds make the cases that matter reachable and keep a run under some minutes.

* `PhaseLock`: two phases in a row with a waiter of each kind behind them take four threads.
  `UsizeMax = 3` makes the overflow abort reachable. `MaxDepth` cuts reentrant reads at two.
* `Condvar`: two consumers, so that a notify can go to the wrong one; the initial sequence is
  any value, so the limit is met in some behaviours and not in others.
* `WorkerPool`: with one worker and a queue of one, a client blocks in `submit`, a worker
  nests, and the pool is dropped between a client's upgrade and its send. Three tasks nest two
  deep. Thunks complete; those whose token is set are cancelled before they run.
* `ParallelFold`: three chunks over three executors let two fail in either order while the
  third is still running. Zero chunks and one chunk are included.
* `NativeThread`: the two ids stand for a child and its descendant, or for one that a
  destructor starts; after them `NEXT_ID` is exhausted and spawns fail.
* `GenArena`: with `Limit = 2` a slot is fresh, reused and retired. `u32` and `u64` limits
  become `SlotCap`, `ArenaCap` and `Limit`. `MaxIssued` caps the handles returned.
* `Supervisor`: `MaxProcesses = 3` leaves room for two workers and one replacement. `Calls` says
  what each thread calls: the first starts workers, the second kills them, both poll and destroy,
  the third only waits, so that a worker is waited for and polled while another is to be killed.
* `Reactor`: one descriptor for two sockets forces its reuse; `MaxBatch = 1` leaves a second
  ready filter for a later poll; `GenMask = 3` stands for 31 bits.
* `LspScheduler`: with capacities of one a queue or channel is full after one entry.
  The document that is not open may be edited before the server knows of it. `MaxEvents` caps
  notifications, `MaxPending` stands for the limit of pending requests. Job
  numbers are reused, so jobs are not bounded.
* `Daemon`: clients ask again and again; two of them are enough to share, supersede and starve. Only
  `c2` may go away while it waits (`Impatient`), and may be forgotten and come again. Two
  process slots give a daemon and its successor. `MaxSuperseded = 1` stands for the code's limit.
* `Ownership`: from four to seven blocks of few statements on one local, since the analyses treat
  locals apart; types are a leaf, a struct, a tuple, a struct with an enum in it, and enums whose
  variants have one payload, several or none.
* `Incremental`: three versions, so that an edit can be undone and a third text be met; two have
  the same functions and the third lacks one, so that a layout can have too many or too few
  units. One fault, since after it the files are again as a run may find them.

### Fairness

* `PhaseLock`: weak fairness of `Resume`, `ReadUnlock` and `WriteUnlock` per thread. A
  signalled thread is runnable, and `std.sync.rwlock` asks holders to release. New acquisitions
  are not fair: nobody has to call the lock.
* `Condvar`: weak fairness of each consumer and producer. Both are loops of the program that the
  operating system schedules. A timeout is one of the ways a timed wait goes on.
* `WorkerPool`, `ParallelFold`: weak fairness of each step a started thread can take. Thunks
  end, as the structured calls require. Nobody has to submit or drop.
* `NativeThread`: weak fairness of the runtime's steps; strong fairness of `Return` and
  `Unload`, because callbacks and the owner may call the runtime in between and yet get to
  their end.
* `Supervisor`: strong fairness of each thread's step, because the locks are taken and released
  around it. None of `Exit`: a worker process need not ever end.
* `LspScheduler`: weak fairness of the loop's continuation, of `OnResult`, of `OnTimeout` and of
  each worker. `select_biased!` prefers protocol messages, so results are only handled when the
  client pauses; the bound on notifications says that it does.
* `Daemon`: weak fairness of each client together with the thread that serves it, of each main
  thread and of each builder. Nobody has to ask, nothing has to die, nobody has to go away.
* `GenArena`, `Reactor`, `Ownership` and `Incremental` have safety properties only.

Deadlock is checked in `phase_lock`, `condvar`, `parallel_fold`, `native_thread`, `gen_arena`,
`supervisor` and `daemon`. It is not in `reactor`, where a wait that nobody wakes may last for
ever, nor in `worker_pool` and `lsp_scheduler`, for the reasons under findings, nor in
`ownership` and `incremental`, which end.

### Findings

Where the code does what a comment of the repository excludes, the property states the comment
with exactly that case excepted. `PROJECT.json` quotes the comments.

* `NoOrphan` (`supervisor_runtime.rs:232`). `poll` decides on a restart under the supervisor's
  lock, starts the replacement without it, and takes it again to install it. Two polls of one
  exited worker both start a replacement and the second store drops the first `Child`, which
  neither kills nor waits (`displaced`).
* `CallsReturn` (`supervisor_runtime.rs:197`). `poll` takes the child's lock while it holds the
  supervisor's. While somebody waits for that child, the poll blocks, and with it every call on
  any worker of the supervisor (`BehindPoll`), for as long as the child runs.
* `RegistrationsReachTheirOwn` (`reactor_runtime/mod.rs:706`). `register_socket` looks up the
  descriptor, lets go of the socket and then waits for the reactor's lock. If the socket is
  closed meanwhile and its descriptor goes to a new one, the new one is armed with the old
  one's waker (`crossed`).
* `SleepTimed` (`reactor_runtime/mod.rs:386`). `sleep_ms` arms the one timer and polls under two
  separate acquisitions of the lock; a poll or an arm of another thread in between takes the
  timer away (`robbed`).
* `SingleReply` (`arandu_lsp/src/pool.rs:258`). A worker sends its result before it takes its
  token out of `active`; a `$/cancelRequest` handled in between sends `RequestCancelled` for a
  request that has its answer (`late`).
* `RequestsAnswered` (`handlers/notification.rs:149`). `didRenameFiles` with several files writes
  after it spawned diagnostics for an earlier file, and a finished package reload is committed
  without `cancel_analysis`. Such a write waits for queued snapshots; if the channel is full and
  every worker is blocked in `send`, nothing moves (`LoopAlwaysDrains`).
* `RequestsAnswered` again (`handlers/notification.rs:85`). A `didChange` of a document the server
  does not know commits it without `cancel_analysis`. The write unwinds the running analyses of
  requests that nobody cancelled, and those are never answered (`Unwound`).
* `LeakOnlyIfAmbiguous` (`drop_elaborate/elaborate.rs:153`). A local moved on one branch only and
  afterwards not used, or stored over as a whole, is accepted, and on the other branch its value
  is never destroyed.
* `RightUnlessMixed` (`linker_elf.rs:66`). The layout's `binary_hash` is not compared with the
  executable that the build state names. After a crash between the two writes, or after a build
  with debug information and an undone edit, a build reuses an executable of other sources
  (`NeverWrong` fails).

One more has no exception variable. The header of `worker_scheduler/pool.rs` says that nested
work "always executes inline (self-help)". `submit` does that; `try_submit` called from a worker
queues the task whenever there is room, and a worker that then waits for it can wait forever.
`NobodyBlocksForever` excepts exactly this wait.

## Proofs

Eight modules hold theorems that TLAPS checks. Each is about the specification that TLC runs,
without its fairness, and for every value of the constants that satisfies the named assumption of
its module. The pattern is the same everywhere: an invariant `Inv` that contains the property,
`Init => Inv`, one lemma per action for `Inv /\ Next => Inv'`, and a last step in temporal logic.
The property alone is seldom inductive; below is what had to be added, and why.

| Module | Theorems | What they state |
|--------|----------|-----------------|
| `PhaseLockProofs` | `TypeCorrect`, `Exclusion`, `ReleaseSucceeds`, `ReentryNeverParks`, `WaitersKept`, `ReadersNeverOvertake` | types, `MutualExclusion`, `GuardReleaseSucceeds`, that a thread never waits for itself, `NoLostWaiter`, that no reader enters past a queued writer |
| `PhaseFairnessProofs` | `OvertakenAtMostOnce`, `LockRefines` | `BoundedOvertaking`, `ImplementsRwLock` |
| `ParallelFoldProofs` | `SuccessIsComplete`, `ErrorIsLowest`, `FoldIsStructured` | `SuccessMeansAllChunks`, `LowestErrorReported`, `NothingRunsAfterReturn` |
| `NativeThreadProofs` | `UnloadedIsQuiet`, `ClaimedOnce` | `NoCallbackAfterUnload`, `OneClaimant` |
| `GenArenaProofs` | `SlotsKept`, `HandlesNameOneValue` | `NoSlotLost`, `ImplementsHandleSet` |
| `ReactorProofs` | `NoWakeLost` (of `Waker`), `ReactorLosesNoWake`, `RegistrationsOwn`, `WakesOnce`, `SleepsTimed` | `NoLostWake` twice, `RegistrationsReachTheirOwn`, `OneWakePerRegistration`, `SleepTimed` |
| `DaemonProofs` | `AnswersAreFresh`, `BuilderOutlives`, `OneDaemonBuilds` | `FreshAnswer`, `BuilderOutlivesJobs`, `OneBuilder` |
| `IncrementalProofs` | `RightResults`, `ObjectsStay` | `RightUnlessMixed`, `ObjectsHeld` |

* `PhaseLockProofs`. The lock's counter and queues have to be tied to the threads: the count is
  the number of guards owned (`CountMatchesOwners`, a cardinality), the writer bit and the owner
  lists match the guards (`WriterMatchesOwner`, `OwnersMatchGuards`), the queues hold exactly the
  parked threads (`QueuesMatchParked`), and somebody who will leave is ahead of every waiter
  (`WaitersHaveBlocker`). Assumptions: threads are finite and none is the "no owner" value,
  the counter's limit and the guards per thread are numbers.
* `PhaseFairnessProofs`. `LockSteps` says what a step does to the lock in terms of who enters and
  who leaves. `Turns` refines the two counts: a queued reader has been passed once only if a
  writer is inside, and never otherwise; for the first writer the other way round. The
  refinement maps a step to the step of `RwLock` that `LockSteps` names, or to a stutter.
* `ParallelFoldProofs`. `Taken` (chunks below the counter, and no other, were taken), `Ended` (an
  executor stopped because it ran out of chunks, saw the stop flag, or failed), `Phases` (which
  executors exist when the caller is where) and `Promises` (what the caller has collected).
  From `Ended`, a chunk that nobody ran has an index above a failed one. Assumption: an error
  code is an integer other than the code of success; markers are not integers.
* `NativeThreadProofs`. The unload waits for the threads in the table, and a spawner puts its
  child there only after the child runs. `Started` closes the gap: a running child that is not in
  the table is held by its spawner, which runs too and has a smaller id. So the
  running child with the smallest id is in the table or was spawned by the owner. `Claimed` and
  `Joins` say who may take a row away.
* `GenArenaProofs`. `StackOK` on both levels (free stacks hold distinct, dead slots), `Known` (no
  issued handle is of a generation that its slot has not reached) and `Used`. The refinement
  maps the live slots to the live handles of `HandleSet`; reuse issues a fresh handle because
  its generation is larger than any issued for the slot.
* `ReactorProofs`. For the wakers: a thread inside a call has a waker that was created, and only
  sleepers are notified. For the reactor: who has the lock (`Locked`), which socket a descriptor
  is (`Files`), that the kernel watches only open descriptors with a registration (`Watched`),
  what a call remembers of its socket (`Named`, `Pending`), that a registration that woke has
  no interest left (`Once`), and who owns the timer (`Armed`).
* `DaemonProofs`. `Owner` (the lock's holder is the one live daemon and its builder lives inside
  it), `Lines` (what each connection waits for), `Backlogs`, `Held` (a job is in one place
  and its client waits unanswered or is gone), and `Covered`, the heart: the inputs of a
  started build were read after every job of its group was sent, so joining is safe only
  before the read. Assumptions: finite sets, markers outside them, limits are numbers.
* `IncrementalProofs`. A layout lists the units of its executable (`Described`), because a patch
  replaces just the units that were compiled anew and needs all others to be the layout's, no
  fewer and no more (`PatchedIsVersion`, which is where the comparison of the two lengths
  counts); so what is
  published is right in any state of the files, and only the reuse of an executable is in
  doubt. `Together`: without faults and debug builds, layout and build state name one
  executable unless some process has replaced one and not yet the other; that process is inside
  the cache's lock, and so is a process that chooses (`Own`, `OneInside`). Assumption: a
  version maps a finite set of functions to their text, and "none" is neither a process nor an
  executable.

### What is only model-checked

* Liveness: `WaiterAdmitted`, `ConsumersServed`, `NobodyBlocksForever`, `FoldReturns`,
  `UnloadEnds`, `CallsReturn`, `RequestsAnswered` and `RequestsEnd` rest on fairness, which the
  prover does not handle.
* `WorkerPool`: `TaskInOnePlace` and `DropDrains` count occurrences in queues and stacks of any
  length; that needs induction over sequences.
* `Condvar`: `NoLostWakeup` weighs waiters, notifies under way and items against each other; an
  inductive invariant counts over several sets at once.
* `Ownership`: the analyses are work-list algorithms, written with recursive operators.
* `Supervisor` and `LspScheduler`: `NoOrphan`, `SingleReply`, `SnapshotsReachable` and
  `RetiredBeforeCommit` are safety properties that no theorem states yet. Their models filter,
  join and order sequences, of which the prover knows too little as they stand.

## What is not modelled

* Compiler passes other than the ownership analyses: lexer, parser, formatter, resolution, types,
  lowering, optimisation, code generators. They are sequential, and their inputs are beyond
  enumeration. The query database is salsa, a library; its rule for writes is in `LspScheduler`.
* The package cache and the project lockfile: publication by staging, flush and rename under a
  file lock, as in `Incremental`; the trees they publish are not modelled.
* Compiler-managed references: a vector on one thread, with tokens that are never used again.
* The executor and channels of the standard library, which run on one thread, and thin layers
  over atomics and over the lock.
* UDP, files, processes, environment, clocks, conversions, the test runtime: system calls behind
  handle tables like the wakers'. Of TCP sockets, reads, writes, waits and handle generations.
* Of the reactor: the table of reactors, recovery from poisoned locks, the portable backend, a
  poll without time limit when only fired registrations are left, and the rounding of
  deadlines to milliseconds. Of the wakers: spurious wakes of the condition variable.
* Of the supervisor: the table of supervisors and command lines.
* Of the language server: shutdown, the discovery thread, progress messages, what answers say,
  watching files and the timing of edit buffers.
* Of the daemon: the encoding of frames, the check of the peer's owner, the memory ceiling, and
  what a build does (that is `Incremental`).
* Of builds: release, LLVM and Wasm builds, which have directories of their own, the trust in
  files unchanged within one process, compiler artifacts, and `clean` during a build.
* Of the ownership analyses: several locals at once, block parameters, owned strings, destructor
  functions, arrays and indirect drops.
