# Verification of the compiler's concurrent machinery

The repository is a fork of the Rust compiler and its library that compiles to
zkLLVM circuits. Nearly all of it is sequential transformation of data. What is
hard to test is the machinery in which threads, processes and messages meet:
the code generation pipeline, the directories of the incremental cache shared
by compiler processes, the query engine and its dependency graph, and the locks
of the library. This project models these in TLA+, checks them with TLC and
proves with TLAPS, for any number of threads, processes, units and queries, the
safety of the pipeline, of the session directories, of the locks, of the query
jobs and of incremental evaluation.

| file | what it is |
|------|------------|
| `CodegenCoordinator.tla` | the code generation pipeline of `rustc_codegen_ssa` |
| `CodegenCoordinatorProofs.tla` | types, handshake, counters, tokens, proved |
| `CodegenOutcomeProofs.tla` | errors, aborts, LTO and assertions, proved |
| `CodegenUnitsProofs.tla` | no unit lost or compiled twice, proved |
| `MCCodegen.tla`, `MCCodegen*.cfg` | its instances for TLC |
| `SessionDirs.tla` | the session directories of `rustc_incremental` |
| `SessionDirsProofs.tla` | locks, copies, errors, survival of the cache, proved |
| `MCSessionDirs.tla`, `MCSessionDirs*.cfg` | its instances for TLC |
| `Futex.tla` | the futex system call and the state of a thread in a lock |
| `FutexMutex.tla`, `FutexCondvar.tla`, `FutexRwLock.tla`, `FutexOnce.tla`, `FutexParker.tla` | std's locks, one module each |
| `FutexLocks.tla` | threads that use them; the properties |
| `SharedLock.tla` | what a lock promises: readers together or one writer |
| `FutexControlProofs.tla` | where threads of the locks can be, proved |
| `FutexLocksProofs.tla` | the locks' invariants and refinements, proved |
| `MCFutexLocks.tla`, `MCFutexLocks.cfg` | its instance for TLC |
| `QueryJobs.tla` | jobs, latches and deadlock handler of the query engine |
| `QueryJobsProofs.tla` | jobs, latches and wake-ups, proved |
| `MCQueryJobs.tla`, `MCQueryJobs*.cfg` | its instances for TLC |
| `DepGraph.tla` | red-green marking and incremental evaluation |
| `DepGraphProofs.tla` | reuse is sound, nothing unneeded runs, assertions hold, proved |
| `MCDepGraph.tla`, `MCDepGraph*.cfg` | its instances for TLC |
| `PROJECT.json` | components, runs, mutants, the map from definitions to code, findings, hazards, theorems |

## Inventory

**Code generation pipeline** (`rustc_codegen_ssa/src/back/write.rs`,
`src/base.rs`). The main thread translates codegen units one by one, on a
signal of the coordinator thread, which queues the modules, spends the tokens of
the jobserver on LLVM worker threads, lends them the process's implicit token
while the main thread is idle, starts LTO when all is translated and optimized,
and winds everything down after an error. State: the coordinator's queue,
tokens, counters, `CodegenState`, `MainThreadState` and result vectors; the
channels between the threads; the workers. Hard: every order of tokens, results
and answers; failure of any participant at any point; termination without any
token. Correct when: the counters are exact, parallelism is within the tokens,
each unit ends in exactly one object, LTO waits for all, errors reach the user,
every session ends.

**Incremental session directories** (`rustc_incremental/src/persist/fs.rs`,
`rustc_data_structures/src/flock`). Compiler processes copy the newest finalized
directory, work in a private one, publish it by a rename and collect garbage.
State: names of directories, lock files, file locks. Hard: all of it runs
concurrently in processes that may be killed, on scans that are stale when used.
Correct when: nobody deletes what is in use, what was published remains, failed
sessions are not published, nothing waits for ever.

**Query engine** (`rustc_query_system/src/query`). Threads execute queries,
wait on each other's latches, poison them when they unwind; a deadlock handler
breaks cycles among waiting threads, notifying one waiter after the other while
the others go on. Correct when: a query is executed once, no wakeup is lost, a
poisoned query ends its waiters, each cycle is found and broken once.

**Dependency graph** (`rustc_query_system/src/dep_graph`). Nodes of the previous
session are marked green or red and promoted to the current one by several
threads. Correct when: a green result equals the one a re-execution would give,
side effects happen once, promoted edges exist.

**std futex locks** (`library/std/src/sys/unix/locks`, `sys_common/once`,
`sys_common/thread_parking`). Correct when: mutual exclusion holds and no wakeup
is lost.

**std channels** (`library/std/src/sync/mpmc`), **obligation forest**
(`rustc_data_structures/src/obligation_forest`), **test harness**
(`library/test`): state machines of their own, smaller.

**Everything else** (parsing, expansion, resolution, type checking, borrow
checking, MIR, const evaluation, monomorphization, metadata, lints, backends,
the field and curve types, bootstrap, tools): sequential and without a protocol;
`PROJECT.json` lists each with the reason it is left out.

The components meet as follows: the main thread of a session opens a session
directory, the query engine computes on top of the dependency graph loaded from
it, codegen reuses the units the graph finds green and saves their work products
into the directory, and the session ends by publishing it.

## Plan

Modelled and checked: the pipeline, the session directories, the futex locks
with the abstract lock they implement, the query jobs, the dependency graph.
Proved: every safety property of the pipeline, of the session directories and of
the locks and of the dependency graph that a passing run checks, the locks'
refinements of `SharedLock`, and what the query engine promises except for what
its search for cycles finds.

Next: channels and the obligation forest.

## The code generation pipeline

`CodegenCoordinator` has the threads as program counters: `mpc` for the main
thread from `codegen_crate` to `OngoingCodegen::join` or unwinding, `cpc` for the
coordinator, `running` for the workers. A unit is a model value, a module the
set of units it was made of, a work item an operation on a module. What the
session decides (LTO mode, rlib, linker LTO, `-Zcombine-cgu`, serial backend,
allocator shim, units, upstream modules) is the record `conf`; which units can be
reused is `green`, chosen from what an earlier session can have left
(`PossiblyGreen`). Under incremental fat LTO every input is serialized, the
merged module takes the name of the first one, and upstream modules come first:
with an upstream module there is no unit's work product and no unit is green,
without one at most one unit is.

The coordinator alternates between `Turn`, everything up to `recv`, and
`Handle`, the handling of one message. Messages of the main thread come through
`inbox` in order; those of a worker and of the jobserver's helper are sets
(`finished`) and counters (`requested`, answered in `TokenAcquired` and
`TokenFailed`): a worker sends one message as its last act and the helper does
nothing but send, so every order of arrival is an order of sending. A worker ends by success, by a failed copy, by a fatal
error whose diagnostic was sent before, or by a panic. A failed assertion,
`bug!` or unchecked subtraction of the coordinator ends it with an `exit` that
names it, so assertions can be stated as invariants.

The main thread may unwind wherever it translates: in a unit it was signalled for
(`CodegenCguFails`) and in the first batch that a parallel compiler translates
before it waits for the first signal (`PrepareCgusFails`, base.rs 668-710). In
the second case the coordinator may be about to signal, and then it panics with
"Could not send CguMessage to main thread" (write.rs 1344-1346), the receiver
being gone. `HandshakeAsserts` admits this panic, and only when the main thread
has unwound before it handed over any unit; after that the panic is unreachable,
because an unwinding main thread was `Codegenning` in the coordinator's eyes.

The queue is a set with costs. The code keeps a vector sorted by cost; ties are
broken by wherever binary search puts an item, so `Popped` allows any.

Left out: worker identifiers, timing and profiling; what LLVM does; file names.
The main thread of a parallel compiler translates a first batch of units before
its first wait; that phase ("prepare") is not counted by `ParallelismCapped`.

### Runs

* `codegen_safety`: invariants over ten configurations: each LTO mode with two
  units and the shim, the serial backend, combined units, an rlib, linker LTO,
  no code, and three units. Two units of different cost and the shim are the
  least with which the queue holds several items while one worker runs on the
  implicit token and one on its own and a unit is translated; two tokens are
  enough for a token too many; three units let the queue hold two items while
  two workers run. Deadlock is checked, with `Terminated` for the end
  (1.2 million states).
* `codegen_liveness`: `Termination` for the modes without LTO, with thin LTO and
  with combined units, one token.
* `codegen_combine`, `codegen_import`: what assertions of the code say and the
  code does not keep; see the findings.

Fairness is weak fairness of each thread's steps: the operating system runs
threads that are not blocked, and an item's LLVM work ends. Nothing is assumed
of the jobserver, whose tokens may never come, nor of failures.

### Proofs

Assumptions: `Cgus` and `Upstream` are finite and disjoint, the allocator is none
of them and costs nothing (base.rs submits it with cost 0), other costs and the
pool are natural numbers, the configurations are records of the right type.
Nothing bounds the number of units, tokens or workers.

`CodegenCoordinatorProofs`:
* `TypeCorrect`. The subtraction in `FreeWorker` keeps `own` natural only
  because a worker that ends was counted, so types alone are not inductive.
* `HandshakeCorrect`: at most one of a signal, a translation and an answer is
  under way, and each implies that the coordinator has the main thread
  `Codegenning` (`HandshakeInv`, with `InboxShape` for what the inbox can hold).
  The signal may also be ahead of the main thread's first wait, and stay unread
  if that thread unwinds first (`AheadOfWait`); then no unit has been handed over
  (`NoneHandedOver`), which is what the exception in `HandshakeAsserts` needs.
* `AccountCorrect`: an item is in one place only (`ItemsInv`), tokens held cover
  the workers counted on them (`TokenInv`), and the counters equal the workers
  not yet heard from (`WorkerAccounting`). The three need each other: popping
  items adds as many workers as items only if those are not running already.
* From these `AccountingCorrect`, `ParallelismCorrect` and `RequestsCorrect`
  (every queued item has a token request behind it).

`CodegenOutcomeProofs`:
* `ErrorCorrect` and `ErrorsReachMainCorrect`: whatever aborts codegen has told
  the emitter before, or is the main thread, so `join` never meets a failed
  coordinator without a diagnostic.
* `AbortCorrect`: an action property, from the type invariant and the guards.
* `ResultCorrect` (`ResultInv`: results come from work done, flavours of LTO do
  not mix, once LTO has started nothing is left that would start it again),
  from it `LtoBarrierCorrect` and `AssertsCorrect`.

`CodegenUnitsProofs`:
* `EndCorrect` (`EndInv`): a coordinator that returns `Ok` leaves nothing queued,
  running, uncollected or unread and no unit to translate; a missing object has
  been reported; a session that succeeded had no report.
* `UnitsCorrect` (`UnitsInv`): while codegen goes well the code of each unit is in
  one place. A unit moves from `todo` over inbox, queue, workers and results to a
  vector, and one lemma (`Moved`) says what every such step has to show. That the
  inbox holds one message makes answers arrive where they were sent;
  `ResultInv` keeps a unit out of the vectors of both flavours when LTO starts;
  `EndInv` keeps the main thread from sending a unit to a coordinator that is
  gone.
* From these `UnitsConservedCorrect` (places counted) and `SuccessCorrect`: when
  `join` succeeds each unit is in exactly one compiled module.

Only model-checked: `Termination` (liveness). The findings are violations and
concern TLC alone.

## The session directories

`SessionDirs` numbers directories by their timestamps and models the file
system's calls as the atomic steps, among them opening and locking a lock file
separately. Locks are those of flock(2) on Linux: owned by the open file,
taken without waiting, gone with the process. Each process goes through
`prepare_session_directory`, garbage collection, compilation,
`finalize_session_directory` and garbage collection again. How old a directory
of this run is when a collector looks is open (`IsOldEnough`), since a
compilation takes any time; leftovers are old.

`Crash` ends a process at any point. `MaxFaults` bounds the crashes and I/O
errors of a behaviour; one is enough for each failure path on its own. With two,
a session with errors whose directory and lock file both resist removal is
published, so `ErrorsNeverCopied` is stated for at most one fault. `MaxId` bounds
allocations, and `SessionsEnd` would fail if it ever stopped a process.

Both removals of a directory last, since `remove_dir_all` goes file by file: that
of a directory whose lock the collector took (`gcDeleting`), and that of a
finalized directory without a lock file, which takes no lock (`GcGarbage` begins
it, `GcRemove` ends it). `NoCopyUnderDeletion` sees both. The first never meets a
copy. The second can, in one way: a publication overtakes a collection, which
removes the lock file of the new directory (the finding `session_overtaken`); a
process that had opened that lock file still locks it and copies, and a third one
finds the directory without a lock file and removes it. The property says that
this is the only way, and the run's mutant, a copy that does not check its lock,
breaks it.

Abstracted: the scan is atomic (see the hazard at `read_dir`), timestamps are
distinct and increase, the contents of directories are reduced to "removal was
begun". The wait loop of `rename_path_with_retry` is one attempt.

Lock files whose directory is gone are left to their fate, as in the code: the
collector wants to delete them, but it looks for them with `extract_timestamp`
applied to their own names, which fails (fs.rs 679-692), so they stay for ever.
They cost a name each and disturb nobody.

### Runs

* `session_dirs`: two processes, a finalized directory and a killed session's
  working directory before them, one fault, processes symmetric. Two processes
  are the least with which copying meets deleting and two collections meet;
  with the leftovers there are four generations (1.8 million states). The copy
  that meets the removal of a directory without a lock file needs three
  processes. An instance with three on an empty cache, `MaxId` 3, no faults and
  symmetry reaches it: there `NoCopyUnderDeletion` without its exception fails
  after 186 thousand states, and with it all invariants hold over all 12.2
  million. That takes TLC longer than the other runs together and is no run of
  the project; `CopiesUndisturbed` is proved for any number of processes.
* `session_dirs_end`: termination from an empty cache with one fault. Each
  process may start from the other's result.
* `session_overtaken`: see the findings.

Processes stop when their session is over, so deadlock is not checked;
`SessionsEnd` covers it. Fairness is weak fairness of each process: none of its
calls blocks.

### Proofs

Assumptions: finitely many processes (`ProcsAssumption`), leftovers of any number
and kind that fit below `MaxId` (`LeftoverAssumption`), a natural number of faults
(`FaultsAssumption`). `SessionDirsProofs` has:
* `SessionInvariant` (`SessionInv`): who holds which lock. A session holds its own
  directory's lock from `lock_directory` until it ends, a collector the locks of
  what it will remove. `OwnDirKept` is not inductive because a collector acts on
  a scan that is stale: the invariant says what remains true of a scanned entry,
  that a directory seen as final never is a working one again (`Past`), and that
  a lock file found missing stays missing.
* From it `SessionTypes` and `SessionKeepsDir`: nobody removes a directory a
  session works in.
* `CopiesUndisturbed` (with `LocklessInv`): a directory that is copied from is
  under nobody's removal, unless a publication has overtaken a collection and the
  removal is that of a directory without a lock file. `LocklessInv` says that
  unless overtaken no directory that a collector saw without a lock file is
  picked or copied.
* `ErrorsStayPrivate` (`SourceInv`, `ErrorsInv`): with at most one fault, a
  directory with errors that became final has no lock file, and whoever picked it
  as a source will fail to lock it.
* `CacheKept` (`CacheInv`): whatever has been final, or is still known as final to
  some collector (`Known`), has a usable directory at or after it that no
  collector has marked for deletion (`Doomed`). The second half is what survives
  a deletion; the first must range over what collectors remember, since
  `all_except_most_recent` compares those.

Only model-checked: `SessionsEnd` (liveness) and the finding.

## The futex locks

`Futex` has a thread's program counter (`pc`, the next access to a shared word),
the local variables of the function it is in (`loc`) and the wait it sleeps in
(`asleep`). The five lock modules extend it, each with its own words, one action
per atomic access of the source; spinning is one load, since a load that sees
nothing new changes nothing. The condition variable uses the mutex's actions for
`unlock` and `lock`, as the code does. `FutexLocks` puts them together: `Init`
chooses a program, the operations of every thread; the loops around `wait` and
`park` are those the documentation of the locks asks for, and they are external
to the repository's code.

Faults: a signal that interrupts `futex_wait`, timeouts, returns for no reason,
`compare_exchange_weak` failing on an equal value (the last two bounded by
`glitches`), a closure of `Once` that panics, a `futex_wake` that does not tell
whether it woke somebody (`tells`). The words are sequentially consistent; memory
orderings are not modelled.

Bounds: `U32Size` 16 for the condition variable's and the writers' counters, so
that they do not wrap within a program: a wait that misses exactly 2^32
notifications is a risk the code accepts. `MASK` 3 for the reader count, so that
two readers reach `MAX_READERS` and a third panics.

The run `futex_locks` shows that Mutex (through Condvar too) and RwLock implement
`SharedLock` by the mapping of holders in `MutexIsLock` and `RwLockIsLock`, that
no wakeup is lost (`AllFinish`; for the mutex also the invariant
`MutexWakeupOwed`, the argument of the comment in `unlock`), that the reader
count is exact, that the debug assertion of `read_unlock` holds, that `Once` runs
one closure and passes poison on, and that `park` finds the word as it relies on.
Fairness: a thread that can take a step is scheduled and a timeout expires;
signals and spurious returns are owed to nobody.

### Proofs

Assumptions: finitely many threads and a counter of at least three values
(`FutexAssumption`), a reader mask above one (`RwLockAssumption`), programs made
of the operations of the modules in which only one thread parks, which `park`
assumes (thread_parking/futex.rs:42) (`ProgramsAssumption`). Nothing bounds
threads, programs or spurious failures.

* `ControlInvariant` (`Control`, in `FutexControlProofs`): at which access a thread
  can be, what its locals hold, on which word it can sleep. It needs no lock's
  protocol, and it lets the proof about a lock look at that lock's steps only.
* `MutexInvariant`: the word is unlocked only when nobody holds the mutex, holders
  are one, and sleepers are owed a wake-up. `MutexOwesWakeup` is a part of it,
  `MutexRefinesLock` follows, steps through `Condvar::wait` included.
* `RwInvariant`: the count in the word, readers and writers exclude each other,
  and a thread about to add a reader saw a word that allows one more. From it
  `ReaderCountsExact`, `ReadersBehindWriters`, `RwLockRefinesLock`.
* `OnceInvariant`: a closure runs exactly while the word says running or queued,
  and its outcome is the word it leaves. From it `OnceInitialises`, `OncePoisons`.
* `ParkerInvariant` and `ParkNeverNested`; `FutexTypes` from all of them.

Only model-checked: `AllFinish` (liveness).

## The query jobs

`QueryJobs` has threads with stacks of jobs, the map of active jobs
(`active`: vacant, started with a parent, poisoned), the cache, and a latch with
its waiters per job. A world, chosen in `Init`, says what every provider asks for
and in which order, which providers panic, which cycles are fatal, and whether
the build is parallel. Reading the cache, looking again under the lock,
registering with a latch, filling the cache, removing the job and signalling are
steps of their own.

Rayon, outside the repository, calls the deadlock handler when the last of its
threads blocks or goes idle (`CallHandler`, a part of that thread's step). A
call reads the map of jobs, tries the jobs as roots in any order (`RemoveCycle`,
with `CycleCheck`, the depth-first search of the code as a recursive function),
and then notifies its wakelist one by one (`Notify`), in an order that is left
open. A thread counts as blocked until it is notified, so Rayon may call the
handler again while an earlier call still notifies; `handlers` is the sequence of
the calls. A call made then is `late`: the earlier one may already have taken the
waiters of the remaining cycles off their latches, so it may find no cycle
(`assert!(found_cycle)`, job.rs:555), and any panic of the handler aborts the
process (job.rs:533-536). `EngineNeverFails`, `CyclesBrokenOnce` and `AllEnd` say
that nothing else goes wrong: each speaks of every call that is not late, and
excuses only the abort of a late one. The run `query_jobs_overlap` shows that the
abort is reachable with two separate cycles.

Two details of a late call are coarser than the code: its search of the waiters'
latches is one step per root, although the threads run meanwhile; and a
query that is missing from its map fails in `cycle_check`, as the unwrap of the
code does, while in `connected_to_root` it leads nowhere.

The eleven worlds of `query_jobs` share dependencies, panic, and form a ring, a
cycle with a tail, queries that ask for themselves once and twice, two separate
cycles and overlapping ones on up to four threads; two are serial builds (50
thousand states). Four threads are the least for two cycles at once. Fairness: a
thread that is not blocked runs, and so does each handler.

The run also makes visible what happens after a panic: a thread that waits for a
poisoned query panics with "value must be in cache after waiting", while one that
comes later raises the silent fatal error the documentation of `Poisoned`
speaks of; `WaitersFindValue` says that poison is the only way to get there.

### Proofs

Assumptions (`QueryAssumption`): finite sets of threads and queries, any calls
between queries, cycles included, any of them panicking or fatal, and one thread
with work in the serial build. The invariant `EngineInv` of `QueryJobsProofs`
(`EngineInvariant`) has five parts: `Types`; `Jobs`, that a job on a stack is there
once and that cache and map say of it what its stage implies; `Queried`, that a
query started is cached, active or poisoned, that an unset latch belongs to a job
on a stack and that its waiters are blocked on it; `Asking`, that a blocked thread
is registered and a resumed one finds its query over; `Woken`, that a thread on
the wakelist of a handler is blocked, has been given its cycle and is on that
wakelist only, so that no thread is notified twice. They need each other: that
no provider runs twice rests on the second look into the cache, which is of use
only because a job enters the cache before it leaves the map. Nothing depends on
what a deadlock handler finds, only that it resumes threads that wait, and the
proof covers any number of handlers at a time.

From it `EngineTypes`, `ProvidersRunOnce`, `WaitersAreServed`, `NoWakeupLost`;
`JobsFoundActive`, three of the engine's five assertions; `HealthyJobsEnd`,
that without panics and fatal cycles nothing is poisoned and no job is left.

Only model-checked: the handler's assertions in `EngineNeverFails`, the roots
being cached in `HealthyRunCompletes` and `CyclesBrokenOnce`, since all three
depend on what the recursion of `CycleCheck` computes; `AllEnd` (liveness).

Not modelled: a query that spreads its work over Rayon's threads. There the
resumed waiter need not be on the cycle found (the comment in `deadlock`).

## The dependency graph

`DepGraph` evaluates a program of queries in two sessions. A provider is a
decision tree: what it reads next depends on the values read so far. The
previous graph is what evaluating the program on the previous inputs gives; the
current session starts from it and from the cached results and diagnostics; the
reference, `scratch`, is the same evaluation on the current inputs without any
graph. Threads have stacks of calls: `mark` frames for `try_mark_previous_green`,
the others for `ensure_must_run`, `try_execute_query` and `execute_job_incr`. Each
access to the colours, to the two index maps, to the processed set and to the
caches is a step; a query active elsewhere is waited for, which `QueryJobs`
justifies. At the end `exec_cache_promotions` runs. Debug assertions are
included; those for the serial build only are not.

An anonymous node is named by what it depends on; a random seed makes its key
differ between sessions, so `promoted` and `fresh` may both have it.

The run `dep_graph` takes six worlds and, in each, every pair of values of two
inputs before and after: a change absorbed on the way, a read that depends on an
earlier one, anonymous queries with one and with two dependencies, a query
without result hash, and one whose key cannot be reconstructed. Two threads, and
three in the last, get and ensure the same queries. Results, edges, fingerprints
and colours are those of a build from scratch (`ResultsFromScratch`); nothing
runs that such a build would not ask for (`OnlyNeededRun`: this is why the edges
are ordered, and why a forced key still exists); the session ends with the same
diagnostics emitted and stored (`EndsAsFromScratch`).

`EngineNeverFails` has an exception, which the run `dep_graph_recolour` shows as a
violation of `TaskHasNoNode`, the assertion of `with_task`. A thread cannot mark
N green because a dependency D of N has no colour and cannot be forced, and
goes on to execute N. Another thread asks for D, which turns out unchanged, and
a third, asked to ensure N, marks it green. The first then fails the assertion in
`with_task`, whose comment (graph.rs:345) gives two other reasons for it to fail;
or, if it had passed it, the debug assertion on the colour or on the stored side
effects. The invariant says that this is the only way: a node that fails an
assertion depends on one whose key cannot be reconstructed.

### Proofs

Assumptions. `GraphAssumption`: finitely many threads and queries, roots that are
queries, anonymous queries that are neither inputs nor cached on disk nor with
diagnostics. `EvaluationAssumption`: for every program and all its inputs
`Session` satisfies its own equations (`IsSession`): every query takes the steps
of its provider on the values of what it reads, no query reads itself through
others, and the nodes are those of the queries. That a recursive function does
satisfy its equations is an induction over data that the provers cannot do, so
it is assumed; TLC evaluates it for every world and all inputs of the run. It
excludes programs whose queries form a cycle, which the compiler reports as an
error. Nothing bounds threads, queries, values, or what a provider reads.

`DepGraphProofs` argues in three parts.

* One session, from the equations alone: the edges of a query are the nodes of its
  reads in the order of the first reads (`TrailSet`, `TrailPrefix`), every node
  is the node of a query, and dependencies are nodes.
* Two sessions. An old node is wanted if a query that is still needed was recorded
  as it, and stable if it is a node of both sessions for the same queries with
  the same results. If a wanted node's dependencies before the i-th are stable,
  the i-th is wanted (`DepWanted`): its query reads it again. If all are stable
  the node is (`StableByDeps`). The two lemmas are why marking goes along the
  edges in order and why green is sound. An anonymous query with one dependency
  has no node of its own, so "wanted" and "stable" speak of all queries recorded
  as a node.
* The threads (`Inv`). Each frame of each stack has its own invariant: marking is
  about wanted nodes with all earlier dependencies green, a running query has
  seen and recorded a prefix of what it does in a build from scratch. `Linked`
  relates a frame to its caller, `JobsOK` says that each active query has
  exactly one job, so that what one thread knows of its query no other changes.

That no assertion fails needs more: a thread that decides to execute a query must
know that no other will mark its node green later. `Greens(c)` is the greatest
set of old nodes each of which is unchanged, or has all its dependencies in the
set. While everything below a node can be forced (`Clean`) its colour is decided
by membership in `Greens` before the session starts, whatever the interleaving;
`MustRun` is what the executing thread knows; of a node with an unreconstructible
dependency it says nothing, which is the exception in `EngineNeverFails`.

From `SessionInvariant` follow `GraphTypes`, `ReuseIsSound`, `NothingUnneededRuns`
and `AssertionsHold`. Only model-checked: `EndsAsFromScratch` (liveness).

Not modelled: `ensure` calls inside providers (threads ensure at the root) and the
`check_cache` branch of `ensure_must_run`, fed queries, diagnostics of anonymous queries (stored under the
node of their only dependency), the forced path after compile errors, hash
collisions.

## Findings

* `codegen_combine`: with `-Zcombine-cgu` and an incremental cache, a reused unit
  and one to be linked meet and an assertion fails (write.rs:1551).
* `codegen_import`: codegen aborted between signal and answer, a reused pre-LTO
  module as the answer: `assert_eq!(codegen_state, Ongoing)` fails
  (write.rs:1589) and the coordinator panics instead of winding down.
* `session_overtaken`: a directory published between a collector's scan and its
  lock loses its lock file, and with it the newest cache is lost.
* `query_jobs_overlap`: two cycles, and the threads of the first come to a stop
  before the waiter of the second is notified: the handler is called again, finds
  no cycle, and its assertion aborts the process (job.rs:555; the FIXME at
  job.rs:558 fears as much).
* `dep_graph_recolour`: a node that one thread could not mark green and executes
  is marked green by another meanwhile, and the assertion that the node does not
  exist yet fails (graph.rs:350).

## Out of reach

Liveness under fairness stays with TLC. What definitions by recursion over data
compute would need induction. For `CycleCheck` the proofs treat the result as any
value of its type; for the reference evaluation of `DepGraph` they assume that it
satisfies its defining equations, which TLC evaluates on the worlds of the run
(`EvaluationAssumption`). The semantics of LLVM, of the type system and of
field arithmetic are not modelled.

## Not modelled

The map covers a small share of the repository, because most of the repository
is sequential transformation without state that outlives a call; `PROJECT.json`
lists every such part with its reason. Of the parts with a protocol, the channels
of `std::sync::mpmc`, the obligation forest and the test harness are left.
