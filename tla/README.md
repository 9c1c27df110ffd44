# MIOpen: databases, Find calls, tuning and fusion plans

MIOpen chooses, for every convolution, among many solvers and, for some of them,
among many performance configs. What it has learned is kept in databases in the
user's directory, which any number of threads, handles and processes read and
change at the same time; what it has built is kept in the memory of each handle
and in a database of compiled programs. This directory models that part of the
library: the lock of a database file, the text database and its copy in memory,
the performance database, the search that fills it, the Find calls that rely on
both, and fusion plans, which share the kernels of a handle. The numerical code
is not modelled: it has no protocol and no shared state other than these.

Paths below are relative to the repository: `src/` is its library directory,
`include/` its public headers, `doc/src/` its documentation.

## The system

| component | source | state | operations | modelled |
|---|---|---|---|---|
| LockFile | `src/include/miopen/lock_file.hpp`, `src/lock_file.cpp` | one object per path and process: a `std::shared_timed_mutex` and an fcntl file lock | `try_lock_for`, `try_lock_shared_for`, `lock`, `unlock`, `unlock_shared` | partly |
| DbRecord, PlainTextDb | `src/db.cpp`, `src/db_record.cpp` | a text file, a line per key; a temporary file while a line is replaced | FindRecord, StoreRecord, UpdateRecord, RemoveRecord, Remove | yes |
| RamDb | `src/ramdb.cpp` | the same file; `<database>.time`; in each process a copy and the time it was read | the same, and GetCached | yes |
| Find-db | `src/find_db.cpp`, `src/include/miopen/find_db.hpp` | the record of a problem while a Find is running | TryLoad, Validate, the destructor that stores | partly |
| Find calls | `src/ocl/convolutionocl.cpp` | none of its own | FindConv*Algorithm, the immediate calls | partly |
| InvokerCache | `src/invoker_cache.cpp` | per handle and problem: the built invokers, and for every algorithm the found one | Register, SetAsFound1_0, two lookups | yes |
| ReadonlyRamDb, MultiFileDb | `src/readonlyramdb.cpp`, `src/include/miopen/db.hpp` | the installed databases, read once, and the user's in front of them | FindRecord, Load, Update, Remove | partly |
| SQLite performance database | `src/sqlite_db.cpp`, `src/include/miopen/sqlite_db.hpp` | an SQLite file with the tables config and perf_db | Load, Update in two statements, Remove, with retries | partly |
| Solution search | `src/include/miopen/find_solution.hpp`, `generic_search.hpp` | a search in progress | load, search, update | partly |
| KernelCache | `src/kernel_cache.cpp` | programs and kernels of a handle | AddKernel, GetKernels, ClearProgram; ClearKernels, HasKernels | partly |
| Binary cache, KernDb | `src/binary_cache.cpp`, `src/include/miopen/kern_db.hpp`, `src/hipoc/hipoc_program.cpp` | compiled code on disk | LoadBinary, SaveBinary | partly |
| Fusion API | `src/fusion.cpp`, `src/mdgraph.cpp` and their headers | a plan: its operators, its paths through the metadata graph, the names of its kernel, its arguments | AddOp, SetConvAlgo, Compile, Execute | partly |
| Find controls | `src/find_controls.cpp` | none: read once per process | FindEnforce, the find modes | partly |
| Handle lock, temporary directories | `handle_lock.hpp`, `src/tmp_dir.cpp` | | | no |
| Solvers, kernels, numerical operations | the rest of `src/` | | | no |

How they interact. A Find of a handle asks the user find-db, a RamDb, for the
record of its problem. If every solver the record names has its invoker in the
handle, the record is the answer. If not, every solver is asked for a solution
(`FindSolutionImpl`): a tunable one takes its config from the performance
database, or searches for the best one, which it stores there, or uses its
heuristic one. A search compiles the programs of all its configs at once, on
threads of its own, into the database of programs, from which the handle loads
them one after the other. Then all algorithms are measured, the best solver of
each is registered in the invoker cache, and the destructor of the record
object stores the result in the find-db. `ConvolutionForward` then takes an
algorithm from the caller and runs the invoker that the invoker cache names as
found for it. RamDb inherits from PlainTextDb, whose file it reads and writes;
both take the LockFile of the database for every operation. The lock pairs a
mutex, because fcntl locks do not order threads of one process, with an fcntl
lock, because a mutex does not order processes. A fusion plan walks through a
graph of what can be fused and puts one kernel into the kernel cache of a
handle, which it shares with all other plans of that handle; its convolution is
chosen by the same solvers.

What is hard here:

- *interleaving*: threads and processes use two locks with different scopes; an
  fcntl unlock by one thread is an unlock for its whole process; two processes
  tune one problem, and other clients come between the statements of an update;
- *staleness*: each process answers from a copy, whose age is compared with a
  time that others write, in a file of its own and after the change; a config in
  the performance database may come from a version for which other configs are
  valid; a plan finds a kernel that another plan has made;
- *crashes and failures between steps*: the file is removed before its
  replacement is renamed; the time file is emptied before it is written; a
  destructor stores what a failed evaluation has left; a program that does not
  compile ends the process from a thread nobody guards;
- *deadlines*: all waits of the databases have one, and a timeout must give
  back what was taken before it, or ends a search in the middle;
- *two sources of one answer*: what a Find reports comes from the shared
  record, what runs comes from the cache of the handle.

What makes each component correct: LockFile, that an exclusive section is alone
and nothing is left behind by any attempt; PlainTextDb, that its operations are
atomic and that an operation on one key never changes another; RamDb, that it
is the same atomic store although everybody reads a copy; the performance
database, that two tables and two statements are one store; the search, that
only what was measured is stored and only what is valid is used, that the
fastest is kept and that nothing is searched twice; the Find calls, that
whatever is reported can be run, with the workspace that was reported; fusion,
that a compiled plan runs a kernel of its own operators with the arguments this
kernel expects. The list of everything in this code that tests hardly reach is
under `hazards` in `PROJECT.json`, each at its line.

## The modules

| module | what it is |
|---|---|
| `ReadersWriterLock` | abstract: a readers-writer lock for all threads of all processes |
| `LockFile` | the lock of a database file, step by step |
| `RecordStore` | abstract: a map from keys to records, each operation at one instant |
| `DbRecord` | records: merging, erasing |
| `PlainTextDb` | the text database; takes its lock steps from an instance of `LockFile` |
| `RamDb` | the text database with copies |
| `InvokerCache` | the entry of one problem in the invoker cache of a handle |
| `FindDb` | Find and the immediate calls, over `InvokerCache` and a shared record |
| `ValueStore` | abstract: a map from problems and solvers to values, in front of an installed one |
| `PerfDb` | the performance database, statement by statement |
| `Tuning` | what happens between the two: solutions, searches and their programs; takes its statements from an instance of `PerfDb` |
| `KernelCache` | the kernel map of a handle |
| `Fusion` | fusion plans, over `KernelCache` |
| `LockFileProofs`, `PlainTextDbProofs`, `RamDbProofs`, `FindDbProofs`, `PerfDbProofs`, `TuningProofs`, `FusionProofs` | theorems about the seven; `TuningProofs` uses those of `PerfDbProofs` |
| `MC*` | instances for TLC, each with its configurations |

### LockFile

`writer[p]` and `sharers[p]` are the owners of `access_mutex` in process `p`,
`flock[p]` what the kernel holds for it, and `pc[t]` how far thread `t` is in a
member function. `try_lock_for` is `TryLockFor`, then `MutexAcquired` or
`MutexTimeout`, then `FlockAcquired` or `FlockFailed`, and `unlock` is
`UnlockFlock`, `UnlockMutex`; the shared functions correspond. `lock()` is
`std::lock` of the pair, which takes one and tries the other; the order in which
it starts over is the library's, hence free; when the file lock throws, the mutex
is given back and the exception passed on (`LockThrows`). The rules of the kernel are in
`FlockFree`, `FlockShareable` and `SetFlock`: only other processes conflict, and
a lock or unlock of one thread changes the hold of its whole process. `Crash`
ends a process at any point.

Timeouts have no clock: a wait may time out whenever it cannot succeed at once,
and the file lock, which also fails by an exception, may fail at any time.

### PlainTextDb

A file is a sequence of lines, or `Missing`. An operation enters its section by
the steps of LockFile, reads, and leaves what is to be written in `call[t]`;
`FlushUnsafe` is then `AppendLine`, or `WriteTemp`, `RemoveFile`, `RenameTemp`,
or, when a file cannot be opened for writing, `Unwritable`. A crash may come
between any two of these. `Scans` are the positions that `FindRecordUnsafe` may
report for a key: the one of its line, or, when the file is there and cannot be
opened, none, as if the file were missing. An operation that goes on to write
with the wrong position puts its key into `misread`, which is auxiliary; the
lookup of FindRecord just answers that there is nothing. `Faults` says which
failures happen: `io`, `unreadable`, `crash`, and `replace`, a failure or death
between `std::remove` and `std::rename`. `MaxLines` bounds the file at which a
lookup may go wrong, since each time it may become longer.

### RamDb

`file` is the database as a map (PlainTextDb shows that its lines amount to
one), `time` the contents of `<database>.time`, `cache[p]` and `readTime[p]` the
copy of process `p` and its age. All operations take the exclusive lock, so one
process at a time is the `holder`; `LockFileProofs` shows this exclusion for
exactly this use. An operation is a first step, up to its change of the file,
and then the steps of `UpdateDbModificationTime`, of `UpdateCacheEntryUnsafe`
and of the copy, between which the process may die. Opening the time file for
writing empties it (`Truncate`) before it is written (`Stamp`); whoever reads it
empty compares with an uninitialized variable, so `Validity` is then any answer.
A text in a copy carries the set of ids whose values have got a line feed from
`WriteIdsAndValues`, because `Remove` makes them visible.

`stamped` and `rewritten` are auxiliary: no action reads them. `Faults` are
`crash`, `time_file`, `db_file` and `lost_file` (the loss that PlainTextDb
shows, seen from here). That a database which is there cannot be opened for
reading is left to PlainTextDb: here `Prefetch` would keep the old copy
(`src/ramdb.cpp:317`), and the lookup of the base class would overlook a record.

### FindDb and InvokerCache

One problem, any number of handles in any number of processes. `userDb` is the
record of the problem in the user find-db; RamDb refines a store with atomic
operations, so each operation on it is one step here. `call[h]` is the Find of
handle `h`: `FindConvFwdAlgorithm` reads the find-db, `Choose` and
`CompileForwardSolution` are the immediate path of the fast and hybrid modes,
`Load` and `Validate` are TryLoad, `EvaluateInvokers` measures one algorithm,
`EvaluationEnds` closes the evaluation or throws out of it, `StoreRecord` is the
destructor. Times are not modelled: any applicable solver may be the best of its
algorithm. `Applicable[h]` may differ between handles, since applicability
depends on environment variables and tools of a process.

### PerfDb and ValueStore

`config` and `perf_db` are the two tables of the user's SQLite file; a value
counts only if its problem has a row in `config`, which is what the join of
`FindRecordUnsafe` amounts to. SQLite serializes statements, so a step is a
statement, and an update is the two steps `InsertConfig` and `InsertValue`,
between which `op[c]` remembers it, other clients come, and the process may die
(`Die`). `Installed` is the system database of `MultiFileDb`, which only `Load`
asks, after the user's. A statement that stays busy beyond the deadline, or that
fails, throws: `LoadFails`, `RemoveFails`, `UpdateFails`. The loop over the rows
of a Load knows the codes ROW, DONE, ERROR and MISUSE; after any other it steps
the statement again (`LoadRepeats`). `answer[c]` is what an
operation returned, until it is used.

### Tuning

One handle per process, any number of processes. `call[h]` is how far a call of
handle `h` got: `todo` begins with the solver it works on, `chosen` are the
configs of the solutions so far, `rest`, `best` and `average` are the variables
of a search. `Clean`, `Load` and `SkipLoad` are the three ways into
`FindSolutionImpl`, by the value of `MIOPEN_FIND_ENFORCE` (`enforce[h]`); their
answers are used in `Cleaned` and `Loaded`. `Precompile`, `Measure`,
`MeasureFails`, `Score`, `ScoreFails` and `SearchFailed` are `GenericSearch`,
`Update` and `Updated` the storing of its result, `Drops` an exception that
reaches the loop over the solvers of an algorithm. `Evaluate` and
`PrepareInvoker` end the two kinds of calls.

A Load that is repeated is at `repeat`, from which `LoadAgain` leads on.

`binaries` is the database of programs and `loaded[h]` the program map of a
handle. `FailsToLoad` says when compiling or loading fails and what others may
have saved by then, and `FailsToTake` what AddKernel has put into the handle
before. On the threads of `PrecompileKernels` a failure is `Terminate`. With
`MIOPEN_COMPILE_PARALLEL_LEVEL=1`, or one core, there are no threads (`Inline`),
and the exception ends the search (`PrecompileFails`) or the call
(`EvaluateFails`).
`Dies` is the end of a process in whose place another comes, perhaps with
another environment. `proven`, the configs of a solver that some search measured
to its end, is auxiliary.

A config is opaque. What the heuristics choose, which configs are valid in which
process, the programs of a config and the times of runs are constants or
arbitrary; so is the order in which a search goes through its configs.
A Find is modelled from the point where the find-db had no hit; `record` is the
names in the find-db, which FindDb models in detail.

### KernelCache and Fusion

`KernelCache` has no state of its own: its operators are the functions of the
class on a map from keys to vectors of kernels. `Fusion` has one such map for
each handle. Of a plan it has the members that a call reads after another wrote
them: `op_map`, `is_valid`, `cur_vertex` (the ends of the paths with their
weights), `conv_algo_set`, `kernel_info_valid`, `algorithm_name`,
`network_config` and `arg_list`. A call is one step, since the library does not
let two threads use a plan. `AddOp` is `FusionMDGraph::Advance` with its sort,
whose order among equal weights is free. `Compile` has four ways: `CompileCached`
(the kernel of the heaviest path is there), `CompileNew`, `CompileNotBuilt` (the
compiler fails, after the plan was narrowed to one path) and `CompileNotViable`.
The graph, its edge weights, what a device supports and what a solver applies to
are constants. `requested` and `compiled` are auxiliary.

## What the runs show

A run whose property is violated checks that property only; it states what a
comment of the repository says, and the counterexample is a behaviour of the
code (`findings` in `PROJECT.json` quotes the comment).

| run | properties | result |
|---|---|---|
| `lockfile_safe` | `Exclusion`, `HolderOwnsFlock`, `NothingLeaks`, `AttemptsEnd`, `ImplementsReadersWriterLock`, `TypeOK` | hold |
| `lockfile_readers` | `Exclusion` | violated |
| `plaintext_store` | `NoDuplicateKeys`, `OthersUntouched`, `RemovedOnlyWithCopy`, `ImplementsRecordStore`, `TypeOK` | hold |
| `plaintext_lost` | `OthersUntouched` | violated |
| `ramdb_store` | `CopiesFollow`, `ImplementsRecordStore`, `TypeOK` | hold |
| `ramdb_faults` | `CacheCoherent` | holds |
| `ramdb_remove` | `RemoveKeepsOtherIds` | violated |
| `find_api` | `ReportedRuns`, `OwnRecordIsHit`, `TypeOK` | hold |
| `find_workspace` | `ReportedWorkspaceSuffices` | violated |
| `tuning` | `ValuesHaveProblems`, `SolutionsAreUsable`, `StoredWasMeasured`, `BestIsBest`, `Precompiled`, `NothingAccumulates`, `TunedOnce`, `CallsEnd`, `ImplementsValueStore`, `TypeOK` | hold |
| `fusion` | `KernelsAreSound`, `CompiledRuns`, `ArgumentsFit`, `SamePlanSameKernel`, `NoMissingVertex`, `RecompileBuildsNothing`, `TypeOK` | hold |
| `fusion_devices` | `CompiledRuns` | violated |

**lockfile_safe.** Process `p1` has two threads of which one reads, `p2` one
thread that uses every function. This is the smallest instance in which threads
of a process, threads of different processes, and readers and writers meet, and
the largest in which the lock is sound (see the proofs). Weak fairness is
assumed of each thread inside a timed function or a section: the waits have
deadlines, and a section is a finite piece of file work that ends in the
destructor of the lock object. None is assumed of `std::lock`, which may start
over for ever, nor of starting an operation.

**lockfile_readers.** Two readers in one process. The first to leave calls
`flock.unlock_sharable()`, which drops the fcntl lock of the process; a writer of
`p2` enters while the second reader is still reading
(`src/include/miopen/lock_file.hpp:121`). RamDb escapes by never sharing.

**plaintext_store.** Two processes of one thread, two keys, two ids, one value,
all operations, files that cannot be opened for writing, lookups that cannot
open a database that is there, and crashes; 343,000 states. Two keys are needed
for an operation to disturb another record, two ids for merging, two lines for a
replacement with something before or after it. A lookup goes wrong while the
file has less than two lines (`MaxLines`), which is enough for it to hide a line
of the operation's own key and to leave one of the other; the proofs have no
such bound. One value suffices for everything but overwriting a value with
another, which `ramdb_store` does with two; the two databases share `Merge`.
`OthersUntouched` holds under all of these failures. `NoDuplicateKeys` and
`ImplementsRecordStore` hold for a key until an operation overlooks its line;
from then on the code promises nothing: StoreRecord is hidden behind the old
line, UpdateRecord does not merge, RemoveRecord returns true and has removed
nothing (`src/db.cpp:152`), although `src/include/miopen/db_record.hpp:52` says
that there should be no identical keys in a file. The window between remove and
rename is left out here and is the subject of the next run.

**plaintext_lost.** With the fault `replace` the database is removed and its
replacement never gets its name: all keys lose their records (`src/db.cpp:289`).

**ramdb_store.** Two processes, one key, two ids, two values, four ticks of the
clock, without Remove, where the writing of the database may fail. The record
store is implemented: each operation takes effect at one instant although the
answers come from copies. One key is enough because time, copy age and validity
are of the whole file; the proof below has no such bound. Four ticks admit a
change, a read and a further change, in equal and different ticks. Failures of
reading a database that is there are outside of this run: that of Prefetch
(`src/ramdb.cpp:317-323`), which keeps the old copy, and that of the base
class's lookup, which `plaintext_store` has.

The copy is never written by StoreRecord and UpdateRecord:
`UpdateCacheEntryUnsafe` validates it after the time was written
(`src/ramdb.cpp:359`), so it always finds it too old. That contradicts
`src/include/miopen/ramdb.hpp:38`, "Value of one enables experimental
write-through feature of RamDb. It provides some performance gain in case of
multi-threaded cache write operations." It is a loss of speed and not of
correctness, and no run asks for the write-through; `NoWriteThrough` below proves
that there is none.

**ramdb_faults.** All operations and all faults: a copy that was read from the
file and passes for valid is what the file holds once the last change is
stamped. What is *not* promised, and does not hold, is that every change gets
stamped: after a crash or with an unwritable time file other processes go on
with their copies until somebody changes the database again.

**ramdb_remove.** `RamDb::Remove` starts from the copy, valid or not
(`src/ramdb.cpp:226`): ids that another process added since are removed with the
one that was asked for.

What `Remove` writes to the copy ends with a line feed (`src/ramdb.cpp:249`): in
the model, UpdateRecord for two ids, FindRecord, Remove of one of them and
FindRecord again, which returns the value that is left with the line feed in it
(`eol`). A second Remove writes it into the file, where it cuts the line. RamDb
contains this, and no property of a run is about it.

**find_api.** Two handles, two algorithms, three solvers of which two belong to
one algorithm, a solver that applies for one handle only, an installed record,
all modes, immediate calls, and three kinds of failure. Two handles are what it
takes for a record to be written by another, two solvers of an algorithm what it
takes for record and cache to disagree.

**find_workspace.** Both handles use the normal mode. A handle has found `g2`
in one Find and `g1`, for the same algorithm, in a later one, when the record in
the find-db was no hit for it. The other handle stores a record that names
`g2`. The next Find of the first handle takes that record, since it has built
`g2`, and reports `g2` with its workspace; but its invoker cache still names
`g1` as found, which is what `ConvolutionForward` runs, with a workspace that is
too small (`src/ocl/convolutionocl.cpp:343` sets the found solver, a hit does
not; `:989` leaves it alone in the same way).

**tuning.** Two processes of different versions share the problem `k1`: for
`h1` the configs `d1` and `d2` of the direct solver are valid, for `h2` only
`d3`, which is outside of the normal space. So each finds, in the database, a
value it must not use (`SolutionsAreUsable`), searches and overwrites it, between
the other's load and update. `h1` looks up, searches on request
(`exhaustiveSearch`) and cleans (`DB_CLEAN`), and meets every failure but that of
the find-db; `h2` searches in every Find (`SEARCH_DB_UPDATE`), uses the immediate
calls, which do not, compiles without threads, and may fail to compile and to
store its record, so that it tunes again. The Winograd solver of one config
stands for those without a search. Programs are shared between configs (`p`), so
that `Precompile`, the release after each config and what others have saved do
interact. Two times, 20 and 21, are on either side of the 5% by which a first run
is promising: one that is not faster and yet run again, and one that is. There
are 182,000 states. Weak fairness is assumed of each process inside a call, and
not of beginning one: a call is a loop over finitely many solvers and configs,
each statement on the database ends with the deadline of its back-off, and an
operating system schedules every process. It is not assumed of a statement that
is repeated (`LoadAgain`): nothing says that the file can be read some time.
`CallsEnd` is therefore that every call ends, if only with the process, or gets
to such a statement; `TunedOnce` says what `doc/src/perfdatabase.md` promises,
that a value in the database ends all searching for it. Deadlock is not checked
since a process with all its invokers built and its problem in the find-db has
nothing left to do.

**fusion.** Two plans, two handles of one kind of device, five operators: three
convolutions (`c1` has a direct and a Winograd solution, `c2` and `c3` only one of
them), a bias and a batch normalization, at most two in a plan. The graph is the
part of the real one for 5 x 5 filters: two direct vertices of equal weight above
two Winograd ones of which one is for another device; a bias after any, a batch
normalization after one direct vertex only, by two parallel edges. Two plans are
what it takes for one to find the other's kernel, two handles for a plan that was
narrowed by its first compilation to be compiled again; two vertices of equal
weight and one algorithm for the order of `std::sort` to matter. Two
assumptions say what is particular to the graph that the library builds
(`InitConv` and its like in `src/md_graph.cpp`). `LibraryEdges`: a convolution
comes first, only edges from the root have a weight (all others say
`weight === 0` or nothing), and what follows an operator is for the same devices as it is.
`LibraryRoutes`: of the ways through the graph for the same operators on one
device, those to one algorithm have one solver and expect the same arguments,
since the Winograd solvers of different arguments are for different devices; and
those of one weight lead to one algorithm, since the weights are 50 for the
assembly kernels, 10 for the OpenCL ones, and 5, 100 or their sum for Winograd.
Handles are symmetric; 107,000 states.

**fusion_devices.** The same plans and graph on handles of two devices, of which
one supports the Winograd vertex `w` and the other `x`. A plan is compiled for
the first handle, where it finds the kernel that another plan has made, and
keeps all its paths. Compiling it for the second, as
`doc/src/Getting_Started_FusionAPI.md:101` says ("it would however need to be
recompiled for each handle separately"), narrows the list to the path through
`x` (`src/fusion.cpp:1091`), and Execute on the first handle throws although the
plan has been compiled there and not been changed since.

Every property of a passing run is shown to depend on the code by a variation of
one definition, kept beside it in the module under the same name with a suffix
(`FlockFailed_KeepingMutex`); no specification uses them.

## What is proved

TLC checks small instances; the theorems hold for any number of threads,
processes, handles, keys, ids, values, solvers, configs and programs, and any
bound on the clock. Their only assumptions are those named `...Assumption` in the
modules, which say what the constants are, and those below (`SafeUse`, `Calm`,
`OneReaderEach`, `Alone`, `TimedUse`, `InstalledRecords`, `OneDevice`), which are
hypotheses of the theorems that need them. `LibraryEdges` and `LibraryRoutes`, the
assumptions on the graph, are of the first kind.

**LockFileProofs.** The invariant `IInv` says that `access_mutex` is owned by
exactly the threads whose position says so, that a process that holds the file
lock has a thread that uses it, and that an exclusive hold of the kernel is
alone. It is inductive under every use of the lock, and gives type correctness,
the exclusion of the threads of one process (`ThreadsExclude`) and
`LeavesNothing`. `Exclusion` between processes is not a consequence, as
`lockfile_readers` shows. Under `SafeUse`, that of two threads of one process at
most one ever reads and neither takes `std::lock`, `IInv` is strengthened by
`FlockOwned`: a thread in a section has the file lock it asked for. This yields
`HolderKeepsFlock`, `ExclusiveSections` and `Refinement`, that LockFile
implements `ReadersWriterLock`. RamDb, which only ever takes the lock
exclusively and with a deadline, is a safe use; PlainTextDb with several reading
threads in a process is not. For that use `WritersExclude` remains: where only
the timed functions are called (`TimedUse`), two exclusive sections never
overlap, whatever readers of the same processes do to the file lock.

**PlainTextDbProofs.** The invariant follows an operation from its lookup to its
last file step (`CallInv`): the position it found is that of the first line of
its key (`First`), or its key is in `misread`, as long as it has the lock; and
the temporary file is the database with that line replaced. It rests on lemmas
about lines: that a key with at most one line (`OneLine`) keeps this property
under appending, replacing and removing a line, and that looking up any other
key gives what it gave before, also beside duplicates. `KeysStayUnique` and
`CopiedBeforeRemoved` hold under all failures; they say of a key whose line a
lookup has overlooked nothing, since such a key does get a second line.
`OthersAreUntouched`, which is about every key, needs `Calm`, that a replacement
is not interrupted between remove and rename, since `plaintext_lost` shows the
contrary. `Refinement`, that PlainTextDb implements `RecordStore` in every step
but those on a key that has been misread, needs in addition `OneReaderEach`, one
thread per process: with two, a reader loses the file lock under its feet as in
`lockfile_readers`. The exclusion of writers that both use is taken from
`LockFileProofs`.

**RamDbProofs.** `Coherence` is proved for every use and every failure. It is not
inductive: a process that is not open must have an empty copy, the clock must be
ahead of all times, and the file must be there while an operation is past its
change; these are the further parts of `IInv`. Under `Calm` (no Remove, and no
failure but that the database cannot be written) the stronger invariant also
follows the operation in progress (`PendingInv`): a write to the copy that is
going to happen is that of a RemoveRecord, and all other entries of that copy
agree with the file, so that the copy will be right when it gets its new age;
and when UpdateCacheEntryUnsafe looks, every copy is too old (`OldInv`). It yields
`NothingStale`, `NoWriteThrough` (that a step of StoreRecord and UpdateRecord
never changes the copy and leaves it too old) and `Refinement`, that RamDb implements
`RecordStore`: an operation's step on the file, or its reading of the copy, is
the step of the store, the others change nothing there.

**FindDbProofs.** The invariant says of every entry of an invoker cache that an
algorithm with a built solver has a found one and that the found one is built
and of that algorithm; and of every record that a Find has in hand how much of
it is built. It yields `FoundInvokers` and `OwnHit`, for all modes and failures.
`AloneSuffices` delimits the violation of `find_workspace`: with a single handle
that can write the find-db, the normal mode and no immediate calls (`Alone`), the
reported workspace does suffice, whatever fails to build and whenever the process
dies and another comes. The failing store has to be excluded: one handle is
enough for the violation if it measures `g2`, cannot store, measures `g1`, cannot
store, and then finds an old record of `g2`; TLC finds that trace.

**PerfDbProofs.** `InstalledRecords` says that the system database holds values
of the solvers. The invariant is the types, `ValuesHaveProblems` and
`Unanswered`, that an update between its statements has not been answered. The
first two are inductive by themselves; the third is what makes the second
statement of an update one step of `ValueStore` (`Refinement`): the store
changes, and its answer is given, at that statement, and the first one is not
visible because a problem without values joins to nothing.

**TuningProofs.** The invariant of the database is taken from `PerfDbProofs`, by
the lemma that every step of Tuning is a step of PerfDb or none there; with it
`Refinement` is composed of `Spec => PerfDb's specification` and of that
module's theorem. The rest of the invariant speaks of one call at a time,
relative to the programs saved and the configs measured (`CallInv`), which only
grow, so that a step of one process cannot harm the call of another. Of a search
it says that what remains is valid and not measured yet, that the best config is
one that has been measured, is recorded in `proven` and is not slower than any
other (`SearchInv`). `BestIsBest` alone is not inductive: a config that were
measured a second time could make the best one worse. `Precompiled` needs that
what a handle holds is saved as well (`RestInv`), since `Precompile` skips it.
The theorems give every safety property of the run: types, `OnlyUsable`,
`OnlyMeasured`, `KeepsBest`, `AllCompiled`, `HoldsNoMore` and `ProblemsFirst`,
for all failures and any order of the configs.

**FusionProofs.** What a path collects is stated by the route it took through the
graph: its end, its solver and the weights it may have. `SafeInv` says that every
path of a plan came along a route for the plan's operators, that the list is
sorted, and that every kernel in a cache was made for a route that has a
solution on this handle. It is inductive for any handles, and gives the types
and `SoundKernels`. `VertexNotMissed` needs in addition that a plan whose
convolution has been solved is for a device with all its paths or with none
(`SolvedInv`): the first solution narrows the list to one path, and everything
that extends it is for the same devices. The call therefore ends in
`GetLocalWGSz` wherever it has no vertex, on handles of different devices as well.

The other theorems are about `OneDevice`, handles that support and solve the
same. `IInv` adds to `SafeInv` what Compile leaves for Execute (`CompiledInv`):
a kernel under the algorithm of the heaviest path, and the names and arguments
of that path. A Compile for another handle or one that fails could disturb it by
narrowing the list; but it tries the paths in the order of the list, and the
heaviest path of a compiled plan is one with a solution, since its kernel was
made for a route to the same algorithm, hence for one with the same solver. So
the later Compile takes the same path. The same argument gives `RightArguments`
when another plan made the kernel. For `SameKernels` the invariant
must remember what was dropped: a list is complete, or what is missing is not
for this device, has no solution or is no heavier (`BestInv`). Two plans of the
same operators then have heaviest paths of one weight, hence of one algorithm,
hence one key. The operators of the model sum weights along parallel edges and
sort lists; what the proofs need of the sums follows from the least number for
which it would fail, in place of the induction theorems.

`OneDevice` is needed: `fusion_devices` shows `CompiledRuns` violated on handles
of different devices. TLC finds `ArgumentsFit` violated there, too, with
three plans, of which two make the kernels for the two devices and the third
finds both: it then has the arguments of the device it was compiled for last
(`arg_list` is of the plan, not of the handle), and the two Winograd kernels of
one algorithm expect different ones. `RecompileBuildsNothing` held in the
instance of two plans; it is proved under `OneDevice` since its invariant is
`CompiledInv`.

Only model-checked: liveness (`AttemptsEnd`, `CallsEnd`, `TunedOnce`), which
needs fairness. Every other property of the passing runs is a theorem.

## What is not modelled

The models cover what the library keeps and shares. Most of its lines are not of
this kind: of about 240,000 lines of implementation the greater part are
kernels in OpenCL, HIP and assembly, generated tables (the skip-ahead matrices of
the random generator, the heuristics of the performance configs), solvers that
compute launch parameters from a problem, the public header, the command line
driver, and wrappers of descriptors. They are functions of their inputs, without
a protocol, and a model of them would be a transliteration; numerical tests are
the right tool for them. Hence the share of lines that the modules map is small
and will stay so. Of the components above the following is left out:

- Of LockFile, `try_lock`, `try_lock_shared`, `timed_lock*` and the blocking
  `lock_shared`, which the library does not call.
- Of PlainTextDb, lines written in part (a crash or a full disk within a write)
  and permissions of several users.
- Of RamDb, a database that is there and cannot be read, the build without file
  access, and a steady clock that starts again after a reboot. Of ReadonlyRamDb, the reading of its file: what is installed
  is a constant.
- Of the performance database, FindRecord and StoreRecord of whole records and
  the clearing of a record, which only tests call; result codes of SQLite for
  which other loops than the one over the rows of a Load have no case.
- Of the search, the gfx-specific searches of single solvers, builds that only
  compile, `MIOPEN_DEBUG_FIND_ONLY_SOLVER`; the backward data direction, which
  repeats the forward one; a program that is loaded and lacks its kernel.
- Of the Find calls, the two backward directions; times, and with them which
  solver is the best; kernel keys of the time before invokers, with ClearKernels
  and HasKernels, which serve them; the timeout of the lock when the destructor of
  a record stores it, whose exception leaves a destructor and ends the process.
- Of the program database, the files themselves, compression and checksums.
- Of fusion plans, `RemoveOp`, which does nothing; the workspace query; the
  batch normalization whose compile parameters throw for other sources than
  OpenCL; an exception inside `FusionMDGraph::Advance` (`src/fusion.cpp:75`), after
  which the plan is not valid and has its old paths; the values of arguments.
- The handle lock of `MIOPEN_GPU_SYNC` builds, which is the pair of LockFile
  once more, and temporary directories, which are not shared.

## Plan

Done, in this order: the lock with its refinement and proofs, since everything
rests on it; the text database on top of it; RamDb, with its proofs; the Find
calls over an abstract user find-db, with their proofs; the performance database
with its abstract store and proofs; tuning on top of it, with the program
database and the proofs of its safety; fusion plans over the kernel cache; the
proofs of the text database and of fusion plans.

Next:

1. Reading failures in RamDb: what Prefetch and the lookup of the base class do
   together when a database that is there cannot be opened.
2. The composition of Tuning with FindDb: that the record in the find-db and the
   invokers in the handle agree with what the performance database holds after a
   second tuning (Register keeps the old invoker).
3. Torn lines in PlainTextDb: a write in two parts, and what parsing makes of
   the first.
4. ReadonlyRamDb: the registration of an instance before it is read.
