# A verification project for db-tpch-q5

The repository measures TPC-H query 5 on CPUs, on GPUs and on both together
(`q5/`), runs formal benchmarks of these engines (`scripts/`), and holds a
collection of multithreaded hash joins in C (`hashjoin-cpu/`).  This directory
models the parts of it in which the order of steps matters: TLA+ modules of the
components, TLC configurations that check them on small instances, and theorems
that TLAPS proves for all instances.  Paths below are relative to the repository.

Contents: the inventory of the system, the plan, the modules beside the code,
the runs and what they show, the fairness that is assumed, the proofs, where the
code and its documents disagree, and what is not modelled.

## 1. Inventory

### The Q5 engines (`q5/`)

| Component | State | Operations | What makes it correct |
|---|---|---|---|
| Arrow CUDA kernel, `q5/src/cuda/q5_arrow_cuda.cu` (`arrow_q5_kernel`, `checked_atomic_add`) | device cells `revenue_by_nation`, a match counter, an overflow flag | one thread per row: look up, count, compare-and-swap loop | no update lost or repeated, no cell past `LLONG_MAX`, the flag a function of the data |
| Arrow CUDA session, same file (`ArrowCudaQ5Session`) | buffers of one memory mode, `outputs_clean`, `managed_output_on_device`, `execute_mutex` | `Make`, `Execute`: reset, prefetch, launch, synchronise, collect | a request returns the answer of the data or an error, whatever failed before it; the mutex is released |
| Arrow CPU scan, `q5/src/cpu/q5_arrow_scan.cpp` | one partial per worker thread | start workers, scan ranges, join, merge | every row counted once, the error reported is that of the data, no worker left behind |
| Hybrid cost model and batch partition, `q5/src/hybrid/hybrid_cost_model.cpp`, `batch_partition.cpp` | none | predicted ratio, two ways to cut a table | the slices tile the table, the ratio is best |
| Hybrid session, `q5/src/hybrid/q5_hybrid.cpp`, `q5/src/session/q5_cpu_session.cpp` | two child sessions, a cut, per request an asynchronous GPU task | `Make` (with calibration), `Execute`, destruction | where the table is cut does not show, no task outlives its request |
| Resident programs, `q5/src/cli/memq5_arrow_session.cpp`, `q5/src/session/q5_session_io.cpp`, `q5/baselines/cudf_q5_session.py` | request counter, reference hash, a buffered stream | setup record, request records, exit codes | what they write is what they computed |
| Plan builders, `q5/src/cpu/q5_arrow_cpu.cpp`, `q5/src/engine/q5_plan.cpp` | none kept between calls | lookups from order and supplier keys to nations | a line counts for a nation exactly if the query matches it there |
| One-shot engines, `q5_cpu.cpp`, `q5_cuda.cu`, `q5_acero.cpp`, `execute_q5_hybrid`, `q5/baselines/` | none kept between calls | the query, each by its own code | they agree with the SQL of the oracle |
| Loaders, containers, result formatting | none | files to columns, rows to text | - |

The children of a hybrid session are called from one `Execute`: the GPU child on
a `std::async` task, the CPU child on the calling thread, joined before either
result is looked at.  Several threads may call one session; the GPU child
serialises its requests with a mutex, the CPU child shares nothing that is written.

### The formal benchmarks (`scripts/`)

| Component | State | Operations | What makes it correct |
|---|---|---|---|
| Runner, `run_formal_benchmarks.py` with `formal_benchmark_schema.py` | records made so far, an output directory | validate the matrix, one session per configuration, CSV files at the end, one record per backend for the gate | a record says what a session did; no two sessions of a matrix are the same |
| Process monitor, `process_monitor.py` | one child process, a clock | launch, poll, time out, SIGTERM, SIGKILL | one session at a time, every session ends |
| Protocol parser, `resident_protocol.py` | none | accept or refuse a log, whole or partial | nothing that was lost or torn is made up |
| Dataset preparation, `prepare_arrow_dataset.py` | the output path, a temporary directory, a backup | convert, swap into place, restore | readers see a finished dataset or none; the old one is not lost |
| Formal inputs, `prepare_formal_sf10.py`, `prepare_tpch_q5_data.py`, `validate_tpch_q5_data.py` | three directories with manifests | assess, run a stage, resume | exit 0 means three complete stages; finished stages are kept |
| Evidence bundle, `formal_evidence_bundle.py` | a directory of records, copies of four sources, summaries, a manifest | `finalize_bundle`, `audit_bundle` | what finalize calls a success stands before the audit; leftovers of a crash do no harm |
| Correctness report and gate, `materialize_formal_correctness.py`, `formal_correctness_gate.py` | none | compare every request with the oracle; one record per backend | the judges of one set of records agree |
| Profiler orchestration, `run_formal_profilers.py`, `profile_nsys.py`, `profile_ncu.py` | `profiles.json`, `orchestration.json`, captures | plan, stage, two collectors per profile, freeze | what is counted as done has both captures; what was collected can be frozen |
| Profiler bundle, `formal_profiler_bundle.py` | `manifest.json`, `manifest.sha256` | finalize, audit | a frozen directory is of one run and one build |
| Summary and hybrid evaluation, `summarize_formal_records.py`, `evaluate_hybrid_model.py` | none | group and summarize records; read them in three ways; compare automatic with fixed ratios | the readings of one run give one report |

The runner talks to a session through a log file and an exit code alone: the
session's stream is block buffered, so a signal loses lines and tears the last.
What the runner leaves in its directory is the input of everything after it:
the materialization of the correctness report, `finalize` of the evidence, the
records for the gate, the summaries, and (through the audited evidence) the plan of
the profiler.  Those programs share nothing but files, and some of them check the
same things again, each in its own way.

### The hash joins (`hashjoin-cpu/`)

| Component | State | Operations | What makes it correct |
|---|---|---|---|
| No-partitioning join, `no_partitioning_join.c`, `lock.h`, `barrier.h` | one hash table with latched buckets and overflow nodes | build, barrier, probe, barrier, free | every pair counted once; no probe of a freed node |
| Radix partitioning, `parallel_radix_join.c` | histograms, output places, write-combining lines | count, barrier, prefix sums, copy | each tuple in its cluster once |
| Radix join, same file, `task_queue.h`, `cpu_mapping.c` | queues of tasks by NUMA node, a skew queue, barriers | two passes, join tasks, shared large tasks | no task lost, no thread left at a barrier |
| Vector, sort-merge and star joins | index, vectors | build, probe, aggregate | equality with the join |
| Generator, driver, counters | none of interest | - | - |

### What is hard here

Threads that meet at compare-and-swap loops, latches and barriers; kernels that
run on after the host has given up; failures between any two CUDA calls or
system calls; a clock that races the end of a process; signals and restarts
between renames and between files; work queued by one key and taken by another;
sums that fit in parts and not together; remainders of divisions; an executable
rebuilt between its hash and its run; a source edited between its check and its
copy; several programs that judge one set of records.  `PROJECT.json`
lists each such hazard at its line with the properties that would notice it.

## 2. Plan

The modules, in the order they are written; the numbered ones exist.

| Order | Module | Composes | Abstract specification |
|---|---|---|---|
| 1 | `GpuKernel` | | `Accumulator` |
| 2 | `CudaSession` | the kernel's rows, one step each | `Q5Endpoint` |
| 3 | `Q5Rows`, `ArrowCpuScan` | | the answer of a table (`TrueAnswer`) |
| 4 | `HybridPartition`, `HybridPlan` | | tiling of the table, best ratio |
| 5 | `HybridSession` | `Q5Rows`, `HybridPartition`, the two children at their interfaces | the answer of the whole table |
| 6 | `FormalRunner` | session program, monitor, parser, runner | |
| 7 | `NoPartitioningJoin` | table, latches, barrier | the join of two relations |
| 8 | `RadixPartition`, `RadixJoin` | the partition pass inside the join | the join of two relations |
| 9 | `DatasetSwap`, `FormalPreparation` | | |
| 10 | `ProfilerBundle`, `ProfilerRun` | the checks of the bundle inside finalize and audit of the runs | |
| 11 | `FormalMatrix`, `EvidenceChecks`, `EvidenceBundle` | the matrix inside all judges, the judges inside the bundle, and behind `FormalRunner` | |
| 12 | `HybridEvaluation`, `FormalResults` | summary, raw records and logs of one run; the judges behind `FormalRunner` | |
| 13 | `Q5Query`, `Q5Engines` | the lookups before `Q5Rows` and `HybridPartition`, checked beside `HybridPlan` | the query itself (`Matches`) |
| next | `VectorJoin`, sort-merge, `StarJoin`, the join functions of PRH, PRHO and PRVJ, checked beside the other joins | | the join |
| next | the memory modes of the in-memory CUDA engine and the task of the one-shot hybrid, as variants of 2 and 5 | | `Q5Endpoint` |

Several components may share a run: a module then starts in one of several
parts and lets the others stand still, so that each part keeps its own bounds
and specification (`HybridParts`, `SessionAndScan`, `Bundles`, `HashJoins`, `FormalResults`,
`MCPreparation`).  The first five are generic, because theorems are about them as
they are; their MC modules only give the constants values.

Theorems.  Proved: the kernel's safety and its refinement of `Accumulator`; the
exactness of the CUDA session and its refinement of `Q5Endpoint` (safety); the joining of tasks, the reproducibility and
the answers of the hybrid session; the tiling by both cuts and the optimality of the prediction; that the
Arrow plan is the query; that a threaded scan is exact and leaves no worker behind; that the sessions
of a matrix differ; what the formal
runner records of its sessions, that the judges of its records are of one mind, and that
the readings of a run of hybrid sessions give one report; the barrier phases and the exact count of the no-partitioning join; that a parallel
radix pass puts every tuple in its cluster, that the radix join loses no match on the way
through its queues, and its exact count, with and without skew handling; the
survival of datasets, that two preparers undo no success and that finished stages stay; that a profile that counts as done was collected, is frozen and
is genuine; that a finalized bundle stands, whatever earlier attempts left.
Left: the sums of `EnginesAgree`, which need an instance of `Folding`, and the write-combining
lines of a pass.


## 3. The modules beside the code

**GpuKernel** (`arrow_q5_kernel`, `checked_atomic_add`).  One thread per row;
`pc[r]` is its place, `current[r]` the register that the compare-and-swap loop
compares with.  Every device atomic is one action (`CountMatch`, `ReadRevenue`,
`Swap`, `Retry`, `RaiseOverflow`); `Skip` is a row that no lookup matches.  The
input is a set of functions of the rows, restricted by what
`prepare_arrow_gpu_input` has checked (`ValidRow`).  The additive measure `Total`
of a set of rows is a constant constrained by `TotalAssumption`, so that proofs
need no recursive sum; the MC module computes it with a fold.  `Accumulator` is
the abstract version: rows added one at a time, each in one step.

**CudaSession** (`ArrowCudaQ5Session`).  `session`, `context`, `lock` and the
flags are the members of `Impl`; the output buffers are one record of revenue,
match count and overflow flag.  The host's request is a sequence of actions, one
per CUDA call or group of calls between which nothing else can look; each has a
failing twin, and `KernelRow` lets a launched kernel work beside the host, also
after its request has failed.  `LoseContext` is CUDA's sticky error.  All
matching rows have revenue 1 here: what one launch adds up is `GpuKernel`'s
subject.  `LateFault` says whether a call after the launch may fail and leave
the context usable; in copy mode the next reset runs on the same stream and the
answer is exact all the same, in managed mode the reset is a host fill and it
is not, which is why the theorems exclude that pair (in CUDA such a failure is
nearly always sticky).  The promise is `Q5Endpoint`: each request returns, once,
with the answer or with an error.

**Q5Rows** has the row-by-row scan, the ranges of the workers and the checked
merge of partials as operators; **ArrowCpuScan** runs them in threads: starting
may fail half way (`StartFails`), the `ThreadGroup`'s destructor joins what runs
(`Unwind`).  A step of a worker is one row.

**HybridPartition** has both cuts and the prediction, with ratios as pairs of
integers in the place of doubles; the bodies of the loops over the batches are
operators (`Cut`, `Assign`), and `Better` is the choice among three
candidates.  **HybridPlan** applies them as `HybridQ5Session::Make` does.

**HybridParts** puts the parts of a session side by side, one at a time: two GPU
children of `CudaSession`, the plan, and the query.

**HybridSession** composes `Q5Rows` and `HybridPartition`.  A caller's `phase`
follows `Execute`, its `task` the asynchronous GPU request.  The CPU child
answers in one step, since it shares nothing; the GPU child is the critical
section of `CudaSession` (`GpuLock`, then `GpuExecute` or `GpuFails`).
`Return` joins the task before it looks at either result, `Unwind` is the
destructor of the future.  `Make` includes the calibration of an automatic
session, which runs both children on the whole table.  **SessionAndScan** puts beside it the scan
of the CPU child, which the session takes for one step: `ScanIsExecution` says that this is what
a scan returns.

**Q5Query** has the query as a set of joined rows (`Matches`, from the SQL of
`duckdb_q5.py`) and the two plan builders.  A table is a sequence of rows, a
lookup a function whose domain are the keys that occur; a vector's -1 and its
end are `None`.  `PlanAccepts` collects every refusal of `build_arrow_q5_plan`.
**Q5Engines** has what each engine makes of a database: the Arrow scan (`Q5Rows`
behind the lookups), the GPU's sums, the one-shot hybrid (cut by
`HybridPartition`), Acero's tree of joins, the in-memory engines with their
unchecked additions, and cuDF's merges.  These are functions of the
database and have no steps.  The fields `revenue` and `valid` of a line stand for its
price and discount.

**FormalRunner** composes four programs.  `Child` is the session: `Emit` puts a
line into the stream, of which a signal loses the end, perhaps within a line.
`Launch`, `Poll`, `TimePasses`, `CheckClock` and `Terminate` are
`run_monitored`; `ParserAccepts`, `Missing` and `Complete` are
`parse_resident_jsonl`; `Record` is the whole of `_run_configuration` with its
verdicts; `WriteCsv` and `Interrupt` end a matrix.  Measurements are left out,
as no branch that is modelled reads them.

**FormalMatrix** is the matrix as the runner reads it: a JSON object is a function
from its keys, so that a missing key is one outside the domain, and every field
has its check (`RatioIsValid`, ...).  `SessionsDiffer`, which `Bundles` states of the matrices in
`Plans`, compares the commands and
the logs that follow from an accepted matrix.

**EvidenceChecks** has the three judges of a finished run as operators over its
records: the coverage that the evidence bundle demands, the correctness report of
`materialize_formal_correctness.py` with what the bundle asks of it, and the
records per backend that `run_formal_benchmarks.py` materializes for the gate of
`formal_correctness_gate.py`.  `FormalResults` puts before them whatever
`FormalRunner` leaves.

**EvidenceBundle** is `finalize_bundle`: `Begin` checks the four sources where they
are, `Copy` copies one of them, `Validate` reads the copies, then one action
for each file written.  `Crash` may come between two writes or within one, which
leaves the file torn; a later `Begin` starts over what it finds.  `Edit` changes a
source at any time, `MaterializeCorrectness` makes the report anew.
`edited` is history.

**HybridEvaluation** reads a run in the three ways of `evaluate_hybrid_model.py`
(from the summary, the raw records, the session logs) and evaluates each reading.
Latencies are integers; a median is kept doubled, so that it stays one.  An
observation keeps the name of its session, which no report says, so that two sessions
with equal numbers stay two.  The runs it reads are put together in **FormalResults**
from the end each session had: how far its log goes, whether the runner could read
it, and the verdict.

**ProfilerBundle** has the checks that finalize and audit of
`formal_profiler_bundle.py` share; **ProfilerRun** has `run_formal_profilers.py`
with its two collectors.  A run goes from `Validate` over `MakePlan`, the first
index and state, and `Stage` to a round for each profile (hash the executable,
collect, check, for nsys and then for ncu, then index and state), and ends
with `CloseIndex`, the three steps of the finalize, the audit and `CloseState`.  Two runs
may share the directory; `Kill`, `Rebuild` (of the session program) and `Upgrade`
(of nsys) come at any time, and every collection may end in each of the ways the
collectors tell apart.  The fields `by` and `ran` of a capture are history: which
run made it, of which build.

**Bundles** puts the two bundles side by side, and a matrix alone, one at a time.

**NoPartitioningJoin**.  `table` is the chain of nodes of each bucket, `latch`
its holder.  An insertion is a read and a write (`LatchBucket`, `Store`), so that
without the latch it could lose a tuple.  `barrier` counts who arrived and who
sleeps.  A probe follows a chain node by node; a freed node reads as anything.

**RadixPartition** has `parallel_radix_partition` tuple by tuple, and its
write-combining variant line by line: a line is written whole, its foreign parts
included.  **RadixJoin** has `prj_thread`: which rows a thread counts and copies,
the barriers, and the three queues.  A key is the pair of clusters that the two
passes assign to it.  **HashJoins** puts the join with one table, the radix join and
a pass of it from the inside (plain, and by one thread with lines) side by
side, one at a time.

**DatasetSwap** has `prepare_dataset`: each step is one system call, or several
of which only the last touches what others see.  `Stop` is a signal, or
`KeyboardInterrupt`, which `except Exception` does not catch.
**FormalPreparation** has the three stages of `prepare_formal_sf10.py`, for any
sequence of runs and an operator between them.

## 4. Runs

All bounds are constants of the configuration files or named in the MC modules.

| Run | Instance | What it shows |
|---|---|---|
| `MCGpuKernel` | six rows, two nations; nation 0 sums to `LLONG_MAX` = 399 exactly, nation 1 to 450, any two of its rows fit; one key outside a map | every order of the atomics: no update lost (`NoLostUpdate`), flag up exactly for the sum that is too large (`OverflowIffSumTooLarge`), threads finish (`GridTerminates`), the loop is an atomic addition (`ImplementsAccumulator`) |
| `MCHybridParts` | `CudaSession`: two callers, copy mode with late faults, managed mode without; two rows, two failures and a loss of the context.  `HybridPlan`: up to four batches of up to three rows, six ratios, 48 calibrations, the useless ones included.  `Q5Engines`: some 5000 databases with two rows per small table and six lines: all that differ in which nation is in the region, who belongs to which nation, and one order's customer and date; and all in which one table is arbitrary, keys repeated, negative, too large or missing | `ResultIsExact`, `ImplementsEndpoint` (safety, and that every request returns); `SlicesTileTheTable`, `PredictionIsOptimal`; `PlanIsTheQuery` (every database the builder accepts: a line counts for a nation exactly if the query matches it there, once), `EnginesAgree` (all engines give the answer of the SQL, or the Arrow engines refuse one that does not fit) |
| `MCHybridSession` | two callers, seven tables (sums that fit, that overflow in a slice or only in the merge, bad rows), six options.  `ArrowCpuScan`: all tables of four rows in batches of 1, 0 and 3 rows and an empty one, one and three threads, `LLONG_MAX` = 3 | `SplitDoesNotShow`, `AutomaticSessionAnswers`, `NoTaskOutlivesExecute`, `ExecuteReturns`; `ScanIsExact` (the answer, or the error of the first bad range), `NoWorkerOutlivesScan` |
| `MCFormalRunner` | `FormalRunner`: a C++ and a cuDF session of two requests, two hashes, then the three judges.  `HybridEvaluation`: two fixed ratios, an automatic session and one of another engine, two requests each, which fail at the start, halfway or at the exit, in every order of latencies | `OkMeansAllRan`, `NothingIsFabricated`, `NeverAborts`, `OneSessionAtATime`, `SessionsEnd`, `JudgesAgree` (all sessions ok is what coverage, report and gate each accept); `ReadingsAgree` (summary, raw records and logs give one report) |
| `MCHashJoins` | `NoPartitioningJoin`: three threads, seven and three keys that repeat and collide, nodes of two tuples.  `RadixJoin`: three threads on two nodes, relations of up to four tuples, with and without skew handling.  `RadixPartition`: three threads over every relation of five tuples of three keys; one thread with lines | `NoProbeOfFreed`, `JoinIsExact`; `RadixIsExact`, `MatchesAreKept` (no match is lost or doubled between the queues); `JoinsReturn`; `PassIsExact`, `LinesAreExact` |
| `MCPreparation` | two preparers, one alone whose removals may fail half way, three failures, two tables; the formal stages | `OutputIsWhole`, `DatasetSurvives`, `SuccessStands`, `FinishedStagesStay` |
| `MCBundles` | `ProfilerRun`: two runs of two profiles in one directory, one of them at an automatic ratio, one failed collection, one rebuild, one upgrade.  `EvidenceBundle`: a matrix of two sessions, two edits of sources, one crash.  `FormalMatrix`: all matrices of two configurations of four engines that differ in ratio mode (one of them unknown), ratio, threads and id, as an array or an object | `FrozenIsGenuine` (what the audit accepts is of one run and one build), `CompletedIsCollected`, `CollectedIsFrozen` (what is collected is refused only for causes listed in `SeenLate`, or because of the other run); `FinalizedStands` (success stands before the audit), `LeftoversDoNotMatter` (a torn file never stands in the way of the next finalize); `SessionsDiffer` (no accepted matrix runs a command or writes a log twice) |
| `RadixJoinNuma` | violation: two threads, four nodes | section 7 |
| `RadixJoinEmptyBuild` | violation: two threads, a skewed cluster with tuples of S alone | section 7 |
| `FormalRunnerIdentity` | violation: one C++ session | section 7 |
| `DatasetSwapPlain` | violation: two preparers without `--replace` | section 7 |
| `ProfilerRunFrozen` | violation: one run of two profiles, no fault | section 7 |

Why the bounds are enough to be interesting: each holds the smallest data on which
the branch in question differs (sums on both sides of the limit and on it; ranges
that begin and end inside batches; a bucket that overflows into nodes of two
threads; clusters of one side only and above both limits; remainders of
divisions by the number of threads; a source that agrees with the others and not with
the records), and two or three actors, as every
hazard found takes at most that many.  Three threads are needed where a third one
can come between two others (radix barriers, the remainder of a slice).
Deadlock is not checked as such, because every component stops when its work is
done; that the work gets done is stated as liveness, where threads wait for one
another.  `mutants` in `PROJECT.json` has, for every property, a plausible bug of
the code that breaks it; the mutated forms are defined beside the originals.

## 5. Fairness

* `GpuKernel`: weak fairness of each thread.  A launched grid is scheduled until
  it is done; a retry needs another thread's success, so no stronger
  assumption is needed.
* `CudaSession`: weak fairness of the kernel, strong fairness of each request, for
  the reason given next.  Callers owe no further request, and nobody owes a failure.
* `HybridSession`: weak fairness of a caller inside `Execute`, strong fairness of
  its GPU task, since `std::mutex` is released again and again and a
  waiter gets it in the end.
* `FormalRunner`: weak fairness of the runner and of the clock.  A session is owed
  no progress at all: it may hang, which is what the timeout is for.
* `NoPartitioningJoin`, `RadixJoin`: weak fairness of each thread.  A latch is held
  for one of finitely many insertions, so spinning threads get it without a
  fair lock.
* `ArrowCpuScan`, `HybridPlan`, `DatasetSwap`, `FormalPreparation`, `FormalMatrix`,
  `HybridEvaluation`, `EvidenceBundle`, `ProfilerRun`: safety only.  The last two
  are killed and left as their operator likes, and nothing tries again by itself.
  `Q5Query` and `Q5Engines` have no steps: every database is an initial state.

## 6. Proofs

Eight modules hold proofs, for all values of the constants.

**GpuKernel_proof.**  The invariant `IInv` adds four facts to `TypeOK` and
`NoLostUpdate`: a thread's copy of a cell never exceeds the cell
(`CopiesAreBehind`), only matching rows are past `CountMatch`
(`PcAgreesWithMatch`), the counter counts them (`CountIsExact`), and the flag is
up exactly when some thread gave up, for which some nation's true sum does not fit
(`FlagHasACause`).  The copies matter: a refusal is decided on a copy, and implies
that the true sum is too large only because cells grow.  Theorems: `TypeCorrect`,
`NoUpdateLost`, `OverflowIsDeterministic`, `ResultIsExact` (without the flag,
sums and count are exact) and `KernelImplementsAccumulator`, whose step lemma maps
`Swap` and `RaiseOverflow` to the abstract addition and refusal, `Skip` to
nothing.  Assumed: rows are finite and valid, `Total` is additive.

**HybridParts_proof**, the CUDA session.  `IInv` says who holds the mutex (`MutexHeld`), what the
clean flag implies (`CleanMeansZero`), that the flag is up whenever a request
prefetches or launches (`ResetBeforeLaunch`), that what the buffers hold and what is
pending add up to the data set (`KernelProgress`), and that in managed mode no
kernel outlives its request, nor the context (`NoOrphanKernel`).  From it
`ExactResults` and `CleanFlagIsSound`, for any number of callers and failures, in
every mode but managed with late faults.  `SessionsAreEndpoints` is the safety of the
refinement: the steps inside a request map to nothing, its last to the return
of the promise, which may carry rows only because `ResultIsExact` says whose they are, and
no step changes the outcome of another caller.

**HybridParts_proof**, the query.  `PlanAnswersQuery`: on every database that `PlanAccepts`, of
any size, `PlanIsTheQuery` holds.  Each lookup is restated as a sentence about
rows: a home lookup gives nation n for a key exactly if some row has that key and n
is in the region (`HomeLookup`), the order lookup exactly if an order in the dates
has a customer of that nation (`OrderLookup`).  Unique keys turn "some row" into
"the row" (`RowOfKey`), from which the six rows of a match are found and are the
only ones.  Assumed is that `None`, which stands for -1, is no key that can be indexed.

**HybridParts_proof**, the plan.  `PredictionsAreOptimal`: where the balance point is a cut, the CPU and the
GPU take the same time there, so that any other cut gives one of them more to do;
where it is not, an end of the range wins, and three comparisons find it, for every
calibration and against every rational cut.  `PartitionsTileTheTable`: after k batches
the CPU's slices are the rows up to the target (or all of them, if there are
fewer) and the GPU's the rows after it (`CutAfter`); for the cut at a boundary,
either no row is with the GPU or the CPU is full (`AssignedAfter`).  Assumed: lengths are natural
numbers, ratios have a positive denominator, times are numbers of any sign.

**Folding.**  What a fold from the left computes, for any operator and sequence:
`FoldLeft` chooses a function over all sets of positions, and `SolutionExists` and
`SolutionsAgree` show by induction that there is one, hence `FoldOfAppend` and
`FoldInduction` (an invariant of the number of steps and the value is one of the
result).  The library's induction theorems cannot be used, as they take
a predicate as a parameter; that every non-empty set of naturals has a least element
(`LeastNat`, from the library's well-founded relations) gives induction for
sets of naturals (`SetInduction`), and a predicate becomes the set of the
naturals that have it.  The operator of a fold is the module's parameter, so
that each fold of the model is an instance of the module.

**HybridSession_proof.**  `IInv` relates a caller's phase, its task and the mutex;
`TasksAreJoined` follows.  `RequestsReproduce` needs the second invariant, which
says that every child result, wherever it is kept, is the one that the table and
the cut determine or a machine failure: hence requests agree whatever runs
beside them.

`SplitsDoNotShow` and `AutomaticSessionsAnswer` add what the data amount to.  A scan of
rows is followed fold by fold (`ScansAreRight`): its sums are those over the rows read,
until a bad row or a sum beyond `MaxI64`, and its error is one that these rows
deserve.  Merging partials of consecutive slices in their order is a scan of the
slices' concatenation (`MergedRanges`, `ScannedInRanges`), since ranges meet
(`RangesInOrder`) and sums over prefixes only grow (`PrefixesGrow`: no revenue is
negative).  Both ways of partitioning cut inside the table (`RatioCutIsWithin`,
`BoundaryCutIsWithin`), so the children see the first rows and the others, and a
sum of names is the sum of both (`AnswersMerge`).  `SessionIsCut` ties the
state to it.  Assumed: revenues of valid rows are not negative, as the scan checks
(`TablesAreRows`), batch lengths add up to the rows, a ratio is a fraction, nations have distinct names.

`ScansAreExact` and `ScansAreExecutions` are about the scan, for every table, number of threads and
interleaving: it is exact, and it returns what the session takes for one step of its CPU child.
`ScanInv` says of each worker what it has: the scan of the rows read so far, and the batches
it has entered, clipped to its range (`Progress`).  Batches tile the table
(`BatchesTile`, `RowHasBatch`), so entering one at a time counts every row of the range once
(`InputGrows`, `InputAtEnd`), empty batches included; a worker that stopped early has the
error its whole range would have given (`ErrorStays`).  The merge is then that of
`MergedRanges`, whose error is that of the first bad range (`FirstErrorIs`).  `WorkersAreDone`: a worker
runs only if it was started, and the scan returns only after it has joined the started ones, whatever
starts failed.

**HashJoins_proof**, no-partitioning join.  `BarrierInv`: the threads are one barrier apart
at most, and exactly those asleep have passed one more.  The count of the
barrier is the cardinality of the sleepers, and the last to arrive completes the
set of all threads.  From it nobody builds while another probes, and no probe
stands at a node whose thread has freed it.  Assumed: the build keeps the timing
(`Timing`), since the barrier before the free exists only then.

`JoinsAreExact` adds what the table and the counters mean.  `BuildInv`: the chain of a bucket
holds the rows of its hash that their threads have stored, each in one place
(`TableHolds`); a thread that is about to store still finds what it has read, because the
latch is its own (`LatchedIsSeen`), and an insertion adds its row in each of its three
cases (`InsertedHolds`).  Slices end where the next begin and cover both relations
(`SlicesAreApart`, `RowHasThread`), so once the builders are gone the table is all
of R (`TableIsFull`).  `CountInv`: a thread that probes has counted the pairs of the rows
before its own and of the nodes before the one it stands at (`Found`); a node adds as many as
it holds rows of the key (`MatchesAreHeld`), since nothing is freed yet.  The pairs of different
threads have nothing in common, and the sum of their cardinalities is that of their union
(`SumOfApart`, by induction over the threads).  Assumed: `Timing` again, and that R is not
smaller than a bucket, as otherwise the code makes a table without buckets.

**HashJoins_proof**, parallel pass.  A pass is a stable sort by clusters: the place of a row is the
number of rows of smaller clusters and of those of its own before it, plus the padding of the clusters
(`Place`, `Addr`).  `PassInv`: a thread that is past the barrier starts each cluster at
the place of the first row of its slice, because the prefix sums of all threads
add up to it (`StartIsPlace`, by `SumOfApart` again), and its pointer is the place of
the next row it will copy; what it has copied is where it belongs.  Two rows have
different places (`PlacesAreApart`), so no copy overwrites another, and the region of a cluster
has exactly as many places as the cluster has rows (`RegionIsPlaces`, `RowsFillRegion`).  Hence
`PassesAreExact`, for all relations, bits, threads and interleavings.  Assumed: no
write-combining lines (the build's default, `prj_params.h:33`); with them and two threads the
property is false, as section 7 says.

**HashJoins_proof**, radix join, with and without skew handling.  `PhaseInv`: the
threads are in one of a few eras (`InEra`), each of which says where the ones that are awake may
stand and where the ones that sleep; the last to arrive at a barrier starts the next era
(`ArriveInEra`), and in the loop over the skewed clusters the eras go round.  With the era goes what the
passes have put in place: before a barrier the rows of the threads that are past their copy
(`CopiedAt`), behind it the whole relation (`Whole`), and while a skewed cluster is
partitioned anew all but that cluster (`Cleared`), whose histograms replace the old ones
(`Shared`).  The shares of the threads are all rows (`SharesCover`).

The matches are booked as weights: a cluster of the first pass weighs as many as it has, a
task as many as it will find, and clusters weigh as much as their parts (`GroupsAddUp`, `CellsAddUp`),
a shared task as much as its shares (`SharesAddUp`).  `SumInv` is the balance: from the tasks of
thread 0 on, the results, the clusters and tasks in the queue of every node, the skewed
clusters, the large tasks and the cluster that all threads are at weigh together as much as the join
(`Accounted`).  Every step moves weight and leaves the balance: thread 0 distributes the
clusters (`PrepareKeepsQueues`; clusters that no task is made for have no match), a division turns a
cluster into tasks (`ClusterDivided`), a skewed cluster leaves its queue and becomes tasks, large and
small (`SkewedIsDivided`), `Collect` moves the large ones, a join turns a task into a result
(`TaskTaken`).  `DrainInv`: a thread leaves a queue only when it is empty, and nobody fills it
afterwards, so that in the end all the weight is in the results (`RadixAddsUp`).
`OverInv`: a second pass begins when nobody is in the first one.  The sums over queues are
totals of `Folding` (`FoldsAreTotals`).  Hence `RadixJoinsAreExact` and
`EveryMatchIsKept`, for all relations, fan-outs, limits, threads, nodes and interleavings.
Assumed: the pages of the first pass are on nodes whose queue some thread polls
(`PagesArePolled`), and no cluster of the second pass has so many tuples of S that its
join is shared, and none of R (`LargeHasBuild`).  The code ensures neither, and without them the
property is false, as `RadixJoinNuma` and `RadixJoinEmptyBuild` show.

**DatasetSwap_proof.**  `IInv`: everything set aside is whole, whoever is past the
conversion has a whole directory, and while nothing is at the output some
preparer holds a dataset that it is not about to remove (`SomeoneHolds`).  The
last part is why no removal gives up the last dataset.  Theorems
`ReadersSeeWholeDatasets` and `DatasetsSurvive`, for any number of preparers,
failures and signals, as long as no removal fails half way (`RemovalsSucceed`).
`TwoPreparersSucceed`, under the same condition and for at most two preparers: from
the moment one has installed its dataset, the first one is not at the output, and
the other, if it has the first one set aside, finds the output taken
(`FirstIsGone`); a third could take the output away, and the theorem is false for three.
`RunsKeepStages`: a directory is filled or closed only while its manifest is not
whole, and a stage is begun when the one before it is complete (`StagesOK`); for any
number of tables, runs and kills.

**Bundles_proof**, profiles.  `GenuineBundles`: what the audit accepts was collected by
the run that staged the inputs, of the build the index names.  The first half holds
because `captures/` is made once (`OneCollector`).  The second is about order:
a collector hashes the executable before it runs it, the audit after everything,
and builds are numbered as they come, so hashed <= ran <= present
(`HashesAreOld`, `Sound`); when the audit finds the hashed build still there, all
three are one.  `CompletedProfilesAreCollected` and `CollectedRunsAreFrozen` need
the bookkeeping too (`Ledger`): what index, state and captures must be at each
place of a run that works alone, so that a refusal by the index check or the
audit can only have one of the causes of `SeenLate`.  For any number of runs, profiles, failures,
kills, rebuilds and upgrades; assumed is that the plan lists every profile once, and that no
build restores an earlier executable byte for byte.

**Bundles_proof**, evidence.  `SuccessIsAudited`: a finalize that reports success
leaves a bundle the audit accepts.  `EvidenceIsKept` follows the writes: from the
validation on the copies fit the runner's files, after its write each summary is that
of the records, and the manifest declares what is there.  Nothing in it speaks of
the sources or of earlier attempts.  `AttemptsLeaveNothing`: `CopiesAreSources` says
what is copied when, so a finalize of unedited sources that fit is never refused,
whatever was torn before.  For all sources, records, edits and crashes.

**Bundles_proof**, matrices.  `SessionsAreDifferent`: the keys that must differ in a matrix have the ratio,
which only the command of a hybrid session says.  But an engine without a choice of its ratio
has no choice of its key either, so that equal commands come from equal keys
(`OptionsDecideCommand`).  What is run is a fold over what is listed, which
skips what is disabled and never lists an id twice (`RunOfListed`).  For all
matrices; assumed is that an array is a sequence, and that an object has each of its keys
once (`PlansAreJson`).

**FormalRunner_proof.**  For matrices and sessions of any length, any number of
hashes, and a session that hangs, fails or is killed anywhere.  `OutputIsTrue`: line by line,
log and stream together are the setup and the results the session computed, in
order, up to where a signal cut them off.  `ProgressIsWritten`: what was computed is
what was written while nothing was lost, and a session that exits with 0 has
computed and flushed everything.  `SessionsAreWatched`: a session lives while its
runner watches it, or after its runner was stopped, and then no other starts.
`SessionsAreRecorded`: configurations are recorded in their order, each after its session
is over, and those to come have computed nothing.  From these
`OkRunsAreComplete`, `ResultsAreGenuine`, `RecordsAreAccepted` and `SessionsAreAlone`.

**FormalRunner_proof**, judges and readings.  `JudgesAreOne`: two more invariants say what the three
files hold when the matrix is done (`FilesAreComplete`: all that was recorded, with one setup
for each configuration) and what a session has in them (`RecordsAreComplete`:
one that is ok has exactly the requests of its matrix, each with the expected hash).  Then each judge is one step: a good run passes all its tests, and a bad one fails the one
on the status of its setups.  Assumed is that the file of the matrix
says what `Matrix` says and has fixed ratios only (`MatrixIsOfFile`), and each id and engine once
(`ConfigsDiffer`).  `ReadingsAreOne`: the rows of the summary, of the raw records and of
the logs are each the sessions that a reader can use, with the median of the same
requests, so a report is a function of the same set of observations.  Assumed is that the runner keeps only what
it could read, and that an ok session has a measured request (`EndsAreRecorded`).

Only model-checked: everything under fairness (`GridTerminates`,
`ExecuteReturns`, `SessionsEnd`, `JoinsReturn`); the
sums of `EnginesAgree`; the write-combining lines (`LinesAreExact`); that every request
of `Q5Endpoint` returns.  The sums and lines use folds over sets and
sequences that would each need an instance of `Folding`.  The invariants `TypeOK`
of the kernel, `CleanMeansZero` and `RequestsAgree` are only proved.

## 7. Where code and documents disagree

Five disagreements are runs of their own:

* `RadixJoinNuma`.  The second-pass task of a cluster goes to the queue of the NUMA
  node its memory lies on (`hashjoin-cpu/src/parallel_radix_join.c:1332`), a thread
  polls the queue of its own node only.  With fewer threads than nodes that hold
  pages, clusters are never joined, against "`@return number of result tuples`" of
  `parallel_radix_join.h:31`.
* `RadixJoinEmptyBuild`.  With `--enable-skewhandling` a join task is shared by all
  threads as soon as one of its sides is large
  (`hashjoin-cpu/src/parallel_radix_join.c:1479`).  One that has no tuple of R
  makes `bucket_chaining_join` round 0 up to a power of two, which is 0 again, allocate no
  bucket and look one up for each tuple of S; the count is anything, against the
  same line of `parallel_radix_join.h`.
* `FormalRunnerIdentity`.  `_run_configuration` binds the parsed session before
  `_validate_session_identity` raises (`scripts/run_formal_benchmarks.py:934`), and
  goes on with it: a session of another dataset is recorded as ok.
* `DatasetSwapPlain`.  Without `--replace` the output is looked for only before
  the conversion; one that appears meanwhile is set aside and removed
  (`scripts/prepare_arrow_dataset.py:258`), although a test is named
  `test_prepare_dataset_is_non_destructive_without_replace`.
* `ProfilerRunFrozen`.  `_execute` freezes and audits the directory while
  `orchestration.json`, whose checksum the manifest holds, still says `collecting`,
  and rewrites it as `complete` afterwards (`scripts/run_formal_profilers.py:818`):
  the bundle of every successful run fails its next audit, against "Run and freeze
  the canonical Formal SF1/SF10 profiler matrix." in line 2.

Others were met while modelling; each can be reproduced, but is not among the
listed runs:

| Where | What happens | To reproduce |
|---|---|---|
| `q5_arrow_cuda.cu:649` | a prefetch that fails while it is timed leaves both flags up, so the next managed request neither resets nor prefetches, against the comment at line 829; its rows are right, its `h2d_ms` is not | `CudaSessionResidency.cfg` with `CudaSession` |
| `resident_protocol.py:334` | the mismatch record of `memq5_arrow_session` keeps its result and hash, which the parser refuses with the whole log: requests completed before are lost | `FormalRunnerIdentity.cfg` with `CompletedRequestsAreKept`, `Repeat = 2` |
| `no_partitioning_join.c:652` | with `--enable-timing=no` no barrier separates the probes from the free of overflow nodes | `MCHashJoins.cfg` with `Timing = FALSE` |
| `parallel_radix_join.c:1156` | with write-combining lines and two threads a line written whole overwrites tuples of the thread before | `Lines` of `HashJoins` with `NThreads <- 2` |
| `q5_arrow_scan.cpp:238` | lines whose revenue is 0 (a discount of 100%, which every engine accepts) make a group that the C++ engines and `python_q5.py:83` drop, and that the SQL of the oracle, cuDF and `arrow_q5.py` report; one expected hash cannot be met by both, against "所有实现使用相同的 Q5 条件…并与独立 oracle 比较结果" (`README.md:26`: all implementations use the same conditions and are compared with the oracle) | `Q5ZeroGroups.cfg` with `MCHybridParts` |
| `prepare_formal_sf10.py:80` | a q5 stage whose validation failed has written its manifest and is complete for the next run | `FormalPreparationValid.cfg` with `FormalPreparation` |

And these are properties of the design rather than contradictions.  With three
preparers a handler may put back a dataset in the place of one whose preparer has
returned (`SuccessStands` with a third preparer).  With two preparers, one of whose
removals fails half way, the remains may come back to the output (`OutputIsWhole`
with `"remove"` in `Failing`); `DatasetSwap` allows both and the run keeps them apart.
A torn last line makes the parser drop a whole log (`resident_protocol.py:355`).
Finalizing a complete evidence bundle again, with a source that has changed,
copies the source before it is refused, so the bundle no longer passes its audit
(`formal_evidence_bundle.py:608`).  When a profile chooses its ratio itself, ncu runs
it once more and may see another ratio, while its capture carries that of nsys
(`run_formal_profilers.py:760`); a chosen ratio of 0 or 1 passes every collection
and is refused at the finalize.  A fixed ratio all of whose requests failed is
dropped from the evaluation without a word (`evaluate_hybrid_model.py:318`).  A
session whose log the runner refused is not in the raw records, but its log may still be
read on its own, so that logs and directory may give two reports (`accepted` in `ReadingsAgree`).  A
request of no measured time ends a matrix (`run_formal_benchmarks.py`, throughput).
The in-memory engines add without a check (`q5_cpu.cpp:35`, `q5_cuda.cu:223`) and
report a wrapped sum where the Arrow engines refuse; `execute_q5_cpu` starts its
threads into a plain vector, so that one that cannot be started ends the process.
Acero accepts what the plan builder refuses (negative or very large keys, a region
name twice) and adds up nations of one name; cuDF answers an unknown region with
no rows; the one-shot hybrid answers an empty table without looking at the region.
`EnginesAgree` is about databases that the plan builder accepts, with
distinct nation names.  A matrix may name `gpu_chunk_rows`, which is recorded and never handed to the
session (`run_formal_benchmarks.py:545`).

## 8. Assumptions, and what is not modelled

* Doubles are exact rationals in `HybridPartition`; times are not modelled.
* Nation names are distinct (`NamesAreDistinct`), as in TPC-H: the hybrid session
  merges by name where a device keeps keys apart (`q5_hybrid.cpp:169`).
* `pthread` barriers wake by their last arrival alone.  `barrier.h` has a barrier
  for systems without them, whose single `pthread_cond_wait` a wakeup without a
  signal would pass.
* Memory is sequentially consistent; `lock.h:41` unlocks with a volatile store,
  which suffices on x86 as long as the compiler keeps the order.
* The lengths of batches are natural numbers (`LengthsAreNatural`), a ratio is
  one of naturals with a positive denominator (`RatiosAreParts`), measured times are
  numbers of any sign (`TimesAreNumbers`).  -1 is no key (`NoneIsNoKey`).
* A plan names each profile once and at least one (`PlanAssumption`), with its
  ratio or none (`RatiosAssumption`, `NoneAssumption`); a torn file is like no
  file that was written whole (`TornAssumption`).
* R has at least `BUCKET_SIZE` tuples (`TableIsNotEmpty`): `NPO` otherwise asks for
  a table without buckets.
* A page's node has a queue (`OptionsOK`); `get_mempolicy` may report one
  beyond the four that exist (`cpu_mapping.c:139`).
* `get_numa_id` follows its table of 64 threads; `NodeOf` is that table's rule.
* A session is one process: descendants of a wrapper such as `conda run` may
  outlive the SIGTERM to their group's leader (`process_monitor.py:56`).
* The matrices of `JudgesAgree` have fixed ratios (`MatrixIsOfFile`): the records of an
  automatic ratio must agree in more than is modelled there.  `materialize-correctness`
  refuses a matrix that has an engine twice, and so does `ConfigsDiffer`.
* The runs of `ReadingsAgree` are made of whole ends of sessions (`EndsAreRecorded`), not
  of the steps of `FormalRunner`.
* In the formal programs a file is its content and a checksum is the content it
  stands for; a row of a result stands for its hash; ratios are counted in parts
  of `One`.
* One finalize of an evidence bundle runs at a time.  A collection of a profile is one
  step: a killed run leaves nothing of it.  The programs move index, state
  and manifest of a profile directory into place, so these are never torn.
* Between runs of the formal preparation only the operator changes directories,
  and one run works at a time.

Partly modelled: of the in-memory CUDA engine only what its kernel adds up, not the
transfers of its memory modes; of `execute_q5_cpu` not its threads, which work on
ranges as those of `ArrowCpuScan`; of the one-shot hybrid not the task, which
`HybridSession` has; of the Python engines the SQL and cuDF's merges
(`arrow_q5.py` joins in the same order, `python_q5.py` looks up as the
in-memory plan does).

Not modelled: loaders, containers,
result formatting and command lines, sequential and without retained state; the
remaining joins (planned); the join data generator, counters and drivers; the
oracle tools, the older result formats (`compact_results.py`,
`benchmark_schema.py`) and the capture of the environment, which transform
one file into another and keep nothing; how the reports of nsys and ncu are
parsed (a collection's outcome is chosen among those the parsers tell apart);
build files.  `PROJECT.json` names the sources of each.

## 9. Running it

    tlc -workers 2 -config MCGpuKernel.cfg MCGpuKernel
    tlapm GpuKernel_proof.tla

The module of each configuration is listed under `runs` in `PROJECT.json`.
