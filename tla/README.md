# A TLA+ model of OmniScope

OmniScope reads LLVM IR of programs that mix languages and reports memory and
ownership defects at the borders between them. It is one process, written in
Zig: `main.zig` builds a `Pipeline`, the pipeline loads a module, runs 34
analysis passes over a shared `PassContext`, turns unfreed allocations into leak
reports, deduplicates what was reported and prints it. Four of the passes hand
the functions of the module to a work-stealing pool of threads. Beside it the
repository keeps a corpus of test programs in C, each function of which says in a
comment what is wrong with it, and example programs that use foreign libraries.

This directory holds TLA+ modules for the parts of that process which keep state
and can go wrong in ways a test hardly reaches, TLC configurations that check
them on small instances, and theorems about them that TLAPS checks for all
values of the constants. `PROJECT.json` lists components, runs, mutants, the
source lines of every definition, findings, hazards and theorems.

Source paths below are relative to `src/src/` of the repository, those of test
programs to `src/`.

## 1. The system: inventory

### Components that keep state

| component | state | operations | interacts with |
|---|---|---|---|
| work-stealing executor (`pipeline/parallel.zig`) | one deque per worker (`array`, `bottom`, `top`), thread handles, per-worker results | `run`, `runSequential`, `workerLoop`, `push`, `pop`, `steal`, `len` | called by four passes; calls their worker function on pool threads |
| per-function workers (`ptr_lifetime.zig`, `pointer_ownership.zig`, `callback_escape.zig`, `ffi_boundary.zig`) | a mutex and counters per pass, slots of statistics, degraded functions, thread-local hook state (`registry/hooks.zig`) | filter a function without the lock, analyse it under the lock, store statistics, report unpaired transfers | run by the executor, write the shared context |
| pass manager (`pass/manager.zig`) | registered passes, name map, cached order | `registerPass`, `resolveDependencies`, `run` | called by the pipeline, calls each pass |
| pass table (`pipeline_registration.zig`, the passes) | tables of `PassContext`: call graph and edges, memory graph, relevance, surfaces, resolution, taint, boundaries, transfers | each pass reads some and fills some | through the context only |
| issue pipeline (`pass/pass_context_impl.zig`, `filter/`, `pipeline/pipeline.zig`, `diag/aggregator.zig`) | `reported_keys`, the issues of the data-flow graph, the allocation records, the aggregator's keys and diagnostics, the final list | `addIssue`, leak report, `Aggregate`, `flush`, reconstruction, `getIssues`, `getIssuesOwned` | every pass reports into it; output reads it |
| memory graph (`semantics/memory_graph*.zig`) | nodes, alias maps, contents of slots, free sites, edges between blocks | `trackAlloc`, `trackAlias`, `trackFree`, `recordContentSource`, the double-free queries | filled by ptr-lifetime, pointer-flow and others; read by free-validation, danger-surface, the leak report |
| pointer lifetime tracking (`pass/analysis/ptr_lifetime/`) | per function: pointer map, free sites; per module: memory graph, allocation records | one handler per instruction kind, double-free check, propagation of freed marks | writes the memory graph and the records |
| danger surface and relevance (`pass/analysis/danger_surface.zig`, `semantics/memory_graph_analysis.zig`, `pass/pass_context_impl.zig`) | `cross_lang_edges` and `cross_edge_by_callee`, `danger_surface_relevant`, `ffi_auto_relevant`, `relevant_functions` | `addCrossLangEdge`, lookup of an edge, one visit per node, `isOnDangerPath`, `isOnDangerPathFull` | filled by call-graph, ptr-lifetime, danger-surface in turn; asked by every pass that reports |
| cross-language data flow (`pass/analysis/ffi/cross_lang_dataflow.zig`) | per module: allocations, maps from values and functions to them, remembered stores | scan of the calls, orphans, double-free paths | reads the edges of the call graph, reports issues |
| C test corpus and examples (`corpus/`, `examples/`) | variables and resources of one function | its statements | is analysed; its comments say what should be found |
| fact store and query engine (`fact/`) | facts, indices by kind and subject, a dirty flag | `insert`, `query`, `clear` | foundation passes, each with a store of its own; the taint pass |
| lifetime engine (`lifetime/`) | resources, states, transitions | `createResource`, `transition`, `meetState` | pointer-ownership creates resources in it |
| function summaries (`dataflow/summary_propagation.zig`) | cache by callee name | `isArgumentOwned` and others | cross-lang-dataflow's leak decision |
| shared pass context (`pass/`, `types/pass_defs.zig`) | caches of edge searches, zones and names; the allocation tracker | `addCrossLangEdge`, lookups, `insertAlloc`, `markFreed` | all passes |
| resource contracts (`semantics/resource/`, `resource/`) | contract tables, ownership states of one analysis | contract lookup, ownership transitions | free-validation, ffi-boundary |
| FFI matcher (`ffi/`) | declarations and definitions seen | add, match | ffi-analysis, within the pass |
| common containers (`common/`) | arenas, tries, interner | container operations | everything |

Everything else is a table of names, a classification of one value or name, a
wrapper of LLVM's C API, or formatting. `PROJECT.json` "components" lists all of
it: every Zig and C++ file of `src/src` and every modelled C program is in one component, with the
reason why it is not modelled.

### Hard behaviour and what makes a component correct

* **Executor.** Threads share deques without a lock. Correct: every item is
  processed, none twice, the results count each, `run` ends; also with spawns
  and allocations that fail, and with memory that reorders.
* **Workers.** One function takes one of half a dozen return paths, some with
  the lock. Correct: each function is counted once, failures are recorded, the
  lock is always released, and a function's report speaks of that function.
* **Pass manager.** A cached order can go stale; `swapRemove` permutes the queue;
  passes fail. Correct: any order used is a complete one that respects the
  dependencies declared now; a cycle is reported exactly when there is one.
* **Pass table.** Only some orders between passes are declared. Correct: who
  reads a table runs after who fills it.
* **Issue pipeline.** The same defect is reported by several passes with
  different severities, while the classification it is judged by changes.
  Correct: reported once, memory-safety issues never lost or lowered by noise
  rules, counts that survive folding.
* **Memory graph and pointer lifetimes.** Names of an object come and go, free
  marks must follow them, and two frees are one defect only on a common path.
  Correct: compared with what the function does when it runs, no freed object
  looks live and no double free on a path goes undetected or unreported.
* **Danger surface.** Three passes each fill a table the next one reads, any of
  them may run out of memory half way, the nodes are visited in the order of a hash
  map, and two judges answer the same question. Correct: lookups agree with the
  list of edges, what is dangerous and its other names are relevant in any order,
  transfers of ownership are not, the judges agree.
* **Cross-language data flow.** Allocations and releases are paired by values,
  stores, and at last by function. Correct: compared with the executions of the
  function, a lost allocation is reported and a correct function is not.
* **Test corpus.** The labels are the yardstick of the analyser's quality.
  Correct: each says what the function does on some path.

All hazards, with the line where they bite and the properties aimed at them, are
in `PROJECT.json` "hazards"; those without a property have a note saying why.

## 2. Modules

| module | models | proofs |
|---|---|---|
| `TaskBag` | what the executor promises: a bag of items, each performed once | |
| `ParallelExecutor` | one `run()` of the pool, every atomic access a step | `ParallelExecutorProofs` |
| `FunctionWorkers`, `MCFunctionWorkers` | one run of a pass on that pool | `FunctionWorkersProofs` |
| `PassSchedule` | what the manager promises: orders that are schedules | |
| `PassManager` | registration, Kahn's algorithm, cache, runs | `PassManagerProofs` |
| `AnalysisPasses`, `MCAnalysisPasses` | the real passes under that manager (EXTENDS `PassManager`); the MC module adds a client that calls the manager freely | `AnalysisPassesProofs` |
| `IssueFilter` | the five layers of the filter, as operators | `IssuePipelineProofs` |
| `IssuePipeline`, `MCIssuePipeline` | `addIssue`, leak report, aggregation, reconstruction | `IssuePipelineProofs` |
| `MemoryGraph` | the memory graph, as operators on a record | `PointerLifetimeProofs`, `DangerSurfaceProofs` |
| `PointerLifetime` | the pass ptr-lifetime on one function, over a memory graph | `PointerLifetimeProofs` |
| `DangerSurface` | call-graph, ptr-lifetime and danger-surface in a row (EXTENDS `MemoryGraph`) | `DangerSurfaceProofs` |
| `CBody` | the statements of a C function that concern resources | |
| `CrossLangDataFlow` | the analysis of a module's calls (EXTENDS `CBody`) | |
| `CExecution` | what a function does on all its paths (EXTENDS `CBody`) | |
| `Corpus`, `MCCorpus` | analysis and execution of the same program, side by side | |
| 18 program modules | the 19 test programs, a module per C file but for the two of C# (below) | |
| `SumTheorems` | sums over finite sets and what the proofs need of them | itself |

`CBody` flattens nested statements with a RECURSIVE operator, so the prover does
not reach the modules over it; every other module can be proved about.

### ParallelExecutor

Variables are those of the code: `array`, `capacity`, `bottom`, `top` per deque,
`pc`, `item` and the local loads per worker, `mpc` and `next` for the main
thread, `results`. Actions follow the code's steps: `Push` is the pushing loop
(with growth of the array and the failing allocation), `Spawn`, `Join`,
`JoinUndefinedHandle` and `Return` the main thread, `PopBegin` … `PopEnd` the
owner, `StealTop`, `StealBottom`, `StealCas` a thief, `ScanBottom`, `ScanTop` and
`Exit` the look over all deques before a worker leaves, and `Process` the call of
the pass. A store of `pop` to `bottom` is `.unordered` in the source: with
`BufferDepth > 0` it goes into the thread's `buffer` and `Flush` makes it visible
later; depth 0 is sequential consistency. Joining the handle of a thread that
was never spawned is undefined in the code and ends in `crashed` or nothing.

### FunctionWorkers

The pool is taken as the bag it implements; a thread takes any item. The actions
are the return paths of the worker functions: `Filter`, `FfiRelevance`,
`SearchCallGraph`, `Reset` (of the hook), `Lock`, `ZoneGate`, `AnalyzeFails`,
`Analyze`. A function is a record of the answers the filters get (third-party code
and names already known to cross, for ptr-lifetime, among them) and of its
calls of `into_raw` and `from_raw`, with whether memory sufficed to store the former. The hook state is a variable per thread.

### PassManager, PassSchedule, AnalysisPasses

One step is one iteration of a loop of `resolveDependencies` (`Seed`, `Dequeue`,
`Relax`) or `run` (`RunPass`); `OutOfMemory` may end any of the allocating steps.
If the first allocation of `registerPass` fails nothing changes. A failure of the
second, after the pass was appended (`manager.zig:82`), leaves a manager with a pass that has no name;
every caller passes the error on and gives the manager up, so no later call
sees that state and it is not modelled.
`AnalysisPasses` gives each of the 34 passes (nine in the safety-only pipeline)
its name, declared dependencies, tables read and tables filled, and runs them
under `PassManager`; a pass that reads a table nobody has filled is recorded in
`starved`. The order that results is deterministic: cfg, unwind-boundary, dfg,
string_safety_ffi, alias, layout_mismatch, lock, return-check, call-graph,
integer-overflow, ptr-lifetime, ffi-type-mismatch, danger-surface, pointer-flow,
free-validation, ownership-violation, ffi-detector, memory-safety,
callback-escape, ffi-boundary, buffer-overflow, error-propagation-tracer,
gc-safety, cross-lang-dataflow, callback-lifecycle, pointer-ownership,
ffi-unsafe, jni-leak-detector, ffi-body-check, abi-compat-checker, malloc-check,
SemanticResolver, surface-classifier, rust-ffi-filter.

### IssueFilter, IssuePipeline

`addIssue` is one step, as in the code: suppression by origin, the surface's
gates and caps, the risk of the origin, dedup key, append. `ClassifySurfaces` is
the surface-classifier pass, which may come between any two reports. `ReportLeak`
and `NotALeak` walk the allocation records, `Aggregate` and `Flush` are the
aggregator, `Rebuild` finds each diagnostic's issue by its message, as the
pipeline does. Inputs: what the name tables say of a function (`Functions`), the
issues, and for an allocation whether anything manages it and whether its
confidence is high enough. Hashes are modelled by what is hashed. The time budget
and the sampling of modules with more than 500 functions are the freedom of
`LeaksEnd` to come at any record. Pattern folding never applies, since the
aggregator sees every function as `(unknown)` (see section 5).

### MemoryGraph, PointerLifetime

`MemoryGraph` keeps the maps of the code: `nodes` (value to node), `store`
(`node_store`), `canonical` (`alias_to_canonical`), `contents`
(`content_sources`), the free sites with their blocks, and `edges` (`bb_edges`).
`PointerLifetime` has one action per instruction kind (`handleAlloca`, `Malloc`,
`Realloc`, `handleLoad`, `handleStore`, `StoreParameter`,
`handleBitCastAndConversions`, `handlePhi`, `FreeCall`), each the whole of
`trackInstruction` and `checkDoubleFreeViolation` for it, then `PropagateFreed`
for the end of the pass. The instructions are chosen by TLC as the pass walks, so
a run covers all functions of the shape the module's header gives. History
variables keep what the function does when it runs (`points` and `frees` per
path, and in `resized` the values given to `realloc`), and the properties
compare the two. A description is known
by the instruction that allocated it: `texts` are those not released. A double free
that the pass finds is in `detected`; it is in `reported` only if the pass then
takes the allocation for relevant. `RelevantAllocs` is empty: both tables that
`isRelevantAlloc` asks are filled by passes that run after this one (the order is
proved in `AnalysisPassesProofs`). `isRCPatternFree`, which should excuse a free
behind a reference count, is `FALSE`: it asks for a comparison of a pointer with an
integer constant, and the operands of a comparison have one type.
`areMutuallyExclusive` asks LLVM for the successors of a block instead of its
terminator (`ptr_lifetime_utils.zig:355`), which is undefined; its answer is a
free choice where it matters.

Left out: stack, global and parameter sites of entries and their reports,
resource handles and `dlsym`, call edges,
lifetime intrinsics, and loops: the pass walks each block once.
Functions of one module are taken one at a time, as the pass's lock makes them;
values of two functions are disjoint.

### DangerSurface

The program is any short one, written while the passes walk it: `ExtractEdge`
and `ExtractFails` fill `cross_lang_edges` and its index, `NextFunction`,
`Alloca`, `HeapAlloc`, `KnownAllocator`, `Derive`, `Store` and `FreeCall` build
the memory graph with the operators of `MemoryGraph`, `VisitNode` and `VisitFails`
are danger-surface, one key of the graph at a time in any order. A value is the
number of its instruction. `info` keeps of a node what the judges look at: its
zone, whether the languages of allocation and free differ, whether its allocator
names a transfer. A lazily made node has an unknown language, which differs from
every other one, as in the code. `PointerLifetime` models what ptr-lifetime finds
and reports; here the pass only builds the graph, but over several functions. Left out: the
overrides of languages, values shared by functions, and a node of a load that no
key leads to.

### CBody, the program modules, CExecution

A function is a sequence of statements: call, copy, access through a pointer,
branch, loop, return. `ZlibBinding`, `OpensslWrapper`, `SqliteBinding` are the
dense bindings of `corpus/ffi-dense`; `SimpleFFI`, `NetworkFFI`, `BoundaryTest`
and `StressPatterns` the small to large programs of `corpus`; `CppOperatorNewBugs`,
`GoCgoBugs`, `GoTinygoBugs`, `CsharpBugs` (two programs), `RustBugs`,
`RustMultiLangBugs` and `ZigCimportBugs` those of `corpus/red_team_test`;
`DangerousC`, `ExampleOpenssl`, `ExampleSqlite` and `ExampleZlib` those of
`examples`. What does not concern a resource is left out: texts, sizes, printing,
threads. The fourth field of a function is what its comments claim, whether or not
it does that.

`CExecution` executes a function on all its paths at once, an allocation
succeeding or failing, a loop making up to `Turns` turns, and collects what the
paths come to: a leak, a result handed out, a double free, a use after free, a
release by the wrong function, a dangling return, a null pointer used. The
libraries are external: what they allocate and release is a table.

### CrossLangDataFlow, Corpus

`ScanCall` is the loop body of the pass over one call: a new allocation, a
release (by the value, by a remembered store, by the last allocation of the
function), a pass to another language, a use of what is released, the store of
the result. `CheckOrphan` and `DetectDoubleFreePaths` are the two passes over the
allocations, `SkipModule` the early return of a module without crossing calls.
`IsOrphan` has the exemptions of Rust's internals (`rust_whitelist`), of
garbage-collected owners in the contract database (`shouldReportLeak`) and of names; the contracts
of Java are left out, as no C program calls Java.
The module is the build the test script makes (`-O0 -g`,
`scripts/regression_test.sh:55`): each read of a variable is a new value. The call
sequences of 117 functions were compared with the IR checked in beside the
programs; they agree but for `printf`. `Corpus` analyses a program, executes one of its
functions and compares. `Disputed` names the eight functions that do not do what
their labels say (section 5).

## 3. What the runs check

| run | question and bounds | distinct states |
|---|---|---|
| `pool_three` | 3 workers, up to 4 items, arrays that start with one slot so that they grow, sequential consistency, failing spawns and allocations: no item done twice, results complete, and the executor implements `TaskBag` | 3.2 million |
| `pool_store_buffers` | 2 workers, 4 items, two buffered stores per thread: no item is lost, and `run()` ends | 45 000 |
| `pool_item_twice` | finding: one buffered store is enough for an item to be done twice | |
| `workers_passes` | 4 passes, up to 3 functions, 3 threads, functions of every kind: what became of each function is recorded, and only its own transfers are reported; every pass ends | 1.1 million |
| `manager_passes` | the manager with two kinds of client: a free one (3 names, five dependency lists: none, chains, two at once, one twice; registration between and after runs), and both real pipelines, any two passes failing | 950 000 |
| `issues_filters` | 3 reports of 11 issues, 2 leak records, surface classification at any point, one failed allocation, fold threshold 1 | 2.2 million |
| `issues_functions` | finding: two functions each lose an allocation, one leak is shown | |
| `lifetime_functions` | 2 variables and up to 5 instructions, in a line or over four blocks | 4.9 million |
| `lifetime_texts` | finding: a store copies a released description | |
| `danger_short` | 2 functions, up to 2 crossing calls and 3 instructions, memory running out in any pass: the index of edges, what must and what may be relevant, and the second judge | 3.9 million |
| `danger_aliases` | finding: the other name of a relevant value is not relevant | |
| `corpus_dataflow` | all functions of the 19 programs, up to two turns of loops: the labels are true but for eight disputed ones, which are false, lost allocations are reported, single orphans are real, safe functions are quiet but for three false alarms, which are named | 2 000 |

Why these bounds are enough. In the pool, a race needs an owner and two thieves at
one last item: three workers; four items give a deque two items to grow its array
and a sequential run. With two workers and two buffered stores per thread a pop
can begin with the store of the pop before it still pending. In the workers, two
functions per thread are needed for state left by the one before. In the manager,
three passes make every shape of a dependency graph that differs for Kahn's
algorithm: a chain, a fork, a join, a cycle with and without a tail, a duplicate
edge; the theorems remove this bound. Of issues, three reports are needed for two
of one group and one of another beside two leak records; the code's threshold of
5 is a constant that the run lowers to 1. In the lifetime run, five instructions
make an allocation, two stores, a load and a free, or two frees and what lies
between, on either side of a branch. For the danger surface, three
instructions make an allocation, another name of it or its release, and a call
that crosses; the fast path differs only between two functions, and the index
between one edge of a callee and two. The corpus runs have no bound but `Turns`:
two turns release and allocate again what a loop allocates.

**Properties worth a word.**

* `NoItemLost`, `AtMostOnce`, `ResultsComplete`: together "all items processed
  exactly once" (test at `pipeline/parallel.zig:543`).
* `OutcomesRecorded`: once a pass is over, each function is counted once, the
  failed ones are recorded as degraded, and the slots add up; the mutex hides the
  counters from every other test of this.
* `ConsumersFollowProducers` names the exceptions the code has: ptr-lifetime and one more pass in each pipeline ask for relevance
  before danger-surface has run.
* `NeverSuppressedReachGraph`, `SeveritiesKept`: what the filter may never do, for
  each origin, surface and category.
* `KeptIsShown`: each issue the aggregator kept is shown by its message or by the
  summary of its kind. What it keeps is another question: it should be one issue per
  function, kind, file and line, which `KeptPerFunction` says and `issues_functions`
  refutes. `CountsAddUp`: the overrides of folded groups add up to the issues kept.
* `SameObjectSameNode`, `FreedIsSeen`: in a function without branches the alias
  structure is exact for live names, however the variables are reused.
* `DirectFreesAreExact`: for frees and resizes by the allocating value, the
  double-free query over blocks is equivalent to "some path frees it twice". A
  `realloc` of a pointer that was stored and loaded again breaks this even without
  a free (allocate, store, overwrite by a parameter, load twice, resize both: the
  node has two sites, of another object than the node's own), which takes seven
  instructions, more than the run has; the proof found it, and the hypothesis
  excludes it.
* `DoubleFreesAreDetected`: though only neighbouring sites of a value are
  compared, no double free of a value on one path is missed. That it is also
  reported is not true (section 5): the model keeps `reported` apart.
* `TextsOwnedOnce`: no description is released twice or leaked.
* `LookupsFindFirstEdge`: the index agrees with the list even when the pass that
  fills both runs out of memory between them; the excepted cases are named.
* `DangerIsMarked`: in any order of the nodes and in spite of the fast path, what is
  dangerous for a reason of its own is marked, and nothing is marked but that and its
  other names. It leaves open which of the other names are marked and what becomes
  of transfers. The comments promise all of the names, which is
  `AliasesAreRelevant`, refuted by `danger_aliases`, and none of the transfers
  (section 5).
* `JudgesAgree`: danger-surface and the judge of single values mark the same
  values but for transfers of ownership in functions of the fast path.
* `LabelsAreTrue`: the comments of 19 programs, checked against all executions:
  the label of a function holds exactly if the function is not among the eight
  disputed ones.
* `LostAllocationsAreReported`, `SingleOrphansAreReal`: false negatives and false
  positives of the data-flow analysis, with the exceptions the code has by name.
* `SafeFunctionsAreQuiet`: a function labelled safe is reported exactly if it is one
  of three, and each of these reports has one of two causes.

Every property of a passing run has a mutant: a plausible bug in one mapped
definition, kept in the module beside it and named `Mut…`, that the property
refutes.

**Fairness.** Used by three runs. `pool_store_buffers` and `workers_passes`: weak
fairness of the main thread, of every worker and of the flush of a store buffer:
the operating system schedules every thread and hardware drains its buffers; no
fairness on the mutex itself is assumed, since the property needs only that
*some* worker with the lock goes on. `manager_passes`: weak
fairness of the manager's own steps, a single thread that does not stop in the
middle of a call; nothing makes a caller register or run.
`CHECK_DEADLOCK FALSE` is set only in `manager_passes`, where a pipeline ends
when its run ends, and in the corpus runs, where an execution ends.

## 4. What is proved

All proofs are by TLAPS, for every value of the constants, from the named
assumptions on constants in the modules; TLC evaluates these in the passing runs.
Every invariant named below was checked by TLC on a small instance first.

* `ParallelExecutorProofs`, for any number of workers and items, in layers.
  `Core` holds for every `BufferDepth`: types, the locals of an owner and of a thief,
  and that no `bottom` a thread can read, now or once a store in flight lands, is
  above a slot nobody wrote. Hence `TypeCorrect`: no pop or steal reads outside what was
  pushed. `Base`, for every `BufferDepth` too, states the ranges over
  the owner's view of its `bottom`: every item pushed is covered (in a slot between `top`
  and that `bottom`, with a worker, or done), a worker that leaves has found its own
  deque empty and nobody refills it (`DrainStep`), and `run()` joins every worker. Hence
  `NothingLost` and `CountsNeverShort`: the missing fence can hand an item out twice
  but never lose one, and the sum `parallelFor` returns is at least the number of
  items. `TwiceInv`, still for every `BufferDepth`, bounds what a late store can do:
  `AtMostTwice` alone is not inductive, so `SlotInv` says that the item of a slot has
  been handed out at most once if `top` has passed the slot and once more if the
  owner's end of the deque (`Extent`) is below it. `top` moves only up and the end only
  down while workers run, and whoever takes an item moves one of the two over its slot.
  Hence `ItemsAtMostTwice` and `CountsAtMostDouble`, and only a slot that both have
  passed can have been taken twice. (TLC finds no violation of `TwiceInv` either on the
  instance of `pool_store_buffers`.) `Inv` adds, for `BufferDepth = 0`, that the items in a range are
  nobody's yet, each once: a thief at its compare-and-swap either has an old `top`, and
  fails, or a slot in that range; an owner past its decrement claims the last slot
  only through its own compare-and-swap. Hence `ItemsAtMostOnce`, `ResultsAddUp` and
  `ExecutorImplementsBag`, the step simulation of `TaskBag` that maps the items not
  pushed and those in the ranges to the bag. The assumption is needed there:
  `pool_item_twice` refutes the first with one buffered store. `AtMostOnce` alone
  is not inductive, since it says nothing of items still in a deque.
* `FunctionWorkersProofs`, for any number of threads, functions and calls:
  `TypeCorrect`, `AnalysesExclude`, `EveryOutcomeRecorded`, `NoForeignReports`,
  `SequentialPassReports`. The counters: the items to take, the busy threads and the
  counted outcomes add up to the list in every state. The hook: its state is empty
  when a thread begins to analyse, so what it holds afterwards is what a fold of the
  hook over the calls of that function leaves, which `HookFold` shows to be the
  transfers opened and not closed later.
* `PassManagerProofs`: `TypeCorrect`, `OrdersAreSchedules`, `RunsFollowDependencies`,
  `RunsAreComplete`, `ReportedCyclesAreReal`, `ManagerImplementsSchedule`.
  The invariant: `in_degree[i]` is the number of edges into `i` not relaxed yet
  (as the cardinality of that set), in the main loop a node is queued or
  in the result exactly when it is 0, in one of the two, once. From it follow that the result is a
  schedule, that a queue that runs dry early leaves a real cycle, and the step
  simulation of `PassSchedule`. `TypeCorrect` also says that an in-degree, which is
  unsigned in the code, never wraps.
* `AnalysisPassesProofs`. For any pipeline of passes with different names:
  `PipelineIsManaged` (a pipeline is a behaviour of the manager, so the theorems above
  hold of it), `ContextTypeCorrect`, `DeclaredProducersSuffice`, `FilledIsFound`. A pass
  finds the tables of every pass upstream of it that did not fail: the passes that ran
  before it are closed under dependencies, and upstream is what every closed set
  contains; and nothing is lost between two passes, so a table is missing only if every
  pass that ran earlier and fills it failed. For the two pipelines the program
  registers, `ProducersComeFirst` (which states `ConsumersFollowProducers`) and
  `PipelinesAreSorted`: no name is missing and no dependencies form a cycle. Orders that
  no pass declares follow from the order of registration and from `swapRemove`. For
  them a *trace* lists what Kahn's algorithm does: the order, each pass's place in it,
  the round it waits for, its slot, and the queue after every round. `TraceStep`
  shows, for any pipeline, that the queue is always a prefix of the one listed and
  the result a prefix of the order, if the lists satisfy `IsTrace`; that is a
  condition on numbers, proved entry by entry for the nine and for the 34 passes
  (`SafetyTrace`, `AllTrace`, which are the orders given in section 2).
* `IssuePipelineProofs`, for any functions, issues, leak records and threshold:
  `FilterKeepsSeverities`, from bounds on each of the five layers composed;
  `DefectsEnterOnce`, which needs that the key of every issue in the graph is
  recorded (`KeysRecorded`); `TypeCorrect`; `NeverSuppressedKept`; `FoldingShowsKept`,
  `DroppedForKept` and `CountsAreRight`. For the last three the invariant follows an issue of the graph
  through the phases: to the diagnostic made of it, to the one kept when later ones
  with its key are dropped, to the group that is shown for it; the counts
  are sums over these groups. `DroppedForKept` says what the aggregator does keep: for
  each issue of the graph one of the same kind, file and line, in whatever function.
* `DangerSurfaceProofs`: `IndexFollowsEdges`, `DangerMarked`, `JudgesDoAgree`,
  over three invariants. `EntryIsRight`: the entry of a callee starts with the
  first edge that still has its name, and the one entry that was never
  initialised belongs to the call that failed. `GraphInv`: every name of a node in
  the memory graph is a value of the function that allocated it, and a node that
  is found has names; it is what makes the fast path's test of the function of an
  allocation a test of the function of the value. It rests on lemmas for
  `trackAlloc`, `trackAlias` and `trackFree`. `SurfaceInv`: while danger-surface
  runs, exactly the directly dangerous ones among the values already visited are
  relevant, whatever the order of the visits. From it follows `RelevanceIsDirect`, a closed
  form of what is marked, transfers included, and from that `DangerIsMarked`.
* `PointerLifetimeProofs`, for functions with any number of variables and
  instructions in the two shapes of the module: `TypeCorrect`, `NamesShareNode`,
  `FreesSeen`, `DirectFreesExact`, `RecordsAreTrue`, `DoubleFreesDetected`,
  `TextsReleasedOnce`. The argument for all of them is that a value is computed once:
  what it points to on a path, its node and what it is a copy of never change, while
  the entry, the node and the object of a variable are replaced together. None of the
  properties is inductive alone. `SameObjectSameNode` needs that a holder of an object
  is listed among the aliases of the object's node (`HoldersInv`), which is what
  `FreesSeen` uses when a free marks aliases. `RecordFreedIsFreed` needs that a copy
  of a recorded allocation points to it (`CanonInv`). `DoubleFreesAreDetected` needs
  that the sites of a value come in the order of the blocks and that neighbours were
  compared (`SitesInv`): of the neighbours between two frees on one path, one pair at
  least is not the pair of the two branches. `DirectFreesAreExact` needs that recorded allocations have
  nodes of their own (`NodesInv`) and the relation of the sites of a node to the count
  of frees on each path (`ExactInv`), with a lemma that two blocks reach one another
  exactly if a path goes through both (`ReachFacts`). `TextsOwnedOnce` needs that owned
  texts are different, from which the cardinalities follow.
* `SumTheorems`: what a sum over a finite set is when an element is added, changed or
  taken away. The recursion in the library's sum is a function chosen by its
  equations, so the lemmas show that such a function exists and is unique, by taking
  the smallest set (or number) that would contradict it. The induction theorems of the
  library take an operator as a parameter, which the provers cannot instantiate.

Only model-checked:

* all liveness (`RunEnds`, `PassEnds`, `CallsReturn`), which the prover does not reach:
  it has no rules for fairness and ENABLED;
* the corpus (`LabelsAreTrue`, `LostAllocationsAreReported`, `SingleOrphansAreReal`,
  `SafeFunctionsAreQuiet`),
  whose modules reach a RECURSIVE operator and are a finite check in any case.

## 5. Findings

The first four are each shown by a run that TLC ends with a violation, the last two by
a property that names the exceptions and holds only because they are there.

1. `pool_item_twice`: with the memory order the code asks for, pop and steal can
   hand out the same item (`pipeline/parallel.zig:171`).
2. `lifetime_texts`: a loaded value shares the description of the variable's
   entry and may be copied after a store to the variable has released it
   (`ptr_lifetime_helpers.zig:158`). `t = a; a = b; a = t` on pointers does it.
3. `issues_functions`: the aggregator looks for a field `function` in a location
   whose pipeline calls it `func` (`aggregator.zig:191`), so the key the pipeline
   describes as function, kind, file and line (`pipeline.zig:902`) has no function
   in it, and defects in different functions are merged. The test at
   `aggregator.zig:913` has a location of its own, with the field.
4. `danger_aliases`: both walks over aliases are without effect, `traceAliasClosure`
   because it returns at once for the value it is called with, which is marked
   (`danger_surface.zig:275`; the comment above it says the opposite),
   `isOnDangerPath` because it notes an alias as visited before it calls itself for
   it (`memory_graph_analysis.zig:363`, `:314`). Unoptimised code reads a variable
   anew for each use, so most names of a relevant object are not relevant.
5. `corpus_dataflow`, `SafeFunctionsAreQuiet`: a release with one argument is keyed by
   operand 1, which is the called function (`cross_lang_dataflow.zig:350`); the
   release function is then recorded as released memory and its later calls are
   reported as uses after free, in `tc5_correct_cpp_memory` too, which its program
   calls correct. Two functions that release both of two allocations are
   reported for a leak.
6. `corpus_dataflow`, `LabelsAreTrue`: eight functions of the test programs do not do
   what their labels say. `tc6_box_leak_ownership_transfer` is labelled safe and
   releases Rust's memory by `free`
   (`corpus/red_team_test/rust_multi_lang_ffi_bugs.c:131`); seven are labelled with a
   bug they do not have (two in `zlib_binding.c`, two in `boundary_test.c`, two in
   `openssl_ffi.c`, one in `network_ffi.c`).

Divergences met while modelling that no run checks:

* Executor: `run` joins undefined handles after a failed spawn
  (`parallel.zig:364`, the comment at :362 says otherwise); `pop` publishes
  `bottom < top` for a moment though :120 calls `top <= bottom` an invariant;
  `push` after a drained deque would write at the old bottom, which no caller does.
* Workers: slots of statistics are taken per function, not per worker
  (`callback_escape.zig:280`, `ptr_lifetime.zig:235`); the hook is keyed by the
  argument, so a pair whose value changed hands never matches (`hooks.zig:77`).
* Workers, too: the hook state is thread-local (`registry/hooks.zig:25`) and
  initialised on the main thread, so on pool threads no transfer is tracked and
  no unpaired one reported (`pointer_ownership.zig:284`).
* Order: surface-classifier runs 33rd and SemanticResolver 32nd, no pass depends
  on the former, and their headers place them before the analysis passes;
  ptr-lifetime asks for relevance before danger-surface has run; alias, cfg, dfg
  and lock put their facts in stores of their own (`cfg.zig:62`, against
  `docs/en/passes.md:92`); `markTainted` has no caller.
* Issues: the key of an issue is recorded before the filter decides
  (`pass_context_impl.zig:257`), so a suppressed report shadows a later one; two issues with one message are both found as the last of them
  (`pipeline.zig:938`); leaks in functions of unknown origin are suppressed by
  risk though the header of `issue_classification.zig` denies it; an invalid free
  may go from high to medium though its category is never to be downgraded;
  `getIssues` shows folded entries without their messages. A critical report and
  a later one at the same place that is not critical both enter the graph.
* Double frees: ptr-lifetime finds them (`DoubleFreesAreDetected`, proved) and
  reports none. Both reports ask `isRelevantAlloc` first
  (`ptr_lifetime_violations.zig:717`, `:738`), and nothing is relevant before
  danger-surface, which waits for ptr-lifetime; `ConsumersFollowProducers` names the
  pass among those that ask too early.
* Lifetimes: an object that is stored to a variable, loaded and freed keeps its
  record unfreed and is reported as a leak (`ptr_lifetime_track.zig:342`,
  `pipeline.zig:864`); `realloc` marks the old pointer but none of its aliases,
  and a free of the old pointer after it is not seen as a double free; a free in
  the left block marks values in the right one; a mark may hit a live pointer
  through an alias that is stale; a free of a phi's value does not reach its
  inputs.
* Danger surface: a transfer of ownership left out at `danger_surface.zig:146` ("where
  cross-lang free is legitimate", :144) is marked by a later step of the same visit, as
  `isOnDangerPath` does not know of transfers (`memory_graph_analysis.zig:354`);
  `RelevanceIsDirect`, which is proved, says which. A language override is undone
  the same way. When the index of edges cannot grow,
  the names of the edge are released while the edge stays in the list
  (`call_graph.zig:423`), to be read by later passes and released once more.
  `is_ffi_boundary` holds for every edge.
* Data flow: beside finding 5, a release that matches no value ends the last
  allocation of its function, so that of two allocations one is an orphan though
  both are released; an allocation once paired is never paired again, so a double free
  within one language is not reported; an integer constant given as an argument
  is one value in the whole module and may be taken for a released pointer; a
  call of `c_malloc_rust_dealloc_mismatch` is an allocation by its name; names
  that contain "leak" or "compress" are exempt; the question to the summaries at
  `:649` is asked only of allocations that have no release function, and so never
  answered.
* Elsewhere: `continue` at `cross_lang_dataflow.zig:661` goes on with the inner
  loop and not, as its comment says, with the next allocation;
  `lifetime/engine.zig`'s `meetState` is called a lattice meet and is not
  associative; `pointer_ownership.zig:164` and :167 release the same objects
  twice when the pass fails.

## 6. Not modelled, and why

* Classification of functions, names, zones, languages and idioms: stateless
  tables, whose answers are inputs of the models.
* What a pass finds in the IR, but for ptr-lifetime and cross-lang-dataflow: walks
  over one function.
* Test programs in C++, Java and Python bindings, whose ownership is kept by another
  language's runtime, and C functions that compute on data only; the C++ bridge
  to LLVM (`llvm_cpp_bridge.cpp`), a wrapper of an external library.
* The Java contracts of `IsOrphan`, and a failing second allocation of
  `registerPass` (section 2).
* LLVM itself: external. Its undefined answers are free choices.
* Formatting, output, parsing, profiling, containers: I/O or sequential code that
  unit tests reach.
* Looked at and found to be no hazard: the cache of summaries by name (every
  question is about argument 0, and none has an effect), the index of the query engine (no pass builds
  it), the stores of facts (each pass has its own and drops it), the transitions
  of the lifetime engine (pointer-ownership only creates resources,
  `cpp_fp_reduction.zig:429`; unit tests drive the rest), the caches of
  searches (filled after the last edge), the memory pool
  (nothing is returned to it), and reuse of an executor (no caller does it).

## 7. Plan

Done, in the order of what mattered most: 1. the executor; 2. the workers; 3. the
pass manager and the table of passes; 4. the issue pipeline; 5. memory graph and
pointer lifetimes; 6. the test programs, their executions and the data-flow
analysis; 7. edges, danger surface and relevance.

To model: 8. `FreeValidation`, the decision about a free over the memory graph
(canonical node, confidence of a double free, escapes), and with it the
exemptions of the leak report, which `IssuePipeline` takes as an input.

Theorems worth proving next: the steps from the invariants to further properties
of the same modules (that a free that is recorded never becomes unrecorded, that
a key once recorded stays); the order of `FreeValidation` once it is modelled.

## 8. Running it

    tlc -config ParallelExecutor_three.cfg ParallelExecutor
    tlapm PassManagerProofs.tla

Each entry of `PROJECT.json` "runs" names its module and configuration. A passing
run takes from a second to about two minutes with two workers; the proofs
take about ten minutes.
