# A TLA+ model of OTAWA

OTAWA is a framework for computing worst-case execution times (WCET). Analyses
are *processors* that provide *features* on a *workspace*; a processor is run
when a feature it provides is required, after the processors that build what it
requires itself. The sources are under `src/otawa` (framework and plugins),
`src/elm` (containers), `src/gel`, `src/gliss2`, `src/ppc2` (loading and
decoding). The paths below are relative to `src/otawa/src/prog` and
`src/otawa/include/otawa`.

The model follows the chain of a WCET computation: the engine that runs the
processors; the construction of control-flow graphs (CFG), their inlining and
unrolling; dominance and loops; the abstract interpreter and two of its
clients, the instruction cache and the analysis of values; flow facts and their
contexts; the linear system.

## 1. Inventory

### Feature engine
*State*: the map from features to `FeatureDependency` nodes of the workspace
(`WorkSpace::featMap`), each with the list of the nodes that depend on it, the
nodes it depends on and its cleaners; the cancellation flag; the C++ stack of
`Processor::process` and `WorkSpace::invalidate`.
*Operations*: `provide`, `invalidate`, `require`, `process`, `cancel`, the
destructor (`prog_WorkSpace.cpp`, `proc_Processor.cpp`, `proc_Feature.cpp`).
*Hard*: `invalidate` copies pointers, then recurses and deletes nodes;
`process` re-enters itself through `require`; exceptions unwind several
activations; `cancel` comes from another thread; what a processor required can
be invalidated by a later requirement.
*Correct when*: the graph is closed, no copy dangles, no assertion fails, an
invalidated feature is gone when the processor ends, calls return.

### Registration
*State*: the usage list of every processor class, `use`, `require`,
`invalidate`, `provide`. *Operations*: `p::init`, tag lists, `require()` in
constructors, `FeatureIter` (`proc_Registry.cpp`, `proc/Registration.h`). The
three ways of declaring give different orders, and the order decides what is
built first.

### Life of the control-flow graphs
*State*: `INVOLVED_CFGS` and `ENTRY_CFG` on the workspace, the collections and
CFGs they point to, properties hooked to blocks, cleaners. *Operations*:
`processWorkSpace`, `cleanup` and the cleaners of `CFGBuilder`, `CFGCollector`,
`Virtualizer`, `SubCFGBuilder`, `DelayedBuilder`, `LoopUnroller`,
`LoopReductor`, `Dominance`, `LoopInfoBuilder`. *Interaction*: only through
features and properties: a transformer invalidates `COLLECTED_CFG_FEATURE`,
which cleans the analyses of the old graph, and then installs a new one.
*Hard*: who deletes what, in which order, after a failure or a cancellation.
*Correct when*: `INVOLVED_CFGS` is readable while the feature is provided, the
results of a provided analysis are on the current graph, nothing is read or
deleted after its deletion.

### Construction, inlining and unrolling of CFGs
*State*: the blocks and edges under construction, the annotations of flow
facts on instructions, the stack of inlined calls, the map from blocks to
their copies. *Operations*: `CFGBuilder::buildCFG` (two passes over the
instructions of a segment), `CFG::scan`, `Virtualizer::virtualize`,
`LoopUnroller::unroll`, `CFGChecker`. *Hard*: blocks cut by targets found
later, calls that do not return, jumps into other functions, recursion, edges
that leave loops, edges between copies of different passes. *Correct when*:
every execution of the program is a path of the graph and every edge is a
possible move.

### Dominance, loops and abstract interpretation
*State*: bit sets and worklist of `IterativeDFA`; `LOOP_HEADER`,
`ENCLOSING_LOOP_HEADER`, `LOOP_EXIT_EDGE`; the worklist, call stack and marks
of `HalfAbsInt`. *Operations*: the data-flow iteration, `HalfAbsInt::solve`
with three fixpoint drivers. *Hard*: the order of the worklist, marks removed
while others wait for them, nested loops, calls in loops. *Correct when*: the
loops are the natural loops, the interpretation ends, forgets no path and
leaves no mark.

### Analysis of values (CLP) and instruction cache
*State*: progressions of 32-bit words in registers and memory; abstract cache
states per set, `MUSTProblem`, `PERSProblem` (one per enclosing loop and one
for the task), `MAYProblem`. *Operations*: semantic instructions, join,
widening, filters; `inject`, `lub`, `enterContext`, `leaveContext`;
`CAT2Builder` turns cache states into categories. *Correct when*: the states
cover what every execution computes, and the categories are true of every LRU
cache on every path.

### Flow facts and IPET
*State*: contextual properties of instructions, the path of
`ipet::FlowFactLoader`, the stack of `ContextualProcessor`, the linear system.
*Operations*: loading of facts, traversal of inlined CFGs, lookup of bounds,
`BasicConstraintsBuilder`, `FlowFactConstraintBuilder`,
`BasicObjectFunctionBuilder`. *Hard*: facts in several contexts and orders,
recursion, bounds lowered by unrolling, functions called from several places.
*Correct when*: a loop gets a bound that the user gave for its context, and
every execution that respects the bounds is a solution of the system.

### Others
`PROJECT.json` lists the other parts with the reason they are not modelled:
l-blocks and ACS builders, cache constraints, property lists, dynamic features
and plugins, stack analysis, execution graphs, branch prediction, data cache,
syntax trees, hardware descriptions, loaders, simulators, front ends, support
libraries.

## 2. Modules

| Module | Models |
| --- | --- |
| `FeatureEngine` | `WorkSpace`, `Processor::process`, `FeatureDependency`, for any catalogue of processors |
| `FeatureGraph` | abstract specification: a set of provided features and their dependencies |
| `CFGCatalogue` | the declarations of the control-flow-graph processors, in the order `FeatureIter` gives |
| `CFGPipeline` | composes the two: the engine running those processors, with what they do to the properties of the workspace |
| `CFGBuilder` | blocks and edges out of instructions and annotations; `CFG::scan` |
| `Virtualizer` | extends `CFGBuilder`: inlining, then executions of the program |
| `FlowFacts` | extends `Virtualizer`: loading of flow facts, `CFGChecker`, `ContextualProcessor`, lookup of bounds |
| `LoopInfo` | `IterativeDFA` with the problems of `Dominance` and `LoopInfoBuilder` |
| `HalfAbsInt` | extends `LoopInfo`: the abstract interpreter and its drivers |
| `LoopUnroller` | extends `LoopInfo`: the unrolling of loops |
| `Ipet` | extends `LoopUnroller`: the linear system and the executions it must admit |
| `ClpValue`, `ClpAnalysis` | the arithmetic of progressions; the analysis of a loop with it, then executions |
| `CacheSet` | an LRU cache set (external: hardware) |
| `CacheMustPers`, `CacheMay` | `MUSTPERS`, `MUSTProblem`, `PERSProblem`, the categories of `CAT2Builder`; `MAYProblem` |
| `FeatureEngineProofs`, `LoopInfoProofs`, `VirtualizerProofs`, `FlowFactsProofs`, `CacheProofs` | theorems about the module of the same name |
| `CatalogueProofs` | theorems about `FeatureEngine` with coherent declarations |
| `PipelineProofs` | theorems about `CFGPipeline`, on those of `CatalogueProofs` |
| `Induction` | lemmas: induction on the natural numbers, functions defined by recursion |
| `MC...` | instances for TLC |

Definitions preceded by a comment "Mutant" are deliberately wrong variants of
the definition that follows. They are not part of any specification; they are
used to check that each property can fail.

### FeatureEngine
A node is a heap cell whose address is the rank of its allocation; 0 is null.
`heap[n]` has the feature, the nodes it depends on, its dependents as a
sequence in the order of the `SLList` (new ones first) and the processors that
attached a cleaner. `stack` has one frame per activation of `process()`, with
its phase, the position of its feature iterator and the vector of required
features it computed; `inv` has one frame per activation of `invalidate()`,
with what is left of its copy of dependents.

| Action | Code |
| --- | --- |
| `CallProcess`, `CallRequire`, `CallInvalidate` | a tool calls the workspace |
| `PreInvalidate` | loop over features invalidated and not used |
| `Need` | requirement loop; a missing feature pushes a frame of one of its makers |
| `ReturnCancelled` | silent return of a cancelled `process()` |
| `CheckRequirements` | everything used must now be provided, else exception |
| `Work`, `WorkFails`, `NoProcessorThrows` | `processWorkSpace` |
| `PostInvalidate` | loop over features invalidated and used |
| `Provide`, `PutCleaners` | end of `process()` with its assertions |
| `InvalidateDependent`, `InvalidateFeature` | the two halves of `invalidate()` |
| `Cancel`, `ClearCancellation` | the cancellation flag |
| `Destroy`, `DestroyFeature`, `Destroyed` | `~WorkSpace`, features in any order |

A failing assertion, or a read through a pointer to a deleted node, sets `mode`
to the name of the fault, which the properties exclude. An exception empties
the stack: no activation but the innermost is inside its `try`. Logging,
timing, statistics and the configuration of processors are left out.

### CFGPipeline
`data` is one record: `slot` (`INVOLVED_CFGS`), `entry` (`ENTRY_CFG`), `info`
(`CFGInfo::ID`), the live collections with their graph, the live graphs, for each
analysis the graphs whose blocks carry its properties (`marks`) and those whose
blocks carry copies of them (`copies`), and a fault if a null or deleted object
was read or deleted. A graph stands for all the CFGs a processor builds together.
`pending` is `Processor::cleaners`, `cleans` the `CleanList` of each node.
`PWork`, `PWorkFails`, `PPostInvalidate` (its last step calls `cleanup()`),
`PPutCleaners` and `PInvalidateFeature` add the effect of the processor's code
to the engine's step; `PControl` and `PCall` are engine steps that run none.

* *CFGInfo.* `CFGBuilder` tracks it: the cleaner of `CFG_INFO_FEATURE` deletes it
  with its CFGs and blocks (`DeleteInfo`). Other CFGs are not deleted with their
  collection, the code does not do it. The requirement of `CFGBuilder`
  (`DECODED_TEXT`) is outside the catalogue.
* *Copies.* A virtual block copies the properties of its block (`BuildCopies`),
  and a virtual block of a virtual block copies copies. `LoopUnroller` removes
  them, `DelayedBuilder` makes blocks that are not virtual, and `Dominance` puts
  its own `REVERSE_DOM` in the place of a copy but only adds `LOOP_HEADER`s: a
  copied one may stay on a block that heads no loop any more.
* *Failures.* `process()` calls `cleanup()` for a `ProcessorException` before it
  throws it again (`DoFail`). `CFGCollector` fails without entry (`NoEntry`), and
  its `cleanup()` looks at `INVOLVED_CFGS`. `DelayedBuilder` fails when it cannot
  fetch an instruction (`HalfBuilt`): its `cleanup()` installs the CFGs built so
  far in `INVOLVED_CFGS` and `ENTRY_CFG`, its deletor is lost with the processor,
  nothing is invalidated, and dominance and loops stay provided over CFGs they
  have never seen. `halfBuilt` records that this happened. When it fails on the
  first CFG, `cleanup()` reads the first CFG of an empty collection, the fault
  `EmptyCollection`. Other exceptions leave without `cleanup()`.

Left out: the `DelayedCleaner`, which only frees tables; `BACK_EDGE`; the cleaner
of `LoopInfoBuilder`, which would free a list of exits that a virtual block may
share by copy.

### CFGBuilder and Virtualizer
An instruction is its position, a block its first instruction. `FindBlocks` and
`LinkBlocks` are one turn of the two loops of `buildCFG`, `FindDone` and
`SegmentDone` what follows them. `ScanBlocks` and `ScanEdges` are what
`CFG::scan` makes of a CFG. `TranslateBlock`, `InlineCall`, `EndInline`,
`VirtualizeApart` are the steps of `virtualize`, whose recursion is `stack`. A
virtual block is a triple of its virtual CFG, the calls it is inlined in and
its block. Then the program runs (`Execute`), and `covers` holds the positions
of the virtual CFG that follow it: when the set is empty, an execution has left
the graph. Recursive programs are built and inlined but not executed: the
inlined recursion merges contexts.

### LoopInfo, HalfAbsInt
`Process` is one turn of the loop of `IterativeDFA::compute`, for dominance
(forward) and then for loops (backward); `StoreDominance` and `StoreLoopInfo`
store the properties. The edges of a block are met in any order (`Orders`).
`Turn` is one turn of the loop of `solve()`: `LeaveLoop` (fixpoint reached),
`ReturnFromCall`, `EnterCall`, `AfterCalls`, `Interpret` are the branches of
`outputProcessing`, and `AssertFails` the reading of a missing mark. The
problem that is solved is a collecting one, for which the result must be
exactly what the paths of the program produce: pairs of a value and of the
nest of loops and calls, computed apart (`Reached`, `Context`).

### LoopUnroller, Ipet
`frames` is the recursion of `unroll`, with the pass; `Duplicate` copies a
block, `UnrollLoop` enters a nested loop, `ConnectPass` makes all the edges of
a pass. The system (`System`) is a set of records `left op const + coef * right` over the
variables of blocks, edges and calls of the graphs, unrolled or not. The
program runs on the original graphs (`Take`, `Call`, `ReturnFrom`); its position
is followed in the copies, and `counts` is the assignment it gives to the
variables. `Facts(K, d)` are flow facts that this very execution satisfies,
exactly or with slack `d`.

### ClpValue, ClpAnalysis
The operators are those of `clp::Value`, on words of `W` bits. The graph is an
entry, a header, a body that goes back to it and an exit; `Interpret` is one
semantic instruction of the analysis, `NextPath` the next path of a block with
`IF`, `FromEntry`, `FromHeader` and `FromBody` the fixpoint driver between
blocks. Then the same instructions are executed on words.

### FlowFacts
`onLoop` stores the facts one after the other in the contextual trees, `Check`
is `CFGChecker`, `StartCFG` to `EndCFG` are `ContextualProcessor::processCFG`
with the callbacks of `ipet::FlowFactLoader`. `MIN_ITERATION` and
`TOTAL_ITERATION` are looked up like `MAX_ITERATION` and left out.

### CacheMustPers and CacheMay
One set, one path of the program, the abstract state next to the real ages
(`cache`). `Update` is a basic block with one l-block in the set, `Join` the
`lub` with the state of any other path, `EnterLoop` and `LeaveLoop` the
contexts of `HalfAbsInt`. Both lubs work block by block, so joining with states
that differ from bottom in one block, repeated, reaches every join.

The categories are read from the fixpoint. At a loop header, joins bring in the
back edges as well as the entries, and `FixHeader` stores the state of the header
(`headers`). A path takes a `BackEdge` only if the state at its end is one that
the header's already covers (`Covers`), as it is for every path at the fixpoint,
and goes on with the header's state. So a path whose loop loads a block that the
header's state does not allow for, because nothing was joined in, ends before its
back edge. `FirstMissSound` is stated with that condition: `missed` remembers an
access classified `FIRST_MISS` that missed though its loop had accessed the
block, and it counts only on paths that the fixpoint covers. (The
comment at `cache_MUSTPERS.cpp:65` compares the ages of the MUST state, while
`PERSProblem::Item::inject` compares those of the persistence state. In the state
of the first pass through a loop, where the persistence state does not know what
was loaded before, that gives a wrong category; in the fixpoint states of the run
it gives none.)

The ghosts `seen` and `seenIn` are the blocks accessed since the entry and since
each enclosing loop was entered.

A basic block that has several l-blocks in the set is left out: `MUSTPERS::update`
injects only the last of them.

## 3. Runs

| Run | Shows |
| --- | --- |
| `engine` | `GraphInv`, `NoDangling`, `NoAssertFails`, `InvalidationEffective`, `CallReturns` (the destructor included), `ImplementsFeatureGraph`, with processors of every kind: alternative makers, a feature without maker, a failing maker, a processor that invalidates what it provides |
| `pipeline` | `CollectionReady`, `ResultsCurrent`, `NoDataFault`, `ResultsRemoved` with the builder of `CFGInfo`, collector, virtualizer, delayed builder, unroller, dominance, loop information; collector and delayed builder may fail |
| `pipeline_reduced` | finding: `LoopReductor` nulls `INVOLVED_CFGS` before the cleaners that assert it |
| `cfg_build` | `PathsCovered`, `EdgesReal`, `BlocksWhole`, `InliningBounded`, `NoAssertFails` on programs of three functions with calls, tail jumps, recursion, annotations, indirect controls and two segments |
| `absint` | `DominanceCorrect`, `EnclosingCorrect`, `ExitEdgesCorrect` against definitions over paths; `NoNullMark`, `ResultsExact`, `CfgMatches`, `MarksRemoved`, `Solves` for each driver |
| `clp` | `StatesCover`: what executions compute is in the states; `AnalysisEnds` |
| `clp_equal` | finding: `StatesCover` fails when the limit of a filter is the first value: the analysis does not enter the body of `while(x >= 4) x--` with `x = 4` |
| `ipet` | `SystemAdmits`, `ObjectiveExact` on plain and unrolled graphs; `NoCopyMissing`, `PathsKept`, `FirstIterationApart` of the unrolling |
| `ipet_unrolled` | finding: a least number of iterations of 0 on an unrolled loop excludes real executions |
| `contexts` | `ContextExact`, `BoundsJustified`, `BoundsFound`, `AllProcessed`, `TraversalEnds` |
| `cache_must_pers` | `AgesInv`, `AlwaysHitSound`, `WholePersSound`, `FirstMissSound` |
| `cache_may_miss` | finding: `AlwaysMissSound` fails with three ways (`A = 2` in the same configuration finds no violation) |

**Bounds.**
* `MaxNodes` (7 in `engine`, 10 in `pipeline`) stops new top-level calls once
  that many nodes were made: every processor can run, and features be
  provided, invalidated and provided again with dependents. A call in progress
  is never cut. `MaxGraphs = 4` gives at least two transformations, or failed
  ones, after the first collection. `Tools`, `Wanted` and `Dropped` are what
  tools call by hand: the passing run keeps to `ToolCalls` (section 4), which
  excludes `SubCFGBuilder`, `LoopReductor`, the sources of CFGs by hand and the
  invalidation alone of a feature whose cleaner leaves others without their data.
* `cfg_build`: six instructions, three functions, `MaxCalls = 3` nested calls
  of the execution, one more than three functions need without recursion.
  `contexts`: ten instructions with a loop in each of the three functions.
* `absint`: every reducible main CFG of `MainSize = 5` blocks with at most
  `Degree = 2` successors, alone and with calls from all the blocks that may
  call, to a CFG with a loop: nested loops, loops in sequence, several exits
  and several back edges all happen. `K = 3` values make fixpoints take
  several iterations.
* `ipet`: every reducible core of `CoreSize = 3` blocks, loops run up to
  `MaxIter = 2` times per entry (beyond the unrolled iteration), `Slack = 1`.
* `clp`: words of `W = 4` bits, so that limits are near; `Many = 3` stands for
  the 42 addresses from which an access is to anywhere. Loops count up from 0 or
  4, or down from 4 or 6, with signed and unsigned conditions whose limits are
  below, inside and above the counted range, with and without `MAX_ITERATION`,
  ten other instructions and two paths in the body.
* cache: three blocks and two ways are the smallest set with a replacement and
  a survivor; the theorems lift these bounds. `MaxDepth = 1` is one loop at a
  time, entered any number of times, and `InnerJoins = FALSE` leaves joins to
  the headers and to the code outside of the loop. `MaxAge` bounds the ages of
  the MAY state, which the code does not.

**What the instances leave out on purpose**, because the code does not support
it (each is a hazard in `PROJECT.json`): irreducible loops; edges that leave two
loops, for `HalfAbsInt` and the unroller; edges from a loop to the header of
another one, for the unroller; blocks that are loop headers and calls;
conditional jumps to another function; branches from a
later segment into the middle of an earlier block; `IGNORE_SEQ` on a call;
`VIRTUAL_INLINING` off; tail calls in `contexts`; circular requirements, and
processors that invalidate, without using it, what a maker of their
requirements builds again, in `engine`; joins inside loops and nested loops in
`cache_must_pers`; arithmetic that wraps in the executions of `clp`.

`clp` also leaves out loops that the filters and the widening do not analyse
soundly or to an end, all found with TLC:
* a limit that is the first value of the progression, when the filter looks for
  words above it (`>`, `>=`, signed and unsigned) or for unsigned words below
  it: the result is empty (`clp_equal`). With `MAX_ITERATION`, it may be the first
  value of the bounded progression on the exit edge;
* a limit at the least or greatest word, where `k - 1` or `k + 1` wraps;
* steps from the lowest words that wrap in the count of steps;
* unsigned conditions on words beyond the greatest signed one: progressions are
  signed;
* unsigned loops that count down and whose body may skip the count: the widened
  header goes back and forth between two states, and the analysis does not end.

**Fairness.** `FeatureEngine!Spec` has weak fairness of `Step`: the analysis
thread executes the call it is in, and nothing in these loops waits for
another thread. The calls of tools, the cancellation and the call of the destructor
have none. `HalfAbsInt`, `ClpAnalysis` and `FlowFacts` have weak fairness of the
steps of their sequential loops, for the same reason; the executions of the
analysed program have none. `CallReturns` needs catalogues without circular
requirements: with one, `process()` recurses until the C++ stack is exhausted,
before the test that is meant to report it.

**Deadlock** is checked except in `cfg_build`, `contexts` and `clp`, where a run
ends when the program ends, is cut by a bound or its arithmetic would wrap; in
the others what has ended stutters in `Stopped`.

## 4. Proofs

`FeatureEngineProofs` proves, for every set of features, every catalogue, every
choice of makers and faulty processors:

* `EngineInvariant`: `Spec => []GraphInv`;
* `GraphClosed`, `CopiesStayValid`, `InvalidationNeverFails`: the graph is
  closed, no copy of dependents holds a deleted node, and invalidation meets
  none of its assertions;
* `EngineImplementsGraph`: the engine implements `FeatureGraph` under the
  mapping `ProvidedFeatures`, `Dependencies`.

`NoDangling` is not inductive. `SLList::add` puts new dependents first, so every
list is in decreasing order of allocation (`CreationOrder`); an activation
treats the youngest dependent first, and each nested activation works on a
younger node than everything the outer ones still hold (`NestOrder`). What a
nested call deletes is its own target, younger still. `GraphInv` conjoins these
with the type invariant, `DepsClosed` and `InvalidationSafe`. The proof has one
lemma per kind of step that changes the graph (a new node, a deleted node, a
new activation, an activation that advances) and one for the steps that only
move the control. The only assumptions are `CatalogueAssumption` and
`LoadedAssumption`: usage lists are sequences over the features, and the loader
provides a feature once.

`CatalogueProofs` proves, for every catalogue that satisfies `CoherentCatalogue`:

* `CatalogueInvariant`, and from it `AssertionsHold` (`NoAssertFails`) and
  `InvalidationLasts` (`InvalidationEffective`).

The code does not check that declarations are coherent; it is what an author of
processors must see to: cleaners are put on what the processor provides, it
does not invalidate, even through dependencies, what it still requires, and no
processor run for its requirements provides again what it has invalidated.
Both catalogues of the runs satisfy it, and TLC evaluates it on them. Without
it the two properties can fail. The invariant says, of the stack of
`process()`, that a frame waiting for a requirement was called by the frame
below for one of its features (`CallsInv`), that dependencies come from the
declarations (`OriginInv`), that what a frame has invalidated stays away while
helpers run (`AbsentInv`), and what the innermost frame has established
(`TopInv`).

`PipelineProofs` proves, for every number of nodes, graphs and collections, every
choice of makers and faulty processors, and every sequence of calls, failures
and cancellations, under `SafePipeline`:

* `PipelineInvariant`, and from it `PipelineTypesHold` (`PipelineTypeOK`),
  `CollectionStaysReady` (`CollectionReady`), `ResultsStayCurrent`
  (`ResultsCurrent`), `ProcessorsFindData` (`NoDataFault`) and
  `CleanerRemovesResults` (`ResultsRemoved`).

The failure of a `DelayedBuilder` is in all of them. After one that has installed
its half-built collection, `CollectionReady` and `NoDataFault` hold on, but
`ResultsCurrent` and `ResultsRemoved` do not, and they are stated for executions
without it (`~halfBuilt`): the program has to give up the workspace after such a
failure, or invalidate `COLLECTED_CFG_FEATURE`. `ResultsRemoved` is about the
properties that `Dominance` has put: copies on virtual blocks belong to no
cleaner. `ResultsCurrent` says that `REVERSE_DOM` on the current blocks is not
such a copy.

`SafePipeline` conjoins three conditions on the constants, which TLC evaluates
on `pipeline`:

* `CoherentCatalogue`;
* `CFGDeclarations`: what the registrations of the builder of `CFGInfo`,
  collector, virtualizer, delayed builder, unroller, dominance and loop
  information say, and no more of them than the argument needs. Other features
  and their makers among these processors may be added;
* `ToolCalls`: the calls the pipeline supports. `SubCFGBuilder` and `LoopReductor`
  are not run (the finding of `pipeline_reduced`, and a collection left of a
  deleted CFG);
  the collector is not run by hand (it replaces the collection of a
  transformer, and its cleaner then deletes another's: `NoDataFault`), nor is
  `CFGBuilder`, with which TLC finds nothing wrong;
  `DOMINANCE_FEATURE` is not invalidated alone (its cleaner takes
  `LOOP_HEADER` away while `LOOP_HEADERS_FEATURE` is still provided:
  `ResultsCurrent`); nor is `VIRTUALIZED_CFG_FEATURE` (its cleaner removes
  `ENTRY_CFG`: once the collection is invalidated too, a collector that finds no
  entry fails, and its `cleanup` reads the deleted collection that
  `INVOLVED_CFGS` still points to: `NoDataFault`); nor is `CFG_INFO_FEATURE` (its
  deletor deletes the CFG that `ENTRY_CFG` still points to, and the next collector
  starts from it: `NoDataFault`).

`CatalogueInv` and `GraphInv` are inherited from the engine: a step of the
pipeline is one of the engine. `PipelineInv` is added to them:

* `CollectionInv`: while `COLLECTED_CFG_FEATURE` is provided, `INVOLVED_CFGS` is
  a live collection; `INVOLVED_CFGS` was never set without `ENTRY_CFG`, and no CFG
  is deleted before the workspace is destroyed;
* `InfoInv`: a collection of the CFGs of `CFGInfo` depends on `CFG_INFO_FEATURE`:
  destruction, which takes features in any order, deletes it before the CFGs;
* `CleansInv`: which lists of cleaners a node can have; that of the collection
  has at most one cleaner, so that nothing is deleted twice;
* `DependsInv`: the nodes of dominance and loops depend on that of the
  collection, those of `VIRTUALIZED_CFG_FEATURE` and `CFG_INFO_FEATURE` on nothing;
* `FramesInv`, `RootInv`: the collector runs only while there is no collection
  and nothing but `NoProcessor` and `CFGBuilder` runs for it; an invalidation
  begins with the collection, by a transformer that has worked, or with what a
  tool takes away;
* `WorkInv`, `WorkDone`: what the innermost processor has done and has pending,
  phase by phase. When a transformer provides, the collection is its own and no
  cleaner is on its node yet;
* `HooksInv`, `UnhookInv`, while no half-built collection was installed: the
  results of a provided analysis are on the current graph and are not copies,
  except `LOOP_HEADERS_FEATURE` while the collection is invalidated; the blocks of
  `REVERSE_DOM` are those of the current graph only, and a cleaner that removes
  them is in place or pending.

The order that `Processor::process` imposes, work, invalidations, `cleanup()`,
provisions, cleaners, is what makes it inductive: the cleaners of the analyses
read `INVOLVED_CFGS` while it still is the collection they marked.
`LoopReductor`, which replaces it in its work, is the exception.
The invariant was first checked by TLC on all the states of `pipeline`.

`LoopInfoProofs` proves, for every number of blocks, every graph and every order
in which the worklist takes the blocks:

* `LoopInfoInvariant`;
* `DominanceTheorem`: `REVERSE_DOM` is domination, in both directions. One is
  the invariant of the iteration (a dominator is never lost); the other follows
  from the empty worklist, when the sets are a fixpoint: the blocks that a set
  wrongly holds would form a set no path enters;
* `EnclosingTheorem`, `ExitEdgesTheorem`: the headers of the loops around a block
  are a chain for domination, so that `LoopInfoProblem`'s sort by a partial
  order, and taking the last bit, do give the smallest natural loop.

Assumed: `GraphAssumption` (types) and `ReachAssumption` (`CFG::scan` finds blocks
by following edges from the entry).

`VirtualizerProofs` proves, for every number of instructions, every program,
annotation and division in segments:

* `VirtualizerInvariant`;
* `BlocksTheorem`: `BlocksWhole` where the targets of branches are found before
  the blocks they cut are closed (`InTime`);
* `InliningTheorem`: `InliningBounded`, recursive programs included;
* `AssertionsTheorem`: the assertions of `virtualize()` hold where functions are
  inlined and an instruction follows each call (`CallsFollowed`);
* `EdgesTheorem`: `EdgesReal`, every edge of the virtual CFG is a move of the
  program and an inlined return leads after its call, where the annotations do
  not contradict each other (`NotesPlain`) and a block that jumps out of its
  function does nothing else (`JumpsAlone`).

TLC evaluates `InTime` and `NotesPlain` on all the programs of `cfg_build` and
`CallsFollowed` on those with calls; `JumpsAlone`, which is about the graph, was
found true of all its states once the graph is built. Neither condition of
`EdgesTheorem` can be left out. `virtualize()` keeps one `called_exit` for all the
calls of a block, that of its last edge: after a conditional jump to another
function, this function returns in sequence in the one that jumped, though it
should return to its caller. And `IS_RETURN` on an instruction that is not a
control ends its block as a return, but the next instruction starts no block.

The invariant relates the two loops of `buildCFG`: a block found by the first is
a start that the second cannot pass (`InSegment`, `StartsFound`, `BlocksFound`),
and the frames of `virtualize()` are those of distinct functions, each called by
the one below (`FramesInv`). For `EdgesTheorem` it is joined with `BuiltReal`: an
edge of a block is a move of its last instruction, and while the block is still
at work, it has no edge and `follow` says that it may go on; and with
`VirtualReal`: the `exit` of a frame is where the last call around its blocks
returns (`ExitReal`), also for the calls still to inline (`CallReal`). Between the
two is a lemma on `CFG::scan`, `ScanClosed`: it stops when all the blocks of the
function are found, because it adds one at least at each step.

`FlowFactsProofs` proves, for every program and every list of flow facts:

* `FlowFactsInvariant`;
* `ContextTheorem`: `ContextExact`, and `BoundsTheorem`: `BoundsJustified`, where
  inlined calls return to their callers (`CallsReturn`).

`CallsReturn` is true of all the states of `contexts`. It is needed: when an
inlined function is left by a jump to another one, or recursion goes through a
`DONT_INLINE` function, the null edges on the stack of
`proc_ContextualProcessor.cpp` do not match the calls any more, and the path is
wrong. The invariant says where bounds are in the contextual trees, and that
they come from facts already read (`FactsInv`); that a virtual edge is of one of
four shapes, entry, same context, inlined call, recursion (`GraphInv`); and how
the null edges cut the stack of edges in levels, one for each call entered, the
path being that of these calls (`TraversalInv`). The entry of an entered
function is marked, so that the edge of a recursive call to it, which has the
form of an entry, is not taken for one.

`CacheProofs` proves, for every number of blocks and ways:

* `AgesInvariant`: `Spec => []AgesInv`. The abstract ages bound the real ones;
  `MustSeen` is needed because `PERSProblem::Item::inject` compares ages of its
  own state when the block is in the MUST state: that is right for the whole
  task, whose state knows every block of the MUST state. For a loop it is right
  only with the state of the header at the fixpoint, which TLC checks
  (`FirstMissSound`);
* `AlwaysHitTheorem` and `WholePersTheorem` from it.

**Induction.** The provers cannot instantiate induction theorems that take an
operator. `Induction` states induction on sets (a set of numbers with 0 and the
successor of each of its numbers holds them all) and proves that functions
defined by recursion on `0..n` exist, so that a recursive function definition,
which is a `CHOOSE`, can be unfolded. The sizes of blocks, the levels of the
stack of edges and the walks in contextual trees are reasoned about in this way.
Recursive operators remain out of reach.

**Only model-checked**:
* liveness, out of the prover's reach: `CallReturns`, `Solves`, `AnalysisEnds`,
  `TraversalEnds`;
* `FirstMissSound`, whose states of loop headers are of a fixpoint;
* `HalfAbsInt`, whose reference definitions are recursive operators;
* `BoundsFound`, which is not true of every list of facts: the lookup walks the
  tree greedily and can miss a fact that applies when the paths of two facts
  share a step. It holds for the facts of `contexts`. `AllProcessed` is about the
  end of the traversal;
* `PathsCovered` of `Virtualizer`, the properties of `LoopUnroller`, `Ipet` and
  `ClpAnalysis`, which compare the outcome of several phases with executions of
  the program;
* `CacheMay`, whose property is false.

## 5. Not modelled

The choice of a maker by name, configuration and plugins (any maker may run);
one `Processor` object run twice (its cleaners are attached again); the graphs
made by `SubCFGBuilder`, `DelayedBuilder` and `LoopReductor`; `addDamage` and
the edge variants of the cache analyses; the bypass of inlined CFGs in
`HalfAbsInt`; `_and`, `_or`, the general intersection and the symbolic
conditions of CLP; the parsers of flow facts; the ILP solver; everything marked
`not_modelled` in `PROJECT.json`. Most of the repository's lines are instruction
decoders, loaders, containers, parsers and front ends: I/O or generated code
without behaviour of its own to check. The map therefore covers a small share
of the repository and most of the chain above.

## 6. Plan

1. Feature engine, catalogue, pipeline, cache domains: done.
2. `IterativeDFA`, dominance and loops; `HalfAbsInt`: done.
3. CFG construction, inlining, unrolling; CLP; flow facts; IPET: done.
4. Proofs of the engine, coherent catalogues, the pipeline, dominance and loops,
   blocks, inlining and virtual edges, contexts and bounds, cache ages: done.
5. Proofs left: `PathsCovered` of `Virtualizer`, the converse of `EdgesReal`;
   `NoCopyMissing` of `LoopUnroller`; `ObjectiveExact` of `Ipet`; lemmas on `join`
   of `ClpValue`.
6. L-blocks (`LBlockBuilder`, `FirstLastBuilder`), the categories of a basic
   block with several l-blocks, and the constraints they add to `Ipet`; the
   data cache, which repeats the same domains.
7. Execution graphs: propagation of delays in `ParExeGraph`.
