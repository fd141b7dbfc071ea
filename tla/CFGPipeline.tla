----------------------------- MODULE CFGPipeline -----------------------------
(***************************************************************************)
(* The control-flow-graph processors on top of the feature engine: what     *)
(* their work, their cleanup() and their cleaners do to the properties of   *)
(* the workspace, INVOLVED_CFGS and ENTRY_CFG, to the collections and CFGs  *)
(* these point to, and to the results hooked to basic blocks.               *)
(*                                                                         *)
(* A graph stands for the CFGs that one processor builds together.          *)
(* Collections and graphs are numbered in order of allocation, 0 is null.   *)
(***************************************************************************)
EXTENDS FeatureEngine, CFGCatalogue

CONSTANTS
    Tools,          \* the processors that the tools run by hand
    Wanted,         \* the features that the tools require by hand
    Dropped,        \* the features that the tools invalidate by hand
    MaxGraphs       \* BOUND: no top-level call once this many graphs were made

VARIABLES
    data,       \* the properties of the workspace and what they refer to
    pending,    \* Processor::cleaners of the innermost processor
    cleans,     \* node -> the CleanList of its FeatureDependency
    graphCount, \* graphs made so far
    collCount   \* collections made so far

pipeline == <<data, pending, cleans, graphCount, collCount>>

Marks == {DOMINANCE, LOOP_HEADERS, LOOP_INFO}

\* Reads and deletions that the code takes for granted.
DataFaults == {"null collection", "deleted collection", "deleted graph"}

\* cleanup() of a DelayedBuilder that failed on its first CFG: coll->get(0).
EmptyCollection == "empty collection"

Fail(d, fault) == [d EXCEPT !.fault = fault]

\* Reading INVOLVED_CFGS and walking through its CFGs.
ReadFault(d) ==
    IF d.slot = 0 THEN "null collection"
    ELSE IF d.slot \notin DOMAIN d.coll THEN "deleted collection"
    ELSE IF d.coll[d.slot] \notin d.graphs THEN "deleted graph" ELSE "none"

Current(d) == d.coll[d.slot]

\* Sets of graphs per feature: g joins or leaves those of the features of fs.
AddTo(sets, fs, g) == [f \in Marks |-> IF f \in fs THEN sets[f] \union {g} ELSE sets[f]]
TakeFrom(sets, fs, g) == [f \in Marks |-> IF f \in fs THEN sets[f] \ {g} ELSE sets[f]]

\* The blocks of the current graph get the properties of the features of fs.
Hook(d, fs) == [d EXCEPT !.marks = AddTo(@, fs, Current(d))]

\* Mutant: REVERSE_DOM stays on the blocks.
UnhookHeaders(d, fs) == [d EXCEPT !.marks[LOOP_HEADERS] = @ \ {Current(d)}]

\* removeProp, whoever put the property there.
Unhook(d, fs) ==
    [d EXCEPT !.marks = TakeFrom(@, fs, Current(d)), !.copies = TakeFrom(@, fs, Current(d))]

NewCollection(d, c, g) ==
    [d EXCEPT !.slot = c, !.entry = g,
              !.coll = [x \in DOMAIN @ \union {c} |-> IF x = c THEN g ELSE @[x]]]

DeleteCollection(d, c) ==
    IF c \in DOMAIN d.coll
    THEN [d EXCEPT !.coll = [x \in DOMAIN @ \ {c} |-> @[x]]]
    ELSE Fail(d, "deleted collection")

-----------------------------------------------------------------------------
(* The work of the processors.                                             *)

\* CFGBuilder::buildAll: a new CFGInfo, tracked.
BuildInfo(d, g) == [d EXCEPT !.graphs = @ \union {g}, !.info = g]

\* CFGCollector::processWorkSpace: collects from ENTRY_CFG, found in CFGInfo and
\* set if it was not.
Collect(d) ==
    LET g == IF d.entry = 0 THEN d.info ELSE d.entry IN
    IF g \in d.graphs THEN NewCollection(d, collCount + 1, g) ELSE Fail(d, "deleted graph")

\* Dominance puts its own REVERSE_DOM on each block and adds LOOP_HEADERs to those
\* that were copied; LoopInfoBuilder: ENCLOSING_LOOP_HEADER...
DominanceWork(d) ==
    [Hook(d, {DOMINANCE, LOOP_HEADERS}) EXCEPT !.copies = TakeFrom(@, {DOMINANCE}, Current(d))]
LoopInfoBuilderWork(d) == Hook(d, {LOOP_INFO})

\* Mutant: the collection is forgotten while the transformers work.
BuildAndForget(d, g) == [d EXCEPT !.graphs = @ \union {g}, !.slot = 0]

\* new VirtualCFG, of blocks that copy no property: the CodeBasicBlocks of
\* DelayedBuilder, or those of LoopUnroller, that removes what they copied.
Build(d, g) == [d EXCEPT !.graphs = @ \union {g}]

\* new VirtualBasicBlock copies the properties of its block, computed or copied.
BuildCopies(d, g) ==
    LET carried == {f \in Marks : Current(d) \in d.marks[f] \union d.copies[f]}
    IN  [Build(d, g) EXCEPT !.copies = AddTo(@, carried, g)]

\* LoopUnroller and LoopReductor move ENTRY_CFG while they work.
MoveEntry(d, g) == IF d.entry = Current(d) THEN [d EXCEPT !.entry = g] ELSE d

\* The transformers build new CFGs from the current ones.
VirtualizerWork(d, g) == BuildCopies(d, g)
SubCFGBuilderWork(d, g) == BuildCopies(d, g)
DelayedBuilderWork(d, g) == Build(d, g)
LoopUnrollerWork(d, g) == Build(MoveEntry(d, g), g)
LoopReductorWork(d, g) ==
    [BuildCopies(MoveEntry(d, g), g) EXCEPT !.slot = 0, !.marks[LOOP_HEADERS] = @ \union {g}]

Transformers == {"Virtualizer", "SubCFGBuilder", "DelayedBuilder", "LoopUnroller", "LoopReductor"}

\* Those that do not start from INVOLVED_CFGS.
Sources == {"CFGBuilder", "CFGCollector"}

\* processWorkSpace of p, that walks through INVOLVED_CFGS unless p is a source.
DoWork(p) ==
    LET g == graphCount + 1 IN
    /\ data' = IF p \notin Sources /\ ReadFault(data) # "none"
               THEN Fail(data, ReadFault(data))
               ELSE CASE p = "CFGBuilder" -> BuildInfo(data, g)
                      [] p = "CFGCollector" -> Collect(data)
                      [] p = "Dominance" -> DominanceWork(data)
                      [] p = "LoopInfoBuilder" -> LoopInfoBuilderWork(data)
                      [] p = "Virtualizer" -> VirtualizerWork(data, g)
                      [] p = "SubCFGBuilder" -> SubCFGBuilderWork(data, g)
                      [] p = "DelayedBuilder" -> DelayedBuilderWork(data, g)
                      [] p = "LoopUnroller" -> LoopUnrollerWork(data, g)
                      [] p = "LoopReductor" -> LoopReductorWork(data, g)
    /\ graphCount' = IF p \in Transformers \union {"CFGBuilder"} THEN graphCount + 1 ELSE graphCount
    /\ collCount' = IF p = "CFGCollector" THEN collCount + 1 ELSE collCount
    /\ pending' = CASE p = "CFGBuilder" ->
                         <<[feature |-> CFG_INFO, does |-> "delete info", coll |-> 0]>>
                    [] p = "CFGCollector" ->
                         <<[feature |-> COLLECTED_CFG, does |-> "delete", coll |-> collCount + 1]>>
                    [] p = "Dominance" ->
                         <<[feature |-> DOMINANCE, does |-> "unhook", coll |-> 0]>>
                    [] OTHER -> <<>>
    /\ UNCHANGED cleans

\* process() calls cleanup() for a ProcessorException and passes it on.
\* CFGCollector throws one when it finds no entry; its cleanup() looks at
\* INVOLVED_CFGS.
NoEntry ==
    /\ data.entry = 0
    /\ data' = IF data.slot # 0 /\ ReadFault(data) # "none"
               THEN Fail(data, ReadFault(data)) ELSE data
    /\ UNCHANGED <<pending, cleans, graphCount, collCount>>

\* DelayedBuilder throws one for an instruction it cannot fetch; its cleanup()
\* installs the collection as far as it is built, and the cleaners are lost.
HalfBuilt ==
    /\ ReadFault(data) = "none"
    /\ \/ /\ data' = Fail(data, EmptyCollection)
          /\ UNCHANGED <<graphCount, collCount>>
       \/ LET g == graphCount + 1 IN
          /\ data' = [NewCollection(Build(data, g), collCount + 1, g) EXCEPT !.halfBuilt = TRUE]
          /\ graphCount' = g
          /\ collCount' = collCount + 1
    /\ UNCHANGED <<pending, cleans>>

\* Another exception, as the otawa::Exception of DelayedBuilder::fix, just leaves.
DoFail(p) ==
    \/ p = "CFGCollector" /\ NoEntry
    \/ p = "DelayedBuilder" /\ HalfBuilt
    \/ p # "CFGCollector" /\ UNCHANGED pipeline

\* What the calls of track(), addDeletor() and addRemover() leave to do.
SlotDeletor == [feature |-> COLLECTED_CFG, does |-> "delete slot", coll |-> 0]
OnEntry(what) == [feature |-> VIRTUALIZED_CFG, does |-> what, coll |-> 0]

\* cleanup() of a transformer that installs a collection of its new graph.
Install(cleaners) ==
    /\ data' = NewCollection(data, collCount + 1, graphCount)
    /\ collCount' = collCount + 1
    /\ pending' = cleaners

VirtualizerCleanup == Install(<<SlotDeletor, OnEntry("remove entry")>>)
DelayedBuilderCleanup == Install(<<SlotDeletor>>)
LoopUnrollerCleanup == Install(<<>>)

SubCFGBuilderCleanup ==
    /\ data' = [data EXCEPT !.entry = graphCount]
    /\ pending' = <<OnEntry("delete entry")>>
    /\ UNCHANGED collCount

\* cleanup(), after the invalidations.
DoCleanup(p) ==
    /\ \/ p = "Virtualizer" /\ VirtualizerCleanup
       \/ p = "DelayedBuilder" /\ DelayedBuilderCleanup
       \/ p = "LoopUnroller" /\ LoopUnrollerCleanup
       \/ p = "SubCFGBuilder" /\ SubCFGBuilderCleanup
       \/ /\ p \in Sources \union {"Dominance", "LoopInfoBuilder", "LoopReductor"}
          /\ UNCHANGED <<data, collCount, pending>>
    /\ UNCHANGED <<cleans, graphCount>>

-----------------------------------------------------------------------------
(* Cleaners.                                                               *)

\* The cleaners of the processor that are on f.
PendingOn(f) ==
    LET own[k \in 0..Len(pending)] ==
            IF k = 0 THEN <<>>
            ELSE IF pending[k].feature = f THEN Append(own[k - 1], pending[k]) ELSE own[k - 1]
    IN  own[Len(pending)]

CleanList(n) == IF n \in DOMAIN cleans THEN cleans[n] ELSE <<>>

\* The cleaners go to the head of the CleanList of their node, in their order.
AttachCleaners ==
    /\ cleans' = [n \in DOMAIN heap |-> PendingOn(heap[n].feature) \o CleanList(n)]
    /\ pending' = <<>>
    /\ UNCHANGED <<data, graphCount, collCount>>

\* Deletor on ENTRY_CFG.
DeleteEntry(d) ==
    IF d.entry = 0 THEN d
    ELSE IF d.entry \in d.graphs THEN [d EXCEPT !.graphs = @ \ {d.entry}, !.entry = 0]
    ELSE Fail(d, "deleted graph")

\* Deletor on CFGInfo::ID: ~CFGInfo deletes its CFGs and their blocks.
DeleteInfo(d) ==
    IF d.info = 0 THEN d
    ELSE IF d.info \in d.graphs THEN [d EXCEPT !.graphs = @ \ {d.info}, !.info = 0]
    ELSE Fail(d, "deleted graph")

\* DominanceCleaner is a BBCleaner, that asserts a collection.
CleanDominance(d) ==
    IF ReadFault(d) = "none" THEN Unhook(d, {DOMINANCE, LOOP_HEADERS})
    ELSE Fail(d, ReadFault(d))

\* One cleaner of a list: CFGCollectionCleaner deletes its own collection,
\* Deletor and Remover what the property of the workspace holds then.
Clean(d, c) ==
    IF d.fault # "none" THEN d
    ELSE CASE c.does = "delete" -> DeleteCollection(d, c.coll)
           [] c.does = "delete slot" ->
                 IF d.slot = 0 THEN d ELSE [DeleteCollection(d, d.slot) EXCEPT !.slot = 0]
           [] c.does = "remove entry" -> [d EXCEPT !.entry = 0]
           [] c.does = "delete entry" -> DeleteEntry(d)
           [] c.does = "delete info" -> DeleteInfo(d)
           [] c.does = "unhook" -> CleanDominance(d)

\* The cleaners of a list, one after the other.
CleanAll(list) ==
    LET run[k \in 0..Len(list)] == IF k = 0 THEN data ELSE Clean(run[k - 1], list[k])
    IN  run[Len(list)]

\* Mutant: the CleanList outlives its node.
RunAndKeepCleaners ==
    /\ data' = CleanAll(CleanList(featMap[Last(inv).feature]))
    /\ UNCHANGED <<cleans, pending, graphCount, collCount>>

\* The node of the innermost invalidation is deleted.
RunCleaners ==
    LET n == featMap[Last(inv).feature] IN
    /\ data' = CleanAll(CleanList(n))
    /\ cleans' = [m \in DOMAIN cleans \ {n} |-> cleans[m]]
    /\ UNCHANGED <<pending, graphCount, collCount>>

-----------------------------------------------------------------------------
PInit ==
    /\ Init
    /\ data = [slot |-> 0, entry |-> 0, info |-> 0, coll |-> <<>>, graphs |-> {},
               marks |-> [f \in Marks |-> {}], copies |-> [f \in Marks |-> {}],
               halfBuilt |-> FALSE, fault |-> "none"]
    /\ pending = <<>>
    /\ cleans = <<>>
    /\ graphCount = 0
    /\ collCount = 0

\* A fault ends the program.
Sane == data.fault = "none"

PWork == Sane /\ Work /\ DoWork(Top.proc)
PWorkFails == Sane /\ WorkFails /\ DoFail(Top.proc)
\* Mutant: cleanup() before the invalidations.
PCleanupFirst ==
    /\ Sane /\ PostInvalidate
    /\ IF Top.i = 1 THEN DoCleanup(Top.proc) ELSE UNCHANGED pipeline

PPostInvalidate ==
    /\ Sane /\ PostInvalidate
    /\ IF More THEN UNCHANGED pipeline ELSE DoCleanup(Top.proc)
PPutCleaners == Sane /\ PutCleaners /\ AttachCleaners
PInvalidateFeature == Sane /\ InvalidateFeature /\ RunCleaners

\* The steps of the engine that run no code of a processor.
PControl ==
    /\ Sane
    /\ \/ InvalidateDependent \/ PreInvalidate \/ Need \/ ReturnCancelled
       \/ CheckRequirements \/ NoProcessorThrows \/ Provide
       \/ (\E f \in Features : DestroyFeature(f)) \/ Destroyed
    /\ UNCHANGED pipeline

\* The calls of the tools, and a cancellation.
PCall ==
    /\ Sane
    /\ \/ /\ graphCount <= MaxGraphs /\ collCount <= MaxGraphs
          /\ \/ \E p \in Tools : CallProcess(p)
             \/ \E f \in Wanted : CallRequire(f)
       \/ \E f \in Dropped : CallInvalidate(f)
       \/ ClearCancellation \/ Cancel \/ Destroy
    /\ UNCHANGED pipeline

PStopped == (mode \notin {"live", "dying"} \/ ~Sane) /\ UNCHANGED <<vars, pipeline>>

PNext ==
    \/ PWork \/ PWorkFails \/ PPostInvalidate \/ PPutCleaners
    \/ PInvalidateFeature \/ PControl \/ PCall \/ PStopped

PSpec == PInit /\ [][PNext]_<<vars, pipeline>>

-----------------------------------------------------------------------------
(* Properties.                                                             *)

PipelineTypeOK ==
    /\ TypeOK
    /\ data.slot \in Nat /\ data.entry \in Nat /\ data.info \in Nat
    /\ data.graphs \subseteq Nat
    /\ data.halfBuilt \in BOOLEAN
    /\ data.fault \in DataFaults \union {EmptyCollection, "none"}
    /\ DOMAIN cleans \subseteq DOMAIN heap

\* No invalidation is going on, and the workspace is in use.
Settled == mode = "live" /\ inv = <<>>

\* Between invalidations, while COLLECTED_CFG_FEATURE is provided, INVOLVED_CFGS
\* is a collection that was not deleted, of CFGs that were not deleted, whatever
\* was rebuilt, invalidated or failed before, a DelayedBuilder included.
CollectionReady == (Settled /\ Provided(COLLECTED_CFG)) => ReadFault(data) = "none"

\* REVERSE_DOM is the one that was computed for the current graph, not a copy.
Own(f) == f = DOMINANCE => Current(data) \notin data.copies[f]

OnCurrent(f) ==
    (Provided(f) /\ ReadFault(data) = "none") => Current(data) \in data.marks[f] /\ Own(f)

\* Between invalidations, while DOMINANCE_FEATURE, LOOP_HEADERS_FEATURE or
\* LOOP_INFO_FEATURE is provided, its processor has put its properties on the
\* blocks of the current CFGs, and REVERSE_DOM there is not the copy of another
\* graph's: as long as no DelayedBuilder met an instruction it could not fetch,
\* whose cleanup() puts other CFGs under results that stay provided.
ResultsCurrent == (Settled /\ ~data.halfBuilt) => \A f \in Marks : OnCurrent(f)

\* No processor and no cleaner meets a null or deleted collection, or a deleted
\* CFG; none is deleted twice.  (A DelayedBuilder that fails on its first CFG
\* reads the first one of an empty collection.)
NoDataFault == data.fault \notin DataFaults

\* Once DOMINANCE_FEATURE is not provided any more, its cleaner has taken
\* REVERSE_DOM from every graph that Dominance put it on, whatever INVOLVED_CFGS
\* was meanwhile, unless a DelayedBuilder failed as above.  The copies in the
\* blocks of virtual CFGs belong to no cleaner.
ResultsRemoved ==
    (~Provided(DOMINANCE) /\ stack = <<>> /\ mode = "live" /\ ~data.halfBuilt)
        => data.marks[DOMINANCE] = {}

-----------------------------------------------------------------------------
(* What the properties ask of the declarations, which the processors below  *)
(* satisfy, and of what the tools call by hand.                             *)

\* The processors that replace the collection, and those that work on one.
Changers == {"Virtualizer", "DelayedBuilder", "LoopUnroller"}
Analyses == {"Dominance", "LoopInfoBuilder"}
Known == Changers \union Analyses \union Sources \union {NoProcessor}

\* The processors that change the collection invalidate it, and nothing else is
\* invalidated; nobody else provides it but the collector, which only runs when
\* it is missing and reads CFGInfo; the results of an analysis come from it
\* alone and depend on the collection, those of Virtualizer and CFGBuilder on
\* nothing.
CFGDeclarations ==
    /\ Known \subseteq Processors
    /\ Marks \union {COLLECTED_CFG, VIRTUALIZED_CFG, CFG_INFO} \subseteq Features \ ToSet(Loaded)
    /\ NoProcessor \notin Changers \union Analyses \union Sources
    /\ \A p \in Known, f \in Features : Uses(p, f) => Makers[f] \subseteq Known
    /\ \A p \in Changers \union Analyses : Uses(p, COLLECTED_CFG)
    /\ \A f \in Features :
          /\ ~ Uses(NoProcessor, f) /\ ~ Uses("CFGBuilder", f)
          /\ Uses("CFGCollector", f) => Makers[f] \subseteq {NoProcessor, "CFGBuilder"}
          /\ "CFGCollector" \in Makers[f] => f = COLLECTED_CFG
          /\ "CFGBuilder" \in Makers[f] => f = CFG_INFO
    /\ \A p \in Known :
          /\ Invalidated(p) = IF p \in Changers THEN {COLLECTED_CFG} ELSE {}
          /\ COLLECTED_CFG \in ProvidedBy(p) => p \in Changers \union {"CFGCollector"}
          /\ {DOMINANCE, LOOP_HEADERS} \cap ProvidedBy(p) # {} => p = "Dominance"
          /\ LOOP_INFO \in ProvidedBy(p) => p = "LoopInfoBuilder"
          /\ VIRTUALIZED_CFG \in ProvidedBy(p) => p = "Virtualizer"
          /\ CFG_INFO \in ProvidedBy(p) => p = "CFGBuilder"
    /\ Required("Dominance") = {COLLECTED_CFG}
    /\ COLLECTED_CFG \in Required("LoopInfoBuilder")
    /\ CFG_INFO \in Required("CFGCollector")
    /\ Required("Virtualizer") = {}
    /\ DOMINANCE \in Cleaned["Dominance"]

\* The tools do not collect or build CFGInfo by hand over what is there.
\* They do not take away alone DOMINANCE_FEATURE, whose cleaner removes
\* LOOP_HEADER as well, VIRTUALIZED_CFG_FEATURE, that makes the collector
\* forget ENTRY_CFG, or CFG_INFO_FEATURE, whose deletor leaves ENTRY_CFG on a
\* deleted CFG.
ToolCalls ==
    /\ Tools \subseteq Known \ Sources
    /\ Wanted \subseteq Features
    /\ \A f \in Wanted : Makers[f] \subseteq Known
    /\ Dropped \subseteq Features \ {DOMINANCE, VIRTUALIZED_CFG, CFG_INFO}
=============================================================================
