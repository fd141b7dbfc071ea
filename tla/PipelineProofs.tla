---------------------------- MODULE PipelineProofs ----------------------------
(***************************************************************************)
(* While COLLECTED_CFG_FEATURE is provided its collection can be read, and   *)
(* the results of the analyses that are provided are on the current graph,   *)
(* however the processors are run, invalidated, cancelled or fail.           *)
(***************************************************************************)
EXTENDS CFGPipeline, CatalogueProofs, Induction

-----------------------------------------------------------------------------
(* The invariant.                                                          *)

Producers == Changers \union {"CFGCollector"}
AfterWork == {"postinvalidate", "provide", "clean"}

\* The collection of INVOLVED_CFGS was not deleted.
Ready == data.slot \in DOMAIN data.coll

CleanerType == [feature : Features, does : STRING, coll : Nat]

Colls == UNION {[X -> 1..graphCount] : X \in SUBSET (1..collCount)}
GraphSets == SUBSET (1..graphCount)
MarkSets == [Marks -> SUBSET Nat]
DataType ==
    [slot : Nat, entry : 0..graphCount, info : 0..graphCount, coll : Colls, graphs : GraphSets,
     marks : MarkSets, copies : MarkSets, halfBuilt : BOOLEAN, fault : {"none", EmptyCollection}]

DataTypes == graphCount \in Nat /\ collCount \in Nat /\ data \in DataType

\* CFGCollector comes after LoopUnroller... with ENTRY_CFG set, or on an empty
\* workspace.  Nothing deletes a CFG before the workspace is destroyed.
CollectionInv ==
    /\ Provided(COLLECTED_CFG) => Ready /\ Current(data) \in data.graphs
    /\ data.info \in data.graphs \union {0}
    /\ mode = "live" => /\ data.entry = 0 => data.slot = 0
                        /\ data.graphs = 1..graphCount

\* CFGCollectionCleaner.
DeletorOf(c) == [feature |-> COLLECTED_CFG, does |-> "delete", coll |-> c]
Deletor == DeletorOf(data.slot)
Unhooker == [feature |-> DOMINANCE, does |-> "unhook", coll |-> 0]
RemoveEntry == OnEntry("remove entry")
InfoDeletor == [feature |-> CFG_INFO, does |-> "delete info", coll |-> 0]

\* The cleaners of a node of the feature f: a collection is deleted once.
ListOf(f) ==
    CASE f = COLLECTED_CFG -> {<<>>, <<SlotDeletor>>} \union {<<DeletorOf(c)>> : c \in DOMAIN data.coll}
      [] f = DOMINANCE -> Seq({Unhooker})
      [] f = VIRTUALIZED_CFG -> Seq({RemoveEntry})
      [] f = CFG_INFO -> Seq({InfoDeletor})
      [] OTHER -> {<<>>}

CleansInv ==
    /\ DOMAIN cleans \subseteq DOMAIN heap
    /\ \A n \in DOMAIN cleans : cleans[n] \in ListOf(heap[n].feature)

\* What the results depend on.
DependsInv ==
    /\ Provided(DOMINANCE) => heap[featMap[DOMINANCE]].parents = {featMap[COLLECTED_CFG]}
    /\ \A f \in Marks : Provided(f) => featMap[COLLECTED_CFG] \in heap[featMap[f]].parents
    /\ \A f \in {VIRTUALIZED_CFG, CFG_INFO} : Provided(f) => heap[featMap[f]].parents = {}

\* A collection of the CFGs of CFGInfo depends on it.
InfoInv ==
    /\ Provided(CFG_INFO) => data.info # 0
    /\ Provided(COLLECTED_CFG) /\ Current(data) = data.info =>
          featMap[CFG_INFO] \in heap[featMap[COLLECTED_CFG]].parents

\* Only the processors of this catalogue run; the collector runs while there is
\* no collection, and for it nothing runs but what makes CFGInfo.
FramesInv ==
    \A k \in 1..Len(stack) :
        /\ stack[k].proc \in Known
        /\ stack[k].proc \notin Changers => stack[k].required = Required(stack[k].proc)
        /\ stack[k].proc = NoProcessor => stack[k].pc \notin AfterWork
        /\ stack[k].proc = "CFGCollector" /\ stack[k].pc \notin {"provide", "clean"} =>
              /\ ~Provided(COLLECTED_CFG)
              /\ \A j \in (k + 1)..Len(stack) : stack[j].proc \in {NoProcessor, "CFGBuilder"}

\* An invalidation begins with the collection, after the work of the processor
\* that replaces it, or with what a tool takes away.
RootInv ==
    /\ mode = "live" /\ inv # <<>> => inv[1].feature \notin {DOMINANCE, VIRTUALIZED_CFG, CFG_INFO}
    /\ stack # <<>> /\ inv # <<>> => Top.proc \in Changers

\* Processor::cleaners.
PendingOf(p, pc) ==
    CASE p = "CFGCollector" -> <<Deletor>>
      [] p = "CFGBuilder" -> <<InfoDeletor>>
      [] p = "Dominance" -> <<Unhooker>>
      [] p = "Virtualizer" /\ pc # "postinvalidate" -> <<SlotDeletor, RemoveEntry>>
      [] p = "DelayedBuilder" /\ pc # "postinvalidate" -> <<SlotDeletor>>
      [] OTHER -> <<>>

\* What the innermost process() has done, after its work.
WorkDone ==
    /\ Top.proc \in Producers /\ Top.pc \in {"provide", "clean"} =>
          Ready /\ featMap[COLLECTED_CFG] \notin DOMAIN cleans
    /\ Top.proc = "CFGCollector" => Ready
    /\ Top.proc = "CFGBuilder" => data.info # 0
    /\ Top.proc \in Changers =>
          IF Top.pc = "postinvalidate" THEN graphCount \notin {0, data.info}
          ELSE Current(data) # data.info
    /\ Top.proc \in Analyses => Provided(COLLECTED_CFG)
    /\ Top.proc = "Dominance" =>
          /\ \A f \in {DOMINANCE, LOOP_HEADERS} : Current(data) \in data.marks[f]
          /\ Own(DOMINANCE)
    /\ Top.proc = "LoopInfoBuilder" => Current(data) \in data.marks[LOOP_INFO]

\* The innermost process().
WorkInv ==
    /\ stack # <<>> /\ Top.pc = "work" => \A f \in Features : Uses(Top.proc, f) => Provided(f)
    /\ pending = IF stack # <<>> /\ Top.pc \in AfterWork THEN PendingOf(Top.proc, Top.pc) ELSE <<>>
    /\ stack # <<>> /\ Top.pc \in AfterWork => WorkDone

\* The results on the current graph are known while no half-built one replaces it.
Following == mode = "live" /\ ~data.halfBuilt

\* LOOP_HEADERS_FEATURE loses its properties with DOMINANCE_FEATURE, while the
\* collection they both depend on is invalidated.
HooksInv ==
    Following =>
        \A f \in Marks : Provided(f) =>
            /\ \/ Current(data) \in data.marks[f]
               \/ f = LOOP_HEADERS /\ \E k \in 1..Len(inv) : inv[k].feature = COLLECTED_CFG
            /\ Own(f)

UnhookInv ==
    Following /\ data.marks[DOMINANCE] # {} =>
        /\ Provided(COLLECTED_CFG)
        /\ data.marks[DOMINANCE] = {Current(data)}
        /\ \/ Provided(DOMINANCE) /\ CleanList(featMap[DOMINANCE]) # <<>>
           \/ stack # <<>> /\ Top.proc = "Dominance" /\ Top.pc \in AfterWork

PipelineInv ==
    /\ DataTypes /\ CollectionInv /\ CleansInv /\ DependsInv /\ InfoInv /\ FramesInv
    /\ RootInv /\ WorkInv /\ HooksInv /\ UnhookInv

\* CFGDeclarations and ToolCalls, with the coherence of the declarations.
SafePipeline == CoherentCatalogue /\ CFGDeclarations /\ ToolCalls

\* The state of the engine and of the data.
State == GraphInv /\ CatalogueInv /\ PipelineInv

-----------------------------------------------------------------------------
(* The catalogue and the graph of features.                                *)

LEMMA NamesDiffer ==
    /\ COLLECTED_CFG # VIRTUALIZED_CFG /\ COLLECTED_CFG # CFG_INFO /\ VIRTUALIZED_CFG # CFG_INFO
    /\ COLLECTED_CFG \notin Marks /\ VIRTUALIZED_CFG \notin Marks /\ CFG_INFO \notin Marks
    /\ DOMINANCE # LOOP_HEADERS /\ DOMINANCE # LOOP_INFO /\ LOOP_HEADERS # LOOP_INFO
    /\ DOMINANCE \in Marks /\ LOOP_HEADERS \in Marks /\ LOOP_INFO \in Marks
BY DEF COLLECTED_CFG, VIRTUALIZED_CFG, CFG_INFO, DOMINANCE, LOOP_HEADERS, LOOP_INFO, Marks

\* The kinds of processors, in the order of the analyses that use them.
LEMMA KindsDiffer ==
    ASSUME CFGDeclarations
    PROVE  /\ "CFGCollector" \notin Changers \union Analyses
           /\ "CFGBuilder" \notin Changers \union Analyses \union {"CFGCollector"}
           /\ Changers \cap Analyses = {}
           /\ NoProcessor \notin Changers \union Analyses \union {"CFGCollector", "CFGBuilder"}
           /\ "Dominance" \in Analyses /\ "LoopInfoBuilder" \in Analyses /\ "Dominance" # "LoopInfoBuilder"
           /\ "Virtualizer" \in Changers
           /\ Known = Changers \union Analyses \union {"CFGCollector", "CFGBuilder", NoProcessor}
           /\ Known \subseteq Processors
           /\ {COLLECTED_CFG, VIRTUALIZED_CFG, CFG_INFO, DOMINANCE, LOOP_HEADERS, LOOP_INFO} \subseteq Features
BY DEF CFGDeclarations, Changers, Analyses, Sources, Known, Marks

\* The features that the processors invalidate.
LEMMA OnlyCollection ==
    ASSUME CFGDeclarations, NEW p \in Known
    PROVE  /\ p \notin Changers => Invalidated(p) = {}
           /\ p \in Changers => Invalidated(p) = {COLLECTED_CFG} /\ Uses(p, COLLECTED_CFG)
BY DEF CFGDeclarations

\* The nodes of the features.
LEMMA FeatureNodes ==
    ASSUME GraphOK
    PROVE  /\ \A f \in Features : featMap[f] \in Nat
           /\ 0 \notin DOMAIN heap /\ fresh \notin DOMAIN heap /\ fresh # 0 /\ fresh \in Nat
           /\ \A n \in DOMAIN heap : /\ heap[n].feature \in Features
                                     /\ featMap[heap[n].feature] = n
                                     /\ heap[n].parents \subseteq DOMAIN heap
           /\ \A f \in Features : Provided(f) =>
                 featMap[f] \in DOMAIN heap /\ heap[featMap[f]].feature = f
<1>1. \A n \in DOMAIN heap : n < fresh /\ n \in Nat
  BY DEF GraphOK, GraphTypeOK, CreationOrder, Addresses
<1>2. fresh \in Nat /\ fresh \notin DOMAIN heap
  BY <1>1 DEF GraphOK, GraphTypeOK, Addresses
<1>3. \A n \in DOMAIN heap : heap[n].feature \in Features
  BY DEF GraphOK, GraphTypeOK, NodeType
<1> QED BY <1>1, <1>2, <1>3 DEF GraphOK, GraphTypeOK, DepsClosed, Provided, Addresses

\* The results of an analysis need the collection.
LEMMA ResultsNeed ==
    ASSUME CFGDeclarations, GraphOK, DependsInv, NEW f \in Marks, Provided(f)
    PROVE  Provided(COLLECTED_CFG)
<1>1. f \in Features
  BY DEF CFGDeclarations
<1>2. featMap[COLLECTED_CFG] \in DOMAIN heap
  BY <1>1, FeatureNodes DEF DependsInv
<1> QED BY <1>2, FeatureNodes DEF Provided

\* What holds of the collection that is ready.
LEMMA ReadyMeans ==
    ASSUME DataTypes, Ready
    PROVE  /\ data.slot # 0 /\ Current(data) \in 1..graphCount
           /\ Current(data) \in data.graphs => ReadFault(data) = "none"
<1>1. PICK X \in SUBSET (1..collCount) : data.coll \in [X -> 1..graphCount]
  BY DEF DataTypes, DataType, Colls
<1>2. data.slot \in X /\ data.slot # 0 /\ data.coll[data.slot] \in 1..graphCount
  BY <1>1 DEF Ready, DataTypes, DataType
<1> QED BY <1>1, <1>2 DEF Ready, ReadFault, Current

\* No CFG of a live workspace is deleted.
LEMMA LiveReads ==
    ASSUME DataTypes, CollectionInv, Ready, mode = "live"
    PROVE  ReadFault(data) = "none" /\ Current(data) \in 1..graphCount
BY ReadyMeans DEF CollectionInv

-----------------------------------------------------------------------------
(* The steps that leave the data alone.                                    *)

\* The parts of the invariant that the stack of process() does not matter to.
DataInv == DataTypes /\ CollectionInv /\ CleansInv /\ DependsInv /\ InfoInv

LEMMA DataKept ==
    ASSUME DataInv, UNCHANGED <<featMap, heap, pipeline>>, mode' = "live" => mode = "live"
    PROVE  DataInv'
<1>1. DataTypes'
  BY DEF DataInv, DataTypes, DataType, Colls, GraphSets, MarkSets, pipeline
<1>2. CollectionInv'
  BY DEF DataInv, CollectionInv, Ready, Provided, Current, pipeline
<1>3. DependsInv' /\ InfoInv'
  BY DEF DataInv, DependsInv, InfoInv, Provided, Current, pipeline
<1>4. CleansInv'
  BY DEF DataInv, CleansInv, ListOf, DeletorOf, pipeline
<1> QED BY <1>1, <1>2, <1>3, <1>4 DEF DataInv

\* The marks stay right as long as the invalidation of the collection is not
\* forgotten.
LEMMA HooksKept ==
    ASSUME HooksInv, UNCHANGED <<featMap, data>>, mode' = "live" => mode = "live",
           \A k \in 1..Len(inv) : inv[k].feature = COLLECTED_CFG =>
              \E j \in 1..Len(inv') : inv'[j].feature = COLLECTED_CFG
    PROVE  HooksInv'
BY DEF HooksInv, Following, Provided, Own

\* Nor the cleaner of DOMINANCE_FEATURE while it is in Processor::cleaners.
LEMMA UnhookKept ==
    ASSUME UnhookInv, UNCHANGED <<featMap, data, cleans>>, mode' = "live" => mode = "live",
           stack # <<>> /\ Top.pc \in AfterWork =>
              stack' # <<>> /\ Top'.proc = Top.proc /\ Top'.pc \in AfterWork
    PROVE  UnhookInv'
BY DEF UnhookInv, Following, Provided, CleanList

\* The innermost process() goes on.
LEMMA FramesMove ==
    ASSUME FramesInv, Moves,
           Top.proc \notin Changers => Top'.required = Top.required,
           Top.proc = NoProcessor => Top'.pc \notin AfterWork,
           Top.pc \in {"provide", "clean"} => Top'.pc \in {"provide", "clean"},
           Provided(COLLECTED_CFG)' =>
              Provided(COLLECTED_CFG) \/ (Top.pc = "provide" /\ Top.proc \notin {NoProcessor, "CFGBuilder"})
    PROVE  FramesInv'
<1> DEFINE L == Len(stack)
<1>1. /\ L \in Nat \ {0} /\ Len(stack') = L /\ Top = stack[L] /\ Top' = stack'[L]
      /\ \A k \in 1..(L - 1) : stack'[k] = stack[k]
      /\ Top'.proc = Top.proc
  BY DEF Moves
<1>2. \A k \in 1..L : stack'[k].proc = stack[k].proc
  BY <1>1
<1>3. ASSUME NEW k \in 1..L, stack[k].proc = "CFGCollector", stack'[k].pc \notin {"provide", "clean"}
      PROVE  /\ ~Provided(COLLECTED_CFG)'
             /\ \A j \in (k + 1)..L : stack'[j].proc \in {NoProcessor, "CFGBuilder"}
  <2>1. stack[k].pc \notin {"provide", "clean"}
    BY <1>1, <1>3
  <2>2. /\ ~Provided(COLLECTED_CFG)
        /\ \A j \in (k + 1)..L : stack[j].proc \in {NoProcessor, "CFGBuilder"}
    BY <1>3, <2>1 DEF FramesInv
  <2>3. Top.pc # "provide" \/ Top.proc \in {NoProcessor, "CFGBuilder"}
    <3>1. CASE k = L
      BY <1>1, <2>1, <3>1
    <3>2. CASE k # L
      BY <1>1, <2>2, <3>2
    <3> QED BY <3>1, <3>2
  <2> QED BY <1>2, <2>2, <2>3
<1>4. ASSUME NEW k \in 1..L
      PROVE  /\ stack'[k].proc \in Known
             /\ stack'[k].proc \notin Changers => stack'[k].required = Required(stack'[k].proc)
             /\ stack'[k].proc = NoProcessor => stack'[k].pc \notin AfterWork
  BY <1>1 DEF FramesInv
<1> QED BY <1>1, <1>2, <1>3, <1>4 DEF FramesInv

\* process() returns or throws.
LEMMA FramesPop ==
    ASSUME ControlTypeOK, FramesInv, stack # <<>>, UNCHANGED featMap,
           stack' = <<>> \/ stack' = Front(stack)
    PROVE  FramesInv'
<1>1. stack \in Seq(FrameType)
  BY DEF ControlTypeOK
<1>2. CASE stack' = <<>>
  BY <1>2 DEF FramesInv
<1>3. CASE stack' = Front(stack)
  <2>1. /\ Len(stack) \in Nat \ {0} /\ Len(stack') = Len(stack) - 1
        /\ \A k \in 1..(Len(stack) - 1) : stack'[k] = stack[k]
    BY <1>1, <1>3, FrontLastProperties
  <2> QED BY <2>1 DEF FramesInv, Provided
<1> QED BY <1>2, <1>3

\* The state, unfolded.
LEMMA StateMeans ==
    ASSUME State
    PROVE  /\ GraphOK /\ ControlTypeOK /\ InvalidationSafe /\ CatalogueInv /\ DataInv
           /\ stack \in Seq(FrameType) /\ inv \in Seq(ActivationType)
BY DEF State, GraphInv, GraphOK, TypeOK, ControlTypeOK, PipelineInv, DataInv, GraphTypeOK, ActivationType

\* The innermost process() is one of this catalogue.
LEMMA TopKnown ==
    ASSUME SafePipeline, State, stack # <<>>
    PROVE  /\ Len(stack) \in Nat \ {0} /\ Top = stack[Len(stack)] /\ Top \in FrameType
           /\ Top.proc \in Known /\ Top.proc \in Processors
           /\ Top.proc \notin Changers => Top.required = Required(Top.proc)
           /\ Top.proc = NoProcessor => Top.pc \notin AfterWork
           /\ Top.proc = "CFGCollector" /\ Top.pc \notin {"provide", "clean"} => ~Provided(COLLECTED_CFG)
<1>1. Len(stack) \in Nat \ {0} /\ Top = stack[Len(stack)] /\ Top \in FrameType
  BY StateMeans, FrontLastProperties DEF Top
<1>2. Len(stack) \in 1..Len(stack)
  BY <1>1
<1>3. FramesInv
  BY DEF State, PipelineInv
<1> HIDE DEF FramesInv
<1>4. Top.proc \in Known
  BY <1>1, <1>2, <1>3 DEF FramesInv
<1>5. Top.proc \in Processors
  BY <1>4, KindsDiffer DEF SafePipeline
<1> QED BY <1>1, <1>2, <1>3, <1>4, <1>5 DEF FramesInv

\* The loops of process() go on without a call of process().
LEMMA MoveKeeps ==
    ASSUME SafePipeline, State, Moves, inv = <<>>, RootInv',
           UNCHANGED <<featMap, heap, mode, pipeline>>,
           Top.proc \notin Changers => Top'.required = Top.required,
           Top.pc \notin AfterWork => Top'.pc \notin AfterWork,
           Top.pc \in AfterWork => Top'.pc = Top.pc \/ (Top.pc = "provide" /\ Top'.pc = "clean"),
           Top'.pc = "work" => \A f \in Features : Uses(Top.proc, f) => Provided(f)
    PROVE  PipelineInv'
<1>1. stack # <<>> /\ stack' # <<>> /\ Top'.proc = Top.proc
  BY DEF Moves
<1>2. /\ DataInv /\ FramesInv /\ RootInv /\ WorkInv /\ HooksInv /\ UnhookInv
      /\ UNCHANGED <<data, pending, cleans>>
  BY StateMeans DEF State, PipelineInv, pipeline
<1>3. DataInv'
  BY <1>2, DataKept
<1>4. FramesInv'
  <2>1. Top.proc = NoProcessor => Top'.pc \notin AfterWork
    BY <1>1, TopKnown
  <2>2. Top.pc \in {"provide", "clean"} => Top'.pc \in {"provide", "clean"}
    BY DEF AfterWork
  <2>3. Provided(COLLECTED_CFG)' => Provided(COLLECTED_CFG)
    BY DEF Provided
  <2> QED BY <1>2, <2>1, <2>2, <2>3, FramesMove
<1>6. WorkInv'
  <2>1. pending' = (IF stack # <<>> /\ Top.pc \in AfterWork THEN PendingOf(Top.proc, Top.pc) ELSE <<>>)'
    <3>1. Top.pc \in AfterWork => Top'.pc \in AfterWork
      BY DEF AfterWork
    <3>2. CASE Top.pc \notin AfterWork
      BY <1>1, <1>2, <3>2 DEF WorkInv, WorkDone
    <3>3. CASE Top.pc \in AfterWork
      <4>1. pending = PendingOf(Top.proc, Top.pc)
        BY <1>1, <1>2, <3>3 DEF WorkInv, WorkDone
      <4>2. PendingOf(Top.proc, Top.pc)' = PendingOf(Top.proc, Top.pc)
        <5>1. Top'.pc = "postinvalidate" <=> Top.pc = "postinvalidate"
          BY <3>3
        <5>2. Deletor' = Deletor
          BY <1>2 DEF Deletor, DeletorOf
        <5> QED BY <1>1, <5>1, <5>2 DEF PendingOf
      <4> QED BY <1>1, <1>2, <3>1, <3>3, <4>1, <4>2
    <3> QED BY <3>2, <3>3
  <2>2. Top'.pc \in {"provide", "clean"} =>
           Top.pc \in {"provide", "clean"}
    BY DEF AfterWork
  <2>3. Top'.pc \in AfterWork => Top.pc \in AfterWork
    OBVIOUS
  <2>4. \A f : Provided(f)' <=> Provided(f)
    BY DEF Provided
  <2>5. Ready' = Ready /\ Current(data)' = Current(data) /\ Own(DOMINANCE)' = Own(DOMINANCE)
    BY <1>2 DEF Ready, Current, Own
  <2>6. CASE Top'.pc \in AfterWork
    <3>1. WorkDone
      BY <1>1, <1>2, <2>3, <2>6 DEF WorkInv
    <3>2. Top'.pc = "postinvalidate" <=> Top.pc = "postinvalidate"
      BY <2>3, <2>6
    <3>3. WorkDone'
      BY <1>1, <1>2, <2>2, <2>4, <2>5, <3>1, <3>2 DEF WorkDone, pipeline
    <3> QED BY <1>1, <2>1, <2>6, <3>3 DEF WorkInv, AfterWork
  <2>7. CASE Top'.pc \notin AfterWork
    BY <1>1, <2>1, <2>4, <2>7 DEF WorkInv
  <2> QED BY <2>6, <2>7
<1>7. HooksInv'
  BY <1>2, HooksKept
<1>8. UnhookInv'
  <2>1. Top.pc \in AfterWork => Top'.pc \in AfterWork
    BY DEF AfterWork
  <2> QED BY <1>1, <1>2, <2>1, UnhookKept
<1> QED BY <1>3, <1>4, <1>6, <1>7, <1>8 DEF PipelineInv, DataInv

\* process() returns to the requirement loop of the processor that waits for it.
LEMMA PopNeeds ==
    ASSUME State, stack # <<>>, stack' = Front(stack), stack' # <<>>
    PROVE  Top'.pc = "need"
<1>1. /\ stack \in Seq(FrameType) /\ Front(stack) \in Seq(FrameType)
      /\ Len(stack) \in Nat \ {0} /\ Len(Front(stack)) = Len(stack) - 1
      /\ \A k \in 1..(Len(stack) - 1) : Front(stack)[k] = stack[k]
  BY StateMeans, FrontLastProperties
<1>2. stack' \in Seq(FrameType) /\ Len(stack') = Len(stack) - 1
  BY <1>1
<1>3. Len(stack') \in Nat \ {0} /\ Last(stack') = stack'[Len(stack')]
  BY <1>2, FrontLastProperties
<1>4. Len(stack') \in 1..(Len(stack) - 1) /\ Top' = stack'[Len(stack')]
  BY <1>1, <1>2, <1>3 DEF Top
<1>5. \A k \in 1..(Len(stack) - 1) : stack[k].pc = "need"
  BY DEF State, CatalogueInv, CallsInv
<1> QED BY <1>1, <1>4, <1>5

\* process() returns before its work, or throws.
LEMMA ReturnKeepsData ==
    ASSUME SafePipeline, State, stack # <<>>, inv = <<>>, Top.pc \notin AfterWork,
           UNCHANGED <<featMap, heap, inv, mode, pipeline>>,
           stack' = <<>> \/ stack' = Front(stack)
    PROVE  PipelineInv'
<1>1. /\ DataInv /\ FramesInv /\ RootInv /\ WorkInv /\ HooksInv /\ UnhookInv
      /\ UNCHANGED <<data, pending, cleans>> /\ ControlTypeOK
  BY StateMeans DEF State, PipelineInv, pipeline
<1>2. DataInv' /\ FramesInv'
  BY <1>1, DataKept, FramesPop
<1>3. stack' # <<>> => Top'.pc = "need"
  BY PopNeeds
<1>4. RootInv'
  BY DEF RootInv
<1>5. WorkInv'
  BY <1>1, <1>3 DEF WorkInv, WorkDone, AfterWork
<1>6. HooksInv' /\ UnhookInv'
  BY <1>1, HooksKept, UnhookKept
<1> QED BY <1>2, <1>4, <1>5, <1>6 DEF PipelineInv, DataInv

\* The first invalidation loop withdraws nothing: what the processors of this
\* catalogue invalidate, they use.
LEMMA PreInvalidateData ==
    ASSUME SafePipeline, State, PreInvalidate, UNCHANGED pipeline
    PROVE  PipelineInv'
<1>1. /\ stack # <<>> /\ inv = <<>> /\ Top.pc = "preinvalidate"
      /\ UNCHANGED <<featMap, heap, mode>>
  BY DEF PreInvalidate, InvalidationLoop, At
<1>2. More => ~(Usage.kind = "invalidate" /\ Uses(Top.proc, Usage.feature) = FALSE)
  <2> SUFFICES ASSUME More, Usage.kind = "invalidate", Uses(Top.proc, Usage.feature) = FALSE
               PROVE FALSE
    OBVIOUS
  <2>1. Usage.feature \in Invalidated(Top.proc)
    BY <1>1, StateMeans, UsageDeclared
  <2> QED BY <1>1, <2>1, TopKnown, OnlyCollection DEF SafePipeline
<1>3. UNCHANGED inv /\ (NextUsage \/ Goto("need"))
  BY <1>2 DEF PreInvalidate, InvalidationLoop
<1>4. Moves /\ Top'.required = Top.required /\ Top'.pc \in {"preinvalidate", "need"}
  BY <1>1, <1>3, StateMeans, LoopMoves DEF Phases
<1> QED BY <1>1, <1>3, <1>4, MoveKeeps DEF AfterWork, RootInv

\* The requirement loop calls a maker of what is missing.
LEMMA NeedData ==
    ASSUME SafePipeline, State, Need, UNCHANGED pipeline
    PROVE  PipelineInv'
<1>1. /\ stack # <<>> /\ inv = <<>> /\ Top.pc = "need"
      /\ UNCHANGED <<featMap, heap, inv, mode>>
  BY DEF Need, At
<1>2. CASE NextUsage \/ Goto("check")
  <2>1. Moves /\ Top'.required = Top.required /\ Top'.pc \in {"need", "check"}
    BY <1>1, <1>2, StateMeans, LoopMoves DEF Phases
  <2> QED BY <1>1, <2>1, MoveKeeps DEF AfterWork, RootInv
<1>3. ASSUME More, Usage.kind \in {"require", "use"}, ~Provided(Usage.feature),
             NEW q \in Makers[Usage.feature],
             stack' = Append(Append(Front(stack), [Top EXCEPT !.i = @ + 1]), Frame(q))
      PROVE  PipelineInv'
  <2> DEFINE L == Len(stack)
             f == Usage.feature
             t == Append(Front(stack), [Top EXCEPT !.i = @ + 1])
  <2>1. /\ L \in Nat \ {0} /\ Top = stack[L] /\ Top \in FrameType /\ Top.proc \in Known
        /\ [Top EXCEPT !.i = @ + 1] \in FrameType
    BY <1>1, StateMeans, TopKnown, MovesTyped
  <2>2. f \in Features /\ Uses(Top.proc, f)
    BY <1>1, <1>3, StateMeans, UsageDeclared DEF UsedBy
  <2>3. q \in Known /\ q \in Processors
    BY <2>1, <2>2, <1>3, KindsDiffer DEF SafePipeline, CFGDeclarations
  <2>4. /\ t \in Seq(FrameType) /\ Len(t) = L
        /\ \A k \in 1..(L - 1) : t[k] = stack[k]
        /\ t[L] = [Top EXCEPT !.i = @ + 1]
    BY <1>1, <2>1, StateMeans, ReplaceLast
  <2> HIDE DEF t
  <2>5. /\ Frame(q) \in FrameType /\ Frame(q).proc = q
        /\ Frame(q).pc = "preinvalidate" /\ Frame(q).required = Required(q)
    BY <2>3, FrameTyped DEF Frame
  <2>6. /\ stack' \in Seq(FrameType) /\ Len(stack') = L + 1 /\ stack' # <<>>
        /\ \A k \in 1..L : stack'[k] = t[k]
        /\ stack'[L + 1] = Frame(q)
    <3> DEFINE e == Frame(q)
    <3>1. stack' = Append(t, e)
      BY <1>3 DEF t
    <3>2. e \in FrameType
      BY <2>5
    <3> HIDE DEF e
    <3>3. /\ Append(t, e) \in Seq(FrameType) /\ Len(Append(t, e)) = L + 1
          /\ Append(t, e) # <<>>
          /\ \A k \in 1..L : Append(t, e)[k] = t[k]
          /\ Append(t, e)[L + 1] = e
      BY <2>1, <2>4, <3>2
    <3> QED BY <3>1, <3>3 DEF e
  <2>7. Top' = Frame(q)
    BY <2>6, FrontLastProperties DEF Top
  <2>8. ASSUME NEW k \in 1..L
        PROVE  /\ stack'[k].proc = stack[k].proc /\ stack'[k].pc = stack[k].pc
               /\ stack'[k].required = stack[k].required
    <3>1. CASE k = L
      BY <2>1, <2>4, <2>6, <3>1 DEF FrameType
    <3>2. CASE k # L
      BY <2>1, <2>4, <2>6, <3>2
    <3> QED BY <3>1, <3>2
  <2>9. /\ DataInv /\ FramesInv /\ WorkInv /\ HooksInv /\ UnhookInv
        /\ UNCHANGED <<data, pending, cleans>>
    BY StateMeans DEF State, PipelineInv, pipeline
  <2>10. q = "CFGCollector" => ~Provided(COLLECTED_CFG)
    BY <1>3, <2>2 DEF SafePipeline, CFGDeclarations
  <2>11. ASSUME NEW k \in 1..L, stack[k].proc = "CFGCollector", stack[k].pc \notin {"provide", "clean"}
         PROVE  /\ ~Provided(COLLECTED_CFG) /\ q \in {NoProcessor, "CFGBuilder"}
                /\ \A j \in (k + 1)..L : stack[j].proc \in {NoProcessor, "CFGBuilder"}
    <3>1. /\ ~Provided(COLLECTED_CFG)
          /\ \A j \in (k + 1)..L : stack[j].proc \in {NoProcessor, "CFGBuilder"}
      BY <2>9, <2>11 DEF FramesInv
    <3>2. Top.proc \notin {NoProcessor, "CFGBuilder"}
      BY <2>2 DEF SafePipeline, CFGDeclarations
    <3>3. k = L
      BY <2>1, <3>1, <3>2
    <3> QED BY <2>1, <2>2, <2>11, <3>1, <3>3, <1>3 DEF SafePipeline, CFGDeclarations
  <2>12. FramesInv'
    <3> SUFFICES ASSUME NEW k \in 1..(L + 1)
                 PROVE  /\ stack'[k].proc \in Known
                        /\ stack'[k].proc \notin Changers => stack'[k].required = Required(stack'[k].proc)
                        /\ stack'[k].proc = NoProcessor => stack'[k].pc \notin AfterWork
                        /\ stack'[k].proc = "CFGCollector" /\ stack'[k].pc \notin {"provide", "clean"} =>
                              /\ ~Provided(COLLECTED_CFG)'
                              /\ \A j \in (k + 1)..(L + 1) : stack'[j].proc \in {NoProcessor, "CFGBuilder"}
      BY <2>6 DEF FramesInv
    <3>1. CASE k = L + 1
      BY <1>1, <2>1, <2>3, <2>5, <2>6, <2>10, <3>1 DEF AfterWork, Provided
    <3>2. CASE k \in 1..L
      <4>1. /\ stack[k].proc \in Known
            /\ stack[k].proc \notin Changers => stack[k].required = Required(stack[k].proc)
            /\ stack[k].proc = NoProcessor => stack[k].pc \notin AfterWork
        BY <2>9, <3>2 DEF FramesInv
      <4>2. \A j \in (k + 1)..(L + 1) : j \in 1..L \/ j = L + 1
        BY <2>1
      <4>3. /\ stack'[k].proc = stack[k].proc /\ stack'[k].pc = stack[k].pc
            /\ stack'[k].required = stack[k].required
        BY <2>8, <3>2
      <4>4. Provided(COLLECTED_CFG)' <=> Provided(COLLECTED_CFG)
        BY <1>1 DEF Provided
      <4>5. stack[k].proc = "CFGCollector" /\ stack[k].pc \notin {"provide", "clean"} =>
              /\ ~Provided(COLLECTED_CFG)'
              /\ \A j \in (k + 1)..(L + 1) : stack'[j].proc \in {NoProcessor, "CFGBuilder"}
        BY <2>5, <2>6, <2>8, <2>11, <3>2, <4>2, <4>4
      <4> QED BY <4>1, <4>3, <4>5
    <3> QED BY <2>1, <3>1, <3>2
  <2>13. DataInv' /\ HooksInv' /\ UnhookInv'
    BY <1>1, <2>9, DataKept, HooksKept, UnhookKept DEF AfterWork
  <2>14. WorkInv'
    BY <1>1, <2>5, <2>7, <2>9 DEF WorkInv, WorkDone, AfterWork
  <2>15. RootInv'
    BY <1>1 DEF RootInv
  <2> QED BY <2>12, <2>13, <2>14, <2>15 DEF PipelineInv, DataInv
<1> QED BY <1>2, <1>3 DEF Need

\* What a processor uses is provided when it works.
LEMMA CheckData ==
    ASSUME SafePipeline, State, CheckRequirements, UNCHANGED pipeline
    PROVE  PipelineInv'
<1>1. /\ stack # <<>> /\ inv = <<>> /\ Top.pc = "check"
      /\ UNCHANGED <<featMap, heap, inv, mode>>
  BY DEF CheckRequirements, At
<1>2. CASE Goto("work") /\ \A f \in Features : Uses(Top.proc, f) => Provided(f)
  <2>1. Moves /\ Top'.required = Top.required /\ Top'.pc = "work"
    BY <1>1, <1>2, StateMeans, LoopMoves DEF Phases
  <2> QED BY <1>1, <1>2, <2>1, MoveKeeps DEF AfterWork, RootInv
<1>3. CASE stack' = <<>>
  BY <1>1, <1>3, ReturnKeepsData DEF AfterWork
<1> QED BY <1>2, <1>3 DEF CheckRequirements, Throw

\* The returns and the exceptions before the work of a processor.
LEMMA LeaveData ==
    ASSUME SafePipeline, State, ReturnCancelled \/ NoProcessorThrows, UNCHANGED pipeline
    PROVE  PipelineInv'
<1>1. /\ stack # <<>> /\ inv = <<>> /\ Top.pc \notin AfterWork
      /\ UNCHANGED <<featMap, heap, inv, mode>>
      /\ stack' = <<>> \/ stack' = Front(stack)
  BY DEF ReturnCancelled, NoProcessorThrows, At, Return, Throw, AfterWork
<1> QED BY <1>1, ReturnKeepsData

-----------------------------------------------------------------------------
(* Invalidations, and the calls of the tools.                              *)

\* Steps that leave the graph and process() alone.
LEMMA SameStack ==
    ASSUME State, UNCHANGED <<featMap, heap, stack, pipeline>>, mode' = "live" => mode = "live"
    PROVE  DataInv' /\ FramesInv' /\ WorkInv' /\ UnhookInv'
<1>1. /\ DataInv /\ FramesInv /\ WorkInv /\ UnhookInv
      /\ UNCHANGED <<data, pending, cleans>>
  BY StateMeans DEF State, PipelineInv, pipeline
<1>2. DataInv'
  BY <1>1, DataKept
<1>3. FramesInv'
  BY <1>1 DEF FramesInv, Provided
<1>4. WorkInv'
  <2>1. PendingOf(Top.proc, Top.pc)' = PendingOf(Top.proc, Top.pc)
    BY <1>1 DEF PendingOf, Deletor, DeletorOf, Top
  <2>2. /\ Top' = Top /\ Ready' = Ready /\ Current(data)' = Current(data)
        /\ Own(DOMINANCE)' = Own(DOMINANCE)
        /\ \A f : Provided(f)' <=> Provided(f)
    BY <1>1 DEF Top, Ready, Current, Own, Provided
  <2>3. WorkDone' <=> WorkDone
    BY <1>1, <2>2 DEF WorkDone, pipeline
  <2> QED BY <1>1, <2>1, <2>2, <2>3 DEF WorkInv
<1>5. UnhookInv'
  BY <1>1, UnhookKept DEF Top
<1> QED BY <1>2, <1>3, <1>4, <1>5

\* A call of invalidate() from a tool or from the destructor.
LEMMA InvalidateData ==
    ASSUME SafePipeline, State, inv = <<>>, stack = <<>>, NEW f \in Features, Invalidate(f),
           mode = "live" => f \notin {DOMINANCE, VIRTUALIZED_CFG, CFG_INFO},
           UNCHANGED <<featMap, heap, stack, mode, pipeline>>
    PROVE  PipelineInv'
<1>1. DataInv' /\ FramesInv' /\ WorkInv' /\ UnhookInv'
  BY SameStack
<1>2. HooksInv'
  BY HooksKept DEF State, PipelineInv, pipeline
<1>3. inv' # <<>> => inv'[1].feature = f
  BY DEF Invalidate, Activation
<1>4. RootInv'
  BY <1>3 DEF RootInv
<1> QED BY <1>1, <1>2, <1>4 DEF PipelineInv, DataInv

\* invalidate() goes to a dependent.
LEMMA DependentData ==
    ASSUME SafePipeline, State, InvalidateDependent, UNCHANGED pipeline
    PROVE  PipelineInv'
<1> DEFINE L == Len(inv)
           a == Last(inv)
           b == [a EXCEPT !.todo = Tail(@)]
           rest == Append(Front(inv), b)
           n == Head(a.todo)
<1>1. UNCHANGED <<featMap, heap, stack, mode>>
  BY StateMeans, DependentStep DEF InvalidateDependent, Halt
<1>2. mode \notin Faults
  BY DEF State, CatalogueInv, NoAssertFails
<1>3. inv' = Append(rest, Activation(heap[n].feature)) \/ inv' = rest
  BY <1>1, <1>2 DEF InvalidateDependent, Halt, Faults
<1>4. inv \in Seq(ActivationType) /\ inv # <<>> /\ a.todo # <<>>
  BY StateMeans DEF InvalidateDependent
<1>5. /\ L \in Nat \ {0} /\ a = inv[L] /\ a \in ActivationType
      /\ Front(inv) \in Seq(ActivationType)
  BY <1>4, FrontLastProperties
<1> HIDE DEF a
<1>6. b \in ActivationType /\ b.feature = a.feature
  <2>1. a.todo \in Seq(Addresses)
    BY <1>5 DEF ActivationType
  <2>2. Tail(a.todo) \in Seq(Addresses)
    BY <1>4, <2>1
  <2> QED BY <1>5, <2>2 DEF ActivationType
<1> HIDE DEF b
<1>13. inv' = Append(rest, Activation(heap[n].feature)) \/ inv' = rest
  BY <1>3 DEF b, a
<1>7. /\ rest \in Seq(ActivationType) /\ Len(rest) = L
      /\ \A k \in 1..(L - 1) : rest[k] = inv[k]
      /\ rest[L] = b
  BY <1>4, <1>6, ReplaceLast
<1> HIDE DEF rest
<1>8. \A k \in 1..L : rest[k].feature = inv[k].feature
  BY <1>5, <1>6, <1>7
<1>9. /\ Len(inv') \in Nat /\ Len(inv') >= L
      /\ \A k \in 1..L : inv'[k].feature = inv[k].feature
  <2>1. CASE inv' = rest
    BY <1>5, <1>7, <1>8, <2>1
  <2>2. CASE inv' = Append(rest, Activation(heap[n].feature))
    <3>1. Len(inv') = L + 1 /\ \A k \in 1..L : inv'[k] = rest[k]
      BY <1>5, <1>7, <2>2
    <3> QED BY <1>5, <1>8, <3>1
  <2> QED BY <1>13, <2>1, <2>2
<1>10. DataInv' /\ FramesInv' /\ WorkInv' /\ UnhookInv'
  BY <1>1, SameStack
<1>11. HooksInv'
  <2>1. \A k \in 1..L : k \in 1..Len(inv')
    BY <1>5, <1>9
  <2> QED BY <1>1, <1>9, <2>1, HooksKept DEF State, PipelineInv, pipeline
<1>12. RootInv'
  <2>1. inv'[1].feature = inv[1].feature
    BY <1>5, <1>9
  <2> QED BY <1>1, <1>4, <2>1 DEF State, PipelineInv, RootInv, Top
<1> QED BY <1>10, <1>11, <1>12 DEF PipelineInv, DataInv

\* The second invalidation loop withdraws the collection.
LEMMA PostInvalidateData ==
    ASSUME SafePipeline, State, PostInvalidate, More, UNCHANGED pipeline
    PROVE  PipelineInv'
<1>1. /\ stack # <<>> /\ inv = <<>> /\ Top.pc = "postinvalidate" /\ mode = "live"
      /\ UNCHANGED <<featMap, heap, mode>>
  BY DEF PostInvalidate, InvalidationLoop, At
<1>2. CASE NextUsage /\ UNCHANGED inv
  <2>1. Moves /\ Top'.required = Top.required /\ Top'.pc = Top.pc
    BY <1>1, <1>2, StateMeans, LoopMoves
  <2> QED BY <1>1, <1>2, <2>1, MoveKeeps DEF AfterWork, RootInv
<1>3. ASSUME Usage.kind = "invalidate", Invalidate(Usage.feature),
             SetTop([[Top EXCEPT !.i = @ + 1] EXCEPT !.required = @ \ {Usage.feature}])
      PROVE  PipelineInv'
  <2>1. Usage.feature \in Invalidated(Top.proc) /\ Top.proc \in Known
    BY <1>1, <1>3, StateMeans, UsageDeclared, TopKnown
  <2>2. Top.proc \in Changers /\ Usage.feature = COLLECTED_CFG
    BY <2>1, OnlyCollection DEF SafePipeline
  <2>3. Moves /\ Top'.pc = Top.pc /\ Top'.proc = Top.proc
    BY <1>1, <1>3, StateMeans, LoopMoves DEF Moves
  <2>4. inv' # <<>> => inv'[1].feature = COLLECTED_CFG
    BY <1>1, <1>3, <2>2 DEF Invalidate, Activation
  <2>5. RootInv'
    BY <2>2, <2>3, <2>4, NamesDiffer DEF RootInv
  <2> QED BY <1>1, <2>2, <2>3, <2>5, MoveKeeps DEF AfterWork
<1> QED BY <1>2, <1>3 DEF PostInvalidate, InvalidationLoop

\* The calls of the tools, the destructor and the other thread.
LEMMA CallData ==
    ASSUME SafePipeline, State, PCall
    PROVE  PipelineInv'
<1>1. UNCHANGED pipeline
  BY DEF PCall
<1>2. ASSUME NEW p \in Known, p # "CFGCollector" \/ ~Provided(COLLECTED_CFG), CallProcess(p)
      PROVE PipelineInv'
  <2>1. /\ stack = <<>> /\ stack' = <<Frame(p)>> /\ inv = <<>>
        /\ UNCHANGED <<featMap, heap, inv, mode>>
    BY <1>2 DEF CallProcess, Idle
  <2>2. p \in Processors
    BY KindsDiffer DEF SafePipeline
  <2>3. /\ Frame(p) \in FrameType
        /\ Frame(p).proc = p /\ Frame(p).pc = "preinvalidate" /\ Frame(p).required = Required(p)
    BY <2>2, FrameTyped DEF Frame
  <2>4. Len(stack') = 1 /\ stack'[1] = Frame(p) /\ stack' # <<>> /\ Top' = Frame(p)
    BY <2>1 DEF Top, Last
  <2>5. FramesInv'
    <3>1. Provided(COLLECTED_CFG)' <=> Provided(COLLECTED_CFG)
      BY <2>1 DEF Provided
    <3> QED BY <1>2, <2>3, <2>4, <3>1 DEF FramesInv, AfterWork
  <2>6. DataInv /\ WorkInv /\ HooksInv /\ UnhookInv /\ UNCHANGED <<data, pending, cleans>>
    BY <1>1, StateMeans DEF State, PipelineInv, pipeline
  <2>7. DataInv' /\ HooksInv' /\ UnhookInv'
    BY <1>1, <2>1, <2>6, DataKept, HooksKept, UnhookKept
  <2>8. WorkInv'
    BY <2>1, <2>3, <2>4, <2>6 DEF WorkInv, WorkDone, AfterWork
  <2>9. RootInv'
    BY <2>1 DEF RootInv
  <2> QED BY <2>5, <2>7, <2>8, <2>9 DEF PipelineInv, DataInv
<1>3. ASSUME NEW p \in Tools, CallProcess(p) PROVE PipelineInv'
  <2>1. p \in Known /\ p # "CFGCollector"
    BY DEF SafePipeline, ToolCalls, Sources
  <2> QED BY <1>2, <1>3, <2>1
<1>4. ASSUME NEW f \in Wanted, CallRequire(f) PROVE PipelineInv'
  <2>1. PICK p \in Makers[f] : CallProcess(p) /\ ~Provided(f)
    BY <1>4 DEF CallRequire
  <2>2. f \in Features /\ p \in Known
    BY <2>1 DEF SafePipeline, ToolCalls
  <2>3. p = "CFGCollector" => f = COLLECTED_CFG
    BY <2>1, <2>2 DEF SafePipeline, CFGDeclarations
  <2> QED BY <1>2, <2>1, <2>2, <2>3
<1>5. ASSUME NEW f \in Dropped, CallInvalidate(f) PROVE PipelineInv'
  <2>1. f \in Features /\ f \notin {DOMINANCE, VIRTUALIZED_CFG, CFG_INFO}
    BY DEF SafePipeline, ToolCalls
  <2> QED BY <1>1, <1>5, <2>1, InvalidateData DEF CallInvalidate, Idle
<1>6. CASE ClearCancellation \/ Cancel \/ Destroy
  <2>1. /\ UNCHANGED <<featMap, heap, stack, inv>> /\ (mode' = "live" => mode = "live")
    BY <1>6 DEF ClearCancellation, Cancel, Destroy, Idle
  <2>2. DataInv' /\ FramesInv' /\ WorkInv' /\ UnhookInv'
    BY <1>1, <2>1, SameStack
  <2>3. HooksInv' /\ RootInv'
    BY <1>1, <2>1, HooksKept DEF State, PipelineInv, pipeline, RootInv, Top
  <2> QED BY <2>2, <2>3 DEF PipelineInv, DataInv
<1> QED BY <1>3, <1>4, <1>5, <1>6 DEF PCall

\* The destructor.
LEMMA DestroyData ==
    ASSUME SafePipeline, State, UNCHANGED pipeline,
           (\E f \in Features : DestroyFeature(f)) \/ Destroyed
    PROVE  PipelineInv'
<1>1. stack = <<>> /\ mode = "dying" /\ inv = <<>>
  BY DEF DestroyFeature, Destroyed, State, CatalogueInv, CallsInv
<1>2. ASSUME NEW f \in Features, DestroyFeature(f) PROVE PipelineInv'
  BY <1>1, <1>2, InvalidateData DEF DestroyFeature
<1>3. CASE Destroyed
  <2>1. /\ UNCHANGED <<featMap, heap, stack, inv>> /\ mode' = "dead"
    BY <1>3 DEF Destroyed
  <2>2. DataInv' /\ FramesInv' /\ WorkInv' /\ UnhookInv'
    BY <2>1, SameStack
  <2>3. HooksInv' /\ RootInv'
    BY <1>1, <2>1 DEF HooksInv, Following, RootInv
  <2> QED BY <2>2, <2>3 DEF PipelineInv, DataInv
<1> QED BY <1>2, <1>3

-----------------------------------------------------------------------------
(* The work of the processors and their cleanup().                         *)

\* Without the collection, there are no results.
LEMMA NoResults ==
    ASSUME SafePipeline, State, ~Provided(COLLECTED_CFG)
    PROVE  /\ \A f \in Marks : ~Provided(f)
           /\ Following => data.marks[DOMINANCE] = {}
<1>1. \A f \in Marks : ~Provided(f)
  BY StateMeans, ResultsNeed DEF SafePipeline, DataInv
<1> QED BY <1>1 DEF State, PipelineInv, UnhookInv, Following

\* The cleaners stay right when a collection is added.
LEMMA CleansKept ==
    ASSUME CleansInv, UNCHANGED <<featMap, heap, cleans>>,
           DOMAIN data.coll \subseteq DOMAIN data'.coll
    PROVE  CleansInv'
<1>1. ASSUME NEW n \in DOMAIN cleans PROVE cleans[n] \in ListOf(heap[n].feature)'
  <2>1. cleans[n] \in ListOf(heap[n].feature)
    BY DEF CleansInv
  <2>2. CASE heap[n].feature = COLLECTED_CFG
    BY <2>1, <2>2 DEF ListOf, DeletorOf
  <2>3. CASE heap[n].feature # COLLECTED_CFG
    BY <2>1, <2>3 DEF ListOf
  <2> QED BY <2>2, <2>3
<1> QED BY <1>1 DEF CleansInv

\* A new collection is ready.
LEMMA NewCollectionReady ==
    ASSUME DataTypes, NEW g \in 1..graphCount, data' = NewCollection(data, collCount + 1, g),
           graphCount' = graphCount, collCount' = collCount + 1
    PROVE  /\ DataTypes' /\ Ready' /\ Current(data') = g
           /\ DOMAIN data.coll \subseteq DOMAIN data'.coll
           /\ data'.slot = collCount + 1 /\ data'.entry = g /\ data'.info = data.info
           /\ data'.graphs = data.graphs /\ data'.marks = data.marks /\ data'.copies = data.copies
           /\ data'.halfBuilt = data.halfBuilt
<1>1. PICK X \in SUBSET (1..collCount) : data.coll \in [X -> 1..graphCount]
  BY DEF DataTypes, DataType, Colls
<1> DEFINE c == collCount + 1
           Y == X \union {c}
           m == [x \in Y |-> IF x = c THEN g ELSE data.coll[x]]
<1>2. DOMAIN data.coll = X /\ collCount \in Nat /\ graphCount \in Nat
  BY <1>1 DEF DataTypes
<1>3. /\ Y \in SUBSET (1..c) /\ m \in [Y -> 1..graphCount] /\ c \in Nat /\ c \in Y /\ m[c] = g
      /\ X \subseteq Y
  <2>1. c \in Nat /\ c \in Y /\ X \subseteq Y /\ m[c] = g
    BY <1>2
  <2>2. Y \in SUBSET (1..c)
    <3>1. \A x \in X : x \in 1..collCount
      OBVIOUS
    <3>2. \A x \in 1..collCount : x \in 1..c
      BY <1>2
    <3>3. c \in 1..c
      BY <1>2
    <3> HIDE DEF c
    <3> QED BY <3>1, <3>2, <3>3
  <2>3. ASSUME NEW x \in Y PROVE (IF x = c THEN g ELSE data.coll[x]) \in 1..graphCount
    BY <1>1, <2>3
  <2>4. m \in [Y -> 1..graphCount]
    BY <2>3
  <2> QED BY <2>1, <2>2, <2>4
<1>4. data' = [data EXCEPT !.slot = c, !.entry = g, !.coll = m]
  BY <1>2 DEF NewCollection
<1> HIDE DEF m, Y, c
<1>5. m \in Colls' /\ DOMAIN m = Y
  <2>1. graphCount' = graphCount /\ collCount' = c
    BY DEF c
  <2> QED BY <1>3, <2>1 DEF Colls
<1>6. g \in 0..graphCount /\ c \in Nat /\ graphCount' = graphCount /\ collCount' = c
  BY <1>2, <1>3 DEF c
<1>7. /\ data' \in DataType' /\ data'.slot = c /\ data'.entry = g /\ data'.coll = m
      /\ data'.info = data.info /\ data'.graphs = data.graphs
      /\ data'.marks = data.marks /\ data'.copies = data.copies /\ data'.halfBuilt = data.halfBuilt
  <2>1. GraphSets' = GraphSets /\ MarkSets' = MarkSets /\ graphCount' = graphCount
    BY DEF GraphSets, MarkSets
  <2>2. data \in DataType
    BY DEF DataTypes
  <2> QED BY <1>4, <1>5, <1>6, <2>1, <2>2 DEF DataType
<1>8. DataTypes'
  BY <1>2, <1>6, <1>7 DEF DataTypes
<1> QED BY <1>2, <1>3, <1>5, <1>7, <1>8 DEF Ready, Current, c

\* CFGCollector.
LEMMA CollectData ==
    ASSUME SafePipeline, State, stack # <<>>, Work, DoWork(Top.proc), Top.proc = "CFGCollector"
    PROVE  PipelineInv'
<1>1. /\ inv = <<>> /\ Top.pc = "work" /\ mode = "live" /\ Goto("postinvalidate")
      /\ UNCHANGED <<featMap, heap, inv, mode>>
  BY DEF Work, At
<1>2. Moves /\ Top'.pc = "postinvalidate" /\ Top'.required = Top.required /\ Top'.proc = Top.proc
  BY <1>1, StateMeans, LoopMoves DEF Phases, Moves
<1>3. ~Provided(COLLECTED_CFG)
  BY <1>1, TopKnown
<1>4. DataTypes /\ CollectionInv /\ CleansInv /\ DependsInv /\ InfoInv /\ FramesInv /\ GraphOK
  BY StateMeans DEF State, PipelineInv
<1> DEFINE g == IF data.entry = 0 THEN data.info ELSE data.entry
<1>5. g \in 1..graphCount /\ data.graphs = 1..graphCount
  <2>1. Provided(CFG_INFO)
    BY <1>1, KindsDiffer DEF SafePipeline, CFGDeclarations, State, PipelineInv, WorkInv, Uses, Required
  <2>2. data.info \in 1..graphCount /\ data.graphs = 1..graphCount
    BY <1>1, <1>4, <2>1 DEF InfoInv, CollectionInv
  <2>3. data.entry \in 0..graphCount /\ graphCount \in Nat
    BY <1>4 DEF DataTypes, DataType
  <2> QED BY <2>2, <2>3
<1>6. /\ data' = Collect(data)
      /\ graphCount' = graphCount /\ collCount' = collCount + 1 /\ cleans' = cleans
      /\ pending' = <<[feature |-> COLLECTED_CFG, does |-> "delete", coll |-> collCount + 1]>>
  BY DEF DoWork, Transformers, Sources
<1>7. data' = NewCollection(data, collCount + 1, g)
  BY <1>5, <1>6 DEF Collect
<1>8. /\ DataTypes' /\ Ready'
      /\ data'.slot = collCount + 1 /\ data'.entry = g /\ data'.marks = data.marks
      /\ data'.info = data.info /\ data'.graphs = data.graphs /\ Current(data') = g
      /\ data'.halfBuilt = data.halfBuilt
      /\ DOMAIN data.coll \subseteq DOMAIN data'.coll
  BY <1>4, <1>5, <1>6, <1>7, NewCollectionReady
<1>9. CollectionInv'
  <2>1. ~Provided(COLLECTED_CFG)'
    BY <1>1, <1>3 DEF Provided
  <2> QED BY <1>4, <1>5, <1>6, <1>8, <2>1 DEF CollectionInv
<1>10. CleansInv' /\ DependsInv' /\ InfoInv'
  BY <1>1, <1>3, <1>4, <1>6, <1>8, CleansKept DEF DependsInv, InfoInv, Provided
<1>11. FramesInv'
  <2>1. Provided(COLLECTED_CFG)' => Provided(COLLECTED_CFG)
    BY <1>1 DEF Provided
  <2> QED BY <1>1, <1>2, <1>4, <2>1, FramesMove, KindsDiffer DEF SafePipeline
<1>12. RootInv'
  BY <1>1 DEF RootInv
<1>13. WorkInv'
  <2>1. stack' # <<>> /\ Top'.proc = "CFGCollector"
    BY <1>2 DEF Moves
  <2>2. pending' = PendingOf(Top.proc, Top.pc)'
    BY <1>6, <1>8, <2>1 DEF PendingOf, Deletor, DeletorOf
  <2>3. Top'.proc \notin Analyses /\ Top'.proc \notin Changers
    BY <2>1, KindsDiffer DEF SafePipeline
  <2> QED BY <1>2, <1>8, <2>1, <2>2, <2>3 DEF WorkInv, WorkDone, AfterWork, Analyses
<1>14. HooksInv' /\ UnhookInv'
  <2>1. \A f \in Marks : ~Provided(f)'
    BY <1>1, <1>3, NoResults DEF Provided
  <2>2. Following' => data'.marks[DOMINANCE] = {}
    BY <1>1, <1>3, <1>8, NoResults DEF Following
  <2> QED BY <2>1, <2>2 DEF HooksInv, UnhookInv, Following
<1> QED BY <1>8, <1>9, <1>10, <1>11, <1>12, <1>13, <1>14 DEF PipelineInv

\* The processors that walk through the collection find it.
LEMMA WorkReads ==
    ASSUME SafePipeline, State, stack # <<>>, Top.pc = "work", Top.proc \in Changers \union Analyses
    PROVE  /\ Provided(COLLECTED_CFG) /\ Ready
           /\ ReadFault(data) = "none" /\ Current(data) \in 1..graphCount
           /\ Top.proc # "CFGCollector"
<1>1. Provided(COLLECTED_CFG)
  BY KindsDiffer DEF SafePipeline, CFGDeclarations, State, PipelineInv, WorkInv, WorkDone
<1>2. Ready
  BY <1>1 DEF State, PipelineInv, CollectionInv
<1>3. DataTypes /\ CollectionInv /\ Current(data) \in data.graphs
  BY <1>1 DEF State, PipelineInv, CollectionInv
<1> QED BY <1>1, <1>2, <1>3, ReadyMeans, KindsDiffer DEF SafePipeline

\* Dominance and LoopInfoBuilder put their properties on the current graph.
LEMMA AnalysisData ==
    ASSUME SafePipeline, State, stack # <<>>, Work, DoWork(Top.proc), Top.proc \in Analyses
    PROVE  PipelineInv'
<1>1. /\ inv = <<>> /\ Top.pc = "work" /\ mode = "live" /\ Goto("postinvalidate")
      /\ UNCHANGED <<featMap, heap, inv, mode>>
  BY DEF Work, At
<1>2. Moves /\ Top'.pc = "postinvalidate" /\ Top'.required = Top.required /\ Top'.proc = Top.proc
  BY <1>1, StateMeans, LoopMoves DEF Phases, Moves
<1>3. Provided(COLLECTED_CFG) /\ Ready /\ ReadFault(data) = "none" /\ Current(data) \in 1..graphCount
  BY <1>1, WorkReads
<1>4. /\ DataTypes /\ CollectionInv /\ CleansInv /\ DependsInv /\ InfoInv /\ FramesInv /\ GraphOK
      /\ HooksInv /\ UnhookInv
  BY StateMeans DEF State, PipelineInv
<1> DEFINE fs == IF Top.proc = "Dominance" THEN {DOMINANCE, LOOP_HEADERS} ELSE {LOOP_INFO}
           cs == IF Top.proc = "Dominance" THEN {DOMINANCE} ELSE {}
<1>5. /\ fs \in SUBSET Marks /\ cs \in SUBSET Marks
      /\ data' = [data EXCEPT !.marks = AddTo(@, fs, Current(data)),
                              !.copies = TakeFrom(@, cs, Current(data))]
      /\ Top.proc = "Dominance" =>
            fs = {DOMINANCE, LOOP_HEADERS} /\ cs = {DOMINANCE} /\ pending' = <<Unhooker>>
      /\ Top.proc = "LoopInfoBuilder" => fs = {LOOP_INFO} /\ cs = {} /\ pending' = <<>>
      /\ graphCount' = graphCount /\ collCount' = collCount /\ cleans' = cleans
  <2>1. CASE Top.proc = "Dominance"
    <3>1. /\ data' = DominanceWork(data) /\ pending' = <<Unhooker>>
          /\ graphCount' = graphCount /\ collCount' = collCount /\ cleans' = cleans
      BY <1>3, <2>1 DEF DoWork, Transformers, Sources, Unhooker
    <3>2. data \in DataType
      BY <1>4 DEF DataTypes
    <3>3. data' = [data EXCEPT !.marks = AddTo(@, {DOMINANCE, LOOP_HEADERS}, Current(data)),
                               !.copies = TakeFrom(@, {DOMINANCE}, Current(data))]
      BY <3>1, <3>2 DEF DominanceWork, Hook, DataType
    <3> QED BY <2>1, <3>1, <3>3, NamesDiffer
  <2>2. CASE Top.proc = "LoopInfoBuilder"
    <3>1. /\ data' = Hook(data, {LOOP_INFO}) /\ pending' = <<>>
          /\ graphCount' = graphCount /\ collCount' = collCount /\ cleans' = cleans
      BY <1>3, <2>2 DEF DoWork, LoopInfoBuilderWork, Transformers, Sources
    <3>2. data \in DataType
      BY <1>4 DEF DataTypes
    <3>3. TakeFrom(data.copies, {}, Current(data)) = data.copies
      BY <3>2 DEF TakeFrom, DataType, MarkSets
    <3>4. data' = [data EXCEPT !.marks = AddTo(@, {LOOP_INFO}, Current(data)),
                               !.copies = TakeFrom(@, {}, Current(data))]
      BY <3>1, <3>2, <3>3 DEF Hook, DataType
    <3> QED BY <2>2, <3>1, <3>4, NamesDiffer
  <2> QED BY <2>1, <2>2 DEF Analyses
<1> HIDE DEF fs, cs
<1> DEFINE m == AddTo(data.marks, fs, Current(data))
           q == TakeFrom(data.copies, cs, Current(data))
<1>6. data' = [data EXCEPT !.marks = m, !.copies = q]
  BY <1>5
<1>7. m \in MarkSets /\ q \in MarkSets
  <2>1. data.marks \in MarkSets /\ data.copies \in MarkSets /\ graphCount \in Nat
    BY <1>4 DEF DataTypes, DataType
  <2> QED BY <1>3, <2>1 DEF MarkSets, AddTo, TakeFrom
<1>8. \A f \in Marks :
        /\ m[f] = IF f \in fs THEN data.marks[f] \union {Current(data)} ELSE data.marks[f]
        /\ q[f] = IF f \in cs THEN data.copies[f] \ {Current(data)} ELSE data.copies[f]
  BY DEF AddTo, TakeFrom
<1> HIDE DEF m, q
<1>9. /\ DataTypes' /\ data'.slot = data.slot /\ data'.coll = data.coll /\ data'.entry = data.entry
      /\ data'.marks = m /\ data'.copies = q /\ data'.info = data.info
      /\ data'.graphs = data.graphs /\ data'.halfBuilt = data.halfBuilt
  <2>1. GraphSets' = GraphSets /\ MarkSets' = MarkSets /\ Colls' = Colls
    BY <1>5 DEF GraphSets, MarkSets, Colls
  <2>2. data \in DataType /\ graphCount \in Nat /\ collCount \in Nat
    BY <1>4 DEF DataTypes
  <2> QED BY <1>5, <1>6, <1>7, <2>1, <2>2 DEF DataTypes, DataType
<1>10. Current(data') = Current(data) /\ Ready'
  BY <1>3, <1>9 DEF Current, Ready
<1>11. CollectionInv'
  BY <1>1, <1>3, <1>4, <1>5, <1>9, <1>10 DEF CollectionInv, Provided
<1>12. CleansInv' /\ DependsInv' /\ InfoInv'
  BY <1>1, <1>4, <1>5, <1>9, <1>10, CleansKept DEF DependsInv, InfoInv, Provided
<1>13. Provided(COLLECTED_CFG)' /\ FramesInv'
  <2>1. Provided(COLLECTED_CFG)'
    BY <1>1, <1>3 DEF Provided
  <2> QED BY <1>1, <1>2, <1>3, <1>4, <2>1, FramesMove, KindsDiffer DEF SafePipeline
<1>14. RootInv'
  BY <1>1 DEF RootInv
<1>15. WorkInv'
  <2>1. stack' # <<>> /\ Top'.proc \in Analyses
    BY <1>2 DEF Moves
  <2>2. pending' = PendingOf(Top.proc, Top.pc)'
    BY <1>2, <1>5, KindsDiffer DEF PendingOf, Analyses, Unhooker
  <2>3. Top'.proc \notin Producers
    BY <2>1, KindsDiffer DEF SafePipeline, Producers
  <2>4. ASSUME NEW f \in fs PROVE Current(data') \in data'.marks[f]
    <3>1. f \in Marks
      BY <1>5
    <3>2. Current(data) \in m[f]
      BY <1>8, <3>1
    <3> QED BY <1>9, <1>10, <3>2
  <2>5. Top'.proc = "Dominance" =>
           /\ \A f \in {DOMINANCE, LOOP_HEADERS} : Current(data') \in data'.marks[f]
           /\ Own(DOMINANCE)'
    <3> SUFFICES ASSUME Top.proc = "Dominance"
                 PROVE  /\ \A f \in {DOMINANCE, LOOP_HEADERS} : Current(data') \in data'.marks[f]
                        /\ Own(DOMINANCE)'
      BY <1>2
    <3>1. data'.copies[DOMINANCE] = data.copies[DOMINANCE] \ {Current(data)}
      BY <1>5, <1>8, <1>9, NamesDiffer
    <3> QED BY <1>5, <1>10, <2>4, <3>1 DEF Own
  <2>6. Top'.proc = "LoopInfoBuilder" => Current(data') \in data'.marks[LOOP_INFO]
    BY <1>2, <1>5, <2>4
  <2> QED BY <1>2, <1>13, <2>1, <2>2, <2>3, <2>5, <2>6, KindsDiffer
          DEF WorkInv, WorkDone, AfterWork, SafePipeline, Producers
<1>16. HooksInv'
  <2>1. \A f \in Marks : Provided(f)' => Provided(f)
    BY <1>1 DEF Provided
  <2> QED BY <1>1, <1>4, <1>8, <1>9, <1>10, <2>1 DEF HooksInv, Following, Own
<1>17. UnhookInv'
  <2>1. CASE Top.proc = "Dominance"
    <3>1. Following => data.marks[DOMINANCE] \in {{}, {Current(data)}}
      BY <1>1, <1>4 DEF UnhookInv, Following
    <3>2. Following => data'.marks[DOMINANCE] = {Current(data')}
      <4>1. data'.marks[DOMINANCE] = data.marks[DOMINANCE] \union {Current(data)}
        BY <1>5, <1>8, <1>9, <2>1, NamesDiffer
      <4>2. Following' <=> Following
        BY <1>1, <1>9 DEF Following
      <4> QED BY <1>10, <3>1, <4>1, <4>2
    <3> QED BY <1>1, <1>2, <1>9, <1>13, <2>1, <3>2 DEF UnhookInv, Following, AfterWork, Moves
  <2>2. CASE Top.proc = "LoopInfoBuilder"
    <3>1. data'.marks[DOMINANCE] = data.marks[DOMINANCE]
      BY <1>5, <1>8, <1>9, <2>2, NamesDiffer, KindsDiffer
    <3> QED BY <1>1, <1>4, <1>5, <1>9, <1>10, <2>2, <3>1, NamesDiffer DEF UnhookInv, Following, Provided, CleanList, AfterWork
  <2> QED BY <2>1, <2>2 DEF Analyses
<1> QED BY <1>9, <1>11, <1>12, <1>13, <1>14, <1>15, <1>16, <1>17 DEF PipelineInv

\* The transformers build a graph besides the current one.
LEMMA ChangerData ==
    ASSUME SafePipeline, State, stack # <<>>, Work, DoWork(Top.proc), Top.proc \in Changers
    PROVE  PipelineInv'
<1>1. /\ inv = <<>> /\ Top.pc = "work" /\ mode = "live" /\ Goto("postinvalidate")
      /\ UNCHANGED <<featMap, heap, inv, mode>>
  BY DEF Work, At
<1>2. Moves /\ Top'.pc = "postinvalidate" /\ Top'.required = Top.required /\ Top'.proc = Top.proc
  BY <1>1, StateMeans, LoopMoves DEF Phases, Moves
<1>3. /\ Provided(COLLECTED_CFG) /\ Ready /\ ReadFault(data) = "none" /\ Top.proc # "CFGCollector"
      /\ Current(data) \in 1..graphCount
  BY <1>1, WorkReads
<1>4. /\ DataTypes /\ CollectionInv /\ CleansInv /\ DependsInv /\ InfoInv /\ FramesInv /\ GraphOK
      /\ HooksInv /\ UnhookInv
  BY StateMeans DEF State, PipelineInv
<1>5. /\ Top.proc # "Dominance" /\ Top.proc # "LoopInfoBuilder" /\ Top.proc \notin Sources
      /\ Top.proc \in {"Virtualizer", "DelayedBuilder", "LoopUnroller"}
  BY KindsDiffer DEF SafePipeline, Changers, Analyses, Sources
<1> DEFINE g == graphCount + 1
           e == IF Top.proc = "LoopUnroller" /\ data.entry = Current(data) THEN g ELSE data.entry
           cs == IF Top.proc = "Virtualizer"
                 THEN {f \in Marks : Current(data) \in data.marks[f] \union data.copies[f]} ELSE {}
           q == AddTo(data.copies, cs, g)
<1>6. /\ graphCount \in Nat /\ collCount \in Nat /\ data \in DataType
      /\ data.graphs = 1..graphCount /\ data.entry \in 0..graphCount /\ data.info \in 0..graphCount
      /\ data.copies \in MarkSets
  BY <1>1, <1>4 DEF DataTypes, DataType, CollectionInv
<1>7. graphCount' = g /\ collCount' = collCount /\ pending' = <<>> /\ cleans' = cleans
  BY <1>5 DEF DoWork, Transformers
<1>17. data' = [data EXCEPT !.graphs = @ \union {g}, !.entry = e, !.copies = q]
  <2>1. CASE Top.proc = "Virtualizer"
    <3>1. data' = BuildCopies(data, g)
      BY <1>3, <1>5, <2>1 DEF DoWork, VirtualizerWork
    <3>2. BuildCopies(data, g) = [Build(data, g) EXCEPT !.copies = AddTo(@, cs, g)]
      BY <2>1 DEF BuildCopies
    <3>3. e = data.entry
      BY <2>1
    <3> HIDE DEF e, g, cs
    <3> QED BY <1>6, <3>1, <3>2, <3>3 DEF Build, DataType
  <2>2. CASE Top.proc # "Virtualizer"
    <3>1. q = data.copies
      <4>1. cs = {}
        BY <2>2
      <4> HIDE DEF cs
      <4> QED BY <1>6, <4>1 DEF AddTo, MarkSets
    <3>2. data' = Build([data EXCEPT !.entry = e], g)
      <4>1. CASE Top.proc = "DelayedBuilder"
        <5>1. data' = Build(data, g)
          BY <1>3, <1>5, <4>1 DEF DoWork, DelayedBuilderWork
        <5>2. e = data.entry
          BY <4>1
        <5>3. data = [data EXCEPT !.entry = e]
          BY <1>6, <5>2 DEF DataType
        <5> QED BY <5>1, <5>3
      <4>2. CASE Top.proc = "LoopUnroller"
        <5>1. data' = Build(MoveEntry(data, g), g)
          BY <1>3, <1>5, <4>2 DEF DoWork, LoopUnrollerWork
        <5>2. MoveEntry(data, g) = [data EXCEPT !.entry = e]
          BY <1>6, <4>2 DEF MoveEntry, DataType
        <5> QED BY <5>1, <5>2
      <4> QED BY <1>5, <2>2, <4>1, <4>2
    <3> HIDE DEF e, g, cs, q
    <3> QED BY <1>6, <3>1, <3>2 DEF Build, DataType
  <2> QED BY <2>1, <2>2
<1>18. /\ g \in Nat \ {0} /\ e \in {data.entry, g} /\ q \in MarkSets
       /\ Current(data) # g /\ data.info # g
       /\ \A f \in Marks : q[f] \subseteq data.copies[f] \union {g}
  BY <1>3, <1>6 DEF AddTo, MarkSets
<1> HIDE DEF g, e, cs, q
<1>8. /\ DataTypes' /\ data'.slot = data.slot /\ data'.coll = data.coll /\ data'.marks = data.marks
      /\ data'.entry = e /\ data'.copies = q /\ data'.info = data.info
      /\ data'.graphs = 1..g /\ data'.halfBuilt = data.halfBuilt
  <2>1. data'.graphs \in GraphSets' /\ data'.graphs = 1..g /\ e \in 0..g /\ data.info \in 0..g
    <3>1. data'.graphs = data.graphs \union {g}
      BY <1>6, <1>17 DEF DataType
    <3>2. (1..graphCount) \union {g} = 1..g
      BY <1>6 DEF g
    <3> QED BY <1>6, <1>7, <1>18, <3>1, <3>2 DEF GraphSets, g
  <2>2. data.coll \in Colls'
    <3>1. PICK Z \in SUBSET (1..collCount) : data.coll \in [Z -> 1..graphCount]
      BY <1>6 DEF DataType, Colls
    <3>2. data.coll \in [Z -> 1..g]
      BY <1>6, <3>1 DEF g
    <3> QED BY <1>7, <3>1, <3>2 DEF Colls
  <2>3. MarkSets' = MarkSets
    BY DEF MarkSets
  <2>4. /\ data'.slot = data.slot /\ data'.coll = data.coll /\ data'.marks = data.marks
        /\ data'.entry = e /\ data'.copies = q /\ data'.info = data.info
        /\ data'.halfBuilt = data.halfBuilt /\ data'.fault = data.fault
        /\ data' = [data EXCEPT !.graphs = 1..g, !.entry = e, !.copies = q]
    BY <1>6, <1>17, <2>1 DEF DataType
  <2>5. data' \in DataType'
    BY <1>6, <1>7, <1>18, <2>1, <2>2, <2>3, <2>4 DEF DataType
  <2> QED BY <1>6, <1>7, <1>18, <2>1, <2>4, <2>5 DEF DataTypes
<1>9. Current(data') = Current(data) /\ Ready'
  BY <1>3, <1>8 DEF Current, Ready
<1>10. CollectionInv'
  <2>1. g \in Nat /\ 1..graphCount \subseteq 1..g
    BY <1>6 DEF g
  <2> QED BY <1>1, <1>3, <1>4, <1>6, <1>7, <1>8, <1>9, <1>18, <2>1 DEF CollectionInv
<1>11. CleansInv' /\ DependsInv' /\ InfoInv'
  BY <1>1, <1>4, <1>7, <1>8, <1>9, CleansKept DEF DependsInv, InfoInv, Provided
<1>12. FramesInv'
  <2>1. Provided(COLLECTED_CFG)' => Provided(COLLECTED_CFG)
    BY <1>1 DEF Provided
  <2> QED BY <1>1, <1>2, <1>3, <1>4, <2>1, FramesMove, KindsDiffer DEF SafePipeline
<1>13. RootInv'
  BY <1>1 DEF RootInv
<1>14. WorkInv'
  <2>1. stack' # <<>>
    BY <1>2 DEF Moves
  <2>2. pending' = PendingOf(Top.proc, Top.pc)'
    BY <1>2, <1>3, <1>5, <1>7 DEF PendingOf
  <2>3. Top'.proc \notin Analyses /\ Top'.proc \notin Sources
    BY <1>2, <1>5, KindsDiffer DEF SafePipeline
  <2>4. graphCount' \notin {0, data'.info}
    BY <1>7, <1>8, <1>18
  <2> QED BY <2>4, <1>2, <1>3, <1>5, <2>1, <2>2, <2>3 DEF WorkInv, WorkDone, AfterWork, Sources
<1>15. HooksInv'
  BY <1>1, <1>4, <1>8, <1>9, <1>18 DEF HooksInv, Following, Provided, Own
<1>16. UnhookInv'
  BY <1>1, <1>3, <1>4, <1>5, <1>7, <1>8, <1>9 DEF UnhookInv, Following, Provided, CleanList, AfterWork
<1> QED BY <1>8, <1>10, <1>11, <1>12, <1>13, <1>14, <1>15, <1>16 DEF PipelineInv

\* CFGBuilder makes a new CFGInfo; a collection that is there is of other CFGs.
LEMMA BuilderData ==
    ASSUME SafePipeline, State, stack # <<>>, Work, DoWork(Top.proc), Top.proc = "CFGBuilder"
    PROVE  PipelineInv'
<1>1. /\ inv = <<>> /\ Top.pc = "work" /\ mode = "live" /\ Goto("postinvalidate")
      /\ UNCHANGED <<featMap, heap, inv, mode>>
  BY DEF Work, At
<1>2. Moves /\ Top'.pc = "postinvalidate" /\ Top'.required = Top.required /\ Top'.proc = Top.proc
  BY <1>1, StateMeans, LoopMoves DEF Phases, Moves
<1>3. /\ DataTypes /\ CollectionInv /\ CleansInv /\ DependsInv /\ InfoInv /\ FramesInv /\ GraphOK
      /\ HooksInv /\ UnhookInv
  BY StateMeans DEF State, PipelineInv
<1> DEFINE g == graphCount + 1
<1>4. /\ graphCount \in Nat /\ collCount \in Nat /\ data \in DataType
      /\ data.graphs = 1..graphCount /\ data.entry \in 0..graphCount
  BY <1>1, <1>3 DEF DataTypes, DataType, CollectionInv
<1>5. /\ data' = [data EXCEPT !.graphs = @ \union {g}, !.info = g]
      /\ graphCount' = g /\ collCount' = collCount /\ cleans' = cleans
      /\ pending' = <<InfoDeletor>>
  BY DEF DoWork, BuildInfo, Sources, InfoDeletor
<1>6. g \in Nat \ {0} /\ (1..graphCount) \union {g} = 1..g
  BY <1>4
<1>7. Ready => Current(data) # g
  BY <1>3, <1>4, ReadyMeans
<1> HIDE DEF g
<1>8. /\ data'.slot = data.slot /\ data'.coll = data.coll /\ data'.marks = data.marks
      /\ data'.entry = data.entry /\ data'.copies = data.copies /\ data'.info = g
      /\ data'.graphs = 1..g /\ data'.halfBuilt = data.halfBuilt /\ data'.fault = data.fault
      /\ data' = [data EXCEPT !.graphs = 1..g, !.info = g]
  BY <1>4, <1>5, <1>6 DEF DataType
<1>9. DataTypes'
  <2>1. data.coll \in Colls'
    <3>1. PICK Z \in SUBSET (1..collCount) : data.coll \in [Z -> 1..graphCount]
      BY <1>4 DEF DataType, Colls
    <3>2. data.coll \in [Z -> 1..g]
      BY <1>6, <3>1
    <3> QED BY <1>5, <3>1, <3>2 DEF Colls
  <2>2. MarkSets' = MarkSets /\ 1..g \in GraphSets'
    BY <1>5 DEF MarkSets, GraphSets
  <2>3. g \in 0..g /\ data.entry \in 0..g
    BY <1>4, <1>6
  <2>4. data' \in DataType'
    BY <1>4, <1>5, <1>8, <2>1, <2>2, <2>3 DEF DataType
  <2> QED BY <1>4, <1>5, <1>6, <2>4 DEF DataTypes
<1>10. Current(data') = Current(data) /\ Ready' = Ready
  BY <1>8 DEF Current, Ready
<1>11. CollectionInv'
  <2>1. 1..graphCount \subseteq 1..g /\ g \in 1..g
    BY <1>6
  <2> QED BY <1>1, <1>3, <1>4, <1>5, <1>8, <1>10, <2>1 DEF CollectionInv, Provided
<1>12. CleansInv' /\ DependsInv'
  BY <1>1, <1>3, <1>5, <1>8, CleansKept DEF DependsInv, Provided
<1>13. InfoInv'
  <2>1. Provided(COLLECTED_CFG) => Current(data) # g
    BY <1>3, <1>7 DEF CollectionInv
  <2> QED BY <1>1, <1>6, <1>8, <1>10, <2>1 DEF InfoInv, Provided
<1>14. FramesInv' /\ RootInv'
  <2>1. Provided(COLLECTED_CFG)' => Provided(COLLECTED_CFG)
    BY <1>1 DEF Provided
  <2> QED BY <1>1, <1>2, <1>3, <2>1, FramesMove, KindsDiffer DEF SafePipeline, RootInv
<1>15. WorkInv'
  <2>1. stack' # <<>> /\ Top'.proc = "CFGBuilder"
    BY <1>2 DEF Moves
  <2>2. pending' = PendingOf(Top.proc, Top.pc)'
    BY <1>5, <2>1 DEF PendingOf
  <2>3. Top'.proc \notin Analyses /\ Top'.proc \notin Changers
    BY <2>1, KindsDiffer DEF SafePipeline
  <2> QED BY <1>2, <1>6, <1>8, <2>1, <2>2, <2>3 DEF WorkInv, WorkDone, AfterWork, Analyses
<1>16. HooksInv' /\ UnhookInv'
  <2>1. HooksInv'
    BY <1>1, <1>3, <1>8, <1>10 DEF HooksInv, Following, Provided, Own
  <2>2. UnhookInv'
    BY <1>1, <1>3, <1>5, <1>8, <1>10 DEF UnhookInv, Following, Provided, CleanList, AfterWork
  <2> QED BY <2>1, <2>2
<1> QED BY <1>9, <1>11, <1>12, <1>13, <1>14, <1>15, <1>16 DEF PipelineInv

\* The work of a processor.
LEMMA WorkData ==
    ASSUME SafePipeline, State, PWork
    PROVE  PipelineInv'
<1>1. Work /\ DoWork(Top.proc) /\ stack # <<>> /\ Top.proc # NoProcessor
  BY DEF PWork, Work, At
<1>2. Top.proc \in Changers \union Analyses \union {"CFGCollector", "CFGBuilder"}
  BY <1>1, TopKnown, KindsDiffer DEF SafePipeline
<1> QED BY <1>1, <1>2, CollectData, BuilderData, AnalysisData, ChangerData

\* A DelayedBuilder that fails leaves a collection of what it has built.
LEMMA HalfBuiltData ==
    ASSUME SafePipeline, State, stack # <<>>, stack' = <<>>, inv = <<>>, mode = "live",
           Top.pc = "work", Top.proc = "DelayedBuilder",
           UNCHANGED <<featMap, heap, inv, mode>>, HalfBuilt
    PROVE  PipelineInv'
<1>1. /\ DataTypes /\ CollectionInv /\ CleansInv /\ DependsInv /\ InfoInv /\ HooksInv /\ UnhookInv
      /\ WorkInv /\ UNCHANGED <<pending, cleans>>
  BY DEF State, PipelineInv, HalfBuilt
<1>2. FramesInv' /\ RootInv' /\ WorkInv'
  BY <1>1 DEF FramesInv, RootInv, WorkInv, AfterWork
<1>3. /\ graphCount \in Nat /\ collCount \in Nat /\ data \in DataType
      /\ data.graphs = 1..graphCount /\ data.entry \in 0..graphCount /\ data.info \in 0..graphCount
  BY <1>1 DEF DataTypes, DataType, CollectionInv
<1>4. CASE data' = Fail(data, EmptyCollection) /\ UNCHANGED <<graphCount, collCount>>
  <2>1. /\ data'.slot = data.slot /\ data'.coll = data.coll /\ data'.marks = data.marks
        /\ data'.entry = data.entry /\ data'.copies = data.copies /\ data'.info = data.info
        /\ data'.graphs = data.graphs /\ data'.halfBuilt = data.halfBuilt
    BY <1>3, <1>4 DEF Fail, DataType
  <2>2. DataTypes'
    <3>1. GraphSets' = GraphSets /\ MarkSets' = MarkSets /\ Colls' = Colls
      BY <1>4 DEF GraphSets, MarkSets, Colls
    <3>2. data' \in DataType'
      BY <1>3, <1>4, <3>1 DEF Fail, DataType
    <3> QED BY <1>3, <1>4, <3>2 DEF DataTypes
  <2>3. Current(data') = Current(data) /\ Ready' = Ready
    BY <2>1 DEF Current, Ready
  <2>4. CollectionInv' /\ DependsInv' /\ InfoInv' /\ CleansInv'
    BY <1>1, <1>4, <2>1, <2>3, CleansKept DEF CollectionInv, DependsInv, InfoInv, Provided
  <2>5. HooksInv' /\ UnhookInv'
    BY <1>1, <2>1, <2>3 DEF HooksInv, UnhookInv, Following, Provided, Own, CleanList, AfterWork
  <2> QED BY <1>2, <2>2, <2>4, <2>5 DEF PipelineInv
<1> DEFINE g == graphCount + 1
           c == collCount + 1
           m == [x \in DOMAIN data.coll \union {c} |-> IF x = c THEN g ELSE data.coll[x]]
<1>5. CASE /\ data' = [NewCollection(Build(data, g), c, g) EXCEPT !.halfBuilt = TRUE]
           /\ graphCount' = g /\ collCount' = c
  <2>1. /\ g \in Nat /\ c \in Nat /\ (1..graphCount) \union {g} = 1..g
        /\ 1..graphCount \subseteq 1..g /\ g \in 1..g /\ g # 0 /\ g # data.info
    BY <1>3
  <2>2. PICK Z \in SUBSET (1..collCount) : data.coll \in [Z -> 1..graphCount]
    BY <1>3 DEF DataType, Colls
  <2>3. /\ Z \union {c} \in SUBSET (1..c) /\ m \in [Z \union {c} -> 1..g]
        /\ m[c] = g /\ c \in DOMAIN m /\ DOMAIN data.coll \subseteq DOMAIN m
    <3>1. DOMAIN data.coll = Z /\ Z \union {c} \in SUBSET (1..c)
      BY <1>3, <2>2
    <3>2. \A x \in Z \union {c} : (IF x = c THEN g ELSE data.coll[x]) \in 1..g
      BY <2>1, <2>2
    <3> QED BY <3>1, <3>2
  <2> HIDE DEF g, m
  <2>4. /\ data' = [data EXCEPT !.graphs = @ \union {g}, !.slot = c, !.entry = g, !.coll = m,
                                !.halfBuilt = TRUE]
    BY <1>3, <1>5 DEF NewCollection, Build, DataType, m
  <2> HIDE DEF c
  <2>5. /\ data'.slot = c /\ data'.coll = m /\ data'.entry = g /\ data'.info = data.info
        /\ data'.graphs = 1..g /\ data'.halfBuilt = TRUE
    BY <1>3, <2>1, <2>4 DEF DataType
  <2>6. DataTypes'
    <3>1. m \in Colls' /\ MarkSets' = MarkSets /\ 1..g \in GraphSets'
      BY <1>5, <2>3 DEF Colls, MarkSets, GraphSets
    <3>2. g \in 0..g /\ data.info \in 0..g
      BY <1>3, <2>1 DEF g
    <3>3. data' = [data EXCEPT !.graphs = 1..g, !.slot = c, !.entry = g, !.coll = m,
                               !.halfBuilt = TRUE]
      BY <1>3, <2>1, <2>4
    <3>4. data' \in DataType'
      BY <1>3, <1>5, <2>1, <3>1, <3>2, <3>3 DEF DataType
    <3> QED BY <1>5, <2>1, <3>4 DEF DataTypes
  <2>7. Ready' /\ Current(data') = g
    BY <2>3, <2>5 DEF Ready, Current
  <2>8. CollectionInv'
    BY <1>1, <1>3, <1>5, <2>1, <2>5, <2>7 DEF CollectionInv, Provided
  <2>9. CleansInv' /\ DependsInv' /\ InfoInv'
    BY <1>1, <2>1, <2>3, <2>5, <2>7, CleansKept DEF DependsInv, InfoInv, Provided
  <2>10. HooksInv' /\ UnhookInv'
    BY <2>5 DEF HooksInv, UnhookInv, Following
  <2> QED BY <1>2, <2>6, <2>8, <2>9, <2>10 DEF PipelineInv
<1> QED BY <1>4, <1>5 DEF HalfBuilt

\* A work that fails: CFGCollector finds no collection to read, DelayedBuilder
\* one that it replaces.
LEMMA FailData ==
    ASSUME SafePipeline, State, PWorkFails
    PROVE  PipelineInv'
<1>1. /\ stack # <<>> /\ inv = <<>> /\ mode = "live" /\ Top.pc = "work" /\ stack' = <<>>
      /\ UNCHANGED <<featMap, heap, inv, mode>> /\ DoFail(Top.proc)
  BY DEF PWorkFails, WorkFails, At, Throw
<1>2. CASE Top.proc = "CFGCollector" /\ NoEntry
  <2>1. data.slot = 0
    BY <1>1, <1>2 DEF NoEntry, State, PipelineInv, CollectionInv
  <2>2. UNCHANGED pipeline
    BY <1>2, <2>1 DEF NoEntry, pipeline
  <2> QED BY <1>1, <2>2, ReturnKeepsData DEF AfterWork
<1>3. CASE Top.proc = "DelayedBuilder" /\ HalfBuilt
  BY <1>1, <1>3, HalfBuiltData
<1>4. CASE UNCHANGED pipeline
  BY <1>1, <1>4, ReturnKeepsData DEF AfterWork
<1> QED BY <1>1, <1>2, <1>3, <1>4 DEF DoFail

\* cleanup() of the processors that leave the collection alone.
LEMMA KeepData ==
    ASSUME SafePipeline, State, PostInvalidate, ~More, UNCHANGED pipeline,
           Top.proc \in Analyses \union Sources
    PROVE  PipelineInv'
<1>1. /\ stack # <<>> /\ inv = <<>> /\ Top.pc = "postinvalidate" /\ mode = "live"
      /\ Goto("provide") /\ UNCHANGED <<featMap, heap, inv, mode>>
  BY DEF PostInvalidate, InvalidationLoop, At
<1>2. Moves /\ Top'.pc = "provide" /\ Top'.required = Top.required /\ Top'.proc = Top.proc
  BY <1>1, StateMeans, LoopMoves DEF Phases, Moves
<1>3. /\ DataInv /\ FramesInv /\ WorkInv /\ HooksInv /\ UnhookInv /\ CleansInv /\ GraphOK
      /\ UNCHANGED <<data, pending, cleans>>
  BY StateMeans DEF State, PipelineInv, pipeline
<1>4. DataInv' /\ HooksInv' /\ UnhookInv'
  BY <1>1, <1>2, <1>3, DataKept, HooksKept, UnhookKept DEF AfterWork, Moves
<1>5. FramesInv' /\ RootInv'
  <2>1. Provided(COLLECTED_CFG)' => Provided(COLLECTED_CFG)
    BY <1>1 DEF Provided
  <2> QED BY <1>1, <1>2, <1>3, <2>1, FramesMove, KindsDiffer DEF SafePipeline, RootInv, Sources
<1>6. WorkInv'
  <2>1. pending' = PendingOf(Top.proc, Top.pc)'
    <3>1. pending = PendingOf(Top.proc, Top.pc)
      BY <1>1, <1>3 DEF WorkInv, WorkDone, AfterWork
    <3>2. Top.proc # "Virtualizer" /\ Top.proc # "DelayedBuilder"
      BY KindsDiffer DEF SafePipeline, Changers, Sources
    <3>3. Deletor' = Deletor
      BY <1>3 DEF Deletor, DeletorOf
    <3> QED BY <1>2, <1>3, <3>1, <3>2, <3>3 DEF PendingOf
  <2>2. Top.proc \in Producers =>
           Ready' /\ featMap'[COLLECTED_CFG] \notin DOMAIN cleans'
    <3> SUFFICES ASSUME Top.proc \in Producers
                 PROVE  Ready' /\ featMap'[COLLECTED_CFG] \notin DOMAIN cleans'
      OBVIOUS
    <3>1. Top.proc = "CFGCollector"
      BY KindsDiffer DEF SafePipeline, Producers, Sources
    <3>2. ~Provided(COLLECTED_CFG) /\ Ready
      BY <1>1, <1>3, <3>1, TopKnown DEF WorkInv, WorkDone, AfterWork
    <3>3. featMap[COLLECTED_CFG] \notin DOMAIN heap
      BY <1>3, <3>2, FeatureNodes DEF Provided
    <3> QED BY <1>1, <1>3, <3>2, <3>3 DEF Ready, CleansInv
  <2>3. stack' # <<>>
    BY <1>2 DEF Moves
  <2>4. Top.proc \notin Changers
    BY KindsDiffer DEF SafePipeline, Sources
  <2>5. WorkDone
    BY <1>1, <1>3 DEF WorkInv, AfterWork
  <2>6. WorkDone'
    BY <1>1, <1>2, <1>3, <2>2, <2>4, <2>5 DEF WorkDone, Ready, Provided, Own
  <2> QED BY <1>2, <2>1, <2>3, <2>6 DEF WorkInv, AfterWork
<1> QED BY <1>4, <1>5, <1>6 DEF PipelineInv, DataInv

\* cleanup() of the transformers, after the collection was withdrawn.
LEMMA InstallData ==
    ASSUME SafePipeline, State, PostInvalidate, ~More, DoCleanup(Top.proc), Top.proc \in Changers
    PROVE  PipelineInv'
<1>1. /\ stack # <<>> /\ inv = <<>> /\ Top.pc = "postinvalidate" /\ mode = "live"
      /\ Goto("provide") /\ UNCHANGED <<featMap, heap, inv, mode>>
  BY DEF PostInvalidate, InvalidationLoop, At
<1>2. Moves /\ Top'.pc = "provide" /\ Top'.required = Top.required /\ Top'.proc = Top.proc
  BY <1>1, StateMeans, LoopMoves DEF Phases, Moves
<1>3. DataTypes /\ CollectionInv /\ FramesInv /\ CleansInv /\ DependsInv /\ InfoInv /\ GraphOK
  BY StateMeans DEF State, PipelineInv
<1>4. ~Provided(COLLECTED_CFG)
  <2>1. Top \in FrameType /\ Top.proc \in Known
    BY <1>1, TopKnown
  <2>2. Invalidated(Top.proc) = {COLLECTED_CFG} /\ Uses(Top.proc, COLLECTED_CFG)
    BY <2>1, OnlyCollection DEF SafePipeline
  <2>3. Passed(Top, "invalidate") = {COLLECTED_CFG}
    BY <2>1, <2>2, PassedEnds DEF More
  <2>4. COLLECTED_CFG \in UsedBy(Top.proc)
    BY <2>2, KindsDiffer DEF SafePipeline, UsedBy
  <2>5. Gone(COLLECTED_CFG)
    BY <1>1, <2>3, <2>4 DEF State, CatalogueInv, TopInv, PostInv
  <2> QED BY <1>1, <2>5 DEF Gone
<1>5. /\ Top.proc # "Dominance" /\ Top.proc # "LoopInfoBuilder" /\ Top.proc \notin Sources
      /\ Top.proc \in {"Virtualizer", "DelayedBuilder", "LoopUnroller"} /\ Top.proc \notin Analyses
  BY KindsDiffer DEF SafePipeline, Changers, Analyses, Sources
<1>6. /\ data' = NewCollection(data, collCount + 1, graphCount) /\ collCount' = collCount + 1
      /\ graphCount' = graphCount /\ cleans' = cleans
      /\ pending' = PendingOf(Top.proc, "provide")
  BY <1>5 DEF DoCleanup, VirtualizerCleanup, DelayedBuilderCleanup, LoopUnrollerCleanup, Install,
     PendingOf, RemoveEntry
<1>7. /\ DataTypes' /\ Ready' /\ data'.marks = data.marks /\ data'.entry = graphCount
      /\ graphCount # 0 /\ data'.info = data.info /\ data'.graphs = data.graphs
      /\ Current(data') = graphCount /\ Current(data') # data'.info
      /\ data'.halfBuilt = data.halfBuilt /\ DOMAIN data.coll \subseteq DOMAIN data'.coll
  <2>1. graphCount \in 1..graphCount /\ graphCount \notin {0, data.info}
    BY <1>1, <1>3 DEF DataTypes, State, PipelineInv, WorkInv, WorkDone, AfterWork
  <2> QED BY <1>3, <1>6, <2>1, NewCollectionReady
<1>8. CollectionInv'
  BY <1>1, <1>3, <1>4, <1>6, <1>7 DEF CollectionInv, Provided
<1>9. CleansInv' /\ DependsInv' /\ InfoInv'
  BY <1>1, <1>3, <1>4, <1>6, <1>7, CleansKept DEF DependsInv, InfoInv, Provided
<1>10. FramesInv' /\ RootInv'
  <2>1. Provided(COLLECTED_CFG)' => Provided(COLLECTED_CFG)
    BY <1>1 DEF Provided
  <2> QED BY <1>1, <1>2, <1>3, <1>5, <2>1, FramesMove, KindsDiffer DEF SafePipeline, RootInv
<1>11. WorkInv'
  <2>1. featMap[COLLECTED_CFG] \notin DOMAIN cleans
    BY <1>3, <1>4, FeatureNodes DEF CleansInv, Provided
  <2>2. pending' = PendingOf(Top.proc, Top.pc)'
    BY <1>2, <1>5, <1>6 DEF PendingOf
  <2>3. stack' # <<>>
    BY <1>2 DEF Moves
  <2> QED BY <1>1, <1>2, <1>5, <1>6, <1>7, <2>1, <2>2, <2>3 DEF WorkInv, WorkDone, AfterWork, Sources, Analyses
<1>12. HooksInv' /\ UnhookInv'
  <2>1. \A f \in Marks : ~Provided(f)'
    BY <1>1, <1>4, NoResults DEF Provided
  <2>2. Following' => data'.marks[DOMINANCE] = {}
    BY <1>1, <1>4, <1>7, NoResults DEF Following
  <2> QED BY <2>1, <2>2 DEF HooksInv, UnhookInv, Following
<1> QED BY <1>7, <1>8, <1>9, <1>10, <1>11, <1>12 DEF PipelineInv

\* The end of the second invalidation loop, and cleanup().
LEMMA CleanupData ==
    ASSUME SafePipeline, State, PPostInvalidate
    PROVE  PipelineInv'
<1>1. PostInvalidate /\ stack # <<>> /\ Top.pc = "postinvalidate"
  BY DEF PPostInvalidate, PostInvalidate, InvalidationLoop, At
<1>2. Top.proc \in Changers \union Analyses \union Sources
  BY <1>1, TopKnown DEF Known, AfterWork
<1>3. CASE More
  BY <1>1, <1>3, PostInvalidateData DEF PPostInvalidate
<1>4. CASE ~More /\ Top.proc \in Changers
  BY <1>1, <1>4, InstallData DEF PPostInvalidate
<1>5. CASE ~More /\ Top.proc \in Analyses \union Sources
  <2>1. UNCHANGED <<data, collCount, pending, cleans, graphCount>>
    BY <1>5, KindsDiffer DEF PPostInvalidate, DoCleanup, SafePipeline, Changers, Analyses, Sources
  <2> QED BY <1>1, <1>5, <2>1, KeepData DEF pipeline
<1> QED BY <1>2, <1>3, <1>4, <1>5

-----------------------------------------------------------------------------
(* The end of process().                                                   *)

\* A feature is provided over what the frame requires, with a node that has no
\* cleaners.
LEMMA NewNode ==
    ASSUME GraphOK, ControlTypeOK, CatalogueInv, Provide, More, Usage.kind = "provide",
           ~Provided(Usage.feature)
    PROVE  /\ Usage.feature \in ProvidedBy(Top.proc) /\ Usage.feature \in Features
           /\ Moves /\ Top'.pc = "provide" /\ Top'.required = Top.required
           /\ \A r \in Top.required : Provided(r)
           /\ fresh \notin DOMAIN heap /\ fresh # 0
           /\ \A g \in Features : featMap'[g] = IF g = Usage.feature THEN fresh ELSE featMap[g]
           /\ DOMAIN heap' = DOMAIN heap \union {fresh}
           /\ heap'[fresh].parents = {featMap[r] : r \in Top.required}
           /\ \A n \in DOMAIN heap : /\ heap'[n].feature = heap[n].feature
                                     /\ heap'[n].parents = heap[n].parents
           /\ UNCHANGED <<mode, inv>>
<1>1. /\ stack \in Seq(FrameType) /\ stack # <<>> /\ mode = "live" /\ Top.pc = "provide"
  BY DEF Provide, At, ControlTypeOK
<1>2. ProvideInv(Top)
  BY <1>1 DEF CatalogueInv, TopInv
<1>3. PICK f, P : f = Usage.feature /\ P = {featMap[r] : r \in Top.required}
  OBVIOUS
<1>4. f \in Features /\ f \in ProvidedBy(Top.proc)
  BY <1>1, <1>3, UsageDeclared
<1>5. f \notin Top.required /\ \A r \in Top.required : Provided(r)
  BY <1>2, <1>3 DEF ProvideInv
<1>6. NewFeatDep(f, Top.required) /\ NextUsage /\ UNCHANGED <<mode, inv>>
  BY <1>3, <1>5 DEF Provide
<1>7. Moves /\ Top'.pc = "provide" /\ Top'.required = Top.required
  BY <1>1, <1>6, LoopMoves
<1>8. fresh \notin DOMAIN heap /\ fresh # 0
  BY FeatureNodes
<1>9. \A g \in Features : featMap'[g] = IF g = f THEN fresh ELSE featMap[g]
  BY <1>6 DEF NewFeatDep, GraphOK, GraphTypeOK
<1>10. heap' = [n \in DOMAIN heap \union {fresh} |->
                  IF n = fresh THEN Node(f, P)
                  ELSE IF n \in P THEN [heap[n] EXCEPT !.children = AddDependent(@, fresh)]
                       ELSE heap[n]]
  BY <1>3, <1>6 DEF NewFeatDep
<1>11. \A n \in DOMAIN heap : heap[n] \in NodeType
  BY DEF GraphOK, GraphTypeOK
<1>12. \A n \in DOMAIN heap : /\ heap'[n].feature = heap[n].feature
                              /\ heap'[n].parents = heap[n].parents
  BY <1>8, <1>10, <1>11 DEF NodeType
<1>13. heap'[fresh].parents = P /\ DOMAIN heap' = DOMAIN heap \union {fresh}
  BY <1>10 DEF Node
<1> QED BY <1>3, <1>4, <1>5, <1>6, <1>7, <1>8, <1>9, <1>12, <1>13

\* provide() of a feature whose properties are there.
LEMMA ProvideNewData ==
    ASSUME SafePipeline, State, Provide, UNCHANGED pipeline,
           More, Usage.kind = "provide", ~Provided(Usage.feature)
    PROVE  PipelineInv'
<1>1. /\ stack # <<>> /\ inv = <<>> /\ Top.pc = "provide" /\ mode = "live"
  BY DEF Provide, At
<1>2. PICK f : f = Usage.feature
  OBVIOUS
<1>3. /\ f \in ProvidedBy(Top.proc) /\ f \in Features /\ ~Provided(f)
      /\ Moves /\ Top'.pc = "provide" /\ Top'.required = Top.required
      /\ fresh \notin DOMAIN heap /\ fresh # 0
      /\ \A g \in Features : featMap'[g] = IF g = f THEN fresh ELSE featMap[g]
      /\ DOMAIN heap' = DOMAIN heap \union {fresh}
      /\ heap'[fresh].parents = {featMap[r] : r \in Top.required}
      /\ \A n \in DOMAIN heap : /\ heap'[n].feature = heap[n].feature
                                /\ heap'[n].parents = heap[n].parents
      /\ UNCHANGED <<mode, inv>>
  BY <1>2, StateMeans, NewNode
<1>4. /\ DataTypes /\ CollectionInv /\ CleansInv /\ DependsInv /\ InfoInv /\ FramesInv /\ GraphOK
      /\ WorkInv /\ HooksInv /\ UnhookInv
      /\ UNCHANGED <<data, pending, cleans, graphCount, collCount>>
  BY StateMeans DEF State, PipelineInv, pipeline
<1>5. stack' # <<>> /\ Top'.proc = Top.proc
  BY <1>3 DEF Moves
<1>6. /\ Top.proc \in Known
      /\ Top.proc \notin Changers => Top.required = Required(Top.proc)
      /\ Top.required \subseteq Required(Top.proc)
  <2>1. Top.required \subseteq Required(Top.proc)
    BY <1>1, TopKnown DEF State, CatalogueInv, CallsInv
  <2> QED BY <1>1, <2>1, TopKnown
<1>7. /\ f = COLLECTED_CFG => Top.proc \in Producers
      /\ f \in {DOMINANCE, LOOP_HEADERS} => Top.proc = "Dominance"
      /\ f = LOOP_INFO => Top.proc = "LoopInfoBuilder"
      /\ f = VIRTUALIZED_CFG => Top.proc = "Virtualizer"
      /\ f = CFG_INFO => Top.proc = "CFGBuilder"
  BY <1>3, <1>6 DEF SafePipeline, CFGDeclarations, Producers
<1>8. \A g \in Features : /\ Provided(g)' <=> Provided(g) \/ g = f
                          /\ Provided(g) => featMap'[g] = featMap[g]
  BY <1>3 DEF Provided
<1>9. \A g \in Features : Provided(g) => featMap[g] \in DOMAIN heap
  BY <1>4, FeatureNodes
<1>10. {COLLECTED_CFG, VIRTUALIZED_CFG, CFG_INFO, DOMINANCE, LOOP_HEADERS, LOOP_INFO} \subseteq Features
  BY KindsDiffer DEF SafePipeline
<1>11. Marks = {DOMINANCE, LOOP_HEADERS, LOOP_INFO}
  BY DEF Marks
<1>12. DataTypes' /\ RootInv'
  BY <1>1, <1>3, <1>4 DEF DataTypes, DataType, Colls, GraphSets, MarkSets, RootInv
<1>13. CollectionInv'
  <2>1. Provided(COLLECTED_CFG)' => Ready
    BY <1>1, <1>4, <1>7, <1>8, <1>10 DEF CollectionInv, WorkInv, WorkDone, AfterWork
  <2>2. Ready => Current(data) \in data.graphs
    BY <1>1, <1>4, LiveReads DEF CollectionInv
  <2> QED BY <1>3, <1>4, <2>1, <2>2 DEF CollectionInv, Ready, Current
<1>14. CleansInv'
  BY <1>3, <1>4 DEF CleansInv, ListOf, DeletorOf
<1>15. f \in Marks => /\ Provided(COLLECTED_CFG) /\ COLLECTED_CFG \in Top.required
                      /\ f = DOMINANCE => Top.required = {COLLECTED_CFG}
                      /\ Current(data) \in data.marks[f] /\ Own(f)
  <2>1. ASSUME f \in {DOMINANCE, LOOP_HEADERS}
        PROVE  /\ Provided(COLLECTED_CFG) /\ Top.required = {COLLECTED_CFG}
               /\ Current(data) \in data.marks[f] /\ Own(f)
    BY <1>1, <1>4, <1>6, <1>7, <2>1, KindsDiffer
       DEF SafePipeline, CFGDeclarations, WorkInv, WorkDone, AfterWork, Own
  <2>2. ASSUME f = LOOP_INFO
        PROVE  /\ Provided(COLLECTED_CFG) /\ COLLECTED_CFG \in Top.required
               /\ Current(data) \in data.marks[f]
    BY <1>1, <1>4, <1>6, <1>7, <2>2, KindsDiffer
       DEF SafePipeline, CFGDeclarations, WorkInv, WorkDone, AfterWork
  <2> QED BY <1>11, <2>1, <2>2, NamesDiffer DEF Own
<1>16. DependsInv'
  <2>1. ASSUME NEW g \in Marks, Provided(g)'
        PROVE  /\ featMap'[COLLECTED_CFG] = featMap[COLLECTED_CFG]
               /\ featMap'[COLLECTED_CFG] \in heap'[featMap'[g]].parents
               /\ g = DOMINANCE => heap'[featMap'[g]].parents = {featMap'[COLLECTED_CFG]}
    <3>1. CASE g = f
      <4>1. featMap'[g] = fresh /\ featMap'[COLLECTED_CFG] = featMap[COLLECTED_CFG]
        BY <1>3, <1>8, <1>10, <1>15, <3>1
      <4> QED BY <1>3, <1>15, <3>1, <4>1
    <3>2. CASE g # f
      <4>1. Provided(g) /\ g \in Features
        BY <1>8, <1>10, <1>11, <2>1, <3>2
      <4>2. Provided(COLLECTED_CFG)
        BY <1>4, <4>1, ResultsNeed DEF SafePipeline
      <4>3. featMap'[g] = featMap[g] /\ featMap'[COLLECTED_CFG] = featMap[COLLECTED_CFG]
            /\ featMap[g] \in DOMAIN heap
        BY <1>8, <1>9, <1>10, <4>1, <4>2
      <4> QED BY <1>3, <1>4, <4>1, <4>3 DEF DependsInv
    <3> QED BY <3>1, <3>2
  <2>2. ASSUME Provided(VIRTUALIZED_CFG)'
        PROVE  heap'[featMap'[VIRTUALIZED_CFG]].parents = {}
    <3>1. CASE f = VIRTUALIZED_CFG
      <4>1. Top.required = {}
        BY <1>6, <1>7, <3>1 DEF SafePipeline, CFGDeclarations
      <4> QED BY <1>3, <3>1, <4>1
    <3>2. CASE f # VIRTUALIZED_CFG
      BY <1>3, <1>4, <1>8, <1>9, <1>10, <2>2, <3>2 DEF DependsInv
    <3> QED BY <3>1, <3>2
  <2>3. ASSUME Provided(CFG_INFO)'
        PROVE  heap'[featMap'[CFG_INFO]].parents = {}
    <3>1. CASE f = CFG_INFO
      <4>1. Top.proc = "CFGBuilder" /\ Top.required \subseteq Features
        BY <1>1, <1>7, <3>1, TopKnown DEF FrameType
      <4>2. \A r \in Features : r \notin Required("CFGBuilder")
        BY DEF SafePipeline, CFGDeclarations, Uses, Required
      <4>3. Top.required = {}
        BY <1>6, <4>1, <4>2
      <4> QED BY <1>3, <3>1, <4>3
    <3>2. CASE f # CFG_INFO
      BY <1>3, <1>4, <1>8, <1>9, <1>10, <2>3, <3>2 DEF DependsInv
    <3> QED BY <3>1, <3>2
  <2> QED BY <2>1, <2>2, <2>3, NamesDiffer DEF DependsInv
<1>21. InfoInv'
  <2>1. Provided(CFG_INFO)' => data'.info # 0
    BY <1>1, <1>4, <1>7, <1>8, <1>10 DEF InfoInv, WorkInv, WorkDone, AfterWork
  <2>2. ASSUME Provided(COLLECTED_CFG)', Current(data) = data.info
        PROVE  featMap'[CFG_INFO] \in heap'[featMap'[COLLECTED_CFG]].parents
    <3>1. CASE f = COLLECTED_CFG
      <4>1. Top.proc \notin Changers
        BY <1>1, <1>4, <2>2 DEF WorkInv, WorkDone, AfterWork
      <4>2. Top.proc = "CFGCollector"
        BY <1>7, <3>1, <4>1 DEF Producers
      <4>3. CFG_INFO \in Top.required
        BY <1>6, <4>1, <4>2 DEF SafePipeline, CFGDeclarations
      <4>4. featMap'[CFG_INFO] = featMap[CFG_INFO]
        BY <1>3, <1>10, <3>1, NamesDiffer
      <4> QED BY <1>3, <1>10, <3>1, <4>3, <4>4
    <3>2. CASE f # COLLECTED_CFG
      <4>1. Provided(COLLECTED_CFG) /\ featMap[COLLECTED_CFG] \in DOMAIN heap
        BY <1>8, <1>9, <1>10, <2>2, <3>2
      <4>2. featMap[CFG_INFO] \in heap[featMap[COLLECTED_CFG]].parents
        BY <1>4, <2>2, <4>1 DEF InfoInv
      <4>3. featMap[CFG_INFO] # 0
        BY <1>4, <4>1, <4>2, FeatureNodes
      <4> QED BY <1>3, <1>8, <1>10, <4>1, <4>2, <4>3 DEF Provided
    <3> QED BY <3>1, <3>2
  <2> QED BY <1>4, <2>1, <2>2 DEF InfoInv, Current
<1>17. FramesInv'
  <2>1. Provided(COLLECTED_CFG)' =>
           Provided(COLLECTED_CFG) \/ Top.proc \notin {NoProcessor, "CFGBuilder"}
    BY <1>7, <1>8, <1>10, KindsDiffer DEF SafePipeline, Producers
  <2> QED BY <1>1, <1>3, <1>4, <1>5, <2>1, FramesMove, TopKnown DEF AfterWork
<1>18. WorkInv'
  <2>1. pending' = PendingOf(Top.proc, Top.pc)'
    <3>1. pending = PendingOf(Top.proc, Top.pc)
      BY <1>1, <1>4 DEF WorkInv, WorkDone, AfterWork
    <3>2. Deletor' = Deletor
      BY <1>4 DEF Deletor, DeletorOf
    <3> QED BY <1>1, <1>3, <1>4, <1>5, <3>1, <3>2 DEF PendingOf
  <2>2. Top.proc \in Producers => Ready' /\ featMap'[COLLECTED_CFG] \notin DOMAIN cleans'
    <3> SUFFICES ASSUME Top.proc \in Producers
                 PROVE  Ready' /\ featMap'[COLLECTED_CFG] \notin DOMAIN cleans'
      OBVIOUS
    <3>1. Ready /\ featMap[COLLECTED_CFG] \notin DOMAIN cleans
      BY <1>1, <1>4 DEF WorkInv, WorkDone, AfterWork
    <3> QED BY <1>3, <1>4, <1>10, <3>1 DEF Ready, CleansInv
  <2>3. Top.proc \in Analyses => Provided(COLLECTED_CFG)'
    BY <1>1, <1>4, <1>8, <1>10 DEF WorkInv, WorkDone, AfterWork
  <2>4. /\ Top.proc = "CFGCollector" => Ready'
        /\ Top.proc = "Dominance" =>
              (\A g \in {DOMINANCE, LOOP_HEADERS} : Current(data') \in data'.marks[g])
              /\ Own(DOMINANCE)'
        /\ Top.proc = "CFGBuilder" => data'.info # 0
        /\ Top.proc \in Changers => Current(data') # data'.info
        /\ Top.proc = "LoopInfoBuilder" => Current(data') \in data'.marks[LOOP_INFO]
    BY <1>1, <1>4 DEF WorkInv, WorkDone, AfterWork, Ready, Own
  <2> QED BY <1>3, <1>5, <2>1, <2>2, <2>3, <2>4 DEF WorkInv, WorkDone, AfterWork
<1>19. HooksInv'
  <2>1. ASSUME NEW g \in Marks, Provided(g)' PROVE Following => Current(data) \in data.marks[g] /\ Own(g)
    <3>1. CASE g = f
      BY <1>15, <3>1
    <3>2. CASE g # f
      BY <1>1, <1>4, <1>8, <1>10, <1>11, <2>1, <3>2 DEF HooksInv, Following
    <3> QED BY <3>1, <3>2
  <2> QED BY <1>3, <1>4, <2>1 DEF HooksInv, Following, Own
<1>20. UnhookInv'
  BY <1>1, <1>3, <1>4, <1>5, <1>8, <1>10 DEF UnhookInv, Following, CleanList, AfterWork
<1> QED BY <1>12, <1>13, <1>14, <1>16, <1>17, <1>18, <1>19, <1>20, <1>21 DEF PipelineInv

\* The loop of the features that are provided.
LEMMA ProvideData ==
    ASSUME SafePipeline, State, Provide, UNCHANGED pipeline
    PROVE  PipelineInv'
<1>1. /\ stack # <<>> /\ inv = <<>> /\ Top.pc = "provide"
  BY DEF Provide, At
<1>2. CASE ~More \/ Usage.kind # "provide" \/ Provided(Usage.feature)
  <2>1. UNCHANGED <<featMap, heap, mode, inv>> /\ (Goto("clean") \/ NextUsage)
    BY <1>2 DEF Provide
  <2>2. Moves /\ Top'.required = Top.required /\ Top'.pc \in {"provide", "clean"}
    BY <1>1, <2>1, StateMeans, LoopMoves DEF Phases
  <2> QED BY <1>1, <2>1, <2>2, MoveKeeps DEF AfterWork, RootInv
<1> QED BY <1>2, ProvideNewData

\* The cleaners of a processor, that has two at most.
LEMMA PendingOnMeans ==
    ASSUME NEW f, Len(pending) \in 0..2
    PROVE  \E own : /\ own[0] = <<>>
                    /\ \A k \in 1..Len(pending) :
                          own[k] = IF pending[k].feature = f THEN Append(own[k - 1], pending[k])
                                   ELSE own[k - 1]
                    /\ PendingOn(f) = own[Len(pending)]
<1> DEFINE n == Len(pending)
           eq(g) == g = [k \in 0..n |->
                           IF k = 0 THEN <<>>
                           ELSE IF pending[k].feature = f THEN Append(g[k - 1], pending[k])
                                ELSE g[k - 1]]
           U == CHOOSE g : eq(g)
           s1 == IF pending[1].feature = f THEN Append(<<>>, pending[1]) ELSE <<>>
           s2 == IF pending[2].feature = f THEN Append(s1, pending[2]) ELSE s1
           w == [k \in 0..n |-> IF k = 0 THEN <<>> ELSE IF k = 1 THEN s1 ELSE s2]
<1>1. PendingOn(f) = U[n]
  BY DEF PendingOn
<1>2. n \in 0..2
  OBVIOUS
<1> HIDE DEF n
<1>3. eq(w)
  <2> SUFFICES ASSUME NEW k \in 0..n
               PROVE  w[k] = IF k = 0 THEN <<>>
                             ELSE IF pending[k].feature = f THEN Append(w[k - 1], pending[k])
                                  ELSE w[k - 1]
    OBVIOUS
  <2>1. k \in {0, 1, 2}
    BY <1>2
  <2>2. CASE k = 0
    BY <2>2
  <2>3. CASE k = 1
    <3>1. w[1] = s1 /\ w[0] = <<>>
      BY <1>2, <2>3
    <3>2. k - 1 = 0
      BY <2>3
    <3> HIDE DEF w
    <3>3. w[k] = IF pending[1].feature = f THEN Append(w[0], pending[1]) ELSE w[0]
      BY <2>3, <3>1
    <3> QED BY <2>3, <3>2, <3>3
  <2>4. CASE k = 2
    <3>1. w[2] = s2 /\ w[1] = s1
      BY <1>2, <2>4
    <3>2. k - 1 = 1
      BY <2>4
    <3> HIDE DEF w, s1
    <3>3. w[k] = IF pending[2].feature = f THEN Append(w[1], pending[2]) ELSE w[1]
      BY <2>4, <3>1
    <3> QED BY <2>4, <3>2, <3>3
  <2> QED BY <2>1, <2>2, <2>3, <2>4
<1>4. eq(U)
  <2> HIDE DEF w
  <2>1. \E g : eq(g)
    BY <1>3
  <2> QED BY <2>1
<1> HIDE DEF U
<1>5. \A k \in 0..n : U[k] = IF k = 0 THEN <<>>
                             ELSE IF pending[k].feature = f THEN Append(U[k - 1], pending[k])
                                  ELSE U[k - 1]
  BY <1>4
<1>6. U[0] = <<>> /\ \A k \in 1..n : k \in 0..n /\ k # 0
  BY <1>2, <1>5
<1> QED BY <1>1, <1>5, <1>6 DEF n

\* The cleaners of a processor on a feature.
LEMMA PendingOnIs ==
    ASSUME NEW f, NEW a, NEW b
    PROVE  /\ pending = <<>> => PendingOn(f) = <<>>
           /\ pending = <<a>> => PendingOn(f) = IF a.feature = f THEN <<a>> ELSE <<>>
           /\ pending = <<a, b>> /\ a.feature # b.feature =>
                 PendingOn(f) = IF a.feature = f THEN <<a>>
                                ELSE IF b.feature = f THEN <<b>> ELSE <<>>
<1>1. ASSUME pending = <<>> PROVE PendingOn(f) = <<>>
  BY <1>1, PendingOnMeans
<1>2. ASSUME pending = <<a>> PROVE PendingOn(f) = IF a.feature = f THEN <<a>> ELSE <<>>
  <2>1. Len(pending) = 1 /\ pending[1] = a /\ 1 \in 1..1
    BY <1>2
  <2>2. PICK own : /\ own[0] = <<>>
                   /\ own[1] = (IF a.feature = f THEN Append(own[0], a) ELSE own[0])
                   /\ PendingOn(f) = own[1]
    BY <2>1, PendingOnMeans
  <2> QED BY <1>2, <2>2
<1>3. ASSUME pending = <<a, b>>, a.feature # b.feature
      PROVE  PendingOn(f) = IF a.feature = f THEN <<a>>
                            ELSE IF b.feature = f THEN <<b>> ELSE <<>>
  <2>1. Len(pending) = 2 /\ pending[1] = a /\ pending[2] = b /\ 1 \in 1..2 /\ 2 \in 1..2
    BY <1>3
  <2>2. PICK own : /\ own[0] = <<>>
                   /\ own[1] = (IF a.feature = f THEN Append(own[0], a) ELSE own[0])
                   /\ own[2] = (IF b.feature = f THEN Append(own[1], b) ELSE own[1])
                   /\ PendingOn(f) = own[2]
    BY <2>1, PendingOnMeans
  <2>3. Append(<<>>, a) = <<a>> /\ Append(<<>>, b) = <<b>>
    OBVIOUS
  <2> QED BY <1>3, <2>2, <2>3
<1> QED BY <1>1, <1>2, <1>3

\* The lists of cleaners are sequences.
LEMMA ListsAreSequences ==
    ASSUME NEW f, NEW s \in ListOf(f)
    PROVE  <<>> \o s = s /\ <<>> \in ListOf(f)
<1> DEFINE T == {SlotDeletor, Unhooker, RemoveEntry, InfoDeletor}
                   \union {DeletorOf(c) : c \in DOMAIN data.coll}
<1>1. /\ SlotDeletor \in T /\ Unhooker \in T /\ RemoveEntry \in T /\ InfoDeletor \in T
      /\ \A c \in DOMAIN data.coll : DeletorOf(c) \in T
  OBVIOUS
<1> HIDE DEF T
<1>2. /\ <<>> \in Seq(T) /\ <<SlotDeletor>> \in Seq(T)
      /\ \A c \in DOMAIN data.coll : <<DeletorOf(c)>> \in Seq(T)
  BY <1>1
<1>3. /\ Seq({Unhooker}) \subseteq Seq(T) /\ Seq({RemoveEntry}) \subseteq Seq(T)
      /\ Seq({InfoDeletor}) \subseteq Seq(T)
  BY <1>1
<1>4. <<>> \in Seq({Unhooker}) /\ <<>> \in Seq({RemoveEntry}) /\ <<>> \in Seq({InfoDeletor})
  OBVIOUS
<1>5. s \in Seq(T) /\ <<>> \in ListOf(f)
  BY <1>2, <1>3, <1>4 DEF ListOf
<1> QED BY <1>5

\* A list begins with a cleaner of its only kind.
LEMMA AddSame ==
    ASSUME NEW c, NEW l \in Seq({c})
    PROVE  <<c>> \o l \in Seq({c}) /\ <<c>> \o l # <<>>
OBVIOUS

\* The cleaners of the processor that ends are on nodes that accept them.
LEMMA PendingFits ==
    ASSUME SafePipeline, State, stack # <<>>, Top.pc = "clean", mode = "live",
           NEW n \in DOMAIN heap
    PROVE  LET s == PendingOn(heap[n].feature) \o CleanList(n) IN
           /\ s \in ListOf(heap[n].feature)
           /\ heap[n].feature = DOMINANCE /\ (Top.proc = "Dominance" \/ CleanList(n) # <<>>)
                 => s # <<>>
<1> DEFINE f == heap[n].feature
           l == CleanList(n)
           e == PendingOn(f)
<1>1. CleansInv /\ WorkInv /\ WorkDone /\ GraphOK /\ pending = PendingOf(Top.proc, "clean")
  BY StateMeans DEF State, PipelineInv, WorkInv, AfterWork
<1>2. l \in ListOf(f)
  <2>1. <<>> \in ListOf(f)
    <3>1. <<>> \in Seq({Unhooker}) /\ <<>> \in Seq({RemoveEntry}) /\ <<>> \in Seq({InfoDeletor})
      OBVIOUS
    <3> QED BY <3>1 DEF ListOf
  <2> QED BY <1>1, <2>1 DEF CleanList, CleansInv
<1>3. Top.proc \in Producers /\ f = COLLECTED_CFG => l = <<>>
  <2> SUFFICES ASSUME Top.proc \in Producers, f = COLLECTED_CFG PROVE l = <<>>
    OBVIOUS
  <2>1. featMap[f] = n
    BY <1>1, FeatureNodes
  <2>2. n \notin DOMAIN cleans
    BY <1>1, <2>1 DEF WorkDone
  <2> QED BY <2>2 DEF CleanList
<1>4. <<>> \o l = l
  BY <1>2, ListsAreSequences
<1>5. /\ SlotDeletor.feature = COLLECTED_CFG /\ Deletor.feature = COLLECTED_CFG
      /\ Unhooker.feature = DOMINANCE /\ RemoveEntry.feature = VIRTUALIZED_CFG
      /\ InfoDeletor.feature = CFG_INFO
  BY DEF SlotDeletor, Deletor, DeletorOf, InfoDeletor, Unhooker, RemoveEntry, OnEntry
<1>6. Top.proc \in Known /\ COLLECTED_CFG # DOMINANCE /\ COLLECTED_CFG # VIRTUALIZED_CFG
      /\ DOMINANCE # VIRTUALIZED_CFG /\ CFG_INFO \notin {COLLECTED_CFG, DOMINANCE, VIRTUALIZED_CFG}
  BY TopKnown, NamesDiffer
<1> HIDE DEF f, l, e
<1>7. e \in {<<>>, <<SlotDeletor>>, <<Deletor>>, <<Unhooker>>, <<RemoveEntry>>, <<InfoDeletor>>}
      /\ (e \in {<<SlotDeletor>>, <<Deletor>>} => Top.proc \in Producers /\ f = COLLECTED_CFG)
      /\ (e = <<Unhooker>> => f = DOMINANCE)
      /\ (e = <<RemoveEntry>> => f = VIRTUALIZED_CFG)
      /\ (e = <<InfoDeletor>> => f = CFG_INFO)
      /\ (e = <<Deletor>> => e = <<SlotDeletor>> \/ Ready)
      /\ (Top.proc = "Dominance" /\ f = DOMINANCE => e = <<Unhooker>>)
  <2>0. SlotDeletor # Unhooker /\ SlotDeletor # RemoveEntry /\ Deletor # Unhooker
        /\ Deletor # RemoveEntry /\ Unhooker # RemoveEntry
        /\ InfoDeletor \notin {SlotDeletor, Deletor, Unhooker, RemoveEntry}
    BY <1>5, <1>6
  <2>1. CASE Top.proc = "CFGCollector"
    <3>1. pending = <<Deletor>>
      BY <1>1, <2>1 DEF PendingOf
    <3>2. e = IF f = COLLECTED_CFG THEN <<Deletor>> ELSE <<>>
      BY <1>5, <3>1, PendingOnIs DEF e, f
    <3> QED BY <1>1, <2>0, <2>1, <3>2 DEF Producers, WorkDone
  <2>2. CASE Top.proc = "Dominance"
    <3>1. pending = <<Unhooker>>
      BY <1>1, <2>2 DEF PendingOf
    <3>2. e = IF f = DOMINANCE THEN <<Unhooker>> ELSE <<>>
      BY <1>5, <3>1, PendingOnIs DEF e, f
    <3> QED BY <2>0, <3>2
  <2>3. CASE Top.proc = "Virtualizer"
    <3>1. pending = <<SlotDeletor, RemoveEntry>>
      BY <1>1, <2>3 DEF PendingOf
    <3>2. e = IF f = COLLECTED_CFG THEN <<SlotDeletor>>
              ELSE IF f = VIRTUALIZED_CFG THEN <<RemoveEntry>> ELSE <<>>
      BY <1>5, <1>6, <3>1, PendingOnIs DEF e, f
    <3> QED BY <2>0, <2>3, <3>2 DEF Producers, Changers
  <2>4. CASE Top.proc = "DelayedBuilder"
    <3>1. pending = <<SlotDeletor>>
      BY <1>1, <2>4 DEF PendingOf
    <3>2. e = IF f = COLLECTED_CFG THEN <<SlotDeletor>> ELSE <<>>
      BY <1>5, <3>1, PendingOnIs DEF e, f
    <3> QED BY <2>0, <2>4, <3>2 DEF Producers, Changers
  <2>6. CASE Top.proc = "CFGBuilder"
    <3>1. pending = <<InfoDeletor>>
      BY <1>1, <2>6 DEF PendingOf
    <3>2. e = IF f = CFG_INFO THEN <<InfoDeletor>> ELSE <<>>
      BY <1>5, <3>1, PendingOnIs DEF e, f
    <3> QED BY <2>0, <2>6, <3>2
  <2>5. CASE Top.proc \notin {"CFGCollector", "CFGBuilder", "Dominance", "Virtualizer", "DelayedBuilder"}
    <3>1. pending = <<>>
      BY <1>1, <2>5 DEF PendingOf
    <3>2. e = <<>>
      BY <3>1, PendingOnIs DEF e
    <3> QED BY <2>5, <3>2
  <2> QED BY <2>1, <2>2, <2>3, <2>4, <2>5, <2>6
<1>8. CASE e = <<>>
  <2>1. e \o l = l
    BY <1>4, <1>8
  <2>2. f = DOMINANCE /\ Top.proc = "Dominance" => FALSE
    BY <1>7, <1>8
  <2> QED BY <1>2, <2>1, <2>2 DEF e, f, l
<1>9. CASE e \in {<<SlotDeletor>>, <<Deletor>>}
  <2>1. l = <<>> /\ f = COLLECTED_CFG
    BY <1>3, <1>7, <1>9
  <2>2. e \o l = e
    BY <1>9, <2>1
  <2>3. e \in ListOf(f)
    <3>1. <<SlotDeletor>> \in ListOf(COLLECTED_CFG) /\ (Ready => <<Deletor>> \in ListOf(COLLECTED_CFG))
      BY <1>6 DEF ListOf, Ready, Deletor
    <3> QED BY <1>7, <1>9, <2>1, <3>1
  <2> QED BY <1>6, <2>1, <2>2, <2>3 DEF e, f, l
<1>10. CASE e = <<Unhooker>>
  <2>1. f = DOMINANCE
    BY <1>7, <1>10
  <2>2. \A g : g = DOMINANCE => ListOf(g) = Seq({Unhooker})
    BY <1>6 DEF ListOf
  <2>3. e \o l \in Seq({Unhooker}) /\ e \o l # <<>>
    BY <1>2, <1>10, <2>1, <2>2, AddSame
  <2> QED BY <2>1, <2>2, <2>3 DEF e, f, l
<1>11. CASE e = <<RemoveEntry>>
  <2>1. f = VIRTUALIZED_CFG
    BY <1>7, <1>11
  <2>2. \A g : g = VIRTUALIZED_CFG => ListOf(g) = Seq({RemoveEntry})
    BY <1>6 DEF ListOf
  <2>3. e \o l \in Seq({RemoveEntry})
    BY <1>2, <1>11, <2>1, <2>2, AddSame
  <2> QED BY <1>6, <2>1, <2>2, <2>3 DEF e, f, l
<1>12. CASE e = <<InfoDeletor>>
  <2>1. f = CFG_INFO
    BY <1>7, <1>12
  <2>2. \A g : g = CFG_INFO => ListOf(g) = Seq({InfoDeletor})
    BY <1>6 DEF ListOf
  <2>3. e \o l \in Seq({InfoDeletor})
    BY <1>2, <1>12, <2>1, <2>2, AddSame
  <2> QED BY <1>6, <2>1, <2>2, <2>3 DEF e, f, l
<1> QED BY <1>7, <1>8, <1>9, <1>10, <1>11, <1>12

\* The end of process().
LEMMA AttachData ==
    ASSUME SafePipeline, State, PPutCleaners
    PROVE  PipelineInv'
<1>1. /\ PutCleaners /\ stack # <<>> /\ inv = <<>> /\ Top.pc = "clean" /\ mode = "live"
  BY DEF PPutCleaners, PutCleaners, At
<1>2. Top.proc \in Known /\ Top.proc \in Processors
  BY <1>1, TopKnown
<1>3. \A f \in Cleaned[Top.proc] : Provided(f)
  BY <1>1, <1>2 DEF SafePipeline, CoherentCatalogue, State, CatalogueInv, TopInv
<1>4. /\ heap' = [n \in DOMAIN heap |->
                    IF heap[n].feature \in Cleaned[Top.proc]
                    THEN [heap[n] EXCEPT !.cleaners = @ \union {Top.proc}]
                    ELSE heap[n]]
      /\ stack' = Front(stack)
      /\ UNCHANGED <<featMap, inv, mode>>
  BY <1>1, <1>3 DEF PutCleaners, Return
<1>5. /\ DOMAIN heap' = DOMAIN heap
      /\ \A n \in DOMAIN heap :
            heap'[n].feature = heap[n].feature /\ heap'[n].parents = heap[n].parents
  <2>1. \A n \in DOMAIN heap : heap[n] \in NodeType
    BY StateMeans DEF GraphOK, GraphTypeOK
  <2> QED BY <1>4, <2>1 DEF NodeType
<1>6. /\ cleans' = [n \in DOMAIN heap |-> PendingOn(heap[n].feature) \o CleanList(n)]
      /\ pending' = <<>> /\ UNCHANGED <<data, graphCount, collCount>>
  BY DEF PPutCleaners, AttachCleaners
<1>7. /\ DataTypes /\ CollectionInv /\ DependsInv /\ InfoInv /\ FramesInv /\ WorkInv /\ HooksInv
      /\ UnhookInv /\ GraphOK /\ ControlTypeOK
  BY StateMeans DEF State, PipelineInv
<1>8. DataTypes' /\ CollectionInv' /\ RootInv'
  BY <1>1, <1>4, <1>6, <1>7 DEF DataTypes, DataType, Colls, GraphSets, MarkSets, CollectionInv, Ready, Current,
     Provided, RootInv
<1>9. \A f : Provided(f)' <=> Provided(f)
  BY <1>4 DEF Provided
<1>11. {COLLECTED_CFG, VIRTUALIZED_CFG, CFG_INFO, DOMINANCE, LOOP_HEADERS, LOOP_INFO} \subseteq Features
  BY KindsDiffer DEF SafePipeline
<1>12. \A f \in Features : Provided(f) => featMap[f] \in DOMAIN heap /\ heap[featMap[f]].feature = f
  BY <1>7, FeatureNodes
<1>13. DependsInv' /\ InfoInv'
  <2>1. Marks \subseteq Features
    BY <1>11 DEF Marks
  <2> QED BY <1>4, <1>5, <1>7, <1>9, <1>11, <1>6, <1>12, <2>1 DEF DependsInv, InfoInv, Current
<1>14. CleansInv'
  <2>1. \A f : ListOf(f)' = ListOf(f)
    BY <1>6 DEF ListOf, DeletorOf
  <2>2. \A n \in DOMAIN heap : cleans'[n] \in ListOf(heap[n].feature)
    BY <1>1, <1>6, PendingFits
  <2> QED BY <1>5, <1>6, <2>1, <2>2 DEF CleansInv
<1>15. FramesInv'
  BY <1>1, <1>4, <1>7, FramesPop
<1>16. WorkInv'
  <2>1. stack' # <<>> => Top'.pc = "need"
    BY <1>1, <1>4, PopNeeds
  <2> QED BY <1>6, <2>1 DEF WorkInv, WorkDone, AfterWork
<1>17. HooksInv'
  BY <1>4, <1>6, <1>7, HooksKept
<1>18. UnhookInv'
  <2> SUFFICES ASSUME Following, data.marks[DOMINANCE] # {}
               PROVE  /\ Provided(COLLECTED_CFG) /\ data.marks[DOMINANCE] = {Current(data)}
                      /\ Provided(DOMINANCE) /\ CleanList(featMap[DOMINANCE])' # <<>>
    BY <1>4, <1>6, <1>9 DEF UnhookInv, Following, CleanList
  <2>1. /\ Provided(COLLECTED_CFG) /\ data.marks[DOMINANCE] = {Current(data)}
        /\ \/ Provided(DOMINANCE) /\ CleanList(featMap[DOMINANCE]) # <<>>
           \/ Top.proc = "Dominance"
    BY <1>1, <1>7 DEF UnhookInv, Following
  <2>2. Top.proc = "Dominance" => Provided(DOMINANCE)
    BY <1>3 DEF SafePipeline, CFGDeclarations
  <2> DEFINE d == featMap[DOMINANCE]
  <2>3. d \in DOMAIN heap /\ heap[d].feature = DOMINANCE
    BY <1>11, <1>12, <2>1, <2>2
  <2>4. cleans'[d] # <<>>
    BY <1>1, <1>6, <2>1, <2>3, PendingFits
  <2> QED BY <1>4, <1>6, <2>1, <2>2, <2>3, <2>4 DEF CleanList
<1> QED BY <1>8, <1>13, <1>14, <1>15, <1>16, <1>17, <1>18 DEF PipelineInv

-----------------------------------------------------------------------------
(* Cleaners, when a node is deleted.                                       *)

\* The cleaners of a list run in order on the data.
LEMMA CleanAllIs ==
    ASSUME NEW list, Len(list) \in Nat,
           NEW w, w = [k \in 0..Len(list) |-> IF k = 0 THEN data ELSE Clean(w[k - 1], list[k])]
    PROVE  CleanAll(list) = w[Len(list)]
<1> DEFINE n == Len(list)
           eq(g) == g = [k \in 0..n |-> IF k = 0 THEN data ELSE Clean(g[k - 1], list[k])]
           U == CHOOSE g : eq(g)
<1>1. CleanAll(list) = U[n]
  BY DEF CleanAll
<1>2. n \in Nat
  OBVIOUS
<1>3. eq(w)
  OBVIOUS
<1>4. eq(U)
  BY <1>3
<1> HIDE DEF U, n
<1>5. \A k \in 0..n : /\ U[k] = IF k = 0 THEN data ELSE Clean(U[k - 1], list[k])
                      /\ w[k] = IF k = 0 THEN data ELSE Clean(w[k - 1], list[k])
  BY <1>3, <1>4
<1> DEFINE A == {k \in Nat : k <= n => U[k] = w[k]}
<1>6. 0 \in A
  <2>1. 0 \in 0..n
    BY <1>2
  <2>2. U[0] = data /\ w[0] = data
    BY <1>5, <2>1
  <2> QED BY <2>2
<1>7. ASSUME NEW k \in Nat, k \in A PROVE k + 1 \in A
  <2> SUFFICES ASSUME k + 1 <= n PROVE U[k + 1] = w[k + 1]
    OBVIOUS
  <2>1. U[k] = w[k] /\ k + 1 \in 0..n /\ k + 1 # 0 /\ (k + 1) - 1 = k
    BY <1>2, <1>7
  <2>2. /\ U[k + 1] = Clean(U[(k + 1) - 1], list[k + 1])
        /\ w[k + 1] = Clean(w[(k + 1) - 1], list[k + 1])
    BY <1>5, <2>1
  <2> QED BY <2>1, <2>2
<1> HIDE DEF A
<1>8. n \in A
  BY <1>2, <1>6, <1>7, NatSetInduction
<1> QED BY <1>1, <1>2, <1>8 DEF A, n

\* One cleaner at most.
LEMMA CleanAllOne ==
    ASSUME NEW c
    PROVE  CleanAll(<<>>) = data /\ CleanAll(<<c>>) = Clean(data, c)
<1>1. CleanAll(<<>>) = data
  <2> DEFINE l == <<>>
             w == [k \in 0..0 |-> data]
  <2>1. Len(l) = 0 /\ w[0] = data
    OBVIOUS
  <2>2. w = [k \in 0..Len(l) |-> IF k = 0 THEN data ELSE Clean(w[k - 1], l[k])]
    BY <2>1
  <2> HIDE DEF w, l
  <2>3. CleanAll(l) = w[Len(l)]
    BY <2>1, <2>2, CleanAllIs
  <2> QED BY <2>1, <2>3 DEF l
<1>2. CleanAll(<<c>>) = Clean(data, c)
  <2> DEFINE l == <<c>>
             x == Clean(data, c)
             w == [k \in 0..1 |-> IF k = 0 THEN data ELSE x]
  <2>1. Len(l) = 1 /\ l[1] = c /\ w[0] = data /\ w[1] = x /\ w = [k \in 0..1 |-> w[k]]
    OBVIOUS
  <2> HIDE DEF l, w
  <2>2. \A k \in 0..1 : w[k] = IF k = 0 THEN data ELSE Clean(w[k - 1], l[k])
    <3> SUFFICES ASSUME NEW k \in 0..1
                 PROVE  w[k] = IF k = 0 THEN data ELSE Clean(w[k - 1], l[k])
      OBVIOUS
    <3>1. CASE k = 0
      BY <2>1, <3>1
    <3>2. CASE k = 1
      <4>1. k - 1 = 0
        BY <3>2
      <4> QED BY <2>1, <3>2, <4>1
    <3> QED BY <3>1, <3>2
  <2>3. w = [k \in 0..Len(l) |-> IF k = 0 THEN data ELSE Clean(w[k - 1], l[k])]
    BY <2>1, <2>2
  <2>4. CleanAll(l) = w[Len(l)]
    BY <2>1, <2>3, CleanAllIs
  <2> QED BY <2>1, <2>4 DEF l, x
<1> QED BY <1>1, <1>2

\* The same cleaner, as often as its processor has run, does no more than once.
LEMMA CleanAllSame ==
    ASSUME NEW c, NEW list \in Seq({c}), NEW x, Clean(data, c) = x, Clean(x, c) = x
    PROVE  CleanAll(list) = IF list = <<>> THEN data ELSE x
<1> DEFINE n == Len(list)
           w == [k \in 0..n |-> IF k = 0 THEN data ELSE x]
<1>1. n \in Nat /\ (n = 0 <=> list = <<>>) /\ \A k \in 1..n : list[k] = c
  OBVIOUS
<1> HIDE DEF n
<1>2. \A k \in 0..n : w[k] = IF k = 0 THEN data ELSE Clean(w[k - 1], list[k])
  <2> SUFFICES ASSUME NEW k \in 0..n
               PROVE  w[k] = IF k = 0 THEN data ELSE Clean(w[k - 1], list[k])
    OBVIOUS
  <2>1. CASE k = 0
    BY <1>1, <2>1
  <2>2. CASE k # 0
    <3>1. k \in 1..n /\ k - 1 \in 0..n /\ w[k] = x /\ w[k - 1] \in {data, x}
      BY <1>1, <2>2
    <3> HIDE DEF w
    <3>2. list[k] = c
      BY <1>1, <3>1
    <3>3. Clean(w[k - 1], c) = x
      BY <3>1
    <3> QED BY <2>2, <3>1, <3>2, <3>3
  <2> QED BY <2>1, <2>2
<1>3. w = [k \in 0..n |-> w[k]] /\ w[n] = IF list = <<>> THEN data ELSE x
  BY <1>1
<1> HIDE DEF w
<1>4. w = [k \in 0..Len(list) |-> IF k = 0 THEN data ELSE Clean(w[k - 1], list[k])]
  BY <1>2, <1>3 DEF n
<1>5. CleanAll(list) = w[Len(list)]
  BY <1>1, <1>4, CleanAllIs DEF n
<1> QED BY <1>3, <1>5 DEF n

\* The deletion of a node on which nothing depends, for the dependent of another
\* one or for a call of its own.
LEMMA DeletedNode ==
    ASSUME State, InvalidateFeature
    PROVE  LET f == Last(inv).feature
               n == featMap[f]
               L == Len(inv)
           IN  /\ L \in Nat \ {0} /\ inv[L].feature = f /\ f \in Features
               /\ Provided(f) /\ n \in DOMAIN heap /\ heap[n].feature = f
               /\ \A g \in Features : featMap'[g] = IF g = f THEN 0 ELSE featMap[g]
               /\ DOMAIN heap' = DOMAIN heap \ {n}
               /\ \A m \in DOMAIN heap \ {n} : /\ heap'[m].feature = heap[m].feature
                                               /\ heap'[m].parents = heap[m].parents
               /\ \A m \in DOMAIN heap : n \notin heap[m].parents
               /\ Len(inv') = L - 1 /\ \A k \in 1..(L - 1) : inv'[k] = inv[k]
               /\ L >= 2 => \E m \in heap[n].parents : heap[m].feature = inv[L - 1].feature
               /\ UNCHANGED <<stack, mode>>
<1>0. PICK f, n, L : f = Last(inv).feature /\ n = featMap[f] /\ L = Len(inv)
  OBVIOUS
<1>1. GraphOK /\ inv \in Seq(ActivationType) /\ inv # <<>> /\ Last(inv).todo = <<>>
  BY StateMeans DEF InvalidateFeature
<1>2. /\ L \in Nat \ {0} /\ Last(inv) = inv[L] /\ Last(inv) \in ActivationType
      /\ Len(Front(inv)) = L - 1
      /\ \A k \in 1..(L - 1) : Front(inv)[k] = inv[k]
  BY <1>0, <1>1, FrontLastProperties
<1>3. f \in Features /\ inv[L].feature = f /\ L \in 1..Len(inv)
  BY <1>0, <1>2 DEF ActivationType
<1>4. Provided(f)
  BY <1>1, <1>3 DEF GraphOK, NestOrder
<1>5. n \in DOMAIN heap /\ heap[n].feature = f
  BY <1>0, <1>1, <1>3, <1>4, FeatureNodes
<1>6. mode \notin Faults
  BY DEF State, CatalogueInv, NoAssertFails
<1>7. /\ heap[n].children = <<>> /\ DelFeatDep(f) /\ inv' = Front(inv)
      /\ UNCHANGED <<stack, mode>>
  BY <1>0, <1>1, <1>6, FeatureStep DEF InvalidateFeature, Halt, Faults
<1>8. \A g \in Features : featMap'[g] = IF g = f THEN 0 ELSE featMap[g]
  BY <1>1, <1>7 DEF DelFeatDep, GraphOK, GraphTypeOK
<1>9. /\ DOMAIN heap' = DOMAIN heap \ {n}
      /\ \A m \in DOMAIN heap \ {n} : /\ heap'[m].feature = heap[m].feature
                                      /\ heap'[m].parents = heap[m].parents
  <2>1. heap' = [m \in DOMAIN heap \ {n} |->
                   IF m \in heap[n].parents
                   THEN [heap[m] EXCEPT !.children = RemoveDependent(@, n)]
                   ELSE heap[m]]
    BY <1>0, <1>7 DEF DelFeatDep
  <2>2. \A m \in DOMAIN heap : heap[m] \in NodeType
    BY <1>1 DEF GraphOK, GraphTypeOK
  <2> QED BY <2>1, <2>2 DEF NodeType
<1>10. \A m \in DOMAIN heap : n \notin heap[m].parents
  <2>1. ToSet(heap[n].children) = {}
    BY <1>7 DEF ToSet
  <2> QED BY <1>1, <1>5, <2>1 DEF GraphOK, DepsClosed
<1>11. ASSUME L >= 2 PROVE \E m \in heap[n].parents : heap[m].feature = inv[L - 1].feature
  <2>1. L - 1 \in 1..Len(inv) /\ L - 1 < Len(inv) /\ (L - 1) + 1 = L
    BY <1>0, <1>2, <1>11
  <2>2. Target(L) \in ToSet(heap[Target(L - 1)].children)
    BY <1>1, <2>1 DEF GraphOK, NestOrder
  <2>3. Provided(inv[L - 1].feature)
    BY <1>1, <2>1 DEF GraphOK, NestOrder
  <2>4. inv[L - 1].feature \in Features
    <3>1. inv[L - 1] \in ActivationType
      BY <1>1, <2>1, ElementOfSeq
    <3> QED BY <3>1 DEF ActivationType
  <2>5. Target(L - 1) \in DOMAIN heap /\ heap[Target(L - 1)].feature = inv[L - 1].feature
    BY <1>1, <2>3, <2>4, FeatureNodes DEF Target
  <2>6. Target(L) = n
    BY <1>0, <1>3 DEF Target
  <2>7. Target(L - 1) \in heap[n].parents
    BY <1>1, <1>5, <2>2, <2>5, <2>6 DEF GraphOK, DepsClosed
  <2> QED BY <2>5, <2>7
<1> QED BY <1>0, <1>2, <1>3, <1>4, <1>5, <1>7, <1>8, <1>9, <1>10, <1>11

\* Cleaners make no CFG and no collection.
LEMMA SameTypes ==
    ASSUME DataTypes, UNCHANGED <<graphCount, collCount>>
    PROVE  data \in DataType /\ (data' \in DataType => DataTypes')
<1>1. Colls' = Colls /\ GraphSets' = GraphSets /\ MarkSets' = MarkSets
  BY DEF Colls, GraphSets, MarkSets
<1> QED BY <1>1 DEF DataTypes, DataType

\* The cleaners of the node of a feature.
LEMMA ListOfNode ==
    ASSUME SafePipeline, State, NEW f \in Features, Provided(f)
    PROVE  CleanList(featMap[f]) \in ListOf(f)
<1>1. GraphOK /\ CleansInv
  BY StateMeans DEF State, PipelineInv
<1>2. heap[featMap[f]].feature = f
  BY <1>1, FeatureNodes
<1>3. <<>> \in ListOf(f)
  <2>1. <<>> \in Seq({Unhooker}) /\ <<>> \in Seq({RemoveEntry}) /\ <<>> \in Seq({InfoDeletor})
    OBVIOUS
  <2> QED BY <2>1 DEF ListOf
<1> QED BY <1>1, <1>2, <1>3 DEF CleanList, CleansInv

\* The cleaners of COLLECTED_CFG_FEATURE delete one collection, once.
LEMMA CollectionCleaned ==
    ASSUME SafePipeline, State, Sane, Provided(COLLECTED_CFG),
           data' = CleanAll(CleanList(featMap[COLLECTED_CFG])),
           UNCHANGED <<graphCount, collCount>>
    PROVE  /\ DataTypes' /\ data'.slot \in {data.slot, 0}
           /\ data'.entry = data.entry /\ data'.marks = data.marks /\ data'.copies = data.copies
           /\ data'.info = data.info /\ data'.graphs = data.graphs /\ data'.halfBuilt = data.halfBuilt
<1>1. DataTypes /\ Ready
  BY DEF State, PipelineInv, CollectionInv
<1>2. PICK X \in SUBSET (1..collCount) : data.coll \in [X -> 1..graphCount]
  BY <1>1 DEF DataTypes, DataType, Colls
<1>3. data \in DataType /\ (data' \in DataType => DataTypes') /\ data.fault = "none"
  BY <1>1, SameTypes DEF Sane
<1> DEFINE r(c) == [x \in X \ {c} |-> data.coll[x]]
<1>4. \A c : r(c) \in Colls
  <2> SUFFICES ASSUME NEW c PROVE r(c) \in Colls
    OBVIOUS
  <2>1. r(c) \in [X \ {c} -> 1..graphCount] /\ X \ {c} \in SUBSET (1..collCount)
    BY <1>2
  <2> HIDE DEF r
  <2> QED BY <2>1 DEF Colls
<1>5. data.slot # 0 /\ data.slot \in DOMAIN data.coll /\ DOMAIN data.coll = X
  BY <1>1, <1>2, ReadyMeans DEF Ready
<1>6. \A c \in X : DeleteCollection(data, c) = [data EXCEPT !.coll = r(c)]
  BY <1>5 DEF DeleteCollection
<1> HIDE DEF r
<1>7. \A c : /\ [data EXCEPT !.coll = r(c)] \in DataType
             /\ [[data EXCEPT !.coll = r(c)] EXCEPT !.slot = 0] \in DataType
  BY <1>3, <1>4 DEF DataType
<1>8. \/ CleanList(featMap[COLLECTED_CFG]) = <<>>
      \/ CleanList(featMap[COLLECTED_CFG]) = <<SlotDeletor>>
      \/ \E c \in X : CleanList(featMap[COLLECTED_CFG]) = <<DeletorOf(c)>>
  <2>1. ListOf(COLLECTED_CFG) = {<<>>, <<SlotDeletor>>} \union {<<DeletorOf(c)>> : c \in X}
    BY <1>5, NamesDiffer DEF ListOf
  <2> QED BY <2>1, ListOfNode, KindsDiffer DEF SafePipeline
<1>9. CASE CleanList(featMap[COLLECTED_CFG]) = <<>>
  <2>1. data' = data
    BY <1>9, CleanAllOne
  <2> QED BY <1>3, <2>1
<1>10. CASE CleanList(featMap[COLLECTED_CFG]) = <<SlotDeletor>>
  <2>1. data' = Clean(data, SlotDeletor)
    BY <1>10, CleanAllOne
  <2>2. SlotDeletor.does = "delete slot"
    BY DEF SlotDeletor
  <2>3. data' = [[data EXCEPT !.coll = r(data.slot)] EXCEPT !.slot = 0]
    BY <1>3, <1>5, <1>6, <2>1, <2>2 DEF Clean
  <2>4. /\ data'.slot = 0 /\ data'.entry = data.entry /\ data'.marks = data.marks
        /\ data'.copies = data.copies /\ data'.info = data.info /\ data'.graphs = data.graphs
        /\ data'.halfBuilt = data.halfBuilt
    BY <1>3, <2>3 DEF DataType
  <2> QED BY <1>3, <1>7, <2>3, <2>4
<1>11. ASSUME NEW c \in X, CleanList(featMap[COLLECTED_CFG]) = <<DeletorOf(c)>>
       PROVE  /\ DataTypes' /\ data'.slot \in {data.slot, 0}
              /\ data'.entry = data.entry /\ data'.marks = data.marks /\ data'.copies = data.copies
              /\ data'.info = data.info /\ data'.graphs = data.graphs
              /\ data'.halfBuilt = data.halfBuilt
  <2>1. data' = Clean(data, DeletorOf(c))
    BY <1>11, CleanAllOne
  <2>2. DeletorOf(c).does = "delete" /\ DeletorOf(c).coll = c
    BY DEF DeletorOf
  <2>3. data' = [data EXCEPT !.coll = r(c)]
    BY <1>3, <1>6, <2>1, <2>2 DEF Clean
  <2>4. /\ data'.slot = data.slot /\ data'.entry = data.entry /\ data'.marks = data.marks
        /\ data'.copies = data.copies /\ data'.info = data.info /\ data'.graphs = data.graphs
        /\ data'.halfBuilt = data.halfBuilt
    BY <1>3, <2>3 DEF DataType
  <2> QED BY <1>3, <1>7, <2>3, <2>4
<1> QED BY <1>8, <1>9, <1>10, <1>11

\* Removing twice is removing once.
LEMMA TakeTwice ==
    ASSUME NEW sets \in MarkSets, NEW fs, NEW g
    PROVE  /\ TakeFrom(sets, fs, g) \in MarkSets
           /\ \A f \in Marks : TakeFrom(sets, fs, g)[f] = IF f \in fs THEN sets[f] \ {g} ELSE sets[f]
           /\ TakeFrom(TakeFrom(sets, fs, g), fs, g) = TakeFrom(sets, fs, g)
BY DEF TakeFrom, MarkSets

\* DominanceCleaner takes the properties from the blocks of the current graph.
LEMMA DominanceCleaned ==
    ASSUME SafePipeline, State, Sane, Provided(DOMINANCE),
           data' = CleanAll(CleanList(featMap[DOMINANCE])), UNCHANGED <<graphCount, collCount>>
    PROVE  /\ DataTypes' /\ data'.slot = data.slot /\ data'.entry = data.entry
           /\ data'.coll = data.coll /\ data'.info = data.info /\ data'.graphs = data.graphs
           /\ data'.halfBuilt = data.halfBuilt
           /\ data'.marks[LOOP_INFO] = data.marks[LOOP_INFO]
           /\ \/ CleanList(featMap[DOMINANCE]) = <<>> /\ data' = data
              \/ data'.marks[DOMINANCE] = data.marks[DOMINANCE] \ {Current(data)}
<1>1. Provided(COLLECTED_CFG)
  BY StateMeans, ResultsNeed, NamesDiffer DEF SafePipeline, DataInv
<1>2. DataTypes /\ Ready /\ ReadFault(data) = "none"
  BY <1>1, ReadyMeans DEF State, PipelineInv, CollectionInv
<1>3. /\ data \in DataType /\ (data' \in DataType => DataTypes') /\ data.fault = "none"
      /\ data.marks \in MarkSets /\ data.copies \in MarkSets
  BY <1>2, SameTypes DEF Sane, DataType
<1> DEFINE fs == {DOMINANCE, LOOP_HEADERS}
           m == TakeFrom(data.marks, fs, Current(data))
           q == TakeFrom(data.copies, fs, Current(data))
           u == [data EXCEPT !.marks = m, !.copies = q]
<1>4. m \in MarkSets /\ q \in MarkSets
  BY <1>3, TakeTwice
<1>5. Unhook(data, fs) = u
  BY DEF Unhook
<1>6. TakeFrom(m, fs, Current(data)) = m /\ TakeFrom(q, fs, Current(data)) = q
  BY <1>3, TakeTwice
<1>14. /\ m[LOOP_INFO] = data.marks[LOOP_INFO]
       /\ m[DOMINANCE] = data.marks[DOMINANCE] \ {Current(data)}
  <2>1. \A f \in Marks : m[f] = IF f \in fs THEN data.marks[f] \ {Current(data)} ELSE data.marks[f]
    <3> HIDE DEF fs
    <3> QED BY <1>3, TakeTwice
  <2> HIDE DEF m
  <2> QED BY <2>1, NamesDiffer
<1> HIDE DEF m, q
<1>7. /\ u \in DataType /\ u.marks = m /\ u.copies = q /\ u.slot = data.slot /\ u.coll = data.coll
      /\ u.graphs = data.graphs /\ u.entry = data.entry /\ u.info = data.info
      /\ u.halfBuilt = data.halfBuilt /\ u.fault = "none" /\ [u EXCEPT !.marks = m, !.copies = q] = u
  BY <1>3, <1>4 DEF DataType
<1> HIDE DEF u
<1>8. ReadFault(u) = "none" /\ Current(u) = Current(data)
  BY <1>2, <1>7 DEF ReadFault, Current
<1>9. Unhook(u, fs) = u
  BY <1>6, <1>7, <1>8 DEF Unhook
<1>10. Clean(data, Unhooker) = u /\ Clean(u, Unhooker) = u
  <2>1. Unhooker.does = "unhook"
    BY DEF Unhooker
  <2> QED BY <1>2, <1>3, <1>5, <1>7, <1>8, <1>9, <2>1 DEF Clean, CleanDominance
<1> DEFINE list == CleanList(featMap[DOMINANCE])
<1>11. list \in Seq({Unhooker})
  <2>1. ListOf(DOMINANCE) = Seq({Unhooker})
    BY NamesDiffer DEF ListOf
  <2> QED BY <2>1, ListOfNode, KindsDiffer DEF SafePipeline
<1>12. data' = IF list = <<>> THEN data ELSE u
  BY <1>10, <1>11, CleanAllSame
<1>13. CASE list = <<>>
  BY <1>3, <1>12, <1>13
<1>15. CASE list # <<>>
  <2>1. data' = u
    BY <1>12, <1>15
  <2> QED BY <1>3, <1>7, <1>14, <2>1
<1> QED BY <1>13, <1>15

\* The remover of VIRTUALIZED_CFG_FEATURE forgets ENTRY_CFG.
LEMMA VirtualizedCleaned ==
    ASSUME SafePipeline, State, Sane, Provided(VIRTUALIZED_CFG),
           data' = CleanAll(CleanList(featMap[VIRTUALIZED_CFG])), UNCHANGED <<graphCount, collCount>>
    PROVE  /\ DataTypes' /\ data'.slot = data.slot
           /\ data'.coll = data.coll /\ data'.marks = data.marks /\ data'.copies = data.copies
           /\ data'.info = data.info /\ data'.graphs = data.graphs /\ data'.halfBuilt = data.halfBuilt
<1>1. DataTypes
  BY DEF State, PipelineInv
<1> DEFINE u == [data EXCEPT !.entry = 0]
<1>2. /\ data \in DataType /\ (data' \in DataType => DataTypes') /\ data.fault = "none"
      /\ 0 \in 0..graphCount
  BY <1>1, SameTypes DEF Sane, DataTypes
<1>4. /\ u \in DataType /\ u.slot = data.slot /\ u.coll = data.coll /\ u.marks = data.marks
      /\ u.copies = data.copies /\ u.info = data.info /\ u.graphs = data.graphs
      /\ u.halfBuilt = data.halfBuilt
      /\ u.fault = "none" /\ [u EXCEPT !.entry = 0] = u
  BY <1>2 DEF DataType
<1>5. Clean(data, RemoveEntry) = u
  BY <1>2 DEF Clean, RemoveEntry, OnEntry
<1> HIDE DEF u
<1>6. Clean(u, RemoveEntry) = u
  BY <1>4 DEF Clean, RemoveEntry, OnEntry
<1> DEFINE list == CleanList(featMap[VIRTUALIZED_CFG])
<1>7. list \in Seq({RemoveEntry})
  <2>1. ListOf(VIRTUALIZED_CFG) = Seq({RemoveEntry})
    BY NamesDiffer DEF ListOf
  <2> QED BY <2>1, ListOfNode, KindsDiffer DEF SafePipeline
<1>8. data' = IF list = <<>> THEN data ELSE u
  BY <1>5, <1>6, <1>7, CleanAllSame
<1> QED BY <1>2, <1>4, <1>8

\* The deletor of CFG_INFO_FEATURE deletes the CFGs of CFGInfo.
LEMMA InfoCleaned ==
    ASSUME SafePipeline, State, Sane, Provided(CFG_INFO),
           data' = CleanAll(CleanList(featMap[CFG_INFO])), UNCHANGED <<graphCount, collCount>>
    PROVE  /\ DataTypes' /\ data'.slot = data.slot /\ data'.entry = data.entry
           /\ data'.coll = data.coll /\ data'.marks = data.marks /\ data'.copies = data.copies
           /\ data'.halfBuilt = data.halfBuilt
           /\ \/ data'.info = data.info /\ data'.graphs = data.graphs
              \/ data'.info = 0 /\ data'.graphs = data.graphs \ {data.info}
<1>1. DataTypes /\ CollectionInv /\ InfoInv
  BY DEF State, PipelineInv
<1> DEFINE G == data.graphs \ {data.info}
           u == [data EXCEPT !.graphs = G, !.info = 0]
<1>2. /\ data \in DataType /\ (data' \in DataType => DataTypes') /\ data.fault = "none"
      /\ 0 \in 0..graphCount /\ G \in GraphSets
  BY <1>1, SameTypes DEF Sane, DataTypes, DataType, GraphSets
<1>3. data.info # 0 /\ data.info \in data.graphs
  BY <1>1 DEF InfoInv, CollectionInv
<1>4. Clean(data, InfoDeletor) = u
  BY <1>2, <1>3 DEF Clean, InfoDeletor, DeleteInfo
<1> HIDE DEF G
<1>5. /\ u \in DataType /\ u.slot = data.slot /\ u.coll = data.coll /\ u.marks = data.marks
      /\ u.copies = data.copies /\ u.info = 0 /\ u.graphs = G /\ u.entry = data.entry
      /\ u.halfBuilt = data.halfBuilt /\ u.fault = "none"
  BY <1>2 DEF DataType
<1> HIDE DEF u
<1>6. Clean(u, InfoDeletor) = u
  BY <1>5 DEF Clean, InfoDeletor, DeleteInfo
<1> DEFINE list == CleanList(featMap[CFG_INFO])
<1>7. list \in Seq({InfoDeletor})
  <2>1. ListOf(CFG_INFO) = Seq({InfoDeletor})
    BY NamesDiffer DEF ListOf, Marks
  <2> QED BY <2>1, ListOfNode, KindsDiffer DEF SafePipeline
<1>8. data' = IF list = <<>> THEN data ELSE u
  BY <1>4, <1>6, <1>7, CleanAllSame
<1> QED BY <1>2, <1>5, <1>8 DEF G

\* The other features have no cleaners here.
LEMMA OthersCleaned ==
    ASSUME SafePipeline, State, NEW f \in Features, Provided(f),
           f \notin {COLLECTED_CFG, DOMINANCE, VIRTUALIZED_CFG, CFG_INFO},
           data' = CleanAll(CleanList(featMap[f])), UNCHANGED <<graphCount, collCount>>
    PROVE  data' = data /\ DataTypes'
<1>1. CleanList(featMap[f]) = <<>>
  BY ListOfNode DEF ListOf
<1>2. data' = data
  BY <1>1, CleanAllOne
<1> QED BY <1>2, SameTypes DEF State, PipelineInv

\* The end of an invalidation: its node disappears with what its cleaners clean.
LEMMA FeatureData ==
    ASSUME SafePipeline, State, PInvalidateFeature
    PROVE  PipelineInv'
<1>0. PICK f, n, L : f = Last(inv).feature /\ n = featMap[f] /\ L = Len(inv)
  OBVIOUS
<1>1. InvalidateFeature /\ RunCleaners /\ inv # <<>> /\ Sane
  BY DEF PInvalidateFeature, InvalidateFeature
<1>2. /\ L \in Nat \ {0} /\ inv[L].feature = f /\ f \in Features
      /\ Provided(f) /\ n \in DOMAIN heap /\ heap[n].feature = f
      /\ \A g \in Features : featMap'[g] = IF g = f THEN 0 ELSE featMap[g]
      /\ DOMAIN heap' = DOMAIN heap \ {n}
      /\ \A m \in DOMAIN heap \ {n} : /\ heap'[m].feature = heap[m].feature
                                      /\ heap'[m].parents = heap[m].parents
      /\ \A m \in DOMAIN heap : n \notin heap[m].parents
      /\ Len(inv') = L - 1 /\ \A k \in 1..(L - 1) : inv'[k] = inv[k]
      /\ L >= 2 => \E m \in heap[n].parents : heap[m].feature = inv[L - 1].feature
      /\ UNCHANGED <<stack, mode>>
  BY <1>0, <1>1, DeletedNode
<1>3. /\ data' = CleanAll(CleanList(n))
      /\ cleans' = [m \in DOMAIN cleans \ {n} |-> cleans[m]]
      /\ UNCHANGED <<pending, graphCount, collCount>>
  BY <1>0, <1>1 DEF RunCleaners
<1>4. /\ DataTypes /\ CollectionInv /\ CleansInv /\ DependsInv /\ InfoInv /\ FramesInv /\ RootInv
      /\ WorkInv /\ HooksInv /\ UnhookInv /\ GraphOK
  BY StateMeans DEF State, PipelineInv
<1>5. {COLLECTED_CFG, VIRTUALIZED_CFG, CFG_INFO, DOMINANCE, LOOP_HEADERS, LOOP_INFO} \subseteq Features
  BY KindsDiffer DEF SafePipeline
<1>6. Marks = {DOMINANCE, LOOP_HEADERS, LOOP_INFO} /\ Marks \subseteq Features
  BY <1>5 DEF Marks
<1>7. \A g \in Features : /\ Provided(g)' <=> Provided(g) /\ g # f
                          /\ g # f => featMap'[g] = featMap[g]
  BY <1>2 DEF Provided
<1>8. \A g \in Features : Provided(g) /\ g # f =>
         featMap[g] \in DOMAIN heap \ {n}
  BY <1>0, <1>2, <1>4, FeatureNodes
<1>9. f = COLLECTED_CFG => \A g \in Marks : ~Provided(g)
  <2> SUFFICES ASSUME f = COLLECTED_CFG, NEW g \in Marks, Provided(g) PROVE FALSE
    OBVIOUS
  <2>1. featMap[g] \in DOMAIN heap
    BY <1>4, <1>6, FeatureNodes
  <2> QED BY <1>0, <1>2, <1>4, <2>1 DEF DependsInv
<1>10. stack # <<>> => Top.proc \in Changers /\ Top.pc \in {"preinvalidate", "postinvalidate"}
  BY <1>1, <1>4 DEF RootInv, State, CatalogueInv, CallsInv
<1>11. stack # <<>> => /\ Top.proc \notin Analyses \union Sources /\ Top.proc # "Dominance"
                       /\ Top.proc # "LoopInfoBuilder"
  BY <1>10, KindsDiffer DEF SafePipeline, Sources
\* What the cleaners do to the data.
<1>12. DataTypes' /\ data'.halfBuilt = data.halfBuilt
  <2>1. CASE f = COLLECTED_CFG
    BY <1>0, <1>1, <1>2, <1>3, <2>1, CollectionCleaned
  <2>2. CASE f = DOMINANCE
    BY <1>0, <1>1, <1>2, <1>3, <2>2, DominanceCleaned
  <2>3. CASE f = VIRTUALIZED_CFG
    BY <1>0, <1>1, <1>2, <1>3, <2>3, VirtualizedCleaned
  <2>4. CASE f = CFG_INFO
    BY <1>0, <1>1, <1>2, <1>3, <2>4, InfoCleaned
  <2>5. CASE f \notin {COLLECTED_CFG, DOMINANCE, VIRTUALIZED_CFG, CFG_INFO}
    BY <1>0, <1>2, <1>3, <2>5, OthersCleaned
  <2> QED BY <2>1, <2>2, <2>3, <2>4, <2>5
<1>13. f # COLLECTED_CFG => data'.slot = data.slot /\ data'.coll = data.coll
  BY <1>0, <1>1, <1>2, <1>3, DominanceCleaned, VirtualizedCleaned, InfoCleaned, OthersCleaned
<1>14. f = COLLECTED_CFG => data'.slot \in {data.slot, 0} /\ data'.entry = data.entry
                            /\ data'.marks = data.marks
  BY <1>0, <1>1, <1>2, <1>3, CollectionCleaned
<1>15. f \notin {COLLECTED_CFG, VIRTUALIZED_CFG} => data'.entry = data.entry
  BY <1>0, <1>1, <1>2, <1>3, DominanceCleaned, InfoCleaned, OthersCleaned
<1>16. f \notin {DOMINANCE, COLLECTED_CFG} => data'.marks = data.marks /\ data'.copies = data.copies
  BY <1>0, <1>1, <1>2, <1>3, VirtualizedCleaned, InfoCleaned, OthersCleaned
<1>17. f = DOMINANCE =>
          /\ data'.marks[LOOP_INFO] = data.marks[LOOP_INFO]
          /\ \/ CleanList(n) = <<>> /\ data' = data
             \/ data'.marks[DOMINANCE] = data.marks[DOMINANCE] \ {Current(data)}
  BY <1>0, <1>1, <1>2, <1>3, DominanceCleaned
<1>29. f # CFG_INFO => data'.info = data.info /\ data'.graphs = data.graphs
  <2>1. CASE f = COLLECTED_CFG
    BY <1>0, <1>1, <1>2, <1>3, <2>1, CollectionCleaned
  <2>2. CASE f # COLLECTED_CFG
    BY <1>0, <1>1, <1>2, <1>3, <2>2, DominanceCleaned, VirtualizedCleaned, OthersCleaned
  <2> QED BY <2>1, <2>2
<1>30. f = CFG_INFO => \/ data'.info = data.info /\ data'.graphs = data.graphs
                       \/ data'.info = 0 /\ data'.graphs = data.graphs \ {data.info}
  BY <1>0, <1>1, <1>2, <1>3, InfoCleaned
<1>18. f # COLLECTED_CFG => Current(data') = Current(data)
  BY <1>13 DEF Current
\* What an invalidation began with.
<1>19. mode = "live" => f \notin {VIRTUALIZED_CFG, CFG_INFO}
  <2> SUFFICES ASSUME mode = "live", f \in {VIRTUALIZED_CFG, CFG_INFO} PROVE FALSE
    OBVIOUS
  <2>1. L # 1
    BY <1>1, <1>2, <1>4 DEF RootInv
  <2>2. heap[n].parents = {}
    BY <1>0, <1>2, <1>4 DEF DependsInv
  <2> QED BY <1>2, <2>1, <2>2
<1>20. mode = "live" /\ f = DOMINANCE => \E k \in 1..(L - 1) : inv[k].feature = COLLECTED_CFG
  <2> SUFFICES ASSUME mode = "live", f = DOMINANCE
               PROVE  \E k \in 1..(L - 1) : inv[k].feature = COLLECTED_CFG
    OBVIOUS
  <2>1. L # 1
    BY <1>1, <1>2, <1>4 DEF RootInv
  <2>2. heap[n].parents = {featMap[COLLECTED_CFG]}
    BY <1>0, <1>2, <1>4 DEF DependsInv
  <2>3. Provided(COLLECTED_CFG)
    BY <1>2, <1>4, <1>6, ResultsNeed DEF SafePipeline
  <2>4. heap[featMap[COLLECTED_CFG]].feature = COLLECTED_CFG
    BY <1>4, <1>5, <2>3, FeatureNodes
  <2>5. inv[L - 1].feature = COLLECTED_CFG /\ L - 1 \in 1..(L - 1)
    BY <1>2, <2>1, <2>2, <2>4
  <2> QED BY <2>5
\* No collection of the CFGs of CFGInfo is left when these are deleted.
<1>31. f = CFG_INFO /\ Provided(COLLECTED_CFG) => Current(data) # data.info
  BY <1>0, <1>2, <1>4, <1>5, FeatureNodes DEF InfoInv
<1>21. CollectionInv'
  <2>1. ASSUME Provided(COLLECTED_CFG)' PROVE Ready' /\ Current(data') \in data'.graphs
    <3>1. f # COLLECTED_CFG /\ Ready /\ Current(data) \in data.graphs
      BY <1>4, <1>5, <1>7, <2>1 DEF CollectionInv
    <3>2. Current(data) \in data'.graphs
      BY <1>4, <1>5, <1>7, <1>29, <1>30, <1>31, <2>1, <3>1
    <3> QED BY <1>13, <1>18, <3>1, <3>2 DEF Ready
  <2>2. mode = "live" => (data'.entry = 0 => data'.slot = 0)
    BY <1>4, <1>13, <1>14, <1>15, <1>19 DEF CollectionInv
  <2>3. data'.info \in data'.graphs \union {0}
    BY <1>4, <1>29, <1>30 DEF CollectionInv
  <2>4. mode = "live" => data'.graphs = 1..graphCount
    BY <1>4, <1>19, <1>29 DEF CollectionInv
  <2> QED BY <1>2, <1>3, <2>1, <2>2, <2>3, <2>4 DEF CollectionInv
<1>22. CleansInv'
  <2>1. ASSUME NEW m \in DOMAIN cleans'
        PROVE  m \in DOMAIN heap' /\ cleans'[m] \in ListOf(heap[m].feature)'
    <3>1. m \in DOMAIN cleans /\ m # n /\ cleans'[m] = cleans[m]
      BY <1>3, <2>1
    <3>2. m \in DOMAIN heap \ {n} /\ cleans[m] \in ListOf(heap[m].feature)
      BY <1>4, <3>1 DEF CleansInv
    <3>3. m \in DOMAIN heap' /\ heap'[m].feature = heap[m].feature
      BY <1>2, <3>2
    <3>4. CASE f = COLLECTED_CFG
      <4>1. heap[m].feature # COLLECTED_CFG
        BY <1>0, <1>4, <3>1, <3>2, <3>4, FeatureNodes
      <4> QED BY <3>1, <3>2, <3>3, <4>1 DEF ListOf
    <3>5. CASE f # COLLECTED_CFG
      <4>1. data'.coll = data.coll
        BY <1>13, <3>5
      <4> QED BY <3>1, <3>2, <3>3, <4>1 DEF ListOf, DeletorOf
    <3> QED BY <3>4, <3>5
  <2> QED BY <2>1 DEF CleansInv
<1>23. DependsInv'
  <2>1. ASSUME NEW g \in Features, Provided(g)'
        PROVE  /\ Provided(g) /\ featMap'[g] = featMap[g]
               /\ heap'[featMap'[g]].parents = heap[featMap[g]].parents
    BY <1>2, <1>7, <1>8, <2>1
  <2>2. \A g \in Marks : Provided(g)' => featMap'[COLLECTED_CFG] = featMap[COLLECTED_CFG]
    BY <1>5, <1>6, <1>7, <1>9
  <2> QED BY <1>4, <1>5, <1>6, <2>1, <2>2, NamesDiffer DEF DependsInv
<1>32. InfoInv'
  <2>1. Provided(CFG_INFO)' => data'.info # 0
    BY <1>4, <1>5, <1>7, <1>29 DEF InfoInv
  <2>2. ASSUME Provided(COLLECTED_CFG)', Current(data') = data'.info
        PROVE  featMap'[CFG_INFO] \in heap'[featMap'[COLLECTED_CFG]].parents
    <3>1. /\ f # COLLECTED_CFG /\ Provided(COLLECTED_CFG) /\ featMap'[COLLECTED_CFG] = featMap[COLLECTED_CFG]
          /\ heap'[featMap[COLLECTED_CFG]].parents = heap[featMap[COLLECTED_CFG]].parents
      BY <1>2, <1>5, <1>7, <1>8, <2>2
    <3>2. Current(data) # 0
      BY <1>4, <3>1, ReadyMeans DEF CollectionInv
    <3>3. data'.info = data.info /\ Current(data) = data.info
      BY <1>18, <1>29, <1>30, <2>2, <3>1, <3>2
    <3>4. f # CFG_INFO
      BY <1>31, <3>1, <3>3
    <3> QED BY <1>4, <1>5, <1>7, <3>1, <3>3, <3>4 DEF InfoInv
  <2> QED BY <2>1, <2>2 DEF InfoInv
<1>24. FramesInv'
  <2>1. Provided(COLLECTED_CFG)' => Provided(COLLECTED_CFG)
    BY <1>5, <1>7
  <2> QED BY <1>2, <1>4, <2>1 DEF FramesInv
<1>25. RootInv'
  <2>1. inv' # <<>> => inv'[1] = inv[1]
    BY <1>2
  <2> QED BY <1>1, <1>2, <1>4, <2>1 DEF RootInv, Top
<1>26. WorkInv'
  <2>1. pending' = (IF stack # <<>> /\ Top.pc \in AfterWork THEN PendingOf(Top.proc, Top.pc) ELSE <<>>)'
    <3>1. stack # <<>> /\ Top.pc \in AfterWork =>
             PendingOf(Top.proc, Top.pc) = <<>> /\ PendingOf(Top.proc, Top.pc)' = <<>>
      BY <1>2, <1>10, <1>11 DEF PendingOf, AfterWork, Sources, Top
    <3> QED BY <1>2, <1>3, <1>4, <3>1 DEF WorkInv, WorkDone, Top
  <2>2. stack # <<>> /\ Top.pc = "postinvalidate" => graphCount \notin {0, data'.info}
    BY <1>4, <1>10, <1>29, <1>30 DEF WorkInv, WorkDone, AfterWork
  <2>3. stack # <<>> /\ Top.pc \in AfterWork => WorkDone'
    BY <1>2, <1>3, <1>10, <1>11, <2>2 DEF WorkDone, AfterWork, Sources, Top
  <2> QED BY <1>2, <1>10, <2>1, <2>3 DEF WorkInv, AfterWork, Top
<1>27. HooksInv'
  <2> SUFFICES ASSUME Following, NEW g \in Marks, Provided(g)'
               PROVE  /\ \/ Current(data') \in data'.marks[g]
                         \/ g = LOOP_HEADERS /\ \E k \in 1..(L - 1) : inv[k].feature = COLLECTED_CFG
                      /\ Own(g)'
    BY <1>2, <1>12 DEF HooksInv, Following
  <2>1. Provided(g) /\ g # f /\ f # COLLECTED_CFG
    BY <1>6, <1>7, <1>9
  <2>2. /\ \/ Current(data) \in data.marks[g]
           \/ g = LOOP_HEADERS /\ \E k \in 1..L : inv[k].feature = COLLECTED_CFG
        /\ Own(g)
    BY <1>0, <1>4, <2>1 DEF HooksInv
  <2>3. (\E k \in 1..L : inv[k].feature = COLLECTED_CFG) =>
           \E k \in 1..(L - 1) : inv[k].feature = COLLECTED_CFG
    BY <1>2, <2>1
  <2>4. CASE f = DOMINANCE
    <3>1. g = LOOP_INFO \/ g = LOOP_HEADERS
      BY <1>6, <2>1, <2>4
    <3>2. mode = "live"
      BY DEF Following
    <3>3. Own(g)'
      BY <3>1, NamesDiffer DEF Own
    <3> QED BY <1>17, <1>18, <1>20, <2>1, <2>2, <2>4, <3>1, <3>2, <3>3, NamesDiffer
  <2>5. CASE f # DOMINANCE
    <3>1. data'.marks = data.marks /\ data'.copies = data.copies /\ Current(data') = Current(data)
      BY <1>16, <1>18, <2>1, <2>5
    <3> QED BY <2>1, <2>2, <2>3, <2>5, <3>1 DEF Own
  <2> QED BY <2>4, <2>5
<1>28. UnhookInv'
  <2> SUFFICES ASSUME Following, data'.marks[DOMINANCE] # {}
               PROVE  /\ Provided(COLLECTED_CFG)' /\ data'.marks[DOMINANCE] = {Current(data')}
                      /\ Provided(DOMINANCE)' /\ CleanList(featMap[DOMINANCE])' # <<>>
    BY <1>2, <1>12 DEF UnhookInv, Following
  <2>1. data.marks[DOMINANCE] # {}
    BY <1>14, <1>16, <1>17
  <2>2. /\ Provided(COLLECTED_CFG) /\ data.marks[DOMINANCE] = {Current(data)}
        /\ Provided(DOMINANCE) /\ CleanList(featMap[DOMINANCE]) # <<>>
    BY <1>4, <1>11, <2>1 DEF UnhookInv
  <2>3. f # DOMINANCE
    BY <1>0, <1>17, <2>2
  <2>4. f # COLLECTED_CFG
    BY <1>9, <2>2, NamesDiffer
  <2>5. featMap'[DOMINANCE] = featMap[DOMINANCE] /\ featMap[DOMINANCE] # n
    BY <1>5, <1>7, <1>8, <2>2, <2>3
  <2>6. CleanList(featMap[DOMINANCE])' = CleanList(featMap[DOMINANCE])
    BY <1>3, <2>5 DEF CleanList
  <2> QED BY <1>5, <1>7, <1>16, <1>18, <2>2, <2>3, <2>4, <2>6
<1> QED BY <1>12, <1>21, <1>22, <1>23, <1>24, <1>25, <1>26, <1>27, <1>28, <1>32 DEF PipelineInv

-----------------------------------------------------------------------------
(* The theorems.                                                           *)

\* Nothing was collected yet.
LEMMA InitData ==
    ASSUME CFGDeclarations, PInit
    PROVE  State
<1>1. GraphInv /\ stack = <<>> /\ inv = <<>> /\ mode = "live"
  BY InitGraph DEF PInit, Init
<1>2. CatalogueInv
  <2>1. \A n \in DOMAIN heap : heap[n].parents = {}
    BY DEF PInit, Init, Node
  <2> QED BY <1>1, <2>1 DEF CatalogueInv, CallsInv, OriginInv, AbsentInv, TopInv, NoAssertFails, Faults
<1>3. \A f \in Marks \union {COLLECTED_CFG, VIRTUALIZED_CFG, CFG_INFO} : ~Provided(f)
  BY DEF PInit, Init, Provided, CFGDeclarations
<1> DEFINE e == <<>>
           m == [f \in Marks |-> {}]
<1>4. /\ data = [slot |-> 0, entry |-> 0, info |-> 0, coll |-> e, graphs |-> {},
                 marks |-> m, copies |-> m, halfBuilt |-> FALSE, fault |-> "none"]
      /\ pending = <<>> /\ cleans = <<>> /\ graphCount = 0 /\ collCount = 0
  BY DEF PInit
<1>5. m \in MarkSets /\ m[DOMINANCE] = {}
  BY NamesDiffer DEF MarkSets
<1>6. e \in Colls
  <2>1. e = [x \in {} |-> x] /\ {} \in SUBSET (1..collCount)
    OBVIOUS
  <2>2. e \in [{} -> 1..graphCount]
    BY <2>1
  <2> HIDE DEF e
  <2> QED BY <2>1, <2>2 DEF Colls
<1> HIDE DEF e, m
<1>7. DataTypes
  <2>1. 0 \in 0..graphCount /\ {} \in GraphSets
    BY <1>4 DEF GraphSets
  <2> QED BY <1>4, <1>5, <1>6, <2>1 DEF DataTypes, DataType
<1>8. CollectionInv /\ DependsInv /\ InfoInv
  <2>1. {} = 1..graphCount
    BY <1>4
  <2> QED BY <1>3, <1>4, <2>1, NamesDiffer DEF CollectionInv, DependsInv, InfoInv
<1>9. CleansInv
  BY <1>4 DEF CleansInv
<1>10. FramesInv /\ RootInv /\ WorkInv
  BY <1>1, <1>4 DEF FramesInv, RootInv, WorkInv
<1>11. HooksInv /\ UnhookInv
  BY <1>3, <1>4, <1>5 DEF HooksInv, UnhookInv
<1> QED BY <1>1, <1>2, <1>7, <1>8, <1>9, <1>10, <1>11 DEF State, PipelineInv

\* The steps of the engine that run no code of a processor.
LEMMA ControlData ==
    ASSUME SafePipeline, State, PControl
    PROVE  PipelineInv'
<1>1. UNCHANGED pipeline
  BY DEF PControl
<1>2. CASE InvalidateDependent \/ PreInvalidate \/ Need
  BY <1>1, <1>2, DependentData, PreInvalidateData, NeedData
<1>3. CASE ReturnCancelled \/ CheckRequirements \/ NoProcessorThrows
  BY <1>1, <1>3, LeaveData, CheckData
<1>4. CASE Provide \/ (\E f \in Features : DestroyFeature(f)) \/ Destroyed
  BY <1>1, <1>4, ProvideData, DestroyData
<1> QED BY <1>2, <1>3, <1>4 DEF PControl

\* A step that changes nothing.
LEMMA StutterData ==
    ASSUME State, UNCHANGED <<vars, pipeline>>
    PROVE  PipelineInv'
<1>1. UNCHANGED <<featMap, heap, stack, inv, mode, pipeline>>
  BY DEF vars
<1>2. DataInv' /\ FramesInv' /\ WorkInv' /\ UnhookInv'
  BY <1>1, SameStack
<1>3. HooksInv' /\ RootInv'
  BY <1>1, HooksKept DEF State, PipelineInv, pipeline, RootInv, Top
<1> QED BY <1>2, <1>3 DEF PipelineInv, DataInv

\* The processors run on the steps of the engine.
LEMMA EngineSteps ==
    ASSUME SafePipeline, [PNext]_<<vars, pipeline>>
    PROVE  [Next]_vars
<1>1. CASE PCall
  <2>1. Tools \subseteq Processors /\ Wanted \subseteq Features /\ Dropped \subseteq Features
    BY KindsDiffer DEF SafePipeline, ToolCalls
  <2> QED BY <1>1, <2>1 DEF PCall, Next, Call
<1>2. CASE PControl
  BY <1>2 DEF PControl, Next, Step
<1>3. CASE PWork \/ PWorkFails \/ PPostInvalidate \/ PPutCleaners \/ PInvalidateFeature
  BY <1>3 DEF PWork, PWorkFails, PPostInvalidate, PPutCleaners, PInvalidateFeature, Next, Step
<1>4. CASE PStopped \/ UNCHANGED <<vars, pipeline>>
  <2>1. UNCHANGED vars
    BY <1>4 DEF PStopped
  <2> QED BY <2>1
<1> QED BY <1>1, <1>2, <1>3, <1>4 DEF PNext

\* Every step of the processors.
LEMMA PipelineStep ==
    ASSUME SafePipeline, State, [PNext]_<<vars, pipeline>>
    PROVE  State'
<1>1. [Next]_vars
  BY EngineSteps
<1>2. GraphInv' /\ CatalogueInv'
  <2>1. GraphOK /\ ControlTypeOK /\ InvalidationSafe
    BY StateMeans
  <2>2. GraphOK' /\ InvalidationSafe'
    BY <1>1, <2>1, GraphStep
  <2>3. ControlTypeOK'
    BY <1>1, <2>1, ControlStep
  <2>4. CatalogueInv'
    BY <1>1, CatalogueStep DEF SafePipeline, State
  <2> QED BY <2>2, <2>3, <2>4 DEF GraphInv, GraphOK, TypeOK
<1>3. PipelineInv'
  <2>1. CASE PWork \/ PWorkFails
    BY <2>1, WorkData, FailData
  <2>2. CASE PPostInvalidate \/ PPutCleaners \/ PInvalidateFeature
    BY <2>2, CleanupData, AttachData, FeatureData
  <2>3. CASE PControl \/ PCall
    BY <2>3, ControlData, CallData
  <2>4. CASE PStopped \/ UNCHANGED <<vars, pipeline>>
    <3>1. UNCHANGED <<vars, pipeline>>
      BY <2>4 DEF PStopped
    <3> QED BY <3>1, StutterData
  <2> QED BY <2>1, <2>2, <2>3, <2>4 DEF PNext
<1> QED BY <1>2, <1>3 DEF State

\* The data follow the features, whatever the processors that the tools run and
\* the features they take away, within ToolCalls.
THEOREM PipelineInvariant ==
    ASSUME SafePipeline
    PROVE  PSpec => []State
<1>1. PInit => State
  BY InitData DEF SafePipeline
<1>2. State /\ [PNext]_<<vars, pipeline>> => State'
  BY PipelineStep
<1> QED BY <1>1, <1>2, PTL DEF PSpec

\* The workspace, the collections and the lists of cleaners have their types.
THEOREM PipelineTypesHold ==
    ASSUME SafePipeline
    PROVE  PSpec => []PipelineTypeOK
<1>1. ASSUME State PROVE PipelineTypeOK
  <2>1. TypeOK /\ DataTypes /\ CleansInv
    BY <1>1 DEF State, GraphInv, PipelineInv
  <2>2. data.slot \in Nat /\ data.entry \in Nat /\ data.info \in Nat
        /\ data.graphs \subseteq Nat /\ data.halfBuilt \in BOOLEAN
        /\ data.fault \in {"none", EmptyCollection}
    BY <2>1 DEF DataTypes, DataType, GraphSets
  <2> QED BY <2>1, <2>2 DEF PipelineTypeOK, CleansInv
<1> QED BY <1>1, PipelineInvariant, PTL

\* INVOLVED_CFGS can be read while COLLECTED_CFG_FEATURE is provided: cleanup()
\* of a transformer installs its collection after the invalidation that deletes
\* the one before, and a cleaner deletes no collection but its own.
THEOREM CollectionStaysReady ==
    ASSUME SafePipeline
    PROVE  PSpec => []CollectionReady
<1>1. ASSUME State PROVE CollectionReady
  <2>1. DataTypes /\ (Provided(COLLECTED_CFG) => Ready /\ Current(data) \in data.graphs)
    BY <1>1 DEF State, PipelineInv, CollectionInv
  <2> QED BY <2>1, ReadyMeans DEF CollectionReady
<1> QED BY <1>1, PipelineInvariant, PTL

\* The properties of Dominance and LoopInfoBuilder are on the blocks of the
\* current CFGs while their features are provided, and its REVERSE_DOM is not a
\* copy: the dependencies take the features away with the collection, as long as
\* no DelayedBuilder failed and put another collection under them.
THEOREM ResultsStayCurrent ==
    ASSUME SafePipeline
    PROVE  PSpec => []ResultsCurrent
<1>1. ASSUME State PROVE ResultsCurrent
  <2>1. HooksInv
    BY <1>1 DEF State, PipelineInv
  <2> QED BY <2>1 DEF ResultsCurrent, Settled, OnCurrent, HooksInv, Following
<1> QED BY <1>1, PipelineInvariant, PTL

\* No processWorkSpace(), cleanup() or cleaner follows a null pointer or deletes
\* what was deleted, also after a DelayedBuilder that failed.
THEOREM ProcessorsFindData ==
    ASSUME SafePipeline
    PROVE  PSpec => []NoDataFault
<1>1. ASSUME State PROVE NoDataFault
  BY <1>1 DEF State, PipelineInv, DataTypes, DataType, NoDataFault, DataFaults, EmptyCollection
<1> QED BY <1>1, PipelineInvariant, PTL

\* DominanceCleaner removes all that Dominance has put on blocks: its REVERSE_DOM
\* is on the current CFGs only, where the cleaner finds it, as long as no
\* DelayedBuilder failed.
THEOREM CleanerRemovesResults ==
    ASSUME SafePipeline
    PROVE  PSpec => []ResultsRemoved
<1>1. ASSUME State PROVE ResultsRemoved
  BY <1>1 DEF State, PipelineInv, UnhookInv, Following, ResultsRemoved
<1> QED BY <1>1, PipelineInvariant, PTL
=============================================================================
