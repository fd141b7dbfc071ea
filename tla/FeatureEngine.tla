---------------------------- MODULE FeatureEngine ----------------------------
(***************************************************************************)
(* The feature engine of OTAWA: WorkSpace keeps the graph of the features  *)
(* that are provided, Processor::process runs a code processor and, before *)
(* it, the processors that build what it requires.                         *)
(*                                                                         *)
(* A FeatureDependency node is a heap cell.  Its address is abstracted to  *)
(* the rank of its allocation, a ghost that lets the invariants speak of   *)
(* creation order; 0 is the null pointer.  The C++ call stack is explicit: *)
(* `stack' holds the activations of Processor::process and `inv' the       *)
(* nested activations of WorkSpace::invalidate, so that a dangling pointer *)
(* held by an outer activation is visible in the state.                    *)
(***************************************************************************)
EXTENDS Integers, Sequences, SequencesExt

CONSTANTS
    Features,       \* the AbstractFeature objects
    Processors,     \* the processor classes
    Usages,         \* Usages[p]: what FeatureIter enumerates for p, bases last
    Makers,         \* Makers[f]: processors f.process() may run (default or configured)
    NoProcessor,    \* the processor whose work throws NoProcessorException
    Faulty,         \* processors whose work may throw another exception
    Cleaned,        \* Cleaned[p]: features p attaches a cleaner to
    Loaded,         \* features the loader provides (Process::provided)
    MaxNodes        \* BOUND: no top-level call once this many nodes were made

Kinds == {"require", "use", "invalidate", "provide"}

ASSUME CatalogueAssumption ==
    /\ Usages \in [Processors -> Seq([kind : Kinds, feature : Features])]
    /\ Makers \in [Features -> SUBSET Processors]
    /\ NoProcessor \in Processors
    /\ Faulty \subseteq Processors
    /\ Cleaned \in [Processors -> SUBSET Features]
    /\ MaxNodes \in Nat

ASSUME LoadedAssumption ==
    /\ Loaded \in Seq(Features)
    /\ \A i, j \in 1..Len(Loaded) : Loaded[i] = Loaded[j] => i = j

VARIABLES
    featMap,    \* WorkSpace::featMap: feature -> address of its node, 0 if absent
    heap,       \* address -> FeatureDependency, for the nodes not yet deleted
    fresh,      \* next address
    stack,      \* activations of Processor::process, innermost last
    inv,        \* activations of WorkSpace::invalidate, innermost last
    cancelled,  \* WorkSpace::cancelled
    mode,       \* life of the workspace, or the assertion that stopped it
    outcome     \* how the last top-level call ended

vars == <<featMap, heap, fresh, stack, inv, cancelled, mode, outcome>>

Faults == {"dangling", "dependents", "required", "cleaner"}
Modes == {"live", "dying", "dead"} \union Faults
Outcomes == {"none", "running", "done", "cancelled", "unavailable",
             "noproc", "unmet", "failed"}
Phases == {"preinvalidate", "need", "check", "work", "postinvalidate",
           "provide", "clean"}

-----------------------------------------------------------------------------
(* Registration: what a processor declares.                                *)

\* AbstractRegistration::uses
Uses(p, f) ==
    \E i \in DOMAIN Usages[p] : /\ Usages[p][i].feature = f
                                /\ Usages[p][i].kind \in {"require", "use"}

\* The vector built at the top of process().
Required(p) ==
    {Usages[p][i].feature : i \in {j \in DOMAIN Usages[p] : Usages[p][j].kind = "require"}}

Invalidated(p) ==
    {Usages[p][i].feature : i \in {j \in DOMAIN Usages[p] : Usages[p][j].kind = "invalidate"}}

-----------------------------------------------------------------------------
(* The dependency graph.                                                   *)

Provided(f) == featMap[f] # 0

Node(f, parents) ==
    [feature |-> f, parents |-> parents, children |-> <<>>, cleaners |-> {}]

\* Mutant: addLast.
AddDependentLast(children, n) == Append(children, n)

\* Mutant: the list of dependents is left as it was (by FeatureDependency::add,
\* or by the destructor of a node for the nodes it depended on).
KeepDependent(children, n) == children

\* FeatureDependency::add: SLList::add puts the new dependent FIRST.
AddDependent(children, n) == <<n>> \o children

\* SLList::remove, on a list without duplicates.
RemoveDependent(children, n) ==
    IF n \in ToSet(children)
    THEN RemoveAt(children, CHOOSE i \in DOMAIN children : children[i] = n)
    ELSE children

\* Mutant: the dependency is recorded the wrong way round.
NewFeatDepReversed(f, R) ==
    LET parents == {featMap[r] : r \in R} IN
    /\ featMap' = [featMap EXCEPT ![f] = fresh]
    /\ heap' = [n \in DOMAIN heap \union {fresh} |->
                  IF n = fresh THEN Node(f, {})
                  ELSE IF n \in parents
                       THEN [heap[n] EXCEPT !.parents = @ \union {fresh}]
                       ELSE heap[n]]
    /\ fresh' = fresh + 1

\* WorkSpace::provide of a feature not provided yet: a node depending on those of R.
NewFeatDep(f, R) ==
    LET parents == {featMap[r] : r \in R} IN
    /\ featMap' = [featMap EXCEPT ![f] = fresh]
    /\ heap' = [n \in DOMAIN heap \union {fresh} |->
                  IF n = fresh THEN Node(f, parents)
                  ELSE IF n \in parents
                       THEN [heap[n] EXCEPT !.children = AddDependent(@, fresh)]
                       ELSE heap[n]]
    /\ fresh' = fresh + 1

\* WorkSpace::delFeatDep and ~FeatureDependency: the node leaves the map and
\* the lists of the nodes it depends on; its cleaners run.
DelFeatDep(f) ==
    LET n == featMap[f] IN
    /\ featMap' = [featMap EXCEPT ![f] = 0]
    /\ heap' = [m \in DOMAIN heap \ {n} |->
                  IF m \in heap[n].parents
                  THEN [heap[m] EXCEPT !.children = RemoveDependent(@, n)]
                  ELSE heap[m]]

-----------------------------------------------------------------------------
(* WorkSpace::invalidate.  An activation copies the dependents it must     *)
(* invalidate (to_inv) and then reads them through the copied pointers.    *)

Activation(f) == [feature |-> f, todo |-> heap[featMap[f]].children]

\* A call of invalidate(f): nothing when f is not provided.
Invalidate(f) ==
    inv' = IF Provided(f) THEN Append(inv, Activation(f)) ELSE inv

Halt(fault) == /\ mode' = fault
               /\ UNCHANGED <<featMap, heap, fresh, stack, inv, cancelled, outcome>>

\* invalidate(*to_inv[i]->getFeature()): the pointer must still be a node.
InvalidateDependent ==
    /\ mode \in {"live", "dying"} /\ inv # <<>>
    /\ Last(inv).todo # <<>>
    /\ LET a == Last(inv)
           n == Head(a.todo)
           rest == Append(Front(inv), [a EXCEPT !.todo = Tail(@)])
       IN  IF n \in DOMAIN heap
           THEN LET f == heap[n].feature IN
                /\ inv' = IF Provided(f) THEN Append(rest, Activation(f)) ELSE rest
                /\ UNCHANGED <<featMap, heap, fresh, stack, cancelled, mode, outcome>>
           ELSE Halt("dangling")

\* Every dependent is gone: delFeatDep, whose destructor asserts it, then clean.
InvalidateFeature ==
    /\ mode \in {"live", "dying"} /\ inv # <<>>
    /\ Last(inv).todo = <<>>
    /\ LET f == Last(inv).feature IN
       IF Provided(f) /\ heap[featMap[f]].children = <<>>
       THEN /\ DelFeatDep(f)
            /\ inv' = Front(inv)
            /\ UNCHANGED <<fresh, stack, cancelled, mode, outcome>>
       ELSE Halt("dependents")

-----------------------------------------------------------------------------
(* Processor::process.                                                     *)

Frame(p) == [proc |-> p, pc |-> "preinvalidate", i |-> 1, required |-> Required(p)]

Top == Last(stack)
Usage == Usages[Top.proc][Top.i]
More == Top.i <= Len(Usages[Top.proc])

\* The innermost process() is about to make its next step.
At(pc) == /\ mode = "live" /\ inv = <<>> /\ stack # <<>>
          /\ Top.pc = pc

SetTop(frame) == stack' = Append(Front(stack), frame)
\* Mutant: the iterator is not moved.
SameUsage == SetTop(Top)
NextUsage == SetTop([Top EXCEPT !.i = @ + 1])
Goto(pc) == SetTop([[Top EXCEPT !.i = 1] EXCEPT !.pc = pc])

\* process() returns to its caller.
Return(how) == /\ stack' = Front(stack)
               /\ outcome' = IF Len(stack) = 1 THEN how ELSE outcome

\* An exception leaves every activation: none of them is in its work but the last.
Throw(how) == /\ stack' = <<>>
              /\ outcome' = how

\* Mutant: an invalidated feature stays in the vector of the required ones.
InvalidationKeepsRequired(pc, used, after) ==
    /\ At(pc)
    /\ IF ~More THEN Goto(after) /\ UNCHANGED inv
       ELSE /\ NextUsage
            /\ IF Usage.kind = "invalidate" /\ Uses(Top.proc, Usage.feature) = used
               THEN Invalidate(Usage.feature) ELSE UNCHANGED inv
    /\ UNCHANGED <<featMap, heap, fresh, cancelled, mode, outcome>>

\* Both invalidation loops: before the requirements the features that are not
\* used, after the work those that are.
InvalidationLoop(pc, used, after) ==
    /\ At(pc)
    /\ IF ~More THEN Goto(after) /\ UNCHANGED inv
       ELSE IF Usage.kind = "invalidate" /\ Uses(Top.proc, Usage.feature) = used
            THEN /\ Invalidate(Usage.feature)
                 /\ SetTop([[Top EXCEPT !.i = @ + 1] EXCEPT !.required = @ \ {Usage.feature}])
            ELSE NextUsage /\ UNCHANGED inv
    /\ UNCHANGED <<featMap, heap, fresh, cancelled, mode, outcome>>

PreInvalidate == InvalidationLoop("preinvalidate", FALSE, "need")

\* The requirement loop: WorkSpace::require runs a processor for what is missing.
Need ==
    /\ At("need") /\ ~cancelled
    /\ IF ~More THEN Goto("check")
       ELSE IF Usage.kind \in {"require", "use"} /\ ~Provided(Usage.feature)
            THEN \E q \in Makers[Usage.feature] :
                    stack' = Append(Append(Front(stack), [Top EXCEPT !.i = @ + 1]), Frame(q))
            ELSE NextUsage
    /\ UNCHANGED <<featMap, heap, fresh, inv, cancelled, mode, outcome>>

\* A cancelled computation returns silently, before its work.
ReturnCancelled ==
    /\ At("need") /\ cancelled
    /\ Return("cancelled")
    /\ UNCHANGED <<featMap, heap, fresh, inv, cancelled, mode>>

\* What an earlier requirement built may be invalidated by a later one.
CheckRequirements ==
    /\ At("check")
    /\ IF \A f \in Features : Uses(Top.proc, f) => Provided(f)
       THEN Goto("work") /\ UNCHANGED outcome
       ELSE Throw("unmet")
    /\ UNCHANGED <<featMap, heap, fresh, inv, cancelled, mode>>

\* setup and processWorkSpace.
Work ==
    /\ At("work") /\ Top.proc # NoProcessor
    /\ Goto("postinvalidate")
    /\ UNCHANGED <<featMap, heap, fresh, inv, cancelled, mode, outcome>>

WorkFails ==
    /\ At("work") /\ Top.proc \in Faulty \ {NoProcessor}
    /\ Throw("failed")
    /\ UNCHANGED <<featMap, heap, fresh, inv, cancelled, mode>>

\* NoProcessor::processWorkSpace; a caller in its requirement loop turns it
\* into an UnavailableFeatureException.
NoProcessorThrows ==
    /\ At("work") /\ Top.proc = NoProcessor
    /\ Throw(IF Len(stack) > 1 THEN "unavailable" ELSE "noproc")
    /\ UNCHANGED <<featMap, heap, fresh, inv, cancelled, mode>>

\* Mutant: the test on used features is not inverted after the work.
PostInvalidateUnused == InvalidationLoop("postinvalidate", FALSE, "provide")

PostInvalidate == InvalidationLoop("postinvalidate", TRUE, "provide")

\* WorkSpace::provide for each provided feature, with its two assertions.
Provide ==
    /\ At("provide")
    /\ IF ~More
       THEN Goto("clean") /\ UNCHANGED <<featMap, heap, fresh, mode, outcome, inv, cancelled>>
       ELSE LET f == Usage.feature IN
            IF Usage.kind # "provide" \/ Provided(f)
            THEN NextUsage /\ UNCHANGED <<featMap, heap, fresh, mode, outcome, inv, cancelled>>
            ELSE IF f \notin Top.required /\ \A r \in Top.required : Provided(r)
                 THEN /\ NewFeatDep(f, Top.required)
                      /\ NextUsage
                      /\ UNCHANGED <<mode, outcome, inv, cancelled>>
                 ELSE Halt("required")

\* The cleaners move to the nodes of their features, which must exist.
PutCleaners ==
    /\ At("clean")
    /\ LET p == Top.proc IN
       IF \A f \in Cleaned[p] : Provided(f)
       THEN /\ heap' = [n \in DOMAIN heap |->
                          IF heap[n].feature \in Cleaned[p]
                          THEN [heap[n] EXCEPT !.cleaners = @ \union {p}]
                          ELSE heap[n]]
            /\ Return("done")
            /\ UNCHANGED <<featMap, fresh, inv, cancelled, mode>>
       ELSE Halt("cleaner")

-----------------------------------------------------------------------------
(* The calls of the tools, and the other thread that cancels.              *)

Idle == mode = "live" /\ inv = <<>> /\ stack = <<>>

CallProcess(p) ==
    /\ Idle /\ fresh <= MaxNodes
    /\ stack' = <<Frame(p)>>
    /\ outcome' = "running"
    /\ UNCHANGED <<featMap, heap, fresh, inv, cancelled, mode>>

\* WorkSpace::require from a tool.
CallRequire(f) == ~Provided(f) /\ \E p \in Makers[f] : CallProcess(p)

\* WorkSpace::invalidate from a tool.
CallInvalidate(f) ==
    /\ Idle /\ Provided(f)
    /\ Invalidate(f)
    /\ UNCHANGED <<featMap, heap, fresh, stack, cancelled, mode, outcome>>

\* cancel() comes from a GUI thread at any time; clearCancellation() before a call.
Cancel ==
    /\ mode = "live" /\ ~cancelled
    /\ cancelled' = TRUE
    /\ UNCHANGED <<featMap, heap, fresh, stack, inv, mode, outcome>>

ClearCancellation ==
    /\ Idle /\ cancelled
    /\ cancelled' = FALSE
    /\ UNCHANGED <<featMap, heap, fresh, stack, inv, mode, outcome>>

\* ~WorkSpace: invalidates what is provided, in the order of a hash table.
Destroy ==
    /\ Idle
    /\ mode' = "dying"
    /\ UNCHANGED <<featMap, heap, fresh, stack, inv, cancelled, outcome>>

DestroyFeature(f) ==
    /\ mode = "dying" /\ inv = <<>> /\ Provided(f)
    /\ Invalidate(f)
    /\ UNCHANGED <<featMap, heap, fresh, stack, cancelled, mode, outcome>>

\* Mutant: ~WorkSpace does not invalidate the features.
DestroyedAtOnce ==
    /\ mode = "dying" /\ inv = <<>>
    /\ mode' = "dead"
    /\ UNCHANGED <<featMap, heap, fresh, stack, inv, cancelled, outcome>>

Destroyed ==
    /\ mode = "dying" /\ inv = <<>> /\ \A f \in Features : ~Provided(f)
    /\ mode' = "dead"
    /\ UNCHANGED <<featMap, heap, fresh, stack, inv, cancelled, outcome>>

\* A destroyed or halted workspace does nothing more.
Stopped == mode \notin {"live", "dying"} /\ UNCHANGED vars

-----------------------------------------------------------------------------
\* WorkSpace::WorkSpace: Process::link provides the features of the loader.
Init ==
    /\ featMap = [f \in Features |->
                    IF f \in ToSet(Loaded)
                    THEN CHOOSE i \in 1..Len(Loaded) : Loaded[i] = f ELSE 0]
    /\ heap = [i \in 1..Len(Loaded) |-> Node(Loaded[i], {})]
    /\ fresh = Len(Loaded) + 1
    /\ stack = <<>>
    /\ inv = <<>>
    /\ cancelled = FALSE
    /\ mode = "live"
    /\ outcome = "none"

\* The steps of a call that has begun.
Step ==
    \/ InvalidateDependent \/ InvalidateFeature
    \/ PreInvalidate \/ Need \/ ReturnCancelled \/ CheckRequirements
    \/ Work \/ WorkFails \/ NoProcessorThrows
    \/ PostInvalidate \/ Provide \/ PutCleaners
    \/ (\E f \in Features : DestroyFeature(f)) \/ Destroyed

Call ==
    \/ \E p \in Processors : CallProcess(p)
    \/ \E f \in Features : CallRequire(f) \/ CallInvalidate(f)
    \/ Destroy \/ ClearCancellation

Next == Step \/ Call \/ Cancel \/ Stopped

\* The analysis thread keeps running the call it is in.
Spec == Init /\ [][Next]_vars /\ WF_vars(Step)

-----------------------------------------------------------------------------
(* Properties.                                                             *)

Addresses == Nat \ {0}
NodeType == [feature : Features, parents : SUBSET Addresses,
             children : Seq(Addresses), cleaners : SUBSET Processors]
FrameType == [proc : Processors, pc : Phases, i : Nat \ {0}, required : SUBSET Features]

GraphTypeOK ==
    /\ featMap \in [Features -> Nat]
    /\ DOMAIN heap \subseteq Addresses
    /\ \A n \in DOMAIN heap : heap[n] \in NodeType
    /\ fresh \in Addresses
    /\ inv \in Seq([feature : Features, todo : Seq(Addresses)])

ControlTypeOK ==
    /\ stack \in Seq(FrameType)
    /\ cancelled \in BOOLEAN
    /\ mode \in Modes
    /\ outcome \in Outcomes

\* The graph and the calls in progress are well formed: nodes are cells of the
\* heap, a frame of process() is in one of its phases, at a usage of its list.
TypeOK == GraphTypeOK /\ ControlTypeOK

\* Between two steps of any nest of invalidate(), the dependency graph is
\* closed: the map and the live nodes agree, what a provided feature depends
\* on is provided, and the two directions of every dependency agree.
DepsClosed ==
    /\ \A f \in Features : Provided(f) =>
          featMap[f] \in DOMAIN heap /\ heap[featMap[f]].feature = f
    /\ \A n \in DOMAIN heap :
          /\ featMap[heap[n].feature] = n
          /\ heap[n].parents \subseteq DOMAIN heap
          /\ ToSet(heap[n].children) \subseteq DOMAIN heap
    /\ \A m, n \in DOMAIN heap :
          m \in heap[n].parents <=> n \in ToSet(heap[m].children)

\* No activation of WorkSpace::invalidate holds a pointer to a deleted node in
\* its copy of the dependents, although the nested calls delete nodes.
NoDangling ==
    \A k \in DOMAIN inv : ToSet(inv[k].todo) \subseteq DOMAIN heap

\* Invalidation never reads a deleted node, and ~FeatureDependency never finds
\* a dependent left: ASSERT(children.isEmpty()) holds.
InvalidationSafe == mode \notin {"dangling", "dependents"}

\* No assertion of provide(), process() or ~FeatureDependency fails.
NoAssertFails == mode \notin Faults

\* When process() has finished its work and its providing, a feature it
\* declares invalidated is not provided, or is the one it has just provided
\* again, on which nothing depends.
InvalidationEffective ==
    (stack # <<>> /\ Top.pc = "clean" /\ mode = "live") =>
        \A f \in Invalidated(Top.proc) :
            Provided(f) => /\ \E i \in DOMAIN Usages[Top.proc] :
                                 /\ Usages[Top.proc][i].feature = f
                                 /\ Usages[Top.proc][i].kind = "provide"
                           /\ heap[featMap[f]].children = <<>>

\* A call of process(), require(), invalidate() or ~WorkSpace always returns,
\* the last one with every node deleted.
CallReturns ==
    (stack # <<>> \/ inv # <<>> \/ mode = "dying")
        ~> (stack = <<>> /\ inv = <<>> /\ mode # "dying" /\ (mode = "dead" => DOMAIN heap = {}))

-----------------------------------------------------------------------------
(* Why NoDangling holds: the lists of dependents are in the reverse order  *)
(* of creation, so an activation goes through its copy from the youngest   *)
(* to the oldest, and what a nested call deletes is younger than what is   *)
(* left in every outer copy.                                               *)

Decreasing(s) == \A i, j \in 1..Len(s) : i < j => s[j] < s[i]

\* The node activation k of invalidate() works on.
Target(k) == featMap[inv[k].feature]

\* A node is younger than what it depends on, and lists of dependents are sorted.
CreationOrder ==
    \A n \in DOMAIN heap :
        /\ n < fresh
        /\ \A m \in heap[n].parents : m < n
        /\ Decreasing(heap[n].children)

\* Each activation still has to treat exactly the dependents its node has, but
\* for the one that the next activation works on, younger than all of them.
NestOrder ==
    /\ \A k \in 1..Len(inv) : Provided(inv[k].feature) /\ Decreasing(inv[k].todo)
    /\ \A j, k \in 1..Len(inv) : j < k => Target(j) < Target(k)
    /\ \A k \in 1..Len(inv) :
          ToSet(heap[Target(k)].children) =
              ToSet(inv[k].todo) \union (IF k < Len(inv) THEN {Target(k + 1)} ELSE {})
    /\ \A k \in 1..(Len(inv) - 1) : \A x \in ToSet(inv[k].todo) : x < Target(k + 1)

\* The inductive invariant behind DepsClosed, NoDangling and InvalidationSafe.
GraphInv == TypeOK /\ DepsClosed /\ CreationOrder /\ NestOrder /\ InvalidationSafe

-----------------------------------------------------------------------------
(* What the declarations of the processors must satisfy for the assertions *)
(* of provide() and process() to hold, and for an invalidation to last.    *)

ProvidedBy(p) ==
    {Usages[p][i].feature : i \in {j \in DOMAIN Usages[p] : Usages[p][j].kind = "provide"}}

UsedBy(p) == {f \in Features : Uses(p, f)}

\* The pairs of a feature and one that some processor makes depend on it.
MayDepend ==
    UNION {Required(q) \X ProvidedBy(q) : q \in Processors}

\* The features that the invalidations after the work of p may withdraw: those
\* it uses and invalidates, and what may have been made to depend on them.
Affected(p) ==
    LET pairs == MayDepend
        first == Invalidated(p) \cap UsedBy(p)
        closed == {D \in SUBSET Features :
                      first \subseteq D /\ \A d \in pairs : d[1] \in D => d[2] \in D}
    IN  {f \in Features : \A D \in closed : f \in D}

\* The pairs of a processor and one that its requirements may run.
MayRun ==
    UNION {{p} \X UNION {Makers[f] : f \in UsedBy(p)} : p \in Processors}

\* The processors that the requirements of p may run, directly or not.
Helpers(p) ==
    LET pairs == MayRun
        closed == {Q \in SUBSET Processors :
                      \A r \in pairs : r[1] \in Q \union {p} => r[2] \in Q}
    IN  {q \in Processors : \A Q \in closed : q \in Q}

\* A processor puts cleaners on what it provides, does not invalidate what it
\* still requires, even through dependencies, and requires nothing that would
\* provide again what it has invalidated before.
CoherentCatalogue ==
    \A p \in Processors :
        /\ Cleaned[p] \subseteq ProvidedBy(p)
        /\ Affected(p) \cap (Required(p) \ Invalidated(p)) = {}
        /\ \A q \in Helpers(p) : ProvidedBy(q) \cap (Invalidated(p) \ UsedBy(p)) = {}

-----------------------------------------------------------------------------
(* The promise of WorkSpace that these steps implement.                    *)

ProvidedFeatures == {f \in Features : Provided(f)}

Dependencies ==
    {d \in ProvidedFeatures \X ProvidedFeatures :
        featMap[d[2]] \in heap[featMap[d[1]]].parents}

Graph == INSTANCE FeatureGraph WITH provided <- ProvidedFeatures, deps <- Dependencies

\* Every step of the engine, in whatever nest of calls, provides one feature
\* over provided ones, withdraws one that nothing depends on, or leaves the
\* graph as it is.
ImplementsFeatureGraph == Graph!Spec
=============================================================================
