------------------------------ MODULE FlowFacts ------------------------------
(***************************************************************************)
(* The loop bounds, from the flow facts of the user to the headers of the   *)
(* virtual CFGs: FlowFactLoader puts them on instructions as contextual     *)
(* properties, CFGChecker tests the virtual CFGs, ContextualProcessor goes  *)
(* through them and ipet::FlowFactLoader looks the bounds up in the context *)
(* of each loop header.                                                     *)
(*                                                                         *)
(* A context is a path of steps, FUNCTION or CALL with an address.  The     *)
(* contextual properties of an instruction make a tree: a node is the path  *)
(* that leads to it from the innermost step, the empty one standing for the *)
(* properties of the instruction itself.                                    *)
(***************************************************************************)
EXTENDS Virtualizer

\* A program has two more fields: the flow facts on its loops (facts), a
\* sequence of records of an instruction, a path and a bound, and the first
\* instruction of the source line of each instruction (line), None if unknown.
ASSUME FactsAssumption ==
    \A p \in Programs :
        /\ p.facts \in Seq([inst : Insts, max : Nat,
                            path : Seq({"FUNCTION", "CALL"} \X Insts)])
        /\ p.line \in [Insts -> Insts \cup {None}]

VARIABLES
    nodes,      \* the nodes of the contextual trees: <<instruction, node>>
    bounds,     \* bounds[<<instruction, node>>]: MAX_ITERATION where it is set
    unread,     \* the facts to load
    failed,     \* CFGChecker::failed
    back,       \* the edges marked BACK_EDGE
    left,       \* the virtual CFGs left to process
    cfg,        \* the CFG at work, None between two of them
    todo,       \* ContextualProcessor::processCFG: the edges to follow, and the
                \* null edges that end the calls, as a stack
    calls,      \* the blocks where the calls entered return
    path,       \* ipet::FlowFactLoader::path
    marked,     \* the blocks with MARK
    max,        \* max[v]: MAX_ITERATION of the loop header v
    done,       \* the blocks processed in all the CFGs
    last        \* the last block processed

facts == <<nodes, bounds, unread>>
traversal == <<left, cfg, todo, calls, path, marked, max, done, last>>
factVars == <<facts, failed, back, traversal>>

Fun(f) == <<"FUNCTION", f>>
Call(i) == <<"CALL", i>>

-----------------------------------------------------------------------------
(* ContextualProperty                                                      *)

\* Mutant of Walk: only the innermost step of the path is looked for.
WalkOnce(i, p) ==
    IF p # <<>> /\ <<i, <<Last(p)>>>> \in nodes THEN <<Last(p)>> ELSE <<>>

\* The node that findProps reaches: from the innermost step, a step that is a
\* child of the node leads to it, the others are skipped.
Walk(i, p) ==
    LET upTo[k \in 0..Len(p)] ==
          IF k = 0 THEN <<>>
          ELSE LET n == upTo[k - 1]
                   child == Append(n, p[Len(p) - k + 1])
               IN  IF <<i, child>> \in nodes THEN child ELSE n
    IN  upTo[Len(p)]

\* find: the property of the deepest of the nodes met, -1 if none has it.
find(i, p) ==
    LET set == {n \in Prefixes(Walk(i, p)) : <<i, n>> \in DOMAIN bounds}
    IN  IF set = {} THEN -1
        ELSE bounds[<<i, CHOOSE n \in set : \A m \in set : Len(m) <= Len(n)>>]

-----------------------------------------------------------------------------
(* FlowFactLoader                                                          *)

\* Mutant of onLoop: a second bound for the same loop replaces the first one.
onLoopLast ==
    /\ unread # <<>>
    /\ LET fact == Head(unread)
           node == Reverse(fact.path)
       IN  /\ nodes' = nodes \cup {<<fact.inst, n>> : n \in Prefixes(node)}
           /\ bounds' = Put(bounds, <<fact.inst, node>>, fact.max)
    /\ unread' = Tail(unread)
    /\ UNCHANGED <<builder, inlining, execution, failed, back, traversal>>

\* onLoop: the bound of a loop, at least the one already known in its context.
onLoop ==
    /\ unread # <<>>
    /\ LET fact == Head(unread)
           node == Reverse(fact.path)
           known == find(fact.inst, fact.path)
       IN  /\ nodes' = nodes \cup {<<fact.inst, n>> : n \in Prefixes(node)}
           /\ bounds' = Put(bounds, <<fact.inst, node>>,
                            IF known < fact.max THEN fact.max ELSE known)
    /\ unread' = Tail(unread)
    /\ UNCHANGED <<builder, inlining, execution, failed, back, traversal>>

-----------------------------------------------------------------------------
(* CFGChecker                                                              *)

EntryOf(f) == <<f, <<>>, None>>
ExitOf(f) == <<f, <<>>, Exit>>

\* The blocks of the virtual CFGs: virtualize() has made one for each block of
\* the functions it has entered, whether an edge leads to it or not.
VBlocks ==
    UNION {{<<v[1], v[2], b>> : b \in ScanBlocks(v[3])} :
               v \in {e[2] : e \in {e \in vedges : e[3] = "VIRTUAL_CALL"}}}

isTargetUnknown(i) ==
    /\ isControl(i) /\ ~ isReturn(i) /\ ~ Stops(i)
    /\ target(i) = None
    /\ BranchTargets(i) \cup CallTargets(i) = {}

Anomaly ==
    \/ \E v \in VBlocks :
          \/ isTargetUnknown(top[v[3]])
          \/ \A e \in vedges : e[2] # v
          \/ \A e \in vedges : e[1] # v
    \/ \E f \in cfgMap : \A e \in vedges : e[2] # ExitOf(f)

\* The blocks of f reached from its entry without passing by v.
ReachedAvoiding(f, v) ==
    LET next(B) == {e[2] : e \in {e \in vedges : e[1] \in B /\ e[3] # "CALL"}} \ {v}
        upTo[k \in 0..Cardinality(vedges)] ==
            IF k = 0 THEN {EntryOf(f)} \ {v}
            ELSE LET B == upTo[k - 1] IN B \cup next(B)
    IN  upTo[Cardinality(vedges)]

\* Dominance: the edges whose target dominates their source.
BackEdges ==
    {e \in vedges : e[3] # "CALL" /\ e[1] \notin ReachedAvoiding(e[2][1], e[2])}

\* CFGChecker throws an exception after an anomaly; if there is none, Dominance
\* marks the back edges.
Check ==
    /\ phase = "inline" /\ fault = "none" /\ stack = <<>>
    /\ unread = <<>>
    /\ failed = "unknown"
    /\ failed' = IF Anomaly THEN "yes" ELSE "no"
    /\ left' = cfgMap
    /\ back' = IF Anomaly THEN back ELSE BackEdges
    /\ UNCHANGED <<builder, inlining, execution, facts, cfg, todo, calls, path, marked, max,
                   done, last>>

-----------------------------------------------------------------------------
(* ipet::FlowFactLoader                                                    *)

\* The sources of the back edges to v; v is a LOOP_HEADER if there is one.
BackSources(v) == {e[1] : e \in {e \in back : e[2] = v}}

\* lookLineAt: the starts of the source lines of the instructions of a block,
\* None where there is no line.
Lines(b) == [k \in 1..(top[b] - b + 1) |-> prog.line[b + k - 1]]

\* The instructions looked at for the bound of v: its first one, then by the
\* source lines of the block and of the back edges.
LookedAt(v, sources) ==
    LET upTo[k \in 0..Len(sources)] ==
          IF k = 0 THEN <<v[3]>> \o Lines(v[3]) ELSE upTo[k - 1] \o Lines(sources[k][3])
    IN  upTo[Len(sources)]

\* processBB and transfer: the first bound found in the context p.
BoundOf(v, sources, p) ==
    LET seen == LookedAt(v, sources)
        bound == [i \in Insts |-> find(i, p)]
        hits == {k \in DOMAIN seen : seen[k] # None /\ bound[seen[k]] >= 0}
    IN  IF hits = {} THEN -1 ELSE bound[seen[Min(hits)]]

enteringCall(e) ==
    path' = (IF e[1] = EntryOf(cfg) THEN path ELSE Append(path, Call(top[e[1][3]])))
            \o <<Fun(e[2][3])>>

\* Mutant of leavingCall: the step of the call stays.
leavingCallOnce(to) == path' = Front(path)

leavingCall(to) ==
    path' = IF to = ExitOf(cfg) THEN Front(path) ELSE Front(Front(path))

-----------------------------------------------------------------------------
(* ContextualProcessor::processCFG                                         *)

Null == <<NoBlock, NoBlock, "NULL">>
edge == Last(todo)

\* The processing of v: its edges are put on the stack.
Process(v, rest) ==
    /\ \E q \in SetToSeqs(From(v)) : todo' = rest \o q
    /\ \E q \in SetToSeqs(BackSources(v)) :
          LET n == BoundOf(v, q, path')
          IN  max' = IF v[3] \in Insts /\ q # <<>> /\ n >= 0 THEN Put(max, v, n) ELSE max
    /\ marked' = marked \cup {v}
    /\ done' = done \cup {v}
    /\ last' = v

\* The CFG of the task comes first, the others in the order of a hash table.
StartCFG ==
    /\ failed = "no"
    /\ cfg = None
    /\ \E f \in left :
          /\ prog.start \in left => f = prog.start
          /\ cfg' = f
          /\ left' = left \ {f}
          /\ \E q \in SetToSeqs(From(EntryOf(f))) : todo' = q
    /\ UNCHANGED <<builder, inlining, execution, facts, failed, back, calls, path, marked, max,
                   done, last>>

Pop ==
    /\ cfg # None
    /\ todo # <<>>
    /\ UNCHANGED <<builder, stack, vedges, cfgMap, loops, returnBlock, execution, facts,
                   failed, back, left, cfg>>

\* An edge of the function, to a new block.
FollowEdge ==
    /\ Pop
    /\ edge[3] \in {"TAKEN", "NOT_TAKEN"}
    /\ edge[2] \notin marked
    /\ UNCHANGED <<path, calls, fault>>
    /\ Process(edge[2], Front(todo))

\* Mutant of SkipEdge: the edge stays on the stack.
SkipEdgeKept ==
    /\ Pop
    /\ edge # Null
    /\ edge[3] \in {"VIRTUAL_RETURN", "CALL"} \/ edge[2] \in marked
    /\ UNCHANGED <<todo, path, calls, fault, marked, max, done, last>>

\* A call, a return, or an edge to a block already seen.
SkipEdge ==
    /\ Pop
    /\ edge # Null
    /\ edge[3] \in {"VIRTUAL_RETURN", "CALL"} \/ edge[2] \in marked
    /\ todo' = Front(todo)
    /\ UNCHANGED <<path, calls, fault, marked, max, done, last>>

\* Where the inlined call of e returns to.
ReturnTo(e) ==
    IF e[1] \in DOMAIN returnBlock /\ returnBlock[e[1]] # NoBlock
    THEN returnBlock[e[1]] ELSE ExitOf(cfg)

\* An inlined call; the null edge will end it.
EnterCall ==
    /\ Pop
    /\ edge[3] = "VIRTUAL_CALL"
    /\ edge[2] \notin marked
    /\ enteringCall(edge)
    /\ calls' = Append(calls, ReturnTo(edge))
    /\ fault' = IF \A e \in vedges : e[2] # ReturnTo(edge) THEN "unconnected" ELSE fault
    /\ Process(edge[2], Append(Front(todo), Null))

\* Mutant of LeaveCall: the block after a call is left to the other edges.
LeaveCallOnly ==
    /\ Pop
    /\ edge = Null
    /\ calls' = Front(calls)
    /\ leavingCall(Last(calls))
    /\ todo' = Front(todo)
    /\ UNCHANGED <<fault, marked, max, done, last>>

LeaveCall ==
    /\ Pop
    /\ edge = Null
    /\ calls' = Front(calls)
    /\ leavingCall(Last(calls))
    /\ UNCHANGED fault
    /\ Process(Last(calls), Front(todo))

EndCFG ==
    /\ cfg # None
    /\ todo = <<>>
    /\ cfg' = None
    /\ marked' = {}
    /\ UNCHANGED <<builder, inlining, execution, facts, failed, back, left, todo, calls, path, max,
                   done, last>>

-----------------------------------------------------------------------------

FInit ==
    /\ Init
    /\ nodes = Insts \X {<<>>}
    /\ bounds = [n \in {} |-> -1]
    /\ unread = prog.facts
    /\ failed = "unknown"
    /\ back = {}
    /\ left = {}
    /\ cfg = None
    /\ todo = <<>>
    /\ calls = <<>>
    /\ path = <<>>
    /\ marked = {}
    /\ max = [v \in {} |-> -1]
    /\ done = {}
    /\ last = NoBlock

\* The flow facts are loaded before the CFGs are built.
BuildAndInline == unread = <<>> /\ (BuildStep \/ Inline) /\ UNCHANGED factVars

Traverse == StartCFG \/ FollowEdge \/ SkipEdge \/ EnterCall \/ LeaveCall \/ EndCFG

FNext == onLoop \/ BuildAndInline \/ Check \/ Traverse

fvars == <<vars, factVars>>

FSpec == FInit /\ [][FNext]_fvars /\ WF_fvars(Traverse)

-----------------------------------------------------------------------------
(* Properties.                                                             *)

Processed == failed = "no" /\ left = {} /\ cfg = None

\* The context of a virtual block: the functions and calls it is inlined in.
ContextOf(v) ==
    IF v[3] = Exit THEN <<>>
    ELSE [k \in 1..(2 * Len(v[2]) + 1) |->
             IF k = 1 THEN Fun(v[1])
             ELSE IF k % 2 = 0 THEN Call(top[v[2][k \div 2][1]])
             ELSE Fun(v[2][k \div 2][2])]

\* No function is left by a jump to another one that is inlined, and no
\* recursion goes through a DONT_INLINE function: a call that is inlined returns
\* to a block of its caller, in its virtual CFG.
CallsReturn ==
    /\ \A v \in DOMAIN returnBlock : returnBlock[v] \in {<<v[1], v[2], b>> : b \in Insts}
    /\ \A e \in loops : e[1][1] = e[2][1]

\* The path of ipet::FlowFactLoader, which the calls and returns met by
\* ContextualProcessor push and pop, is the context of the block processed.
ContextExact == last # NoBlock => path = ContextOf(last)

\* A fact applies in a context that goes through all the steps of its path.
Applies(fact, p) ==
    \E f \in [DOMAIN fact.path -> DOMAIN p] :
        /\ \A j, k \in DOMAIN fact.path : j < k => f[j] < f[k]
        /\ \A k \in DOMAIN fact.path : p[f[k]] = fact.path[k]

Given == ToSet(prog.facts)
SeqsOfSources(v) == SetToSeqs(BackSources(v))

\* The bound of a loop header is not below what the user gave: it is that of a
\* fact that applies in the context of the header, and no other fact about the
\* same loop and the same path allows more iterations.
BoundsJustified ==
    \A v \in DOMAIN max :
        \E a \in Given :
            /\ \E q \in SeqsOfSources(v) : a.inst \in ToSet(LookedAt(v, q))
            /\ Applies(a, ContextOf(v))
            /\ \A b \in Given : b.inst = a.inst /\ b.path = a.path => b.max <= max[v]

\* A loop header whose first instruction has a fact that applies in its context
\* gets a bound.
BoundsFound ==
    Processed =>
        \A v \in done :
            v[3] \in Insts /\ BackSources(v) # {}
            /\ (\E a \in Given : a.inst = v[3] /\ Applies(a, ContextOf(v)))
                => v \in DOMAIN max

\* CFGChecker lets through what ContextualProcessor can handle: all the blocks
\* of the virtual CFGs are processed, and their exits, on any order of edges.
AllProcessed == Processed => VBlocks \cup {ExitOf(f) : f \in cfgMap} \subseteq done

\* The traversal of checked CFGs ends, though the blocks after the calls are
\* processed again without a test of their mark.
TraversalEnds == failed = "no" ~> Processed
=============================================================================
