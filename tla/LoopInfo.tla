------------------------------ MODULE LoopInfo ------------------------------
(***************************************************************************)
(* Dominance, loop headers and loop information of the control flow graphs. *)
(*                                                                         *)
(* Dominance and LoopInfoBuilder both run IterativeDFA, a worklist          *)
(* iteration over bit sets: `dominance' follows the edges and intersects,   *)
(* `loops' goes against the edges and unites.  A step of Process is one     *)
(* turn of the loop of IterativeDFA::compute.                               *)
(*                                                                         *)
(* Blocks are numbered through all the CFGs of the collection.  CALL edges, *)
(* which all these analyses skip, are left out, so CFGs share no edge and   *)
(* one worklist stands for the worklists of the CFGs, one after another.    *)
(***************************************************************************)
EXTENDS Integers, Sequences, FiniteSets, SequencesExt

CONSTANTS
    N,          \* number of basic blocks
    Entries,    \* the entry blocks, one for each CFG
    Graphs      \* the sets of edges to analyse

Blocks == 1..N
NoBlock == 0

ASSUME GraphAssumption ==
    /\ N \in Nat
    /\ Entries \subseteq Blocks
    /\ \A g \in Graphs : g \subseteq Blocks \X Blocks

\* An entry is a block without instructions that no edge leads to.  CFG::scan
\* finds the other blocks by following edges from the entry: blocks that nothing
\* leads to have no successor (the exit of a CFG that never returns).
ASSUME ReachAssumption ==
    \A g \in Graphs :
        /\ \A e \in g : e[2] \notin Entries
        /\ \A U \in SUBSET (Blocks \ Entries) :
               (\E e \in g : e[1] \in U) => \E e \in g : e[1] \notin U /\ e[2] \in U

VARIABLES
    edges,      \* the graph
    phase,      \* the processor at work
    todo,       \* IterativeDFA::compute: the queue of blocks to compute,
    present,    \* the bits of the blocks in the queue,
    outs,       \* outs[b]: the OUT set of b
    dom,        \* dom[b]: REVERSE_DOM(b), the blocks that dominate b
    hdrs,       \* LoopInfoProblem::hdrs; the position of a header is its bit
    enclosing,  \* enclosing[b]: ENCLOSING_LOOP_HEADER(b)
    exitOf      \* exitOf[e]: LOOP_EXIT_EDGE(e)

dfa == <<todo, present, outs>>
info == <<enclosing, exitOf>>
loopVars == <<edges, phase, todo, present, outs, dom, hdrs, enclosing, exitOf>>

-----------------------------------------------------------------------------
(* The two problems.                                                       *)

Sources(b) == {e[1] : e \in {e \in edges : e[2] = b}}
Targets(b) == {e[2] : e \in {e \in edges : e[1] = b}}

\* Dominance::dominates(h, b).
dominates(h, b) == h \in dom[b]

\* Dominance::markLoopHeaders: the edges marked BACK_EDGE, the blocks marked
\* LOOP_HEADER.
BackEdges == {e \in edges : dominates(e[2], e[1])}
Headers == {e[2] : e \in BackEdges}

\* The blocks whose OUT sets make the IN set of b, and those to wake when the
\* OUT set of b changes (Iter and Iter::Forward).
Inputs(b) == IF phase = "dominance" THEN Sources(b) ELSE Targets(b)
Forward(b) == IF phase = "dominance" THEN Targets(b) ELSE Sources(b)

\* DominanceProblem::merge intersects, starting with all the blocks;
\* LoopInfoProblem::merge unites, starting with none.
Merge(b) ==
    IF phase = "dominance" THEN {x \in Blocks : \A p \in Inputs(b) : x \in outs[p]}
                           ELSE UNION {outs[p] : p \in Inputs(b)}

Gen(b) ==
    IF phase = "dominance" THEN {b}
                           ELSE {h \in Targets(b) : h # b /\ dominates(h, b)}

Kill(b) ==
    IF phase = "dominance" THEN (IF b \in Entries THEN Blocks ELSE {})
                           ELSE {b} \cap Headers

Out(b) == (Merge(b) \ Kill(b)) \cup Gen(b)

-----------------------------------------------------------------------------
(* IterativeDFA::compute                                                   *)

\* The orders in which the iterator on the edges may give the blocks of S.
Orders(S) == {q \in [1..Cardinality(S) -> S] : ToSet(q) = S}

\* Mutant of Process: a block that changed does not wake those waiting for it.
ProcessOnce ==
    /\ phase \in {"dominance", "loops"}
    /\ todo # <<>>
    /\ outs' = [outs EXCEPT ![Head(todo)] = Out(Head(todo))]
    /\ present' = present \ {Head(todo)}
    /\ todo' = Tail(todo)
    /\ UNCHANGED <<edges, phase, dom, hdrs, info>>

\* Mutant of Process: a block wakes those waiting for it though it did not change.
ProcessAgain ==
    /\ phase \in {"dominance", "loops"}
    /\ todo # <<>>
    /\ LET b == Head(todo)
           woken == Forward(b) \ (present \ {b})
       IN  /\ outs' = [outs EXCEPT ![b] = Out(b)]
           /\ present' = (present \ {b}) \cup woken
           /\ \E q \in Orders(woken) : todo' = Tail(todo) \o q
    /\ UNCHANGED <<edges, phase, dom, hdrs, info>>

\* The first block of the queue is computed again; if its OUT set changes, the
\* blocks it flows to are put in the queue unless they are there.
Process ==
    /\ phase \in {"dominance", "loops"}
    /\ todo # <<>>
    /\ LET b == Head(todo)
           woken == IF Out(b) = outs[b] THEN {} ELSE Forward(b) \ (present \ {b})
       IN  /\ outs' = [outs EXCEPT ![b] = Out(b)]
           /\ present' = (present \ {b}) \cup woken
           /\ \E q \in Orders(woken) : todo' = Tail(todo) \o q
    /\ UNCHANGED <<edges, phase, dom, hdrs, info>>

AllBlocks == [b \in Blocks |-> b]

\* SortedSLList::add under DominanceOrder: before the first header that
\* dominates h, last if there is none.
Insert(list, h) ==
    LET above == {k \in DOMAIN list : list[k] # h /\ dominates(list[k], h)}
        k == IF above = {} THEN Len(list) + 1 ELSE Min(above)
    IN  SubSeq(list, 1, k - 1) \o <<h>> \o SubSeq(list, k, Len(list))

\* The constructor of LoopInfoProblem sorts the headers: what it has sorted
\* after k blocks.
SortedUpTo[k \in 0..N] ==
    IF k = 0 THEN <<>>
    ELSE IF k \in Headers \ Entries THEN Insert(SortedUpTo[k - 1], k)
    ELSE SortedUpTo[k - 1]

SortedHeaders == SortedUpTo[N]

\* Dominance::processCFG stores the OUT sets; LoopInfoBuilder::processCFG
\* follows, and does nothing in a graph without loop header.
StoreDominance ==
    /\ phase = "dominance"
    /\ todo = <<>>
    /\ dom' = outs
    /\ UNCHANGED <<edges, info>>
    /\ hdrs' = SortedHeaders'
    /\ phase' = IF Headers' = {} THEN "found" ELSE "loops"
    /\ todo' = AllBlocks
    /\ present' = Blocks
    /\ outs' = [b \in Blocks |-> {}]

-----------------------------------------------------------------------------
(* LoopInfoBuilder                                                         *)

\* Mutant of FirstBit: the last bit.
LastBit(S) == hdrs[Max({k \in DOMAIN hdrs : hdrs[k] \in S})]

\* BitSet::Iterator: the header of the first bit of a set.
FirstBit(S) == hdrs[Min({k \in DOMAIN hdrs : hdrs[k] \in S})]

\* Mutant of LoopSet: a header is not in its own loop.
LoopSetAround(b) == outs[b]

\* The headers whose loops contain b; a header is in its own loop.
LoopSet(b) == outs[b] \cup ({b} \cap Headers)

\* The headers of the loops that e leaves.
Left(e) == LoopSet(e[1]) \ LoopSet(e[2])

\* The end of LoopInfoBuilder::processCFG, with buildLoopExitList, which puts
\* every exit edge in the EXIT_LIST of LOOP_EXIT_EDGE.
StoreLoopInfo ==
    /\ phase = "loops"
    /\ todo = <<>>
    /\ enclosing' = [b \in Blocks |->
           IF outs[b] = {} THEN enclosing[b] ELSE FirstBit(outs[b])]
    /\ exitOf' = [e \in edges |->
           IF Left(e) = {} THEN exitOf[e] ELSE FirstBit(Left(e))]
    /\ phase' = "found"
    /\ UNCHANGED <<edges, dfa, dom, hdrs>>

\* No property is set yet.
LoopStart ==
    /\ phase = "dominance"
    /\ todo = AllBlocks
    /\ present = Blocks
    /\ outs = [b \in Blocks |-> Blocks]
    /\ dom = [b \in Blocks |-> {}]
    /\ hdrs = <<>>
    /\ enclosing = [b \in Blocks |-> NoBlock]
    /\ exitOf = [e \in edges |-> NoBlock]

LoopInit == edges \in Graphs /\ LoopStart

LoopNext == Process \/ StoreDominance \/ StoreLoopInfo

LoopSpec == LoopInit /\ [][LoopNext]_loopVars

-----------------------------------------------------------------------------
(* Reference definitions.                                                  *)

\* The sets of blocks that hold what can be reached without passing by a.
Avoiding(a) ==
    {S \in SUBSET (Blocks \ {a}) :
        /\ Entries \ {a} \subseteq S
        /\ \A e \in edges : e[1] \in S /\ e[2] # a => e[2] \in S}

\* The blocks that a dominates: b cannot be reached without passing by a.
Dominated(a) == LET A == Avoiding(a) IN {b \in Blocks : b = a \/ \E S \in A : b \notin S}

\* The natural loop of h: the blocks from which one of its back edges can be
\* reached without going through h, that is the blocks that are in every set
\* closed in that way.
Tails(h) == {e[1] : e \in {e \in BackEdges : e[2] = h}}
Closed(h) ==
    LET T == Tails(h)
    IN  {S \in SUBSET Blocks :
            /\ T \subseteq S
            /\ \A e \in edges : e[2] \in S /\ e[2] # h => e[1] \in S}
Loop(h) == LET C == Closed(h) IN {b \in Blocks : b = h \/ \A S \in C : b \in S}

\* The loops, with their headers.
Loops == {<<h, Loop(h)>> : h \in Headers}

\* The header of the smallest of the loops of L; none if there is no loop.
Innermost(L) ==
    IF L = {} THEN NoBlock
    ELSE (CHOOSE l \in L : \A m \in L : l[1] \in m[2])[1]

\* Dominance computes domination: a bit is set when every path from an entry
\* passes by the block, though the iteration starts from sets that are full.
DominanceCorrect ==
    phase = "found" => \A a \in Blocks : Dominated(a) = {b \in Blocks : a \in dom[b]}

\* ENCLOSING_LOOP_HEADER is the header of the smallest natural loop around the
\* block, the bits being sorted by a partial order in an insertion sort.
EnclosingCorrect ==
    phase = "found" =>
        LET L == Loops
        IN  \A b \in Blocks :
                enclosing[b] = Innermost({l \in L : l[1] # b /\ b \in l[2]})

\* LOOP_EXIT_EDGE marks the edges that leave a natural loop and no other, with
\* the header of the smallest loop they leave.
ExitEdgesCorrect ==
    phase = "found" =>
        LET L == Loops
        IN  \A e \in edges :
                exitOf[e] = Innermost({l \in L : e[1] \in l[2] /\ e[2] \notin l[2]})
=============================================================================
