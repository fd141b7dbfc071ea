-------------------------------- MODULE Ipet --------------------------------
(***************************************************************************)
(* Implicit path enumeration: the linear system that bounds the execution   *)
(* time, and the executions of the program that must be solutions of it.    *)
(*                                                                         *)
(* The graphs are those the collector left or those of LoopUnroller.  The   *)
(* program runs on the graphs as they were; its path is followed in the     *)
(* graphs the system is made for, with the count of every block, edge and   *)
(* call that the variables of the system stand for.                         *)
(***************************************************************************)
EXTENDS LoopUnroller

CONSTANTS
    MaxIter,        \* bound on the iterations of a loop, for each entry
    Slack           \* by how much flow facts may be loose

VARIABLES
    vdom,       \* the pairs <<a, v>> where a dominates v, in the graphs of the system
    at,         \* the block that runs
    callers,    \* the blocks of the calls in progress
    counts,     \* how many times each variable counted
    elapsed,    \* the time passed
    iter,       \* iter[h]: back edges of h since its loop was entered
    seen        \* seen[h]: least, greatest and total numbers of iterations

runVars == <<vdom, at, callers, counts, elapsed, iter, seen>>
vars == <<program, unrollVars, runVars>>

MainEntry == CHOOSE b \in Entries : \A c \in Entries : b <= c

-----------------------------------------------------------------------------
(* The graphs of the system.                                               *)

VBlocks == DOMAIN copies \cup {End(b) : b \in Ends}

Into(v) == {e \in vedges : e[2] = v}
OutOf(v) == {e \in vedges : e[1] = v}
CallsOf(v) == {c \in vcalls : c[1] = v}
CallVar(c) == <<c[1], c[2], 0>>

\* The graph of the collector.
Same(b) == IF b \in Ends THEN End(b) ELSE b

KeepGraph ==
    /\ phase = "found" /\ ~ unroll
    /\ phase' = "unrolling"
    /\ copies' = AllBlocks
    /\ vedges' = {<<Same(e[1]), Same(e[2])>> : e \in edges}
    /\ vcalls' = calls
    /\ toUnroll' = <<>>
    /\ UNCHANGED <<edges, dfa, dom, hdrs, info, calls, unroll, map, unrolledFrom, frames, fault, runVars>>

\* What can be reached from the entries without passing by a.
ReachedAvoiding(a) ==
    LET r[k \in 0..Cardinality(VBlocks)] ==
          IF k = 0 THEN {End(f) : f \in Entries} \ {a}
          ELSE LET p == r[k - 1]
               IN  p \cup {e[2] : e \in {e \in vedges : e[1] \in p /\ e[2] # a}}
    IN  r[Cardinality(VBlocks)]

\* Dominance, on the new graphs (LoopInfo has the computation); the program is
\* then ready to run.
FindDominance ==
    /\ Unrolled
    /\ phase' = "running"
    /\ vdom' = UNION {{<<a, v>> : v \in VBlocks \ ReachedAvoiding(a)} : a \in VBlocks}
    /\ at' = End(MainEntry)
    /\ counts' = [x \in {<<v>> : v \in VBlocks} \cup vedges \cup {CallVar(c) : c \in vcalls} |->
                    IF x = <<End(MainEntry)>> THEN 1 ELSE 0]
    /\ UNCHANGED <<edges, dfa, dom, hdrs, info, calls, unroll, unrollVars, callers, elapsed, iter, seen>>

VBack(v) == {e \in Into(v) : <<v, e[1]>> \in vdom}
VEntry(v) == Into(v) \ VBack(v)
VHeaders == {v \in VBlocks : VBack(v) # {}}

-----------------------------------------------------------------------------
(* The system.  A constraint says that the sum of the variables of `left'   *)
(* is equal to, not more or not less than const plus coef times the sum of  *)
(* the variables of `right'.  The variable of block v is <<v>>, that of an  *)
(* edge is the edge, that of a call is <<block, called entry, 0>>.          *)

Constraint(op, left, const, coef, right) ==
    [op |-> op, left |-> left, const |-> const, coef |-> coef, right |-> right]

\* BasicConstraintsBuilder::processBB, input and output constraints.
StructuralConstraints ==
    {Constraint("EQ", {<<v>>}, 0, 1, Into(v)) : v \in {v \in VBlocks : Into(v) # {}}} \cup
    {Constraint("EQ", {<<v>>}, 0, 1, OutOf(v)) : v \in {v \in VBlocks : OutOf(v) # {}}}

\* The variable added to the entry constraint of a called CFG: that of the
\* block if it has one call.
Calling(c) == IF Cardinality(CallsOf(c[1])) = 1 THEN <<c[1]>> ELSE CallVar(c)

MultipleCalls ==
    {Constraint("EQ", {<<v>>}, 0, 1, {CallVar(c) : c \in CallsOf(v)}) :
        v \in {v \in VBlocks : Cardinality(CallsOf(v)) > 1}}

\* Mutant of CallConstraints: one constraint for each call.
CallConstraintEach ==
    {Constraint("EQ", {<<End(c[2])>>}, 0, 1, {Calling(c)}) : c \in vcalls}

\* addEntryConstraint: one constraint for each called CFG.
CallConstraints ==
    {Constraint("EQ", {<<End(f)>>}, 0, 1, {Calling(c) : c \in {c \in vcalls : c[2] = f}}) :
        f \in {c[2] : c \in vcalls}}

\* BasicConstraintsBuilder::processWorkSpace.
EntryConstraint == {Constraint("EQ", {<<End(MainEntry)>>}, 1, 0, {})}

\* How many copies of the loop come before v: LoopUnroller runs once.
Depth(v) == IF v \in DOMAIN unrolledFrom THEN 1 ELSE 0

\* The constraints on loop header v when n is the greatest (op is "LE") or the
\* least ("GE") number of iterations.
BoundConstraints(v, op, n) ==
    LET left == n - Depth(v)
    IN  (IF left < 0 THEN {Constraint("EQ", Into(v), 0, 0, {})} ELSE {}) \cup
        {Constraint(op, VBack(v), 0, IF left < 0 THEN 0 ELSE left, VEntry(v))}

\* The constraints when n is the total number of iterations.
TotalConstraints(v, n) ==
    LET before == IF v \in DOMAIN unrolledFrom THEN {unrolledFrom[v]} ELSE {}
        entries == {e \in UNION {Into(u) : u \in before} : e \in vdom}
    IN  {Constraint("LE", VBack(v) \cup entries, n, 0, {}),
         Constraint("LE", VBack(v), 0, n, VEntry(v))}

\* FlowFactConstraintBuilder::processBB, with the facts f of the header.
FlowFactConstraints(v, f) ==
    IF f.max < 0 /\ f.total < 0 THEN {}
    ELSE (IF f.max < 0 THEN {} ELSE BoundConstraints(v, "LE", f.max)) \cup
         (IF f.min < 0 THEN {} ELSE BoundConstraints(v, "GE", f.min)) \cup
         (IF f.total < 0 THEN {} ELSE TotalConstraints(v, f.total))

\* The system, with the facts that hold of the headers of the program.
System(facts) ==
    StructuralConstraints \cup MultipleCalls \cup CallConstraints \cup EntryConstraint \cup
    UNION {FlowFactConstraints(v, facts[Origin(v)]) : v \in VHeaders}

Sum(S) == FoldSet(LAMBDA x, n : n + counts[x], 0, S)

Satisfied(c) ==
    LET right == c.const + c.coef * Sum(c.right)
    IN  CASE c.op = "EQ" -> Sum(c.left) = right
          [] c.op = "LE" -> Sum(c.left) <= right
          [] c.op = "GE" -> Sum(c.left) >= right

\* TIME of a block, or of an edge: any positive number will do.
Time(v) == Origin(v)

\* Mutant of ObjectFunction: the edges out of the blocks.
ObjectFunctionOut ==
    FoldSet(LAMBDA e, n : n + (IF Origin(e[1]) \in Ends THEN 0 ELSE Time(e[2]) * counts[e]),
            0, vedges)

\* BasicObjectFunctionBuilder::processBB: the time of a block on each of the
\* edges that lead to it.
ObjectFunction ==
    FoldSet(LAMBDA e, n : n + (IF Origin(e[2]) \in Ends THEN 0 ELSE Time(e[2]) * counts[e]),
            0, vedges)

-----------------------------------------------------------------------------
(* The program runs.                                                       *)

\* The loops around b, that of b included.
LoopsOf(b) ==
    LET a[k \in 0..Len(hdrs)] ==
          IF k = 0 THEN {b}
          ELSE LET p == a[k - 1] IN p \cup {enclosing[x] : x \in p \ {NoBlock}}
    IN  a[Len(hdrs)] \cap Headers

Running == phase = "running" /\ fault = "none"

Count(x) == counts' = [y \in DOMAIN counts |-> IF y \in x THEN counts[y] + 1 ELSE counts[y]]

\* The numbers of iterations after the edge e.
Iterate(e) ==
    LET back == e \in BackEdges
        left == LoopsOf(e[1]) \ LoopsOf(e[2])
        now == [h \in Blocks |-> IF h # e[2] THEN iter[h] ELSE IF back THEN iter[h] + 1 ELSE 0]
    IN  /\ back => iter[e[2]] < MaxIter
        /\ iter' = [h \in Blocks |-> IF h \in left THEN 0 ELSE now[h]]
        /\ seen' = [h \in Blocks |->
             [max |-> Max({seen[h].max, now[h]}),
              min |-> IF h \in left THEN Min({seen[h].min, now[h]}) ELSE seen[h].min,
              total |-> IF back /\ h = e[2] THEN seen[h].total + 1 ELSE seen[h].total]]

\* An edge of the program, from a block without call or after its call.
Follow(b, v) ==
    /\ \E e \in vedges :
          /\ e[1] = v /\ <<b, Origin(e[2])>> \in edges
          /\ Iterate(<<b, Origin(e[2])>>)
          /\ at' = e[2]
          /\ Count({<<e[2]>>, e})
          /\ elapsed' = elapsed + (IF Origin(e[2]) \in Ends THEN 0 ELSE Time(e[2]))
    /\ UNCHANGED <<program, unrollVars, vdom>>

Take ==
    /\ Running
    /\ Origin(at) \notin Exits /\ CallsOf(at) = {}
    /\ Follow(Origin(at), at)
    /\ UNCHANGED callers

Call ==
    /\ Running
    /\ \E c \in CallsOf(at) :
          /\ callers' = Append(callers, at)
          /\ at' = End(c[2])
          /\ Count({<<End(c[2])>>, CallVar(c)})
    /\ UNCHANGED <<program, unrollVars, vdom, elapsed, iter, seen>>

ReturnFrom ==
    /\ Running
    /\ Origin(at) \in Exits /\ callers # <<>>
    /\ Follow(Origin(Last(callers)), Last(callers))
    /\ callers' = Front(callers)

Ended == phase = "running" /\ Origin(at) \in Exits /\ callers = <<>>

\* The loop at work has reached MaxIter.
Cut ==
    /\ Running
    /\ \E e \in BackEdges :
          /\ e[1] \in {Origin(v) : v \in {at} \cup ToSet(callers)}
          /\ iter[e[2]] = MaxIter

Stopped ==
    /\ Ended \/ Cut \/ fault # "none"
    /\ UNCHANGED vars

Init ==
    /\ UnrollInit
    /\ vdom = {}
    /\ at = NoBlock
    /\ callers = <<>>
    /\ counts = [x \in {} |-> 0]
    /\ elapsed = 0
    /\ iter = [b \in Blocks |-> 0]
    /\ seen = [b \in Blocks |-> [max |-> 0, min |-> MaxIter, total |-> 0]]

BuildGraphs == UnrollNext /\ UNCHANGED runVars

Next == BuildGraphs \/ KeepGraph \/ FindDominance \/ Take \/ Call \/ ReturnFrom \/ Stopped

Spec == Init /\ [][Next]_vars

-----------------------------------------------------------------------------

\* Flow facts that hold of the execution: those it attains, or looser by d, of
\* the kinds in K; -1 is unknown.
Facts(K, d) ==
    LET known(k, h, n) == IF k \in K /\ h \in Headers THEN n ELSE -1
    IN  [h \in Blocks |->
            [max |-> known("max", h, seen[h].max + d),
             min |-> known("min", h, Max({0, seen[h].min - d})),
             total |-> known("total", h, seen[h].total + d)]]

Admits(K) ==
    Ended => \A d \in 0..Slack : \A c \in System(Facts(K, d)) : Satisfied(c)

\* The counts of every execution satisfy the system made with flow facts that
\* hold of it, so that the solver, that maximises, finds at least its time: with
\* greatest numbers of iterations whether loops are unrolled or not, with the
\* other facts when they are not.
SystemAdmits ==
    /\ Admits({"max"})
    /\ ~ unroll => Admits({"max", "min", "total"})

\* The same with the least numbers of iterations, in unrolled loops too.
UnrolledAdmits == Admits({"max", "min"})

\* The objective function is the time of the execution.
ObjectiveExact == Ended => ObjectFunction = elapsed

\* Every path of the program is a path of the new graphs, and they have no
\* other edge: from the copy of a block, edges lead to copies of its successors
\* and of nothing else.
PathsKept ==
    phase = "running" =>
        \A v \in {at} \cup ToSet(callers) :
            /\ {Origin(e[2]) : e \in OutOf(v)} = Targets(Origin(v))
            /\ {c[2] : c \in CallsOf(v)} = {c[2] : c \in {c \in calls : c[1] = Origin(v)}}

\* The copy of a header that was made first runs in the first iteration of the
\* loop only, and the second, whose bound is lowered by one, in the others.
FirstIterationApart ==
    phase = "running" =>
        /\ at \in DOMAIN unrolledFrom => iter[Origin(at)] > 0
        /\ at \in {unrolledFrom[v] : v \in DOMAIN unrolledFrom} => iter[Origin(at)] = 0
=============================================================================
