----------------------------- MODULE HalfAbsInt -----------------------------
(***************************************************************************)
(* HalfAbsInt, the abstract interpreter of OTAWA, with its three fixpoint   *)
(* drivers, over the loops that Dominance and LoopInfoBuilder have found.   *)
(*                                                                         *)
(* A step is one turn of the loop of solve(): it pops a block, computes its *)
(* IN state from the marks of its in-edges (inputProcessing) and propagates *)
(* its OUT state (outputProcessing).                                        *)
(*                                                                         *)
(* The problem is a collecting one: a state is a set of pairs of a value    *)
(* and of the loops entered and not left (enterContext, leaveContext).  Its *)
(* lub is the union and its update the image, so that the interpretation    *)
(* must find exactly what the paths of the program produce.                 *)
(***************************************************************************)
EXTENDS LoopInfo

CONSTANTS
    CfgOf,      \* CfgOf[b]: the entry of the CFG of b
    Exits,      \* the exit blocks of the CFGs
    Programs,   \* the graphs with their CALL edges <<block, called entry>>
    Effect,     \* Effect[b][v]: what block b makes of the value v
    FixPoints   \* the drivers used: "default", "unrolling", "widening"

ASSUME ProgramAssumption == Graphs = {p[1] : p \in Programs}

MainEntry == CHOOSE b \in Entries : \A c \in Entries : b <= c

VARIABLES
    calls,      \* the CALL edges
    driver,     \* the class FixPoint of the interpretation
    workList,   \* a stack
    callStack,  \* the CALL edges entered, with the CFG to come back to
    cur_cfg,    \* the CFG at work
    mainEntry,  \* the entry of the program is still to process
    marks,      \* STATE of the edges and of the entries that have one
    firstIter,  \* FIRST_ITER
    fixed,      \* FIXED
    fpState,    \* FIXPOINT_STATE
    results,    \* results[b]: the IN states the listener collected
    fault       \* a failed assertion

haiVars == <<driver, workList, callStack, cur_cfg, mainEntry, marks,
             firstIter, fixed, fpState, results, fault>>
vars == <<loopVars, calls, haiVars>>

-----------------------------------------------------------------------------
(* The problem.                                                            *)

Entry == {<<0, <<>>>>}

Update(in, b) == {<<Effect[b][a[1]], a[2]>> : a \in in}

EnterContext(d, h) == {<<a[1], Append(a[2], h)>> : a \in d}

LeaveContext(d) == {<<a[1], Front(a[2])>> : a \in d}

-----------------------------------------------------------------------------
(* Marks.                                                                  *)

InEdges(b) == {e \in edges : e[2] = b}
OutEdges(b) == {e \in edges : e[1] = b}
ExitEdges(h) == {e \in edges : exitOf[e] = h}
CallEdges(b) == {c \in calls : c[1] = b}

\* The mark of an entry; no edge goes from an entry to itself.
AtEntry(f) == <<f, f>>

\* markEdge joins with the mark that is there; that of WideningFixPoint
\* replaces it.
Mark(ms, E, d) ==
    [e \in DOMAIN ms \cup E |->
        IF e \notin E THEN ms[e]
        ELSE IF e \in DOMAIN ms /\ driver # "widening" THEN ms[e] \cup d ELSE d]

Unmark(ms, E) == [e \in DOMAIN ms \ E |-> ms[e]]

Union(E) == UNION {marks[e] : e \in E}

\* Mutant of isEdgeDone: the exit edges do not wait.
isEdgeMarked(e, ms, fx, fi) ==
    e \in DOMAIN ms \/ (dominates(e[2], e[1]) /\ fi[e[2]])

\* isEdgeDone: an exit edge waits for the fixpoint of the loop it leaves, and
\* the back edges do not count in the first iteration.
isEdgeDone(e, ms, fx, fi) ==
    \/ /\ e \in DOMAIN ms
       /\ exitOf[e] = NoBlock \/ fx[exitOf[e]]
    \/ dominates(e[2], e[1]) /\ fi[e[2]]

\* The blocks of B that tryAddToWorkList adds.
Ready(B, ms, fx, fi) ==
    {b \in B : \A e \in InEdges(b) : isEdgeDone(e, ms, fx, fi)}

-----------------------------------------------------------------------------
(* inputProcessing                                                         *)

cur == Last(workList)

\* detectCalls: the calls of the current block that are still to do.
ToCall == CallEdges(cur) \ DOMAIN marks
\* The last visit of a block with calls.
CallsDone == CallEdges(cur) # {} /\ ToCall = {}

\* The current block is processed as a loop header.
AtHeader ==
    ~ mainEntry /\ cur \notin Entries /\ ~ CallsDone /\ cur \in Headers

BackIn(h) == {e \in InEdges(h) : dominates(h, e[1])}
EntryIn(h) == InEdges(h) \ BackIn(h)

NewState == [header |-> {}, first |-> {}, num |-> 0]
State(h) == IF firstIter[h] THEN NewState ELSE fpState[h]

\* The in-edges whose marks fixPoint() reads: with the unrolling and the
\* widening drivers only the first call reads the entry edges.
FixPointReads(h) ==
    IF firstIter[h] THEN EntryIn(h)
    ELSE IF driver = "default" THEN InEdges(h) ELSE BackIn(h)

entryEdgeUnion(h) == EnterContext(Union(EntryIn(h)), h)
backEdgeUnion(h) == IF firstIter[h] THEN {} ELSE Union(BackIn(h))

\* fixPoint() of DefaultFixPoint, FirstUnrollingFixPoint, WideningFixPoint:
\* the new state of the header.
HeaderState(h) ==
    LET st == State(h)
    IN  IF st.num = 0 THEN entryEdgeUnion(h)
        ELSE CASE driver = "default" -> entryEdgeUnion(h) \cup backEdgeUnion(h)
               [] driver = "unrolling" -> backEdgeUnion(h) \cup st.first
               [] driver = "widening" -> st.header \cup backEdgeUnion(h)

\* Mutant of FixpointReached: the state did not grow too much.
FixpointNear(h) ==
    /\ State(h).num >= (IF driver = "unrolling" THEN 2 ELSE 1)
    /\ Cardinality(HeaderState(h)) <= Cardinality(State(h).header) + 1

\* FirstUnrollingFixPoint does not test the second iteration.
FixpointReached(h) ==
    /\ State(h).num >= (IF driver = "unrolling" THEN 2 ELSE 1)
    /\ HeaderState(h) = State(h).header

fixpoint == AtHeader /\ FixpointReached(cur)

In == CASE mainEntry -> Entry
        [] ~ mainEntry /\ cur \in Entries -> marks[AtEntry(cur)]
        [] CallsDone -> Union(CallEdges(cur))
        [] AtHeader -> HeaderState(cur)
        [] OTHER -> Union(InEdges(cur))

\* The marks read, asserted or dereferenced.
Needed == CASE mainEntry -> {}
            [] ~ mainEntry /\ cur \in Entries -> {AtEntry(cur)}
            [] CallsDone -> CallEdges(cur)
            [] AtHeader -> FixPointReads(cur)
            [] OTHER -> InEdges(cur)

\* Mutant of Consumed: a fixpoint removes the marks of the back edges only.
ConsumedBack ==
    CASE mainEntry -> {}
      [] ~ mainEntry /\ cur \in Entries -> {AtEntry(cur)}
      [] CallsDone -> CallEdges(cur) \cup InEdges(cur)
      [] AtHeader -> BackIn(cur)
      [] OTHER -> IF ToCall = {} THEN InEdges(cur) ELSE {}

\* The marks removed.
Consumed == CASE mainEntry -> {}
              [] ~ mainEntry /\ cur \in Entries -> {AtEntry(cur)}
              [] CallsDone -> CallEdges(cur) \cup InEdges(cur)
              [] AtHeader -> IF fixpoint THEN InEdges(cur) ELSE BackIn(cur)
              [] OTHER -> IF ToCall = {} THEN InEdges(cur) ELSE {}

inputProcessing ==
    /\ mainEntry' = FALSE
    /\ firstIter' = IF AtHeader THEN [firstIter EXCEPT ![cur] = fixpoint] ELSE firstIter
    /\ fixed' = IF AtHeader THEN [fixed EXCEPT ![cur] = fixpoint] ELSE fixed
    /\ fpState' =
         IF ~ AtHeader THEN fpState
         ELSE LET st == State(cur)
              IN  [fpState EXCEPT ![cur] =
                     IF fixpoint THEN NewState
                     ELSE [header |-> HeaderState(cur), num |-> st.num + 1,
                           first |-> IF driver = "unrolling" /\ st.num = 1
                                     THEN HeaderState(cur) ELSE st.first]]
    /\ UNCHANGED <<loopVars, calls, driver, fault>>

\* A mark to be read, that of a called CFG or of an exit edge too, is null.
NullMark ==
    \/ ~ Needed \subseteq DOMAIN marks
    \/ fixpoint /\ ~ ExitEdges(cur) \subseteq DOMAIN marks \ Consumed

\* ASSERT(edgeState), or the dereference of the null mark.
AssertFails ==
    /\ fault' = "edgeState"
    /\ UNCHANGED <<loopVars, calls, driver, workList, callStack, cur_cfg, mainEntry,
                   marks, firstIter, fixed, fpState, results>>

-----------------------------------------------------------------------------
(* outputProcessing                                                        *)

Popped == Unmark(marks, Consumed)

Push(q) == workList' = Front(workList) \o q

\* The fixpoint of a loop: the edges of its EXIT_LIST lead out of it and leave
\* its context.
LeaveLoop ==
    /\ inputProcessing
    /\ fixpoint
    /\ \E q \in Orders(Ready({e[2] : e \in ExitEdges(cur)}, Popped, fixed', firstIter')) :
           Push(q)
    /\ marks' = [e \in DOMAIN Popped |->
                    IF e \in ExitEdges(cur) THEN LeaveContext(Popped[e])
                                            ELSE Popped[e]]
    /\ UNCHANGED <<callStack, cur_cfg, results>>

\* The exit of a called CFG: back to the block of the call.
ReturnFromCall ==
    /\ inputProcessing
    /\ ~ fixpoint
    /\ cur \in Exits /\ callStack # <<>>
    /\ LET top == Last(callStack)
       IN  /\ callStack' = Front(callStack)
           /\ cur_cfg' = top.cfg
           /\ marks' = Mark(Popped, {top.edge}, Update(In, cur))
           /\ Push(<<top.edge[1]>>)
    /\ UNCHANGED results

\* A block with calls to do: the first visit marks the entries of all the
\* called CFGs, every visit enters one.
EnterCall ==
    /\ inputProcessing
    /\ ~ fixpoint
    /\ ~ (cur \in Exits /\ callStack # <<>>)
    /\ \E c \in ToCall :
          /\ marks' = IF ToCall = CallEdges(cur)
                      THEN Mark(Popped, {AtEntry(d[2]) : d \in ToCall}, Update(In, cur))
                      ELSE Popped
          /\ callStack' = Append(callStack, [edge |-> c, cfg |-> cur_cfg])
          /\ cur_cfg' = c[2]
          /\ Push(<<c[2]>>)
    /\ UNCHANGED results

\* addSuccessors.
addSuccessors(out) ==
    /\ marks' = Mark(Popped, OutEdges(cur), out)
    /\ \E q \in Orders(Ready(Targets(cur), marks', fixed', firstIter')) : Push(q)
    /\ UNCHANGED <<callStack, cur_cfg>>

\* All the calls of the block are done: no update, no listener.
AfterCalls ==
    /\ inputProcessing
    /\ ~ fixpoint
    /\ ~ (cur \in Exits /\ callStack # <<>>)
    /\ CallsDone
    /\ addSuccessors(In)
    /\ UNCHANGED results

\* The other blocks; DefaultListener::blockInterpreted joins the IN state.
Interpret ==
    /\ inputProcessing
    /\ ~ fixpoint
    /\ ~ (cur \in Exits /\ callStack # <<>>)
    /\ CallEdges(cur) = {}
    /\ addSuccessors(Update(In, cur))
    /\ results' = [results EXCEPT ![cur] = @ \cup In]

\* solve(), with any of the drivers.
Solve ==
    /\ phase = "found"
    /\ phase' = "solving"
    /\ workList' = <<MainEntry>>
    /\ callStack' = <<>>
    /\ cur_cfg' = MainEntry
    /\ mainEntry' = TRUE
    /\ driver' \in FixPoints
    /\ UNCHANGED <<edges, todo, present, outs, dom, hdrs, info, calls, marks,
                   firstIter, fixed, fpState, results, fault>>

Return ==
    /\ phase = "solving" /\ fault = "none" /\ workList = <<>>
    /\ phase' = "solved"
    /\ UNCHANGED <<edges, todo, present, outs, dom, hdrs, info, calls, haiVars>>

Init ==
    /\ \E p \in Programs : edges = p[1] /\ calls = p[2]
    /\ LoopStart
    /\ driver = "none"
    /\ workList = <<>>
    /\ callStack = <<>>
    /\ cur_cfg = NoBlock
    /\ mainEntry = FALSE
    /\ marks = [e \in {} |-> {}]
    /\ firstIter = [b \in Blocks |-> TRUE]
    /\ fixed = [b \in Blocks |-> FALSE]
    /\ fpState = [b \in Blocks |-> NewState]
    /\ results = [b \in Blocks |-> {}]
    /\ fault = "none"

\* One turn of the loop of solve().
Turn ==
    /\ phase = "solving" /\ fault = "none" /\ workList # <<>>
    /\ IF NullMark THEN AssertFails
       ELSE LeaveLoop \/ ReturnFromCall \/ EnterCall \/ AfterCalls \/ Interpret

FindLoops == LoopNext /\ UNCHANGED <<calls, haiVars>>

Stopped ==
    /\ phase = "solved" \/ fault # "none"
    /\ UNCHANGED vars

Next == FindLoops \/ Solve \/ Turn \/ Return \/ Stopped

Spec == Init /\ [][Next]_vars /\ WF_vars(FindLoops \/ Solve \/ Turn \/ Return)

-----------------------------------------------------------------------------
(* What the interpretation must find: the configurations of the program,    *)
(* a block, the value at its entry and the blocks of the calls in progress. *)

\* The loops around b, outermost first, b included if it is a header.
RECURSIVE Nest(_)
Nest(b) ==
    LET outer == IF enclosing[b] = NoBlock THEN <<>> ELSE Nest(enclosing[b])
    IN  IF b \in Headers THEN Append(outer, b) ELSE outer

Context(b, stack) == FlattenSeq([k \in DOMAIN stack |-> Nest(stack[k])]) \o Nest(b)

Following(b, v, stack) == {<<t, v, stack>> : t \in Targets(b)}

\* The configurations that follow: a call, a return, or an edge.
After(x) ==
    LET b == x[1]
        v == Effect[b][x[2]]
        stack == x[3]
    IN  IF b \in Exits
        THEN IF stack = <<>> THEN {} ELSE Following(Last(stack), v, Front(stack))
        ELSE IF CallEdges(b) = {} THEN Following(b, v, stack)
        ELSE {<<c[2], v, Append(stack, b)>> : c \in CallEdges(b)}

RECURSIVE Closure(_)
Closure(X) ==
    LET Y == X \cup UNION {After(x) : x \in X}
    IN  IF X = Y THEN X ELSE Closure(Y)

Reached == Closure({<<MainEntry, 0, <<>>>>})

\* The blocks the listener hears of: neither the blocks with calls nor the
\* exits of called CFGs.
Heard == {b \in Blocks : CallEdges(b) = {} /\ (b \in Exits => CfgOf[b] = MainEntry)}

\* When solve() ends, the state collected for a block holds exactly the values
\* the paths lead to it with, in the context of the loops around it: no path
\* is lost by the order of the worklist, the removal of marks or the contexts.
ResultsExact ==
    phase = "solved" =>
        LET R == Reached
        IN  \A b \in Heard :
               results[b] = {<<x[2], Context(b, x[3])>> : x \in {y \in R : y[1] = b}}

\* No ASSERT(edgeState) fails, no null mark is read.
NoNullMark == fault = "none"

\* The block popped from the worklist is in the CFG at work, whose number
\* indexes the results: calls nest with the stack of blocks.
CfgMatches ==
    phase = "solving" /\ workList # <<>> => CfgOf[cur] = cur_cfg

\* When solve() ends no mark is left for the next analysis of the same graph.
MarksRemoved == phase = "solved" => DOMAIN marks \cap edges = {} /\ callStack = <<>>

\* solve() ends, whatever the loops and the order of the edges.
Solves == <>(phase = "solved")
=============================================================================
