----------------------------- MODULE Virtualizer -----------------------------
(***************************************************************************)
(* Virtualizer, which inlines the called functions in the CFG of the task,  *)
(* on the graphs of CFGBuilder; then the program is executed, to compare    *)
(* its paths with those of the virtual CFG.                                 *)
(*                                                                         *)
(* A virtual block is a triple of the CFG it is put in, of the calls inlined *)
(* around it (pairs of a block and of the called CFG) and of its block.     *)
(***************************************************************************)
EXTENDS CFGBuilder

CONSTANT MaxCalls   \* BOUND: nested calls of the execution

VARIABLES
    stack,      \* the calls of virtualize() in progress, as records:
                \* cfg, root (the virtual CFG), ctx, exit, todo (blocks left),
                \* src (block at work), called (CFGs to inline), after (called_exit)
    vedges,     \* the edges made: <<source, target, kind>>
    cfgMap,     \* the CFGs that have a virtual CFG
    loops,      \* the edges marked RECURSIVE_LOOP
    returnBlock,\* returnBlock[src]: VIRTUAL_RETURN_BLOCK of the blocks that have one
    fault,      \* a failed assertion
    pc,         \* the instruction executed, None at the end
    backTo,     \* the return addresses of the execution
    covers      \* where the execution may be in the virtual CFG

inlining == <<stack, vedges, cfgMap, loops, returnBlock, fault>>
execution == <<pc, backTo, covers>>
vars == <<builder, inlining, execution>>

NoBlock == <<None, <<>>, None>>

\* The property f of x is set.
Put(f, x, value) == [y \in DOMAIN f \cup {x} |-> IF y = x THEN value ELSE f[y]]

-----------------------------------------------------------------------------
(* virtualize()                                                            *)

Frame == Last(stack)
VBlock(f, b) == <<f.root, f.ctx, b>>

\* A call of virtualize(): the blocks are translated, the entry is linked.
Push(frames, cfg, root, ctx, entry, exit) ==
    /\ stack' = Append(frames,
                  [cfg |-> cfg, root |-> root, ctx |-> ctx, exit |-> exit,
                   todo |-> ScanBlocks(cfg), src |-> NoBlock,
                   called |-> <<>>, after |-> NoBlock])
    /\ vedges' = vedges \cup {<<entry, <<root, ctx, cfg>>, "VIRTUAL_CALL">>}

\* virtualizeCFG()
PushCFG(cfg) ==
    /\ cfgMap' = cfgMap \cup {cfg}
    /\ Push(stack, cfg, cfg, <<>>, <<cfg, <<>>, None>>, <<cfg, <<>>, Exit>>)

\* processWorkSpace()
Virtualize ==
    /\ phase = "built"
    /\ phase' = "inline"
    /\ PushCFG(prog.start)
    /\ UNCHANGED <<prog, seg, item, BB, isEntry, bb, follow, top, outs, returns, entries,
                   cfgs, loops, returnBlock, fault, execution>>

AtBlock ==
    /\ phase = "inline" /\ fault = "none"
    /\ stack # <<>>
    /\ Frame.called = <<>> /\ Frame.todo # {}

\* The blocks are taken in their order in the program.
BlockHere == Min(Frame.todo)
EdgesHere == ScanEdges(Frame.cfg, BlockHere)

\* The CFGs called by the block that have a virtual CFG of their own.
Apart ==
    {e.target : e \in {e \in ToSet(EdgesHere) : e.kind = "CALL"}} \cap cfgs \cap prog.apart

\* A CFG marked DONT_INLINE is virtualized before the edges to it are made.
VirtualizeApart ==
    /\ AtBlock
    /\ prog.inlining
    /\ \E f \in Apart \ cfgMap : PushCFG(f)
    /\ UNCHANGED <<builder, loops, returnBlock, fault, execution>>

\* An edge to the entry of a virtual CFG.
CalledApart(e) ==
    e.kind = "CALL" /\ (~ prog.inlining \/ e.target \in cfgs \cap prog.apart)

\* called_cfgs
Inlined ==
    LET here == EdgesHere
        inlined(e) == prog.inlining /\ e.kind = "CALL" /\ e.target \in cfgs \ prog.apart
        upTo[k \in 0..Len(here)] ==
            IF k = 0 THEN <<>>
            ELSE IF inlined(here[k]) THEN Append(upTo[k - 1], here[k].target) ELSE upTo[k - 1]
    IN  upTo[Len(here)]

\* Mutant of After: the called function returns where its caller does.
AfterExit == Frame.exit

\* called_exit: the last edge to the exit or in sequence.
After ==
    LET here == EdgesHere
        set == {k \in DOMAIN here : here[k].target = Exit \/ here[k].kind = "NOT_TAKEN"}
        last == here[Max(set)]
    IN  IF set = {} THEN NoBlock
        ELSE IF last.target = Exit THEN Frame.exit ELSE VBlock(Frame, last.target)

\* The edge made for e, if any.
Translated(e, src) ==
    CASE CalledApart(e) -> {<<src, <<e.target, <<>>, None>>, "CALL">>}
      [] e.kind = "CALL" /\ ~ CalledApart(e) -> {}
      [] e.kind # "CALL" /\ e.target = Exit ->
           IF Inlined = <<>> THEN {<<src, Frame.exit, "VIRTUAL_RETURN">>} ELSE {}
      [] OTHER ->
           IF e.kind = "NOT_TAKEN" /\ Inlined # <<>> THEN {}
           ELSE {<<src, VBlock(Frame, e.target), e.kind>>}

\* The edges of a block; those in sequence wait for the calls to inline.
TranslateBlock ==
    /\ AtBlock
    /\ prog.inlining => Apart \subseteq cfgMap
    /\ LET src == VBlock(Frame, BlockHere)
       IN  /\ vedges' = vedges \cup UNION {Translated(e, src) : e \in ToSet(EdgesHere)}
           /\ stack' = [stack EXCEPT ![Len(stack)] =
                           [Frame EXCEPT !.src = src, !.called = Inlined, !.after = After,
                                         !.todo = Frame.todo \ {BlockHere}]]
    /\ fault' = IF \E e \in ToSet(EdgesHere) : CalledApart(e) /\ e.target \notin cfgMap
                THEN "vcalled" ELSE fault
    /\ UNCHANGED <<builder, cfgMap, loops, returnBlock, execution>>

\* Mutant of InProgress: only the function that makes the call.
InProgressHere(f) == {Len(stack)} \cap {k \in DOMAIN stack : stack[k].cfg = f}

\* The calls of virtualize() in progress for a function.
InProgress(f) == {k \in DOMAIN stack : stack[k].cfg = f}

\* One of the calls of the block: a loop if the function is being inlined.
InlineCall ==
    /\ phase = "inline" /\ fault = "none"
    /\ stack # <<>>
    /\ Frame.called # <<>>
    /\ LET f == Head(Frame.called)
           frames == [stack EXCEPT ![Len(stack)].called = Tail(@)]
       IN  \/ /\ InProgress(f) # {}
              /\ LET g == stack[Max(InProgress(f))]
                     e == <<Frame.src, VBlock(g, f), "VIRTUAL_CALL">>
                 IN  vedges' = vedges \cup {e} /\ loops' = loops \cup {e}
              /\ stack' = frames
              /\ returnBlock' = Put(returnBlock, Frame.src, Frame.after)
              /\ UNCHANGED fault
           \/ /\ InProgress(f) = {} /\ Frame.after # NoBlock
              /\ Push(frames, f, Frame.root, Append(Frame.ctx, <<Frame.src[3], f>>),
                      Frame.src, Frame.after)
              /\ returnBlock' = Put(returnBlock, Frame.src, Frame.after)
              /\ UNCHANGED <<loops, fault>>
           \/ /\ InProgress(f) = {} /\ Frame.after = NoBlock
              /\ fault' = "called_exit"
              /\ UNCHANGED <<stack, vedges, loops, returnBlock>>
    /\ UNCHANGED <<builder, cfgMap, execution>>

EndInline ==
    /\ phase = "inline" /\ fault = "none"
    /\ stack # <<>>
    /\ Frame.called = <<>> /\ Frame.todo = {}
    /\ stack' = Front(stack)
    /\ UNCHANGED <<builder, vedges, cfgMap, loops, returnBlock, fault, execution>>

\* What the assertions of virtualize() ask of a program that is inlined: an
\* instruction follows each call, in the segment and for the annotations.
CallsFollowed(p) ==
    \A s \in DOMAIN p.segments : \A i \in Span(p, s) :
        /\ Controls(p, i)
        /\ p.code[i].kind = "call" \/ \E q \in p.callTo : q[1] = i
        /\ "IS_RETURN" \notin p.notes[i]
        /\ \A t \in {p.code[i].target} \ {None} : "NO_RETURN" \notin p.notes[t]
        => i < p.segments[s][2] /\ "IGNORE_SEQ" \notin p.notes[i]

\* What the edges ask of the annotations: an instruction that stops is a control,
\* NO_CALL and NO_RETURN are on functions that are called directly, and never
\* both.
NotesPlain(p) ==
    \A s \in DOMAIN p.segments : \A i \in Span(p, s) :
        /\ "IS_RETURN" \in p.notes[i] => Controls(p, i)
        /\ \A t \in {p.code[i].target} \ {None} : "NO_RETURN" \in p.notes[t] => Controls(p, i)
        /\ \A t \in TargetsOf(p, i) :
              /\ {"NO_CALL", "NO_RETURN"} \cap p.notes[t] # {} => t = p.code[i].target
              /\ ~ ({"NO_CALL", "NO_RETURN"} \subseteq p.notes[t])

\* What they ask of the graph: a block that leaves its function without a call
\* does not call, and does not go on in sequence in the function.
JumpsAlone ==
    \A f \in cfgs \cup {prog.start} : \A b \in ScanBlocks(f) : \A e \in ToSet(outs[b]) :
        e.kind # "CALL" /\ e.target \notin ScanBlocks(f) =>
            /\ ~ isCall(top[b]) /\ e.target \notin CallTargets(top[b])
            /\ \A d \in ToSet(outs[b]) :
                  d.kind = "TAKEN" \/ (d.kind = "NOT_TAKEN" /\ d.target \notin ScanBlocks(f))

-----------------------------------------------------------------------------
(* The execution.                                                          *)

\* What the instruction may do, with the annotations that are put on it.
Moves(i) ==
    LET branches == (IF isCall(i) THEN {} ELSE {target(i)} \ {None}) \cup BranchTargets(i)
        called == (IF isCall(i) THEN {target(i)} \ {None} ELSE {}) \cup CallTargets(i)
        to(t, move) == IF has(t, "NO_RETURN") THEN <<"stop", None>> ELSE <<move, t>>
    IN  IF has(i, "IS_RETURN") THEN {<<"return", None>>} \cup
                                    (IF isConditional(i) THEN {<<"go", i + 1>>} ELSE {})
        ELSE IF ~ isControl(i) THEN {<<"go", i + 1>>}
        ELSE {to(t, IF isCall(i) THEN "call" ELSE "go") : t \in branches}
             \cup {IF has(t, "NO_CALL") THEN <<"go", i + 1>> ELSE to(t, "call") : t \in called}
             \cup (IF prog.code[i].kind = "return" THEN {<<"return", None>>} ELSE {})
             \cup (IF isConditional(i) /\ ~ has(i, "IGNORE_SEQ") THEN {<<"go", i + 1>>} ELSE {})

\* A position: a virtual block and the blocks of the calls that are not inlined.
At(v, sites) == [v |-> v, sites |-> sites]
Ended == At(NoBlock, <<>>)

From(v) == {e \in vedges : e[1] = v}
VirtualExits == {<<f, <<>>, Exit>> : f \in cfgMap}

\* Where the exit of a virtual CFG leads to.
Returned(sites) ==
    LET r[k \in 0..Len(sites)] ==
          IF k = 0 THEN {Ended}
          ELSE UNION {IF e[2] \in VirtualExits THEN r[k - 1]
                      ELSE {At(e[2], SubSeq(sites, 1, k - 1))} :
                          e \in {e \in From(sites[k]) : e[3] # "CALL"}}
    IN  r[Len(sites)]

\* The positions that follow p in the virtual CFG.
Following(p) ==
    UNION {IF e[2] \in VirtualExits THEN Returned(p.sites)
           ELSE IF e[3] = "CALL"
           THEN {At(d[2], Append(p.sites, p.v)) : d \in From(e[2])}
           ELSE {At(e[2], p.sites)} : e \in From(p.v)}

\* The positions for the instruction i, that follow those of covers.
Covering(i) ==
    UNION {IF pc < top[p.v[3]]
           THEN IF i = pc + 1 THEN {p} ELSE {}
           ELSE {q \in Following(p) : q.v[3] = i} : p \in covers}

\* The execution starts, unless the program is recursive.
Start ==
    /\ phase = "inline" /\ fault = "none"
    /\ stack = <<>>
    /\ loops = {}
    /\ phase' = "run"
    /\ pc' = prog.start
    /\ backTo' = <<>>
    /\ covers' = {At(e[2], <<>>) : e \in From(<<prog.start, <<>>, None>>)}
    /\ UNCHANGED <<prog, seg, item, BB, isEntry, bb, follow, top, outs, returns, entries,
                   cfgs, inlining>>

Execute ==
    /\ phase = "run"
    /\ pc # None
    /\ \E m \in Moves(pc) :
          /\ m[1] = "call" => Len(backTo) < MaxCalls
          /\ pc' = CASE m[1] \in {"go", "call"} -> m[2]
                     [] m[1] = "stop" -> None
                     [] m[1] = "return" -> IF backTo = <<>> THEN None ELSE Last(backTo)
          /\ backTo' = CASE m[1] = "call" -> Append(backTo, pc + 1)
                         [] m[1] = "return" /\ backTo # <<>> -> Front(backTo)
                         [] OTHER -> backTo
          /\ covers' = IF m[1] = "stop" THEN covers ELSE Covering(pc')
    /\ UNCHANGED <<builder, inlining>>

Init ==
    /\ BuilderInit
    /\ stack = <<>>
    /\ vedges = {}
    /\ cfgMap = {}
    /\ loops = {}
    /\ returnBlock = [v \in {} |-> NoBlock]
    /\ fault = "none"
    /\ pc = None
    /\ backTo = <<>>
    /\ covers = {}

BuildStep == Build /\ UNCHANGED <<inlining, execution>>

Inline ==
    \/ Virtualize \/ VirtualizeApart \/ TranslateBlock \/ InlineCall \/ EndInline

Next == BuildStep \/ Inline \/ Start \/ Execute

Spec == Init /\ [][Next]_vars

-----------------------------------------------------------------------------
(* Properties.                                                             *)

\* Every execution of the program is a path of the virtual CFG of the task, in
\* the virtual CFGs of the functions that are not inlined too.
PathsCovered == phase = "run" => covers # {}

\* The calls around a virtual block, those that are jumps or sequences apart.
RealCalls(v) ==
    {k \in DOMAIN v[2] : isCall(top[v[2][k][1]]) \/ v[2][k][2] \in CallTargets(top[v[2][k][1]])}

\* A return leads after the last call around its block, or to the exit of the CFG.
RealReturn(e) ==
    IF RealCalls(e[1]) = {} THEN e[2] = <<e[1][1], <<>>, Exit>>
    ELSE e[2][3] = top[e[1][2][Max(RealCalls(e[1]))][1]] + 1

\* An edge is a move of the last instruction of its block.
RealEdge(e) ==
    LET i == top[e[1][3]]
        moves == Moves(i)
    IN  CASE e[3] = "VIRTUAL_RETURN" ->
               /\ \/ moves \cap {<<"return", None>>, <<"stop", None>>} # {}
                  \/ \E d \in From(e[1]) : d[3] = "CALL" /\ <<"go", d[2][1]>> \in moves
               /\ RealReturn(e)
          [] e[3] = "VIRTUAL_CALL" -> {<<"call", e[2][3]>>, <<"go", e[2][3]>>} \cap moves # {}
          [] e[3] = "CALL" -> {<<"call", e[2][1]>>, <<"go", e[2][1]>>} \cap moves # {}
          [] OTHER -> <<"go", e[2][3]>> \in moves \/ e[2][3] = i + 1

\* The edges of the virtual CFG go where the program may go: an inlined return
\* leads after the call it returns from, in the context of this call.
EdgesReal == phase = "run" => \A e \in vedges : e[1][3] \in Insts => RealEdge(e)

\* Inlining never enters a function that is being inlined, so that it ends on
\* recursive programs.
InliningBounded == \A j, k \in DOMAIN stack : stack[j].cfg = stack[k].cfg => j = k

\* ASSERT(vcalled) and ASSERT(called_exit).
NoAssertFails == fault = "none"
=============================================================================
