----------------------------- MODULE CFGBuilder -----------------------------
(***************************************************************************)
(* CFGBuilder, which makes the basic blocks and the control flow graphs of  *)
(* a program out of its instructions and of the annotations put on them by  *)
(* the flow facts, and CFG::scan, which gives the blocks and edges of one   *)
(* control flow graph.                                                      *)
(*                                                                         *)
(* An instruction is its position in the program.  A basic block is its     *)
(* first instruction, and so is the CFG that it is the entry of.  Two loops *)
(* go through the instructions of a segment: the first one finds where      *)
(* blocks start, the second one ends them and makes the edges.              *)
(***************************************************************************)
EXTENDS Integers, Sequences, FiniteSets, SequencesExt

CONSTANTS
    Size,       \* number of instructions
    Programs    \* the programs: see below

\* A program: its instructions (code), the annotations of each (notes), the
\* pairs of BRANCH_TARGET and CALL_TARGET (branchTo, callTo), its segments as
\* pairs of a first and a last instruction, the functions of its symbols, with
\* its start, whether instructions are logged (verbose), VIRTUAL_INLINING and
\* the functions marked DONT_INLINE (apart).

Insts == 1..Size
None == 0
\* The exit block of a CFG.
Exit == Size + 1

\* The instructions are numbered in the order of the segments.
ASSUME SizeAssumption == Size \in Nat
ASSUME ProgramsAssumption ==
    \A p \in Programs :
        /\ \A i \in Insts : p.code[i].target \in Insts \cup {None}
        /\ p.branchTo \subseteq Insts \X Insts
        /\ p.callTo \subseteq Insts \X Insts
        /\ p.functions \subseteq Insts
        /\ p.start \in Insts
        /\ p.segments \in Seq(Insts \X Insts)
        /\ p.segments # <<>>
        /\ \A s \in DOMAIN p.segments : p.segments[s][1] <= p.segments[s][2]
        /\ \A s, t \in DOMAIN p.segments : s < t => p.segments[s][2] < p.segments[t][1]

VARIABLES
    prog,       \* the program
    phase,      \* the loop at work
    seg,        \* the segment at work
    item,       \* the instruction at work
    BB,         \* the instructions with a BB
    isEntry,    \* IS_ENTRY of the blocks
    bb,         \* the current block of the second loop
    follow,     \* the block continues in sequence
    top,        \* top[b]: the last instruction of b, None if its size is 0
    outs,       \* outs[b]: its edges, in the order of OutIterator
    returns,    \* the blocks with FLAG_Return
    entries,    \* the entries found in the segment
    cfgs        \* the blocks with ENTRY

builder == <<prog, phase, seg, item, BB, isEntry, bb, follow, top, outs, returns,
             entries, cfgs>>

-----------------------------------------------------------------------------
(* Instructions.                                                           *)

Edge(target, kind) == [target |-> target, kind |-> kind]

has(i, note) == note \in prog.notes[i]
target(i) == prog.code[i].target
isCall(i) == prog.code[i].kind = "call"
isConditional(i) == prog.code[i].cond
isReturn(i) == prog.code[i].kind = "return" \/ has(i, "IS_RETURN")
isControl(i) == prog.code[i].kind # "seq" /\ ~ has(i, "IGNORE_CONTROL")

\* BRANCH_TARGET and CALL_TARGET count when the instruction has no target.
BranchTargets(i) ==
    IF target(i) # None THEN {} ELSE {p[2] : p \in {p \in prog.branchTo : p[1] = i}}
CallTargets(i) ==
    IF target(i) # None THEN {} ELSE {p[2] : p \in {p \in prog.callTo : p[1] = i}}

First == prog.segments[seg][1]
Final == prog.segments[seg][2]

-----------------------------------------------------------------------------
(* buildCFG: the two loops.                                                *)

\* Mutant of Found: a backward branch does not start a block.
FoundForward(i) == IF isControl(i) /\ target(i) > i THEN {target(i)} ELSE {}

\* The targets the first loop makes blocks for; with the instructions logged,
\* the targets of an indirect control are left for the second loop.
Found(i) ==
    IF ~ isControl(i) THEN {}
    ELSE IF target(i) # None THEN {target(i)}
    ELSE IF ~ isReturn(i) /\ prog.verbose THEN {}
    ELSE BranchTargets(i) \cup CallTargets(i)

\* The first instruction of the segment starts a block, so do the targets and
\* the instruction after a control.
FindBlocks ==
    /\ phase = "find"
    /\ item <= Final
    /\ BB' = BB \cup Found(item)
                \cup (IF item = First THEN {item} ELSE {})
                \cup (IF isControl(item) THEN {item + 1} \cap First..Final ELSE {})
    /\ isEntry' = isEntry \cup
                  (IF isCall(item) THEN Found(item) ELSE Found(item) \cap CallTargets(item))
    /\ item' = item + 1
    /\ UNCHANGED <<prog, phase, seg, bb, follow, top, outs, returns, entries, cfgs>>

FindDone ==
    /\ phase = "find"
    /\ item > Final
    /\ phase' = "link"
    /\ item' = First
    /\ bb' = None
    /\ follow' = TRUE
    /\ entries' = {}
    /\ UNCHANGED <<prog, seg, BB, isEntry, top, outs, returns, cfgs>>

\* The block of the instruction, and the edges and sizes once the block before
\* it is ended.
Current == IF item \in BB THEN item ELSE bb
Ends == item \in BB /\ bb # None
Sizes == IF Ends /\ top[bb] = None THEN [top EXCEPT ![bb] = item - 1] ELSE top
Sequential ==
    IF Ends /\ follow THEN [outs EXCEPT ![bb] = <<Edge(item, "NOT_TAKEN")>> \o @] ELSE outs

\* The instruction ends a block as a return.
Stops(i) == has(i, "IS_RETURN") \/ (target(i) # None /\ has(target(i), "NO_RETURN"))

\* The edges of a control; addOutEdge puts the last one first.
ControlEdges(i) ==
    LET kind == IF isCall(i) THEN "CALL" ELSE "TAKEN"
        direct == IF target(i) # None /\ ~ (isCall(i) /\ has(target(i), "NO_CALL"))
                  THEN {target(i)} ELSE {}
    IN  SetToSeq({Edge(t, "CALL") : t \in CallTargets(i)})
        \o SetToSeq({Edge(t, kind) : t \in BranchTargets(i) \cup direct})

\* Mutant of Follows: a conditional call or branch only.
FollowsConditional(i) == isConditional(i) /\ ~ has(i, "IGNORE_SEQ")

\* The block continues in sequence.
Follows(i) ==
    /\ isCall(i) \/ CallTargets(i) # {} \/ isConditional(i)
    /\ ~ has(i, "IGNORE_SEQ")

LinkBlocks ==
    /\ phase = "link"
    /\ item <= Final
    /\ bb' = Current
    /\ entries' = entries \cup ({item} \cap BB \cap isEntry)
    /\ isEntry' = isEntry \ ({item} \cap BB)
    /\ \/ /\ Stops(item)
          /\ top' = [Sizes EXCEPT ![Current] = item]
          /\ outs' = Sequential
          /\ returns' = returns \cup {Current}
          /\ follow' = FALSE
          /\ UNCHANGED BB
       \/ /\ ~ Stops(item) /\ isControl(item)
          /\ top' = [Sizes EXCEPT ![Current] = item]
          /\ outs' = [Sequential EXCEPT ![Current] = ControlEdges(item) \o @]
          /\ BB' = BB \cup {e.target : e \in ToSet(ControlEdges(item))}
          /\ returns' = IF CallTargets(item) = {} /\ isReturn(item)
                        THEN returns \cup {Current} ELSE returns
          /\ follow' = Follows(item)
       \/ /\ ~ Stops(item) /\ ~ isControl(item)
          /\ top' = Sizes
          /\ outs' = Sequential
          /\ follow' = (follow \/ Ends)
          /\ UNCHANGED <<BB, returns>>
    /\ item' = item + 1
    /\ UNCHANGED <<prog, phase, seg, cfgs>>

\* The end of a segment: the size of the last block, the CFGs of the entries;
\* addFile cleans the instructions after the last segment.
SegmentDone ==
    /\ phase = "link"
    /\ item > Final
    /\ top' = IF top[bb] = None THEN [top EXCEPT ![bb] = Final] ELSE top
    /\ cfgs' = cfgs \cup entries
    /\ IF seg < Len(prog.segments)
       THEN /\ seg' = seg + 1 /\ phase' = "find" /\ item' = prog.segments[seg + 1][1]
            /\ UNCHANGED BB
       ELSE /\ phase' = "built" /\ BB' = {}
            /\ UNCHANGED <<seg, item>>
    /\ UNCHANGED <<prog, isEntry, bb, follow, outs, returns, entries>>

\* buildAll: the start and the functions of the symbols are sub-programs.
BuilderInit ==
    /\ prog \in Programs
    /\ phase = "find"
    /\ seg = 1
    /\ item = prog.segments[1][1]
    /\ BB = prog.functions
    /\ isEntry = prog.functions
    /\ bb = None
    /\ follow = TRUE
    /\ top = [b \in Insts |-> None]
    /\ outs = [b \in Insts |-> <<>>]
    /\ returns = {}
    /\ entries = {}
    /\ cfgs = {}

Build == FindBlocks \/ FindDone \/ LinkBlocks \/ SegmentDone

\* What the two loops ask of a program to find its blocks in time: instructions
\* are not logged, and a target is an instruction of the segment at work or of
\* a later one, or a function, that starts a block from the beginning.
Span(p, s) == p.segments[s][1]..p.segments[s][2]
Controls(p, i) == p.code[i].kind # "seq" /\ "IGNORE_CONTROL" \notin p.notes[i]
TargetsOf(p, i) ==
    ({p.code[i].target} \ {None}) \cup {q[2] : q \in {q \in p.branchTo \cup p.callTo : q[1] = i}}
InTime(p) ==
    /\ ~ p.verbose
    /\ \A s \in DOMAIN p.segments : \A i \in Span(p, s) :
          Controls(p, i) =>
              \A t \in TargetsOf(p, i) :
                  /\ t \in p.functions \/ t >= p.segments[s][1]
                  /\ \E u \in DOMAIN p.segments : t \in Span(p, u)

-----------------------------------------------------------------------------
(* CFG::scan                                                               *)

\* The blocks of a CFG: those reached from its entry without a call, up to the
\* entry of another CFG.
ScanBlocks(f) ==
    LET next(B) == {e.target : e \in {e \in UNION {ToSet(outs[b]) : b \in B} : e.kind # "CALL"}}
        upTo[k \in 0..Size] ==
            IF k = 0 THEN {f}
            ELSE LET B == upTo[k - 1] IN B \cup (next(B) \ cfgs)
    IN  upTo[Size]

\* Mutant of ScanEdges: a jump to a function does not come back.
ScanEdgesLost(f, b) ==
    LET B == ScanBlocks(f)
    IN  FoldLeft(LAMBDA q, e : <<IF e.target \in B THEN e ELSE Edge(e.target, "CALL")>> \o q,
                 IF b \in returns THEN <<Edge(Exit, "VIRTUAL")>> ELSE <<>>, outs[b])

\* The edges of a block in a CFG: a jump out of it is a call that returns.
ScanEdges(f, b) ==
    LET B == ScanBlocks(f)
        copied(e) == e.kind = "CALL" \/ e.target \in B
        upTo[k \in 0..Len(outs[b])] ==
            IF k = 0 THEN IF b \in returns THEN <<Edge(Exit, "VIRTUAL")>> ELSE <<>>
            ELSE LET e == outs[b][k]
                 IN  (IF copied(e) THEN <<e>>
                      ELSE <<Edge(Exit, "VIRTUAL"), Edge(e.target, "CALL")>>) \o upTo[k - 1]
    IN  upTo[Len(outs[b])]

\* The graph is whole: an edge leads to a block that was found in time to be
\* given its instructions, and no instruction is in two blocks.
BlocksWhole ==
    phase \notin {"find", "link"} =>
        /\ \A b \in Insts : \A e \in ToSet(outs[b]) : top[e.target] # None
        /\ \A b, c \in {b \in Insts : top[b] # None} : b < c => top[b] < c
=============================================================================
