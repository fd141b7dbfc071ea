---------------------------- MODULE LoopUnroller ----------------------------
(***************************************************************************)
(* LoopUnroller: new graphs where the first iteration of every loop is      *)
(* apart from the others.                                                   *)
(*                                                                         *)
(* unroll() is recursive: an activation, a frame here, copies the blocks of *)
(* one loop and calls itself for the loops inside.  A loop is copied twice, *)
(* what is around the loops once.  A step is one turn of the worklist, one  *)
(* recursive call, or the connection of the copies at the end of a pass.    *)
(***************************************************************************)
EXTENDS LoopInfo

CONSTANTS
    Exits,      \* the exit blocks of the CFGs
    CfgOf,      \* CfgOf[b]: the entry of the CFG of b
    Programs    \* the graphs, their CALL edges <<block, called entry>>, and
                \* whether the loops are to be unrolled

ASSUME ProgramAssumption ==
    /\ Graphs = {p[1] : p \in Programs}
    /\ Exits \subseteq Blocks

VARIABLES
    calls,      \* the CALL edges
    unroll,     \* LoopUnroller is run
    copies,     \* copies[k]: the block the k-th virtual block was made from
    map,        \* map[b]: the last copy of b, NoBlock if there is none
    vedges,     \* the edges of the new CFGs
    vcalls,     \* their CALL edges <<virtual block, called entry>>
    unrolledFrom,  \* UNROLLED_FROM of the copies that have one
    frames,     \* the activations of unroll
    toUnroll,   \* the CFGs still to process
    fault       \* an empty Option was read

program == <<loopVars, calls, unroll>>
unrollVars == <<copies, map, vedges, vcalls, unrolledFrom, frames, toUnroll, fault>>

\* The virtual entry and exit of the CFG with entry or exit b.
End(b) == 0 - b
Ends == Entries \cup Exits

\* The block a virtual block was made from.
Origin(v) == IF v < 0 THEN 0 - v ELSE copies[v]

-----------------------------------------------------------------------------

\* An activation of unroll for the loop of h, all the CFG if h is NoBlock, at
\* the start of pass i.  `first' is unrolled_from, `back' is backEdges.
Frame(f, h, i, first, back) ==
    [cfg |-> f, header |-> h, pass |-> i, first |-> first, back |-> back,
     work |-> <<IF h = NoBlock THEN f ELSE h>>,
     done |-> {IF h = NoBlock THEN f ELSE h},
     loops |-> <<>>, bbs |-> {}]

top == Last(frames)

Replace(fr) == frames' = Append(Front(frames), fr)

Unrolling == phase = "unrolling" /\ fault = "none" /\ frames # <<>>

\* The blocks of S that were not seen, to the worklist.  Their order gives the
\* copies their numbers and nothing else.
Later(S) == SetToSortSeq(S \ top.done, <)

\* A header met in the loop of another, or in the CFG: its loop is for later,
\* the blocks that follow it for now.
MeetLoop ==
    /\ Unrolling
    /\ top.work # <<>>
    /\ LET b == Head(top.work)
           after == {e[2] : e \in {e \in edges : exitOf[e] = b}}
       IN  /\ b \in Headers /\ b # top.header
           /\ Replace([top EXCEPT !.work = Tail(@) \o Later(after),
                                  !.done = @ \cup after,
                                  !.loops = Append(@, b)])
    /\ UNCHANGED <<program, copies, map, vedges, vcalls, unrolledFrom, toUnroll, fault>>

\* The exit edges of b: connected as soon as b is copied.
Leaving(b) == {e \in edges : e[1] = b /\ e[2] \notin Exits /\ exitOf[e] # NoBlock}

\* Mutant of Inside: sub-loop headers are left to their entry edges.
InsideBlocks(b) == {t \in Targets(b) \ Exits : enclosing[t] = top.header /\ t \notin Headers}

\* The successors of b in the loop at work, headers of loops inside included.
Inside(b) == {t \in Targets(b) \ Exits : enclosing[t] = top.header}

\* Any other block: it is copied, but for the ends of the CFG.
Duplicate ==
    /\ Unrolling
    /\ top.work # <<>>
    /\ LET b == Head(top.work)
           new == Len(copies) + 1
       IN  /\ ~ (b \in Headers /\ b # top.header)
           /\ \A e \in Leaving(b) : map[e[2]] # NoBlock
           /\ IF b \in Ends
              THEN UNCHANGED <<copies, map, unrolledFrom>>
              ELSE /\ copies' = Append(copies, b)
                   /\ map' = [map EXCEPT ![b] = new]
                   /\ unrolledFrom' =
                        IF b = top.header /\ top.pass = 1
                        THEN [v \in DOMAIN unrolledFrom \cup {new} |->
                                 IF v = new THEN top.first ELSE unrolledFrom[v]]
                        ELSE unrolledFrom
           /\ vedges' = vedges \cup {<<map'[b], map'[e[2]]>> : e \in Leaving(b)}
           /\ Replace([top EXCEPT !.work = Tail(@) \o Later(Inside(b)),
                                  !.done = @ \cup Inside(b),
                                  !.bbs = IF b \in Ends THEN @ ELSE @ \cup {b},
                                  !.first = IF b = top.header /\ top.pass = 0 THEN new ELSE @])
    /\ UNCHANGED <<program, vcalls, toUnroll, fault>>

\* The recursive call for a loop met in the pass.
UnrollLoop ==
    /\ Unrolling
    /\ top.work = <<>> /\ top.loops # <<>>
    /\ frames' = Append(Append(Front(frames), [top EXCEPT !.loops = Tail(@)]),
                        Frame(top.cfg, Head(top.loops), 0, NoBlock, {}))
    /\ UNCHANGED <<program, copies, map, vedges, vcalls, unrolledFrom, toUnroll, fault>>

-----------------------------------------------------------------------------
(* The end of a pass.                                                      *)

\* The edges between the blocks of the pass.
Internal ==
    {e \in edges : /\ e[1] \in top.bbs
                   /\ exitOf[e] = NoBlock
                   /\ ~ (e[2] \in Headers /\ e[2] # top.header)
                   /\ e[2] \notin Exits}

ToHeader == {e \in Internal : e[2] = top.header}

Mapped(E) == {<<map[e[1]], map[e[2]]>> : e \in E}

\* Mutant of Kept: the first pass keeps its back edges.
KeptAll == Mapped(Internal)

\* In the first pass of a loop the back edges wait for the second.
Kept == Mapped(IF top.pass = 1 THEN Internal ELSE Internal \ ToHeader)

\* Mutant of Waiting: the back edges of the first pass are lost.
WaitingNone == {}

\* The copies that the back edges of the first pass come from.
Waiting == IF top.pass = 1 THEN {} ELSE {map[e[1]] : e \in ToHeader}

\* The edges that enter the loop, to its first copy.
EntryEdges ==
    {e \in edges : e[2] = top.header /\ ~ dominates(top.header, e[1]) /\ e[1] # top.cfg}

\* The edges of the entry and of the exit of the CFG.
EndEdges ==
    {<<End(e[1]), map[e[2]]>> : e \in {e \in edges : e[1] = top.cfg}} \cup
    {<<map[e[1]], End(e[2])>> : e \in {e \in edges : e[2] \in Exits /\ CfgOf[e[2]] = top.cfg}}

\* The edges that the end of the pass connects.
ToConnect ==
    Internal \cup
    (IF top.header # NoBlock THEN IF top.pass = 0 THEN EntryEdges ELSE {}
     ELSE {e \in edges : CfgOf[e[1]] = top.cfg /\ (e[1] = top.cfg \/ e[2] \in Exits)})

\* Every end of an edge of E has a copy.
HaveCopies(E) == \A e \in E : \A b \in {e[1], e[2]} \ Ends : map[b] # NoBlock

\* Connects the blocks of the pass; a second pass follows in a loop.
ConnectPass ==
    /\ Unrolling
    /\ top.work = <<>> /\ top.loops = <<>>
    /\ HaveCopies(ToConnect)
    /\ vcalls' = vcalls \cup {<<map[c[1]], c[2]>> : c \in {c \in calls : c[1] \in top.bbs}}
    /\ vedges' = vedges \cup Kept \cup
         (IF top.header = NoBlock THEN EndEdges
          ELSE IF top.pass = 0 THEN Mapped(EntryEdges)
          ELSE {<<v, map[top.header]>> : v \in top.back})
    /\ frames' =
         IF top.header # NoBlock /\ top.pass = 0
         THEN Append(Front(frames),
                     Frame(top.cfg, top.header, 1, top.first, top.back \cup Waiting))
         ELSE Front(frames)
    /\ UNCHANGED <<program, copies, map, unrolledFrom, toUnroll, fault>>

\* An edge to a block that has no copy: an exit edge as soon as its source is
\* copied, the others at the end of the pass.
NoCopy ==
    /\ Unrolling
    /\ \/ /\ top.work # <<>>
          /\ LET b == Head(top.work)
             IN  /\ ~ (b \in Headers /\ b # top.header)
                 /\ \E e \in Leaving(b) : map[e[2]] = NoBlock
       \/ top.work = <<>> /\ top.loops = <<>> /\ ~ HaveCopies(ToConnect)
    /\ fault' = "no copy"
    /\ UNCHANGED <<program, copies, map, vedges, vcalls, unrolledFrom, frames, toUnroll>>

-----------------------------------------------------------------------------
(* processWorkSpace                                                        *)

StartUnroll ==
    /\ phase = "found" /\ unroll
    /\ phase' = "unrolling"
    /\ UNCHANGED <<edges, dfa, dom, hdrs, info, calls, unroll, unrollVars>>

UnrollCFG ==
    /\ phase = "unrolling" /\ fault = "none" /\ frames = <<>>
    /\ toUnroll # <<>>
    /\ frames' = <<Frame(Head(toUnroll), NoBlock, 0, NoBlock, {})>>
    /\ toUnroll' = Tail(toUnroll)
    /\ UNCHANGED <<program, copies, map, vedges, vcalls, unrolledFrom, fault>>

UnrollInit ==
    /\ \E p \in Programs : edges = p[1] /\ calls = p[2] /\ unroll = p[3]
    /\ LoopStart
    /\ copies = <<>>
    /\ map = [b \in Blocks |-> NoBlock]
    /\ vedges = {}
    /\ vcalls = {}
    /\ unrolledFrom = [v \in {} |-> NoBlock]
    /\ frames = <<>>
    /\ toUnroll = SetToSortSeq(Entries, <)
    /\ fault = "none"

UnrollNext ==
    \/ LoopNext /\ UNCHANGED <<calls, unroll, unrollVars>>
    \/ StartUnroll \/ UnrollCFG
    \/ MeetLoop \/ Duplicate \/ NoCopy \/ UnrollLoop \/ ConnectPass

\* The graph is ready: no activation of unroll is left.
Unrolled == phase = "unrolling" /\ frames = <<>> /\ toUnroll = <<>>

-----------------------------------------------------------------------------

\* No copy is missing when an edge is connected.
NoCopyMissing == fault = "none"
=============================================================================
