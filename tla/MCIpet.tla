------------------------------- MODULE MCIpet -------------------------------
(***************************************************************************)
(* The linear system of every small program, and its executions.            *)
(***************************************************************************)
EXTENDS Ipet

CONSTANT CoreSize   \* number of blocks that are free to branch

\* The main CFG: the entry 1, a block, the core, a block, the exit.
Core == 3..(CoreSize + 2)
After == CoreSize + 3
MainExit == CoreSize + 4
Main == 1..MainExit

\* A block of the core has one or two successors in the core or after it.
OutSets == {S \in SUBSET (Core \cup {After}) : Cardinality(S) \in {1, 2}}

MainGraphs ==
    {{<<1, 2>>, <<2, 3>>, <<After, MainExit>>} \cup
        UNION {{<<b, t>> : t \in f[b]} : b \in Core} : f \in [Core -> OutSets]}

ReachableFrom(g, b) ==
    LET r[k \in 0..MainExit] ==
          IF k = 0 THEN {b} ELSE LET p == r[k - 1] IN p \cup {e[2] : e \in {e \in g : e[1] \in p}}
    IN  r[MainExit]

\* b is on every path from the entry to c.
DomIn(g, b, c) == b = c \/ c \notin ReachableFrom({e \in g : b \notin {e[1], e[2]}}, 1)

BackIn(g) == {e \in g : DomIn(g, e[2], e[1])}

\* Without its back edges the graph has no cycle, every block can be reached
\* and can reach the exit.
Reducible(g) ==
    /\ ReachableFrom(g, 1) = Main
    /\ \A b \in Main : MainExit \in ReachableFrom(g, b)
    /\ LET fwd == g \ BackIn(g) IN \A e \in fwd : e[1] \notin ReachableFrom(fwd, e[2])

\* What LoopUnroller supports: an edge leaves one loop at most, and not for a
\* loop header.
Unrollable(g) ==
    LET back == BackIn(g)
        heads == {e[2] : e \in back}
        tails(h) == {e[1] : e \in {e \in back : e[2] = h}}
        body(h) == LET rest == {d \in g : h \notin {d[1], d[2]}}
                   IN  {h} \cup {b \in Core : tails(h) \cap ReachableFrom(rest, b) # {}}
        loops == {<<h, body(h)>> : h \in heads}
    IN  \A e \in g :
           LET left == {l \in loops : e[1] \in l[2] /\ e[2] \notin l[2]}
           IN  left # {} => Cardinality(left) = 1 /\ e[2] \notin heads

MainShapes == {g \in MainGraphs : Reducible(g)}

\* Two called CFGs: one with a loop, one without.
CalledA == MainExit + 1
CalledB == MainExit + 6
CalledGraph ==
    {<<CalledA, CalledA + 1>>, <<CalledA + 1, CalledA + 2>>, <<CalledA + 2, CalledA + 2>>,
     <<CalledA + 2, CalledA + 3>>, <<CalledA + 3, CalledA + 4>>,
     <<CalledB, CalledB + 1>>, <<CalledB + 1, CalledB + 2>>}

\* Two calls of the CFG with a loop, a choice of two CFGs, and calls in loops.
CallSets(g) ==
    IF BackIn(g) = {} THEN {{<<2, CalledA>>, <<4, CalledA>>, <<4, CalledB>>}}
                      ELSE {{<<2, CalledA>>, <<4, CalledB>>}, {}}

MCPrograms ==
    {<<g \cup CalledGraph, c, u>> : <<g, c, u>> \in
        UNION {{g} \X CallSets(g) \X (IF Unrollable(g) THEN {TRUE, FALSE} ELSE {FALSE}) : g \in MainShapes}}
MCGraphs == {p[1] : p \in MCPrograms}

MCN == CalledB + 2
MCEntries == {1, CalledA, CalledB}
MCExits == {MainExit, CalledA + 4, CalledB + 2}
MCCfgOf == [b \in 1..MCN |-> IF b < CalledA THEN 1 ELSE IF b < CalledB THEN CalledA ELSE CalledB]
=============================================================================
