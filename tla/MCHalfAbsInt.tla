---------------------------- MODULE MCHalfAbsInt ----------------------------
(***************************************************************************)
(* HalfAbsInt on every small program.                                       *)
(***************************************************************************)
EXTENDS HalfAbsInt

CONSTANT K      \* number of values

\* The main CFG is 1..MainSize; a called CFG of three blocks follows.
CONSTANT MainSize, Degree

Main == 1..MainSize

\* The graphs on Main whose blocks have at most Degree successors, from the
\* single successor of the entry to the exit.
OutSets == {S \in SUBSET (2..MainSize) : Cardinality(S) \in 1..Degree}

MainGraphs ==
    {UNION {{<<b, t>> : t \in f[b]} : b \in DOMAIN f} :
        f \in {f \in [1..(MainSize - 1) -> OutSets] : f[1] = {2}}}

ReachableFrom(g, b) ==
    LET r[k \in 0..MainSize] ==
          IF k = 0 THEN {b} ELSE LET p == r[k - 1] IN p \cup {e[2] : e \in {e \in g : e[1] \in p}}
    IN  r[MainSize]

Connected == {g \in MainGraphs : ReachableFrom(g, 1) = Main}

\* b is on every path from the entry to c.
DomIn(g, b, c) == c \notin ReachableFrom({e \in g : e[1] # b /\ e[2] # b}, 1) \/ b = c

\* Without its back edges the graph has no cycle: every loop has one header.
Reducible(g) ==
    LET fwd == {e \in g : ~ DomIn(g, e[2], e[1])}
    IN  \A e \in fwd : e[1] \notin ReachableFrom(fwd, e[2])

\* The natural loops.
LoopsIn(g) ==
    LET back == {e \in g : DomIn(g, e[2], e[1])}
        body(h) == {b \in Main \ {h} : \E e \in back :
                       e[2] = h /\ e[1] \in ReachableFrom({d \in g : h \notin {d[1], d[2]}}, b)}
    IN  {body(h) \cup {h} : h \in {e[2] : e \in back}}

\* No edge leaves two loops at once.
ShortExits(g) ==
    LET loops == LoopsIn(g)
    IN  \A e \in g : Cardinality({L \in loops : e[1] \in L /\ e[2] \notin L}) <= 1

ShortGraphs == {g \in Connected : Reducible(g) /\ ShortExits(g)}

\* A called CFG with a loop: entry, a block that loops on itself, exit.
Called == MainSize + 1
CalledGraph == {<<Called, Called + 1>>, <<Called + 1, Called + 1>>, <<Called + 1, Called + 2>>}

\* The blocks that may call: neither a header nor the entry or exit of a CFG.
Callers(g) == (2..(MainSize - 1)) \ {e[2] : e \in {e \in g : DomIn(g, e[2], e[1])}}

\* No call, or calls from all the blocks that may call.
CallSets(g) == {{<<b, Called>> : b \in B} : B \in {{}, Callers(g)}}

MCPrograms ==
    UNION {{<<g \cup CalledGraph, c>> : c \in CallSets(g)} : g \in ShortGraphs}
MCGraphs == {p[1] : p \in MCPrograms}

MCN == MainSize + 3
MCEntries == {1, Called}
MCExits == {MainSize, Called + 2}
MCCfgOf == [b \in 1..MCN |-> IF b \in Main THEN 1 ELSE Called]
MCEffect == [b \in 1..MCN |-> [v \in 0..(K - 1) |->
                 IF b \in MCEntries \cup MCExits THEN v ELSE (v + 1) % K]]
=============================================================================
