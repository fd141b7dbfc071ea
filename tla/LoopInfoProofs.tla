--------------------------- MODULE LoopInfoProofs ---------------------------
(***************************************************************************)
(* Dominance and LoopInfoBuilder are correct on every graph: the bits that  *)
(* the worklist iterations leave are domination and membership in natural   *)
(* loops, and the sorted headers give the smallest loop.                    *)
(***************************************************************************)
EXTENDS LoopInfo, Induction, FiniteSetTheorems, SequenceTheorems, TLAPS

-----------------------------------------------------------------------------
(* The invariant.                                                          *)

\* The queue holds the blocks whose bits are set, once each.
QueueInv ==
    /\ edges \in Graphs
    /\ phase \in {"dominance", "loops", "found"}
    /\ todo \in Seq(Blocks)
    /\ present = {todo[i] : i \in 1..Len(todo)}
    /\ \A i, j \in 1..Len(todo) : todo[i] = todo[j] => i = j
    /\ outs \in [Blocks -> SUBSET Blocks]
    /\ dom \in [Blocks -> SUBSET Blocks]

\* A block that waits in no queue has the OUT set its equation asks for.
Settled == \A b \in Blocks \ present : outs[b] = Out(b)

\* The bits of REVERSE_DOM are domination.
DominationKnown == \A a \in Blocks : Dominated(a) = {b \in Blocks : a \in dom[b]}

\* While dominance iterates its sets are too large and never too small; then
\* they are domination.
DominanceInv ==
    /\ phase = "dominance" => \A a \in Blocks : \A b \in Dominated(a) : a \in outs[b]
    /\ phase # "dominance" => DominationKnown

\* While the loops are looked for, the sets are never too large.
LoopInv ==
    phase = "loops" =>
        \A b \in Blocks : \A h \in outs[b] : h \in Headers /\ h # b /\ b \in Loop(h)

\* No header dominates a header sorted after it.
Sorted(list) ==
    /\ list \in Seq(Headers)
    /\ \A h \in Headers : \E i \in 1..Len(list) : list[i] = h
    /\ \A i, j \in 1..Len(list) : i < j => ~dominates(list[i], list[j])

HeadersInv == phase # "dominance" => Sorted(hdrs)

\* The properties are set at the end only.
InfoInv ==
    /\ phase # "found" => /\ enclosing = [b \in Blocks |-> NoBlock]
                          /\ exitOf = [e \in edges |-> NoBlock]
    /\ EnclosingCorrect
    /\ ExitEdgesCorrect

LoopInfoInv == QueueInv /\ Settled /\ DominanceInv /\ LoopInv /\ HeadersInv /\ InfoInv

-----------------------------------------------------------------------------
(* The worklist.                                                           *)

\* An order of a finite set names each of its elements once.
LEMMA OrdersOnce ==
    ASSUME NEW S, IsFiniteSet(S), NEW q \in Orders(S)
    PROVE  /\ q \in Seq(S)
           /\ {q[i] : i \in 1..Len(q)} = S
           /\ \A i, j \in 1..Len(q) : q[i] = q[j] => i = j
<1> DEFINE n == Cardinality(S)
<1>1. n \in Nat
  BY FS_CardinalityType
<1>2. q \in [1..n -> S] /\ ToSet(q) = S
  BY DEF Orders
<1> HIDE DEF n
<1>3. q \in Seq(S) /\ Len(q) = n
  BY <1>1, <1>2
<1>4. {q[i] : i \in 1..n} = S
  BY <1>2 DEF ToSet
<1>5. q \in Surjection(1..n, S)
  BY <1>2, <1>4 DEF Surjection
<1>6. IsFiniteSet(1..n) /\ Cardinality(1..n) = n
  BY <1>1, FS_Interval
<1>7. q \in Injection(1..n, S)
  BY <1>5, <1>6, FS_Surjection DEF n
<1> QED BY <1>3, <1>4, <1>7, <1>2 DEF Injection, IsInjective

\* There are finitely many blocks.
LEMMA BlocksFinite == ASSUME NEW S \in SUBSET Blocks PROVE IsFiniteSet(S)
<1>1. IsFiniteSet(Blocks)
  <2>1. 1 \in Int /\ N \in Int
    BY GraphAssumption
  <2> QED BY <2>1, FS_Interval DEF Blocks
<1> QED BY <1>1, FS_Subset

\* Putting the blocks of W, none of which is in the queue, at its end.
LEMMA QueueTail ==
    ASSUME NEW s \in Seq(Blocks), s # <<>>,
           \A i, j \in 1..Len(s) : s[i] = s[j] => i = j,
           NEW W \in SUBSET Blocks,
           \A i \in 2..Len(s) : s[i] \notin W,
           NEW q \in Orders(W)
    PROVE  /\ Tail(s) \o q \in Seq(Blocks)
           /\ {(Tail(s) \o q)[i] : i \in 1..Len(Tail(s) \o q)} =
                 ({s[i] : i \in 1..Len(s)} \ {Head(s)}) \cup W
           /\ \A i, j \in 1..Len(Tail(s) \o q) :
                 (Tail(s) \o q)[i] = (Tail(s) \o q)[j] => i = j
<1>1. IsFiniteSet(W)
  BY BlocksFinite
<1>2. /\ q \in Seq(W)
      /\ {q[i] : i \in 1..Len(q)} = W
      /\ \A i, j \in 1..Len(q) : q[i] = q[j] => i = j
  BY <1>1, OrdersOnce
<1>3. q \in Seq(Blocks)
  BY <1>2
<1> DEFINE t == Tail(s)
<1>4. /\ t \in Seq(Blocks) /\ Len(t) = Len(s) - 1
      /\ \A i \in 1..Len(t) : t[i] = s[i + 1]
      /\ Len(s) \in Nat /\ Len(s) > 0 /\ Head(s) = s[1]
  OBVIOUS
<1> HIDE DEF t
<1> DEFINE u == t \o q
<1>5. /\ u \in Seq(Blocks) /\ Len(u) = Len(t) + Len(q)
      /\ \A i \in 1..Len(u) : u[i] = IF i <= Len(t) THEN t[i] ELSE q[i - Len(t)]
      /\ Len(q) \in Nat /\ Len(t) \in Nat
  <2>0. t \in Seq(Blocks) /\ q \in Seq(Blocks)
    BY <1>3, <1>4
  <2>1. t \o q \in Seq(Blocks) /\ Len(t \o q) = Len(t) + Len(q)
    BY <2>0, ConcatProperties
  <2>3. \A i \in 1..Len(t) + Len(q) : (t \o q)[i] = IF i <= Len(t) THEN t[i] ELSE q[i - Len(t)]
    BY <1>3, <1>4
  <2>2. Len(q) \in Nat /\ Len(t) \in Nat
    BY <1>3, <1>4, LenProperties
  <2> QED BY <2>1, <2>2, <2>3
<1> HIDE DEF u
<1>6. \A i \in 1..Len(t) : t[i] \notin W /\ t[i] # Head(s)
  <2> TAKE i \in 1..Len(t)
  <2>1. i + 1 \in 2..Len(s) /\ i + 1 \in 1..Len(s) /\ 1 \in 1..Len(s) /\ i + 1 # 1
    BY <1>4
  <2> QED BY <1>4, <2>1
<1>7. \A i, j \in 1..Len(t) : t[i] = t[j] => i = j
  <2> TAKE i, j \in 1..Len(t)
  <2>1. i + 1 \in 1..Len(s) /\ j + 1 \in 1..Len(s)
    BY <1>4
  <2> QED BY <1>4, <2>1
<1>8. {t[i] : i \in 1..Len(t)} = {s[i] : i \in 1..Len(s)} \ {Head(s)}
  <2>1. ASSUME NEW i \in 1..Len(t) PROVE t[i] \in {s[k] : k \in 1..Len(s)}
    <3>1. i + 1 \in 1..Len(s)
      BY <1>4
    <3> QED BY <1>4, <3>1
  <2>2. ASSUME NEW i \in 1..Len(s), s[i] # Head(s) PROVE s[i] \in {t[k] : k \in 1..Len(t)}
    <3>1. i - 1 \in 1..Len(t) /\ (i - 1) + 1 = i
      BY <1>4, <2>2
    <3> QED BY <1>4, <3>1
  <2>3. \A x \in {t[i] : i \in 1..Len(t)} : x # Head(s) /\ x \in {s[i] : i \in 1..Len(s)}
    BY <1>6, <2>1
  <2>4. \A x \in {s[i] : i \in 1..Len(s)} : x # Head(s) => x \in {t[i] : i \in 1..Len(t)}
    BY <2>2
  <2> QED BY <2>3, <2>4
<1>9. {u[i] : i \in 1..Len(u)} = {t[i] : i \in 1..Len(t)} \cup W
  <2>1. ASSUME NEW i \in 1..Len(u) PROVE u[i] \in {t[k] : k \in 1..Len(t)} \cup W
    <3>1. CASE i <= Len(t)
      BY <1>5, <3>1
    <3>2. CASE i > Len(t)
      <4>1. i - Len(t) \in 1..Len(q) /\ ~(i <= Len(t))
        BY <1>5, <3>2
      <4> QED BY <1>2, <1>5, <4>1
    <3> QED BY <1>5, <3>1, <3>2
  <2>2. ASSUME NEW i \in 1..Len(t) PROVE t[i] \in {u[k] : k \in 1..Len(u)}
    <3>1. i \in 1..Len(u) /\ i <= Len(t)
      BY <1>5
    <3> QED BY <1>5, <3>1
  <2>3. ASSUME NEW w \in W PROVE w \in {u[k] : k \in 1..Len(u)}
    <3>1. PICK k \in 1..Len(q) : q[k] = w
      BY <1>2
    <3>2. k + Len(t) \in 1..Len(u) /\ ~(k + Len(t) <= Len(t)) /\ (k + Len(t)) - Len(t) = k
      BY <1>5
    <3>3. u[k + Len(t)] = w
      BY <1>5, <3>1, <3>2
    <3> QED BY <3>2, <3>3
  <2> QED BY <2>1, <2>2, <2>3
<1>10. ASSUME NEW i \in 1..Len(u), NEW j \in 1..Len(u), u[i] = u[j] PROVE i = j
  <2>1. CASE i <= Len(t) /\ j <= Len(t)
    <3>1. i \in 1..Len(t) /\ j \in 1..Len(t)
      BY <1>5, <2>1
    <3> QED BY <1>5, <1>7, <1>10, <2>1, <3>1
  <2>2. CASE i > Len(t) /\ j > Len(t)
    <3>1. i - Len(t) \in 1..Len(q) /\ j - Len(t) \in 1..Len(q) /\ ~(i <= Len(t)) /\ ~(j <= Len(t))
      BY <1>5, <2>2
    <3>2. q[i - Len(t)] = q[j - Len(t)]
      BY <1>5, <1>10, <3>1
    <3>3. i - Len(t) = j - Len(t)
      BY <1>2, <3>1, <3>2
    <3> QED BY <1>5, <3>3
  <2>3. CASE i <= Len(t) /\ j > Len(t)
    <3>1. i \in 1..Len(t) /\ j - Len(t) \in 1..Len(q) /\ ~(j <= Len(t))
      BY <1>5, <2>3
    <3>2. t[i] = q[j - Len(t)]
      BY <1>5, <1>10, <2>3, <3>1
    <3> QED BY <1>2, <1>6, <3>1, <3>2
  <2>4. CASE i > Len(t) /\ j <= Len(t)
    <3>1. j \in 1..Len(t) /\ i - Len(t) \in 1..Len(q) /\ ~(i <= Len(t))
      BY <1>5, <2>4
    <3>2. t[j] = q[i - Len(t)]
      BY <1>5, <1>10, <2>4, <3>1
    <3> QED BY <1>2, <1>6, <3>1, <3>2
  <2> QED BY <1>5, <2>1, <2>2, <2>3, <2>4
<1> QED BY <1>5, <1>8, <1>9, <1>10 DEF u, t

-----------------------------------------------------------------------------
(* Domination.                                                             *)

\* The edges of a graph.
LEMMA EdgesTyped ==
    ASSUME edges \in Graphs, NEW e \in edges
    PROVE  e[1] \in Blocks /\ e[2] \in Blocks /\ e = <<e[1], e[2]>> /\ e[2] \notin Entries
BY GraphAssumption, ReachAssumption

\* The blocks that the entries lead to.
Reached ==
    {b \in Blocks : \A S \in SUBSET Blocks :
        Entries \subseteq S /\ (\A e \in edges : e[1] \in S => e[2] \in S) => b \in S}

\* An edge joins blocks that the entries lead to.
LEMMA EdgesReached ==
    ASSUME edges \in Graphs, NEW e \in edges
    PROVE  e[1] \in Reached /\ e[2] \in Reached
<1> SUFFICES ASSUME NEW S \in SUBSET Blocks, Entries \subseteq S,
                    \A d \in edges : d[1] \in S => d[2] \in S
             PROVE  e[1] \in S /\ e[2] \in S
  BY EdgesTyped DEF Reached
<1> DEFINE U == Blocks \ S
<1>1. U \in SUBSET (Blocks \ Entries)
  OBVIOUS
<1>2. ~ \E d \in edges : d[1] \notin U /\ d[2] \in U
  BY EdgesTyped
<1>3. e[1] \notin U
  BY <1>1, <1>2, ReachAssumption
<1> QED BY <1>3, EdgesTyped

\* Avoiding and Dominated, unfolded.
LEMMA AvoidingMeans ==
    ASSUME NEW a, NEW S
    PROVE  S \in Avoiding(a) <=>
             /\ S \subseteq Blocks /\ a \notin S /\ Entries \ {a} \subseteq S
             /\ \A e \in edges : e[1] \in S /\ e[2] # a => e[2] \in S
BY DEF Avoiding

LEMMA DominatedMeans ==
    ASSUME NEW a, NEW b
    PROVE  b \in Dominated(a) <=> b \in Blocks /\ (b = a \/ \E S \in Avoiding(a) : b \notin S)
BY DEF Dominated

\* Domination is transitive.
LEMMA DominatedTransitive ==
    ASSUME edges \in Graphs, NEW a \in Blocks, NEW b \in Dominated(a), NEW c \in Dominated(b)
    PROVE  c \in Dominated(a)
<1>1. CASE a = b \/ b = c
  BY <1>1
<1>2. CASE a # b /\ b # c
  <2>1. PICK S \in Avoiding(a) : b \notin S
    BY <1>2, DominatedMeans
  <2>2. PICK T \in Avoiding(b) : c \notin T
    BY <1>2, DominatedMeans
  <2>3. /\ S \subseteq Blocks /\ a \notin S /\ Entries \ {a} \subseteq S
        /\ \A e \in edges : e[1] \in S /\ e[2] # a => e[2] \in S
    BY <2>1, AvoidingMeans
  <2>4. /\ T \subseteq Blocks /\ b \notin T /\ Entries \ {b} \subseteq T
        /\ \A e \in edges : e[1] \in T /\ e[2] # b => e[2] \in T
    BY <2>2, AvoidingMeans
  <2>5. S \cap T \in Avoiding(a)
    <3>1. Entries \ {a} \subseteq S \cap T
      BY <1>2, <2>1, <2>3, <2>4
    <3>2. ASSUME NEW e \in edges, e[1] \in S \cap T, e[2] # a PROVE e[2] \in S \cap T
      BY <2>1, <2>3, <2>4, <3>2
    <3> QED BY <2>3, <3>1, <3>2, AvoidingMeans
  <2> QED BY <2>2, <2>5, DominatedMeans
<1> QED BY <1>1, <1>2

\* Two blocks that the entries lead to do not dominate each other.
LEMMA DominatedAntisymmetric ==
    ASSUME edges \in Graphs, NEW a \in Reached, NEW b \in Dominated(a), a \in Dominated(b)
    PROVE  a = b
<1> SUFFICES ASSUME a # b PROVE FALSE
  OBVIOUS
<1>1. PICK S \in Avoiding(a) : b \notin S
  BY DominatedMeans
<1>2. PICK T \in Avoiding(b) : a \notin T
  BY DominatedMeans
<1>3. /\ S \subseteq Blocks /\ a \notin S /\ Entries \ {a} \subseteq S
      /\ \A e \in edges : e[1] \in S /\ e[2] # a => e[2] \in S
  BY <1>1, AvoidingMeans
<1>4. /\ T \subseteq Blocks /\ b \notin T /\ Entries \ {b} \subseteq T
      /\ \A e \in edges : e[1] \in T /\ e[2] # b => e[2] \in T
  BY <1>2, AvoidingMeans
<1>5. Entries \subseteq S \cap T
  BY <1>1, <1>2, <1>3, <1>4
<1>6. ASSUME NEW e \in edges, e[1] \in S \cap T PROVE e[2] \in S \cap T
  BY <1>1, <1>2, <1>3, <1>4, <1>6
<1>7. a \in S \cap T
  BY <1>3, <1>5, <1>6 DEF Reached
<1> QED BY <1>3, <1>7

\* The blocks that dominate a block are a chain.
LEMMA DominatorsOrdered ==
    ASSUME edges \in Graphs, NEW a \in Blocks, NEW b \in Blocks, NEW c \in Reached,
           c \in Dominated(a), c \in Dominated(b)
    PROVE  a \in Dominated(b) \/ b \in Dominated(a)
<1> SUFFICES ASSUME a \notin Dominated(b), b \notin Dominated(a) PROVE FALSE
  OBVIOUS
<1>1. a # b /\ c # a /\ c # b
  BY DominatedMeans
<1>2. PICK S \in Avoiding(a) : c \notin S
  BY <1>1, DominatedMeans
<1>3. PICK T \in Avoiding(b) : c \notin T
  BY <1>1, DominatedMeans
<1>4. b \in S /\ a \in T
  BY <1>2, <1>3, DominatedMeans
<1>5. /\ S \subseteq Blocks /\ a \notin S /\ Entries \ {a} \subseteq S
      /\ \A e \in edges : e[1] \in S /\ e[2] # a => e[2] \in S
  BY <1>2, AvoidingMeans
<1>6. /\ T \subseteq Blocks /\ b \notin T /\ Entries \ {b} \subseteq T
      /\ \A e \in edges : e[1] \in T /\ e[2] # b => e[2] \in T
  BY <1>3, AvoidingMeans
<1>7. Entries \subseteq S \cup T
  BY <1>4, <1>5, <1>6
<1>8. ASSUME NEW e \in edges, e[1] \in S \cup T PROVE e[2] \in S \cup T
  BY <1>4, <1>5, <1>6, <1>8
<1>9. c \in S \cup T
  BY <1>5, <1>6, <1>7, <1>8 DEF Reached
<1> QED BY <1>2, <1>3, <1>9

-----------------------------------------------------------------------------
(* Natural loops.                                                          *)

\* Bits and domination.
LEMMA DominatesMeans ==
    ASSUME DominationKnown, NEW a \in Blocks, NEW b \in Blocks
    PROVE  dominates(a, b) <=> b \in Dominated(a)
BY DEF DominationKnown, dominates

\* A header is a block that an edge leads to.
LEMMA HeadersTyped ==
    ASSUME edges \in Graphs, NEW h \in Headers
    PROVE  h \in Blocks /\ h \in Reached /\ h \notin Entries
BY EdgesTyped, EdgesReached DEF Headers, BackEdges

\* The sources of the back edges of h.
LEMMA TailsMeans ==
    ASSUME edges \in Graphs, DominationKnown, NEW h \in Headers, NEW t \in Tails(h)
    PROVE  t \in Blocks /\ t \in Reached /\ t \in Dominated(h) /\ <<t, h>> \in edges
<1>1. PICK e \in BackEdges : e[2] = h /\ t = e[1]
  BY DEF Tails
<1>2. e \in edges /\ dominates(h, t)
  BY <1>1 DEF BackEdges
<1>3. t \in Blocks /\ t \in Reached /\ h \in Blocks /\ e = <<t, h>>
  BY <1>1, <1>2, EdgesTyped, EdgesReached
<1> QED BY <1>2, <1>3, DominatesMeans

\* Closed and Loop, unfolded.
LEMMA ClosedMeans ==
    ASSUME NEW h, NEW S
    PROVE  S \in Closed(h) <=>
             /\ S \subseteq Blocks /\ Tails(h) \subseteq S
             /\ \A e \in edges : e[2] \in S /\ e[2] # h => e[1] \in S
BY DEF Closed

LEMMA LoopMeans ==
    ASSUME NEW h, NEW b
    PROVE  b \in Loop(h) <=> b \in Blocks /\ (b = h \/ \A S \in Closed(h) : b \in S)
BY DEF Loop

\* The entries lead to the blocks of a loop, and its header dominates them.
LEMMA LoopBlocks ==
    ASSUME edges \in Graphs, DominationKnown, NEW h \in Headers, NEW b \in Loop(h)
    PROVE  b \in Reached /\ b \in Dominated(h)
<1>1. Reached \in Closed(h)
  <2>1. Tails(h) \subseteq Reached
    BY TailsMeans
  <2>2. \A e \in edges : e[1] \in Reached
    BY EdgesReached
  <2>3. Reached \subseteq Blocks
    BY DEF Reached
  <2> QED BY <2>1, <2>2, <2>3, ClosedMeans
<1>2. Dominated(h) \in Closed(h)
  <2>1. Tails(h) \subseteq Dominated(h)
    BY TailsMeans
  <2>2. ASSUME NEW e \in edges, e[2] \in Dominated(h), e[2] # h PROVE e[1] \in Dominated(h)
    <3>1. PICK S \in Avoiding(h) : e[2] \notin S
      BY <2>2, DominatedMeans
    <3>2. e[1] \notin S
      BY <2>2, <3>1, AvoidingMeans
    <3> QED BY <3>1, <3>2, EdgesTyped, DominatedMeans
  <2>3. Dominated(h) \subseteq Blocks
    BY DominatedMeans
  <2> QED BY <2>1, <2>2, <2>3, ClosedMeans
<1>3. h \in Reached /\ h \in Dominated(h)
  BY HeadersTyped, DominatedMeans
<1> QED BY <1>1, <1>2, <1>3, LoopMeans

\* On the way from a header to a block of its loop, a block that dominates the
\* latter is in the loop.
LEMMA LoopBetween ==
    ASSUME edges \in Graphs, DominationKnown, NEW h \in Headers, NEW b \in Loop(h),
           NEW c \in Blocks, c \in Dominated(h), b \in Dominated(c)
    PROVE  c \in Loop(h)
<1> SUFFICES ASSUME c # h, NEW C \in Closed(h), c \notin C PROVE FALSE
  BY LoopMeans
<1>1. h \in Blocks /\ h \in Reached
  BY HeadersTyped
<1>2. h \notin Dominated(c)
  BY <1>1, DominatedAntisymmetric
<1>3. b # h /\ b \in C /\ b # c
  BY <1>2, LoopMeans
<1>4. PICK S \in Avoiding(c) : b \notin S
  BY <1>3, DominatedMeans
<1>5. h \in S
  BY <1>1, <1>2, <1>4, DominatedMeans
<1>6. /\ S \subseteq Blocks /\ c \notin S /\ Entries \ {c} \subseteq S
      /\ \A e \in edges : e[1] \in S /\ e[2] # c => e[2] \in S
  BY <1>4, AvoidingMeans
<1>7. /\ C \subseteq Blocks
      /\ \A e \in edges : e[2] \in C /\ e[2] # h => e[1] \in C
  BY ClosedMeans
<1> DEFINE U == (Blocks \ C) \cup S
<1>8. U \in SUBSET Blocks /\ Entries \subseteq U
  BY <1>6, GraphAssumption
<1>9. ASSUME NEW e \in edges, e[1] \in U PROVE e[2] \in U
  <2>1. CASE e[1] \notin C
    BY <1>5, <1>7, <2>1, EdgesTyped
  <2>2. CASE e[1] \in S
    BY <1>6, <2>2
  <2> QED BY <1>9, <2>1, <2>2
<1>10. b \in U
  <2>1. b \in Reached
    BY LoopBlocks
  <2> HIDE DEF U
  <2> QED BY <1>8, <1>9, <2>1 DEF Reached
<1> QED BY <1>3, <1>4, <1>10

\* Innermost gives the header that is in all the loops.
LEMMA InnermostIs ==
    ASSUME edges \in Graphs, DominationKnown, NEW H \in SUBSET Headers,
           NEW h \in H, \A g \in H : h \in Loop(g)
    PROVE  Innermost({<<g, Loop(g)>> : g \in H}) = h
<1> DEFINE L == {<<g, Loop(g)>> : g \in H}
<1> DEFINE P(l) == \A m \in L : l[1] \in m[2]
<1>1. L # {}
  OBVIOUS
<1>2. <<h, Loop(h)>> \in L /\ P(<<h, Loop(h)>>)
  OBVIOUS
<1>3. ASSUME NEW l \in L, P(l) PROVE l[1] = h
  <2>1. PICK g \in H : l = <<g, Loop(g)>>
    OBVIOUS
  <2>2. g \in Loop(h)
    BY <1>2, <1>3, <2>1
  <2>3. h \in Loop(g)
    OBVIOUS
  <2>4. g \in Dominated(h) /\ h \in Dominated(g) /\ h \in Reached
    BY <2>2, <2>3, LoopBlocks, HeadersTyped
  <2> QED BY <2>1, <2>4, DominatedAntisymmetric
<1>4. Innermost(L) = (CHOOSE l \in L : P(l))[1]
  BY <1>1 DEF Innermost
<1>5. (CHOOSE l \in L : P(l)) \in L /\ P(CHOOSE l \in L : P(l))
  BY <1>2
<1> QED BY <1>3, <1>4, <1>5

-----------------------------------------------------------------------------
(* The sorted headers.                                                     *)

\* The least element of a set.
LEMMA MinIs ==
    ASSUME NEW S \in SUBSET Nat, S # {}
    PROVE  Min(S) \in S /\ \A k \in S : Min(S) <= k
<1>1. \E x \in S : \A y \in S : x <= y
  BY LeastElement
<1> QED BY <1>1 DEF Min

\* The first bit of a set of loops around a block is the smallest of them: the
\* headers of the others dominate it, and no header dominates one that follows.
LEMMA FirstBitInnermost ==
    ASSUME edges \in Graphs, DominationKnown, Sorted(hdrs),
           NEW H \in SUBSET Headers, H # {}, NEW b, \A h \in H : b \in Loop(h)
    PROVE  Innermost({<<h, Loop(h)>> : h \in H}) = FirstBit(H)
<1> DEFINE K == {k \in DOMAIN hdrs : hdrs[k] \in H}
<1>1. DOMAIN hdrs = 1..Len(hdrs) /\ Len(hdrs) \in Nat
  BY LenProperties DEF Sorted
<1>2. K \in SUBSET Nat /\ K # {}
  BY <1>1 DEF Sorted
<1> DEFINE k == Min(K)
<1>3. k \in K /\ \A j \in K : k <= j
  BY <1>2, MinIs
<1>4. FirstBit(H) = hdrs[k]
  BY DEF FirstBit
<1> HIDE DEF k
<1>5. k \in 1..Len(hdrs) /\ hdrs[k] \in H
  BY <1>1, <1>3
<1>6. ASSUME NEW h \in H PROVE hdrs[k] \in Loop(h)
  <2>1. PICK j \in 1..Len(hdrs) : hdrs[j] = h
    BY DEF Sorted
  <2>2. k <= j
    BY <1>1, <1>3, <2>1
  <2>3. hdrs[k] \in Blocks /\ h \in Blocks
    BY <1>5, HeadersTyped
  <2>4. CASE j = k
    BY <2>1, <2>3, <2>4, LoopMeans
  <2>5. CASE j # k
    <3>1. k < j
      BY <1>1, <1>5, <2>2, <2>5
    <3>2. ~dominates(hdrs[k], h)
      BY <1>5, <2>1, <3>1 DEF Sorted
    <3>3. h \notin Dominated(hdrs[k])
      BY <2>3, <3>2, DominatesMeans
    <3>4. b \in Dominated(h) /\ b \in Dominated(hdrs[k]) /\ b \in Reached
      BY <1>5, LoopBlocks
    <3>5. hdrs[k] \in Dominated(h)
      BY <2>3, <3>3, <3>4, DominatorsOrdered
    <3> QED BY <2>3, <3>4, <3>5, LoopBetween
  <2> QED BY <2>4, <2>5
<1> QED BY <1>4, <1>5, <1>6, InnermostIs

\* What SortedUpTo must hold after k blocks.
SortedTo(list, k) ==
    /\ list \in Seq(Headers)
    /\ \A h \in Headers : h <= k => \E i \in 1..Len(list) : list[i] = h
    /\ \A i, j \in 1..Len(list) : i < j => ~dominates(list[i], list[j])
    /\ \A i \in 1..Len(list) : list[i] <= k

\* SortedSLList::add keeps the list sorted: the headers that the new one
\* dominates are dominated by the one it is put before.
LEMMA InsertSorted ==
    ASSUME edges \in Graphs, DominationKnown, NEW k \in Nat, NEW list,
           SortedTo(list, k), k + 1 \in Headers
    PROVE  SortedTo(Insert(list, k + 1), k + 1)
<1> DEFINE h == k + 1
<1> DEFINE above == {i \in DOMAIN list : list[i] # h /\ dominates(list[i], h)}
<1> DEFINE p == IF above = {} THEN Len(list) + 1 ELSE Min(above)
<1> DEFINE new == SubSeq(list, 1, p - 1) \o <<h>> \o SubSeq(list, p, Len(list))
<1>1. Insert(list, h) = new
  BY DEF Insert
<1>2. /\ list \in Seq(Headers) /\ Len(list) \in Nat /\ DOMAIN list = 1..Len(list)
      /\ \A i \in 1..Len(list) : list[i] \in Headers /\ list[i] \in Blocks /\ list[i] <= k
  BY LenProperties, HeadersTyped DEF SortedTo
<1>3. /\ p \in 1..(Len(list) + 1)
      /\ \A i \in 1..Len(list) : i < p => ~dominates(list[i], h)
      /\ p <= Len(list) => dominates(list[p], h)
  <2>0. \A i \in 1..Len(list) : list[i] # h
    <3> TAKE i \in 1..Len(list)
    <3>1. list[i] \in Nat /\ list[i] <= k
      BY <1>2, GraphAssumption DEF Blocks
    <3> QED BY <3>1
  <2>1. CASE above = {}
    BY <1>2, <2>0, <2>1
  <2>2. CASE above # {}
    <3>1. above \in SUBSET Nat
      BY <1>2
    <3>2. Min(above) \in above /\ \A i \in above : Min(above) <= i
      BY <2>2, <3>1, MinIs
    <3>3. p = Min(above)
      BY <2>2
    <3> HIDE DEF p
    <3>4. p \in 1..Len(list) /\ dominates(list[p], h)
      BY <1>2, <3>2, <3>3
    <3>5. ASSUME NEW i \in 1..Len(list), i < p PROVE ~dominates(list[i], h)
      <4>1. i \notin above
        <5> SUFFICES ASSUME i \in above PROVE FALSE
          OBVIOUS
        <5>1. p <= i
          BY <3>2, <3>3
        <5> QED BY <1>2, <3>4, <3>5, <5>1
      <4> QED BY <1>2, <2>0, <4>1
    <3> QED BY <1>2, <3>4, <3>5
  <2> QED BY <2>1, <2>2
<1> HIDE DEF p, above
<1>4. /\ new \in Seq(Headers) /\ Len(new) = Len(list) + 1
      /\ \A i \in 1..Len(new) :
            new[i] = IF i < p THEN list[i] ELSE IF i = p THEN h ELSE list[i - 1]
  <2> DEFINE l == SubSeq(list, 1, p - 1)
  <2> DEFINE r == SubSeq(list, p, Len(list))
  <2>1. l \in Seq(Headers) /\ Len(l) = p - 1 /\ \A i \in 1..(p - 1) : l[i] = list[i]
    BY <1>2, <1>3
  <2>2. r \in Seq(Headers) /\ Len(r) = Len(list) - p + 1
        /\ \A i \in 1..(Len(list) - p + 1) : r[i] = list[p + i - 1]
    BY <1>2, <1>3
  <2> HIDE DEF l, r
  <2>3. <<h>> \in Seq(Headers) /\ Len(<<h>>) = 1 /\ <<h>>[1] = h
    OBVIOUS
  <2> DEFINE m == l \o <<h>>
  <2>4. m \in Seq(Headers) /\ Len(m) = p
    BY <1>2, <1>3, <2>1, <2>3, ConcatProperties
  <2>5. \A i \in 1..p : m[i] = IF i < p THEN list[i] ELSE h
    BY <1>2, <1>3, <2>1, <2>3
  <2> HIDE DEF m
  <2>6. m \o r \in Seq(Headers) /\ Len(m \o r) = Len(list) + 1
    <3>1. m \o r \in Seq(Headers) /\ Len(m \o r) = Len(m) + Len(r)
      BY <2>2, <2>4, ConcatProperties
    <3> QED BY <1>2, <1>3, <2>2, <2>4, <3>1
  <2>7. ASSUME NEW i \in 1..(Len(list) + 1)
        PROVE  (m \o r)[i] = IF i < p THEN list[i] ELSE IF i = p THEN h ELSE list[i - 1]
    <3>1. (m \o r)[i] = IF i <= p THEN m[i] ELSE r[i - p]
      BY <1>2, <1>3, <2>2, <2>4
    <3>2. CASE i <= p
      BY <1>3, <2>5, <3>1, <3>2
    <3>3. CASE i > p
      <4>1. i - p \in 1..(Len(list) - p + 1) /\ p + (i - p) - 1 = i - 1 /\ ~(i <= p) /\ ~(i < p) /\ i # p
        BY <1>2, <1>3, <3>3
      <4> QED BY <2>2, <3>1, <4>1
    <3>4. i <= p \/ i > p
      BY <1>2, <1>3
    <3> QED BY <3>2, <3>3, <3>4
  <2> QED BY <2>6, <2>7 DEF m, l, r
<1> HIDE DEF new
<1>5. ASSUME NEW g \in Headers, g <= h PROVE \E i \in 1..Len(new) : new[i] = g
  <2>0. g \in Nat
    BY HeadersTyped, GraphAssumption DEF Blocks
  <2>1. CASE g = h
    BY <1>2, <1>3, <1>4, <2>1
  <2>2. CASE g # h
    <3>1. g <= k
      BY <1>5, <2>0, <2>2
    <3>2. PICK i \in 1..Len(list) : list[i] = g
      BY <3>1 DEF SortedTo
    <3>3. CASE i < p
      <4>1. i \in 1..Len(new)
        BY <1>2, <1>4
      <4> QED BY <1>4, <3>2, <3>3, <4>1
    <3>4. CASE ~(i < p)
      <4>1. i + 1 \in 1..Len(new) /\ ~(i + 1 < p) /\ i + 1 # p /\ (i + 1) - 1 = i
        BY <1>2, <1>3, <1>4, <3>4
      <4>2. new[i + 1] = list[i]
        BY <1>4, <4>1
      <4> QED BY <3>2, <4>1, <4>2
    <3> QED BY <3>3, <3>4
  <2> QED BY <2>1, <2>2
<1>6. ASSUME NEW i \in 1..Len(new), NEW j \in 1..Len(new), i < j
      PROVE  ~dominates(new[i], new[j])
  <2>1. \A x, y \in 1..Len(list) : x < y => ~dominates(list[x], list[y])
    BY DEF SortedTo
  <2>2. h \in Blocks /\ h \in Reached
    BY HeadersTyped
  <2>3. CASE j < p
    BY <1>2, <1>3, <1>4, <1>6, <2>1, <2>3
  <2>4. CASE j = p
    BY <1>2, <1>3, <1>4, <1>6, <2>4
  <2>5. CASE j > p /\ i < p
    <3>1. i \in 1..Len(list) /\ j - 1 \in 1..Len(list) /\ i < j - 1
      BY <1>2, <1>3, <1>4, <2>5
    <3>2. new[i] = list[i] /\ new[j] = list[j - 1]
      BY <1>2, <1>3, <1>4, <2>5
    <3> QED BY <2>1, <3>1, <3>2
  <2>6. CASE j > p /\ i > p
    <3>1. i - 1 \in 1..Len(list) /\ j - 1 \in 1..Len(list) /\ i - 1 < j - 1
      BY <1>2, <1>3, <1>4, <1>6, <2>6
    <3>2. new[i] = list[i - 1] /\ new[j] = list[j - 1]
      BY <1>2, <1>3, <1>4, <2>6
    <3> QED BY <2>1, <3>1, <3>2
  <2>7. CASE j > p /\ i = p
    <3>1. j - 1 \in 1..Len(list) /\ p \in 1..Len(list) /\ p <= j - 1
      BY <1>2, <1>3, <1>4, <2>7
    <3>2. new[i] = h /\ new[j] = list[j - 1]
      BY <1>2, <1>3, <1>4, <2>7
    <3>3. h \in Dominated(list[p])
      BY <1>2, <1>3, <2>2, <3>1, DominatesMeans
    <3> SUFFICES ASSUME list[j - 1] \in Dominated(h) PROVE FALSE
      BY <1>2, <2>2, <3>1, <3>2, DominatesMeans
    <3>4. list[j - 1] \in Dominated(list[p])
      BY <1>2, <3>1, <3>3, DominatedTransitive
    <3>5. CASE j - 1 = p
      <4>1. list[p] = h
        BY <2>2, <3>3, <3>5, DominatedAntisymmetric
      <4>2. list[p] \in Nat /\ list[p] <= k
        BY <1>2, <3>1, GraphAssumption DEF Blocks
      <4> QED BY <4>1, <4>2
    <3>6. CASE j - 1 # p
      <4>1. p < j - 1
        BY <1>2, <3>1, <3>6
      <4> QED BY <1>2, <2>1, <3>1, <3>4, <4>1, DominatesMeans
    <3> QED BY <3>5, <3>6
  <2> QED BY <1>2, <1>3, <1>4, <2>3, <2>4, <2>5, <2>6, <2>7
<1>7. ASSUME NEW i \in 1..Len(new) PROVE new[i] <= h
  <2>1. \A j \in 1..Len(list) : list[j] \in Nat /\ list[j] <= k
    BY <1>2, GraphAssumption DEF Blocks
  <2> QED BY <1>2, <1>3, <1>4, <2>1
<1> QED BY <1>1, <1>4, <1>5, <1>6, <1>7 DEF SortedTo

\* The recursion that sorts the headers defines a function.
LEMMA SortedUpToIs ==
    ASSUME NEW k \in 0..N
    PROVE  SortedUpTo[k] = IF k = 0 THEN <<>>
                           ELSE IF k \in Headers \ Entries THEN Insert(SortedUpTo[k - 1], k)
                           ELSE SortedUpTo[k - 1]
<1> DEFINE step(f, i) == IF i = 0 THEN <<>>
                         ELSE IF i \in Headers \ Entries THEN Insert(f[i - 1], i)
                         ELSE f[i - 1]
<1> DEFINE has(n) == \E f : f = [i \in 0..n |-> step(f, i)]
<1> DEFINE A == {n \in Nat : has(n)}
<1>1. 0 \in A
  <2> DEFINE f == [i \in 0..0 |-> <<>>]
  <2>1. f = [i \in 0..0 |-> step(f, i)]
    OBVIOUS
  <2> QED BY <2>1
<1>2. ASSUME NEW n \in Nat, n \in A PROVE n + 1 \in A
  <2>1. PICK f : f = [i \in 0..n |-> step(f, i)]
    BY <1>2
  <2> DEFINE g == [i \in 0..(n + 1) |-> IF i = n + 1 THEN step(f, n + 1) ELSE f[i]]
  <2>2. ASSUME NEW i \in 0..(n + 1) PROVE g[i] = step(g, i)
    <3>1. CASE i = 0
      <4>1. i \in 0..n /\ i # n + 1
        BY <3>1
      <4>2. f[i] = step(f, i)
        BY <2>1, <4>1
      <4> QED BY <3>1, <4>1, <4>2
    <3>2. CASE i # 0
      <4>1. i - 1 \in 0..n /\ i - 1 \in 0..(n + 1) /\ i - 1 # n + 1
        BY <3>2
      <4>2. g[i - 1] = f[i - 1]
        BY <4>1
      <4>3. step(g, i) = step(f, i)
        BY <4>2
      <4>4. CASE i = n + 1
        BY <4>3, <4>4
      <4>5. CASE i # n + 1
        <5>1. i \in 0..n
          BY <4>5
        <5>2. f[i] = step(f, i)
          BY <2>1, <5>1
        <5> QED BY <4>3, <4>5, <5>2
      <4> QED BY <4>4, <4>5
    <3> QED BY <3>1, <3>2
  <2> HIDE DEF step
  <2>3. g = [i \in 0..(n + 1) |-> step(g, i)]
    <3>1. \A i \in 0..(n + 1) : g[i] = step(g, i)
      BY <2>2
    <3> QED BY <3>1
  <2>4. has(n + 1)
    BY <2>3
  <2> QED BY <2>4
<1>3. has(N)
  <2> HIDE DEF A
  <2>1. Nat \subseteq A
    BY <1>1, <1>2, NatSetInduction
  <2> QED BY <2>1, GraphAssumption DEF A
<1>4. SortedUpTo = CHOOSE f : f = [i \in 0..N |-> step(f, i)]
  BY DEF SortedUpTo
<1>5. SortedUpTo = [i \in 0..N |-> step(SortedUpTo, i)]
  <2> HIDE DEF step
  <2> QED BY <1>3, <1>4
<1>6. SortedUpTo[k] = step(SortedUpTo, k)
  <2> HIDE DEF step
  <2> QED BY <1>5
<1> QED BY <1>6

\* The constructor of LoopInfoProblem leaves all the headers, sorted.
LEMMA SortedHeadersSorted ==
    edges \in Graphs /\ DominationKnown => Sorted(SortedHeaders)
<1> SUFFICES ASSUME edges \in Graphs, DominationKnown PROVE Sorted(SortedHeaders)
  OBVIOUS
<1> DEFINE A == {n \in Nat : n <= N => SortedTo(SortedUpTo[n], n)}
<1>0. N \in Nat
  BY GraphAssumption
<1>1. 0 \in A
  <2>1. SortedUpTo[0] = <<>>
    BY <1>0, SortedUpToIs
  <2>2. \A h \in Headers : ~(h <= 0)
    BY <1>0, HeadersTyped DEF Blocks
  <2>3. SortedTo(<<>>, 0)
    BY <2>2 DEF SortedTo
  <2> QED BY <2>1, <2>3
<1>2. ASSUME NEW n \in Nat, n \in A PROVE n + 1 \in A
  <2> SUFFICES ASSUME n + 1 <= N PROVE SortedTo(SortedUpTo[n + 1], n + 1)
    OBVIOUS
  <2> DEFINE list == SortedUpTo[n]
  <2>1. n + 1 \in 0..N /\ n + 1 # 0 /\ (n + 1) - 1 = n
    BY <1>0
  <2>2. SortedTo(list, n)
    BY <1>0, <1>2, <2>1
  <2>3. SortedUpTo[n + 1] = IF n + 1 \in Headers \ Entries THEN Insert(list, n + 1) ELSE list
    BY <2>1, SortedUpToIs
  <2> HIDE DEF list
  <2>4. CASE n + 1 \in Headers
    <3>1. n + 1 \notin Entries
      BY <2>4, HeadersTyped
    <3> QED BY <2>2, <2>3, <2>4, <3>1, InsertSorted
  <2>5. CASE n + 1 \notin Headers
    <3>1. \A h \in Headers : h \in Nat /\ h # n + 1
      BY <1>0, <2>5, HeadersTyped DEF Blocks
    <3>2. \A h \in Headers : h <= n + 1 => h <= n
      BY <3>1
    <3>3. \A i \in 1..Len(list) : list[i] \in Headers
      BY <2>2, ElementOfSeq DEF SortedTo
    <3>4. \A i \in 1..Len(list) : list[i] <= n + 1
      BY <2>2, <3>1, <3>3 DEF SortedTo
    <3>5. SortedTo(list, n + 1)
      BY <2>2, <3>2, <3>4 DEF SortedTo
    <3> QED BY <2>3, <2>5, <3>5
  <2> QED BY <2>4, <2>5
<1>3. SortedTo(SortedHeaders, N)
  <2> HIDE DEF A
  <2>1. N \in A
    BY <1>0, <1>1, <1>2, NatSetInduction
  <2>2. N <= N
    BY <1>0
  <2> QED BY <2>1, <2>2 DEF A, SortedHeaders
<1>4. \A h \in Headers : h <= N
  BY <1>0, HeadersTyped DEF Blocks
<1> QED BY <1>3, <1>4 DEF SortedTo, Sorted

-----------------------------------------------------------------------------
(* The equations of the two problems.                                      *)

\* The blocks around b, and what flows out of b, are blocks.
LEMMA OutTyped ==
    ASSUME QueueInv, NEW b \in Blocks
    PROVE  Sources(b) \subseteq Blocks /\ Targets(b) \subseteq Blocks /\ Out(b) \subseteq Blocks
<1>1. Sources(b) \subseteq Blocks /\ Targets(b) \subseteq Blocks
  BY EdgesTyped DEF QueueInv, Sources, Targets
<1>2. Inputs(b) \subseteq Blocks /\ Gen(b) \subseteq Blocks
  BY <1>1 DEF Inputs, Gen
<1>3. Merge(b) \subseteq Blocks
  BY <1>2 DEF QueueInv, Merge
<1> QED BY <1>1, <1>2, <1>3 DEF Out

\* A block wakes those whose IN sets it is part of.
LEMMA InputsForward ==
    ASSUME NEW b, NEW c
    PROVE  b \in Inputs(c) <=> c \in Forward(b)
BY DEF Inputs, Forward, Sources, Targets

\* The OUT set of a block depends on the OUT sets of its inputs only.
LEMMA OutDepends ==
    ASSUME UNCHANGED <<edges, phase, dom>>, NEW c,
           \A p \in Inputs(c) : outs'[p] = outs[p]
    PROVE  Out(c)' = Out(c)
<1>1. Sources(c)' = Sources(c) /\ Targets(c)' = Targets(c)
  BY DEF Sources, Targets
<1>2. Inputs(c)' = Inputs(c)
  BY <1>1 DEF Inputs
<1>3. Merge(c)' = Merge(c)
  <2>1. CASE phase = "dominance"
    BY <1>2, <2>1 DEF Merge
  <2>2. CASE phase # "dominance"
    <3>1. {outs'[p] : p \in Inputs(c)} = {outs[p] : p \in Inputs(c)}
      OBVIOUS
    <3> QED BY <1>2, <2>2, <3>1 DEF Merge
  <2> QED BY <2>1, <2>2
<1>4. Gen(c)' = Gen(c)
  BY <1>1 DEF Gen, dominates
<1>5. Kill(c)' = Kill(c)
  BY DEF Kill, Headers, BackEdges, dominates
<1> QED BY <1>3, <1>4, <1>5 DEF Out

-----------------------------------------------------------------------------
(* IterativeDFA::compute keeps the invariant.                              *)

LEMMA ProcessQueue == QueueInv /\ Process => QueueInv'
<1> SUFFICES ASSUME QueueInv, Process PROVE QueueInv'
  OBVIOUS
<1> DEFINE b == Head(todo)
<1> DEFINE woken == IF Out(b) = outs[b] THEN {} ELSE Forward(b) \ (present \ {b})
<1>1. /\ todo \in Seq(Blocks) /\ todo # <<>>
      /\ \A i, j \in 1..Len(todo) : todo[i] = todo[j] => i = j
      /\ present = {todo[i] : i \in 1..Len(todo)}
  BY DEF QueueInv, Process
<1>2. b \in Blocks
  BY <1>1
<1>3. PICK q \in Orders(woken) : todo' = Tail(todo) \o q
  BY DEF Process
<1>4. woken \subseteq Blocks
  BY <1>2, OutTyped DEF Forward
<1>5. \A i \in 2..Len(todo) : todo[i] \notin woken
  <2> TAKE i \in 2..Len(todo)
  <2>1. i \in 1..Len(todo) /\ 1 \in 1..Len(todo) /\ i # 1 /\ b = todo[1]
    BY <1>1
  <2>2. todo[i] \in present \ {b}
    BY <1>1, <2>1
  <2> QED BY <2>2
<1>6. present' = (present \ {b}) \cup woken
  BY DEF Process
<1> HIDE DEF woken
<1>7. /\ todo' \in Seq(Blocks)
      /\ {todo'[i] : i \in 1..Len(todo')} = (present \ {b}) \cup woken
      /\ \A i, j \in 1..Len(todo') : todo'[i] = todo'[j] => i = j
  <2> HIDE DEF b
  <2> DEFINE u == Tail(todo) \o q
  <2>1. /\ u \in Seq(Blocks)
        /\ {u[i] : i \in 1..Len(u)} = ({todo[i] : i \in 1..Len(todo)} \ {Head(todo)}) \cup woken
        /\ \A i, j \in 1..Len(u) : u[i] = u[j] => i = j
    <3>1. woken \in SUBSET Blocks
      BY <1>4
    <3> QED BY <1>1, <1>3, <1>5, <3>1, QueueTail
  <2> HIDE DEF u
  <2>2. todo' = u
    BY <1>3 DEF u
  <2>3. {todo'[i] : i \in 1..Len(todo')} = {u[i] : i \in 1..Len(u)}
    BY <2>2
  <2>4. {u[i] : i \in 1..Len(u)} = (present \ {b}) \cup woken
    BY <1>1, <2>1 DEF b
  <2> QED BY <2>1, <2>2, <2>3, <2>4
<1>8. outs' \in [Blocks -> SUBSET Blocks]
  <2>1. Out(b) \in SUBSET Blocks /\ outs \in [Blocks -> SUBSET Blocks]
    BY <1>2, OutTyped DEF QueueInv
  <2>2. outs' = [outs EXCEPT ![b] = Out(b)]
    BY DEF Process
  <2> QED BY <1>2, <2>1, <2>2
<1> QED BY <1>6, <1>7, <1>8 DEF QueueInv, Process

LEMMA ProcessSettled == QueueInv /\ Settled /\ Process => Settled'
<1> SUFFICES ASSUME QueueInv, Settled, Process, NEW c \in Blocks \ present'
             PROVE  outs'[c] = Out(c)'
  BY DEF Settled
<1> DEFINE b == Head(todo)
<1>1. b \in Blocks
  BY DEF QueueInv, Process
<1>2. /\ outs \in [Blocks -> SUBSET Blocks] /\ outs' = [outs EXCEPT ![b] = Out(b)]
      /\ UNCHANGED <<edges, phase, dom>>
  BY DEF QueueInv, Process
<1>3. /\ c \notin present \ {b}
      /\ c \in Forward(b) => Out(b) = outs[b]
  BY DEF Process
<1>4. \A p \in Blocks : p # b => outs'[p] = outs[p]
  BY <1>1, <1>2
<1>5. outs'[b] = Out(b)
  BY <1>1, <1>2
<1> HIDE DEF b
<1>6. \A p \in Inputs(c) : outs'[p] = outs[p]
  <2> TAKE p \in Inputs(c)
  <2>1. p \in Blocks
    BY OutTyped DEF Inputs
  <2> QED BY <1>3, <1>4, <1>5, <2>1, InputsForward
<1>7. Out(c)' = Out(c)
  BY <1>2, <1>6, OutDepends
<1>8. CASE c = b
  BY <1>5, <1>7, <1>8
<1>9. CASE c # b
  BY <1>3, <1>4, <1>7, <1>9 DEF Settled
<1> QED BY <1>8, <1>9

\* Reference sets depend on the graph only.
LEMMA DominatedStable ==
    ASSUME edges' = edges, NEW a
    PROVE  Dominated(a)' = Dominated(a)
BY DEF Dominated, Avoiding

\* A block that a dominates is not an entry, unless it is a, and a dominates or
\* is each block with an edge to it: the bit of a is never lost.
LEMMA ProcessDominance == QueueInv /\ DominanceInv /\ Process => DominanceInv'
<1> SUFFICES ASSUME QueueInv, DominanceInv, Process PROVE DominanceInv'
  OBVIOUS
<1> DEFINE b == Head(todo)
<1>1. b \in Blocks
  BY DEF QueueInv, Process
<1>2. /\ outs \in [Blocks -> SUBSET Blocks] /\ outs' = [outs EXCEPT ![b] = Out(b)]
      /\ UNCHANGED <<edges, phase, dom>>
  BY DEF QueueInv, Process
<1>3. \A a : Dominated(a)' = Dominated(a)
  BY <1>2, DominatedStable
<1>4. CASE phase = "dominance"
  <2> SUFFICES ASSUME NEW a \in Blocks, NEW c \in Dominated(a) PROVE a \in outs'[c]
    BY <1>2, <1>3, <1>4 DEF DominanceInv
  <2>1. a \in outs[c] /\ c \in Blocks
    BY <1>4, DominatedMeans DEF DominanceInv
  <2>2. CASE c # b
    BY <1>1, <1>2, <2>1, <2>2
  <2>3. CASE c = b /\ c = a
    BY <1>1, <1>2, <1>4, <2>3 DEF Out, Gen
  <2>4. CASE c = b /\ c # a
    <3>1. PICK S \in Avoiding(a) : c \notin S
      BY <2>4, DominatedMeans
    <3>2. c \notin Entries
      BY <2>4, <3>1, AvoidingMeans
    <3>3. ASSUME NEW p \in Sources(c) PROVE a \in outs[p]
      <4>1. PICK e \in edges : e[2] = c /\ e[1] = p
        BY DEF Sources
      <4>2. p \in Blocks
        BY <4>1, EdgesTyped DEF QueueInv
      <4>3. p \notin S
        BY <2>4, <3>1, <4>1, AvoidingMeans
      <4>4. p \in Dominated(a)
        BY <3>1, <4>2, <4>3, DominatedMeans
      <4> QED BY <1>4, <4>4 DEF DominanceInv
    <3>4. a \in Out(c)
      BY <1>4, <3>2, <3>3 DEF Out, Merge, Kill, Inputs
    <3> QED BY <1>1, <1>2, <2>4, <3>4
  <2> QED BY <2>2, <2>3, <2>4
<1>5. CASE phase # "dominance"
  BY <1>2, <1>3, <1>5 DEF DominanceInv, DominationKnown
<1> QED BY <1>4, <1>5

\* The natural loops depend on the graph and on the domination.
LEMMA LoopsStable ==
    ASSUME UNCHANGED <<edges, dom>>
    PROVE  /\ Headers' = Headers
           /\ \A h : Loop(h)' = Loop(h)
<1>1. BackEdges' = BackEdges
  BY DEF BackEdges, dominates
<1>2. Headers' = Headers
  BY <1>1 DEF Headers
<1>3. ASSUME NEW h PROVE Loop(h)' = Loop(h)
  BY <1>1 DEF Loop, Closed, Tails
<1> QED BY <1>2, <1>3

\* A header that flows into b is that of a loop around b: from b one reaches the
\* back edge without the header.
LEMMA ProcessLoops == QueueInv /\ DominanceInv /\ LoopInv /\ Process => LoopInv'
<1> SUFFICES ASSUME QueueInv, DominanceInv, LoopInv, Process PROVE LoopInv'
  OBVIOUS
<1>0. phase' = phase /\ UNCHANGED <<edges, dom>>
  BY DEF Process
<1> SUFFICES ASSUME phase = "loops", NEW c \in Blocks, NEW h \in outs'[c]
             PROVE  h \in Headers /\ h # c /\ c \in Loop(h)
  BY <1>0, LoopsStable DEF LoopInv
<1> DEFINE b == Head(todo)
<1>1. b \in Blocks
  BY DEF QueueInv, Process
<1>2. outs \in [Blocks -> SUBSET Blocks] /\ outs' = [outs EXCEPT ![b] = Out(b)]
  BY DEF QueueInv, Process
<1>3. edges \in Graphs /\ DominationKnown
  BY DEF QueueInv, DominanceInv
<1>4. CASE c # b
  BY <1>1, <1>2, <1>4 DEF LoopInv
<1>5. CASE c = b
  <2>1. h \in Out(c)
    BY <1>1, <1>2, <1>5
  <2>2. CASE h \in Gen(c)
    <3>1. h \in Targets(c) /\ h # c /\ dominates(h, c)
      BY <2>2 DEF Gen
    <3>2. PICK e \in edges : e[1] = c /\ e[2] = h
      BY <3>1 DEF Targets
    <3>3. e \in BackEdges
      BY <3>1, <3>2 DEF BackEdges
    <3>4. h \in Headers /\ c \in Tails(h)
      BY <3>2, <3>3 DEF Headers, Tails
    <3>5. c \in Loop(h)
      BY <3>4, LoopMeans, ClosedMeans
    <3> QED BY <3>1, <3>4, <3>5
  <2>3. CASE h \in Merge(c) \ Kill(c)
    <3>1. PICK p \in Targets(c) : h \in outs[p]
      BY <2>3 DEF Merge, Inputs
    <3>2. PICK e \in edges : e[1] = c /\ e[2] = p
      BY <3>1 DEF Targets
    <3>3. p \in Blocks
      BY <1>3, <3>2, EdgesTyped
    <3>4. h \in Headers /\ h # p /\ p \in Loop(h)
      BY <3>1, <3>3 DEF LoopInv
    <3>5. h # c
      BY <2>3, <3>4 DEF Kill
    <3>6. \A S \in Closed(h) : c \in S
      <4> TAKE S \in Closed(h)
      <4>1. p \in S
        BY <3>4, LoopMeans
      <4> QED BY <3>2, <3>4, <4>1, ClosedMeans
    <3> QED BY <3>4, <3>5, <3>6, LoopMeans
  <2> QED BY <2>1, <2>2, <2>3 DEF Out
<1> QED BY <1>4, <1>5

\* The rest of the invariant does not depend on the queue.
LEMMA ProcessRest == HeadersInv /\ InfoInv /\ Process => HeadersInv' /\ InfoInv'
<1> SUFFICES ASSUME HeadersInv, InfoInv, Process PROVE HeadersInv' /\ InfoInv'
  OBVIOUS
<1>1. UNCHANGED <<edges, phase, dom, hdrs, enclosing, exitOf>> /\ phase # "found"
  BY DEF Process, info
<1>2. Headers' = Headers
  BY <1>1, LoopsStable
<1>3. HeadersInv'
  BY <1>1, <1>2 DEF HeadersInv, Sorted, dominates
<1>4. InfoInv'
  BY <1>1 DEF InfoInv, EnclosingCorrect, ExitEdgesCorrect
<1> QED BY <1>3, <1>4

-----------------------------------------------------------------------------
(* The ends of the iterations.                                             *)

\* The queue being empty, every block has the OUT set of its equation.
LEMMA AllSettled ==
    ASSUME QueueInv, Settled, todo = <<>>, NEW b \in Blocks
    PROVE  outs[b] = Out(b)
BY DEF QueueInv, Settled

\* The blocks without the bit of a make a set that avoids a: the bits are
\* domination.
LEMMA DominanceFound ==
    ASSUME QueueInv, Settled, DominanceInv, phase = "dominance", todo = <<>>, NEW a \in Blocks
    PROVE  Dominated(a) = {b \in Blocks : a \in outs[b]}
<1> DEFINE S == {b \in Blocks : a \notin outs[b]}
<1>1. S \subseteq Blocks /\ a \notin S
  BY AllSettled DEF Out, Gen
<1>2. ASSUME NEW b \in Entries \ {a} PROVE b \in S
  BY GraphAssumption, AllSettled DEF Out, Gen, Kill, Merge
<1>3. ASSUME NEW e \in edges, e[1] \in S, e[2] # a PROVE e[2] \in S
  <2>1. e[1] \in Blocks /\ e[2] \in Blocks /\ e[1] \in Sources(e[2])
    BY EdgesTyped DEF QueueInv, Sources
  <2>2. a \notin Merge(e[2])
    BY <1>3, <2>1 DEF Merge, Inputs
  <2> QED BY <1>3, <2>1, <2>2, AllSettled DEF Out, Gen
<1>4. S \in Avoiding(a)
  BY <1>1, <1>2, <1>3, AvoidingMeans
<1>5. ASSUME NEW b \in Blocks, a \in outs[b] PROVE b \in Dominated(a)
  BY <1>4, <1>5, DominatedMeans
<1>6. ASSUME NEW b \in Dominated(a) PROVE b \in Blocks /\ a \in outs[b]
  BY DominatedMeans DEF DominanceInv
<1> QED BY <1>5, <1>6

\* The blocks with the bit of h, and h, make a closed set: the bits are the
\* loops around the block.
LEMMA LoopsFound ==
    ASSUME QueueInv, Settled, DominanceInv, LoopInv, phase = "loops", todo = <<>>,
           NEW b \in Blocks
    PROVE  outs[b] = {h \in Headers : h # b /\ b \in Loop(h)}
<1>1. edges \in Graphs /\ DominationKnown
  BY DEF QueueInv, DominanceInv
<1>2. \A h \in outs[b] : h \in Headers /\ h # b /\ b \in Loop(h)
  BY DEF LoopInv
<1>3. ASSUME NEW h \in Headers, h # b, b \in Loop(h) PROVE h \in outs[b]
  <2> DEFINE S == {c \in Blocks : h \in outs[c]} \cup {h}
  <2>1. h \in Blocks
    BY <1>1, HeadersTyped
  <2>2. ASSUME NEW t \in Tails(h) PROVE t \in S
    <3>1. t \in Blocks /\ t \in Dominated(h) /\ <<t, h>> \in edges
      BY <1>1, TailsMeans
    <3>2. h \in Targets(t) /\ dominates(h, t)
      BY <1>1, <2>1, <3>1, DominatesMeans DEF Targets
    <3>3. t # h => h \in outs[t]
      BY <3>1, <3>2, AllSettled DEF Out, Gen
    <3> QED BY <3>1, <3>3
  <2>3. ASSUME NEW e \in edges, e[2] \in S, e[2] # h PROVE e[1] \in S
    <3>1. e[1] \in Blocks /\ e[2] \in Blocks /\ e[2] \in Targets(e[1])
      BY <1>1, EdgesTyped DEF Targets
    <3>2. h \in Merge(e[1])
      BY <2>3, <3>1 DEF Merge, Inputs
    <3>3. e[1] # h => h \in outs[e[1]]
      BY <3>1, <3>2, AllSettled DEF Out, Kill
    <3> QED BY <3>1, <3>3
  <2>4. S \in Closed(h)
    BY <2>1, <2>2, <2>3, ClosedMeans
  <2> QED BY <1>3, <2>4, LoopMeans
<1> QED BY <1>2, <1>3

\* LoopSet is the set of the headers whose loops contain b.
LEMMA LoopSetFound ==
    ASSUME QueueInv, Settled, DominanceInv, LoopInv, phase = "loops", todo = <<>>,
           NEW b \in Blocks
    PROVE  LoopSet(b) = {h \in Headers : b \in Loop(h)}
BY LoopsFound, LoopMeans DEF LoopSet

\* Dominance::processCFG and the constructor of LoopInfoProblem.
LEMMA StoreDominanceInv == LoopInfoInv /\ StoreDominance => LoopInfoInv'
<1> SUFFICES ASSUME LoopInfoInv, StoreDominance PROVE LoopInfoInv'
  OBVIOUS
<1> USE DEF LoopInfoInv
<1>1. /\ phase = "dominance" /\ todo = <<>> /\ dom' = outs /\ edges' = edges
      /\ hdrs' = SortedHeaders' /\ todo' = AllBlocks /\ present' = Blocks
      /\ outs' = [b \in Blocks |-> {}] /\ phase' = (IF Headers' = {} THEN "found" ELSE "loops")
      /\ UNCHANGED <<enclosing, exitOf>>
  BY DEF StoreDominance, info
<1>2. QueueInv'
  <2>1. todo' \in Seq(Blocks) /\ Len(todo') = N /\ \A i \in 1..N : todo'[i] = i
    BY <1>1, GraphAssumption DEF AllBlocks, Blocks
  <2>2. present' = {todo'[i] : i \in 1..Len(todo')}
    BY <1>1, <2>1 DEF Blocks
  <2>3. outs' \in [Blocks -> SUBSET Blocks] /\ dom' \in [Blocks -> SUBSET Blocks]
    BY <1>1 DEF QueueInv
  <2>4. edges' \in Graphs /\ phase' \in {"dominance", "loops", "found"}
    BY <1>1 DEF QueueInv
  <2> QED BY <2>1, <2>2, <2>3, <2>4 DEF QueueInv
<1>3. Settled'
  BY <1>1 DEF Settled
<1>4. DominationKnown'
  <2>1. \A a \in Blocks : Dominated(a)' = {b \in Blocks : a \in dom'[b]}
    BY <1>1, DominatedStable, DominanceFound
  <2> QED BY <2>1 DEF DominationKnown
<1>5. phase' # "dominance"
  BY <1>1
<1>6. DominanceInv'
  BY <1>4, <1>5 DEF DominanceInv
<1>7. LoopInv'
  BY <1>1 DEF LoopInv
<1>8. HeadersInv'
  <2>1. (edges \in Graphs /\ DominationKnown => Sorted(SortedHeaders))'
    BY SortedHeadersSorted, PTL
  <2>2. (edges \in Graphs)'
    BY <1>2 DEF QueueInv
  <2>3. Sorted(SortedHeaders)'
    BY <1>4, <2>1, <2>2
  <2> QED BY <1>1, <2>3 DEF HeadersInv, Sorted
<1>9. InfoInv'
  <2>1. enclosing = [b \in Blocks |-> NoBlock] /\ exitOf = [e \in edges |-> NoBlock]
    BY <1>1 DEF InfoInv
  <2>2. phase' = "found" => Headers' = {}
    BY <1>1
  <2>3. phase' = "found" => Loops' = {}
    BY <2>2 DEF Loops
  <2>4. Innermost({}) = NoBlock
    BY DEF Innermost
  <2>5. EnclosingCorrect'
    BY <1>1, <2>1, <2>3, <2>4 DEF EnclosingCorrect
  <2>6. ExitEdgesCorrect'
    BY <1>1, <2>1, <2>3, <2>4 DEF ExitEdgesCorrect
  <2> QED BY <1>1, <2>1, <2>5, <2>6 DEF InfoInv
<1> QED BY <1>2, <1>3, <1>6, <1>7, <1>8, <1>9

\* The end of LoopInfoBuilder::processCFG.
LEMMA StoreLoopInfoInv == LoopInfoInv /\ StoreLoopInfo => LoopInfoInv'
<1> SUFFICES ASSUME LoopInfoInv, StoreLoopInfo PROVE LoopInfoInv'
  OBVIOUS
<1> USE DEF LoopInfoInv
<1>1. /\ phase = "loops" /\ todo = <<>> /\ phase' = "found"
      /\ UNCHANGED <<edges, todo, present, outs, dom, hdrs>>
  BY DEF StoreLoopInfo, dfa
<1>2. /\ edges \in Graphs /\ DominationKnown /\ Sorted(hdrs)
      /\ enclosing = [b \in Blocks |-> NoBlock] /\ exitOf = [e \in edges |-> NoBlock]
  BY <1>1 DEF QueueInv, DominanceInv, HeadersInv, InfoInv
<1>3. Headers' = Headers /\ \A h : Loop(h)' = Loop(h)
  BY <1>1, LoopsStable
<1>4. Loops' = {<<h, Loop(h)>> : h \in Headers}
  BY <1>3 DEF Loops
<1>5. ASSUME NEW b \in Blocks
      PROVE  enclosing'[b] = Innermost({l \in Loops' : l[1] # b /\ b \in l[2]})
  <2>1. outs[b] = {h \in Headers : h # b /\ b \in Loop(h)}
    BY <1>1, LoopsFound
  <2>2. {l \in Loops' : l[1] # b /\ b \in l[2]} = {<<h, Loop(h)>> : h \in outs[b]}
    BY <1>4, <2>1
  <2>3. enclosing'[b] = IF outs[b] = {} THEN NoBlock ELSE FirstBit(outs[b])
    BY <1>2 DEF StoreLoopInfo
  <2>4. CASE outs[b] = {}
    BY <2>2, <2>3, <2>4 DEF Innermost
  <2>5. CASE outs[b] # {}
    <3>1. outs[b] \in SUBSET Headers /\ \A h \in outs[b] : b \in Loop(h)
      BY <2>1
    <3>2. Innermost({<<h, Loop(h)>> : h \in outs[b]}) = FirstBit(outs[b])
      BY <1>2, <2>5, <3>1, FirstBitInnermost
    <3> QED BY <2>2, <2>3, <2>5, <3>2
  <2> QED BY <2>4, <2>5
<1>6. ASSUME NEW e \in edges
      PROVE  exitOf'[e] = Innermost({l \in Loops' : e[1] \in l[2] /\ e[2] \notin l[2]})
  <2>0. e[1] \in Blocks /\ e[2] \in Blocks
    BY <1>2, EdgesTyped
  <2>1. Left(e) = {h \in Headers : e[1] \in Loop(h) /\ e[2] \notin Loop(h)}
    <3>1. LoopSet(e[1]) = {h \in Headers : e[1] \in Loop(h)}
      BY <1>1, <2>0, LoopSetFound
    <3>2. LoopSet(e[2]) = {h \in Headers : e[2] \in Loop(h)}
      BY <1>1, <2>0, LoopSetFound
    <3> QED BY <3>1, <3>2 DEF Left
  <2>2. {l \in Loops' : e[1] \in l[2] /\ e[2] \notin l[2]} = {<<h, Loop(h)>> : h \in Left(e)}
    BY <1>4, <2>1
  <2>3. exitOf'[e] = IF Left(e) = {} THEN NoBlock ELSE FirstBit(Left(e))
    BY <1>2 DEF StoreLoopInfo
  <2>4. CASE Left(e) = {}
    BY <2>2, <2>3, <2>4 DEF Innermost
  <2>5. CASE Left(e) # {}
    <3>1. Left(e) \in SUBSET Headers /\ \A h \in Left(e) : e[1] \in Loop(h)
      BY <2>1
    <3>2. Innermost({<<h, Loop(h)>> : h \in Left(e)}) = FirstBit(Left(e))
      BY <1>2, <2>5, <3>1, FirstBitInnermost
    <3> QED BY <2>2, <2>3, <2>5, <3>2
  <2> QED BY <2>4, <2>5
<1>7. InfoInv'
  <2>1. EnclosingCorrect'
    BY <1>5 DEF EnclosingCorrect
  <2>2. ExitEdgesCorrect'
    BY <1>1, <1>6 DEF ExitEdgesCorrect
  <2> QED BY <1>1, <2>1, <2>2 DEF InfoInv
<1>8. QueueInv'
  BY <1>1 DEF QueueInv
<1>9. Settled'
  <2> SUFFICES ASSUME NEW b \in Blocks PROVE outs'[b] = Out(b)'
    BY DEF Settled
  <2>1. outs[b] = Out(b)
    BY <1>1, AllSettled
  <2>2. Out(b)' = Out(b)
    BY <1>1, <1>3 DEF Out, Merge, Kill, Gen, Inputs, Targets, dominates
  <2> QED BY <1>1, <2>1, <2>2
<1>10. DominanceInv'
  BY <1>1, <1>2, DominatedStable DEF DominanceInv, DominationKnown
<1>11. LoopInv' /\ HeadersInv'
  BY <1>1, <1>2, <1>3 DEF LoopInv, HeadersInv, Sorted, dominates
<1> QED BY <1>7, <1>8, <1>9, <1>10, <1>11

-----------------------------------------------------------------------------
(* The theorems.                                                           *)

\* Nothing is found yet, all the sets are full and all the blocks are queued.
LEMMA LoopInfoInit == LoopInit => LoopInfoInv
<1> SUFFICES ASSUME LoopInit PROVE LoopInfoInv
  OBVIOUS
<1> USE DEF LoopInit, LoopStart
<1>1. QueueInv
  <2>1. todo \in Seq(Blocks) /\ Len(todo) = N /\ \A i \in 1..N : todo[i] = i
    BY GraphAssumption DEF AllBlocks, Blocks
  <2>2. present = {todo[i] : i \in 1..Len(todo)}
    BY <2>1 DEF Blocks
  <2> QED BY <2>1, <2>2 DEF QueueInv
<1>2. Settled
  BY DEF Settled
<1>3. DominanceInv
  BY DominatedMeans DEF DominanceInv
<1>4. LoopInv /\ HeadersInv
  BY DEF LoopInv, HeadersInv
<1>5. InfoInv
  BY DEF InfoInv, EnclosingCorrect, ExitEdgesCorrect
<1> QED BY <1>1, <1>2, <1>3, <1>4, <1>5 DEF LoopInfoInv

\* The invariant of Dominance and LoopInfoBuilder holds in every state of every
\* run on every graph.
THEOREM LoopInfoInvariant == LoopSpec => []LoopInfoInv
<1>1. ASSUME LoopInfoInv, LoopNext PROVE LoopInfoInv'
  <2>1. CASE Process
    BY <1>1, <2>1, ProcessQueue, ProcessSettled, ProcessDominance, ProcessLoops, ProcessRest
       DEF LoopInfoInv
  <2>2. CASE StoreDominance
    BY <1>1, <2>2, StoreDominanceInv
  <2>3. CASE StoreLoopInfo
    BY <1>1, <2>3, StoreLoopInfoInv
  <2> QED BY <1>1, <2>1, <2>2, <2>3 DEF LoopNext
<1>2. ASSUME LoopInfoInv, UNCHANGED loopVars PROVE LoopInfoInv'
  <2>1. UNCHANGED <<edges, phase, todo, present, outs, dom, hdrs, enclosing, exitOf>>
    BY <1>2 DEF loopVars
  <2>2. Headers' = Headers /\ \A h : Loop(h)' = Loop(h)
    BY <2>1, LoopsStable
  <2>3. \A a : Dominated(a)' = Dominated(a)
    BY <2>1, DominatedStable
  <2>4. \A b : Out(b)' = Out(b)
    BY <2>1, OutDepends
  <2>5. Loops' = Loops
    BY <2>2 DEF Loops
  <2>6. QueueInv' /\ Settled'
    BY <1>2, <2>1, <2>4 DEF LoopInfoInv, QueueInv, Settled
  <2>7. DominanceInv' /\ LoopInv'
    BY <1>2, <2>1, <2>2, <2>3 DEF LoopInfoInv, DominanceInv, DominationKnown, LoopInv
  <2>8. HeadersInv'
    BY <1>2, <2>1, <2>2 DEF LoopInfoInv, HeadersInv, Sorted, dominates
  <2>9. InfoInv'
    BY <1>2, <2>1, <2>5 DEF LoopInfoInv, InfoInv, EnclosingCorrect, ExitEdgesCorrect
  <2> QED BY <2>6, <2>7, <2>8, <2>9 DEF LoopInfoInv
<1> QED BY <1>1, <1>2, LoopInfoInit, PTL DEF LoopSpec

\* Dominance computes domination, whatever the graph and the order in which the
\* iteration takes the blocks.
THEOREM DominanceTheorem == LoopSpec => []DominanceCorrect
<1>1. LoopInfoInv => DominanceCorrect
  BY DEF LoopInfoInv, DominanceInv, DominationKnown, DominanceCorrect
<1> QED BY <1>1, LoopInfoInvariant, PTL

\* ENCLOSING_LOOP_HEADER is the header of the smallest natural loop around the
\* block: sorting by a partial order is enough, for the headers of the loops
\* around a block are a chain.
THEOREM EnclosingTheorem == LoopSpec => []EnclosingCorrect
<1>1. LoopInfoInv => EnclosingCorrect
  BY DEF LoopInfoInv, InfoInv
<1> QED BY <1>1, LoopInfoInvariant, PTL

\* LOOP_EXIT_EDGE marks the edges that leave a natural loop and no other, with
\* the header of the smallest loop they leave.
THEOREM ExitEdgesTheorem == LoopSpec => []ExitEdgesCorrect
<1>1. LoopInfoInv => ExitEdgesCorrect
  BY DEF LoopInfoInv, InfoInv
<1> QED BY <1>1, LoopInfoInvariant, PTL
=============================================================================
