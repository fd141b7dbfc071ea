-------------------------- MODULE FlowFactsProofs --------------------------
(***************************************************************************)
(* The context that ContextualProcessor follows is that of the block it is   *)
(* at, and the bounds that ipet::FlowFactLoader puts on the loop headers     *)
(* come from facts that apply to them, for all the programs whose inlined    *)
(* calls return to their callers.                                            *)
(***************************************************************************)
EXTENDS FlowFacts, VirtualizerProofs

-----------------------------------------------------------------------------
(* The facts loaded.                                                       *)

FactSet == [inst : Insts, max : Nat, path : Seq({"FUNCTION", "CALL"} \X Insts)]
NodeOf(a) == <<a.inst, Reverse(a.path)>>
Read == Len(prog.facts) - Len(unread)

\* The facts are read in their order; each bound is on the node of a fact read,
\* and is not below any of the facts of this node.
FactsInv ==
    /\ unread \in Seq(FactSet) /\ Read \in Nat
    /\ \A j \in 1..Len(unread) : unread[j] = prog.facts[Read + j]
    /\ \A d \in DOMAIN bounds : bounds[d] \in Nat /\ \E k \in 1..Read : d = NodeOf(prog.facts[k])
    /\ \A k \in 1..Read :
          /\ NodeOf(prog.facts[k]) \in DOMAIN bounds
          /\ prog.facts[k].max <= bounds[NodeOf(prog.facts[k])]
          /\ \A n \in Prefixes(Reverse(prog.facts[k].path)) : <<prog.facts[k].inst, n>> \in nodes

-----------------------------------------------------------------------------
(* The virtual CFGs.                                                       *)

\* c is the beginning of d.
Within(c, d) == Len(c) <= Len(d) /\ \A i \in 1..Len(c) : c[i] = d[i]

\* The function that a context of the virtual CFG r is in.
HeadOf(r, c) == IF c = <<>> THEN r ELSE Last(c)[2]

EntryEdge(e) == e[1] = EntryOf(e[1][1]) /\ e[2] = <<e[1][1], <<>>, e[1][1]>>
InlinedEdge(e) ==
    /\ e[1] \in DOMAIN returnBlock
    /\ e[2] = <<e[1][1], Append(e[1][2], <<e[1][3], e[2][3]>>), e[2][3]>>
    /\ e[2][3] \in Insts
LoopEdge(e) ==
    /\ e \in loops /\ e[2] \in VirtualBlocks
    /\ e[1][1] = e[2][1] => Within(e[2][2], e[1][2]) /\ e[2][3] = HeadOf(e[2][1], e[2][2])

\* The edges of a function stay in their context, those of the inlined calls
\* add one to it, and those of the recursive calls go back to one around it.
EdgeShape(e) ==
    /\ e[1] \in VirtualBlocks /\ e[1][1] \in Insts
    /\ \/ EntryEdge(e) /\ e[3] = "VIRTUAL_CALL"
       \/ /\ e[1][3] \in Insts
          /\ e[3] \in {"TAKEN", "NOT_TAKEN"} =>
                e[2] = <<e[1][1], e[1][2], e[2][3]>> /\ e[2][3] \in Insts
          /\ e[3] = "VIRTUAL_CALL" => InlinedEdge(e) \/ LoopEdge(e)

GraphInv ==
    /\ IsFiniteSet(vedges)
    /\ \A e \in vedges : EdgeShape(e)
    /\ \A v \in DOMAIN returnBlock : v[3] \in Insts

\* A call of virtualize() is for the function of its context; those around it
\* in the same virtual CFG have contexts around its own.
FrameShape(f) ==
    /\ f.root \in cfgMap
    /\ f.cfg = HeadOf(f.root, f.ctx)
    /\ f.src # NoBlock => \E b \in Insts : f.src = <<f.root, f.ctx, b>>
    /\ f.called # <<>> => f.src # NoBlock

StackInv ==
    /\ \A k \in DOMAIN stack : FrameShape(stack[k])
    /\ \A j, k \in DOMAIN stack :
          j < k /\ stack[j].root = stack[k].root => Within(stack[j].ctx, stack[k].ctx)

-----------------------------------------------------------------------------
(* The traversal.                                                          *)

PathOf(r, c) ==
    [k \in 1..(2 * Len(c) + 1) |->
        IF k = 1 THEN Fun(r)
        ELSE IF k % 2 = 0 THEN Call(top[c[k \div 2][1]])
        ELSE Fun(c[k \div 2][2])]

\* The block v of the virtual CFG r has n calls around it, the first ones of c.
AtDepth(v, r, n, c) ==
    v \in VirtualBlocks /\ v[1] = r /\ v[3] \in Insts /\ Len(v[2]) = n /\ Within(v[2], c)

\* The stack t of edges of E is cut by n null edges, one for each call entered;
\* L gives the number of calls entered when an edge was put on it, which comes
\* from a block with these calls around it, those of c.
Levels(E, t, n, r, c, L) ==
    /\ \A j, k \in DOMAIN t : j <= k => L[j] <= L[k]
    /\ \A k \in DOMAIN t :
          IF t[k] = Null THEN L[k] >= 1 /\ \A j \in DOMAIN t : j < k => L[j] < L[k]
          ELSE t[k] \in E /\ IF L[k] = 0 THEN t[k][1] = EntryOf(r) ELSE AtDepth(t[k][1], r, L[k] - 1, c)
    /\ \A m \in 1..n : \E k \in DOMAIN t : t[k] = Null /\ L[k] = m
TodoOK(E, t, n, r, c) == \E L \in [DOMAIN t -> 0..n] : Levels(E, t, n, r, c, L)

\* The calls entered, the calls c inlined around the block at work, and the
\* functions entered, which are not to be entered again.
CallsOK(s, r, c, p, M) ==
    /\ s \in Seq(VirtualBlocks)
    /\ s # <<>> => s[1] = ExitOf(r) /\ Len(s) = Len(c) + 1
    /\ s # <<>> => \A d \in Contexts : Within(d, c) => <<r, d, HeadOf(r, d)>> \in M
    /\ \A n \in 2..Len(s) : AtDepth(s[n], r, n - 2, c)
    /\ p = IF s = <<>> THEN <<>> ELSE PathOf(r, c)

Traversing(c) ==
    TodoOK(vedges, todo, Len(calls), cfg, c) /\ CallsOK(calls, cfg, c, path, marked)

TraversalInv ==
    CallsReturn =>
        /\ cfg = None => calls = <<>> /\ path = <<>>
        /\ cfg # None => \E c \in Contexts : Traversing(c)
        /\ ContextExact
        /\ BoundsJustified

TraversalTypes ==
    /\ cfg \in Insts \cup {None} /\ left \subseteq Insts
    /\ todo \in Seq(vedges \cup {Null})
    /\ back \subseteq vedges
    /\ \A e \in back : e[1][3] \in Insts

\* CFGChecker comes between virtualize() and the traversal.
OrderInv ==
    /\ failed = "unknown" =>
          /\ VirtualizerInv /\ StackInv
          /\ cfg = None /\ todo = <<>> /\ calls = <<>> /\ path = <<>>
          /\ last = NoBlock /\ DOMAIN max = {} /\ left = {} /\ back = {}
    /\ failed # "unknown" =>
          phase = "inline" /\ stack = <<>> /\ unread = <<>> /\ BuilderTypes
    /\ phase # "inline" => vedges = {} /\ cfgMap = {}

FlowFactsInv == OrderInv /\ FactsInv /\ GraphInv /\ TraversalTypes /\ TraversalInv

-----------------------------------------------------------------------------
(* findProps                                                               *)

\* u gives the nodes that findProps goes through.
WalkBy(u, i, p, T) ==
    /\ u \in [0..Len(p) -> Seq(T)]
    /\ u[0] = <<>>
    /\ \A k \in 1..Len(p) :
          LET child == Append(u[k - 1], p[Len(p) - k + 1])
          IN  u[k] = IF <<i, child>> \in nodes THEN child ELSE u[k - 1]

LEMMA WalkSteps ==
    ASSUME NEW i, NEW T, NEW p \in Seq(T)
    PROVE  \E u : WalkBy(u, i, p, T) /\ Walk(i, p) = u[Len(p)]
<1> DEFINE n == Len(p)
           now(k, q) == IF <<i, Append(q, p[n - k + 1])>> \in nodes
                        THEN Append(q, p[n - k + 1]) ELSE q
           eq(g) == g = [k \in 0..n |-> IF k = 0 THEN <<>> ELSE now(k, g[k - 1])]
           U == CHOOSE g : eq(g)
           S == Seq(T)
<1>1. Walk(i, p) = U[n]
  BY DEF Walk
<1>2. n \in Nat /\ \A k \in 1..n : p[k] \in T
  BY LenProperties, ElementOfSeq
<1>3. ASSUME NEW k \in 1..n, NEW q \in S PROVE now(k, q) \in S
  <2>1. n - k + 1 \in 1..n
    BY <1>2
  <2>2. p[n - k + 1] \in T
    BY <1>2, <2>1
  <2> QED BY <2>2, AppendProperties
<1>4. ASSUME NEW k, NEW q
      PROVE  now(k, q) = LET child == Append(q, p[n - k + 1])
                         IN  IF <<i, child>> \in nodes THEN child ELSE q
  OBVIOUS
<1> HIDE DEF now, n
<1>5. \E g : eq(g)
  <2> DEFINE F == [k \in 1..n |-> [q \in S |-> now(k, q)]]
  <2>1. F \in [1..n -> [S -> S]] /\ <<>> \in S
    BY <1>3, EmptySeq
  <2> HIDE DEF F, S
  <2>2. PICK g : Recursion(g, n, S, <<>>, F)
    BY <1>2, <2>1, RecursionExists
  <2>3. g \in [0..n -> S] /\ g[0] = <<>> /\ \A k \in 1..n : g[k] = now(k, g[k - 1])
    <3>1. \A k \in 1..n : g[k - 1] \in S
      BY <1>2, <2>2 DEF Recursion
    <3> QED BY <2>2, <3>1 DEF Recursion, F
  <2>4. \A k \in 0..n : g[k] = IF k = 0 THEN <<>> ELSE now(k, g[k - 1])
    <3> SUFFICES ASSUME NEW k \in 0..n
                 PROVE  g[k] = IF k = 0 THEN <<>> ELSE now(k, g[k - 1])
      OBVIOUS
    <3>1. CASE k = 0
      BY <2>3, <3>1
    <3>2. CASE k # 0
      <4>1. k \in 1..n
        BY <1>2, <3>2
      <4> QED BY <2>3, <3>2, <4>1
    <3> QED BY <3>1, <3>2
  <2>5. eq(g)
    BY <2>3, <2>4
  <2> QED BY <2>5
<1>6. eq(U)
  BY <1>5
<1>7. DOMAIN U = 0..n /\ \A k \in 0..n : U[k] = IF k = 0 THEN <<>> ELSE now(k, U[k - 1])
  BY <1>6
<1>8. U = [k \in 0..n |-> U[k]]
  BY <1>6
<1> HIDE DEF U, eq
<1>9. U[0] = <<>> /\ \A k \in 1..n : U[k] = now(k, U[k - 1])
  BY <1>2, <1>7
<1> DEFINE A == {k \in Nat : k <= n => U[k] \in S}
<1>10. 0 \in A
  BY <1>9, EmptySeq
<1>11. ASSUME NEW k \in Nat, k \in A PROVE k + 1 \in A
  <2> SUFFICES ASSUME k + 1 <= n PROVE U[k + 1] \in S
    OBVIOUS
  <2>1. U[k] \in S /\ k + 1 \in 1..n /\ (k + 1) - 1 = k
    BY <1>2, <1>11
  <2> QED BY <1>3, <1>9, <2>1
<1> HIDE DEF A
<1>12. Nat \subseteq A
  BY <1>10, <1>11, NatSetInduction
<1>13. \A k \in 0..n : U[k] \in S
  BY <1>2, <1>12 DEF A
<1>14. U \in [0..n -> S]
  BY <1>8, <1>13
<1>15. WalkBy(U, i, p, T)
  BY <1>4, <1>9, <1>14 DEF WalkBy, n
<1> QED BY <1>1, <1>15 DEF n

\* The steps that lead to a node are steps of the path, from the innermost one.
Backwards(q, p) ==
    \E g \in [1..Len(q) -> 1..Len(p)] :
        /\ \A j, k \in 1..Len(q) : j < k => g[j] < g[k]
        /\ \A k \in 1..Len(q) : q[k] = p[Len(p) - g[k] + 1]

LEMMA WalkBackwards ==
    ASSUME NEW i, NEW T, NEW p \in Seq(T)
    PROVE  Walk(i, p) \in Seq(T) /\ Backwards(Walk(i, p), p)
<1> DEFINE n == Len(p)
<1>1. n \in Nat
  BY LenProperties
<1>2. PICK u : WalkBy(u, i, p, T) /\ Walk(i, p) = u[n]
  BY WalkSteps
<1>3. /\ \A k \in 0..n : u[k] \in Seq(T)
      /\ u[0] = <<>>
      /\ \A k \in 1..n : u[k] = Append(u[k - 1], p[n - k + 1]) \/ u[k] = u[k - 1]
  BY <1>2 DEF WalkBy
<1> HIDE DEF n
<1> DEFINE Good(k, g) == /\ g \in [1..Len(u[k]) -> 1..n]
                         /\ \A j \in 1..Len(u[k]) : g[j] <= k /\ u[k][j] = p[n - g[j] + 1]
                         /\ \A j, m \in 1..Len(u[k]) : j < m => g[j] < g[m]
           A == {k \in Nat : k <= n => \E g : Good(k, g)}
<1>4. 0 \in A
  <2>1. Good(0, [k \in {} |-> 0])
    <3>1. Len(u[0]) = 0 /\ 1..0 = {}
      BY <1>3
    <3> QED BY <3>1
  <2> QED BY <2>1
<1>5. ASSUME NEW k \in Nat, k \in A PROVE k + 1 \in A
  <2> SUFFICES ASSUME k + 1 <= n PROVE \E g : Good(k + 1, g)
    OBVIOUS
  <2>1. PICK g : Good(k, g)
    BY <1>5, <1>1
  <2>2. k + 1 \in 1..n /\ (k + 1) - 1 = k /\ k \in 0..n /\ u[k] \in Seq(T)
    BY <1>1, <1>3
  <2>3. CASE u[k + 1] = u[k]
    <3>1. Good(k + 1, g)
      <4>1. \A j \in 1..Len(u[k]) : g[j] \in 1..n /\ g[j] <= k
        BY <2>1
      <4>2. \A j \in 1..Len(u[k]) : g[j] <= k + 1
        BY <4>1, <1>1
      <4> QED BY <2>1, <2>3, <4>2
    <3> QED BY <3>1
  <2>4. CASE u[k + 1] = Append(u[k], p[n - (k + 1) + 1])
    <3> DEFINE m == Len(u[k])
               h == [j \in 1..(m + 1) |-> IF j = m + 1 THEN k + 1 ELSE g[j]]
    <3>1. /\ m \in Nat /\ Len(u[k + 1]) = m + 1
          /\ \A j \in 1..m : u[k + 1][j] = u[k][j]
          /\ u[k + 1][m + 1] = p[n - (k + 1) + 1]
      <4>1. n - (k + 1) + 1 \in 1..n
        BY <1>1, <2>2
      <4>2. p[n - (k + 1) + 1] \in T
        BY <4>1, ElementOfSeq DEF n
      <4> QED BY <2>2, <2>4, <4>2, AppendProperties, LenProperties
    <3>2. \A j \in 1..m : g[j] \in 1..n /\ g[j] <= k /\ u[k][j] = p[n - g[j] + 1]
      BY <2>1
    <3>3. \A j, l \in 1..m : j < l => g[j] < g[l]
      BY <2>1
    <3> HIDE DEF m
    <3>4. \A j \in 1..(m + 1) : IF j = m + 1 THEN h[j] = k + 1 ELSE j \in 1..m /\ h[j] = g[j]
      BY <3>1
    <3>5. h \in [1..(m + 1) -> 1..n]
      BY <2>2, <3>2, <3>4
    <3> HIDE DEF h
    <3>6. ASSUME NEW j \in 1..(m + 1) PROVE h[j] <= k + 1 /\ u[k + 1][j] = p[n - h[j] + 1]
      <4>1. CASE j = m + 1
        BY <3>1, <3>4, <4>1
      <4>2. CASE j # m + 1
        <5>1. j \in 1..m /\ h[j] = g[j]
          BY <3>4, <4>2
        <5> QED BY <1>1, <3>1, <3>2, <5>1
      <4> QED BY <4>1, <4>2
    <3>7. ASSUME NEW j \in 1..(m + 1), NEW l \in 1..(m + 1), j < l PROVE h[j] < h[l]
      <4>1. j \in 1..m /\ h[j] = g[j] /\ g[j] \in 1..n /\ g[j] <= k
        BY <3>1, <3>2, <3>4, <3>7
      <4>2. CASE l = m + 1
        BY <3>4, <4>1, <4>2
      <4>3. CASE l # m + 1
        BY <3>3, <3>4, <3>7, <4>1, <4>3
      <4> QED BY <4>2, <4>3
    <3>8. Good(k + 1, h)
      BY <3>1, <3>5, <3>6, <3>7
    <3> QED BY <3>8
  <2> QED BY <1>3, <2>2, <2>3, <2>4
<1> HIDE DEF A
<1>6. n \in A
  BY <1>1, <1>4, <1>5, NatSetInduction
<1>7. PICK g : Good(n, g)
  BY <1>1, <1>6 DEF A
<1>8. Walk(i, p) \in Seq(T)
  BY <1>1, <1>2, <1>3
<1>9. Backwards(u[n], p)
  BY <1>7 DEF Backwards, n
<1> QED BY <1>2, <1>8, <1>9

LEMMA BackwardsPrefix ==
    ASSUME NEW T, NEW q \in Seq(T), NEW p \in Seq(T), Backwards(q, p), NEW m \in Prefixes(q)
    PROVE  m \in Seq(T) /\ Len(m) <= Len(q) /\ Backwards(m, p)
<1>1. PICK l \in 0..Len(q) : m = SubSeq(q, 1, l)
  BY DEF Prefixes
<1>2. Len(q) \in Nat /\ Len(p) \in Nat
  BY LenProperties
<1>3. m \in Seq(T) /\ Len(m) = l /\ \A k \in 1..l : m[k] = q[k]
  BY <1>1, <1>2, SubSeqProperties
<1>4. PICK g \in [1..Len(q) -> 1..Len(p)] :
        /\ \A j, k \in 1..Len(q) : j < k => g[j] < g[k]
        /\ \A k \in 1..Len(q) : q[k] = p[Len(p) - g[k] + 1]
  BY DEF Backwards
<1>5. \A k \in 1..l : k \in 1..Len(q)
  BY <1>2
<1> DEFINE h == [k \in 1..l |-> g[k]]
<1>6. h \in [1..l -> 1..Len(p)] /\ \A k \in 1..l : h[k] = g[k]
  BY <1>4, <1>5
<1> HIDE DEF h
<1>7. /\ \A j, k \in 1..l : j < k => h[j] < h[k]
      /\ \A k \in 1..l : m[k] = p[Len(p) - h[k] + 1]
  BY <1>3, <1>4, <1>5, <1>6
<1>8. h \in [1..Len(m) -> 1..Len(p)]
  BY <1>3, <1>6
<1>9. Backwards(m, p)
  BY <1>3, <1>7, <1>8 DEF Backwards
<1> QED BY <1>1, <1>2, <1>3, <1>9

\* A fact whose node is on the way applies in the path.
LEMMA BackwardsApplies ==
    ASSUME NEW a \in FactSet, NEW T, NEW p \in Seq(T), Backwards(Reverse(a.path), p)
    PROVE  Applies(a, p)
<1> DEFINE m == Len(a.path)
           n == Len(p)
           q == Reverse(a.path)
<1>1. m \in Nat /\ DOMAIN a.path = 1..m /\ n \in Nat /\ DOMAIN p = 1..n
  <2>1. a.path \in Seq({"FUNCTION", "CALL"} \X Insts)
    BY DEF FactSet
  <2> QED BY <2>1, LenProperties
<1> HIDE DEF m, n
<1>2. q = [k \in 1..m |-> a.path[m - k + 1]]
  BY DEF Reverse, m
<1>3. Len(q) = m /\ \A k \in 1..m : q[k] = a.path[m - k + 1]
  BY <1>1, <1>2
<1>4. PICK g \in [1..m -> 1..n] :
        /\ \A j, k \in 1..m : j < k => g[j] < g[k]
        /\ \A k \in 1..m : q[k] = p[n - g[k] + 1]
  BY <1>3 DEF Backwards, n
<1> HIDE DEF q
<1> DEFINE f == [k \in 1..m |-> n - g[m - k + 1] + 1]
<1>5. \A k \in 1..m : m - k + 1 \in 1..m /\ m - (m - k + 1) + 1 = k
  BY <1>1
<1>6. \A k \in 1..m : g[k] \in 1..n
  BY <1>4
<1>7. ASSUME NEW k \in 1..m PROVE f[k] = n - g[m - k + 1] + 1 /\ f[k] \in 1..n
  BY <1>1, <1>5, <1>6
<1>8. f \in [1..m -> 1..n]
  BY <1>7
<1> HIDE DEF f
<1>9. ASSUME NEW j \in 1..m, NEW k \in 1..m, j < k PROVE f[j] < f[k]
  <2>1. m - k + 1 < m - j + 1 /\ m - k + 1 \in 1..m /\ m - j + 1 \in 1..m
    BY <1>1, <1>9
  <2>2. g[m - k + 1] < g[m - j + 1] /\ g[m - k + 1] \in 1..n /\ g[m - j + 1] \in 1..n
    BY <1>4, <1>6, <2>1
  <2> QED BY <1>1, <1>7, <2>2
<1>10. ASSUME NEW k \in 1..m PROVE p[f[k]] = a.path[k]
  <2>1. m - k + 1 \in 1..m /\ m - (m - k + 1) + 1 = k
    BY <1>5
  <2>2. q[m - k + 1] = a.path[k]
    BY <1>3, <2>1
  <2>3. q[m - k + 1] = p[n - g[m - k + 1] + 1]
    BY <1>4, <2>1
  <2> QED BY <1>7, <2>2, <2>3
<1> QED BY <1>1, <1>8, <1>9, <1>10 DEF Applies

\* The whole path is followed when its nodes are there.
LEMMA WalkWhole ==
    ASSUME NEW i, NEW T, NEW p \in Seq(T),
           \A n \in Prefixes(Reverse(p)) : <<i, n>> \in nodes
    PROVE  Walk(i, p) = Reverse(p)
<1> DEFINE n == Len(p)
           q == Reverse(p)
<1>1. n \in Nat /\ \A k \in 1..n : p[k] \in T
  BY LenProperties, ElementOfSeq
<1>2. PICK u : WalkBy(u, i, p, T) /\ Walk(i, p) = u[n]
  BY WalkSteps
<1>3. q = [k \in 1..n |-> p[n - k + 1]]
  BY DEF Reverse
<1>4. q \in Seq(T) /\ Len(q) = n /\ \A k \in 1..n : q[k] = p[n - k + 1]
  <2>1. \A k \in 1..n : n - k + 1 \in 1..n
    BY <1>1
  <2>2. q \in [1..n -> T]
    BY <1>1, <1>3, <2>1
  <2>3. q \in Seq(T) /\ Len(q) = n
    BY <1>1, <2>2
  <2> QED BY <1>3, <2>3
<1>5. /\ \A k \in 0..n : u[k] \in Seq(T)
      /\ u[0] = <<>>
      /\ \A k \in 1..n : <<i, Append(u[k - 1], p[n - k + 1])>> \in nodes =>
                            u[k] = Append(u[k - 1], p[n - k + 1])
  BY <1>2 DEF WalkBy
<1>6. \A l \in 0..n : <<i, SubSeq(q, 1, l)>> \in nodes
  BY <1>4 DEF Prefixes
<1> HIDE DEF n, q
<1> DEFINE A == {k \in Nat : k <= n => u[k] = SubSeq(q, 1, k)}
<1>7. 0 \in A
  <2>1. SubSeq(q, 1, 0) = <<>>
    BY <1>4, SubSeqProperties, EmptySeq
  <2> QED BY <1>5, <2>1
<1>8. ASSUME NEW k \in Nat, k \in A PROVE k + 1 \in A
  <2> SUFFICES ASSUME k + 1 <= n PROVE u[k + 1] = SubSeq(q, 1, k + 1)
    OBVIOUS
  <2>1. u[k] = SubSeq(q, 1, k) /\ k + 1 \in 1..n /\ (k + 1) - 1 = k /\ k + 1 \in 0..n
    BY <1>1, <1>8
  <2>2. SubSeq(q, 1, k + 1) = Append(SubSeq(q, 1, k), q[k + 1])
    <3>1. \A j \in 1..k : j \in 1..(k + 1)
      OBVIOUS
    <3>2. /\ SubSeq(q, 1, k) = [j \in 1..k |-> q[j]]
          /\ SubSeq(q, 1, k + 1) = [j \in 1..(k + 1) |-> q[j]]
      BY <1>4, <2>1
    <3> QED BY <1>4, <2>1, <3>2
  <2>3. SubSeq(q, 1, k + 1) = Append(u[k], p[n - (k + 1) + 1])
    BY <1>4, <2>1, <2>2
  <2>4. <<i, SubSeq(q, 1, k + 1)>> \in nodes
    BY <1>6, <2>1
  <2> QED BY <1>5, <2>1, <2>3, <2>4
<1> HIDE DEF A
<1>9. n \in A
  BY <1>1, <1>7, <1>8, NatSetInduction
<1>10. u[n] = SubSeq(q, 1, n)
  BY <1>1, <1>9 DEF A
<1>11. SubSeq(q, 1, n) = q
  BY <1>1, <1>4
<1> QED BY <1>2, <1>10, <1>11 DEF q

\* find gives the bound of the deepest node of the walk that has one.
LEMMA FindIs ==
    ASSUME NEW i, NEW T, NEW p \in Seq(T)
    PROVE  \/ /\ find(i, p) = -1
              /\ \A n \in Prefixes(Walk(i, p)) : <<i, n>> \notin DOMAIN bounds
           \/ \E n \in Prefixes(Walk(i, p)) :
                 /\ <<i, n>> \in DOMAIN bounds /\ find(i, p) = bounds[<<i, n>>]
                 /\ <<i, Walk(i, p)>> \in DOMAIN bounds => n = Walk(i, p)
<1> DEFINE w == Walk(i, p)
           set == {n \in Prefixes(w) : <<i, n>> \in DOMAIN bounds}
           deepest(n) == \A m \in set : Len(m) <= Len(n)
           best == CHOOSE n \in set : deepest(n)
<1>1. find(i, p) = IF set = {} THEN -1 ELSE bounds[<<i, best>>]
  BY DEF find
<1>2. w \in Seq(T) /\ Len(w) \in Nat
  BY WalkBackwards, LenProperties
<1> HIDE DEF w
<1>3. ASSUME NEW n \in Prefixes(w) PROVE Len(n) \in 0..Len(w) /\ (Len(n) >= Len(w) => n = w)
  <2>1. PICK l \in 0..Len(w) : n = SubSeq(w, 1, l)
    BY DEF Prefixes
  <2>2. Len(n) = l
    BY <1>2, <2>1, SubSeqProperties
  <2>3. l = Len(w) => n = w
    BY <1>2, <2>1
  <2> QED BY <1>2, <2>2, <2>3
<1>4. w \in Prefixes(w)
  <2>1. SubSeq(w, 1, Len(w)) = w /\ Len(w) \in 0..Len(w)
    BY <1>2
  <2> QED BY <2>1 DEF Prefixes
<1>5. CASE set = {}
  BY <1>1, <1>5 DEF w
<1>6. CASE set # {}
  <2>1. \E n \in set : deepest(n)
    <3> DEFINE D == {Len(n) : n \in set}
    <3>1. D \in SUBSET (0..Len(w)) /\ D # {}
      BY <1>3, <1>6
    <3>2. PICK x \in D : \A y \in D : x >= y
      BY <1>2, <3>1, GreatestElement
    <3>3. PICK n \in set : x = Len(n)
      BY <3>2
    <3>4. ASSUME NEW m \in set PROVE Len(m) <= Len(n)
      <4>1. Len(m) \in D /\ n \in Prefixes(w) /\ m \in Prefixes(w)
        OBVIOUS
      <4>2. Len(n) >= Len(m)
        BY <3>2, <3>3, <4>1
      <4>3. Len(n) \in 0..Len(w) /\ Len(m) \in 0..Len(w)
        BY <1>3, <4>1
      <4> QED BY <1>2, <4>2, <4>3
    <3> QED BY <3>4
  <2>2. best \in set /\ deepest(best)
    BY <2>1
  <2> HIDE DEF best
  <2>3. best \in Prefixes(w) /\ <<i, best>> \in DOMAIN bounds
    BY <2>2
  <2>4. <<i, w>> \in DOMAIN bounds => best = w
    <3> SUFFICES ASSUME <<i, w>> \in DOMAIN bounds PROVE best = w
      OBVIOUS
    <3>1. w \in set
      BY <1>4
    <3>2. Len(w) <= Len(best)
      BY <2>2, <3>1
    <3> QED BY <1>2, <1>3, <2>3, <3>2
  <2> QED BY <1>1, <1>6, <2>3, <2>4 DEF w
<1> QED BY <1>5, <1>6

-----------------------------------------------------------------------------
(* FlowFactLoader                                                          *)

LEMMA FactsTyped ==
    ASSUME prog \in Programs
    PROVE  /\ prog.facts \in Seq(FactSet) /\ Len(prog.facts) \in Nat
           /\ DOMAIN prog.facts = 1..Len(prog.facts)
           /\ \A k \in 1..Len(prog.facts) : prog.facts[k] \in FactSet
           /\ prog.line \in [Insts -> Insts \cup {None}]
<1>1. prog.facts \in Seq(FactSet) /\ prog.line \in [Insts -> Insts \cup {None}]
  BY FactsAssumption DEF FactSet
<1> QED BY <1>1, LenProperties, ElementOfSeq

LEMMA WholePrefix ==
    ASSUME NEW T, NEW p \in Seq(T)
    PROVE  p \in Prefixes(p)
<1>1. Len(p) \in 0..Len(p) /\ SubSeq(p, 1, Len(p)) = p
  BY LenProperties
<1> QED BY <1>1 DEF Prefixes

\* A bound that find gives is that of a fact read.
LEMMA FindBound ==
    ASSUME FactsInv, NEW i, NEW T, NEW p \in Seq(T)
    PROVE  /\ find(i, p) \in Nat \cup {-1}
           /\ find(i, p) >= 0 =>
                \E k \in 1..Read :
                   /\ prog.facts[k].inst = i
                   /\ Reverse(prog.facts[k].path) \in Prefixes(Walk(i, p))
                   /\ find(i, p) = bounds[NodeOf(prog.facts[k])]
<1>1. \A d \in DOMAIN bounds : bounds[d] \in Nat /\ \E k \in 1..Read : d = NodeOf(prog.facts[k])
  BY DEF FactsInv
<1>2. CASE find(i, p) = -1
  BY <1>2
<1>3. CASE \E n \in Prefixes(Walk(i, p)) : <<i, n>> \in DOMAIN bounds /\ find(i, p) = bounds[<<i, n>>]
  <2>1. PICK n \in Prefixes(Walk(i, p)) : <<i, n>> \in DOMAIN bounds /\ find(i, p) = bounds[<<i, n>>]
    BY <1>3
  <2>2. bounds[<<i, n>>] \in Nat
    BY <1>1, <2>1
  <2>3. PICK k \in 1..Read : <<i, n>> = NodeOf(prog.facts[k])
    BY <1>1, <2>1
  <2>4. prog.facts[k].inst = i /\ Reverse(prog.facts[k].path) = n
    BY <2>3 DEF NodeOf
  <2> QED BY <2>1, <2>2, <2>3, <2>4
<1> QED BY <1>2, <1>3, FindIs

LEMMA OnLoopFacts ==
    ASSUME prog \in Programs, FactsInv, onLoop
    PROVE  FactsInv'
<1> DEFINE r == Read
           a == Head(unread)
           node == Reverse(a.path)
           known == find(a.inst, a.path)
           d == NodeOf(a)
           val == IF known < a.max THEN a.max ELSE known
           facts0 == prog.facts
<1>1. /\ unread # <<>> /\ unread' = Tail(unread) /\ prog' = prog
      /\ nodes' = nodes \cup {<<a.inst, n>> : n \in Prefixes(node)}
      /\ bounds' = Put(bounds, d, val)
  BY DEF onLoop, NodeOf, builder
<1>2. /\ unread \in Seq(FactSet) /\ r \in Nat /\ r = Len(facts0) - Len(unread)
      /\ \A j \in 1..Len(unread) : unread[j] = facts0[r + j]
  BY DEF FactsInv, Read
<1>3. /\ Len(facts0) \in Nat /\ \A k \in 1..Len(facts0) : facts0[k] \in FactSet
  BY FactsTyped
<1>4. /\ Len(unread) \in Nat \ {0} /\ a = unread[1] /\ Tail(unread) \in Seq(FactSet)
      /\ Len(Tail(unread)) = Len(unread) - 1
      /\ \A j \in 1..(Len(unread) - 1) : Tail(unread)[j] = unread[j + 1]
  BY <1>1, <1>2, HeadTailProperties, EmptySeq, LenProperties
<1>5. r + 1 \in 1..Len(facts0) /\ a = facts0[r + 1] /\ Read' = r + 1
  <2>1. 1 \in 1..Len(unread)
    BY <1>4
  <2>2. Read' = Len(facts0) - (Len(unread) - 1)
    BY <1>1, <1>4 DEF Read
  <2> QED BY <1>2, <1>3, <1>4, <2>1, <2>2
<1>6. a \in FactSet
  BY <1>3, <1>5
<1>7. a.inst \in Insts /\ a.max \in Nat /\ a.path \in Seq({"FUNCTION", "CALL"} \X Insts)
  BY <1>6 DEF FactSet
<1>8. \A k \in 1..(r + 1) : k \in 1..r \/ k = r + 1
  BY <1>2
<1>9. known \in Nat \cup {-1}
  BY <1>7, FindBound
<1>10. val \in Nat /\ val >= a.max /\ val >= known
  BY <1>7, <1>9
<1>11. ASSUME d \in DOMAIN bounds PROVE known = bounds[d]
  <2>1. PICK k \in 1..r : d = NodeOf(facts0[k])
    BY <1>11 DEF FactsInv
  <2>2. facts0[k].inst = a.inst /\ Reverse(facts0[k].path) = node
    BY <2>1 DEF NodeOf
  <2>3. \A n \in Prefixes(node) : <<a.inst, n>> \in nodes
    BY <2>2 DEF FactsInv
  <2>4. Walk(a.inst, a.path) = node
    BY <1>7, <2>3, WalkWhole
  <2>5. Walk(a.inst, a.path) \in Prefixes(Walk(a.inst, a.path))
    BY <1>7, WalkBackwards, WholePrefix
  <2>6. <<a.inst, Walk(a.inst, a.path)>> \in DOMAIN bounds
    BY <1>11, <2>4 DEF NodeOf
  <2>7. known = bounds[<<a.inst, Walk(a.inst, a.path)>>]
    BY <1>7, <2>5, <2>6, FindIs
  <2> QED BY <2>4, <2>7 DEF NodeOf
<1> HIDE DEF r, facts0, val, known
<1>12. /\ DOMAIN bounds' = DOMAIN bounds \cup {d} /\ bounds'[d] = val
       /\ \A x \in DOMAIN bounds : x # d => bounds'[x] = bounds[x]
  BY <1>1 DEF Put
<1> HIDE DEF d, a
<1>13. unread' \in Seq(FactSet) /\ Read' \in Nat
  BY <1>1, <1>2, <1>4, <1>5
<1>14. \A j \in 1..Len(unread') : unread'[j] = prog'.facts[Read' + j]
  <2> SUFFICES ASSUME NEW j \in 1..(Len(unread) - 1) PROVE Tail(unread)[j] = facts0[(r + 1) + j]
    BY <1>1, <1>4, <1>5 DEF facts0
  <2>1. j + 1 \in 1..Len(unread)
    BY <1>4
  <2>0. r + (j + 1) = (r + 1) + j
    BY <1>2
  <2> QED BY <1>2, <1>4, <2>0, <2>1
<1>15. ASSUME NEW x \in DOMAIN bounds'
       PROVE  bounds'[x] \in Nat /\ \E k \in 1..(r + 1) : x = NodeOf(facts0[k])
  <2>1. CASE x = d
    <3>1. r + 1 \in 1..(r + 1)
      BY <1>2
    <3> QED BY <1>5, <1>10, <1>12, <2>1, <3>1 DEF d
  <2>2. CASE x # d
    <3>1. x \in DOMAIN bounds
      BY <1>12, <2>2
    <3>2. bounds[x] \in Nat /\ \E k \in 1..r : x = NodeOf(facts0[k])
      BY <3>1 DEF FactsInv, r, facts0
    <3>3. \A k \in 1..r : k \in 1..(r + 1)
      BY <1>2
    <3> QED BY <1>12, <2>2, <3>1, <3>2, <3>3
  <2> QED BY <2>1, <2>2
<1>16. ASSUME NEW k \in 1..(r + 1)
       PROVE  /\ NodeOf(facts0[k]) \in DOMAIN bounds'
              /\ facts0[k].max <= bounds'[NodeOf(facts0[k])]
              /\ \A n \in Prefixes(Reverse(facts0[k].path)) : <<facts0[k].inst, n>> \in nodes'
  <2>1. CASE k = r + 1
    <3>1. facts0[k] = a /\ NodeOf(facts0[k]) = d
      BY <1>5, <2>1 DEF d
    <3>2. \A n \in Prefixes(Reverse(a.path)) : <<a.inst, n>> \in nodes'
      BY <1>1
    <3> QED BY <1>7, <1>10, <1>12, <3>1, <3>2
  <2>2. CASE k \in 1..r
    <3>1. /\ NodeOf(facts0[k]) \in DOMAIN bounds
          /\ facts0[k].max <= bounds[NodeOf(facts0[k])]
          /\ \A n \in Prefixes(Reverse(facts0[k].path)) : <<facts0[k].inst, n>> \in nodes
      BY <2>2 DEF FactsInv, r, facts0
    <3>2. \A n \in Prefixes(Reverse(facts0[k].path)) : <<facts0[k].inst, n>> \in nodes'
      BY <1>1, <3>1
    <3>3. CASE NodeOf(facts0[k]) = d
      <4>1. val >= bounds[d] /\ facts0[k].max <= bounds[d] /\ bounds[d] \in Nat
        <5>1. bounds[d] \in Nat
          BY <3>1, <3>3 DEF FactsInv
        <5> QED BY <1>10, <1>11, <3>1, <3>3, <5>1
      <4>2. facts0[k].max \in Nat
        <5>1. k \in 1..Len(facts0)
          BY <1>2, <1>3, <1>5, <2>2
        <5> QED BY <1>3, <5>1 DEF FactSet
      <4> QED BY <1>10, <1>12, <3>2, <3>3, <4>1, <4>2
    <3>4. CASE NodeOf(facts0[k]) # d
      BY <1>12, <3>1, <3>2, <3>4
    <3> QED BY <3>3, <3>4
  <2> QED BY <1>8, <2>1, <2>2
<1>17. Read' = r + 1 /\ prog'.facts = facts0
  BY <1>1, <1>5 DEF facts0
<1> QED BY <1>13, <1>14, <1>15, <1>16, <1>17 DEF FactsInv

-----------------------------------------------------------------------------
(* ipet::FlowFactLoader                                                    *)

LEMMA LinesTyped ==
    ASSUME BuilderTypes, NEW b \in Insts
    PROVE  Lines(b) \in Seq(Insts \cup {None})
<1> DEFINE n == top[b] - b + 1
<1>1. top[b] \in 0..Size /\ b \in 1..Size /\ Size \in Nat /\ prog.line \in [Insts -> Insts \cup {None}]
  <2>1. top[b] \in Insts \cup {None}
    BY DEF BuilderTypes
  <2> QED BY <2>1, SizeAssumption, FactsTyped DEF BuilderTypes, Insts, None
<1>2. \A k \in 1..n : b + k - 1 \in Insts
  BY <1>1 DEF Insts
<1>3. Lines(b) \in [1..n -> Insts \cup {None}]
  BY <1>1, <1>2 DEF Lines
<1>4. CASE n \in Nat
  BY <1>3, <1>4
<1>5. CASE n \notin Nat
  <2>1. 1..n = 1..0
    BY <1>1, <1>5
  <2>2. Lines(b) \in [1..0 -> Insts \cup {None}]
    BY <1>3, <2>1
  <2>3. 0 \in Nat
    OBVIOUS
  <2> QED BY <2>2, <2>3
<1> QED BY <1>4, <1>5

LEMMA LookedAtTyped ==
    ASSUME BuilderTypes, NEW v, v[3] \in Insts,
           NEW T, NEW q \in Seq(T), \A x \in T : x[3] \in Insts
    PROVE  LookedAt(v, q) \in Seq(Insts \cup {None})
<1> DEFINE n == Len(q)
           base == <<v[3]>> \o Lines(v[3])
           now(k) == Lines(q[k][3])
           eq(g) == g = [k \in 0..n |-> IF k = 0 THEN base ELSE g[k - 1] \o now(k)]
           U == CHOOSE g : eq(g)
           S == Seq(Insts \cup {None})
<1>1. LookedAt(v, q) = U[n]
  BY DEF LookedAt
<1>2. n \in Nat /\ \A k \in 1..n : q[k][3] \in Insts
  BY LenProperties, ElementOfSeq
<1>3. base \in S
  <2>1. <<v[3]>> \in S /\ Lines(v[3]) \in S
    BY LinesTyped
  <2> QED BY <2>1, ConcatProperties
<1>4. \A k \in 1..n : now(k) \in S
  BY <1>2, LinesTyped
<1> HIDE DEF base, now, n
<1>5. \E g : eq(g)
  <2> DEFINE F == [k \in 1..n |-> [r \in S |-> r \o now(k)]]
  <2>1. F \in [1..n -> [S -> S]]
    BY <1>4, ConcatProperties
  <2> HIDE DEF F, S
  <2>2. PICK g : Recursion(g, n, S, base, F)
    BY <1>2, <1>3, <2>1, RecursionExists
  <2>3. g \in [0..n -> S] /\ g[0] = base /\ \A k \in 1..n : g[k] = g[k - 1] \o now(k)
    <3>1. \A k \in 1..n : g[k - 1] \in S
      BY <1>2, <2>2 DEF Recursion
    <3> QED BY <2>2, <3>1 DEF Recursion, F
  <2>4. \A k \in 0..n : g[k] = IF k = 0 THEN base ELSE g[k - 1] \o now(k)
    <3> SUFFICES ASSUME NEW k \in 0..n
                 PROVE  g[k] = IF k = 0 THEN base ELSE g[k - 1] \o now(k)
      OBVIOUS
    <3>1. CASE k = 0
      BY <2>3, <3>1
    <3>2. CASE k # 0
      <4>1. k \in 1..n
        BY <1>2, <3>2
      <4> QED BY <2>3, <3>2, <4>1
    <3> QED BY <3>1, <3>2
  <2>5. eq(g)
    BY <2>3, <2>4
  <2> QED BY <2>5
<1>6. eq(U)
  BY <1>5
<1>7. \A k \in 0..n : U[k] = IF k = 0 THEN base ELSE U[k - 1] \o now(k)
  BY <1>6
<1> HIDE DEF U, eq
<1> DEFINE A == {k \in Nat : k <= n => U[k] \in S}
<1>8. 0 \in A
  BY <1>2, <1>3, <1>7
<1>9. ASSUME NEW k \in Nat, k \in A PROVE k + 1 \in A
  <2> SUFFICES ASSUME k + 1 <= n PROVE U[k + 1] \in S
    OBVIOUS
  <2>1. U[k] \in S /\ k + 1 \in 0..n /\ k + 1 \in 1..n /\ k + 1 # 0 /\ (k + 1) - 1 = k
    BY <1>2, <1>9
  <2>2. U[k + 1] = U[k] \o now(k + 1) /\ now(k + 1) \in S
    BY <1>4, <1>7, <2>1
  <2> QED BY <2>1, <2>2, ConcatProperties
<1> HIDE DEF A
<1>10. n \in A
  BY <1>2, <1>8, <1>9, NatSetInduction
<1> QED BY <1>1, <1>2, <1>10 DEF A

\* A fact that gives the bound b to the header v in the path p.
Justifies(a, v, q, p, b) ==
    /\ a \in Given
    /\ a.inst \in ToSet(LookedAt(v, q))
    /\ Applies(a, p)
    /\ \A o \in Given : o.inst = a.inst /\ o.path = a.path => o.max <= b

LEMMA BoundJustified ==
    ASSUME BuilderTypes, FactsInv, unread = <<>>, NEW v, v[3] \in Insts,
           NEW V, NEW q \in Seq(V), \A x \in V : x[3] \in Insts,
           NEW T, NEW p \in Seq(T), BoundOf(v, q, p) >= 0
    PROVE  \E a : Justifies(a, v, q, p, BoundOf(v, q, p))
<1> DEFINE seen == LookedAt(v, q)
           bound == [i \in Insts |-> find(i, p)]
           hits == {k \in DOMAIN seen : seen[k] # None /\ bound[seen[k]] >= 0}
           b == BoundOf(v, q, p)
<1>1. b = IF hits = {} THEN -1 ELSE bound[seen[Min(hits)]]
  BY DEF BoundOf
<1>2. hits # {}
  BY <1>1
<1>3. seen \in Seq(Insts \cup {None})
  BY LookedAtTyped
<1> HIDE DEF seen
<1>4. Len(seen) \in Nat /\ DOMAIN seen = 1..Len(seen) /\ \A k \in 1..Len(seen) : seen[k] \in Insts \cup {None}
  BY <1>3, LenProperties, ElementOfSeq
<1>5. hits \in SUBSET Nat
  BY <1>4
<1>6. \E x \in hits : \A y \in hits : x <= y
  BY <1>2, <1>5, LeastElement
<1>7. Min(hits) \in hits
  BY <1>6 DEF Min
<1> DEFINE i == seen[Min(hits)]
<1>8. i \in Insts /\ i \in ToSet(seen) /\ b = bound[i] /\ bound[i] >= 0
  <2>1. Min(hits) \in DOMAIN seen /\ i # None /\ bound[i] >= 0
    BY <1>7
  <2> QED BY <1>1, <1>2, <1>4, <2>1 DEF ToSet
<1> HIDE DEF i, b, hits
<1>9. b = find(i, p) /\ find(i, p) >= 0
  BY <1>8
<1>10. PICK k \in 1..Read :
         /\ prog.facts[k].inst = i
         /\ Reverse(prog.facts[k].path) \in Prefixes(Walk(i, p))
         /\ find(i, p) = bounds[NodeOf(prog.facts[k])]
  BY <1>9, FindBound
<1>11. Read = Len(prog.facts) /\ prog \in Programs
  <2>1. Len(unread) = 0
    BY EmptySeq
  <2>2. Len(prog.facts) \in Nat
    BY FactsTyped DEF BuilderTypes
  <2> QED BY <2>1, <2>2 DEF Read, BuilderTypes
<1> DEFINE a == prog.facts[k]
<1>12. a \in FactSet /\ a \in Given
  BY <1>10, <1>11, FactsTyped DEF Given, ToSet
<1>13. Applies(a, p)
  <2>1. Walk(i, p) \in Seq(T) /\ Backwards(Walk(i, p), p)
    BY WalkBackwards
  <2>2. Backwards(Reverse(a.path), p)
    BY <1>10, <2>1, BackwardsPrefix
  <2> QED BY <1>12, <2>2, BackwardsApplies
<1>14. ASSUME NEW o \in Given, o.inst = a.inst, o.path = a.path PROVE o.max <= b
  <2>1. PICK j \in 1..Len(prog.facts) : o = prog.facts[j]
    BY <1>11, FactsTyped DEF Given, ToSet
  <2>2. o.max <= bounds[NodeOf(o)]
    BY <1>11, <2>1 DEF FactsInv
  <2>3. NodeOf(o) = NodeOf(a)
    BY <1>14 DEF NodeOf
  <2> QED BY <1>9, <1>10, <2>2, <2>3
<1>15. Justifies(a, v, q, p, b)
  BY <1>8, <1>10, <1>12, <1>13, <1>14 DEF Justifies, seen
<1> QED BY <1>15 DEF b

-----------------------------------------------------------------------------
(* The virtual CFGs.                                                       *)

LEMMA WithinSelf == ASSUME NEW c \in Contexts PROVE Within(c, c)
BY LenProperties DEF Within, Contexts

LEMMA WithinAppend ==
    ASSUME NEW c \in Contexts, NEW d \in Contexts, Within(c, d),
           NEW x \in (Insts \cup {None, Exit}) \X Insts
    PROVE  /\ Append(d, x) \in Contexts /\ Within(c, Append(d, x))
           /\ Len(Append(d, x)) = Len(d) + 1 /\ \A r : HeadOf(r, Append(d, x)) = x[2]
<1>1. /\ Append(d, x) \in Contexts /\ Len(Append(d, x)) = Len(d) + 1 /\ Len(d) \in Nat /\ Len(c) \in Nat
      /\ \A i \in 1..Len(d) : Append(d, x)[i] = d[i]
      /\ Append(d, x)[Len(d) + 1] = x
  BY AppendProperties, LenProperties DEF Contexts
<1>2. Within(c, Append(d, x))
  BY <1>1 DEF Within
<1>3. Append(d, x) # <<>>
  <2>1. Len(d) + 1 # 0
    BY <1>1
  <2>2. Len(<<>>) = 0
    OBVIOUS
  <2> QED BY <1>1, <2>1, <2>2
<1>4. \A r : HeadOf(r, Append(d, x)) = x[2]
  BY <1>1, <1>3 DEF HeadOf, Last
<1> QED BY <1>1, <1>2, <1>4

LEMMA EdgeKept ==
    ASSUME NEW e, EdgeShape(e), loops \subseteq loops',
           DOMAIN returnBlock \subseteq DOMAIN returnBlock'
    PROVE  EdgeShape(e)'
<1>1. InlinedEdge(e) => InlinedEdge(e)'
  BY DEF InlinedEdge
<1>2. LoopEdge(e) => LoopEdge(e)'
  BY DEF LoopEdge, HeadOf, Within
<1>3. EntryEdge(e) => EntryEdge(e)'
  BY DEF EntryEdge, EntryOf
<1> QED BY <1>1, <1>2, <1>3 DEF EdgeShape

\* The graph keeps its shape with the edges D.
LEMMA GraphGrows ==
    ASSUME GraphInv, loops \subseteq loops',
           DOMAIN returnBlock \subseteq DOMAIN returnBlock',
           \A v \in DOMAIN returnBlock' : v \in DOMAIN returnBlock \/ v[3] \in Insts,
           NEW D, IsFiniteSet(D), vedges' = vedges \cup D, \A e \in D : EdgeShape(e)'
    PROVE  GraphInv'
<1>1. IsFiniteSet(vedges')
  BY FS_Union DEF GraphInv
<1>2. ASSUME NEW e \in vedges PROVE EdgeShape(e)'
  BY EdgeKept DEF GraphInv
<1>3. \A e \in vedges' : EdgeShape(e)'
  BY <1>2
<1>4. \A v \in DOMAIN returnBlock' : v[3] \in Insts
  BY DEF GraphInv
<1> QED BY <1>1, <1>3, <1>4 DEF GraphInv

\* The stack keeps its shape when a function enters it.
LEMMA StackPush ==
    ASSUME BuilderTypes, StackInv, stack \in Seq(Frames),
           NEW frames \in Seq(Frames), Len(frames) = Len(stack),
           \A k \in 1..Len(stack) :
               /\ frames[k].cfg = stack[k].cfg /\ frames[k].root = stack[k].root
               /\ frames[k].ctx = stack[k].ctx /\ frames[k].src = stack[k].src
               /\ frames[k].called # <<>> => stack[k].called # <<>>,
           NEW f \in Insts, NEW root \in Insts, NEW ctx \in Contexts, NEW entry,
           NEW exit \in VirtualBlocks \ {NoBlock}, Push(frames, f, root, ctx, entry, exit),
           cfgMap \subseteq cfgMap', root \in cfgMap', f = HeadOf(root, ctx),
           \A k \in 1..Len(stack) : stack[k].root = root => Within(stack[k].ctx, ctx)
    PROVE  StackInv'
<1> DEFINE n == Len(stack)
<1>1. n \in Nat /\ DOMAIN stack = 1..n
  BY LenProperties
<1>2. /\ DOMAIN stack' = 1..(n + 1)
      /\ \A k \in 1..n : stack'[k] = frames[k]
      /\ stack'[n + 1].cfg = f /\ stack'[n + 1].called = <<>>
      /\ stack'[n + 1].root = root /\ stack'[n + 1].ctx = ctx /\ stack'[n + 1].src = NoBlock
  BY PushIs
<1>3. \A k \in 1..n :
         /\ stack'[k].cfg = stack[k].cfg /\ stack'[k].root = stack[k].root
         /\ stack'[k].ctx = stack[k].ctx /\ stack'[k].src = stack[k].src
         /\ stack'[k].called # <<>> => stack[k].called # <<>>
  BY <1>2
<1>4. \A k \in 1..n : stack[k].root = root => Within(stack[k].ctx, ctx)
  OBVIOUS
<1> HIDE DEF n
<1>5. \A k \in 1..(n + 1) : k \in 1..n \/ k = n + 1
  BY <1>1
<1>6. ASSUME NEW k \in 1..(n + 1) PROVE FrameShape(stack[k])'
  <2>1. CASE k = n + 1
    BY <1>2, <2>1 DEF FrameShape, HeadOf
  <2>2. CASE k \in 1..n
    <3>1. FrameShape(stack[k])
      BY <1>1, <2>2 DEF StackInv
    <3> QED BY <1>3, <2>2, <3>1 DEF FrameShape, HeadOf
  <2> QED BY <1>5, <2>1, <2>2
<1>7. ASSUME NEW j \in 1..(n + 1), NEW k \in 1..(n + 1), j < k, stack'[j].root = stack'[k].root
      PROVE  Within(stack'[j].ctx, stack'[k].ctx)
  <2>1. j \in 1..n
    BY <1>1, <1>7
  <2>2. CASE k = n + 1
    BY <1>2, <1>3, <1>4, <1>7, <2>1, <2>2
  <2>3. CASE k \in 1..n
    BY <1>1, <1>3, <1>7, <2>1, <2>3 DEF StackInv
  <2> QED BY <1>5, <2>2, <2>3
<1> QED BY <1>2, <1>6, <1>7 DEF StackInv, Within

LEMMA EntryShape ==
    ASSUME NEW f \in Insts
    PROVE  EdgeShape(<<<<f, <<>>, None>>, <<f, <<>>, f>>, "VIRTUAL_CALL">>)'
BY ProperBlocks DEF EdgeShape, EntryEdge, EntryOf, VirtualBlocks

\* A virtual CFG is started.
LEMMA PushCFGShape ==
    ASSUME VirtualizerInv, StackInv, GraphInv, NEW f \in Insts, f \notin cfgMap, PushCFG(f),
           loops' = loops, returnBlock' = returnBlock
    PROVE  StackInv' /\ GraphInv'
<1> DEFINE entry == <<f, <<>>, None>>
           e == <<entry, <<f, <<>>, f>>, "VIRTUAL_CALL">>
<1>1. /\ Push(stack, f, f, <<>>, entry, <<f, <<>>, Exit>>)
      /\ cfgMap' = cfgMap \cup {f}
  BY DEF PushCFG
<1>2. BuilderTypes /\ stack \in Seq(Frames) /\ Len(stack) \in Nat /\ DOMAIN stack = 1..Len(stack)
  BY LenProperties DEF VirtualizerInv, BuilderInv, FramesInv
<1>3. \A k \in 1..Len(stack) : stack[k].root # f
  BY <1>2 DEF StackInv, FrameShape
<1>4. <<>> \in Contexts /\ <<f, <<>>, Exit>> \in VirtualBlocks \ {NoBlock} /\ f = HeadOf(f, <<>>)
  BY ProperBlocks DEF HeadOf
<1>5. StackInv'
  BY <1>1, <1>2, <1>3, <1>4, StackPush
<1>6. vedges' = vedges \cup {e}
  BY <1>1 DEF Push
<1>7. EdgeShape(e)'
  BY EntryShape
<1>8. IsFiniteSet({e})
  BY FS_Singleton
<1> HIDE DEF e
<1>9. GraphInv'
  BY <1>6, <1>7, <1>8, GraphGrows
<1> QED BY <1>5, <1>9

\* A step that changes the last of the frames, in its context.
LEMMA StackKept ==
    ASSUME StackInv, stack \in Seq(Frames), stack # <<>>, NEW new \in Frames,
           stack' = [stack EXCEPT ![Len(stack)] = new], cfgMap' = cfgMap,
           new.cfg = Frame.cfg, new.root = Frame.root, new.ctx = Frame.ctx,
           new.src # NoBlock => \E b \in Insts : new.src = <<new.root, new.ctx, b>>,
           new.called # <<>> => new.src # NoBlock
    PROVE  StackInv'
<1> DEFINE n == Len(stack)
<1>1. n \in Nat \ {0} /\ DOMAIN stack = 1..n /\ Frame = stack[n]
  BY LenProperties, EmptySeq DEF Frame, Last
<1>2. DOMAIN stack' = 1..n /\ \A k \in 1..n : stack'[k] = IF k = n THEN new ELSE stack[k]
  BY <1>1
<1> HIDE DEF n
<1>3. \A k \in 1..n : FrameShape(stack[k])
  BY <1>1 DEF StackInv
<1>4. ASSUME NEW k \in 1..n PROVE FrameShape(stack[k])'
  <2>1. CASE k = n
    <3>1. FrameShape(Frame)
      BY <1>1, <1>3
    <3> QED BY <1>2, <2>1, <3>1 DEF FrameShape, HeadOf
  <2>2. CASE k # n
    BY <1>2, <1>3, <2>2 DEF FrameShape, HeadOf
  <2> QED BY <2>1, <2>2
<1>5. \A k \in 1..n : stack'[k].root = stack[k].root /\ stack'[k].ctx = stack[k].ctx
  BY <1>1, <1>2
<1> QED BY <1>1, <1>2, <1>4, <1>5 DEF StackInv, Within

LEMMA TranslatedShape ==
    ASSUME NEW e \in ScannedEdges, Frame \in Frames, NEW b \in Insts,
           NEW d \in Translated(e, VBlock(Frame, b))
    PROVE  EdgeShape(d)'
<1> DEFINE src == VBlock(Frame, b)
<1>1. Frame.root \in Insts /\ Frame.ctx \in Contexts
  BY DEF Frames
<1>2. /\ src \in VirtualBlocks /\ src[1] = Frame.root /\ src[2] = Frame.ctx /\ src[3] = b
  BY <1>1 DEF VBlock, VirtualBlocks
<1>3. \/ \E t : d = <<src, t, "CALL">> \/ d = <<src, t, "VIRTUAL_RETURN">>
      \/ e.target # Exit /\ e.kind # "CALL" /\ d = <<src, VBlock(Frame, e.target), e.kind>>
  <2>1. CASE CalledApart(e)
    BY <2>1 DEF Translated
  <2>2. CASE ~ CalledApart(e) /\ e.kind = "CALL"
    BY <2>2 DEF Translated
  <2>3. CASE ~ CalledApart(e) /\ e.kind # "CALL" /\ e.target = Exit
    BY <2>3 DEF Translated
  <2>4. CASE ~ CalledApart(e) /\ e.kind # "CALL" /\ e.target # Exit
    BY <2>4 DEF Translated
  <2> QED BY <2>1, <2>2, <2>3, <2>4
<1>4. e.kind \in {"NOT_TAKEN", "TAKEN", "CALL", "VIRTUAL"} /\ (e.target # Exit => e.target \in Insts)
  BY DEF ScannedEdges
<1>5. CASE \E t : d = <<src, t, "CALL">> \/ d = <<src, t, "VIRTUAL_RETURN">>
  <2>1. d[1] = src /\ d[3] \in {"CALL", "VIRTUAL_RETURN"}
    BY <1>5
  <2> QED BY <1>1, <1>2, <2>1 DEF EdgeShape
<1>6. CASE e.target # Exit /\ e.kind # "CALL" /\ d = <<src, VBlock(Frame, e.target), e.kind>>
  <2>1. d[1] = src /\ d[3] = e.kind /\ d[2] = <<Frame.root, Frame.ctx, e.target>> /\ e.target \in Insts
    BY <1>4, <1>6 DEF VBlock
  <2> HIDE DEF src
  <2>2. d[3] # "VIRTUAL_CALL"
    BY <1>4, <2>1
  <2>3. d[1] \in VirtualBlocks /\ d[1][1] \in Insts /\ d[1][3] \in Insts
    BY <1>1, <1>2, <2>1
  <2>4. d[2] = <<d[1][1], d[1][2], d[2][3]>> /\ d[2][3] \in Insts
    BY <1>2, <2>1
  <2> QED BY <2>2, <2>3, <2>4 DEF EdgeShape
<1> QED BY <1>3, <1>5, <1>6

LEMMA TranslatedFinite ==
    ASSUME NEW e, NEW src
    PROVE  IsFiniteSet(Translated(e, src))
<1>1. \E x : Translated(e, src) \in SUBSET {x}
  <2>1. CASE CalledApart(e)
    <3>1. Translated(e, src) = {<<src, <<e.target, <<>>, None>>, "CALL">>}
      BY <2>1 DEF Translated, CalledApart
    <3> QED BY <3>1
  <2>2. CASE ~ CalledApart(e) /\ e.kind = "CALL"
    BY <2>2 DEF Translated
  <2>3. CASE ~ CalledApart(e) /\ e.kind # "CALL" /\ e.target = Exit
    BY <2>3 DEF Translated
  <2>4. CASE ~ CalledApart(e) /\ e.kind # "CALL" /\ e.target # Exit
    BY <2>4 DEF Translated
  <2> QED BY <2>1, <2>2, <2>3, <2>4
<1> QED BY <1>1, FS_Singleton, FS_Subset

LEMMA TranslateBlockShape ==
    ASSUME VirtualizerInv, StackInv, GraphInv, TranslateBlock
    PROVE  StackInv' /\ GraphInv'
<1> DEFINE src == VBlock(Frame, BlockHere)
           new == [Frame EXCEPT !.src = src, !.called = Inlined, !.after = After,
                                !.todo = Frame.todo \ {BlockHere}]
           D == UNION {Translated(e, src) : e \in ToSet(EdgesHere)}
<1>1. /\ AtBlock /\ stack # <<>> /\ cfgMap' = cfgMap /\ loops' = loops /\ returnBlock' = returnBlock
      /\ stack' = [stack EXCEPT ![Len(stack)] = new]
      /\ vedges' = vedges \cup D
  BY DEF TranslateBlock, AtBlock
<1>2. /\ BuilderTypes /\ FramesInv /\ Frame \in Frames /\ stack \in Seq(Frames)
  BY <1>1, FrameIs DEF VirtualizerInv, BuilderInv, FramesInv
<1>3. BlockHere \in Insts /\ EdgesHere \in Seq(ScannedEdges)
  BY <1>1, <1>2, HereIs
<1>4. Inlined \in Seq(Insts) /\ After \in VirtualBlocks
  BY <1>2, <1>3, InlinedIs, AfterIs
<1>5. src \in VirtualBlocks /\ src = <<Frame.root, Frame.ctx, BlockHere>> /\ src # NoBlock
  BY <1>2, <1>3, InstsAre DEF Frames, VBlock, VirtualBlocks, NoBlock
<1>6. ASSUME NEW d \in D PROVE EdgeShape(d)'
  <2>1. PICK e \in ToSet(EdgesHere) : d \in Translated(e, src)
    OBVIOUS
  <2>2. e \in ScannedEdges
    BY <1>3, <2>1, ElementsIn
  <2> QED BY <1>2, <1>3, <2>1, <2>2, TranslatedShape
<1>7. IsFiniteSet(D)
  <2> DEFINE E == ToSet(EdgesHere)
             W == {Translated(e, src) : e \in E}
  <2>1. IsFiniteSet(E)
    <3> DEFINE n == Len(EdgesHere)
               g == [k \in 1..n |-> EdgesHere[k]]
    <3>1. n \in Nat /\ DOMAIN EdgesHere = 1..n
      BY <1>3, LenProperties
    <3>2. g \in Surjection(1..n, E)
      BY <3>1 DEF Surjection, ToSet
    <3>3. IsFiniteSet(1..n)
      BY <3>1, FS_Interval
    <3> QED BY <3>2, <3>3, FS_Surjection
  <2> HIDE DEF E, src
  <2>2. IsFiniteSet(W)
    <3> DEFINE g == [e \in E |-> Translated(e, src)]
    <3>1. g \in Surjection(E, W)
      BY DEF Surjection
    <3> QED BY <2>1, <3>1, FS_Surjection
  <2>3. \A S \in W : IsFiniteSet(S)
    BY TranslatedFinite
  <2> HIDE DEF W
  <2>4. IsFiniteSet(UNION W)
    BY <2>2, <2>3, FS_UNION
  <2> QED BY <2>4 DEF W, E
<1> HIDE DEF D, src
<1>8. GraphInv'
  BY <1>1, <1>6, <1>7, GraphGrows
<1>9. /\ new \in Frames /\ new.cfg = Frame.cfg /\ new.root = Frame.root /\ new.ctx = Frame.ctx
      /\ new.src = src
  BY <1>2, <1>4, <1>5 DEF Frames
<1> HIDE DEF new
<1>10. StackInv'
  BY <1>1, <1>2, <1>3, <1>5, <1>9, StackKept
<1> QED BY <1>8, <1>10

LEMMA InlineCallShape ==
    ASSUME VirtualizerInv, StackInv, GraphInv, InlineCall
    PROVE  StackInv' /\ GraphInv'
<1> DEFINE n == Len(stack)
           f == Head(Frame.called)
           rest == [Frame EXCEPT !.called = Tail(Frame.called)]
           frames == [stack EXCEPT ![n] = rest]
<1>1. stack # <<>> /\ Frame.called # <<>> /\ cfgMap' = cfgMap
  BY DEF InlineCall
<1>2. /\ BuilderTypes /\ FramesInv
      /\ n \in Nat \ {0} /\ DOMAIN stack = 1..n /\ n \in DOMAIN stack
      /\ Frame \in Frames /\ Frame = stack[n] /\ stack \in Seq(Frames)
  BY <1>1, FrameIs DEF VirtualizerInv, BuilderInv, FramesInv
<1>3. f \in Insts /\ Tail(Frame.called) \in Seq(Insts)
  <2>1. Frame.called \in Seq(Insts)
    BY <1>2 DEF Frames
  <2> QED BY <1>1, <2>1, HeadTailProperties
<1>4. rest \in Frames /\ rest.cfg = Frame.cfg /\ rest.root = Frame.root /\ rest.ctx = Frame.ctx
      /\ rest.src = Frame.src /\ rest.after = Frame.after
  BY <1>2, <1>3 DEF Frames
<1>5. frames = [stack EXCEPT ![Len(stack)].called = Tail(@)]
  BY <1>2
<1> HIDE DEF rest
<1>6. FrameShape(Frame)
  BY <1>2 DEF StackInv
<1>7. Frame.src # NoBlock /\ \E b \in Insts : Frame.src = <<Frame.root, Frame.ctx, b>>
  BY <1>1, <1>6 DEF FrameShape
<1>8. PICK b \in Insts : Frame.src = <<Frame.root, Frame.ctx, b>>
  BY <1>7
<1>9. Frame.root \in Insts /\ Frame.ctx \in Contexts /\ Frame.src \in VirtualBlocks
  BY <1>2 DEF Frames
<1>10. frames \in Seq(Frames) /\ Len(frames) = n /\ \A k \in 1..n : frames[k] = IF k = n THEN rest ELSE stack[k]
  BY <1>2, <1>4, ExceptSeq, LenProperties
<1>n. n \in Nat
  BY <1>2
<1>s. Frame.src[3] \in Insts /\ Frame.src[1] = Frame.root /\ Frame.src[2] = Frame.ctx /\ Frame.src[3] = b
  BY <1>8
<1> HIDE DEF frames, f, n
<1>11. CASE InProgress(f) # {}
  <2> DEFINE j == Max(InProgress(f))
             g == stack[j]
  <2>0. PICK e : e = <<Frame.src, VBlock(g, f), "VIRTUAL_CALL">>
    OBVIOUS
  <2>1. /\ stack' = frames /\ vedges' = vedges \cup {e} /\ loops' = loops \cup {e}
        /\ returnBlock' = Put(returnBlock, Frame.src, Frame.after)
    BY <1>5, <1>11, <2>0 DEF InlineCall, f
  <2>2. j \in 1..n /\ stack[j].cfg = f
    <3>1. InProgress(f) \in SUBSET (0..n)
      BY <1>2 DEF InProgress
    <3>2. \E x \in InProgress(f) : \A y \in InProgress(f) : x >= y
      BY <1>2, <1>11, <3>1, GreatestElement
    <3>3. Max(InProgress(f)) \in InProgress(f)
      BY <3>2 DEF Max
    <3> QED BY <1>2, <3>3 DEF InProgress
  <2> HIDE DEF j
  <2>3. g \in Frames /\ g.root \in Insts /\ g.ctx \in Contexts /\ FrameShape(g)
    <3>1. g \in Frames /\ FrameShape(g)
      BY <1>2, <2>2, ElementOfSeq DEF StackInv
    <3> QED BY <3>1 DEF Frames
  <2>4. g.root = Frame.root => Within(g.ctx, Frame.ctx)
    <3>1. CASE j = n
      BY <1>2, <1>9, <3>1, WithinSelf
    <3>2. CASE j # n
      <4>1. j < n
        BY <1>n, <2>2, <3>2
      <4> QED BY <1>2, <2>2, <4>1 DEF StackInv
    <3> QED BY <3>1, <3>2
  <2>5. g.cfg = f /\ f = HeadOf(g.root, g.ctx)
    BY <2>2, <2>3 DEF FrameShape
  <2>6. e[1] = Frame.src /\ e[2] = <<g.root, g.ctx, f>> /\ e[3] = "VIRTUAL_CALL" /\ e \in loops'
    BY <2>0, <2>1 DEF VBlock
  <2> HIDE DEF g
  <2>7. e[2] \in VirtualBlocks
    BY <1>3, <2>3, <2>6 DEF VirtualBlocks
  <2>8. LoopEdge(e)'
    BY <1>s, <2>4, <2>5, <2>6, <2>7 DEF LoopEdge, Within, HeadOf
  <2>9. EdgeShape(e)'
    BY <1>s, <1>9, <2>6, <2>8 DEF EdgeShape
  <2>10. IsFiniteSet({e})
    BY FS_Singleton
  <2>11. /\ DOMAIN returnBlock \subseteq DOMAIN returnBlock'
         /\ \A v \in DOMAIN returnBlock' : v \in DOMAIN returnBlock \/ v[3] \in Insts
    <3>1. DOMAIN returnBlock' = DOMAIN returnBlock \cup {Frame.src}
      BY <2>1 DEF Put
    <3> QED BY <1>s, <3>1
  <2>12. GraphInv'
    BY <2>1, <2>9, <2>10, <2>11, GraphGrows
  <2>13. StackInv'
    BY <1>1, <1>2, <1>4, <1>7, <2>1, StackKept DEF frames, n
  <2> QED BY <2>12, <2>13
<1>12. CASE InProgress(f) = {} /\ Frame.after # NoBlock
  <2> DEFINE x == <<Frame.src[3], f>>
             ctx == Append(Frame.ctx, x)
  <2>0. PICK e : e = <<Frame.src, <<Frame.root, ctx, f>>, "VIRTUAL_CALL">>
    OBVIOUS
  <2>1. /\ Push(frames, f, Frame.root, ctx, Frame.src, Frame.after) /\ loops' = loops
        /\ returnBlock' = Put(returnBlock, Frame.src, Frame.after)
    BY <1>5, <1>12 DEF InlineCall, f
  <2>2. x \in (Insts \cup {None, Exit}) \X Insts /\ x[2] = f
    BY <1>3, <1>8
  <2>3. ctx \in Contexts /\ f = HeadOf(Frame.root, ctx)
    BY <1>9, <2>2, WithinSelf, WithinAppend
  <2>4. ASSUME NEW k \in 1..n, stack[k].root = Frame.root PROVE Within(stack[k].ctx, ctx)
    <3>1. Within(stack[k].ctx, Frame.ctx)
      <4>1. CASE k = n
        BY <1>2, <1>9, <4>1, WithinSelf
      <4>2. CASE k # n
        <5>1. k < n
          BY <1>n, <4>2
        <5> QED BY <1>2, <2>4, <5>1 DEF StackInv
      <4> QED BY <4>1, <4>2
    <3>2. stack[k].ctx \in Contexts
      <4>1. stack[k] \in Frames
        BY <1>2, ElementOfSeq
      <4> QED BY <4>1 DEF Frames
    <3> QED BY <1>9, <2>2, <3>1, <3>2, WithinAppend
  <2>5. Frame.after \in VirtualBlocks \ {NoBlock} /\ Frame.root \in cfgMap
    BY <1>2, <1>6, <1>12 DEF Frames, FrameShape
  <2>6. \A k \in 1..n :
            /\ frames[k].cfg = stack[k].cfg /\ frames[k].root = stack[k].root
            /\ frames[k].ctx = stack[k].ctx /\ frames[k].src = stack[k].src
            /\ frames[k].called # <<>> => stack[k].called # <<>>
    BY <1>1, <1>2, <1>4, <1>10
  <2> HIDE DEF ctx
  <2>7. StackInv'
    BY <1>1, <1>2, <1>3, <1>9, <1>10, <2>1, <2>3, <2>4, <2>5, <2>6, StackPush DEF n
  <2>8. vedges' = vedges \cup {e}
    BY <2>0, <2>1 DEF Push
  <2>9. /\ DOMAIN returnBlock \subseteq DOMAIN returnBlock' /\ Frame.src \in DOMAIN returnBlock'
        /\ \A v \in DOMAIN returnBlock' : v \in DOMAIN returnBlock \/ v[3] \in Insts
    <3>1. DOMAIN returnBlock' = DOMAIN returnBlock \cup {Frame.src}
      BY <2>1 DEF Put
    <3> QED BY <1>s, <3>1
  <2>10. e[1] = Frame.src /\ e[2] = <<Frame.root, Append(Frame.ctx, <<b, f>>), f>> /\ e[3] = "VIRTUAL_CALL"
    BY <1>s, <2>0 DEF ctx
  <2>11. InlinedEdge(e)'
    BY <1>3, <1>s, <2>9, <2>10 DEF InlinedEdge
  <2>12. EdgeShape(e)'
    BY <1>s, <1>9, <2>10, <2>11 DEF EdgeShape
  <2>13. IsFiniteSet({e})
    BY FS_Singleton
  <2>14. GraphInv'
    BY <2>1, <2>8, <2>9, <2>12, <2>13, GraphGrows
  <2> QED BY <2>7, <2>14
<1>13. CASE InProgress(f) = {} /\ Frame.after = NoBlock
  <2>1. stack' = stack /\ vedges' = vedges /\ loops' = loops /\ returnBlock' = returnBlock
    BY <1>13 DEF InlineCall, f
  <2>2. StackInv'
    BY <1>1, <2>1 DEF StackInv, FrameShape, HeadOf, Within
  <2>3. GraphInv'
    BY <2>1, EdgeKept DEF GraphInv
  <2> QED BY <2>2, <2>3
<1> QED BY <1>11, <1>12, <1>13

LEMMA EndInlineShape ==
    ASSUME VirtualizerInv, StackInv, GraphInv, EndInline
    PROVE  StackInv' /\ GraphInv'
<1> DEFINE n == Len(stack)
<1>1. /\ stack # <<>> /\ stack' = Front(stack) /\ cfgMap' = cfgMap
      /\ vedges' = vedges /\ loops' = loops /\ returnBlock' = returnBlock
  BY DEF EndInline
<1>2. n \in Nat \ {0} /\ DOMAIN stack = 1..n /\ stack \in Seq(Frames)
  BY <1>1, FrameIs DEF VirtualizerInv, FramesInv
<1>3. DOMAIN stack' = 1..(n - 1) /\ \A k \in 1..(n - 1) : stack'[k] = stack[k]
  BY <1>1, <1>2, SubSeqProperties, LenProperties DEF Front
<1>4. \A k \in 1..(n - 1) : k \in DOMAIN stack
  BY <1>2
<1> HIDE DEF n
<1>5. StackInv'
  BY <1>1, <1>3, <1>4 DEF StackInv, FrameShape, HeadOf, Within
<1>6. GraphInv'
  BY <1>1, EdgeKept DEF GraphInv
<1> QED BY <1>5, <1>6

-----------------------------------------------------------------------------
(* Before the traversal.                                                   *)

\* Nothing is traversed as long as the CFGs are not checked.
LEMMA IdleKept ==
    ASSUME OrderInv, TraversalTypes, failed = "unknown",
           cfg' = cfg, todo' = todo, calls' = calls, path' = path, last' = last, max' = max,
           left' \subseteq Insts, back' \subseteq vedges', \A e \in back' : e[1][3] \in Insts
    PROVE  TraversalTypes' /\ TraversalInv'
<1>1. cfg' = None /\ todo' = <<>> /\ calls' = <<>> /\ path' = <<>> /\ last' = NoBlock /\ DOMAIN max' = {}
  BY DEF OrderInv
<1>2. TraversalTypes'
  BY <1>1, EmptySeq DEF TraversalTypes
<1>3. TraversalInv'
  BY <1>1 DEF TraversalInv, ContextExact, BoundsJustified
<1> QED BY <1>2, <1>3

LEMMA OnLoopStep ==
    ASSUME FlowFactsInv, onLoop
    PROVE  FlowFactsInv'
<1>1. /\ prog' = prog /\ phase' = phase /\ seg' = seg /\ item' = item /\ BB' = BB /\ isEntry' = isEntry
      /\ bb' = bb /\ follow' = follow /\ top' = top /\ outs' = outs /\ returns' = returns
      /\ entries' = entries /\ cfgs' = cfgs
      /\ stack' = stack /\ vedges' = vedges /\ cfgMap' = cfgMap /\ loops' = loops
      /\ returnBlock' = returnBlock /\ fault' = fault /\ UNCHANGED execution
      /\ failed' = failed /\ back' = back
      /\ left' = left /\ cfg' = cfg /\ todo' = todo /\ calls' = calls /\ path' = path
      /\ marked' = marked /\ max' = max /\ done' = done /\ last' = last /\ unread # <<>>
  BY DEF onLoop, builder, inlining, traversal
<1>2. failed = "unknown"
  BY <1>1 DEF FlowFactsInv, OrderInv
<1>3. VirtualizerInv /\ StackInv /\ prog \in Programs
  BY <1>2 DEF FlowFactsInv, OrderInv, VirtualizerInv, BuilderInv, BuilderTypes
<1>4. VirtualizerInv'
  <2>1. UNCHANGED vars
    BY <1>1 DEF vars, builder, inlining
  <2> QED BY <1>3, <2>1, ExecutionStep
<1>5. StackInv'
  BY <1>1, <1>3 DEF StackInv, FrameShape, HeadOf, Within
<1>6. OrderInv'
  BY <1>1, <1>2, <1>4, <1>5 DEF FlowFactsInv, OrderInv
<1>7. FactsInv'
  BY <1>3, OnLoopFacts DEF FlowFactsInv
<1>8. GraphInv'
  BY <1>1, EdgeKept DEF FlowFactsInv, GraphInv
<1>9. TraversalTypes' /\ TraversalInv'
  <2>1. OrderInv /\ TraversalTypes
    BY DEF FlowFactsInv
  <2>2. left' \subseteq Insts /\ back' \subseteq vedges' /\ \A e \in back' : e[1][3] \in Insts
    BY <1>1, <2>1 DEF TraversalTypes
  <2> QED BY <1>1, <1>2, <2>1, <2>2, IdleKept
<1> QED BY <1>6, <1>7, <1>8, <1>9 DEF FlowFactsInv

LEMMA FactsKept ==
    ASSUME FactsInv, nodes' = nodes, bounds' = bounds, unread' = unread, prog' = prog
    PROVE  FactsInv'
BY DEF FactsInv, Read

LEMMA InlineShape ==
    ASSUME VirtualizerInv, StackInv, GraphInv, BuildStep \/ Inline,
           phase # "inline" => vedges = {} /\ cfgMap = {}
    PROVE  /\ VirtualizerInv' /\ StackInv' /\ GraphInv'
           /\ phase' # "inline" => vedges' = {} /\ cfgMap' = {}
<1>1. VirtualizerInv'
  BY BuildStepKeeps, VirtualizeStep, VirtualizeApartStep, TranslateBlockStep, InlineCallStep,
     EndInlineStep DEF Inline
<1>2. CASE BuildStep
  <2>1. /\ stack' = stack /\ cfgMap' = cfgMap /\ vedges' = vedges /\ loops' = loops
        /\ returnBlock' = returnBlock /\ phase # "inline"
    BY <1>2 DEF BuildStep, Build, FindBlocks, FindDone, LinkBlocks, SegmentDone, inlining
  <2>2. StackInv' /\ GraphInv'
    BY <2>1, EdgeKept DEF StackInv, FrameShape, HeadOf, Within, GraphInv
  <2> QED BY <1>1, <2>1, <2>2
<1>3. CASE Virtualize
  <2>1. phase = "built" /\ phase' = "inline" /\ PushCFG(prog.start) /\ loops' = loops /\ returnBlock' = returnBlock
    BY <1>3 DEF Virtualize
  <2>2. prog.start \in Insts /\ prog.start \notin cfgMap
    BY <2>1, ProgramsAssumption DEF VirtualizerInv, BuilderInv, BuilderTypes
  <2> QED BY <1>1, <2>1, <2>2, PushCFGShape
<1>4. CASE VirtualizeApart
  <2>1. PICK f \in Apart \ cfgMap : PushCFG(f)
    BY <1>4 DEF VirtualizeApart
  <2>2. loops' = loops /\ returnBlock' = returnBlock /\ phase' = "inline"
    BY <1>4 DEF VirtualizeApart, AtBlock, builder
  <2>3. f \in Insts
    BY <2>1 DEF VirtualizerInv, BuilderInv, BuilderTypes, Apart
  <2> QED BY <1>1, <2>1, <2>2, <2>3, PushCFGShape
<1>5. CASE TranslateBlock
  <2>1. phase' = "inline"
    BY <1>5 DEF TranslateBlock, AtBlock, builder
  <2> QED BY <1>1, <1>5, <2>1, TranslateBlockShape
<1>6. CASE InlineCall
  <2>1. phase' = "inline"
    BY <1>6 DEF InlineCall, builder
  <2> QED BY <1>1, <1>6, <2>1, InlineCallShape
<1>7. CASE EndInline
  <2>1. phase' = "inline"
    BY <1>7 DEF EndInline, builder
  <2> QED BY <1>1, <1>7, <2>1, EndInlineShape
<1> QED BY <1>2, <1>3, <1>4, <1>5, <1>6, <1>7 DEF Inline

LEMMA BuildAndInlineStep ==
    ASSUME FlowFactsInv, BuildAndInline
    PROVE  FlowFactsInv'
<1>1. /\ nodes' = nodes /\ bounds' = bounds /\ unread' = unread /\ failed' = failed /\ back' = back
      /\ left' = left /\ cfg' = cfg /\ todo' = todo /\ calls' = calls /\ path' = path
      /\ marked' = marked /\ max' = max /\ done' = done /\ last' = last
      /\ BuildStep \/ Inline
  BY DEF BuildAndInline, factVars, facts, traversal
<1>2. failed = "unknown"
  <2>1. BuildStep => phase # "inline"
    BY DEF BuildStep, Build, FindBlocks, FindDone, LinkBlocks, SegmentDone
  <2>2. Inline => phase # "inline" \/ stack # <<>>
    BY DEF Inline, Virtualize, VirtualizeApart, TranslateBlock, AtBlock, InlineCall, EndInline
  <2> QED BY <1>1, <2>1, <2>2 DEF FlowFactsInv, OrderInv
<1>3. /\ VirtualizerInv /\ StackInv /\ GraphInv /\ OrderInv /\ TraversalTypes /\ FactsInv
      /\ phase # "inline" => vedges = {} /\ cfgMap = {}
  BY <1>2 DEF FlowFactsInv, OrderInv
<1>4. /\ VirtualizerInv' /\ StackInv' /\ GraphInv'
      /\ phase' # "inline" => vedges' = {} /\ cfgMap' = {}
  BY <1>1, <1>3, InlineShape
<1>5. prog' = prog
  BY <1>1 DEF BuildStep, Build, FindBlocks, FindDone, LinkBlocks, SegmentDone, Inline,
              Virtualize, VirtualizeApart, TranslateBlock, InlineCall, EndInline, builder
<1>6. OrderInv'
  BY <1>1, <1>2, <1>3, <1>4 DEF OrderInv
<1>7. FactsInv'
  BY <1>1, <1>3, <1>5, FactsKept
<1>8. TraversalTypes' /\ TraversalInv'
  <2>1. left' = {} /\ back' = {}
    BY <1>1, <1>2, <1>3 DEF OrderInv
  <2>2. left' \subseteq Insts /\ back' \subseteq vedges' /\ \A e \in back' : e[1][3] \in Insts
    BY <2>1
  <2> QED BY <1>1, <1>2, <1>3, <2>2, IdleKept
<1> QED BY <1>4, <1>6, <1>7, <1>8 DEF FlowFactsInv

\* The entry of a CFG is reached without passing by another block.
LEMMA EntryReached ==
    ASSUME IsFiniteSet(vedges), NEW f, NEW v, v # EntryOf(f)
    PROVE  EntryOf(f) \in ReachedAvoiding(f, v)
<1> DEFINE n == Cardinality(vedges)
           next(B) == {e[2] : e \in {e \in vedges : e[1] \in B /\ e[3] # "CALL"}} \ {v}
           more(B) == B \cup next(B)
           base == {EntryOf(f)} \ {v}
           eq(g) == g = [k \in 0..n |-> IF k = 0 THEN base ELSE more(g[k - 1])]
           U == CHOOSE g : eq(g)
           S == SUBSET ({e[2] : e \in vedges} \cup {EntryOf(f)})
<1>1. ReachedAvoiding(f, v) = U[n]
  BY DEF ReachedAvoiding
<1>2. n \in Nat
  BY FS_CardinalityType
<1>3. base \in S /\ EntryOf(f) \in base
  OBVIOUS
<1>4. \A B \in S : more(B) \in S
  OBVIOUS
<1>5. \A B : B \subseteq more(B)
  OBVIOUS
<1> HIDE DEF more, base, n
<1>6. \E g : eq(g)
  <2> DEFINE F == [i \in 1..n |-> [B \in S |-> more(B)]]
  <2> HIDE DEF S
  <2>1. F \in [1..n -> [S -> S]]
    BY <1>4
  <2> HIDE DEF F
  <2>2. PICK g : Recursion(g, n, S, base, F)
    BY <1>2, <1>3, <2>1, RecursionExists
  <2>3. g \in [0..n -> S] /\ g[0] = base /\ \A i \in 1..n : g[i] = more(g[i - 1])
    <3>1. \A i \in 1..n : g[i - 1] \in S
      BY <1>2, <2>2 DEF Recursion
    <3> QED BY <2>2, <3>1 DEF Recursion, F
  <2>4. \A k \in 0..n : g[k] = IF k = 0 THEN base ELSE more(g[k - 1])
    BY <1>2, <2>3
  <2>5. eq(g)
    BY <2>3, <2>4
  <2> QED BY <2>5
<1>7. eq(U)
  BY <1>6
<1>8. \A k \in 0..n : U[k] = IF k = 0 THEN base ELSE more(U[k - 1])
  BY <1>7
<1> HIDE DEF U, eq
<1> DEFINE A == {k \in Nat : k <= n => EntryOf(f) \in U[k]}
<1>9. 0 \in A
  BY <1>2, <1>3, <1>8
<1>10. ASSUME NEW k \in Nat, k \in A PROVE k + 1 \in A
  <2> SUFFICES ASSUME k + 1 <= n PROVE EntryOf(f) \in U[k + 1]
    OBVIOUS
  <2>1. EntryOf(f) \in U[k] /\ k + 1 \in 0..n /\ k + 1 # 0 /\ (k + 1) - 1 = k
    BY <1>2, <1>10
  <2>2. U[k + 1] = more(U[k])
    BY <1>8, <2>1
  <2> QED BY <1>5, <2>1, <2>2
<1> HIDE DEF A
<1>11. n \in A
  BY <1>2, <1>9, <1>10, NatSetInduction
<1> QED BY <1>1, <1>2, <1>11 DEF A

LEMMA CheckStep ==
    ASSUME FlowFactsInv, Check
    PROVE  FlowFactsInv'
<1>1. /\ prog' = prog /\ phase' = phase /\ seg' = seg /\ top' = top /\ outs' = outs
      /\ BB' = BB /\ follow' = follow /\ entries' = entries /\ cfgs' = cfgs
      /\ stack' = stack /\ vedges' = vedges /\ cfgMap' = cfgMap /\ loops' = loops
      /\ returnBlock' = returnBlock
      /\ nodes' = nodes /\ bounds' = bounds /\ unread' = unread
      /\ cfg' = cfg /\ todo' = todo /\ calls' = calls /\ path' = path
      /\ max' = max /\ last' = last
      /\ phase = "inline" /\ stack = <<>> /\ unread = <<>> /\ failed = "unknown"
      /\ failed' # "unknown" /\ left' = cfgMap
      /\ back' = back \/ back' = BackEdges
  BY DEF Check, builder, inlining, facts
<1>2. VirtualizerInv /\ OrderInv /\ TraversalTypes /\ FactsInv /\ GraphInv
  BY <1>1 DEF FlowFactsInv, OrderInv
<1>3. BuilderTypes'
  BY <1>1, <1>2 DEF VirtualizerInv, BuilderInv, BuilderTypes
<1>4. OrderInv'
  BY <1>1, <1>2, <1>3 DEF OrderInv
<1>5. FactsInv' /\ GraphInv'
  BY <1>1, <1>2, FactsKept, EdgeKept DEF GraphInv
<1>6. ASSUME NEW e \in BackEdges PROVE e[1][3] \in Insts
  <2>1. e \in vedges /\ e[1] \notin ReachedAvoiding(e[2][1], e[2])
    BY DEF BackEdges
  <2>2. EdgeShape(e)
    BY <1>2, <2>1 DEF GraphInv
  <2>3. ASSUME EntryEdge(e) PROVE FALSE
    <3>1. e[1] = EntryOf(e[1][1]) /\ e[2] = <<e[1][1], <<>>, e[1][1]>> /\ e[1][1] \in Insts
      BY <2>2, <2>3 DEF EntryEdge, EdgeShape
    <3>2. e[2][1] = e[1][1] /\ e[2] # EntryOf(e[2][1])
      BY <3>1, InstsAre DEF EntryOf
    <3>3. EntryOf(e[2][1]) \in ReachedAvoiding(e[2][1], e[2])
      BY <1>2, <3>2, EntryReached DEF GraphInv
    <3> QED BY <2>1, <3>1, <3>2, <3>3
  <2> QED BY <2>2, <2>3 DEF EdgeShape
<1>7. left' \subseteq Insts /\ back' \subseteq vedges' /\ \A e \in back' : e[1][3] \in Insts
  <2>1. BackEdges \subseteq vedges
    BY DEF BackEdges
  <2> QED BY <1>1, <1>2, <1>6, <2>1 DEF VirtualizerInv, FramesInv, TraversalTypes
<1>8. TraversalTypes' /\ TraversalInv'
  BY <1>1, <1>2, <1>7, IdleKept
<1> QED BY <1>4, <1>5, <1>8 DEF FlowFactsInv

-----------------------------------------------------------------------------
(* The stack of edges.                                                     *)

LEMMA WithinTransitive ==
    ASSUME NEW b \in Contexts, NEW c \in Contexts, NEW d \in Contexts, Within(b, c), Within(c, d)
    PROVE  Within(b, d)
<1>1. Len(b) \in Nat /\ Len(c) \in Nat /\ Len(d) \in Nat
  BY LenProperties DEF Contexts
<1> QED BY <1>1 DEF Within

LEMMA WithinWhole ==
    ASSUME NEW c \in Contexts, NEW d \in Contexts, Within(c, d), Len(c) = Len(d)
    PROVE  c = d
BY SeqEqual, LenProperties DEF Within, Contexts

LEMMA WithinShorter ==
    ASSUME NEW b \in Contexts, NEW c \in Contexts, NEW d \in Contexts,
           Within(b, d), Within(c, d), Len(b) <= Len(c)
    PROVE  Within(b, c)
<1>1. Len(b) \in Nat /\ Len(c) \in Nat /\ Len(d) \in Nat
  BY LenProperties DEF Contexts
<1> QED BY <1>1 DEF Within

LEMMA FrontIs ==
    ASSUME NEW T, NEW t \in Seq(T), t # <<>>
    PROVE  /\ Len(t) \in Nat \ {0} /\ Front(t) \in Seq(T) /\ Len(Front(t)) = Len(t) - 1
           /\ DOMAIN t = 1..Len(t) /\ DOMAIN Front(t) = 1..(Len(t) - 1)
           /\ \A k \in 1..(Len(t) - 1) : Front(t)[k] = t[k]
           /\ Last(t) = t[Len(t)] /\ Last(t) \in T
<1>1. Len(t) \in Nat \ {0} /\ DOMAIN t = 1..Len(t)
  BY LenProperties, EmptySeq
<1>2. /\ Front(t) \in Seq(T) /\ Len(Front(t)) = Len(t) - 1
      /\ \A k \in 1..(Len(t) - 1) : Front(t)[k] = t[k]
  BY <1>1, SubSeqProperties, LenProperties DEF Front
<1>3. Last(t) = t[Len(t)] /\ Last(t) \in T
  BY <1>1, ElementOfSeq DEF Last
<1> QED BY <1>1, <1>2, <1>3, LenProperties

LEMMA WithinFront ==
    ASSUME NEW c \in Contexts, c # <<>>
    PROVE  Front(c) \in Contexts /\ Len(Front(c)) = Len(c) - 1 /\ Within(Front(c), c)
<1>1. Len(c) \in Nat \ {0}
  BY LenProperties, EmptySeq DEF Contexts
<1>2. /\ Front(c) \in Contexts /\ Len(Front(c)) = Len(c) - 1
      /\ \A k \in 1..(Len(c) - 1) : Front(c)[k] = c[k]
  BY FrontIs DEF Contexts
<1> QED BY <1>1, <1>2 DEF Within

LEMMA DepthWithin ==
    ASSUME NEW v, NEW r, NEW n, NEW c \in Contexts, NEW d \in Contexts, AtDepth(v, r, n, c),
           Within(c, d) \/ (Within(d, c) /\ n <= Len(d))
    PROVE  AtDepth(v, r, n, d)
<1>1. v[2] \in Contexts /\ Within(v[2], c) /\ Len(v[2]) = n
  BY DEF AtDepth, VirtualBlocks
<1>2. Within(v[2], d)
  BY <1>1, WithinTransitive, WithinShorter
<1> QED BY <1>2 DEF AtDepth

\* The edge on the top of the stack is at the depth of the calls.
LEMMA TodoTop ==
    ASSUME NEW E, NEW t \in Seq(E \cup {Null}), t # <<>>, NEW n \in Nat, NEW r, NEW c,
           TodoOK(E, t, n, r, c)
    PROVE  IF Last(t) = Null THEN n >= 1
           ELSE Last(t) \in E /\ IF n = 0 THEN Last(t)[1] = EntryOf(r) ELSE AtDepth(Last(t)[1], r, n - 1, c)
<1> DEFINE m == Len(t)
<1>1. m \in Nat \ {0} /\ DOMAIN t = 1..m /\ Last(t) = t[m]
  BY FrontIs
<1>2. PICK L \in [DOMAIN t -> 0..n] : Levels(E, t, n, r, c, L)
  BY DEF TodoOK
<1> HIDE DEF m
<1>3. m \in DOMAIN t /\ L[m] \in 0..n
  BY <1>1
<1>4. L[m] = n
  <2>1. CASE n = 0
    BY <1>3, <2>1
  <2>2. CASE n # 0
    <3>1. n \in 1..n
      BY <2>2
    <3>2. PICK k \in DOMAIN t : L[k] = n
      BY <1>2, <3>1 DEF Levels
    <3>3. k <= m
      BY <1>1
    <3>4. n <= L[m]
      BY <1>2, <1>3, <3>2, <3>3 DEF Levels
    <3> QED BY <1>3, <3>4
  <2> QED BY <2>1, <2>2
<1> QED BY <1>1, <1>2, <1>3, <1>4 DEF Levels

\* An edge is taken off the stack.
LEMMA TodoDrop ==
    ASSUME NEW E, NEW t \in Seq(E \cup {Null}), t # <<>>, NEW n \in Nat, NEW r, NEW c,
           TodoOK(E, t, n, r, c)
    PROVE  IF Last(t) = Null THEN TodoOK(E, Front(t), n - 1, r, c) ELSE TodoOK(E, Front(t), n, r, c)
<1> DEFINE m == Len(t)
           s == Front(t)
<1>1. /\ m \in Nat \ {0} /\ DOMAIN t = 1..m /\ Last(t) = t[m]
      /\ DOMAIN s = 1..(m - 1) /\ \A k \in 1..(m - 1) : s[k] = t[k]
  BY FrontIs
<1>2. PICK L \in [DOMAIN t -> 0..n] : Levels(E, t, n, r, c, L)
  BY DEF TodoOK
<1> HIDE DEF m, s
<1> DEFINE K == [k \in 1..(m - 1) |-> L[k]]
<1>3. \A k \in 1..(m - 1) : k \in DOMAIN t /\ K[k] = L[k] /\ L[k] \in 0..n /\ k < m
  BY <1>1
<1>4. m \in DOMAIN t /\ L[m] \in 0..n
  BY <1>1
<1>a. DOMAIN K = 1..(m - 1)
  OBVIOUS
<1>b. K = [k \in 1..(m - 1) |-> K[k]]
  OBVIOUS
<1> HIDE DEF K
<1>5. /\ \A j, k \in DOMAIN s : j <= k => K[j] <= K[k]
      /\ \A k \in DOMAIN s :
            IF s[k] = Null THEN K[k] >= 1 /\ \A j \in DOMAIN s : j < k => K[j] < K[k]
            ELSE s[k] \in E /\ IF K[k] = 0 THEN s[k][1] = EntryOf(r) ELSE AtDepth(s[k][1], r, K[k] - 1, c)
  BY <1>1, <1>2, <1>3 DEF Levels
<1>6. CASE t[m] # Null
  <2>1. ASSUME NEW x \in 1..n PROVE \E k \in DOMAIN s : s[k] = Null /\ K[k] = x
    <3>1. PICK k \in DOMAIN t : t[k] = Null /\ L[k] = x
      BY <1>2 DEF Levels
    <3>2. k # m /\ k \in 1..(m - 1)
      BY <1>1, <1>6, <3>1
    <3> QED BY <1>1, <1>3, <3>1, <3>2
  <2>2. K \in [DOMAIN s -> 0..n]
    BY <1>1, <1>3, <1>b
  <2>3. Levels(E, s, n, r, c, K)
    BY <1>5, <2>1 DEF Levels
  <2> QED BY <1>1, <1>6, <2>2, <2>3 DEF TodoOK, s
<1>7. CASE t[m] = Null
  <2>1. \A k \in 1..(m - 1) : L[k] < L[m]
    BY <1>2, <1>3, <1>4, <1>7 DEF Levels
  <2>2. \A k \in 1..(m - 1) : K[k] \in 0..(n - 1)
    BY <1>3, <1>4, <2>1
  <2>3. ASSUME NEW x \in 1..(n - 1) PROVE \E k \in DOMAIN s : s[k] = Null /\ K[k] = x
    <3>1. x \in 1..n /\ n \in 1..n
      OBVIOUS
    <3>2. PICK k \in DOMAIN t : t[k] = Null /\ L[k] = x
      BY <1>2, <3>1 DEF Levels
    <3>3. PICK l \in DOMAIN t : t[l] = Null /\ L[l] = n
      BY <1>2, <3>1 DEF Levels
    <3>4. l <= m
      BY <1>1
    <3>5. L[l] <= L[m]
      BY <1>2, <1>4, <3>3, <3>4 DEF Levels
    <3>6. k # m
      BY <1>4, <3>2, <3>3, <3>5
    <3>7. k \in 1..(m - 1)
      BY <1>1, <3>6
    <3> QED BY <1>1, <1>3, <3>2, <3>7
  <2>4. K \in [DOMAIN s -> 0..(n - 1)]
    BY <1>1, <2>2, <1>b
  <2>5. Levels(E, s, n - 1, r, c, K)
    BY <1>5, <2>3 DEF Levels
  <2> QED BY <1>1, <1>7, <2>4, <2>5 DEF TodoOK, s
<1> QED BY <1>6, <1>7

\* A call is entered: the null edge.
LEMMA TodoEnter ==
    ASSUME NEW E, NEW t \in Seq(E \cup {Null}), NEW n \in Nat, NEW r,
           NEW c \in Contexts, NEW d \in Contexts, n = 0 \/ Within(c, d), TodoOK(E, t, n, r, c)
    PROVE  TodoOK(E, Append(t, Null), n + 1, r, d)
<1> DEFINE m == Len(t)
           s == Append(t, Null)
<1>1. m \in Nat /\ DOMAIN t = 1..m
  BY LenProperties
<1>2. DOMAIN s = 1..(m + 1) /\ s[m + 1] = Null /\ \A k \in 1..m : s[k] = t[k]
  <2>1. Null \in E \cup {Null}
    OBVIOUS
  <2>2. s \in Seq(E \cup {Null}) /\ Len(s) = m + 1
    BY <2>1, AppendProperties
  <2> QED BY <2>1, <2>2, AppendProperties, LenProperties
<1>3. PICK L \in [DOMAIN t -> 0..n] : Levels(E, t, n, r, c, L)
  BY DEF TodoOK
<1> HIDE DEF m, s
<1> DEFINE K == [k \in 1..(m + 1) |-> IF k = m + 1 THEN n + 1 ELSE L[k]]
<1>4. \A k \in 1..(m + 1) : k = m + 1 \/ k \in 1..m
  BY <1>1
<1>5. /\ \A k \in 1..m : k \in 1..(m + 1) /\ k # m + 1 /\ K[k] = L[k] /\ L[k] \in 0..n /\ k \in DOMAIN t
      /\ m + 1 \in 1..(m + 1) /\ K[m + 1] = n + 1
  BY <1>1
<1>6. K \in [DOMAIN s -> 0..(n + 1)]
  <2>1. ASSUME NEW k \in 1..(m + 1) PROVE K[k] \in 0..(n + 1)
    <3>1. n + 1 \in 0..(n + 1) /\ \A x \in 0..n : x \in 0..(n + 1)
      OBVIOUS
    <3>2. CASE k = m + 1
      BY <1>5, <3>1, <3>2
    <3>3. CASE k \in 1..m
      <4>1. K[k] = L[k] /\ L[k] \in 0..n
        BY <1>5, <3>3
      <4> HIDE DEF K
      <4> QED BY <3>1, <4>1
    <3> QED BY <1>4, <3>2, <3>3
  <2> QED BY <1>2, <2>1
<1> HIDE DEF K
<1>7. ASSUME NEW j \in 1..(m + 1), NEW k \in 1..(m + 1), j <= k PROVE K[j] <= K[k]
  <2>1. CASE k = m + 1
    BY <1>4, <1>5, <2>1
  <2>2. CASE k \in 1..m
    <3>1. j \in 1..m
      BY <1>1, <1>7, <2>2
    <3> QED BY <1>3, <1>5, <1>7, <2>2, <3>1 DEF Levels
  <2> QED BY <1>4, <2>1, <2>2
<1>8. ASSUME NEW k \in 1..(m + 1)
      PROVE  IF s[k] = Null THEN K[k] >= 1 /\ \A j \in 1..(m + 1) : j < k => K[j] < K[k]
             ELSE s[k] \in E /\ IF K[k] = 0 THEN s[k][1] = EntryOf(r) ELSE AtDepth(s[k][1], r, K[k] - 1, d)
  <2>1. CASE k = m + 1
    <3>1. ASSUME NEW j \in 1..(m + 1), j < k PROVE K[j] < K[k]
      <4>1. j \in 1..m
        BY <1>1, <2>1, <3>1
      <4> QED BY <1>5, <2>1, <4>1
    <3> QED BY <1>2, <1>5, <2>1, <3>1
  <2>2. CASE k \in 1..m
    <3>1. IF t[k] = Null THEN L[k] >= 1 /\ \A j \in DOMAIN t : j < k => L[j] < L[k]
          ELSE t[k] \in E /\ IF L[k] = 0 THEN t[k][1] = EntryOf(r) ELSE AtDepth(t[k][1], r, L[k] - 1, c)
      BY <1>3, <1>5, <2>2 DEF Levels
    <3>2. CASE t[k] = Null
      <4>1. ASSUME NEW j \in 1..(m + 1), j < k PROVE K[j] < K[k]
        <5>1. j \in 1..m
          BY <1>1, <2>2, <4>1
        <5> QED BY <1>5, <2>2, <3>1, <3>2, <4>1, <5>1
      <4> QED BY <1>2, <1>5, <2>2, <3>1, <3>2, <4>1
    <3>3. CASE t[k] # Null
      <4>1. L[k] # 0 => AtDepth(t[k][1], r, L[k] - 1, d)
        <5> SUFFICES ASSUME L[k] # 0 PROVE AtDepth(t[k][1], r, L[k] - 1, d)
          OBVIOUS
        <5>1. Within(c, d)
          BY <1>5, <2>2
        <5> QED BY <3>1, <3>3, <5>1, DepthWithin
      <4> QED BY <1>2, <1>5, <2>2, <3>1, <3>3, <4>1
    <3> QED BY <3>2, <3>3
  <2> QED BY <1>4, <2>1, <2>2
<1>9. ASSUME NEW x \in 1..(n + 1) PROVE \E k \in 1..(m + 1) : s[k] = Null /\ K[k] = x
  <2>1. CASE x = n + 1
    BY <1>2, <1>5, <2>1
  <2>2. CASE x # n + 1
    <3>1. x \in 1..n
      BY <2>2
    <3>2. PICK k \in DOMAIN t : t[k] = Null /\ L[k] = x
      BY <1>3, <3>1 DEF Levels
    <3> QED BY <1>1, <1>2, <1>5, <3>2
  <2> QED BY <2>1, <2>2
<1>10. Levels(E, s, n + 1, r, d, K)
  BY <1>2, <1>7, <1>8, <1>9 DEF Levels
<1> QED BY <1>6, <1>10 DEF TodoOK, s

\* The edges of a block are put on the stack.
LEMMA TodoPush ==
    ASSUME NEW E, NEW t \in Seq(E \cup {Null}), NEW n \in Nat, NEW r \in Insts, NEW c,
           TodoOK(E, t, n, r, c), NEW v, n >= 1 /\ AtDepth(v, r, n - 1, c),
           NEW q \in Seq({e \in E : e[1] = v})
    PROVE  TodoOK(E, t \o q, n, r, c) /\ t \o q \in Seq(E \cup {Null})
<1> DEFINE m == Len(t)
           l == Len(q)
           s == t \o q
<1>1. m \in Nat /\ DOMAIN t = 1..m /\ l \in Nat /\ \A k \in 1..l : q[k] \in E /\ q[k][1] = v
  BY LenProperties, ElementOfSeq
<1>0. q \in Seq(E \cup {Null})
  <2>1. {e \in E : e[1] = v} \subseteq E \cup {Null}
    OBVIOUS
  <2> QED BY <2>1, SeqMonotonic
<1>2. /\ s \in Seq(E \cup {Null}) /\ DOMAIN s = 1..(m + l)
      /\ \A k \in 1..(m + l) : s[k] = IF k <= m THEN t[k] ELSE q[k - m]
  <2>1. s \in Seq(E \cup {Null}) /\ Len(s) = m + l
    BY <1>0, ConcatProperties
  <2> QED BY <1>0, <1>1, <2>1, ConcatProperties, LenProperties
<1>3. PICK L \in [DOMAIN t -> 0..n] : Levels(E, t, n, r, c, L)
  BY DEF TodoOK
<1> HIDE DEF m, l, s
<1> DEFINE K == [k \in 1..(m + l) |-> IF k <= m THEN L[k] ELSE n]
<1>4. /\ \A k \in 1..m : k \in 1..(m + l) /\ k <= m /\ K[k] = L[k] /\ L[k] \in 0..n /\ k \in DOMAIN t /\ s[k] = t[k]
      /\ \A k \in 1..(m + l) : k \in 1..m \/ (~(k <= m) /\ K[k] = n /\ s[k] = q[k - m] /\ k - m \in 1..l)
  BY <1>1, <1>2
<1>5. K \in [DOMAIN s -> 0..n]
  <2>1. ASSUME NEW k \in 1..(m + l) PROVE K[k] \in 0..n
    <3> HIDE DEF K
    <3>1. CASE k \in 1..m
      BY <1>4, <3>1
    <3>2. CASE ~(k \in 1..m)
      <4>1. K[k] = n /\ n \in 0..n
        BY <1>4, <3>2
      <4> QED BY <4>1
    <3> QED BY <3>1, <3>2
  <2> QED BY <1>2, <2>1
<1> HIDE DEF K
<1>6. ASSUME NEW j \in 1..(m + l), NEW k \in 1..(m + l), j <= k PROVE K[j] <= K[k]
  <2>1. CASE k \in 1..m
    <3>1. j \in 1..m
      BY <1>1, <1>6, <2>1
    <3> QED BY <1>3, <1>4, <1>6, <2>1, <3>1 DEF Levels
  <2>2. CASE ~(k \in 1..m)
    <3>1. K[k] = n
      BY <1>4, <2>2
    <3>2. K[j] \in 0..n
      BY <1>4
    <3> QED BY <3>1, <3>2
  <2> QED BY <2>1, <2>2
<1>7. ASSUME NEW k \in 1..(m + l)
      PROVE  IF s[k] = Null THEN K[k] >= 1 /\ \A j \in 1..(m + l) : j < k => K[j] < K[k]
             ELSE s[k] \in E /\ IF K[k] = 0 THEN s[k][1] = EntryOf(r) ELSE AtDepth(s[k][1], r, K[k] - 1, c)
  <2>1. CASE k \in 1..m
    <3>1. IF t[k] = Null THEN L[k] >= 1 /\ \A j \in DOMAIN t : j < k => L[j] < L[k]
          ELSE t[k] \in E /\ IF L[k] = 0 THEN t[k][1] = EntryOf(r) ELSE AtDepth(t[k][1], r, L[k] - 1, c)
      BY <1>3, <1>4, <2>1 DEF Levels
    <3>2. CASE t[k] = Null
      <4>1. ASSUME NEW j \in 1..(m + l), j < k PROVE K[j] < K[k]
        <5>1. j \in 1..m
          BY <1>1, <2>1, <4>1
        <5> QED BY <1>4, <2>1, <3>1, <3>2, <4>1, <5>1
      <4> QED BY <1>4, <2>1, <3>1, <3>2, <4>1
    <3>3. CASE t[k] # Null
      BY <1>4, <2>1, <3>1, <3>3
    <3> QED BY <3>2, <3>3
  <2>2. CASE ~(k \in 1..m)
    <3>1. K[k] = n /\ s[k] \in E /\ s[k][1] = v
      BY <1>1, <1>4, <2>2
    <3>2. s[k] # Null
      <4>1. v[1] \in Insts
        BY DEF AtDepth
      <4> QED BY <3>1, <4>1, InstsAre DEF Null, NoBlock
    <3>3. n # 0
      OBVIOUS
    <3> QED BY <3>1, <3>2, <3>3
  <2> QED BY <2>1, <2>2
<1>8. ASSUME NEW x \in 1..n PROVE \E k \in 1..(m + l) : s[k] = Null /\ K[k] = x
  <2>1. PICK k \in DOMAIN t : t[k] = Null /\ L[k] = x
    BY <1>3 DEF Levels
  <2> QED BY <1>1, <1>4, <2>1
<1>9. Levels(E, s, n, r, c, K)
  BY <1>2, <1>6, <1>7, <1>8 DEF Levels
<1> QED BY <1>2, <1>5, <1>9 DEF TodoOK, s

\* The calls around the block at work change, but not those of the edges.
LEMMA TodoMove ==
    ASSUME NEW E, NEW t, NEW n \in Nat, NEW r, NEW c \in Contexts, NEW d \in Contexts,
           Within(d, c), n <= Len(d) + 1, TodoOK(E, t, n, r, c)
    PROVE  TodoOK(E, t, n, r, d)
<1>1. PICK L \in [DOMAIN t -> 0..n] : Levels(E, t, n, r, c, L)
  BY DEF TodoOK
<1>2. Len(d) \in Nat
  BY LenProperties DEF Contexts
<1>3. ASSUME NEW k \in DOMAIN t, t[k] # Null
      PROVE  t[k] \in E /\ IF L[k] = 0 THEN t[k][1] = EntryOf(r) ELSE AtDepth(t[k][1], r, L[k] - 1, d)
  <2>1. t[k] \in E /\ IF L[k] = 0 THEN t[k][1] = EntryOf(r) ELSE AtDepth(t[k][1], r, L[k] - 1, c)
    BY <1>1, <1>3 DEF Levels
  <2>2. L[k] - 1 <= Len(d)
    <3>1. L[k] \in 0..n
      OBVIOUS
    <3> QED BY <1>2, <3>1
  <2> QED BY <2>1, <2>2, DepthWithin
<1>4. Levels(E, t, n, r, d, L)
  BY <1>1, <1>3 DEF Levels
<1> QED BY <1>4 DEF TodoOK

-----------------------------------------------------------------------------
(* The path.                                                               *)

LEMMA PathIs ==
    ASSUME NEW v, v[3] # Exit
    PROVE  ContextOf(v) = PathOf(v[1], v[2])
BY DEF ContextOf, PathOf

LEMMA PathOfEntry ==
    ASSUME NEW r
    PROVE  PathOf(r, <<>>) = <<Fun(r)>>
<1>1. Len(<<>>) = 0 /\ 2 * 0 + 1 = 1
  BY EmptySeq
<1>2. PathOf(r, <<>>) = [k \in 1..1 |-> Fun(r)]
  <2>1. \A k \in 1..1 : k = 1
    OBVIOUS
  <2> QED BY <1>1, <2>1 DEF PathOf
<1> HIDE DEF Fun
<1> QED BY <1>2

PathSteps(r, c) == {PathOf(r, c)[k] : k \in 1..(2 * Len(c) + 1)}
StepOf(r, c, k) ==
    IF k = 1 THEN Fun(r)
    ELSE IF k % 2 = 0 THEN Call(top[c[k \div 2][1]])
    ELSE Fun(c[k \div 2][2])

LEMMA PathTyped ==
    ASSUME NEW r, NEW c \in Contexts
    PROVE  /\ PathOf(r, c) \in Seq(PathSteps(r, c))
           /\ Len(PathOf(r, c)) = 2 * Len(c) + 1
           /\ \A k \in 1..(2 * Len(c) + 1) : PathOf(r, c)[k] = StepOf(r, c, k)
<1> DEFINE n == 2 * Len(c) + 1
           f == PathOf(r, c)
           T == {f[k] : k \in 1..n}
<1>1. n \in Nat
  BY LenProperties DEF Contexts
<1>2. DOMAIN f = 1..n /\ f = [k \in 1..n |-> f[k]]
  BY DEF PathOf
<1>3. \A k \in 1..n : f[k] = StepOf(r, c, k)
  BY DEF PathOf, StepOf
<1> HIDE DEF n, f
<1>4. f \in [1..n -> T]
  BY <1>2
<1> HIDE DEF T
<1>5. f \in Seq(T) /\ Len(f) = n
  BY <1>1, <1>4, IsASeq
<1> QED BY <1>3, <1>5 DEF n, f, T, PathSteps

LEMMA Halves ==
    ASSUME NEW n \in Nat
    PROVE  /\ (2 * n + 2) % 2 = 0 /\ (2 * n + 2) \div 2 = n + 1
           /\ (2 * n + 3) % 2 = 1 /\ (2 * n + 3) \div 2 = n + 1
           /\ \A k \in 2..(2 * n + 1) : k \div 2 \in 1..n
OBVIOUS

\* A call is added to a context.
LEMMA PathOfCall ==
    ASSUME NEW r, NEW c \in Contexts, NEW x, Append(c, x) \in Contexts
    PROVE  PathOf(r, Append(c, x)) = Append(PathOf(r, c), Call(top[x[1]])) \o <<Fun(x[2])>>
<1> DEFINE n == Len(c)
           d == Append(c, x)
           f == PathOf(r, c)
           g == PathOf(r, d)
           A == Call(top[x[1]])
           B == Fun(x[2])
           T == PathSteps(r, c) \cup PathSteps(r, d) \cup {A, B}
<1>1. n \in Nat /\ Len(d) = n + 1 /\ d[n + 1] = x /\ \A k \in 1..n : d[k] = c[k]
  <2>1. DOMAIN c = 1..n /\ n \in Nat
    BY LenProperties DEF Contexts
  <2> HIDE DEF n
  <2>2. Len(d) = n + 1 /\ d[n + 1] = x /\ \A k \in 1..n : d[k] = c[k]
    BY <2>1 DEF Contexts, n
  <2> QED BY <2>1, <2>2
<1>2. f \in Seq(PathSteps(r, c)) /\ Len(f) = 2 * n + 1 /\ \A k \in 1..(2 * n + 1) : f[k] = StepOf(r, c, k)
  BY PathTyped
<1>3. /\ g \in Seq(PathSteps(r, d)) /\ Len(g) = 2 * Len(d) + 1
      /\ \A k \in 1..(2 * Len(d) + 1) : g[k] = StepOf(r, d, k)
  BY PathTyped
<1>4. Len(g) = 2 * (n + 1) + 1 /\ \A k \in 1..(2 * (n + 1) + 1) : g[k] = StepOf(r, d, k)
  <2> HIDE DEF d, g
  <2> QED BY <1>1, <1>3
<1> HIDE DEF n, d, f, g
<1>6. \A k \in 1..(2 * n + 1) : g[k] = f[k]
  <2> TAKE k \in 1..(2 * n + 1)
  <2>1. k \in 1..(2 * (n + 1) + 1)
    BY <1>1
  <2>2. CASE k = 1
    BY <1>2, <1>3, <1>4, <2>1, <2>2 DEF StepOf
  <2>3. CASE k # 1
    <3>1. k \in 2..(2 * n + 1)
      BY <1>1, <2>3
    <3>2. k \div 2 \in 1..n
      BY <1>1, <3>1, Halves
    <3>3. d[k \div 2] = c[k \div 2]
      BY <1>1, <3>2
    <3> QED BY <1>2, <1>3, <1>4, <2>1, <2>3, <3>3 DEF StepOf
  <2> QED BY <2>2, <2>3
<1>7. g[2 * n + 2] = A /\ g[2 * n + 3] = B
  <2>1. 2 * n + 2 \in 1..(2 * (n + 1) + 1) /\ 2 * n + 3 \in 1..(2 * (n + 1) + 1) /\ 2 * n + 2 # 1 /\ 2 * n + 3 # 1
    BY <1>1
  <2>2. /\ (2 * n + 2) % 2 = 0 /\ (2 * n + 2) \div 2 = n + 1
        /\ (2 * n + 3) % 2 = 1 /\ (2 * n + 3) \div 2 = n + 1
    BY <1>1, Halves
  <2>3. g[2 * n + 2] = Call(top[d[n + 1][1]])
    BY <1>4, <2>1, <2>2 DEF StepOf
  <2>4. g[2 * n + 3] = Fun(d[n + 1][2])
    <3>1. PICK k : k = 2 * n + 3
      OBVIOUS
    <3>2. g[k] = StepOf(r, d, k) /\ k # 1 /\ k % 2 # 0 /\ k \div 2 = n + 1
      BY <1>4, <2>1, <2>2, <3>1
    <3> QED BY <3>1, <3>2 DEF StepOf
  <2> QED BY <1>1, <2>3, <2>4
<1> HIDE DEF A, B
<1>8. f \in Seq(T) /\ g \in Seq(T) /\ A \in T /\ B \in T
  <2>1. PathSteps(r, c) \subseteq T /\ PathSteps(r, d) \subseteq T
    OBVIOUS
  <2> QED BY <1>2, <1>3, <2>1, SeqMonotonic
<1> HIDE DEF T
<1> DEFINE h == Append(f, A) \o <<B>>
           w == 2 * n + 1
<1>9. /\ h \in Seq(T) /\ Len(h) = w + 2 /\ h[w + 1] = A /\ h[w + 2] = B
      /\ \A k \in 1..w : h[k] = f[k]
  <2>1. w \in Nat /\ Len(f) = w
    BY <1>1, <1>2
  <2> HIDE DEF w
  <2> QED BY <1>8, <2>1
<1>10. Len(g) = Len(h) /\ Len(g) = w + 2
  BY <1>1, <1>4, <1>9
<1>11. \A k \in 1..Len(g) : g[k] = h[k]
  <2>1. w \in Nat /\ w + 1 = 2 * n + 2 /\ w + 2 = 2 * n + 3
    BY <1>1
  <2>2. \A k \in 1..w : g[k] = h[k]
    BY <1>6, <1>9
  <2>3. g[w + 1] = h[w + 1] /\ g[w + 2] = h[w + 2]
    BY <1>7, <1>9, <2>1
  <2> HIDE DEF w, h
  <2>4. \A k \in 1..(w + 2) : k \in 1..w \/ k = w + 1 \/ k = w + 2
    BY <2>1
  <2> QED BY <1>10, <2>2, <2>3, <2>4
<1> HIDE DEF h, w
<1>12. g = h
  BY <1>8, <1>9, <1>10, <1>11, SeqEqual
<1> QED BY <1>12 DEF g, h, d, f, A, B

\* A call is taken off a context.
LEMMA PathOfCaller ==
    ASSUME NEW r, NEW c \in Contexts, c # <<>>
    PROVE  Front(Front(PathOf(r, c))) = PathOf(r, Front(c))
<1> DEFINE n == Len(c)
           d == Front(c)
           f == PathOf(r, c)
           g == PathOf(r, d)
           h == Front(Front(f))
           F == PathSteps(r, c)
           G == PathSteps(r, d)
<1>1. n \in Nat \ {0} /\ d \in Contexts /\ Len(d) = n - 1 /\ \A k \in 1..(n - 1) : d[k] = c[k]
  BY FrontIs DEF Contexts
<1>2. f \in Seq(F) /\ Len(f) = 2 * n + 1 /\ \A k \in 1..(2 * n + 1) : f[k] = StepOf(r, c, k)
  BY PathTyped
<1>4. g \in Seq(G) /\ Len(g) = 2 * Len(d) + 1 /\ \A k \in 1..(2 * Len(d) + 1) : g[k] = StepOf(r, d, k)
  BY <1>1, PathTyped
<1>3. /\ g \in Seq(G) /\ Len(g) = 2 * (n - 1) + 1
      /\ \A k \in 1..(2 * (n - 1) + 1) : g[k] = StepOf(r, d, k)
  <2> HIDE DEF d, g
  <2> QED BY <1>1, <1>4
<1> HIDE DEF n, d, f, g, F, G
<1>6. \A k \in 1..(2 * (n - 1) + 1) : g[k] = f[k]
  <2> TAKE k \in 1..(2 * (n - 1) + 1)
  <2>1. k \in 1..(2 * n + 1)
    BY <1>1
  <2>2. CASE k = 1
    BY <1>2, <1>3, <1>4, <2>1, <2>2 DEF StepOf
  <2>3. CASE k # 1
    <3>1. k \in 2..(2 * (n - 1) + 1) /\ n - 1 \in Nat
      BY <1>1, <2>3
    <3>2. k \div 2 \in 1..(n - 1)
      BY <3>1, Halves
    <3>3. d[k \div 2] = c[k \div 2]
      BY <1>1, <3>2
    <3> QED BY <1>2, <1>3, <1>4, <2>1, <2>3, <3>3 DEF StepOf
  <2> QED BY <2>2, <2>3
<1>7. h \in Seq(F) /\ Len(h) = 2 * (n - 1) + 1 /\ \A k \in 1..(2 * (n - 1) + 1) : h[k] = f[k]
  <2> DEFINE e == Front(f)
  <2>1. f # <<>>
    BY <1>1, <1>2, EmptySeq
  <2>2. e \in Seq(F) /\ Len(e) = Len(f) - 1 /\ \A k \in 1..(Len(f) - 1) : e[k] = f[k]
    BY <1>2, <2>1, FrontIs
  <2>3. Len(e) = 2 * n
    BY <1>1, <1>2, <2>2
  <2> HIDE DEF e
  <2>4. e # <<>>
    BY <1>1, <2>3, EmptySeq
  <2>5. Front(e) \in Seq(F) /\ Len(Front(e)) = Len(e) - 1 /\ \A k \in 1..(Len(e) - 1) : Front(e)[k] = e[k]
    BY <2>2, <2>4, FrontIs
  <2>6. 2 * (n - 1) + 1 = Len(e) - 1 /\ \A k \in 1..(Len(e) - 1) : k \in 1..(Len(f) - 1)
    BY <1>1, <1>2, <2>3
  <2> QED BY <2>2, <2>5, <2>6 DEF e
<1> HIDE DEF h
<1>8. g = h
  <2>1. F \subseteq F \cup G /\ G \subseteq F \cup G
    OBVIOUS
  <2>2. g \in Seq(F \cup G) /\ h \in Seq(F \cup G)
    BY <1>3, <1>7, <2>1, SeqMonotonic
  <2> QED BY <1>3, <1>6, <1>7, <2>2, SeqEqual
<1> QED BY <1>8 DEF g, h, d, f

-----------------------------------------------------------------------------
(* The processing of a block.                                              *)

LEMMA SeqsOf ==
    ASSUME NEW S, IsFiniteSet(S), NEW q \in SetToSeqs(S)
    PROVE  q \in Seq(S)
<1>1. Cardinality(S) \in Nat
  BY FS_CardinalityType
<1>2. q \in [1..Cardinality(S) -> S]
  BY DEF SetToSeqs
<1> QED BY <1>1, <1>2, IsASeq

LEMMA SourcesFinite ==
    ASSUME IsFiniteSet(vedges), back \subseteq vedges, NEW v
    PROVE  IsFiniteSet(BackSources(v))
<1> DEFINE B == {e \in back : e[2] = v}
           f == [e \in B |-> e[1]]
<1>1. IsFiniteSet(B)
  BY FS_Subset
<1>2. f \in Surjection(B, BackSources(v))
  BY DEF BackSources, Surjection
<1> QED BY <1>1, <1>2, FS_Surjection

\* The edges of v are put on the stack.
LEMMA ProcessEdges ==
    ASSUME IsFiniteSet(vedges), NEW v, NEW rest \in Seq(vedges \cup {Null}), Process(v, rest)
    PROVE  /\ \E q \in Seq({e \in vedges : e[1] = v}) : todo' = rest \o q
           /\ todo' \in Seq(vedges \cup {Null})
<1> DEFINE S == {e \in vedges : e[1] = v}
<1>1. PICK q \in SetToSeqs(S) : todo' = rest \o q
  BY DEF Process, From
<1>2. IsFiniteSet(S)
  BY FS_Subset
<1>3. q \in Seq(S)
  BY <1>2, SeqsOf
<1>4. q \in Seq(vedges \cup {Null})
  <2>1. S \subseteq vedges \cup {Null}
    OBVIOUS
  <2> QED BY <1>3, <2>1, SeqMonotonic
<1> QED BY <1>1, <1>3, <1>4, ConcatProperties

JustifiedAt(v, b) ==
    \E a \in Given :
        /\ \E q \in SeqsOfSources(v) : a.inst \in ToSet(LookedAt(v, q))
        /\ Applies(a, ContextOf(v))
        /\ \A o \in Given : o.inst = a.inst /\ o.path = a.path => o.max <= b

LEMMA LookedAtKept ==
    ASSUME top' = top, prog' = prog, NEW CONSTANT v, NEW CONSTANT q
    PROVE  LookedAt(v, q)' = LookedAt(v, q)
<1>1. \A b : Lines(b)' = Lines(b)
  BY DEF Lines
<1> QED BY <1>1 DEF LookedAt

LEMMA JustifiedKept ==
    ASSUME top' = top, prog' = prog, back' = back, NEW CONSTANT v, NEW CONSTANT b, JustifiedAt(v, b)
    PROVE  JustifiedAt(v, b)'
<1>1. Given' = Given /\ SeqsOfSources(v)' = SeqsOfSources(v) /\ ContextOf(v)' = ContextOf(v)
  BY DEF Given, SeqsOfSources, BackSources, ContextOf
<1>2. ASSUME NEW CONSTANT q PROVE LookedAt(v, q)' = LookedAt(v, q)
  BY LookedAtKept
<1> QED BY <1>1, <1>2 DEF JustifiedAt

LEMMA ProcessBounds ==
    ASSUME BoundsJustified, BuilderTypes, FactsInv, unread = <<>>, TraversalTypes,
           IsFiniteSet(vedges), NEW CONSTANT v \in VirtualBlocks, NEW rest, Process(v, rest),
           path' = ContextOf(v), top' = top, prog' = prog, back' = back
    PROVE  BoundsJustified'
<1> DEFINE V == BackSources(v)
<1>1. PICK q \in SetToSeqs(V) :
         LET n == BoundOf(v, q, ContextOf(v))
         IN  max' = IF v[3] \in Insts /\ q # <<>> /\ n >= 0 THEN Put(max, v, n) ELSE max
  BY DEF Process
<1>2. ASSUME NEW CONSTANT w, w \in DOMAIN max PROVE JustifiedAt(w, max[w])
  BY <1>2 DEF BoundsJustified, JustifiedAt
<1>3. CASE max' = max
  <2>1. ASSUME NEW CONSTANT w, w \in DOMAIN max PROVE JustifiedAt(w, max[w])'
    <3>1. PICK b : b = max[w]
      OBVIOUS
    <3>2. JustifiedAt(w, b)
      BY <1>2, <2>1, <3>1
    <3>3. JustifiedAt(w, b)'
      BY <3>2, JustifiedKept
    <3>4. b = max'[w]
      BY <1>3, <3>1
    <3> QED BY <3>3, <3>4 DEF JustifiedAt
  <2> QED BY <1>3, <2>1 DEF BoundsJustified, JustifiedAt
<1>4. CASE max' # max
  <2>1. PICK n : n = BoundOf(v, q, ContextOf(v))
    OBVIOUS
  <2>2. v[3] \in Insts /\ n >= 0 /\ max' = Put(max, v, n)
    BY <1>1, <1>4, <2>1
  <2>3. JustifiedAt(v, n)
    <3>1. q \in Seq(V)
      BY SourcesFinite, SeqsOf DEF TraversalTypes
    <3>2. \A x \in V : x[3] \in Insts
      BY DEF BackSources, TraversalTypes
    <3>3. v[3] # Exit /\ v[2] \in Contexts
      BY <2>2, InstsAre DEF VirtualBlocks
    <3>4. ContextOf(v) \in Seq(PathSteps(v[1], v[2]))
      BY <3>3, PathIs, PathTyped
    <3> HIDE DEF V
    <3>5. PICK a : Justifies(a, v, q, ContextOf(v), n)
      BY <2>1, <2>2, <3>1, <3>2, <3>4, BoundJustified
    <3>6. q \in SeqsOfSources(v)
      BY DEF SeqsOfSources, V
    <3> QED BY <3>5, <3>6 DEF Justifies, JustifiedAt
  <2>4. DOMAIN max' = DOMAIN max \cup {v} /\ \A w \in DOMAIN max' : max'[w] = IF w = v THEN n ELSE max[w]
    BY <2>2 DEF Put
  <2>5. ASSUME NEW CONSTANT w, w \in DOMAIN max' PROVE JustifiedAt(w, max[w])'
    <3>1. PICK b : b = IF w = v THEN n ELSE max[w]
      OBVIOUS
    <3>2. JustifiedAt(w, b)
      BY <1>2, <2>3, <2>4, <2>5, <3>1
    <3>3. JustifiedAt(w, b)'
      BY <3>2, JustifiedKept
    <3>4. b = max'[w]
      BY <2>4, <2>5, <3>1
    <3> QED BY <3>3, <3>4 DEF JustifiedAt
  <2> QED BY <2>5 DEF BoundsJustified, JustifiedAt
<1> QED BY <1>3, <1>4

\* What no step of the traversal changes.
Kept ==
    /\ prog' = prog /\ phase' = phase /\ seg' = seg /\ top' = top /\ outs' = outs
    /\ BB' = BB /\ follow' = follow /\ entries' = entries /\ cfgs' = cfgs
    /\ stack' = stack /\ vedges' = vedges /\ cfgMap' = cfgMap /\ loops' = loops
    /\ returnBlock' = returnBlock
    /\ nodes' = nodes /\ bounds' = bounds /\ unread' = unread
    /\ failed' = failed /\ back' = back

LEMMA TraverseKeeps ==
    ASSUME FlowFactsInv, failed # "unknown", Kept
    PROVE  OrderInv' /\ FactsInv' /\ GraphInv' /\ (CallsReturn' <=> CallsReturn)
<1>1. OrderInv'
  <2>1. phase = "inline" /\ stack = <<>> /\ unread = <<>> /\ BuilderTypes
    BY DEF FlowFactsInv, OrderInv
  <2>2. BuilderTypes'
    BY <2>1 DEF BuilderTypes, Kept
  <2> QED BY <2>1, <2>2 DEF OrderInv, Kept
<1>2. FactsInv' /\ GraphInv'
  BY FactsKept, EdgeKept DEF GraphInv, Kept, FlowFactsInv
<1>3. CallsReturn' <=> CallsReturn
  BY DEF CallsReturn, Kept
<1> QED BY <1>1, <1>2, <1>3

LEMMA PopKeeps ==
    ASSUME FlowFactsInv, Pop
    PROVE  /\ Kept /\ cfg' = cfg /\ left' = left /\ failed # "unknown" /\ cfg \in Insts
           /\ todo # <<>> /\ todo \in Seq(vedges \cup {Null})
           /\ unread = <<>> /\ BuilderTypes /\ IsFiniteSet(vedges)
<1>1. Kept /\ cfg' = cfg /\ left' = left /\ todo # <<>> /\ cfg # None
  BY DEF Pop, Kept, builder, facts
<1>2. failed # "unknown"
  BY <1>1 DEF FlowFactsInv, OrderInv
<1> QED BY <1>1, <1>2 DEF FlowFactsInv, OrderInv, TraversalTypes, GraphInv, Kept

\* The types, after a step that takes an edge off the stack.
LEMMA PopTypes ==
    ASSUME FlowFactsInv, Pop, todo' \in Seq(vedges \cup {Null})
    PROVE  TraversalTypes'
<1>1. Kept /\ cfg' = cfg /\ left' = left
  BY PopKeeps
<1> QED BY <1>1 DEF TraversalTypes, FlowFactsInv, Kept

\* A block is processed in its context.
LEMMA BlockStep ==
    ASSUME FlowFactsInv, Pop, CallsReturn,
           NEW CONSTANT v, NEW CONSTANT t \in Seq(vedges \cup {Null}), Process(v, t),
           NEW CONSTANT r, r = cfg, NEW CONSTANT c \in Contexts,
           NEW CONSTANT s, s = calls', s # <<>>, NEW CONSTANT p, p = path', NEW CONSTANT M, M = marked',
           TodoOK(vedges, t, Len(s), r, c), AtDepth(v, r, Len(s) - 1, c), CallsOK(s, r, c, p, M)
    PROVE  TraversalInv'
<1>1. /\ Kept /\ cfg' = cfg /\ failed # "unknown" /\ cfg \in Insts /\ unread = <<>> /\ BuilderTypes
      /\ IsFiniteSet(vedges)
  BY PopKeeps
<1>2. s \in Seq(VirtualBlocks) /\ Len(s) = Len(c) + 1 /\ p = PathOf(r, c)
  BY DEF CallsOK
<1>3. Len(c) \in Nat /\ Len(s) \in Nat /\ Len(s) >= 1 /\ Len(s) - 1 = Len(c)
  BY <1>2, LenProperties DEF Contexts
<1>4. v \in VirtualBlocks /\ v[1] = r /\ v[2] = c /\ v[3] \in Insts
  <2>1. v \in VirtualBlocks /\ v[1] = r /\ v[3] \in Insts /\ Len(v[2]) = Len(c) /\ Within(v[2], c)
    BY <1>3 DEF AtDepth
  <2>2. v[2] \in Contexts
    BY <2>1 DEF VirtualBlocks
  <2> QED BY <2>1, <2>2, WithinWhole
<1>5. ContextOf(v) = p
  BY <1>2, <1>4, InstsAre, PathIs
<1>6. BoundsJustified'
  BY <1>1, <1>4, <1>5, ProcessBounds DEF FlowFactsInv, TraversalInv, Kept
<1>7. ContextOf(v)' = ContextOf(v) /\ PathOf(r, c)' = PathOf(r, c)
  BY <1>1 DEF ContextOf, PathOf, Kept
<1>8. ContextExact'
  <2>1. last' = v
    BY DEF Process
  <2> QED BY <1>5, <1>7, <2>1 DEF ContextExact, ContextOf
<1>9. Traversing(c)'
  <2>1. PICK q \in Seq({e \in vedges : e[1] = v}) : todo' = t \o q
    BY <1>1, ProcessEdges
  <2>2. TodoOK(vedges, t \o q, Len(s), r, c)
    <3>1. r \in Insts
      BY <1>1
    <3> QED BY <1>3, <3>1, TodoPush
  <2>3. TodoOK(vedges', todo', Len(calls'), cfg', c)
    BY <1>1, <2>1, <2>2 DEF Kept
  <2>4. CallsOK(calls, cfg, c, path, marked)'
    BY <1>1, <1>7 DEF CallsOK
  <2> QED BY <2>3, <2>4 DEF Traversing
<1>10. cfg' # None
  BY <1>1, InstsAre
<1> QED BY <1>6, <1>8, <1>9, <1>10 DEF TraversalInv

LEMMA SameBounds ==
    ASSUME ContextExact, BoundsJustified, top' = top, prog' = prog, back' = back,
           max' = max, last' = last, path' = path
    PROVE  ContextExact' /\ BoundsJustified'
<1>1. ContextExact'
  BY DEF ContextExact, ContextOf
<1>2. ASSUME NEW CONSTANT w, w \in DOMAIN max PROVE JustifiedAt(w, max[w])'
  <2>1. PICK b : b = max[w]
    OBVIOUS
  <2>2. JustifiedAt(w, b)
    BY <1>2, <2>1 DEF BoundsJustified, JustifiedAt
  <2>3. JustifiedAt(w, b)'
    BY <2>2, JustifiedKept
  <2> QED BY <2>1, <2>3 DEF JustifiedAt
<1>3. BoundsJustified'
  BY <1>2 DEF BoundsJustified, JustifiedAt
<1> QED BY <1>1, <1>3

\* The edge on the top of the stack, and what is below it.
LEMMA TopEdge ==
    ASSUME FlowFactsInv, Pop, CallsReturn
    PROVE  \E c \in Contexts :
              /\ Traversing(c) /\ Len(calls) \in Nat /\ calls \in Seq(VirtualBlocks)
              /\ Front(todo) \in Seq(vedges \cup {Null})
              /\ IF edge = Null THEN Len(calls) >= 1 /\ TodoOK(vedges, Front(todo), Len(calls) - 1, cfg, c)
                 ELSE /\ edge \in vedges /\ EdgeShape(edge)
                      /\ TodoOK(vedges, Front(todo), Len(calls), cfg, c)
                      /\ IF Len(calls) = 0 THEN edge[1] = EntryOf(cfg)
                         ELSE AtDepth(edge[1], cfg, Len(calls) - 1, c)
<1>1. cfg \in Insts /\ todo # <<>> /\ todo \in Seq(vedges \cup {Null})
  BY PopKeeps
<1>2. PICK c \in Contexts : Traversing(c)
  BY <1>1, InstsAre DEF FlowFactsInv, TraversalInv
<1>3. /\ calls \in Seq(VirtualBlocks) /\ Len(calls) \in Nat
      /\ TodoOK(vedges, todo, Len(calls), cfg, c)
  <2>1. calls \in Seq(VirtualBlocks) /\ TodoOK(vedges, todo, Len(calls), cfg, c)
    BY <1>2 DEF Traversing, CallsOK
  <2> QED BY <2>1, LenProperties
<1>4. IF edge = Null THEN Len(calls) >= 1
      ELSE /\ edge \in vedges
           /\ IF Len(calls) = 0 THEN edge[1] = EntryOf(cfg) ELSE AtDepth(edge[1], cfg, Len(calls) - 1, c)
  BY <1>1, <1>3, TodoTop DEF edge
<1>5. IF edge = Null THEN TodoOK(vedges, Front(todo), Len(calls) - 1, cfg, c)
      ELSE TodoOK(vedges, Front(todo), Len(calls), cfg, c)
  BY <1>1, <1>3, TodoDrop DEF edge
<1>6. edge \in vedges => EdgeShape(edge)
  BY DEF FlowFactsInv, GraphInv
<1>7. Front(todo) \in Seq(vedges \cup {Null})
  BY <1>1, FrontIs
<1> QED BY <1>2, <1>3, <1>4, <1>5, <1>6, <1>7

LEMMA FollowEdgeStep ==
    ASSUME FlowFactsInv, FollowEdge
    PROVE  TraversalTypes' /\ TraversalInv'
<1>1. Pop /\ calls' = calls /\ path' = path /\ edge[3] \in {"TAKEN", "NOT_TAKEN"} /\ Process(edge[2], Front(todo))
  BY DEF FollowEdge
<1>2. /\ Kept /\ cfg' = cfg /\ failed # "unknown" /\ cfg \in Insts /\ IsFiniteSet(vedges)
      /\ todo # <<>> /\ todo \in Seq(vedges \cup {Null})
  BY <1>1, PopKeeps
<1>3. Front(todo) \in Seq(vedges \cup {Null})
  BY <1>2, FrontIs
<1>4. TraversalTypes'
  BY <1>1, <1>2, <1>3, PopTypes, ProcessEdges
<1>5. ASSUME CallsReturn PROVE TraversalInv'
  <2>1. edge # Null
    BY <1>1 DEF Null
  <2>2. PICK c \in Contexts :
           /\ Traversing(c) /\ Len(calls) \in Nat /\ calls \in Seq(VirtualBlocks)
           /\ EdgeShape(edge) /\ TodoOK(vedges, Front(todo), Len(calls), cfg, c)
           /\ IF Len(calls) = 0 THEN edge[1] = EntryOf(cfg) ELSE AtDepth(edge[1], cfg, Len(calls) - 1, c)
    BY <1>1, <1>5, <2>1, TopEdge
  <2>3. edge[1][3] \in Insts /\ edge[2] = <<edge[1][1], edge[1][2], edge[2][3]>> /\ edge[2][3] \in Insts
    BY <1>1, <2>2 DEF EdgeShape
  <2>4. Len(calls) # 0 /\ calls # <<>>
    BY <2>2, <2>3, InstsAre, EmptySeq DEF EntryOf
  <2>5. AtDepth(edge[2], cfg, Len(calls) - 1, c)
    <3>1. AtDepth(edge[1], cfg, Len(calls) - 1, c)
      BY <2>2, <2>4
    <3> QED BY <2>3, <3>1 DEF AtDepth, VirtualBlocks
  <2>6. PICK v : v = edge[2]
    OBVIOUS
  <2>7. PICK t : t = Front(todo)
    OBVIOUS
  <2>8. PICK r : r = cfg
    OBVIOUS
  <2>9. PICK s : s = calls
    OBVIOUS
  <2>10. PICK p : p = path
    OBVIOUS
  <2>11. PICK M : M = marked'
    OBVIOUS
  <2>12. CallsOK(s, r, c, p, M)
    <3>1. CallsOK(s, r, c, p, marked)
      BY <2>2, <2>8, <2>9, <2>10 DEF Traversing
    <3>2. marked \subseteq M
      BY <1>1, <2>11 DEF Process
    <3> QED BY <3>1, <3>2 DEF CallsOK
  <2> QED BY <1>1, <1>3, <1>5, <2>2, <2>4, <2>5, <2>6, <2>7, <2>8, <2>9, <2>10, <2>11, <2>12, BlockStep
<1>6. CallsReturn' <=> CallsReturn
  BY <1>2, TraverseKeeps
<1> QED BY <1>4, <1>5, <1>6 DEF TraversalInv

LEMMA SkipEdgeStep ==
    ASSUME FlowFactsInv, SkipEdge
    PROVE  TraversalTypes' /\ TraversalInv'
<1>1. /\ Pop /\ edge # Null /\ todo' = Front(todo) /\ calls' = calls /\ path' = path /\ marked' = marked
      /\ max' = max /\ last' = last
  BY DEF SkipEdge
<1>2. /\ Kept /\ cfg' = cfg /\ failed # "unknown" /\ cfg \in Insts
      /\ todo # <<>> /\ todo \in Seq(vedges \cup {Null})
  BY <1>1, PopKeeps
<1>3. Front(todo) \in Seq(vedges \cup {Null})
  BY <1>2, FrontIs
<1>4. TraversalTypes'
  BY <1>1, <1>3, PopTypes
<1>5. ASSUME CallsReturn PROVE TraversalInv'
  <2>1. PICK c \in Contexts : Traversing(c) /\ TodoOK(vedges, Front(todo), Len(calls), cfg, c)
    BY <1>1, <1>5, TopEdge
  <2>2. Traversing(c)'
    <3>1. TodoOK(vedges', todo', Len(calls'), cfg', c)
      BY <1>1, <1>2, <2>1 DEF Kept
    <3>2. CallsOK(calls, cfg, c, path, marked)'
      BY <1>1, <1>2, <2>1 DEF CallsOK, PathOf, Traversing, Kept
    <3> QED BY <3>1, <3>2 DEF Traversing
  <2>3. ContextExact' /\ BoundsJustified'
    BY <1>1, <1>2, <1>5, SameBounds DEF FlowFactsInv, TraversalInv, Kept
  <2>4. cfg' # None
    BY <1>2, InstsAre
  <2> QED BY <2>2, <2>3, <2>4 DEF TraversalInv
<1>6. CallsReturn' <=> CallsReturn
  BY <1>2, TraverseKeeps
<1> QED BY <1>4, <1>5, <1>6 DEF TraversalInv

\* Where a call entered leads to, and where it returns: the entry of the CFG,
\* or the entry of a function inlined at the block e[1], whose context is c.
LEMMA CallEntered ==
    ASSUME FlowFactsInv, CallsReturn, cfg \in Insts, NEW c \in Contexts, NEW n \in Nat,
           NEW e \in vedges, EdgeShape(e), e[3] = "VIRTUAL_CALL", e[2] \notin marked,
           n # 0 => Len(c) = n - 1 /\ \A d \in Contexts : Within(d, c) => <<cfg, d, HeadOf(cfg, d)>> \in marked,
           IF n = 0 THEN e[1] = EntryOf(cfg) ELSE AtDepth(e[1], cfg, n - 1, c)
    PROVE  IF n = 0 THEN e[2] = <<cfg, <<>>, cfg>> /\ ReturnTo(e) = ExitOf(cfg)
           ELSE /\ e[1][2] = c /\ e[1][3] \in Insts /\ e[2][3] \in Insts
                /\ e[2] = <<cfg, Append(c, <<e[1][3], e[2][3]>>), e[2][3]>>
                /\ AtDepth(ReturnTo(e), cfg, n - 1, c)
<1>1. CASE n = 0
  <2>1. e[1] = <<cfg, <<>>, None>>
    BY <1>1 DEF EntryOf
  <2>2. e[2] = <<cfg, <<>>, cfg>>
    BY <2>1, InstsAre DEF EdgeShape, EntryEdge
  <2>3. e[1] \notin DOMAIN returnBlock
    BY <2>1, InstsAre DEF FlowFactsInv, GraphInv
  <2> QED BY <1>1, <2>2, <2>3 DEF ReturnTo
<1>2. CASE n # 0
  <2>1. e[1] \in VirtualBlocks /\ e[1][1] = cfg /\ e[1][3] \in Insts /\ e[1][2] \in Contexts /\ e[1][2] = c
    <3>1. /\ e[1] \in VirtualBlocks /\ e[1][1] = cfg /\ e[1][3] \in Insts
          /\ Len(e[1][2]) = Len(c) /\ Within(e[1][2], c)
      BY <1>2 DEF AtDepth
    <3>2. e[1][2] \in Contexts
      BY <3>1 DEF VirtualBlocks
    <3> QED BY <3>1, <3>2, WithinWhole
  <2>2. ~ EntryEdge(e)
    BY <2>1, InstsAre DEF EntryEdge, EntryOf
  <2>3. ASSUME LoopEdge(e) PROVE FALSE
    <3>1. e[2][1] = cfg
      BY <2>1, <2>3 DEF LoopEdge, CallsReturn
    <3>2. e[2] \in VirtualBlocks /\ Within(e[2][2], c) /\ e[2][3] = HeadOf(cfg, e[2][2])
      BY <2>1, <2>3, <3>1 DEF LoopEdge
    <3>3. e[2][2] \in Contexts /\ e[2] = <<e[2][1], e[2][2], e[2][3]>>
      BY <3>2 DEF VirtualBlocks
    <3> QED BY <1>2, <3>1, <3>2, <3>3
  <2>4. InlinedEdge(e)
    BY <2>2, <2>3 DEF EdgeShape
  <2>5. e[1] \in DOMAIN returnBlock /\ e[2][3] \in Insts
        /\ e[2] = <<cfg, Append(c, <<e[1][3], e[2][3]>>), e[2][3]>>
    BY <2>1, <2>4 DEF InlinedEdge
  <2>6. PICK b \in Insts : returnBlock[e[1]] = <<cfg, c, b>>
    BY <2>1, <2>5 DEF CallsReturn
  <2>7. ReturnTo(e) = <<cfg, c, b>>
    BY <2>5, <2>6, InstsAre DEF ReturnTo, NoBlock
  <2>8. AtDepth(<<cfg, c, b>>, cfg, n - 1, c)
    BY <1>2, WithinSelf DEF AtDepth, VirtualBlocks
  <2> QED BY <1>2, <2>1, <2>5, <2>7, <2>8
<1> QED BY <1>1, <1>2

\* The blocks at the starts of the functions entered are marked.
LEMMA EntriesMarked ==
    ASSUME NEW r, NEW c \in Contexts, NEW x, Append(c, x) \in Contexts, NEW M, NEW N, M \subseteq N,
           \A d \in Contexts : Within(d, c) => <<r, d, HeadOf(r, d)>> \in M,
           <<r, Append(c, x), x[2]>> \in N
    PROVE  \A d \in Contexts : Within(d, Append(c, x)) => <<r, d, HeadOf(r, d)>> \in N
<1> DEFINE a == Append(c, x)
<1>1. Len(c) \in Nat /\ Len(a) = Len(c) + 1 /\ a[Len(c) + 1] = x /\ \A k \in 1..Len(c) : a[k] = c[k]
  <2>1. DOMAIN c = 1..Len(c) /\ Len(c) \in Nat
    BY LenProperties DEF Contexts
  <2>2. Len(a) = Len(c) + 1 /\ a[Len(c) + 1] = x /\ \A k \in 1..Len(c) : a[k] = c[k]
    BY <2>1 DEF Contexts
  <2> QED BY <2>1, <2>2
<1>2. a # <<>> /\ Last(a) = x
  BY <1>1, EmptySeq DEF Last
<1> SUFFICES ASSUME NEW d \in Contexts, Within(d, a) PROVE <<r, d, HeadOf(r, d)>> \in N
  OBVIOUS
<1>3. Len(d) \in Nat /\ Len(d) <= Len(c) + 1 /\ \A k \in 1..Len(d) : d[k] = a[k]
  BY <1>1, LenProperties DEF Within, Contexts
<1>4. CASE Len(d) = Len(c) + 1
  <2>1. d = a
    BY <1>1, <1>4, WithinWhole
  <2>2. HeadOf(r, d) = x[2]
    BY <1>2, <2>1 DEF HeadOf
  <2> QED BY <2>1, <2>2
<1>5. CASE Len(d) # Len(c) + 1
  <2> HIDE DEF a
  <2>1. Len(d) <= Len(c)
    BY <1>1, <1>3, <1>5
  <2>2. \A k \in 1..Len(d) : k \in 1..Len(c)
    BY <1>1, <1>3, <2>1
  <2>3. Within(d, c)
    BY <1>1, <1>3, <2>1, <2>2 DEF Within
  <2> QED BY <2>3
<1> QED BY <1>4, <1>5

LEMMA EnterCallStep ==
    ASSUME FlowFactsInv, EnterCall
    PROVE  TraversalTypes' /\ TraversalInv'
<1>1. /\ Pop /\ edge[3] = "VIRTUAL_CALL" /\ edge[2] \notin marked
      /\ calls' = Append(calls, ReturnTo(edge)) /\ Process(edge[2], Append(Front(todo), Null))
      /\ path' = (IF edge[1] = EntryOf(cfg) THEN path ELSE Append(path, Call(top[edge[1][3]])))
                 \o <<Fun(edge[2][3])>>
  BY DEF EnterCall, enteringCall
<1>2. /\ Kept /\ cfg' = cfg /\ failed # "unknown" /\ cfg \in Insts /\ IsFiniteSet(vedges)
      /\ todo # <<>> /\ todo \in Seq(vedges \cup {Null})
  BY <1>1, PopKeeps
<1>3. Front(todo) \in Seq(vedges \cup {Null})
  BY <1>2, FrontIs
<1>4. Append(Front(todo), Null) \in Seq(vedges \cup {Null})
  BY <1>3, AppendProperties
<1>5. TraversalTypes'
  BY <1>1, <1>2, <1>4, PopTypes, ProcessEdges
<1>6. ASSUME CallsReturn PROVE TraversalInv'
  <2>1. edge # Null
    BY <1>1 DEF Null
  <2>2. PICK c \in Contexts :
           /\ Traversing(c) /\ Len(calls) \in Nat /\ calls \in Seq(VirtualBlocks)
           /\ edge \in vedges /\ EdgeShape(edge) /\ TodoOK(vedges, Front(todo), Len(calls), cfg, c)
           /\ IF Len(calls) = 0 THEN edge[1] = EntryOf(cfg) ELSE AtDepth(edge[1], cfg, Len(calls) - 1, c)
    BY <1>1, <1>6, <2>1, TopEdge
  <2>3. PICK v : v = edge[2]
    OBVIOUS
  <2>4. PICK t : t = Append(Front(todo), Null)
    OBVIOUS
  <2>5. PICK r : r = cfg
    OBVIOUS
  <2>6. PICK s : s = Append(calls, ReturnTo(edge))
    OBVIOUS
  <2>7. PICK p : p = path'
    OBVIOUS
  <2>8. PICK M : M = marked'
    OBVIOUS
  <2>9. marked \subseteq M /\ v \in M
    BY <1>1, <2>3, <2>8 DEF Process
  <2>10. CallsOK(calls, cfg, c, path, marked)
    BY <2>2 DEF Traversing
  <2>11. CASE Len(calls) = 0
    <3>1. v = <<r, <<>>, r>> /\ ReturnTo(edge) = ExitOf(r) /\ edge[1] = EntryOf(cfg)
      BY <1>1, <1>2, <1>6, <2>2, <2>3, <2>5, <2>11, CallEntered
    <3>2. calls = <<>> /\ path = <<>>
      BY <2>2, <2>10, <2>11, EmptySeq DEF CallsOK
    <3>3. <<>> \in Contexts /\ Len(<<>>) = 0
      BY EmptySeq DEF Contexts
    <3>4. p = PathOf(r, <<>>)
      <4>1. p = <<>> \o <<Fun(r)>>
        BY <1>1, <2>3, <2>7, <3>1, <3>2
      <4> HIDE DEF Fun
      <4>2. p = <<Fun(r)>>
        BY <4>1
      <4> QED BY <4>2, PathOfEntry
    <3>5. s \in Seq(VirtualBlocks) /\ Len(s) = 1 /\ s[1] = ExitOf(r) /\ s # <<>>
      <4>1. ExitOf(r) \in VirtualBlocks
        BY <1>2, <2>5, <3>3 DEF ExitOf, VirtualBlocks
      <4>2. s = <<ExitOf(r)>>
        BY <2>6, <3>1, <3>2
      <4> HIDE DEF ExitOf
      <4> QED BY <4>1, <4>2
    <3>6. \A d \in Contexts : Within(d, <<>>) => <<r, d, HeadOf(r, d)>> \in M
      <4> SUFFICES ASSUME NEW d \in Contexts, Within(d, <<>>) PROVE <<r, d, HeadOf(r, d)>> \in M
        OBVIOUS
      <4>1. d = <<>>
        BY <3>3, EmptySeq, LenProperties DEF Within, Contexts
      <4> QED BY <2>9, <3>1, <4>1 DEF HeadOf
    <3>7. CallsOK(s, r, <<>>, p, M)
      BY <3>3, <3>4, <3>5, <3>6 DEF CallsOK
    <3>8. TodoOK(vedges, t, 1, r, <<>>)
      <4>1. TodoOK(vedges, Front(todo), 0, r, c) /\ 0 \in Nat
        BY <2>2, <2>5, <2>11
      <4>2. TodoOK(vedges, Append(Front(todo), Null), 0 + 1, r, <<>>)
        BY <1>3, <3>3, <4>1, TodoEnter
      <4> QED BY <2>4, <4>2
    <3>9. AtDepth(v, r, 1 - 1, <<>>)
      <4>1. r \in Insts
        BY <1>2, <2>5
      <4> QED BY <3>1, <3>3, <4>1, WithinSelf DEF AtDepth, VirtualBlocks
    <3>10. PICK d : d = <<>>
      OBVIOUS
    <3>11. /\ d \in Contexts /\ CallsOK(s, r, d, p, M)
           /\ TodoOK(vedges, t, Len(s), r, d) /\ AtDepth(v, r, Len(s) - 1, d)
      BY <3>3, <3>5, <3>7, <3>8, <3>9, <3>10
    <3> QED BY <1>1, <1>4, <1>6, <2>3, <2>4, <2>5, <2>6, <2>7, <2>8, <3>5, <3>11, BlockStep
  <2>12. CASE Len(calls) # 0
    <3>1. calls # <<>>
      BY <2>12, EmptySeq
    <3>2. /\ Len(c) = Len(calls) - 1 /\ Len(c) \in Nat /\ path = PathOf(cfg, c) /\ calls[1] = ExitOf(r)
          /\ \A d \in Contexts : Within(d, c) => <<cfg, d, HeadOf(cfg, d)>> \in marked
          /\ \A n \in 2..Len(calls) : AtDepth(calls[n], cfg, n - 2, c)
      BY <2>2, <2>5, <2>10, <3>1, LenProperties DEF CallsOK, Contexts
    <3>3. /\ edge[1][3] \in Insts /\ v[3] \in Insts
          /\ v = <<r, Append(c, <<edge[1][3], v[3]>>), v[3]>>
          /\ AtDepth(ReturnTo(edge), r, Len(calls) - 1, c)
      <4>1. PICK n : n = Len(calls)
        OBVIOUS
      <4>2. n \in Nat /\ n # 0 /\ Len(c) = n - 1 /\ AtDepth(edge[1], cfg, n - 1, c)
        BY <2>2, <2>12, <3>2, <4>1
      <4>3. PICK e : e = edge
        OBVIOUS
      <4>4. e \in vedges /\ EdgeShape(e) /\ e[3] = "VIRTUAL_CALL" /\ e[2] \notin marked /\ AtDepth(e[1], cfg, n - 1, c)
        BY <1>1, <2>2, <4>2, <4>3
      <4>5. n # 0 => Len(c) = n - 1 /\ \A d \in Contexts : Within(d, c) => <<cfg, d, HeadOf(cfg, d)>> \in marked
        BY <3>2, <4>2
      <4>6. IF n = 0 THEN e[1] = EntryOf(cfg) ELSE AtDepth(e[1], cfg, n - 1, c)
        BY <4>2, <4>4
      <4>7. IF n = 0 THEN e[2] = <<cfg, <<>>, cfg>> /\ ReturnTo(e) = ExitOf(cfg)
            ELSE /\ e[1][2] = c /\ e[1][3] \in Insts /\ e[2][3] \in Insts
                 /\ e[2] = <<cfg, Append(c, <<e[1][3], e[2][3]>>), e[2][3]>>
                 /\ AtDepth(ReturnTo(e), cfg, n - 1, c)
        BY <1>2, <1>6, <4>2, <4>4, <4>5, <4>6, CallEntered
      <4> QED BY <2>3, <2>5, <4>1, <4>2, <4>3, <4>7
    <3>4. PICK x : x = <<edge[1][3], v[3]>>
      OBVIOUS
    <3>5. PICK d : d = Append(c, x)
      OBVIOUS
    <3>6. d \in Contexts /\ Len(d) = Len(c) + 1 /\ Within(c, d)
      <4>1. x \in (Insts \cup {None, Exit}) \X Insts
        BY <3>3, <3>4
      <4>2. d \in Contexts /\ Len(d) = Len(c) + 1
        BY <3>5, <4>1, AppendProperties DEF Contexts
      <4>3. \A k \in 1..Len(c) : d[k] = c[k]
        BY <3>2, <3>5, <4>1, AppendProperties DEF Contexts
      <4> QED BY <3>2, <4>2, <4>3 DEF Within
    <3>7. p = PathOf(r, d)
      <4>1. edge[1] # EntryOf(cfg)
        BY <3>3, InstsAre DEF EntryOf
      <4>2. p = Append(PathOf(r, c), Call(top[x[1]])) \o <<Fun(x[2])>>
        BY <1>1, <2>3, <2>5, <2>7, <3>2, <3>4, <4>1
      <4> QED BY <3>5, <3>6, <4>2, PathOfCall
    <3>8. \A a \in Contexts : Within(a, d) => <<r, a, HeadOf(r, a)>> \in M
      <4>1. <<r, Append(c, x), x[2]>> \in M
        BY <2>9, <3>3, <3>4
      <4> QED BY <2>5, <2>9, <3>2, <3>5, <3>6, <4>1, EntriesMarked
    <3>9. /\ s \in Seq(VirtualBlocks) /\ Len(s) = Len(calls) + 1 /\ s # <<>> /\ s[Len(calls) + 1] = ReturnTo(edge)
          /\ \A k \in 1..Len(calls) : s[k] = calls[k]
      <4>1. ReturnTo(edge) \in VirtualBlocks
        BY <3>3 DEF AtDepth
      <4>2. s \in Seq(VirtualBlocks) /\ Len(s) = Len(calls) + 1
        BY <2>2, <2>6, <4>1, AppendProperties
      <4>3. s[Len(calls) + 1] = ReturnTo(edge) /\ \A k \in 1..Len(calls) : s[k] = calls[k]
        BY <2>2, <2>6, <4>1, AppendProperties
      <4>4. s # <<>>
        BY <2>2, <4>2, EmptySeq
      <4> QED BY <4>2, <4>3, <4>4
    <3>10. CallsOK(s, r, d, p, M)
      <4>1. s[1] = ExitOf(r) /\ Len(s) = Len(d) + 1
        BY <2>2, <2>12, <3>2, <3>6, <3>9
      <4>2. ASSUME NEW n \in 2..Len(s) PROVE AtDepth(s[n], r, n - 2, d)
        <5>1. CASE n = Len(calls) + 1
          <6>1. n - 2 = Len(calls) - 1
            BY <2>2, <5>1
          <6> QED BY <3>3, <3>6, <3>9, <5>1, <6>1, DepthWithin
        <5>2. CASE n # Len(calls) + 1
          <6>1. n \in 2..Len(calls) /\ n \in 1..Len(calls)
            BY <2>2, <3>9, <5>2
          <6>2. AtDepth(calls[n], r, n - 2, c) /\ s[n] = calls[n]
            BY <2>5, <3>2, <3>9, <6>1
          <6> QED BY <3>6, <6>2, DepthWithin
        <5> QED BY <5>1, <5>2
      <4> QED BY <3>7, <3>8, <3>9, <4>1, <4>2 DEF CallsOK
    <3>11. TodoOK(vedges, t, Len(s), r, d)
      <4>1. TodoOK(vedges, Append(Front(todo), Null), Len(calls) + 1, cfg, d)
        BY <1>3, <2>2, <3>6, TodoEnter
      <4> QED BY <2>4, <2>5, <3>9, <4>1
    <3>12. AtDepth(v, r, Len(s) - 1, d)
      <4>1. Len(s) - 1 = Len(d)
        BY <2>2, <3>2, <3>6, <3>9
      <4>2. r \in Insts /\ v = <<r, d, v[3]>>
        BY <1>2, <2>5, <3>3, <3>4, <3>5
      <4> QED BY <3>3, <3>6, <4>1, <4>2, WithinSelf DEF AtDepth, VirtualBlocks
    <3> QED BY <1>1, <1>4, <1>6, <2>3, <2>4, <2>5, <2>6, <2>7, <2>8, <3>6, <3>9, <3>10, <3>11, <3>12, BlockStep
  <2> QED BY <2>11, <2>12
<1>7. CallsReturn' <=> CallsReturn
  BY <1>2, TraverseKeeps
<1> QED BY <1>5, <1>6, <1>7 DEF TraversalInv

LEMMA LeaveCallStep ==
    ASSUME FlowFactsInv, LeaveCall
    PROVE  TraversalTypes' /\ TraversalInv'
<1>1. /\ Pop /\ edge = Null /\ calls' = Front(calls) /\ Process(Last(calls), Front(todo))
      /\ path' = IF Last(calls) = ExitOf(cfg) THEN Front(path) ELSE Front(Front(path))
  BY DEF LeaveCall, leavingCall
<1>2. /\ Kept /\ cfg' = cfg /\ failed # "unknown" /\ cfg \in Insts /\ IsFiniteSet(vedges)
      /\ todo # <<>> /\ todo \in Seq(vedges \cup {Null}) /\ BuilderTypes /\ unread = <<>>
  BY <1>1, PopKeeps
<1>3. Front(todo) \in Seq(vedges \cup {Null})
  BY <1>2, FrontIs
<1>4. TraversalTypes'
  BY <1>1, <1>2, <1>3, PopTypes, ProcessEdges
<1>5. ASSUME CallsReturn PROVE TraversalInv'
  <2>1. PICK c \in Contexts :
           /\ Traversing(c) /\ Len(calls) \in Nat /\ calls \in Seq(VirtualBlocks)
           /\ Len(calls) >= 1 /\ TodoOK(vedges, Front(todo), Len(calls) - 1, cfg, c)
    BY <1>1, <1>5, TopEdge
  <2>2. PICK n : n = Len(calls)
    OBVIOUS
  <2>3. PICK r : r = cfg
    OBVIOUS
  <2>4. PICK t : t = Front(todo)
    OBVIOUS
  <2>5. PICK s : s = Front(calls)
    OBVIOUS
  <2>6. PICK p : p = path'
    OBVIOUS
  <2>7. PICK M : M = marked'
    OBVIOUS
  <2>8. PICK v : v = Last(calls)
    OBVIOUS
  <2>9. n \in Nat /\ n >= 1 /\ calls # <<>>
    BY <2>1, <2>2, EmptySeq
  <2>10. /\ s \in Seq(VirtualBlocks) /\ Len(s) = n - 1 /\ \A k \in 1..(n - 1) : s[k] = calls[k]
         /\ v = calls[n] /\ v \in VirtualBlocks
    BY <2>1, <2>2, <2>5, <2>8, <2>9, FrontIs
  <2>11. /\ calls[1] = ExitOf(r) /\ Len(c) = n - 1 /\ path = PathOf(r, c)
         /\ \A d \in Contexts : Within(d, c) => <<r, d, HeadOf(r, d)>> \in marked
         /\ \A k \in 2..n : AtDepth(calls[k], r, k - 2, c)
    <3>1. CallsOK(calls, r, c, path, marked) /\ Len(c) \in Nat
      BY <2>1, <2>3, LenProperties DEF Traversing, Contexts
    <3> QED BY <2>2, <2>9, <3>1 DEF CallsOK
  <2>12. marked \subseteq M
    BY <1>1, <2>7 DEF Process
  <2>13. CASE n = 1
    <3>1. v = ExitOf(r) /\ c = <<>> /\ s = <<>>
      BY <2>10, <2>11, <2>13, EmptySeq DEF Contexts
    <3>2. p = <<>>
      <4>1. p = Front(PathOf(r, <<>>))
        BY <1>1, <2>3, <2>6, <2>8, <2>11, <3>1
      <4>2. PathOf(r, <<>>) = <<Fun(r)>>
        BY PathOfEntry
      <4> HIDE DEF Fun
      <4> QED BY <4>1, <4>2 DEF Front
    <3>3. \A e \in vedges : e[1] # v
      <4> SUFFICES ASSUME NEW e \in vedges, e[1] = v PROVE FALSE
        OBVIOUS
      <4>1. e[1][3] = Exit
        BY <3>1 DEF ExitOf
      <4>2. EdgeShape(e)
        BY DEF FlowFactsInv, GraphInv
      <4> QED BY <4>1, <4>2, InstsAre DEF EdgeShape, EntryEdge, EntryOf
    <3>4. todo' = t
      <4>1. PICK q \in Seq({e \in vedges : e[1] = v}) : todo' = t \o q
        BY <1>1, <1>2, <1>3, <2>4, <2>8, ProcessEdges
      <4>2. {e \in vedges : e[1] = v} = {}
        BY <3>3
      <4>3. q = <<>>
        BY <4>1, <4>2, EmptySeq, LenProperties, ElementOfSeq
      <4> QED BY <1>3, <2>4, <4>1, <4>3, ConcatEmptySeq
    <3>5. Traversing(c)'
      <4>1. TodoOK(vedges', todo', Len(calls'), cfg', c)
        BY <1>1, <1>2, <2>1, <2>2, <2>4, <2>5, <2>10, <3>4 DEF Kept
      <4>2. calls' = <<>> /\ path' = <<>>
        BY <1>1, <2>5, <2>6, <3>1, <3>2
      <4>3. CallsOK(calls, cfg, c, path, marked)'
        BY <4>2, EmptySeq DEF CallsOK
      <4> QED BY <4>1, <4>3 DEF Traversing
    <3>6. last' = v /\ ContextOf(v) = <<>> /\ ContextOf(v)' = <<>>
      BY <1>1, <2>8, <3>1 DEF Process, ExitOf, ContextOf
    <3>7. ContextExact'
      BY <2>6, <3>2, <3>6 DEF ContextExact, ContextOf
    <3>8. BoundsJustified'
      BY <1>1, <1>2, <1>5, <2>6, <2>8, <2>10, <3>2, <3>6, ProcessBounds
         DEF FlowFactsInv, TraversalInv, Kept
    <3>9. cfg' # None
      BY <1>2, InstsAre
    <3> QED BY <3>5, <3>7, <3>8, <3>9 DEF TraversalInv
  <2>14. CASE n # 1
    <3>1. n \in 2..n /\ n - 1 \in Nat /\ n - 1 >= 1
      BY <2>9, <2>14
    <3>2. c # <<>> /\ s # <<>>
      BY <2>10, <2>11, <3>1, EmptySeq
    <3>3. PICK d : d = Front(c)
      OBVIOUS
    <3>4. d \in Contexts /\ Len(d) = n - 2 /\ Within(d, c)
      <4>1. d \in Contexts /\ Len(d) = Len(c) - 1 /\ Within(d, c)
        BY <3>2, <3>3, WithinFront
      <4> QED BY <2>9, <2>11, <4>1
    <3>5. ASSUME NEW k \in 2..n PROVE AtDepth(calls[k], r, k - 2, d)
      <4>1. k - 2 <= Len(d)
        BY <2>9, <3>4
      <4>2. AtDepth(calls[k], r, k - 2, c)
        BY <2>11
      <4> QED BY <3>4, <4>1, <4>2, DepthWithin
    <3>6. AtDepth(v, r, Len(s) - 1, d)
      <4>1. Len(s) - 1 = n - 2
        BY <2>9, <2>10
      <4> QED BY <2>10, <3>1, <3>5, <4>1
    <3>7. p = PathOf(r, d)
      <4>1. v # ExitOf(r)
        BY <3>6, InstsAre DEF AtDepth, ExitOf
      <4>2. p = Front(Front(PathOf(r, c)))
        BY <1>1, <2>3, <2>6, <2>8, <2>11, <4>1
      <4> QED BY <3>2, <3>3, <4>2, PathOfCaller
    <3>8. \A a \in Contexts : Within(a, d) => <<r, a, HeadOf(r, a)>> \in M
      BY <2>11, <2>12, <3>4, WithinTransitive
    <3>9. CallsOK(s, r, d, p, M)
      <4>1. s[1] = ExitOf(r) /\ Len(s) = Len(d) + 1
        BY <2>9, <2>10, <2>11, <3>1, <3>4
      <4>2. ASSUME NEW k \in 2..Len(s) PROVE AtDepth(s[k], r, k - 2, d)
        <5>1. k \in 1..(n - 1) /\ k \in 2..n
          BY <2>9, <2>10
        <5> QED BY <2>10, <3>5, <5>1
      <4> QED BY <2>10, <3>7, <3>8, <4>1, <4>2 DEF CallsOK
    <3>10. TodoOK(vedges, t, Len(s), r, d)
      <4>1. n - 1 <= Len(d) + 1 /\ TodoOK(vedges, t, n - 1, r, c)
        BY <2>1, <2>2, <2>3, <2>4, <2>9, <3>4
      <4>2. TodoOK(vedges, t, n - 1, r, d)
        BY <3>1, <3>4, <4>1, TodoMove
      <4> QED BY <2>10, <4>2
    <3> QED BY <1>1, <1>3, <1>5, <2>3, <2>4, <2>5, <2>6, <2>7, <2>8, <3>2, <3>4, <3>6, <3>9, <3>10, BlockStep
  <2> QED BY <2>13, <2>14
<1>6. CallsReturn' <=> CallsReturn
  BY <1>2, TraverseKeeps
<1> QED BY <1>4, <1>5, <1>6 DEF TraversalInv

LEMMA StartCFGStep ==
    ASSUME FlowFactsInv, StartCFG
    PROVE  Kept /\ failed # "unknown" /\ TraversalTypes' /\ TraversalInv'
<1>1. PICK f \in left : cfg' = f /\ left' = left \ {f} /\ todo' \in SetToSeqs(From(EntryOf(f)))
  BY DEF StartCFG
<1>2. /\ Kept /\ failed # "unknown" /\ cfg = None /\ calls' = calls /\ path' = path /\ marked' = marked
      /\ max' = max /\ last' = last
  BY DEF StartCFG, Kept, builder, inlining, facts
<1>3. f \in Insts /\ f # None /\ IsFiniteSet(vedges)
  BY InstsAre DEF FlowFactsInv, TraversalTypes, GraphInv
<1>4. todo' \in Seq(From(EntryOf(f)))
  <2>1. IsFiniteSet(From(EntryOf(f)))
    BY <1>3, FS_Subset DEF From
  <2> QED BY <1>1, <2>1, SeqsOf
<1>5. todo' \in Seq(vedges \cup {Null})
  <2>1. From(EntryOf(f)) \subseteq vedges \cup {Null}
    BY DEF From
  <2> QED BY <1>4, <2>1, SeqMonotonic
<1>6. TraversalTypes'
  BY <1>1, <1>2, <1>3, <1>5 DEF FlowFactsInv, TraversalTypes, Kept
<1>7. ASSUME CallsReturn PROVE TraversalInv'
  <2>1. calls = <<>> /\ path = <<>> /\ ContextExact /\ BoundsJustified
    BY <1>2, <1>7 DEF FlowFactsInv, TraversalInv
  <2>2. ContextExact' /\ BoundsJustified'
    BY <1>2, <2>1, SameBounds DEF Kept
  <2>3. PICK c : c = <<>>
    OBVIOUS
  <2>4. c \in Contexts
    BY <2>3, EmptySeq DEF Contexts
  <2>5. TodoOK(vedges, todo', 0, f, c)
    <3>1. PICK t : t = todo'
      OBVIOUS
    <3> DEFINE L == [k \in DOMAIN t |-> 0]
    <3>2. \A k \in DOMAIN t : t[k] \in vedges /\ t[k][1] = EntryOf(f)
      <4>1. \A k \in DOMAIN t : t[k] \in From(EntryOf(f))
        BY <1>4, <3>1, ElementOfSeq, LenProperties
      <4> QED BY <4>1 DEF From
    <3>3. \A k \in DOMAIN t : t[k] # Null
      BY <1>3, <3>2 DEF Null, NoBlock, EntryOf
    <3>4. L \in [DOMAIN t -> 0..0] /\ \A k \in DOMAIN t : L[k] = 0
      OBVIOUS
    <3> HIDE DEF L
    <3>5. Levels(vedges, t, 0, f, c, L)
      BY <3>2, <3>3, <3>4 DEF Levels
    <3> QED BY <3>1, <3>4, <3>5 DEF TodoOK
  <2>6. Traversing(c)'
    <3>1. calls' = <<>> /\ path' = <<>> /\ Len(calls') = 0
      BY <1>2, <2>1, EmptySeq
    <3>2. TodoOK(vedges', todo', Len(calls'), cfg', c)
      BY <1>1, <1>2, <2>5, <3>1 DEF Kept
    <3>3. CallsOK(calls, cfg, c, path, marked)'
      BY <3>1, EmptySeq DEF CallsOK
    <3> QED BY <3>2, <3>3 DEF Traversing
  <2> QED BY <1>1, <1>3, <2>2, <2>4, <2>6 DEF TraversalInv
<1>8. CallsReturn' <=> CallsReturn
  BY <1>2, TraverseKeeps
<1> QED BY <1>2, <1>6, <1>7, <1>8 DEF TraversalInv

\* A stack of edges that is empty has no call to end.
LEMMA EndCFGStep ==
    ASSUME FlowFactsInv, EndCFG
    PROVE  Kept /\ failed # "unknown" /\ TraversalTypes' /\ TraversalInv'
<1>1. /\ Kept /\ cfg # None /\ todo = <<>> /\ cfg' = None /\ left' = left /\ todo' = todo /\ calls' = calls
      /\ path' = path /\ max' = max /\ last' = last
  BY DEF EndCFG, Kept, builder, inlining, facts
<1>2. failed # "unknown"
  BY <1>1 DEF FlowFactsInv, OrderInv
<1>3. TraversalTypes'
  BY <1>1 DEF FlowFactsInv, TraversalTypes, Kept
<1>4. ASSUME CallsReturn PROVE TraversalInv'
  <2>1. PICK c \in Contexts : Traversing(c)
    BY <1>1, <1>4 DEF FlowFactsInv, TraversalInv
  <2>2. calls \in Seq(VirtualBlocks) /\ Len(calls) \in Nat /\ TodoOK(vedges, todo, Len(calls), cfg, c)
    BY <2>1, LenProperties DEF Traversing, CallsOK
  <2>3. Len(calls) = 0
    <3> SUFFICES ASSUME Len(calls) # 0 PROVE FALSE
      OBVIOUS
    <3>1. 1 \in 1..Len(calls)
      BY <2>2
    <3>2. \E k \in DOMAIN todo : todo[k] = Null
      BY <2>2, <3>1 DEF TodoOK, Levels
    <3>3. DOMAIN todo = {}
      BY <1>1
    <3> QED BY <3>2, <3>3
  <2>4. calls = <<>> /\ path = <<>>
    <3>1. calls = <<>>
      BY <2>2, <2>3, EmptySeq
    <3> QED BY <2>1, <3>1 DEF Traversing, CallsOK
  <2>5. ContextExact' /\ BoundsJustified'
    BY <1>1, <1>4, SameBounds DEF FlowFactsInv, TraversalInv, Kept
  <2> QED BY <1>1, <2>4, <2>5 DEF TraversalInv
<1>5. CallsReturn' <=> CallsReturn
  BY <1>1, <1>2, TraverseKeeps
<1> QED BY <1>1, <1>2, <1>3, <1>4, <1>5 DEF TraversalInv

LEMMA StutterStep ==
    ASSUME FlowFactsInv, UNCHANGED fvars
    PROVE  FlowFactsInv'
<1>1. /\ Kept /\ UNCHANGED vars
      /\ left' = left /\ cfg' = cfg /\ todo' = todo /\ calls' = calls /\ path' = path
      /\ marked' = marked /\ max' = max /\ last' = last
  BY DEF fvars, vars, factVars, facts, traversal, Kept, builder, inlining
<1>2. CASE failed = "unknown"
  <2>1. VirtualizerInv /\ StackInv /\ OrderInv /\ FactsInv /\ GraphInv /\ TraversalTypes
    BY <1>2 DEF FlowFactsInv, OrderInv
  <2>2. VirtualizerInv'
    BY <1>1, <2>1, ExecutionStep
  <2>3. StackInv'
    BY <1>1, <2>1 DEF StackInv, FrameShape, HeadOf, Within, Kept
  <2>4. OrderInv'
    BY <1>1, <1>2, <2>1, <2>2, <2>3 DEF OrderInv, Kept
  <2>5. FactsInv' /\ GraphInv'
    BY <1>1, <2>1, FactsKept, EdgeKept DEF GraphInv, Kept
  <2>6. left' \subseteq Insts /\ back' \subseteq vedges' /\ \A e \in back' : e[1][3] \in Insts
    BY <1>1, <2>1 DEF TraversalTypes, Kept
  <2>7. TraversalTypes' /\ TraversalInv'
    BY <1>1, <1>2, <2>1, <2>6, IdleKept
  <2> QED BY <2>4, <2>5, <2>7 DEF FlowFactsInv
<1>3. CASE failed # "unknown"
  <2>1. OrderInv' /\ FactsInv' /\ GraphInv' /\ (CallsReturn' <=> CallsReturn)
    BY <1>1, <1>3, TraverseKeeps
  <2>2. TraversalTypes'
    BY <1>1 DEF FlowFactsInv, TraversalTypes, Kept
  <2>3. ASSUME CallsReturn PROVE TraversalInv'
    <3>1. ContextExact' /\ BoundsJustified'
      BY <1>1, <2>3, SameBounds DEF FlowFactsInv, TraversalInv, Kept
    <3>2. ASSUME NEW CONSTANT c, Traversing(c) PROVE Traversing(c)'
      <4>1. TodoOK(vedges', todo', Len(calls'), cfg', c)
        BY <1>1, <3>2 DEF Traversing, Kept
      <4>2. CallsOK(calls, cfg, c, path, marked)'
        BY <1>1, <3>2 DEF CallsOK, PathOf, Traversing, Kept
      <4> QED BY <4>1, <4>2 DEF Traversing
    <3>3. cfg # None => \E c \in Contexts : Traversing(c)'
      BY <2>3, <3>2 DEF FlowFactsInv, TraversalInv
    <3> QED BY <1>1, <2>3, <3>1, <3>3 DEF FlowFactsInv, TraversalInv
  <2> QED BY <2>1, <2>2, <2>3 DEF FlowFactsInv, TraversalInv
<1> QED BY <1>2, <1>3

LEMMA TraverseStep ==
    ASSUME FlowFactsInv, Traverse
    PROVE  FlowFactsInv'
<1>1. CASE StartCFG
  BY <1>1, StartCFGStep, TraverseKeeps DEF FlowFactsInv
<1>2. CASE EndCFG
  BY <1>2, EndCFGStep, TraverseKeeps DEF FlowFactsInv
<1>3. CASE FollowEdge \/ SkipEdge \/ EnterCall \/ LeaveCall
  <2>1. Pop
    BY <1>3 DEF FollowEdge, SkipEdge, EnterCall, LeaveCall
  <2>2. OrderInv' /\ FactsInv' /\ GraphInv'
    BY <2>1, PopKeeps, TraverseKeeps
  <2>3. TraversalTypes' /\ TraversalInv'
    BY <1>3, FollowEdgeStep, SkipEdgeStep, EnterCallStep, LeaveCallStep
  <2> QED BY <2>2, <2>3 DEF FlowFactsInv
<1> QED BY <1>1, <1>2, <1>3 DEF Traverse

LEMMA FlowFactsStart ==
    ASSUME FInit
    PROVE  FlowFactsInv
<1>1. /\ Init /\ unread = prog.facts /\ failed = "unknown" /\ back = {} /\ left = {} /\ cfg = None
      /\ todo = <<>> /\ calls = <<>> /\ path = <<>> /\ last = NoBlock /\ DOMAIN bounds = {} /\ DOMAIN max = {}
  BY DEF FInit
<1>2. stack = <<>> /\ cfgMap = {} /\ vedges = {} /\ fault = "none" /\ phase = "find" /\ prog \in Programs
      /\ DOMAIN returnBlock = {}
  BY <1>1 DEF Init, BuilderInit
<1>3. stack \in Seq(Frames) /\ DOMAIN stack = {}
  BY <1>2, EmptySeq
<1>4. VirtualizerInv
  <2>1. BuilderInv
    BY <1>1, BuilderStarts DEF Init
  <2> QED BY <1>2, <1>3, <2>1 DEF VirtualizerInv, FramesInv, InliningBounded, ReturnsInv, NoAssertFails
<1>5. StackInv
  BY <1>3 DEF StackInv
<1>6. OrderInv
  BY <1>1, <1>2, <1>4, <1>5 DEF OrderInv
<1>7. FactsInv
  <2>1. prog.facts \in Seq(FactSet) /\ Len(prog.facts) \in Nat
    BY <1>2, FactsTyped
  <2>2. Read = 0
    BY <1>1, <2>1 DEF Read
  <2>3. \A j \in 1..Len(unread) : Read + j = j
    BY <2>2
  <2>4. 1..Read = {}
    BY <2>2
  <2> QED BY <1>1, <2>1, <2>2, <2>3, <2>4 DEF FactsInv
<1>8. GraphInv
  BY <1>2, FS_EmptySet DEF GraphInv
<1>9. TraversalTypes
  BY <1>1, EmptySeq DEF TraversalTypes
<1>10. TraversalInv
  BY <1>1 DEF TraversalInv, ContextExact, BoundsJustified
<1> QED BY <1>6, <1>7, <1>8, <1>9, <1>10 DEF FlowFactsInv

-----------------------------------------------------------------------------
(* The theorems.                                                           *)

\* The invariant holds in every state, on any program with any flow facts: what
\* FlowFactLoader has put in the contextual trees, the shape of the edges that
\* virtualize() makes, and, where the calls inlined return to their callers, the
\* stacks of edges and of calls of ContextualProcessor.
THEOREM FlowFactsInvariant == FSpec => []FlowFactsInv
<1>1. FInit => FlowFactsInv
  BY FlowFactsStart
<1>2. FlowFactsInv /\ [FNext]_fvars => FlowFactsInv'
  BY OnLoopStep, BuildAndInlineStep, CheckStep, TraverseStep, StutterStep DEF FNext
<1> QED BY <1>1, <1>2, PTL DEF FSpec

\* Where the calls inlined return to their callers, the path that the calls and
\* the returns met by ContextualProcessor push and pop is the context of the
\* block processed, in whatever order its edges are followed.
THEOREM ContextTheorem == FSpec => [](CallsReturn => ContextExact)
<1>1. FlowFactsInv => (CallsReturn => ContextExact)
  BY DEF FlowFactsInv, TraversalInv
<1> QED BY <1>1, FlowFactsInvariant, PTL

\* Where the calls inlined return to their callers, ipet::FlowFactLoader gives
\* to a loop header the bound of a fact that applies in its context, and not
\* less than any fact about the same loop and path.
THEOREM BoundsTheorem == FSpec => [](CallsReturn => BoundsJustified)
<1>1. FlowFactsInv => (CallsReturn => BoundsJustified)
  BY DEF FlowFactsInv, TraversalInv
<1> QED BY <1>1, FlowFactsInvariant, PTL
=============================================================================
