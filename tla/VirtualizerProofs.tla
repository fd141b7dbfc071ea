-------------------------- MODULE VirtualizerProofs --------------------------
(***************************************************************************)
(* The blocks of CFGBuilder are whole, the calls of virtualize() are never   *)
(* nested for one function, its assertions hold and the edges it makes are   *)
(* moves of the program, for all the programs that satisfy what the code     *)
(* takes for granted.                                                       *)
(***************************************************************************)
EXTENDS Virtualizer, Induction, FiniteSetTheorems, SequenceTheorems, TLAPS

-----------------------------------------------------------------------------
(* The invariant of the builder.                                           *)

Building == phase \in {"find", "link"}
BuiltEdges == [target : Insts, kind : {"NOT_TAKEN", "TAKEN", "CALL"}]

BuilderTypes ==
    /\ prog \in Programs
    /\ phase \in {"find", "link", "built", "inline", "run"}
    /\ seg \in DOMAIN prog.segments
    /\ BB \in SUBSET Insts
    /\ follow \in BOOLEAN
    /\ top \in [Insts -> Insts \cup {None}]
    /\ outs \in [Insts -> Seq(BuiltEdges)]
    /\ entries \in SUBSET Insts
    /\ cfgs \in SUBSET Insts

\* The two loops are in their segment; the second one has a block at work as
\* soon as it has passed an instruction.
InSegment ==
    /\ Building => item \in First..(Final + 1)
    /\ phase = "link" =>
          IF item = First THEN bb = None ELSE bb \in First..(item - 1)

\* What the first loop has seen of the segment starts the blocks it has to.
Searched == IF phase = "find" THEN item ELSE Final + 1
StartsFound ==
    Building =>
        /\ prog.functions \subseteq BB
        /\ \A i \in First..(Searched - 1) :
              /\ First \in BB
              /\ Found(i) \subseteq BB
              /\ isControl(i) /\ i < Final => i + 1 \in BB

\* The instructions that the second loop has passed are those before it.
Passed == IF phase = "find" THEN First ELSE item
Spanned(t) == \E u \in DOMAIN prog.segments : t \in Span(prog, u)

\* A block that has its size ends before the next one starts; the blocks
\* passed have their sizes, the one at work apart; edges lead to blocks.
BlocksFound ==
    /\ \A b \in Insts :
          top[b] # None => /\ b \in BB
                           /\ b <= top[b] /\ top[b] < Passed
                           /\ \A c \in BB : b < c => top[b] < c
    /\ \A t \in BB : t < Passed /\ Spanned(t) => top[t] # None \/ (phase = "link" /\ t = bb)
    /\ \A b \in Insts : \A e \in ToSet(outs[b]) : e.target \in BB /\ Spanned(e.target)
    /\ phase = "link" /\ bb # None => bb \in BB /\ \A c \in BB : bb < c => item <= c

BlocksInv == InTime(prog) => BlocksWhole /\ (Building => BlocksFound)

\* A block that calls is followed in sequence, or will be.
Has(list, kind) == \E e \in ToSet(list) : e.kind = kind
CallsInv ==
    CallsFollowed(prog) =>
        \A b \in Insts :
            Has(outs[b], "CALL") =>
                \/ Has(outs[b], "NOT_TAKEN")
                \/ phase = "link" /\ b = bb /\ follow /\ item <= Final /\ item \in BB

BuilderInv == BuilderTypes /\ InSegment /\ StartsFound /\ BlocksInv /\ CallsInv

-----------------------------------------------------------------------------
(* The invariant of the virtualizer.                                       *)

Contexts == Seq((Insts \cup {None, Exit}) \X Insts)
VirtualBlocks == (Insts \cup {None}) \X Contexts \X (Insts \cup {None, Exit})
Frames ==
    [cfg : Insts, root : Insts, ctx : Contexts, exit : VirtualBlocks \ {NoBlock},
     todo : SUBSET Insts, src : VirtualBlocks, called : Seq(Insts), after : VirtualBlocks]

\* A function in progress is not DONT_INLINE, or has its virtual CFG; those to
\* inline are not DONT_INLINE.
FramesInv ==
    /\ phase \in {"find", "link", "built"} => stack = <<>>
    /\ stack \in Seq(Frames)
    /\ cfgMap \in SUBSET Insts
    /\ \A k \in DOMAIN stack :
          /\ stack[k].cfg \in prog.apart => stack[k].cfg \in cfgMap
          /\ ToSet(stack[k].called) \cap prog.apart = {}

\* A block with a call to inline has a block to return to.
ReturnsInv ==
    prog.inlining /\ CallsFollowed(prog) =>
        /\ NoAssertFails
        /\ \A k \in DOMAIN stack : stack[k].called # <<>> => stack[k].after # NoBlock

VirtualizerInv == BuilderInv /\ FramesInv /\ InliningBounded /\ ReturnsInv

-----------------------------------------------------------------------------
(* The invariant of the edges: they are moves of the program.               *)

\* The edges E of a block that ends at i, or is a return (r): a block is
\* followed in sequence after a call or when the instruction may go on.
NextReal(i, E) == isCall(i) \/ <<"go", i + 1>> \in Moves(i) \/ \E e \in E : e.kind = "CALL"
LeadsReal(i, E, e) ==
    /\ e.kind = "CALL" => <<"call", e.target>> \in Moves(i) /\ (isCall(i) \/ e.target \in CallTargets(i))
    /\ e.kind = "TAKEN" => <<"go", e.target>> \in Moves(i)
    /\ e.kind = "NOT_TAKEN" => e.target = i + 1 /\ NextReal(i, E)
ReturnReal(i, E) ==
    /\ Moves(i) \cap {<<"return", None>>, <<"stop", None>>} # {}
    /\ \A e \in E : e.kind # "CALL"
EndsReal(i, E, r) ==
    IF i = None THEN E = {} /\ ~ r
    ELSE (\A e \in E : LeadsReal(i, E, e)) /\ (r => ReturnReal(i, E))

BlockReal(b) == EndsReal(top[b], ToSet(outs[b]), b \in returns)

\* The blocks not passed have no size; the block at work has one when its
\* control was passed, and then it is ended.
WorkReal ==
    /\ Building => \A b \in Insts : b >= Passed => top[b] = None
    /\ phase = "link" /\ bb # None =>
          /\ follow => NextReal(item - 1, ToSet(outs[bb]))
          /\ top[bb] # None => top[bb] = item - 1 /\ (item \in BB \/ item > Final)

BuiltReal == NotesPlain(prog) => WorkReal /\ \A b \in Insts : BlockReal(b)

\* The exit of an inlined function is where the last call returns.
ExitReal(root, ctx, exit) == RealReturn(<<<<root, ctx, None>>, exit>>)

\* A function of f, called by the block b.
CallReal(f, b, g) ==
    /\ {<<"call", g>>, <<"go", g>>} \cap Moves(top[b]) # {}
    /\ f.after # NoBlock => ExitReal(f.root, Append(f.ctx, <<b, g>>), f.after)

FrameReal(f) ==
    /\ f.cfg \in cfgs \cup {prog.start}
    /\ f.todo \subseteq ScanBlocks(f.cfg)
    /\ ExitReal(f.root, f.ctx, f.exit)
    /\ ToSet(f.called) \subseteq cfgs
    /\ f.called # <<>> =>
          \E b \in Insts : f.src = VBlock(f, b) /\ \A g \in ToSet(f.called) : CallReal(f, b, g)

VirtualReal ==
    /\ phase \in {"find", "link", "built"} => vedges = {}
    /\ NotesPlain(prog) /\ JumpsAlone =>
          /\ \A k \in DOMAIN stack : FrameReal(stack[k])
          /\ \A e \in vedges : e[1][3] \in Insts => RealEdge(e)

-----------------------------------------------------------------------------
(* Sequences.                                                              *)

\* A finite set has an order, which is a sequence of its elements.
LEMMA SetToSeqTyped ==
    ASSUME NEW S, IsFiniteSet(S)
    PROVE  SetToSeq(S) \in Seq(S)
<1> DEFINE n == Cardinality(S)
<1>1. n \in Nat /\ \E f \in [1..n -> S] : IsInjective(f)
  BY FS_CardinalityType DEF ExistsBijection, Bijection, Injection
<1> HIDE DEF n
<1>2. (CHOOSE f \in [1..n -> S] : IsInjective(f)) \in [1..n -> S]
  BY <1>1
<1>3. \A g \in [1..n -> S] : g \in Seq(S)
  BY <1>1
<1> QED BY <1>2, <1>3 DEF SetToSeq, n

LEMMA SetToSeqWhole ==
    ASSUME NEW S, IsFiniteSet(S)
    PROVE  ToSet(SetToSeq(S)) = S
<1> DEFINE n == Cardinality(S)
           f == SetToSeq(S)
<1>1. n \in Nat /\ \E g \in [1..n -> S] : IsInjective(g)
  BY FS_CardinalityType DEF ExistsBijection, Bijection, Injection
<1>2. f \in [1..n -> S] /\ IsInjective(f)
  BY <1>1 DEF SetToSeq
<1> HIDE DEF n, f
<1>3. f \in Injection(1..n, S)
  BY <1>2 DEF Injection, IsInjective
<1>4. IsFiniteSet(1..n) /\ Cardinality(1..n) = n
  <2>1. IsFiniteSet(1..n) /\ Cardinality(1..n) = IF 1 > n THEN 0 ELSE n - 1 + 1
    BY <1>1, FS_Interval
  <2> QED BY <1>1, <2>1
<1>5. f \in Surjection(1..n, S)
  BY <1>3, <1>4, FS_Injection DEF n
<1>6. \A s \in S : \E k \in 1..n : f[k] = s
  BY <1>5 DEF Surjection
<1>7. ToSet(f) = {f[k] : k \in 1..n}
  BY <1>2 DEF ToSet
<1> QED BY <1>2, <1>6, <1>7 DEF f

LEMMA ConcatElements ==
    ASSUME NEW S, NEW s \in Seq(S), NEW t \in Seq(S)
    PROVE  s \o t \in Seq(S) /\ ToSet(s \o t) = ToSet(s) \cup ToSet(t)
<1>1. /\ s \o t \in Seq(S)
      /\ Len(s) \in Nat /\ Len(t) \in Nat /\ Len(s \o t) = Len(s) + Len(t)
      /\ DOMAIN s = 1..Len(s) /\ DOMAIN t = 1..Len(t)
      /\ DOMAIN (s \o t) = 1..(Len(s) + Len(t))
  BY LenProperties, ConcatProperties
<1>2. \A i \in 1..(Len(s) + Len(t)) :
         (s \o t)[i] = IF i <= Len(s) THEN s[i] ELSE t[i - Len(s)]
  BY <1>1, ConcatProperties
<1>3. ASSUME NEW x \in ToSet(s \o t) PROVE x \in ToSet(s) \cup ToSet(t)
  <2>1. PICK i \in 1..(Len(s) + Len(t)) : x = (s \o t)[i]
    BY <1>1 DEF ToSet
  <2>2. CASE i <= Len(s)
    <3>1. i \in DOMAIN s /\ x = s[i]
      BY <1>1, <1>2, <2>1, <2>2
    <3> QED BY <3>1 DEF ToSet
  <2>3. CASE ~(i <= Len(s))
    <3>1. i - Len(s) \in DOMAIN t /\ x = t[i - Len(s)]
      BY <1>1, <1>2, <2>1, <2>3
    <3> QED BY <3>1 DEF ToSet
  <2> QED BY <2>2, <2>3
<1>4. ASSUME NEW x \in ToSet(s) PROVE x \in ToSet(s \o t)
  <2>1. PICK i \in 1..Len(s) : x = s[i]
    BY <1>1 DEF ToSet
  <2>2. i \in 1..(Len(s) + Len(t)) /\ x = (s \o t)[i]
    BY <1>1, <1>2, <2>1
  <2> QED BY <1>1, <2>2 DEF ToSet
<1>5. ASSUME NEW x \in ToSet(t) PROVE x \in ToSet(s \o t)
  <2>1. PICK i \in 1..Len(t) : x = t[i]
    BY <1>1 DEF ToSet
  <2>2. i + Len(s) \in 1..(Len(s) + Len(t)) /\ ~(i + Len(s) <= Len(s)) /\ (i + Len(s)) - Len(s) = i
    BY <1>1
  <2>3. x = (s \o t)[i + Len(s)]
    BY <1>2, <2>1, <2>2
  <2> QED BY <1>1, <2>2, <2>3 DEF ToSet
<1> QED BY <1>1, <1>3, <1>4, <1>5

LEMMA SingleElement ==
    ASSUME NEW S, NEW x \in S
    PROVE  <<x>> \in Seq(S) /\ ToSet(<<x>>) = {x}
BY DEF ToSet

LEMMA ElementsIn ==
    ASSUME NEW S, NEW s \in Seq(S)
    PROVE  ToSet(s) \subseteq S
BY ElementOfSeq, LenProperties DEF ToSet

LEMMA RestElements ==
    ASSUME NEW S, NEW q \in Seq(S), q # <<>>
    PROVE  /\ Tail(q) \in Seq(S) /\ Head(q) \in S /\ Head(q) \in ToSet(q)
           /\ ToSet(Tail(q)) \subseteq ToSet(q)
<1>1. /\ Tail(q) \in Seq(S) /\ Head(q) = q[1]
      /\ Len(q) \in Nat \ {0} /\ Len(Tail(q)) = Len(q) - 1
      /\ \A i \in 1..Len(Tail(q)) : Tail(q)[i] = q[i + 1]
  BY HeadTailProperties, EmptySeq
<1>2. DOMAIN q = 1..Len(q) /\ DOMAIN Tail(q) = 1..Len(Tail(q))
  BY <1>1, LenProperties
<1>3. 1 \in 1..Len(q)
  BY <1>1
<1>4. Head(q) \in S /\ Head(q) \in ToSet(q)
  BY <1>1, <1>2, <1>3, ElementOfSeq DEF ToSet
<1>5. \A i \in 1..Len(Tail(q)) : i + 1 \in 1..Len(q)
  BY <1>1
<1> QED BY <1>1, <1>2, <1>4, <1>5 DEF ToSet

-----------------------------------------------------------------------------
(* The program.                                                            *)

LEMMA InstsAre == Insts \subseteq Nat \ {0} /\ None \notin Insts /\ Exit \notin Insts /\ Exit # None
BY SizeAssumption DEF Insts, None, Exit

LEMMA NumbersAre == \A x \in Insts \cup {None} : x \in Nat
<1>1. None \in Nat
  BY DEF None
<1> QED BY <1>1, InstsAre

LEMMA SegmentBounds ==
    ASSUME BuilderTypes
    PROVE  First \in Insts /\ Final \in Insts /\ First <= Final /\ Span(prog, seg) = First..Final
<1>1. prog.segments \in Seq(Insts \X Insts)
  BY ProgramsAssumption DEF BuilderTypes
<1>2. seg \in 1..Len(prog.segments)
  BY <1>1, LenProperties DEF BuilderTypes
<1>3. prog.segments[seg] \in Insts \X Insts
  BY <1>1, <1>2, ElementOfSeq
<1>4. First <= Final
  BY ProgramsAssumption DEF BuilderTypes, First, Final
<1> QED BY <1>3, <1>4 DEF First, Final, Span

LEMMA TargetsTyped ==
    ASSUME BuilderTypes, NEW i \in Insts
    PROVE  /\ target(i) \in Insts \cup {None}
           /\ BranchTargets(i) \subseteq Insts
           /\ CallTargets(i) \subseteq Insts
           /\ Found(i) \subseteq Insts
<1>1. /\ target(i) \in Insts \cup {None}
      /\ BranchTargets(i) \subseteq Insts
      /\ CallTargets(i) \subseteq Insts
  BY ProgramsAssumption DEF BuilderTypes, target, BranchTargets, CallTargets
<1>2. Found(i) \subseteq Insts
  BY <1>1 DEF Found
<1> QED BY <1>1, <1>2

\* The edges of a control, all of them.
LEMMA ControlEdgesWhole ==
    ASSUME BuilderTypes, NEW i \in Insts
    PROVE  /\ ControlEdges(i) \in Seq(BuiltEdges)
           /\ ToSet(ControlEdges(i)) =
              {Edge(t, "CALL") : t \in CallTargets(i)} \cup
              {Edge(t, IF isCall(i) THEN "CALL" ELSE "TAKEN") :
                  t \in BranchTargets(i) \cup
                        (IF target(i) # None /\ ~ (isCall(i) /\ has(target(i), "NO_CALL"))
                         THEN {target(i)} ELSE {})}
<1> DEFINE kind == IF isCall(i) THEN "CALL" ELSE "TAKEN"
           direct == IF target(i) # None /\ ~ (isCall(i) /\ has(target(i), "NO_CALL"))
                     THEN {target(i)} ELSE {}
           D == BranchTargets(i) \cup direct
           A == {Edge(t, "CALL") : t \in CallTargets(i)}
           B == {Edge(t, kind) : t \in D}
<1>0. ControlEdges(i) = SetToSeq(A) \o SetToSeq(B)
  BY DEF ControlEdges
<1>1. D \subseteq Insts /\ CallTargets(i) \subseteq Insts /\ kind \in {"CALL", "TAKEN"}
  BY TargetsTyped
<1>2. IsFiniteSet(D) /\ IsFiniteSet(CallTargets(i))
  <2>1. IsFiniteSet(Insts)
    BY SizeAssumption, FS_Interval DEF Insts
  <2> QED BY <1>1, <2>1, FS_Subset
<1> HIDE DEF kind, direct, D
<1>3. A \subseteq BuiltEdges /\ B \subseteq BuiltEdges
  BY <1>1 DEF BuiltEdges, Edge
<1>4. IsFiniteSet(A)
  <2> DEFINE f == [t \in CallTargets(i) |-> Edge(t, "CALL")]
  <2>1. f \in Surjection(CallTargets(i), A)
    BY DEF Surjection
  <2> QED BY <1>2, <2>1, FS_Surjection
<1>5. IsFiniteSet(B)
  <2> DEFINE f == [t \in D |-> Edge(t, kind)]
  <2>1. f \in Surjection(D, B)
    BY DEF Surjection
  <2> QED BY <1>2, <2>1, FS_Surjection
<1> HIDE DEF A, B
<1>6. SetToSeq(A) \in Seq(BuiltEdges) /\ SetToSeq(B) \in Seq(BuiltEdges)
  <2>1. SetToSeq(A) \in Seq(A) /\ SetToSeq(B) \in Seq(B)
    BY <1>4, <1>5, SetToSeqTyped
  <2> QED BY <1>3, <2>1, SeqMonotonic
<1>7. ControlEdges(i) \in Seq(BuiltEdges) /\ ToSet(ControlEdges(i)) = A \cup B
  BY <1>0, <1>4, <1>5, <1>6, ConcatElements, SetToSeqWhole
<1> QED BY <1>7 DEF A, B, D, kind, direct

\* The edges of a control lead where the first loop looked for blocks, unless
\* the instructions are logged.
LEMMA ControlEdgesAre ==
    ASSUME BuilderTypes, NEW i \in Insts
    PROVE  /\ ControlEdges(i) \in Seq(BuiltEdges)
           /\ isControl(i) /\ ~ prog.verbose =>
                 \A e \in ToSet(ControlEdges(i)) : e.target \in Found(i)
           /\ Has(ControlEdges(i), "CALL") => isCall(i) \/ CallTargets(i) # {}
<1> DEFINE direct == IF target(i) # None /\ ~ (isCall(i) /\ has(target(i), "NO_CALL"))
                     THEN {target(i)} ELSE {}
<1>1. /\ ControlEdges(i) \in Seq(BuiltEdges)
      /\ ToSet(ControlEdges(i)) =
            {Edge(t, "CALL") : t \in CallTargets(i)} \cup
            {Edge(t, IF isCall(i) THEN "CALL" ELSE "TAKEN") : t \in BranchTargets(i) \cup direct}
  BY ControlEdgesWhole
<1>2. \A e \in ToSet(ControlEdges(i)) :
         /\ e.target \in CallTargets(i) \cup BranchTargets(i) \cup direct
         /\ e.kind = "CALL" => isCall(i) \/ CallTargets(i) # {}
  BY <1>1 DEF Edge
<1>3. target(i) # None => CallTargets(i) = {} /\ BranchTargets(i) = {}
  BY DEF CallTargets, BranchTargets
<1>4. ASSUME isControl(i), ~ prog.verbose, NEW e \in ToSet(ControlEdges(i))
      PROVE  e.target \in Found(i)
  BY <1>2, <1>3, <1>4 DEF Found
<1>5. Has(ControlEdges(i), "CALL") => isCall(i) \/ CallTargets(i) # {}
  BY <1>2 DEF Has
<1> QED BY <1>1, <1>4, <1>5

\* What is said of the program does not change with the rest of the state.
LEMMA SameProgram ==
    ASSUME prog' = prog
    PROVE  /\ InTime(prog)' <=> InTime(prog)
           /\ CallsFollowed(prog)' <=> CallsFollowed(prog)
           /\ \A t : Spanned(t)' <=> Spanned(t)
           /\ \A i : Found(i)' = Found(i) /\ (isControl(i)' <=> isControl(i))
           /\ seg' = seg => First' = First /\ Final' = Final
<1>1. InTime(prog)' <=> InTime(prog)
  BY DEF InTime, Span, Controls, TargetsOf
<1>2. CallsFollowed(prog)' <=> CallsFollowed(prog)
  BY DEF CallsFollowed, Span, Controls
<1>3. \A t : Spanned(t)' <=> Spanned(t)
  BY DEF Spanned, Span
<1>4. \A i : Found(i)' = Found(i) /\ (isControl(i)' <=> isControl(i))
  BY DEF Found, isControl, target, isReturn, has, BranchTargets, CallTargets
<1>5. seg' = seg => First' = First /\ Final' = Final
  BY DEF First, Final
<1> QED BY <1>1, <1>2, <1>3, <1>4, <1>5

\* The targets of a program that is in time: those of an instruction of the
\* segment at work are in it or after it, or functions.
LEMMA FoundInTime ==
    ASSUME BuilderTypes, InTime(prog), NEW i \in First..Final, NEW t \in Found(i)
    PROVE  (t \in prog.functions \/ t >= First) /\ Spanned(t)
<1>1. isControl(i) /\ t \in TargetsOf(prog, i)
  BY DEF Found, TargetsOf, target, BranchTargets, CallTargets
<1>2. Controls(prog, i)
  BY <1>1 DEF isControl, Controls, has
<1>3. i \in Span(prog, seg) /\ seg \in DOMAIN prog.segments
  BY SegmentBounds DEF BuilderTypes
<1>4. /\ t \in prog.functions \/ t >= prog.segments[seg][1]
      /\ \E u \in DOMAIN prog.segments : t \in Span(prog, u)
  BY <1>1, <1>2, <1>3 DEF InTime
<1> QED BY <1>4 DEF First, Spanned

-----------------------------------------------------------------------------
(* The first loop.                                                         *)

LEMMA BuilderStarts == BuilderInit => BuilderInv
<1> SUFFICES ASSUME BuilderInit PROVE BuilderInv
  OBVIOUS
<1>1. BuilderTypes
  <2>1. prog.segments \in Seq(Insts \X Insts) /\ prog.segments # <<>> /\ prog.functions \subseteq Insts
    BY ProgramsAssumption DEF BuilderInit
  <2>2. 1 \in DOMAIN prog.segments
    BY <2>1, EmptySeq, LenProperties
  <2>3. <<>> \in Seq(BuiltEdges)
    BY EmptySeq
  <2> QED BY <2>1, <2>2, <2>3 DEF BuilderInit, BuilderTypes
<1>2. First \in Nat /\ Final \in Nat /\ First <= Final /\ item = First
  BY <1>1, SegmentBounds, InstsAre DEF BuilderInit, First
<1>3. InSegment
  BY <1>2 DEF InSegment, BuilderInit, Building
<1>4. StartsFound
  BY <1>2 DEF StartsFound, Searched, BuilderInit, Building
<1>5. \A b \in Insts : ToSet(outs[b]) = {} /\ top[b] = None
  BY DEF BuilderInit, ToSet
<1>6. BlocksInv
  <2>1. BlocksWhole
    BY DEF BlocksWhole, BuilderInit
  <2>2. \A t \in BB : t < Passed /\ Spanned(t) => FALSE
    <3> SUFFICES ASSUME NEW t \in BB, t < First, NEW u \in DOMAIN prog.segments, t \in Span(prog, u)
                 PROVE  FALSE
      BY DEF Passed, BuilderInit, Spanned
    <3>1. prog.segments \in Seq(Insts \X Insts)
      BY ProgramsAssumption DEF BuilderInit
    <3>2. u \in Nat /\ u >= 1 /\ prog.segments[u] \in Insts \X Insts /\ prog.segments[1] \in Insts \X Insts
      BY <1>1, <3>1, LenProperties, ElementOfSeq DEF BuilderTypes, BuilderInit
    <3>3. First = prog.segments[1][1] /\ 1 \in DOMAIN prog.segments
      BY <1>1 DEF First, BuilderInit, BuilderTypes
    <3>4. u # 1 => prog.segments[1][2] < prog.segments[u][1]
      BY <3>2, <3>3, ProgramsAssumption DEF BuilderInit
    <3>5. prog.segments[1][1] <= prog.segments[1][2]
      BY <3>3, ProgramsAssumption DEF BuilderInit
    <3>6. /\ prog.segments[u][1] \in Nat /\ prog.segments[1][1] \in Nat
          /\ prog.segments[1][2] \in Nat /\ t \in Nat
      BY <1>1, <3>2, InstsAre DEF BuilderTypes
    <3>7. prog.segments[u][1] <= t
      BY <3>6 DEF Span
    <3> QED BY <3>3, <3>4, <3>5, <3>6, <3>7
  <2> QED BY <1>5, <2>1, <2>2 DEF BlocksInv, BlocksFound, BuilderInit
<1>7. CallsInv
  BY <1>5 DEF CallsInv, Has
<1> QED BY <1>1, <1>3, <1>4, <1>6, <1>7 DEF BuilderInv

LEMMA FindBlocksStep ==
    ASSUME BuilderInv, FindBlocks
    PROVE  BuilderInv'
<1>1. /\ prog' = prog /\ phase = "find" /\ phase' = "find" /\ seg' = seg /\ bb' = bb /\ follow' = follow
      /\ top' = top /\ outs' = outs /\ entries' = entries /\ cfgs' = cfgs
      /\ item <= Final /\ item' = item + 1
  BY DEF FindBlocks
<1>2. /\ BuilderTypes /\ First \in Nat /\ Final \in Nat /\ First <= Final /\ item \in First..Final
      /\ item \in Insts /\ First..Final \subseteq Insts /\ Insts \subseteq Nat
  <2>1. BuilderTypes /\ First \in Insts /\ Final \in Insts /\ First <= Final
    BY SegmentBounds DEF BuilderInv
  <2>2. item \in First..(Final + 1)
    BY <1>1 DEF BuilderInv, InSegment, Building
  <2>3. First..Final \subseteq Insts
    BY <2>1, SizeAssumption DEF Insts
  <2> QED BY <1>1, <2>1, <2>2, <2>3, InstsAre
<1>3. First' = First /\ Final' = Final
  BY <1>1, SameProgram
<1>4. /\ BB \subseteq BB' /\ Found(item) \subseteq BB'
      /\ item = First => First \in BB'
      /\ isControl(item) /\ item < Final => item + 1 \in BB'
      /\ \A c \in BB' : c \in BB \cup Found(item) \/ c \in First..Final
  BY <1>2 DEF FindBlocks
<1>5. BB' \in SUBSET Insts
  <2>1. BB \subseteq Insts
    BY <1>2 DEF BuilderTypes
  <2> QED BY <1>2, <1>4, <2>1, TargetsTyped
<1>6. BuilderTypes'
  BY <1>1, <1>2, <1>5 DEF BuilderTypes
<1>7. InSegment'
  BY <1>1, <1>2, <1>3 DEF InSegment, Building
<1>8. StartsFound'
  <2>1. Searched' = item + 1 /\ Searched = item
    BY <1>1 DEF Searched
  <2> SUFFICES ASSUME NEW i \in First..item
               PROVE  First \in BB' /\ Found(i)' \subseteq BB' /\ (isControl(i)' /\ i < Final => i + 1 \in BB')
    <3>1. prog.functions \subseteq BB'
      BY <1>1, <1>4 DEF BuilderInv, StartsFound, Building
    <3> QED BY <1>1, <1>2, <1>3, <2>1, <3>1 DEF StartsFound
  <2>2. Found(i)' = Found(i) /\ (isControl(i)' <=> isControl(i))
    BY <1>1, SameProgram
  <2>3. CASE i = item
    <3>1. First \in BB'
      <4>1. CASE item = First
        BY <4>1, <1>4
      <4>2. CASE item # First
        <5>1. First \in First..(item - 1)
          BY <1>2, <4>2
        <5> QED BY <1>1, <1>4, <2>1, <5>1 DEF BuilderInv, StartsFound, Building
      <4> QED BY <4>1, <4>2
    <3> QED BY <1>4, <2>2, <2>3, <3>1
  <2>4. CASE i # item
    <3>1. i \in First..(item - 1)
      BY <1>2, <2>4
    <3> QED BY <1>1, <1>4, <2>1, <2>2, <3>1 DEF BuilderInv, StartsFound, Building
  <2> QED BY <2>3, <2>4
<1>9. BlocksInv'
  <2> SUFFICES ASSUME InTime(prog) PROVE BlocksFound'
    BY <1>1, SameProgram DEF BlocksInv, BlocksWhole
  <2>1. BlocksFound
    BY <1>1 DEF BuilderInv, BlocksInv, Building
  <2>2. Passed' = First /\ Passed = First
    BY <1>1, <1>3 DEF Passed
  <2>3. \A c \in BB' : c \in BB \/ c >= First
    <3>1. prog.functions \subseteq BB
      BY <1>1 DEF BuilderInv, StartsFound, Building
    <3> QED BY <1>2, <1>4, <3>1, FoundInTime
  <2>4. \A t : Spanned(t)' <=> Spanned(t)
    BY <1>1, SameProgram
  <2>5. \A b \in Insts :
          top[b] # None => /\ b \in BB'
                           /\ b <= top[b] /\ top[b] < First
                           /\ \A c \in BB' : b < c => top[b] < c
    <3> SUFFICES ASSUME NEW b \in Insts, top[b] # None, NEW c \in BB', b < c
                 PROVE  top[b] < c
      BY <2>1, <2>2, <1>4 DEF BlocksFound
    <3>1. top[b] \in Nat /\ top[b] < First /\ c \in Nat
      BY <2>1, <2>2, <1>2, <1>5 DEF BlocksFound, BuilderTypes
    <3> QED BY <2>1, <2>3, <3>1, <1>2 DEF BlocksFound
  <2>6. \A t \in BB' : t < First /\ Spanned(t) => top[t] # None
    <3> SUFFICES ASSUME NEW t \in BB', t < First, Spanned(t) PROVE top[t] # None
      OBVIOUS
    <3>1. t \in BB
      BY <2>3, <1>2, <1>5
    <3> QED BY <2>1, <2>2, <3>1, <1>1 DEF BlocksFound
  <2>7. \A b \in Insts : \A e \in ToSet(outs[b]) : e.target \in BB' /\ Spanned(e.target)
    BY <2>1, <1>4 DEF BlocksFound
  <2> HIDE DEF Spanned, Passed
  <2>8. \A b \in Insts :
          top'[b] # None => /\ b \in BB'
                            /\ b <= top'[b] /\ top'[b] < Passed'
                            /\ \A c \in BB' : b < c => top'[b] < c
    BY <1>1, <2>2, <2>5
  <2>9. \A t \in BB' : t < Passed' /\ Spanned(t)' => top'[t] # None
    BY <1>1, <2>2, <2>4, <2>6
  <2>10. \A b \in Insts : \A e \in ToSet(outs'[b]) : e.target \in BB' /\ Spanned(e.target)'
    BY <1>1, <2>4, <2>7
  <2> QED BY <1>1, <2>8, <2>9, <2>10 DEF BlocksFound
<1>10. CallsInv'
  BY <1>1, SameProgram DEF BuilderInv, CallsInv
<1> QED BY <1>6, <1>7, <1>8, <1>9, <1>10 DEF BuilderInv

LEMMA FindDoneStep ==
    ASSUME BuilderInv, FindDone
    PROVE  BuilderInv'
<1>1. /\ prog' = prog /\ phase = "find" /\ phase' = "link" /\ seg' = seg /\ bb' = None /\ follow' = TRUE
      /\ BB' = BB /\ top' = top /\ outs' = outs /\ entries' = {} /\ cfgs' = cfgs
      /\ item > Final /\ item' = First
  BY DEF FindDone
<1>2. BuilderTypes /\ First \in Nat /\ Final \in Nat /\ First <= Final /\ item = Final + 1
  <2>1. BuilderTypes /\ First \in Insts /\ Final \in Insts /\ First <= Final
    BY SegmentBounds DEF BuilderInv
  <2>2. item \in First..(Final + 1)
    BY <1>1 DEF BuilderInv, InSegment, Building
  <2> QED BY <1>1, <2>1, <2>2, InstsAre
<1>3. First' = First /\ Final' = Final
  BY <1>1, SameProgram
<1>4. BuilderTypes'
  BY <1>1, <1>2 DEF BuilderTypes
<1>5. InSegment'
  BY <1>1, <1>2, <1>3 DEF InSegment, Building
<1>6. StartsFound'
  <2>1. Searched' = Searched /\ Searched = item
    BY <1>1, <1>2, <1>3 DEF Searched
  <2>2. \A i : Found(i)' = Found(i) /\ (isControl(i)' <=> isControl(i))
    BY <1>1, SameProgram
  <2> QED BY <1>1, <1>3, <2>1, <2>2 DEF BuilderInv, StartsFound, Building
<1>7. BlocksInv'
  <2> SUFFICES ASSUME InTime(prog) PROVE BlocksFound'
    BY <1>1, SameProgram DEF BlocksInv, BlocksWhole
  <2>1. BlocksFound
    BY <1>1 DEF BuilderInv, BlocksInv, Building
  <2>2. Passed' = First /\ Passed = First
    BY <1>1, <1>3 DEF Passed
  <2>3. \A t : Spanned(t)' <=> Spanned(t)
    BY <1>1, SameProgram
  <2> QED BY <1>1, <2>1, <2>2, <2>3 DEF BlocksFound
<1>8. CallsInv'
  BY <1>1, SameProgram DEF BuilderInv, CallsInv
<1> QED BY <1>4, <1>5, <1>6, <1>7, <1>8 DEF BuilderInv

-----------------------------------------------------------------------------
(* The second loop.                                                        *)

\* The block of the instruction is known, and its number is between the block
\* before it and the instruction.
LEMMA CurrentIs ==
    ASSUME BuilderInv, phase = "link", item <= Final
    PROVE  /\ BuilderTypes
           /\ First \in Nat /\ Final \in Nat /\ First <= item /\ item \in Nat /\ item \in Insts
           /\ Current \in First..item /\ Current \in Insts
           /\ bb # None => bb \in First..(item - 1) /\ bb \in Insts
           /\ First \in BB
           /\ Insts \subseteq Nat \ {0} /\ None = 0
           /\ item \in First..Final
<1>1. BuilderTypes /\ First \in Insts /\ Final \in Insts /\ First <= Final
  BY SegmentBounds DEF BuilderInv
<1>2. item \in First..(Final + 1)
  BY DEF BuilderInv, InSegment, Building
<1>3. First \in Nat /\ Final \in Nat /\ First # 0 /\ Final <= Size /\ Size \in Nat
  BY <1>1, SizeAssumption DEF Insts
<1>4. item \in Insts /\ First..item \subseteq Insts
  BY <1>1, <1>2, <1>3 DEF Insts
<1>5. IF item = First THEN bb = None ELSE bb \in First..(item - 1)
  BY DEF BuilderInv, InSegment
<1>6. bb # None => bb \in First..(item - 1)
  BY <1>5
<1>7. First \in BB
  <2>1. First \in First..(Searched - 1)
    BY <1>1, <1>3 DEF Searched
  <2> QED BY <2>1 DEF BuilderInv, StartsFound, Building
<1>8. Current \in First..item
  <2>1. CASE item \in BB
    BY <2>1, <1>2, <1>3 DEF Current
  <2>2. CASE item \notin BB
    <3>1. item # First
      BY <2>2, <1>7
    <3>2. bb \in First..(item - 1)
      BY <1>5, <3>1
    <3> QED BY <2>2, <3>2, <1>2, <1>3 DEF Current
  <2> QED BY <2>1, <2>2
<1>9. bb # None => bb \in First..item
  BY <1>2, <1>3, <1>6
<1> QED BY <1>1, <1>2, <1>3, <1>4, <1>6, <1>7, <1>8, <1>9, InstsAre DEF None

\* The size and the sequence edge given to the block before the instruction.
LEMMA SizesAre ==
    ASSUME BuilderInv, phase = "link", item <= Final
    PROVE  /\ Sizes \in [Insts -> Insts \cup {None}]
           /\ \A b \in Insts : Sizes[b] = IF Ends /\ b = bb /\ top[bb] = None
                                          THEN item - 1 ELSE top[b]
           /\ Sequential \in [Insts -> Seq(BuiltEdges)]
           /\ \A b \in Insts :
                 ToSet(Sequential[b]) = IF Ends /\ follow /\ b = bb
                                        THEN ToSet(outs[b]) \cup {Edge(item, "NOT_TAKEN")}
                                        ELSE ToSet(outs[b])
<1>1. /\ item \in Insts /\ bb # None => bb \in First..(item - 1) /\ bb \in Insts
      /\ BuilderTypes /\ First \in Nat /\ item \in Nat /\ First <= item /\ Insts \subseteq Nat \ {0}
      /\ item \in Insts
  BY CurrentIs
<1>2. top \in [Insts -> Insts \cup {None}] /\ outs \in [Insts -> Seq(BuiltEdges)]
  BY <1>1 DEF BuilderTypes
<1>3. Ends => bb \in First..(item - 1) /\ bb \in Insts
  BY <1>1 DEF Ends
<1>4. Ends => item - 1 \in Insts
  <2> SUFFICES ASSUME Ends PROVE item - 1 \in Insts
    OBVIOUS
  <2>1. bb \in Nat /\ bb # 0 /\ bb <= item - 1
    BY <1>1, <1>3
  <2> QED BY <1>1, <2>1, SizeAssumption DEF Insts
<1>5. /\ Sizes \in [Insts -> Insts \cup {None}]
      /\ \A b \in Insts : Sizes[b] = IF Ends /\ b = bb /\ top[bb] = None
                                     THEN item - 1 ELSE top[b]
  BY <1>2, <1>3, <1>4 DEF Sizes
<1>6. CASE Ends /\ follow
  <2> DEFINE new == <<Edge(item, "NOT_TAKEN")>>
  <2>1. Edge(item, "NOT_TAKEN") \in BuiltEdges
    BY <1>1 DEF Edge, BuiltEdges
  <2>2. new \in Seq(BuiltEdges) /\ ToSet(new) = {Edge(item, "NOT_TAKEN")}
    BY <2>1, SingleElement
  <2>3. outs[bb] \in Seq(BuiltEdges) /\ bb \in Insts
    BY <1>2, <1>3, <1>6
  <2> HIDE DEF new
  <2>4. /\ new \o outs[bb] \in Seq(BuiltEdges)
        /\ ToSet(new \o outs[bb]) = ToSet(new) \cup ToSet(outs[bb])
    BY <2>2, <2>3, ConcatElements
  <2>5. Sequential = [outs EXCEPT ![bb] = new \o outs[bb]]
    BY <1>6 DEF Sequential, new
  <2> QED BY <1>2, <1>5, <1>6, <2>2, <2>3, <2>4, <2>5
<1>7. CASE ~(Ends /\ follow)
  BY <1>2, <1>5, <1>7 DEF Sequential
<1> QED BY <1>6, <1>7

\* What a step of the second loop does, in its three cases.
Linked == ~ Stops(item) /\ isControl(item)

LEMMA LinkFacts ==
    ASSUME BuilderInv, LinkBlocks
    PROVE  /\ phase = "link" /\ item <= Final
           /\ prog' = prog /\ phase' = phase /\ seg' = seg /\ cfgs' = cfgs
           /\ bb' = Current /\ item' = item + 1
           /\ entries' \in SUBSET Insts /\ follow' \in BOOLEAN
           /\ top' \in [Insts -> Insts \cup {None}]
           /\ \A b \in Insts : top'[b] = Sizes[b] \/ (b = Current /\ top'[b] = item)
           /\ outs' \in [Insts -> Seq(BuiltEdges)]
           /\ \A b \in Insts :
                 ToSet(outs'[b]) = ToSet(Sequential[b]) \cup
                                   (IF b = Current /\ Linked THEN ToSet(ControlEdges(item)) ELSE {})
           /\ BB' \in SUBSET Insts /\ BB \subseteq BB'
           /\ InTime(prog) => BB' = BB
           /\ Linked => follow' = Follows(item)
<1>1. /\ phase = "link" /\ item <= Final
      /\ prog' = prog /\ phase' = phase /\ seg' = seg /\ cfgs' = cfgs
      /\ bb' = Current /\ item' = item + 1
      /\ entries' = entries \cup ({item} \cap BB \cap isEntry)
  BY DEF LinkBlocks
<1>2. /\ BuilderTypes /\ Current \in Insts /\ item \in Insts /\ item \in First..Final
      /\ First \in Nat /\ Final \in Nat
  BY <1>1, CurrentIs
<1>3. entries' \in SUBSET Insts
  BY <1>1, <1>2 DEF BuilderTypes
<1>4. /\ Sizes \in [Insts -> Insts \cup {None}]
      /\ Sequential \in [Insts -> Seq(BuiltEdges)]
  BY <1>1, SizesAre
<1> DEFINE to == [Sizes EXCEPT ![Current] = item]
<1>5. to \in [Insts -> Insts \cup {None}] /\ \A b \in Insts : to[b] = Sizes[b] \/ (b = Current /\ to[b] = item)
  BY <1>2, <1>4
<1>6. CASE Stops(item)
  <2>1. top' = to /\ outs' = Sequential /\ follow' = FALSE /\ BB' = BB
    BY <1>6 DEF LinkBlocks
  <2>2. ~ Linked
    BY <1>6 DEF Linked
  <2> QED BY <1>1, <1>2, <1>3, <1>4, <1>5, <2>1, <2>2 DEF BuilderTypes
<1>7. CASE ~ Stops(item) /\ isControl(item)
  <2>0. Linked
    BY <1>7 DEF Linked
  <2>1. /\ top' = to /\ outs' = [Sequential EXCEPT ![Current] = ControlEdges(item) \o Sequential[Current]]
        /\ BB' = BB \cup {e.target : e \in ToSet(ControlEdges(item))}
        /\ follow' = Follows(item)
    BY <1>7 DEF LinkBlocks
  <2>2. /\ ControlEdges(item) \in Seq(BuiltEdges)
        /\ ~ prog.verbose => \A e \in ToSet(ControlEdges(item)) : e.target \in Found(item)
    BY <1>2, <1>7, ControlEdgesAre
  <2>3. /\ ControlEdges(item) \o Sequential[Current] \in Seq(BuiltEdges)
        /\ ToSet(ControlEdges(item) \o Sequential[Current])
             = ToSet(ControlEdges(item)) \cup ToSet(Sequential[Current])
    BY <1>2, <1>4, <2>2, ConcatElements
  <2>4. outs' \in [Insts -> Seq(BuiltEdges)]
    BY <1>4, <2>1, <2>3
  <2>5. \A b \in Insts :
           ToSet(outs'[b]) = ToSet(Sequential[b]) \cup
                             (IF b = Current /\ Linked THEN ToSet(ControlEdges(item)) ELSE {})
    BY <1>2, <1>4, <2>0, <2>1, <2>3
  <2>6. BB' \in SUBSET Insts /\ BB \subseteq BB'
    <3>1. ToSet(ControlEdges(item)) \subseteq BuiltEdges
      BY <2>2, ElementsIn
    <3>2. \A e \in ToSet(ControlEdges(item)) : e.target \in Insts
      BY <3>1 DEF BuiltEdges
    <3> QED BY <1>2, <2>1, <3>2 DEF BuilderTypes
  <2>7. InTime(prog) => BB' = BB
    <3>1. item \in First..(Searched - 1)
      BY <1>1, <1>2 DEF Searched
    <3>2. Found(item) \subseteq BB
      BY <1>1, <3>1 DEF BuilderInv, StartsFound, Building
    <3>3. InTime(prog) => ~ prog.verbose
      BY DEF InTime
    <3> QED BY <2>1, <2>2, <3>2, <3>3
  <2>8. follow' \in BOOLEAN
    BY <2>1 DEF Follows
  <2> QED BY <1>1, <1>3, <1>5, <2>1, <2>4, <2>5, <2>6, <2>7, <2>8
<1>8. CASE ~ Stops(item) /\ ~ isControl(item)
  <2>1. top' = Sizes /\ outs' = Sequential /\ follow' = (follow \/ Ends) /\ BB' = BB
    BY <1>8 DEF LinkBlocks
  <2>2. ~ Linked
    BY <1>8 DEF Linked
  <2> QED BY <1>1, <1>2, <1>3, <1>4, <2>1, <2>2 DEF BuilderTypes, Ends
<1> QED BY <1>6, <1>7, <1>8

LEMMA LinkStep ==
    ASSUME BuilderInv, LinkBlocks
    PROVE  BuilderInv'
<1>1. /\ phase = "link" /\ item <= Final
      /\ prog' = prog /\ phase' = phase /\ seg' = seg /\ cfgs' = cfgs
      /\ bb' = Current /\ item' = item + 1
      /\ entries' \in SUBSET Insts /\ follow' \in BOOLEAN
      /\ top' \in [Insts -> Insts \cup {None}]
      /\ \A b \in Insts : top'[b] = Sizes[b] \/ (b = Current /\ top'[b] = item)
      /\ outs' \in [Insts -> Seq(BuiltEdges)]
      /\ \A b \in Insts :
            ToSet(outs'[b]) = ToSet(Sequential[b]) \cup
                              (IF b = Current /\ Linked THEN ToSet(ControlEdges(item)) ELSE {})
      /\ BB' \in SUBSET Insts /\ BB \subseteq BB'
      /\ InTime(prog) => BB' = BB
      /\ Linked => follow' = Follows(item)
  BY LinkFacts
<1>2. /\ BuilderTypes
      /\ First \in Nat /\ Final \in Nat /\ First <= item /\ item \in Nat /\ item \in Insts
      /\ Current \in First..item /\ Current \in Insts
      /\ bb # None => bb \in First..(item - 1) /\ bb \in Insts
      /\ First \in BB
      /\ Insts \subseteq Nat \ {0} /\ None = 0
      /\ item \in First..Final
  BY <1>1, CurrentIs
<1>3. /\ \A b \in Insts : Sizes[b] = IF Ends /\ b = bb /\ top[bb] = None THEN item - 1 ELSE top[b]
      /\ \A b \in Insts :
            ToSet(Sequential[b]) = IF Ends /\ follow /\ b = bb
                                   THEN ToSet(outs[b]) \cup {Edge(item, "NOT_TAKEN")}
                                   ELSE ToSet(outs[b])
  BY <1>1, SizesAre
<1>4. First' = First /\ Final' = Final
  BY <1>1, SameProgram
<1>5. BuilderTypes'
  BY <1>1, <1>2 DEF BuilderTypes
<1>6. InSegment'
  BY <1>1, <1>2, <1>4 DEF InSegment, Building
<1>7. StartsFound'
  <2>1. Searched' = Searched
    BY <1>1, <1>4 DEF Searched
  <2>2. \A i : Found(i)' = Found(i) /\ (isControl(i)' <=> isControl(i))
    BY <1>1, SameProgram
  <2> QED BY <1>1, <1>4, <2>1, <2>2 DEF BuilderInv, StartsFound, Building
<1>8. BlocksInv'
  <2> SUFFICES ASSUME InTime(prog) PROVE BlocksFound'
    BY <1>1, SameProgram DEF BlocksInv, BlocksWhole
  <2>1. BlocksFound /\ BB' = BB
    BY <1>1 DEF BuilderInv, BlocksInv, Building
  <2>2. Passed' = item + 1 /\ Passed = item
    BY <1>1 DEF Passed
  <2>3. \A t : Spanned(t)' <=> Spanned(t)
    BY <1>1, SameProgram
  <2>4. /\ Current \in BB /\ \A c \in BB : Current < c => item + 1 <= c
        /\ item \notin BB => Current = bb /\ bb # None
    <3>1. CASE item \in BB
      <4>1. Current = item
        BY <3>1 DEF Current
      <4>2. \A c \in BB : c \in Nat
        BY <1>2 DEF BuilderTypes
      <4> QED BY <1>2, <3>1, <4>1, <4>2
    <3>2. CASE item \notin BB
      <4>1. Current = bb /\ bb # None
        BY <1>2, <3>2 DEF Current
      <4>2. bb \in BB /\ \A c \in BB : bb < c => item <= c
        BY <1>1, <2>1, <4>1 DEF BlocksFound
      <4>3. \A c \in BB : c \in Nat /\ c # item
        BY <1>2, <3>2 DEF BuilderTypes
      <4> QED BY <1>2, <4>1, <4>2, <4>3
    <3> QED BY <3>1, <3>2
  <2>5. ASSUME NEW b \in Insts, top'[b] # None
        PROVE  /\ b \in BB
               /\ b <= top'[b] /\ top'[b] < item + 1
               /\ \A c \in BB : b < c => top'[b] < c
    <3>1. CASE b = Current /\ top'[b] = item
      <4>1. \A c \in BB : c \in Nat
        BY <1>2 DEF BuilderTypes
      <4> QED BY <1>2, <2>4, <3>1, <4>1
    <3>2. CASE Ends /\ b = bb /\ top[bb] = None /\ top'[b] = item - 1
      <4>1. b \in BB /\ \A c \in BB : b < c => item <= c
        BY <1>1, <2>1, <3>2 DEF BlocksFound, Ends
      <4>2. \A c \in BB : c \in Nat
        BY <1>2 DEF BuilderTypes
      <4>3. b \in First..(item - 1)
        BY <1>2, <3>2 DEF Ends
      <4> QED BY <1>2, <3>2, <4>1, <4>2, <4>3
    <3>3. CASE top'[b] = top[b]
      <4>1. /\ b \in BB
            /\ b <= top[b] /\ top[b] < item
            /\ \A c \in BB : b < c => top[b] < c
        BY <2>1, <2>2, <2>5, <3>3 DEF BlocksFound
      <4>2. top[b] \in Insts \cup {None}
        BY <1>2 DEF BuilderTypes
      <4>3. top[b] \in Nat
        BY <4>2, NumbersAre
      <4> QED BY <1>2, <3>3, <4>1, <4>3
    <3> QED BY <1>1, <1>3, <3>1, <3>2, <3>3
  <2>6. ASSUME NEW t \in BB, t < item + 1, Spanned(t)
        PROVE  top'[t] # None \/ t = Current
    <3>0. t \in Insts /\ t \in Nat
      BY <1>2 DEF BuilderTypes
    <3>1. CASE t = item
      <4>1. Current = item
        BY <3>1 DEF Current
      <4> QED BY <3>1, <4>1
    <3>2. CASE t # item
      <4>1. t < item
        BY <1>2, <2>6, <3>0, <3>2
      <4>2. top[t] # None \/ t = bb
        BY <2>1, <2>2, <2>6, <4>1 DEF BlocksFound
      <4>3. CASE top[t] # None
        <5>1. Sizes[t] = top[t]
          BY <1>3, <3>0, <4>3
        <5> QED BY <1>1, <1>2, <3>0, <4>3, <5>1
      <4>4. CASE top[t] = None /\ t = bb
        <5>1. CASE item \in BB
          <6>1. Ends /\ Sizes[t] = item - 1 /\ bb \in First..(item - 1)
            <7>1. bb # None
              BY <1>2, <3>0, <4>4
            <7>2. Ends
              BY <5>1, <7>1 DEF Ends
            <7> QED BY <1>2, <1>3, <3>0, <4>4, <7>1, <7>2
          <6>2. item - 1 # None /\ item # None
            BY <1>2, <6>1, <3>0, <4>4
          <6> QED BY <1>1, <3>0, <6>1, <6>2
        <5>2. CASE item \notin BB
          BY <2>4, <4>4, <5>2
        <5> QED BY <5>1, <5>2
      <4> QED BY <4>2, <4>3, <4>4
    <3> QED BY <3>1, <3>2
  <2>7. ASSUME NEW b \in Insts, NEW e \in ToSet(outs'[b])
        PROVE  e.target \in BB /\ Spanned(e.target)
    <3>1. \/ e \in ToSet(outs[b])
          \/ Ends /\ e = Edge(item, "NOT_TAKEN")
          \/ Linked /\ e \in ToSet(ControlEdges(item))
      BY <1>1, <1>3
    <3>2. CASE e \in ToSet(outs[b])
      BY <2>1, <3>2 DEF BlocksFound
    <3>3. CASE Ends /\ e = Edge(item, "NOT_TAKEN")
      <4>1. e.target = item /\ item \in BB
        BY <3>3 DEF Edge, Ends
      <4>2. Spanned(item)
        BY <1>2, SegmentBounds DEF Spanned, BuilderTypes
      <4> QED BY <4>1, <4>2
    <3>4. CASE Linked /\ e \in ToSet(ControlEdges(item))
      <4>1. e.target \in Found(item)
        BY <1>2, <3>4, ControlEdgesAre DEF Linked, InTime
      <4>2. item \in First..(Searched - 1)
        BY <1>1, <1>2 DEF Searched
      <4>3. Found(item) \subseteq BB
        BY <1>1, <4>2 DEF BuilderInv, StartsFound, Building
      <4> QED BY <1>2, <4>1, <4>3, FoundInTime
    <3> QED BY <3>1, <3>2, <3>3, <3>4
  <2> HIDE DEF Spanned, Passed, Current
  <2>8. \A b \in Insts :
          top'[b] # None => /\ b \in BB'
                            /\ b <= top'[b] /\ top'[b] < Passed'
                            /\ \A c \in BB' : b < c => top'[b] < c
    BY <2>1, <2>2, <2>5
  <2>9. \A t \in BB' : t < Passed' /\ Spanned(t)' => top'[t] # None \/ t = bb'
    BY <1>1, <2>1, <2>2, <2>3, <2>6
  <2>10. \A b \in Insts : \A e \in ToSet(outs'[b]) : e.target \in BB' /\ Spanned(e.target)'
    BY <2>1, <2>3, <2>7
  <2>11. bb' \in BB' /\ \A c \in BB' : bb' < c => item' <= c
    BY <1>1, <2>1, <2>4
  <2> QED BY <1>1, <2>8, <2>9, <2>10, <2>11 DEF BlocksFound
<1>9. CallsInv'
  <2> SUFFICES ASSUME CallsFollowed(prog), NEW b \in Insts, Has(outs'[b], "CALL")
               PROVE  \/ Has(outs'[b], "NOT_TAKEN")
                      \/ b = bb' /\ follow' /\ item' <= Final /\ item' \in BB'
    <3> USE DEF CallsInv
    <3> QED BY <1>1, <1>4, SameProgram
  <2>1. CASE Has(outs[b], "CALL")
    <3>1. \/ Has(outs[b], "NOT_TAKEN")
          \/ b = bb /\ follow /\ item \in BB
      BY <2>1 DEF BuilderInv, CallsInv
    <3>2. CASE Has(outs[b], "NOT_TAKEN")
      BY <1>1, <1>3, <3>2 DEF Has
    <3>3. CASE b = bb /\ follow /\ item \in BB
      <4>1. Ends
        BY <1>2, <3>3 DEF Ends
      <4>2. Edge(item, "NOT_TAKEN") \in ToSet(outs'[b])
        BY <1>1, <1>3, <3>3, <4>1
      <4> QED BY <4>2 DEF Has, Edge
    <3> QED BY <3>1, <3>2, <3>3
  <2>2. CASE ~ Has(outs[b], "CALL")
    <3>1. b = Current /\ Linked /\ Has(ControlEdges(item), "CALL")
      <4>1. PICK e \in ToSet(outs'[b]) : e.kind = "CALL"
        BY DEF Has
      <4>2. e \notin ToSet(outs[b]) /\ e # Edge(item, "NOT_TAKEN")
        BY <2>2, <4>1 DEF Has, Edge
      <4>3. b = Current /\ Linked /\ e \in ToSet(ControlEdges(item))
        BY <1>1, <1>3, <4>2
      <4> QED BY <4>1, <4>3 DEF Has
    <3>2. isCall(item) \/ CallTargets(item) # {}
      BY <1>2, <3>1, ControlEdgesAre
    <3>3. /\ Controls(prog, item)
          /\ prog.code[item].kind = "call" \/ \E q \in prog.callTo : q[1] = item
          /\ "IS_RETURN" \notin prog.notes[item]
          /\ \A t \in {prog.code[item].target} \ {None} : "NO_RETURN" \notin prog.notes[t]
      BY <3>1, <3>2 DEF Linked, Stops, isControl, Controls, isCall, CallTargets, has, target
    <3>4. item \in Span(prog, seg) /\ seg \in DOMAIN prog.segments
      BY <1>2, SegmentBounds DEF BuilderTypes
    <3>5. item < Final /\ "IGNORE_SEQ" \notin prog.notes[item]
      BY <3>3, <3>4 DEF CallsFollowed, Final
    <3>6. follow'
      BY <1>1, <3>1, <3>2, <3>5 DEF Follows, has
    <3>7. item + 1 \in BB
      <4>1. item \in First..(Searched - 1)
        BY <1>1, <1>2 DEF Searched
      <4> QED BY <1>1, <3>1, <3>5, <4>1 DEF BuilderInv, StartsFound, Building, Linked
    <3> QED BY <1>1, <1>2, <3>1, <3>5, <3>6, <3>7
  <2> QED BY <2>1, <2>2
<1> QED BY <1>5, <1>6, <1>7, <1>8, <1>9 DEF BuilderInv

\* The instructions of the segments, in the order of the segments.
LEMMA SpansOrdered ==
    ASSUME BuilderTypes, NEW t, Spanned(t)
    PROVE  /\ seg = Len(prog.segments) => t <= Final
           /\ seg + 1 \in DOMAIN prog.segments /\ t < prog.segments[seg + 1][1] => t <= Final
<1>1. PICK u \in DOMAIN prog.segments : t \in Span(prog, u)
  BY DEF Spanned
<1>2. prog.segments \in Seq(Insts \X Insts)
  BY ProgramsAssumption DEF BuilderTypes
<1>3. DOMAIN prog.segments = 1..Len(prog.segments) /\ Len(prog.segments) \in Nat
  BY <1>2, LenProperties
<1>4. \A s \in DOMAIN prog.segments : prog.segments[s][1] \in Nat /\ prog.segments[s][2] \in Nat
  <2> SUFFICES ASSUME NEW s \in DOMAIN prog.segments
               PROVE  prog.segments[s][1] \in Nat /\ prog.segments[s][2] \in Nat
    OBVIOUS
  <2>1. prog.segments[s] \in Insts \X Insts
    BY <1>2, <1>3, ElementOfSeq
  <2> QED BY <2>1, InstsAre
<1>5. /\ \A s \in DOMAIN prog.segments : prog.segments[s][1] <= prog.segments[s][2]
      /\ \A s, v \in DOMAIN prog.segments : s < v => prog.segments[s][2] < prog.segments[v][1]
  BY ProgramsAssumption DEF BuilderTypes
<1>6. seg \in DOMAIN prog.segments /\ Final = prog.segments[seg][2]
  BY DEF BuilderTypes, Final
<1>7. t \in Nat /\ prog.segments[u][1] <= t /\ t <= prog.segments[u][2]
  BY <1>1, <1>4 DEF Span
<1>8. CASE u = seg
  BY <1>6, <1>7, <1>8
<1>9. CASE u < seg
  <2>1. prog.segments[u][2] < prog.segments[seg][1] /\ prog.segments[seg][1] <= prog.segments[seg][2]
    BY <1>5, <1>6, <1>9
  <2> QED BY <1>4, <1>6, <1>7, <2>1
<1>10. CASE u > seg
  <2>1. seg # Len(prog.segments)
    BY <1>3, <1>6, <1>10
  <2>2. ASSUME seg + 1 \in DOMAIN prog.segments PROVE prog.segments[seg + 1][1] <= t
    <3>1. CASE u = seg + 1
      BY <1>7, <3>1
    <3>2. CASE u # seg + 1
      <4>1. seg + 1 < u
        BY <1>3, <1>6, <1>10, <3>2
      <4>2. prog.segments[seg + 1][2] < prog.segments[u][1]
        BY <1>5, <2>2, <4>1
      <4>3. prog.segments[seg + 1][1] <= prog.segments[seg + 1][2]
        BY <1>5, <2>2
      <4> QED BY <1>4, <1>7, <2>2, <4>2, <4>3
    <3> QED BY <3>1, <3>2
  <2>3. seg + 1 \in DOMAIN prog.segments => prog.segments[seg + 1][1] \in Nat
    BY <1>4
  <2> QED BY <1>7, <2>1, <2>2, <2>3
<1> QED BY <1>3, <1>6, <1>8, <1>9, <1>10

LEMMA SegmentDoneStep ==
    ASSUME BuilderInv, SegmentDone
    PROVE  BuilderInv'
<1> DEFINE more == seg < Len(prog.segments)
           sizes == IF top[bb] = None THEN [top EXCEPT ![bb] = Final] ELSE top
<1>1. /\ phase = "link" /\ item > Final
      /\ prog' = prog /\ bb' = bb /\ follow' = follow /\ outs' = outs /\ entries' = entries
      /\ cfgs' = cfgs \cup entries
      /\ top' = sizes
  BY DEF SegmentDone
<1>2. /\ more => seg' = seg + 1 /\ phase' = "find" /\ item' = prog.segments[seg + 1][1] /\ BB' = BB
      /\ ~ more => phase' = "built" /\ BB' = {} /\ seg' = seg /\ item' = item
  BY DEF SegmentDone
<1>3. /\ BuilderTypes /\ First \in Nat /\ Final \in Nat /\ First <= Final /\ Final \in Insts
      /\ item = Final + 1 /\ bb \in First..Final /\ bb \in Insts /\ Insts \subseteq Nat \ {0} /\ None = 0
  <2>1. BuilderTypes /\ First \in Insts /\ Final \in Insts /\ First <= Final
    BY SegmentBounds DEF BuilderInv
  <2>2. item \in First..(Final + 1)
    BY <1>1 DEF BuilderInv, InSegment, Building
  <2>3. First \in Nat /\ Final \in Nat /\ First # 0 /\ Final <= Size /\ Size \in Nat
    BY <2>1, SizeAssumption DEF Insts
  <2>4. item = Final + 1 /\ item # First
    BY <1>1, <2>1, <2>2, <2>3
  <2>5. bb \in First..(item - 1)
    BY <1>1, <2>4 DEF BuilderInv, InSegment
  <2>6. bb \in First..Final
    BY <2>3, <2>4, <2>5
  <2>7. First..Final \subseteq Insts
    BY <2>1, <2>3 DEF Insts
  <2> QED BY <2>1, <2>3, <2>4, <2>6, <2>7, InstsAre DEF None
<1>4. /\ prog.segments \in Seq(Insts \X Insts)
      /\ DOMAIN prog.segments = 1..Len(prog.segments) /\ Len(prog.segments) \in Nat
      /\ seg \in 1..Len(prog.segments)
  <2>1. prog.segments \in Seq(Insts \X Insts)
    BY <1>3, ProgramsAssumption DEF BuilderTypes
  <2> QED BY <1>3, <2>1, LenProperties DEF BuilderTypes
<1>5. seg' \in DOMAIN prog.segments
  BY <1>2, <1>4
<1>6. /\ top' \in [Insts -> Insts \cup {None}]
      /\ \A b \in Insts : top'[b] = IF b = bb /\ top[b] = None THEN Final ELSE top[b]
  BY <1>1, <1>3 DEF BuilderTypes
<1>7. BuilderTypes'
  <2>1. BB' \in SUBSET Insts
    BY <1>2, <1>3 DEF BuilderTypes
  <2>2. phase' \in {"find", "link", "built", "inline", "run"}
    BY <1>2
  <2> QED BY <1>1, <1>3, <1>5, <1>6, <2>1, <2>2 DEF BuilderTypes
<1>8. more => item' = First' /\ First' \in Nat /\ Final' \in Nat /\ First' <= Final' /\ Final < First'
  <2> SUFFICES ASSUME more
               PROVE item' = First' /\ First' \in Nat /\ Final' \in Nat /\ First' <= Final' /\ Final < First'
    OBVIOUS
  <2>1. seg' = seg + 1 /\ seg' \in DOMAIN prog.segments /\ seg \in DOMAIN prog.segments /\ seg < seg + 1
    BY <1>2, <1>4
  <2>2. First' = prog.segments[seg + 1][1] /\ Final' = prog.segments[seg + 1][2]
    BY <1>1, <2>1 DEF First, Final
  <2>3. prog.segments[seg + 1] \in Insts \X Insts
    BY <1>4, <2>1, ElementOfSeq
  <2>4. First' \in Nat /\ Final' \in Nat
    BY <1>3, <2>2, <2>3
  <2>5. First' <= Final' /\ Final < First'
    BY <1>3, <2>1, <2>2, ProgramsAssumption DEF Final, BuilderTypes
  <2> QED BY <1>2, <2>2, <2>4, <2>5
<1>9. InSegment'
  BY <1>2, <1>8 DEF InSegment, Building
<1>10. StartsFound'
  <2>1. ASSUME more PROVE Searched' = First' /\ First'..(Searched' - 1) = {}
    BY <1>2, <1>8, <2>1 DEF Searched
  <2>2. ASSUME more PROVE prog'.functions \subseteq BB'
    BY <1>1, <1>2, <2>2 DEF BuilderInv, StartsFound, Building
  <2> QED BY <1>2, <2>1, <2>2 DEF StartsFound, Building
<1>11. BlocksInv'
  <2> SUFFICES ASSUME InTime(prog) PROVE BlocksWhole' /\ (Building' => BlocksFound')
    BY <1>1, SameProgram DEF BlocksInv
  <2>1. BlocksFound
    BY <1>1 DEF BuilderInv, BlocksInv, Building
  <2>2. Passed = Final + 1
    BY <1>1, <1>3 DEF Passed
  <2>3. \A t : Spanned(t)' <=> Spanned(t)
    BY <1>1, SameProgram
  <2>4. bb \in BB /\ \A c \in BB : c \in Nat /\ (bb < c => Final + 1 <= c)
    BY <1>1, <1>3, <2>1 DEF BlocksFound, BuilderTypes
  <2>5. ASSUME NEW b \in Insts, top'[b] # None
        PROVE  /\ b \in BB
               /\ b <= top'[b] /\ top'[b] <= Final /\ top'[b] \in Nat
               /\ \A c \in BB : b < c => top'[b] < c
    <3>1. CASE b = bb /\ top[b] = None
      BY <1>3, <1>6, <2>4, <3>1
    <3>2. CASE ~(b = bb /\ top[b] = None)
      <4>1. top'[b] = top[b]
        BY <1>6, <3>2
      <4>2. top[b] \in Insts \cup {None}
        BY <1>3 DEF BuilderTypes
      <4>3. top[b] \in Nat
        BY <4>2, NumbersAre
      <4>4. /\ b \in BB
            /\ b <= top[b] /\ top[b] < Final + 1
            /\ \A c \in BB : b < c => top[b] < c
        BY <2>1, <2>2, <2>5, <4>1 DEF BlocksFound
      <4> QED BY <1>3, <4>1, <4>3, <4>4
    <3> QED BY <3>1, <3>2
  <2>6. ASSUME NEW t \in BB, t <= Final, Spanned(t)
        PROVE  top'[t] # None
    <3>0. t \in Insts /\ t < Passed
      BY <1>3, <2>2, <2>4, <2>6 DEF BuilderTypes
    <3>1. top[t] # None \/ t = bb
      BY <2>1, <2>6, <3>0 DEF BlocksFound
    <3> QED BY <1>3, <1>6, <3>0, <3>1
  <2>7. \A b \in Insts : \A e \in ToSet(outs[b]) : e.target \in BB /\ Spanned(e.target)
    BY <2>1 DEF BlocksFound
  <2>8. CASE more
    <3>1. Passed' = First' /\ phase' = "find"
      BY <1>2, <2>8 DEF Passed
    <3>2. BlocksWhole'
      BY <3>1 DEF BlocksWhole
    <3> HIDE DEF Passed, Spanned, more
    <3>3. \A b \in Insts :
            top'[b] # None => /\ b \in BB'
                              /\ b <= top'[b] /\ top'[b] < Passed'
                              /\ \A c \in BB' : b < c => top'[b] < c
      <4>1. ASSUME NEW b \in Insts, top'[b] # None PROVE top'[b] < First'
        BY <1>3, <1>8, <2>5, <2>8, <4>1
      <4> QED BY <1>2, <2>5, <2>8, <3>1, <4>1
    <3>4. \A t \in BB' : t < Passed' /\ Spanned(t)' => top'[t] # None
      <4> SUFFICES ASSUME NEW t \in BB, t < First', Spanned(t) PROVE top'[t] # None
        BY <1>2, <2>3, <2>8, <3>1
      <4>1. First' = prog.segments[seg + 1][1] /\ seg + 1 \in DOMAIN prog.segments
        BY <1>1, <1>2, <1>5, <2>8 DEF First
      <4>2. t <= Final
        BY <1>3, <4>1, SpansOrdered
      <4> QED BY <2>6, <4>2
    <3>5. \A b \in Insts : \A e \in ToSet(outs'[b]) : e.target \in BB' /\ Spanned(e.target)'
      BY <1>1, <1>2, <2>3, <2>7, <2>8
    <3>6. BlocksFound'
      BY <3>1, <3>3, <3>4, <3>5 DEF BlocksFound
    <3> QED BY <3>2, <3>6
  <2>9. CASE ~ more
    <3>1. phase' = "built"
      BY <1>2, <2>9
    <3>2. \A b \in Insts : \A e \in ToSet(outs'[b]) : top'[e.target] # None
      <4> SUFFICES ASSUME NEW b \in Insts, NEW e \in ToSet(outs[b]) PROVE top'[e.target] # None
        BY <1>1
      <4>1. e.target \in BB /\ Spanned(e.target)
        BY <2>7
      <4>2. seg = Len(prog.segments)
        BY <1>4, <2>9
      <4>3. e.target <= Final
        BY <1>3, <4>1, <4>2, SpansOrdered
      <4> QED BY <2>6, <4>1, <4>3
    <3>3. \A b, c \in Insts : top'[b] # None /\ top'[c] # None /\ b < c => top'[b] < c
      BY <2>5
    <3> QED BY <3>1, <3>2, <3>3 DEF BlocksWhole, Building
  <2> QED BY <2>8, <2>9
<1>12. CallsInv'
  <2> SUFFICES ASSUME CallsFollowed(prog), NEW b \in Insts, Has(outs[b], "CALL")
               PROVE  Has(outs[b], "NOT_TAKEN")
    BY <1>1, SameProgram DEF CallsInv
  <2>1. ~(item <= Final)
    BY <1>3
  <2> QED BY <2>1 DEF BuilderInv, CallsInv
<1> QED BY <1>7, <1>9, <1>10, <1>11, <1>12 DEF BuilderInv

-----------------------------------------------------------------------------
(* CFG::scan                                                               *)

\* The blocks reached from B in one step.
Reached(B) ==
    B \cup ({e.target : e \in {e \in UNION {ToSet(outs[b]) : b \in B} : e.kind # "CALL"}} \ cfgs)

LEMMA ScanSteps ==
    ASSUME BuilderTypes, NEW f \in Insts
    PROVE  \E U \in [0..Size -> SUBSET Insts] :
              /\ ScanBlocks(f) = U[Size]
              /\ U[0] = {f} /\ \A k \in 1..Size : U[k] = Reached(U[k - 1])
<1> DEFINE next(B) == {e.target : e \in {e \in UNION {ToSet(outs[b]) : b \in B} : e.kind # "CALL"}}
           eq(g) == g = [k \in 0..Size |->
                            IF k = 0 THEN {f} ELSE g[k - 1] \cup (next(g[k - 1]) \ cfgs)]
           S == SUBSET Insts
<1>0. Size \in Nat
  BY SizeAssumption
<1>1. ScanBlocks(f) = (CHOOSE g : eq(g))[Size]
  BY DEF ScanBlocks
<1>2. ASSUME NEW B \in S PROVE Reached(B) \in S
  <2>1. \A b \in Insts : ToSet(outs[b]) \subseteq BuiltEdges
    BY ElementsIn DEF BuilderTypes
  <2>2. \A b \in Insts : \A e \in ToSet(outs[b]) : e.target \in Insts
    BY <2>1 DEF BuiltEdges
  <2> QED BY <2>2 DEF Reached
<1>3. \E g \in [0..Size -> S] : g[0] = {f} /\ \A k \in 1..Size : g[k] = Reached(g[k - 1])
  <2> DEFINE F == [i \in 1..Size |-> [B \in S |-> Reached(B)]]
  <2>1. F \in [1..Size -> [S -> S]] /\ {f} \in S
    BY <1>2
  <2> HIDE DEF F, S
  <2>2. PICK g : Recursion(g, Size, S, {f}, F)
    BY <1>0, <2>1, RecursionExists
  <2>3. \A i \in 1..Size : g[i - 1] \in S
    BY <1>0, <2>2 DEF Recursion
  <2>4. g \in [0..Size -> S] /\ g[0] = {f} /\ \A i \in 1..Size : g[i] = Reached(g[i - 1])
    BY <2>2, <2>3 DEF Recursion, F
  <2> QED BY <2>4
<1>4. \E g : eq(g)
  <2>1. PICK g \in [0..Size -> S] : g[0] = {f} /\ \A k \in 1..Size : g[k] = Reached(g[k - 1])
    BY <1>3
  <2>2. \A k \in 0..Size : g[k] = IF k = 0 THEN {f} ELSE g[k - 1] \cup (next(g[k - 1]) \ cfgs)
    <3> SUFFICES ASSUME NEW k \in 0..Size
                 PROVE  g[k] = IF k = 0 THEN {f} ELSE g[k - 1] \cup (next(g[k - 1]) \ cfgs)
      OBVIOUS
    <3>1. k # 0 => k \in 1..Size
      BY <1>0
    <3> QED BY <2>1, <3>1 DEF Reached
  <2>3. eq(g)
    BY <2>1, <2>2
  <2> QED BY <2>3
<1>5. PICK U : U = (CHOOSE g : eq(g))
  OBVIOUS
<1>6. eq(U)
  BY <1>4, <1>5
<1>7. U[0] = {f} /\ \A k \in 1..Size : U[k] = Reached(U[k - 1])
  BY <1>0, <1>6 DEF Reached
<1> HIDE DEF eq
<1> DEFINE A == {k \in Nat : k <= Size => U[k] \in S}
<1>8. 0 \in A
  BY <1>7
<1>9. ASSUME NEW k \in Nat, k \in A PROVE k + 1 \in A
  <2> SUFFICES ASSUME k + 1 <= Size PROVE U[k + 1] \in S
    OBVIOUS
  <2>1. U[k] \in S /\ k + 1 \in 1..Size /\ (k + 1) - 1 = k
    BY <1>0, <1>9
  <2> QED BY <1>2, <1>7, <2>1
<1> HIDE DEF A
<1>10. \A k \in 0..Size : U[k] \in S
  <2>1. \A k \in Nat : k \in A
    BY <1>8, <1>9, NatSetInduction
  <2> QED BY <1>0, <2>1 DEF A
<1>11. U \in [0..Size -> S]
  BY <1>6, <1>10 DEF eq
<1> QED BY <1>1, <1>5, <1>7, <1>11

LEMMA ScanBlocksTyped ==
    ASSUME BuilderTypes, NEW f \in Insts
    PROVE  ScanBlocks(f) \subseteq Insts
<1>1. Size \in 0..Size
  BY SizeAssumption
<1> QED BY <1>1, ScanSteps

\* An edge that is not a call leads to a block of the CFG, or to another CFG:
\* a step that adds no block is the last, and there are Size blocks at most.
LEMMA ScanClosed ==
    ASSUME BuilderTypes, NEW f \in Insts, NEW b \in ScanBlocks(f), NEW e \in ToSet(outs[b]),
           e.kind # "CALL"
    PROVE  e.target \in ScanBlocks(f) \cup cfgs
<1>1. PICK U \in [0..Size -> SUBSET Insts] :
         /\ ScanBlocks(f) = U[Size]
         /\ U[0] = {f} /\ \A k \in 1..Size : U[k] = Reached(U[k - 1])
  BY ScanSteps
<1>2. Size \in Nat /\ IsFiniteSet(Insts) /\ Cardinality(Insts) = Size
  <2>1. Size \in Nat /\ IsFiniteSet(1..Size) /\ Cardinality(1..Size) = IF 1 > Size THEN 0 ELSE Size - 1 + 1
    BY SizeAssumption, FS_Interval
  <2> QED BY <2>1 DEF Insts
<1>3. \A k \in 0..Size : IsFiniteSet(U[k]) /\ Cardinality(U[k]) \in Nat /\ Cardinality(U[k]) <= Size
  BY <1>1, <1>2, FS_Subset, FS_CardinalityType
<1> DEFINE A == {k \in Nat : k <= Size => Reached(U[k]) = U[k] \/ Cardinality(U[k]) >= k + 1}
<1>4. 0 \in A
  <2>1. Cardinality({f}) = 1
    BY FS_Singleton
  <2>2. Cardinality(U[0]) = 1
    BY <1>1, <2>1
  <2> QED BY <2>2
<1>5. ASSUME NEW k \in Nat, k \in A PROVE k + 1 \in A
  <2> SUFFICES ASSUME k + 1 <= Size
               PROVE  Reached(U[k + 1]) = U[k + 1] \/ Cardinality(U[k + 1]) >= (k + 1) + 1
    OBVIOUS
  <2>1. k + 1 \in 1..Size /\ k \in 0..Size /\ k + 1 \in 0..Size /\ (k + 1) - 1 = k
    BY <1>2
  <2>2. U[k + 1] = Reached(U[k])
    BY <1>1, <2>1
  <2>3. CASE Reached(U[k]) = U[k]
    BY <2>2, <2>3
  <2>4. CASE Reached(U[k]) # U[k]
    <3>1. Cardinality(U[k]) >= k + 1
      BY <1>5, <2>1, <2>4
    <3>2. U[k] \subseteq U[k + 1] /\ U[k] # U[k + 1]
      BY <2>2, <2>4 DEF Reached
    <3>3. PICK x \in U[k + 1] : x \notin U[k]
      BY <3>2
    <3>4. /\ IsFiniteSet(U[k] \cup {x})
          /\ Cardinality(U[k] \cup {x}) = Cardinality(U[k]) + 1
      BY <1>3, <2>1, <3>3, FS_AddElement
    <3>5. Cardinality(U[k] \cup {x}) <= Cardinality(U[k + 1])
      BY <1>3, <2>1, <3>2, <3>3, FS_Subset
    <3> QED BY <1>3, <2>1, <3>1, <3>4, <3>5
  <2> QED BY <2>3, <2>4
<1> HIDE DEF A
<1>6. Size \in A
  BY <1>2, <1>4, <1>5, NatSetInduction
<1>7. Reached(U[Size]) = U[Size]
  BY <1>2, <1>3, <1>6 DEF A
<1>8. e.target \in Reached(ScanBlocks(f)) \cup cfgs
  BY DEF Reached
<1> QED BY <1>1, <1>7, <1>8

ScannedEdges == [target : Insts \cup {Exit}, kind : {"NOT_TAKEN", "TAKEN", "CALL", "VIRTUAL"}]

\* An edge that called_exit may be taken from.
Leaves(list) == \E e \in ToSet(list) : e.target = Exit \/ e.kind = "NOT_TAKEN"

\* An edge that leaves a CFG is a call and a way to the exit in it.
Away(f, e) == e.kind # "CALL" /\ e.target \notin ScanBlocks(f)
ToExit == Edge(Exit, "VIRTUAL")
Scanned(f, b) ==
    UNION {{e \in ToSet(outs[b]) : ~ Away(f, e)},
           {Edge(e.target, "CALL") : e \in {e \in ToSet(outs[b]) : Away(f, e)}},
           IF b \in returns \/ \E e \in ToSet(outs[b]) : Away(f, e) THEN {ToExit} ELSE {}}

LEMMA ScanEdgesWhole ==
    ASSUME BuilderTypes, NEW f, NEW b \in Insts
    PROVE  ScanEdges(f, b) \in Seq(ScannedEdges) /\ ToSet(ScanEdges(f, b)) = Scanned(f, b)
<1> DEFINE out == outs[b]
           n == Len(out)
           base == IF b \in returns THEN <<ToExit>> ELSE <<>>
           copied(e) == e.kind = "CALL" \/ e.target \in ScanBlocks(f)
           now(e) == IF copied(e) THEN <<e>> ELSE <<ToExit, Edge(e.target, "CALL")>>
           new(e) == IF Away(f, e) THEN {ToExit, Edge(e.target, "CALL")} ELSE {e}
           eq(g) == g = [k \in 0..n |-> IF k = 0 THEN base ELSE now(out[k]) \o g[k - 1]]
           U == CHOOSE g : eq(g)
           S == Seq(ScannedEdges)
<1>1. ScanEdges(f, b) = U[n]
  BY DEF ScanEdges, ToExit
<1>2. out \in Seq(BuiltEdges) /\ n \in Nat /\ DOMAIN out = 1..n /\ \A k \in 1..n : out[k] \in BuiltEdges
  <2>1. out \in Seq(BuiltEdges)
    BY DEF BuilderTypes
  <2> QED BY <2>1, LenProperties, ElementOfSeq
<1> HIDE DEF out, n
<1>3. ToExit \in ScannedEdges
  BY DEF ToExit, Edge, ScannedEdges
<1>4. base \in S /\ ToSet(base) = IF b \in returns THEN {ToExit} ELSE {}
  <2>1. <<ToExit>> \in S /\ ToSet(<<ToExit>>) = {ToExit}
    BY <1>3, SingleElement
  <2>2. <<>> \in S /\ ToSet(<<>>) = {}
    BY DEF ToSet
  <2> QED BY <2>1, <2>2
<1>5. ASSUME NEW k \in 1..n PROVE now(out[k]) \in S /\ ToSet(now(out[k])) = new(out[k])
  <2> DEFINE e == out[k]
             call == Edge(e.target, "CALL")
  <2>1. e \in ScannedEdges /\ call \in ScannedEdges
    BY <1>2 DEF BuiltEdges, ScannedEdges, Edge
  <2> HIDE DEF call
  <2>2. Away(f, e) <=> ~ copied(e)
    BY DEF Away
  <2>3. CASE copied(e)
    BY <2>1, <2>2, <2>3, SingleElement
  <2>4. CASE ~ copied(e)
    <3> DEFINE s == <<ToExit>>
               t == <<call>>
    <3>1. s \in S /\ ToSet(s) = {ToExit} /\ t \in S /\ ToSet(t) = {call}
      BY <1>3, <2>1, SingleElement
    <3>2. <<ToExit, call>> = s \o t
      OBVIOUS
    <3> HIDE DEF s, t
    <3>3. <<ToExit, call>> \in S /\ ToSet(<<ToExit, call>>) = {ToExit, call}
      <4>1. s \o t \in S /\ ToSet(s \o t) = {ToExit, call}
        BY <3>1, ConcatElements
      <4> QED BY <3>2, <4>1
    <3> QED BY <2>2, <2>4, <3>3 DEF call
  <2> QED BY <2>3, <2>4
<1> HIDE DEF now, base
<1>6. \E g : eq(g)
  <2> DEFINE F == [i \in 1..n |-> [q \in S |-> now(out[i]) \o q]]
  <2>1. F \in [1..n -> [S -> S]]
    BY <1>5, ConcatElements
  <2> HIDE DEF F, S
  <2>2. PICK g : Recursion(g, n, S, base, F)
    BY <1>2, <1>4, <2>1, RecursionExists
  <2>3. g \in [0..n -> S] /\ g[0] = base /\ \A i \in 1..n : g[i] = now(out[i]) \o g[i - 1]
    <3>1. \A i \in 1..n : g[i - 1] \in S
      BY <1>2, <2>2 DEF Recursion
    <3> QED BY <2>2, <3>1 DEF Recursion, F
  <2>4. \A k \in 0..n : g[k] = IF k = 0 THEN base ELSE now(out[k]) \o g[k - 1]
    <3> SUFFICES ASSUME NEW k \in 0..n
                 PROVE  g[k] = IF k = 0 THEN base ELSE now(out[k]) \o g[k - 1]
      OBVIOUS
    <3>1. k # 0 => k \in 1..n
      BY <1>2
    <3> QED BY <2>3, <3>1
  <2>5. eq(g)
    BY <2>3, <2>4
  <2> QED BY <2>5
<1>7. eq(U)
  BY <1>6
<1>8. \A k \in 0..n : U[k] = IF k = 0 THEN base ELSE now(out[k]) \o U[k - 1]
  BY <1>7
<1> HIDE DEF U, eq, new
<1> DEFINE Good(k) == U[k] \in S /\ ToSet(U[k]) = ToSet(base) \cup UNION {new(out[i]) : i \in 1..k}
           A == {k \in Nat : k <= n => Good(k)}
<1>9. 0 \in A
  <2>1. U[0] = base
    BY <1>2, <1>8
  <2> QED BY <1>4, <2>1
<1>10. ASSUME NEW k \in Nat, k \in A PROVE k + 1 \in A
  <2> SUFFICES ASSUME k + 1 <= n PROVE Good(k + 1)
    OBVIOUS
  <2>1. Good(k) /\ k + 1 \in 0..n /\ k + 1 \in 1..n /\ k + 1 # 0 /\ (k + 1) - 1 = k
    BY <1>2, <1>10
  <2>2. U[k + 1] = now(out[k + 1]) \o U[k]
    BY <1>8, <2>1
  <2>3. U[k + 1] \in S /\ ToSet(U[k + 1]) = new(out[k + 1]) \cup ToSet(U[k])
    BY <1>5, <2>1, <2>2, ConcatElements
  <2>4. 1..(k + 1) = (1..k) \cup {k + 1}
    OBVIOUS
  <2>5. UNION {new(out[i]) : i \in 1..(k + 1)} = new(out[k + 1]) \cup UNION {new(out[i]) : i \in 1..k}
    BY <2>4
  <2> QED BY <2>1, <2>3, <2>5
<1> HIDE DEF A
<1>11. n \in A
  BY <1>2, <1>9, <1>10, NatSetInduction
<1>12. Good(n)
  BY <1>2, <1>11 DEF A
<1>13. ToSet(out) = {out[i] : i \in 1..n}
  BY <1>2 DEF ToSet
<1>14. UNION {new(out[i]) : i \in 1..n} = UNION {new(e) : e \in ToSet(out)}
  BY <1>13
<1>15. ToSet(base) \cup UNION {new(e) : e \in ToSet(out)} = Scanned(f, b)
  BY <1>4 DEF new, Scanned, out
<1> QED BY <1>1, <1>12, <1>14, <1>15

\* A call in the edges of a CFG is one of the block, or a jump with an edge to
\* the exit; a sequence of the block is kept or becomes such a jump.
LEMMA ScanEdgesAre ==
    ASSUME BuilderTypes, NEW f, NEW b \in Insts
    PROVE  /\ ScanEdges(f, b) \in Seq(ScannedEdges)
           /\ Has(ScanEdges(f, b), "CALL") => Has(outs[b], "CALL") \/ Leaves(ScanEdges(f, b))
           /\ Has(outs[b], "NOT_TAKEN") => Leaves(ScanEdges(f, b))
<1> DEFINE E == ToSet(outs[b])
<1>1. ScanEdges(f, b) \in Seq(ScannedEdges) /\ ToSet(ScanEdges(f, b)) = Scanned(f, b)
  BY ScanEdgesWhole
<1>2. ASSUME NEW e \in E, Away(f, e) PROVE Leaves(ScanEdges(f, b))
  <2>1. ToExit \in Scanned(f, b) /\ ToExit.target = Exit
    BY <1>2 DEF Scanned, ToExit, Edge
  <2> QED BY <1>1, <2>1 DEF Leaves
<1>3. Has(ScanEdges(f, b), "CALL") => Has(outs[b], "CALL") \/ Leaves(ScanEdges(f, b))
  <2> SUFFICES ASSUME NEW x \in Scanned(f, b), x.kind = "CALL", ~ Leaves(ScanEdges(f, b))
               PROVE  x \in E
    BY <1>1 DEF Has
  <2>1. ToExit.kind # "CALL"
    BY DEF ToExit, Edge
  <2> QED BY <1>2, <2>1 DEF Scanned
<1>4. ASSUME NEW e \in E, e.kind = "NOT_TAKEN" PROVE Leaves(ScanEdges(f, b))
  <2>1. CASE Away(f, e)
    BY <1>2, <2>1
  <2>2. CASE ~ Away(f, e)
    <3>1. e \in Scanned(f, b)
      BY <2>2 DEF Scanned
    <3> QED BY <1>1, <1>4, <3>1 DEF Leaves
  <2> QED BY <2>1, <2>2
<1> QED BY <1>1, <1>3, <1>4 DEF Has

-----------------------------------------------------------------------------
(* virtualize(): the block at work.                                        *)

LEMMA FrameIs ==
    ASSUME FramesInv, stack # <<>>
    PROVE  /\ Len(stack) \in Nat \ {0} /\ DOMAIN stack = 1..Len(stack) /\ Len(stack) \in DOMAIN stack
           /\ Frame \in Frames /\ Frame = stack[Len(stack)]
<1>1. stack \in Seq(Frames)
  BY DEF FramesInv
<1>2. Len(stack) \in Nat \ {0} /\ DOMAIN stack = 1..Len(stack)
  BY <1>1, LenProperties, EmptySeq
<1>3. Len(stack) \in 1..Len(stack)
  BY <1>2
<1> QED BY <1>1, <1>2, <1>3, ElementOfSeq DEF Frame, Last

LEMMA HereIs ==
    ASSUME BuilderTypes, FramesInv, AtBlock
    PROVE  /\ stack # <<>> /\ BlockHere \in Insts
           /\ EdgesHere \in Seq(ScannedEdges)
           /\ Has(EdgesHere, "CALL") => Has(outs[BlockHere], "CALL") \/ Leaves(EdgesHere)
           /\ Has(outs[BlockHere], "NOT_TAKEN") => Leaves(EdgesHere)
<1>1. stack # <<>> /\ Frame.todo # {}
  BY DEF AtBlock
<1>2. Frame.todo \in SUBSET Nat /\ Frame.todo \subseteq Insts
  BY <1>1, FrameIs, InstsAre DEF Frames
<1>3. \E x \in Frame.todo : \A y \in Frame.todo : x <= y
  BY <1>1, <1>2, LeastElement
<1>4. BlockHere \in Insts
  BY <1>2, <1>3 DEF BlockHere, Min
<1> QED BY <1>1, <1>4, ScanEdgesAre DEF EdgesHere

\* The functions to inline are the targets of the calls that are not DONT_INLINE.
LEMMA InlinedWhole ==
    ASSUME BuilderTypes, EdgesHere \in Seq(ScannedEdges)
    PROVE  /\ Inlined \in Seq(Insts)
           /\ ToSet(Inlined) =
                 {e.target : e \in {e \in ToSet(EdgesHere) :
                     prog.inlining /\ e.kind = "CALL" /\ e.target \in cfgs \ prog.apart}}
           /\ Inlined = <<>> <=> ToSet(Inlined) = {}
<1> DEFINE here == EdgesHere
           n == Len(here)
           inlined(e) == prog.inlining /\ e.kind = "CALL" /\ e.target \in cfgs \ prog.apart
           now(i, q) == IF inlined(here[i]) THEN Append(q, here[i].target) ELSE q
           eq(g) == g = [k \in 0..n |-> IF k = 0 THEN <<>> ELSE now(k, g[k - 1])]
           U == CHOOSE g : eq(g)
           S == Seq(Insts)
           I(k) == {here[i].target : i \in {i \in 1..k : inlined(here[i])}}
<1>1. Inlined = U[n]
  BY DEF Inlined
<1>2. n \in Nat /\ DOMAIN here = 1..n
  BY LenProperties
<1> HIDE DEF here, n
<1>3. <<>> \in S
  BY EmptySeq
<1>4. ASSUME NEW i \in 1..n, NEW q \in S
      PROVE  /\ now(i, q) \in S
             /\ ToSet(now(i, q)) = ToSet(q) \cup (IF inlined(here[i]) THEN {here[i].target} ELSE {})
  <2>1. CASE inlined(here[i])
    <3>1. here[i].target \in Insts
      BY <2>1 DEF BuilderTypes
    <3> DEFINE t == <<here[i].target>>
    <3>2. now(i, q) = q \o t
      BY <2>1, <3>1, AppendIsConcat
    <3>3. t \in S /\ ToSet(t) = {here[i].target}
      BY <3>1, SingleElement
    <3> HIDE DEF now, t
    <3>4. now(i, q) \in S /\ ToSet(now(i, q)) = ToSet(q) \cup {here[i].target}
      BY <3>2, <3>3, ConcatElements
    <3> QED BY <2>1, <3>4
  <2>2. CASE ~ inlined(here[i])
    BY <2>2
  <2> QED BY <2>1, <2>2
<1> HIDE DEF now
<1>5. \E g : eq(g)
  <2> DEFINE F == [i \in 1..n |-> [q \in S |-> now(i, q)]]
  <2>1. F \in [1..n -> [S -> S]]
    BY <1>4
  <2> HIDE DEF F, S
  <2>2. PICK g : Recursion(g, n, S, <<>>, F)
    BY <1>2, <1>3, <2>1, RecursionExists
  <2>3. g \in [0..n -> S] /\ g[0] = <<>> /\ \A i \in 1..n : g[i] = now(i, g[i - 1])
    <3>1. \A i \in 1..n : g[i - 1] \in S
      BY <1>2, <2>2 DEF Recursion
    <3> QED BY <2>2, <3>1 DEF Recursion, F
  <2>4. \A k \in 0..n : g[k] = IF k = 0 THEN <<>> ELSE now(k, g[k - 1])
    <3> SUFFICES ASSUME NEW k \in 0..n PROVE g[k] = IF k = 0 THEN <<>> ELSE now(k, g[k - 1])
      OBVIOUS
    <3>1. k # 0 => k \in 1..n
      BY <1>2
    <3> QED BY <2>3, <3>1
  <2>5. eq(g)
    BY <2>3, <2>4
  <2> QED BY <2>5
<1>6. eq(U)
  BY <1>5
<1>7. \A k \in 0..n : U[k] = IF k = 0 THEN <<>> ELSE now(k, U[k - 1])
  BY <1>6
<1> HIDE DEF U, eq, inlined
<1> DEFINE Good(k) == U[k] \in S /\ ToSet(U[k]) = I(k)
           A == {k \in Nat : k <= n => Good(k)}
<1>8. 0 \in A
  <2>1. U[0] = <<>> /\ ToSet(<<>>) = {}
    BY <1>2, <1>7 DEF ToSet
  <2>2. I(0) = {}
    OBVIOUS
  <2> QED BY <1>3, <2>1, <2>2
<1>9. ASSUME NEW k \in Nat, k \in A PROVE k + 1 \in A
  <2> SUFFICES ASSUME k + 1 <= n PROVE Good(k + 1)
    OBVIOUS
  <2>1. Good(k) /\ k + 1 \in 0..n /\ k + 1 \in 1..n /\ k + 1 # 0 /\ (k + 1) - 1 = k
    BY <1>2, <1>9
  <2>2. U[k + 1] = now(k + 1, U[k])
    BY <1>7, <2>1
  <2>3. /\ U[k + 1] \in S
        /\ ToSet(U[k + 1]) = ToSet(U[k]) \cup
                             (IF inlined(here[k + 1]) THEN {here[k + 1].target} ELSE {})
    BY <1>4, <2>1, <2>2
  <2>4. 1..(k + 1) = (1..k) \cup {k + 1}
    OBVIOUS
  <2> QED BY <2>1, <2>3, <2>4
<1> HIDE DEF A
<1>10. n \in A
  BY <1>2, <1>8, <1>9, NatSetInduction
<1>11. Good(n)
  BY <1>2, <1>10 DEF A
<1>12. I(n) = {e.target : e \in {e \in ToSet(EdgesHere) : inlined(e)}}
  <2>1. ToSet(EdgesHere) = {here[i] : i \in 1..n}
    BY <1>2 DEF ToSet, here
  <2> QED BY <2>1
<1>13. Inlined = <<>> <=> ToSet(Inlined) = {}
  <2>1. Inlined \in Seq(Insts)
    BY <1>1, <1>11
  <2>2. Len(Inlined) \in Nat /\ DOMAIN Inlined = 1..Len(Inlined)
    BY <2>1, LenProperties
  <2>3. Inlined # <<>> => 1 \in DOMAIN Inlined
    BY <2>1, <2>2, EmptySeq
  <2> QED BY <2>3 DEF ToSet
<1> QED BY <1>1, <1>11, <1>12, <1>13 DEF inlined

LEMMA InlinedIs ==
    ASSUME BuilderTypes, EdgesHere \in Seq(ScannedEdges)
    PROVE  /\ Inlined \in Seq(Insts)
           /\ ToSet(Inlined) \cap prog.apart = {}
           /\ Inlined # <<>> => Has(EdgesHere, "CALL")
<1>1. /\ Inlined \in Seq(Insts)
      /\ ToSet(Inlined) =
            {e.target : e \in {e \in ToSet(EdgesHere) :
                prog.inlining /\ e.kind = "CALL" /\ e.target \in cfgs \ prog.apart}}
      /\ Inlined = <<>> <=> ToSet(Inlined) = {}
  BY InlinedWhole
<1> QED BY <1>1 DEF Has

\* called_exit is a block, if the block at work has an edge it can be taken from.
LEMMA AfterIs ==
    ASSUME EdgesHere \in Seq(ScannedEdges), Frame \in Frames
    PROVE  After \in VirtualBlocks /\ (Leaves(EdgesHere) => After # NoBlock)
<1> DEFINE here == EdgesHere
           set == {k \in DOMAIN here : here[k].target = Exit \/ here[k].kind = "NOT_TAKEN"}
           last == here[Max(set)]
<1>1. After = IF set = {} THEN NoBlock
              ELSE IF last.target = Exit THEN Frame.exit ELSE VBlock(Frame, last.target)
  BY DEF After
<1>2. Len(here) \in Nat /\ DOMAIN here = 1..Len(here)
  BY LenProperties
<1>3. set # {} => last \in ScannedEdges
  <2> SUFFICES ASSUME set # {} PROVE last \in ScannedEdges
    OBVIOUS
  <2>1. set \in SUBSET (0..Len(here))
    BY <1>2
  <2>2. \E x \in set : \A y \in set : x >= y
    BY <1>2, <2>1, GreatestElement
  <2>3. Max(set) \in set
    BY <2>2 DEF Max
  <2>4. Max(set) \in 1..Len(here)
    BY <1>2, <2>3
  <2> QED BY <2>4, ElementOfSeq
<1>4. Leaves(EdgesHere) <=> set # {}
  BY DEF Leaves, ToSet
<1> HIDE DEF last, set
<1>5. NoBlock \in VirtualBlocks
  <2>1. <<>> \in Contexts
    BY DEF Contexts
  <2> QED BY <2>1 DEF NoBlock, VirtualBlocks
<1>6. Frame.exit \in VirtualBlocks \ {NoBlock}
  BY DEF Frames
<1>7. ASSUME set # {}, last.target # Exit
      PROVE  VBlock(Frame, last.target) \in VirtualBlocks /\ VBlock(Frame, last.target) # NoBlock
  <2>1. last.target \in Insts
    BY <1>3, <1>7 DEF ScannedEdges
  <2>2. Frame.root \in Insts /\ Frame.ctx \in Contexts /\ None \notin Insts
    BY InstsAre DEF Frames
  <2> QED BY <2>1, <2>2 DEF VBlock, VirtualBlocks, NoBlock
<1> QED BY <1>1, <1>4, <1>5, <1>6, <1>7

-----------------------------------------------------------------------------
(* The steps of virtualize().                                              *)

\* Once the graph is built, the builder does not change it.
LEMMA BuilderKept ==
    ASSUME BuilderInv,
           prog' = prog, seg' = seg, item' = item, BB' = BB, bb' = bb, follow' = follow,
           top' = top, outs' = outs, entries' = entries, cfgs' = cfgs,
           phase' = phase \/ (phase \in {"built", "inline"} /\ phase' \in {"inline", "run"})
    PROVE  BuilderInv'
<1>1. /\ InTime(prog)' <=> InTime(prog)
      /\ CallsFollowed(prog)' <=> CallsFollowed(prog)
      /\ \A t : Spanned(t)' <=> Spanned(t)
      /\ \A i : Found(i)' = Found(i) /\ (isControl(i)' <=> isControl(i))
      /\ First' = First /\ Final' = Final
  BY SameProgram
<1>2. BuilderTypes'
  BY DEF BuilderInv, BuilderTypes
<1>3. InSegment'
  BY <1>1 DEF BuilderInv, InSegment, Building
<1>4. StartsFound'
  <2>1. Building' => Searched' = Searched
    BY <1>1 DEF Building, Searched
  <2> QED BY <1>1, <2>1 DEF BuilderInv, StartsFound, Building
<1>5. BlocksInv'
  <2>1. CASE phase' = phase
    <3>1. Passed' = Passed
      BY <1>1, <2>1 DEF Passed
    <3>2. BlocksWhole' <=> BlocksWhole
      BY <2>1 DEF BlocksWhole
    <3>3. BlocksFound' <=> BlocksFound
      BY <1>1, <2>1, <3>1 DEF BlocksFound
    <3> QED BY <1>1, <2>1, <3>2, <3>3 DEF BuilderInv, BlocksInv, Building
  <2>2. CASE phase \in {"built", "inline"} /\ phase' \in {"inline", "run"}
    <3>1. InTime(prog) => BlocksWhole
      BY DEF BuilderInv, BlocksInv
    <3>2. InTime(prog) => BlocksWhole'
      BY <2>2, <3>1 DEF BlocksWhole
    <3> QED BY <1>1, <2>2, <3>2 DEF BlocksInv, Building
  <2> QED BY <2>1, <2>2
<1>6. CallsInv'
  <2>1. CASE phase' = phase
    BY <1>1, <2>1 DEF BuilderInv, CallsInv
  <2>2. CASE phase \in {"built", "inline"} /\ phase' \in {"inline", "run"}
    BY <1>1, <2>2 DEF BuilderInv, CallsInv
  <2> QED BY <2>1, <2>2
<1> QED BY <1>2, <1>3, <1>4, <1>5, <1>6 DEF BuilderInv

LEMMA ProperBlocks ==
    ASSUME NEW f \in Insts
    PROVE  <<>> \in Contexts /\ <<f, <<>>, Exit>> \in VirtualBlocks \ {NoBlock} /\ NoBlock \in VirtualBlocks
<1>1. <<>> \in Contexts
  BY DEF Contexts
<1>2. <<f, <<>>, Exit>> # NoBlock
  BY InstsAre DEF NoBlock
<1> QED BY <1>1, <1>2 DEF VirtualBlocks, NoBlock

\* The frames after a call of virtualize().
LEMMA PushIs ==
    ASSUME BuilderTypes, NEW frames \in Seq(Frames), NEW f \in Insts, NEW root \in Insts,
           NEW ctx \in Contexts, NEW entry, NEW exit \in VirtualBlocks \ {NoBlock},
           Push(frames, f, root, ctx, entry, exit)
    PROVE  /\ stack' \in Seq(Frames) /\ Len(frames) \in Nat
           /\ Len(stack') = Len(frames) + 1 /\ DOMAIN stack' = 1..(Len(frames) + 1)
           /\ \A k \in 1..Len(frames) : stack'[k] = frames[k]
           /\ stack'[Len(frames) + 1].cfg = f /\ stack'[Len(frames) + 1].called = <<>>
           /\ stack'[Len(frames) + 1].root = root /\ stack'[Len(frames) + 1].ctx = ctx
           /\ stack'[Len(frames) + 1].src = NoBlock
<1> DEFINE new == [cfg |-> f, root |-> root, ctx |-> ctx, exit |-> exit,
                   todo |-> ScanBlocks(f), src |-> NoBlock, called |-> <<>>, after |-> NoBlock]
<1>1. stack' = Append(frames, new)
  BY DEF Push
<1>2. new \in Frames
  <2>1. ScanBlocks(f) \in SUBSET Insts
    BY ScanBlocksTyped
  <2>2. NoBlock \in VirtualBlocks
    BY ProperBlocks
  <2>3. <<>> \in Seq(Insts)
    BY EmptySeq
  <2> QED BY <2>1, <2>2, <2>3 DEF Frames
<1>3. new.cfg = f /\ new.called = <<>> /\ new.root = root /\ new.ctx = ctx /\ new.src = NoBlock
  OBVIOUS
<1> HIDE DEF new
<1>4. /\ stack' \in Seq(Frames) /\ Len(stack') = Len(frames) + 1 /\ Len(frames) \in Nat
      /\ \A k \in 1..Len(frames) : stack'[k] = frames[k]
      /\ stack'[Len(frames) + 1] = new
  BY <1>1, <1>2, AppendProperties, LenProperties
<1>5. DOMAIN stack' = 1..(Len(frames) + 1)
  BY <1>4, LenProperties
<1> QED BY <1>3, <1>4, <1>5

\* A function that is not in progress enters the stack.
LEMMA PushKeeps ==
    ASSUME VirtualizerInv, phase' = "inline", prog' = prog,
           NEW frames \in Seq(Frames), Len(frames) = Len(stack),
           \A k \in 1..Len(stack) :
               /\ frames[k].cfg = stack[k].cfg /\ ToSet(frames[k].called) \subseteq ToSet(stack[k].called)
               /\ frames[k].called # <<>> =>
                     stack[k].called # <<>> /\ frames[k].after = stack[k].after,
           NEW f \in Insts, \A k \in 1..Len(stack) : stack[k].cfg # f,
           cfgMap' \in SUBSET Insts, cfgMap \subseteq cfgMap', f \in prog.apart => f \in cfgMap',
           NEW root \in Insts, NEW ctx \in Contexts, NEW entry,
           NEW exit \in VirtualBlocks \ {NoBlock},
           Push(frames, f, root, ctx, entry, exit), fault' = fault
    PROVE  FramesInv' /\ InliningBounded' /\ ReturnsInv'
<1> DEFINE n == Len(stack)
<1>1. /\ BuilderTypes /\ FramesInv /\ InliningBounded /\ ReturnsInv /\ stack \in Seq(Frames)
      /\ n \in Nat /\ DOMAIN stack = 1..n
  BY LenProperties DEF VirtualizerInv, BuilderInv, FramesInv
<1>2. /\ stack' \in Seq(Frames) /\ Len(stack') = n + 1 /\ DOMAIN stack' = 1..(n + 1)
      /\ \A k \in 1..n : stack'[k] = frames[k]
      /\ stack'[n + 1].cfg = f /\ stack'[n + 1].called = <<>>
  BY <1>1, PushIs
<1> HIDE DEF n
<1>3. \A k \in 1..(n + 1) : k \in 1..n \/ k = n + 1
  BY <1>1
<1>4. \A k \in 1..n : frames[k].cfg = stack[k].cfg /\ k \in DOMAIN stack /\ stack[k].cfg # f
  BY <1>1 DEF n
<1>5. InliningBounded'
  <2> SUFFICES ASSUME NEW j \in 1..(n + 1), NEW k \in 1..(n + 1), stack'[j].cfg = stack'[k].cfg
               PROVE  j = k
    BY <1>2 DEF InliningBounded
  <2> QED BY <1>1, <1>2, <1>3, <1>4 DEF InliningBounded
<1>6. FramesInv'
  <2>1. ASSUME NEW k \in 1..(n + 1)
        PROVE  /\ stack'[k].cfg \in prog.apart => stack'[k].cfg \in cfgMap'
               /\ ToSet(stack'[k].called) \cap prog.apart = {}
    <3>1. CASE k = n + 1
      <4>1. ToSet(<<>>) = {}
        BY DEF ToSet
      <4> QED BY <1>2, <3>1, <4>1
    <3>2. CASE k \in 1..n
      <4>1. /\ stack[k].cfg \in prog.apart => stack[k].cfg \in cfgMap
            /\ ToSet(stack[k].called) \cap prog.apart = {}
        BY <1>1, <1>4, <3>2 DEF FramesInv
      <4>2. /\ stack'[k].cfg = stack[k].cfg
            /\ ToSet(stack'[k].called) \subseteq ToSet(stack[k].called)
        BY <1>2, <3>2 DEF n
      <4> QED BY <4>1, <4>2
    <3> QED BY <1>3, <3>1, <3>2
  <2> QED BY <1>2, <2>1 DEF FramesInv
<1>7. ReturnsInv'
  <2> SUFFICES ASSUME prog.inlining, CallsFollowed(prog)
               PROVE  /\ fault' = "none"
                      /\ \A k \in 1..(n + 1) : stack'[k].called # <<>> => stack'[k].after # NoBlock
    BY <1>2, SameProgram DEF ReturnsInv, NoAssertFails
  <2>1. fault = "none" /\ \A k \in 1..n : stack[k].called # <<>> => stack[k].after # NoBlock
    BY <1>1 DEF ReturnsInv, NoAssertFails
  <2>2. \A k \in 1..n : stack'[k].called # <<>> => stack'[k].after # NoBlock
    BY <1>2, <2>1 DEF n
  <2> QED BY <1>2, <1>3, <2>1, <2>2
<1> QED BY <1>5, <1>6, <1>7

LEMMA VirtualizeStep ==
    ASSUME VirtualizerInv, Virtualize
    PROVE  VirtualizerInv'
<1>1. /\ phase = "built" /\ phase' = "inline" /\ prog' = prog /\ seg' = seg /\ item' = item
      /\ BB' = BB /\ bb' = bb /\ follow' = follow /\ top' = top /\ outs' = outs
      /\ entries' = entries /\ cfgs' = cfgs /\ fault' = fault
      /\ cfgMap' = cfgMap \cup {prog.start}
      /\ Push(stack, prog.start, prog.start, <<>>, <<prog.start, <<>>, None>>, <<prog.start, <<>>, Exit>>)
  BY DEF Virtualize, PushCFG
<1>2. BuilderInv'
  BY <1>1, BuilderKept DEF VirtualizerInv
<1>3. stack = <<>> /\ stack \in Seq(Frames) /\ cfgMap \in SUBSET Insts /\ prog.start \in Insts
  BY <1>1, ProgramsAssumption DEF VirtualizerInv, FramesInv, BuilderInv, BuilderTypes
<1>4. Len(stack) = 0
  BY <1>3, EmptySeq
<1>5. <<>> \in Contexts /\ <<prog.start, <<>>, Exit>> \in VirtualBlocks \ {NoBlock}
  BY <1>3, ProperBlocks
<1>6. /\ cfgMap' \in SUBSET Insts /\ cfgMap \subseteq cfgMap' /\ prog.start \in cfgMap'
      /\ 1..Len(stack) = {}
  BY <1>1, <1>3, <1>4
<1>7. FramesInv' /\ InliningBounded' /\ ReturnsInv'
  BY <1>1, <1>3, <1>5, <1>6, PushKeeps
<1> QED BY <1>2, <1>7 DEF VirtualizerInv

LEMMA VirtualizeApartStep ==
    ASSUME VirtualizerInv, VirtualizeApart
    PROVE  VirtualizerInv'
<1>1. /\ phase = "inline" /\ phase' = phase /\ prog' = prog /\ seg' = seg /\ item' = item
      /\ BB' = BB /\ bb' = bb /\ follow' = follow /\ top' = top /\ outs' = outs
      /\ entries' = entries /\ cfgs' = cfgs /\ fault' = fault
  BY DEF VirtualizeApart, AtBlock, builder
<1>2. PICK f \in Apart \ cfgMap : PushCFG(f)
  BY DEF VirtualizeApart
<1>3. /\ cfgMap' = cfgMap \cup {f}
      /\ Push(stack, f, f, <<>>, <<f, <<>>, None>>, <<f, <<>>, Exit>>)
  BY <1>2 DEF PushCFG
<1>4. BuilderInv'
  BY <1>1, BuilderKept DEF VirtualizerInv
<1>5. /\ f \in Insts /\ f \in prog.apart /\ f \notin cfgMap
      /\ stack \in Seq(Frames) /\ cfgMap \in SUBSET Insts
  BY <1>2 DEF VirtualizerInv, FramesInv, BuilderInv, BuilderTypes, Apart
<1>6. \A k \in 1..Len(stack) : stack[k].cfg # f
  BY <1>5, LenProperties DEF VirtualizerInv, FramesInv
<1>7. <<>> \in Contexts /\ <<f, <<>>, Exit>> \in VirtualBlocks \ {NoBlock}
  BY <1>5, ProperBlocks
<1>8. FramesInv' /\ InliningBounded' /\ ReturnsInv'
  BY <1>1, <1>3, <1>5, <1>6, <1>7, PushKeeps
<1> QED BY <1>4, <1>8 DEF VirtualizerInv

\* A step that changes the last of the frames, and not its function.
LEMMA FrameKeeps ==
    ASSUME VirtualizerInv, stack # <<>>, phase = "inline", prog' = prog, cfgMap' = cfgMap,
           NEW new \in Frames, new.cfg = Frame.cfg, ToSet(new.called) \cap prog.apart = {},
           stack' = [stack EXCEPT ![Len(stack)] = new], phase' = phase
    PROVE  FramesInv' /\ InliningBounded'
<1> DEFINE n == Len(stack)
<1>1. /\ FramesInv /\ InliningBounded /\ stack \in Seq(Frames)
      /\ n \in Nat \ {0} /\ DOMAIN stack = 1..n /\ n \in 1..n /\ Frame = stack[n]
  BY FrameIs DEF VirtualizerInv, FramesInv
<1>2. /\ stack' \in Seq(Frames) /\ DOMAIN stack' = 1..n
      /\ \A k \in 1..n : stack'[k] = IF k = n THEN new ELSE stack[k]
  BY <1>1, ExceptSeq, LenProperties
<1> HIDE DEF n
<1>3. \A k \in 1..n : stack'[k].cfg = stack[k].cfg
  BY <1>1, <1>2
<1>4. InliningBounded'
  BY <1>1, <1>2, <1>3 DEF InliningBounded
<1>5. ASSUME NEW k \in 1..n
      PROVE  /\ stack'[k].cfg \in prog.apart => stack'[k].cfg \in cfgMap
             /\ ToSet(stack'[k].called) \cap prog.apart = {}
  BY <1>1, <1>2, <1>3 DEF FramesInv
<1>6. FramesInv'
  BY <1>1, <1>2, <1>5 DEF FramesInv
<1> QED BY <1>4, <1>6

LEMMA TranslateBlockStep ==
    ASSUME VirtualizerInv, TranslateBlock
    PROVE  VirtualizerInv'
<1> DEFINE src == VBlock(Frame, BlockHere)
           new == [Frame EXCEPT !.src = src, !.called = Inlined, !.after = After,
                                !.todo = Frame.todo \ {BlockHere}]
           n == Len(stack)
<1>1. /\ phase = "inline" /\ phase' = phase /\ prog' = prog /\ seg' = seg /\ item' = item
      /\ BB' = BB /\ bb' = bb /\ follow' = follow /\ top' = top /\ outs' = outs
      /\ entries' = entries /\ cfgs' = cfgs /\ cfgMap' = cfgMap
      /\ AtBlock /\ stack # <<>> /\ fault = "none"
      /\ prog.inlining => Apart \subseteq cfgMap
      /\ fault' = IF \E e \in ToSet(EdgesHere) : CalledApart(e) /\ e.target \notin cfgMap
                  THEN "vcalled" ELSE fault
  BY DEF TranslateBlock, AtBlock, builder
<1>2. BuilderInv'
  BY <1>1, BuilderKept DEF VirtualizerInv
<1>3. /\ BuilderTypes /\ FramesInv /\ CallsInv
      /\ n \in Nat \ {0} /\ DOMAIN stack = 1..n /\ n \in DOMAIN stack
      /\ Frame \in Frames /\ Frame = stack[n]
  BY <1>1, FrameIs DEF VirtualizerInv, BuilderInv
<1>4. /\ BlockHere \in Insts
      /\ EdgesHere \in Seq(ScannedEdges)
      /\ Has(EdgesHere, "CALL") => Has(outs[BlockHere], "CALL") \/ Leaves(EdgesHere)
      /\ Has(outs[BlockHere], "NOT_TAKEN") => Leaves(EdgesHere)
  BY <1>1, <1>3, HereIs
<1>5. /\ Inlined \in Seq(Insts) /\ ToSet(Inlined) \cap prog.apart = {}
      /\ Inlined # <<>> => Has(EdgesHere, "CALL")
  BY <1>3, <1>4, InlinedIs
<1>6. After \in VirtualBlocks /\ (Leaves(EdgesHere) => After # NoBlock)
  BY <1>3, <1>4, AfterIs
<1>7. stack' = [stack EXCEPT ![Len(stack)] = new]
  BY DEF TranslateBlock
<1>8. src \in VirtualBlocks
  BY <1>3, <1>4 DEF Frames, VBlock, VirtualBlocks
<1> HIDE DEF src
<1>9. new \in Frames /\ new.cfg = Frame.cfg /\ new.called = Inlined /\ new.after = After
  BY <1>3, <1>5, <1>6, <1>8 DEF Frames
<1> HIDE DEF new
<1>10. FramesInv' /\ InliningBounded'
  BY <1>1, <1>5, <1>7, <1>9, FrameKeeps
<1>11. ReturnsInv'
  <2> SUFFICES ASSUME prog.inlining, CallsFollowed(prog)
               PROVE  /\ fault' = "none"
                      /\ \A k \in DOMAIN stack' : stack'[k].called # <<>> => stack'[k].after # NoBlock
    BY <1>1, SameProgram DEF ReturnsInv, NoAssertFails
  <2>1. fault' = "none"
    <3>1. ASSUME NEW e \in ToSet(EdgesHere), CalledApart(e) PROVE e.target \in cfgMap
      BY <1>1, <3>1 DEF CalledApart, Apart
    <3> QED BY <1>1, <3>1
  <2>2. Inlined # <<>> => After # NoBlock
    <3>1. Has(outs[BlockHere], "CALL") => Has(outs[BlockHere], "NOT_TAKEN")
      BY <1>1, <1>3, <1>4 DEF CallsInv
    <3> QED BY <1>4, <1>5, <1>6, <3>1
  <2>3. \A k \in DOMAIN stack : stack[k].called # <<>> => stack[k].after # NoBlock
    BY DEF VirtualizerInv, ReturnsInv
  <2>4. DOMAIN stack' = DOMAIN stack /\ \A k \in DOMAIN stack : stack'[k] = IF k = n THEN new ELSE stack[k]
    BY <1>7
  <2> QED BY <1>9, <2>1, <2>2, <2>3, <2>4
<1> QED BY <1>2, <1>10, <1>11 DEF VirtualizerInv

LEMMA InlineCallStep ==
    ASSUME VirtualizerInv, InlineCall
    PROVE  VirtualizerInv'
<1> DEFINE n == Len(stack)
           f == Head(Frame.called)
           rest == [Frame EXCEPT !.called = Tail(Frame.called)]
           frames == [stack EXCEPT ![n] = rest]
<1>1. /\ phase = "inline" /\ phase' = phase /\ prog' = prog /\ seg' = seg /\ item' = item
      /\ BB' = BB /\ bb' = bb /\ follow' = follow /\ top' = top /\ outs' = outs
      /\ entries' = entries /\ cfgs' = cfgs /\ cfgMap' = cfgMap
      /\ stack # <<>> /\ fault = "none" /\ Frame.called # <<>>
  BY DEF InlineCall, builder
<1>2. BuilderInv'
  BY <1>1, BuilderKept DEF VirtualizerInv
<1>3. /\ BuilderTypes /\ FramesInv
      /\ n \in Nat \ {0} /\ DOMAIN stack = 1..n /\ n \in DOMAIN stack
      /\ Frame \in Frames /\ Frame = stack[n] /\ stack \in Seq(Frames)
  BY <1>1, FrameIs DEF VirtualizerInv, BuilderInv, FramesInv
<1>4. Frame.called \in Seq(Insts) /\ Frame.called # <<>>
  BY <1>1, <1>3 DEF Frames
<1>5. /\ Tail(Frame.called) \in Seq(Insts) /\ f \in Insts /\ f \in ToSet(Frame.called)
      /\ ToSet(Tail(Frame.called)) \subseteq ToSet(Frame.called)
  BY <1>4, RestElements
<1>6. rest \in Frames /\ rest.cfg = Frame.cfg /\ rest.called = Tail(Frame.called) /\ rest.after = Frame.after
  BY <1>3, <1>5 DEF Frames
<1>7. ToSet(Frame.called) \cap prog.apart = {}
  BY <1>3 DEF FramesInv
<1>8. frames = [stack EXCEPT ![Len(stack)].called = Tail(@)]
  BY <1>3
<1> HIDE DEF rest
<1>9. /\ frames \in Seq(Frames) /\ Len(frames) = n /\ DOMAIN frames = 1..n
      /\ \A k \in 1..n : frames[k] = IF k = n THEN rest ELSE stack[k]
  BY <1>3, <1>6, ExceptSeq, LenProperties
<1>10. ReturnsInv
  BY DEF VirtualizerInv
<1> HIDE DEF frames, f
<1>11. CASE InProgress(f) # {}
  <2>1. stack' = frames /\ fault' = fault
    BY <1>8, <1>11 DEF InlineCall, f
  <2>2. FramesInv' /\ InliningBounded'
    BY <1>1, <1>5, <1>6, <1>7, <2>1, FrameKeeps DEF frames
  <2>3. ReturnsInv'
    <3> SUFFICES ASSUME prog.inlining, CallsFollowed(prog)
                 PROVE  /\ fault' = "none"
                        /\ \A k \in 1..n : frames[k].called # <<>> => frames[k].after # NoBlock
      BY <1>1, <1>9, <2>1, SameProgram DEF ReturnsInv, NoAssertFails
    <3>1. fault = "none" /\ \A k \in 1..n : stack[k].called # <<>> => stack[k].after # NoBlock
      BY <1>3, <1>10 DEF ReturnsInv, NoAssertFails
    <3> QED BY <1>1, <1>3, <1>6, <1>9, <2>1, <3>1
  <2> QED BY <1>2, <2>2, <2>3 DEF VirtualizerInv
<1>12. CASE InProgress(f) = {} /\ Frame.after # NoBlock
  <2> DEFINE ctx == Append(Frame.ctx, <<Frame.src[3], f>>)
  <2>1. Push(frames, f, Frame.root, ctx, Frame.src, Frame.after) /\ fault' = fault
    BY <1>8, <1>12 DEF InlineCall, f
  <2>2. ctx \in Contexts
    <3>1. Frame.src[3] \in Insts \cup {None, Exit}
      BY <1>3 DEF Frames, VirtualBlocks
    <3>2. Frame.ctx \in Contexts /\ <<Frame.src[3], f>> \in (Insts \cup {None, Exit}) \X Insts
      BY <1>3, <1>5, <3>1 DEF Frames
    <3> QED BY <3>2, AppendProperties DEF Contexts
  <2>3. Frame.root \in Insts /\ Frame.after \in VirtualBlocks \ {NoBlock}
    BY <1>3, <1>12 DEF Frames
  <2>4. \A k \in 1..n : stack[k].cfg # f
    BY <1>3, <1>12 DEF InProgress
  <2>5. \A k \in 1..n :
           /\ frames[k].cfg = stack[k].cfg /\ ToSet(frames[k].called) \subseteq ToSet(stack[k].called)
           /\ frames[k].called # <<>> =>
                 stack[k].called # <<>> /\ frames[k].after = stack[k].after
    BY <1>3, <1>4, <1>5, <1>6, <1>9
  <2>6. f \notin prog.apart /\ cfgMap' \in SUBSET Insts /\ cfgMap \subseteq cfgMap'
    BY <1>1, <1>3, <1>5, <1>7 DEF FramesInv
  <2> HIDE DEF ctx
  <2>7. FramesInv' /\ InliningBounded' /\ ReturnsInv'
    BY <1>1, <1>5, <1>9, <2>1, <2>2, <2>3, <2>4, <2>5, <2>6, PushKeeps
  <2> QED BY <1>2, <2>7 DEF VirtualizerInv
<1>13. CASE InProgress(f) = {} /\ Frame.after = NoBlock
  <2>1. stack' = stack
    BY <1>13 DEF InlineCall, f
  <2>2. FramesInv' /\ InliningBounded'
    BY <1>1, <2>1 DEF VirtualizerInv, FramesInv, InliningBounded
  <2>3. ReturnsInv'
    <3>1. ~(prog.inlining /\ CallsFollowed(prog))
      BY <1>1, <1>3, <1>10, <1>13 DEF ReturnsInv
    <3> QED BY <1>1, <3>1, SameProgram DEF ReturnsInv
  <2> QED BY <1>2, <2>2, <2>3 DEF VirtualizerInv
<1> QED BY <1>11, <1>12, <1>13

LEMMA EndInlineStep ==
    ASSUME VirtualizerInv, EndInline
    PROVE  VirtualizerInv'
<1> DEFINE n == Len(stack)
<1>1. /\ phase = "inline" /\ phase' = phase /\ prog' = prog /\ seg' = seg /\ item' = item
      /\ BB' = BB /\ bb' = bb /\ follow' = follow /\ top' = top /\ outs' = outs
      /\ entries' = entries /\ cfgs' = cfgs /\ cfgMap' = cfgMap /\ fault' = fault
      /\ stack # <<>> /\ stack' = Front(stack)
  BY DEF EndInline, builder
<1>2. BuilderInv'
  BY <1>1, BuilderKept DEF VirtualizerInv
<1>3. /\ FramesInv /\ n \in Nat \ {0} /\ DOMAIN stack = 1..n /\ stack \in Seq(Frames)
  BY <1>1, FrameIs DEF VirtualizerInv, FramesInv
<1>4. /\ stack' \in Seq(Frames) /\ DOMAIN stack' = 1..(n - 1)
      /\ \A k \in 1..(n - 1) : stack'[k] = stack[k]
  BY <1>1, <1>3, SubSeqProperties, LenProperties DEF Front
<1>5. \A k \in 1..(n - 1) : k \in DOMAIN stack
  BY <1>3
<1> HIDE DEF n
<1>6. FramesInv'
  BY <1>1, <1>3, <1>4, <1>5 DEF FramesInv
<1>7. InliningBounded'
  BY <1>4, <1>5 DEF VirtualizerInv, InliningBounded
<1>8. ReturnsInv'
  BY <1>1, <1>4, <1>5, SameProgram DEF VirtualizerInv, ReturnsInv, NoAssertFails
<1> QED BY <1>2, <1>6, <1>7, <1>8 DEF VirtualizerInv

\* The invariant does not speak of the execution.
LEMMA ExecutionStep ==
    ASSUME VirtualizerInv, Start \/ Execute \/ UNCHANGED vars
    PROVE  VirtualizerInv'
<1>1. /\ prog' = prog /\ seg' = seg /\ item' = item
      /\ BB' = BB /\ bb' = bb /\ follow' = follow /\ top' = top /\ outs' = outs
      /\ entries' = entries /\ cfgs' = cfgs /\ cfgMap' = cfgMap /\ fault' = fault /\ stack' = stack
      /\ phase' = phase \/ (phase = "inline" /\ phase' = "run")
  BY DEF Start, Execute, vars, builder, inlining
<1>2. BuilderInv'
  BY <1>1, BuilderKept DEF VirtualizerInv
<1>3. FramesInv' /\ InliningBounded'
  BY <1>1 DEF VirtualizerInv, FramesInv, InliningBounded
<1>4. ReturnsInv'
  BY <1>1, SameProgram DEF VirtualizerInv, ReturnsInv, NoAssertFails
<1> QED BY <1>2, <1>3, <1>4 DEF VirtualizerInv

LEMMA BuildStepKeeps ==
    ASSUME VirtualizerInv, BuildStep
    PROVE  VirtualizerInv'
<1>1. BuilderInv'
  BY FindBlocksStep, FindDoneStep, LinkStep, SegmentDoneStep DEF VirtualizerInv, BuildStep, Build
<1>2. /\ stack' = stack /\ cfgMap' = cfgMap /\ fault' = fault /\ prog' = prog
      /\ phase \in {"find", "link"} /\ phase' \in {"find", "link", "built"}
  BY DEF BuildStep, Build, FindBlocks, FindDone, LinkBlocks, SegmentDone, inlining
<1>3. FramesInv' /\ InliningBounded'
  BY <1>2 DEF VirtualizerInv, FramesInv, InliningBounded
<1>4. ReturnsInv'
  BY <1>2, SameProgram DEF VirtualizerInv, ReturnsInv, NoAssertFails
<1> QED BY <1>1, <1>3, <1>4 DEF VirtualizerInv

-----------------------------------------------------------------------------
(* The moves of the instructions, and the edges of the builder.             *)

\* What NotesPlain says of an instruction of the segment at work.
LEMMA PlainAre ==
    ASSUME BuilderTypes, NotesPlain(prog), NEW i \in First..Final
    PROVE  /\ Stops(i) => isControl(i)
           /\ target(i) # None => ~ (has(target(i), "NO_CALL") /\ has(target(i), "NO_RETURN"))
           /\ \A t \in BranchTargets(i) \cup CallTargets(i) : ~ has(t, "NO_CALL") /\ ~ has(t, "NO_RETURN")
<1>1. i \in Span(prog, seg) /\ seg \in DOMAIN prog.segments
  BY SegmentBounds DEF BuilderTypes
<1>2. /\ "IS_RETURN" \in prog.notes[i] => Controls(prog, i)
      /\ \A t \in {prog.code[i].target} \ {None} : "NO_RETURN" \in prog.notes[t] => Controls(prog, i)
      /\ \A t \in TargetsOf(prog, i) :
            /\ {"NO_CALL", "NO_RETURN"} \cap prog.notes[t] # {} => t = prog.code[i].target
            /\ ~ ({"NO_CALL", "NO_RETURN"} \subseteq prog.notes[t])
  BY <1>1 DEF NotesPlain
<1>3. Controls(prog, i) <=> isControl(i)
  BY DEF Controls, isControl, has
<1>4. Stops(i) => isControl(i)
  BY <1>2, <1>3 DEF Stops, has, target
<1>5. target(i) # None => target(i) \in TargetsOf(prog, i)
  BY DEF TargetsOf, target
<1>6. ASSUME NEW t \in BranchTargets(i) \cup CallTargets(i)
      PROVE  t \in TargetsOf(prog, i) /\ t # target(i)
  <2>1. t \in Insts /\ target(i) = None
    <3>1. i \in Insts
      <4>1. First \in Insts /\ Final \in Insts
        BY SegmentBounds
      <4> QED BY <4>1, SizeAssumption DEF Insts
    <3> QED BY <3>1, TargetsTyped DEF BranchTargets, CallTargets
  <2>2. t \in TargetsOf(prog, i)
    BY DEF TargetsOf, BranchTargets, CallTargets
  <2> QED BY <2>1, <2>2, InstsAre
<1>7. ASSUME NEW t \in BranchTargets(i) \cup CallTargets(i)
      PROVE  ~ has(t, "NO_CALL") /\ ~ has(t, "NO_RETURN")
  BY <1>2, <1>6, <1>7 DEF has, target
<1> QED BY <1>2, <1>4, <1>5, <1>7 DEF has, target

\* The moves of an instruction, by what ends its block.
LEMMA StopMoves ==
    ASSUME BuilderTypes, NotesPlain(prog), NEW i \in First..Final, Stops(i)
    PROVE  Moves(i) \cap {<<"return", None>>, <<"stop", None>>} # {}
<1>1. /\ isControl(i)
      /\ target(i) # None => ~ (has(target(i), "NO_CALL") /\ has(target(i), "NO_RETURN"))
  BY PlainAre
<1>2. CASE has(i, "IS_RETURN")
  BY <1>2 DEF Moves
<1>3. CASE ~ has(i, "IS_RETURN")
  <2>1. target(i) # None /\ has(target(i), "NO_RETURN") /\ ~ has(target(i), "NO_CALL")
    BY <1>1, <1>3 DEF Stops
  <2>2. <<"stop", None>> \in Moves(i)
    <3>1. CASE isCall(i)
      BY <1>1, <1>3, <2>1, <3>1 DEF Moves
    <3>2. CASE ~ isCall(i)
      BY <1>1, <1>3, <2>1, <3>2 DEF Moves
    <3> QED BY <3>1, <3>2
  <2> QED BY <2>2
<1> QED BY <1>2, <1>3

LEMMA SequenceMoves ==
    ASSUME NEW i, ~ Stops(i), ~ isControl(i)
    PROVE  <<"go", i + 1>> \in Moves(i)
BY DEF Moves, Stops

LEMMA ControlMoves ==
    ASSUME BuilderTypes, NotesPlain(prog), NEW i \in First..Final, i \in Insts,
           ~ Stops(i), isControl(i)
    PROVE  /\ \A e \in ToSet(ControlEdges(i)) :
                 \/ /\ e.kind = "CALL" /\ <<"call", e.target>> \in Moves(i)
                    /\ isCall(i) \/ e.target \in CallTargets(i)
                 \/ e.kind = "TAKEN" /\ <<"go", e.target>> \in Moves(i)
           /\ CallTargets(i) # {} => Has(ControlEdges(i), "CALL")
           /\ Has(ControlEdges(i), "CALL") => isCall(i) \/ CallTargets(i) # {}
           /\ Follows(i) => \/ isCall(i) \/ CallTargets(i) # {}
                            \/ <<"go", i + 1>> \in Moves(i)
           /\ isReturn(i) => <<"return", None>> \in Moves(i) /\ ~ isCall(i)
<1>1. ~ has(i, "IS_RETURN") /\ (target(i) # None => ~ has(target(i), "NO_RETURN"))
  BY DEF Stops
<1>2. \A t \in BranchTargets(i) \cup CallTargets(i) : ~ has(t, "NO_CALL") /\ ~ has(t, "NO_RETURN")
  BY PlainAre
<1> DEFINE direct == IF target(i) # None /\ ~ (isCall(i) /\ has(target(i), "NO_CALL"))
                     THEN {target(i)} ELSE {}
<1>3. ToSet(ControlEdges(i)) =
        {Edge(t, "CALL") : t \in CallTargets(i)} \cup
        {Edge(t, IF isCall(i) THEN "CALL" ELSE "TAKEN") : t \in BranchTargets(i) \cup direct}
  BY ControlEdgesWhole
<1>4. ASSUME NEW t \in CallTargets(i) PROVE <<"call", t>> \in Moves(i)
  BY <1>1, <1>2, <1>4 DEF Moves
<1>5. ASSUME NEW t \in BranchTargets(i)
      PROVE  <<IF isCall(i) THEN "call" ELSE "go", t>> \in Moves(i)
  BY <1>1, <1>2, <1>5 DEF Moves
<1>6. ASSUME NEW t \in direct
      PROVE  <<IF isCall(i) THEN "call" ELSE "go", t>> \in Moves(i)
  <2>1. t = target(i) /\ target(i) # None /\ ~ has(t, "NO_RETURN") /\ (isCall(i) => ~ has(t, "NO_CALL"))
    BY <1>1, <1>6
  <2>2. CASE isCall(i)
    BY <1>1, <2>1, <2>2 DEF Moves
  <2>3. CASE ~ isCall(i)
    BY <1>1, <2>1, <2>3 DEF Moves
  <2> QED BY <2>2, <2>3
<1> HIDE DEF direct
<1>7. ASSUME NEW e \in ToSet(ControlEdges(i))
      PROVE  \/ /\ e.kind = "CALL" /\ <<"call", e.target>> \in Moves(i)
                /\ isCall(i) \/ e.target \in CallTargets(i)
             \/ e.kind = "TAKEN" /\ <<"go", e.target>> \in Moves(i)
  <2>1. CASE \E t \in CallTargets(i) : e = Edge(t, "CALL")
    <3>1. PICK t \in CallTargets(i) : e = Edge(t, "CALL")
      BY <2>1
    <3>2. e.kind = "CALL" /\ e.target = t
      BY <3>1 DEF Edge
    <3> QED BY <1>4, <3>2
  <2>2. CASE \E t \in BranchTargets(i) \cup direct :
                e = Edge(t, IF isCall(i) THEN "CALL" ELSE "TAKEN")
    <3>1. PICK t \in BranchTargets(i) \cup direct :
                e = Edge(t, IF isCall(i) THEN "CALL" ELSE "TAKEN")
      BY <2>2
    <3>2. e.target = t /\ e.kind = IF isCall(i) THEN "CALL" ELSE "TAKEN"
      BY <3>1 DEF Edge
    <3>3. <<IF isCall(i) THEN "call" ELSE "go", t>> \in Moves(i)
      BY <1>5, <1>6
    <3>4. CASE isCall(i)
      BY <3>2, <3>3, <3>4
    <3>5. CASE ~ isCall(i)
      BY <3>2, <3>3, <3>5
    <3> QED BY <3>4, <3>5
  <2> QED BY <1>3, <2>1, <2>2
<1>8. CallTargets(i) # {} => Has(ControlEdges(i), "CALL")
  <2> SUFFICES ASSUME NEW t \in CallTargets(i) PROVE Has(ControlEdges(i), "CALL")
    OBVIOUS
  <2>1. Edge(t, "CALL") \in ToSet(ControlEdges(i)) /\ Edge(t, "CALL").kind = "CALL"
    BY <1>3 DEF Edge
  <2> QED BY <2>1 DEF Has
<1>9. isConditional(i) /\ ~ has(i, "IGNORE_SEQ") => <<"go", i + 1>> \in Moves(i)
  BY <1>1 DEF Moves
<1>10. isReturn(i) => <<"return", None>> \in Moves(i) /\ ~ isCall(i)
  <2> SUFFICES ASSUME isReturn(i) PROVE <<"return", None>> \in Moves(i) /\ ~ isCall(i)
    OBVIOUS
  <2>1. prog.code[i].kind = "return"
    BY <1>1 DEF isReturn
  <2> QED BY <1>1, <2>1 DEF Moves, isCall
<1> QED BY <1>7, <1>8, <1>9, <1>10, ControlEdgesAre DEF Follows

-----------------------------------------------------------------------------
(* The steps of the builder.                                                *)

LEMMA SameMoves ==
    ASSUME prog' = prog
    PROVE  /\ NotesPlain(prog)' <=> NotesPlain(prog)
           /\ NextReal(item - 1, ToSet(outs[bb]))' <=> NextReal(item' - 1, ToSet(outs'[bb']))
           /\ \A b : BlockReal(b)' <=> EndsReal(top'[b], ToSet(outs'[b]), b \in returns')
<1>1. NotesPlain(prog)' <=> NotesPlain(prog)
  BY DEF NotesPlain, Span, Controls, TargetsOf
<1>2. \A i : Moves(i)' = Moves(i) /\ (isCall(i)' <=> isCall(i)) /\ CallTargets(i)' = CallTargets(i)
  BY DEF Moves, isCall, CallTargets, BranchTargets, target, has, isConditional, isControl
<1>3. \A i, E : NextReal(i, E)' <=> NextReal(i, E)
  BY <1>2 DEF NextReal
<1>4. \A i, E, e : LeadsReal(i, E, e)' <=> LeadsReal(i, E, e)
  BY <1>2, <1>3 DEF LeadsReal
<1>5. \A i, E, r : EndsReal(i, E, r)' <=> EndsReal(i, E, r)
  BY <1>2, <1>4 DEF EndsReal, ReturnReal
<1>6. \A b : BlockReal(b)' <=> EndsReal(top'[b], ToSet(outs'[b]), b \in returns')
  BY <1>5 DEF BlockReal
<1>7. NextReal(item - 1, ToSet(outs[bb]))' <=> NextReal(item' - 1, ToSet(outs'[bb']))
  BY <1>3
<1> QED BY <1>1, <1>6, <1>7

LEMMA RealStarts == BuilderInit => BuiltReal
<1> SUFFICES ASSUME BuilderInit PROVE BuiltReal
  OBVIOUS
<1>1. \A b \in Insts : ToSet(outs[b]) = {} /\ top[b] = None /\ b \notin returns
  BY DEF BuilderInit, ToSet
<1>2. \A b \in Insts : BlockReal(b)
  BY <1>1 DEF BlockReal, EndsReal
<1>3. WorkReal
  BY <1>1 DEF WorkReal, BuilderInit
<1> QED BY <1>2, <1>3 DEF BuiltReal

\* A step of the first loop, or to the second one.
LEMMA FindReal ==
    ASSUME BuilderInv, BuiltReal, FindBlocks \/ FindDone
    PROVE  BuiltReal'
<1> SUFFICES ASSUME NotesPlain(prog) PROVE WorkReal' /\ \A b \in Insts : BlockReal(b)'
  <2>1. prog' = prog
    BY DEF FindBlocks, FindDone
  <2> QED BY <2>1, SameMoves DEF BuiltReal
<1>1. /\ prog' = prog /\ phase = "find" /\ seg' = seg /\ top' = top /\ outs' = outs /\ returns' = returns
      /\ phase' = "find" \/ (phase' = "link" /\ item' = First /\ bb' = None)
  BY DEF FindBlocks, FindDone
<1>2. First' = First
  BY <1>1, SameProgram
<1>3. Passed' = Passed
  BY <1>1, <1>2 DEF Passed
<1>4. WorkReal'
  BY <1>1, <1>3 DEF BuiltReal, WorkReal, Building
<1>5. \A b \in Insts : BlockReal(b)'
  BY <1>1, SameMoves DEF BuiltReal, BlockReal
<1> QED BY <1>4, <1>5

LEMMA SegmentReal ==
    ASSUME BuilderInv, BuiltReal, SegmentDone
    PROVE  BuiltReal'
<1> DEFINE more == seg < Len(prog.segments)
<1>1. /\ phase = "link" /\ item > Final /\ prog' = prog /\ outs' = outs /\ returns' = returns
      /\ top' = IF top[bb] = None THEN [top EXCEPT ![bb] = Final] ELSE top
      /\ IF more THEN seg' = seg + 1 /\ phase' = "find" ELSE phase' = "built"
  BY DEF SegmentDone
<1> SUFFICES ASSUME NotesPlain(prog) PROVE WorkReal' /\ \A b \in Insts : BlockReal(b)'
  BY <1>1, SameMoves DEF BuiltReal
<1>2. /\ BuilderTypes /\ First \in Nat /\ Final \in Nat /\ First <= Final /\ Final \in Insts
      /\ item = Final + 1
  <2>1. BuilderTypes /\ First \in Insts /\ Final \in Insts /\ First <= Final
    BY SegmentBounds DEF BuilderInv
  <2>2. item \in First..(Final + 1)
    BY <1>1 DEF BuilderInv, InSegment, Building
  <2> QED BY <1>1, <2>1, <2>2, InstsAre
<1>3. bb \in First..Final /\ bb \in Insts
  <2>1. item # First
    BY <1>2
  <2>2. bb \in First..(item - 1)
    BY <1>1, <2>1 DEF BuilderInv, InSegment
  <2>3. First..Final \subseteq Insts
    BY <1>2, SegmentBounds, SizeAssumption DEF Insts
  <2> QED BY <1>2, <2>2, <2>3
<1>4. \A b \in Insts : top'[b] = IF b = bb /\ top[b] = None THEN Final ELSE top[b]
  BY <1>1, <1>3 DEF BuilderInv, BuilderTypes
<1>5. ASSUME NEW b \in Insts PROVE BlockReal(b)'
  <2>1. EndsReal(top[b], ToSet(outs[b]), b \in returns)
    BY DEF BuiltReal, BlockReal
  <2>2. CASE b = bb /\ top[b] = None
    <3>1. ToSet(outs[b]) = {} /\ b \notin returns
      BY <2>1, <2>2 DEF EndsReal
    <3>2. EndsReal(Final, ToSet(outs[b]), b \in returns)
      BY <3>1 DEF EndsReal
    <3> QED BY <1>1, <1>4, <2>2, <3>2, SameMoves
  <2>3. CASE ~(b = bb /\ top[b] = None)
    BY <1>1, <1>4, <2>1, <2>3, SameMoves
  <2> QED BY <2>2, <2>3
<1>6. WorkReal'
  <2> SUFFICES ASSUME more, NEW b \in Insts, b >= Passed' PROVE top'[b] = None
    BY <1>1 DEF WorkReal, Building
  <2>1. Passed' = First' /\ Passed = Final + 1
    BY <1>1, <1>2 DEF Passed
  <2>2. Final < First' /\ First' \in Nat
    <3>1. prog.segments \in Seq(Insts \X Insts)
      BY <1>2, ProgramsAssumption DEF BuilderTypes
    <3>2. seg \in DOMAIN prog.segments /\ seg + 1 \in DOMAIN prog.segments /\ seg < seg + 1
      BY <1>2, <3>1, LenProperties DEF BuilderTypes
    <3>3. First' = prog.segments[seg + 1][1]
      BY <1>1 DEF First
    <3>4. prog.segments[seg][2] < prog.segments[seg + 1][1]
      BY <1>2, <3>2, ProgramsAssumption DEF BuilderTypes
    <3>5. prog.segments[seg + 1] \in Insts \X Insts
      BY <3>1, <3>2, ElementOfSeq, LenProperties
    <3> QED BY <3>3, <3>4, <3>5, InstsAre DEF Final
  <2>3. b \in Nat /\ b > Final
    BY <1>2, <2>1, <2>2, InstsAre
  <2>4. top[b] = None
    BY <1>1, <1>2, <2>1, <2>3 DEF BuiltReal, WorkReal, Building
  <2> QED BY <1>2, <1>3, <1>4, <2>3, <2>4
<1> QED BY <1>5, <1>6

\* The block of the instruction is not ended, and the one before it, if it
\* ends here, stops at the instruction before.
LEMMA WorkIs ==
    ASSUME BuilderInv, BuiltReal, NotesPlain(prog), phase = "link", item <= Final
    PROVE  /\ top[Current] = None /\ Sizes[Current] = None
           /\ ToSet(outs[Current]) = {} /\ ToSet(Sequential[Current]) = {} /\ Current \notin returns
           /\ Ends => bb # Current /\ Sizes[bb] = item - 1
<1>1. /\ BuilderTypes
      /\ First \in Nat /\ Final \in Nat /\ First <= item /\ item \in Nat /\ item \in Insts
      /\ Current \in First..item /\ Current \in Insts
      /\ bb # None => bb \in First..(item - 1) /\ bb \in Insts
      /\ First \in BB
  BY CurrentIs
<1>2. WorkReal /\ \A b \in Insts : BlockReal(b)
  BY DEF BuiltReal
<1>3. \A b \in Insts : Sizes[b] = IF Ends /\ b = bb /\ top[bb] = None THEN item - 1 ELSE top[b]
  BY SizesAre
<1>4. Ends => bb # Current /\ Sizes[bb] = item - 1
  <2> SUFFICES ASSUME Ends PROVE bb # Current /\ Sizes[bb] = item - 1
    OBVIOUS
  <2>1. item \in BB /\ bb # None
    BY DEF Ends
  <2>2. Current = item
    BY <2>1 DEF Current
  <2>3. top[bb] # None => top[bb] = item - 1
    BY <1>2, <2>1 DEF WorkReal
  <2> QED BY <1>1, <1>3, <2>1, <2>2, <2>3
<1>5. top[Current] = None
  <2>1. CASE item \in BB
    <3>1. Current = item /\ Passed = item
      BY <2>1 DEF Current, Passed
    <3> QED BY <1>1, <1>2, <3>1 DEF WorkReal, Building
  <2>2. CASE item \notin BB
    <3>1. Current = bb /\ ~(item > Final)
      BY <1>1, <2>2 DEF Current
    <3>2. bb # None
      BY <1>1, <3>1, InstsAre
    <3> QED BY <1>2, <2>2, <3>1, <3>2 DEF WorkReal
  <2> QED BY <2>1, <2>2
<1>6. ToSet(outs[Current]) = {} /\ Current \notin returns
  BY <1>1, <1>2, <1>5 DEF BlockReal, EndsReal
<1>7. Sizes[Current] = None
  BY <1>1, <1>3, <1>4, <1>5
<1>8. ToSet(Sequential[Current]) = {}
  BY <1>1, <1>4, <1>6, SizesAre
<1> QED BY <1>4, <1>5, <1>6, <1>7, <1>8

LEMMA LinkReal ==
    ASSUME BuilderInv, BuiltReal, LinkBlocks
    PROVE  BuiltReal'
<1>1. /\ phase = "link" /\ item <= Final
      /\ prog' = prog /\ phase' = phase /\ seg' = seg
      /\ bb' = Current /\ item' = item + 1
      /\ \A b \in Insts : top'[b] = Sizes[b] \/ (b = Current /\ top'[b] = item)
      /\ \A b \in Insts :
            ToSet(outs'[b]) = ToSet(Sequential[b]) \cup
                              (IF b = Current /\ Linked THEN ToSet(ControlEdges(item)) ELSE {})
      /\ BB \subseteq BB'
      /\ Linked => follow' = Follows(item)
  BY LinkFacts
<1> SUFFICES ASSUME NotesPlain(prog) PROVE WorkReal' /\ \A b \in Insts : BlockReal(b)'
  BY <1>1, SameMoves DEF BuiltReal
<1>2. /\ BuilderTypes
      /\ First \in Nat /\ Final \in Nat /\ First <= item /\ item \in Nat /\ item \in Insts
      /\ Current \in First..item /\ Current \in Insts
      /\ bb # None => bb \in First..(item - 1) /\ bb \in Insts
      /\ Insts \subseteq Nat \ {0} /\ None = 0
      /\ item \in First..Final
  BY <1>1, CurrentIs
<1>3. /\ \A b \in Insts : Sizes[b] = IF Ends /\ b = bb /\ top[bb] = None THEN item - 1 ELSE top[b]
      /\ \A b \in Insts :
            ToSet(Sequential[b]) = IF Ends /\ follow /\ b = bb
                                   THEN ToSet(outs[b]) \cup {Edge(item, "NOT_TAKEN")}
                                   ELSE ToSet(outs[b])
      /\ Sizes \in [Insts -> Insts \cup {None}]
  BY <1>1, SizesAre
<1>4. WorkReal /\ \A b \in Insts : EndsReal(top[b], ToSet(outs[b]), b \in returns)
  BY DEF BuiltReal, BlockReal
<1>5. /\ top[Current] = None /\ Sizes[Current] = None
      /\ ToSet(outs[Current]) = {} /\ ToSet(Sequential[Current]) = {} /\ Current \notin returns
      /\ Ends => bb # Current /\ Sizes[bb] = item - 1
  BY <1>1, WorkIs
<1>6. First' = First /\ Final' = Final
  BY <1>1, SameProgram
\* What ends the block, and what follows it.
<1>7. /\ isControl(item) => item + 1 \in BB' \/ item + 1 > Final
      /\ top'[Current] # None => isControl(item)
      /\ EndsReal(top'[Current], ToSet(outs'[Current]), Current \in returns')
      /\ follow' => NextReal(item, ToSet(outs'[Current]))
  <2>1. isControl(item) => item + 1 \in BB' \/ item + 1 > Final
    <3>1. item \in First..(Searched - 1)
      BY <1>1, <1>2 DEF Searched
    <3>2. isControl(item) /\ item < Final => item + 1 \in BB
      BY <1>1, <3>1 DEF BuilderInv, StartsFound, Building
    <3> QED BY <1>1, <1>2, <3>2
  <2>2. CASE Stops(item)
    <3>1. isControl(item) /\ Moves(item) \cap {<<"return", None>>, <<"stop", None>>} # {}
      BY <1>2, <2>2, PlainAre, StopMoves
    <3>2. top' = [Sizes EXCEPT ![Current] = item] /\ follow' = FALSE
      BY <2>2 DEF LinkBlocks, Stops
    <3>3. top'[Current] = item /\ ToSet(outs'[Current]) = {}
      BY <1>1, <1>2, <1>3, <1>5, <2>2, <3>2 DEF Linked
    <3> QED BY <1>2, <2>1, <3>1, <3>2, <3>3 DEF EndsReal, ReturnReal
  <2>3. CASE Linked
    <3>1. /\ \A e \in ToSet(ControlEdges(item)) :
                 \/ /\ e.kind = "CALL" /\ <<"call", e.target>> \in Moves(item)
                    /\ isCall(item) \/ e.target \in CallTargets(item)
                 \/ e.kind = "TAKEN" /\ <<"go", e.target>> \in Moves(item)
          /\ CallTargets(item) # {} => Has(ControlEdges(item), "CALL")
          /\ Has(ControlEdges(item), "CALL") => isCall(item) \/ CallTargets(item) # {}
          /\ Follows(item) => \/ isCall(item) \/ CallTargets(item) # {}
                              \/ <<"go", item + 1>> \in Moves(item)
          /\ isReturn(item) => <<"return", None>> \in Moves(item) /\ ~ isCall(item)
      BY <1>2, <2>3, ControlMoves DEF Linked
    <3>2. /\ top' = [Sizes EXCEPT ![Current] = item]
          /\ returns' = IF CallTargets(item) = {} /\ isReturn(item)
                        THEN returns \cup {Current} ELSE returns
      BY <2>3 DEF LinkBlocks, Linked
    <3>3. top'[Current] = item /\ ToSet(outs'[Current]) = ToSet(ControlEdges(item))
      BY <1>1, <1>2, <1>3, <1>5, <2>3, <3>2
    <3>4. follow' => NextReal(item, ToSet(outs'[Current]))
      BY <1>1, <2>3, <3>1, <3>3 DEF NextReal, Has
    <3>5. \A e \in ToSet(outs'[Current]) : LeadsReal(item, ToSet(outs'[Current]), e)
      BY <3>1, <3>3 DEF LeadsReal
    <3>6. Current \in returns' => ReturnReal(item, ToSet(outs'[Current]))
      BY <1>5, <3>1, <3>2, <3>3 DEF ReturnReal, Has
    <3> QED BY <1>2, <2>1, <2>3, <3>3, <3>4, <3>5, <3>6 DEF EndsReal, Linked
  <2>4. CASE ~ Stops(item) /\ ~ isControl(item)
    <3>1. <<"go", item + 1>> \in Moves(item)
      BY <2>4, SequenceMoves
    <3>2. top' = Sizes /\ returns' = returns
      BY <2>4 DEF LinkBlocks
    <3>3. top'[Current] = None /\ ToSet(outs'[Current]) = {}
      BY <1>1, <1>2, <1>5, <2>4, <3>2 DEF Linked
    <3> QED BY <1>5, <2>1, <3>1, <3>2, <3>3 DEF EndsReal, NextReal
  <2> QED BY <2>2, <2>3, <2>4 DEF Linked
<1>8. \A b \in Insts : b # Current => (b \in returns' <=> b \in returns)
  BY DEF LinkBlocks
<1>9. ASSUME NEW b \in Insts PROVE BlockReal(b)'
  <2>1. CASE b = Current
    <3>1. EndsReal(top'[b], ToSet(outs'[b]), b \in returns')
      BY <1>7, <2>1, Zenon
    <3> QED BY <1>1, <3>1, SameMoves
  <2>2. CASE b # Current
    <3>1. top'[b] = Sizes[b] /\ ToSet(outs'[b]) = ToSet(Sequential[b])
      BY <1>1, <2>2
    <3>2. CASE Ends /\ b = bb
      <4> DEFINE E == ToSet(outs[b])
                 S == ToSet(Sequential[b])
                 last == item - 1
      <4>1. E \subseteq S /\ \A e \in S : e \in E \/ (follow /\ e = Edge(item, "NOT_TAKEN"))
        BY <1>3, <3>2
      <4>2. top'[b] = last /\ last # None /\ last + 1 = item
        BY <1>2, <1>5, <3>1, <3>2 DEF Ends
      <4>3. (E = {} /\ b \notin returns) \/ top[b] = last
        <5>1. top[b] = None => E = {} /\ b \notin returns
          BY <1>4 DEF EndsReal
        <5> QED BY <1>3, <1>5, <3>2, <5>1
      <4>4. (\A e \in E : LeadsReal(last, E, e)) /\ (b \in returns => ReturnReal(last, E))
        BY <1>4, <4>2, <4>3 DEF EndsReal
      <4>5. follow => NextReal(last, E)
        BY <1>1, <1>4, <3>2 DEF WorkReal, Ends
      <4>6. NextReal(last, E) => NextReal(last, S)
        BY <4>1 DEF NextReal
      <4>7. ASSUME NEW e \in S PROVE LeadsReal(last, S, e)
        <5>1. CASE e \in E
          BY <4>4, <4>6, <5>1 DEF LeadsReal
        <5>2. CASE follow /\ e = Edge(item, "NOT_TAKEN")
          BY <4>2, <4>5, <4>6, <5>2 DEF LeadsReal, Edge
        <5> QED BY <4>1, <5>1, <5>2
      <4>8. b \in returns => ReturnReal(last, S)
        BY <4>1, <4>4 DEF ReturnReal, Edge
      <4>9. EndsReal(last, S, b \in returns)
        BY <4>2, <4>7, <4>8 DEF EndsReal
      <4> QED BY <1>1, <1>8, <2>2, <3>1, <4>2, <4>9, SameMoves
    <3>3. CASE ~(Ends /\ b = bb)
      <4>1. Sizes[b] = top[b] /\ ToSet(Sequential[b]) = ToSet(outs[b])
        BY <1>3, <3>3
      <4> QED BY <1>1, <1>4, <1>8, <2>2, <3>1, <4>1, SameMoves
    <3> QED BY <3>2, <3>3
  <2> QED BY <2>1, <2>2
<1>10. WorkReal'
  <2>1. ASSUME NEW b \in Insts, b >= item + 1 PROVE top'[b] = None
    <3>1. b \in Nat /\ b # Current /\ b # bb /\ b >= item
      BY <1>2, <2>1
    <3>2. top[b] = None
      BY <1>1, <1>4, <3>1 DEF WorkReal, Building, Passed
    <3> QED BY <1>1, <1>3, <3>1, <3>2
  <2>2. Passed' = item + 1
    BY <1>1 DEF Passed
  <2>3. follow' => NextReal(item' - 1, ToSet(outs'[bb']))
    <3>1. item' - 1 = item /\ bb' = Current
      BY <1>1, <1>2
    <3> QED BY <1>7, <3>1
  <2>4. top'[Current] # None => top'[Current] = item /\ (item + 1 \in BB' \/ item + 1 > Final)
    BY <1>1, <1>2, <1>5, <1>7
  <2>5. item' - 1 = item
    BY <1>1, <1>2
  <2>6. follow' => NextReal(item - 1, ToSet(outs[bb]))'
    BY <1>1, <2>3, SameMoves
  <2>7. top'[bb'] # None => top'[bb'] = item' - 1 /\ (item' \in BB' \/ item' > Final')
    BY <1>1, <1>6, <2>4, <2>5
  <2>8. \A b \in Insts : b >= Passed' => top'[b] = None
    BY <2>1, <2>2
  <2> QED BY <2>6, <2>7, <2>8 DEF WorkReal
<1> QED BY <1>9, <1>10

\* Once the graph is built, the program and the edges are kept.
LEMMA RealKept ==
    ASSUME BuiltReal, phase \notin {"find", "link"}, phase' \notin {"find", "link"},
           prog' = prog, top' = top, outs' = outs, returns' = returns
    PROVE  BuiltReal'
<1> SUFFICES ASSUME NotesPlain(prog) PROVE WorkReal' /\ \A b \in Insts : BlockReal(b)'
  BY SameMoves DEF BuiltReal
<1>1. WorkReal'
  BY DEF WorkReal, Building
<1>2. \A b \in Insts : BlockReal(b)'
  BY SameMoves DEF BuiltReal, BlockReal
<1> QED BY <1>1, <1>2

-----------------------------------------------------------------------------
(* The edges of a block in its CFG are moves too.                           *)

\* The edges of a block in its CFG: those of calls, those in the CFG, those to
\* the exit.
LEMMA ScannedReal ==
    ASSUME BuilderTypes, BuiltReal, NotesPlain(prog), JumpsAlone,
           NEW f \in cfgs \cup {prog.start}, NEW b \in ScanBlocks(f)
    PROVE  /\ \A e \in Scanned(f, b) : e.kind = "CALL" =>
                 {<<"call", e.target>>, <<"go", e.target>>} \cap Moves(top[b]) # {}
           /\ \A e \in Scanned(f, b) : e.kind # "CALL" /\ e.target # Exit =>
                 /\ e.kind \in {"TAKEN", "NOT_TAKEN"}
                 /\ <<"go", e.target>> \in Moves(top[b]) \/ e.target = top[b] + 1
           /\ \A e \in Scanned(f, b) : e.kind # "CALL" /\ e.target = Exit =>
                 \/ Moves(top[b]) \cap {<<"return", None>>, <<"stop", None>>} # {}
                 \/ \E d \in Scanned(f, b) : /\ d.kind = "CALL" /\ d.target \in cfgs
                                             /\ <<"go", d.target>> \in Moves(top[b])
           /\ \A e, d \in Scanned(f, b) :
                 e.kind = "CALL" /\ (d.target = Exit \/ d.kind = "NOT_TAKEN") =>
                    IF isCall(top[b]) \/ e.target \in CallTargets(top[b])
                    THEN d.target # Exit /\ d.target = top[b] + 1
                    ELSE d.target = Exit
<1> DEFINE E == ToSet(outs[b])
           i == top[b]
           A == {e \in E : Away(f, e)}
<1>1. f \in Insts /\ b \in Insts
  <2>1. f \in Insts
    BY ProgramsAssumption DEF BuilderTypes
  <2> QED BY <2>1, ScanBlocksTyped
<1>2. E \subseteq BuiltEdges
  BY <1>1, ElementsIn DEF BuilderTypes
<1>3. \A e \in E : e.target \in Insts /\ e.kind \in {"NOT_TAKEN", "TAKEN", "CALL"} /\ e.target # Exit
  BY <1>2, InstsAre DEF BuiltEdges
<1>4. EndsReal(i, E, b \in returns)
  BY <1>1 DEF BuiltReal, BlockReal
<1>5. /\ \A e \in E : LeadsReal(i, E, e)
      /\ b \in returns => ReturnReal(i, E)
  BY <1>4 DEF EndsReal
<1>6. \A e \in A : /\ ~ isCall(i) /\ e.target \notin CallTargets(i)
                   /\ \A d \in E : d.kind = "TAKEN" \/ (d.kind = "NOT_TAKEN" /\ Away(f, d))
  BY DEF JumpsAlone, Away
<1>7. \A e \in A : e.target \in cfgs
  BY <1>1, ScanClosed DEF Away
<1>8. \A e \in A : <<"go", e.target>> \in Moves(i)
  <2> SUFFICES ASSUME NEW e \in A PROVE <<"go", e.target>> \in Moves(i)
    OBVIOUS
  <2>1. LeadsReal(i, E, e)
    BY <1>5
  <2>2. CASE e.kind = "TAKEN"
    BY <2>1, <2>2 DEF LeadsReal
  <2>3. CASE e.kind = "NOT_TAKEN"
    <3>1. e.target = i + 1 /\ NextReal(i, E)
      BY <2>1, <2>3 DEF LeadsReal
    <3>2. ~ isCall(i) /\ \A d \in E : d.kind # "CALL"
      BY <1>6
    <3> QED BY <3>1, <3>2 DEF NextReal
  <2> QED BY <1>6, <2>2, <2>3
\* The edges, by where they come from.
<1>9. ASSUME NEW x \in Scanned(f, b)
      PROVE  \/ x \in E /\ ~ Away(f, x)
             \/ \E e \in A : x = Edge(e.target, "CALL")
             \/ x = ToExit /\ (b \in returns \/ A # {})
  BY DEF Scanned
<1>10. \A e \in A : Edge(e.target, "CALL") \in Scanned(f, b)
  BY DEF Scanned
<1> HIDE DEF E, i
<1>11. ASSUME NEW x \in Scanned(f, b)
       PROVE  \/ x \in E /\ x \notin A /\ x.target # Exit
              \/ \E e \in A : x.kind = "CALL" /\ x.target = e.target /\ x.target # Exit
              \/ x.kind # "CALL" /\ x.kind # "NOT_TAKEN" /\ x.target = Exit /\ (b \in returns \/ A # {})
  <2>1. CASE x \in E /\ ~ Away(f, x)
    BY <1>3, <2>1
  <2>2. CASE \E e \in A : x = Edge(e.target, "CALL")
    BY <1>3, <2>2 DEF Edge
  <2>3. CASE x = ToExit /\ (b \in returns \/ A # {})
    BY <2>3 DEF ToExit, Edge
  <2> QED BY <1>9, <2>1, <2>2, <2>3
<1>12. ASSUME NEW e \in Scanned(f, b), e.kind = "CALL"
       PROVE  {<<"call", e.target>>, <<"go", e.target>>} \cap Moves(i) # {}
  <2>1. CASE e \in E
    BY <1>5, <1>12, <2>1 DEF LeadsReal
  <2>2. CASE \E d \in A : e.target = d.target
    BY <1>8, <2>2
  <2> QED BY <1>11, <1>12, <2>1, <2>2
<1>13. ASSUME NEW e \in Scanned(f, b), e.kind # "CALL", e.target # Exit
       PROVE  /\ e.kind \in {"TAKEN", "NOT_TAKEN"}
              /\ <<"go", e.target>> \in Moves(i) \/ e.target = i + 1
  <2>1. e \in E
    BY <1>11, <1>13
  <2>2. LeadsReal(i, E, e) /\ e.kind \in {"TAKEN", "NOT_TAKEN"}
    BY <1>3, <1>5, <1>13, <2>1
  <2> QED BY <2>2 DEF LeadsReal
<1>14. ASSUME NEW e \in Scanned(f, b), e.kind # "CALL", e.target = Exit
       PROVE  \/ Moves(i) \cap {<<"return", None>>, <<"stop", None>>} # {}
              \/ \E d \in Scanned(f, b) : /\ d.kind = "CALL" /\ d.target \in cfgs
                                          /\ <<"go", d.target>> \in Moves(i)
  <2>1. b \in returns \/ A # {}
    BY <1>11, <1>14
  <2>2. CASE b \in returns
    BY <1>5, <2>2 DEF ReturnReal
  <2>3. CASE A # {}
    <3>1. PICK a \in A : TRUE
      BY <2>3
    <3>2. Edge(a.target, "CALL").kind = "CALL" /\ Edge(a.target, "CALL").target = a.target
      BY DEF Edge
    <3> QED BY <1>7, <1>8, <1>10, <3>1, <3>2
  <2> QED BY <2>1, <2>2, <2>3
<1>15. ASSUME NEW e \in Scanned(f, b), NEW d \in Scanned(f, b),
              e.kind = "CALL", d.target = Exit \/ d.kind = "NOT_TAKEN"
       PROVE  IF isCall(i) \/ e.target \in CallTargets(i)
              THEN d.target # Exit /\ d.target = i + 1
              ELSE d.target = Exit
  <2>1. CASE A = {}
    <3>1. e \in E
      BY <1>11, <1>15, <2>1
    <3>2. isCall(i) \/ e.target \in CallTargets(i)
      BY <1>5, <1>15, <3>1 DEF LeadsReal
    <3>3. b \notin returns
      BY <1>5, <1>15, <3>1 DEF ReturnReal
    <3>4. d \in E /\ d.target # Exit
      BY <1>11, <2>1, <3>3
    <3>5. d.kind = "NOT_TAKEN" /\ d.target = i + 1
      BY <1>5, <1>15, <3>4 DEF LeadsReal
    <3> QED BY <3>2, <3>4, <3>5
  <2>2. CASE A # {}
    <3>1. /\ ~ isCall(i) /\ \A a \in A : a.target \notin CallTargets(i)
          /\ \A x \in E : x.kind = "TAKEN" \/ x \in A
      BY <1>6, <2>2 DEF E
    <3>2. e.target \notin CallTargets(i)
      BY <1>11, <1>15, <3>1
    <3>3. d.target = Exit
      BY <1>11, <1>15, <3>1
    <3> QED BY <3>1, <3>2, <3>3
  <2> QED BY <2>1, <2>2
<1> QED BY <1>12, <1>13, <1>14, <1>15 DEF i

-----------------------------------------------------------------------------
(* The edges made by virtualize().                                         *)

\* A call is the last one around the blocks of the function, if it is real.
LEMMA CallExit ==
    ASSUME NEW ctx \in Contexts, NEW b \in Insts, NEW g \in Insts, NEW root, NEW after,
           IF isCall(top[b]) \/ g \in CallTargets(top[b])
           THEN after[3] = top[b] + 1 ELSE ExitReal(root, ctx, after)
    PROVE  ExitReal(root, Append(ctx, <<b, g>>), after)
<1> DEFINE n == Len(ctx)
           to == Append(ctx, <<b, g>>)
           real(k) == isCall(top[to[k][1]]) \/ to[k][2] \in CallTargets(top[to[k][1]])
           old == RealCalls(<<root, ctx, None>>)
           new == RealCalls(<<root, to, None>>)
<1>1. /\ n \in Nat /\ DOMAIN ctx = 1..n /\ DOMAIN to = 1..(n + 1)
      /\ \A k \in 1..n : to[k] = ctx[k]
      /\ to[n + 1] = <<b, g>>
  <2>1. ctx \in Seq((Insts \cup {None, Exit}) \X Insts) /\ <<b, g>> \in (Insts \cup {None, Exit}) \X Insts
    BY DEF Contexts
  <2> QED BY <2>1, AppendProperties, LenProperties
<1>2. to[n + 1][1] = b /\ to[n + 1][2] = g
  BY <1>1
<1> HIDE DEF to
<1>3. new = {k \in 1..(n + 1) : real(k)} /\ old = {k \in 1..n : real(k)}
  BY <1>1 DEF RealCalls
<1>4. CASE isCall(top[b]) \/ g \in CallTargets(top[b])
  <2>1. n + 1 \in new /\ \A k \in new : n + 1 >= k /\ k \in Nat
    BY <1>1, <1>2, <1>3, <1>4
  <2>2. Max(new) = n + 1
    <3>1. Max(new) \in new /\ \A k \in new : Max(new) >= k
      BY <2>1 DEF Max
    <3> QED BY <1>1, <2>1, <3>1
  <2> QED BY <1>2, <1>4, <2>1, <2>2 DEF ExitReal, RealReturn, to
<1>5. CASE ~(isCall(top[b]) \/ g \in CallTargets(top[b]))
  <2>1. new = old
    <3>1. ~ real(n + 1)
      BY <1>2, <1>5
    <3>2. \A k : k \in 1..(n + 1) <=> k \in 1..n \/ k = n + 1
      BY <1>1
    <3> HIDE DEF real, new, old, n
    <3> QED BY <1>3, <3>1, <3>2
  <2>2. new # {} => Max(new) \in 1..n
    <3> SUFFICES ASSUME new # {} PROVE Max(new) \in 1..n
      OBVIOUS
    <3>1. new \in SUBSET (0..n)
      BY <1>1, <1>3, <2>1
    <3>2. \E x \in new : \A y \in new : x >= y
      BY <1>1, <3>1, GreatestElement
    <3>3. Max(new) \in new
      BY <3>2 DEF Max
    <3> QED BY <1>3, <2>1, <3>3
  <2>3. ExitReal(root, ctx, after)
    BY <1>5
  <2> QED BY <1>1, <2>1, <2>2, <2>3 DEF ExitReal, RealReturn, to
<1> QED BY <1>4, <1>5

\* The properties of edges and frames depend on the graph; more edges keep them.
LEMMA SameReal ==
    ASSUME prog' = prog, top' = top, outs' = outs, cfgs' = cfgs
    PROVE  /\ NotesPlain(prog)' <=> NotesPlain(prog)
           /\ JumpsAlone' <=> JumpsAlone
           /\ \A f : FrameReal(f)' <=> FrameReal(f)
           /\ vedges \subseteq vedges' => \A e : RealEdge(e) => RealEdge(e)'
<1>1. NotesPlain(prog)' <=> NotesPlain(prog)
  BY SameMoves
<1>2. \A i : Moves(i)' = Moves(i) /\ (isCall(i)' <=> isCall(i)) /\ CallTargets(i)' = CallTargets(i)
  BY DEF Moves, isCall, CallTargets, BranchTargets, target, has, isConditional, isControl
<1>3. \A f : ScanBlocks(f)' = ScanBlocks(f)
  BY DEF ScanBlocks
<1>4. JumpsAlone' <=> JumpsAlone
  BY <1>2, <1>3 DEF JumpsAlone
<1>5. \A e : RealReturn(e)' <=> RealReturn(e)
  <2>1. \A v : RealCalls(v)' = RealCalls(v)
    BY <1>2 DEF RealCalls
  <2> QED BY <2>1 DEF RealReturn
<1>6. \A r, c, x : ExitReal(r, c, x)' <=> ExitReal(r, c, x)
  BY <1>5 DEF ExitReal
<1>7. \A f, b, g : CallReal(f, b, g)' <=> CallReal(f, b, g)
  BY <1>2, <1>6 DEF CallReal
<1>8. \A f : FrameReal(f)' <=> FrameReal(f)
  BY <1>3, <1>6, <1>7 DEF FrameReal, VBlock
<1>9. ASSUME vedges \subseteq vedges', NEW e, RealEdge(e) PROVE RealEdge(e)'
  BY <1>2, <1>5, <1>9 DEF RealEdge, From
<1> QED BY <1>1, <1>4, <1>8, <1>9

\* A step is right when its frames and its new edges are.
LEMMA VirtualStep ==
    ASSUME VirtualReal, phase' \notin {"find", "link", "built"},
           prog' = prog, top' = top, outs' = outs, cfgs' = cfgs, vedges \subseteq vedges',
           NotesPlain(prog) /\ JumpsAlone =>
              /\ \A k \in DOMAIN stack' : FrameReal(stack'[k])
              /\ \A e \in vedges' : e[1][3] \in Insts => e \in vedges \/ RealEdge(e)'
    PROVE  VirtualReal'
<1>1. /\ NotesPlain(prog)' <=> NotesPlain(prog)
      /\ JumpsAlone' <=> JumpsAlone
      /\ \A f : FrameReal(f)' <=> FrameReal(f)
      /\ \A e : RealEdge(e) => RealEdge(e)'
  BY SameReal
<1> QED BY <1>1 DEF VirtualReal

\* The frame of a function that is not inlined, and the edge to its entry.
LEMMA PushReal ==
    ASSUME BuilderTypes, FramesInv, VirtualReal, phase' \notin {"find", "link", "built"},
           prog' = prog, top' = top, outs' = outs, cfgs' = cfgs,
           NEW f \in cfgs \cup {prog.start},
           Push(stack, f, f, <<>>, <<f, <<>>, None>>, <<f, <<>>, Exit>>)
    PROVE  VirtualReal'
<1> DEFINE n == Len(stack)
           new == [cfg |-> f, root |-> f, ctx |-> <<>>, exit |-> <<f, <<>>, Exit>>,
                   todo |-> ScanBlocks(f), src |-> NoBlock, called |-> <<>>, after |-> NoBlock]
           entry == <<<<f, <<>>, None>>, <<f, <<>>, f>>, "VIRTUAL_CALL">>
<1>1. stack' = Append(stack, new) /\ vedges' = vedges \cup {entry}
  BY DEF Push
<1>2. entry[1][3] \notin Insts
  BY InstsAre
<1>3. FrameReal(new)
  <2>1. RealCalls(<<f, <<>>, None>>) = {}
    BY DEF RealCalls
  <2>2. ExitReal(f, <<>>, <<f, <<>>, Exit>>)
    BY <2>1 DEF ExitReal, RealReturn
  <2>3. ToSet(<<>>) = {}
    BY DEF ToSet
  <2> QED BY <2>2, <2>3 DEF FrameReal
<1>4. stack \in Seq(Frames) /\ n \in Nat /\ DOMAIN stack = 1..n
  BY LenProperties DEF FramesInv
<1>5. new \in Frames
  <2>1. f \in Insts
    BY ProgramsAssumption DEF BuilderTypes
  <2>2. /\ <<>> \in Contexts /\ <<f, <<>>, Exit>> \in VirtualBlocks \ {NoBlock}
        /\ NoBlock \in VirtualBlocks /\ ScanBlocks(f) \in SUBSET Insts /\ <<>> \in Seq(Insts)
    BY <2>1, ProperBlocks, ScanBlocksTyped, EmptySeq
  <2> QED BY <2>1, <2>2 DEF Frames
<1> HIDE DEF new, entry
<1>6. /\ DOMAIN stack' = 1..(n + 1) /\ stack'[n + 1] = new
      /\ \A k \in 1..n : stack'[k] = stack[k]
  BY <1>1, <1>4, <1>5, AppendProperties, LenProperties
<1>7. ASSUME NotesPlain(prog) /\ JumpsAlone, NEW k \in DOMAIN stack' PROVE FrameReal(stack'[k])
  <2>1. k = n + 1 \/ k \in 1..n
    BY <1>4, <1>6
  <2> QED BY <1>3, <1>4, <1>6, <1>7, <2>1 DEF VirtualReal
<1>8. \A e \in vedges' : e[1][3] \in Insts => e \in vedges
  BY <1>1, <1>2
<1> QED BY <1>1, <1>7, <1>8, VirtualStep

LEMMA TranslateReal ==
    ASSUME VirtualizerInv, BuiltReal, VirtualReal, TranslateBlock
    PROVE  VirtualReal'
<1> DEFINE b == BlockHere
           src == VBlock(Frame, b)
           new == [Frame EXCEPT !.src = src, !.called = Inlined, !.after = After,
                                !.todo = Frame.todo \ {b}]
           n == Len(stack)
           i == top[b]
           here == Scanned(Frame.cfg, b)
<1>1. /\ AtBlock /\ stack # <<>> /\ phase' = phase /\ phase = "inline"
      /\ prog' = prog /\ top' = top /\ outs' = outs /\ cfgs' = cfgs
      /\ vedges' = vedges \cup UNION {Translated(e, src) : e \in ToSet(EdgesHere)}
      /\ stack' = [stack EXCEPT ![n] = new]
  BY DEF TranslateBlock, AtBlock, builder
<1>2. /\ BuilderTypes /\ FramesInv
      /\ n \in Nat \ {0} /\ DOMAIN stack = 1..n /\ n \in DOMAIN stack
      /\ Frame \in Frames /\ Frame = stack[n]
  BY <1>1, FrameIs DEF VirtualizerInv, BuilderInv
<1>3. b \in Insts /\ EdgesHere \in Seq(ScannedEdges)
  BY <1>1, <1>2, HereIs
<1> SUFFICES ASSUME NotesPlain(prog), JumpsAlone
             PROVE  /\ \A k \in DOMAIN stack' : FrameReal(stack'[k])
                    /\ \A e \in vedges' : e \in vedges \/ RealEdge(e)'
  BY <1>1, VirtualStep
<1>4. \A k \in DOMAIN stack : FrameReal(stack[k])
  BY DEF VirtualReal
<1>5. /\ Frame.cfg \in cfgs \cup {prog.start} /\ Frame.todo \subseteq ScanBlocks(Frame.cfg)
      /\ ExitReal(Frame.root, Frame.ctx, Frame.exit)
  BY <1>2, <1>4 DEF FrameReal
<1>6. b \in ScanBlocks(Frame.cfg) /\ Frame.cfg \in Insts
  <2>1. Frame.todo \in SUBSET Nat /\ Frame.todo # {}
    BY <1>1, <1>2, InstsAre DEF AtBlock, Frames
  <2>2. \E x \in Frame.todo : \A y \in Frame.todo : x <= y
    BY <2>1, LeastElement
  <2>3. b \in Frame.todo
    BY <2>2 DEF BlockHere, Min
  <2> QED BY <1>2, <1>5, <2>3 DEF Frames
<1>7. ToSet(EdgesHere) = here
  BY <1>2, <1>3, ScanEdgesWhole DEF EdgesHere
<1>8. /\ \A e \in here : e.kind = "CALL" => {<<"call", e.target>>, <<"go", e.target>>} \cap Moves(i) # {}
      /\ \A e \in here : e.kind # "CALL" /\ e.target # Exit =>
            /\ e.kind \in {"TAKEN", "NOT_TAKEN"}
            /\ <<"go", e.target>> \in Moves(i) \/ e.target = i + 1
      /\ \A e \in here : e.kind # "CALL" /\ e.target = Exit =>
            \/ Moves(i) \cap {<<"return", None>>, <<"stop", None>>} # {}
            \/ \E d \in here : /\ d.kind = "CALL" /\ d.target \in cfgs
                               /\ <<"go", d.target>> \in Moves(i)
      /\ \A e, d \in here :
            e.kind = "CALL" /\ (d.target = Exit \/ d.kind = "NOT_TAKEN") =>
               IF isCall(i) \/ e.target \in CallTargets(i)
               THEN d.target # Exit /\ d.target = i + 1
               ELSE d.target = Exit
  BY <1>2, <1>5, <1>6, ScannedReal
<1>9. /\ Inlined \in Seq(Insts)
      /\ ToSet(Inlined) = {e.target : e \in {e \in here :
             prog.inlining /\ e.kind = "CALL" /\ e.target \in cfgs \ prog.apart}}
      /\ Inlined = <<>> <=> ToSet(Inlined) = {}
  BY <1>2, <1>3, <1>7, InlinedWhole
<1> HIDE DEF here, b
\* The frame: where the inlined calls return.
<1>10. ASSUME NEW g \in ToSet(Inlined)
       PROVE  /\ {<<"call", g>>, <<"go", g>>} \cap Moves(i) # {}
              /\ After # NoBlock => ExitReal(Frame.root, Append(Frame.ctx, <<b, g>>), After)
  <2>1. PICK e \in here : e.kind = "CALL" /\ e.target = g
    BY <1>9
  <2>2. {<<"call", g>>, <<"go", g>>} \cap Moves(i) # {}
    BY <1>8, <2>1
  <2>3. ASSUME After # NoBlock
        PROVE  ExitReal(Frame.root, Append(Frame.ctx, <<b, g>>), After)
    <3> DEFINE set == {k \in DOMAIN EdgesHere :
                          EdgesHere[k].target = Exit \/ EdgesHere[k].kind = "NOT_TAKEN"}
               last == EdgesHere[Max(set)]
    <3>1. set # {} /\ After = IF last.target = Exit THEN Frame.exit ELSE VBlock(Frame, last.target)
      BY <2>3 DEF After
    <3>2. Max(set) \in set
      <4>1. Len(EdgesHere) \in Nat /\ set \in SUBSET (0..Len(EdgesHere))
        BY <1>3, LenProperties
      <4>2. \E x \in set : \A y \in set : x >= y
        BY <3>1, <4>1, GreatestElement
      <4> QED BY <4>2 DEF Max
    <3>3. last \in here /\ (last.target = Exit \/ last.kind = "NOT_TAKEN")
      BY <1>7, <3>2 DEF ToSet
    <3> HIDE DEF last, set
    <3>4. g \in Insts /\ Frame.ctx \in Contexts
      BY <1>2, <1>9, ElementsIn DEF Frames
    <3>5. IF isCall(i) \/ g \in CallTargets(i)
          THEN last.target # Exit /\ last.target = i + 1 ELSE last.target = Exit
      BY <1>8, <2>1, <3>3
    <3>6. IF isCall(i) \/ g \in CallTargets(i)
          THEN After[3] = i + 1 ELSE ExitReal(Frame.root, Frame.ctx, After)
      BY <1>5, <3>1, <3>5 DEF VBlock
    <3> QED BY <1>3, <3>4, <3>6, CallExit
  <2> QED BY <2>2, <2>3
<1>11. /\ new.cfg = Frame.cfg /\ new.root = Frame.root /\ new.ctx = Frame.ctx /\ new.exit = Frame.exit
       /\ new.src = src /\ new.called = Inlined /\ new.after = After /\ new.todo \subseteq Frame.todo
  BY <1>2 DEF Frames
<1> HIDE DEF new
<1>12. FrameReal(new)
  <2>1. ToSet(new.called) \subseteq cfgs
    BY <1>9, <1>11
  <2>2. new.src = VBlock(new, b)
    BY <1>11 DEF VBlock
  <2>3. \A g \in ToSet(new.called) : CallReal(new, b, g)
    BY <1>10, <1>11 DEF CallReal
  <2> QED BY <1>3, <1>5, <1>11, <2>1, <2>2, <2>3 DEF FrameReal
<1>13. \A k \in DOMAIN stack' : FrameReal(stack'[k])
  <2>1. DOMAIN stack' = DOMAIN stack /\ \A k \in DOMAIN stack : stack'[k] = IF k = n THEN new ELSE stack[k]
    BY <1>1
  <2> QED BY <1>4, <1>12, <2>1
\* The edges.
<1>v. src[1] = Frame.root /\ src[2] = Frame.ctx /\ src[3] = b
  BY DEF VBlock
<1> HIDE DEF src
<1>14. PICK s : s = src /\ s[1] = Frame.root /\ s[2] = Frame.ctx /\ s[3] = b
  BY <1>v
<1>15. /\ \A j : Moves(j)' = Moves(j) /\ (isCall(j)' <=> isCall(j)) /\ CallTargets(j)' = CallTargets(j)
       /\ top' = top
  BY <1>1 DEF Moves, isCall, CallTargets, BranchTargets, target, has, isConditional, isControl
<1>16. ASSUME NEW e \in here, CalledApart(e)
       PROVE  <<s, <<e.target, <<>>, None>>, "CALL">> \in vedges'
  BY <1>1, <1>7, <1>14, <1>16 DEF Translated, CalledApart
<1>17. ASSUME NEW x \in vedges', x \notin vedges PROVE RealEdge(x)'
  <2>1. PICK e \in here : x \in Translated(e, s)
    BY <1>1, <1>7, <1>14, <1>17
  <2>2. CASE CalledApart(e)
    <3>1. x = <<s, <<e.target, <<>>, None>>, "CALL">>
      BY <1>14, <2>1, <2>2 DEF Translated, CalledApart
    <3>2. e.kind = "CALL"
      BY <2>2 DEF CalledApart
    <3>3. {<<"call", e.target>>, <<"go", e.target>>} \cap Moves(i) # {}
      BY <1>8, <3>2
    <3> QED BY <1>14, <1>15, <3>1, <3>3 DEF RealEdge
  <2>3. CASE ~ CalledApart(e) /\ e.kind # "CALL" /\ e.target = Exit
    <3>1. x = <<s, Frame.exit, "VIRTUAL_RETURN">> /\ Inlined = <<>>
      BY <1>14, <2>1, <2>3 DEF Translated
    <3>2. RealReturn(x)'
      <4>1. RealCalls(s)' = RealCalls(<<Frame.root, Frame.ctx, None>>)
        BY <1>14, <1>15 DEF RealCalls
      <4>2. x[1] = s /\ x[2] = Frame.exit
        BY <3>1
      <4> QED BY <1>1, <1>5, <1>14, <4>1, <4>2 DEF ExitReal, RealReturn
    <3>3. \/ Moves(i) \cap {<<"return", None>>, <<"stop", None>>} # {}
          \/ \E d \in From(s)' : d[3] = "CALL" /\ <<"go", d[2][1]>> \in Moves(i)
      <4>1. CASE \E d \in here : d.kind = "CALL" /\ d.target \in cfgs /\ <<"go", d.target>> \in Moves(i)
        <5>1. PICK d \in here : d.kind = "CALL" /\ d.target \in cfgs /\ <<"go", d.target>> \in Moves(i)
          BY <4>1
        <5>2. CalledApart(d)
          BY <1>9, <3>1, <5>1 DEF CalledApart
        <5> DEFINE y == <<s, <<d.target, <<>>, None>>, "CALL">>
        <5>3. y \in vedges' /\ y[1] = s /\ y[2][1] = d.target /\ y[3] = "CALL"
          BY <1>16, <5>2
        <5> QED BY <1>15, <5>1, <5>3 DEF From
      <4> QED BY <1>8, <2>3, <4>1
    <3> QED BY <1>14, <1>15, <3>1, <3>2, <3>3 DEF RealEdge
  <2>4. CASE e.kind # "CALL" /\ e.target # Exit
    <3>1. x = <<s, VBlock(Frame, e.target), e.kind>>
      BY <1>14, <2>1, <2>4 DEF Translated, CalledApart
    <3>2. /\ e.kind \in {"TAKEN", "NOT_TAKEN"}
          /\ <<"go", e.target>> \in Moves(i) \/ e.target = i + 1
      BY <1>8, <2>4
    <3>3. x[1] = s /\ x[2][3] = e.target /\ x[3] \in {"TAKEN", "NOT_TAKEN"}
      BY <3>1, <3>2 DEF VBlock
    <3> QED BY <1>14, <1>15, <3>2, <3>3 DEF RealEdge
  <2> QED BY <2>1, <2>2, <2>3, <2>4 DEF Translated
<1> QED BY <1>13, <1>17

LEMMA InlineCallReal ==
    ASSUME VirtualizerInv, VirtualReal, InlineCall
    PROVE  VirtualReal'
<1> DEFINE n == Len(stack)
           f == Head(Frame.called)
           rest == [Frame EXCEPT !.called = Tail(Frame.called)]
           frames == [stack EXCEPT ![n] = rest]
<1>1. /\ phase = "inline" /\ phase' = phase
      /\ prog' = prog /\ top' = top /\ outs' = outs /\ cfgs' = cfgs
      /\ stack # <<>> /\ Frame.called # <<>> /\ vedges \subseteq vedges'
  BY DEF InlineCall, builder, Push
<1>2. /\ BuilderTypes /\ FramesInv
      /\ n \in Nat \ {0} /\ DOMAIN stack = 1..n /\ n \in DOMAIN stack
      /\ Frame \in Frames /\ Frame = stack[n] /\ stack \in Seq(Frames)
  BY <1>1, FrameIs DEF VirtualizerInv, BuilderInv, FramesInv
<1> SUFFICES ASSUME NotesPlain(prog), JumpsAlone
             PROVE  /\ \A k \in DOMAIN stack' : FrameReal(stack'[k])
                    /\ \A e \in vedges' : e \in vedges \/ RealEdge(e)'
  BY <1>1, VirtualStep
<1>3. \A k \in DOMAIN stack : FrameReal(stack[k])
  BY DEF VirtualReal
<1>4. Frame.called \in Seq(Insts)
  BY <1>2 DEF Frames
<1>5. /\ Tail(Frame.called) \in Seq(Insts) /\ f \in Insts /\ f \in ToSet(Frame.called)
      /\ ToSet(Tail(Frame.called)) \subseteq ToSet(Frame.called)
  BY <1>1, <1>4, RestElements
<1>6. PICK b \in Insts : Frame.src = VBlock(Frame, b) /\ \A g \in ToSet(Frame.called) : CallReal(Frame, b, g)
  BY <1>1, <1>2, <1>3 DEF FrameReal
<1>7. /\ {<<"call", f>>, <<"go", f>>} \cap Moves(top[b]) # {}
      /\ Frame.after # NoBlock => ExitReal(Frame.root, Append(Frame.ctx, <<b, f>>), Frame.after)
      /\ f \in cfgs
  BY <1>2, <1>3, <1>5, <1>6 DEF CallReal, FrameReal
<1>8. frames = [stack EXCEPT ![Len(stack)].called = Tail(@)]
  BY <1>2
<1>9. /\ rest \in Frames /\ rest.cfg = Frame.cfg /\ rest.root = Frame.root /\ rest.ctx = Frame.ctx
      /\ rest.exit = Frame.exit /\ rest.src = Frame.src /\ rest.called = Tail(Frame.called)
      /\ rest.after = Frame.after /\ rest.todo = Frame.todo
  BY <1>2, <1>5 DEF Frames
<1> HIDE DEF rest, f
<1>10. FrameReal(rest)
  <2>1. rest.src = VBlock(rest, b)
    BY <1>6, <1>9 DEF VBlock
  <2>2. \A g \in ToSet(rest.called) : CallReal(rest, b, g)
    BY <1>5, <1>6, <1>9 DEF CallReal
  <2> QED BY <1>2, <1>3, <1>5, <1>9, <2>1, <2>2 DEF FrameReal
<1>11. /\ frames \in Seq(Frames) /\ Len(frames) = n /\ DOMAIN frames = 1..n
       /\ \A k \in 1..n : FrameReal(frames[k])
  <2>1. \A k \in 1..n : frames[k] = IF k = n THEN rest ELSE stack[k]
    BY <1>2
  <2> QED BY <1>2, <1>3, <1>9, <1>10, <2>1, ExceptSeq, LenProperties
<1> HIDE DEF frames
<1>12. (\A j : Moves(j)' = Moves(j)) /\ top' = top
  BY <1>1 DEF Moves, isCall, CallTargets, BranchTargets, target, has, isConditional, isControl
<1>13. Frame.src[3] = b
  BY <1>6 DEF VBlock
\* An edge to an entry of f is a call.
<1>14. ASSUME NEW x, x[1] = Frame.src, x[2][3] = f, x[3] = "VIRTUAL_CALL" PROVE RealEdge(x)'
  BY <1>7, <1>12, <1>13, <1>14 DEF RealEdge
<1>15. CASE InProgress(f) # {}
  <2> DEFINE g == stack[Max(InProgress(f))]
             e == <<Frame.src, VBlock(g, f), "VIRTUAL_CALL">>
  <2>1. stack' = frames /\ vedges' = vedges \cup {e}
    BY <1>8, <1>15 DEF InlineCall, f
  <2>2. e[1] = Frame.src /\ e[2][3] = f /\ e[3] = "VIRTUAL_CALL"
    BY DEF VBlock
  <2> HIDE DEF e
  <2>3. \A x \in vedges' : x \in vedges \/ RealEdge(x)'
    BY <1>14, <2>1, <2>2
  <2> QED BY <1>11, <2>1, <2>3
<1>16. CASE InProgress(f) = {} /\ Frame.after # NoBlock
  <2> DEFINE ctx == Append(Frame.ctx, <<Frame.src[3], f>>)
             e == <<Frame.src, <<Frame.root, ctx, f>>, "VIRTUAL_CALL">>
             new == [cfg |-> f, root |-> Frame.root, ctx |-> ctx, exit |-> Frame.after,
                     todo |-> ScanBlocks(f), src |-> NoBlock, called |-> <<>>, after |-> NoBlock]
  <2>1. stack' = Append(frames, new) /\ vedges' = vedges \cup {e}
    BY <1>8, <1>16 DEF InlineCall, Push, f
  <2>2. e[1] = Frame.src /\ e[2][3] = f /\ e[3] = "VIRTUAL_CALL"
    OBVIOUS
  <2>3. ExitReal(Frame.root, ctx, Frame.after)
    BY <1>7, <1>13, <1>16
  <2>4. ctx \in Contexts
    <3>1. Frame.ctx \in Contexts /\ <<Frame.src[3], f>> \in (Insts \cup {None, Exit}) \X Insts
      BY <1>2, <1>5, <1>13 DEF Frames, f
    <3> QED BY <3>1, AppendProperties DEF Contexts
  <2> HIDE DEF e, ctx
  <2>5. new \in Frames
    <3>1. ScanBlocks(f) \in SUBSET Insts /\ NoBlock \in VirtualBlocks /\ <<>> \in Seq(Insts)
      BY <1>2, <1>5, ScanBlocksTyped, ProperBlocks, EmptySeq DEF f
    <3>2. Frame.root \in Insts /\ Frame.after \in VirtualBlocks \ {NoBlock} /\ f \in Insts
      BY <1>2, <1>5, <1>16 DEF Frames, f
    <3> QED BY <2>4, <3>1, <3>2 DEF Frames
  <2>6. FrameReal(new)
    <3>1. ToSet(<<>>) = {}
      BY DEF ToSet
    <3> QED BY <1>7, <2>3, <3>1 DEF FrameReal
  <2> HIDE DEF new
  <2>7. /\ DOMAIN stack' = 1..(n + 1) /\ stack'[n + 1] = new
        /\ \A k \in 1..n : stack'[k] = frames[k]
    BY <1>2, <1>11, <2>1, <2>5, AppendProperties, LenProperties
  <2>8. ASSUME NEW k \in DOMAIN stack' PROVE FrameReal(stack'[k])
    <3>1. k = n + 1 \/ k \in 1..n
      BY <1>2, <2>7
    <3> QED BY <1>11, <2>6, <2>7, <3>1
  <2>9. \A x \in vedges' : x \in vedges \/ RealEdge(x)'
    BY <1>14, <2>1, <2>2
  <2> QED BY <2>8, <2>9
<1>17. CASE InProgress(f) = {} /\ Frame.after = NoBlock
  <2>1. stack' = stack /\ vedges' = vedges
    BY <1>17 DEF InlineCall, f
  <2> QED BY <1>3, <2>1
<1> QED BY <1>15, <1>16, <1>17

\* The steps that make no edge.
LEMMA QuietReal ==
    ASSUME VirtualizerInv, VirtualReal, EndInline \/ Start \/ Execute \/ UNCHANGED vars
    PROVE  VirtualReal'
<1>1. /\ prog' = prog /\ top' = top /\ outs' = outs /\ cfgs' = cfgs /\ vedges' = vedges
      /\ phase' = phase \/ (phase = "inline" /\ phase' = "run")
      /\ stack' = stack \/ (stack # <<>> /\ stack' = Front(stack))
  BY DEF EndInline, Start, Execute, vars, builder, inlining
<1>2. \A k \in DOMAIN stack' : k \in DOMAIN stack /\ stack'[k] = stack[k]
  <2>1. CASE stack' = stack
    BY <2>1
  <2>2. CASE stack # <<>> /\ stack' = Front(stack)
    <3> DEFINE n == Len(stack)
    <3>1. n \in Nat \ {0} /\ DOMAIN stack = 1..n /\ stack \in Seq(Frames)
      BY <2>2, FrameIs DEF VirtualizerInv, FramesInv
    <3>2. DOMAIN stack' = 1..(n - 1) /\ \A k \in 1..(n - 1) : stack'[k] = stack[k]
      BY <2>2, <3>1, SubSeqProperties, LenProperties DEF Front
    <3> QED BY <3>1, <3>2
  <2> QED BY <1>1, <2>1, <2>2
<1>3. /\ NotesPlain(prog)' <=> NotesPlain(prog)
      /\ JumpsAlone' <=> JumpsAlone
      /\ \A f : FrameReal(f)' <=> FrameReal(f)
      /\ \A e : RealEdge(e) => RealEdge(e)'
  BY <1>1, SameReal
<1> QED BY <1>1, <1>2, <1>3 DEF VirtualReal

\* The builder makes no edge of a virtual CFG.
LEMMA BuildStepReal ==
    ASSUME VirtualizerInv, BuiltReal, VirtualReal, BuildStep
    PROVE  BuiltReal' /\ VirtualReal'
<1>1. BuiltReal'
  BY FindReal, LinkReal, SegmentReal DEF VirtualizerInv, BuildStep, Build
<1>2. /\ phase \in {"find", "link"} /\ phase' \in {"find", "link", "built"}
      /\ vedges' = vedges /\ stack' = stack
  BY DEF BuildStep, Build, FindBlocks, FindDone, LinkBlocks, SegmentDone, inlining
<1>3. vedges = {} /\ DOMAIN stack = {}
  <2>1. stack = <<>>
    BY <1>2 DEF VirtualizerInv, FramesInv
  <2>2. DOMAIN <<>> = {}
    OBVIOUS
  <2> QED BY <1>2, <2>1, <2>2 DEF VirtualReal
<1>4. VirtualReal'
  BY <1>2, <1>3 DEF VirtualReal
<1> QED BY <1>1, <1>4

LEMMA InlineReal ==
    ASSUME VirtualizerInv, BuiltReal, VirtualReal, Inline
    PROVE  VirtualReal'
<1>1. BuilderTypes /\ FramesInv
  BY DEF VirtualizerInv, BuilderInv
<1>2. CASE Virtualize
  <2>1. /\ prog' = prog /\ top' = top /\ outs' = outs /\ cfgs' = cfgs /\ phase' = "inline"
        /\ Push(stack, prog.start, prog.start, <<>>, <<prog.start, <<>>, None>>, <<prog.start, <<>>, Exit>>)
    BY <1>2 DEF Virtualize, PushCFG
  <2> QED BY <1>1, <2>1, PushReal
<1>3. CASE VirtualizeApart
  <2>1. /\ prog' = prog /\ top' = top /\ outs' = outs /\ cfgs' = cfgs
        /\ phase = "inline" /\ phase' = phase
    BY <1>3 DEF VirtualizeApart, AtBlock, builder
  <2>2. PICK f \in cfgs : Push(stack, f, f, <<>>, <<f, <<>>, None>>, <<f, <<>>, Exit>>)
    BY <1>3 DEF VirtualizeApart, PushCFG, Apart
  <2> QED BY <1>1, <2>1, <2>2, PushReal
<1>4. CASE TranslateBlock
  BY <1>4, TranslateReal
<1>5. CASE InlineCall
  BY <1>5, InlineCallReal
<1>6. CASE EndInline
  BY <1>6, QuietReal
<1> QED BY <1>2, <1>3, <1>4, <1>5, <1>6 DEF Inline

-----------------------------------------------------------------------------
(* The theorems.                                                           *)

\* The invariant holds in every state: types, the two loops of buildCFG, the
\* stack of virtualize().
THEOREM VirtualizerInvariant == Spec => []VirtualizerInv
<1>1. Init => VirtualizerInv
  <2> SUFFICES ASSUME Init PROVE VirtualizerInv
    OBVIOUS
  <2>1. BuilderInv
    BY BuilderStarts DEF Init
  <2>2. stack = <<>> /\ cfgMap = {} /\ fault = "none" /\ phase = "find"
    BY DEF Init, BuilderInit
  <2>3. stack \in Seq(Frames) /\ DOMAIN stack = {}
    BY <2>2, EmptySeq
  <2> QED BY <2>1, <2>2, <2>3 DEF VirtualizerInv, FramesInv, InliningBounded, ReturnsInv, NoAssertFails
<1>2. VirtualizerInv /\ [Next]_vars => VirtualizerInv'
  BY BuildStepKeeps, VirtualizeStep, VirtualizeApartStep, TranslateBlockStep, InlineCallStep,
     EndInlineStep, ExecutionStep DEF Next, Inline
<1> QED BY <1>1, <1>2, PTL DEF Spec

\* CFGBuilder gives its instructions to every block that an edge leads to, and
\* no instruction to two blocks, when the targets are found in time.
THEOREM BlocksTheorem == Spec => [](InTime(prog) => BlocksWhole)
<1>1. VirtualizerInv => (InTime(prog) => BlocksWhole)
  BY DEF VirtualizerInv, BuilderInv, BlocksInv
<1> QED BY <1>1, VirtualizerInvariant, PTL

\* virtualize() is never called for a function in progress: its calls are never
\* nested deeper than the number of functions, on any program.
THEOREM InliningTheorem == Spec => []InliningBounded
<1>1. VirtualizerInv => InliningBounded
  BY DEF VirtualizerInv
<1> QED BY <1>1, VirtualizerInvariant, PTL

\* The assertions of virtualize() hold when functions are inlined and the calls
\* of the program are followed by an instruction.
THEOREM AssertionsTheorem == Spec => [](prog.inlining /\ CallsFollowed(prog) => NoAssertFails)
<1>1. VirtualizerInv => (prog.inlining /\ CallsFollowed(prog) => NoAssertFails)
  BY DEF VirtualizerInv, ReturnsInv
<1> QED BY <1>1, VirtualizerInvariant, PTL

\* The edges of the virtual CFG are moves of the last instructions of their
\* blocks, and an inlined return leads after its call, when the annotations are
\* plain and the jumps out of a function stand alone.
THEOREM EdgesTheorem == Spec => [](NotesPlain(prog) /\ JumpsAlone => EdgesReal)
<1> DEFINE Inv == VirtualizerInv /\ BuiltReal /\ VirtualReal
<1>1. Init /\ VirtualizerInv => Inv
  <2> SUFFICES ASSUME Init, VirtualizerInv PROVE BuiltReal /\ VirtualReal
    OBVIOUS
  <2>1. BuiltReal
    BY RealStarts DEF Init
  <2>2. vedges = {} /\ stack = <<>> /\ DOMAIN <<>> = {}
    BY DEF Init
  <2> QED BY <2>1, <2>2 DEF VirtualReal
<1>2. Inv /\ [Next]_vars => BuiltReal' /\ VirtualReal'
  <2> SUFFICES ASSUME VirtualizerInv, BuiltReal, VirtualReal, [Next]_vars
               PROVE  BuiltReal' /\ VirtualReal'
    OBVIOUS
  <2>1. CASE BuildStep
    BY <2>1, BuildStepReal
  <2>2. CASE Inline
    <3>1. /\ phase \in {"built", "inline"} /\ phase' \notin {"find", "link"}
          /\ prog' = prog /\ top' = top /\ outs' = outs /\ returns' = returns
      BY <2>2 DEF Inline, Virtualize, VirtualizeApart, TranslateBlock, InlineCall, EndInline,
                  AtBlock, builder
    <3>2. BuiltReal'
      BY <3>1, RealKept
    <3> QED BY <2>2, <3>2, InlineReal
  <2>3. CASE Start \/ Execute
    <3>1. /\ phase \notin {"find", "link"} /\ phase' \notin {"find", "link"}
          /\ prog' = prog /\ top' = top /\ outs' = outs /\ returns' = returns
      BY <2>3 DEF Start, Execute, builder
    <3>2. BuiltReal'
      BY <3>1, RealKept
    <3> QED BY <2>3, <3>2, QuietReal
  <2>4. CASE UNCHANGED vars
    <3>1. BuiltReal'
      BY <2>4, SameMoves, SameProgram DEF vars, builder, BuiltReal, WorkReal, Building, Passed, BlockReal
    <3> QED BY <2>4, <3>1, QuietReal
  <2> QED BY <2>1, <2>2, <2>3, <2>4 DEF Next
<1>3. Inv => (NotesPlain(prog) /\ JumpsAlone => EdgesReal)
  BY DEF VirtualReal, EdgesReal
<1> QED BY <1>1, <1>2, <1>3, VirtualizerInvariant, PTL DEF Spec
=============================================================================
