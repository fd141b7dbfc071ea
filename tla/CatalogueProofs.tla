--------------------------- MODULE CatalogueProofs ---------------------------
(***************************************************************************)
(* When the declarations of the processors are coherent, no assertion of    *)
(* provide() and process() fails and an invalidation lasts, however the     *)
(* processors call each other.                                              *)
(***************************************************************************)
EXTENDS FeatureEngineProofs

-----------------------------------------------------------------------------
(* The invariant.                                                          *)

\* The features of a kind that the loop of frame x over its usages has passed.
Passed(x, kind) ==
    {Usages[x.proc][j].feature :
        j \in {j \in DOMAIN Usages[x.proc] : j < x.i /\ Usages[x.proc][j].kind = kind}}

\* f is not provided, or is the feature whose invalidation is going on.
Gone(f) == ~Provided(f) \/ (inv # <<>> /\ inv[1].feature = f)

\* What p invalidates before the requirements.
Unused(p) == Invalidated(p) \ UsedBy(p)

\* The calls of process(): outer ones wait in their requirement loops for
\* processors their requirements may run.  Only the invalidation loops of
\* process() have an invalidation in progress.
CallsInv ==
    /\ \A k \in 1..(Len(stack) - 1) : stack[k].pc = "need"
    /\ \A j, k \in 1..Len(stack) : j < k => stack[k].proc \in Helpers(stack[j].proc)
    /\ \A k \in 1..Len(stack) : stack[k].required \subseteq Required(stack[k].proc)
    /\ mode = "dying" => stack = <<>>
    /\ inv # <<>> /\ stack # <<>> => Top.pc \in {"preinvalidate", "postinvalidate"}

\* Dependencies come from the declaration of some processor.
OriginInv ==
    \A n \in DOMAIN heap : \A m \in heap[n].parents :
        <<heap[m].feature, heap[n].feature>> \in MayDepend

\* What a frame has invalidated before its requirements stays away.
AbsentInv ==
    \A k \in 1..Len(stack) :
        stack[k].pc \in {"need", "check", "work", "postinvalidate"} =>
            \A f \in Unused(stack[k].proc) : ~Provided(f)

\* The innermost frame, phase by phase.
PreInv(x) == \A f \in Passed(x, "invalidate") \ UsedBy(x.proc) : Gone(f)

PostInv(x) ==
    /\ \A k \in 1..Len(inv) : inv[k].feature \in Affected(x.proc)
    /\ \A f \in Passed(x, "invalidate") \cap UsedBy(x.proc) : Gone(f) /\ f \notin x.required

RequiredInv(x) == \A r \in x.required : r \in Affected(x.proc) \/ Provided(r)

ProvideInv(x) ==
    /\ \A r \in x.required : Provided(r) /\ r \notin Invalidated(x.proc)
    /\ \A f \in Invalidated(x.proc) : Provided(f) =>
          f \in ProvidedBy(x.proc) /\ heap[featMap[f]].children = <<>>

TopInv ==
    stack # <<>> =>
        /\ Top.pc = "preinvalidate" => PreInv(Top)
        /\ Top.pc = "postinvalidate" => PostInv(Top)
        /\ Top.pc \in {"work", "postinvalidate"} => RequiredInv(Top)
        /\ Top.pc \in {"provide", "clean"} => ProvideInv(Top)
        /\ Top.pc = "provide" => \A f \in Passed(Top, "provide") : Provided(f)
        /\ Top.pc = "clean" => \A f \in ProvidedBy(Top.proc) : Provided(f)

CatalogueInv == CallsInv /\ OriginInv /\ AbsentInv /\ TopInv /\ NoAssertFails

-----------------------------------------------------------------------------
(* The declarations.                                                       *)

\* The usages of a processor, and the features they name.
LEMMA DeclarationsTyped ==
    ASSUME NEW p \in Processors
    PROVE  /\ Len(Usages[p]) \in Nat
           /\ DOMAIN Usages[p] = 1..Len(Usages[p])
           /\ \A j \in DOMAIN Usages[p] : Usages[p][j].feature \in Features
           /\ Required(p) \subseteq UsedBy(p)
           /\ UsedBy(p) \subseteq Features
           /\ Invalidated(p) \subseteq Features
           /\ ProvidedBy(p) \subseteq Features
<1> DEFINE u == Usages[p]
<1>1. u \in Seq([kind : Kinds, feature : Features])
  BY CatalogueAssumption
<1> HIDE DEF u
<1>2. Len(u) \in Nat /\ DOMAIN u = 1..Len(u)
  BY <1>1, LenProperties
<1>3. \A j \in 1..Len(u) : u[j] \in [kind : Kinds, feature : Features]
  BY <1>1, ElementOfSeq
<1>4. \A j \in DOMAIN u : u[j].feature \in Features
  BY <1>2, <1>3
<1>5. \A j \in DOMAIN Usages[p] : Usages[p][j].feature \in Features
  BY <1>4 DEF u
<1>6. Required(p) \subseteq UsedBy(p)
  BY <1>5 DEF Required, UsedBy, Uses
<1>7. UsedBy(p) \subseteq Features
  BY DEF UsedBy
<1>8. Invalidated(p) \subseteq Features /\ ProvidedBy(p) \subseteq Features
  BY <1>5 DEF Invalidated, ProvidedBy
<1> QED BY <1>2, <1>5, <1>6, <1>7, <1>8 DEF u

\* A loop that begins has passed nothing, one that ends has passed all.
LEMMA PassedEnds ==
    ASSUME NEW x \in FrameType
    PROVE  /\ x.i = 1 => \A kind : Passed(x, kind) = {}
           /\ ~ (x.i <= Len(Usages[x.proc])) =>
                /\ Passed(x, "invalidate") = Invalidated(x.proc)
                /\ Passed(x, "provide") = ProvidedBy(x.proc)
<1>1. x.proc \in Processors /\ x.i \in Nat \ {0}
  BY DEF FrameType
<1>2. DOMAIN Usages[x.proc] = 1..Len(Usages[x.proc]) /\ Len(Usages[x.proc]) \in Nat
  BY <1>1, DeclarationsTyped
<1>3. x.i = 1 => \A j \in DOMAIN Usages[x.proc] : ~ (j < x.i)
  BY <1>2
<1>4. ~ (x.i <= Len(Usages[x.proc])) => \A j \in DOMAIN Usages[x.proc] : j < x.i
  BY <1>1, <1>2
<1> QED BY <1>3, <1>4 DEF Passed, Invalidated, ProvidedBy

\* One more usage is passed.
LEMMA PassedNext ==
    ASSUME NEW x \in FrameType, NEW y \in FrameType, y.proc = x.proc, y.i = x.i + 1,
           x.i <= Len(Usages[x.proc]), NEW kind, NEW f \in Passed(y, kind)
    PROVE  \/ f \in Passed(x, kind)
           \/ Usages[x.proc][x.i].kind = kind /\ f = Usages[x.proc][x.i].feature
<1>1. x.proc \in Processors /\ x.i \in Nat \ {0}
  BY DEF FrameType
<1>2. DOMAIN Usages[x.proc] = 1..Len(Usages[x.proc]) /\ Len(Usages[x.proc]) \in Nat
  BY <1>1, DeclarationsTyped
<1>3. PICK j \in DOMAIN Usages[x.proc] :
        /\ j < y.i /\ Usages[x.proc][j].kind = kind
        /\ f = Usages[x.proc][j].feature
  BY DEF Passed
<1>4. j < x.i \/ j = x.i
  BY <1>1, <1>2, <1>3
<1> QED BY <1>3, <1>4 DEF Passed

\* The usage that a loop is at is one of the declaration.
LEMMA UsageDeclared ==
    ASSUME stack \in Seq(FrameType), stack # <<>>, More
    PROVE  /\ Usage.kind = "invalidate" => Usage.feature \in Invalidated(Top.proc)
           /\ Usage.kind = "provide" => Usage.feature \in ProvidedBy(Top.proc)
           /\ Usage.kind \in {"require", "use"} => Usage.feature \in UsedBy(Top.proc)
           /\ Usage.feature \in Features
<1>1. Top \in FrameType /\ Usage.feature \in Features
  BY MovesTyped, UsageTyped
<1>2. Top.proc \in Processors /\ Top.i \in Nat \ {0}
  BY <1>1 DEF FrameType
<1>3. Top.i \in DOMAIN Usages[Top.proc]
  BY <1>2, DeclarationsTyped DEF More
<1> QED BY <1>1, <1>3 DEF Usage, Invalidated, ProvidedBy, UsedBy, Uses

\* What is used and invalidated is affected, and so is what depends on it.
LEMMA AffectedClosed ==
    ASSUME NEW p \in Processors
    PROVE  /\ Invalidated(p) \cap UsedBy(p) \subseteq Affected(p)
           /\ \A f \in Affected(p), g \in Features :
                 <<f, g>> \in MayDepend => g \in Affected(p)
<1>1. UsedBy(p) \subseteq Features
  BY DeclarationsTyped
<1> QED BY <1>1 DEF Affected

\* A processor run for a requirement of p, or of one of its helpers, is a helper.
LEMMA HelpersClosed ==
    ASSUME NEW p \in Processors, NEW r \in Processors, r = p \/ r \in Helpers(p),
           NEW f \in UsedBy(r), NEW q \in Makers[f]
    PROVE  q \in Helpers(p) /\ q \in Processors
<1>1. q \in Processors
  BY DeclarationsTyped, CatalogueAssumption
<1>2. <<r, q>> \in MayRun
  BY DEF MayRun
<1>3. ASSUME NEW Q \in SUBSET Processors, \A d \in MayRun : d[1] \in Q \union {p} => d[2] \in Q
      PROVE  q \in Q
  <2>1. r \in Q \union {p}
    BY <1>3 DEF Helpers
  <2> QED BY <1>2, <1>3, <2>1
<1> QED BY <1>1, <1>3 DEF Helpers

-----------------------------------------------------------------------------
(* The stack of calls.                                                     *)

\* The innermost frame is replaced by another one of the same processor.
Moves ==
    /\ stack # <<>> /\ stack' # <<>>
    /\ Len(stack) \in Nat \ {0} /\ Len(stack') = Len(stack)
    /\ \A k \in 1..(Len(stack) - 1) : stack'[k] = stack[k]
    /\ Top = stack[Len(stack)] /\ Top' = stack'[Len(stack)]
    /\ Top \in FrameType /\ Top' \in FrameType
    /\ Top'.proc = Top.proc

\* SetTop is such a move.
LEMMA SetTopMoves ==
    ASSUME stack \in Seq(FrameType), stack # <<>>, NEW y \in FrameType, y.proc = Top.proc,
           SetTop(y)
    PROVE  Moves /\ Top' = y
<1>1. /\ Len(stack) \in Nat \ {0} /\ Top = stack[Len(stack)] /\ Top \in FrameType
  BY FrontLastProperties DEF Top
<1>2. /\ stack' \in Seq(FrameType) /\ Len(stack') = Len(stack)
      /\ \A k \in 1..(Len(stack) - 1) : stack'[k] = stack[k]
      /\ stack'[Len(stack)] = y
  BY ReplaceLast DEF SetTop
<1>3. stack' # <<>>
  BY <1>1, <1>2
<1>4. Top' = stack'[Len(stack)]
  BY <1>2, <1>3, FrontLastProperties DEF Top
<1> QED BY <1>1, <1>2, <1>3, <1>4 DEF Moves

\* The ways a loop of process() moves.
LEMMA LoopMoves ==
    ASSUME stack \in Seq(FrameType), stack # <<>>
    PROVE  /\ NextUsage => /\ Moves /\ Top'.i = Top.i + 1 /\ Top'.pc = Top.pc
                           /\ Top'.required = Top.required
           /\ \A pc \in Phases : Goto(pc) =>
                 /\ Moves /\ Top'.i = 1 /\ Top'.pc = pc
                 /\ Top'.required = Top.required
           /\ \A f : SetTop([[Top EXCEPT !.i = @ + 1] EXCEPT !.required = @ \ {f}]) =>
                 /\ Moves /\ Top'.i = Top.i + 1 /\ Top'.pc = Top.pc
                 /\ Top'.required = Top.required \ {f}
<1>1. Top \in FrameType
  BY MovesTyped
<1> DEFINE y == [Top EXCEPT !.i = @ + 1]
<1> DEFINE z(pc) == [[Top EXCEPT !.i = 1] EXCEPT !.pc = pc]
<1> DEFINE w(f) == [[Top EXCEPT !.i = @ + 1] EXCEPT !.required = @ \ {f}]
<1>2. /\ y \in FrameType /\ y.i = Top.i + 1 /\ y.pc = Top.pc
      /\ y.required = Top.required /\ y.proc = Top.proc
  BY <1>1, MovesTyped DEF FrameType
<1>3. ASSUME NEW pc \in Phases
      PROVE  /\ z(pc) \in FrameType /\ z(pc).i = 1 /\ z(pc).pc = pc
             /\ z(pc).required = Top.required /\ z(pc).proc = Top.proc
  BY <1>1, MovesTyped DEF FrameType
<1>4. ASSUME NEW f
      PROVE  /\ w(f) \in FrameType /\ w(f).i = Top.i + 1 /\ w(f).pc = Top.pc
             /\ w(f).required = Top.required \ {f} /\ w(f).proc = Top.proc
  BY <1>1, MovesTyped DEF FrameType
<1>5. NextUsage <=> SetTop(y)
  BY DEF NextUsage
<1>6. \A pc : Goto(pc) <=> SetTop(z(pc))
  BY DEF Goto
<1> HIDE DEF y, z
<1>7. NextUsage => Moves /\ Top' = y
  BY <1>2, <1>5, SetTopMoves
<1>8. ASSUME NEW pc \in Phases, Goto(pc) PROVE Moves /\ Top' = z(pc)
  BY <1>3, <1>6, <1>8, SetTopMoves
<1>9. ASSUME NEW f, SetTop(w(f)) PROVE Moves /\ Top' = w(f)
  <2>1. w(f) \in FrameType /\ w(f).proc = Top.proc
    BY <1>4
  <2> HIDE DEF w
  <2> QED BY <1>9, <2>1, SetTopMoves
<1>10. ASSUME NextUsage
       PROVE  /\ Moves /\ Top'.i = Top.i + 1 /\ Top'.pc = Top.pc
              /\ Top'.required = Top.required
  BY <1>2, <1>7, <1>10
<1>11. ASSUME NEW pc \in Phases, Goto(pc)
       PROVE  Moves /\ Top'.i = 1 /\ Top'.pc = pc /\ Top'.required = Top.required
  BY <1>3, <1>8, <1>11
<1>12. ASSUME NEW f, SetTop(w(f))
       PROVE  /\ Moves /\ Top'.i = Top.i + 1 /\ Top'.pc = Top.pc
              /\ Top'.required = Top.required \ {f}
  <2>1. Moves /\ Top' = w(f)
    BY <1>9, <1>12
  <2> HIDE DEF w
  <2> QED BY <1>4, <2>1
<1> QED BY <1>10, <1>11, <1>12

\* The calls in progress after such a move.
LEMMA CallsMove ==
    ASSUME CallsInv, Moves, mode' # "dying", Top'.required \subseteq Top.required,
           inv' # <<>> => Top'.pc \in {"preinvalidate", "postinvalidate"}
    PROVE  CallsInv'
<1> DEFINE L == Len(stack)
<1>1. L \in Nat \ {0} /\ Len(stack') = L
  BY DEF Moves
<1>2. ASSUME NEW k \in 1..L
      PROVE  stack'[k].proc = stack[k].proc /\ stack'[k].required \subseteq stack[k].required
  <2>1. CASE k = L
    BY <2>1 DEF Moves
  <2>2. CASE k # L
    <3>1. k \in 1..(L - 1)
      BY <1>1, <2>2
    <3> QED BY <3>1 DEF Moves
  <2> QED BY <2>1, <2>2
<1>3. \A k \in 1..(L - 1) : stack'[k].pc = "need"
  BY DEF Moves, CallsInv
<1>4. \A j, k \in 1..L : j < k => stack'[k].proc \in Helpers(stack'[j].proc)
  BY <1>2 DEF CallsInv
<1>5. \A k \in 1..L : stack'[k].required \subseteq Required(stack'[k].proc)
  BY <1>2 DEF CallsInv
<1> QED BY <1>1, <1>3, <1>4, <1>5 DEF CallsInv

\* What was invalidated before the requirements is still away after a move that
\* provides nothing the outer frames have invalidated.
LEMMA AbsentMove ==
    ASSUME AbsentInv, Moves,
           \A k \in 1..(Len(stack) - 1) : \A f \in Unused(stack[k].proc) :
                Provided(f)' => Provided(f),
           Top'.pc \in {"need", "check", "work", "postinvalidate"} =>
                \A f \in Unused(Top.proc) : ~Provided(f)'
    PROVE  AbsentInv'
<1> DEFINE L == Len(stack)
<1>1. L \in Nat \ {0} /\ Len(stack') = L
  BY DEF Moves
<1> SUFFICES ASSUME NEW k \in 1..L,
                    stack'[k].pc \in {"need", "check", "work", "postinvalidate"},
                    NEW f \in Unused(stack'[k].proc)
             PROVE  ~Provided(f)'
  BY <1>1 DEF AbsentInv
<1>2. CASE k = L
  BY <1>2 DEF Moves
<1>3. CASE k # L
  <2>1. k \in 1..(L - 1) /\ stack'[k] = stack[k]
    BY <1>1, <1>3 DEF Moves
  <2> QED BY <2>1 DEF AbsentInv
<1> QED BY <1>2, <1>3

\* A move that leaves the graph alone and starts no invalidation.
LEMMA QuietMove ==
    ASSUME CallsInv, OriginInv, AbsentInv, NoAssertFails, Moves, inv = <<>>, mode = "live",
           UNCHANGED <<featMap, heap, inv, mode>>, Top'.required \subseteq Top.required,
           Top'.pc \in {"need", "check", "work", "postinvalidate"} =>
                \A f \in Unused(Top.proc) : ~Provided(f),
           TopInv'
    PROVE  CatalogueInv'
<1>1. CallsInv'
  BY CallsMove
<1>2. AbsentInv'
  BY AbsentMove DEF Provided
<1>3. OriginInv' /\ NoAssertFails'
  BY DEF OriginInv, NoAssertFails
<1> QED BY <1>1, <1>2, <1>3 DEF CatalogueInv

\* Frames removed from the top of the stack, all of them or the last one.
LEMMA ReturnKeeps ==
    ASSUME ControlTypeOK, CallsInv, AbsentInv, NoAssertFails, stack # <<>>, inv = <<>>, OriginInv',
           UNCHANGED <<featMap, inv, mode>>,
           stack' = <<>> \/ stack' = Front(stack)
    PROVE  CatalogueInv'
<1>1. /\ Len(stack) \in Nat \ {0} /\ Front(stack) \in Seq(FrameType)
      /\ Len(Front(stack)) = Len(stack) - 1
      /\ \A k \in 1..(Len(stack) - 1) : Front(stack)[k] = stack[k]
  BY FrontLastProperties DEF ControlTypeOK
<1>2. /\ stack' \in Seq(FrameType) /\ Len(stack') \in 0..(Len(stack) - 1)
      /\ \A k \in 1..Len(stack') : k \in 1..(Len(stack) - 1) /\ stack'[k] = stack[k]
  <2>1. CASE stack' = <<>>
    BY <1>1, <2>1
  <2>2. CASE stack' = Front(stack)
    BY <1>1, <2>2
  <2> QED BY <2>1, <2>2
<1>3. \A k \in 1..Len(stack') : k \in 1..Len(stack) /\ stack'[k].pc = "need"
  BY <1>1, <1>2 DEF CallsInv
<1>4. stack' # <<>> => Top'.pc = "need"
  <2> SUFFICES ASSUME stack' # <<>> PROVE Top'.pc = "need"
    OBVIOUS
  <2>1. Top' = stack'[Len(stack')] /\ Len(stack') \in Nat \ {0}
    BY <1>2, FrontLastProperties DEF Top
  <2> QED BY <1>3, <2>1
<1>5. TopInv'
  BY <1>4 DEF TopInv
<1>6. AbsentInv'
  BY <1>2, <1>3 DEF AbsentInv, Provided
<1>7. CallsInv'
  <2>1. \A k \in 1..(Len(stack') - 1) : stack'[k].pc = "need"
    BY <1>2, <1>3
  <2>2. \A j, k \in 1..Len(stack') : j < k => stack'[k].proc \in Helpers(stack'[j].proc)
    BY <1>2, <1>3 DEF CallsInv
  <2>3. \A k \in 1..Len(stack') : stack'[k].required \subseteq Required(stack'[k].proc)
    BY <1>2, <1>3 DEF CallsInv
  <2>4. mode' # "dying"
    BY DEF CallsInv
  <2> QED BY <2>1, <2>2, <2>3, <2>4 DEF CallsInv
<1> QED BY <1>5, <1>6, <1>7 DEF CatalogueInv, NoAssertFails

\* A step that changes nothing the invariant is about.
LEMMA CatalogueStutters ==
    ASSUME CatalogueInv, UNCHANGED <<featMap, heap, stack, inv>>, mode' \notin Faults,
           mode' = "dying" => stack = <<>>
    PROVE  CatalogueInv'
<1>1. CallsInv'
  BY DEF CatalogueInv, CallsInv, Top
<1>2. OriginInv' /\ AbsentInv'
  BY DEF CatalogueInv, OriginInv, AbsentInv, Provided
<1>3. TopInv'
  BY DEF CatalogueInv, TopInv, PreInv, PostInv, RequiredInv, ProvideInv, Gone, Provided, Top
<1> QED BY <1>1, <1>2, <1>3 DEF CatalogueInv, NoAssertFails

-----------------------------------------------------------------------------
(* The invalidations in progress.                                          *)

\* What a call of invalidate() begins with.
LEMMA InvalidateGone ==
    ASSUME inv = <<>>, NEW f, Invalidate(f), featMap' = featMap
    PROVE  /\ Gone(f)'
           /\ \A g : Gone(g) => Gone(g)'
           /\ \A k \in 1..Len(inv') : inv'[k].feature = f
<1>1. CASE ~Provided(f)
  BY <1>1 DEF Invalidate, Gone, Provided
<1>2. CASE Provided(f)
  <2>1. inv' = <<Activation(f)>>
    BY <1>2 DEF Invalidate
  <2>2. Activation(f).feature = f
    BY DEF Activation
  <2> QED BY <1>2, <2>1, <2>2 DEF Gone, Provided
<1> QED BY <1>1, <1>2

\* The nest grows on features made to depend on those it is about: the feature
\* it began with stays the same.
LEMMA DependentKeeps ==
    ASSUME GraphOK, ControlTypeOK, CatalogueInv, InvalidateDependent
    PROVE  CatalogueInv'
<1>0. PICK L, a, n, b, rest :
        /\ L = Len(inv) /\ a = inv[L] /\ n = Head(a.todo)
        /\ b = [a EXCEPT !.todo = Tail(@)]
        /\ rest = Append(Front(inv), b)
  OBVIOUS
<1>1. /\ inv \in Seq(ActivationType) /\ inv # <<>>
      /\ L \in Nat \ {0} /\ Last(inv) = a /\ a \in ActivationType
  <2>1. inv \in Seq(ActivationType) /\ inv # <<>>
    BY DEF GraphOK, GraphTypeOK, ActivationType, InvalidateDependent
  <2> QED BY <1>0, <2>1, FrontLastProperties
<1>2. a.todo \in Seq(Addresses) /\ Decreasing(a.todo) /\ a.todo # <<>> /\ a.feature \in Features
  <2>1. a.todo \in Seq(Addresses) /\ a.feature \in Features
    BY <1>1 DEF ActivationType
  <2>2. Decreasing(a.todo)
    BY <1>0, <1>1 DEF GraphOK, NestOrder
  <2>3. a.todo # <<>>
    BY <1>1 DEF InvalidateDependent
  <2> QED BY <2>1, <2>2, <2>3
<1>3. b \in ActivationType /\ b.feature = a.feature
  <2>1. Tail(a.todo) \in Seq(Addresses)
    BY <1>2
  <2> QED BY <1>0, <1>1, <2>1 DEF ActivationType
<1>4. /\ rest \in Seq(ActivationType) /\ Len(rest) = L
      /\ \A k \in 1..L : rest[k].feature = inv[k].feature
  <2>1. /\ rest \in Seq(ActivationType) /\ Len(rest) = L
        /\ \A k \in 1..(L - 1) : rest[k] = inv[k]
        /\ rest[L] = b
    BY <1>0, <1>1, <1>3, ReplaceLast
  <2>2. \A k \in 1..L : k \in 1..(L - 1) \/ k = L
    BY <1>1
  <2> QED BY <1>0, <1>3, <2>1, <2>2
<1>5. n \in DOMAIN heap /\ <<a.feature, heap[n].feature>> \in MayDepend /\ heap[n].feature \in Features
  <2>1. n \in ToSet(a.todo)
    BY <1>0, <1>2, TailProperties
  <2>2. Provided(a.feature) /\ n \in ToSet(heap[Target(L)].children) /\ Target(L) = featMap[a.feature]
    <3>1. L \in 1..Len(inv) /\ inv[L] = a
      BY <1>0, <1>1
    <3>2. /\ Provided(inv[L].feature)
          /\ ToSet(inv[L].todo) \subseteq ToSet(heap[Target(L)].children)
      BY <3>1 DEF GraphOK, NestOrder
    <3> QED BY <2>1, <3>1, <3>2 DEF Target
  <2>3. Target(L) \in DOMAIN heap /\ heap[Target(L)].feature = a.feature
    BY <1>2, <2>2 DEF GraphOK, DepsClosed
  <2>4. n \in DOMAIN heap /\ Target(L) \in heap[n].parents
    BY <2>2, <2>3 DEF GraphOK, DepsClosed
  <2>5. heap[n].feature \in Features
    BY <2>4 DEF GraphOK, GraphTypeOK, NodeType
  <2> QED BY <2>3, <2>4, <2>5 DEF CatalogueInv, OriginInv
<1>6. /\ inv' = rest \/ inv' = Append(rest, Activation(heap[n].feature))
      /\ UNCHANGED <<featMap, heap, stack, mode>>
  BY <1>0, <1>1, <1>5 DEF InvalidateDependent
<1>7. /\ inv' # <<>> /\ Len(inv') \in Nat
      /\ inv'[1].feature = inv[1].feature
      /\ \A k \in 1..Len(inv') : \/ k \in 1..L /\ inv'[k].feature = inv[k].feature
                                 \/ inv'[k].feature = heap[n].feature
  <2>1. CASE inv' = rest
    BY <1>1, <1>4, <2>1
  <2>2. CASE inv' = Append(rest, Activation(heap[n].feature))
    <3> DEFINE c == Activation(heap[n].feature)
    <3>1. c.feature = heap[n].feature
      BY DEF Activation
    <3> HIDE DEF c
    <3>2. /\ Len(inv') = L + 1 /\ inv'[L + 1] = c
          /\ \A k \in 1..L : inv'[k] = rest[k]
      BY <1>4, <2>2, AppendProperties DEF c
    <3>3. inv' # <<>>
      BY <1>4, <2>2 DEF c
    <3>4. \A k \in 1..Len(inv') : k \in 1..L \/ k = L + 1
      BY <1>1, <3>2
    <3>5. 1 \in 1..L
      BY <1>1
    <3> QED BY <1>1, <1>4, <3>1, <3>2, <3>3, <3>4, <3>5
  <2> QED BY <1>6, <2>1, <2>2
<1>8. \A g : Gone(g) => Gone(g)'
  BY <1>1, <1>6, <1>7 DEF Gone, Provided
<1>9. ASSUME stack # <<>>, Top.proc \in Processors, PostInv(Top) PROVE PostInv(Top)'
  <2>1. Top' = Top
    BY <1>6 DEF Top
  <2>2. a.feature \in Affected(Top.proc)
    BY <1>0, <1>1, <1>9 DEF PostInv
  <2>3. heap[n].feature \in Affected(Top.proc)
    BY <1>5, <1>9, <2>2, AffectedClosed
  <2>4. \A k \in 1..Len(inv') : inv'[k].feature \in Affected(Top.proc)
    BY <1>0, <1>7, <1>9, <2>3 DEF PostInv
  <2> QED BY <1>8, <1>9, <2>1, <2>4 DEF PostInv
<1>10. CallsInv' /\ OriginInv' /\ AbsentInv' /\ NoAssertFails'
  BY <1>1, <1>6 DEF CatalogueInv, CallsInv, OriginInv, AbsentInv, NoAssertFails, Provided, Top
<1>11. TopInv'
  <2> SUFFICES ASSUME stack # <<>> PROVE TopInv'
    BY <1>6 DEF TopInv
  <2>1. Top' = Top /\ Top.pc \in {"preinvalidate", "postinvalidate"}
    BY <1>1, <1>6 DEF CatalogueInv, CallsInv, Top
  <2>2. Top.pc = "preinvalidate" => PreInv(Top)'
    BY <1>8, <2>1 DEF CatalogueInv, TopInv, PreInv
  <2>3. Top.pc = "postinvalidate" => PostInv(Top)'
    <3>1. Top.proc \in Processors
      BY MovesTyped DEF ControlTypeOK, FrameType
    <3> QED BY <1>9, <3>1 DEF CatalogueInv, TopInv
  <2>4. Top.pc = "postinvalidate" => RequiredInv(Top)'
    BY <1>6, <2>1 DEF CatalogueInv, TopInv, RequiredInv, Provided
  <2> QED BY <2>1, <2>2, <2>3, <2>4 DEF TopInv
<1> QED BY <1>10, <1>11 DEF CatalogueInv

\* The deletion of a node: the others keep what they depend on, and what was
\* gone stays away.
LEMMA FeatureKeeps ==
    ASSUME GraphOK, GraphOK', ControlTypeOK, CatalogueInv, InvalidateFeature, UNCHANGED mode
    PROVE  CatalogueInv'
<1>0. PICK L, f : L = Len(inv) /\ f = inv[L].feature
  OBVIOUS
<1>1. /\ inv \in Seq(ActivationType) /\ inv # <<>>
      /\ L \in Nat \ {0} /\ Last(inv).feature = f /\ f \in Features
      /\ Len(Front(inv)) = L - 1
      /\ \A k \in 1..(L - 1) : Front(inv)[k] = inv[k]
  <2>1. inv \in Seq(ActivationType) /\ inv # <<>>
    BY DEF GraphOK, GraphTypeOK, ActivationType, InvalidateFeature
  <2>2. /\ L \in Nat \ {0} /\ Last(inv) = inv[L] /\ Last(inv) \in ActivationType
        /\ Len(Front(inv)) = L - 1
        /\ \A k \in 1..(L - 1) : Front(inv)[k] = inv[k]
    BY <1>0, <2>1, FrontLastProperties
  <2>3. f \in Features
    BY <1>0, <2>2 DEF ActivationType
  <2> QED BY <1>0, <2>1, <2>2, <2>3
<1>2. DelFeatDep(f) /\ inv' = Front(inv) /\ UNCHANGED <<stack, mode>>
  <2>1. mode \notin Faults
    BY DEF CatalogueInv, NoAssertFails
  <2> QED BY <1>1, <2>1 DEF InvalidateFeature, Halt, Faults
<1>3. \A g \in Features : /\ g # f => featMap'[g] = featMap[g]
                          /\ g = f => featMap'[g] = 0
  BY <1>2 DEF DelFeatDep, GraphOK, GraphTypeOK
<1>4. /\ \A g \in Features : Provided(g)' => Provided(g)
      /\ ~Provided(f)'
  BY <1>1, <1>3 DEF Provided
<1>5. ASSUME NEW g \in Features, Gone(g) PROVE Gone(g)'
  <2>1. CASE ~Provided(g)
    BY <1>4, <2>1 DEF Gone
  <2>2. CASE inv[1].feature = g /\ L = 1
    BY <1>0, <1>4, <2>2 DEF Gone
  <2>3. CASE inv[1].feature = g /\ L # 1
    <3>1. 1 \in 1..(L - 1)
      BY <1>1, <2>3
    <3>2. inv'[1] = inv[1] /\ inv' # <<>>
      BY <1>1, <1>2, <3>1
    <3> QED BY <2>3, <3>2 DEF Gone
  <2> QED BY <1>5, <2>1, <2>2, <2>3 DEF Gone
<1>6. OriginInv'
  <2> SUFFICES ASSUME NEW n \in DOMAIN heap', NEW m \in heap'[n].parents
               PROVE  <<heap'[m].feature, heap'[n].feature>> \in MayDepend
    BY DEF OriginInv
  <2>1. ASSUME NEW k \in DOMAIN heap'
        PROVE  /\ k \in DOMAIN heap
               /\ heap'[k].feature = heap[k].feature /\ heap'[k].parents = heap[k].parents
    <3>1. k \in DOMAIN heap /\ heap[k] \in NodeType
      BY <1>2 DEF DelFeatDep, GraphOK, GraphTypeOK
    <3>2. \/ heap'[k] = [heap[k] EXCEPT !.children = RemoveDependent(@, featMap[f])]
          \/ heap'[k] = heap[k]
      BY <1>2 DEF DelFeatDep
    <3> QED BY <3>1, <3>2 DEF NodeType
  <2>2. m \in DOMAIN heap'
    BY DEF GraphOK, DepsClosed
  <2> QED BY <2>1, <2>2 DEF CatalogueInv, OriginInv
<1>7. CallsInv' /\ NoAssertFails'
  <2>1. CallsInv'
    BY <1>1, <1>2 DEF CatalogueInv, CallsInv, Top
  <2> QED BY <1>2, <2>1 DEF CatalogueInv, NoAssertFails
<1>8. ASSUME NEW k \in 1..Len(stack)
      PROVE  /\ stack[k].proc \in Processors
             /\ Unused(stack[k].proc) \subseteq Features
  <2>1. stack[k] \in FrameType
    BY DEF ControlTypeOK
  <2>2. stack[k].proc \in Processors
    BY <2>1 DEF FrameType
  <2> QED BY <2>2, DeclarationsTyped DEF Unused
<1>9. AbsentInv'
  BY <1>2, <1>4, <1>8 DEF CatalogueInv, AbsentInv
<1>10. TopInv'
  <2> SUFFICES ASSUME stack # <<>> PROVE TopInv'
    BY <1>2 DEF TopInv
  <2>1. Top' = Top /\ Top.pc \in {"preinvalidate", "postinvalidate"}
    BY <1>1, <1>2 DEF CatalogueInv, CallsInv, Top
  <2>2. Top \in FrameType /\ Top.proc \in Processors /\ Top.required \subseteq Features
    BY MovesTyped DEF ControlTypeOK, FrameType
  <2>3. Passed(Top, "invalidate") \subseteq Features
    BY <2>2, DeclarationsTyped DEF Passed
  <2>4. Top.pc = "preinvalidate" => PreInv(Top)'
    BY <1>5, <2>1, <2>3 DEF CatalogueInv, TopInv, PreInv
  <2>5. ASSUME Top.pc = "postinvalidate" PROVE PostInv(Top)' /\ RequiredInv(Top)'
    <3>1. PostInv(Top) /\ RequiredInv(Top)
      BY <2>5 DEF CatalogueInv, TopInv
    <3>2. \A k \in 1..Len(inv') : inv'[k].feature \in Affected(Top.proc)
      <4>1. \A k \in 1..Len(inv') : k \in 1..L /\ inv'[k] = inv[k]
        BY <1>1, <1>2
      <4> QED BY <1>0, <3>1, <4>1 DEF PostInv
    <3>3. PostInv(Top)'
      BY <1>5, <2>1, <2>3, <3>1, <3>2 DEF PostInv
    <3>4. f \in Affected(Top.proc)
      BY <1>0, <1>1, <3>1 DEF PostInv
    <3>5. RequiredInv(Top)'
      BY <1>3, <2>1, <2>2, <3>1, <3>4 DEF RequiredInv, Provided
    <3> QED BY <3>3, <3>5
  <2> QED BY <2>1, <2>4, <2>5 DEF TopInv
<1> QED BY <1>6, <1>7, <1>9, <1>10 DEF CatalogueInv

-----------------------------------------------------------------------------
(* The steps of process().                                                 *)

\* The invalidations before the requirements.
LEMMA PreInvalidateKeeps ==
    ASSUME GraphOK, ControlTypeOK, CatalogueInv, PreInvalidate
    PROVE  CatalogueInv'
<1>1. /\ stack \in Seq(FrameType) /\ stack # <<>> /\ inv = <<>> /\ mode = "live"
      /\ Top.pc = "preinvalidate" /\ UNCHANGED <<featMap, heap, mode>>
  BY DEF PreInvalidate, InvalidationLoop, At, ControlTypeOK
<1>2. PreInv(Top) /\ \A f \in Features : Gone(f) => ~Provided(f)
  BY <1>1 DEF CatalogueInv, TopInv, Gone
<1>3. Top \in FrameType /\ Top.proc \in Processors
  BY <1>1, MovesTyped DEF FrameType
<1>4. Unused(Top.proc) \subseteq Features
  BY <1>3, DeclarationsTyped DEF Unused
<1>5. CASE ~More
  <2>1. Goto("need") /\ inv' = inv /\ "need" \in Phases
    BY <1>5 DEF PreInvalidate, InvalidationLoop, Phases
  <2>2. Moves /\ Top'.pc = "need" /\ Top'.required = Top.required
    BY <1>1, <2>1, LoopMoves
  <2>3. Passed(Top, "invalidate") = Invalidated(Top.proc)
    BY <1>3, <1>5, PassedEnds DEF More
  <2>4. \A f \in Unused(Top.proc) : ~Provided(f)
    BY <1>2, <1>4, <2>3 DEF PreInv, Unused
  <2>5. TopInv'
    BY <2>2 DEF TopInv
  <2> QED BY <1>1, <2>1, <2>2, <2>4, <2>5, QuietMove DEF CatalogueInv
<1>6. CASE More /\ Usage.kind = "invalidate" /\ ~Uses(Top.proc, Usage.feature)
  <2>1. /\ Invalidate(Usage.feature)
        /\ SetTop([[Top EXCEPT !.i = @ + 1] EXCEPT !.required = @ \ {Usage.feature}])
    <3>1. Uses(Top.proc, Usage.feature) = FALSE
      BY <1>6 DEF Uses
    <3> QED BY <1>6, <3>1 DEF PreInvalidate, InvalidationLoop
  <2>2. /\ Moves /\ Top'.i = Top.i + 1 /\ Top'.pc = "preinvalidate"
        /\ Top'.required \subseteq Top.required /\ Top' \in FrameType /\ Top'.proc = Top.proc
    BY <1>1, <2>1, LoopMoves DEF Moves
  <2>3. CallsInv'
    BY <1>1, <2>2, CallsMove DEF CatalogueInv
  <2>4. AbsentInv'
    BY <1>1, <2>2, AbsentMove DEF CatalogueInv, Provided
  <2>5. OriginInv' /\ NoAssertFails'
    BY <1>1 DEF CatalogueInv, OriginInv, NoAssertFails
  <2>6. ASSUME NEW f \in Passed(Top', "invalidate") \ UsedBy(Top'.proc) PROVE Gone(f)'
    <3>1. f \in Passed(Top, "invalidate") \/ f = Usage.feature
      BY <1>3, <1>6, <2>2, PassedNext DEF More, Usage
    <3>2. f \in Passed(Top, "invalidate") => Gone(f)
      BY <1>2, <2>2 DEF PreInv
    <3> QED BY <1>1, <2>1, <3>1, <3>2, InvalidateGone
  <2>7. TopInv'
    BY <2>2, <2>6 DEF TopInv, PreInv
  <2> QED BY <2>3, <2>4, <2>5, <2>7 DEF CatalogueInv
<1>7. CASE More /\ ~(Usage.kind = "invalidate" /\ ~Uses(Top.proc, Usage.feature))
  <2>1. NextUsage /\ inv' = inv
    BY <1>7 DEF PreInvalidate, InvalidationLoop
  <2>2. /\ Moves /\ Top'.i = Top.i + 1 /\ Top'.pc = "preinvalidate"
        /\ Top'.required = Top.required /\ Top' \in FrameType /\ Top'.proc = Top.proc
    BY <1>1, <2>1, LoopMoves DEF Moves
  <2>3. ASSUME NEW f \in Passed(Top', "invalidate") \ UsedBy(Top'.proc) PROVE Gone(f)'
    <3>1. \/ f \in Passed(Top, "invalidate")
          \/ Usage.kind = "invalidate" /\ f = Usage.feature
      BY <1>3, <1>7, <2>2, PassedNext DEF More, Usage
    <3>2. ~(Usage.kind = "invalidate" /\ f = Usage.feature)
      <4>1. Usage.feature \in Features
        BY <1>1, <1>7, UsageTyped
      <4> QED BY <1>7, <2>2, <4>1 DEF UsedBy
    <3>3. Gone(f)
      BY <1>2, <2>2, <3>1, <3>2 DEF PreInv
    <3> QED BY <1>1, <2>1, <3>3 DEF Gone, Provided
  <2>4. TopInv'
    BY <2>2, <2>3 DEF TopInv, PreInv
  <2> QED BY <1>1, <2>1, <2>2, <2>4, QuietMove DEF CatalogueInv
<1> QED BY <1>5, <1>6, <1>7

\* The requirement loop: a processor is run for what is missing, on top of the
\* ones that wait for it.
LEMMA NeedKeeps ==
    ASSUME GraphOK, ControlTypeOK, CatalogueInv, Need
    PROVE  CatalogueInv'
<1>1. /\ stack \in Seq(FrameType) /\ stack # <<>> /\ inv = <<>> /\ mode = "live"
      /\ Top.pc = "need" /\ UNCHANGED <<featMap, heap, mode, inv>>
  BY DEF Need, At, ControlTypeOK
<1>2. /\ Top \in FrameType /\ Top.proc \in Processors
      /\ Len(stack) \in Nat \ {0} /\ Top = stack[Len(stack)]
  <2>1. Top \in FrameType /\ Len(stack) \in Nat \ {0} /\ Top = stack[Len(stack)]
    BY <1>1, FrontLastProperties DEF Top
  <2> QED BY <2>1 DEF FrameType
<1>3. \A f \in Unused(Top.proc) : ~Provided(f)
  BY <1>1, <1>2 DEF CatalogueInv, AbsentInv
<1>4. CASE ~More
  <2>1. Goto("check") /\ "check" \in Phases
    BY <1>4 DEF Need, Phases
  <2>2. Moves /\ Top'.pc = "check" /\ Top'.required = Top.required
    BY <1>1, <2>1, LoopMoves
  <2>3. TopInv'
    BY <2>2 DEF TopInv
  <2> QED BY <1>1, <1>3, <2>2, <2>3, QuietMove DEF CatalogueInv
<1>5. CASE More /\ ~(Usage.kind \in {"require", "use"} /\ ~Provided(Usage.feature))
  <2>1. NextUsage
    BY <1>5 DEF Need
  <2>2. Moves /\ Top'.pc = "need" /\ Top'.required = Top.required
    BY <1>1, <2>1, LoopMoves
  <2>3. TopInv'
    BY <2>2 DEF TopInv
  <2> QED BY <1>1, <1>3, <2>2, <2>3, QuietMove DEF CatalogueInv
<1>6. CASE More /\ Usage.kind \in {"require", "use"} /\ ~Provided(Usage.feature)
  <2>1. PICK q \in Makers[Usage.feature] :
          stack' = Append(Append(Front(stack), [Top EXCEPT !.i = @ + 1]), Frame(q))
    BY <1>6 DEF Need
  <2> DEFINE L == Len(stack)
  <2> DEFINE y == [Top EXCEPT !.i = @ + 1]
  <2> DEFINE t == Append(Front(stack), y)
  <2>2. Usage.feature \in UsedBy(Top.proc)
    BY <1>1, <1>6, UsageDeclared
  <2>3. q \in Processors /\ q \in Helpers(Top.proc)
    BY <1>2, <2>1, <2>2, HelpersClosed
  <2>4. /\ y \in FrameType /\ y.proc = Top.proc /\ y.pc = "need" /\ y.required = Top.required
    BY <1>1, <1>2, MovesTyped DEF FrameType
  <2> HIDE DEF y
  <2>5. /\ t \in Seq(FrameType) /\ Len(t) = L
        /\ \A k \in 1..(L - 1) : t[k] = stack[k]
        /\ t[L] = y
    BY <1>1, <2>4, ReplaceLast
  <2>6. /\ Frame(q) \in FrameType
        /\ Frame(q).proc = q /\ Frame(q).i = 1 /\ Frame(q).pc = "preinvalidate"
        /\ Frame(q).required = Required(q)
    BY <2>3, FrameTyped DEF Frame
  <2>7. /\ stack' = Append(t, Frame(q))
    BY <2>1 DEF y
  <2> HIDE DEF t
  <2>8. /\ stack' \in Seq(FrameType) /\ Len(stack') = L + 1 /\ stack'[L + 1] = Frame(q)
        /\ \A k \in 1..L : stack'[k] = t[k]
    BY <2>5, <2>6, <2>7, AppendProperties
  <2>9. stack' # <<>> /\ Top' = Frame(q)
    <3>1. stack' # <<>>
      BY <1>2, <2>8
    <3> QED BY <2>8, <3>1, FrontLastProperties DEF Top
  <2>10. ASSUME NEW k \in 1..L
         PROVE  /\ stack'[k].proc = stack[k].proc /\ stack'[k].pc = "need"
                /\ stack'[k].required = stack[k].required
                /\ stack[k].pc = "need" /\ stack[k].proc \in Processors
    <3>1. CASE k = L
      BY <1>1, <1>2, <2>4, <2>5, <2>8, <3>1
    <3>2. CASE k # L
      <4>1. k \in 1..(L - 1)
        BY <1>2, <3>2
      <4>2. stack[k] \in FrameType
        BY <1>1
      <4> QED BY <2>5, <2>8, <4>1, <4>2 DEF CatalogueInv, CallsInv, FrameType
    <3> QED BY <3>1, <3>2
  <2>11. \A k \in 1..(L + 1) : k \in 1..L \/ k = L + 1
    BY <1>2
  <2>12. CallsInv'
    <3>1. \A k \in 1..(Len(stack') - 1) : stack'[k].pc = "need"
      BY <1>2, <2>8, <2>10
    <3>2. ASSUME NEW j \in 1..(L + 1), NEW k \in 1..(L + 1), j < k
          PROVE  stack'[k].proc \in Helpers(stack'[j].proc)
      <4>1. j \in 1..L
        BY <1>2, <3>2
      <4>2. CASE k \in 1..L
        BY <2>10, <3>2, <4>1, <4>2 DEF CatalogueInv, CallsInv
      <4>3. CASE k = L + 1
        <5>1. stack[j].proc = Top.proc \/ Top.proc \in Helpers(stack[j].proc)
          <6>1. j = L \/ (j < L /\ L \in 1..L)
            BY <1>2, <4>1
          <6> QED BY <1>2, <4>1, <6>1 DEF CatalogueInv, CallsInv
        <5>2. q \in Helpers(stack[j].proc)
          BY <1>2, <2>1, <2>2, <2>10, <4>1, <5>1, HelpersClosed
        <5> QED BY <2>6, <2>8, <2>10, <4>1, <4>3, <5>2
      <4> QED BY <2>11, <4>2, <4>3
    <3>3. \A k \in 1..(L + 1) : stack'[k].required \subseteq Required(stack'[k].proc)
      BY <2>6, <2>8, <2>10, <2>11 DEF CatalogueInv, CallsInv
    <3> QED BY <1>1, <2>8, <3>1, <3>2, <3>3 DEF CallsInv
  <2>13. AbsentInv'
    <3> SUFFICES ASSUME NEW k \in 1..(L + 1),
                        stack'[k].pc \in {"need", "check", "work", "postinvalidate"},
                        NEW f \in Unused(stack'[k].proc)
                 PROVE  ~Provided(f)'
      BY <2>8 DEF AbsentInv
    <3>1. k \in 1..L
      BY <2>6, <2>8, <2>11
    <3>2. ~Provided(f)
      BY <2>10, <3>1 DEF CatalogueInv, AbsentInv
    <3> QED BY <1>1, <3>2 DEF Provided
  <2>14. TopInv'
    <3>1. Passed(Frame(q), "invalidate") = {}
      BY <2>6, PassedEnds
    <3> QED BY <2>6, <2>9, <3>1 DEF TopInv, PreInv
  <2>15. OriginInv' /\ NoAssertFails'
    BY <1>1 DEF CatalogueInv, OriginInv, NoAssertFails
  <2> QED BY <2>12, <2>13, <2>14, <2>15 DEF CatalogueInv
<1> QED BY <1>4, <1>5, <1>6

\* The check after the requirements, and the work.
LEMMA WorkKeeps ==
    ASSUME GraphOK, ControlTypeOK, CatalogueInv, CheckRequirements \/ Work
    PROVE  CatalogueInv'
<1>1. /\ stack \in Seq(FrameType) /\ stack # <<>> /\ inv = <<>> /\ mode = "live"
      /\ UNCHANGED <<featMap, heap, mode, inv>>
  BY DEF CheckRequirements, Work, At, ControlTypeOK
<1>2. /\ Top \in FrameType /\ Top.proc \in Processors
      /\ Len(stack) \in Nat \ {0} /\ Top = stack[Len(stack)]
  <2>1. Top \in FrameType /\ Len(stack) \in Nat \ {0} /\ Top = stack[Len(stack)]
    BY <1>1, FrontLastProperties DEF Top
  <2> QED BY <2>1 DEF FrameType
<1>3. \A f \in Unused(Top.proc) : ~Provided(f)
  BY <1>1, <1>2 DEF CatalogueInv, AbsentInv, CheckRequirements, Work, At
<1>4. "work" \in Phases /\ "postinvalidate" \in Phases
  BY DEF Phases
<1>5. CASE CheckRequirements
  <2>1. CASE /\ Goto("work") /\ \A f \in Features : Uses(Top.proc, f) => Provided(f)
    <3>1. Moves /\ Top'.pc = "work" /\ Top'.required = Top.required
      BY <1>1, <1>4, <2>1, LoopMoves
    <3>2. Top.required \subseteq Required(Top.proc)
      BY <1>2 DEF CatalogueInv, CallsInv
    <3>3. \A r \in Top.required : Provided(r)
      BY <1>2, <2>1, <3>2, DeclarationsTyped DEF UsedBy
    <3>4. TopInv'
      BY <1>1, <3>1, <3>3 DEF TopInv, RequiredInv, Provided
    <3> QED BY <1>1, <1>3, <3>1, <3>4, QuietMove DEF CatalogueInv
  <2>2. CASE stack' = <<>>
    BY <1>1, <2>2, ReturnKeeps DEF CatalogueInv, OriginInv
  <2> QED BY <1>5, <2>1, <2>2 DEF CheckRequirements, Throw
<1>6. CASE Work
  <2>1. Moves /\ Top'.pc = "postinvalidate" /\ Top'.required = Top.required /\ Top'.i = 1
    BY <1>1, <1>4, <1>6, LoopMoves DEF Work
  <2>2. RequiredInv(Top)
    BY <1>6 DEF CatalogueInv, TopInv, Work, At
  <2>3. Passed(Top', "invalidate") = {}
    BY <2>1, PassedEnds DEF Moves
  <2>4. Len(inv') = 0
    BY <1>1
  <2>5. PostInv(Top)'
    BY <2>3, <2>4 DEF PostInv
  <2>6. RequiredInv(Top)'
    BY <1>1, <2>1, <2>2 DEF RequiredInv, Provided, Moves
  <2>7. TopInv'
    BY <2>1, <2>5, <2>6 DEF TopInv
  <2> QED BY <1>1, <1>3, <2>1, <2>7, QuietMove DEF CatalogueInv
<1> QED BY <1>5, <1>6

\* The invalidations after the work: what the frame still requires is out of
\* their reach.
LEMMA PostInvalidateKeeps ==
    ASSUME CoherentCatalogue, GraphOK, ControlTypeOK, CatalogueInv, PostInvalidate
    PROVE  CatalogueInv'
<1>1. /\ stack \in Seq(FrameType) /\ stack # <<>> /\ inv = <<>> /\ mode = "live"
      /\ Top.pc = "postinvalidate" /\ UNCHANGED <<featMap, heap, mode>>
  BY DEF PostInvalidate, InvalidationLoop, At, ControlTypeOK
<1>2. /\ Top \in FrameType /\ Top.proc \in Processors
      /\ Len(stack) \in Nat \ {0} /\ Top = stack[Len(stack)]
  <2>1. Top \in FrameType /\ Len(stack) \in Nat \ {0} /\ Top = stack[Len(stack)]
    BY <1>1, FrontLastProperties DEF Top
  <2> QED BY <2>1 DEF FrameType
<1>3. /\ PostInv(Top) /\ RequiredInv(Top) /\ \A f \in Features : Gone(f) => ~Provided(f)
  BY <1>1 DEF CatalogueInv, TopInv, Gone
<1>4. \A f \in Unused(Top.proc) : ~Provided(f)
  BY <1>1, <1>2 DEF CatalogueInv, AbsentInv
<1>5. /\ Top.required \subseteq Required(Top.proc)
      /\ Required(Top.proc) \subseteq UsedBy(Top.proc)
      /\ Invalidated(Top.proc) \subseteq Features
  BY <1>2, DeclarationsTyped DEF CatalogueInv, CallsInv
<1>6. CASE ~More
  <2>1. Goto("provide") /\ inv' = inv /\ "provide" \in Phases
    BY <1>6 DEF PostInvalidate, InvalidationLoop, Phases
  <2>2. Moves /\ Top'.pc = "provide" /\ Top'.required = Top.required /\ Top'.i = 1
    BY <1>1, <2>1, LoopMoves
  <2>3. Passed(Top, "invalidate") = Invalidated(Top.proc)
    BY <1>2, <1>6, PassedEnds DEF More
  <2>4. Passed(Top, "provide")' = {}
    BY <2>2, PassedEnds DEF Moves
  <2>5. \A f \in Invalidated(Top.proc) : ~Provided(f)
    BY <1>3, <1>4, <1>5, <2>3 DEF PostInv, Unused
  <2>6. \A r \in Top.required : Provided(r) /\ r \notin Invalidated(Top.proc)
    <3> SUFFICES ASSUME NEW r \in Top.required
                 PROVE  Provided(r) /\ r \notin Invalidated(Top.proc)
      OBVIOUS
    <3>1. r \notin Invalidated(Top.proc)
      BY <1>3, <1>5, <2>3 DEF PostInv
    <3>2. r \notin Affected(Top.proc)
      BY <1>2, <1>5, <3>1 DEF CoherentCatalogue
    <3> QED BY <1>3, <3>1, <3>2 DEF RequiredInv
  <2>7. ProvideInv(Top)'
    BY <1>1, <2>2, <2>5, <2>6 DEF ProvideInv, Provided, Moves
  <2>8. TopInv'
    BY <2>2, <2>4, <2>7 DEF TopInv
  <2> QED BY <1>1, <2>1, <2>2, <2>8, QuietMove DEF CatalogueInv
<1>7. CASE More /\ Usage.kind = "invalidate" /\ Uses(Top.proc, Usage.feature)
  <2>1. /\ Invalidate(Usage.feature)
        /\ SetTop([[Top EXCEPT !.i = @ + 1] EXCEPT !.required = @ \ {Usage.feature}])
    <3>1. Uses(Top.proc, Usage.feature) = TRUE
      BY <1>7 DEF Uses
    <3> QED BY <1>7, <3>1 DEF PostInvalidate, InvalidationLoop
  <2>2. /\ Moves /\ Top'.i = Top.i + 1 /\ Top'.pc = "postinvalidate"
        /\ Top'.required = Top.required \ {Usage.feature}
        /\ Top' \in FrameType /\ Top'.proc = Top.proc
    BY <1>1, <2>1, LoopMoves DEF Moves
  <2>3. CallsInv'
    BY <1>1, <2>2, CallsMove DEF CatalogueInv
  <2>4. AbsentInv'
    BY <1>1, <1>4, <2>2, AbsentMove DEF CatalogueInv, Provided
  <2>5. OriginInv' /\ NoAssertFails'
    BY <1>1 DEF CatalogueInv, OriginInv, NoAssertFails
  <2>6. ASSUME NEW f \in Passed(Top', "invalidate") \cap UsedBy(Top'.proc)
        PROVE  Gone(f)' /\ f \notin Top'.required
    <3>1. f \in Passed(Top, "invalidate") \/ f = Usage.feature
      BY <1>2, <1>7, <2>2, PassedNext DEF More, Usage
    <3>2. f \in Passed(Top, "invalidate") => Gone(f) /\ f \notin Top.required
      BY <1>3, <2>2 DEF PostInv
    <3> QED BY <1>1, <2>1, <2>2, <3>1, <3>2, InvalidateGone
  <2>7. \A k \in 1..Len(inv') : inv'[k].feature \in Affected(Top.proc)
    <3>1. Usage.feature \in Invalidated(Top.proc) \cap UsedBy(Top.proc)
      BY <1>1, <1>7, UsageDeclared DEF UsedBy
    <3>2. Usage.feature \in Affected(Top.proc)
      BY <1>2, <3>1, AffectedClosed
    <3> QED BY <1>1, <2>1, <3>2, InvalidateGone
  <2>8. PostInv(Top)'
    BY <2>2, <2>6, <2>7 DEF PostInv
  <2>9. RequiredInv(Top)'
    BY <1>1, <1>3, <2>2 DEF RequiredInv, Provided
  <2>10. TopInv'
    BY <2>2, <2>8, <2>9 DEF TopInv
  <2> QED BY <2>3, <2>4, <2>5, <2>10 DEF CatalogueInv
<1>8. CASE More /\ ~(Usage.kind = "invalidate" /\ Uses(Top.proc, Usage.feature))
  <2>1. NextUsage /\ inv' = inv
    <3>1. Usage.kind = "invalidate" => Uses(Top.proc, Usage.feature) = FALSE
      BY <1>8 DEF Uses
    <3> QED BY <1>8, <3>1 DEF PostInvalidate, InvalidationLoop
  <2>2. /\ Moves /\ Top'.i = Top.i + 1 /\ Top'.pc = "postinvalidate"
        /\ Top'.required = Top.required /\ Top' \in FrameType /\ Top'.proc = Top.proc
    BY <1>1, <2>1, LoopMoves DEF Moves
  <2>3. ASSUME NEW f \in Passed(Top', "invalidate") \cap UsedBy(Top'.proc)
        PROVE  Gone(f)' /\ f \notin Top'.required
    <3>1. \/ f \in Passed(Top, "invalidate")
          \/ Usage.kind = "invalidate" /\ f = Usage.feature
      BY <1>2, <1>8, <2>2, PassedNext DEF More, Usage
    <3>2. ~(Usage.kind = "invalidate" /\ f = Usage.feature)
      BY <1>8, <2>2 DEF UsedBy
    <3>3. Gone(f) /\ f \notin Top.required
      BY <1>3, <2>2, <3>1, <3>2 DEF PostInv
    <3> QED BY <1>1, <2>1, <2>2, <3>3 DEF Gone, Provided
  <2>4. Len(inv') = 0
    BY <1>1, <2>1
  <2>5. PostInv(Top)'
    BY <2>3, <2>4 DEF PostInv
  <2>6. RequiredInv(Top)'
    BY <1>1, <1>3, <2>2 DEF RequiredInv, Provided
  <2>7. TopInv'
    BY <2>2, <2>5, <2>6 DEF TopInv
  <2> QED BY <1>1, <1>4, <2>1, <2>2, <2>7, QuietMove DEF CatalogueInv
<1> QED BY <1>6, <1>7, <1>8

\* The features provided after the work: over what the frame requires, and never
\* what an outer frame has invalidated.
LEMMA ProvideKeeps ==
    ASSUME CoherentCatalogue, GraphOK, GraphOK', ControlTypeOK, CatalogueInv, Provide
    PROVE  CatalogueInv'
<1>1. /\ stack \in Seq(FrameType) /\ stack # <<>> /\ inv = <<>> /\ mode = "live"
      /\ Top.pc = "provide"
  BY DEF Provide, At, ControlTypeOK
<1>2. /\ Top \in FrameType /\ Top.proc \in Processors /\ Top.required \subseteq Features
      /\ Len(stack) \in Nat \ {0} /\ Top = stack[Len(stack)]
  <2>1. Top \in FrameType /\ Len(stack) \in Nat \ {0} /\ Top = stack[Len(stack)]
    BY <1>1, FrontLastProperties DEF Top
  <2> QED BY <2>1 DEF FrameType
<1>3. ProvideInv(Top) /\ \A f \in Passed(Top, "provide") : Provided(f)
  BY <1>1 DEF CatalogueInv, TopInv
<1>4. CASE ~More
  <2>1. Goto("clean") /\ UNCHANGED <<featMap, heap, mode, inv>> /\ "clean" \in Phases
    BY <1>4 DEF Provide, Phases
  <2>2. Moves /\ Top'.pc = "clean" /\ Top'.required = Top.required
    BY <1>1, <2>1, LoopMoves
  <2>3. Passed(Top, "provide") = ProvidedBy(Top.proc)
    BY <1>2, <1>4, PassedEnds DEF More
  <2>4. ProvideInv(Top)'
    BY <1>3, <2>1, <2>2 DEF ProvideInv, Provided, Moves
  <2>5. TopInv'
    BY <1>3, <2>1, <2>2, <2>3, <2>4 DEF TopInv, Provided, Moves
  <2> QED BY <1>1, <2>1, <2>2, <2>5, QuietMove DEF CatalogueInv
<1>5. CASE More /\ (Usage.kind # "provide" \/ Provided(Usage.feature))
  <2>1. NextUsage /\ UNCHANGED <<featMap, heap, mode, inv>>
    BY <1>5 DEF Provide
  <2>2. /\ Moves /\ Top'.pc = "provide" /\ Top'.required = Top.required /\ Top'.i = Top.i + 1
        /\ Top'.proc = Top.proc /\ Top' \in FrameType
    BY <1>1, <2>1, LoopMoves DEF Moves
  <2>3. ASSUME NEW f \in Passed(Top', "provide") PROVE Provided(f)
    BY <1>2, <1>3, <1>5, <2>2, PassedNext DEF More, Usage
  <2>4. ProvideInv(Top)'
    BY <1>3, <2>1, <2>2 DEF ProvideInv, Provided
  <2>5. TopInv'
    BY <2>1, <2>2, <2>3, <2>4 DEF TopInv, Provided
  <2> QED BY <1>1, <2>1, <2>2, <2>5, QuietMove DEF CatalogueInv
<1>6. CASE More /\ Usage.kind = "provide" /\ ~Provided(Usage.feature)
  <2>0. PICK f, d, P :
          f = Usage.feature /\ d = fresh /\ P = {featMap[r] : r \in Top.required}
    OBVIOUS
  <2>1. f \in Features /\ f \in ProvidedBy(Top.proc)
    BY <1>1, <1>6, <2>0, UsageDeclared
  <2>2. f \notin Top.required /\ \A r \in Top.required : Provided(r)
    BY <1>3, <1>6, <2>0 DEF ProvideInv
  <2>3. NewFeatDep(f, Top.required) /\ NextUsage /\ UNCHANGED <<mode, inv>>
    BY <1>6, <2>0, <2>2 DEF Provide
  <2>4. /\ Moves /\ Top'.pc = "provide" /\ Top'.required = Top.required /\ Top'.i = Top.i + 1
        /\ Top'.proc = Top.proc /\ Top' \in FrameType
    BY <1>1, <2>3, LoopMoves DEF Moves
  <2>5. /\ d \in Addresses /\ d \notin DOMAIN heap
        /\ \A g \in Features : /\ g # f => featMap'[g] = featMap[g]
                               /\ g = f => featMap'[g] = d
    <3>1. d \in Addresses /\ \A n \in DOMAIN heap : n \in Addresses /\ n < d
      BY <2>0 DEF GraphOK, GraphTypeOK, CreationOrder
    <3>2. d \notin DOMAIN heap
      BY <3>1 DEF Addresses
    <3> QED BY <2>0, <2>1, <2>3, <3>1, <3>2 DEF NewFeatDep, GraphOK, GraphTypeOK
  <2>6. \A g \in Features : Provided(g)' <=> Provided(g) \/ g = f
    BY <1>6, <2>0, <2>5 DEF Provided, Addresses
  <2>7. /\ DOMAIN heap' = DOMAIN heap \union {d}
        /\ heap'[d] = Node(f, P)
        /\ \A n \in DOMAIN heap \ P : heap'[n] = heap[n]
        /\ \A n \in DOMAIN heap : /\ heap'[n].feature = heap[n].feature
                                  /\ heap'[n].parents = heap[n].parents
    <3>1. heap' = [n \in DOMAIN heap \union {d} |->
                     IF n = d THEN Node(f, P)
                     ELSE IF n \in P THEN [heap[n] EXCEPT !.children = AddDependent(@, d)]
                          ELSE heap[n]]
      BY <2>0, <2>3 DEF NewFeatDep
    <3>2. \A n \in DOMAIN heap : heap[n] \in NodeType
      BY DEF GraphOK, GraphTypeOK
    <3>3. \A n \in DOMAIN heap : /\ heap'[n].feature = heap[n].feature
                                 /\ heap'[n].parents = heap[n].parents
      BY <2>5, <3>1, <3>2 DEF NodeType
    <3> QED BY <2>5, <3>1, <3>3
  <2>8. CallsInv'
    BY <1>1, <2>3, <2>4, CallsMove DEF CatalogueInv
  <2>9. AbsentInv'
    <3>1. ASSUME NEW k \in 1..(Len(stack) - 1), NEW g \in Unused(stack[k].proc), Provided(g)'
          PROVE  Provided(g)
      <4>1. k \in 1..Len(stack) /\ Len(stack) \in 1..Len(stack) /\ k < Len(stack)
        BY <1>2
      <4>2. stack[k].proc \in Processors
        <5>1. stack[k] \in FrameType
          BY <1>1, <4>1
        <5> QED BY <5>1 DEF FrameType
      <4>3. Top.proc \in Helpers(stack[k].proc)
        BY <1>2, <4>1 DEF CatalogueInv, CallsInv
      <4>4. g \notin ProvidedBy(Top.proc)
        BY <4>2, <4>3 DEF CoherentCatalogue, Unused
      <4>5. g \in Features /\ g # f
        BY <2>1, <4>2, <4>4, DeclarationsTyped DEF Unused
      <4> QED BY <2>6, <3>1, <4>5
    <3> QED BY <2>4, <3>1, AbsentMove DEF CatalogueInv
  <2>10. OriginInv'
    <3> SUFFICES ASSUME NEW n \in DOMAIN heap', NEW m \in heap'[n].parents
                 PROVE  <<heap'[m].feature, heap'[n].feature>> \in MayDepend
      BY DEF OriginInv
    <3>1. CASE n = d
      <4>1. heap'[n].feature = f /\ heap'[n].parents = P
        BY <2>7, <3>1 DEF Node
      <4>2. PICK r \in Top.required : m = featMap[r]
        BY <2>0, <4>1
      <4>3. m \in DOMAIN heap /\ heap[m].feature = r
        BY <1>2, <2>2, <4>2, NodeOf
      <4>4. r \in Required(Top.proc)
        BY <1>2 DEF CatalogueInv, CallsInv
      <4> QED BY <1>2, <2>1, <2>7, <4>1, <4>3, <4>4 DEF MayDepend
    <3>2. CASE n \in DOMAIN heap
      <4>1. m \in heap[n].parents /\ m \in DOMAIN heap
        BY <2>7, <3>2 DEF GraphOK, DepsClosed
      <4> QED BY <2>7, <3>2, <4>1 DEF CatalogueInv, OriginInv
    <3> QED BY <2>7, <3>1, <3>2
  <2>11. ProvideInv(Top)'
    <3>1. \A r \in Top.required : Provided(r)' /\ r \notin Invalidated(Top.proc)
      BY <1>2, <1>3, <2>6 DEF ProvideInv
    <3>2. ASSUME NEW g \in Invalidated(Top.proc), Provided(g)'
          PROVE  g \in ProvidedBy(Top.proc) /\ heap'[featMap'[g]].children = <<>>
      <4>1. CASE g = f
        BY <2>1, <2>5, <2>7, <4>1 DEF Node
      <4>2. CASE g # f
        <5>1. g \in Features /\ Provided(g) /\ featMap'[g] = featMap[g]
          BY <1>2, <2>5, <2>6, <3>2, <4>2, DeclarationsTyped
        <5>2. featMap[g] \in DOMAIN heap /\ heap[featMap[g]].feature = g
          BY <5>1, NodeOf
        <5>3. featMap[g] \notin P
          <6> SUFFICES ASSUME NEW r \in Top.required, featMap[g] = featMap[r] PROVE FALSE
            BY <2>0
          <6>1. heap[featMap[r]].feature = r
            BY <1>2, <2>2, NodeOf
          <6> QED BY <1>3, <5>2, <6>1 DEF ProvideInv
        <5> QED BY <1>3, <2>7, <5>1, <5>2, <5>3 DEF ProvideInv
      <4> QED BY <4>1, <4>2
    <3> QED BY <2>4, <3>1, <3>2 DEF ProvideInv
  <2>12. ASSUME NEW g \in Passed(Top', "provide") PROVE Provided(g)'
    <3>1. g \in Features
      BY <1>2, <2>4, DeclarationsTyped DEF Passed
    <3>2. g \in Passed(Top, "provide") \/ g = f
      BY <1>2, <1>6, <2>0, <2>4, PassedNext DEF More, Usage
    <3> QED BY <1>3, <2>6, <3>1, <3>2
  <2>13. TopInv'
    BY <2>4, <2>11, <2>12 DEF TopInv
  <2> QED BY <2>3, <2>8, <2>9, <2>10, <2>13 DEF CatalogueInv, NoAssertFails
<1> QED BY <1>4, <1>5, <1>6

\* The end of process(): the cleaners find the nodes of their features.
LEMMA CleanersKeep ==
    ASSUME CoherentCatalogue, GraphOK, ControlTypeOK, CatalogueInv, PutCleaners
    PROVE  CatalogueInv'
<1>1. /\ stack \in Seq(FrameType) /\ stack # <<>> /\ inv = <<>> /\ mode = "live"
      /\ Top.pc = "clean"
  BY DEF PutCleaners, At, ControlTypeOK
<1>2. PICK p : p = Top.proc
  OBVIOUS
<1>3. p \in Processors
  BY <1>1, <1>2, MovesTyped DEF FrameType
<1>4. \A f \in Cleaned[p] : Provided(f)
  BY <1>1, <1>2, <1>3 DEF CoherentCatalogue, CatalogueInv, TopInv
<1>5. /\ heap' = [n \in DOMAIN heap |->
                    IF heap[n].feature \in Cleaned[p]
                    THEN [heap[n] EXCEPT !.cleaners = @ \union {p}]
                    ELSE heap[n]]
      /\ stack' = Front(stack)
      /\ UNCHANGED <<featMap, inv, mode>>
  BY <1>2, <1>4 DEF PutCleaners, Return
<1>6. ASSUME NEW n \in DOMAIN heap
      PROVE  heap'[n].feature = heap[n].feature /\ heap'[n].parents = heap[n].parents
  <2>1. heap[n] \in NodeType
    BY DEF GraphOK, GraphTypeOK
  <2> QED BY <1>5, <2>1 DEF NodeType
<1>7. OriginInv'
  <2>1. DOMAIN heap' = DOMAIN heap
    BY <1>5
  <2>2. \A n \in DOMAIN heap : heap[n].parents \subseteq DOMAIN heap
    BY DEF GraphOK, DepsClosed
  <2> QED BY <1>6, <2>1, <2>2 DEF CatalogueInv, OriginInv
<1> QED BY <1>1, <1>5, <1>7, ReturnKeeps DEF CatalogueInv

-----------------------------------------------------------------------------
(* The theorems.                                                           *)

\* Every step of the engine.
LEMMA CatalogueStep ==
    ASSUME CoherentCatalogue, GraphInv, CatalogueInv, [Next]_vars
    PROVE  CatalogueInv'
<1>1. GraphOK /\ ControlTypeOK /\ InvalidationSafe
  BY DEF GraphInv, GraphOK, TypeOK
<1>2. GraphOK'
  BY <1>1, GraphStep
<1>3. mode \notin Faults /\ (mode = "dying" => stack = <<>>)
  BY DEF CatalogueInv, NoAssertFails, CallsInv
<1>4. CASE InvalidateDependent
  BY <1>1, <1>4, DependentKeeps
<1>5. CASE InvalidateFeature
  BY <1>1, <1>2, <1>5, FeatureStep, FeatureKeeps
<1>6. CASE PreInvalidate
  BY <1>1, <1>6, PreInvalidateKeeps
<1>7. CASE Need
  BY <1>1, <1>7, NeedKeeps
<1>8. CASE CheckRequirements \/ Work
  BY <1>1, <1>8, WorkKeeps
<1>9. CASE ReturnCancelled \/ WorkFails \/ NoProcessorThrows
  <2>1. /\ stack # <<>> /\ inv = <<>> /\ UNCHANGED <<featMap, heap, inv, mode>>
        /\ stack' = <<>> \/ stack' = Front(stack)
    BY <1>9 DEF ReturnCancelled, WorkFails, NoProcessorThrows, At, Return, Throw
  <2>2. OriginInv'
    BY <2>1 DEF CatalogueInv, OriginInv
  <2> QED BY <1>1, <2>1, <2>2, ReturnKeeps DEF CatalogueInv
<1>10. CASE PostInvalidate
  BY <1>1, <1>10, PostInvalidateKeeps
<1>11. CASE Provide
  BY <1>1, <1>2, <1>11, ProvideKeeps
<1>12. CASE PutCleaners
  BY <1>1, <1>12, CleanersKeep
<1>13. ASSUME NEW p \in Processors, CallProcess(p) PROVE CatalogueInv'
  <2>1. /\ stack = <<>> /\ stack' = <<Frame(p)>> /\ inv = <<>> /\ mode = "live"
        /\ UNCHANGED <<featMap, heap, inv, mode>>
    BY <1>13 DEF CallProcess, Idle
  <2>2. /\ Frame(p) \in FrameType
        /\ Frame(p).proc = p /\ Frame(p).i = 1 /\ Frame(p).pc = "preinvalidate"
        /\ Frame(p).required = Required(p)
    BY FrameTyped DEF Frame
  <2>3. Len(stack') = 1 /\ stack'[1] = Frame(p) /\ stack' # <<>> /\ Top' = Frame(p)
    BY <2>1 DEF Top, Last
  <2>4. Passed(Frame(p), "invalidate") = {}
    BY <2>2, PassedEnds
  <2>5. TopInv'
    BY <2>2, <2>3, <2>4 DEF TopInv, PreInv
  <2>6. CallsInv' /\ AbsentInv'
    BY <2>1, <2>2, <2>3 DEF CallsInv, AbsentInv
  <2> QED BY <2>1, <2>5, <2>6 DEF CatalogueInv, OriginInv, NoAssertFails
<1>14. ASSUME NEW f \in Features, CallRequire(f) PROVE CatalogueInv'
  BY <1>13, <1>14, CatalogueAssumption DEF CallRequire
<1>15. ASSUME NEW f \in Features, CallInvalidate(f) \/ DestroyFeature(f) PROVE CatalogueInv'
  <2>1. stack = <<>> /\ UNCHANGED <<featMap, heap, stack, mode>>
    BY <1>3, <1>15 DEF CallInvalidate, DestroyFeature, Idle
  <2> QED BY <2>1 DEF CatalogueInv, CallsInv, AbsentInv, TopInv, OriginInv, NoAssertFails
<1>16. CASE Destroy \/ Destroyed
  <2>1. /\ UNCHANGED <<featMap, heap, stack, inv>> /\ mode' \in {"dying", "dead"}
        /\ stack = <<>>
    BY <1>3, <1>16 DEF Destroy, Destroyed, Idle
  <2> QED BY <2>1, CatalogueStutters DEF Faults
<1>17. CASE Cancel \/ ClearCancellation \/ Stopped \/ UNCHANGED vars
  <2>1. UNCHANGED <<featMap, heap, stack, inv, mode>>
    BY <1>17 DEF Cancel, ClearCancellation, Stopped, vars
  <2> QED BY <1>3, <2>1, CatalogueStutters
<1> QED
  BY <1>4, <1>5, <1>6, <1>7, <1>8, <1>9, <1>10, <1>11, <1>12, <1>13, <1>14, <1>15,
     <1>16, <1>17 DEF Next, Step, Call

\* With coherent declarations, a processor run for a requirement neither takes
\* away what a waiting process() has built nor gives back what it invalidated.
THEOREM CatalogueInvariant ==
    ASSUME CoherentCatalogue
    PROVE  Spec => []CatalogueInv
<1>1. Init => CatalogueInv
  <2> SUFFICES ASSUME Init PROVE CatalogueInv
    OBVIOUS
  <2>1. stack = <<>> /\ inv = <<>> /\ mode = "live" /\ \A n \in DOMAIN heap : heap[n].parents = {}
    BY DEF Init, Node
  <2> QED BY <2>1 DEF CatalogueInv, CallsInv, OriginInv, AbsentInv, TopInv, NoAssertFails, Faults
<1>2. GraphInv /\ CatalogueInv /\ [Next]_vars => CatalogueInv'
  BY CatalogueStep
<1> QED BY <1>1, <1>2, EngineInvariant, PTL DEF Spec

\* With coherent declarations, no assertion of provide(), process() and
\* ~FeatureDependency ever fails, whatever the calls and the cancellations.
THEOREM AssertionsHold ==
    ASSUME CoherentCatalogue
    PROVE  Spec => []NoAssertFails
<1>1. CatalogueInv => NoAssertFails
  BY DEF CatalogueInv
<1> QED BY <1>1, CatalogueInvariant, PTL

\* With coherent declarations, what process() declares invalidated is away when
\* it ends, or is the one it has just provided again, on which nothing depends.
THEOREM InvalidationLasts ==
    ASSUME CoherentCatalogue
    PROVE  Spec => []InvalidationEffective
<1>1. CatalogueInv => InvalidationEffective
  BY DEF CatalogueInv, TopInv, ProvideInv, ProvidedBy, InvalidationEffective
<1> QED BY <1>1, CatalogueInvariant, PTL
=============================================================================
