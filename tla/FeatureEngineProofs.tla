------------------------- MODULE FeatureEngineProofs -------------------------
(***************************************************************************)
(* Proofs about FeatureEngine, for every catalogue of processors.          *)
(***************************************************************************)
EXTENDS FeatureEngine, SequenceTheorems, TLAPS

-----------------------------------------------------------------------------
(* Lists of dependents.                                                    *)

\* Removing a node from a sorted list leaves the other ones, still sorted.
LEMMA RemoveDependentProperties ==
    ASSUME NEW s \in Seq(Addresses), Decreasing(s), NEW n
    PROVE  /\ RemoveDependent(s, n) \in Seq(Addresses)
           /\ Decreasing(RemoveDependent(s, n))
           /\ ToSet(RemoveDependent(s, n)) = ToSet(s) \ {n}
<1>1. CASE n \notin ToSet(s)
  BY <1>1 DEF RemoveDependent
<1>2. CASE n \in ToSet(s)
  <2> DEFINE i == CHOOSE k \in DOMAIN s : s[k] = n
  <2> DEFINE r == RemoveAt(s, i)
  <2>1. i \in 1..Len(s) /\ s[i] = n
    BY <1>2 DEF ToSet
  <2>2. RemoveDependent(s, n) = r
    BY <1>2 DEF RemoveDependent
  <2> HIDE DEF i
  <2>3. /\ r \in Seq(Addresses)
        /\ Len(r) = Len(s) - 1
        /\ \A k \in 1..Len(r) : r[k] = IF k < i THEN s[k] ELSE s[k + 1]
    <3> DEFINE a == SubSeq(s, 1, i - 1)
    <3> DEFINE b == SubSeq(s, i + 1, Len(s))
    <3>1. /\ a \in Seq(Addresses) /\ Len(a) = i - 1
          /\ \A k \in 1..(i - 1) : a[k] = s[k]
      BY <2>1
    <3>2. /\ b \in Seq(Addresses) /\ Len(b) = Len(s) - i
          /\ \A k \in 1..(Len(s) - i) : b[k] = s[i + k]
      BY <2>1
    <3>3. r = a \o b
      BY DEF RemoveAt
    <3> HIDE DEF a, b, r
    <3>4. /\ r \in Seq(Addresses) /\ Len(r) = Len(s) - 1
          /\ \A k \in 1..Len(r) : r[k] = IF k <= Len(a) THEN a[k] ELSE b[k - Len(a)]
      <4>1. /\ a \o b \in Seq(Addresses) /\ Len(a \o b) = Len(a) + Len(b)
            /\ \A k \in 1..(Len(a) + Len(b)) :
                  (a \o b)[k] = IF k <= Len(a) THEN a[k] ELSE b[k - Len(a)]
        BY <3>1, <3>2, ConcatProperties
      <4>2. Len(a) + Len(b) = Len(s) - 1
        BY <2>1, <3>1, <3>2
      <4> QED BY <3>3, <4>1, <4>2
    <3>5. ASSUME NEW k \in 1..Len(r)
          PROVE  r[k] = IF k < i THEN s[k] ELSE s[k + 1]
      <4>1. CASE k < i
        BY <2>1, <3>1, <3>4, <4>1
      <4>2. CASE k >= i
        <5>1. k - Len(a) \in 1..(Len(s) - i) /\ i + (k - Len(a)) = k + 1
          BY <2>1, <3>1, <3>4, <4>2
        <5> QED BY <2>1, <3>1, <3>2, <3>4, <4>2, <5>1
      <4> QED BY <2>1, <4>1, <4>2
    <3> QED BY <3>4, <3>5
  <2> HIDE DEF r
  <2>4. \A j, k \in 1..Len(s) : s[j] = s[k] => j = k
    BY DEF Decreasing, Addresses
  <2>5. Decreasing(r)
    <3> SUFFICES ASSUME NEW j \in 1..Len(r), NEW k \in 1..Len(r), j < k
                 PROVE  r[k] < r[j]
      BY DEF Decreasing
    <3>1. \A a, b \in 1..Len(s) : a < b => s[b] < s[a]
      BY DEF Decreasing
    <3>2. /\ j \in 1..Len(s) /\ j + 1 \in 1..Len(s)
          /\ k \in 1..Len(s) /\ k + 1 \in 1..Len(s)
      BY <2>3
    <3> QED BY <2>1, <2>3, <3>1, <3>2
  <2>6. ToSet(r) \subseteq ToSet(s) \ {n}
    <3> SUFFICES ASSUME NEW k \in 1..Len(r)
                 PROVE  r[k] \in ToSet(s) /\ r[k] # n
      BY <2>3 DEF ToSet
    <3>1. k \in 1..Len(s) /\ k + 1 \in 1..Len(s)
      BY <2>3
    <3>2. CASE k < i
      <4>1. r[k] = s[k] /\ k # i
        BY <2>1, <2>3, <3>1, <3>2
      <4> QED BY <2>1, <2>4, <3>1, <4>1 DEF ToSet
    <3>3. CASE k >= i
      <4>1. r[k] = s[k + 1] /\ k + 1 # i
        BY <2>1, <2>3, <3>1, <3>3
      <4> QED BY <2>1, <2>4, <3>1, <4>1 DEF ToSet
    <3> QED BY <2>1, <3>1, <3>2, <3>3
  <2>7. ASSUME NEW k \in 1..Len(s), s[k] # n
        PROVE  \E j \in 1..Len(r) : r[j] = s[k]
    <3>1. CASE k < i
      BY <2>1, <2>3, <3>1
    <3>2. CASE i < k
      <4>1. k - 1 \in 1..Len(r) /\ r[k - 1] = s[k]
        BY <2>1, <2>3, <3>2
      <4> QED BY <4>1
    <3> QED BY <2>1, <2>7, <3>1, <3>2
  <2>8. ToSet(s) \ {n} \subseteq ToSet(r)
    BY <2>3, <2>7 DEF ToSet
  <2> QED BY <2>2, <2>3, <2>5, <2>6, <2>8
<1> QED BY <1>1, <1>2

\* A new node is younger than every dependent listed before it.
LEMMA AddDependentProperties ==
    ASSUME NEW s \in Seq(Addresses), Decreasing(s), NEW n \in Addresses,
           \A x \in ToSet(s) : x < n
    PROVE  /\ AddDependent(s, n) \in Seq(Addresses)
           /\ Decreasing(AddDependent(s, n))
           /\ ToSet(AddDependent(s, n)) = ToSet(s) \union {n}
<1> DEFINE r == AddDependent(s, n)
<1>1. /\ r \in Seq(Addresses)
      /\ Len(r) = Len(s) + 1
      /\ r[1] = n
      /\ \A k \in 2..Len(r) : r[k] = s[k - 1]
  BY DEF AddDependent
<1>2. \A k \in 1..Len(s) : s[k] < n
  BY DEF ToSet
<1> HIDE DEF r
<1>3. Decreasing(r)
  <2> SUFFICES ASSUME NEW j \in 1..Len(r), NEW k \in 1..Len(r), j < k
               PROVE  r[k] < r[j]
    BY DEF Decreasing
  <2>1. k - 1 \in 1..Len(s) /\ r[k] = s[k - 1]
    BY <1>1
  <2>2. CASE j = 1
    BY <1>1, <1>2, <2>1, <2>2
  <2>3. CASE j # 1
    <3>1. j - 1 \in 1..Len(s) /\ r[j] = s[j - 1]
      BY <1>1, <2>3
    <3> QED BY <2>1, <3>1 DEF Decreasing
  <2> QED BY <2>2, <2>3
<1>4. ToSet(r) \subseteq ToSet(s) \union {n}
  <2> SUFFICES ASSUME NEW k \in 1..Len(r), k # 1 PROVE r[k] \in ToSet(s)
    BY <1>1 DEF ToSet
  <2>1. k - 1 \in 1..Len(s) /\ r[k] = s[k - 1]
    BY <1>1
  <2> QED BY <2>1 DEF ToSet
<1>5. ToSet(s) \subseteq ToSet(r)
  <2> SUFFICES ASSUME NEW k \in 1..Len(s) PROVE s[k] \in ToSet(r)
    BY DEF ToSet
  <2> DEFINE j == k + 1
  <2>1. j \in 2..Len(r) /\ j - 1 = k
    BY <1>1
  <2> HIDE DEF j
  <2>2. j \in 1..Len(r)
    BY <1>1, <2>1
  <2>3. r[j] = s[k]
    BY <1>1, <2>1
  <2>4. DOMAIN r = 1..Len(r)
    BY <1>1
  <2> QED BY <2>2, <2>3, <2>4 DEF ToSet
<1>6. n \in ToSet(r)
  BY <1>1 DEF ToSet
<1> QED BY <1>1, <1>3, <1>4, <1>5, <1>6 DEF r

\* The head of a sorted list is the youngest; the tail is the rest of it.
LEMMA TailProperties ==
    ASSUME NEW s \in Seq(Addresses), Decreasing(s), s # <<>>
    PROVE  /\ Head(s) \in Addresses
           /\ Tail(s) \in Seq(Addresses)
           /\ Decreasing(Tail(s))
           /\ Head(s) \notin ToSet(Tail(s))
           /\ ToSet(s) = ToSet(Tail(s)) \union {Head(s)}
           /\ \A x \in ToSet(Tail(s)) : x < Head(s)
<1> DEFINE t == Tail(s)
<1>1. /\ t \in Seq(Addresses)
      /\ Len(t) = Len(s) - 1
      /\ Len(s) > 0
      /\ Head(s) = s[1]
      /\ \A k \in 1..Len(t) : t[k] = s[k + 1]
  OBVIOUS
<1> HIDE DEF t
<1>2. Decreasing(t) /\ \A x \in ToSet(t) : x < s[1]
  <2>1. \A j, k \in 1..Len(s) : j < k => s[k] < s[j]
    BY DEF Decreasing
  <2>2. \A k \in 1..Len(t) : k + 1 \in 1..Len(s) /\ 1 \in 1..Len(s)
    BY <1>1
  <2> QED BY <1>1, <2>1, <2>2 DEF Decreasing, ToSet
<1>3. ToSet(t) \union {s[1]} \subseteq ToSet(s)
  BY <1>1 DEF ToSet
<1>4. ToSet(s) \subseteq ToSet(t) \union {s[1]}
  <2> SUFFICES ASSUME NEW k \in 1..Len(s), k # 1 PROVE s[k] \in ToSet(t)
    BY <1>1 DEF ToSet
  <2>1. k - 1 \in 1..Len(t) /\ t[k - 1] = s[k]
    BY <1>1
  <2> QED BY <1>1, <2>1 DEF ToSet
<1>5. s[1] \in Addresses
  BY <1>1
<1>6. s[1] \notin ToSet(t)
  BY <1>2, <1>5 DEF Addresses
<1> QED BY <1>1, <1>2, <1>3, <1>4, <1>5, <1>6 DEF t

\* A list has no element exactly when it is empty.
LEMMA EmptyList ==
    ASSUME NEW s \in Seq(Addresses)
    PROVE  ToSet(s) = {} <=> s = <<>>
<1>1. ASSUME s = <<>> PROVE ToSet(s) = {}
  <2>1. DOMAIN s = {}
    BY <1>1
  <2> QED BY <2>1 DEF ToSet
<1>2. ASSUME s # <<>> PROVE ToSet(s) # {}
  <2>1. 1 \in DOMAIN s
    BY <1>2
  <2> QED BY <2>1 DEF ToSet
<1> QED BY <1>1, <1>2

-----------------------------------------------------------------------------
(* Call stacks.                                                            *)

\* The innermost activation, and the outer ones.
LEMMA FrontLastProperties ==
    ASSUME NEW S, NEW s \in Seq(S), s # <<>>
    PROVE  /\ Len(s) \in Nat \ {0}
           /\ Last(s) = s[Len(s)]
           /\ Last(s) \in S
           /\ Front(s) \in Seq(S)
           /\ Len(Front(s)) = Len(s) - 1
           /\ \A k \in 1..(Len(s) - 1) : Front(s)[k] = s[k]
<1>1. Len(s) \in Nat \ {0}
  OBVIOUS
<1>2. Last(s) = s[Len(s)] /\ Last(s) \in S
  BY <1>1 DEF Last
<1>3. /\ Front(s) \in Seq(S)
      /\ Len(Front(s)) = Len(s) - 1
      /\ \A k \in 1..(Len(s) - 1) : Front(s)[k] = s[k]
  <2> DEFINE n == Len(s) - 1
  <2>1. n \in Nat /\ \A k \in 1..n : s[k] \in S
    BY <1>1
  <2> HIDE DEF n
  <2>2. /\ SubSeq(s, 1, n) \in Seq(S)
        /\ Len(SubSeq(s, 1, n)) = IF 1 <= n THEN n - 1 + 1 ELSE 0
        /\ \A k \in 1..(n - 1 + 1) : SubSeq(s, 1, n)[k] = s[1 + k - 1]
    BY <2>1, SubSeqProperties
  <2>3. /\ Len(SubSeq(s, 1, n)) = n
        /\ \A k \in 1..n : SubSeq(s, 1, n)[k] = s[k]
    BY <2>1, <2>2
  <2> QED BY <2>2, <2>3 DEF Front, n
<1> QED BY <1>1, <1>2, <1>3

\* Replacing the innermost activation.
LEMMA ReplaceLast ==
    ASSUME NEW S, NEW s \in Seq(S), s # <<>>, NEW e \in S
    PROVE  /\ Append(Front(s), e) \in Seq(S)
           /\ Len(Append(Front(s), e)) = Len(s)
           /\ \A k \in 1..(Len(s) - 1) : Append(Front(s), e)[k] = s[k]
           /\ Append(Front(s), e)[Len(s)] = e
<1> DEFINE t == Front(s)
<1>1. /\ t \in Seq(S) /\ Len(t) = Len(s) - 1 /\ Len(s) \in Nat \ {0}
      /\ \A k \in 1..(Len(s) - 1) : t[k] = s[k]
  BY FrontLastProperties
<1> HIDE DEF t
<1>2. /\ Append(t, e) \in Seq(S)
      /\ Len(Append(t, e)) = Len(s)
      /\ \A k \in 1..(Len(s) - 1) : Append(t, e)[k] = s[k]
      /\ Append(t, e)[Len(s)] = e
  BY <1>1
<1> QED BY <1>2 DEF t

-----------------------------------------------------------------------------
(* The control state.                                                      *)

\* A new activation of process() is well formed.
LEMMA FrameTyped ==
    ASSUME NEW p \in Processors
    PROVE  Frame(p) \in FrameType
<1>1. \A j \in DOMAIN Usages[p] : Usages[p][j].feature \in Features
  <2> DEFINE u == Usages[p]
  <2>1. u \in Seq([kind : Kinds, feature : Features])
    BY CatalogueAssumption
  <2> HIDE DEF u
  <2>2. \A j \in 1..Len(u) : u[j] \in [kind : Kinds, feature : Features]
    BY <2>1, ElementOfSeq
  <2>3. DOMAIN u = 1..Len(u)
    BY <2>1, LenProperties
  <2>4. \A j \in DOMAIN u : u[j].feature \in Features
    BY <2>2, <2>3
  <2> QED BY <2>4 DEF u
<1>2. Required(p) \in SUBSET Features
  BY <1>1 DEF Required
<1>3. "preinvalidate" \in Phases
  BY DEF Phases
<1> QED BY <1>2, <1>3 DEF Frame, FrameType

\* The three ways a frame changes.
LEMMA FrameMoves ==
    ASSUME NEW x \in FrameType
    PROVE  /\ [x EXCEPT !.i = @ + 1] \in FrameType
           /\ \A R : [[x EXCEPT !.i = @ + 1] EXCEPT !.required = @ \ R] \in FrameType
           /\ \A pc \in Phases : [[x EXCEPT !.i = 1] EXCEPT !.pc = pc] \in FrameType
<1> DEFINE y == [x EXCEPT !.i = @ + 1]
<1> DEFINE z == [x EXCEPT !.i = 1]
<1>1. y \in FrameType /\ z \in FrameType
  BY DEF FrameType
<1> HIDE DEF y, z
<1>2. ASSUME NEW R PROVE [y EXCEPT !.required = @ \ R] \in FrameType
  BY <1>1 DEF FrameType
<1>3. ASSUME NEW pc \in Phases PROVE [z EXCEPT !.pc = pc] \in FrameType
  BY <1>1 DEF FrameType
<1> QED BY <1>1, <1>2, <1>3 DEF y, z

\* What each way of moving in process() does to the stack.
LEMMA MovesTyped ==
    ASSUME stack \in Seq(FrameType), stack # <<>>
    PROVE  /\ Top \in FrameType
           /\ Front(stack) \in Seq(FrameType)
           /\ \A e \in FrameType : Append(Front(stack), e) \in Seq(FrameType)
           /\ [Top EXCEPT !.i = @ + 1] \in FrameType
           /\ \A R : [[Top EXCEPT !.i = @ + 1] EXCEPT !.required = @ \ R] \in FrameType
           /\ \A pc \in Phases : [[Top EXCEPT !.i = 1] EXCEPT !.pc = pc] \in FrameType
<1>1. Top \in FrameType /\ Front(stack) \in Seq(FrameType)
  BY FrontLastProperties DEF Top
<1>2. \A e \in FrameType : Append(Front(stack), e) \in Seq(FrameType)
  BY ReplaceLast
<1> QED BY <1>1, <1>2, FrameMoves

\* The usage that a loop of process() is at.
LEMMA UsageTyped ==
    ASSUME stack \in Seq(FrameType), stack # <<>>, More
    PROVE  Usage.feature \in Features /\ Usage.kind \in Kinds
<1>1. Top \in FrameType
  BY MovesTyped
<1>2. Top.proc \in Processors /\ Top.i \in Nat \ {0}
  BY <1>1 DEF FrameType
<1>3. Usages[Top.proc] \in Seq([kind : Kinds, feature : Features])
  BY <1>2, CatalogueAssumption
<1>4. Top.i \in 1..Len(Usages[Top.proc])
  BY <1>2, <1>3 DEF More
<1>5. Usages[Top.proc][Top.i] \in [kind : Kinds, feature : Features]
  BY <1>3, <1>4, ElementOfSeq
<1> QED BY <1>5 DEF Usage

\* Every step keeps the frames, the flags and the outcome well formed.
LEMMA ControlStep ==
    ASSUME ControlTypeOK, [Next]_vars
    PROVE  ControlTypeOK'
<1> USE DEF ControlTypeOK
<1>1. CASE InvalidateDependent
  BY <1>1 DEF InvalidateDependent, Halt, Modes, Faults
<1>2. CASE InvalidateFeature
  BY <1>2 DEF InvalidateFeature, Halt, Modes, Faults
<1>3. ASSUME NEW pc \in Phases, NEW used, NEW after \in Phases,
             InvalidationLoop(pc, used, after)
      PROVE  ControlTypeOK'
  <2>1. stack # <<>>
    BY <1>3 DEF InvalidationLoop, At
  <2>2. stack' \in Seq(FrameType)
    BY <1>3, <2>1, MovesTyped DEF InvalidationLoop, Goto, SetTop, NextUsage
  <2> QED BY <1>3, <2>2 DEF InvalidationLoop
<1>4. CASE PreInvalidate
  BY <1>3, <1>4 DEF PreInvalidate, Phases
<1>5. CASE PostInvalidate
  BY <1>3, <1>5 DEF PostInvalidate, Phases
<1>6. CASE Need
  <2>1. stack # <<>>
    BY <1>6 DEF Need, At
  <2>2. ASSUME More, NEW q \in Makers[Usage.feature]
        PROVE  Frame(q) \in FrameType
    <3>1. Makers[Usage.feature] \in SUBSET Processors
      BY <2>1, <2>2, UsageTyped, CatalogueAssumption
    <3> QED BY <3>1, FrameTyped
  <2>3. "check" \in Phases
    BY DEF Phases
  <2>4. \A s \in Seq(FrameType), e \in FrameType : Append(s, e) \in Seq(FrameType)
    BY AppendProperties
  <2>5. stack' \in Seq(FrameType)
    <3>1. CASE ~More
      BY <1>6, <2>1, <2>3, <3>1, MovesTyped DEF Need, Goto, SetTop
    <3>2. CASE More /\ Usage.kind \in {"require", "use"} /\ ~Provided(Usage.feature)
      <4>1. PICK q \in Makers[Usage.feature] :
              stack' = Append(Append(Front(stack), [Top EXCEPT !.i = @ + 1]), Frame(q))
        BY <1>6, <3>2 DEF Need
      <4>2. Frame(q) \in FrameType
        BY <2>2, <3>2
      <4>3. Append(Front(stack), [Top EXCEPT !.i = @ + 1]) \in Seq(FrameType)
        BY <2>1, MovesTyped
      <4> QED BY <2>4, <4>1, <4>2, <4>3
    <3>3. CASE More /\ ~(Usage.kind \in {"require", "use"} /\ ~Provided(Usage.feature))
      BY <1>6, <2>1, <3>3, MovesTyped DEF Need, NextUsage, SetTop
    <3> QED BY <3>1, <3>2, <3>3
  <2> QED BY <1>6, <2>5 DEF Need
<1>7. CASE ReturnCancelled
  <2>1. stack # <<>>
    BY <1>7 DEF ReturnCancelled, At
  <2> QED BY <1>7, <2>1, MovesTyped DEF ReturnCancelled, Return, Outcomes
<1>8. CASE CheckRequirements
  <2>1. stack # <<>> /\ "work" \in Phases
    BY <1>8 DEF CheckRequirements, At, Phases
  <2>2. CASE Goto("work") /\ UNCHANGED outcome
    BY <1>8, <2>1, <2>2, MovesTyped DEF CheckRequirements, Goto, SetTop
  <2>3. CASE Throw("unmet")
    BY <1>8, <2>3 DEF CheckRequirements, Throw, Outcomes
  <2> QED BY <1>8, <2>2, <2>3 DEF CheckRequirements
<1>9. CASE Work
  <2>1. stack # <<>> /\ "postinvalidate" \in Phases
    BY <1>9 DEF Work, At, Phases
  <2> QED BY <1>9, <2>1, MovesTyped DEF Work, Goto, SetTop
<1>10. CASE WorkFails
  BY <1>10 DEF WorkFails, Throw, Outcomes
<1>11. CASE NoProcessorThrows
  BY <1>11 DEF NoProcessorThrows, Throw, Outcomes
<1>12. CASE Provide
  <2>1. stack # <<>> /\ "clean" \in Phases
    BY <1>12 DEF Provide, At, Phases
  <2> QED BY <1>12, <2>1, MovesTyped
          DEF Provide, Goto, NextUsage, SetTop, Halt, Modes, Faults
<1>13. CASE PutCleaners
  <2>1. stack # <<>>
    BY <1>13 DEF PutCleaners, At
  <2>2. CASE Return("done") /\ UNCHANGED <<cancelled, mode>>
    BY <1>13, <2>1, <2>2, MovesTyped DEF Return, Outcomes
  <2>3. CASE Halt("cleaner")
    BY <1>13, <2>3 DEF Halt, Modes, Faults
  <2> QED BY <1>13, <2>2, <2>3 DEF PutCleaners
<1>14. ASSUME NEW p \in Processors, CallProcess(p)
       PROVE  ControlTypeOK'
  BY <1>14, FrameTyped DEF CallProcess, Outcomes
<1>15. ASSUME NEW f \in Features, CallRequire(f)
       PROVE  ControlTypeOK'
  <2>1. PICK p \in Makers[f] : CallProcess(p)
    BY <1>15 DEF CallRequire
  <2> QED BY <1>14, <2>1, CatalogueAssumption
<1>16. ASSUME NEW f \in Features, CallInvalidate(f) \/ DestroyFeature(f)
       PROVE  ControlTypeOK'
  BY <1>16 DEF CallInvalidate, DestroyFeature
<1>17. CASE Destroy \/ Destroyed
  BY <1>17 DEF Destroy, Destroyed, Modes
<1>18. CASE Cancel \/ ClearCancellation
  BY <1>18 DEF Cancel, ClearCancellation
<1>19. CASE Stopped \/ UNCHANGED vars
  BY <1>19 DEF Stopped, vars
<1> QED
  BY <1>1, <1>2, <1>4, <1>5, <1>6, <1>7, <1>8, <1>9, <1>10, <1>11, <1>12, <1>13,
     <1>14, <1>15, <1>16, <1>17, <1>18, <1>19 DEF Next, Step, Call

-----------------------------------------------------------------------------
(* The graph.                                                              *)

GraphOK == GraphTypeOK /\ DepsClosed /\ CreationOrder /\ NestOrder

ActivationType == [feature : Features, todo : Seq(Addresses)]

\* What a step may do to the nodes: keep them, make the node of f, delete it.
Keeps ==
    /\ featMap' = featMap
    /\ \A n \in DOMAIN heap : heap'[n].parents = heap[n].parents

Creates(f) ==
    /\ ~Provided(f) /\ fresh \notin DOMAIN heap /\ fresh # 0
    /\ featMap' = [featMap EXCEPT ![f] = fresh]
    /\ heap'[fresh].parents \subseteq DOMAIN heap
    /\ \A n \in DOMAIN heap : heap'[n].parents = heap[n].parents

Deletes(f) ==
    /\ Provided(f)
    /\ featMap' = [featMap EXCEPT ![f] = 0]
    /\ \A n \in DOMAIN heap : featMap[f] \notin heap[n].parents
    /\ \A n \in DOMAIN heap \ {featMap[f]} : heap'[n].parents = heap[n].parents

\* The node of a provided feature, and the activation that invalidates it.
LEMMA ActivationTyped ==
    ASSUME GraphOK, NEW f \in Features, Provided(f)
    PROVE  /\ featMap[f] \in DOMAIN heap
           /\ featMap[f] \in Addresses
           /\ heap[featMap[f]].children \in Seq(Addresses)
           /\ Decreasing(heap[featMap[f]].children)
           /\ Activation(f) \in ActivationType
           /\ Activation(f).feature = f
           /\ Activation(f).todo = heap[featMap[f]].children
<1>1. featMap[f] \in DOMAIN heap /\ featMap[f] \in Addresses
  BY DEF GraphOK, GraphTypeOK, DepsClosed
<1>2. heap[featMap[f]] \in NodeType
  BY <1>1 DEF GraphOK, GraphTypeOK
<1>3. heap[featMap[f]].children \in Seq(Addresses)
  BY <1>2 DEF NodeType
<1>4. Decreasing(heap[featMap[f]].children)
  BY <1>1 DEF GraphOK, CreationOrder
<1> QED BY <1>1, <1>3, <1>4 DEF Activation, ActivationType

\* Calling invalidate() when no invalidation is in progress.
LEMMA InvalidateStarts ==
    ASSUME GraphOK, NEW f \in Features, inv = <<>>, Invalidate(f),
           UNCHANGED <<featMap, heap, fresh>>
    PROVE  GraphOK'
<1>1. CASE ~Provided(f)
  <2>1. inv' = inv
    BY <1>1 DEF Invalidate
  <2> QED BY <2>1 DEF GraphOK, GraphTypeOK, DepsClosed, CreationOrder, NestOrder, Provided, Target
<1>2. CASE Provided(f)
  <2> DEFINE a == Activation(f)
  <2>1. /\ a \in ActivationType /\ a.feature = f
        /\ a.todo = heap[featMap[f]].children /\ Decreasing(a.todo)
    BY <1>2, ActivationTyped
  <2>2. inv' = Append(inv, a)
    BY <1>2 DEF Invalidate
  <2> HIDE DEF a
  <2>3. inv' \in Seq(ActivationType) /\ Len(inv') = 1 /\ inv'[1] = a
    BY <2>1, <2>2
  <2>4. GraphTypeOK' /\ DepsClosed' /\ CreationOrder'
    BY <2>3 DEF GraphOK, GraphTypeOK, DepsClosed, CreationOrder, ActivationType, Provided
  <2>5. NestOrder'
    BY <1>2, <2>1, <2>3 DEF NestOrder, Provided, Target
  <2> QED BY <2>4, <2>5 DEF GraphOK
<1> QED BY <1>1, <1>2

\* A step that leaves the graph and the invalidations alone.
LEMMA GraphStutters ==
    ASSUME GraphOK, UNCHANGED <<featMap, heap, fresh, inv>>
    PROVE  GraphOK'
BY DEF GraphOK, GraphTypeOK, DepsClosed, CreationOrder, NestOrder, Provided, Target

\* The next dependent is still a node, and its invalidation nests in order.
LEMMA DependentStep ==
    ASSUME GraphOK, InvalidateDependent
    PROVE  GraphOK' /\ UNCHANGED mode
<1>0. PICK L, a, n, b, c, rest :
        /\ L = Len(inv) /\ a = inv[L] /\ n = Head(a.todo)
        /\ b = [a EXCEPT !.todo = Tail(@)]
        /\ rest = Append(Front(inv), b)
        /\ c = Activation(heap[n].feature)
  OBVIOUS
<1>1. /\ inv \in Seq(ActivationType) /\ inv # <<>>
      /\ L \in Nat \ {0} /\ Last(inv) = a /\ a \in ActivationType
  <2>1. inv \in Seq(ActivationType) /\ inv # <<>>
    BY DEF GraphOK, GraphTypeOK, ActivationType, InvalidateDependent
  <2> QED BY <1>0, <2>1, FrontLastProperties
<1>2. /\ a.feature \in Features /\ a.todo \in Seq(Addresses)
      /\ a.todo # <<>> /\ Decreasing(a.todo)
  <2>1. a.feature \in Features /\ a.todo \in Seq(Addresses) /\ a.todo # <<>>
    BY <1>1 DEF ActivationType, InvalidateDependent
  <2>2. Decreasing(a.todo)
    BY <1>0, <1>1 DEF GraphOK, NestOrder
  <2> QED BY <2>1, <2>2
<1>3. /\ n \in Addresses /\ Tail(a.todo) \in Seq(Addresses) /\ Decreasing(Tail(a.todo))
      /\ ToSet(a.todo) = ToSet(Tail(a.todo)) \union {n}
      /\ \A x \in ToSet(Tail(a.todo)) : x < n
  BY <1>0, <1>2, TailProperties
<1>4. /\ ToSet(heap[Target(L)].children) = ToSet(a.todo)
      /\ Provided(a.feature) /\ Target(L) = featMap[a.feature]
  <2>1. L \in 1..Len(inv) /\ ~(L < Len(inv))
    BY <1>0, <1>1
  <2>2. ToSet(heap[Target(L)].children) = ToSet(inv[L].todo) /\ Provided(inv[L].feature)
    BY <2>1 DEF GraphOK, NestOrder
  <2> QED BY <1>0, <2>2 DEF Target
<1>5. Target(L) \in DOMAIN heap
  BY <1>2, <1>4, ActivationTyped
<1>6. n \in DOMAIN heap /\ n \in ToSet(heap[Target(L)].children)
  BY <1>3, <1>4, <1>5 DEF GraphOK, DepsClosed
<1>7. Target(L) < n
  BY <1>5, <1>6 DEF GraphOK, DepsClosed, CreationOrder
<1>8. /\ heap[n].feature \in Features /\ featMap[heap[n].feature] = n
      /\ Provided(heap[n].feature)
  <2>1. heap[n] \in NodeType
    BY <1>6 DEF GraphOK, GraphTypeOK
  <2>2. featMap[heap[n].feature] = n
    BY <1>6 DEF GraphOK, DepsClosed
  <2> QED BY <1>3, <2>1, <2>2 DEF NodeType, Provided, Addresses
<1>9. /\ b \in ActivationType /\ b.feature = a.feature /\ b.todo = Tail(a.todo)
  BY <1>0, <1>1, <1>3 DEF ActivationType
<1>10. /\ c \in ActivationType /\ c.feature = heap[n].feature
       /\ c.todo = heap[n].children /\ Decreasing(c.todo)
  BY <1>0, <1>8, ActivationTyped
<1>11. /\ inv' = Append(rest, c)
       /\ UNCHANGED <<featMap, heap, fresh, mode>>
  BY <1>0, <1>1, <1>6, <1>8 DEF InvalidateDependent
<1>12. /\ rest \in Seq(ActivationType) /\ Len(rest) = L
       /\ \A k \in 1..(L - 1) : rest[k] = inv[k]
       /\ rest[L] = b
  BY <1>0, <1>1, <1>9, ReplaceLast
<1>13. /\ inv' \in Seq(ActivationType) /\ Len(inv') = L + 1
       /\ \A k \in 1..(L - 1) : inv'[k] = inv[k]
       /\ inv'[L] = b
       /\ inv'[L + 1] = c
  BY <1>1, <1>10, <1>11, <1>12
<1>14. /\ \A k \in 1..L : inv'[k].feature = inv[k].feature /\ Target(k)' = Target(k)
       /\ Target(L + 1)' = n
  <2>1. ASSUME NEW k \in 1..L PROVE inv'[k].feature = inv[k].feature
    <3>1. CASE k \in 1..(L - 1)
      BY <1>13, <3>1
    <3>2. CASE k = L
      BY <1>0, <1>9, <1>13, <3>2
    <3> QED BY <1>1, <3>1, <3>2
  <2>2. ASSUME NEW k \in 1..L PROVE Target(k)' = Target(k)
    BY <1>11, <2>1 DEF Target
  <2>3. Target(L + 1)' = n
    BY <1>8, <1>10, <1>11, <1>13 DEF Target
  <2> QED BY <2>1, <2>2, <2>3
<1>15. GraphTypeOK' /\ DepsClosed' /\ CreationOrder'
  BY <1>11, <1>13 DEF GraphOK, GraphTypeOK, DepsClosed, CreationOrder, ActivationType, Provided
<1>16. NestOrder'
  <2>1. ASSUME NEW k \in 1..(L + 1)
        PROVE  Provided(inv[k].feature)' /\ Decreasing(inv'[k].todo)
    <3>1. CASE k \in 1..(L - 1)
      <4>1. Provided(inv[k].feature) /\ Decreasing(inv[k].todo)
        BY <1>0, <1>1, <3>1 DEF GraphOK, NestOrder
      <4> QED BY <1>11, <1>13, <3>1, <4>1 DEF Provided
    <3>2. CASE k = L
      BY <1>3, <1>4, <1>9, <1>11, <1>13, <3>2 DEF Provided
    <3>3. CASE k = L + 1
      BY <1>8, <1>10, <1>11, <1>13, <3>3 DEF Provided
    <3> QED BY <1>1, <3>1, <3>2, <3>3
  <2>2. ASSUME NEW j \in 1..(L + 1), NEW k \in 1..(L + 1), j < k
        PROVE  Target(j)' < Target(k)'
    <3>1. CASE k <= L
      BY <1>0, <1>1, <1>14, <2>2, <3>1 DEF GraphOK, NestOrder
    <3>2. CASE k = L + 1 /\ j < L
      <4>1. Target(j) < Target(L)
        BY <1>0, <1>1, <3>2 DEF GraphOK, NestOrder
      <4>2. Target(j) \in Nat /\ Target(L) \in Nat /\ n \in Nat
        <5>1. inv[j] \in ActivationType
          BY <1>0, <1>1, <3>2
        <5> QED BY <1>0, <1>2, <1>3, <5>1
                DEF GraphOK, GraphTypeOK, Target, ActivationType, Addresses
      <4> QED BY <1>1, <1>7, <1>14, <3>2, <4>1, <4>2
    <3>3. CASE k = L + 1 /\ j = L
      BY <1>1, <1>7, <1>14, <3>3
    <3> QED BY <1>1, <2>2, <3>1, <3>2, <3>3
  <2>3. ASSUME NEW k \in 1..(L + 1)
        PROVE  ToSet(heap[Target(k)'].children) =
                 ToSet(inv'[k].todo) \union (IF k < L + 1 THEN {Target(k + 1)'} ELSE {})
    <3>1. CASE k < L
      <4>1. /\ k \in 1..L /\ k + 1 \in 1..L /\ k \in 1..(L - 1)
        BY <1>1, <3>1
      <4>2. ToSet(heap[Target(k)].children) = ToSet(inv[k].todo) \union {Target(k + 1)}
        BY <1>0, <3>1, <4>1 DEF GraphOK, NestOrder
      <4>3. Target(k + 1)' = Target(k + 1) /\ Target(k)' = Target(k) /\ inv'[k] = inv[k]
        BY <1>13, <1>14, <4>1
      <4>4. k < L + 1
        BY <1>1, <3>1
      <4> QED BY <4>2, <4>3, <4>4
    <3>2. CASE k = L
      <4>1. Target(k)' = Target(L) /\ Target(k + 1)' = n /\ k < L + 1
        BY <1>1, <1>14, <3>2
      <4> QED BY <1>3, <1>4, <1>9, <1>13, <3>2, <4>1
    <3>3. CASE k = L + 1
      <4>1. Target(k)' = n /\ ~(k < L + 1) /\ inv'[k].todo = heap[n].children
        BY <1>1, <1>10, <1>13, <1>14, <3>3
      <4> QED BY <4>1
    <3> QED BY <1>1, <3>1, <3>2, <3>3
  <2>4. ASSUME NEW k \in 1..L, NEW x \in ToSet(inv'[k].todo)
        PROVE  x < Target(k + 1)'
    <3>1. CASE k < L
      <4>1. k + 1 \in 1..L /\ k \in 1..(L - 1)
        BY <1>1, <3>1
      <4> QED BY <1>0, <1>1, <1>13, <1>14, <2>4, <4>1 DEF GraphOK, NestOrder
    <3>2. CASE k = L
      BY <1>3, <1>9, <1>13, <1>14, <2>4, <3>2
    <3> QED BY <1>1, <3>1, <3>2
  <2>5. Len(inv') = L + 1 /\ (L + 1) - 1 = L /\ heap' = heap
    BY <1>1, <1>11, <1>13
  <2> QED BY <2>1, <2>2, <2>3, <2>4, <2>5 DEF NestOrder
<1> QED BY <1>11, <1>15, <1>16 DEF GraphOK

\* The node an activation ends on has no dependent left; deleting it takes
\* nothing from what the outer activations still have to treat.
LEMMA FeatureStep ==
    ASSUME GraphOK, InvalidateFeature
    PROVE  GraphOK' /\ UNCHANGED mode /\ \E f \in Features : Deletes(f)
<1>0. PICK L, f, d : L = Len(inv) /\ f = inv[L].feature /\ d = featMap[f]
  OBVIOUS
<1>1. /\ inv \in Seq(ActivationType) /\ inv # <<>>
      /\ L \in Nat \ {0} /\ Last(inv) = inv[L] /\ inv[L] \in ActivationType
      /\ Front(inv) \in Seq(ActivationType) /\ Len(Front(inv)) = L - 1
      /\ \A k \in 1..(L - 1) : Front(inv)[k] = inv[k]
  <2>1. inv \in Seq(ActivationType) /\ inv # <<>>
    BY DEF GraphOK, GraphTypeOK, ActivationType, InvalidateFeature
  <2> QED BY <1>0, <2>1, FrontLastProperties
<1>2. f \in Features /\ Last(inv).feature = f /\ inv[L].todo = <<>>
  BY <1>0, <1>1 DEF ActivationType, InvalidateFeature
<1>3. Provided(f) /\ Target(L) = d /\ ToSet(heap[d].children) = {}
  <2>1. L \in 1..Len(inv) /\ ~(L < Len(inv))
    BY <1>0, <1>1
  <2>2. Target(L) = d
    BY <1>0 DEF Target
  <2>3. ToSet(heap[Target(L)].children) = ToSet(inv[L].todo) /\ Provided(inv[L].feature)
    BY <2>1 DEF GraphOK, NestOrder
  <2>4. ToSet(inv[L].todo) = {}
    BY <1>1, <1>2, EmptyList DEF ActivationType
  <2> QED BY <1>0, <2>2, <2>3, <2>4
<1>4. d \in DOMAIN heap /\ d \in Addresses /\ heap[d].children \in Seq(Addresses)
  BY <1>0, <1>2, <1>3, ActivationTyped
<1>5. heap[d].children = <<>>
  BY <1>3, <1>4, EmptyList
<1>6. /\ featMap' = [featMap EXCEPT ![f] = 0]
      /\ heap' = [m \in DOMAIN heap \ {d} |->
                    IF m \in heap[d].parents
                    THEN [heap[m] EXCEPT !.children = RemoveDependent(@, d)]
                    ELSE heap[m]]
      /\ inv' = Front(inv)
      /\ UNCHANGED <<fresh, mode>>
  BY <1>0, <1>2, <1>3, <1>5 DEF InvalidateFeature, DelFeatDep
<1>7. /\ inv' \in Seq(ActivationType) /\ Len(inv') = L - 1
      /\ \A k \in 1..(L - 1) : inv'[k] = inv[k]
  BY <1>1, <1>6
<1>8. DOMAIN heap' = DOMAIN heap \ {d}
  BY <1>6
<1>9. ASSUME NEW m \in DOMAIN heap'
      PROVE  /\ m \in DOMAIN heap /\ m # d
             /\ heap'[m] \in NodeType
             /\ heap'[m].feature = heap[m].feature
             /\ heap'[m].parents = heap[m].parents
             /\ Decreasing(heap'[m].children)
             /\ ToSet(heap'[m].children) = ToSet(heap[m].children) \ {d}
  <2>1. m \in DOMAIN heap /\ m # d /\ heap[m] \in NodeType
    BY <1>8 DEF GraphOK, GraphTypeOK
  <2>2. heap[m].children \in Seq(Addresses) /\ Decreasing(heap[m].children)
    BY <2>1 DEF NodeType, GraphOK, CreationOrder
  <2>3. CASE m \in heap[d].parents
    <3> DEFINE r == RemoveDependent(heap[m].children, d)
    <3>1. /\ r \in Seq(Addresses) /\ Decreasing(r)
          /\ ToSet(r) = ToSet(heap[m].children) \ {d}
      BY <2>2, RemoveDependentProperties
    <3> HIDE DEF r
    <3>2. heap'[m] = [heap[m] EXCEPT !.children = r]
      BY <1>6, <2>1, <2>3 DEF r
    <3>3. /\ [heap[m] EXCEPT !.children = r] \in NodeType
          /\ [heap[m] EXCEPT !.children = r].feature = heap[m].feature
          /\ [heap[m] EXCEPT !.children = r].parents = heap[m].parents
          /\ [heap[m] EXCEPT !.children = r].children = r
      BY <2>1, <3>1 DEF NodeType
    <3> QED BY <2>1, <3>1, <3>2, <3>3
  <2>4. CASE m \notin heap[d].parents
    <3>1. heap'[m] = heap[m]
      BY <1>6, <2>1, <2>4
    <3>2. d \notin ToSet(heap[m].children)
      BY <1>4, <2>1, <2>4 DEF GraphOK, DepsClosed
    <3> QED BY <2>1, <2>2, <3>1, <3>2
  <2> QED BY <2>3, <2>4
<1>10. ASSUME NEW m \in DOMAIN heap PROVE d \notin heap[m].parents
  BY <1>3, <1>4, <1>10 DEF GraphOK, DepsClosed
<1>11. ASSUME NEW g \in Features
       PROVE  /\ g # f => featMap'[g] = featMap[g]
              /\ g = f => featMap'[g] = 0
  BY <1>2, <1>6 DEF GraphOK, GraphTypeOK
<1>12. GraphTypeOK'
  <2>1. featMap' \in [Features -> Nat]
    BY <1>2, <1>6 DEF GraphOK, GraphTypeOK
  <2>2. DOMAIN heap' \subseteq Addresses /\ fresh' \in Addresses
    BY <1>6, <1>8 DEF GraphOK, GraphTypeOK
  <2> QED BY <1>7, <1>9, <2>1, <2>2 DEF GraphTypeOK, ActivationType
<1>13. DepsClosed'
  <2>1. ASSUME NEW g \in Features, featMap'[g] # 0
        PROVE  featMap'[g] \in DOMAIN heap' /\ heap'[featMap'[g]].feature = g
    <3>1. g # f /\ featMap'[g] = featMap[g] /\ Provided(g)
      BY <1>11, <2>1 DEF Provided
    <3>2. featMap[g] \in DOMAIN heap /\ heap[featMap[g]].feature = g
      BY <3>1 DEF GraphOK, DepsClosed
    <3>3. heap[d].feature = f
      BY <1>0, <1>2, <1>3 DEF GraphOK, DepsClosed
    <3>4. featMap[g] # d
      BY <3>1, <3>2, <3>3
    <3> QED BY <1>8, <1>9, <3>1, <3>2, <3>4
  <2>2. ASSUME NEW m \in DOMAIN heap'
        PROVE  /\ featMap'[heap'[m].feature] = m
               /\ heap'[m].parents \subseteq DOMAIN heap'
               /\ ToSet(heap'[m].children) \subseteq DOMAIN heap'
    <3>1. m \in DOMAIN heap /\ m # d /\ heap[m] \in NodeType
      BY <1>9 DEF GraphOK, GraphTypeOK
    <3>2. heap[m].feature \in Features /\ featMap[heap[m].feature] = m
      BY <3>1 DEF NodeType, GraphOK, DepsClosed
    <3>3. heap[m].feature # f
      BY <1>0, <3>1, <3>2
    <3>4. heap[m].parents \subseteq DOMAIN heap /\ ToSet(heap[m].children) \subseteq DOMAIN heap
      BY <3>1 DEF GraphOK, DepsClosed
    <3> QED BY <1>8, <1>9, <1>10, <1>11, <3>1, <3>2, <3>3, <3>4
  <2>3. ASSUME NEW m \in DOMAIN heap', NEW n \in DOMAIN heap'
        PROVE  m \in heap'[n].parents <=> n \in ToSet(heap'[m].children)
    <3>1. m \in heap[n].parents <=> n \in ToSet(heap[m].children)
      BY <1>9 DEF GraphOK, DepsClosed
    <3> QED BY <1>9, <3>1
  <2> QED BY <2>1, <2>2, <2>3 DEF DepsClosed, Provided
<1>14. CreationOrder'
  BY <1>6, <1>9 DEF CreationOrder, GraphOK
<1>15. ASSUME NEW k \in 1..(L - 1)
       PROVE  /\ inv[k].feature \in Features /\ Target(k) \in Nat /\ Target(k) < d
              /\ Target(k)' = Target(k)
              /\ Target(k)' \in DOMAIN heap'
              /\ Provided(inv[k].feature)'
  <2>1. k \in 1..Len(inv) /\ L \in 1..Len(inv) /\ k < L
    BY <1>0, <1>1
  <2>2. inv[k] \in ActivationType
    BY <1>1, <2>1
  <2>3. inv[k].feature \in Features
    BY <2>2 DEF ActivationType
  <2>4. Target(k) < d /\ Provided(inv[k].feature)
    BY <1>3, <2>1 DEF GraphOK, NestOrder
  <2>5. Target(k) \in Nat /\ Target(k) \in DOMAIN heap
    BY <2>3, <2>4, ActivationTyped DEF Target, Addresses
  <2>6. inv[k].feature # f
    BY <1>0, <1>4, <2>4, <2>5 DEF Target, Addresses
  <2>7. featMap'[inv'[k].feature] = featMap[inv[k].feature]
    BY <1>7, <1>11, <2>3, <2>6
  <2>8. Target(k)' = Target(k)
    BY <2>7 DEF Target
  <2>9. Target(k) # d
    BY <1>4, <2>4, <2>5 DEF Addresses
  <2> QED BY <1>8, <2>3, <2>4, <2>5, <2>7, <2>8, <2>9 DEF Provided
<1>16. NestOrder'
  <2>1. ASSUME NEW k \in 1..(L - 1)
        PROVE  Provided(inv[k].feature)' /\ Decreasing(inv'[k].todo)
    <3>1. Decreasing(inv[k].todo)
      BY <1>0, <1>1 DEF GraphOK, NestOrder
    <3> QED BY <1>7, <1>15, <3>1
  <2>2. ASSUME NEW j \in 1..(L - 1), NEW k \in 1..(L - 1), j < k
        PROVE  Target(j)' < Target(k)'
    <3>1. Target(j) < Target(k)
      BY <1>0, <1>1, <2>2 DEF GraphOK, NestOrder
    <3> QED BY <1>15, <3>1
  <2>3. ASSUME NEW k \in 1..(L - 1)
        PROVE  /\ ToSet(heap[Target(k)].children) = ToSet(inv[k].todo) \union {Target(k + 1)}
               /\ \A x \in ToSet(inv[k].todo) : x < Target(k + 1)
               /\ ToSet(inv[k].todo) \subseteq Addresses
    <3>1. k \in 1..Len(inv) /\ k < Len(inv) /\ k \in 1..(Len(inv) - 1)
      BY <1>0, <1>1
    <3>2. inv[k].todo \in Seq(Addresses)
      <4>1. inv[k] \in ActivationType
        BY <1>1, <3>1
      <4> QED BY <4>1 DEF ActivationType
    <3>3. ToSet(inv[k].todo) \subseteq Addresses
      BY <3>2 DEF ToSet
    <3> QED BY <3>1, <3>3 DEF GraphOK, NestOrder
  <2>4. ASSUME NEW k \in 1..(L - 1)
        PROVE  ToSet(heap'[Target(k)'].children) =
                 ToSet(inv'[k].todo) \union (IF k < L - 1 THEN {Target(k + 1)'} ELSE {})
    <3>1. ToSet(heap'[Target(k)'].children) = ToSet(heap[Target(k)].children) \ {d}
      BY <1>9, <1>15
    <3>2. CASE k < L - 1
      <4>1. k + 1 \in 1..(L - 1)
        BY <1>1, <3>2
      <4>2. Target(k + 1) < d /\ Target(k + 1) \in Nat /\ Target(k + 1)' = Target(k + 1)
        BY <1>15, <4>1
      <4>3. d \notin ToSet(inv[k].todo) /\ Target(k + 1) # d
        <5>1. ASSUME d \in ToSet(inv[k].todo) PROVE d < Target(k + 1)
          BY <2>3, <5>1
        <5>2. d \in Nat
          BY <1>4 DEF Addresses
        <5> QED BY <4>2, <5>1, <5>2
      <4> QED BY <1>7, <2>3, <3>1, <3>2, <4>2, <4>3
    <3>3. CASE k = L - 1
      <4>1. Target(k + 1) = d
        BY <1>1, <1>3, <3>3
      <4>2. d \notin ToSet(inv[k].todo)
        <5>1. ASSUME d \in ToSet(inv[k].todo) PROVE d < d
          BY <2>3, <4>1, <5>1
        <5>2. d \in Nat
          BY <1>4 DEF Addresses
        <5> QED BY <5>1, <5>2
      <4>3. ~(k < L - 1)
        BY <1>1, <3>3
      <4> QED BY <1>7, <2>3, <3>1, <4>1, <4>2, <4>3
    <3> QED BY <1>1, <3>2, <3>3
  <2>5. ASSUME NEW k \in 1..((L - 1) - 1), NEW x \in ToSet(inv'[k].todo)
        PROVE  x < Target(k + 1)'
    <3>1. k \in 1..(L - 1) /\ k + 1 \in 1..(L - 1)
      BY <1>1
    <3> QED BY <1>7, <1>15, <2>3, <2>5, <3>1
  <2> QED BY <1>7, <2>1, <2>2, <2>4, <2>5 DEF NestOrder
<1>17. Deletes(f)
  BY <1>0, <1>3, <1>6, <1>8, <1>9, <1>10 DEF Deletes
<1> QED BY <1>2, <1>6, <1>12, <1>13, <1>14, <1>16, <1>17 DEF GraphOK

\* Providing a feature: the new node is the youngest, first among the
\* dependents of what it depends on.
LEMMA ProvideStep ==
    ASSUME GraphOK, inv = <<>>, UNCHANGED inv, NEW f \in Features, NEW R \in SUBSET Features,
           ~Provided(f), \A r \in R : Provided(r), NewFeatDep(f, R)
    PROVE  GraphOK' /\ Creates(f)
<1>0. PICK d, P : d = fresh /\ P = {featMap[r] : r \in R}
  OBVIOUS
<1>1. /\ d \in Addresses /\ d \notin DOMAIN heap /\ P \subseteq DOMAIN heap
      /\ \A n \in DOMAIN heap : n \in Addresses /\ n < d
  <2>1. d \in Addresses /\ \A n \in DOMAIN heap : n \in Addresses /\ n < d
    BY <1>0 DEF GraphOK, GraphTypeOK, CreationOrder
  <2>2. P \subseteq DOMAIN heap
    BY <1>0 DEF GraphOK, DepsClosed
  <2> QED BY <2>1, <2>2 DEF Addresses
<1>2. /\ featMap' = [featMap EXCEPT ![f] = d]
      /\ heap' = [n \in DOMAIN heap \union {d} |->
                    IF n = d THEN Node(f, P)
                    ELSE IF n \in P
                         THEN [heap[n] EXCEPT !.children = AddDependent(@, d)]
                         ELSE heap[n]]
      /\ fresh' = d + 1
  BY <1>0 DEF NewFeatDep
<1>3. DOMAIN heap' = DOMAIN heap \union {d}
  BY <1>2
<1>4. /\ heap'[d] \in NodeType /\ heap'[d].feature = f
      /\ heap'[d].parents = P /\ heap'[d].children = <<>>
      /\ ToSet(heap'[d].children) = {} /\ Decreasing(heap'[d].children)
  <2>1. heap'[d] = Node(f, P)
    BY <1>2
  <2>2. P \subseteq Addresses
    BY <1>1
  <2>3. /\ Node(f, P) \in NodeType /\ Node(f, P).feature = f
        /\ Node(f, P).parents = P /\ Node(f, P).children = <<>>
    BY <2>2 DEF Node, NodeType
  <2>4. <<>> \in Seq(Addresses) /\ Decreasing(<<>>)
    BY DEF Decreasing
  <2>5. ToSet(<<>>) = {}
    BY <2>4, EmptyList
  <2> QED BY <2>1, <2>3, <2>4, <2>5
<1>5. ASSUME NEW m \in DOMAIN heap
      PROVE  /\ m \in DOMAIN heap' /\ m # d
             /\ heap'[m] \in NodeType
             /\ heap'[m].feature = heap[m].feature
             /\ heap'[m].parents = heap[m].parents
             /\ Decreasing(heap'[m].children)
             /\ m \in P => ToSet(heap'[m].children) = ToSet(heap[m].children) \union {d}
             /\ m \notin P => ToSet(heap'[m].children) = ToSet(heap[m].children)
  <2>1. m \in DOMAIN heap' /\ m # d /\ heap[m] \in NodeType
    BY <1>1, <1>3 DEF GraphOK, GraphTypeOK
  <2>2. heap[m].children \in Seq(Addresses) /\ Decreasing(heap[m].children)
    BY <2>1 DEF NodeType, GraphOK, CreationOrder
  <2>3. CASE m \in P
    <3> DEFINE r == AddDependent(heap[m].children, d)
    <3>1. \A x \in ToSet(heap[m].children) : x < d
      BY <1>1 DEF GraphOK, DepsClosed
    <3>2. /\ r \in Seq(Addresses) /\ Decreasing(r)
          /\ ToSet(r) = ToSet(heap[m].children) \union {d}
      BY <1>1, <2>2, <3>1, AddDependentProperties
    <3> HIDE DEF r
    <3>3. heap'[m] = [heap[m] EXCEPT !.children = r]
      BY <1>2, <2>1, <2>3 DEF r
    <3>4. /\ [heap[m] EXCEPT !.children = r] \in NodeType
          /\ [heap[m] EXCEPT !.children = r].feature = heap[m].feature
          /\ [heap[m] EXCEPT !.children = r].parents = heap[m].parents
          /\ [heap[m] EXCEPT !.children = r].children = r
      BY <2>1, <3>2 DEF NodeType
    <3> QED BY <2>1, <2>3, <3>2, <3>3, <3>4
  <2>4. CASE m \notin P
    <3>1. heap'[m] = heap[m]
      BY <1>2, <2>1, <2>4
    <3> QED BY <2>1, <2>2, <2>4, <3>1
  <2> QED BY <2>3, <2>4
<1>6. ASSUME NEW g \in Features
      PROVE  /\ g # f => featMap'[g] = featMap[g]
             /\ g = f => featMap'[g] = d
  BY <1>2 DEF GraphOK, GraphTypeOK
<1>7. GraphTypeOK'
  <2>1. featMap' \in [Features -> Nat]
    BY <1>1, <1>2 DEF GraphOK, GraphTypeOK, Addresses
  <2>2. DOMAIN heap' \subseteq Addresses /\ fresh' \in Addresses
    BY <1>1, <1>2, <1>3 DEF Addresses
  <2>3. \A n \in DOMAIN heap' : heap'[n] \in NodeType
    BY <1>3, <1>4, <1>5
  <2>4. inv' \in Seq([feature : Features, todo : Seq(Addresses)])
    BY DEF GraphOK, GraphTypeOK
  <2> QED BY <2>1, <2>2, <2>3, <2>4 DEF GraphTypeOK
<1>8. DepsClosed'
  <2>1. ASSUME NEW g \in Features, featMap'[g] # 0
        PROVE  featMap'[g] \in DOMAIN heap' /\ heap'[featMap'[g]].feature = g
    <3>1. CASE g = f
      BY <1>3, <1>4, <1>6, <3>1
    <3>2. CASE g # f
      <4>1. featMap'[g] = featMap[g] /\ Provided(g)
        BY <1>6, <2>1, <3>2 DEF Provided
      <4>2. featMap[g] \in DOMAIN heap /\ heap[featMap[g]].feature = g
        BY <4>1 DEF GraphOK, DepsClosed
      <4> QED BY <1>5, <4>1, <4>2
    <3> QED BY <3>1, <3>2
  <2>2. ASSUME NEW m \in DOMAIN heap
        PROVE  /\ featMap'[heap'[m].feature] = m
               /\ heap'[m].parents \subseteq DOMAIN heap'
               /\ ToSet(heap'[m].children) \subseteq DOMAIN heap'
    <3>1. heap[m] \in NodeType /\ m \in Addresses
      BY <1>1 DEF GraphOK, GraphTypeOK
    <3>2. heap[m].feature \in Features /\ featMap[heap[m].feature] = m
      BY <3>1 DEF NodeType, GraphOK, DepsClosed
    <3>3. heap[m].feature # f
      BY <3>1, <3>2 DEF Provided, Addresses
    <3>4. heap[m].parents \subseteq DOMAIN heap /\ ToSet(heap[m].children) \subseteq DOMAIN heap
      BY DEF GraphOK, DepsClosed
    <3> QED BY <1>3, <1>5, <1>6, <3>2, <3>3, <3>4
  <2>3. /\ featMap'[heap'[d].feature] = d
        /\ heap'[d].parents \subseteq DOMAIN heap'
        /\ ToSet(heap'[d].children) \subseteq DOMAIN heap'
    BY <1>1, <1>3, <1>4, <1>6
  <2>4. ASSUME NEW m \in DOMAIN heap', NEW n \in DOMAIN heap'
        PROVE  m \in heap'[n].parents <=> n \in ToSet(heap'[m].children)
    <3>1. CASE m \in DOMAIN heap /\ n \in DOMAIN heap
      <4>1. m \in heap[n].parents <=> n \in ToSet(heap[m].children)
        BY <3>1 DEF GraphOK, DepsClosed
      <4>2. n # d
        BY <1>1, <3>1
      <4> QED BY <1>5, <3>1, <4>1, <4>2
    <3>2. CASE m \in DOMAIN heap /\ n = d
      <4>1. d \notin ToSet(heap[m].children)
        BY <1>1, <3>2 DEF GraphOK, DepsClosed
      <4> QED BY <1>4, <1>5, <3>2, <4>1
    <3>3. CASE m = d /\ n \in DOMAIN heap
      <4>1. d \notin heap[n].parents
        BY <1>1, <3>3 DEF GraphOK, DepsClosed
      <4> QED BY <1>4, <1>5, <3>3, <4>1
    <3>4. CASE m = d /\ n = d
      BY <1>1, <1>4, <3>4
    <3> QED BY <1>3, <3>1, <3>2, <3>3, <3>4
  <2>5. \A m \in DOMAIN heap' :
          /\ featMap'[heap'[m].feature] = m
          /\ heap'[m].parents \subseteq DOMAIN heap'
          /\ ToSet(heap'[m].children) \subseteq DOMAIN heap'
    BY <1>3, <2>2, <2>3
  <2> QED BY <2>1, <2>4, <2>5 DEF DepsClosed, Provided
<1>9. CreationOrder'
  <2>1. ASSUME NEW m \in DOMAIN heap
        PROVE  /\ m < fresh' /\ Decreasing(heap'[m].children)
               /\ \A p \in heap'[m].parents : p < m
    <3>1. m < d /\ \A p \in heap[m].parents : p < m
      BY <1>1 DEF GraphOK, CreationOrder
    <3>2. m < d + 1
      BY <1>1, <3>1 DEF Addresses
    <3> QED BY <1>2, <1>5, <3>1, <3>2
  <2>2. /\ d < fresh' /\ Decreasing(heap'[d].children)
        /\ \A p \in heap'[d].parents : p < d
    BY <1>1, <1>2, <1>4 DEF Addresses
  <2> QED BY <1>3, <2>1, <2>2 DEF CreationOrder
<1>10. NestOrder'
  BY DEF NestOrder
<1>11. Creates(f)
  BY <1>0, <1>1, <1>2, <1>4, <1>5 DEF Creates, Addresses
<1> QED BY <1>7, <1>8, <1>9, <1>10, <1>11 DEF GraphOK

\* Attaching cleaners to nodes changes nothing of the graph.
LEMMA CleanersStep ==
    ASSUME GraphOK, inv = <<>>, UNCHANGED <<featMap, fresh, inv>>,
           NEW p \in Processors, NEW C \in SUBSET Features,
           heap' = [n \in DOMAIN heap |->
                      IF heap[n].feature \in C
                      THEN [heap[n] EXCEPT !.cleaners = @ \union {p}]
                      ELSE heap[n]]
    PROVE  GraphOK' /\ Keeps
<1>1. DOMAIN heap' = DOMAIN heap
  OBVIOUS
<1>2. ASSUME NEW m \in DOMAIN heap
      PROVE  /\ heap'[m] \in NodeType
             /\ heap'[m].feature = heap[m].feature
             /\ heap'[m].parents = heap[m].parents
             /\ heap'[m].children = heap[m].children
  <2>1. heap[m] \in NodeType
    BY DEF GraphOK, GraphTypeOK
  <2>2. /\ [heap[m] EXCEPT !.cleaners = @ \union {p}] \in NodeType
        /\ [heap[m] EXCEPT !.cleaners = @ \union {p}].feature = heap[m].feature
        /\ [heap[m] EXCEPT !.cleaners = @ \union {p}].parents = heap[m].parents
        /\ [heap[m] EXCEPT !.cleaners = @ \union {p}].children = heap[m].children
    BY <2>1 DEF NodeType
  <2> QED BY <2>1, <2>2
<1>3. GraphTypeOK'
  BY <1>1, <1>2 DEF GraphOK, GraphTypeOK
<1>4. DepsClosed'
  BY <1>1, <1>2 DEF GraphOK, DepsClosed, Provided
<1>5. CreationOrder'
  BY <1>1, <1>2 DEF GraphOK, CreationOrder
<1>6. NestOrder'
  BY DEF NestOrder
<1>7. Keeps
  BY <1>1, <1>2 DEF Keeps
<1> QED BY <1>3, <1>4, <1>5, <1>6, <1>7 DEF GraphOK

\* The workspace as the loader leaves it.
LEMMA InitGraph == Init => GraphInv
<1> SUFFICES ASSUME Init PROVE GraphInv
  OBVIOUS
<1>1. PICK L : L = Len(Loaded)
  OBVIOUS
<1>2. /\ L \in Nat /\ DOMAIN heap = 1..L
      /\ \A i \in 1..L : Loaded[i] \in Features /\ heap[i] = Node(Loaded[i], {})
      /\ \A i, j \in 1..L : Loaded[i] = Loaded[j] => i = j
      /\ DOMAIN Loaded = 1..L
  BY <1>1, LoadedAssumption DEF Init
<1>3. ASSUME NEW i \in 1..L
      PROVE  /\ heap[i] \in NodeType /\ heap[i].feature = Loaded[i]
             /\ heap[i].parents = {} /\ heap[i].children = <<>>
  <2>1. ASSUME NEW f \in Features, NEW P \in SUBSET Addresses
        PROVE  /\ Node(f, P) \in NodeType /\ Node(f, P).feature = f
               /\ Node(f, P).parents = P /\ Node(f, P).children = <<>>
    BY DEF Node, NodeType
  <2>2. {} \in SUBSET Addresses
    OBVIOUS
  <2>3. Loaded[i] \in Features /\ heap[i] = Node(Loaded[i], {})
    BY <1>2
  <2> QED BY <2>1, <2>2, <2>3
<1>4. ToSet(<<>>) = {} /\ Decreasing(<<>>)
  <2>1. <<>> \in Seq(Addresses) /\ Decreasing(<<>>)
    BY DEF Decreasing
  <2>2. ToSet(<<>>) = {}
    BY <2>1, EmptyList
  <2> QED BY <2>1, <2>2
<1>5. ASSUME NEW f \in Features
      PROVE  /\ featMap[f] \in 0..L
             /\ featMap[f] # 0 => Loaded[featMap[f]] = f
             /\ \A i \in 1..L : Loaded[i] = f => featMap[f] = i
  <2>1. CASE f \in ToSet(Loaded)
    <3>1. featMap[f] = CHOOSE i \in 1..L : Loaded[i] = f
      BY <1>1, <2>1 DEF Init
    <3>2. \E i \in 1..L : Loaded[i] = f
      BY <1>2, <2>1 DEF ToSet
    <3>3. featMap[f] \in 1..L /\ Loaded[featMap[f]] = f
      BY <3>1, <3>2
    <3> QED BY <1>2, <3>3
  <2>2. CASE f \notin ToSet(Loaded)
    <3>1. featMap[f] = 0
      BY <2>2 DEF Init
    <3>2. \A i \in 1..L : Loaded[i] # f
      BY <1>2, <2>2 DEF ToSet
    <3> QED BY <1>2, <3>1, <3>2
  <2> QED BY <2>1, <2>2
<1>6. TypeOK
  <2>1. featMap \in [Features -> Nat]
    <3>1. DOMAIN featMap = Features /\ featMap = [f \in Features |-> featMap[f]]
      BY DEF Init
    <3>2. \A f \in Features : featMap[f] \in Nat
      BY <1>2, <1>5
    <3> QED BY <3>1, <3>2
  <2>2. DOMAIN heap \subseteq Addresses /\ fresh \in Addresses
    BY <1>1, <1>2 DEF Init, Addresses
  <2>3. inv \in Seq([feature : Features, todo : Seq(Addresses)])
    BY DEF Init
  <2>4. ControlTypeOK
    <3>1. stack \in Seq(FrameType)
      BY DEF Init
    <3>2. cancelled \in BOOLEAN
      BY DEF Init
    <3>3. mode \in Modes /\ outcome \in Outcomes
      BY DEF Init, Modes, Outcomes
    <3> QED BY <3>1, <3>2, <3>3 DEF ControlTypeOK
  <2> QED BY <1>2, <1>3, <2>1, <2>2, <2>3, <2>4 DEF TypeOK, GraphTypeOK
<1>7. DepsClosed
  <2>1. ASSUME NEW f \in Features, Provided(f)
        PROVE  featMap[f] \in DOMAIN heap /\ heap[featMap[f]].feature = f
    <3>1. featMap[f] \in 1..L /\ Loaded[featMap[f]] = f
      BY <1>2, <1>5, <2>1 DEF Provided
    <3> QED BY <1>2, <1>3, <3>1
  <2>2. ASSUME NEW n \in DOMAIN heap
        PROVE  /\ featMap[heap[n].feature] = n
               /\ heap[n].parents \subseteq DOMAIN heap
               /\ ToSet(heap[n].children) \subseteq DOMAIN heap
    BY <1>2, <1>3, <1>4, <1>5
  <2>3. ASSUME NEW m \in DOMAIN heap, NEW n \in DOMAIN heap
        PROVE  m \in heap[n].parents <=> n \in ToSet(heap[m].children)
    BY <1>2, <1>3, <1>4
  <2> QED BY <2>1, <2>2, <2>3 DEF DepsClosed
<1>8. CreationOrder
  <2>1. ASSUME NEW n \in DOMAIN heap
        PROVE  n < fresh /\ heap[n].parents = {} /\ Decreasing(heap[n].children)
    <3>1. n \in 1..L /\ fresh = L + 1
      BY <1>1, <1>2 DEF Init
    <3>2. n < fresh
      BY <1>2, <3>1
    <3> QED BY <1>3, <1>4, <3>1, <3>2
  <2> QED BY <2>1 DEF CreationOrder
<1>9. NestOrder /\ InvalidationSafe
  BY DEF Init, NestOrder, InvalidationSafe
<1> QED BY <1>6, <1>7, <1>8, <1>9 DEF GraphInv

\* One step of the engine, on the graph and on the assertions of invalidation.
LEMMA GraphStep ==
    ASSUME GraphOK, ControlTypeOK, InvalidationSafe, [Next]_vars
    PROVE  /\ GraphOK' /\ InvalidationSafe'
           /\ Keeps \/ \E f \in Features : Creates(f) \/ Deletes(f)
<1> DEFINE Good == /\ GraphOK' /\ InvalidationSafe'
                   /\ Keeps \/ \E f \in Features : Creates(f) \/ Deletes(f)
<1>0. ASSUME UNCHANGED <<featMap, heap>> PROVE Keeps
  BY <1>0 DEF Keeps
<1>1. CASE InvalidateDependent
  <2>1. UNCHANGED <<featMap, heap>>
    BY <1>1 DEF InvalidateDependent, Halt
  <2> QED BY <1>0, <1>1, <2>1, DependentStep DEF InvalidationSafe
<1>2. CASE InvalidateFeature
  BY <1>2, FeatureStep DEF InvalidationSafe
<1>3. ASSUME UNCHANGED <<featMap, heap, fresh, inv, mode>> PROVE Good
  BY <1>0, <1>3, GraphStutters DEF InvalidationSafe
<1>4. ASSUME NEW f \in Features, inv = <<>>, Invalidate(f),
             UNCHANGED <<featMap, heap, fresh, mode>>
      PROVE  Good
  BY <1>0, <1>4, InvalidateStarts DEF InvalidationSafe
<1>5. ASSUME NEW fault, Halt(fault), fault \in {"required", "cleaner"} PROVE Good
  BY <1>0, <1>5, GraphStutters DEF Halt, InvalidationSafe
<1>6. ASSUME NEW pc, NEW used, NEW after, InvalidationLoop(pc, used, after) PROVE Good
  <2>1. stack \in Seq(FrameType) /\ stack # <<>> /\ inv = <<>>
    BY <1>6 DEF InvalidationLoop, At, ControlTypeOK
  <2>2. UNCHANGED <<featMap, heap, fresh, mode>>
    BY <1>6 DEF InvalidationLoop
  <2>3. CASE UNCHANGED inv
    BY <1>3, <2>2, <2>3
  <2>4. CASE More /\ Invalidate(Usage.feature)
    <3>1. Usage.feature \in Features
      BY <2>1, <2>4, UsageTyped
    <3> QED BY <1>4, <2>1, <2>2, <2>4, <3>1
  <2> QED BY <1>6, <2>3, <2>4 DEF InvalidationLoop
<1>7. CASE PreInvalidate \/ PostInvalidate
  BY <1>6, <1>7 DEF PreInvalidate, PostInvalidate
<1>8. CASE Provide
  <2>1. stack \in Seq(FrameType) /\ stack # <<>> /\ inv = <<>>
    BY <1>8 DEF Provide, At, ControlTypeOK
  <2>2. CASE UNCHANGED <<featMap, heap, fresh, mode, outcome, inv, cancelled>>
    BY <1>3, <2>2
  <2>3. CASE Halt("required")
    BY <1>5, <2>3
  <2>4. CASE /\ More /\ ~Provided(Usage.feature) /\ \A r \in Top.required : Provided(r)
             /\ NewFeatDep(Usage.feature, Top.required) /\ UNCHANGED <<mode, inv>>
    <3>1. Usage.feature \in Features
      BY <2>1, <2>4, UsageTyped
    <3>2. Top.required \in SUBSET Features
      <4>1. Top \in FrameType
        BY <2>1, MovesTyped
      <4> QED BY <4>1 DEF FrameType
    <3> QED BY <2>1, <2>4, <3>1, <3>2, ProvideStep DEF InvalidationSafe
  <2> QED BY <1>8, <2>2, <2>3, <2>4 DEF Provide
<1>9. CASE PutCleaners
  <2>1. stack \in Seq(FrameType) /\ stack # <<>> /\ inv = <<>>
    BY <1>9 DEF PutCleaners, At, ControlTypeOK
  <2>2. PICK p : p = Top.proc
    OBVIOUS
  <2>3. p \in Processors /\ Cleaned[p] \in SUBSET Features
    <3>1. Top \in FrameType
      BY <2>1, MovesTyped
    <3> QED BY <2>2, <3>1, CatalogueAssumption DEF FrameType
  <2>4. CASE Halt("cleaner")
    BY <1>5, <2>4
  <2>5. CASE ~Halt("cleaner")
    <3>1. /\ heap' = [n \in DOMAIN heap |->
                        IF heap[n].feature \in Cleaned[p]
                        THEN [heap[n] EXCEPT !.cleaners = @ \union {p}]
                        ELSE heap[n]]
          /\ UNCHANGED <<featMap, fresh, inv, mode>>
      BY <1>9, <2>2, <2>5 DEF PutCleaners
    <3> QED BY <2>1, <2>3, <3>1, CleanersStep DEF InvalidationSafe
  <2> QED BY <2>4, <2>5
<1>10. CASE \/ Need \/ ReturnCancelled \/ CheckRequirements \/ Work \/ WorkFails
            \/ NoProcessorThrows
  BY <1>3, <1>10
     DEF Need, ReturnCancelled, CheckRequirements, Work, WorkFails, NoProcessorThrows
<1>11. ASSUME NEW f \in Features, DestroyFeature(f) \/ CallInvalidate(f) PROVE Good
  BY <1>4, <1>11 DEF DestroyFeature, CallInvalidate, Idle
<1>12. ASSUME NEW p, CallProcess(p) PROVE Good
  BY <1>3, <1>12 DEF CallProcess
<1>13. ASSUME NEW f \in Features, CallRequire(f) PROVE Good
  BY <1>12, <1>13 DEF CallRequire
<1>14. CASE Destroy \/ Destroyed
  <2>1. UNCHANGED <<featMap, heap, fresh, inv>> /\ mode' \in {"dying", "dead"}
    BY <1>14 DEF Destroy, Destroyed
  <2> QED BY <1>0, <2>1, GraphStutters DEF InvalidationSafe
<1>15. CASE Cancel \/ ClearCancellation \/ Stopped \/ UNCHANGED vars
  BY <1>3, <1>15 DEF Cancel, ClearCancellation, Stopped, vars
<1> QED
  BY <1>1, <1>2, <1>7, <1>8, <1>9, <1>10, <1>11, <1>12, <1>13, <1>14, <1>15
     DEF Next, Step, Call

\* The inductive invariant of the engine: whatever the processors declare and
\* whoever calls process(), require() or invalidate(), the graph is well formed,
\* sorted by creation, and the nest of invalidations follows that order.
THEOREM EngineInvariant == Spec => []GraphInv
<1>1. GraphInv /\ [Next]_vars => GraphInv'
  <2> SUFFICES ASSUME GraphInv, [Next]_vars PROVE GraphInv'
    OBVIOUS
  <2>1. GraphOK /\ ControlTypeOK /\ InvalidationSafe
    BY DEF GraphInv, GraphOK, TypeOK
  <2>2. GraphOK' /\ InvalidationSafe'
    BY <2>1, GraphStep
  <2>3. ControlTypeOK'
    BY <2>1, ControlStep
  <2> QED BY <2>2, <2>3 DEF GraphInv, GraphOK, TypeOK
<1> QED BY <1>1, InitGraph, PTL DEF Spec

\* The dependency graph is closed after every step of WorkSpace::provide and
\* WorkSpace::invalidate, nested or not.
THEOREM GraphClosed == Spec => []DepsClosed
<1>1. GraphInv => DepsClosed
  BY DEF GraphInv
<1> QED BY <1>1, EngineInvariant, PTL

\* The copies of dependents held by the activations of WorkSpace::invalidate
\* never hold a pointer to a deleted node.
THEOREM CopiesStayValid == Spec => []NoDangling
<1>1. ASSUME GraphInv PROVE NoDangling
  <2> SUFFICES ASSUME NEW k \in DOMAIN inv PROVE ToSet(inv[k].todo) \subseteq DOMAIN heap
    BY DEF NoDangling
  <2>1. inv \in Seq(ActivationType)
    BY <1>1 DEF GraphInv, TypeOK, GraphTypeOK, ActivationType
  <2>2. k \in 1..Len(inv) /\ inv[k].feature \in Features
    <3>1. k \in 1..Len(inv)
      BY <2>1, LenProperties
    <3>2. inv[k] \in ActivationType
      BY <2>1, <3>1, ElementOfSeq
    <3> QED BY <3>1, <3>2 DEF ActivationType
  <2>3. Provided(inv[k].feature) /\ ToSet(inv[k].todo) \subseteq ToSet(heap[Target(k)].children)
    BY <1>1, <2>2 DEF GraphInv, NestOrder
  <2>4. Target(k) \in DOMAIN heap
    BY <1>1, <2>2, <2>3 DEF GraphInv, DepsClosed, Target
  <2> QED BY <1>1, <2>3, <2>4 DEF GraphInv, DepsClosed
<1> QED BY <1>1, EngineInvariant, PTL

\* No use of a deleted node and no failure of ASSERT(children.isEmpty()) in
\* ~FeatureDependency, whatever the catalogue of processors.
THEOREM InvalidationNeverFails == Spec => []InvalidationSafe
<1>1. GraphInv => InvalidationSafe
  BY DEF GraphInv
<1> QED BY <1>1, EngineInvariant, PTL

-----------------------------------------------------------------------------
(* The engine implements FeatureGraph.                                     *)

\* A dependency, read in the graph of nodes.
LEMMA DependencyMeaning ==
    ASSUME NEW f \in Features, NEW g \in Features
    PROVE  <<f, g>> \in Dependencies <=>
             Provided(f) /\ Provided(g) /\ featMap[g] \in heap[featMap[f]].parents
BY DEF Dependencies, ProvidedFeatures

\* What a feature depends on has a node of its own.
LEMMA NodeOf ==
    ASSUME GraphOK, NEW f \in Features, Provided(f)
    PROVE  /\ featMap[f] \in DOMAIN heap /\ featMap[f] # 0 /\ heap[featMap[f]].feature = f
           /\ heap[featMap[f]].parents \subseteq DOMAIN heap
BY DEF GraphOK, DepsClosed, Provided

\* A step that keeps the nodes is a stutter of FeatureGraph.
LEMMA KeepsRefines ==
    ASSUME GraphOK, Keeps
    PROVE  UNCHANGED <<ProvidedFeatures, Dependencies>>
<1>1. ProvidedFeatures' = ProvidedFeatures
  BY DEF Keeps, ProvidedFeatures, Provided
<1>2. \A f \in ProvidedFeatures : heap'[featMap'[f]].parents = heap[featMap[f]].parents
  BY NodeOf DEF Keeps, ProvidedFeatures
<1>3. Dependencies' = Dependencies
  BY <1>1, <1>2 DEF Keeps, Dependencies
<1> QED BY <1>1, <1>3

\* WorkSpace::provide is FeatureGraph's Provide.
LEMMA CreatesRefines ==
    ASSUME GraphOK, NEW f \in Features, Creates(f)
    PROVE  Graph!Provide(f)
<1>1. ASSUME NEW g \in Features
      PROVE  /\ g # f => featMap'[g] = featMap[g]
             /\ g = f => featMap'[g] = fresh
  BY DEF Creates, GraphOK, GraphTypeOK
<1>2. ProvidedFeatures' = ProvidedFeatures \union {f} /\ f \notin ProvidedFeatures
  BY <1>1 DEF Creates, ProvidedFeatures, Provided
<1>3. ASSUME NEW g \in ProvidedFeatures
      PROVE  /\ g \in Features /\ g # f /\ featMap'[g] = featMap[g]
             /\ featMap[g] \in DOMAIN heap
             /\ heap'[featMap'[g]].parents = heap[featMap[g]].parents
             /\ fresh \notin heap[featMap[g]].parents
  <2>1. g \in Features /\ g # f /\ Provided(g)
    BY <1>2 DEF ProvidedFeatures
  <2> QED BY <1>1, <2>1, NodeOf DEF Creates
<1>4. Dependencies \subseteq Dependencies'
  <2> SUFFICES ASSUME NEW d \in Dependencies PROVE d \in Dependencies'
    OBVIOUS
  <2>1. /\ d \in ProvidedFeatures \X ProvidedFeatures
        /\ featMap[d[2]] \in heap[featMap[d[1]]].parents
    BY DEF Dependencies
  <2>2. d[1] \in ProvidedFeatures /\ d[2] \in ProvidedFeatures
    BY <2>1
  <2>3. featMap'[d[2]] \in heap'[featMap'[d[1]]].parents
    BY <1>3, <2>1, <2>2
  <2>4. d \in ProvidedFeatures' \X ProvidedFeatures'
    BY <1>2, <2>1
  <2> QED BY <2>3, <2>4 DEF Dependencies
<1>5. Dependencies' \ Dependencies \subseteq {f} \X ProvidedFeatures
  <2> SUFFICES ASSUME NEW d \in Dependencies', d \notin Dependencies
               PROVE  d \in {f} \X ProvidedFeatures
    OBVIOUS
  <2>1. /\ d \in ProvidedFeatures' \X ProvidedFeatures'
        /\ featMap'[d[2]] \in heap'[featMap'[d[1]]].parents
    BY DEF Dependencies
  <2>2. /\ d[1] \in ProvidedFeatures \union {f} /\ d[2] \in ProvidedFeatures \union {f}
        /\ d = <<d[1], d[2]>>
    BY <1>2, <2>1
  <2>3. d[2] # f
    <3>1. CASE d[1] = f
      BY <1>1, <2>1, <3>1 DEF Creates
    <3>2. CASE d[1] \in ProvidedFeatures
      BY <1>1, <1>3, <2>1, <3>2
    <3> QED BY <2>2, <3>1, <3>2
  <2>4. d[1] = f
    <3> SUFFICES ASSUME d[1] \in ProvidedFeatures PROVE FALSE
      BY <2>2
    <3>1. featMap[d[2]] \in heap[featMap[d[1]]].parents
      BY <1>3, <2>1, <2>2, <2>3
    <3>2. d \in ProvidedFeatures \X ProvidedFeatures
      BY <2>2, <2>3
    <3> QED BY <3>1, <3>2 DEF Dependencies
  <2> QED BY <2>2, <2>3, <2>4
<1> QED BY <1>2, <1>4, <1>5 DEF Graph!Provide

\* delFeatDep is FeatureGraph's Withdraw: nothing depends on what disappears.
LEMMA DeletesRefines ==
    ASSUME GraphOK, NEW f \in Features, Deletes(f)
    PROVE  Graph!Withdraw(f)
<1>1. ASSUME NEW g \in Features
      PROVE  /\ g # f => featMap'[g] = featMap[g]
             /\ g = f => featMap'[g] = 0
  BY DEF Deletes, GraphOK, GraphTypeOK
<1>2. ProvidedFeatures' = ProvidedFeatures \ {f} /\ f \in ProvidedFeatures
  BY <1>1 DEF Deletes, ProvidedFeatures, Provided
<1>3. ASSUME NEW g \in Features PROVE <<g, f>> \notin Dependencies
  BY NodeOf, DependencyMeaning DEF Deletes
<1>4. ASSUME NEW g \in ProvidedFeatures, g # f
      PROVE  /\ featMap'[g] = featMap[g]
             /\ heap'[featMap'[g]].parents = heap[featMap[g]].parents
  <2>1. g \in Features /\ Provided(g)
    BY DEF ProvidedFeatures
  <2>2. featMap[g] \in DOMAIN heap /\ heap[featMap[g]].feature = g
    BY <2>1, NodeOf
  <2>3. heap[featMap[f]].feature = f
    BY NodeOf DEF Deletes
  <2>4. featMap[g] # featMap[f]
    BY <1>4, <2>2, <2>3
  <2> QED BY <1>1, <1>4, <2>1, <2>2, <2>4 DEF Deletes
<1>5. Dependencies' = {d \in Dependencies : d[1] # f}
  <2>1. ASSUME NEW d \in Dependencies' PROVE d \in Dependencies /\ d[1] # f
    <3>1. /\ d \in ProvidedFeatures' \X ProvidedFeatures'
          /\ featMap'[d[2]] \in heap'[featMap'[d[1]]].parents
      BY DEF Dependencies
    <3>2. /\ d[1] \in ProvidedFeatures /\ d[1] # f
          /\ d[2] \in ProvidedFeatures /\ d[2] # f
          /\ d \in ProvidedFeatures \X ProvidedFeatures
      BY <1>2, <3>1
    <3> QED BY <1>4, <3>1, <3>2 DEF Dependencies
  <2>2. ASSUME NEW d \in Dependencies, d[1] # f PROVE d \in Dependencies'
    <3>1. /\ d \in ProvidedFeatures \X ProvidedFeatures
          /\ featMap[d[2]] \in heap[featMap[d[1]]].parents
      BY DEF Dependencies
    <3>2. d = <<d[1], d[2]>> /\ d[1] \in ProvidedFeatures /\ d[2] \in ProvidedFeatures
      BY <3>1
    <3>3. d[2] # f
      BY <1>3, <3>2 DEF ProvidedFeatures
    <3>4. d \in ProvidedFeatures' \X ProvidedFeatures'
      BY <1>2, <2>2, <3>2, <3>3
    <3> QED BY <1>4, <2>2, <3>1, <3>2, <3>3, <3>4 DEF Dependencies
  <2> QED BY <2>1, <2>2
<1> QED BY <1>2, <1>3, <1>5 DEF Graph!Withdraw

\* The initial graph has no dependency.
LEMMA InitRefines == Init => Graph!Init
<1> SUFFICES ASSUME Init PROVE Graph!Init
  OBVIOUS
<1>1. GraphOK
  BY InitGraph DEF GraphInv, GraphOK, TypeOK
<1>2. \A n \in DOMAIN heap : heap[n].parents = {}
  BY DEF Init, Node
<1>3. ASSUME NEW d \in Dependencies PROVE FALSE
  <2>1. d[1] \in ProvidedFeatures /\ featMap[d[2]] \in heap[featMap[d[1]]].parents
    BY DEF Dependencies
  <2>2. featMap[d[1]] \in DOMAIN heap
    BY <1>1, <2>1, NodeOf DEF ProvidedFeatures
  <2> QED BY <1>2, <2>1, <2>2
<1>4. ProvidedFeatures \subseteq Features
  BY DEF ProvidedFeatures
<1> QED BY <1>3, <1>4 DEF Graph!Init

\* Lists, pointers, nested calls and exceptions implement the abstract graph:
\* a feature is only provided over provided ones, and only withdrawn when
\* nothing depends on it.
THEOREM EngineImplementsGraph == Spec => ImplementsFeatureGraph
<1>1. GraphInv /\ [Next]_vars => [Graph!Next]_<<ProvidedFeatures, Dependencies>>
  <2> SUFFICES ASSUME GraphInv, [Next]_vars
               PROVE  \/ UNCHANGED <<ProvidedFeatures, Dependencies>>
                      \/ \E f \in Features : Graph!Provide(f) \/ Graph!Withdraw(f)
    BY DEF Graph!Next
  <2>1. GraphOK /\ ControlTypeOK /\ InvalidationSafe
    BY DEF GraphInv, GraphOK, TypeOK
  <2>2. Keeps \/ \E f \in Features : Creates(f) \/ Deletes(f)
    BY <2>1, GraphStep
  <2> QED BY <2>1, <2>2, KeepsRefines, CreatesRefines, DeletesRefines
<1> QED BY <1>1, InitRefines, EngineInvariant, PTL DEF Spec, ImplementsFeatureGraph, Graph!Spec
=============================================================================
