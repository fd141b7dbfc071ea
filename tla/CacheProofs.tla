----------------------------- MODULE CacheProofs -----------------------------
(***************************************************************************)
(* The MUST analysis and the persistence of the whole task are sound, for   *)
(* every number of ways and of cache blocks, every path, every state joined *)
(* in: the ages of the abstract states bound the real ages.                 *)
(***************************************************************************)
EXTENDS CacheMustPers, TLAPS, SequenceTheorems

RealType == [Blocks -> RealAges]
MustType == [Blocks -> MustAges]
ItemType == [Blocks -> PersAges]

-----------------------------------------------------------------------------
(* The operators.                                                          *)

\* An access leaves real ages.
LEMMA AccessTyped ==
    ASSUME NEW c \in RealType, NEW id \in Blocks
    PROVE  Access(c, id) \in RealType
BY SetAssumption DEF Access, RealType, RealAges, Blocks

\* MUSTProblem::Domain::inject keeps ages between -1 and A - 1.
LEMMA MustInjectTyped ==
    ASSUME NEW m \in MustType, NEW id \in Blocks
    PROVE  MustInject(m, id) \in MustType
BY SetAssumption DEF MustInject, contains, MustType, MustAges, Blocks

\* So does lub.
LEMMA MustLubTyped ==
    ASSUME NEW m \in MustType, NEW d \in MustType
    PROVE  MustLub(m, d) \in MustType
BY SetAssumption DEF MustLub, MustType, MustAges, Blocks

\* PERSProblem::Item::inject and lub keep ages between -1 and A.
LEMMA ItemInjectTyped ==
    ASSUME NEW i \in ItemType, NEW m, NEW id \in Blocks
    PROVE  ItemInject(i, m, id) \in ItemType
BY SetAssumption DEF ItemInject, ItemType, PersAges, Blocks

LEMMA ItemLubTyped ==
    ASSUME NEW i \in ItemType, NEW d \in ItemType
    PROVE  ItemLub(i, d) \in ItemType
BY SetAssumption DEF ItemLub, ItemType, PersAges, Blocks

\* An access keeps the ages of the MUST state upper bounds of the real ones.
\* On a hit, a block that the analysis leaves alone is at least as old, for it,
\* as the accessed one: if it really gets older it stays below that age.
LEMMA MustInjectBounds ==
    ASSUME NEW c \in RealType, NEW m \in MustType, NEW id \in Blocks,
           \A b \in Blocks : contains(m, b) => c[b] <= m[b],
           NEW b \in Blocks, contains(MustInject(m, id), b)
    PROVE  Access(c, id)[b] <= MustInject(m, id)[b]
<1>1. /\ c[b] \in 0..A /\ c[id] \in 0..A
      /\ m[b] \in -1..(A - 1) /\ m[id] \in -1..(A - 1)
  BY DEF RealType, RealAges, MustType, MustAges
<1>2. CASE b = id
  BY <1>2, SetAssumption DEF MustInject, Access, Blocks
<1>3. CASE b # id /\ contains(m, id)
  BY <1>1, <1>3, SetAssumption DEF MustInject, Access, contains
<1>4. CASE b # id /\ ~contains(m, id)
  BY <1>1, <1>4, SetAssumption DEF MustInject, Access, contains
<1> QED BY <1>2, <1>3, <1>4

\* A block is in the MUST state after an access only if it is the accessed
\* block or was there before.
LEMMA MustInjectSource ==
    ASSUME NEW m \in MustType, NEW id \in Blocks, NEW b \in Blocks,
           contains(MustInject(m, id), b)
    PROVE  b = id \/ contains(m, b)
BY SetAssumption DEF MustInject, contains, MustType, MustAges, Blocks

\* A join only drops blocks from a MUST state or makes them older, whichever
\* side it is on.
LEMMA MustLubWeakens ==
    ASSUME NEW m \in MustType, NEW d \in MustType, NEW b \in Blocks
    PROVE  /\ contains(MustLub(m, d), b) => contains(m, b) /\ m[b] <= MustLub(m, d)[b]
           /\ contains(MustLub(d, m), b) => contains(m, b) /\ m[b] <= MustLub(d, m)[b]
BY SetAssumption DEF MustLub, contains, MustType, MustAges, Blocks

\* A join only makes blocks older in a persistence item.
LEMMA ItemLubWeakens ==
    ASSUME NEW i \in ItemType, NEW d \in ItemType, NEW b \in Blocks
    PROVE  i[b] <= ItemLub(i, d)[b] /\ i[b] <= ItemLub(d, i)[b]
BY SetAssumption DEF ItemLub, ItemType, PersAges, Blocks

\* An access keeps the ages of a persistence item upper bounds of the real ones
\* for the blocks accessed since its entry, provided that the blocks of the MUST
\* state were accessed since then too.
LEMMA ItemInjectBounds ==
    ASSUME NEW c \in RealType, NEW m \in MustType, NEW i \in ItemType,
           NEW s \in SUBSET Blocks, NEW id \in Blocks,
           \A b \in s : c[b] <= i[b],
           \A b \in Blocks : contains(m, b) => b \in s,
           NEW b \in s \union {id}
    PROVE  Access(c, id)[b] <= ItemInject(i, m, id)[b]
<1>1. CASE b = id
  BY <1>1, SetAssumption DEF Access, ItemInject, Blocks
<1>2. CASE b # id /\ contains(m, id)
  BY <1>2, SetAssumption
     DEF Access, ItemInject, contains, RealType, RealAges, ItemType, PersAges, Blocks
<1>3. CASE b # id /\ ~contains(m, id)
  BY <1>3, SetAssumption
     DEF Access, ItemInject, contains, RealType, RealAges, ItemType, PersAges, Blocks
<1> QED BY <1>1, <1>2, <1>3

\* The states joined in by Next, and the entry states, are states of the domains.
LEMMA DomainStates ==
    ASSUME NEW b \in Blocks
    PROVE  /\ MustEmpty \in MustType /\ MustBottom \in MustType /\ ItemEmpty \in ItemType
           /\ \A m \in MustAges : [MustBottom EXCEPT ![b] = m] \in MustType
           /\ \A p \in PersAges : [ItemEmpty EXCEPT ![b] = p] \in ItemType
BY SetAssumption DEF MustEmpty, MustBottom, ItemEmpty, MustType, ItemType, MustAges,
                     PersAges, Blocks

-----------------------------------------------------------------------------
(* The invariant.                                                          *)

\* At the entry the abstract states are empty and nothing was accessed.
LEMMA AgesInit == Init => AgesInv
<1> SUFFICES ASSUME Init PROVE AgesInv
  OBVIOUS
<1>1. cache \in RealType /\ must = MustEmpty /\ whole = ItemEmpty
      /\ data = <<>> /\ seen = {} /\ seenIn = <<>> /\ headers = <<>> /\ missed = FALSE
  BY DEF Init, CacheStates, RealType
<1>2. 0 \in Blocks
  BY SetAssumption DEF Blocks
<1>3. TypeOK
  <2>1. LoopTypeOK
    <3>1. headers \in Seq(HeaderState) /\ Len(headers) = 0 /\ seenIn \in Seq(SUBSET Blocks)
          /\ Len(seenIn) = 0 /\ Len(data) = 0
      BY <1>1
    <3>2. \A k \in 1..Len(headers) : Len(headers[k].data) = k
      BY <3>1
    <3>3. missed \in BOOLEAN
      BY <1>1
    <3> QED BY <3>1, <3>2, <3>3 DEF LoopTypeOK
  <2> QED BY <1>1, <1>2, <2>1, DomainStates DEF TypeOK, RealType, MustType, ItemType
<1>4. MustBounds /\ MustSeen /\ WholeBounds
  BY <1>1 DEF MustBounds, MustSeen, WholeBounds, contains, MustEmpty
<1> QED BY <1>3, <1>4 DEF AgesInv

\* MUSTPERS::update preserves the invariant.
LEMMA AgesUpdate ==
    ASSUME AgesInv, NEW id \in Blocks, Update(id)
    PROVE  AgesInv'
<1>1. /\ cache' = Access(cache, id) /\ must' = MustInject(must, id)
      /\ whole' = ItemInject(whole, must, id)
      /\ data' = [k \in DOMAIN data |-> ItemInject(data[k], must, id)]
      /\ seen' = seen \union {id}
      /\ seenIn' = [k \in DOMAIN seenIn |-> seenIn[k] \union {id}]
      /\ missed' = (missed \/ Misses(id)) /\ headers' = headers
  BY DEF Update, Inject, See
<1>2. /\ cache \in RealType /\ must \in MustType /\ whole \in ItemType
      /\ data \in Seq(ItemType) /\ seenIn \in Seq(SUBSET Blocks)
      /\ seen \in SUBSET Blocks /\ Len(seenIn) = Len(data) /\ LoopTypeOK
  BY DEF AgesInv, TypeOK, LoopTypeOK, RealType, MustType, ItemType
<1>3. /\ data' \in Seq(ItemType) /\ Len(data') = Len(data)
  <2>1. \A k \in 1..Len(data) : ItemInject(data[k], must, id) \in ItemType
    BY <1>2, ItemInjectTyped
  <2> QED BY <1>1, <1>2, <2>1
<1>4. /\ seenIn' \in Seq(SUBSET Blocks) /\ Len(seenIn') = Len(seenIn)
  BY <1>1, <1>2
<1>5. TypeOK'
  <2>1. missed' \in BOOLEAN
    BY <1>1
  <2>2. LoopTypeOK'
    BY <1>1, <1>2, <1>3, <1>4, <2>1 DEF LoopTypeOK
  <2> QED BY <1>1, <1>2, <1>3, <2>2, AccessTyped, MustInjectTyped, ItemInjectTyped
          DEF TypeOK, RealType, MustType, ItemType
<1>6. MustBounds'
  BY <1>1, <1>2, MustInjectBounds DEF AgesInv, MustBounds, contains
<1>7. MustSeen'
  BY <1>1, <1>2, MustInjectSource DEF AgesInv, MustSeen, contains
<1>8. WholeBounds'
  BY <1>1, <1>2, ItemInjectBounds DEF AgesInv, WholeBounds, MustSeen
<1> QED BY <1>5, <1>6, <1>7, <1>8 DEF AgesInv

\* The join of two stacks of loops is a stack of loops, as deep as the smaller.
LEMMA DataLubTyped ==
    ASSUME NEW x \in Seq(ItemType), NEW y \in Seq(ItemType), Len(x) = Len(y)
    PROVE  DataLub(x, y) \in Seq(ItemType) /\ Len(DataLub(x, y)) = Len(x)
<1>1. Len(x) \in Nat
  OBVIOUS
<1>2. DataLub(x, y) = [i \in 1..Len(x) |-> ItemLub(x[Len(x) - Len(x) + i], y[Len(x) - Len(x) + i])]
  BY DEF DataLub
<1>3. \A i \in 1..Len(x) : Len(x) - Len(x) + i = i
  BY <1>1
<1>4. DataLub(x, y) = [i \in 1..Len(x) |-> ItemLub(x[i], y[i])]
  BY <1>2, <1>3
<1>5. \A i \in 1..Len(x) : ItemLub(x[i], y[i]) \in ItemType
  BY ItemLubTyped
<1> QED BY <1>1, <1>4, <1>5

\* A join preserves the invariant, whatever the other path brings.
LEMMA AgesJoin ==
    ASSUME AgesInv, NEW m \in MustType, NEW i \in ItemType, Join(m, i)
    PROVE  AgesInv'
<1>1. /\ must \in MustType /\ whole \in ItemType /\ data \in Seq(ItemType)
      /\ cache \in RealType /\ seen \in SUBSET Blocks /\ LoopTypeOK
  BY DEF AgesInv, TypeOK, RealType, MustType, ItemType
<1> DEFINE other == [k \in DOMAIN data |-> i]
<1>2. other \in Seq(ItemType) /\ Len(other) = Len(data)
  BY <1>1
<1>3. /\ must' \in {MustLub(must, m), MustLub(m, must)}
      /\ whole' \in {ItemLub(whole, i), ItemLub(i, whole)}
      /\ data' \in {DataLub(data, other), DataLub(other, data)}
      /\ UNCHANGED <<cache, headers, seen, seenIn, missed>>
  BY DEF Join, Lub
<1>4. data' \in Seq(ItemType) /\ Len(data') = Len(data)
  <2> HIDE DEF other
  <2> QED BY <1>1, <1>2, <1>3, DataLubTyped
<1>5. TypeOK'
  <2>1. must' \in MustType
    BY <1>1, <1>3, MustLubTyped
  <2>2. whole' \in ItemType
    BY <1>1, <1>3, ItemLubTyped
  <2>3. LoopTypeOK'
    BY <1>1, <1>3, <1>4 DEF LoopTypeOK
  <2> QED BY <1>1, <1>3, <1>4, <2>1, <2>2, <2>3 DEF TypeOK, RealType, MustType, ItemType
<1>6. \A b \in Blocks : contains(must', b) => contains(must, b) /\ must[b] <= must'[b]
  BY <1>1, <1>3, MustLubWeakens
<1>7. \A b \in Blocks : whole[b] <= whole'[b]
  BY <1>1, <1>3, ItemLubWeakens
<1>8. MustBounds'
  <2> SUFFICES ASSUME NEW b \in Blocks, contains(must', b) PROVE cache[b] <= must'[b]
    BY <1>3 DEF MustBounds, contains
  <2>1. cache[b] <= must[b] /\ must[b] <= must'[b]
    BY <1>6 DEF AgesInv, MustBounds
  <2>2. cache[b] \in Int /\ must[b] \in Int /\ must'[b] \in Int
    BY <1>1, <1>5, SetAssumption DEF TypeOK, RealType, MustType, RealAges, MustAges
  <2> QED BY <2>1, <2>2
<1>9. MustSeen'
  BY <1>3, <1>6 DEF AgesInv, MustSeen, contains
<1>10. WholeBounds'
  <2> SUFFICES ASSUME NEW b \in seen PROVE cache[b] <= whole'[b]
    BY <1>3 DEF WholeBounds
  <2>1. cache[b] <= whole[b] /\ whole[b] <= whole'[b]
    BY <1>1, <1>7 DEF AgesInv, WholeBounds
  <2>2. cache[b] \in Int /\ whole[b] \in Int /\ whole'[b] \in Int
    BY <1>1, <1>5, SetAssumption DEF TypeOK, RealType, ItemType, RealAges, PersAges
  <2> QED BY <2>1, <2>2
<1> QED BY <1>5, <1>8, <1>9, <1>10 DEF AgesInv

\* Entering and leaving a loop, and the first pass at its header, preserve the
\* invariant: they touch neither the MUST state nor the persistence of the
\* whole task.
LEMMA AgesLoop ==
    ASSUME AgesInv, EnterLoop \/ FixHeader \/ LeaveLoop
    PROVE  AgesInv'
<1>1. /\ must \in MustType /\ whole \in ItemType /\ data \in Seq(ItemType)
      /\ headers \in Seq(HeaderState) /\ seenIn \in Seq(SUBSET Blocks)
      /\ Len(seenIn) = Len(data) /\ LoopTypeOK
  BY DEF AgesInv, TypeOK, LoopTypeOK, MustType, ItemType
<1>2. UNCHANGED <<cache, must, whole, seen>>
  BY DEF EnterLoop, FixHeader, LeaveLoop
<1>3. data' \in Seq(ItemType) /\ LoopTypeOK'
  <2>1. CASE EnterLoop
    <3>1. 0 \in Blocks
      BY SetAssumption DEF Blocks
    <3>2. ItemEmpty \in ItemType
      BY <3>1, DomainStates
    <3>3. /\ data' \in Seq(ItemType) /\ Len(data') = Len(data) + 1
          /\ seenIn' \in Seq(SUBSET Blocks) /\ Len(seenIn') = Len(data) + 1
      BY <1>1, <2>1, <3>2, AppendProperties DEF EnterLoop
    <3>4. headers' = headers /\ missed' = missed /\ Len(headers) = Len(data)
      BY <2>1 DEF EnterLoop, InBody
    <3> QED BY <1>1, <3>3, <3>4 DEF LoopTypeOK
  <2>2. CASE FixHeader
    <3> DEFINE h == [must |-> must, whole |-> whole, data |-> data]
    <3>1. h \in HeaderState /\ h.data = data
      BY <1>1 DEF HeaderState, MustType, ItemType
    <3>2. headers' = Append(headers, h) /\ UNCHANGED <<data, seenIn, missed>>
          /\ Len(headers) = Len(data) - 1
      BY <1>1, <2>2 DEF FixHeader, InBody, LoopTypeOK
    <3> HIDE DEF h
    <3>3. /\ headers' \in Seq(HeaderState) /\ Len(headers') = Len(headers) + 1
          /\ headers'[Len(headers) + 1] = h
          /\ \A k \in 1..Len(headers) : headers'[k] = headers[k]
      BY <1>1, <3>1, <3>2, AppendProperties
    <3>4. \A k \in 1..Len(headers') : Len(headers'[k].data) = k
      BY <1>1, <3>1, <3>2, <3>3 DEF LoopTypeOK
    <3> QED BY <1>1, <3>2, <3>3, <3>4 DEF LoopTypeOK
  <2>3. CASE LeaveLoop
    <3>1. /\ data' = SubSeq(data, 1, Len(data) - 1)
          /\ seenIn' = SubSeq(seenIn, 1, Len(seenIn) - 1)
          /\ headers' = SubSeq(headers, 1, Len(headers) - 1)
          /\ missed' = FALSE /\ Len(headers) = Len(data)
      BY <2>3 DEF LeaveLoop, Front, InBody
    <3>2. Len(data) # 0
      BY <1>1, <2>3, EmptySeq DEF LeaveLoop
    <3>3. /\ data' \in Seq(ItemType) /\ Len(data') = Len(data) - 1
          /\ seenIn' \in Seq(SUBSET Blocks) /\ Len(seenIn') = Len(data) - 1
          /\ headers' \in Seq(HeaderState) /\ Len(headers') = Len(data) - 1
          /\ \A k \in 1..(Len(data) - 1) : headers'[k] = headers[k]
      BY <1>1, <3>1, <3>2
    <3>4. Len(data) - 1 \in Nat /\ Len(headers) = Len(data)
      BY <1>1, <3>1, <3>2
    <3>5. \A k \in 1..Len(headers') : Len(headers'[k].data) = k
      BY <1>1, <3>3, <3>4 DEF LoopTypeOK
    <3>6. missed' \in BOOLEAN
      BY <3>1
    <3> QED BY <3>3, <3>4, <3>5, <3>6 DEF LoopTypeOK
  <2> QED BY <2>1, <2>2, <2>3
<1>4. TypeOK'
  BY <1>2, <1>3 DEF AgesInv, TypeOK, ItemType
<1>5. MustBounds' /\ MustSeen' /\ WholeBounds'
  BY <1>2 DEF AgesInv, MustBounds, MustSeen, WholeBounds, contains
<1> QED BY <1>4, <1>5 DEF AgesInv

\* So does a back edge: the state of the header covers that of the path.
LEMMA AgesBackEdge ==
    ASSUME AgesInv, BackEdge
    PROVE  AgesInv'
<1> DEFINE h == Last(headers)
<1>1. /\ must \in MustType /\ whole \in ItemType /\ data \in Seq(ItemType)
      /\ cache \in RealType /\ seen \in SUBSET Blocks
      /\ headers \in Seq(HeaderState) /\ LoopTypeOK
  BY DEF AgesInv, TypeOK, LoopTypeOK, RealType, MustType, ItemType
<1>2. Len(headers) = Len(data) /\ Len(headers) \in Nat \ {0} /\ h = headers[Len(headers)]
  BY <1>1, EmptySeq DEF BackEdge, InBody, Last
<1>3. /\ h.must \in MustType /\ h.whole \in ItemType /\ h.data \in Seq(ItemType)
      /\ Len(h.data) = Len(data)
  <2>1. h \in HeaderState
    BY <1>1, <1>2
  <2>2. Len(h.data) = Len(data)
    BY <1>1, <1>2 DEF LoopTypeOK
  <2> HIDE DEF h
  <2> QED BY <2>1, <2>2 DEF HeaderState, MustType, ItemType
<1>4. /\ must' = h.must /\ whole' = h.whole /\ data' = h.data
      /\ UNCHANGED <<cache, headers, seen, seenIn, missed>>
      /\ MustLub(h.must, must) = h.must /\ ItemLub(h.whole, whole) = h.whole
  BY DEF BackEdge, Covers
<1> HIDE DEF h
<1>5. \A b \in Blocks : contains(must', b) => contains(must, b) /\ must[b] <= must'[b]
  <2> SUFFICES ASSUME NEW b \in Blocks, contains(MustLub(h.must, must), b)
               PROVE  contains(must, b) /\ must[b] <= MustLub(h.must, must)[b]
    BY <1>4
  <2> QED BY <1>1, <1>3, MustLubWeakens
<1>6. \A b \in Blocks : whole[b] <= whole'[b]
  <2> SUFFICES ASSUME NEW b \in Blocks PROVE whole[b] <= ItemLub(h.whole, whole)[b]
    BY <1>4
  <2> QED BY <1>1, <1>3, ItemLubWeakens
<1>7. TypeOK'
  <2>1. LoopTypeOK'
    BY <1>1, <1>3, <1>4 DEF LoopTypeOK
  <2> QED BY <1>1, <1>3, <1>4, <2>1 DEF TypeOK, RealType, MustType, ItemType
<1>8. MustBounds'
  <2> SUFFICES ASSUME NEW b \in Blocks, contains(must', b) PROVE cache[b] <= must'[b]
    BY <1>4 DEF MustBounds, contains
  <2>1. cache[b] <= must[b] /\ must[b] <= must'[b]
    BY <1>5 DEF AgesInv, MustBounds
  <2>2. cache[b] \in Int /\ must[b] \in Int /\ must'[b] \in Int
    BY <1>1, <1>3, <1>4, SetAssumption DEF RealType, MustType, RealAges, MustAges
  <2> QED BY <2>1, <2>2
<1>9. MustSeen'
  BY <1>4, <1>5 DEF AgesInv, MustSeen, contains
<1>10. WholeBounds'
  <2> SUFFICES ASSUME NEW b \in seen PROVE cache[b] <= whole'[b]
    BY <1>4 DEF WholeBounds
  <2>1. cache[b] <= whole[b] /\ whole[b] <= whole'[b]
    BY <1>1, <1>6 DEF AgesInv, WholeBounds
  <2>2. cache[b] \in Int /\ whole[b] \in Int /\ whole'[b] \in Int
    BY <1>1, <1>3, <1>4, SetAssumption DEF RealType, ItemType, RealAges, PersAges
  <2> QED BY <2>1, <2>2
<1> QED BY <1>7, <1>8, <1>9, <1>10 DEF AgesInv

\* Every step preserves the invariant.
LEMMA AgesStep == AgesInv /\ [Next]_vars => AgesInv'
<1> SUFFICES ASSUME AgesInv, [Next]_vars PROVE AgesInv'
  OBVIOUS
<1>1. CASE \E id \in Blocks : Update(id)
  BY <1>1, AgesUpdate
<1>2. CASE EnterLoop \/ FixHeader \/ LeaveLoop
  BY <1>2, AgesLoop
<1>3. ASSUME NEW b \in Blocks, NEW m \in MustAges,
             Join([MustBottom EXCEPT ![b] = m], ItemEmpty)
      PROVE  AgesInv'
  BY <1>3, AgesJoin, DomainStates
<1>4. ASSUME NEW b \in Blocks, NEW p \in PersAges,
             Join(MustBottom, [ItemEmpty EXCEPT ![b] = p])
      PROVE  AgesInv'
  BY <1>4, AgesJoin, DomainStates
<1>5. CASE BackEdge
  BY <1>5, AgesBackEdge
<1>6. CASE UNCHANGED vars
  <2>1. TypeOK'
    BY <1>6 DEF AgesInv, TypeOK, LoopTypeOK, vars
  <2> QED BY <1>6, <2>1 DEF AgesInv, MustBounds, MustSeen, WholeBounds, contains, vars
<1> QED BY <1>1, <1>2, <1>3, <1>4, <1>5, <1>6 DEF Next

\* The abstract ages always bound the real ones.
THEOREM AgesInvariant == Spec => []AgesInv
BY AgesInit, AgesStep, PTL DEF Spec

\* What CAT2Builder classifies ALWAYS_HIT from the MUST state hits, for every
\* cache geometry, every initial cache and every path.
THEOREM AlwaysHitTheorem == Spec => []AlwaysHitSound
<1>1. AgesInv => AlwaysHitSound
  <2> SUFFICES ASSUME AgesInv, NEW b \in Blocks, Category(b) = "ALWAYS_HIT"
               PROVE  cache[b] < A
    BY DEF AlwaysHitSound
  <2>1. contains(must, b)
    BY DEF Category
  <2>2. cache[b] <= must[b]
    BY <2>1 DEF AgesInv, MustBounds
  <2> QED BY <2>1, <2>2, SetAssumption DEF AgesInv, TypeOK, MustAges, RealAges, contains
<1> QED BY <1>1, AgesInvariant, PTL

\* What the persistence of the whole task does not say wiped out is never
\* replaced once loaded.
THEOREM WholePersTheorem == Spec => []WholePersSound
<1>1. AgesInv => WholePersSound
  <2> SUFFICES ASSUME AgesInv, NEW b \in seen, IsPersistent(whole, b)
               PROVE  cache[b] < A
    BY DEF WholePersSound
  <2>1. cache[b] <= whole[b] /\ whole[b] # A /\ b \in Blocks
    BY DEF AgesInv, TypeOK, WholeBounds, IsPersistent
  <2> QED BY <2>1, SetAssumption DEF AgesInv, TypeOK, PersAges, RealAges
<1> QED BY <1>1, AgesInvariant, PTL
=============================================================================
