---------------------------- MODULE CacheMustPers ----------------------------
(***************************************************************************)
(* The MUST and persistence analyses of one instruction cache set           *)
(* (MUSTPERS), followed along one path of the program together with the     *)
(* cache that the path really leaves.  At a join the state of another path, *)
(* whatever it is, comes in.  HalfAbsInt drives the analysis: it calls      *)
(* update() on the basic blocks, lub() at the joins, enterContext() and     *)
(* leaveContext() around the loops.  What CAT2Builder reads are the states  *)
(* of the fixpoint: the state at a loop header covers what comes in from    *)
(* the entry edges and from every back edge that the path takes.            *)
(***************************************************************************)
EXTENDS CacheSet, Sequences, SequencesExt

CONSTANTS
    FirstMissLevel,     \* FIRSTMISS_LEVEL
    MaxDepth,           \* BOUND: nesting of loops
    InnerJoins          \* BOUND: whether other paths join in the loop bodies

ASSUME LevelAssumption ==
    /\ FirstMissLevel \in {"NONE", "INNER", "OUTER", "MULTI"}
    /\ MaxDepth \in Nat /\ InnerJoins \in BOOLEAN

VARIABLES
    cache,      \* the real ages
    must,       \* MUSTProblem::Domain::age
    whole,      \* PERSProblem::Domain::whole
    data,       \* PERSProblem::Domain::data, the innermost loop last
    seen,       \* ghost: blocks accessed since the entry
    headers,    \* FixPointState::headerState of each loop, at the fixpoint
    seenIn,     \* ghost: blocks accessed since each loop was entered
    missed      \* ghost: an access to the loop was not as it was classified

vars == <<cache, must, whole, data, seen, headers, seenIn, missed>>

MustAges == -1..(A - 1)
PersAges == -1..A

contains(acs, b) == acs[b] # -1

-----------------------------------------------------------------------------
(* MUSTProblem::Domain.                                                    *)

MustEmpty == [b \in Blocks |-> -1]
MustBottom == [b \in Blocks |-> 0]

\* Mutant: a hit makes no block older.
MustInjectHitKeeps(acs, id) ==
    IF contains(acs, id)
    THEN [acs EXCEPT ![id] = 0]
    ELSE [b \in Blocks |-> IF b = id THEN 0
                           ELSE IF acs[b] \in {-1, A - 1} THEN -1
                           ELSE acs[b] + 1]

MustInject(acs, id) ==
    IF contains(acs, id)
    THEN [b \in Blocks |-> IF b = id THEN 0
                           ELSE IF acs[b] < acs[id] /\ acs[b] # -1 THEN acs[b] + 1
                           ELSE acs[b]]
    ELSE [b \in Blocks |-> IF b = id THEN 0
                           ELSE IF acs[b] \in {-1, A - 1} THEN -1
                           ELSE acs[b] + 1]

\* Mutant: glb at a join.
MustGlb(acs, dom) ==
    [b \in Blocks |-> IF (acs[b] > dom[b] /\ dom[b] # -1) \/ acs[b] = -1
                      THEN dom[b] ELSE acs[b]]

MustLub(acs, dom) ==
    [b \in Blocks |-> IF (acs[b] < dom[b] /\ acs[b] # -1) \/ dom[b] = -1
                      THEN dom[b] ELSE acs[b]]

-----------------------------------------------------------------------------
(* PERSProblem::Item and PERSProblem::Domain.  The age A is "wiped out".   *)

ItemEmpty == [b \in Blocks |-> -1]

ItemInject(item, mustAcs, id) ==
    [b \in Blocks |->
        IF b = id THEN 0
        ELSE IF item[b] \in {-1, A} THEN item[b]
        ELSE IF contains(mustAcs, id) /\ item[b] >= item[id] THEN item[b]
        ELSE item[b] + 1]

\* Mutant: the join keeps the age of the block that is there.
ItemLubKeeps(item, dom) ==
    [b \in Blocks |-> IF item[b] = -1 THEN dom[b] ELSE item[b]]

ItemLub(item, dom) ==
    [b \in Blocks |-> IF item[b] = -1 \/ (item[b] < dom[b] /\ dom[b] # -1)
                      THEN dom[b] ELSE item[b]]

IsPersistent(item, b) == contains(item, b) /\ item[b] # A

\* Domain::lub aligns the innermost loops and drops the outer ones.
DataLub(items, doms) ==
    LET n == Len(items)
        m == Len(doms)
        k == IF n < m THEN n ELSE m
    IN  [i \in 1..k |-> ItemLub(items[n - k + i], doms[m - k + i])]

-----------------------------------------------------------------------------
(* CAT2Builder::processLBlockSet, without a MAY analysis, for the first     *)
(* l-block of its basic block in this set.                                  *)

Levels ==
    (IF Len(data) > 1 /\ FirstMissLevel = "INNER" THEN Len(data) ELSE 1)..Len(data)

PersistentLevels(b) == {k \in Levels : IsPersistent(data[k], b)}

Category(b) ==
    IF contains(must, b) THEN "ALWAYS_HIT"
    ELSE IF \/ FirstMissLevel = "NONE"
            \/ PersistentLevels(b) = {}
            \/ FirstMissLevel = "OUTER" /\ PersistentLevels(b) # Levels
         THEN "ALWAYS_MISS"
         ELSE "FIRST_MISS"

\* CATEGORY_HEADER: the last assignment is that of the outermost level.
CategoryHeader(b) ==
    CHOOSE k \in PersistentLevels(b) : \A j \in PersistentLevels(b) : k <= j

-----------------------------------------------------------------------------
Init ==
    /\ cache \in CacheStates
    /\ must = MustEmpty
    /\ whole = ItemEmpty
    /\ data = <<>>
    /\ headers = <<>>
    /\ seen = {}
    /\ seenIn = <<>>
    /\ missed = FALSE

\* Mutant: the MUST state first.
InjectMustFirst(id) ==
    LET after == MustInject(must, id) IN
    /\ must' = after
    /\ whole' = ItemInject(whole, after, id)
    /\ data' = [k \in DOMAIN data |-> ItemInject(data[k], after, id)]

\* MUSTPERS::Domain::inject: the persistence first.
Inject(id) ==
    /\ whole' = ItemInject(whole, must, id)
    /\ data' = [k \in DOMAIN data |-> ItemInject(data[k], must, id)]
    /\ must' = MustInject(must, id)

\* The state at the header of the innermost loop is known.
InBody == Len(headers) = Len(data)

\* An access classified FIRST_MISS misses though its loop did it before.
Misses(id) ==
    /\ Category(id) = "FIRST_MISS"
    /\ id \in seenIn[CategoryHeader(id)]
    /\ cache[id] = A

See(id) ==
    /\ seen' = seen \union {id}
    /\ seenIn' = [k \in DOMAIN seenIn |-> seenIn[k] \union {id}]
    /\ missed' = (missed \/ Misses(id))

\* MUSTPERS::update for a basic block with one l-block in this set.
Update(id) ==
    /\ InBody
    /\ cache' = Access(cache, id)
    /\ Inject(id)
    /\ See(id)
    /\ UNCHANGED headers

\* MUSTPERS::Domain::lub, called on the state of this path or on the other one.
\* The lubs work block by block, so that any state of the other path is reached
\* by joins with states that differ from bottom by one age.
Lub(mustA, wholeA, dataA, mustB, wholeB, dataB) ==
    /\ must' = MustLub(mustA, mustB)
    /\ whole' = ItemLub(wholeA, wholeB)
    /\ data' = DataLub(dataA, dataB)

\* The join of two paths, or that of the entry and back edges of a loop.
Join(otherMust, otherItem) ==
    LET other == [k \in DOMAIN data |-> otherItem] IN
    /\ InnerJoins \/ data = <<>> \/ ~InBody
    /\ \/ Lub(must, whole, data, otherMust, otherItem, other)
       \/ Lub(otherMust, otherItem, other, must, whole, data)
    /\ UNCHANGED <<cache, headers, seen, seenIn, missed>>

\* entryEdgeUnion: enterContext once the entry edges are joined.
EnterLoop ==
    /\ InBody /\ Len(data) < MaxDepth
    /\ data' = Append(data, ItemEmpty)
    /\ seenIn' = Append(seenIn, {})
    /\ UNCHANGED <<cache, must, whole, headers, seen, missed>>

\* DefaultFixPoint::fixPoint: the state at the header, back edges joined.
FixHeader ==
    /\ ~InBody
    /\ headers' = Append(headers, [must |-> must, whole |-> whole, data |-> data])
    /\ UNCHANGED <<cache, must, whole, data, seen, seenIn, missed>>

\* The fixpoint: joining this path again leaves the state of the header.
Covers(h) ==
    /\ MustLub(h.must, must) = h.must
    /\ ItemLub(h.whole, whole) = h.whole
    /\ DataLub(h.data, data) = h.data

\* A back edge, of a path that the fixpoint is about.
BackEdge ==
    /\ data # <<>> /\ InBody /\ Covers(Last(headers))
    /\ must' = Last(headers).must
    /\ whole' = Last(headers).whole
    /\ data' = Last(headers).data
    /\ UNCHANGED <<cache, headers, seen, seenIn, missed>>

\* leaveContext on the exit edges, once the loop is at its fixpoint.
LeaveLoop ==
    /\ data # <<>> /\ InBody
    /\ data' = Front(data)
    /\ headers' = Front(headers)
    /\ seenIn' = Front(seenIn)
    /\ missed' = FALSE
    /\ UNCHANGED <<cache, must, whole, seen>>

Next ==
    \/ \E id \in Blocks : Update(id)
    \/ EnterLoop \/ FixHeader \/ BackEdge \/ LeaveLoop
    \/ \E b \in Blocks :
          \/ \E m \in MustAges : Join([MustBottom EXCEPT ![b] = m], ItemEmpty)
          \/ \E p \in PersAges : Join(MustBottom, [ItemEmpty EXCEPT ![b] = p])

Spec == Init /\ [][Next]_vars

-----------------------------------------------------------------------------
(* Properties.                                                             *)

HeaderState ==
    [must : [Blocks -> MustAges], whole : [Blocks -> PersAges], data : Seq([Blocks -> PersAges])]

\* The stacks of the loops around.
LoopTypeOK ==
    /\ headers \in Seq(HeaderState)
    /\ \A k \in 1..Len(headers) : Len(headers[k].data) = k
    /\ Len(headers) \in {Len(data), Len(data) - 1}
    /\ seenIn \in Seq(SUBSET Blocks) /\ Len(seenIn) = Len(data)
    /\ missed \in BOOLEAN

\* Real ages, ages of the MUST state from -1 to A - 1, of persistence to A.
TypeOK ==
    /\ cache \in [Blocks -> RealAges]
    /\ must \in [Blocks -> MustAges]
    /\ whole \in [Blocks -> PersAges]
    /\ data \in Seq([Blocks -> PersAges])
    /\ seen \in SUBSET Blocks
    /\ LoopTypeOK

\* An access that CAT2Builder classifies ALWAYS_HIT never misses, whatever the
\* cache held at the entry and whatever was joined in.
AlwaysHitSound == \A b \in Blocks : Category(b) = "ALWAYS_HIT" => cache[b] < A

\* A block that the persistence of the whole task does not say wiped out has
\* not been replaced since it was loaded.
WholePersSound == \A b \in seen : IsPersistent(whole, b) => cache[b] < A

\* The same for a loop: on a path that goes on to a back edge, as the fixpoint
\* says it may, an access that CAT2Builder classifies FIRST_MISS for the loop
\* has hit if the loop had accessed its block before.
FirstMissSound == missed => ~(data # <<>> /\ InBody /\ Covers(Last(headers)))

-----------------------------------------------------------------------------
(* The inductive invariant: ages of the abstract states bound real ages.   *)

MustBounds == \A b \in Blocks : contains(must, b) => cache[b] <= must[b]

\* A block in the MUST state was accessed since the entry, where the MUST
\* state is empty: ItemInject may compare with its age in the persistence.
MustSeen == \A b \in Blocks : contains(must, b) => b \in seen

WholeBounds == \A b \in seen : cache[b] <= whole[b]

AgesInv == TypeOK /\ MustBounds /\ MustSeen /\ WholeBounds
=============================================================================
