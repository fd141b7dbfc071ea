------------------------------ MODULE CacheMay ------------------------------
(***************************************************************************)
(* The MAY analysis of one instruction cache set (MAYProblem), followed     *)
(* along one path of the program together with the cache that the path      *)
(* leaves.  The MAY state of the entry is empty, and so is the cache.       *)
(***************************************************************************)
EXTENDS CacheSet

CONSTANT MaxAge     \* BOUND: no access once an age has passed it

VARIABLES
    cache,      \* the real ages
    may         \* MAYProblem::Domain::age

vars == <<cache, may>>

MayEmpty == [b \in Blocks |-> -1]

\* The loop of a hit works in place: once it has passed the injected block,
\* whose age it increments too, it compares with the incremented age.
MayInject(acs, id) ==
    IF acs[id] # -1
    THEN [b \in Blocks |->
            IF b = id THEN 0
            ELSE IF acs[b] # -1 /\ acs[b] <= (IF b < id THEN acs[id] ELSE acs[id] + 1)
                 THEN acs[b] + 1 ELSE acs[b]]
    ELSE [b \in Blocks |->
            IF b = id THEN 0
            ELSE IF acs[b] \in {-1, A - 1} THEN -1 ELSE acs[b] + 1]

MayLub(acs, dom) ==
    [b \in Blocks |-> IF (acs[b] > dom[b] /\ dom[b] # -1) \/ acs[b] = -1
                      THEN dom[b] ELSE acs[b]]

-----------------------------------------------------------------------------
Init ==
    /\ cache = [b \in Blocks |-> A]
    /\ may = MayEmpty

\* MAYProblem::update, for a basic block with one l-block in the set.
Update(id) ==
    /\ \A b \in Blocks : may[b] <= MaxAge
    /\ cache' = Access(cache, id)
    /\ may' = MayInject(may, id)

\* Any state of the other path is reached by joins with states of one block.
Join(dom) ==
    /\ may' \in {MayLub(may, dom), MayLub(dom, may)}
    /\ UNCHANGED cache

PathStep == \E id \in Blocks : Update(id)

Next ==
    \/ PathStep
    \/ \E b \in Blocks, a \in 0..(A - 1) : Join([MayEmpty EXCEPT ![b] = a])

Spec == Init /\ [][Next]_vars

-----------------------------------------------------------------------------
(* Properties.                                                             *)

\* An access that CAT2Builder classifies ALWAYS_MISS because its block is not
\* in the MAY state never hits.
AlwaysMissSound == \A b \in Blocks : may[b] = -1 => cache[b] = A
=============================================================================
