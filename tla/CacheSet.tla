------------------------------ MODULE CacheSet ------------------------------
(***************************************************************************)
(* One set of an instruction cache with LRU replacement, and the accesses   *)
(* of a program to it.  The hardware is not part of OTAWA: it is what the   *)
(* abstract cache states of MUSTProblem, PERSProblem and MAYProblem speak   *)
(* of, as hard::Cache describes it (wayCount, LRU).                         *)
(*                                                                         *)
(* A cache block of the set is its number in the LBlockSet.  The real age   *)
(* of a block is 0 (newest) to A - 1 (oldest), and A when it is absent.     *)
(***************************************************************************)
EXTENDS Integers

CONSTANTS
    Size,       \* LBlockSet::cacheBlockCount()
    A           \* hard::Cache::wayCount()

Blocks == 0..(Size - 1)

ASSUME SetAssumption == Size \in Nat \ {0} /\ A \in Nat \ {0}

RealAges == 0..A

\* An LRU access: the blocks younger than the accessed one get older, which
\* for an absent block is all of them.
Access(cache, b) ==
    [x \in Blocks |-> IF x = b THEN 0
                      ELSE IF cache[x] < cache[b] THEN cache[x] + 1
                      ELSE cache[x]]

\* The contents of an LRU set: k blocks present, with the ages 0 to k - 1.
CacheStates ==
    {c \in [Blocks -> RealAges] :
        /\ \A x, y \in Blocks : (c[x] = c[y] /\ c[x] < A) => x = y
        /\ \A x \in Blocks : c[x] \in 1..(A - 1) => \E y \in Blocks : c[y] = c[x] - 1}
=============================================================================
