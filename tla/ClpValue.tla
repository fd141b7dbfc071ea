------------------------------ MODULE ClpValue ------------------------------
(***************************************************************************)
(* otawa::clp::Value: sets of words given as circular linear progressions.  *)
(* A value (lower, delta, mtimes) stands for lower + k delta, k <= mtimes,  *)
(* modulo 2^W.  The code has W = 32; every conversion between signed and    *)
(* unsigned words is kept, and arithmetic wraps.                            *)
(***************************************************************************)
EXTENDS Integers, FiniteSets, FiniteSetsExt

CONSTANT W      \* NBITS

ASSUME WAssumption == W \in Nat \ {0}

UMAXn == 2^W - 1
MAXn == 2^(W - 1) - 1
MINn == -(2^(W - 1))

unsigned(x) == x % 2^W
signed(x) == ((x + 2^(W - 1)) % 2^W) - 2^(W - 1)

Abs(x) == IF x < 0 THEN -x ELSE x

\* Division and remainder of C, that round to zero.
Quot(a, b) == IF (a < 0) = (b < 0) THEN Abs(a) \div Abs(b) ELSE -(Abs(a) \div Abs(b))
Rem(a, b) == a - b * Quot(a, b)

gcd(a, b) ==
    IF a = 0 \/ b = 0 THEN Abs(a + b)
    ELSE Max({g \in 1..Abs(a) : a % g = 0 /\ b % g = 0})

-----------------------------------------------------------------------------
(* Values.                                                                 *)

Kinds == {"NONE", "VAL", "ALL"}

set(kind, lower, delta, mtimes) ==
    [kind |-> kind, lower |-> signed(lower), delta |-> signed(delta),
     mtimes |-> unsigned(mtimes)]

none == set("NONE", 0, 0, 0)
all == set("ALL", 0, 1, UMAXn)
Const(k) == set("VAL", k, 0, 0)

isConst(v) == v.delta = 0 \/ v.mtimes = 0
upper(v) == signed(v.lower + v.delta * v.mtimes)
start(v) == IF v.delta < 0 THEN upper(v) ELSE v.lower
stop(v) == IF v.delta < 0 THEN v.lower ELSE upper(v)

swrap(v) ==
    v.delta # 0 /\ v.mtimes > unsigned(Quot(signed(MAXn - v.lower), Abs(v.delta)))
uwrap(v) ==
    v.delta # 0 /\ v.mtimes > unsigned(UMAXn - v.lower) \div Abs(v.delta)

\* The words a value stands for.
Concrete(v) ==
    CASE v.kind = "NONE" -> {}
      [] v.kind = "ALL" -> 0..UMAXn
      [] v.kind = "VAL" -> {unsigned(v.lower + k * v.delta) : k \in 0..v.mtimes}

-----------------------------------------------------------------------------
(* Arithmetic.                                                             *)

reverse(v) == set("VAL", upper(v), - v.delta, v.mtimes)

\* add and sub: base is where the sum or the difference begins, cst what it is
\* for two constants.
Progress(v, w, base, cst) ==
    LET g == gcd(v.delta, w.delta)
        r == CASE v.kind = "NONE" /\ w.kind = "NONE" -> none
               [] "ALL" \in {v.kind, w.kind} -> all
               [] OTHER ->
                    IF v.delta = 0 /\ w.delta = 0 THEN set(v.kind, cst, 0, 0)
                    ELSE set("VAL", base, g, v.mtimes * (Abs(v.delta) \div g)
                                             + w.mtimes * (Abs(w.delta) \div g))
    IN  IF v.delta < 0 \/ w.delta < 0 THEN reverse(r) ELSE r

add(v, w) == Progress(v, w, start(v) + start(w), v.lower + w.lower)
sub(v, w) == Progress(v, w, start(v) - stop(w), v.lower - w.lower)

shl(v, w) ==
    IF ~ isConst(w) \/ w.lower < 0 THEN all
    ELSE IF v.kind # "VAL" THEN v
    ELSE set("VAL", v.lower * 2^w.lower, v.delta * 2^w.lower, v.mtimes)

shr(v, w) ==
    IF ~ isConst(w) \/ w.lower < 0 THEN all
    ELSE IF v.kind # "VAL" THEN v
    ELSE IF v.delta % 2 = 0
         THEN set("VAL", v.lower \div 2^w.lower, v.delta \div 2^w.lower, v.mtimes)
         ELSE set("VAL", v.lower \div 2^w.lower, 1,
                  unsigned(v.delta * v.mtimes) \div 2^w.lower)

-----------------------------------------------------------------------------
(* Join and widening.                                                      *)

join(v, w) ==
    CASE v = w -> v
      [] v # w /\ "ALL" \in {v.kind, w.kind} -> all
      [] v # w /\ w.kind = "NONE" -> v
      [] v.kind = "NONE" /\ w.kind = "VAL" -> w
      [] v # w /\ v.kind = "VAL" /\ w.kind = "VAL" ->
           IF v.delta = 0 /\ v.mtimes = 0 /\ isConst(w)
           THEN set("VAL", Min({v.lower, w.lower}), Abs(signed(v.lower - w.lower)), 1)
           ELSE LET g == gcd(gcd(signed(start(v) - start(w)), v.delta), w.delta)
                    low == Min({start(v), start(w)})
                    high == Max({start(v) + Abs(v.delta) * v.mtimes,
                                 start(w) + Abs(w.delta) * w.mtimes})
                IN  set("VAL", low, g, (high - low) \div g)

\* The step to widen with, when the bound that moves does so by `moved' and
\* the other one by `other'.
WideningStep(v, w, moved, other) ==
    LET d == Abs(v.delta)
    IN  IF d = Abs(w.delta) /\ other \in {0, d} /\ moved = d THEN d ELSE 1

widening(v, w) ==
    CASE v = w -> v
      [] v # w /\ "ALL" \in {v.kind, w.kind} -> all
      [] v # w /\ "ALL" \notin {v.kind, w.kind} ->
           IF isConst(v) /\ isConst(w)
           THEN [v EXCEPT !.delta = signed(w.lower - v.lower), !.mtimes = UMAXn]
           ELSE IF start(w) <= start(v) /\ stop(w) <= stop(v)
           THEN LET d == WideningStep(v, w, signed(start(v) - start(w)), signed(stop(v) - stop(w)))
                IN  set(v.kind, stop(v), - d, UMAXn \div d)
           ELSE IF start(w) >= start(v) /\ stop(w) >= stop(v)
           THEN LET d == WideningStep(v, w, signed(stop(w) - stop(v)), signed(start(w) - start(v)))
                IN  set(v.kind, start(v), d, UMAXn \div d)
           ELSE all

\* With a loop bound.
ffwidening(v, w, bound) ==
    CASE v = w -> v
      [] v # w /\ "ALL" \in {v.kind, w.kind} -> all
      [] v # w /\ "ALL" \notin {v.kind, w.kind} ->
           IF isConst(v) /\ isConst(w)
           THEN LET step == v.lower - w.lower
                IN  IF step < 0 THEN set("VAL", v.lower, - step, bound)
                    ELSE set("VAL", v.lower - bound * step, step, bound)
           ELSE IF v.delta = w.delta /\ Rem(w.lower - v.lower, v.delta) = 0
                   /\ v.mtimes >= w.mtimes
           THEN v ELSE all

-----------------------------------------------------------------------------
(* Filters.                                                                *)

\* roundup of ELM, on unsigned words.
roundup(x, m) == unsigned((unsigned(unsigned(x) - 1) \div m + 1) * m)

\* inter with the interval from k to k + n, for a value that is not constant.
interInterval(v, k, n) ==
    LET w == set("VAL", k, 1, n)
        d == v.delta
        tests == {unsigned(Quot(signed(start(w) - start(v)), Abs(d))) <= v.mtimes,
                  unsigned(Quot(signed(stop(w) - start(v)), Abs(d))) <= v.mtimes,
                  unsigned(start(v) - start(w)) <= w.mtimes,
                  unsigned(stop(v) - start(w)) <= w.mtimes}
        within(low, step, m) == set("VAL", low, IF m = 0 THEN 0 ELSE step, m)
    IN  IF v = w THEN v
        ELSE IF isConst(w) THEN
            IF /\ Rem(signed(w.lower - v.lower), d) = 0
               /\ unsigned(Quot(signed(w.lower - v.lower), d)) <= v.mtimes
            THEN Const(w.lower) ELSE none
        ELSE IF TRUE \notin tests THEN none
        ELSE IF Abs(d) = 1 THEN
            LET low == Max({w.lower, start(v)})
            IN  within(low, 1, Min({unsigned(stop(v) - low), unsigned(stop(w) - low)}))
        ELSE IF d > 0 THEN
            LET low == Max({v.lower, signed(roundup(start(w) - v.lower, d) + v.lower)})
            IN  within(low, d, Min({unsigned(stop(w) - low) \div d,
                                    unsigned(stop(v) - low) \div d}))
        ELSE
            LET low == Min({v.lower, signed(Quot(signed(stop(w) - v.lower), d) * d + v.lower)})
            IN  within(low, d, Min({signed(v.mtimes + Quot(v.lower - low, d)),
                                    signed(unsigned(low - start(w)) \div (- d))}))

Unfiltered(v) == v \in {all, none}

le(v, k) ==
    LET last == IF ~ swrap(v) THEN v.mtimes
                ELSE IF v.delta >= 0 THEN unsigned(MAXn - v.lower) \div v.delta
                ELSE unsigned(MINn + v.lower) \div (- v.delta)
        u == [v EXCEPT !.mtimes = last]
        s == Quot(v.lower - k - v.delta - 1, - v.delta)
    IN  CASE Unfiltered(v) -> v
          [] ~ Unfiltered(v) /\ isConst(v) -> IF k < v.lower THEN none ELSE v
          [] OTHER -> IF start(u) > k THEN none
                      ELSE IF stop(u) < k THEN u
                      ELSE IF v.delta >= 0
                      THEN [u EXCEPT !.mtimes = unsigned(Quot(signed(k - v.lower), v.delta))]
                      ELSE set(v.kind, v.lower + v.delta * s, v.delta, last - s)

\* The comparison of the last value with k is one of unsigned words.
ge(v, k) ==
    LET u == IF swrap(v) THEN [v EXCEPT !.mtimes = unsigned(Quot(signed(MAXn - k), - v.delta))]
             ELSE v
    IN  CASE Unfiltered(v) -> v
          [] ~ Unfiltered(v) /\ isConst(v) -> IF k > v.lower THEN none ELSE v
          [] ~ Unfiltered(v) /\ ~ isConst(v) /\ v.delta > 0 -> interInterval(v, k, MAXn - k)
          [] OTHER -> IF v.lower <= k THEN none
                      ELSE IF unsigned(u.lower + u.delta * u.mtimes) >= unsigned(k) THEN u
                      ELSE [u EXCEPT !.mtimes = unsigned(Quot(signed(k - v.lower), v.delta))]

leu(v, k) ==
    LET u == IF uwrap(v) THEN [v EXCEPT !.mtimes = k \div v.delta] ELSE v
    IN  CASE Unfiltered(v) -> v
          [] ~ Unfiltered(v) /\ isConst(v) -> IF k < unsigned(v.lower) THEN none ELSE v
          [] ~ Unfiltered(v) /\ ~ isConst(v) /\ v.delta < 0 -> interInterval(v, 0, k)
          [] OTHER -> IF unsigned(v.lower) >= k THEN none
                      ELSE IF unsigned(u.lower + u.delta * u.mtimes) <= k THEN u
                      ELSE [u EXCEPT !.mtimes = (k - unsigned(v.lower)) \div v.delta]

geu(v, k) ==
    LET u == IF uwrap(v) THEN [v EXCEPT !.mtimes = (UMAXn - k) \div (- v.delta)] ELSE v
    IN  CASE Unfiltered(v) -> v
          [] ~ Unfiltered(v) /\ isConst(v) -> IF k > unsigned(v.lower) THEN none ELSE v
          [] ~ Unfiltered(v) /\ ~ isConst(v) /\ v.delta > 0 -> interInterval(v, k, UMAXn - k)
          [] OTHER -> IF unsigned(v.lower) <= k THEN none
                      ELSE IF unsigned(u.lower + u.delta * u.mtimes) >= k THEN u
                      ELSE [u EXCEPT !.mtimes = unsigned(Quot(signed(k - v.lower), v.delta))]

\* applyFilter with a constant.
applyFilter(v, op, k) ==
    CASE op = "LT" -> le(v, signed(k - 1))
      [] op = "LE" -> le(v, k)
      [] op = "GE" -> ge(v, k)
      [] op = "GT" -> ge(v, signed(k + 1))
      [] op = "ULT" -> leu(v, unsigned(k - 1))
      [] op = "ULE" -> leu(v, unsigned(k))
      [] op = "UGE" -> geu(v, unsigned(k))
      [] op = "UGT" -> geu(v, unsigned(k + 1))
      [] op = "NE" -> v

\* SECmp::logicalNot: the condition of the edge that is not taken.
logicalNot(op) ==
    CASE op = "LT" -> "GE" [] op = "GE" -> "LT" [] op = "LE" -> "GT" [] op = "GT" -> "LE"
      [] op = "ULT" -> "UGE" [] op = "UGE" -> "ULT" [] op = "ULE" -> "UGT"
      [] op = "UGT" -> "ULE"
=============================================================================
