----------------------------- MODULE MCFlowFacts -----------------------------
(***************************************************************************)
(* FlowFacts on programs of three functions, at the instructions 1, 5 and   *)
(* 8, with loops in each of them.                                           *)
(***************************************************************************)
EXTENDS FlowFacts

I(kind, cond, t) == [kind |-> kind, cond |-> cond, target |-> t]
seq == I("seq", FALSE, 0)
ret == I("return", FALSE, 0)
branch(t) == I("jump", TRUE, t)
call(t) == I("call", FALSE, t)

MCSize == 10
Mains == {<<a, b, c, ret>> : a \in {seq, call(5), call(8)}, b \in {seq, call(5), branch(4)},
                             c \in {branch(2), branch(1), call(8)}}
Seconds == {<<a, b, ret>> : a \in {seq, call(8)}, b \in {branch(5), branch(7), call(8)}}
Thirds == {<<seq, branch(8), ret>>, <<branch(9), seq, ret>>, <<seq, branch(9), ret>>}

Fact(i, p, n) == [inst |-> i, path |-> p, max |-> n]

\* Facts on the loop of the third function: for all contexts, for one caller,
\* for one call, in several orders, and twice for the same loop.
General == Fact(8, <<>>, 9)
FromMain == Fact(8, <<Fun(1), Fun(8)>>, 5)
FromSecond == Fact(8, <<Fun(5), Fun(8)>>, 3)
AtCall == Fact(8, <<Call(6), Fun(8)>>, 2)
FactLists ==
    {<<FromMain, General>>, <<General, FromSecond, AtCall>>,
     <<AtCall, FromSecond, FromMain>>, <<FromSecond, Fact(8, <<Fun(5), Fun(8)>>, 1)>>}
\* Facts on the loops of the other functions.
OuterFacts == <<Fact(5, <<Fun(1), Fun(5)>>, 4), Fact(2, <<>>, 6), Fact(1, <<Fun(1)>>, 7)>>

NoLines == [i \in Insts |-> None]
\* Source lines of two instructions.
PairLines == [i \in Insts |-> IF i % 2 = 0 THEN i ELSE i - 1]

Of(mains, seconds, thirds, aparts, lists, lines, callTo) ==
    [code : {a \o b \o c : a \in mains, b \in seconds, c \in thirds},
     notes : {[i \in Insts |-> {}]}, branchTo : {{}}, callTo : {callTo},
     segments : {<<<<1, MCSize>>>>}, functions : {{1, 5, 8}}, start : {1}, verbose : {FALSE},
     inlining : {TRUE}, apart : aparts, facts : lists, line : lines]

MCPrograms ==
    Of(Mains, Seconds, {<<seq, branch(8), ret>>}, {{}, {8}}, FactLists, {NoLines}, {})
    \cup Of(Mains, {<<seq, branch(5), ret>>}, Thirds, {{}}, {OuterFacts, <<General>>}, {PairLines}, {})
    \* Recursive functions, with a way out or not.
    \cup Of(Mains, {<<branch(7), call(5), ret>>, <<call(5), seq, ret>>}, {<<seq, branch(8), ret>>},
            {{}}, {OuterFacts}, {NoLines}, {})
    \* A call with two targets.
    \cup Of({<<a, call(0), c, ret>> : a \in {seq, call(8)}, c \in {branch(1), branch(2)}}, Seconds,
            {<<seq, branch(8), ret>>}, {{}, {8}}, FactLists, {NoLines}, {<<2, 5>>, <<2, 8>>})
=============================================================================
