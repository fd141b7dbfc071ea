---------------------------- MODULE MCVirtualizer ----------------------------
(***************************************************************************)
(* CFGBuilder and Virtualizer on small programs of three functions, at the  *)
(* instructions 1, 4 and 6.                                                 *)
(***************************************************************************)
EXTENDS Virtualizer

I(kind, cond, t) == [kind |-> kind, cond |-> cond, target |-> t]
seq == I("seq", FALSE, 0)
ret == I("return", FALSE, 0)
jump(t) == I("jump", FALSE, t)
branch(t) == I("jump", TRUE, t)
call(t) == I("call", FALSE, t)
indirect == I("jump", FALSE, 0)

Code(a, b, c, d, e, f) == {<<u, v, w, x, y, z>> : u \in a, v \in b, w \in c, x \in d, y \in e, z \in f}

\* What an instruction may be in the first function, and in the second one.
Inner == {seq, branch(1), branch(5), jump(1), jump(3), call(4), call(6)}
Second == {seq, branch(4), call(6), jump(6), I("return", TRUE, 0)}

MCSize == 6
Plain == [i \in Insts |-> {}]
OneSegment == <<<<1, 6>>>>

Of(codes, notes, functions, segments, apart) ==
    [code : codes, notes : notes, branchTo : {{}}, callTo : {{}}, segments : {segments},
     functions : functions, start : {1}, verbose : {FALSE}, inlining : {TRUE}, apart : apart]

\* Functions that call, jump or fall into each other, with symbols or not.
Calls ==
    Of(Code({seq, branch(3), call(4)}, Inner, {ret, jump(4), seq}, Second, {ret, seq, jump(6)}, {ret}),
       {Plain}, {{1}, {1, 4, 6}}, OneSegment, {{}, {4}, {6}})

\* A recursive function, or two.
Recursions ==
    Of(Code({call(4)}, {seq}, {ret}, {call(4), call(6)}, {ret},
            {jump(4), call(4), ret}),
       {Plain}, {{1, 4, 6}}, OneSegment, {{}, {4}, {6}})

\* The annotations, and indirect controls.
Notes(i, note) == [Plain EXCEPT ![i] = {note}]
AnnotatedWith(ns, inner) ==
    Of(Code({seq, call(4)}, inner, {ret}, {seq, call(6)}, {ret}, {ret}),
       ns, {{1, 4, 6}}, OneSegment, {{}})
Annotated ==
    AnnotatedWith({Notes(6, "NO_RETURN"), Notes(4, "NO_CALL")}, {seq, call(6), jump(3)})
    \cup AnnotatedWith({Notes(2, "IS_RETURN"), Notes(2, "IGNORE_CONTROL")}, {call(6), jump(3)})
    \cup AnnotatedWith({Notes(2, "IGNORE_CONTROL"), Notes(2, "IGNORE_SEQ")}, {branch(1)})
Indirect ==
    {[p EXCEPT !.branchTo = {<<2, 1>>, <<2, 3>>}, !.callTo = c] :
        p \in Of(Code({seq, call(4)}, {indirect}, {ret}, {seq, call(6)}, {ret}, {ret}),
                 {Plain}, {{1}, {1, 4, 6}}, <<<<1, 3>>, <<4, 6>>>>, {{}, {6}}),
        c \in {{}, {<<2, 4>>, <<2, 6>>}}}

MCPrograms == Calls \cup Recursions \cup Annotated \cup Indirect

\* What the theorems on the builder and on the assertions ask of a program.
ASSUME InTimeAssumption == \A p \in MCPrograms : InTime(p)
ASSUME NotesPlainAssumption == \A p \in MCPrograms : NotesPlain(p)
ASSUME CallsFollowedAssumption == \A p \in Calls \cup Annotated \cup Indirect : CallsFollowed(p)
=============================================================================
