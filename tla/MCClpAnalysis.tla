---------------------------- MODULE MCClpAnalysis ----------------------------
(***************************************************************************)
(* ClpAnalysis on small loops.                                              *)
(***************************************************************************)
EXTENDS ClpAnalysis

I(op, d, a, b) == [op |-> op, d |-> d, a |-> a, b |-> b]

\* Register 1 counts, register 2 holds the step, register 3 what is computed.
Up == I("ADD", 1, 1, 2)
Down == I("SUB", 1, 1, 2)
Others ==
    {I("ADD", 3, 3, 2), I("SUB", 3, 2, 1), I("SHL", 3, 1, 2), I("SHR", 3, 3, 2),
     I("SET", 3, 1, 0), I("SETI", 3, 5, 0), I("SCRATCH", 3, 0, 0), I("LOAD", 3, 2, 0),
     I("LOAD", 3, 1, 0), I("STORE", 3, 1, 0)}
Skip == I("IF", 0, 1, 1)
Cont == I("CONT", 0, 0, 0)

\* Bodies that count with c, with other instructions and paths.
Bodies(c) ==
    {<<c>>}
    \cup UNION {{<<c, o>>, <<Skip, c, o>>, <<o, Skip, Cont, c>>} : o \in Others}

Loops(inits, bodies, ops, ks, bounds) ==
    [init : inits,
     code : [entry : {<<I("STORE", 3, 2, 0)>>}, body : bodies],
     cond : {NoCond} \cup [op : ops, reg : {1}, k : ks],
     bound : bounds]

Inits == {<<0, 1, 0>>, <<4, 3, 1>>}

\* Loops that count up to a limit or down to a limit, with a step of 1 when the
\* words are unsigned, and with a join after the count when they are bounded.
\* A filter that looks for words above a limit never has it on the first value
\* of the progression that it filters, nor one for unsigned words below.
MCPrograms ==
    Loops(Inits, Bodies(Up), {"LT", "LE"}, {-3, 4, 6}, {-1, 2})
    \cup Loops(Inits, Bodies(Down), {"GT", "GE"}, {-3, 1, 6}, {-1, 2})
    \cup Loops({<<0, 1, 0>>}, Bodies(Up), {"ULT", "ULE"}, {-3, 2, 6}, {-1, 2})
    \cup Loops({<<4, 1, 1>>}, Bodies(Up), {"ULT", "ULE"}, {6}, {-1})
    \cup Loops({<<4, 1, 1>>, <<6, 1, 0>>}, {<<Down, o>> : o \in Others}, {"UGT", "UGE"}, {-3, 1, 2}, {-1})
    \cup Loops(Inits, {<<Up, Skip, o>> : o \in Others}, {"LT", "LE"}, {-3, 6}, {2})

\* The limit is the first value: while(x >= 4) x-- from 4 on.
MCEqualPrograms == Loops({<<4, 1, 0>>}, {<<Down>>}, {"GE"}, {4}, {-1})

MCRam == {[a \in 0..7 |-> 7]}
MCRom == [a \in {} |-> 0]
MCSymbolOf == [a \in 0..15 |-> 0..7]
=============================================================================
