----------------------------- MODULE ClpAnalysis -----------------------------
(***************************************************************************)
(* The analysis of values by circular linear progressions (ClpAnalysis): the *)
(* problem ClpProblem, its states, and WideningFixPoint, on a loop.         *)
(*                                                                         *)
(* The program has an entry, a header, a body that goes back to it, and an  *)
(* exit.  The analysis interprets the semantic instructions of the blocks   *)
(* one by one on states of values; then the same instructions are executed  *)
(* on words, to compare what happens with what the analysis has found.      *)
(***************************************************************************)
EXTENDS ClpValue, Sequences, SequencesExt

CONSTANTS
    Programs,   \* the programs to analyse
    Many,       \* 42: number of addresses from which an access is to anywhere
    Rom,        \* Rom[a]: the words of the segments that are not writable
    SymbolOf,   \* SymbolOf[a]: the addresses of the symbol of a, none if {}
    Ram         \* Ram: the words the memory may hold at first

\* A program: the words of the registers at the entry, the semantic instructions
\* of the blocks, the condition to enter the body (a register
\* compared with a constant) and MAX_ITERATION of the loop, or -1.
NoCond == [op |-> "ANY", reg |-> 1, k |-> 0]

VARIABLES
    prog,       \* the program
    at,         \* the block at work
    pc,         \* ClpProblem::pc
    todo,       \* ClpProblem::todo: the paths to interpret
    onOut,      \* the path at work is the first one: it works on out
    cur,        \* the state of the path at work
    out,        \* the OUT state under computation
    stateIn,    \* STATE_IN of the blocks
    header,     \* FixPointState::headerState
    exitMark,   \* the mark of the edge from the header to the exit
    running,    \* the program is analysed and executed
    regs, mem,  \* the words of the registers and of the memory
    iter        \* iterations executed

analysis == <<todo, onOut, cur, out, stateIn, header, exitMark>>
words == <<regs, mem>>
vars == <<prog, at, pc, analysis, running, words, iter>>

Blocks == {"entry", "header", "body", "exit"}
Code(b) == IF b \in DOMAIN prog.code THEN prog.code[b] ELSE <<>>

-----------------------------------------------------------------------------
(* States: the registers set so far, and the addresses with a value known.  *)

Bottom == [bottom |-> TRUE, regs |-> <<>>, mem |-> [a \in {} |-> all]]

get(s, r) == IF r <= Len(s.regs) THEN s.regs[r] ELSE all
getMem(s, a) == IF s.bottom THEN none ELSE IF a \in DOMAIN s.mem THEN s.mem[a] ELSE all

\* State::set on a register: those before it that are unknown become ALL.
setReg(s, r, v) ==
    IF s.bottom THEN s
    ELSE IF v = none THEN Bottom
    ELSE [s EXCEPT !.regs = [k \in 1..Max({r, Len(@)}) |-> IF k = r THEN v ELSE get(s, k)]]

Forget(s, A) == [s EXCEPT !.mem = [a \in DOMAIN @ \ A |-> @[a]]]

\* State::set on an address.
setMem(s, a, v) ==
    IF s.bottom THEN s
    ELSE IF v = none THEN Bottom
    ELSE IF v.kind = "ALL" THEN Forget(s, {a})
    ELSE [s EXCEPT !.mem = [x \in DOMAIN @ \cup {a} |-> IF x = a THEN v ELSE @[x]]]

\* The common part of join and widening: a register only one state has keeps
\* its value, an address must be in both.
Combine(s, t, op(_, _)) ==
    IF t.bottom THEN s
    ELSE IF s.bottom THEN t
    ELSE LET r == [k \in 1..Max({Len(s.regs), Len(t.regs)}) |->
                     IF k > Len(s.regs) THEN t.regs[k]
                     ELSE IF k > Len(t.regs) THEN s.regs[k]
                     ELSE op(s.regs[k], t.regs[k])]
             kept == {a \in DOMAIN s.mem \cap DOMAIN t.mem : op(s.mem[a], t.mem[a]).kind # "ALL"}
         IN  [bottom |-> FALSE, regs |-> r, mem |-> [a \in kept |-> op(s.mem[a], t.mem[a])]]

JoinState(s, t) == Combine(s, t, join)

\* Mutant of WidenState: the state of the back edge replaces the other one.
WidenStateBack(s, t) == IF t.bottom THEN s ELSE t

WidenState(s, t) ==
    IF prog.bound >= 0 THEN Combine(s, t, LAMBDA v, w : ffwidening(v, w, prog.bound))
                       ELSE Combine(s, t, widening)

\* State::equals: the values at the addresses are not compared, as each one is
\* compared with itself.
equals(s, t) ==
    /\ s.regs = t.regs
    /\ s.bottom = t.bottom
    /\ DOMAIN s.mem = DOMAIN t.mem

\* The values of a state cover the words.
Covers(s) ==
    /\ ~ s.bottom
    /\ \A r \in DOMAIN regs : regs[r] \in Concrete(get(s, r))
    /\ \A a \in DOMAIN mem : mem[a] \in Concrete(getMem(s, a))

-----------------------------------------------------------------------------
(* Semantic instructions, on values.                                       *)

\* LOAD: the join of what the addresses hold; what is unknown is read from the
\* segments that are not writable.
Load(s, v) ==
    LET addresses == [m \in 0..v.mtimes |-> unsigned(v.lower + v.delta * m)]
        from[m \in 0..v.mtimes] ==
            IF m = 0 THEN getMem(s, addresses[0])
            ELSE join(from[m - 1], getMem(s, addresses[m]))
        loaded == IF v = all \/ v.mtimes >= Many THEN all ELSE from[v.mtimes]
    IN  IF loaded = all /\ isConst(v) /\ unsigned(v.lower) \in DOMAIN Rom
        THEN Const(Rom[unsigned(v.lower)]) ELSE loaded

\* STORE: every address of the progression gets the value; an access to too
\* many addresses forgets the memory, or a symbol if it is not bounded.
Store(s, v, w) ==
    IF v = all THEN Forget(s, DOMAIN s.mem)
    ELSE IF v.mtimes >= Many THEN
        IF v.mtimes < UMAXn THEN Forget(s, DOMAIN s.mem)
                            ELSE Forget(s, SymbolOf[unsigned(v.lower)])
    ELSE LET after[m \in 0..v.mtimes] ==
               setMem(IF m = 0 THEN s ELSE after[m - 1], unsigned(v.lower + v.delta * m), w)
         IN  after[v.mtimes]

Apply(i, v, w) ==
    CASE i.op = "ADD" -> add(v, w) [] i.op = "SUB" -> sub(v, w)
      [] i.op = "SHL" -> shl(v, w) [] i.op = "SHR" -> shr(v, w)

\* ClpProblem::update(State *), for the instructions that change the state.
update(s, i) ==
    CASE i.op = "SETI" -> setReg(s, i.d, Const(i.a))
      [] i.op = "SET" -> setReg(s, i.d, get(s, i.a))
      [] i.op = "SCRATCH" -> setReg(s, i.d, all)
      [] i.op = "LOAD" -> setReg(s, i.d, Load(s, get(s, i.a)))
      [] i.op = "STORE" -> Store(s, get(s, i.a), get(s, i.d))
      [] i.op \in {"ADD", "SUB", "SHL", "SHR"} ->
           setReg(s, i.d, Apply(i, get(s, i.a), get(s, i.b)))

-----------------------------------------------------------------------------
(* The analysis.                                                           *)

Instr == Code(at)[pc]

\* One semantic instruction.  IF leaves the state to the path that skips.
Interpret ==
    /\ ~ running
    /\ pc <= Len(Code(at))
    /\ CASE Instr.op = "CONT" -> pc' = Len(Code(at)) + 1 /\ UNCHANGED <<cur, todo>>
         [] Instr.op = "IF" -> /\ todo' = Append(todo, [pc |-> pc + Instr.b + 1, state |-> cur])
                               /\ pc' = pc + 1
                               /\ UNCHANGED cur
         [] OTHER -> /\ cur' = update(cur, Instr)
                     /\ pc' = pc + 1
                     /\ UNCHANGED todo
    /\ UNCHANGED <<prog, at, onOut, out, stateIn, header, exitMark, running, words, iter>>

\* Mutant of PathOut: the state of another path replaces the first one.
PathLast == cur

\* The OUT state after the path.
PathOut == IF onOut THEN cur ELSE JoinState(out, cur)

PathEnded == ~ running /\ pc > Len(Code(at))

\* The next path of the block.
NextPath ==
    /\ PathEnded
    /\ todo # <<>>
    /\ out' = PathOut
    /\ onOut' = FALSE
    /\ pc' = Last(todo).pc
    /\ cur' = Last(todo).state
    /\ todo' = Front(todo)
    /\ UNCHANGED <<prog, at, stateIn, header, exitMark, running, words, iter>>

\* update(out, in, b) begins.
Enter(b, in) ==
    /\ at' = b
    /\ pc' = 1
    /\ todo' = <<>>
    /\ onOut' = TRUE
    /\ cur' = in
    /\ out' = cur'
    /\ stateIn' = [stateIn EXCEPT ![b] = cur']

\* updateEdge: the condition is applied to the register, with the values it has
\* at the end of the header.
updateEdge(s, taken) ==
    IF prog.cond = NoCond THEN s
    ELSE setReg(s, prog.cond.reg,
                applyFilter(get(s, prog.cond.reg),
                            IF taken THEN prog.cond.op ELSE logicalNot(prog.cond.op),
                            prog.cond.k))

\* The entry is interpreted: fixPoint() takes its OUT state as it is.
FromEntry ==
    /\ PathEnded /\ todo = <<>>
    /\ at = "entry"
    /\ header' = PathOut
    /\ Enter("header", header')
    /\ UNCHANGED <<prog, exitMark, running, words, iter>>

\* The header is interpreted: its edges are marked, the body follows.
FromHeader ==
    /\ PathEnded /\ todo = <<>>
    /\ at = "header"
    /\ exitMark' = PathOut
    /\ Enter("body", updateEdge(exitMark', TRUE))
    /\ UNCHANGED <<prog, header, running, words, iter>>

\* The body is interpreted: WideningFixPoint::fixPoint, then the header again
\* or, when the fixpoint is reached, the exit.
FromBody ==
    /\ PathEnded /\ todo = <<>>
    /\ at = "body"
    /\ header' = WidenState(header, PathOut)
    /\ IF equals(header', header) THEN Enter("exit", updateEdge(exitMark, FALSE))
                                  ELSE Enter("header", header')
    /\ UNCHANGED <<prog, exitMark, running, words, iter>>

-----------------------------------------------------------------------------
(* The execution.                                                          *)

Signed(op) == op \in {"ANY", "LT", "LE", "GE", "GT"}

\* A register as the condition of the loop sees it.
Seen(r) == IF Signed(prog.cond.op) THEN signed(regs[r]) ELSE regs[r]
WordRange == IF Signed(prog.cond.op) THEN MINn..MAXn ELSE 0..UMAXn

Holds(c) ==
    LET x == Seen(c.reg)
        k == IF Signed(c.op) THEN c.k ELSE unsigned(c.k)
    IN  CASE c.op \in {"LT", "ULT"} -> x < k
          [] c.op \in {"LE", "ULE"} -> x <= k
          [] c.op \in {"GE", "UGE"} -> x >= k
          [] c.op \in {"GT", "UGT"} -> x > k

\* The analysis is done: the program starts.
Run ==
    /\ PathEnded
    /\ at = "exit"
    /\ running' = TRUE
    /\ at' = "entry" /\ pc' = 1 /\ iter' = 0
    /\ UNCHANGED <<prog, analysis, words>>

SetWord(r, x) == regs' = [regs EXCEPT ![r] = unsigned(x)] /\ UNCHANGED mem

\* The analysis is made for programs whose arithmetic does not wrap.
DoesNotWrap(i) ==
    CASE i.op = "ADD" -> Seen(i.a) + Seen(i.b) \in WordRange
      [] i.op = "SUB" -> Seen(i.a) - Seen(i.b) \in WordRange
      [] i.op = "SHL" -> Seen(i.a) * 2^regs[i.b] \in WordRange
      [] OTHER -> TRUE

Word(a) == IF a \in DOMAIN mem THEN mem[a] ELSE 0

\* One semantic instruction on words; the condition of IF is left open, and
\* SHR is the shift of signed words.
Execute ==
    /\ running
    /\ pc <= Len(Code(at))
    /\ LET i == Instr
       IN  \/ /\ i.op \in {"CONT", "IF"}
              /\ pc' \in (IF i.op = "IF" THEN {pc + 1, pc + i.b + 1} ELSE {Len(Code(at)) + 1})
              /\ UNCHANGED words
           \/ /\ i.op \notin {"CONT", "IF"}
              /\ DoesNotWrap(i)
              /\ pc' = pc + 1
              /\ CASE i.op = "SETI" -> SetWord(i.d, i.a)
                   [] i.op = "SET" -> SetWord(i.d, regs[i.a])
                   [] i.op = "SCRATCH" -> \E x \in {0, UMAXn} : SetWord(i.d, x)
                   [] i.op = "ADD" -> SetWord(i.d, regs[i.a] + regs[i.b])
                   [] i.op = "SUB" -> SetWord(i.d, regs[i.a] - regs[i.b])
                   [] i.op = "SHL" -> SetWord(i.d, regs[i.a] * 2^regs[i.b])
                   [] i.op = "SHR" -> SetWord(i.d, signed(regs[i.a]) \div 2^regs[i.b])
                   [] i.op = "LOAD" -> SetWord(i.d, Word(regs[i.a]))
                   [] i.op = "STORE" ->
                        /\ mem' = [a \in DOMAIN mem |->
                                      IF a = regs[i.a] THEN regs[i.d] ELSE mem[a]]
                        /\ UNCHANGED regs
    /\ UNCHANGED <<prog, at, analysis, running, iter>>

\* The edges: the body as long as the condition and the bound allow it.
Go ==
    /\ running
    /\ pc > Len(Code(at))
    /\ \/ /\ at = "header"
          /\ prog.cond # NoCond => Holds(prog.cond)
          /\ prog.bound < 0 \/ iter < prog.bound
          /\ at' = "body"
          /\ iter' = IF prog.bound < 0 THEN 0 ELSE iter + 1
       \/ /\ at = "header"
          /\ prog.cond # NoCond => ~ Holds(prog.cond)
          /\ at' = "exit"
          /\ UNCHANGED iter
       \/ /\ at \in {"entry", "body"}
          /\ at' = "header"
          /\ UNCHANGED iter
    /\ pc' = 1
    /\ UNCHANGED <<prog, analysis, running, words>>

-----------------------------------------------------------------------------
Start(p) ==
    [bottom |-> FALSE, regs |-> [r \in DOMAIN p.init |-> Const(p.init[r])],
     mem |-> [a \in {} |-> all]]

Init ==
    /\ prog \in Programs
    /\ at = "entry" /\ pc = 1
    /\ todo = <<>> /\ onOut = TRUE
    /\ cur = Start(prog) /\ out = Start(prog) /\ header = Bottom
    /\ stateIn = [b \in Blocks |-> IF b = "entry" THEN Start(prog) ELSE Bottom]
    /\ exitMark = Bottom
    /\ running = FALSE
    /\ regs = [r \in DOMAIN prog.init |-> unsigned(prog.init[r])]
    /\ mem \in Ram
    /\ iter = 0

Analyse == Interpret \/ NextPath \/ FromEntry \/ FromHeader \/ FromBody \/ Run

Next == Analyse \/ Execute \/ Go

Spec == Init /\ [][Next]_vars /\ WF_vars(Analyse)

\* The state the analysis has put on a block covers whatever the registers and
\* the memory hold when the block is executed.
StatesCover == running /\ pc = 1 => Covers(stateIn[at])

\* The widening ends the analysis of every loop.
AnalysisEnds == <>running
=============================================================================
