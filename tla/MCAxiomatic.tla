----------------------------- MODULE MCAxiomatic -----------------------------
(***************************************************************************)
(* Litmus tests run through RunLitmus with a sequentially consistent       *)
(* memory model, and compared with the interleavings of their threads; and *)
(* samples for the parts below it: dependencies, compiled models, walks.   *)
(*                                                                         *)
(* The instruction set is a toy one.  An instruction is a list of steps on *)
(* temporaries, executed here the way the symbolic interpreter does, with  *)
(* memory symbolic, or with memory and registers concrete.  Data are one   *)
(* bit wide, addresses two; the locations are X and Y.                     *)
(***************************************************************************)
EXTENDS RunLitmus

CONSTANT Family   \* which tests: "main" or "zero"

X == 2
Y == 3
Regs == {"r1", "r2", "r3"}

-----------------------------------------------------------------------------
(* The instruction set *)

Ld(r, a) == <<<<"const", 1, 2, a>>, <<"load", 2, 1, "plain">>, <<"write", r, 2>>>>
St(a, n) == <<<<"const", 1, 2, a>>, <<"const", 2, 1, n>>, <<"store", 1, 2, "plain">>>>
StReg(r, a) == <<<<"const", 1, 2, a>>, <<"read", 2, r>>, <<"store", 1, 2, "plain">>>>
LdIndexed(r, i) == <<<<"read", 1, i>>, <<"index", 2, 1>>, <<"load", 3, 2, "plain">>, <<"write", r, 3>>>>
StIndexed(i, n) == <<<<"read", 1, i>>, <<"index", 2, 1>>, <<"const", 3, 1, n>>, <<"store", 2, 3, "plain">>>>
Mov(r, s) == <<<<"read", 1, s>>, <<"write", r, 1>>>>
Eor(r, s, t) == <<<<"read", 1, s>>, <<"read", 2, t>>, <<"xor", 3, 1, 2>>, <<"write", r, 3>>>>
Csel(r, c, s) == <<<<"read", 1, c>>, <<"read", 2, s>>, <<"const", 3, 1, 0>>,
                   <<"if", 1, <<<<"write", r, 2>>>>, <<<<"write", r, 3>>>>>>>>
Zero(r) == <<<<"ignore", r, r>>, <<"read", 1, r>>, <<"const", 2, 1, 0>>, <<"write", r, 2>>>>
Bnz(r) == <<<<"read", 1, r>>, <<"read", 2, "PC">>, <<"if", 1, <<<<"branch", 2>>, <<"write", "PC", 2>>>>, << >>>>>>
Swp(r, a) == <<<<"const", 1, 2, a>>, <<"const", 2, 1, 1>>, <<"load", 3, 1, "exclusive">>,
               <<"store", 1, 2, "exclusive">>, <<"write", r, 3>>>>

Code ==
  [ldx1 |-> Ld("r1", X), ldx2 |-> Ld("r2", X), ldy1 |-> Ld("r1", Y), ldy2 |-> Ld("r2", Y),
   stx |-> St(X, 1), sty |-> St(Y, 1), stx0 |-> St(X, 0), sty0 |-> St(Y, 0),
   str1y |-> StReg("r1", Y), str2y |-> StReg("r2", Y), ldi |-> LdIndexed("r3", "r2"), sti |-> StIndexed("r2", 1),
   mov21 |-> Mov("r2", "r1"), mov12 |-> Mov("r1", "r2"), eor |-> Eor("r2", "r2", "r1"), csel |-> Csel("r2", "r1", "r3"),
   zero1 |-> Zero("r1"), late |-> Mov("r3", "r3"), bnz2 |-> Bnz("r2"), bnz1 |-> Bnz("r1"), swpx |-> Swp("r1", X)]

(* An execution s logs its events when memory is symbolic; else it has a   *)
(* memory, the last writes to it and a reads-from relation, or an oracle   *)
(* for what the instruction at a place of the program loads, and then it   *)
(* notes the addresses and data seen.                                      *)
ExpOf(val) == IF val.k = "sym" THEN Var(val.v) ELSE bits64(val.bits[2], val.bits[1])
SetTemp(s, t, val) == [s EXCEPT !.temps = (t :> val) @@ @]
Log(s, ev) == [s EXCEPT !.events = Append(@, ev)]
SetResult(s, t, e, w) ==
  IF Variables(e) = {} THEN SetTemp(s, t, VBits(w, Denote(e, << >>)[2]))
  ELSE SetTemp(Log([s EXCEPT !.next = @ + 1], Define(<<s.next, w>>, e)), t, VSym(<<s.next, w>>))
AddressIn(s, t) == s.temps[t].bits[2]

Load(s, t, a, kind) ==
  CASE s.mode = "symbolic" ->
         SetTemp(Log(Log([s EXCEPT !.next = @ + 1], Declare(<<s.next, 1>>)),
                     ReadMem(VSym(<<s.next, 1>>), s.temps[a], 1, kind, "constrained")),
                 t, VSym(<<s.next, 1>>))
    [] s.mode = "memory" ->
         SetTemp([s EXCEPT !.rf = @ \cup {<<s.last[AddressIn(s, a)], <<s.tid, s.po, "readmem">>>>}],
                 t, VBits(1, s.mem[AddressIn(s, a)]))
    [] s.mode = "oracle" -> SetTemp([s EXCEPT !.seen = @ \cup {<<s.po, "addr", AddressIn(s, a)>>}], t, VBits(1, s.oracle[s.pc]))

Store(s, a, d, kind) ==
  CASE s.mode = "symbolic" -> Log(s, WriteMem(s.temps[a], s.temps[d], 1, kind, "constrained"))
    [] s.mode = "memory" -> [s EXCEPT !.mem[AddressIn(s, a)] = s.temps[d].bits[2],
                                      !.last[AddressIn(s, a)] = <<s.tid, s.po, "writemem">>]
    [] s.mode = "oracle" -> [s EXCEPT !.seen = @ \cup {<<s.po, "addr", AddressIn(s, a)>>, <<s.po, "data", s.temps[d].bits[2]>>}]

StepOp(op, s) ==
  CASE op[1] = "const" -> SetTemp(s, op[2], VBits(op[3], op[4]))
    [] op[1] = "read" -> SetTemp(Log(s, ReadReg(op[3], << >>, s.regs[op[3]])), op[2], s.regs[op[3]])
    [] op[1] = "xor" -> SetResult(s, op[2], Bin("bvxor", ExpOf(s.temps[op[3]]), ExpOf(s.temps[op[4]])), 1)
    [] op[1] = "index" -> SetResult(s, op[2], Bin("concat", bits64(1, 1), ExpOf(s.temps[op[3]])), 2)
    [] op[1] = "load" -> Load(s, op[2], op[3], op[4])
    [] op[1] = "store" -> Store(s, op[2], op[3], op[4])
    [] op[1] = "write" -> Log([s EXCEPT !.regs[op[2]] = s.temps[op[3]]], WriteReg(op[2], << >>, s.temps[op[3]]))
    [] op[1] = "branch" -> Log([s EXCEPT !.skip = 1], Branch(s.temps[op[2]]))
    [] op[1] = "ignore" -> Log(s, MarkReg(<<op[2], op[3]>>, "ignore_edge"))

RECURSIVE ExecOps(_, _)
ExecOps(ops, s) ==
  IF ops = << >> THEN {s}
  ELSE LET op == ops[1]
       IN IF op[1] # "if" THEN UNION {ExecOps(Tail(ops), after) : after \in {StepOp(op, s)}}
          ELSE LET c == s.temps[op[2]]
                   then(b) == (IF b = 1 THEN op[3] ELSE op[4]) \o Tail(ops)
                   test_of(b) == IF b = 1 THEN Var(<<s.next, BoolSort>>) ELSE Un("not", Var(<<s.next, BoolSort>>))
                   forked(b) == [s EXCEPT !.next = @ + 1,
                                          !.events = @ \o <<Define(<<s.next, BoolSort>>, Bin("eq", ExpOf(c), bits64(1, 1))),
                                                            Fork(<<s.next, BoolSort>>, b), Constrain(test_of(b))>>]
               IN IF c.k = "bits" THEN ExecOps(then(c.bits[2]), s)
                  ELSE UNION {ExecOps(then(b), forked(b)) : b \in {0, 1}}

Fetched(s, op) == [s EXCEPT !.temps = << >>, !.skip = 0, !.po = @ + 1, !.pcs = Append(@, s.pc),
                            !.events = @ \o <<Cycle, ReadMem(VBits(1, 0), VBits(2, 0), 1, "ifetch", "concrete"), Instr(op)>>]

RECURSIVE ExecProgram(_, _)
ExecProgram(prog, s) ==
  IF s.pc > Len(prog) THEN {s}
  ELSE UNION {ExecProgram(prog, [r EXCEPT !.pc = @ + 1 + r.skip]) : r \in ExecOps(Code[prog[s.pc]], Fetched(s, prog[s.pc]))}

InitialPlace == <<0, 0, "initial">>
StartState(mode) ==
  [mode |-> mode, regs |-> [r \in Regs |-> VBits(1, 0)] @@ ("PC" :> VBits(2, 0)), temps |-> << >>, next |-> 0,
   events |-> << >>, skip |-> 0, pc |-> 1, po |-> 0, pcs |-> << >>, tid |-> 0,
   mem |-> X :> 0 @@ Y :> 0, last |-> X :> InitialPlace @@ Y :> InitialPlace, rf |-> {}, oracle |-> << >>, seen |-> {}]

(* A path cannot be taken when its assertions contradict each other. *)
Feasible(s) == Assignments(<<s.events>>) # {}
ThreadResults(prog, task) ==
  {[task |-> task, kind |-> "ok", events |-> Reverse(s.events)] :
     s \in {r \in ExecProgram(prog, StartState("symbolic")) : Feasible(r)}}

(* The footprint of an opcode: every register symbolic, and no fetch. *)
SymbolicRegs == [r1 |-> VSym(<<101, 1>>), r2 |-> VSym(<<102, 1>>), r3 |-> VSym(<<103, 1>>), PC |-> VSym(<<104, 2>>)]
TracesOf(op) ==
  LET ends == ExecOps(Code[op], [StartState("symbolic") EXCEPT !.regs = SymbolicRegs, !.events = <<Cycle>>])
  IN SetToSeq({Reverse(s.events) : s \in ends})
MCFootprintTraces == [op \in DOMAIN Code \ {"late"} |-> TracesOf(op)]

-----------------------------------------------------------------------------
(* The interleavings: one instruction of some thread at a time *)

ScStart ==
  [mem |-> X :> 0 @@ Y :> 0, last |-> X :> InitialPlace @@ Y :> InitialPlace, rf |-> {},
   threads |-> <<StartState("memory"), StartState("memory")>>]

ScStep(progs, m, t) ==
  LET th == m.threads[t]
      s == Fetched([th EXCEPT !.mem = m.mem, !.last = m.last, !.rf = m.rf, !.tid = t], progs[t][th.pc])
      r == CHOOSE e \in ExecOps(Code[progs[t][th.pc]], s) : TRUE
  IN [mem |-> r.mem, last |-> r.last, rf |-> r.rf,
      threads |-> [m.threads EXCEPT ![t] = [th EXCEPT !.regs = r.regs, !.po = r.po, !.pc = @ + 1 + r.skip]]]

RECURSIVE ScRuns(_, _)
ScRuns(progs, m) ==
  LET ready == {t \in DOMAIN progs : m.threads[t].pc <= Len(progs[t])}
  IN IF ready = {} THEN {[mem |-> m.mem, rf |-> m.rf, regs |-> [t \in DOMAIN progs |-> m.threads[t].regs]]}
     ELSE UNION {ScRuns(progs, n) : n \in {ScStep(progs, m, t) : t \in ready}}

RECURSIVE Satisfies(_, _)
Satisfies(run, e) ==
  CASE e.k = "reg" -> run.regs[e.tid][e.reg].bits = e.v
    [] e.k = "last" -> run.mem[e.a[2]] = e.v[2]
    [] e.k = "and" -> \A i \in DOMAIN e.exps : Satisfies(run, e.exps[i])
    [] e.k = "or" -> \E i \in DOMAIN e.exps : Satisfies(run, e.exps[i])
    [] e.k = "not" -> ~Satisfies(run, e.e)

(* The executions that satisfy the assertion of a test. *)
Witnesses(t) == {run \in ScRuns(t.programs, ScStart) : Satisfies(run, t.assertion)}

-----------------------------------------------------------------------------
(* The memory model, on isla-mml/lib/cos.cat *)

Rel(f) == Id(f)
ScModel ==
  compile_memory_model(
    <<Let("invrf", Op1("inverse", Rel("rf"))),
      Let("coi", Op2("inter", Rel("co"), Rel("int"))),
      Let("coe", Op2("diff", Rel("co"), Rel("coi"))),
      Let("fr", Op2("inter", Op2("diff", Op2("seq", Rel("invrf"), Rel("co")), Rel("id")), Rel("loc"))),
      Let("fri", Op2("inter", Rel("fr"), Rel("int"))),
      Let("fre", Op2("diff", Rel("fr"), Rel("fri"))),
      Check("acyclic", Op2("union", Rel("po"), Op2("union", Rel("iio"), Op2("union", Rel("rf"), Op2("union", Rel("co"), Rel("fr")))))),
      Check("empty", Op2("inter", Rel("rmw"), Op2("seq", Rel("fre"), Rel("coe"))))>>,
    {"variant"}, {}).out

-----------------------------------------------------------------------------
(* The tests *)

Is(t, r, n) == EqReg(r, t, <<1, n>>)
LastIs(a, n) == EqLast(Addr(a), 1, Addr(n))
Both(a, b) == Conj(<<a, b>>)

(* Programs and assertions. *)
Cases ==
  {[progs |-> <<<<"stx", "ldy1">>, <<"sty", "ldx1">>>>, assertion |-> a] :
     a \in {Both(Is(1, "r1", 0), Is(2, "r1", 0)), Neg(Both(Is(1, "r1", 1), Is(2, "r1", 0)))}}
  \cup {[progs |-> <<<<"stx", "sty">>, <<"ldy1", "ldx2">>>>, assertion |-> a] :
     a \in {Both(Is(2, "r1", 1), Is(2, "r2", 0)), Both(Is(2, "r1", 0), Is(2, "r2", 1))}}
  \cup {[progs |-> <<<<"ldx1", "str1y">>, <<"ldy1", "stx">>>>, assertion |-> a] :
     a \in {Both(Is(1, "r1", 1), Is(2, "r1", 1)), Disj(<<Is(1, "r1", 1), LastIs(Y, 1)>>)}}
  \cup {[progs |-> <<<<"ldy2", "stx">>, <<"ldx1", "bnz1", "sty">>>>, assertion |-> a] :
     a \in {Both(Is(2, "r1", 1), Is(1, "r2", 1)), Is(2, "r1", 1)}}
  \cup {[progs |-> <<<<"stx", "sty0">>, <<"sty", "stx0">>>>, assertion |-> a] :
     a \in {Both(LastIs(X, 1), LastIs(Y, 1)), LastIs(X, 1)}}
  \cup {[progs |-> <<<<"swpx">>, <<"swpx">>>>, assertion |-> Both(Is(1, "r1", 0), Is(2, "r1", 0))],
         [progs |-> <<<<"stx">>, <<"ldy1">>>>, assertion |-> Both(LastIs(X, 1), LastIs(Y, 0))],
         [progs |-> <<<<"stx">>, <<"ldx1", "ldx2">>>>, assertion |-> Both(Is(2, "r1", 1), Is(2, "r2", 0))],
         [progs |-> <<<<"ldx2", "ldi">>, <<"sty", "stx">>>>, assertion |-> Both(Is(1, "r2", 1), Is(1, "r3", 0))]}

(* What the threads left besides: a path at the PC limit, an error, one    *)
(* with two instructions in a cycle.                                       *)
Left(task, kind) == [task |-> task, kind |-> kind, events |-> << >>]
TwoInstrs == [task |-> 1, kind |-> "ok", events |-> <<Instr("stx"), Instr("stx"), Cycle>>]

PlainOptions == {[exhaustive |-> e, pc_limit_mode |-> "discard", ignore_ifetch |-> TRUE, page_tables |-> FALSE,
                  remove |-> "no", merge |-> "no", limits |-> FALSE, herd7 |-> FALSE] : e \in BOOLEAN}
NoRef == [word |-> "Error", line |-> "Ok"]

TestOf(c, opts, ref, extra) ==
  [programs |-> c.progs, assertion |-> c.assertion, opts |-> opts, ref |-> ref, num_threads |-> Len(c.progs),
   executed |-> UNION {ThreadResults(c.progs[t], t) : t \in {u \in DOMAIN c.progs : c.progs[u] # << >>}} \cup extra,
   initial |-> << >>, custom |-> << >>, objdump |-> << >>, encoding |-> << >>, maybe_mapped |-> {}, cache |-> << >>,
   model |-> ScModel]

Swaps == [progs |-> <<<<"swpx">>, <<"swpx">>>>, assertion |-> Is(1, "r1", 1)]
Late == [progs |-> <<<<"late">>, <<"stx">>>>, assertion |-> LastIs(X, 1)]
Lost == [progs |-> <<<<"stx">>, << >>>>, assertion |-> LastIs(X, 1)]
MainTests ==
  {<<c, opts, NoRef, {}>> : c \in Cases, opts \in PlainOptions}
  \cup {<<Swaps, [opts EXCEPT !.pc_limit_mode = m, !.limits = (m = "discard"), !.herd7 = (m = "discard")],
          [word |-> "Allowed", line |-> "Ok"], {Left(1, k)}>> :
          opts \in PlainOptions, m \in {"discard", "error"}, k \in {"pc_limit", "error"}}
  \cup {<<Late, opts, [word |-> "Required", line |-> "No"], {}>> : opts \in PlainOptions}
  \cup {<<Lost, opts, NoRef, {Left(2, "pc_limit")}>> : opts \in PlainOptions}
  \cup {<<Swaps, opts, NoRef, {TwoInstrs}>> : opts \in PlainOptions}
ZeroTests ==
  {<<[progs |-> <<<<"stx">>, <<"ldx1">>>>, assertion |-> LastIs(X, n)], opts, NoRef, {}>> :
     opts \in PlainOptions, n \in {0, 1}}
Tests == {TestOf(x[1], x[2], x[3], x[4]) : x \in IF Family = "main" THEN MainTests ELSE ZeroTests}

-----------------------------------------------------------------------------
(* Programs for the dependencies *)

Firsts == {"ldx1", "ldx2", "swpx"}
Middles == {"mov21", "mov12", "eor", "csel", "zero1", "bnz1", "bnz2", "ldy2", "ldi", "stx"}
Lasts == {"str1y", "str2y", "ldi", "sti"}
DependencySamples == {[kind |-> "program", ops |-> <<a, b>>] : a \in Firsts, b \in Middles}

AllFootprints == footprint_analysis(DOMAIN FootprintTraces, FootprintTraces, << >>)
OracleRun(prog, regs, oracle) ==
  CHOOSE s \in ExecProgram(prog, [StartState("oracle") EXCEPT !.regs = regs, !.oracle = oracle]) : TRUE
OracleRegs == {[r1 |-> VBits(1, 0), r2 |-> VBits(1, n), r3 |-> VBits(1, 1), PC |-> VBits(2, 0)] : n \in {0, 1}}

SeenAt(run, j, what) == {e \in run.seen : e[1] = j /\ e[2] = what}
Accesses(run) == {e[1] : e \in run.seen}
OpsOf(prog, run) == [j \in DOMAIN run.pcs |-> prog[run.pcs[j]]]

(* Two runs that differ in what the first instruction loads have the       *)
(* dependencies that their difference shows.                               *)
RunsExplained(prog, x, y, fps) ==
  LET common == {j \in DOMAIN x.pcs \cap DOMAIN y.pcs : SubSeq(x.pcs, 1, j) = SubSeq(y.pcs, 1, j)}
      Differ(j, what) == SeenAt(x, j, what) # SeenAt(y, j, what)
      after(run) == {j \in Accesses(run) : j \notin common}
  IN /\ \A j \in common : Differ(j, "addr") => addr_dep(1, j, OpsOf(prog, x), fps)
     /\ \A j \in common : Differ(j, "data") => data_dep(1, j, OpsOf(prog, x), fps)
     /\ \A run \in {x, y} : \A j \in after(run) : ctrl_dep(1, j, OpsOf(prog, run), fps)

Oracle(prog, first, rest) == [j \in DOMAIN prog |-> IF j = 1 THEN first ELSE rest]
ProgramExplained(prog, fps) ==
  \A regs \in OracleRegs, rest \in {0, 1} :
    \E runs \in {[first \in {0, 1} |-> OracleRun(prog, regs, Oracle(prog, first, rest))]} :
      RunsExplained(prog, runs[0], runs[1], fps)

-----------------------------------------------------------------------------
(* Expressions of the memory model language and what they mean *)

Base == {Id("r"), Id("s"), Op1("identity", Id("A")), Op2("cartesian", Id("A"), Absent)}
Simple == Base \cup {Op1(op, Id("r")) : op \in {"inverse", "compl", "idunion", "tclosure", "rtclosure"}}
               \cup {Op1("identity", Op1("domain", Id("r"))), Op1("identity", Op1("range", Id("r"))),
                     RelationOf("x", "y", Quantified("exists", <<"z">>,
                       Op2("inter", AppTo("r", <<Id("x"), Id("z")>>), Op2("in", Tuple(<<Id("y"), Id("z")>>), Id("s"))))),
                     SetLiteral(<<Tuple(<<Id("a"), Id("b")>>)>>), IfThen("on", Id("r"), Id("s"))}
Expressions == Simple \cup {Op2(op, a, b) : op \in {"union", "inter", "diff", "seq"}, a \in Simple,
                                           b \in {Id("s"), Op1("tclosure", Id("r")), Op1("compl", Id("s"))}}
ExpressionSamples == {[kind |-> "expression", x |-> x] : x \in Expressions}

Ends == {1, 2}
Meanings == {[r |-> r, s |-> s, A |-> {1}] : r \in SUBSET (Ends \X Ends), s \in {{<<1, 2>>, <<2, 2>>}, {<<2, 1>>}}}
Compose(p, q) == {<<a, c>> \in Ends \X Ends : \E b \in Ends : <<a, b>> \in p /\ <<b, c>> \in q}
Diagonal(S) == {<<e, e>> : e \in S}
Closed(p) == p \cup Compose(p, p)     \* of two events

RECURSIVE Meaning(_, _)
Meaning(x, v) ==
  CASE x.x = "id" -> v[x.f]
    [] x.x = "identity" -> Diagonal(Meaning(x.a, v))
    [] x.x = "cartesian" -> Meaning(x.a, v) \X Ends
    [] x.x = "inverse" -> {<<p[2], p[1]>> : p \in Meaning(x.a, v)}
    [] x.x = "compl" -> (Ends \X Ends) \ Meaning(x.a, v)
    [] x.x = "idunion" -> Meaning(x.a, v) \cup Diagonal(Ends)
    [] x.x = "tclosure" -> Closed(Meaning(x.a, v))
    [] x.x = "rtclosure" -> Closed(Meaning(x.a, v)) \cup Diagonal(Ends)
    [] x.x = "domain" -> {p[1] : p \in Meaning(x.a, v)}
    [] x.x = "range" -> {p[2] : p \in Meaning(x.a, v)}
    [] x.x = "relation" -> Compose(v.r, {<<p[2], p[1]>> : p \in v.s})
    [] x.x = "literal" -> {<<1, 2>>}
    [] x.x = "if" -> v.r
    [] x.x = "union" -> Meaning(x.a, v) \cup Meaning(x.b, v)
    [] x.x = "inter" -> Meaning(x.a, v) \cap Meaning(x.b, v)
    [] x.x = "diff" -> Meaning(x.a, v) \ Meaning(x.b, v)
    [] x.x = "seq" -> Compose(Meaning(x.a, v), Meaning(x.b, v))

Holds(check, p) ==
  CASE check = "empty" -> p = {}
    [] check = "nonempty" -> p # {}
    [] check = "irreflexive" -> \A e \in Ends : <<e, e>> \notin p
    [] check = "nonirreflexive" -> \E e \in Ends : <<e, e>> \in p
    [] check = "acyclic" -> \A S \in SUBSET Ends \ {{}} : \E e \in S : \A f \in S : <<e, f>> \notin p
    [] check = "nonacyclic" -> \E S \in SUBSET Ends \ {{}} : \A e \in S : \E f \in S : <<e, f>> \in p

(* Closures in an expression, and those under a complement. *)
RECURSIVE HasClosure(_)
Parts(x) == IF x.x \in {"relation", "if"} THEN {} ELSE {x[f] : f \in DOMAIN x \cap {"a", "b"}}
HasClosure(x) == x.x \in {"tclosure", "rtclosure"} \/ \E y \in Parts(x) : HasClosure(y)
UnderComplement(x) == (x.x = "compl" /\ HasClosure(x.a)) \/ (x.x = "diff" /\ HasClosure(x.b))
Exact(check, x) ==
  CASE check \in {"empty", "irreflexive", "acyclic"} -> ~UnderComplement(x)
    [] check \in {"nonempty", "nonirreflexive"} -> ~HasClosure(x)
    [] check = "nonacyclic" -> FALSE

Named(v) ==
  [events |-> Ends, env |-> << >>,
   val |-> Atom("r") :> v.r @@ Atom("s") :> v.s @@ Atom("A") :> {<<e>> : e \in v.A}
           @@ Atom("a") :> 1 @@ Atom("b") :> 2]
Compiled(check, x) == compile_memory_model(<<Check(check, x)>>, {"on", "off"}, {"on"})

-----------------------------------------------------------------------------
(* Table walks: three instructions, each with a walk of four levels; the   *)
(* first and the last walk the same page, and the second may write an      *)
(* entry of it.                                                            *)

FunctionEvent(name, call) == [ev |-> "function", vals |-> << >>, name |-> name, call |-> call]
EntryAddress(level, index) == VBits(8, 16 * level + 8 * index)
WalkOf(page) ==
  <<Cycle, Instr("ldx1"), FunctionEvent("translate", TRUE)>>
  \o [l \in 1 .. 4 |-> ReadMem(VBits(8, 1), EntryAddress(l, page[l]), 8, "plain", "stage 1")]
  \o <<FunctionEvent("translate", FALSE)>>
WalkSamples ==
  {[kind |-> "walks", page |-> page, zeros |-> zeros, written |-> written] :
     page \in [1 .. 4 -> {0, 1}], zeros \in SUBSET {2, 4}, written \in {0, 3}}

FirstPage == [l \in 1 .. 4 |-> 0]
WalkExec(s) ==
  LET write == IF s.written = 0 THEN << >>
               ELSE <<WriteMem(EntryAddress(s.written, 0), VBits(8, 0), 8, "plain", "stage 1")>>
  IN ExecutionInfoFrom(<<WalkOf(FirstPage) \o WalkOf(s.page) \o write \o WalkOf(FirstPage)>>,
       [translation_function |-> "translate", read_registers |-> {}, write_registers |-> {},
        in_program_order |-> {}, ignore_ifetch |-> TRUE])
Entries(s) ==
  [a \in {EntryAddress(l, i) : l \in 1 .. 4, i \in {0, 1}} |->
     VBits(8, IF \E l \in s.zeros : a = EntryAddress(l, 0) THEN 0 ELSE 1)]
PagesWalked(s) == <<FirstPage, s.page, FirstPage>>
PagesOf(exec) == [id \in 1 .. 3 |-> va_page(Walks(exec), id)]

-----------------------------------------------------------------------------
NoTest == [executed |-> {}, num_threads |-> 0]
Samples == DependencySamples \cup ExpressionSamples \cup WalkSamples

(* A sample is a state of its own, in the place of a test that never runs. *)
Init ==
  \/ \E t \in Tests : RunInit(t)
  \/ Family = "main" /\ \E s \in Samples : Setup(s @@ NoTest, "sample")

Spec == Init /\ [][Next]_vars

SampleOf(kind) == phase = "sample" /\ test.kind = kind

Answered == phase = "end" /\ outcome.error = "" /\ "error" \notin Kinds(results) /\ discarded = 0

(* A litmus test is allowed exactly when some interleaving of its threads  *)
(* satisfies its final assertion, under a sequentially consistent model:   *)
(* symbolic execution of the threads, candidates, coherence, reads-from,   *)
(* the compiled model and the report all agree with running the program.   *)
VerdictIsSc ==
  Answered => outcome.report.verdict = (IF Witnesses(test) # {} THEN "allowed" ELSE "forbidden")

(* A test whose verdict is allowed has an execution that ends in a state   *)
(* its final assertion describes.                                          *)
AllowedIsReachable == Answered /\ outcome.report.verdict = "allowed" => Witnesses(test) # {}

(* With --exhaustive the callback is given the reads-from relation of      *)
(* every execution that satisfies the assertion, each once; without it     *)
(* every candidate has one result.                                         *)
EveryExecutionReported ==
  Answered =>
    IF test.opts.exhaustive
    THEN \A expected \in {{run.rf : run \in Witnesses(test)}} :
           LET allowed == SelectSeq(results, LAMBDA r : r.kind = "allowed")
           IN {allowed[i].rf : i \in DOMAIN allowed} = expected /\ Len(allowed) = Cardinality(expected)
    ELSE /\ {results[i].i : i \in DOMAIN results} = 1 .. TotalCandidates(threads)
         /\ Len(results) = TotalCandidates(threads)

(* The footprints explain what can be observed: when another value for a   *)
(* load changes the address or the data of a later access, or whether it   *)
(* happens, then addr_dep, data_dep or ctrl_dep holds between the two.     *)
DependenciesFound ==
  SampleOf("program") =>
    \A fps \in {AllFootprints}, c \in Middles, d \in Lasts : ProgramExplained(test.ops \o <<c, d>>, fps)

(* A check compiled to SMT is satisfiable whenever the relation passes it, *)
(* and only then, except where a closure counts for the check: there the   *)
(* solver may choose a larger one.                                         *)
CompiledMeaning ==
  SampleOf("expression") =>
    \A check \in {"empty", "nonempty", "irreflexive", "nonirreflexive", "acyclic", "nonacyclic"} :
      \E c \in {Compiled(check, test.x)} :
        /\ c.err = ""
        /\ \A v \in Meanings :
             \E passes \in {Holds(check, Meaning(test.x, v))}, sat \in {Satisfiable(c.out, Named(v), FALSE)} :
               (passes => sat) /\ (sat /\ Exact(check, test.x) => passes)

(* Leaving out uninteresting walks, or merging the events of a walk, does  *)
(* not change which walks are of the same virtual page.                    *)
PagesSurvive ==
  SampleOf("walks") =>
    \E exec \in {WalkExec(test)} :
      \E removed \in {[entire \in BOOLEAN |-> remove_uninteresting_translates(exec, {}, Entries(test), entire)]} :
        \A e \in {exec, removed[TRUE], removed[FALSE]}
                   \cup {merge_translations(f, FALSE) : f \in {exec, removed[TRUE]}} :
          PagesOf(e) = PagesWalked(test)
=============================================================================
