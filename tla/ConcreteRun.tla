----------------------------- MODULE ConcreteRun ----------------------------
(***************************************************************************)
(* What a program of RunLoop does on one input, as a reference: an         *)
(* interpreter on concrete bits, which takes the next bit of the input w   *)
(* where the program uses a value that nobody has given it.  The paths of  *)
(* run_loop are compared with it, input by input.                          *)
(*                                                                         *)
(* A configuration c is [code, pc, vars, regs, lets, stack, k, counts, run,*)
(* v]: k bits of the input are used, counts is the number of announcements *)
(* per architectural pc, and the run has ended with `run` and v unless run *)
(* is "go".                                                                *)
(***************************************************************************)
EXTENDS RunLoop

CONSTANT Steps   \* the numbers of steps after which a run is looked at

Start ==
  [code |-> "main", pc |-> 1, vars |-> [x \in {"return", "a"} |-> Uninit],
   regs |-> [R |-> Uninit, PC |-> Bit(0)], lets |-> [L |-> Uninit], stack |-> <<>>,
   k |-> 0, counts |-> [b \in Bits |-> 0], run |-> "go", v |-> Unit]

Ends(c, run, v) == [c EXCEPT !.run = run, !.v = v]

GoTo(c, n) == [c EXCEPT !.pc = n]

Skip(c) == GoTo(c, c.pc + 1)

-----------------------------------------------------------------------------
(* Evaluating.  A result is [c |-> configuration, v |-> value].            *)

Got(c, v) == [c |-> c, v |-> v]

\* An error ends the run, otherwise it goes on with d.
Then(e, d) == IF e.c.run # "go" THEN e.c ELSE d

Input(c, w) == Bit(IF c.k < MaxConsts /\ (w \div 2^c.k) % 2 = 1 THEN 1 ELSE 0)

Fresh(c, w) == Got([c EXCEPT !.k = @ + 1], Input(c, w))

\* The value of a place, which gets one when it has none.
ReadFrom(c, w, part, id) ==
  IF c[part][id] # Uninit THEN Got(c, c[part][id])
  ELSE Got([c EXCEPT !.k = @ + 1, ![part][id] = Input(c, w)], Input(c, w))

Read(c, w, id) ==
  CASE id \in DOMAIN c.vars -> ReadFrom(c, w, "vars", id)
    [] id \in DOMAIN c.regs \ DOMAIN c.vars -> ReadFrom(c, w, "regs", id)
    [] id \in DOMAIN c.lets \ (DOMAIN c.vars \cup DOMAIN c.regs) -> ReadFrom(c, w, "lets", id)
    [] OTHER -> Got(Ends(c, "VariableNotFound", Unit), Unit)

Atom(c, w, e) ==
  CASE e.e = "id" -> Read(c, w, e.id)
    [] e.e = "val" -> Got(c, e.v)
    [] e.e = "undefined" -> Fresh(c, w)

Operate(op, v1, y) ==
  IF y.c.run # "go" THEN y
  ELSE IF v1.k # "bits" \/ y.v.k # "bits" THEN Got(Ends(y.c, "Type", Unit), Unit)
  ELSE Got(y.c, Bit(Compute(op, v1.n, y.v.n)))

Eval(c, w, e) ==
  IF e.e # "op" THEN Atom(c, w, e)
  ELSE LET x == Atom(c, w, e.x) IN
       IF x.c.run # "go" THEN x ELSE Operate(e.op, x.v, Atom(x.c, w, e.y))

BindVar(c, id, v) == [c EXCEPT !.vars = Bind(@, id, v)]

Write(c, id, v) ==
  CASE id \in DOMAIN c.vars -> [c EXCEPT !.vars[id] = v]
    [] id \in DOMAIN c.lets \ DOMAIN c.vars -> [c EXCEPT !.lets[id] = v]
    [] OTHER -> [c EXCEPT !.regs[id] = v]

-----------------------------------------------------------------------------
(* Steps.                                                                  *)

EnterAt(c, fn, loc, arg) ==
  [c EXCEPT !.stack = Append(@, [code |-> c.code, pc |-> c.pc, vars |-> c.vars, loc |-> loc]),
            !.code = fn, !.pc = 1,
            !.vars = [x \in {"return", "a"} |-> IF x = "a" THEN arg ELSE Uninit]]

\* The caller, as it was when it called.
Resumed(c, top) ==
  [c EXCEPT !.code = top.code, !.pc = top.pc + 1, !.vars = top.vars,
            !.stack = SubSeq(@, 1, Len(@) - 1)]

ReturnTo(c, v) ==
  IF c.stack = <<>> THEN Ends(c, "Finished", v)
  ELSE LET top == c.stack[Len(c.stack)] IN Write(Resumed(c, top), top.loc, v)

Active(c) == {c.code} \cup {c.stack[n].code : n \in DOMAIN c.stack}

Stopped(c, fn) ==
  IF fn \notin DOMAIN Stops THEN "None"
  ELSE LET ctx   == Stops[fn].ctx
           found == DOMAIN ctx \cap Active(c)
       IN  IF found # {} THEN ctx[CHOOSE n \in found : TRUE] ELSE Stops[fn].direct

FunctionStep(c, ins, arg) ==
  CASE Stopped(c, ins.fn) = "Kill" -> Ends(c, "Stopped", Unit)
    [] Stopped(c, ins.fn) = "Abstract" -> Ends(c, "Finished", Poison)
    [] Stopped(c, ins.fn) = "None" -> EnterAt(c, ins.fn, ins.loc, arg)

AnnounceStep(c, ins, v) ==
  LET b == c.regs["PC"].n IN
  CASE c.counts[b] >= PcLimit -> Ends(c, "PCLimitReached", Unit)
    [] c.counts[b] < PcLimit /\ v = Bit(0) -> Ends(c, "Exit", Unit)
    [] OTHER -> Skip(Write([c EXCEPT !.counts[b] = @ + 1], ins.loc, Unit))

\* The value of e is assigned and the run goes on.
Assigned(e, loc) == Skip(Write(e.c, loc, e.v))

CallStep(p, c, w, ins) ==
  LET e == Eval(c, w, ins.arg) IN
  CASE ins.fn \in DOMAIN p -> Then(e, FunctionStep(e.c, ins, e.v))
    [] ins.fn = "reg_deref" /\ ins.fn \notin DOMAIN p -> Assigned(ReadFrom(c, w, "regs", "R"), ins.loc)
    [] ins.fn = "abstract_call" /\ ins.fn \notin DOMAIN p -> Then(e, Assigned(Fresh(e.c, w), ins.loc))
    [] ins.fn = "instr_announce" /\ ins.fn \notin DOMAIN p -> Then(e, AnnounceStep(e.c, ins, e.v))
    [] OTHER -> Ends(c, "NoFunction", Unit)

\* A false assumption leaves the run without meaning.
PrimopStep(e, ins) ==
  CASE e.v.k # "bits" -> Ends(e.c, "Type", Unit)
    [] e.v.k = "bits" /\ e.v.n = 1 -> Assigned(Got(e.c, Unit), ins.loc)
    [] OTHER -> Ends(e.c, IF ins.op = "assume" THEN "Excluded" ELSE "AssertionFailure", Unit)

JumpStep(e, target) ==
  IF e.v.k # "bits" THEN Ends(e.c, "Type", Unit)
  ELSE IF e.v.n = 1 THEN GoTo(e.c, target) ELSE Skip(e.c)

EndStep(c, w) ==
  IF c.vars["return"] # Uninit THEN ReturnTo(c, c.vars["return"])
  ELSE ReturnTo(Fresh(c, w).c, Fresh(c, w).v)

InstrStep(p, c, w, ins) ==
  LET e == Eval(c, w, ins.exp) IN
  CASE ins.i = "Decl" -> Skip(BindVar(c, ins.id, Uninit))
    [] ins.i = "Init" -> Then(e, Skip(BindVar(e.c, ins.id, e.v)))
    [] ins.i = "Goto" -> GoTo(c, ins.target)
    [] ins.i = "Copy" -> Then(e, Assigned(e, ins.loc))
    [] ins.i = "Jump" -> Then(e, JumpStep(e, ins.target))
    [] ins.i = "Primop" -> Then(e, PrimopStep(e, ins))
    [] ins.i = "Call" -> CallStep(p, c, w, ins)
    [] ins.i = "Monomorphize" -> Then(Read(c, w, ins.id), Skip(Read(c, w, ins.id).c))
    [] ins.i = "Arbitrary" -> ReturnTo(c, Poison)
    [] ins.i = "Exit" -> Ends(c, ins.cause, Unit)
    [] ins.i = "End" -> EndStep(c, w)

\* A step of the run of p on w; a run that has ended stays so.
ConcreteStep(p, c, w) ==
  CASE c.run # "go" -> c
    [] c.run = "go" /\ c.pc > Len(p[c.code]) -> Ends(c, "Finished", Unit)
    [] OTHER -> InstrStep(p, c, w, p[c.code][c.pc])

RunStep(c, on) == ConcreteStep(on.p, c, on.w)

Runs == INSTANCE SeqFold WITH Step <- RunStep

\* The run of p on w, after n steps.
RunAt(p, w, n) == Runs!fold(Start, [i \in 1..n |-> [p |-> p, w |-> w]])

-----------------------------------------------------------------------------
(* What the executor relies on and does not check.                         *)

\* The contexts in which a function stops the execution call for one action.
ContextsAgree ==
  \A fn \in DOMAIN Stops : \A a, b \in DOMAIN Stops[fn].ctx : Stops[fn].ctx[a] = Stops[fn].ctx[b]

\* A symbolic opcode is announced as if it were not zero, so they are literals.
AnnouncesLiterals ==
  \A p \in Programs : \A fn \in DOMAIN p : \A n \in 1..Len(p[fn]) :
    p[fn][n].i = "Call" /\ p[fn][n].fn = "instr_announce" => p[fn][n].arg.e = "val"

\* fn has been called with the argument x and is about to start.
Entered(c, fn, x) ==
  /\ c.run = "go" /\ c.code = fn /\ c.pc = 1 /\ c.stack # <<>>
  /\ c.vars = [y \in {"return", "a"} |-> IF y = "a" THEN x ELSE Uninit]

\* A run that calls a function with the argument of an assumption later has the
\* assumed result, and the call has changed nothing else.
AssumptionsHold ==
  \A p \in Programs, w \in Assignments, n \in Steps : \A fn \in DOMAIN Assumptions :
    \A k \in DOMAIN Assumptions[fn] :
      Entered(RunAt(p, w, n), fn, Bit(Assumptions[fn][k].arg)) =>
        \E m \in Steps : RunAt(p, w, m) = ReturnTo(RunAt(p, w, n), Bit(Assumptions[fn][k].result))

-----------------------------------------------------------------------------
(* Properties                                                              *)

\* What a value of a path with the solver s is for the input w.
ValueAt(s, v, w) == IF v.k = "sym" THEN Bit(IF w \in s.decls[v.n] THEN 1 ELSE 0) ELSE v

\* The executor needs more time, a better solver or a concrete pc.
GaveUp == {"Timeout", "Z3Unknown", "PcNotConcrete"}

\* A run that ends as the path with the frame f and the solver s does.
EndsAs(c, r, f, s, w) ==
  /\ c.run = r.run /\ c.v = ValueAt(s, r.v, w)
  /\ \A reg \in DOMAIN f.regs : c.regs[reg] = ValueAt(s, f.regs[reg], w)

(* A path describes exactly what the program does on the inputs of the     *)
(* path: the result, the returned value and the registers, through every   *)
(* fork, replay, call, stop and assumption (run_loop).  A pessimistic      *)
(* assertion fails for the whole path if it fails for one of its inputs.   *)
\* Checked when a path has just been handed in.
PathsSound ==
  ~running /\ collected # <<>> =>
    LET r == collected[Len(collected)] IN
    CASE r.run \in GaveUp -> TRUE
      [] r.run = "AssertionFailure" ->
           r.models # {} =>
             \E w \in r.models : \E n \in Steps : RunAt(prog, w, n).run = "AssertionFailure"
      [] r.run \notin GaveUp \cup {"AssertionFailure"} ->
           \A w \in r.models : \E n \in Steps : EndsAs(RunAt(prog, w, n), r, frame, solver, w)

(* When the queue is empty, each input is on exactly one of the paths that *)
(* were handed in, unless the program's own assumptions or optimistic      *)
(* assertions exclude it.                                                  *)
PathsComplete ==
  Finished =>
    \A w \in Assignments :
      LET on == {n \in DOMAIN collected : w \in collected[n].models} IN
      /\ Cardinality(on) <= 1
      /\ on = {} => \E n \in Steps : RunAt(prog, w, n).run \in {"Excluded", "AssertionFailure"}

=============================================================================
