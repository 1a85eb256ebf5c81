------------------------------ MODULE RunLoop -------------------------------
(***************************************************************************)
(* executor::run_loop and start_single (isla-lib/src/executor.rs): the     *)
(* symbolic execution of one program, instruction by instruction, with the *)
(* frames and tasks it suspends and the solver it replays for them.        *)
(*                                                                         *)
(* Every value is a bit; booleans are bits too.  An instruction is a       *)
(* record [i |-> name, ...]; program counters start at 1.  Every function  *)
(* takes the parameter "a".  Logging, probes and source locations are left *)
(* out.                                                                    *)
(***************************************************************************)
EXTENDS Solver, Fraction

CONSTANTS
  Programs,        \* function name |-> sequence of instructions
  TraceFunctions,  \* shared_state.trace_functions
  Stops,           \* StopConditions: name |-> [ctx |-> name |-> action, direct |-> action]
  Assumptions,     \* frame.function_assumptions: name |-> sequence of [arg, result]
  PcLimit,         \* task_state.pc_limit, on the register "PC"
  MaxUnknowns      \* bound: questions of one execution that Z3 does not answer

VARIABLES
  prog,       \* the program, chosen once
  queue,      \* suspended tasks; the last is popped first
  stands,     \* history: the inputs and branches each of them stands for
  running,    \* a task is being executed, with
  frame,      \*   its LocalFrame,
  solver,     \*   its Solver
  frac,       \*   and its Fraction
  late,       \* timeout.timed_out()
  collected   \* what the collector was given, in order

vars == <<prog, queue, stands, running, frame, solver, frac, late, collected>>

Bit(b) == [k |-> "bits", n |-> b]
Symbolic(v) == [k |-> "sym", n |-> v]
Poison == [k |-> "poison", n |-> 0]
Unit == [k |-> "unit", n |-> 0]
Uninit == [k |-> "uninit", n |-> 0]

\* Expressions: an identifier, a literal, `undefined`, or an operator on two of them.
IsAtom(e) ==
  \/ e.e = "id" /\ e.id \in STRING
  \/ e.e = "val" /\ e.v \in {Bit(0), Bit(1), Poison, Unit}
  \/ e.e = "undefined"

IsExp(e) ==
  \/ IsAtom(e)
  \/ e.e = "op" /\ e.op \in {"eq", "neq"} /\ IsAtom(e.x) /\ IsAtom(e.y)

\* The instructions that are modelled.
IsInstr(ins) ==
  \/ ins.i \in {"Decl", "Monomorphize"} /\ ins.id \in STRING
  \/ ins.i = "Init" /\ ins.id \in STRING /\ IsExp(ins.exp)
  \/ ins.i = "Copy" /\ ins.loc \in STRING /\ IsExp(ins.exp)
  \/ ins.i = "Primop" /\ ins.loc \in STRING /\ IsExp(ins.exp)
       /\ ins.op \in {"assume", "optimistic_assert", "pessimistic_assert"}
  \/ ins.i = "Goto" /\ ins.target \in Nat \ {0}
  \/ ins.i = "Jump" /\ ins.target \in Nat \ {0} /\ IsExp(ins.exp)
  \/ ins.i = "Call" /\ ins.fn \in STRING /\ ins.loc \in STRING /\ IsExp(ins.arg)
  \/ ins.i \in {"End", "Arbitrary"}
  \/ ins.i = "Exit" /\ ins.cause \in {"MatchFailure", "AssertionFailure", "Exit"}

IsProgram(p) ==
  /\ DOMAIN p \subseteq STRING /\ "main" \in DOMAIN p
  /\ \A fn \in DOMAIN p :
       /\ DOMAIN p[fn] = 1..Len(p[fn]) /\ Len(p[fn]) \in Nat
       /\ \A n \in 1..Len(p[fn]) : IsInstr(p[fn][n])

ASSUME RunLoopAssumption ==
  /\ \A p \in Programs : IsProgram(p)
  /\ \A fn \in DOMAIN Assumptions : Assumptions[fn] \in Seq([arg : Bits, result : Bits])
  /\ PcLimit \in Nat

\* The smtlib::Exp of a value.
ToExp(v) == IF v.k = "sym" THEN Var(v.n) ELSE Lit(v.n)

\* frame.forks counts the forks of the path, stack_vars, calls (the stack_call
\* closures) and backtrace its calls, oldest first; code stands for instrs.
NewFrame(regs, lets) ==
  [fn |-> "main", code |-> "main", pc |-> 1, forks |-> 0,
   vars |-> [x \in {"return", "a"} |-> Uninit], regs |-> regs, lets |-> lets,
   stack_vars |-> <<>>, calls |-> <<>>, backtrace |-> <<>>,
   pc_counts |-> [b \in Bits |-> 0]]

\* The outcome of a part of a step; err = "Ok" lets the path go on.
Ok(f, s, v) == [f |-> f, s |-> s, v |-> v, err |-> "Ok"]
Fail(f, s, e) == [f |-> f, s |-> s, v |-> Unit, err |-> e]

-----------------------------------------------------------------------------
(* Reading, evaluating and assigning.                                      *)

\* symbolic: a value of the right type that nothing is known about.
symbolic(f, s) == Ok(f, declare_const(s), Symbolic(s.next_var))

\* Variables hide registers, registers hide globals.
ReadPlace(f, id) ==
  CASE id \in DOMAIN f.vars -> "vars"
    [] id \in DOMAIN f.regs \ DOMAIN f.vars -> "regs"
    [] id \in DOMAIN f.lets \ (DOMAIN f.vars \cup DOMAIN f.regs) -> "lets"
    [] OTHER -> "none"

\* Event::ReadReg and Event::WriteReg.
Access(ev, id, v) == [ev |-> ev, reg |-> id, val |-> v]

\* The value is stored where it was found, and a register's is recorded.
Store(r, place, id) ==
  Ok([r.f EXCEPT ![place][id] = r.v],
     IF place = "regs" THEN add_event(r.s, Access("read-reg", id, r.v)) ELSE r.s, r.v)

Load(f, s, id, place) ==
  IF place = "none" THEN Fail(f, s, "VariableNotFound")
  ELSE Store(IF f[place][id] = Uninit THEN symbolic(f, s) ELSE Ok(f, s, f[place][id]), place, id)

\* Mutant: the value made for an uninitialized variable is not stored.
get_mutant(f, s, id) == [Load(f, s, id, ReadPlace(f, id)) EXCEPT !.f = f]

get_id_and_initialize(f, s, id) == Load(f, s, id, ReadPlace(f, id))

eval_atom(f, s, e) ==
  CASE e.e = "id" -> get_id_and_initialize(f, s, e.id)
    [] e.e = "val" -> Ok(f, s, e.v)
    [] e.e = "undefined" -> symbolic(f, s)

Compute(op, m, n) == IF (m = n) = (op = "eq") THEN 1 ELSE 0

\* A primop computes on bits, and defines a constant when one is symbolic.
primop(f, s, op, v1, v2) ==
  IF ~({v1.k, v2.k} \subseteq {"bits", "sym"}) THEN Fail(f, s, "Type")
  ELSE IF v1.k = "bits" /\ v2.k = "bits" THEN Ok(f, s, Bit(Compute(op, v1.n, v2.n)))
  ELSE Ok(f, define_const(s, Term(op, ToExp(v1), ToExp(v2))), Symbolic(s.next_var))

\* The arguments of an operator are evaluated left to right.
Apply(op, v1, r2) == IF r2.err # "Ok" THEN r2 ELSE primop(r2.f, r2.s, op, v1, r2.v)

ApplyTo(e, r1) ==
  IF r1.err # "Ok" THEN r1 ELSE Apply(e.op, r1.v, eval_atom(r1.f, r1.s, e.y))

eval_exp(f, s, e) ==
  IF e.e = "op" THEN ApplyTo(e, eval_atom(f, s, e.x)) ELSE eval_atom(f, s, e)

\* Unlike a read, a write prefers a global to a register.
assign(f, s, loc, v) ==
  CASE loc \in DOMAIN f.vars -> Ok([f EXCEPT !.vars[loc] = v], s, v)
    [] loc \in DOMAIN f.lets \ DOMAIN f.vars -> Ok([f EXCEPT !.lets[loc] = v], s, v)
    [] OTHER -> Ok([f EXCEPT !.regs[loc] = v], add_event(s, Access("write-reg", loc, v)), v)

AssignAfter(r, loc) == IF r.err = "Ok" THEN assign(r.f, r.s, loc, r.v) ELSE r

Advance(r) == IF r.err = "Ok" THEN [r EXCEPT !.f.pc = @ + 1] ELSE r

Bind(bindings, x, v) == [y \in DOMAIN bindings \cup {x} |-> IF y = x THEN v ELSE bindings[y]]

-----------------------------------------------------------------------------
(* The loop.                                                               *)

Instrs(f) == prog[f.code]
Instr == Instrs(frame)[frame.pc]

\* An instruction is reached: there is one, and the time is not up.
At(name) ==
  /\ running /\ frame.pc <= Len(Instrs(frame)) /\ ~late
  /\ Instr.i = name

\* The collector is called with the result, and the next task is looked for.
Collect(f, s, run, v) ==
  /\ collected' = Append(collected,
       [run |-> run, v |-> v, models |-> s.models, trace |-> to_vec(s), frac |-> frac])
  /\ running' = FALSE
  /\ frame' = f /\ solver' = s
  /\ UNCHANGED <<prog, queue, stands, frac, late>>

GoOn(f, s) ==
  /\ frame' = f /\ solver' = s
  /\ UNCHANGED <<prog, queue, stands, running, frac, late, collected>>

\* The ? of every call: an error ends the path.
Continue(r) == IF r.err = "Ok" THEN GoOn(r.f, r.s) ELSE Collect(r.f, r.s, r.err, Unit)

Decl ==
  /\ At("Decl")
  /\ Continue(Advance(Ok([frame EXCEPT !.vars = Bind(@, Instr.id, Uninit)], solver, Unit)))

BindResult(r, id) == IF r.err = "Ok" THEN [r EXCEPT !.f.vars = Bind(@, id, r.v)] ELSE r

InitVar ==
  /\ At("Init")
  /\ Continue(Advance(BindResult(eval_exp(frame, solver, Instr.exp), Instr.id)))

Goto == At("Goto") /\ GoOn([frame EXCEPT !.pc = Instr.target], solver)

Copy ==
  /\ At("Copy")
  /\ Continue(Advance(AssignAfter(eval_exp(frame, solver, Instr.exp), Instr.loc)))

\* What the history and the refinement say of a path.
add_branch(path, e) == IF e.ev = "fork" THEN Append(path, e.branch) ELSE path

Path == INSTANCE SeqFold WITH Step <- add_branch

Branches(trace) == Path!fold(<<>>, trace)

Item(trace, models, fr) ==
  [id |-> 0, path |-> Branches(trace), models |-> models, frac |-> fr]

\* The path with solver `at` goes on as f with s and the fraction self, and a
\* task is queued for the inputs with the condition.
Fork2(at, f, s, self, child, rest, event, cond) ==
  /\ queue' = Append(queue, [frame |-> child, checkpoint |-> checkpoint(at), frac |-> rest,
                             fork_cond |-> <<event, AssertDef(cond)>>])
  /\ stands' = Append(stands, Item(Append(to_vec(at), event),
                                   at.models \cap translate_exp(at, cond), rest))
  /\ frac' = self
  /\ frame' = f /\ solver' = s
  /\ UNCHANGED <<prog, running, late, collected>>

IsTrue(v) == Var(v)
IsFalse(v) == Term("eq", Var(v), Lit(0))

JumpTo(f, s, v, target) ==
  GoOn([f EXCEPT !.pc = target], add_event(s, AssertDef(v)))

\* The condition may still be either: branch 1 is queued, branch 0 goes on.
ForkOn(f, s, v, target) ==
  Fork2(s, [f EXCEPT !.forks = @ + 1, !.pc = target],
        add_event(add_event(checkpointed(s), Fork(f.forks, v, 0)), AssertDef(IsTrue(v))),
        halve(frac), [f EXCEPT !.pc = @ + 1], halve(frac),
        Fork(f.forks, v, 1), IsFalse(v))

JumpOnSymbol(f, s, v, target, can_be_true, can_be_false) ==
  CASE can_be_true /\ can_be_false -> ForkOn(f, s, v, target)
    [] can_be_true /\ ~can_be_false -> JumpTo(f, s, IsTrue(v), target)
    [] ~can_be_true /\ can_be_false -> JumpTo(f, s, IsFalse(v), f.pc + 1)
    [] OTHER -> Collect(f, s, "Dead", Unit)

JumpOn(r, target) ==
  CASE r.err # "Ok" -> Continue(r)
    [] r.err = "Ok" /\ r.v.k = "bits" ->
         GoOn([r.f EXCEPT !.pc = IF r.v.n = 1 THEN target ELSE @ + 1], r.s)
    [] r.err = "Ok" /\ r.v.k \in {"poison", "unit"} -> Collect(r.f, r.s, "Type", Unit)
    [] r.err = "Ok" /\ r.v.k = "sym" ->
         JumpOnSymbol(r.f, r.s, r.v.n, target,
                      can_be(r.s, IsTrue(r.v.n)), can_be(r.s, IsFalse(r.v.n)))

Jump == At("Jump") /\ JumpOn(eval_exp(frame, solver, Instr.exp), Instr.target)

\* Conditions that cannot fail are not asserted again.
Holds(v) == v.k = "bits" /\ v.n = 1

\* primop::assume asserts without asking the solver, even what is false.
assume(f, s, v) ==
  CASE v.k \in {"poison", "unit"} -> Fail(f, s, "Type")
    [] v.k \in {"bits", "sym"} ->
         Ok(f, IF Holds(v) THEN s ELSE add_event(s, AssertDef(ToExp(v))), Unit)

\* An optimistic assertion succeeds if it can, a pessimistic one fails if it can.
optimistic_assert(f, s, v) ==
  CASE v.k \in {"poison", "unit"} -> Fail(f, s, "Type")
    [] v.k = "bits" -> IF Holds(v) THEN Ok(f, s, Unit) ELSE Fail(f, s, "AssertionFailure")
    [] v.k = "sym" -> IF can_be(s, IsTrue(v.n))
                        THEN Ok(f, add_event(s, AssertDef(IsTrue(v.n))), Unit)
                        ELSE Fail(f, s, "AssertionFailure")

pessimistic_assert(f, s, v) ==
  CASE v.k \in {"poison", "unit"} -> Fail(f, s, "Type")
    [] v.k = "bits" -> IF Holds(v) THEN Ok(f, s, Unit) ELSE Fail(f, s, "AssertionFailure")
    [] v.k = "sym" -> IF can_be(s, IsFalse(v.n)) THEN Fail(f, s, "AssertionFailure")
                        ELSE Ok(f, s, Unit)

\* Instr::PrimopUnary and PrimopBinary with one of the primops that can end a path.
Assert(op, r) ==
  CASE r.err # "Ok" -> r
    [] r.err = "Ok" /\ op = "assume" -> assume(r.f, r.s, r.v)
    [] r.err = "Ok" /\ op = "optimistic_assert" -> optimistic_assert(r.f, r.s, r.v)
    [] r.err = "Ok" /\ op = "pessimistic_assert" -> pessimistic_assert(r.f, r.s, r.v)

PrimopAssert ==
  /\ At("Primop")
  /\ Continue(Advance(AssignAfter(Assert(Instr.op, eval_exp(frame, solver, Instr.exp)), Instr.loc)))

-----------------------------------------------------------------------------
(* Calls.                                                                  *)

TraceEvent(s, ev, fn) ==
  IF fn \in TraceFunctions THEN add_event(s, [ev |-> ev, fn |-> fn]) ELSE s

\* StopConditions::should_stop.  The contexts are a HashMap: when several of
\* them match, any of their actions may come first.
should_stop(callee, f) ==
  LET ctx   == Stops[callee].ctx
      names == {f.fn} \cup {f.backtrace[k].fn : k \in DOMAIN f.backtrace}
      found == {ctx[n] : n \in DOMAIN ctx \cap names}
  IN  IF callee \notin DOMAIN Stops THEN {"None"}
      ELSE IF found # {} THEN found
      ELSE {Stops[callee].direct}

\* The first assumption whose argument is sure to equal the actual one.
\* Comparing them leaves a definition for each symbolic comparison.
Sure(r) == Holds(r.v) \/ (r.v.k = "sym" /\ ~can_be(r.s, IsFalse(r.v.n)))

Untried(f, s, arg) == [f |-> f, s |-> s, v |-> arg, err |-> "None"]

Assumed(r, arg, result) == IF Sure(r) THEN Ok(r.f, r.s, Bit(result)) ELSE Untried(r.f, r.s, arg)

try(acc, a) ==
  IF acc.err = "Ok" THEN acc
  ELSE Assumed(primop(acc.f, acc.s, "eq", Bit(a.arg), acc.v), acc.v, a.result)

Tries == INSTANCE SeqFold WITH Step <- try

find_assumption(f, s, arg, list) == Tries!fold(Untried(f, s, arg), list)

push_call_stack(f) ==
  [f EXCEPT !.stack_vars = Append(@, f.vars), !.vars = [x \in {} |-> Unit]]

pop_call_stack(f) ==
  IF f.stack_vars = <<>> THEN f
  ELSE [f EXCEPT !.vars = f.stack_vars[Len(f.stack_vars)],
                 !.stack_vars = SubSeq(@, 1, Len(@) - 1)]

\* The callee's frame; the stack_call closure keeps the caller's pc, code and loc.
Enter(f, callee, loc, arg) ==
  LET g == push_call_stack(f) IN
  [g EXCEPT !.backtrace = Append(@, [fn |-> f.fn, pc |-> f.pc]),
            !.calls = Append(@, [pc |-> f.pc, code |-> f.code, loc |-> loc]),
            !.fn = callee, !.code = callee, !.pc = 1,
            !.vars = Bind(Bind(@, "return", Uninit), "a", arg)]

\* The closure: restore the caller, then assign the result in its frame.
Restore(f, c) ==
  [pop_call_stack(f) EXCEPT
     !.fn = IF f.backtrace = <<>> THEN @ ELSE f.backtrace[Len(f.backtrace)].fn,
     !.backtrace = IF @ = <<>> THEN @ ELSE SubSeq(@, 1, Len(@) - 1),
     !.pc = c.pc + 1, !.code = c.code,
     !.calls = SubSeq(@, 1, Len(@) - 1)]

Return(f, s, v) ==
  LET c == f.calls[Len(f.calls)] IN assign(Restore(f, c), s, c.loc, v)

IsFunction(fn) == fn \in DOMAIN prog

\* The result of an assumption is used, or the function is entered: no
\* assumption is sure to apply, or Z3 answers Unknown.  Assumptions are about
\* bits: comparing one with Poison would panic.
AssumeOrEnter(f, fn, loc, arg, a) ==
  \/ /\ a.err = "Ok"
     /\ Continue(Advance([assign(f, a.s, loc, a.v) EXCEPT !.s =
                            add_event(@, [ev |-> "use-fun-assumption", fn |-> fn])]))
  \/ /\ a.err # "Ok" \/ arg.k = "sym"
     /\ fn \in DOMAIN Assumptions => arg.k \in {"bits", "sym"}
     /\ GoOn(Enter(f, fn, loc, arg), a.s)

CallOn(f, s, fn, loc, arg) ==
  \E action \in should_stop(fn, f) :
    \/ action = "Kill" /\ Collect(f, s, "Stopped", Unit)
    \/ /\ action = "Abstract"
       /\ Collect(f, add_event(s, [ev |-> "abstract", fn |-> fn]), "Finished", Poison)
    \/ /\ action = "None"
       /\ AssumeOrEnter(f, fn, loc, arg,
            find_assumption(f, s, arg, IF fn \in DOMAIN Assumptions THEN Assumptions[fn] ELSE <<>>))

CallWith(r, fn, loc) ==
  IF r.err = "Ok" THEN CallOn(r.f, TraceEvent(r.s, "call", fn), fn, loc, r.v) ELSE Continue(r)

Call ==
  /\ At("Call") /\ IsFunction(Instr.fn)
  /\ CallWith(eval_exp(frame, solver, Instr.arg), Instr.fn, Instr.loc)

\* The end of a function, by Instr::End or Instr::Arbitrary.
Leave(f, s, v) ==
  IF f.calls = <<>> THEN Collect(f, s, "Finished", v) ELSE Continue(Return(f, s, v))

LeaveTraced(f, s, v) == Leave(f, TraceEvent(s, "return", f.fn), v)

End ==
  /\ At("End")
  /\ LET v == frame.vars["return"] IN
     IF v = Uninit THEN LeaveTraced(frame, declare_const(solver), Symbolic(solver.next_var))
     ELSE LeaveTraced(frame, solver, v)

Arbitrary == At("Arbitrary") /\ LeaveTraced(frame, solver, Poison)

Exit == At("Exit") /\ Collect(frame, solver, Instr.cause, Unit)

-----------------------------------------------------------------------------
(* run_special_primop: calls of names that are no functions.               *)

Special(name) == At("Call") /\ ~IsFunction(Instr.fn) /\ Instr.fn = name

Deref(r, loc) ==
  Continue(Advance(assign([r.f EXCEPT !.regs["R"] = r.v],
                          add_event(r.s, Access("read-reg", "R", r.v)), loc, r.v)))

reg_deref ==
  /\ Special("reg_deref")
  /\ Deref(IF frame.regs["R"] = Uninit THEN symbolic(frame, solver)
           ELSE Ok(frame, solver, frame.regs["R"]), Instr.loc)

AbstractEvent(r, loc) ==
  assign(r.f, add_event(r.s, [ev |-> "abstract", fn |-> "abstracted"]), loc, r.v)

AbstractCall(r, loc) ==
  Continue(IF r.err = "Ok" THEN Advance(AbstractEvent(symbolic(r.f, r.s), loc)) ELSE r)

abstract_call ==
  /\ Special("abstract_call")
  /\ AbstractCall(eval_exp(frame, solver, Instr.arg), Instr.loc)

\* An announcement that the limit lets through.
AnnounceCounted(f, s, v, loc, count) ==
  CASE count > PcLimit -> Collect(f, s, "PCLimitReached", Unit)
    [] count <= PcLimit /\ v = Bit(0) -> Collect(f, s, "Exit", Unit)
    [] count <= PcLimit /\ v # Bit(0) ->
         Continue(Advance(assign(f, add_event(s, [ev |-> "instr", val |-> v]), loc, Unit)))

\* The architectural pc is read without an event, and must be concrete.
Announce(r, loc) ==
  LET pc == r.f.regs["PC"] IN
  CASE r.err # "Ok" -> Continue(r)
    [] r.err = "Ok" /\ pc.k # "bits" -> Collect(r.f, r.s, "PcNotConcrete", Unit)
    [] r.err = "Ok" /\ pc.k = "bits" ->
         AnnounceCounted([r.f EXCEPT !.pc_counts[pc.n] = @ + 1], r.s, r.v, loc,
                         r.f.pc_counts[pc.n] + 1)

instr_announce ==
  /\ Special("instr_announce")
  /\ Announce(eval_exp(frame, solver, Instr.arg), Instr.loc)

NoFunction ==
  /\ Special("missing")
  /\ Collect(frame, solver, "NoFunction", Unit)

-----------------------------------------------------------------------------
(* Monomorphize, timeouts, and the tasks.                                  *)

\* declare_const and assert_eq: the Sym is forced to be v.
NameForModel(s, v) ==
  add_event(add_event([s EXCEPT !.next_var = @ + 1], DeclareEqual(s.next_var, v)),
            AssertDef(Term("eq", Var(v), Var(s.next_var))))

\* Mutant: the queued task repeats the case that this path has taken.
MonoRestMutant(v, b) == Term("eq", Var(v), Lit(b))

MonoRest(v, b) == Term("neq", Var(v), Lit(b))

\* The value b is chosen: the Sym is forced to be b and the variable assigned.
Choose(f, s, id, v, b) ==
  Advance(assign(f, add_event(add_event(s, Fork(f.forks - 1, v, 0)),
                              AssertDef(Term("eq", Var(v), Lit(b)))), id, Bit(b)))

\* The path takes one possible value; the task for the others, with the solver
\* `at`, executes the instruction again.
SplitOn(at, f, s, id, v) ==
  \E b \in {c \in Bits : can_be(s, Term("eq", Var(v), Lit(c)))} :
    \E done \in {Choose(f, s, id, v, b)} :
      Fork2(at, done.f, done.s, min_split_self(frac, 6), f, min_split_rest(frac, 6),
            Fork(f.forks - 1, v, 1), MonoRest(v, b))

MonomorphizeSym(at, f, s, id, v) ==
  IF s.models = {} THEN Collect(f, s, "Dead", Unit)
  ELSE SplitOn(at, [f EXCEPT !.forks = @ + 1], s, id, v)

MonomorphizeVar(r, id) ==
  IF r.err = "Ok" /\ r.v.k = "sym"
    THEN MonomorphizeSym(r.s, r.f, NameForModel(checkpointed(r.s), r.v.n), id, r.v.n)
    ELSE Continue(Advance(r))

Monomorphize ==
  /\ At("Monomorphize")
  /\ MonomorphizeVar(get_id_and_initialize(frame, solver, Instr.id), Instr.id)

\* The instructions ran out: "this happens when evaluating letbindings".
OffEnd ==
  /\ running /\ frame.pc > Len(Instrs(frame))
  /\ Collect(frame, solver, "Finished", Unit)

\* The time is up, and stays so.
TimePasses ==
  /\ ~late /\ late' = TRUE
  /\ UNCHANGED <<prog, queue, stands, running, frame, solver, frac, collected>>

TimedOut ==
  /\ running /\ late /\ frame.pc <= Len(Instrs(frame))
  /\ Collect(frame, solver, "Timeout", Unit)

\* Z3 answers neither sat nor unsat to a question of the instruction.
Unanswered(r, mono) ==
  /\ r.err = "Ok" /\ r.v.k = "sym"
  /\ Collect(r.f, IF mono THEN NameForModel(checkpointed(r.s), r.v.n) ELSE r.s,
             "Z3Unknown", Unit)

Z3Unknown ==
  /\ Cardinality({k \in DOMAIN collected : collected[k].run = "Z3Unknown"}) < MaxUnknowns
  /\ \/ /\ At("Jump") \/ (At("Primop") /\ Instr.op # "assume")
        /\ Unanswered(eval_exp(frame, solver, Instr.exp), FALSE)
     \/ /\ At("Monomorphize")
        /\ Unanswered(get_id_and_initialize(frame, solver, Instr.id), TRUE)

\* Mutant: the fork's condition is recorded but not asserted.
resume_mutant(t) ==
  LET s == from_checkpoint(t.checkpoint) IN
  IF t.fork_cond = <<>> THEN s ELSE add_event(s, t.fork_cond[1])

\* The solver of a popped task: the checkpoint, then the fork and its condition.
resume(t) ==
  LET s == from_checkpoint(t.checkpoint) IN
  IF t.fork_cond = <<>> THEN s ELSE add_event(add_event(s, t.fork_cond[1]), t.fork_cond[2])

Pop ==
  /\ ~running /\ queue # <<>>
  /\ LET t == queue[Len(queue)] IN
       frame' = t.frame /\ solver' = resume(t) /\ frac' = t.frac
  /\ queue' = SubSeq(queue, 1, Len(queue) - 1)
  /\ stands' = SubSeq(stands, 1, Len(stands) - 1)
  /\ running' = TRUE
  /\ UNCHANGED <<prog, late, collected>>

Init ==
  /\ prog \in Programs
  /\ frame = NewFrame([R |-> Uninit, PC |-> Bit(0)], [L |-> Uninit])
  /\ queue = <<[frame |-> frame, checkpoint |-> NewCheckpoint, frac |-> one, fork_cond |-> <<>>]>>
  /\ stands = <<Item(<<>>, Assignments, one)>>
  /\ running = FALSE /\ solver = NewSolver /\ frac = one /\ late = FALSE /\ collected = <<>>

Finished == ~running /\ queue = <<>>

Straight == Decl \/ InitVar \/ Goto \/ Copy \/ PrimopAssert
Function == Call \/ End \/ Arbitrary \/ Exit
SpecialCall == reg_deref \/ abstract_call \/ instr_announce \/ NoFunction
Step == Straight \/ Function \/ SpecialCall \/ Jump \/ Monomorphize \/ OffEnd
GiveUp == TimePasses \/ TimedOut \/ Z3Unknown

Next == Pop \/ Step \/ GiveUp \/ (Finished /\ UNCHANGED vars)

\* The thread runs until the queue is empty; no timeout or Unknown need happen.
Spec == Init /\ [][Next]_vars /\ WF_vars(Pop \/ Step \/ TimedOut)

-----------------------------------------------------------------------------
(* Properties                                                              *)

Cover == INSTANCE PathCover WITH
  Initial <- {Item(<<>>, Assignments, one)},
  pending <- {stands[k] : k \in DOMAIN stands}
               \cup (IF running THEN {Item(to_vec(solver), solver.models, frac)} ELSE {}),
  done <- {Item(collected[k].trace, collected[k].models, collected[k].frac) :
             k \in DOMAIN collected}

(* Symbolic execution splits the inputs of the program over its paths and  *)
(* hands in every path once: run_loop, its forks, and the replay of a      *)
(* checkpoint for a popped task implement PathCover.                       *)
CoversPaths == Cover!Spec

ValueSyms(vals) == {v.n : v \in {u \in vals : u.k = "sym"}}
RangeOf(fn) == {fn[x] : x \in DOMAIN fn}

FrameSyms(f) ==
  ValueSyms(RangeOf(f.vars) \cup RangeOf(f.regs) \cup RangeOf(f.lets)
            \cup UNION {RangeOf(f.stack_vars[k]) : k \in DOMAIN f.stack_vars})

(* No frame mentions a Sym that its solver does not know (translate_exp    *)
(* would panic), or one that fresh() will hand out again: checked for the  *)
(* running path and for the newest suspended task after its replay.        *)
SymsAreDeclared ==
  LET ok(f, s) == FrameSyms(f) \subseteq DOMAIN s.decls /\ \A v \in DOMAIN s.decls : v < s.next_var
  IN  /\ running => ok(frame, solver)
      /\ queue # <<>> => LET t == queue[Len(queue)] IN ok(t.frame, resume(t))

=============================================================================
