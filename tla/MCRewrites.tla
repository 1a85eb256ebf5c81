------------------------------- MODULE MCRewrites ------------------------------
(***************************************************************************)
(* Function bodies rewritten in the order in which src/src/opts.rs and     *)
(* initialize_architecture apply the rewrites, each of them optional:      *)
(* abstraction, assertions to jumps, partial linearisation, linearisation, *)
(* monomorphisation, primitive operations.                                 *)
(*                                                                         *)
(* The bodies are laid out as Sail does it: variables are declared first,  *)
(* a conditional jumps over its else branch, every jump leads forwards and *)
(* the only end is the last instruction.                                   *)
(***************************************************************************)
EXTENDS Linearize, TLC

-----------------------------------------------------------------------------
(* What a function body does when the interpreter runs it on given         *)
(* arguments (isla-lib/src/executor.rs, the instructions of run_loop).     *)
(*                                                                         *)
(* A Boolean value is what it is under one valuation of the symbolic       *)
(* variables, and a flag that tells whether the interpreter holds it as a  *)
(* symbolic value or as a concrete one: operations on concrete values give *)
(* concrete ones.  A variable that is read before it is written becomes a  *)
(* new symbolic value, which may be anything: here the value is Unknown,   *)
(* operations are those of three-valued logic, and nothing is said of a    *)
(* run that branches on it.                                                *)

VBool(b) == [k |-> "b", b |-> b, sym |-> FALSE]
VSym(b) == [k |-> "b", b |-> b, sym |-> TRUE]
VUnit == [k |-> "u"]
Unknown == [k |-> "unknown"]
VStruct(f, g) == [k |-> "s", f |-> f, g |-> g]
NotFound == [k |-> "notfound"]

Uninit(ty) == IF ty = "Struct" THEN VStruct(Unknown, Unknown) ELSE Unknown

IsTrue(v) == v.k = "b" /\ v.b
IsFalse(v) == v.k = "b" /\ ~v.b
IsSymbolic(v) == v = Unknown \/ (v.k = "b" /\ v.sym)

VNot(v) == IF v.k = "b" THEN [v EXCEPT !.b = ~@] ELSE v
VAnd(v, w) ==
  CASE VBool(FALSE) \in {v, w} -> VBool(FALSE)
    [] v = VBool(TRUE) -> w
    [] w = VBool(TRUE) -> v
    [] IsFalse(v) \/ IsFalse(w) -> VSym(FALSE)
    [] Unknown \in {v, w} -> Unknown
    [] OTHER -> VSym(TRUE)
VOr(v, w) == VNot(VAnd(VNot(v), VNot(w)))
VEq(v, w) ==
  IF Unknown \in {v, w} THEN Unknown
  ELSE [k |-> "b", b |-> v.b = w.b, sym |-> v.sym \/ w.sym]

EvalOp(op, vs) ==
  CASE op = "Not" -> VNot(vs[1])
    [] op = "And" -> VAnd(vs[1], vs[2])
    [] op = "Or" -> VOr(vs[1], vs[2])
    [] op = "Eq" -> VEq(vs[1], vs[2])

(* An unknown variable makes the whole expression fail. *)
RECURSIVE eval_exp(_, _)
eval_exp(e, vars) ==
  CASE e.k = "id" -> IF e.id \in DOMAIN vars THEN vars[e.id] ELSE NotFound
    [] e.k = "bool" -> VBool(e.b)
    [] e.k = "unit" -> VUnit
    [] e.k = "ref" -> VUnit
    [] e.k = "field" -> LET v == eval_exp(e.exp, vars)
                        IN CASE v = NotFound -> NotFound
                             [] v = Unknown -> Unknown
                             [] OTHER -> v[e.field]
    [] e.k = "call" -> LET vs == [i \in DOMAIN e.args |-> eval_exp(e.args[i], vars)]
                       IN IF NotFound \in Range(vs) THEN NotFound ELSE EvalOp(e.op, vs)

-----------------------------------------------------------------------------
(* A state of a run: the variables, the place, the calls made so far and   *)
(* how the run has ended, if it has.                                       *)

Running == [k |-> "running"]
Returned(v) == [k |-> "value", v |-> v]
Failed(why) == [k |-> why]

StartRun(args) ==
  [vars |-> (RETURN :> Unknown) @@ args, pc |-> 1, log |-> << >>, out |-> Running]

Fail(s, why) == [s EXCEPT !.out = Failed(why)]

assign(s, loc, v) ==
  CASE v = NotFound \/ loc.id \notin DOMAIN s.vars -> Fail(s, "error")
    [] loc.field = NoField -> [s EXCEPT !.vars[loc.id] = v, !.pc = @ + 1]
    [] OTHER -> [s EXCEPT !.vars[loc.id] =
                   [(IF s.vars[loc.id] = Unknown THEN VStruct(Unknown, Unknown) ELSE s.vars[loc.id])
                      EXCEPT ![loc.field] = v], !.pc = @ + 1]

(* The SMT choice between two values; its result is symbolic. *)
RECURSIVE Ite(_, _, _)
Ite(c, v, w) ==
  CASE v.k = "s" /\ w.k = "s" -> VStruct(Ite(c, v.f, w.f), Ite(c, v.g, w.g))
    [] v.k # "s" \/ w.k # "s" ->
         LET r == IF IsTrue(c) THEN v ELSE IF IsFalse(c) THEN w
                  ELSE IF v = w THEN v ELSE Unknown
         IN IF r.k = "b" /\ IsSymbolic(c) THEN VSym(r.b) ELSE r

RECURSIVE ite_phi(_)
ite_phi(vs) == IF Len(vs) = 1 THEN vs[1][2] ELSE Ite(vs[1][1], vs[1][2], ite_phi(Tail(vs)))

(* The conditions of a phi call: an unknown variable in one shows that its *)
(* block was not run; of the true concrete ones the last counts; when      *)
(* there is none the symbolic ones are merged, of which there must be one. *)
RunItePhi(s, i) ==
  LET n == Len(i.args) \div 2
      cond(j) == LET v == eval_exp(i.args[2 * j - 1], s.vars)
                 IN IF v = NotFound THEN VBool(FALSE) ELSE v
      val(j) == eval_exp(i.args[2 * j], s.vars)
      trues == {j \in 1 .. n : cond(j) = VBool(TRUE)}
      syms == SelectSeq([j \in 1 .. n |-> j], LAMBDA j : IsSymbolic(cond(j)))
      merged == [m \in DOMAIN syms |-> <<cond(syms[m]), val(syms[m])>>]
  IN CASE trues # {} -> assign(s, i.loc, val(CHOOSE j \in trues : \A m \in trues : m <= j))
       [] trues = {} /\ syms = << >> -> Fail(s, "panic")
       [] trues = {} /\ \E m \in DOMAIN merged : merged[m][2] = NotFound -> Fail(s, "error")
       [] OTHER -> assign(s, i.loc, ite_phi(merged))

RunAssert(s, i, c) ==
  CASE IsTrue(c) -> assign(s, i.loc, VUnit)
    [] IsFalse(c) -> Fail(s, "assert")
    [] OTHER -> Fail(s, "unspecified")

(* The functions the bodies call: f and g negate their argument and are    *)
(* recorded; an abstract call returns what f would if the oracle is true,  *)
(* and something else if not; prop is the property that fixes f.           *)
RunCall(s, i, vs, oracle) ==
  CASE NotFound \in Range(vs) -> Fail(s, "error")
    [] i.f \in {"f", "g"} -> [assign(s, i.loc, VNot(vs[1])) EXCEPT !.log = Append(@, i.f)]
    [] i.f \in {SAIL_ASSERT, "optimistic_assert", "pessimistic_assert", "assume"} ->
         RunAssert(s, i, vs[1])
    [] i.f = ABSTRACT_CALL ->
         [assign(s, i.loc, IF oracle THEN VNot(vs[1]) ELSE vs[1])
            EXCEPT !.log = Append(@, i.args[2].f)]
    [] i.f = "prop" -> assign(s, i.loc, VEq(vs[2], VNot(vs[1])))
    [] i.f = "ite" -> assign(s, i.loc, Ite(vs[1], vs[2], vs[3]))

StepInstr(s, i, oracle) ==
  CASE i.k = "decl" -> [s EXCEPT !.vars = (i.id :> Uninit(i.ty)) @@ @, !.pc = @ + 1]
    [] i.k = "init" -> LET v == eval_exp(i.exp, s.vars)
                       IN IF v = NotFound THEN Fail(s, "error")
                          ELSE [s EXCEPT !.vars = (i.id :> v) @@ @, !.pc = @ + 1]
    [] i.k = "copy" -> assign(s, i.loc, eval_exp(i.exp, s.vars))
    [] i.k = "mono" -> IF i.id \in DOMAIN s.vars THEN [s EXCEPT !.pc = @ + 1]
                       ELSE Fail(s, "error")
    [] i.k = "goto" -> [s EXCEPT !.pc = i.target]
    [] i.k = "jump" -> LET v == eval_exp(i.exp, s.vars)
                       IN CASE IsTrue(v) -> [s EXCEPT !.pc = i.target]
                            [] IsFalse(v) -> [s EXCEPT !.pc = @ + 1]
                            [] v = Unknown -> Fail(s, "unspecified")
                            [] OTHER -> Fail(s, "error")
    [] i.k = "callfn" /\ i.f = ITE_PHI -> RunItePhi(s, i)
    [] i.k \in {"callfn", "primop"} /\ i.f # ITE_PHI ->
         RunCall(s, i, [j \in DOMAIN i.args |-> eval_exp(i.args[j], s.vars)], oracle)
    [] i.k = "exit" -> Fail(s, IF i.cause = "AssertionFailure" THEN "assert" ELSE "exit")
    [] i.k = "arbitrary" -> Fail(s, "poison")
    [] i.k = "end" -> [s EXCEPT !.out = Returned(s.vars[RETURN])]

(* The run, cut off after a number of steps. *)
RECURSIVE RunFor(_, _, _, _)
RunFor(body, s, oracle, fuel) ==
  IF s.out # Running THEN s
  ELSE IF fuel = 0 THEN Fail(s, "diverges")
  ELSE RunFor(body, StepInstr(s, body[s.pc], oracle), oracle, fuel - 1)

MaxSteps == 150
Run(body, args, oracle) == RunFor(body, StartRun(args), oracle, MaxSteps)

(* The outcome, whether its value is held symbolically or not. *)
Outcome(s) == IF s.out.k = "value" THEN <<"value", IsTrue(s.out.v)>> ELSE <<s.out.k>>

(* A run of which the outcome is fixed by the arguments. *)
Specified(s) == s.out.k # "unspecified" /\ (s.out.k = "value" => s.out.v.k = "b")

-----------------------------------------------------------------------------
VARIABLES
  source, body,   \* the function as it was, and as it is
  stage,          \* the last rewrite
  linear,         \* "no", "partial" or "full": how it has been linearised
  unreachable     \* the model defines zUnreachable
vars == <<source, body, stage, linear, unreachable>>

-----------------------------------------------------------------------------
(* Statements and their layout *)

varX == Name("x")
varS == Name("s")
varU == Name("u")
ArgA == Id(Name("a"))
ArgB == Id(Name("b"))

Not(e) == Call("Not", <<e>>)
If(c, then, else) == [k |-> "if", c |-> c, then |-> then, else |-> else]
Ret(e) == [k |-> "ret", exp |-> e]
IsInstr(t) == t.k \notin {"if", "ret"}

(* The target of an early return, set when the layout is complete. *)
AtEnd == -1

(* Code after an exit or a goto that nothing leads to is not laid out. *)
Leaves(code) == code # << >> /\ Last(code).k \in {"exit", "goto"}

RECURSIVE Layout(_, _)
LayoutIf(t, at) ==
  LET els == Layout(t.else, at + 1)
      skip == IF Leaves(els) THEN 0 ELSE 1
      then == at + 1 + Len(els) + skip
      thn == Layout(t.then, then)
  IN <<Jump(t.c, then)>> \o els
     \o (IF Leaves(els) THEN << >> ELSE <<Goto(then + Len(thn))>>) \o thn

Layout(stmts, at) ==
  IF stmts = << >> THEN << >>
  ELSE LET t == Head(stmts)
           code == CASE IsInstr(t) -> <<t>>
                     [] t.k = "ret" -> <<Copy(LocId(RETURN), t.exp), Goto(AtEnd)>>
                     [] t.k = "if" -> LayoutIf(t, at)
       IN code \o Layout(Tail(stmts), at + Len(code))

Prelude == <<InitVar(varX, "Bool", ArgA), Decl(varS, "Struct"), Decl(varU, "Unit")>>

BodyOf(stmts) ==
  LET code == Prelude \o Layout(stmts, 4) \o <<Copy(LocId(RETURN), Id(varX)), End>>
  IN [i \in DOMAIN code |->
        IF HasTarget(code[i]) /\ code[i].target = AtEnd
        THEN [code[i] EXCEPT !.target = Len(code)] ELSE code[i]]

Negate == Copy(LocId(varX), Not(Id(varX)))
TakeB == Copy(LocId(varX), ArgB)
Store == Copy(LocField(varS, "f"), Id(varX))
Load == Copy(LocId(varX), Field(Id(varS), "f"))
CallF == CallFn(LocId(varX), "f", <<Id(varX)>>)
CallG == CallFn(LocId(varX), "g", <<Id(varX)>>)
AssertB == CallFn(LocId(varU), SAIL_ASSERT, <<ArgB>>)
MatchFail == Exit("MatchFailure")

Atoms == {Negate, TakeB, Store, Load, CallF}
Conds == {ArgB, Id(varX)}

(* One conditional after another, one inside another, and branches that    *)
(* leave the function or check something.                                  *)
Joined == {<<p, If(c, <<q>>, <<r>>), If(d, <<t>>, << >>)>> :
             p \in {Store, Negate}, q \in Atoms, r \in Atoms, t \in {Negate, Load, CallG}, c \in {ArgB}, d \in Conds}
Nested == {<<If(c, <<If(d, <<p>>, <<q>>), r>>, <<t>>)>> :
             p \in {Negate, CallF}, q \in {TakeB, Store}, r \in {Negate, Store},
             t \in {Negate, MatchFail, AssertB, Store}, c \in Conds, d \in {ArgB}}
Leaving == {<<p, If(c, <<q, t>>, <<r>>), Negate>> :
             p \in {Store, AssertB}, q \in {Negate, CallF, AssertB}, r \in Atoms \cup {AssertB},
             t \in {Ret(Id(varX)), Ret(ArgB), MatchFail}, c \in Conds}
Straight == {<<p, q>> : p \in {Store, AssertB, CallF, CallG}, q \in {Load, AssertB, CallG}}

Stmts == Joined \cup Nested \cup Leaving \cup Straight
Sources == {BodyOf(t) : t \in Stmts}

Calls(code) == {code[i].f : i \in {j \in DOMAIN code : code[j].k = "callfn"}}

-----------------------------------------------------------------------------
Init ==
  /\ source \in Sources
  /\ body = source
  /\ stage = 0
  /\ linear = "no"
  /\ unreachable \in BOOLEAN

Rewrite(n, new) ==
  /\ stage < n
  /\ stage' = n
  /\ body' = new
  /\ linear' = CASE n = 3 -> "partial" [] n = 4 -> "full" [] OTHER -> linear
  /\ UNCHANGED <<source, unreachable>>

Abstract ==
  /\ "f" \in Calls(body)
  /\ \/ Rewrite(1, abstract_function(body, "f"))
     \/ Rewrite(1, abstract_function_with_property(body, "f", "prop"))
ForkAssertions == SAIL_ASSERT \in Calls(body) /\ Rewrite(2, instrs_assertions_to_jumps(body))
PartialLinearize == Rewrite(3, partial_linearize(body, "Bool", unreachable))
FullLinearize == stage # 3 /\ Rewrite(4, linearize(body, "Bool"))
Monomorphize == "g" \in Calls(body) /\ Rewrite(5, insert_monomorphize_instrs(body, {"g"}))
Externs == [f \in {"g"} |-> [name |-> "g", abstract |-> FALSE]]
Primops == Rewrite(6, insert_primops(body, Externs, [ops |-> {"g", "optimistic_assert"}, consts |-> {}], "Optimistic"))

Next == Abstract \/ ForkAssertions \/ PartialLinearize \/ FullLinearize \/ Monomorphize \/ Primops
Spec == Init /\ [][Next]_vars

-----------------------------------------------------------------------------
Args(v, w) == (Name("a") :> v) @@ (Name("b") :> w)
SymbolicArgs == {Args(VSym(v), VSym(w)) : v \in BOOLEAN, w \in BOOLEAN}
Made(s, f) == Len(SelectSeq(s.log, LAMBDA c : c = f))
Asserts == {SAIL_ASSERT, "optimistic_assert"}
Checks(code) == \E i \in DOMAIN code : code[i].k \in {"callfn", "primop"} /\ code[i].f \in Asserts

(* Calls count as pure in a model with zUnreachable, and may be moved up. *)
Hoisted == linear = "partial" /\ unreachable

SameRun(r, t) ==
  Specified(r) =>
    CASE linear = "full" -> r.out.k = "value" => Outcome(t) = Outcome(r)
      [] Hoisted -> \/ Outcome(t) = Outcome(r) /\ \A f \in {"f", "g"} : Made(r, f) <= Made(t, f)
                    \/ Checks(body) /\ Outcome(t) = <<"assert">>
      [] OTHER -> Outcome(t) = Outcome(r) /\ t.log = r.log

(* What a function does survives every sequence of the rewrites: on        *)
(* symbolic arguments the rewritten body returns the value the original    *)
(* returns, or leaves in the same way, and calls f and g as often.  A      *)
(* linearised body keeps the values only: its assertions are dropped and   *)
(* it runs every branch.  Partial linearisation in a model that defines    *)
(* zUnreachable moves calls out of their branches: f and g are called at   *)
(* least as often, and an assertion that is still a call may fail on a     *)
(* path that never reached it (ssa.rs:297-305, partial_linearize.rs:87).   *)
(* (linearize.rs, partial_linearize.rs, ssa.rs, ir.rs)                     *)
RewritesKeepRuns ==
  \A args \in SymbolicArgs : SameRun(Run(source, args, TRUE), Run(body, args, TRUE))

-----------------------------------------------------------------------------
(* Where names are written and used in a graph: the phi functions of a     *)
(* block come first, its terminator last.                                  *)

WriteSites(g) ==
  UNION {{[n |-> n, at |-> 0, k |-> i, id |-> g.nodes[n].phis[i].id] : i \in DOMAIN g.nodes[n].phis}
         \cup {[n |-> n, at |-> i, k |-> 0, id |-> write_ssa(g.nodes[n].instrs[i])] :
                 i \in {j \in DOMAIN g.nodes[n].instrs : writes(g.nodes[n].instrs[j])}}
         : n \in NodeIndices(g)}

UsedIn(i) ==
  CASE i.k \in {"init", "copy"} -> collect_ids(i.exp)
    [] i.k \in {"callfn", "primop"} -> ArgIds(i.args)
    [] OTHER -> {}

UseSites(g) ==
  UNION {UNION {{[n |-> n, at |-> i, id |-> id] : id \in UsedIn(g.nodes[n].instrs[i])} :
                  i \in DOMAIN g.nodes[n].instrs}
         \cup (IF g.nodes[n].term.k # "jump" THEN {}
               ELSE {[n |-> n, at |-> Len(g.nodes[n].instrs) + 1, id |-> id] :
                       id \in collect_ids(g.nodes[n].term.exp)})
         : n \in NodeIndices(g)}

Dominates(doms, m, n) == m = n \/ m \in doms[n]

SsaForm(g, doms, sites) ==
  /\ \A w \in sites : \A v \in sites : w.id = v.id => w = v
  /\ \A u \in UseSites(g) :
       u.id.number >= 0 =>
         \E w \in sites : w.id = u.id /\ (w.n \in doms[u.n] \/ (w.n = u.n /\ w.at < u.at))
  /\ \A n \in NodeIndices(g) : \A i \in DOMAIN g.nodes[n].phis :
       \A j \in DOMAIN g.nodes[n].phis[i].args :
         \E w \in sites : /\ w.id = g.nodes[n].phis[i].args[j]
                          /\ Dominates(doms, w.n, Predecessors(g, n)[j])

(* The graph both linearisations start from is in SSA form: a numbered     *)
(* name is written in one place, every use comes after that place on every *)
(* path, and so does the predecessor that passes it to a phi function.     *)
(* (CFG::ssa, ssa.rs)                                                      *)
SingleAssignment ==
  \E g \in {ssa(NewCFG(prune_labels(label_instrs(body))))} :
    \E doms \in {Dominators(g)} : \E sites \in {WriteSites(g)} : SsaForm(g, doms, sites)
=============================================================================
