----------------------------- MODULE MemoryModel -----------------------------
(***************************************************************************)
(* The memory model language compiled to SMT, isla-mml/src/smt.rs: an      *)
(* expression of the language denotes a set or a relation of events, and   *)
(* compiling it for the events evs gives the formula that says evs is in   *)
(* it.  A formula is a tree [op, args, ...], a name is <<"atom", name>> or *)
(* an event variable <<"ev", n>>.                                          *)
(*                                                                         *)
(* The compiler is c = [next, out, stack, err]: the next fresh number, the *)
(* items written so far, the formulas compiled and not yet used, the error *)
(* that ended it.                                                          *)
(***************************************************************************)
EXTENDS Integers, Sequences, FiniteSets, SequencesExt, FiniteSetsExt, TLC

-----------------------------------------------------------------------------
(* Expressions *)

Wildcard == [x |-> "_"]
Absent == [x |-> "absent"]
Id(f) == [x |-> "id", f |-> f]
AppTo(f, args) == [x |-> "app", f |-> f, args |-> args]
Op1(op, a) == [x |-> op, a |-> a]
Op2(op, a, b) == [x |-> op, a |-> a, b |-> b]
IfThen(v, a, b) == [x |-> "if", v |-> v, a |-> a, b |-> b]
RelationOf(v1, v2, body) == [x |-> "relation", vs |-> <<v1, v2>>, a |-> body]
Quantified(q, vs, body) == [x |-> q, vs |-> vs, a |-> body]
Tuple(xs) == [x |-> "tuple", args |-> xs]
SetLiteral(xs) == [x |-> "literal", args |-> xs]

(* Formulas *)
Atom(id) == <<"atom", id>>
Ev(n) == <<"ev", n>>
Ev1 == <<"ev", 1>>
Ev2 == <<"ev", 2>>
Ref(name) == [op |-> "ref", name |-> name, args |-> << >>]
List(op, args) == [op |-> op, args |-> args]
Call(f, args) == [op |-> "call", name |-> f, args |-> args]
Binder(q, names, body) == [op |-> q, names |-> names, args |-> <<body>>]
True == List("and", << >>)
False == List("or", << >>)
Negation(s) == List("not", <<s>>)

-----------------------------------------------------------------------------
(* The compiler's stack *)

NewCompiler == [next |-> 3, out |-> << >>, stack |-> << >>, err |-> ""]
Top(c) == c.stack[Len(c.stack)]
Push(c, s) == [c EXCEPT !.stack = Append(@, s)]
Pop(c) == [c EXCEPT !.stack = Front(@)]
Fail(c, what) == [Push(c, False) EXCEPT !.err = what]
Emit(c, item) == [c EXCEPT !.out = Append(@, item)]
Fresh(c, n) == [c EXCEPT !.next = @ + n]

(* The n formulas on the top become the arguments of one. *)
TopArgs(c, n) == SubSeq(c.stack, Len(c.stack) - n + 1, Len(c.stack))
Replace(c, n, s) == [c EXCEPT !.stack = Append(SubSeq(@, 1, Len(@) - n), s)]
Apply(c, n, op) == Replace(c, n, List(op, TopArgs(c, n)))
Invert(c) == Replace(c, 1, Negation(Top(c)))
Bind(c, q, names) == Replace(c, 1, Binder(q, names, Top(c)))
LetBind(c, names, evs) == Replace(c, 1, [op |-> "let", names |-> names, args |-> Append(evs, Top(c))])

(* How many events an operator is about; the others take any number. *)
Arity(x) ==
  CASE x.x \in {"cartesian", "seq", "identity", "idunion", "inverse", "tclosure", "rtclosure", "relation"} -> {2}
    [] x.x = "set" -> {1}
    [] x.x \in {"in", "forall", "exists"} -> {0}
    [] x.x \in {"tuple", "int"} -> {}
    [] OTHER -> 0 .. 9

Wildcards(args) == Cardinality({i \in DOMAIN args : args[i] = Wildcard})
Names(vs) == [i \in DOMAIN vs |-> Atom(vs[i])]

RECURSIVE compile_exp(_, _, _)

(* Several expressions, each with its events. *)
RECURSIVE CompileAll(_, _)
CompileAll(jobs, c) ==
  IF jobs = << >> \/ c.err # "" THEN c
  ELSE CompileAll(Tail(jobs), compile_exp(jobs[1][1], jobs[1][2], c))

(* The arguments in order, the wildcards standing for the events, and the  *)
(* events no wildcard took after them.                                     *)
compile_app(x, evs, c) ==
  LET wild == Wildcards(x.args)
      before(i) == Cardinality({j \in 1 .. (i - 1) : x.args[j] = Wildcard})
      Argument(a, i) ==
        IF x.args[i] = Wildcard THEN Push(a, evs[before(i) + 1]) ELSE CompileAll(<<<<x.args[i], << >>>>>>, a)
      args == FoldLeft(Argument, c, [i \in DOMAIN x.args |-> i])
      rest == SubSeq(evs, wild + 1, Len(evs))
  IN IF wild \notin {0, Len(evs)} THEN Fail(c, "wildcards")
     ELSE IF args.err # "" THEN args
     ELSE Replace(args, Len(x.args), Call(Atom(x.f), TopArgs(args, Len(x.args)) \o rest))

(* A relation that contains the expression and is transitive: any such     *)
(* relation, the least is not asked for.                                   *)
compile_closure(reflexive, x, evs, c) ==
  LET id == <<"closure", c.next>>
      e1 == Ev(c.next + 1)
      e2 == Ev(c.next + 2)
      done == compile_exp(x, <<Ref(e1), Ref(e2)>>, Fresh(c, 4))
  IN IF done.err # "" THEN done
     ELSE Push(Emit(Pop(done), [k |-> "closure", id |-> id, names |-> <<e1, e2>>, s |-> Top(done),
                                reflexive |-> reflexive]),
               Call(id, evs))

(* A literal: one of its elements, which are tuples of the events. *)
Element(y) == IF y.x = "tuple" THEN y.args ELSE <<y>>
compile_literal(x, evs, c) ==
  LET Equal(a, p) == Apply(Push(CompileAll(<<<<p[1], << >>>>>>, a), p[2]), 2, "eq")
      Member(a, y) ==
        LET parts == Element(y)
        IN IF Len(parts) # Len(evs) THEN Fail(a, "literal")
           ELSE Apply(FoldLeft(Equal, a, [i \in DOMAIN evs |-> <<parts[i], evs[i]>>]), Len(evs), "and")
  IN Apply(FoldLeft(Member, c, x.args), Len(x.args), "or")

(* Exp::Binary *)
compile_binary(x, evs, c) ==
  LET ev == Ev(c.next)
      Both(op) == Apply(CompileAll(<<<<x.a, evs>>, <<x.b, evs>>>>, c), 2, op)
      parts == Element(x.a)
      args == CompileAll([i \in DOMAIN parts |-> <<parts[i], << >>>>], c)
  IN CASE x.x = "diff" -> Apply(Invert(CompileAll(<<<<x.a, evs>>, <<x.b, evs>>>>, c)), 2, "and")
       [] x.x = "union" -> Both("or")
       [] x.x = "inter" -> Both("and")
       [] x.x = "implies" -> Both("implies")
       [] x.x = "eq" -> Both("eq")
       [] x.x = "neq" -> Invert(Both("eq"))
       [] x.x = "in" /\ args.err # "" -> args
       [] x.x = "in" /\ args.err = "" ->
            compile_exp(x.b, TopArgs(args, Len(parts)), [args EXCEPT !.stack = SubSeq(@, 1, Len(@) - Len(parts))])
       [] x.x = "seq" ->
            Bind(Apply(CompileAll(<<<<x.a, <<evs[1], Ref(ev)>>>>, <<x.b, <<Ref(ev), evs[2]>>>>>>, Fresh(c, 1)), 2, "and"),
                 "exists", <<ev>>)

(* Exp::Unary *)
compile_unary(x, evs, c) ==
  CASE x.x = "compl" -> Invert(compile_exp(x.a, evs, c))
    [] x.x = "identity" ->
         Apply(Push(CompileAll(<<<<x.a, <<evs[1]>>>>, <<x.a, <<evs[2]>>>>>>, c), List("eq", evs)), 3, "and")
    [] x.x = "idunion" -> Apply(Push(compile_exp(x.a, evs, c), List("eq", evs)), 2, "or")
    [] x.x = "inverse" -> compile_exp(x.a, Reverse(evs), c)
    [] x.x \in {"tclosure", "rtclosure"} -> compile_closure(x.x = "rtclosure", x.a, evs, c)

(* The expressions that bind names. *)
compile_binder(x, evs, c) ==
  CASE x.x \in {"set", "relation"} -> LetBind(compile_exp(x.a, << >>, c), Names(x.vs), evs)
    [] x.x \in {"forall", "exists"} -> Bind(compile_exp(x.a, << >>, c), x.x, Names(x.vs))
    [] x.x = "where forall" ->
         Bind(Apply(CompileAll(<<<<x.b, << >>>>, <<x.a, evs>>>>, c), 2, "and"), "forall", Names(x.vs))
    [] x.x = "where exists" ->
         Bind(Apply(CompileAll(<<<<x.b, << >>>>, <<x.a, evs>>>>, c), 2, "and"), "exists", Names(x.vs))

(* domain, range and extract. *)
compile_projection(x, evs, c) ==
  LET ev == Ev(c.next)
  IN CASE x.x = "domain" -> Bind(compile_exp(x.a, Append(evs, Ref(ev)), Fresh(c, 1)), "exists", <<ev>>)
       [] x.x = "range" -> Bind(compile_exp(x.a, <<Ref(ev)>> \o evs, Fresh(c, 1)), "exists", <<ev>>)
       [] x.x = "extract" ->
            LET done == compile_exp(x.a, << >>, c)
            IN Replace(done, 1, [op |-> "extract", hi |-> x.hi, lo |-> x.lo, args |-> <<Top(done)>>])

Binaries == {"diff", "union", "inter", "implies", "eq", "neq", "in", "seq"}
Unaries == {"compl", "identity", "idunion", "inverse", "tclosure", "rtclosure"}
Binders == {"set", "relation", "forall", "exists", "where forall", "where exists"}

compile_exp(x, evs, c) ==
  CASE c.err # "" -> c
    [] c.err = "" /\ Len(evs) \notin Arity(x) -> Fail(c, "arity")
    [] c.err = "" /\ Len(evs) \in Arity(x) ->
         CASE x.x = "empty" -> Push(c, False)
           [] x.x \in {"domain", "range", "extract"} -> compile_projection(x, evs, c)
           [] x.x = "app" -> compile_app(x, evs, c)
           [] x.x = "bits" -> Push(c, [op |-> "bits", bits |-> x.bits, args |-> << >>])
           [] x.x = "if" ->
                LET lhs == Apply(compile_exp(x.a, evs, Push(c, Ref(Atom(x.v)))), 2, "implies")
                IN IF x.b = Absent THEN Apply(Push(lhs, True), 2, "and")
                   ELSE Apply(Apply(compile_exp(x.b, evs, Push(lhs, Negation(Ref(Atom(x.v))))), 2, "implies"), 2, "and")
           [] x.x = "id" -> Push(c, IF evs = << >> THEN Ref(Atom(x.f)) ELSE Call(Atom(x.f), evs))
           [] x.x = "cartesian" ->
                LET sides == SelectSeq(<<<<x.a, <<evs[1]>>>>, <<x.b, <<evs[2]>>>>>>, LAMBDA j : j[1] # Absent)
                IN Apply(CompileAll(sides, c), Len(sides), "and")
           [] x.x \in Binaries -> compile_binary(x, evs, c)
           [] x.x \in Unaries -> compile_unary(x, evs, c)
           [] x.x \in Binders -> compile_binder(x, evs, c)
           [] x.x = "literal" -> compile_literal(x, evs, c)
           [] x.x = "accessor" ->
                LET done == compile_exp(x.a, << >>, c)
                IN Replace(done, 1, [op |-> "access", name |-> Atom(x.f), args |-> <<Top(done)>>])
           [] x.x = "indexed" ->
                LET done == CompileAll(<<<<x.a, << >>>>, <<x.b, << >>>>>>, c)
                IN Replace(done, 2, [op |-> "access", name |-> Atom(x.f), args |-> TopArgs(done, 2)])

-----------------------------------------------------------------------------
(* Checks and definitions *)

Const(ev) == [k |-> "const", name |-> ev]
Assertion(s) == [k |-> "assert", s |-> s]
Definition(f, names, s) == [k |-> "define", name |-> f, names |-> names, s |-> s]
Declaration(f, arity) == [k |-> "declare", name |-> f, arity |-> arity]

\* Mutant: acyclic asks that the relation itself be irreflexive.
compile_check_direct(check, x, c) ==
  LET e1 == Ev(c.next)
      pair == <<Ref(Ev1), Ref(Ev2)>>
      same == <<Ref(Ev1), Ref(Ev1)>>
  IN CASE check = "empty" -> Bind(Invert(compile_exp(x, pair, c)), "forall", <<Ev1, Ev2>>)
       [] check = "nonempty" -> compile_exp(x, <<Ref(e1), Ref(e1)>>, Emit(Fresh(c, 2), Const(e1)))
       [] check \in {"irreflexive", "acyclic"} -> Bind(Invert(compile_exp(x, same, c)), "forall", <<Ev1>>)
       [] check \in {"nonirreflexive", "nonacyclic"} -> compile_exp(x, <<Ref(e1), Ref(e1)>>, Emit(Fresh(c, 1), Const(e1)))

(* The formula of a check is left on the stack.  What is to be nonempty    *)
(* has constants for its witnesses.                                        *)
compile_check(check, x, c) ==
  LET e1 == Ev(c.next)
      e2 == Ev(c.next + 1)
      pair == <<Ref(Ev1), Ref(Ev2)>>
      same == <<Ref(Ev1), Ref(Ev1)>>
      witness == <<Ref(e1), Ref(e1)>>
  IN CASE check = "empty" -> Bind(Invert(compile_exp(x, pair, c)), "forall", <<Ev1, Ev2>>)
       [] check = "nonempty" -> compile_exp(x, <<Ref(e1), Ref(e2)>>, Emit(Emit(Fresh(c, 2), Const(e1)), Const(e2)))
       [] check = "irreflexive" -> Bind(Invert(compile_exp(x, same, c)), "forall", <<Ev1>>)
       [] check = "nonirreflexive" -> compile_exp(x, witness, Emit(Fresh(c, 1), Const(e1)))
       [] check = "acyclic" -> Bind(Invert(compile_closure(FALSE, x, same, c)), "forall", <<Ev1>>)
       [] check = "nonacyclic" -> compile_closure(FALSE, x, witness, Emit(Fresh(c, 1), Const(e1)))

(* A definition without an annotation is of a relation, with one of a      *)
(* Boolean; its own parameters come first.                                 *)
compile_let(def, c) ==
  LET names == Names(def.params) \o (IF def.relation THEN <<Ev1, Ev2>> ELSE << >>)
      done == compile_exp(def.a, [i \in DOMAIN names |-> Ref(names[i])], c)
  IN Emit(Pop(done), Definition(Atom(def.f), names, Top(done)))

compile_def(def, c) ==
  CASE c.err # "" -> c
    [] def.d = "let" -> compile_let(def, c)
    [] def.d = "assert" -> LET done == compile_exp(def.a, << >>, c) IN Emit(Pop(done), Assertion(Top(done)))
    [] def.d = "flag" -> LET done == compile_check(def.check, def.a, c)
                         IN Emit(Pop(done), Definition(Atom(def.f), << >>, Top(done)))
    [] def.d = "check" -> LET done == compile_check(def.check, def.a, c) IN Emit(Pop(done), Assertion(Top(done)))
    [] def.d = "declare" -> Emit(c, Declaration(Atom(def.f), def.arity))
    [] def.d = "define" -> LET done == compile_exp(def.a, << >>, c)
                           IN Emit(Pop(done), Definition(Atom(def.f), Names(def.params), Top(done)))

(* The variants asked for hold, the others the model names do not. *)
compile_variants(variants, chosen, c) ==
  LET value(v) == Definition(Atom(v), << >>, IF v \in chosen THEN True ELSE False)
  IN FoldSet(LAMBDA v, a : Emit(a, value(v)), c, variants \cup chosen)

compile_memory_model(defs, variants, chosen) ==
  FoldLeft(LAMBDA c, def : compile_def(def, c), compile_variants(variants, chosen, NewCompiler), defs)

Let(f, x) == [d |-> "let", f |-> f, params |-> << >>, relation |-> TRUE, a |-> x]
Check(check, x) == [d |-> "check", check |-> check, a |-> x]

-----------------------------------------------------------------------------
(* What the solver makes of it.  m is [events, val, env]: the events, the  *)
(* meaning of the names (a relation is the set of its tuples) and of the   *)
(* bound ones.                                                             *)

With(m, name, value) == [m EXCEPT !.val = (name :> value) @@ @]
BindAll(m, names, values) ==
  [m EXCEPT !.env = FoldLeft(LAMBDA env, i : (names[i] :> values[i]) @@ env, @, [i \in DOMAIN names |-> i])]

RECURSIVE Denotes(_, _)
Denotes(s, m) ==
  LET arg(i) == Denotes(s.args[i], m)
      args == [i \in DOMAIN s.args |-> arg(i)]
      instances == [DOMAIN s.names -> m.events]
  IN CASE s.op = "ref" -> IF s.name \in DOMAIN m.env THEN m.env[s.name] ELSE m.val[s.name]
       [] s.op = "call" -> args \in m.val[s.name]
       [] s.op = "access" -> m.val[s.name][args]
       [] s.op = "bits" -> s.bits
       [] s.op = "extract" -> <<s.hi - s.lo + 1, (arg(1)[2] \div 2 ^ s.lo) % 2 ^ (s.hi - s.lo + 1)>>
       [] s.op = "and" -> \A i \in DOMAIN s.args : arg(i)
       [] s.op = "or" -> \E i \in DOMAIN s.args : arg(i)
       [] s.op = "not" -> ~arg(1)
       [] s.op = "implies" -> arg(1) => arg(2)
       [] s.op = "eq" -> arg(1) = arg(2)
       [] s.op = "let" -> \E n \in {BindAll(m, s.names, args)} : Denotes(s.args[Len(s.args)], n)
       [] s.op = "exists" -> \E n \in {BindAll(m, s.names, e) : e \in instances} : Denotes(s.args[1], n)
       [] s.op = "forall" -> \A n \in {BindAll(m, s.names, e) : e \in instances} : Denotes(s.args[1], n)

(* The tuples of events that satisfy a formula. *)
Extension(s, names, m) == {e \in [DOMAIN names -> m.events] : \E n \in {BindAll(m, names, e)} : Denotes(s, n)}

ClosureAxioms(item, r, m) ==
  /\ Extension(item.s, item.names, m) \subseteq r
  /\ \A p \in r, q \in r : p[2] = q[1] => <<p[1], q[2]>> \in r
  /\ item.reflexive => \A e \in m.events : <<e, e>> \in r

(* The least relation the axioms allow: where the formulas only ask that a *)
(* closure not hold, the solver has a model exactly when this is one.      *)
Through(k, r) == r \cup {<<p[1], q[2]>> : p \in {x \in r : x[2] = k}, q \in {x \in r : x[1] = k}}
LeastClosure(item, m) ==
  FoldSet(Through, Extension(item.s, item.names, m), m.events)
  \cup (IF item.reflexive THEN {<<e, e>> : e \in m.events} ELSE {})

(* Whether the items have a model, with every relation tried as a closure, *)
(* or with the least only.                                                 *)
RECURSIVE Satisfiable(_, _, _)
Satisfiable(items, m, least) ==
  IF items = << >> THEN TRUE
  ELSE LET item == items[1]
           Rest(values, name) == \E n \in {With(m, name, v) : v \in values} : Satisfiable(Tail(items), n, least)
       IN CASE item.k = "assert" -> Denotes(item.s, m) /\ Satisfiable(Tail(items), m, least)
            [] item.k = "define" /\ item.names = << >> -> Rest({Denotes(item.s, m)}, item.name)
            [] item.k = "define" /\ item.names # << >> -> Rest({Extension(item.s, item.names, m)}, item.name)
            [] item.k = "const" -> Rest(m.events, item.name)
            [] item.k = "declare" -> Rest(SUBSET [1 .. item.arity -> m.events], item.name)
            [] item.k = "closure" ->
                 Rest(IF least THEN {LeastClosure(item, m)}
                      ELSE {s \in SUBSET (m.events \X m.events) : ClosureAxioms(item, s, m)}, item.id)
=============================================================================
