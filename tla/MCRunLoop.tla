------------------------------ MODULE MCRunLoop -----------------------------
(* run_loop for TLC: every program with a slot or two filled from a menu   *)
(* of instructions, between fixed declarations and a fixed return.         *)
EXTENDS ConcreteRun, EventTree

-----------------------------------------------------------------------------
(* Programs *)

id(x) == [e |-> "id", id |-> x]
val(v) == [e |-> "val", v |-> v]
undefined == [e |-> "undefined"]
eq(x, y) == [e |-> "op", op |-> "eq", x |-> id(x), y |-> id(y)]

IDecl(x) == [i |-> "Decl", id |-> x, exp |-> undefined]
IInit(x, e) == [i |-> "Init", id |-> x, exp |-> e]
ICopy(l, e) == [i |-> "Copy", loc |-> l, exp |-> e]
IJump(e, t) == [i |-> "Jump", exp |-> e, target |-> t]
IGoto(t) == [i |-> "Goto", target |-> t, exp |-> undefined]
IMono(x) == [i |-> "Monomorphize", id |-> x, exp |-> undefined]
ICall(l, f, e) == [i |-> "Call", loc |-> l, fn |-> f, arg |-> e, exp |-> undefined]
IPrim(op, e) == [i |-> "Primop", op |-> op, loc |-> "y", exp |-> e]
IExit(c) == [i |-> "Exit", cause |-> c, exp |-> undefined]
IEnd == [i |-> "End", exp |-> undefined]
IArb == [i |-> "Arbitrary", exp |-> undefined]

(* f calls g on one branch, where g is stopped, and returns an unknown on  *)
(* the other; g is the identity; k returns poison or its argument.         *)
Functions ==
  [f |-> <<IJump(id("a"), 3), IEnd, ICall("L", "g", id("a")), IEnd>>,
   g |-> <<IMono("a"), ICopy("return", id("a")), IEnd>>,
   h |-> <<IEnd>>,
   k |-> <<IJump(eq("a", "L"), 3), IArb, ICopy("return", id("a")), IEnd>>]

Main(slots) ==
  <<IDecl("x"), IInit("y", id("a"))>> \o slots \o <<ICopy("return", id("x")), IEnd>>

Program(main) == [n \in DOMAIN Functions \cup {"main"} |-> IF n = "main" THEN main ELSE Functions[n]]

Moves == {ICopy("x", eq("a", "R")), ICopy("R", id("x")), ICopy("L", id("a")), IDecl("x"),
          ICopy("PC", id("x")), ICall("x", "reg_deref", val(Unit)),
          ICall("x", "abstract_call", id("x"))}
Forks == {IJump(id("x"), 6), IJump(eq("x", "y"), 5), IMono("x"), IMono("R")}
Calls == {ICall("x", "f", id("a")), ICall("x", "g", id("x")), ICall("R", "k", id("x"))}
Asserts == {IPrim("assume", eq("x", "a")), IPrim("optimistic_assert", id("x")),
            IPrim("pessimistic_assert", eq("x", "R"))}
Ends1 == {ICall("x", "h", id("x")), ICall("y", "instr_announce", val(Bit(0))),
          ICall("y", "instr_announce", val(Bit(1))),
          ICall("x", "missing", id("x")), IExit("Exit"), IExit("MatchFailure"), IGoto(9),
          ICopy("x", id("q"))}

Menu == Moves \cup Forks \cup Calls \cup Asserts \cup Ends1

\* A loop that only the limit on the architectural pc ends.
Loop == <<ICall("R", "instr_announce", val(Bit(1))), IJump(undefined, 1), IEnd>>

MCPrograms ==
  {Program(Main(<<m1, m2, m3>>)) :
     m1 \in {IJump(id("x"), 5), IMono("x"), ICall("x", "f", id("a")), ICall("R", "k", id("x"))},
     m2 \in Menu,
     m3 \in {IJump(eq("x", "y"), 6), IMono("R")} \cup Asserts}
    \cup {Program(Loop)}

MCTraceFunctions == {"f"}
MCStops == [g |-> [ctx |-> [f |-> "Kill"], direct |-> "None"],
            h |-> [ctx |-> [n \in {} |-> "None"], direct |-> "Abstract"]]
MCAssumptions == [g |-> <<[arg |-> 1, result |-> 1]>>]
\* No run of these programs is longer.
MCSteps == 0..40

\* What the theorems on the paths assume holds of these programs.
ASSUME ContextsAgree /\ AnnouncesLiterals /\ AssumptionsHold

-----------------------------------------------------------------------------
(* Properties *)

Traces == [n \in DOMAIN collected |-> collected[n].trace]

(* The tree of the traces has one root-to-leaf path for each path that was *)
(* executed, with the same branches (EventTree::add_events).               *)
TreeHasEveryPath ==
  Finished =>
    {p.branches : p \in PathsOf(TreeOf(Traces))} = {Branches(Traces[n]) : n \in DOMAIN Traces}

=============================================================================
