------------------------------- MODULE Solver -------------------------------
(***************************************************************************)
(* isla-lib/src/smt.rs: the Solver, its Trace and its Checkpoints.         *)
(*                                                                         *)
(* Z3 is external: the assertions given to it are represented by the set   *)
(* of assignments that satisfy them (`models`), so that check_sat_with is  *)
(* exact.  Every constant is a bit, booleans included.  An assignment is a *)
(* number whose bit n is the value of the n-th constant that is declared   *)
(* on a path; MaxConsts of them are told apart and later ones are 0.  A    *)
(* constant that is asserted equal to an older Sym as soon as it is        *)
(* declared has no value of its own: its declaration carries that Sym.     *)
(*                                                                         *)
(* A term is an atom (a Sym or a bit) or an operator on two atoms; its     *)
(* meaning is the set of the assignments in which it is 1.                 *)
(***************************************************************************)
EXTENDS Integers, Sequences, FiniteSets

CONSTANT MaxConsts    \* bound: declared constants that are told apart

ASSUME SolverAssumption == MaxConsts \in Nat

Bits == {0, 1}
Assignments == 0..(2^MaxConsts - 1)

Var(n) == [op |-> "var", x |-> n]
Lit(b) == [op |-> "lit", x |-> b]
Term(op, a, b) == [op |-> op, x |-> a, y |-> b]

\* Event::Smt(def, ..) for the three defs of the model, and the Fork event.
Free == 0 - 1
DeclareConst(v) == [ev |-> "declare", v |-> v, of |-> Free]
DeclareEqual(v, u) == [ev |-> "declare", v |-> v, of |-> u]
DefineConst(v, e) == [ev |-> "define", v |-> v, exp |-> e]
AssertDef(e) == [ev |-> "assert", exp |-> e]
Fork(n, v, branch) == [ev |-> "fork", id |-> n, v |-> v, branch |-> branch]

-----------------------------------------------------------------------------
(* The solver: next_var, the meaning of each Sym (decls), the number of    *)
(* declared constants, the asserted models, and the trace as its           *)
(* checkpointed segments (oldest first) and its head.                      *)

\* Solver::new
NewSolver ==
  [next_var |-> 0, decls |-> [v \in {} |-> {}], consts |-> 0, models |-> Assignments,
   tail |-> <<>>, head |-> <<>>]

atom_meaning(s, a) ==
  IF a.op = "var" THEN s.decls[a.x] ELSE IF a.x = 1 THEN Assignments ELSE {}

Same(A, B) == {w \in Assignments : w \in A <=> w \in B}

translate_exp(s, e) ==
  CASE e.op \in {"var", "lit"} -> atom_meaning(s, e)
    [] e.op = "eq" -> Same(atom_meaning(s, e.x), atom_meaning(s, e.y))
    [] e.op = "neq" -> Assignments \ Same(atom_meaning(s, e.x), atom_meaning(s, e.y))

\* The value of a new constant is the next bit of the assignment.
next_bit(s) ==
  {w \in Assignments : s.consts < MaxConsts /\ (w \div 2^s.consts) % 2 = 1}

Declare(s, v, meaning) ==
  [s EXCEPT !.decls = [u \in DOMAIN s.decls \cup {v} |-> IF u = v THEN meaning ELSE s.decls[u]]]

\* add_event_internal and add_internal: what an event does to Z3.
add_event_internal(s, e) ==
  CASE e.ev = "declare" ->
         IF e.of # Free THEN Declare(s, e.v, s.decls[e.of])
         ELSE [Declare(s, e.v, next_bit(s)) EXCEPT !.consts = @ + 1]
    [] e.ev = "define" -> Declare(s, e.v, translate_exp(s, e.exp))
    [] e.ev = "assert" -> [s EXCEPT !.models = @ \cap translate_exp(s, e.exp)]
    [] OTHER -> s

\* add_event, add and add_with_location.
add_event(s, e) == [add_event_internal(s, e) EXCEPT !.head = Append(@, e)]

\* fresh() hands out s.next_var.
declare_const(s) == add_event([s EXCEPT !.next_var = @ + 1], DeclareConst(s.next_var))

define_const(s, e) == add_event([s EXCEPT !.next_var = @ + 1], DefineConst(s.next_var, e))

\* check_sat_with(e) answers Sat.
can_be(s, e) == s.models \cap translate_exp(s, e) # {}

\* Trace::checkpoint moves the head to the shared tail ...
checkpointed(s) == [s EXCEPT !.tail = Append(@, s.head), !.head = <<>>]

\* ... and the Checkpoint holds that tail and the next variable.
checkpoint(s) == [next_var |-> s.next_var, trace |-> Append(s.tail, s.head)]

\* Checkpoint::new, of a task that starts with nothing asserted.
NewCheckpoint == [next_var |-> 0, trace |-> <<>>]

\* The events of a tail: one segment after the other.
append_segment(events, segment) == events \o segment

Segments == INSTANCE SeqFold WITH Step <- append_segment
Replay == INSTANCE SeqFold WITH Step <- add_event_internal

\* replay: every event of every segment, oldest first, into a new solver.
replay(c) == [Replay!fold(NewSolver, Segments!fold(<<>>, c.trace)) EXCEPT !.tail = c.trace]

\* Mutant: the variable counter is not restored.
from_checkpoint_mutant(c) == replay(c)

from_checkpoint(c) == [replay(c) EXCEPT !.next_var = c.next_var]

\* Trace::to_vec lists the newest event first; here the oldest comes first.
to_vec(s) == Segments!fold(<<>>, s.tail) \o s.head

=============================================================================
