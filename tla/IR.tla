---------------------------------- MODULE IR ----------------------------------
(***************************************************************************)
(* The intermediate representation of a function body and the rewrites     *)
(* that act on its instruction vector (isla-lib/src/ir.rs): labelling and  *)
(* unlabelling, assertions turned into jumps, monomorphisation, and the    *)
(* abstraction of calls.                                                   *)
(*                                                                         *)
(* A Name is a tuple: <<"x">> for an identifier of the program, longer     *)
(* tuples for names made by Symtab::gensym, whose only promise is to be    *)
(* new.  Offsets into a body start at 1.  Expressions keep the forms that  *)
(* matter to a rewrite: an identifier, a literal, a field of a structure   *)
(* and an operation; a location is an identifier or one of its fields.     *)
(***************************************************************************)
EXTENDS Integers, Sequences, FiniteSets, SequencesExt

(* The same sequence, written out: a sequence given by a function is       *)
(* evaluated before it is updated in places.                               *)
Listed(q) == SubSeq(q, 1, Len(q))

(* The members of a set as a sequence, in some order and in a given order. *)
Listing(S) == FoldSet(LAMBDA x, q : Append(q, x), << >>, S)
SortedBy(S, before(_, _)) == SortSeq(Listing(S), before)

(* The member of a set with one: {F(x) : x \in {e}} evaluates e once. *)
The(S) == CHOOSE x \in S : TRUE

Name(x) == <<x>>
RETURN == Name("return")
SAIL_ASSERT == "sail_assert"
ABSTRACT_CALL == "abstract_call"
ITE_PHI == "ite_phi"
NoField == "none"
NoLabel == 0

-----------------------------------------------------------------------------
(* Expressions *)

Id(n) == [k |-> "id", id |-> n]
Bool(b) == [k |-> "bool", b |-> b]
Unit == [k |-> "unit"]
Ref(f) == [k |-> "ref", f |-> f]
Field(e, f) == [k |-> "field", exp |-> e, field |-> f]
Call(op, args) == [k |-> "call", op |-> op, args |-> args]

(* The subexpressions of an expression. *)
Children(e) ==
  CASE e.k = "call" -> e.args
    [] e.k = "field" -> <<e.exp>>
    [] OTHER -> << >>

RECURSIVE collect_ids(_)
collect_ids(e) ==
  IF e.k = "id" THEN {e.id}
  ELSE UNION {collect_ids(Children(e)[i]) : i \in DOMAIN Children(e)}

Sum(s) == FoldLeft(LAMBDA a, b : a + b, 0, s)

RECURSIVE size_heuristic(_)
size_heuristic(e) ==
  1 + Sum([i \in DOMAIN Children(e) |-> size_heuristic(Children(e)[i])])

bool_not(e) == IF e.k = "bool" THEN Bool(~e.b) ELSE Call("Not", <<e>>)

IsBool(e, b) == e.k = "bool" /\ e.b = b

short_circuit_and(lhs, rhs) ==
  CASE IsBool(lhs, FALSE) \/ IsBool(rhs, FALSE) -> Bool(FALSE)
    [] IsBool(lhs, TRUE) -> rhs
    [] IsBool(rhs, TRUE) -> lhs
    [] OTHER -> Call("And", <<lhs, rhs>>)

short_circuit_or(lhs, rhs) ==
  CASE IsBool(lhs, TRUE) \/ IsBool(rhs, TRUE) -> Bool(TRUE)
    [] IsBool(lhs, FALSE) -> rhs
    [] IsBool(rhs, FALSE) -> lhs
    [] OTHER -> Call("Or", <<lhs, rhs>>)

-----------------------------------------------------------------------------
(* Locations and instructions *)

LocId(n) == [id |-> n, field |-> NoField]
LocField(n, f) == [id |-> n, field |-> f]

Decl(n, ty) == [k |-> "decl", id |-> n, ty |-> ty]
InitVar(n, ty, e) == [k |-> "init", id |-> n, ty |-> ty, exp |-> e]
Copy(loc, e) == [k |-> "copy", loc |-> loc, exp |-> e]
CallFn(loc, f, args) == [k |-> "callfn", loc |-> loc, f |-> f, args |-> args]
Primop(loc, f, args) == [k |-> "primop", loc |-> loc, f |-> f, args |-> args]
PrimopReset(loc, name) == [k |-> "reset", loc |-> loc, f |-> name]
Mono(n) == [k |-> "mono", id |-> n]
Jump(e, target) == [k |-> "jump", exp |-> e, target |-> target]
Goto(target) == [k |-> "goto", target |-> target]
Exit(cause) == [k |-> "exit", cause |-> cause]
Arbitrary == [k |-> "arbitrary"]
End == [k |-> "end"]

HasTarget(i) == i.k \in {"jump", "goto"}
IsCall(i, f) == i.k = "callfn" /\ i.f = f

(* append_instrs moves the targets of the appended body past the first. *)
append_instrs(lhs, rhs) ==
  lhs \o [i \in DOMAIN rhs |->
            IF HasTarget(rhs[i]) THEN [rhs[i] EXCEPT !.target = @ + Len(lhs)]
            ELSE rhs[i]]

-----------------------------------------------------------------------------
(* Labels: every instruction is labelled with its offset, the labels that  *)
(* are no target are dropped, and in the end targets become offsets again. *)

Labeled(l, i) == [label |-> l, instr |-> i]
Unlabeled(i) == Labeled(NoLabel, i)
is_labeled(li) == li.label # NoLabel

(* apply_label gives the pending label to the first of some instructions. *)
ApplyLabel(label, instrs) ==
  [i \in DOMAIN instrs |-> Labeled(IF i = 1 THEN label ELSE NoLabel, instrs[i])]

label_instrs(body) == [i \in DOMAIN body |-> Labeled(i, body[i])]

Targets(lis) ==
  {lis[i].instr.target : i \in {j \in DOMAIN lis : HasTarget(lis[j].instr)}}

prune_labels(lis) ==
  LET targets == Targets(lis)
  IN [i \in DOMAIN lis |->
        IF lis[i].label \in targets THEN lis[i] ELSE Unlabeled(lis[i].instr)]

(* The jump table keeps the last instruction that carries a label. *)
JumpTable(lis) ==
  [l \in {lis[i].label : i \in {j \in DOMAIN lis : is_labeled(lis[j])}} |->
     CHOOSE i \in DOMAIN lis :
       lis[i].label = l /\ \A j \in DOMAIN lis : lis[j].label = l => j <= i]

unlabel_instrs(lis) ==
  LET table == JumpTable(lis)
  IN [i \in DOMAIN lis |->
        IF HasTarget(lis[i].instr)
        THEN [lis[i].instr EXCEPT !.target = table[@]]
        ELSE lis[i].instr]

-----------------------------------------------------------------------------
(* Assertions: a call of sail_assert becomes a jump to a handler placed    *)
(* after the body, which exits or assigns unit and comes back.             *)

AssertHandler(call, at, back) ==
  << Jump(call.args[1], at + 2), Exit("AssertionFailure"),
     Copy(call.loc, Unit), Goto(back) >>

instrs_assertions_to_jumps(body) ==
  LET asserts == SelectSeq([i \in DOMAIN body |-> i],
                           LAMBDA i : IsCall(body[i], SAIL_ASSERT))
      handler(n) == Len(body) + 4 * (n - 1) + 1
      number(i) == CHOOSE n \in DOMAIN asserts : asserts[n] = i
  IN [i \in DOMAIN body |->
        IF IsCall(body[i], SAIL_ASSERT) THEN Goto(handler(number(i))) ELSE body[i]]
     \o FlattenSeq([n \in DOMAIN asserts |->
          AssertHandler(body[asserts[n]], handler(n), asserts[n] + 1)])

-----------------------------------------------------------------------------
(* Monomorphisation: every identifier in the arguments of a call of a      *)
(* monomorphising function is made concrete before the call.               *)

ArgIds(args) == UNION {collect_ids(args[i]) : i \in DOMAIN args}

MonoInstrs(li, mono_fns) ==
  IF li.instr.k = "callfn" /\ li.instr.f \in mono_fns /\ ArgIds(li.instr.args) # {}
  THEN ApplyLabel(li.label,
         [i \in 1 .. Cardinality(ArgIds(li.instr.args)) |->
            Mono(Listing(ArgIds(li.instr.args))[i])] \o <<li.instr>>)
  ELSE <<li>>

insert_monomorphize_instrs(body, mono_fns) ==
  unlabel_instrs(FlattenSeq([i \in DOMAIN body |->
    MonoInstrs(label_instrs(body)[i], mono_fns)]))

-----------------------------------------------------------------------------
(* Abstraction: a call becomes an abstract call that also names the        *)
(* function; with a property, the result is assumed to have it.            *)

abstract_function(body, target) ==
  [i \in DOMAIN body |->
     IF IsCall(body[i], target)
     THEN [body[i] EXCEPT !.args = Append(@, Ref(target)), !.f = ABSTRACT_CALL]
     ELSE body[i]]

(* The three names are gensyms, new at every call. *)
AbstractInstrs(li, target, property) ==
  LET ret_val == <<"abstract", li.label, 1>>
      prop == <<"abstract", li.label, 2>>
      unit_val == <<"abstract", li.label, 3>>
      call == li.instr
  IN IF IsCall(call, target)
     THEN ApplyLabel(li.label,
            << Decl(ret_val, "Bool"), Decl(prop, "Bool"), Decl(unit_val, "Unit"),
               CallFn(LocId(ret_val), ABSTRACT_CALL, Append(call.args, Ref(target))),
               CallFn(LocId(prop), property, Append(call.args, Id(ret_val))),
               Primop(LocId(unit_val), "assume", <<Id(prop)>>),
               Copy(call.loc, Id(ret_val)) >>)
     ELSE <<li>>

abstract_function_with_property(body, target, property) ==
  unlabel_instrs(FlattenSeq([i \in DOMAIN body |->
    AbstractInstrs(label_instrs(body)[i], target, property)]))

-----------------------------------------------------------------------------
(* Calls of externs become primitive operations, or the special calls the  *)
(* interpreter treats by name; an abstract extern becomes an abstract      *)
(* primitive; a name without any of these stays a call.  primops is a pair *)
(* of sets: the operations, and the constants read through a reset.        *)

SpecialCalls == {"reg_deref", "reset_registers", "interrupt_pending",
                 "read_register_from_vector", "write_register_from_vector",
                 "instr_announce"}
SpecialCall(name) == IF name = "platform_instr_announce" THEN "instr_announce" ELSE name

insert_instr_primops(i, externs, primops) ==
  IF ~(i.k = "callfn" /\ i.f \in DOMAIN externs) THEN i
  ELSE LET e == externs[i.f]
       IN CASE e.abstract ->
                 CallFn(i.loc, "abstract_primop", Append(i.args, Ref(i.f)))
            [] ~e.abstract /\ e.name \in primops.ops -> Primop(i.loc, e.name, i.args)
            [] ~e.abstract /\ e.name \in primops.consts \ primops.ops -> PrimopReset(i.loc, e.name)
            [] OTHER -> IF SpecialCall(e.name) \in SpecialCalls THEN CallFn(i.loc, SpecialCall(e.name), i.args) ELSE i

(* The mode decides which primitive sail_assert is. *)
AssertExtern(mode) ==
  SAIL_ASSERT :> [name |-> IF mode = "Optimistic" THEN "optimistic_assert"
                           ELSE "pessimistic_assert", abstract |-> FALSE]

insert_primops(body, externs, primops, mode) ==
  [i \in DOMAIN body |->
     insert_instr_primops(body[i], AssertExtern(mode) @@ externs, primops)]
=============================================================================
