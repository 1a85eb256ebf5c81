------------------------------ MODULE Simplify ------------------------------
(***************************************************************************)
(* Trace simplification, isla-lib/src/simplify.rs.  A trace of one path is *)
(* kept newest event first, as the solver leaves it; the segments of an    *)
(* event tree are oldest first.                                            *)
(*                                                                         *)
(* A symbol is a pair of a number and its sort, as in SmtExp.  A value is  *)
(* a symbol, a constant or a structure; an accessor is a sequence of field *)
(* names.  The register events carry the value of the whole register, an   *)
(* assumption the value of the part it is about.  Every other event        *)
(* (memory accesses, instructions, branches, marks, calls of abstract      *)
(* functions) has the list of the values it mentions.                      *)
(***************************************************************************)
EXTENDS SmtExp, EventTree

Declare(v) == [ev |-> "declare", v |-> v]
Define(v, e) == [ev |-> "define", v |-> v, e |-> e]
Constrain(e) == [ev |-> "assert", e |-> e]
ReadReg(r, acc, val) == [ev |-> "read", reg |-> r, acc |-> acc, val |-> val]
WriteReg(r, acc, val) == [ev |-> "write", reg |-> r, acc |-> acc, val |-> val]
AssumeReg(r, acc, val) == [ev |-> "assume", reg |-> r, acc |-> acc, val |-> val]
Observe(vals) == [ev |-> "observe", vals |-> vals]
Cycle == [ev |-> "cycle"]
Fork(v, branch) == [ev |-> "fork", v |-> v, branch |-> branch]

VSym(v) == [k |-> "sym", v |-> v]
VBits(w, n) == [k |-> "bits", bits |-> <<w, n>>]
VStruct(fields) == [k |-> "struct", fields |-> fields]

(* The other events; "observe" stands for any of them. *)
Observing == {"observe", "readmem", "writemem", "announce", "branch", "abstract", "instr", "mark", "function"}

IsDef(ev) == ev.ev \in {"declare", "define"}
IsSmt(ev) == ev.ev \in {"declare", "define", "assert"}
IsReg(ev) == ev.ev \in {"read", "write"}
HasExp(ev) == ev.ev \in {"define", "assert"}

-----------------------------------------------------------------------------
(* Uses *)

RECURSIVE uses_in_value(_, _)
uses_in_value(val, v) ==
  CASE val.k = "sym" -> IF val.v = v THEN 1 ELSE 0
    [] val.k = "bits" -> 0
    [] val.k = "struct" -> SumSeq([i \in DOMAIN val.fields |-> uses_in_value(val.fields[i][2], v)])

RECURSIVE SymbolsOf(_)
SymbolsOf(val) ==
  CASE val.k = "sym" -> {val.v}
    [] val.k = "bits" -> {}
    [] val.k = "struct" -> UNION {SymbolsOf(val.fields[i][2]) : i \in DOMAIN val.fields}

(* The uses that keep a symbol in the trace whatever the SMT events say. *)
required_uses(ev, v) ==
  CASE ev.ev \in {"declare", "fork"} -> IF ev.v = v THEN 1 ELSE 0
    [] ev.ev \in {"read", "write", "assume"} -> uses_in_value(ev.val, v)
    [] ev.ev \in Observing -> SumSeq([i \in DOMAIN ev.vals |-> uses_in_value(ev.vals[i], v)])
    [] OTHER -> 0

event_uses(ev, v) ==
  CASE HasExp(ev) -> Occurrences(ev.e, v)
    [] ev.ev = "declare" -> 0
    [] OTHER -> required_uses(ev, v)

calculate_uses(events, v) == SumSeq([i \in DOMAIN events |-> event_uses(events[i], v)])
calculate_required_uses(events, v) == SumSeq([i \in DOMAIN events |-> required_uses(events[i], v)])

RECURSIVE calculate_tree_uses(_, _)
calculate_tree_uses(tree, v) ==
  calculate_uses(tree.prefix, v)
  + SumSeq([i \in DOMAIN tree.forks |-> calculate_tree_uses(tree.forks[i], v)])

-----------------------------------------------------------------------------
(* Dependencies: what a symbol is defined from, and what that leads to *)

References(events, v) ==
  UNION {Variables(events[i].e) : i \in {j \in DOMAIN events : events[j].ev = "define" /\ events[j].v = v}}

RECURSIVE DependenciesOf(_, _)
DependenciesOf(events, deps) ==
  LET more == UNION {References(events, v) : v \in deps}
  IN IF more \subseteq deps THEN deps ELSE DependenciesOf(events, deps \cup more)
dependencies(events, v) == DependenciesOf(events, {v})

(* The registers a symbol is tainted by, and whether it is by memory: the  *)
(* first value of a memory read is the value read, the second its tag.     *)
collect_taints(events, deps) ==
  [registers |-> {<<events[i].reg, events[i].acc>> :
                    i \in {j \in DOMAIN events : events[j].ev = "read" /\ SymbolsOf(events[j].val) \cap deps # {}}},
   memory |-> \E i \in DOMAIN events : /\ events[i].ev = "readmem"
                                       /\ \E v \in deps : VSym(v) \in {events[i].vals[1], events[i].vals[2]}]
taints(events, v) == collect_taints(events, dependencies(events, v))
value_taints(events, val) == collect_taints(events, DependenciesOf(events, SymbolsOf(val)))

-----------------------------------------------------------------------------
(* Renumbering *)

RECURSIVE renumber_val(_, _)
renumber_val(val, f) ==
  CASE val.k = "sym" -> VSym(f[val.v])
    [] val.k = "bits" -> val
    [] val.k = "struct" ->
         VStruct([i \in DOMAIN val.fields |-> <<val.fields[i][1], renumber_val(val.fields[i][2], f)>>])

renumber_exp(e, f) == MapVar(e, [v \in DOMAIN f |-> Var(f[v])])

renumber_event(ev, f) ==
  CASE ev.ev \in {"declare", "fork"} -> [ev EXCEPT !.v = f[@]]
    [] ev.ev = "define" -> [ev EXCEPT !.v = f[@], !.e = renumber_exp(@, f)]
    [] ev.ev = "assert" -> [ev EXCEPT !.e = renumber_exp(@, f)]
    [] ev.ev \in {"read", "write", "assume"} -> [ev EXCEPT !.val = renumber_val(@, f)]
    [] ev.ev \in Observing -> [ev EXCEPT !.vals = [i \in DOMAIN ev.vals |-> renumber_val(ev.vals[i], f)]]
    [] ev.ev = "cycle" -> ev

EventSymbols(ev) ==
  CASE ev.ev \in {"declare", "fork"} -> {ev.v}
    [] ev.ev = "define" -> {ev.v} \cup Variables(ev.e)
    [] ev.ev = "assert" -> Variables(ev.e)
    [] ev.ev \in {"read", "write", "assume"} -> SymbolsOf(ev.val)
    [] ev.ev \in Observing -> UNION {SymbolsOf(ev.vals[i]) : i \in DOMAIN ev.vals}
    [] ev.ev = "cycle" -> {}

(* A symbol not seen before takes the next number. *)
TakeNumber(acc, v) ==
  IF v \in DOMAIN acc.renaming THEN acc
  ELSE [acc EXCEPT !.renaming = (v :> <<acc.next, v[2]>>) @@ @, !.next = @ + 1]

RenumberEvent(acc, ev) ==
  LET met == FoldSet(LAMBDA v, a : TakeNumber(a, v), acc, EventSymbols(ev))
  IN [met EXCEPT !.out = Append(@, renumber_event(ev, met.renaming))]

(* The renaming is handed to each fork as it is after the prefix; the next *)
(* number is shared by all of them.                                        *)
RECURSIVE renumber_rec(_, _, _)
renumber_rec(tree, renaming, next) ==
  LET p == FoldLeft(RenumberEvent, [renaming |-> renaming, next |-> next, out |-> << >>], tree.prefix)
      forks == FoldLeft(LAMBDA a, t : LET r == renumber_rec(t, p.renaming, a.next)
                                      IN [next |-> r.next, out |-> Append(a.out, r.tree)],
                        [next |-> p.next, out |-> << >>], tree.forks)
  IN [tree |-> [tree EXCEPT !.prefix = p.out, !.forks = forks.out], next |-> forks.next]
renumber(tree) == renumber_rec(tree, << >>, 0).tree

RECURSIVE sort(_)
sort(tree) ==
  LET sorted == SortSeq(tree.forks, LAMBDA s, t : s.fork_id < t.fork_id)
  IN [tree EXCEPT !.forks = [i \in DOMAIN sorted |-> sort(sorted[i])]]

-----------------------------------------------------------------------------
(* Dead symbols *)

RECURSIVE remove_unused(_)
remove_unused(events) ==
  LET kept == SelectSeq(events, LAMBDA ev : IsDef(ev) => calculate_uses(events, ev.v) > 0)
  IN IF Len(kept) = Len(events) THEN kept ELSE remove_unused(kept)

RECURSIVE remove_unused_pass_tree(_, _)
remove_unused_pass_tree(tree, whole) ==
  [tree EXCEPT
     !.prefix = SelectSeq(@, LAMBDA ev : IsDef(ev) => calculate_tree_uses(whole, ev.v) > 0),
     !.forks = [i \in DOMAIN tree.forks |-> remove_unused_pass_tree(tree.forks[i], whole)]]

RECURSIVE remove_unused_tree(_)
remove_unused_tree(tree) ==
  LET kept == remove_unused_pass_tree(tree, tree)
  IN IF kept = tree THEN kept ELSE remove_unused_tree(kept)

(* Register events before the first cycle go, in the tree on every path. *)
BeforeCycle(events, i) == \A j \in 1 .. i : events[j].ev # "cycle"
KeepAt(events, keep(_)) ==
  LET places == SelectSeq([i \in DOMAIN events |-> i], keep)
  IN [k \in DOMAIN places |-> events[places[k]]]

HideSegment(events) == KeepAt(events, LAMBDA i : ~(IsReg(events[i]) /\ BeforeCycle(events, i)))
hide_initialization(events) == Reverse(HideSegment(Reverse(events)))

RECURSIVE hide_initialization_tree(_)
hide_initialization_tree(tree) ==
  LET hidden == [tree EXCEPT !.prefix = HideSegment(@)]
  IN IF ~BeforeCycle(tree.prefix, Len(tree.prefix)) THEN hidden
     ELSE [hidden EXCEPT !.forks = [i \in DOMAIN tree.forks |-> hide_initialization_tree(tree.forks[i])]]

-----------------------------------------------------------------------------
(* Registers *)

RECURSIVE restrict_to_accessor(_, _)
restrict_to_accessor(val, acc) ==
  IF acc = << >> THEN val
  ELSE LET i == CHOOSE j \in DOMAIN val.fields : val.fields[j][1] = Head(acc)
       IN VStruct(<<<<Head(acc), restrict_to_accessor(val.fields[i][2], Tail(acc))>>>>)

remove_extra_register_fields(events) ==
  [i \in DOMAIN events |->
     IF IsReg(events[i]) THEN [events[i] EXCEPT !.val = restrict_to_accessor(@, events[i].acc)]
     ELSE events[i]]

(* What is known of the parts of registers: a set of [reg, acc, item]. *)
Affects(acc, k) == IsPrefix(k.acc, acc) \/ IsPrefix(acc, k.acc)
remove_affected_register_parts(known, reg, acc) ==
  {k \in known : ~(k.reg = reg /\ Affects(acc, k))}

\* Mutant: a write of a part also hides an assumption about the whole.
drop_overlapping_register_parts(known, reg, acc) ==
  {k \in known : ~(k.reg = reg /\ Affects(acc, k))}

drop_shadowed_register_parts(known, reg, acc) ==
  {k \in known : ~(k.reg = reg /\ IsPrefix(acc, k.acc))}

Part(ev, item) == [reg |-> ev.reg, acc |-> ev.acc, item |-> item]

(* A read is dropped when it repeats the last one of the same part. *)
RepeatedStep(acc, ev) ==
  CASE ev.ev = "read" /\ Part(ev, ev.val) \in acc.known -> acc
    [] ev.ev = "read" /\ Part(ev, ev.val) \notin acc.known ->
         [known |-> remove_affected_register_parts(acc.known, ev.reg, ev.acc) \cup {Part(ev, ev.val)},
          out |-> Append(acc.out, ev)]
    [] ev.ev = "write" ->
         [known |-> remove_affected_register_parts(acc.known, ev.reg, ev.acc), out |-> Append(acc.out, ev)]
    [] OTHER -> [acc EXCEPT !.out = Append(@, ev)]

RECURSIVE remove_repeated_register_reads_core(_, _)
remove_repeated_register_reads_core(tree, known) ==
  LET p == FoldLeft(RepeatedStep, [known |-> known, out |-> << >>], tree.prefix)
  IN [tree EXCEPT !.prefix = p.out,
                  !.forks = [i \in DOMAIN tree.forks |->
                               remove_repeated_register_reads_core(tree.forks[i], p.known)]]
remove_repeated_register_reads_tree(tree) == remove_repeated_register_reads_core(tree, {})
remove_repeated_register_reads(events) ==
  Reverse(FoldLeft(RepeatedStep, [known |-> {}, out |-> << >>], Reverse(events)).out)

(* An assumption is identified by its depth and its place in the segment,  *)
(* so that the forks of a node share identities.                           *)
AssumeStep(acc, events, i, depth) ==
  LET ev == events[i]
  IN CASE ev.ev = "assume" ->
            [acc EXCEPT !.live = {k \in @ : ~(k.reg = ev.reg /\ k.acc = ev.acc)}
                                   \cup {Part(ev, <<depth, i>>)}]
       [] ev.ev = "read" ->
            [live |-> remove_affected_register_parts(acc.live, ev.reg, ev.acc),
             used |-> acc.used \cup {k.item : k \in {m \in acc.live : m.reg = ev.reg /\ Affects(ev.acc, m)}}]
       [] ev.ev = "write" ->
            [acc EXCEPT !.live = drop_shadowed_register_parts(@, ev.reg, ev.acc)]
       [] OTHER -> acc

RECURSIVE unused_register_assumptions(_, _, _, _)
unused_register_assumptions(tree, depth, live, used) ==
  LET p == FoldLeft(LAMBDA a, i : AssumeStep(a, tree.prefix, i, depth),
                    [live |-> live, used |-> used], [i \in DOMAIN tree.prefix |-> i])
      forks == FoldLeft(LAMBDA a, t :
                          LET r == unused_register_assumptions(t, depth + 1, p.live, a.used)
                          IN [used |-> r.used, out |-> Append(a.out, r.tree)],
                        [used |-> p.used, out |-> << >>], tree.forks)
      kept == KeepAt(tree.prefix, LAMBDA i : tree.prefix[i].ev = "assume" => <<depth, i>> \in forks.used)
  IN [tree |-> [tree EXCEPT !.prefix = kept, !.forks = forks.out], used |-> forks.used]

remove_unused_register_assumptions_tree(tree) == unused_register_assumptions(tree, 0, {}, {}).tree
remove_unused_register_assumptions(events) ==
  Reverse(remove_unused_register_assumptions_tree(
            [fork_id |-> NoFork, prefix |-> Reverse(events), forks |-> << >>]).prefix)

-----------------------------------------------------------------------------
(* Definitions used once move to their use *)

\* Mutant: the uses in the segments after a fork are not counted.
UsedOnceHere(events, cross, v) ==
  calculate_uses(events, v) = 1 /\ calculate_required_uses(events, v) = 0

UsedOnce(events, cross, v) ==
  calculate_uses(events, v) = 1 /\ v \notin cross /\ calculate_required_uses(events, v) = 0

(* Oldest first: the expression is completed before it is moved. *)
PropagateStep(acc, ev, moves) ==
  IF ~HasExp(ev) THEN [acc EXCEPT !.out = Append(@, ev)]
  ELSE LET here == {v \in DOMAIN acc.substs : Occurrences(ev.e, v) > 0}
           done == [ev EXCEPT !.e = SubstOnce(@, [v \in here |-> acc.substs[v]])]
           left == [v \in DOMAIN acc.substs \ here |-> acc.substs[v]]
       IN IF ev.ev = "define" /\ ev.v \in moves
          THEN [acc EXCEPT !.substs = (ev.v :> done.e) @@ left]
          ELSE [out |-> Append(acc.out, done), substs |-> left]

propagate_forwards_used_once_core(events, cross) ==
  LET moves == {v \in UNION {EventSymbols(events[i]) : i \in DOMAIN events} : UsedOnce(events, cross, v)}
  IN FoldLeft(LAMBDA a, ev : PropagateStep(a, ev, moves), [out |-> << >>, substs |-> << >>], events).out

propagate_forwards_used_once(events) ==
  Reverse(propagate_forwards_used_once_core(Reverse(events), {}))

SegmentUses(events) ==
  {v \in UNION {EventSymbols(events[i]) : i \in DOMAIN events} : calculate_uses(events, v) > 0}
DefinedBy(events) == {events[i].v : i \in {j \in DOMAIN events : IsDef(events[j])}}

RECURSIVE CrossSegment(_, _)
CrossSegment(tree, defined) ==
  (SegmentUses(tree.prefix) \cap defined)
  \cup UNION {CrossSegment(tree.forks[i], defined \cup DefinedBy(tree.prefix)) : i \in DOMAIN tree.forks}
find_cross_segment_syms(tree) == CrossSegment(tree, {})

(* EventTree::map, of the passes that look at one segment at a time. *)
ExpPass(events, f(_)) ==
  [i \in DOMAIN events |-> IF HasExp(events[i]) THEN [events[i] EXCEPT !.e = f(@)] ELSE events[i]]
commute_extract(events) == ExpPass(events, ModifyTopDown)
eval(events) == ExpPass(events, Eval)

(* The checked evaluation asks the solver whether an expression keeps its  *)
(* meaning.  The solver knows the symbols of the events before, in the     *)
(* order given, each a constant of any value, and panics on another.       *)
Domain(ty) == IF ty = BoolSort THEN BOOLEAN ELSE {<<ty, n>> : n \in 0 .. (2 ^ ty - 1)}
Envs(syms) == {f \in [syms -> UNION {Domain(v[2]) : v \in syms}] : \A v \in syms : f[v] \in Domain(v[2])}
SameMeaning(e, f) == \A env \in Envs(Variables(e) \cup Variables(f)) : Denote(e, env) = Denote(f, env)
EvalChecked(ev, tcx) ==
  HasExp(ev) => Variables(ev.e) \cup Variables(Eval(ev.e)) \subseteq tcx /\ SameMeaning(ev.e, Eval(ev.e))

(* Nothing panics. *)
eval_carefully_part(events, tcx) ==
  \A i \in DOMAIN events : EvalChecked(events[i], tcx \cup DefinedBy(SubSeq(events, 1, i - 1)))
eval_carefully(events) == eval_carefully_part(events, {})

RECURSIVE eval_carefully_descend(_, _)
eval_carefully_descend(tree, tcx) ==
  /\ eval_carefully_part(tree.prefix, tcx)
  /\ \A i \in DOMAIN tree.forks : eval_carefully_descend(tree.forks[i], tcx \cup DefinedBy(tree.prefix))
eval_carefully_tree(tree) == eval_carefully_descend(tree, {})

RECURSIVE MapTree(_, _, _)
MapTree(tree, pass, cross) ==
  [tree EXCEPT
     !.prefix = CASE pass = "fields" -> remove_extra_register_fields(@)
                  [] pass = "once" -> propagate_forwards_used_once_core(@, cross)
                  [] pass = "commute" -> commute_extract(@)
                  [] pass = "eval" -> eval(@),
     !.forks = [i \in DOMAIN tree.forks |-> MapTree(tree.forks[i], pass, cross)]]

propagate_forwards_used_once_tree(tree) == MapTree(tree, "once", find_cross_segment_syms(tree))
=============================================================================
