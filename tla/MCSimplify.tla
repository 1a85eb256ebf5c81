------------------------------ MODULE MCSimplify ------------------------------
(***************************************************************************)
(* The passes of simplify.rs in the order footprint and execute-function   *)
(* apply them, on the traces of single paths and on the event tree built   *)
(* from the traces of several.                                             *)
(*                                                                         *)
(* The traces are as the interpreter writes them: a symbol is declared or  *)
(* defined before it is used, the value of a register event is that of the *)
(* whole register, and after a fork both paths go on with the same         *)
(* numbers.                                                                *)
(***************************************************************************)
EXTENDS Simplify, TLC

VARIABLES original, current, stage, hidden
vars == <<original, current, stage, hidden>>

-----------------------------------------------------------------------------
(* The inputs: one register r with the fields f and g, one bit each *)

W == 1
A0 == <<0, W>>
B1 == <<1, W>>
C2 == <<2, BoolSort>>
D3 == <<3, W>>
E4 == <<4, W>>
F5 == <<5, W>>
One == VBits(W, 1)
Whole(f, g) == VStruct(<<<<"f", f>>, <<"g", g>>>>)
Wide(v) == Extend("zero_extend", 1, Var(v))

(* Before the cycle: an assumption, a write.  The value of an assumption   *)
(* is concrete or of symbols that only a read of the register reaches.     *)
Inits == {<< >>, <<AssumeReg("r", <<"f">>, One)>>, <<AssumeReg("r", << >>, Whole(One, One))>>,
          <<WriteReg("r", <<"f">>, Whole(VSym(A0), One))>>}

(* What is defined after it. *)
Defs == {Define(B1, Var(A0)),
         Define(B1, Extract(0, 0, Bin("bvxor", Wide(A0), bits64(1, 2)))),
         Define(B1, Ite(Bin("eq", Var(A0), bits64(1, W)), bits64(0, W), Var(A0)))}

Access == {ReadReg("r", <<"f">>, Whole(VSym(A0), VSym(B1))), ReadReg("r", << >>, Whole(VSym(A0), VSym(B1))),
           WriteReg("r", <<"f">>, Whole(VSym(B1), One)), WriteReg("r", << >>, Whole(VSym(B1), VSym(A0)))}

(* One path after the fork; the other is the same with other events. *)
Chosen(b) == Constrain(IF b = 0 THEN Var(C2) ELSE Un("not", Var(C2)))
Ends == {<<Define(D3, Un("bvnot", Var(B1))), Observe(<<VSym(D3)>>)>>,
         <<Declare(D3), Constrain(Bin("eq", Var(D3), Var(A0)))>>,
         <<Define(D3, Un("bvnot", Var(A0))), Define(E4, Bin("bvand", Var(D3), Var(B1))), Define(F5, Var(E4)),
           Observe(<<VSym(E4), VSym(A0)>>)>>,
         <<ReadReg("r", <<"f">>, Whole(VSym(A0), VSym(B1))), Observe(<<VSym(B1)>>)>>,
         <<AssumeReg("r", <<"g">>, One), ReadReg("r", <<"g">>, Whole(VSym(A0), VSym(B1)))>>}

Stem(i, d, x, y) ==
  <<Declare(A0)>> \o i \o <<Cycle, d, x, y, Define(C2, Bin("eq", Var(A0), Var(B1)))>>
Path(stem, b, end) == stem \o <<Fork(C2, b), Chosen(b)>> \o end

Traces == {Path(Stem(i, d, x, y), b, e) : i \in Inits, d \in Defs, x \in Access, y \in Access, b \in {0, 1}, e \in Ends}
TracePairs == {<<Path(Stem(i, d, x, y), 1, e), Path(Stem(i, d, x, y), 0, f)>> :
                 i \in Inits, d \in Defs, x \in Access,
                 y \in {ReadReg("r", <<"f">>, Whole(VSym(A0), VSym(B1))), WriteReg("r", <<"f">>, Whole(VSym(B1), One))},
                 e \in Ends, f \in Ends}

(* A flat trace is newest first. *)
Inputs == {[tree |-> FALSE, it |-> Reverse(t)] : t \in Traces}
          \cup {[tree |-> TRUE, it |-> TreeOf(p)] : p \in TracePairs}

-----------------------------------------------------------------------------
(* The passes *)

Aborted == 8

Init ==
  /\ original \in Inputs
  /\ current = original
  /\ stage = IF original.tree THEN 0 ELSE 1
  /\ hidden = FALSE

Pass(n, new) ==
  /\ stage < n
  /\ stage' = n
  /\ current' = [current EXCEPT !.it = new]
  /\ UNCHANGED <<original, hidden>>

SortAndRenumber == current.tree /\ Pass(1, renumber(sort(current.it)))
HideInitialization ==
  /\ stage = 1
  /\ stage' = 2
  /\ hidden' = TRUE
  /\ current' = [current EXCEPT !.it = IF current.tree THEN hide_initialization_tree(@) ELSE hide_initialization(@)]
  /\ UNCHANGED original

InOrder(flat, tree) == IF current.tree THEN tree ELSE flat
SimplifyRegisters(fields, repeated(_), assumptions(_)) ==
  stage >= 1 /\ Pass(3, assumptions(repeated(fields)))
SimplifyFlatRegisters ==
  ~current.tree /\ SimplifyRegisters(remove_extra_register_fields(current.it),
                                     remove_repeated_register_reads, remove_unused_register_assumptions)
SimplifyTreeRegisters ==
  current.tree /\ SimplifyRegisters(MapTree(current.it, "fields", {}),
                                    remove_repeated_register_reads_tree, remove_unused_register_assumptions_tree)
RemoveUnused ==
  stage >= 1 /\ Pass(4, InOrder(remove_unused(current.it), remove_unused_tree(current.it)))
PropagateForwards ==
  stage = 4 /\ Pass(5, InOrder(propagate_forwards_used_once(current.it), propagate_forwards_used_once_tree(current.it)))
CommuteExtracts ==
  stage = 5 /\ Pass(6, InOrder(commute_extract(current.it), MapTree(current.it, "commute", {})))
EvalAll == stage = 6 /\ Pass(7, InOrder(eval(current.it), MapTree(current.it, "eval", {})))

(* With eval-carefully the results are the same, or the process aborts     *)
(* before it has written the trace.                                        *)
EvalCarefully == InOrder(eval_carefully(current.it), eval_carefully_tree(current.it)) /\ EvalAll
EvalAborts ==
  /\ stage = 6
  /\ ~InOrder(eval_carefully(current.it), eval_carefully_tree(current.it))
  /\ stage' = Aborted
  /\ UNCHANGED <<original, current, hidden>>

Next == SortAndRenumber \/ HideInitialization \/ SimplifyFlatRegisters \/ SimplifyTreeRegisters
        \/ RemoveUnused \/ PropagateForwards \/ CommuteExtracts \/ EvalAll \/ EvalCarefully \/ EvalAborts
Spec == Init /\ [][Next]_vars

-----------------------------------------------------------------------------
(* The paths of an input, oldest event first, with their branch numbers;   *)
(* a tree keeps no Fork events.                                            *)

PathsIn(x) ==
  IF ~x.tree THEN {[branches |-> << >>, events |-> Reverse(x.it)]}
  ELSE {[branches |-> p.branches, events |-> FlattenSeq(p.segments)] : p \in PathsOf(x.it)}

(* Every symbol has one definition, before its uses. *)
Closed(events) ==
  \A i \in DOMAIN events :
    LET before == DefinedBy(SubSeq(events, 1, i - 1))
        ev == events[i]
    IN IF IsDef(ev) THEN ev.v \notin before /\ EventSymbols(ev) \ {ev.v} \subseteq before
       ELSE EventSymbols(ev) \subseteq before

-----------------------------------------------------------------------------
(* What the events of a path say: the values of the symbols, the register  *)
(* before and after, and what is observed, in every world in which the     *)
(* assertions, the reads and the assumptions hold.                         *)

RECURSIVE ValueOf(_, _)
ValueOf(val, env) ==
  CASE val.k = "sym" -> env[val.v]
    [] val.k = "bits" -> val.bits
    [] val.k = "struct" -> [x \in {val.fields[i][1] : i \in DOMAIN val.fields} |->
                              ValueOf((CHOOSE p \in {val.fields[i] : i \in DOMAIN val.fields} : p[1] = x)[2], env)]

(* The part of a register, and of the value of a whole register. *)
PartOf(acc) == IF acc = << >> THEN {"f", "g"} ELSE {acc[1]}
Matches(regs, acc, v) == \A x \in PartOf(acc) : regs[x] = v[x]
Assumed(acc, v) == IF acc = << >> THEN v ELSE acc[1] :> v

StepWorld(w, ev, skip) ==
  CASE ev.ev = "declare" -> {[w EXCEPT !.env = (ev.v :> d) @@ @] : d \in Domain(ev.v[2])}
    [] ev.ev = "define" -> {[w EXCEPT !.env = (ev.v :> Denote(ev.e, w.env)) @@ @]}
    [] ev.ev = "assert" -> IF Denote(ev.e, w.env) THEN {w} ELSE {}
    [] ev.ev = "read" -> IF skip \/ Matches(w.regs, ev.acc, ValueOf(ev.val, w.env)) THEN {w} ELSE {}
    [] ev.ev = "write" ->
         IF skip THEN {w}
         ELSE {[w EXCEPT !.regs = [x \in PartOf(ev.acc) |-> ValueOf(ev.val, w.env)[x]] @@ @]}
    [] ev.ev = "assume" ->
         IF Matches(w.regs, ev.acc, Assumed(ev.acc, ValueOf(ev.val, w.env))) THEN {w} ELSE {}
    [] ev.ev = "observe" -> {[w EXCEPT !.seen = Append(@, [i \in DOMAIN ev.vals |-> ValueOf(ev.vals[i], w.env)])]}
    [] ev.ev \in {"cycle", "fork"} -> {w}

Worlds(events, hide) ==
  FoldLeft(LAMBDA ws, i : UNION {StepWorld(w, events[i], hide /\ BeforeCycle(events, i)) : w \in ws},
           {[env |-> << >>, start |-> r, regs |-> r, seen |-> << >>] :
              r \in [{"f", "g"} -> {<<W, 0>>, <<W, 1>>}]},
           [i \in DOMAIN events |-> i])

Meaning(events, hide) == {<<w.start, w.regs, w.seen>> : w \in Worlds(events, hide)}

(* The start states the assumptions of the original allow. *)
MeansTheSame(old, new, hide) ==
  LET means == Meaning(old, hide)
      starts == {m[1] : m \in means}
  IN means = {m \in Meaning(new, hide) : m[1] \in starts}

(* Simplification keeps what a trace says: path by path, from the register *)
(* states the original allows, the same final register and the same        *)
(* observed values are possible.  With hide_initialization the registers   *)
(* are those at the first cycle.  The checks of eval-carefully abort on no *)
(* tree; they do on a flat trace, which they are given newest first, so    *)
(* that its symbols are not yet declared (footprint.rs:662,                *)
(* simplify.rs:958).                                                       *)
SimplifyKeepsMeaning ==
  /\ stage = Aborted => ~original.tree
  /\ \A p \in PathsIn(original) : \E q \in PathsIn(current) :
       /\ q.branches = p.branches
       /\ Closed(q.events)
       /\ MeansTheSame(p.events, q.events, hidden)

(* An assumption on whose register part a path reads, before one write     *)
(* covers that part, is still there: the reader of the trace must know     *)
(* what the path relies on.  (unused_register_assumptions, simplify.rs)    *)
Needed(events, i) ==
  /\ events[i].ev = "assume"
  /\ \E j \in (i + 1) .. Len(events) :
       /\ events[j].ev = "read" /\ events[j].reg = events[i].reg
       /\ IsPrefix(events[j].acc, events[i].acc) \/ IsPrefix(events[i].acc, events[j].acc)
       /\ \A k \in (i + 1) .. (j - 1) :
            ~(/\ events[k].ev = "write" /\ events[k].reg = events[i].reg
              /\ IsPrefix(events[k].acc, events[i].acc))
NeededParts(events) ==
  {<<events[i].reg, events[i].acc>> : i \in {j \in DOMAIN events : Needed(events, j)}}
AssumedParts(events) ==
  {<<events[i].reg, events[i].acc>> : i \in {j \in DOMAIN events : events[j].ev = "assume"}}

NeededAssumptionsStay ==
  \A p \in PathsIn(original) : \A q \in PathsIn(current) :
    p.branches = q.branches => NeededParts(p.events) \subseteq AssumedParts(q.events)
=============================================================================
