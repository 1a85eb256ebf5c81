------------------------------- MODULE Linearize ------------------------------
(***************************************************************************)
(* The two rewrites that take branches out of a function body:             *)
(* linearize (isla-lib/src/ir/linearize.rs), which leaves no control flow, *)
(* and partial_linearize (isla-lib/src/ir/partial_linearize.rs), which     *)
(* moves the code of pure blocks up and merges the jumps it frees.         *)
(***************************************************************************)
EXTENDS SSA

-----------------------------------------------------------------------------
(* Reachability: a formula over the edges that lead to a node *)

terminator_reachability_exp(g, e) ==
  LET t == g.nodes[g.edges[e].src].term
  IN CASE g.edges[e].kind.k \in {"continue", "goto"} -> Bool(TRUE)
       [] g.edges[e].kind.k = "jump" /\ g.edges[e].kind.b -> t.exp
       [] g.edges[e].kind.k = "jump" /\ ~g.edges[e].kind.b -> Call("Not", <<t.exp>>)

RTrue == [k |-> "true"]
RFalse == [k |-> "false"]
REdge(e) == [k |-> "edge", e |-> e]

ROr(l, r) ==
  CASE l = RTrue \/ r = RTrue -> RTrue
    [] l = RFalse -> r
    [] r = RFalse -> l
    [] OTHER -> [k |-> "or", l |-> l, r |-> r]

RAnd(l, r) ==
  CASE l = RTrue -> r
    [] r = RTrue -> l
    [] l = RFalse \/ r = RFalse -> RFalse
    [] OTHER -> [k |-> "and", l |-> l, r |-> r]

RECURSIVE ReachExp(_, _)
ReachExp(g, r) ==
  CASE r.k = "true" -> Bool(TRUE)
    [] r.k = "false" -> Bool(FALSE)
    [] r.k = "edge" -> terminator_reachability_exp(g, r.e)
    [] r.k = "and" -> Call("And", <<ReachExp(g, r.l), ReachExp(g, r.r)>>)
    [] r.k = "or" -> Call("Or", <<ReachExp(g, r.l), ReachExp(g, r.r)>>)

(* A topological order of the nodes (petgraph::algo::toposort), if any. *)
RECURSIVE TopoFrom(_, _)
TopoFrom(g, done) ==
  LET ready == {n \in NodeIndices(g) \ Range(done) : Range(Predecessors(g, n)) \subseteq Range(done)}
  IN IF ready = {} THEN done
     ELSE TopoFrom(g, Append(done, CHOOSE n \in ready : \A m \in ready : n <= m))
toposort(g) == TopoFrom(g, << >>)
Acyclic(g) == Len(toposort(g)) = Len(g.nodes)

\* Mutant: an edge counts as taken whenever its source is reached.
WayInUnconditional(g, reach, n, i) == reach[Predecessors(g, n)[i]]

(* The way into n from its i-th predecessor. *)
WayIn(g, reach, n, i) ==
  LET pred == Predecessors(g, n)[i]
  IN RAnd(reach[pred], REdge(find_edge(g, pred, n)))

NodeReachability(g, reach, n) ==
  FoldLeft(LAMBDA r, i : ROr(r, WayIn(g, reach, n, i)),
           IF n = g.root THEN RTrue ELSE RFalse,
           [i \in DOMAIN Predecessors(g, n) |-> i])

compute_reachability(g, topo) ==
  FoldLeft(LAMBDA reach, n : (n :> NodeReachability(g, reach, n)) @@ reach, << >>, topo)

-----------------------------------------------------------------------------
(* Out of SSA form *)

RECURSIVE unssa_exp(_)
unssa_exp(e) ==
  CASE e.k = "id" -> Id(unssa(e.id))
    [] e.k = "call" -> Call(e.op, [i \in DOMAIN e.args |-> unssa_exp(e.args[i])])
    [] e.k = "field" -> Field(unssa_exp(e.exp), e.field)
    [] OTHER -> e

unssa_loc(loc) == [id |-> unssa(loc.id), field |-> loc.field]

unssa_block_instr(i) ==
  CASE i.k = "decl" -> [i EXCEPT !.id = unssa(@)]
    [] i.k = "init" -> [i EXCEPT !.id = unssa(@), !.exp = unssa_exp(@)]
    [] i.k = "copy" -> [i EXCEPT !.loc = unssa_loc(@), !.exp = unssa_exp(@)]
    [] i.k = "mono" -> [i EXCEPT !.id = unssa(@)]
    [] OTHER -> [i EXCEPT !.loc = unssa_loc(@),
                          !.args = [j \in DOMAIN i.args |-> unssa_exp(i.args[j])]]

(* A write of a new name declares it first; a field write starts from the  *)
(* structure before.                                                       *)
UnssaWrite(i, types) ==
  IF ~writes(i) \/ declares(i) THEN <<unssa_block_instr(i)>>
  ELSE LET ty == types[write_ssa(i).name]
           decl == IF updates_field(i)
                   THEN InitVar(unssa(i.loc.id), ty, Id(unssa(i.loc.prev)))
                   ELSE Decl(unssa(i.loc.id), ty)
       IN <<decl, unssa_block_instr(i)>>

UnssaInstrs(instrs, types) ==
  FlattenSeq([i \in DOMAIN instrs |-> UnssaWrite(instrs[i], types)])

-----------------------------------------------------------------------------
(* linearize *)

(* The phi function id = phi(args) as nested choices: each but the last    *)
(* argument is taken under the condition of its way in.                    *)
RECURSIVE ite_chain(_, _, _, _, _)
ite_chain(i, conds, id, args, ty) ==
  IF Len(args) = 1 THEN <<Copy(LocId(id), Id(unssa(args[1])))>>
  ELSE LET gs == <<"ite", i>> \o id
       IN <<Decl(gs, ty)>>
          \o ite_chain(i + 1, conds, gs, Tail(args), ty)
          \o <<Primop(LocId(id), "ite",
                      <<unssa_exp(conds[i]), Id(unssa(args[1])), Id(gs)>>)>>

linearize_phi(g, reach, n, p, ty) ==
  LET conds == [i \in DOMAIN Predecessors(g, n) |-> ReachExp(g, WayIn(g, reach, n, i))]
  IN IF p.args = << >> THEN << >> ELSE ite_chain(1, conds, unssa(p.id), p.args, ty)

LinearPhi(g, reach, n, p, types) ==
  LET ty == types[p.id.name]
  IN <<Decl(unssa(p.id), ty)>>
     \o (IF ty = "Unit" THEN << >> ELSE linearize_phi(g, reach, n, p, ty))

linearize_block(g, reach, types, n) ==
  LET b == g.nodes[n]
  IN ApplyLabel(b.label,
       FlattenSeq([i \in DOMAIN b.phis |-> LinearPhi(g, reach, n, b.phis[i], types)])
       \o UnssaInstrs(b.instrs, types))

(* Assertions of a function to be linearised are taken to hold. *)
drop_assertions(body) ==
  [i \in DOMAIN body |->
     IF IsCall(body[i], SAIL_ASSERT) THEN [body[i] EXCEPT !.args[1] = Bool(TRUE)]
     ELSE body[i]]

(* The highest number the return variable has anywhere. *)
ReturnNumbers(g) ==
  UNION {{write_ssa(b.instrs[i]).number :
            i \in {j \in DOMAIN b.instrs : writes(b.instrs[j]) /\ write_ssa(b.instrs[j]).name = RETURN}}
         \cup {b.phis[i].id.number : i \in {j \in DOMAIN b.phis : b.phis[j].id.name = RETURN}}
         : b \in Range(g.nodes)}

last_return(g) ==
  IF ReturnNumbers(g) = {} THEN -1
  ELSE CHOOSE n \in ReturnNumbers(g) : \A m \in ReturnNumbers(g) : m <= n

LinearReturn(g) ==
  (IF last_return(g) >= 0
   THEN <<Unlabeled(Copy(LocId(RETURN), Id(unssa(new_ssa(RETURN, last_return(g))))))>>
   ELSE << >>)
  \o <<Unlabeled(End)>>

LinearizeGraph(g, topo, ret_ty) ==
  LET reach == compute_reachability(g, topo)
      types == all_vars_typed(g, ret_ty)
  IN unlabel_instrs(FlattenSeq([i \in DOMAIN topo |-> linearize_block(g, reach, types, topo[i])])
                    \o LinearReturn(g))

(* A body with a loop is left as it is, but for its assertions. *)
linearize(body, ret_ty) ==
  LET labeled == prune_labels(label_instrs(drop_assertions(body)))
  IN The({IF Acyclic(g) THEN LinearizeGraph(g, toposort(g), ret_ty) ELSE unlabel_instrs(labeled) :
            g \in {ssa(NewCFG(labeled))}})

-----------------------------------------------------------------------------
(* partial_linearize *)

(* The conditions of the ways into n, by edge number; edges that a merge   *)
(* has multiplied share a number.  cond(e) is the condition of edge e.     *)
EdgeConds(g, n, cond) ==
  LET es == Incoming(g, n)
      numbers == SortedBy({g.edges[es[i]].number : i \in DOMAIN es}, <)
  IN [j \in DOMAIN numbers |->
        FoldLeft(LAMBDA c, e : IF g.edges[e].number # numbers[j] THEN c
                               ELSE IF c = Unit THEN cond[e]
                               ELSE short_circuit_or(cond[e], c),
                 Unit, es)]

PhiArgs(conds, args) ==
  FlattenSeq([j \in 1 .. (IF Len(conds) < Len(args) THEN Len(conds) ELSE Len(args)) |->
    <<conds[j], Id(args[j])>>])

PathCond(g, e) == extract(g.nodes[g.edges[e].src].term.tree, g.edges[e].kind.path)

(* The phi functions of a block with one parent, evaluated in the parent. *)
single_parent_phi(g, n, p) ==
  IF p.args = << >> THEN << >>
  ELSE <<CallFn([id |-> p.id, field |-> NoField, prev |-> p.id], ITE_PHI,
                PhiArgs(EdgeConds(g, n, [e \in DOMAIN g.edges |->
                          IF g.edges[e].dst = n THEN PathCond(g, e) ELSE Unit]), p.args))>>

ParentPhi(g, n, p, types) ==
  IF types[p.id.name] = "Unit"
  THEN <<Copy([id |-> p.id, field |-> NoField, prev |-> p.id], Unit)>>
  ELSE single_parent_phi(g, n, p)

(* A block can move up when it is pure, has code, and all its edges come   *)
(* from one parent.                                                        *)
CanMoveUp(g, n, unreachable) ==
  /\ is_pure(g.nodes[n], unreachable)
  /\ ~(g.nodes[n].instrs = << >> /\ g.nodes[n].phis = << >>)
  /\ Cardinality(Range(Predecessors(g, n))) = 1

MoveUp(g, n, types) ==
  LET parent == Predecessors(g, n)[1]
      b == g.nodes[n]
      phis == FlattenSeq([i \in DOMAIN b.phis |-> ParentPhi(g, n, b.phis[i], types)])
  IN [g EXCEPT !.nodes = Listed([m \in NodeIndices(g) |->
        CASE m = n /\ m # parent -> [b EXCEPT !.phis = << >>, !.instrs = << >>]
          [] m = parent /\ m # n -> [g.nodes[m] EXCEPT !.instrs = @ \o phis \o b.instrs]
          [] m = n /\ m = parent -> [b EXCEPT !.phis = << >>, !.instrs = @ \o phis]
          [] OTHER -> g.nodes[m]])]

MoveUpSweep(g, types, unreachable) ==
  FoldLeft(LAMBDA h, n : IF CanMoveUp(h, n, unreachable) THEN MoveUp(h, n, types) ELSE h,
           g, [n \in NodeIndices(g) |-> n])

RECURSIVE propagate_upwards(_, _, _)
propagate_upwards(g, types, unreachable) ==
  IF \A n \in NodeIndices(g) : ~CanMoveUp(g, n, unreachable) THEN g
  ELSE propagate_upwards(MoveUpSweep(g, types, unreachable), types, unreachable)

(* Move up and merge until no merge is left. *)
RECURSIVE MoveAndMerge(_, _, _)
MoveAndMerge(g, ret_ty, unreachable) ==
  The({IF Len(merge_multi_jumps(up).nodes) = Len(up.nodes) THEN merge_multi_jumps(up)
       ELSE MoveAndMerge(merge_multi_jumps(up), ret_ty, unreachable) :
         up \in {propagate_upwards(g, all_vars_typed(g, ret_ty), unreachable)}})

(* A block that leads to a phi function sets its marker, and each of its   *)
(* children clears it; the root declares them all.                         *)
has_phi_child(g, n) == \E m \in Range(Successors(g, n)) : g.nodes[m].phis # << >>
Marker(n) == SSAName(<<"marker", n>>)
SetMarker(n, b) == Copy([id |-> Marker(n), field |-> NoField, prev |-> Marker(n)], Bool(b))

MarkNode(g, n) ==
  LET set == [g EXCEPT !.nodes[n].instrs = Append(@, SetMarker(n, TRUE))]
  IN [set EXCEPT !.nodes = Listed([m \in NodeIndices(g) |->
        IF m \in Range(Successors(g, n))
        THEN [set.nodes[m] EXCEPT !.instrs = Append(@, SetMarker(n, FALSE))]
        ELSE set.nodes[m]])]

insert_block_markers(g) ==
  LET marked == SelectSeq([n \in NodeIndices(g) |-> n], LAMBDA n : has_phi_child(g, n))
      inits == [i \in DOMAIN marked |-> InitVar(Marker(marked[i]), "Bool", Bool(FALSE))]
      set == FoldLeft(MarkNode, g, marked)
  IN [set EXCEPT !.nodes[g.root].instrs = inits \o @]

partial_linearize_phi(g, n, p) ==
  LET cond == [e \in DOMAIN g.edges |->
                 IF g.edges[e].dst = n
                 THEN short_circuit_and(Id(Marker(g.edges[e].src)), PathCond(g, e)) ELSE Unit]
      conds == EdgeConds(g, n, cond)
      args == PhiArgs(conds, p.args)
  IN CallFn(LocId(unssa(p.id)), ITE_PHI, [i \in DOMAIN args |-> unssa_exp(args[i])])

PartialPhi(g, n, p, types) ==
  LET ty == types[p.id.name]
  IN IF p.args = << >> THEN << >>
     ELSE <<Decl(unssa(p.id), ty)>>
          \o (IF ty = "Unit" THEN << >> ELSE <<partial_linearize_phi(g, n, p)>>)

(* A multi-jump becomes a jump for each target but the last, in the order  *)
(* of the size of their conditions, and a goto.                            *)
MultiJumpInstrs(tree) ==
  LET conds == [l \in targets(tree) |-> condition_for(tree, l)]
      order == SortedBy(targets(tree),
                 LAMBDA l, m : \/ size_heuristic(conds[l]) < size_heuristic(conds[m])
                               \/ size_heuristic(conds[l]) = size_heuristic(conds[m]) /\ l < m)
  IN [i \in 1 .. (Len(order) - 1) |-> Jump(unssa_exp(conds[order[i]]), order[i])]
     \o <<Goto(Last(order))>>

(* The return variable last written in a block, or in its phi functions. *)
BlockReturns(b) ==
  LET ws == SelectSeq(b.instrs, LAMBDA i : writes(i) /\ write_ssa(i).name = RETURN)
      ps == SelectSeq(b.phis, LAMBDA p : p.id.name = RETURN)
  IN IF ws # << >> THEN <<write_ssa(Last(ws))>>
     ELSE IF ps # << >> THEN <<ps[1].id>> ELSE << >>

(* ... looked for in the block and then up the dominator tree. *)
RECURSIVE FindLastReturn(_, _, _)
FindLastReturn(g, doms, n) ==
  IF BlockReturns(g.nodes[n]) # << >> THEN BlockReturns(g.nodes[n])[1]
  ELSE FindLastReturn(g, doms, immediate_dominator(doms, n))

TerminatorInstrs(g, doms, n) ==
  LET t == g.nodes[n].term
  IN CASE t.k = "multi" -> MultiJumpInstrs(t.tree)
       [] t.k = "end" -> <<Copy(LocId(RETURN), Id(unssa(FindLastReturn(g, doms, n)))), End>>
       [] OTHER -> <<t>>

partial_linearize_block(g, doms, types, n) ==
  LET b == g.nodes[n]
  IN ApplyLabel(b.label,
       FlattenSeq([i \in DOMAIN b.phis |-> PartialPhi(g, n, b.phis[i], types)])
       \o UnssaInstrs(b.instrs, types) \o TerminatorInstrs(g, doms, n))

PartialGraph(g, ret_ty) ==
  LET doms == Dominators(g)
      types == all_vars_typed(g, ret_ty)
  IN unlabel_instrs(<<Unlabeled(Goto(g.nodes[g.root].label))>>
       \o FlattenSeq([n \in NodeIndices(g) |-> partial_linearize_block(g, doms, types, n)]))

PreparedGraph(body) ==
  The({to_multi_jump(label_every_block(g)) : g \in {ssa(NewCFG(prune_labels(label_instrs(body))))}})

partial_linearize(body, ret_ty, unreachable) ==
  The({PartialGraph(insert_block_markers(g), ret_ty) :
         g \in {MoveAndMerge(p, ret_ty, unreachable) : p \in {PreparedGraph(body)}}})
=============================================================================
