---------------------------------- MODULE SSA ---------------------------------
(***************************************************************************)
(* Control flow graphs and their conversion to single static assignment    *)
(* form (isla-lib/src/ir/ssa.rs).                                          *)
(*                                                                         *)
(* A graph is a record: nodes, the sequence of basic blocks by index;      *)
(* edges, the sequence of edges by index, each with the stamp of its       *)
(* insertion; next, the next stamp.  petgraph lists the edges of a node    *)
(* from the last inserted to the first, and fills the hole a removed node  *)
(* or edge leaves with the last one.                                       *)
(***************************************************************************)
EXTENDS IR

SSAName(n) == [name |-> n, number |-> -1]
new_ssa(n, i) == [name |-> n, number |-> i]

(* unssa makes one new name for every numbered name. *)
unssa(id) == IF id.number < 0 THEN id.name ELSE Append(id.name, id.number)

-----------------------------------------------------------------------------
(* Expressions and instructions over SSA names *)

RECURSIVE block_exp(_)
block_exp(e) ==
  CASE e.k = "id" -> Id(SSAName(e.id))
    [] e.k = "call" -> Call(e.op, [i \in DOMAIN e.args |-> block_exp(e.args[i])])
    [] e.k = "field" -> Field(block_exp(e.exp), e.field)
    [] OTHER -> e

BlockArgs(args) == [i \in DOMAIN args |-> block_exp(args[i])]

(* A field location keeps the name of the structure before the update. *)
BlockLoc(loc) == [id |-> SSAName(loc.id), field |-> loc.field, prev |-> SSAName(loc.id)]

block_instr(i) ==
  CASE i.k = "decl" -> [i EXCEPT !.id = SSAName(@)]
    [] i.k = "init" -> [i EXCEPT !.id = SSAName(@), !.exp = block_exp(@)]
    [] i.k = "copy" -> [i EXCEPT !.loc = BlockLoc(@), !.exp = block_exp(@)]
    [] i.k = "mono" -> [i EXCEPT !.id = SSAName(@)]
    [] i.k \in {"callfn", "primop"} ->
         [i EXCEPT !.loc = BlockLoc(@), !.args = BlockArgs(@)]

(* The name an instruction writes, and for a field the name before.        *)
writes(i) == i.k # "mono"
write_ssa(i) == IF i.k \in {"decl", "init"} THEN i.id ELSE i.loc.id
updates_field(i) == i.k \in {"copy", "callfn", "primop"} /\ i.loc.field # NoField
declares(i) == i.k \in {"decl", "init"}

(* A call is taken to be pure when the model defines Unreachable and it is *)
(* not a call of that; without such a function no call is pure.            *)
instr_is_pure(i, unreachable) ==
  i.k = "callfn" => unreachable /\ i.f # "zUnreachable"
is_pure(b, unreachable) == \A i \in DOMAIN b.instrs : instr_is_pure(b.instrs[i], unreachable)

-----------------------------------------------------------------------------
(* Jump trees, and paths as sequences of choices *)

TGoto(l) == [k |-> "goto", target |-> l]
TCond(e, l, r) == [k |-> "cond", exp |-> e, lhs |-> l, rhs |-> r]

RECURSIVE targets(_)
targets(t) == IF t.k = "goto" THEN {t.target} ELSE targets(t.lhs) \cup targets(t.rhs)

RECURSIVE condition_for(_, _)
condition_for(t, target) ==
  IF t.k = "goto" THEN Bool(t.target = target)
  ELSE short_circuit_or(
         short_circuit_and(t.exp, condition_for(t.lhs, target)),
         short_circuit_and(bool_not(t.exp), condition_for(t.rhs, target)))

RECURSIVE insert(_, _, _)
insert(t, path, sub) ==
  IF path = << >> THEN sub
  ELSE IF Head(path) THEN [t EXCEPT !.lhs = insert(@, Tail(path), sub)]
       ELSE [t EXCEPT !.rhs = insert(@, Tail(path), sub)]

RECURSIVE extract(_, _)
extract(t, path) ==
  IF path = << >> THEN Bool(TRUE)
  ELSE IF Head(path) THEN short_circuit_and(t.exp, extract(t.lhs, Tail(path)))
       ELSE short_circuit_and(bool_not(t.exp), extract(t.rhs, Tail(path)))

-----------------------------------------------------------------------------
(* Graphs *)

NodeIndices(g) == DOMAIN g.nodes

add_edge(g, src, dst, number, kind) ==
  [g EXCEPT !.edges = Append(@, [src |-> src, dst |-> dst, number |-> number,
                                 kind |-> kind, stamp |-> g.next]),
            !.next = @ + 1]

(* The edges of a set, from the last inserted to the first. *)
Newest(g, es) == SortedBy(es, LAMBDA e, f : g.edges[e].stamp > g.edges[f].stamp)
Outgoing(g, n) == Newest(g, {e \in DOMAIN g.edges : g.edges[e].src = n})
Incoming(g, n) == Newest(g, {e \in DOMAIN g.edges : g.edges[e].dst = n})
Successors(g, n) == [i \in DOMAIN Outgoing(g, n) |-> g.edges[Outgoing(g, n)[i]].dst]
Predecessors(g, n) == [i \in DOMAIN Incoming(g, n) |-> g.edges[Incoming(g, n)[i]].src]
edges_connecting(g, n, m) ==
  SelectSeq(Outgoing(g, n), LAMBDA e : g.edges[e].dst = m)
find_edge(g, n, m) == edges_connecting(g, n, m)[1]

SwapRemove(s, i) ==
  IF i = Len(s) THEN Front(s) ELSE Front([s EXCEPT ![i] = Last(s)])

RECURSIVE RemoveStamps(_, _)
RemoveStamps(edges, stamps) ==
  IF stamps = << >> THEN edges
  ELSE LET i == CHOOSE j \in DOMAIN edges : edges[j].stamp = Head(stamps)
       IN RemoveStamps(SwapRemove(edges, i), Tail(stamps))

remove_node(g, n) ==
  LET gone == Outgoing(g, n) \o Incoming(g, n)
      edges == RemoveStamps(g.edges, [i \in DOMAIN gone |-> g.edges[gone[i]].stamp])
      moved(m) == IF m = Len(g.nodes) THEN n ELSE m
  IN [g EXCEPT !.nodes = SwapRemove(@, n),
               !.root = moved(@),
               !.edges = Listed([i \in DOMAIN edges |->
                            [edges[i] EXCEPT !.src = moved(@), !.dst = moved(@)]])]

-----------------------------------------------------------------------------
(* CFG::new *)

IsTerminator(i) == i.k \in {"goto", "jump", "exit", "arbitrary", "end"}

to_terminator(i) == IF i.k = "jump" THEN [i EXCEPT !.exp = block_exp(@)] ELSE i
Continue == [k |-> "continue"]

(* A block ends before a labelled instruction, or at a terminator. *)
EndsBlock(lis, i) == IsTerminator(lis[i].instr)
StartsBlock(lis, i) == i = 1 \/ is_labeled(lis[i]) \/ EndsBlock(lis, i - 1)

BlockStarts(lis) == SelectSeq([i \in DOMAIN lis |-> i], LAMBDA i : StartsBlock(lis, i))

(* The block of the instructions first .. last; code after the last        *)
(* terminator belongs to no block.                                         *)
MakeBlock(lis, first, last) ==
  LET term == IsTerminator(lis[last].instr)
      upto == IF term THEN last - 1 ELSE last
  IN [label |-> lis[first].label,
      phis |-> << >>,
      instrs |-> Listed([i \in 1 .. (upto - first + 1) |-> block_instr(lis[first + i - 1].instr)]),
      term |-> IF term THEN to_terminator(lis[last].instr) ELSE Continue]

Blocks(lis) ==
  LET starts == BlockStarts(lis)
      last(n) == IF n = Len(starts) THEN Len(lis) ELSE starts[n + 1] - 1
      all == Listed([n \in DOMAIN starts |-> MakeBlock(lis, starts[n], last(n))])
  IN IF Last(all).term = Continue THEN Front(all) ELSE all

(* Fallthrough edges first, in the order of the blocks, then the targets. *)
FallEdges(bs) ==
  FlattenSeq([n \in 1 .. (Len(bs) - 1) |->
    CASE bs[n].term.k = "continue" -> <<[src |-> n, dst |-> n + 1, kind |-> [k |-> "continue"]]>>
      [] bs[n].term.k = "jump" -> <<[src |-> n, dst |-> n + 1, kind |-> [k |-> "jump", b |-> FALSE]]>>
      [] OTHER -> << >>])

TargetEdges(bs) ==
  LET block(l) == CHOOSE n \in DOMAIN bs :
                    bs[n].label = l /\ \A m \in DOMAIN bs : bs[m].label = l => m <= n
  IN FlattenSeq([n \in DOMAIN bs |->
       CASE bs[n].term.k = "jump" ->
              <<[src |-> n, dst |-> block(bs[n].term.target), kind |-> [k |-> "jump", b |-> TRUE]]>>
         [] bs[n].term.k = "goto" ->
              <<[src |-> n, dst |-> block(bs[n].term.target), kind |-> [k |-> "goto"]]>>
         [] OTHER -> << >>])

CFGOf(bs) ==
  FoldLeft(LAMBDA g, e : add_edge(g, e.src, e.dst, 0, e.kind),
           [root |-> 1, nodes |-> bs, edges |-> << >>, next |-> 1],
           FallEdges(bs) \o TargetEdges(bs))
NewCFG(lis) == CFGOf(Blocks(lis))

-----------------------------------------------------------------------------
(* Dominators (petgraph::algo::dominators, by their definition)            *)

(* The nodes reached from the root without passing through n. *)
RECURSIVE ReachFrom(_, _, _)
ReachFrom(g, seen, n) ==
  LET more == {g.edges[e].dst : e \in {f \in DOMAIN g.edges : g.edges[f].src \in seen}} \ (seen \cup {n})
  IN IF more = {} THEN seen ELSE ReachFrom(g, seen \cup more, n)

Reached(g) == ReachFrom(g, {g.root}, 0)
Avoiding(g, n) == IF n = g.root THEN {} ELSE ReachFrom(g, {g.root}, n)

(* doms[n] is the set of strict dominators of a reachable node n. *)
Dominators(g) ==
  LET avoiding == [n \in NodeIndices(g) |-> Avoiding(g, n)]
  IN [n \in Reached(g) |->
        {d \in Reached(g) \ {n} : n \notin avoiding[d]}]

NoNode == 0
immediate_dominator(doms, n) ==
  IF n \notin DOMAIN doms \/ doms[n] = {} THEN NoNode
  ELSE CHOOSE d \in doms[n] : \A c \in doms[n] : c = d \/ c \in doms[d]

dominator_tree_children(doms, n) ==
  SortedBy({m \in DOMAIN doms : immediate_dominator(doms, m) = n}, <)

(* The nodes on the dominator chain of p, up to but not the end given. *)
RECURSIVE Runners(_, _, _)
Runners(doms, p, end) ==
  IF p = NoNode \/ p = end THEN {}
  ELSE {p} \cup Runners(doms, immediate_dominator(doms, p), end)

(* The frontier of n: the joins one of whose predecessors n dominates      *)
(* while it does not strictly dominate the join.                           *)
DominanceFrontier(g, doms) ==
  LET preds == [b \in NodeIndices(g) |-> Predecessors(g, b)]
      ends == [b \in NodeIndices(g) |-> immediate_dominator(doms, b)]
      through == [b \in NodeIndices(g) |->
                    IF Len(preds[b]) < 2 THEN {}
                    ELSE UNION {Runners(doms, preds[b][i], ends[b]) : i \in DOMAIN preds[b]}]
  IN [n \in NodeIndices(g) |-> {b \in NodeIndices(g) : n \in through[b]}]

-----------------------------------------------------------------------------
(* Phi functions *)

node_writes(b) == {write_ssa(b.instrs[i]).name : i \in {j \in DOMAIN b.instrs : writes(b.instrs[j])}}

all_vars(g) ==
  {RETURN} \cup UNION {
    {b.instrs[i].id.name : i \in {j \in DOMAIN b.instrs : declares(b.instrs[j])}} : b \in Range(g.nodes)}

(* all_vars_typed: the types; of two declarations the later counts. *)
all_vars_typed(g, ret_ty) ==
  FoldLeft(LAMBDA tys, i : IF declares(i) THEN (i.id.name :> i.ty) @@ tys ELSE tys,
           RETURN :> ret_ty,
           FlattenSeq([n \in NodeIndices(g) |-> g.nodes[n].instrs]))

(* The blocks that need a phi function for a variable: the iterated        *)
(* frontier of the blocks that write it.                                   *)
RECURSIVE IteratedFrontier(_, _, _)
IteratedFrontier(frontier, worklist, placed) ==
  LET new == UNION {frontier[n] : n \in worklist} \ placed
  IN IF new = {} THEN placed ELSE IteratedFrontier(frontier, new, placed \cup new)

place_phi_functions(g, frontier, vars) ==
  LET sites(a) == {n \in NodeIndices(g) : a \in node_writes(g.nodes[n])}
      needs == [a \in vars |-> IteratedFrontier(frontier, sites(a), {})]
      phis(n) == LET as == Listing({a \in vars : n \in needs[a]})
                 IN [i \in DOMAIN as |->
                       [id |-> SSAName(as[i]),
                        args |-> Listed([j \in DOMAIN Incoming(g, n) |-> SSAName(as[i])])]]
  IN [g EXCEPT !.nodes = Listed([n \in NodeIndices(g) |-> [g.nodes[n] EXCEPT !.phis = phis(n)]])]

-----------------------------------------------------------------------------
(* Renaming.  The state of the walk: the blocks, the count of each name    *)
(* and the stack of numbers in scope; a name without a stack is left alone.*)

TopOf(stacks, n) == Last(stacks[n])
Numbered(stacks, id) ==
  IF id.name \in DOMAIN stacks THEN [id EXCEPT !.number = TopOf(stacks, id.name)] ELSE id

RECURSIVE RenameExp(_, _)
RenameExp(e, stacks) ==
  CASE e.k = "id" -> Id(Numbered(stacks, e.id))
    [] e.k = "call" -> Call(e.op, [i \in DOMAIN e.args |-> RenameExp(e.args[i], stacks)])
    [] e.k = "field" -> Field(RenameExp(e.exp, stacks), e.field)
    [] OTHER -> e

(* A declaration takes the next number and pushes it. *)
CountOf(counts, n) == (IF n \in DOMAIN counts THEN counts[n] ELSE 0) + 1
Declare(w, n) ==
  LET i == CountOf(w.counts, n)
      stack == IF n \in DOMAIN w.stacks THEN w.stacks[n] ELSE << >>
  IN [w EXCEPT !.counts = (n :> i) @@ @, !.stacks = (n :> Append(stack, i)) @@ @]
Declared(w, id) == [id EXCEPT !.number = TopOf(w.stacks, id.name)]

(* The variables of an instruction are taken from the last pushed, so that *)
(* its uses are renamed before the name it declares.                       *)
RenameUses(i, stacks) ==
  CASE i.k = "decl" -> i
    [] i.k = "init" -> [i EXCEPT !.exp = RenameExp(@, stacks)]
    [] i.k = "mono" -> [i EXCEPT !.id = Numbered(stacks, @)]
    [] i.k = "copy" -> [i EXCEPT !.exp = RenameExp(@, stacks),
                                 !.loc.prev = Numbered(stacks, @)]
    [] OTHER -> [i EXCEPT !.args = [j \in DOMAIN i.args |-> RenameExp(i.args[j], stacks)],
                          !.loc.prev = Numbered(stacks, @)]

RenameInstr(w, i) ==
  LET used == RenameUses(i, w.stacks)
  IN IF ~writes(i) THEN [w EXCEPT !.out = Append(@, used)]
     ELSE LET d == Declare(w, write_ssa(i).name)
              named == IF declares(i) THEN [used EXCEPT !.id = Declared(d, @)]
                       ELSE [used EXCEPT !.loc.id = Declared(d, @)]
          IN [d EXCEPT !.out = Append(@, named)]

RECURSIVE RenameTree(_, _)
RenameTree(t, stacks) ==
  IF t.k = "goto" THEN t
  ELSE TCond(RenameExp(t.exp, stacks), RenameTree(t.lhs, stacks), RenameTree(t.rhs, stacks))

RenameTerm(t, stacks) ==
  CASE t.k = "jump" -> [t EXCEPT !.exp = RenameExp(@, stacks)]
    [] t.k = "multi" -> [t EXCEPT !.tree = RenameTree(@, stacks)]
    [] OTHER -> t

RenamePhi(w, p) ==
  LET d == Declare(w, p.id.name)
  IN [d EXCEPT !.out = Append(@, [p EXCEPT !.id = Declared(d, @)])]

(* Block::rename *)
RenameBlock(w, n) ==
  LET b == w.nodes[n]
      phis == FoldLeft(RenamePhi, [w EXCEPT !.out = << >>], b.phis)
      instrs == FoldLeft(RenameInstr, [phis EXCEPT !.out = << >>], b.instrs)
  IN [instrs EXCEPT !.nodes[n] = [b EXCEPT !.phis = phis.out, !.instrs = instrs.out,
                                           !.term = RenameTerm(@, instrs.stacks)]]

(* An argument that would be x/0 shows that x is out of scope: the phi     *)
(* function is pruned, which leaves it without arguments.                  *)
rename_phi_arg(b, j, stacks) ==
  [b EXCEPT !.phis = Listed([i \in DOMAIN b.phis |->
     LET p == b.phis[i]
         top == TopOf(stacks, p.id.name)
     IN IF top = 0 THEN [p EXCEPT !.args = << >>]
        ELSE IF p.args = << >> THEN p
        ELSE [p EXCEPT !.args[j].number = top]])]

(* The argument a node fills is the first place it has among the           *)
(* predecessors.                                                           *)
FirstPlace(s, x) == CHOOSE i \in DOMAIN s : s[i] = x /\ \A j \in 1 .. (i - 1) : s[j] # x

RenameSucc(g, n, w, succ) ==
  [w EXCEPT !.nodes[succ] = rename_phi_arg(@, FirstPlace(Predecessors(g, succ), n), w.stacks)]

RECURSIVE rename_node(_, _, _, _)

\* Mutant: the names of a subtree stay on the stacks.
rename_node_leaking(g, doms, w, n) ==
  LET here == FoldLeft(LAMBDA v, s : RenameSucc(g, n, v, s), RenameBlock(w, n), Successors(g, n))
  IN FoldLeft(LAMBDA v, c : rename_node(g, doms, v, c), here, dominator_tree_children(doms, n))

rename_node(g, doms, w, n) ==
  LET here == FoldLeft(LAMBDA v, s : RenameSucc(g, n, v, s), RenameBlock(w, n), Successors(g, n))
      below == FoldLeft(LAMBDA v, c : rename_node(g, doms, v, c), here,
                        dominator_tree_children(doms, n))
  IN [below EXCEPT !.stacks = w.stacks]

rename(g, doms, vars) ==
  LET w == rename_node(g, doms,
             [nodes |-> g.nodes, counts |-> << >>, out |-> << >>,
              stacks |-> [a \in vars |-> <<0>>]], g.root)
  IN [g EXCEPT !.nodes = w.nodes]

(* Every edge gets its place among the edges into its target. *)
fix_edge_numbers(g) ==
  [g EXCEPT !.edges = Listed([e \in DOMAIN g.edges |->
     [g.edges[e] EXCEPT !.number = FirstPlace(Incoming(g, g.edges[e].dst), e)]])]

SsaWith(g, doms, vars) ==
  The({fix_edge_numbers(rename(p, doms, vars)) :
         p \in {place_phi_functions(g, f, vars) : f \in {DominanceFrontier(g, doms)}}})
ssa(g) == The({The({SsaWith(h, d, all_vars(h)) : d \in {Dominators(h)}}) : h \in {g}})

-----------------------------------------------------------------------------
(* Multi-jumps *)

MaxLabel(g) == FoldLeft(LAMBDA m, b : IF b.label > m THEN b.label ELSE m, 0, g.nodes)
Unlabelled(g) == SelectSeq([n \in NodeIndices(g) |-> n], LAMBDA n : g.nodes[n].label = NoLabel)

(* A continue edge is the only one of its node. *)
GotoChild(g, n) ==
  LET e == Outgoing(g, n)[1]
  IN [g EXCEPT !.edges[e].kind = [k |-> "goto"],
               !.nodes[n].term = Goto(g.nodes[g.edges[e].dst].label)]

label_every_block(g) ==
  LET bare == Unlabelled(g)
      labelled == [g EXCEPT !.nodes = Listed([n \in NodeIndices(g) |->
                     IF g.nodes[n].label # NoLabel THEN g.nodes[n]
                     ELSE [g.nodes[n] EXCEPT !.label = MaxLabel(g) + FirstPlace(bare, n)]])]
  IN FoldLeft(GotoChild, labelled,
       SelectSeq([n \in NodeIndices(g) |-> n], LAMBDA n : g.nodes[n].term.k = "continue"))

MultiJump(t) == [k |-> "multi", tree |-> t]
MultiEdge(path) == [k |-> "multi", path |-> path]

(* find_edge is asked for each of the two children: a jump whose branches  *)
(* agree would have one of its edges found twice.                          *)
JumpToMulti(g, n) ==
  LET children == Successors(g, n)
      e1 == find_edge(g, n, children[1])
      e2 == find_edge(g, n, children[2])
      t == IF g.edges[e1].kind.b THEN e1 ELSE e2
      f == IF g.edges[e1].kind.b THEN e2 ELSE e1
      label(e) == g.nodes[g.edges[e].dst].label
  IN [g EXCEPT !.edges = Listed([e \in DOMAIN g.edges |->
                  CASE e = f -> [g.edges[e] EXCEPT !.kind = MultiEdge(<<FALSE>>)]
                    [] e = t /\ e # f -> [g.edges[e] EXCEPT !.kind = MultiEdge(<<TRUE>>)]
                    [] OTHER -> g.edges[e]]),
               !.nodes[n].term = MultiJump(TCond(@.exp, TGoto(label(t)), TGoto(label(f))))]

NodeToMulti(g, n) ==
  CASE g.nodes[n].term.k = "goto" ->
         [g EXCEPT !.edges[Outgoing(g, n)[1]].kind = MultiEdge(<< >>),
                   !.nodes[n].term = MultiJump(TGoto(@.target))]
    [] g.nodes[n].term.k = "jump" -> JumpToMulti(g, n)
    [] OTHER -> g

to_multi_jump(g) == FoldLeft(NodeToMulti, g, [n \in NodeIndices(g) |-> n])

is_multi_jump(g, n) == g.nodes[n].term.k = "multi"

(* An edge whose target is an empty multi-jump no other node leads to. *)
Mergeable(g, e) ==
  LET n == g.edges[e].src
      m == g.edges[e].dst
  IN /\ is_multi_jump(g, n) /\ is_multi_jump(g, m)
     /\ g.nodes[m].instrs = << >> /\ g.nodes[m].phis = << >>
     /\ \A p \in Range(Predecessors(g, m)) : p = n

(* The tree of the target replaces the leaf, and its edges become edges of *)
(* the source along the longer path.                                       *)
MergeEdge(g, e, m) ==
  LET n == g.edges[e].src
      path == g.edges[e].kind.path
      leaf == [g EXCEPT !.nodes[n].term.tree = insert(@, path, g.nodes[m].term.tree)]
  IN FoldLeft(LAMBDA h, f : add_edge(h, n, g.edges[f].dst, g.edges[f].number,
                                     MultiEdge(path \o g.edges[f].kind.path)),
              leaf, Outgoing(g, m))

merge_multi_jump(g, e) ==
  LET m == g.edges[e].dst
  IN remove_node(FoldLeft(LAMBDA h, f : MergeEdge(h, f, m), g,
                          edges_connecting(g, g.edges[e].src, m)), m)

RECURSIVE merge_multi_jumps(_)
merge_multi_jumps(g) ==
  LET es == {e \in DOMAIN g.edges : Mergeable(g, e)}
  IN IF es = {} THEN g
     ELSE merge_multi_jumps(merge_multi_jump(g, CHOOSE e \in es : \A f \in es : e <= f))
=============================================================================
