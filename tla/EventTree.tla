----------------------------- MODULE EventTree ------------------------------
(***************************************************************************)
(* isla-lib/src/simplify.rs: EventTree, which merges the traces of the     *)
(* paths of one execution.  A tree is [fork_id, prefix, forks]; fork_id is *)
(* the branch number of the Fork event before the prefix (NoFork at the    *)
(* root).                                                                  *)
(***************************************************************************)
EXTENDS Naturals, Sequences

Seqx == INSTANCE SequencesExt

NoFork == 9

\* Mutant: the branch number is attached to the segment before the fork.
break_into_forks_mutant(events) ==
  LET add(acc, e) ==
        IF e.ev = "fork"
          THEN Append([acc EXCEPT ![Len(acc)].fork_id = e.branch], [fork_id |-> NoFork, events |-> <<>>])
        ELSE [acc EXCEPT ![Len(acc)].events = Append(@, e)]
  IN  Seqx!FoldLeft(add, <<[fork_id |-> NoFork, events |-> <<>>]>>, events)

\* break_into_forks: the segments between Fork events, each with the branch
\* number of the Fork event before it.
break_into_forks(events) ==
  LET add(acc, e) ==
        IF e.ev = "fork" THEN Append(acc, [fork_id |-> e.branch, events |-> <<>>])
        ELSE [acc EXCEPT ![Len(acc)].events = Append(@, e)]
  IN  Seqx!FoldLeft(add, <<[fork_id |-> NoFork, events |-> <<>>]>>, events)

Leaf(b, forks) == [fork_id |-> b.fork_id, prefix |-> b.events, forks |-> forks]

\* from_broken_events: the segments as one chain.
from_broken_events(broken) ==
  LET n == Len(broken)
      up(acc, b) == Leaf(b, <<acc>>)
  IN  Seqx!FoldLeft(up, Leaf(broken[n], <<>>), Seqx!Reverse(SubSeq(broken, 1, n - 1)))

from_events(events) == from_broken_events(break_into_forks(events))

\* add_events follows the segments through the forks with their branch numbers
\* and hangs the first segment that has no fork yet, and all after it, there.
RECURSIVE AddBroken(_, _)
AddBroken(tree, rest) ==
  IF rest = <<>> THEN tree
  ELSE LET pos == {k \in DOMAIN tree.forks : tree.forks[k].fork_id = rest[1].fork_id} IN
       IF pos = {} THEN [tree EXCEPT !.forks = Append(@, from_broken_events(rest))]
       ELSE LET k == CHOOSE k \in pos : \A m \in pos : k <= m IN
            [tree EXCEPT !.forks[k] = AddBroken(@, Tail(rest))]

add_events(tree, events) == AddBroken(tree, Tail(break_into_forks(events)))

\* The tree footprint --tree builds from the traces, in the order collected.
TreeOf(traces) == Seqx!FoldLeft(add_events, from_events(traces[1]), Tail(traces))

RECURSIVE PathsOf(_)
\* Root-to-leaf paths of a tree, as [branches, segments].
PathsOf(tree) ==
  LET here == <<tree.prefix>> IN
  IF tree.forks = <<>> THEN {[branches |-> <<>>, segments |-> here]}
  ELSE UNION {{[branches |-> <<tree.forks[k].fork_id>> \o p.branches,
                segments |-> here \o p.segments] : p \in PathsOf(tree.forks[k])} :
              k \in DOMAIN tree.forks}

=============================================================================
