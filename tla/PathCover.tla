----------------------------- MODULE PathCover ------------------------------
(***************************************************************************)
(* What symbolic execution promises, whoever executes the paths and in     *)
(* whichever order: the inputs of each task are split over paths, each     *)
(* path knows its Fraction of the task, and each is handed in once.        *)
(*                                                                         *)
(* An item is [id, path, models, frac]: the TaskId, the branches taken,    *)
(* the inputs on the path and its Fraction.                                *)
(***************************************************************************)
EXTENDS Fraction, Sequences

CONSTANT Initial   \* the items the execution starts with

VARIABLES pending, done

Init == pending = Initial /\ done = {}

\* A path is split in two: no input is lost, none is on both, and the branch
\* that goes on has one.
Split ==
  /\ \E i \in pending \ pending' : \E j, k \in pending' \ pending :
       /\ j.id = i.id /\ k.id = i.id
       /\ j.path = Append(i.path, 0) /\ k.path = Append(i.path, 1)
       /\ j.models \cup k.models = i.models /\ j.models \cap k.models = {}
       /\ j.models # {}
       /\ SumsTo(j.frac, k.frac, i.frac)
       /\ pending' = (pending \ {i}) \cup {j, k}
  /\ UNCHANGED done

\* Inputs are assumed away.
Narrow ==
  /\ \E i \in pending \ pending' : \E j \in pending' \ pending :
       /\ j = [i EXCEPT !.models = j.models] /\ j.models \subseteq i.models
       /\ pending' = (pending \ {i}) \cup {j}
  /\ UNCHANGED done

HandIn ==
  \E i \in pending \ pending' : pending' = pending \ {i} /\ done' = done \cup {i}

Next == Split \/ Narrow \/ HandIn

Spec == Init /\ [][Next]_<<pending, done>>

=============================================================================
