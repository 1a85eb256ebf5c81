----------------------------- MODULE MCTransforms -----------------------------
(***************************************************************************)
(* What isla rewrites must go on meaning the same: the body of a function, *)
(* before it is executed (MCRewrites), or the trace that was the result    *)
(* (MCSimplify).  A behaviour is about one of the two; stage counts the    *)
(* passes of either.                                                       *)
(***************************************************************************)
CONSTANT Word

VARIABLES kind,                                   \* "function" or "trace"
          source, body, linear, unreachable,      \* the function
          original, current, hidden,              \* the trace or tree
          stage

functionVars == <<source, body, linear, unreachable>>
traceVars == <<original, current, hidden>>
vars == <<kind, functionVars, traceVars, stage>>

Functions == INSTANCE MCRewrites
Traces == INSTANCE MCSimplify

Nothing == << >>

Init ==
  \/ /\ kind = "function" /\ Functions!Init
     /\ original = Nothing /\ current = Nothing /\ hidden = FALSE
  \/ /\ kind = "trace" /\ Traces!Init
     /\ source = Nothing /\ body = Nothing /\ linear = "no" /\ unreachable = FALSE

Next ==
  \/ kind = "function" /\ Functions!Next /\ UNCHANGED <<kind, traceVars>>
  \/ kind = "trace" /\ Traces!Next /\ UNCHANGED <<kind, functionVars>>

Spec == Init /\ [][Next]_vars

(* The rewrites of functions (linearize.rs, partial_linearize.rs, ir.rs)   *)
(* keep what a call returns and which calls it makes, or repeat calls      *)
(* where they count as pure.                                               *)
RewritesKeepRuns == kind = "function" => Functions!RewritesKeepRuns

(* The graph the linearisations start from is in SSA form (ssa.rs).        *)
SingleAssignment == kind = "function" => Functions!SingleAssignment

(* Simplification (simplify.rs) keeps what the paths of a trace or of a    *)
(* tree of traces say of registers and observed values, and its checked    *)
(* evaluation never refuses a tree.                                        *)
SimplifyKeepsMeaning == kind = "trace" => Traces!SimplifyKeepsMeaning

(* The assumptions a path relies on stay in its trace (simplify.rs).       *)
NeededAssumptionsStay == kind = "trace" => Traces!NeededAssumptionsStay
===============================================================================
