---------------------------- MODULE RunLoopProofs ---------------------------
(***************************************************************************)
(* run_loop, for every well-formed program and any number of constants: a  *)
(* path and the tasks it suspends only mention Syms that their solvers     *)
(* know, the tasks split the inputs of the program, and a path says what   *)
(* the program does on each of its inputs.                                 *)
(*                                                                         *)
(* Each part of a step is shown to be Sound: it leaves a frame and a       *)
(* solver that belong together, on the same path.  The second half shows   *)
(* that a step of a path is, for each of its inputs, a step of the run of  *)
(* the program on that input (ConcreteRun).                                *)
(***************************************************************************)
EXTENDS ConcreteRun, PathLemmas, SequenceTheorems

-----------------------------------------------------------------------------
(* The solver: it can be rebuilt from its trace, so what a Checkpoint      *)
(* keeps is enough to go on, for any number of constants and events.       *)
(* The types of SMT expressions, of events and of solvers.                 *)

Atoms == [op : {"var"}, x : Nat] \cup [op : {"lit"}, x : Bits]
Terms == Atoms \cup [op : {"eq", "neq"}, x : Atoms, y : Atoms]

\* Names are strings; the provers have to be told which literals are.
Names == STRING \cup {"main", "return", "a", "abstracted", "R", "PC", "L"}

Recorded == [k : {"bits", "sym", "poison", "unit", "uninit"}, n : Nat]

Event ==
  [ev : {"declare"}, v : Nat, of : Nat \cup {Free}]
    \cup [ev : {"define"}, v : Nat, exp : Terms]
    \cup [ev : {"assert"}, exp : Terms]
    \cup [ev : {"fork"}, id : Nat, v : Nat, branch : Bits]
    \cup [ev : {"read-reg", "write-reg"}, reg : Names, val : Recorded]
    \cup [ev : {"call", "return", "abstract", "use-fun-assumption"}, fn : Names]
    \cup [ev : {"instr"}, val : Recorded]

Meanings == SUBSET Assignments
Decls == UNION {[D -> Meanings] : D \in SUBSET Nat}

Solvers == [next_var : Nat, decls : Decls, consts : Nat, models : Meanings,
            tail : Seq(Seq(Event)), head : Seq(Event)]

\* What Z3 knows, without the trace and the next Sym.
Core(s) == [next_var |-> 0, decls |-> s.decls, consts |-> s.consts, models |-> s.models,
            tail |-> <<>>, head |-> <<>>]

\* Z3 holds what the events of the trace make of a new solver.
Faithful(s) == s \in Solvers /\ Replay!fold(NewSolver, to_vec(s)) = Core(s)

(* A solver is its fields.                                                 *)
LEMMA SolverFields ==
  ASSUME NEW s \in Solvers
  PROVE  /\ s = [next_var |-> s.next_var, decls |-> s.decls, consts |-> s.consts,
                 models |-> s.models, tail |-> s.tail, head |-> s.head]
         /\ s.next_var \in Nat /\ s.decls \in Decls /\ s.consts \in Nat /\ s.models \in Meanings
         /\ s.tail \in Seq(Seq(Event)) /\ s.head \in Seq(Event)
BY DEF Solvers

-----------------------------------------------------------------------------
(* What an event does to Z3.                                               *)

\* One more Sym has a meaning.
With(d, v, m) == [u \in DOMAIN d \cup {v} |-> IF u = v THEN m ELSE d[u]]

(* A Sym gets a meaning; nothing else changes.                             *)
LEMMA DeclareFacts ==
  ASSUME NEW s \in Solvers, NEW v, NEW m
  PROVE  /\ Declare(s, v, m) = [next_var |-> s.next_var, decls |-> With(s.decls, v, m),
                                consts |-> s.consts, models |-> s.models,
                                tail |-> s.tail, head |-> s.head]
         /\ Declare(Core(s), v, m) = [next_var |-> 0, decls |-> With(s.decls, v, m),
                                      consts |-> s.consts, models |-> s.models,
                                      tail |-> <<>>, head |-> <<>>]
<1> DEFINE d == With(s.decls, v, m)
<1>1. Declare(s, v, m) = [s EXCEPT !.decls = d] /\ Declare(Core(s), v, m) = [Core(s) EXCEPT !.decls = d]
  BY DEF Declare, Core, With
<1> HIDE DEF d
<1>2. [s EXCEPT !.decls = d] = [next_var |-> s.next_var, decls |-> d, consts |-> s.consts,
                                models |-> s.models, tail |-> s.tail, head |-> s.head]
  BY DEF Solvers
<1>3. [Core(s) EXCEPT !.decls = d] = [next_var |-> 0, decls |-> d, consts |-> s.consts,
                                      models |-> s.models, tail |-> <<>>, head |-> <<>>]
  BY DEF Core
<1> QED BY <1>1, <1>2, <1>3 DEF d

(* Z3 does not look at the trace, nor at the next Sym.                     *)
LEMMA CoreStep ==
  ASSUME NEW s \in Solvers, NEW e \in Event
  PROVE  add_event_internal(Core(s), e) = Core(add_event_internal(s, e))
<1>1. \A x : translate_exp(Core(s), x) = translate_exp(s, x)
  BY DEF translate_exp, atom_meaning, Core
<1>2. next_bit(Core(s)) = next_bit(s)
  BY DEF next_bit, Core
<1>3. ASSUME NEW v, NEW m PROVE Declare(Core(s), v, m) = Core(Declare(s, v, m))
  <2> DEFINE t == Declare(s, v, m)
             d == With(s.decls, v, m)
  <2>1. t = [next_var |-> s.next_var, decls |-> d, consts |-> s.consts,
             models |-> s.models, tail |-> s.tail, head |-> s.head]
    BY DeclareFacts
  <2>2. Declare(Core(s), v, m) = [next_var |-> 0, decls |-> d, consts |-> s.consts,
                                  models |-> s.models, tail |-> <<>>, head |-> <<>>]
    BY DeclareFacts
  <2> HIDE DEF t, d
  <2>3. Core(t) = [next_var |-> 0, decls |-> d, consts |-> s.consts,
                   models |-> s.models, tail |-> <<>>, head |-> <<>>]
    BY <2>1 DEF Core
  <2> QED BY <2>2, <2>3 DEF t
<1>4. CASE e.ev = "declare"
  <2>1. CASE e.of # Free
    BY <1>3, <1>4, <2>1 DEF add_event_internal, Core
  <2>2. CASE e.of = Free
    <3> DEFINE t == Declare(s, e.v, next_bit(s))
    <3>1. add_event_internal(s, e) = [t EXCEPT !.consts = @ + 1]
          /\ add_event_internal(Core(s), e) = [Core(t) EXCEPT !.consts = @ + 1]
      BY <1>2, <1>3, <1>4, <2>2 DEF add_event_internal
    <3>2. t = [next_var |-> s.next_var, decls |-> t.decls, consts |-> s.consts, models |-> s.models,
               tail |-> s.tail, head |-> s.head]
      BY DeclareFacts
    <3> HIDE DEF t
    <3> QED BY <3>1, <3>2 DEF Core
  <2> QED BY <2>1, <2>2
<1>5. CASE e.ev = "define"
  BY <1>1, <1>3, <1>5 DEF add_event_internal
<1>6. CASE e.ev = "assert"
  BY <1>1, <1>6, SolverFields DEF add_event_internal, Core
<1>7. CASE e.ev \notin {"declare", "define", "assert"}
  BY <1>7 DEF add_event_internal
<1> QED BY <1>4, <1>5, <1>6, <1>7

\* The event names no Sym that Z3 does not know.
Allowed(s, e) ==
  /\ e \in Event
  /\ e.ev = "declare" => e.of = Free \/ e.of \in DOMAIN s.decls
  /\ e.ev = "define" => translate_exp(s, e.exp) \in Meanings

\* The events of t and s lie behind Z3 only.
SameTrace(s, t) == t.next_var = s.next_var /\ t.tail = s.tail /\ t.head = s.head

(* One more meaning leaves the declarations well typed.                    *)
LEMMA WithFacts ==
  ASSUME NEW d \in Decls, NEW v \in Nat, NEW m \in Meanings
  PROVE  /\ With(d, v, m) \in Decls /\ DOMAIN With(d, v, m) = DOMAIN d \cup {v}
         /\ \A u \in DOMAIN d \ {v} : With(d, v, m)[u] = d[u]
<1>1. PICK D \in SUBSET Nat : d \in [D -> Meanings]
  BY DEF Decls
<1>2. With(d, v, m) \in [D \cup {v} -> Meanings]
  BY <1>1 DEF With
<1>3. D \cup {v} \in SUBSET Nat
  OBVIOUS
<1>4. With(d, v, m) \in Decls
  BY <1>2, <1>3 DEF Decls
<1>5. DOMAIN With(d, v, m) = DOMAIN d \cup {v} /\ \A u \in DOMAIN d \ {v} : With(d, v, m)[u] = d[u]
  BY DEF With
<1> QED BY <1>4, <1>5

(* A declared Sym means a set of assignments.                              *)
LEMMA MeaningFacts ==
  ASSUME NEW s \in Solvers, NEW v \in DOMAIN s.decls
  PROVE  v \in Nat /\ s.decls[v] \in Meanings
<1>1. s.decls \in Decls
  BY SolverFields
<1>2. PICK D \in SUBSET Nat : s.decls \in [D -> Meanings]
  BY <1>1 DEF Decls
<1> QED BY <1>2

(* Z3 after each kind of event.                                            *)
LEMMA StepFacts ==
  ASSUME NEW s \in Solvers, NEW e, Allowed(s, e)
  PROVE  LET t == add_event_internal(s, e) IN
         /\ t \in Solvers /\ SameTrace(s, t)
         /\ e.ev = "declare" =>
              /\ t.decls = With(s.decls, e.v, IF e.of = Free THEN next_bit(s) ELSE s.decls[e.of])
              /\ t.models = s.models
         /\ e.ev = "define" =>
              t.decls = With(s.decls, e.v, translate_exp(s, e.exp)) /\ t.models = s.models
         /\ e.ev = "assert" => t.decls = s.decls /\ t.models = s.models \cap translate_exp(s, e.exp)
         /\ e.ev \notin {"declare", "define", "assert"} => t = s
<1> DEFINE t == add_event_internal(s, e)
<1>1. e \in Event /\ s.next_var \in Nat /\ s.decls \in Decls /\ s.consts \in Nat
      /\ s.models \in Meanings /\ s.tail \in Seq(Seq(Event)) /\ s.head \in Seq(Event)
  BY SolverFields DEF Allowed
<1>2. ASSUME NEW v \in Nat, NEW m \in Meanings, NEW c \in Nat,
             t = [next_var |-> s.next_var, decls |-> With(s.decls, v, m), consts |-> c,
                  models |-> s.models, tail |-> s.tail, head |-> s.head]
      PROVE  t \in Solvers /\ SameTrace(s, t) /\ t.decls = With(s.decls, v, m) /\ t.models = s.models
  <2>1. With(s.decls, v, m) \in Decls
    BY <1>1, WithFacts
  <2> HIDE DEF t
  <2> QED BY <1>1, <1>2, <2>1 DEF Solvers, SameTrace
<1>3. CASE e.ev = "declare"
  <2> DEFINE m == IF e.of = Free THEN next_bit(s) ELSE s.decls[e.of]
             c == IF e.of = Free THEN s.consts + 1 ELSE s.consts
  <2>1. e.v \in Nat
    BY <1>1, <1>3 DEF Event
  <2>2. m \in Meanings
    BY <1>3, MeaningFacts DEF Allowed, next_bit, Meanings
  <2>3. c \in Nat
    BY <1>1
  <2>4. t = [next_var |-> s.next_var, decls |-> With(s.decls, e.v, m), consts |-> c,
             models |-> s.models, tail |-> s.tail, head |-> s.head]
    <3> DEFINE n == next_bit(s)
               u == Declare(s, e.v, n)
    <3>1. CASE e.of = Free
      <4>1. t = [u EXCEPT !.consts = @ + 1]
        BY <1>3, <3>1 DEF add_event_internal
      <4>2. u = [next_var |-> s.next_var, decls |-> With(s.decls, e.v, n), consts |-> s.consts,
                 models |-> s.models, tail |-> s.tail, head |-> s.head]
        BY DeclareFacts
      <4> HIDE DEF t, u, n
      <4>3. t = [next_var |-> s.next_var, decls |-> With(s.decls, e.v, n), consts |-> s.consts + 1,
                 models |-> s.models, tail |-> s.tail, head |-> s.head]
        BY <4>1, <4>2
      <4>4. m = n /\ c = s.consts + 1
        BY <3>1 DEF n
      <4> HIDE DEF m, c
      <4> QED BY <4>3, <4>4
    <3>2. CASE e.of # Free
      <4>1. t = Declare(s, e.v, s.decls[e.of]) /\ m = s.decls[e.of] /\ c = s.consts
        BY <1>3, <3>2 DEF add_event_internal
      <4> HIDE DEF t, m, c
      <4> QED BY <4>1, DeclareFacts
    <3> QED BY <3>1, <3>2
  <2> HIDE DEF t, m, c
  <2>5. t \in Solvers /\ SameTrace(s, t) /\ t.decls = With(s.decls, e.v, m) /\ t.models = s.models
    BY <1>2, <2>1, <2>2, <2>3, <2>4
  <2> QED BY <1>3, <2>5 DEF t, m
<1>4. CASE e.ev = "define"
  <2> DEFINE m == translate_exp(s, e.exp)
  <2>1. e.v \in Nat /\ m \in Meanings
    BY <1>1, <1>4 DEF Event, Allowed
  <2>2. t = Declare(s, e.v, m)
    BY <1>4 DEF add_event_internal
  <2> HIDE DEF t, m
  <2>3. t = [next_var |-> s.next_var, decls |-> With(s.decls, e.v, m), consts |-> s.consts,
             models |-> s.models, tail |-> s.tail, head |-> s.head]
    BY <2>2, DeclareFacts
  <2>4. t \in Solvers /\ SameTrace(s, t) /\ t.decls = With(s.decls, e.v, m) /\ t.models = s.models
    BY <1>1, <1>2, <2>1, <2>3
  <2> QED BY <1>4, <2>4 DEF t, m
<1>5. CASE e.ev = "assert"
  <2> DEFINE m == s.models \cap translate_exp(s, e.exp)
  <2>1. t = [s EXCEPT !.models = m]
    BY <1>5 DEF add_event_internal
  <2>2. m \in Meanings
    BY <1>1 DEF Meanings
  <2> HIDE DEF t, m
  <2>3. t \in Solvers /\ SameTrace(s, t) /\ t.decls = s.decls /\ t.models = m
    BY <2>1, <2>2 DEF Solvers, SameTrace
  <2> QED BY <1>5, <2>3 DEF t, m
<1>6. CASE e.ev \notin {"declare", "define", "assert"}
  BY <1>6 DEF add_event_internal, SameTrace
<1> QED BY <1>3, <1>4, <1>5, <1>6

-----------------------------------------------------------------------------
(* The trace, and the solver that is rebuilt from it.                      *)

(* The events of a tail are a sequence, and a new segment goes to its end. *)
LEMMA SegmentFacts ==
  ASSUME NEW tail \in Seq(Seq(Event))
  PROVE  /\ Segments!fold(<<>>, tail) \in Seq(Event)
         /\ \A seg \in Seq(Event) :
              Segments!fold(<<>>, Append(tail, seg)) = Segments!fold(<<>>, tail) \o seg
<1>1. append_segment(<<>>, <<>>) = <<>> /\ \A a, e \in Seq(Event) : append_segment(a, e) \in Seq(Event)
  BY ConcatProperties DEF append_segment
<1>2. Segments!fold(<<>>, tail) \in Seq(Event)
  <2>1. <<>> \in Seq(Event)
    OBVIOUS
  <2> QED BY ONLY <1>1, <2>1, tail \in Seq(Seq(Event)), Segments!FoldType
<1>3. ASSUME NEW seg \in Seq(Event)
      PROVE  Segments!fold(<<>>, Append(tail, seg)) = Segments!fold(<<>>, tail) \o seg
  BY Segments!FoldAppend DEF append_segment
<1> QED BY <1>2, <1>3

(* to_vec lists events.                                                    *)
LEMMA TraceType == ASSUME NEW s \in Solvers PROVE to_vec(s) \in Seq(Event)
BY SolverFields, SegmentFacts, ConcatProperties DEF to_vec

(* The trace of a solver whose head has one more event.                    *)
LEMMA TraceGrows ==
  ASSUME NEW s \in Solvers, NEW e \in Event, NEW u, u.tail = s.tail, u.head = Append(s.head, e)
  PROVE  to_vec(u) = Append(to_vec(s), e)
<1> DEFINE a == Segments!fold(<<>>, s.tail)
           h == s.head
<1>1. a \in Seq(Event) /\ h \in Seq(Event)
  BY SolverFields, SegmentFacts
<1>2. to_vec(u) = a \o Append(h, e) /\ to_vec(s) = a \o h
  BY DEF to_vec
<1> HIDE DEF a, h
<1>3. a \o Append(h, e) = Append(a \o h, e)
  <2>1. Append(h, e) = h \o <<e>> /\ Append(a \o h, e) = (a \o h) \o <<e>>
    BY <1>1, AppendIsConcat, ConcatProperties
  <2>2. <<e>> \in Seq(Event)
    OBVIOUS
  <2> QED BY <1>1, <2>1, <2>2, ConcatAssociative
<1> QED BY <1>2, <1>3

(* Solver::new.                                                            *)
LEMMA NewFaithful == Faithful(NewSolver) /\ to_vec(NewSolver) = <<>>
<1>1. [v \in {} |-> {}] \in Decls
  <2>1. [v \in {} |-> {}] \in [{} -> Meanings] /\ {} \in SUBSET Nat
    OBVIOUS
  <2> QED BY <2>1 DEF Decls
<1>2. NewSolver \in Solvers
  BY <1>1 DEF NewSolver, Solvers, Meanings
<1>3. NewSolver.tail = <<>> /\ NewSolver.head = <<>> /\ Core(NewSolver) = NewSolver
  BY DEF NewSolver, Core
<1>4. to_vec(NewSolver) = <<>>
  <2>1. Segments!fold(<<>>, <<>>) = <<>>
    BY Segments!FoldEmpty
  <2> QED BY <1>3, <2>1 DEF to_vec
<1>5. Replay!fold(NewSolver, <<>>) = NewSolver
  BY Replay!FoldEmpty
<1> QED BY <1>2, <1>3, <1>4, <1>5 DEF Faithful

(* An event goes to Z3 and to the end of the trace.                        *)
LEMMA AddEventFacts ==
  ASSUME NEW s, Faithful(s), NEW e, Allowed(s, e)
  PROVE  LET u == add_event(s, e)
             t == add_event_internal(s, e) IN
         /\ Faithful(u) /\ u.next_var = s.next_var /\ u.decls = t.decls /\ u.models = t.models
         /\ to_vec(u) = Append(to_vec(s), e)
<1> DEFINE u == add_event(s, e)
           t == add_event_internal(s, e)
<1>1. s \in Solvers /\ e \in Event /\ t \in Solvers /\ SameTrace(s, t)
  BY StepFacts DEF Faithful, Allowed
<1>2. u = [t EXCEPT !.head = Append(s.head, e)]
  BY <1>1 DEF add_event, SameTrace, Solvers
<1>3. Append(s.head, e) \in Seq(Event)
  BY <1>1, SolverFields
<1>4. Core(add_event_internal(s, e)) = add_event_internal(Core(s), e)
  BY <1>1, CoreStep
<1>5. t.tail = s.tail /\ t.next_var = s.next_var
  BY <1>1 DEF SameTrace
<1> HIDE DEF t, u
<1>6. u \in Solvers /\ u.next_var = s.next_var /\ u.decls = t.decls /\ u.models = t.models
      /\ u.consts = t.consts /\ u.tail = s.tail /\ u.head = Append(s.head, e)
  BY <1>1, <1>2, <1>3, <1>5 DEF Solvers
<1>7. to_vec(u) = Append(to_vec(s), e)
  BY <1>1, <1>6, TraceGrows
<1>8. Core(u) = Core(t)
  BY <1>6 DEF Core
<1>9. Replay!fold(NewSolver, to_vec(u)) = Core(u)
  <2>1. to_vec(s) \in Seq(Event)
    BY <1>1, TraceType
  <2>2. Replay!fold(NewSolver, Append(to_vec(s), e)) = add_event_internal(Replay!fold(NewSolver, to_vec(s)), e)
    BY <1>1, <2>1, Replay!FoldAppend
  <2>3. Replay!fold(NewSolver, to_vec(s)) = Core(s)
    BY DEF Faithful
  <2> QED BY <1>4, <1>7, <1>8, <2>2, <2>3 DEF t
<1>10. Faithful(u)
  BY <1>6, <1>9 DEF Faithful
<1> QED BY <1>6, <1>7, <1>10 DEF u, t

(* The counter of fresh() is not Z3's.                                     *)
LEMMA FreshFacts ==
  ASSUME NEW s, Faithful(s)
  PROVE  LET u == [s EXCEPT !.next_var = @ + 1] IN
         /\ Faithful(u) /\ u.next_var = s.next_var + 1 /\ u.decls = s.decls /\ u.models = s.models
         /\ u.consts = s.consts /\ to_vec(u) = to_vec(s)
<1> DEFINE u == [s EXCEPT !.next_var = @ + 1]
<1>1. s \in Solvers
  BY DEF Faithful
<1>2. u \in Solvers /\ u.next_var = s.next_var + 1 /\ u.decls = s.decls /\ u.models = s.models
      /\ u.consts = s.consts /\ u.tail = s.tail /\ u.head = s.head
  BY <1>1 DEF Solvers
<1> HIDE DEF u
<1>3. Core(u) = Core(s) /\ to_vec(u) = to_vec(s)
  BY <1>2 DEF Core, to_vec
<1> QED BY <1>2, <1>3 DEF Faithful, u

(* Trace::checkpoint, field by field.                                      *)
LEMMA CheckpointedIs ==
  ASSUME NEW s \in Solvers
  PROVE  checkpointed(s) = [next_var |-> s.next_var, decls |-> s.decls, consts |-> s.consts,
                            models |-> s.models, tail |-> Append(s.tail, s.head), head |-> <<>>]
<1> DEFINE tl == Append(s.tail, s.head)
           r == [s EXCEPT !.tail = tl]
<1>1. checkpointed(s) = [r EXCEPT !.head = <<>>]
  BY DEF checkpointed
<1> HIDE DEF tl
<1>2. r = [next_var |-> s.next_var, decls |-> s.decls, consts |-> s.consts, models |-> s.models,
           tail |-> tl, head |-> s.head]
  BY DEF Solvers
<1> HIDE DEF r
<1>3. [r EXCEPT !.head = <<>>] = [next_var |-> s.next_var, decls |-> s.decls, consts |-> s.consts,
                                  models |-> s.models, tail |-> tl, head |-> <<>>]
  BY <1>2
<1> QED BY <1>1, <1>3 DEF tl

(* Trace::checkpoint keeps the events.                                     *)
LEMMA CheckpointedFacts ==
  ASSUME NEW s, Faithful(s)
  PROVE  LET u == checkpointed(s) IN
         /\ Faithful(u) /\ u.next_var = s.next_var /\ u.decls = s.decls /\ u.models = s.models
         /\ to_vec(u) = to_vec(s)
<1> DEFINE u == checkpointed(s)
           tl == Append(s.tail, s.head)
<1>1. s \in Solvers /\ tl \in Seq(Seq(Event))
  BY SolverFields DEF Faithful
<1>2. u = [next_var |-> s.next_var, decls |-> s.decls, consts |-> s.consts, models |-> s.models,
           tail |-> tl, head |-> <<>>]
  BY <1>1, CheckpointedIs
<1>3. Segments!fold(<<>>, tl) = Segments!fold(<<>>, s.tail) \o s.head
      /\ Segments!fold(<<>>, tl) \in Seq(Event)
  BY <1>1, SolverFields, SegmentFacts
<1> HIDE DEF u, tl
<1>4. u \in Solvers /\ u.next_var = s.next_var /\ u.decls = s.decls /\ u.models = s.models
      /\ u.consts = s.consts /\ u.tail = tl /\ u.head = <<>>
  BY <1>1, <1>2 DEF Solvers
<1>5. to_vec(u) = to_vec(s)
  <2> DEFINE a == Segments!fold(<<>>, tl)
  <2>1. to_vec(u) = a \o <<>> /\ to_vec(s) = a
    BY <1>3, <1>4 DEF to_vec
  <2>2. a \in Seq(Event)
    BY <1>3
  <2> HIDE DEF a
  <2> QED BY <2>1, <2>2, ConcatEmptySeq
<1>6. Core(u) = Core(s)
  BY <1>4 DEF Core
<1> QED BY <1>4, <1>5, <1>6 DEF Faithful, u

(* Solver::from_checkpoint rebuilds from the events alone the solver that  *)
(* the checkpoint was taken of: Z3's declarations and assertions, and the  *)
(* next Sym.                                                               *)
THEOREM CheckpointsRestore ==
  ASSUME NEW s, Faithful(s) PROVE from_checkpoint(checkpoint(s)) = checkpointed(s)
<1> DEFINE tl == Append(s.tail, s.head)
<1>1. s \in Solvers /\ tl \in Seq(Seq(Event))
  BY SolverFields DEF Faithful
<1>2. checkpoint(s) = [next_var |-> s.next_var, trace |-> tl]
      /\ checkpointed(s) = [next_var |-> s.next_var, decls |-> s.decls, consts |-> s.consts,
                            models |-> s.models, tail |-> tl, head |-> <<>>]
  BY <1>1, CheckpointedIs DEF checkpoint
<1>3. Segments!fold(<<>>, tl) = to_vec(s)
  BY <1>1, SolverFields, SegmentFacts DEF to_vec
<1>4. Replay!fold(NewSolver, to_vec(s)) = Core(s)
  BY DEF Faithful
<1> HIDE DEF tl
<1> DEFINE r == replay(checkpoint(s))
<1>5. r = [next_var |-> 0, decls |-> s.decls, consts |-> s.consts, models |-> s.models,
           tail |-> tl, head |-> <<>>]
  <2>1. r = [Core(s) EXCEPT !.tail = tl]
    BY <1>2, <1>3, <1>4 DEF replay
  <2> HIDE DEF r
  <2> QED BY <2>1 DEF Core
<1>6. from_checkpoint(checkpoint(s)) = [r EXCEPT !.next_var = s.next_var]
  BY <1>2 DEF from_checkpoint
<1> HIDE DEF r
<1> QED BY <1>2, <1>5, <1>6

-----------------------------------------------------------------------------
(* The solver of a path: the Syms it declared are those fresh() handed out.*)

SolverOK(s) == Faithful(s) /\ DOMAIN s.decls = 0..(s.next_var - 1)

\* What is known of the Syms of s stays known.
Keeps(s, t) == s.next_var <= t.next_var /\ \A v \in DOMAIN s.decls : t.decls[v] = s.decls[v]

(* fresh() and an event that gives the new Sym its meaning.                *)
LEMMA NewSym ==
  ASSUME NEW s, SolverOK(s), NEW e \in Event, e.ev \in {"declare", "define"}, e.v = s.next_var,
         Allowed([s EXCEPT !.next_var = @ + 1], e)
  PROVE  LET r == [s EXCEPT !.next_var = @ + 1]
             u == add_event(r, e) IN
         /\ SolverOK(u) /\ u.next_var = s.next_var + 1 /\ Keeps(s, u) /\ u.models = s.models
         /\ to_vec(u) = Append(to_vec(s), e)
         /\ e.ev = "declare" => u.decls[e.v] = IF e.of = Free THEN next_bit(r) ELSE s.decls[e.of]
<1> DEFINE r == [s EXCEPT !.next_var = @ + 1]
           u == add_event(r, e)
           t == add_event_internal(r, e)
           m == IF e.ev = "define" THEN translate_exp(r, e.exp)
                ELSE IF e.of = Free THEN next_bit(r) ELSE s.decls[e.of]
<1>1. Faithful(s) /\ DOMAIN s.decls = 0..(s.next_var - 1) /\ s.next_var \in Nat /\ s.decls \in Decls
  BY SolverFields DEF SolverOK, Faithful
<1>2. Faithful(r) /\ r.next_var = s.next_var + 1 /\ r.decls = s.decls /\ r.models = s.models
      /\ to_vec(r) = to_vec(s)
  BY <1>1, FreshFacts
<1>3. Allowed(r, e)
  OBVIOUS
<1> HIDE DEF r
<1>4. Faithful(u) /\ u.next_var = r.next_var /\ u.decls = t.decls /\ u.models = t.models
      /\ to_vec(u) = Append(to_vec(r), e)
  BY <1>2, <1>3, AddEventFacts
<1>5. t.decls = With(r.decls, e.v, m) /\ t.models = r.models
  BY <1>2, <1>3, StepFacts DEF Faithful
<1>6. m \in Meanings
  <2>1. CASE e.ev = "define"
    BY <1>3, <2>1 DEF Allowed
  <2>2. CASE e.ev = "declare" /\ e.of = Free
    BY <2>2 DEF next_bit, Meanings
  <2>3. CASE e.ev = "declare" /\ e.of # Free
    <3>1. e.of \in DOMAIN r.decls /\ m = r.decls[e.of]
      BY <1>2, <1>3, <2>3 DEF Allowed
    <3> QED BY <1>2, <3>1, MeaningFacts DEF Faithful
  <2> QED BY <2>1, <2>2, <2>3
<1>7. e.ev = "declare" => m = IF e.of = Free THEN next_bit(r) ELSE s.decls[e.of]
  OBVIOUS
<1> HIDE DEF u, t, m
<1>8. u.decls = With(s.decls, s.next_var, m)
  BY <1>2, <1>4, <1>5
<1>9. DOMAIN u.decls = DOMAIN s.decls \cup {s.next_var}
      /\ \A v \in DOMAIN s.decls \ {s.next_var} : u.decls[v] = s.decls[v]
  <2>1. s.decls \in Decls /\ s.next_var \in Nat /\ m \in Meanings
    BY <1>1, <1>6
  <2>2. DOMAIN With(s.decls, s.next_var, m) = DOMAIN s.decls \cup {s.next_var}
        /\ \A v \in DOMAIN s.decls \ {s.next_var} : With(s.decls, s.next_var, m)[v] = s.decls[v]
    BY ONLY <2>1, WithFacts
  <2> QED BY <1>8, <2>2, Zenon
<1>10. u.decls[s.next_var] = m
  BY <1>8 DEF With
<1>11. DOMAIN u.decls = 0..(u.next_var - 1) /\ u.next_var = s.next_var + 1
  <2>1. u.next_var = s.next_var + 1
    BY <1>2, <1>4
  <2>2. 0..(s.next_var - 1) \cup {s.next_var} = 0..((s.next_var + 1) - 1)
    BY <1>1
  <2> QED BY <1>1, <1>9, <2>1, <2>2
<1>12. \A v \in DOMAIN s.decls : u.decls[v] = s.decls[v]
  BY <1>1, <1>9
<1>13. s.next_var <= u.next_var
  BY <1>1, <1>11
<1>14. SolverOK(u) /\ Keeps(s, u) /\ u.models = s.models /\ to_vec(u) = Append(to_vec(s), e)
  BY <1>2, <1>4, <1>5, <1>11, <1>12, <1>13, Zenon DEF SolverOK, Keeps
<1> QED BY <1>7, <1>10, <1>11, <1>14 DEF u, r

(* An assertion, and an event that Z3 does not see.                        *)
LEMMA NoNewSym ==
  ASSUME NEW s, SolverOK(s), NEW e \in Event, e.ev \notin {"declare", "define"}
  PROVE  LET u == add_event(s, e) IN
         /\ SolverOK(u) /\ u.next_var = s.next_var /\ u.decls = s.decls /\ Keeps(s, u)
         /\ u.models = IF e.ev = "assert" THEN s.models \cap translate_exp(s, e.exp) ELSE s.models
         /\ to_vec(u) = Append(to_vec(s), e)
<1> DEFINE u == add_event(s, e)
           t == add_event_internal(s, e)
           m == IF e.ev = "assert" THEN s.models \cap translate_exp(s, e.exp) ELSE s.models
<1>1. Faithful(s) /\ s \in Solvers /\ s.next_var \in Nat /\ Allowed(s, e)
  BY SolverFields DEF SolverOK, Faithful, Allowed
<1>2. t.decls = s.decls /\ t.models = m
  BY <1>1, StepFacts
<1>3. Faithful(u) /\ u.next_var = s.next_var /\ u.decls = t.decls /\ u.models = t.models
      /\ to_vec(u) = Append(to_vec(s), e)
  BY <1>1, AddEventFacts
<1> HIDE DEF t, u, m
<1>4. SolverOK(u) /\ Keeps(s, u)
  BY <1>1, <1>2, <1>3 DEF SolverOK, Keeps
<1> QED BY <1>2, <1>3, <1>4 DEF u, m

(* The Checkpoint of such a solver restores one.                           *)
LEMMA RestoredOK ==
  ASSUME NEW s, SolverOK(s)
  PROVE  LET u == checkpointed(s) IN
         /\ from_checkpoint(checkpoint(s)) = u
         /\ SolverOK(u) /\ u.next_var = s.next_var /\ u.decls = s.decls /\ u.models = s.models
         /\ Keeps(s, u) /\ to_vec(u) = to_vec(s)
<1> DEFINE u == checkpointed(s)
<1>1. Faithful(s) /\ s.next_var \in Nat
  BY SolverFields DEF SolverOK, Faithful
<1>2. Faithful(u) /\ u.next_var = s.next_var /\ u.decls = s.decls /\ u.models = s.models
      /\ to_vec(u) = to_vec(s)
  BY <1>1, CheckpointedFacts
<1>3. from_checkpoint(checkpoint(s)) = u
  BY <1>1, CheckpointsRestore
<1> HIDE DEF u
<1>4. SolverOK(u) /\ Keeps(s, u)
  BY <1>1, <1>2 DEF SolverOK, Keeps
<1> QED BY <1>2, <1>3, <1>4 DEF u

-----------------------------------------------------------------------------
(* The types of values and frames, over the first m Syms.                  *)

Known(m) ==
  [k : {"bits"}, n : Bits] \cup [k : {"sym"}, n : 0..(m - 1)] \cup [k : {"poison", "unit"}, n : {0}]
Value(m) == Known(m) \cup {Uninit}

Locals(m) == UNION {[X -> Value(m)] : X \in {Y \in SUBSET Names : "return" \in Y}}
Regs(m) == [{"R", "PC"} -> Value(m)]
Lets(m) == [{"L"} -> Value(m)]
Pcs == Nat \ {0}
Closures(p) == [pc : Pcs, code : DOMAIN p, loc : Names]
Callers == [fn : Names, pc : Pcs]
Counts == [Bits -> Nat]

Frames(p, m) ==
  [fn : Names, code : DOMAIN p, pc : Pcs, forks : Nat, vars : Locals(m), regs : Regs(m),
   lets : Lets(m), stack_vars : Seq(Locals(m)), calls : Seq(Closures(p)), backtrace : Seq(Callers),
   pc_counts : Counts]

(* More Syms, more values.                                                 *)
LEMMA MoreValues ==
  ASSUME NEW m \in Nat, NEW n \in Nat, m <= n
  PROVE  Known(m) \subseteq Known(n) /\ Value(m) \subseteq Value(n)
<1>1. 0..(m - 1) \subseteq 0..(n - 1)
  OBVIOUS
<1>2. [k : {"sym"}, n : 0..(m - 1)] \subseteq [k : {"sym"}, n : 0..(n - 1)]
  BY <1>1
<1>3. Known(m) \subseteq Known(n)
  BY <1>2 DEF Known
<1> QED BY <1>3 DEF Value

LEMMA MoreLocals ==
  ASSUME NEW m \in Nat, NEW n \in Nat, m <= n PROVE Locals(m) \subseteq Locals(n)
<1>1. Value(m) \subseteq Value(n)
  BY MoreValues
<1>2. ASSUME NEW l \in Locals(m) PROVE l \in Locals(n)
  <2>1. PICK X \in {Y \in SUBSET Names : "return" \in Y} : l \in [X -> Value(m)]
    BY DEF Locals
  <2>2. l \in [X -> Value(n)]
    BY <1>1, <2>1
  <2> QED BY <2>2 DEF Locals
<1> QED BY <1>2

LEMMA MoreFrames ==
  ASSUME NEW p, NEW m \in Nat, NEW n \in Nat, m <= n PROVE Frames(p, m) \subseteq Frames(p, n)
<1>1. Locals(m) \subseteq Locals(n)
  BY MoreLocals
<1>2. Regs(m) \subseteq Regs(n) /\ Lets(m) \subseteq Lets(n)
  BY MoreValues DEF Regs, Lets
<1>3. Seq(Locals(m)) \subseteq Seq(Locals(n))
  BY <1>1
<1> QED BY <1>1, <1>2, <1>3 DEF Frames

(* A frame is its fields.                                                  *)
LEMMA FrameFields ==
  ASSUME NEW p, NEW m, NEW f \in Frames(p, m)
  PROVE  /\ f.fn \in Names /\ f.code \in DOMAIN p /\ f.pc \in Pcs /\ f.forks \in Nat
         /\ f.vars \in Locals(m) /\ f.regs \in Regs(m) /\ f.lets \in Lets(m)
         /\ f.stack_vars \in Seq(Locals(m)) /\ f.calls \in Seq(Closures(p))
         /\ f.backtrace \in Seq(Callers) /\ f.pc_counts \in Counts
BY DEF Frames

(* One field of a frame changes.                                           *)
LEMMA FrameUpdates ==
  ASSUME NEW p, NEW m, NEW f \in Frames(p, m)
  PROVE  /\ \A x \in Locals(m) : [f EXCEPT !.vars = x] \in Frames(p, m)
         /\ \A x \in Regs(m) : [f EXCEPT !.regs = x] \in Frames(p, m)
         /\ \A x \in Lets(m) : [f EXCEPT !.lets = x] \in Frames(p, m)
         /\ \A x \in Pcs : [f EXCEPT !.pc = x] \in Frames(p, m)
         /\ \A x \in Nat : [f EXCEPT !.forks = x] \in Frames(p, m)
         /\ \A x \in Counts : [f EXCEPT !.pc_counts = x] \in Frames(p, m)
         /\ \A x \in Seq(Locals(m)) : [f EXCEPT !.stack_vars = x] \in Frames(p, m)
         /\ \A x \in Seq(Closures(p)) : [f EXCEPT !.calls = x] \in Frames(p, m)
         /\ \A x \in Seq(Callers) : [f EXCEPT !.backtrace = x] \in Frames(p, m)
         /\ \A x \in Names : [f EXCEPT !.fn = x] \in Frames(p, m)
         /\ \A x \in DOMAIN p : [f EXCEPT !.code = x] \in Frames(p, m)
BY DEF Frames

(* A variable is bound, or assigned.                                       *)
LEMMA BindFacts ==
  ASSUME NEW m, NEW l \in Locals(m), NEW x \in Names, NEW v \in Value(m)
  PROVE  Bind(l, x, v) \in Locals(m) /\ [l EXCEPT ![x] = v] \in Locals(m)
<1>1. PICK X \in {Y \in SUBSET Names : "return" \in Y} : l \in [X -> Value(m)]
  BY DEF Locals
<1>2. Bind(l, x, v) \in [X \cup {x} -> Value(m)] /\ [l EXCEPT ![x] = v] \in [X -> Value(m)]
  BY <1>1 DEF Bind
<1>3. X \cup {x} \in {Y \in SUBSET Names : "return" \in Y}
  OBVIOUS
<1> QED BY <1>2, <1>3 DEF Locals

(* What a variable holds.                                                  *)
LEMMA LocalFacts ==
  ASSUME NEW m, NEW l \in Locals(m)
  PROVE  "return" \in DOMAIN l /\ \A x \in DOMAIN l : l[x] \in Value(m)
<1>1. PICK X \in {Y \in SUBSET Names : "return" \in Y} : l \in [X -> Value(m)]
  BY DEF Locals
<1> QED BY <1>1

-----------------------------------------------------------------------------
(* The branches of a trace.                                                *)

LEMMA BranchFacts ==
  /\ Branches(<<>>) = <<>>
  /\ \A t \in Seq(Event) :
       /\ Branches(t) \in Seq(Bits)
       /\ \A e \in Event :
            Branches(Append(t, e)) = IF e.ev = "fork" THEN Append(Branches(t), e.branch) ELSE Branches(t)
<1>1. Branches(<<>>) = <<>>
  BY Path!FoldEmpty DEF Branches
<1>2. \A a \in Seq(Bits), e \in Event : add_branch(a, e) \in Seq(Bits)
  <2> SUFFICES ASSUME NEW a \in Seq(Bits), NEW e \in Event PROVE add_branch(a, e) \in Seq(Bits)
    OBVIOUS
  <2>1. e.ev = "fork" => e.branch \in Bits
    BY DEF Event
  <2> QED BY <2>1 DEF add_branch
<1>3. ASSUME NEW t \in Seq(Event) PROVE Branches(t) \in Seq(Bits)
  <2>1. <<>> \in Seq(Bits)
    OBVIOUS
  <2>2. Path!fold(<<>>, t) \in Seq(Bits)
    BY ONLY <1>2, <2>1, t \in Seq(Event), Path!FoldType
  <2> QED BY <2>2 DEF Branches
<1>4. ASSUME NEW t \in Seq(Event), NEW e \in Event
      PROVE  Branches(Append(t, e)) = IF e.ev = "fork" THEN Append(Branches(t), e.branch) ELSE Branches(t)
  BY Path!FoldAppend DEF Branches, add_branch
<1> QED BY <1>1, <1>3, <1>4

-----------------------------------------------------------------------------
(* Solvers of one path.                                                    *)

\* The path of s goes on with t: with fewer inputs, or with all of them.
Follows(s, t) ==
  /\ SolverOK(t) /\ s.next_var <= t.next_var /\ t.models \subseteq s.models
  /\ Branches(to_vec(t)) = Branches(to_vec(s))

Reaches(s, t) == Follows(s, t) /\ t.models = s.models

LEMMA SolverTypes ==
  ASSUME NEW s, SolverOK(s)
  PROVE  s.next_var \in Nat /\ s.models \in SUBSET Assignments /\ to_vec(s) \in Seq(Event)
         /\ Branches(to_vec(s)) \in Seq(Bits) /\ Reaches(s, s)
<1>1. s \in Solvers
  BY DEF SolverOK, Faithful
<1>2. s.next_var \in Nat /\ s.models \in SUBSET Assignments
  BY <1>1, SolverFields DEF Meanings
<1>3. to_vec(s) \in Seq(Event)
  BY <1>1, TraceType
<1> QED BY <1>2, <1>3, BranchFacts DEF Reaches, Follows

LEMMA FollowsTrans ==
  ASSUME NEW s, SolverOK(s), NEW t, NEW u, Follows(s, t), Follows(t, u)
  PROVE  Follows(s, u) /\ (Reaches(s, t) /\ Reaches(t, u) => Reaches(s, u))
<1>1. s.next_var \in Nat /\ t.next_var \in Nat /\ u.next_var \in Nat
  BY SolverTypes DEF Follows
<1> QED BY <1>1 DEF Follows, Reaches

\* Events that neither Z3 nor the path depends on.
Notes == {e \in Event : e.ev \notin {"declare", "define", "assert", "fork"}}

(* An event that is only recorded.                                         *)
LEMMA NoteFacts ==
  ASSUME NEW s, SolverOK(s), NEW e \in Notes
  PROVE  Reaches(s, add_event(s, e)) /\ add_event(s, e).next_var = s.next_var
<1> DEFINE u == add_event(s, e)
<1>1. e \in Event /\ e.ev \notin {"declare", "define", "assert", "fork"}
  BY DEF Notes
<1>2. SolverOK(u) /\ u.next_var = s.next_var /\ u.models = s.models /\ to_vec(u) = Append(to_vec(s), e)
  BY <1>1, NoNewSym
<1> HIDE DEF u
<1>3. s.next_var \in Nat /\ to_vec(s) \in Seq(Event)
  BY SolverTypes
<1>4. Branches(to_vec(u)) = Branches(to_vec(s))
  BY <1>1, <1>2, <1>3, BranchFacts
<1>5. Reaches(s, u)
  BY <1>2, <1>3, <1>4 DEF Reaches, Follows
<1> QED BY <1>2, <1>5 DEF u

(* An assertion.                                                           *)
LEMMA AssertFacts ==
  ASSUME NEW s, SolverOK(s), NEW x \in Terms
  PROVE  LET u == add_event(s, AssertDef(x)) IN
         /\ Follows(s, u) /\ u.next_var = s.next_var /\ u.decls = s.decls
         /\ u.models = s.models \cap translate_exp(s, x)
<1> DEFINE e == AssertDef(x)
           u == add_event(s, e)
<1>1. e \in Event /\ e.ev = "assert" /\ e.exp = x
  BY DEF Event, AssertDef
<1> HIDE DEF e
<1>2. SolverOK(u) /\ u.next_var = s.next_var /\ u.models = s.models \cap translate_exp(s, x)
      /\ u.decls = s.decls /\ to_vec(u) = Append(to_vec(s), e)
  BY <1>1, NoNewSym
<1> HIDE DEF u
<1>3. s.next_var \in Nat /\ to_vec(s) \in Seq(Event)
  BY SolverTypes
<1>4. Branches(to_vec(u)) = Branches(to_vec(s))
  BY <1>1, <1>2, <1>3, BranchFacts
<1>5. Follows(s, u)
  BY <1>2, <1>3, <1>4 DEF Follows
<1> QED BY <1>2, <1>5 DEF u, e

(* fresh(), and the declaration or definition of the Sym.                  *)
LEMMA NewSymReaches ==
  ASSUME NEW s, SolverOK(s), NEW e \in Event, e.ev \in {"declare", "define"}, e.v = s.next_var,
         Allowed([s EXCEPT !.next_var = @ + 1], e)
  PROVE  LET u == add_event([s EXCEPT !.next_var = @ + 1], e) IN
         Reaches(s, u) /\ u.next_var = s.next_var + 1
<1> DEFINE u == add_event([s EXCEPT !.next_var = @ + 1], e)
<1>1. SolverOK(u) /\ u.next_var = s.next_var + 1 /\ u.models = s.models
      /\ to_vec(u) = Append(to_vec(s), e)
  BY NewSym
<1> HIDE DEF u
<1>2. s.next_var \in Nat /\ to_vec(s) \in Seq(Event)
  BY SolverTypes
<1>3. Branches(to_vec(u)) = Branches(to_vec(s))
  BY <1>1, <1>2, BranchFacts
<1>4. Reaches(s, u)
  BY <1>1, <1>2, <1>3 DEF Reaches, Follows
<1> QED BY <1>1, <1>4 DEF u

LEMMA DeclareReaches ==
  ASSUME NEW s, SolverOK(s)
  PROVE  Reaches(s, declare_const(s)) /\ declare_const(s).next_var = s.next_var + 1
<1> DEFINE e == DeclareConst(s.next_var)
<1>1. e \in Event /\ e.ev = "declare" /\ e.v = s.next_var /\ e.of = Free
  BY SolverTypes DEF Event, DeclareConst
<1>2. declare_const(s) = add_event([s EXCEPT !.next_var = @ + 1], e)
  BY DEF declare_const
<1> HIDE DEF e
<1>3. Allowed([s EXCEPT !.next_var = @ + 1], e)
  BY <1>1 DEF Allowed
<1> QED BY <1>1, <1>2, <1>3, NewSymReaches

LEMMA DefineReaches ==
  ASSUME NEW s, SolverOK(s), NEW op \in {"eq", "neq"}, NEW a \in Atoms, NEW b \in Atoms
  PROVE  LET u == define_const(s, Term(op, a, b)) IN
         Reaches(s, u) /\ u.next_var = s.next_var + 1
<1> DEFINE x == Term(op, a, b)
           e == DefineConst(s.next_var, x)
<1>1. x \in Terms /\ x.op \in {"eq", "neq"}
  BY DEF Terms, Term
<1>2. \A r : translate_exp(r, x) \in Meanings
  BY <1>1 DEF translate_exp, Same, Meanings
<1>3. define_const(s, x) = add_event([s EXCEPT !.next_var = @ + 1], e)
  BY DEF define_const
<1> HIDE DEF x
<1>4. e \in Event /\ e.ev = "define" /\ e.v = s.next_var /\ e.exp = x
  BY <1>1, SolverTypes DEF Event, DefineConst
<1> HIDE DEF e
<1>5. Allowed([s EXCEPT !.next_var = @ + 1], e)
  BY <1>2, <1>4 DEF Allowed
<1> QED BY <1>3, <1>4, <1>5, NewSymReaches DEF x

-----------------------------------------------------------------------------
(* Reading, evaluating and assigning.                                      *)

\* A part of a step of a path with the program p and the solver s.
Sound(p, s, r) ==
  /\ r = [f |-> r.f, s |-> r.s, v |-> r.v, err |-> r.err]
  /\ Reaches(s, r.s)
  /\ r.f \in Frames(p, r.s.next_var)
  /\ r.err = "Ok" => r.v \in Known(r.s.next_var)

LEMMA OkSound ==
  ASSUME NEW p, NEW s, NEW t, Reaches(s, t), NEW f \in Frames(p, t.next_var)
  PROVE  /\ \A v \in Known(t.next_var) : Sound(p, s, Ok(f, t, v)) /\ Ok(f, t, v).err = "Ok"
         /\ \A e : e # "Ok" => Sound(p, s, Fail(f, t, e))
BY DEF Sound, Ok, Fail

(* Parts of a step follow one another.                                     *)
LEMMA SoundTrans ==
  ASSUME NEW p, NEW s, SolverOK(s), NEW t, Reaches(s, t), NEW r, Sound(p, t, r)
  PROVE  Sound(p, s, r)
BY FollowsTrans DEF Sound, Reaches

(* The frame and the solver that a part leaves belong together.            *)
LEMMA SoundFacts ==
  ASSUME NEW p, NEW s, NEW r, Sound(p, s, r)
  PROVE  SolverOK(r.s) /\ r.f \in Frames(p, r.s.next_var) /\ Reaches(s, r.s)
BY DEF Sound, Reaches, Follows

(* Every value can be recorded.                                            *)
LEMMA RecordedValues == ASSUME NEW m \in Nat, NEW v \in Value(m) PROVE v \in Recorded
<1>1. CASE v \in [k : {"bits"}, n : Bits]
  BY <1>1 DEF Recorded, Bits
<1>2. CASE v \in [k : {"sym"}, n : 0..(m - 1)]
  BY <1>2 DEF Recorded
<1>3. CASE v \in [k : {"poison", "unit"}, n : {0}]
  BY <1>3 DEF Recorded
<1>4. CASE v = Uninit
  BY <1>4 DEF Recorded, Uninit
<1> QED BY <1>1, <1>2, <1>3, <1>4 DEF Value, Known

(* Reading a register, or writing it, is an event.                         *)
LEMMA AccessIsNote ==
  ASSUME NEW m \in Nat, NEW v \in Value(m), NEW id \in Names, NEW ev \in {"read-reg", "write-reg"}
  PROVE  Access(ev, id, v) \in Notes
<1>1. v \in Recorded
  BY RecordedValues
<1> QED BY <1>1 DEF Access, Notes, Event

LEMMA symbolicSound ==
  ASSUME NEW p, NEW s, SolverOK(s), NEW f \in Frames(p, s.next_var)
  PROVE  LET r == symbolic(f, s) IN
         /\ Sound(p, s, r) /\ r.err = "Ok" /\ r.f = f /\ r.s = declare_const(s)
         /\ r.v = Symbolic(s.next_var) /\ r.v \in Known(r.s.next_var)
<1> DEFINE t == declare_const(s)
           v == Symbolic(s.next_var)
<1>1. Reaches(s, t) /\ t.next_var = s.next_var + 1 /\ s.next_var \in Nat
  BY DeclareReaches, SolverTypes
<1>2. symbolic(f, s) = Ok(f, t, v)
  BY DEF symbolic
<1> HIDE DEF t
<1>3. v \in Known(t.next_var)
  BY <1>1 DEF Known, Symbolic
<1>4. f \in Frames(p, t.next_var)
  BY <1>1, MoreFrames
<1> HIDE DEF v
<1>5. Sound(p, s, Ok(f, t, v)) /\ Ok(f, t, v).err = "Ok" /\ Ok(f, t, v).f = f /\ Ok(f, t, v).s = t
      /\ Ok(f, t, v).v = v
  BY <1>1, <1>3, <1>4, OkSound DEF Ok
<1> QED BY <1>2, <1>3, <1>5 DEF t, v

(* The value that was read is stored where it was found.                   *)
LEMMA StoreSound ==
  ASSUME NEW p, NEW s, SolverOK(s), NEW r, Sound(p, s, r), r.err = "Ok",
         NEW place \in {"vars", "regs", "lets"}, NEW id \in Names
  PROVE  Sound(p, s, Store(r, place, id)) /\ Store(r, place, id).err = "Ok"
<1> DEFINE f == r.f
           t == r.s
           v == r.v
           g == [f EXCEPT ![place][id] = v]
           u == IF place = "regs" THEN add_event(t, Access("read-reg", id, v)) ELSE t
<1>1. SolverOK(t) /\ f \in Frames(p, t.next_var) /\ v \in Known(t.next_var) /\ Reaches(s, t)
      /\ t.next_var \in Nat
  BY SoundFacts, SolverTypes DEF Sound
<1>2. Store(r, place, id) = Ok(g, u, v)
  BY DEF Store
<1>3. v \in Value(t.next_var)
  BY <1>1 DEF Value
<1> HIDE DEF f, t, v
<1>4. Reaches(t, u) /\ u.next_var = t.next_var
  <2>1. Access("read-reg", id, v) \in Notes
    BY <1>1, <1>3, AccessIsNote
  <2>2. Reaches(t, add_event(t, Access("read-reg", id, v)))
        /\ add_event(t, Access("read-reg", id, v)).next_var = t.next_var
    BY <1>1, <2>1, NoteFacts
  <2>3. Reaches(t, t)
    BY <1>1, SolverTypes
  <2> QED BY <2>2, <2>3
<1>5. g \in Frames(p, t.next_var)
  <2>1. f.vars \in Locals(t.next_var) /\ f.regs \in Regs(t.next_var) /\ f.lets \in Lets(t.next_var)
    BY <1>1, FrameFields
  <2>2. CASE place = "vars"
    <3>1. [f.vars EXCEPT ![id] = v] \in Locals(t.next_var)
      BY <1>3, <2>1, BindFacts
    <3>2. g = [f EXCEPT !.vars = [f.vars EXCEPT ![id] = v]]
      BY <2>2
    <3> QED BY <1>1, <3>1, <3>2, FrameUpdates
  <2>3. CASE place = "regs"
    <3>1. [f.regs EXCEPT ![id] = v] \in Regs(t.next_var)
      BY <1>3, <2>1 DEF Regs
    <3>2. g = [f EXCEPT !.regs = [f.regs EXCEPT ![id] = v]]
      BY <2>3
    <3> QED BY <1>1, <3>1, <3>2, FrameUpdates
  <2>4. CASE place = "lets"
    <3>1. [f.lets EXCEPT ![id] = v] \in Lets(t.next_var)
      BY <1>3, <2>1 DEF Lets
    <3>2. g = [f EXCEPT !.lets = [f.lets EXCEPT ![id] = v]]
      BY <2>4
    <3> QED BY <1>1, <3>1, <3>2, FrameUpdates
  <2> QED BY <2>2, <2>3, <2>4
<1> HIDE DEF g, u
<1>6. Reaches(s, u)
  BY <1>1, <1>4, FollowsTrans DEF Reaches
<1>7. Sound(p, s, Ok(g, u, v)) /\ Ok(g, u, v).err = "Ok"
  BY <1>1, <1>4, <1>5, <1>6, OkSound
<1> QED BY <1>2, <1>7

LEMMA LoadSound ==
  ASSUME NEW p, NEW s, SolverOK(s), NEW f \in Frames(p, s.next_var), NEW id \in Names
  PROVE  Sound(p, s, get_id_and_initialize(f, s, id))
<1> DEFINE place == ReadPlace(f, id)
           m == s.next_var
           r == IF f[place][id] = Uninit THEN symbolic(f, s) ELSE Ok(f, s, f[place][id])
<1>1. get_id_and_initialize(f, s, id) =
        IF place = "none" THEN Fail(f, s, "VariableNotFound") ELSE Store(r, place, id)
  BY DEF get_id_and_initialize, Load
<1>2. Reaches(s, s)
  BY SolverTypes
<1>3. CASE place = "none"
  BY <1>1, <1>2, <1>3, OkSound
<1>4. CASE place # "none"
  <2>1. place \in {"vars", "regs", "lets"} /\ f[place][id] \in Value(m)
    <3>1. f.vars \in Locals(m) /\ f.regs \in Regs(m) /\ f.lets \in Lets(m)
      BY FrameFields
    <3>2. CASE id \in DOMAIN f.vars
      <4>1. f.vars[id] \in Value(m)
        BY <3>1, <3>2, LocalFacts
      <4>2. place = "vars"
        BY <3>2 DEF ReadPlace
      <4> QED BY <4>1, <4>2
    <3>3. CASE id \in DOMAIN f.regs \ DOMAIN f.vars
      <4>1. f.regs[id] \in Value(m)
        BY <3>1, <3>3 DEF Regs
      <4>2. place = "regs"
        BY <3>3 DEF ReadPlace
      <4> QED BY <4>1, <4>2
    <3>4. CASE id \in DOMAIN f.lets \ (DOMAIN f.vars \cup DOMAIN f.regs)
      <4>1. f.lets[id] \in Value(m)
        BY <3>1, <3>4 DEF Lets
      <4>2. place = "lets"
        BY <3>4 DEF ReadPlace
      <4> QED BY <4>1, <4>2
    <3>5. CASE id \notin DOMAIN f.vars \cup DOMAIN f.regs \cup DOMAIN f.lets
      BY <1>4, <3>5 DEF ReadPlace
    <3> QED BY <3>2, <3>3, <3>4, <3>5
  <2>2. Sound(p, s, r) /\ r.err = "Ok"
    <3> DEFINE v == f[place][id]
    <3>1. CASE v = Uninit
      BY <3>1, symbolicSound
    <3>2. CASE v # Uninit
      <4>1. v \in Known(m)
        BY <2>1, <3>2 DEF Value
      <4> HIDE DEF v
      <4>2. Sound(p, s, Ok(f, s, v)) /\ Ok(f, s, v).err = "Ok"
        BY <1>2, <4>1, OkSound
      <4> QED BY <3>2, <4>2 DEF v
    <3> QED BY <3>1, <3>2
  <2> HIDE DEF r, place
  <2>3. Sound(p, s, Store(r, place, id))
    BY <2>1, <2>2, StoreSound
  <2> QED BY <1>1, <1>4, <2>3
<1> QED BY <1>3, <1>4

LEMMA eval_atomSound ==
  ASSUME NEW p, NEW s, SolverOK(s), NEW f \in Frames(p, s.next_var), NEW e, IsAtom(e)
  PROVE  Sound(p, s, eval_atom(f, s, e))
<1>1. CASE e.e = "id"
  <2>1. e.id \in Names
    BY <1>1 DEF IsAtom, Names
  <2> QED BY <1>1, <2>1, LoadSound DEF eval_atom
<1>2. CASE e.e = "val"
  <2>1. e.v \in Known(s.next_var)
    BY <1>2 DEF IsAtom, Known, Bit, Poison, Unit, Bits
  <2>2. Sound(p, s, Ok(f, s, e.v))
    BY <2>1, SolverTypes, OkSound
  <2> QED BY <1>2, <2>2 DEF eval_atom
<1>3. CASE e.e = "undefined"
  BY <1>3, symbolicSound DEF eval_atom
<1> QED BY <1>1, <1>2, <1>3 DEF IsAtom

(* The smtlib::Exp of a bit or a Sym.                                      *)
LEMMA ToExpType ==
  ASSUME NEW m \in Nat, NEW v \in Known(m), v.k \in {"bits", "sym"}
  PROVE  ToExp(v) \in Atoms /\ ToExp(v) \in Terms /\ (v.k = "sym" => v.n \in 0..(m - 1))
         /\ (v.k = "bits" => v.n \in Bits)
<1>1. CASE v.k = "bits"
  <2>1. v.n \in Bits
    BY <1>1 DEF Known
  <2> QED BY <1>1, <2>1 DEF ToExp, Lit, Atoms, Terms
<1>2. CASE v.k = "sym"
  <2>1. v.n \in 0..(m - 1)
    BY <1>2 DEF Known
  <2>2. v.n \in Nat
    BY <2>1
  <2> QED BY <1>2, <2>1, <2>2 DEF ToExp, Var, Atoms, Terms
<1> QED BY <1>1, <1>2

LEMMA primopSound ==
  ASSUME NEW p, NEW s, SolverOK(s), NEW f \in Frames(p, s.next_var), NEW op \in {"eq", "neq"},
         NEW v1 \in Known(s.next_var), NEW v2 \in Known(s.next_var)
  PROVE  Sound(p, s, primop(f, s, op, v1, v2)) /\ primop(f, s, op, v1, v2).f = f
<1>0. Reaches(s, s) /\ s.next_var \in Nat
  BY SolverTypes
<1>1. CASE ~({v1.k, v2.k} \subseteq {"bits", "sym"})
  <2>1. Sound(p, s, Fail(f, s, "Type")) /\ Fail(f, s, "Type").f = f
    BY <1>0, OkSound DEF Fail
  <2> QED BY <1>1, <2>1 DEF primop
<1>2. CASE v1.k = "bits" /\ v2.k = "bits"
  <2> DEFINE b == Bit(Compute(op, v1.n, v2.n))
  <2>1. b \in Known(s.next_var)
    BY DEF Known, Bit, Compute, Bits
  <2>2. primop(f, s, op, v1, v2) = Ok(f, s, b)
    BY <1>2 DEF primop
  <2> HIDE DEF b
  <2>3. Sound(p, s, Ok(f, s, b)) /\ Ok(f, s, b).f = f
    BY <1>0, <2>1, OkSound DEF Ok
  <2> QED BY <2>2, <2>3
<1>3. CASE {v1.k, v2.k} \subseteq {"bits", "sym"} /\ ~(v1.k = "bits" /\ v2.k = "bits")
  <2> DEFINE t == define_const(s, Term(op, ToExp(v1), ToExp(v2)))
             v == Symbolic(s.next_var)
  <2>1. ToExp(v1) \in Atoms /\ ToExp(v2) \in Atoms
    BY <1>0, <1>3, ToExpType
  <2>2. Reaches(s, t) /\ t.next_var = s.next_var + 1
    BY <2>1, DefineReaches
  <2>3. primop(f, s, op, v1, v2) = Ok(f, t, v)
    BY <1>3 DEF primop
  <2> HIDE DEF t
  <2>4. v \in Known(t.next_var) /\ f \in Frames(p, t.next_var)
    BY <1>0, <2>2, MoreFrames DEF Known, Symbolic
  <2> HIDE DEF v
  <2>5. Sound(p, s, Ok(f, t, v)) /\ Ok(f, t, v).f = f
    BY <2>2, <2>4, OkSound DEF Ok
  <2> QED BY <2>3, <2>5
<1> QED BY <1>1, <1>2, <1>3

LEMMA eval_expSound ==
  ASSUME NEW p, NEW s, SolverOK(s), NEW f \in Frames(p, s.next_var), NEW e, IsExp(e)
  PROVE  Sound(p, s, eval_exp(f, s, e))
<1>1. CASE e.e # "op"
  <2>1. IsAtom(e) /\ eval_exp(f, s, e) = eval_atom(f, s, e)
    BY <1>1 DEF IsExp, eval_exp
  <2> QED BY <2>1, eval_atomSound
<1>2. CASE e.e = "op"
  <2> DEFINE r1 == eval_atom(f, s, e.x)
             r2 == eval_atom(r1.f, r1.s, e.y)
             r3 == primop(r2.f, r2.s, e.op, r1.v, r2.v)
  <2>1. e.op \in {"eq", "neq"} /\ IsAtom(e.x) /\ IsAtom(e.y)
    BY <1>2 DEF IsExp, IsAtom
  <2>2. eval_exp(f, s, e) = IF r1.err # "Ok" THEN r1 ELSE IF r2.err # "Ok" THEN r2 ELSE r3
    BY <1>2 DEF eval_exp, ApplyTo, Apply
  <2>3. Sound(p, s, r1)
    BY <2>1, eval_atomSound
  <2> HIDE DEF r1
  <2>4. SolverOK(r1.s) /\ r1.f \in Frames(p, r1.s.next_var) /\ Reaches(s, r1.s)
    BY <2>3, SoundFacts
  <2>5. Sound(p, r1.s, r2)
    BY <2>1, <2>4, eval_atomSound
  <2> HIDE DEF r2
  <2>6. SolverOK(r2.s) /\ r2.f \in Frames(p, r2.s.next_var) /\ Reaches(r1.s, r2.s)
    BY <2>5, SoundFacts
  <2>7. Sound(p, s, r2)
    BY <2>4, <2>5, SoundTrans
  <2>8. ASSUME r1.err = "Ok", r2.err = "Ok" PROVE Sound(p, s, r3)
    <3>1. r1.v \in Known(r1.s.next_var) /\ r2.v \in Known(r2.s.next_var)
      BY <2>3, <2>5, <2>8 DEF Sound
    <3>2. r1.s.next_var \in Nat /\ r2.s.next_var \in Nat /\ r1.s.next_var <= r2.s.next_var
      BY <2>4, <2>6, SolverTypes DEF Reaches, Follows
    <3>3. r1.v \in Known(r2.s.next_var)
      BY <3>1, <3>2, MoreValues
    <3>4. Sound(p, r2.s, r3)
      BY <2>1, <2>6, <3>1, <3>3, primopSound
    <3> HIDE DEF r3
    <3>5. Reaches(s, r2.s)
      BY <2>7, SoundFacts
    <3> QED BY <3>4, <3>5, SoundTrans
  <2> HIDE DEF r3
  <2> QED BY <2>2, <2>3, <2>7, <2>8
<1> QED BY <1>1, <1>2

LEMMA assignSound ==
  ASSUME NEW p, NEW s, SolverOK(s), NEW f \in Frames(p, s.next_var), NEW loc \in Names,
         NEW v \in Known(s.next_var)
  PROVE  Sound(p, s, assign(f, s, loc, v)) /\ assign(f, s, loc, v).err = "Ok"
<1> DEFINE m == s.next_var
<1>1. m \in Nat /\ Reaches(s, s) /\ v \in Value(m)
  BY SolverTypes DEF Value
<1>2. f.vars \in Locals(m) /\ f.regs \in Regs(m) /\ f.lets \in Lets(m)
  BY FrameFields
<1>3. CASE loc \in DOMAIN f.vars
  <2> DEFINE g == [f EXCEPT !.vars = [f.vars EXCEPT ![loc] = v]]
  <2>1. assign(f, s, loc, v) = Ok(g, s, v)
    BY <1>3 DEF assign
  <2>2. g \in Frames(p, m)
    <3>1. [f.vars EXCEPT ![loc] = v] \in Locals(m)
      BY <1>1, <1>2, BindFacts
    <3> QED BY <3>1, FrameUpdates
  <2> HIDE DEF g
  <2>3. Sound(p, s, Ok(g, s, v)) /\ Ok(g, s, v).err = "Ok"
    BY <1>1, <2>2, OkSound
  <2> QED BY <2>1, <2>3
<1>4. CASE loc \in DOMAIN f.lets \ DOMAIN f.vars
  <2> DEFINE g == [f EXCEPT !.lets = [f.lets EXCEPT ![loc] = v]]
  <2>1. assign(f, s, loc, v) = Ok(g, s, v)
    BY <1>4 DEF assign
  <2>2. g \in Frames(p, m)
    <3>1. [f.lets EXCEPT ![loc] = v] \in Lets(m)
      BY <1>1, <1>2 DEF Lets
    <3> QED BY <3>1, FrameUpdates
  <2> HIDE DEF g
  <2>3. Sound(p, s, Ok(g, s, v)) /\ Ok(g, s, v).err = "Ok"
    BY <1>1, <2>2, OkSound
  <2> QED BY <2>1, <2>3
<1>5. CASE loc \notin DOMAIN f.lets \cup DOMAIN f.vars
  <2> DEFINE g == [f EXCEPT !.regs = [f.regs EXCEPT ![loc] = v]]
             t == add_event(s, Access("write-reg", loc, v))
  <2>1. assign(f, s, loc, v) = Ok(g, t, v)
    BY <1>5 DEF assign
  <2>2. g \in Frames(p, m)
    <3>1. [f.regs EXCEPT ![loc] = v] \in Regs(m)
      BY <1>1, <1>2 DEF Regs
    <3> QED BY <3>1, FrameUpdates
  <2>3. Reaches(s, t) /\ t.next_var = m
    <3>1. Access("write-reg", loc, v) \in Notes
      BY <1>1, AccessIsNote
    <3> QED BY <3>1, NoteFacts
  <2> HIDE DEF g, t
  <2>4. Sound(p, s, Ok(g, t, v)) /\ Ok(g, t, v).err = "Ok"
    BY <2>2, <2>3, OkSound
  <2> QED BY <2>1, <2>4
<1> QED BY <1>3, <1>4, <1>5

(* The program counter moves on.                                           *)
LEMMA AdvanceSound ==
  ASSUME NEW p, NEW s, NEW r, Sound(p, s, r)
  PROVE  Sound(p, s, Advance(r)) /\ Advance(r).err = r.err /\ Advance(r).s = r.s
<1>1. CASE r.err # "Ok"
  BY <1>1 DEF Advance
<1>2. CASE r.err = "Ok"
  <2> DEFINE g == [r.f EXCEPT !.pc = r.f.pc + 1]
  <2>1. r = [f |-> r.f, s |-> r.s, v |-> r.v, err |-> r.err]
    BY DEF Sound
  <2>2. Advance(r) = [r EXCEPT !.f = g]
    BY <1>2, <2>1 DEF Advance
  <2>3. g \in Frames(p, r.s.next_var)
    <3>1. r.f \in Frames(p, r.s.next_var)
      BY DEF Sound
    <3>2. r.f.pc + 1 \in Pcs
      BY <3>1, FrameFields DEF Pcs
    <3> QED BY <3>1, <3>2, FrameUpdates
  <2> HIDE DEF g
  <2>4. [r EXCEPT !.f = g] = [f |-> g, s |-> r.s, v |-> r.v, err |-> r.err]
    BY <2>1
  <2> QED BY <2>2, <2>3, <2>4 DEF Sound
<1> QED BY <1>1, <1>2

LEMMA BindResultSound ==
  ASSUME NEW p, NEW s, NEW r, Sound(p, s, r), NEW id \in Names
  PROVE  Sound(p, s, BindResult(r, id))
<1>1. CASE r.err # "Ok"
  BY <1>1 DEF BindResult
<1>2. CASE r.err = "Ok"
  <2> DEFINE l == Bind(r.f.vars, id, r.v)
             g == [r.f EXCEPT !.vars = l]
  <2>1. r = [f |-> r.f, s |-> r.s, v |-> r.v, err |-> r.err]
    BY DEF Sound
  <2>2. BindResult(r, id) = [r EXCEPT !.f = g]
    BY <1>2, <2>1 DEF BindResult
  <2>3. g \in Frames(p, r.s.next_var)
    <3>1. r.f \in Frames(p, r.s.next_var) /\ r.v \in Value(r.s.next_var)
      BY <1>2 DEF Sound, Value
    <3>2. l \in Locals(r.s.next_var)
      BY <3>1, FrameFields, BindFacts
    <3> HIDE DEF l
    <3> QED BY <3>1, <3>2, FrameUpdates
  <2> HIDE DEF g
  <2>4. [r EXCEPT !.f = g] = [f |-> g, s |-> r.s, v |-> r.v, err |-> r.err]
    BY <2>1
  <2> QED BY <2>2, <2>3, <2>4 DEF Sound
<1> QED BY <1>1, <1>2

LEMMA AssignAfterSound ==
  ASSUME NEW p, NEW s, SolverOK(s), NEW r, Sound(p, s, r), NEW loc \in Names
  PROVE  Sound(p, s, AssignAfter(r, loc))
<1>1. CASE r.err # "Ok"
  BY <1>1 DEF AssignAfter
<1>2. CASE r.err = "Ok"
  <2>1. SolverOK(r.s) /\ r.f \in Frames(p, r.s.next_var) /\ Reaches(s, r.s) /\ r.v \in Known(r.s.next_var)
    BY <1>2, SoundFacts DEF Sound
  <2>2. Sound(p, r.s, assign(r.f, r.s, loc, r.v))
    BY <2>1, assignSound
  <2>3. Sound(p, s, assign(r.f, r.s, loc, r.v))
    BY <2>1, <2>2, SoundTrans
  <2> QED BY <1>2, <2>3 DEF AssignAfter
<1> QED BY <1>1, <1>2

-----------------------------------------------------------------------------
(* Assertions.                                                             *)

\* A part that may assert: the path goes on with the inputs that are left,
\* and ends with those it had.
Asserts(p, s, r) ==
  /\ r.err # "Ok" => Sound(p, s, r)
  /\ r.err = "Ok" => Follows(s, r.s) /\ Sound(p, r.s, r)

(* The kinds of a known value.                                             *)
LEMMA KnownKinds ==
  ASSUME NEW m, NEW v \in Known(m) PROVE v.k \in {"bits", "sym", "poison", "unit"}
BY DEF Known

LEMMA UnitKnown == ASSUME NEW m PROVE Unit \in Known(m) /\ Poison \in Known(m)
BY DEF Known, Unit, Poison

(* An assertion, made or not, of a term.                                   *)
LEMMA AssertedOK ==
  ASSUME NEW p, NEW s, SolverOK(s), NEW f \in Frames(p, s.next_var)
  PROVE  /\ Asserts(p, s, Ok(f, s, Unit))
         /\ \A x \in Terms : Asserts(p, s, Ok(f, add_event(s, AssertDef(x)), Unit))
         /\ \A e : e # "Ok" => Asserts(p, s, Fail(f, s, e))
<1>1. ASSUME NEW t, Follows(s, t), t.next_var = s.next_var
      PROVE  Asserts(p, s, Ok(f, t, Unit))
  <2>1. Reaches(t, t) /\ f \in Frames(p, t.next_var) /\ Unit \in Known(t.next_var)
    BY <1>1, SolverTypes, UnitKnown DEF Follows
  <2>2. Sound(p, t, Ok(f, t, Unit)) /\ Ok(f, t, Unit).err = "Ok" /\ Ok(f, t, Unit).s = t
    BY <2>1, OkSound DEF Ok
  <2> QED BY <1>1, <2>2 DEF Asserts
<1>2. Asserts(p, s, Ok(f, s, Unit))
  BY <1>1, SolverTypes DEF Reaches
<1>3. ASSUME NEW x \in Terms PROVE Asserts(p, s, Ok(f, add_event(s, AssertDef(x)), Unit))
  BY <1>1, AssertFacts
<1>4. ASSUME NEW e, e # "Ok" PROVE Asserts(p, s, Fail(f, s, e))
  <2>1. Sound(p, s, Fail(f, s, e)) /\ Fail(f, s, e).err = e
    BY <1>4, SolverTypes, OkSound DEF Fail
  <2> QED BY <1>4, <2>1 DEF Asserts
<1> QED BY <1>2, <1>3, <1>4

LEMMA SymTerms ==
  ASSUME NEW v \in Nat
  PROVE  IsTrue(v) \in Terms /\ IsFalse(v) \in Terms
         /\ \A b \in Bits : Term("eq", Var(v), Lit(b)) \in Terms /\ MonoRest(v, b) \in Terms
<1>1. Var(v) \in Atoms /\ \A b \in Bits : Lit(b) \in Atoms
  BY DEF Var, Lit, Atoms
<1>2. \A b \in Bits : Term("eq", Var(v), Lit(b)) \in Terms /\ Term("neq", Var(v), Lit(b)) \in Terms
  BY <1>1 DEF Terms, Term
<1>3. Var(v) \in Terms /\ 0 \in Bits
  BY <1>1 DEF Terms, Bits
<1> QED BY <1>2, <1>3 DEF IsTrue, IsFalse, MonoRest

LEMMA assertSound ==
  ASSUME NEW p, NEW s, SolverOK(s), NEW f \in Frames(p, s.next_var), NEW v \in Known(s.next_var)
  PROVE  /\ Asserts(p, s, assume(f, s, v))
         /\ Asserts(p, s, optimistic_assert(f, s, v))
         /\ Asserts(p, s, pessimistic_assert(f, s, v))
<1>1. v.k \in {"bits", "sym", "poison", "unit"} /\ s.next_var \in Nat
  BY KnownKinds, SolverTypes
<1>2. v.k = "sym" => v.n \in Nat
  <2>1. v.k = "sym" => v.n \in 0..(s.next_var - 1)
    BY <1>1, ToExpType
  <2> QED BY <1>1, <2>1
<1>3. Asserts(p, s, Fail(f, s, "Type")) /\ Asserts(p, s, Fail(f, s, "AssertionFailure"))
  BY AssertedOK
<1>4. Asserts(p, s, Ok(f, s, Unit))
  BY AssertedOK
<1>5. v.k = "sym" => Asserts(p, s, Ok(f, add_event(s, AssertDef(IsTrue(v.n))), Unit))
  BY <1>2, SymTerms, AssertedOK
<1>6. v.k \in {"bits", "sym"} => Asserts(p, s, Ok(f, add_event(s, AssertDef(ToExp(v))), Unit))
  BY <1>1, ToExpType, AssertedOK
<1>7. Asserts(p, s, assume(f, s, v))
  BY <1>1, <1>3, <1>4, <1>6 DEF assume
<1>8. Asserts(p, s, optimistic_assert(f, s, v))
  BY <1>1, <1>3, <1>4, <1>5 DEF optimistic_assert
<1>9. Asserts(p, s, pessimistic_assert(f, s, v))
  BY <1>1, <1>3, <1>4 DEF pessimistic_assert
<1> QED BY <1>7, <1>8, <1>9

(* PrimopUnary and PrimopBinary with such a primop, to the end.            *)
LEMMA PrimopSound ==
  ASSUME NEW p, NEW s, SolverOK(s), NEW r, Sound(p, s, r), NEW loc \in Names,
         NEW op \in {"assume", "optimistic_assert", "pessimistic_assert"}
  PROVE  Asserts(p, s, Advance(AssignAfter(Assert(op, r), loc)))
<1> DEFINE a == Assert(op, r)
           b == AssignAfter(a, loc)
<1>1. SolverOK(r.s) /\ r.f \in Frames(p, r.s.next_var) /\ Reaches(s, r.s)
  BY SoundFacts
<1>2. Asserts(p, s, a)
  <2>1. CASE r.err # "Ok"
    BY <2>1 DEF Assert, Asserts
  <2>2. CASE r.err = "Ok"
    <3>1. r.v \in Known(r.s.next_var)
      BY <2>2 DEF Sound
    <3>2. Asserts(p, r.s, a)
      BY <1>1, <2>2, <3>1, assertSound DEF Assert
    <3> HIDE DEF a
    <3>3. a.err # "Ok" => Sound(p, s, a)
      BY <1>1, <3>2, SoundTrans DEF Asserts
    <3>4. a.err = "Ok" => Follows(s, a.s) /\ Sound(p, a.s, a)
      BY <1>1, <3>2, FollowsTrans DEF Asserts, Reaches
    <3> QED BY <3>3, <3>4 DEF Asserts
  <2> QED BY <2>1, <2>2
<1> HIDE DEF a
<1>3. CASE a.err # "Ok"
  <2>1. Advance(b) = a
    BY <1>3 DEF AssignAfter, Advance
  <2> QED BY <1>2, <2>1 DEF a
<1>4. CASE a.err = "Ok"
  <2>1. Follows(s, a.s) /\ Sound(p, a.s, a) /\ SolverOK(a.s) /\ a.f \in Frames(p, a.s.next_var)
        /\ a.v \in Known(a.s.next_var)
    BY <1>2, <1>4 DEF Asserts, Sound, Follows
  <2>2. b = assign(a.f, a.s, loc, a.v)
    BY <1>4 DEF AssignAfter
  <2> HIDE DEF b
  <2>3. Sound(p, a.s, b) /\ b.err = "Ok"
    BY <2>1, <2>2, assignSound
  <2> DEFINE c == Advance(b)
  <2>4. Sound(p, a.s, c) /\ c.err = "Ok"
    BY <2>3, AdvanceSound
  <2> HIDE DEF c
  <2>5. Follows(a.s, c.s) /\ SolverOK(c.s) /\ c.f \in Frames(p, c.s.next_var)
    BY <2>4, SoundFacts DEF Reaches
  <2>6. Follows(s, c.s)
    BY <2>1, <2>5, FollowsTrans
  <2>7. Sound(p, c.s, c)
    BY <2>4, <2>5, SolverTypes DEF Sound
  <2> QED BY <2>4, <2>6, <2>7 DEF Asserts, a, b, c
<1> QED BY <1>3, <1>4

-----------------------------------------------------------------------------
(* Calls.                                                                  *)

\* What has been tried of the assumptions about a call with this argument.
Attempts(f, s, arg) ==
  {x \in [f : {f}, s : Solvers, v : {arg, Bit(0), Bit(1)}, err : {"None", "Ok"}] :
     /\ Reaches(s, x.s)
     /\ x.err = "None" => x.v = arg
     /\ x.err = "Ok" => x.v \in {Bit(0), Bit(1)}}

LEMMA tryAttempts ==
  ASSUME NEW p, NEW s, SolverOK(s), NEW f \in Frames(p, s.next_var), NEW arg \in Known(s.next_var),
         NEW acc \in Attempts(f, s, arg), NEW a \in [arg : Bits, result : Bits]
  PROVE  try(acc, a) \in Attempts(f, s, arg)
<1>1. CASE acc.err = "Ok"
  BY <1>1 DEF try
<1>2. CASE acc.err # "Ok"
  <2> DEFINE r == primop(f, acc.s, "eq", Bit(a.arg), arg)
             c == Bit(a.arg)
             b == Bit(a.result)
  <2>1. acc.f = f /\ acc.v = arg /\ Reaches(s, acc.s) /\ SolverOK(acc.s)
    BY <1>2 DEF Attempts, Reaches, Follows
  <2>2. try(acc, a) = IF Sure(r) THEN Ok(r.f, r.s, b) ELSE Untried(r.f, r.s, arg)
    BY <1>2, <2>1 DEF try, Assumed
  <2>3. s.next_var \in Nat /\ acc.s.next_var \in Nat /\ s.next_var <= acc.s.next_var
    BY <2>1, SolverTypes DEF Reaches, Follows
  <2>4. f \in Frames(p, acc.s.next_var) /\ arg \in Known(acc.s.next_var)
    BY <2>3, MoreFrames, MoreValues
  <2>5. c \in Known(acc.s.next_var) /\ r = primop(f, acc.s, "eq", c, arg)
    BY DEF Known, Bit
  <2> HIDE DEF r, c
  <2>6. Sound(p, acc.s, r) /\ r.f = f
    <3> DEFINE t == acc.s
               eq == "eq"
    <3>1. SolverOK(t) /\ f \in Frames(p, t.next_var) /\ eq \in {"eq", "neq"}
          /\ c \in Known(t.next_var) /\ arg \in Known(t.next_var) /\ r = primop(f, t, eq, c, arg)
      BY <2>1, <2>4, <2>5
    <3> HIDE DEF t, eq
    <3>2. Sound(p, t, primop(f, t, eq, c, arg)) /\ primop(f, t, eq, c, arg).f = f
      BY <3>1, primopSound
    <3> QED BY <3>1, <3>2 DEF t
  <2>7. b \in {Bit(0), Bit(1)}
    BY DEF Bits
  <2> HIDE DEF b
  <2>8. Reaches(acc.s, r.s) /\ SolverOK(r.s)
    BY <2>6, SoundFacts
  <2>9. Reaches(s, r.s)
    BY <2>1, <2>8, FollowsTrans DEF Reaches
  <2>10. r.s \in Solvers
    BY <2>8 DEF SolverOK, Faithful
  <2>11. Ok(f, r.s, b) \in Attempts(f, s, arg) /\ Untried(f, r.s, arg) \in Attempts(f, s, arg)
    BY <2>7, <2>9, <2>10 DEF Attempts, Ok, Untried
  <2> QED BY <2>2, <2>6, <2>11
<1> QED BY <1>1, <1>2

LEMMA find_assumptionFacts ==
  ASSUME NEW p, NEW s, SolverOK(s), NEW f \in Frames(p, s.next_var), NEW arg \in Known(s.next_var),
         NEW list \in Seq([arg : Bits, result : Bits])
  PROVE  LET a == find_assumption(f, s, arg, list) IN
         Reaches(s, a.s) /\ (a.err = "Ok" => a.v \in Known(a.s.next_var))
<1> DEFINE E == [arg : Bits, result : Bits]
           T == Attempts(f, s, arg)
           base == Untried(f, s, arg)
           a == Tries!fold(base, list)
<1>1. base \in T
  <2>1. s \in Solvers /\ Reaches(s, s)
    BY SolverTypes DEF SolverOK, Faithful
  <2> QED BY <2>1 DEF Attempts, Untried
<1>2. \A x \in T, e \in E : try(x, e) \in T
  BY tryAttempts
<1>3. list \in Seq(E)
  OBVIOUS
<1>4. a \in T
  <2> HIDE DEF E, T, base
  <2> QED BY ONLY <1>1, <1>2, <1>3, Tries!FoldType
<1>5. find_assumption(f, s, arg, list) = a
  BY DEF find_assumption
<1> HIDE DEF a, base
<1>6. Reaches(s, a.s) /\ (a.err = "Ok" => a.v \in {Bit(0), Bit(1)})
  BY <1>4 DEF Attempts
<1>7. \A m : {Bit(0), Bit(1)} \subseteq Known(m)
  BY DEF Known, Bit, Bits
<1> QED BY <1>5, <1>6, <1>7

(* A frame whose variables are not yet those of the callee.                *)
NoLocals == [x \in {} |-> Unit]

Entering(p, m) ==
  [fn : Names, code : DOMAIN p, pc : Pcs, forks : Nat, vars : Locals(m) \cup {NoLocals},
   regs : Regs(m), lets : Lets(m), stack_vars : Seq(Locals(m)), calls : Seq(Closures(p)),
   backtrace : Seq(Callers), pc_counts : Counts]

LEMMA EnterFrames ==
  ASSUME NEW p, NEW m, NEW f \in Frames(p, m), NEW callee \in DOMAIN p, callee \in Names,
         NEW loc \in Names, NEW arg \in Value(m)
  PROVE  Enter(f, callee, loc, arg) \in Frames(p, m)
<1> DEFINE g1 == [f EXCEPT !.stack_vars = Append(f.stack_vars, f.vars)]
           g2 == [g1 EXCEPT !.vars = NoLocals]
           c3 == [fn |-> f.fn, pc |-> f.pc]
           g3 == [g2 EXCEPT !.backtrace = Append(g2.backtrace, c3)]
           c4 == [pc |-> f.pc, code |-> f.code, loc |-> loc]
           g4 == [g3 EXCEPT !.calls = Append(g3.calls, c4)]
           g5 == [g4 EXCEPT !.fn = callee]
           g6 == [g5 EXCEPT !.code = callee]
           g7 == [g6 EXCEPT !.pc = 1]
           l == Bind(Bind(g7.vars, "return", Uninit), "a", arg)
<1>0. Enter(f, callee, loc, arg) = [g7 EXCEPT !.vars = l]
  BY DEF Enter, push_call_stack, NoLocals
<1>a. c3 \in Callers /\ c4 \in Closures(p)
  BY FrameFields DEF Callers, Closures
<1> HIDE DEF c3, c4
<1>1. g1 \in Entering(p, m)
  <2>1. Append(f.stack_vars, f.vars) \in Seq(Locals(m))
    BY FrameFields
  <2>2. g1 \in Frames(p, m)
    BY <2>1, FrameUpdates
  <2> HIDE DEF g1
  <2> QED BY <2>2 DEF Frames, Entering
<1> HIDE DEF g1
<1>2. g2 \in Entering(p, m) /\ g2.vars = NoLocals
  BY <1>1 DEF Entering
<1> HIDE DEF g2
<1>3. g3 \in Entering(p, m) /\ g3.vars = NoLocals
  <2> DEFINE x == Append(g2.backtrace, c3)
  <2>1. x \in Seq(Callers)
    BY <1>2, <1>a DEF Entering
  <2>2. g3 = [g2 EXCEPT !.backtrace = x]
    OBVIOUS
  <2> HIDE DEF x, g3
  <2> QED BY <1>2, <2>1, <2>2 DEF Entering
<1> HIDE DEF g3
<1>4. g4 \in Entering(p, m) /\ g4.vars = NoLocals
  <2> DEFINE x == Append(g3.calls, c4)
  <2>1. x \in Seq(Closures(p))
    BY <1>3, <1>a DEF Entering
  <2>2. g4 = [g3 EXCEPT !.calls = x]
    OBVIOUS
  <2> HIDE DEF x, g4
  <2> QED BY <1>3, <2>1, <2>2 DEF Entering
<1> HIDE DEF g4
<1>5. g5 \in Entering(p, m) /\ g5.vars = NoLocals
  BY <1>4 DEF Entering
<1> HIDE DEF g5
<1>6. g6 \in Entering(p, m) /\ g6.vars = NoLocals
  BY <1>5 DEF Entering
<1> HIDE DEF g6
<1>7. g7 \in Entering(p, m) /\ g7.vars = NoLocals
  <2>1. 1 \in Pcs
    BY DEF Pcs
  <2> QED BY <1>6, <2>1 DEF Entering
<1> HIDE DEF g7
<1>8. l \in Locals(m)
  <2> DEFINE X == {"return", "a"}
  <2>1. X \in {Y \in SUBSET Names : "return" \in Y}
    BY DEF Names
  <2>2. Uninit \in Value(m)
    BY DEF Value
  <2>3. Bind(NoLocals, "return", Uninit) = [x \in {"return"} |-> Uninit]
    BY DEF Bind, NoLocals
  <2>4. Bind([x \in {"return"} |-> Uninit], "a", arg) \in [X -> Value(m)]
    BY <2>2 DEF Bind
  <2>5. l \in [X -> Value(m)]
    BY <1>7, <2>3, <2>4
  <2> QED BY <2>1, <2>5 DEF Locals
<1> HIDE DEF l
<1>9. [g7 EXCEPT !.vars = l] \in Frames(p, m)
  BY <1>7, <1>8 DEF Entering, Frames
<1> QED BY <1>0, <1>9

LEMMA RestoreFrames ==
  ASSUME NEW p, NEW m, NEW f \in Frames(p, m), f.calls # <<>>
  PROVE  LET c == f.calls[Len(f.calls)] IN
         Restore(f, c) \in Frames(p, m) /\ c.loc \in Names
<1> DEFINE c == f.calls[Len(f.calls)]
           lv == f.stack_vars[Len(f.stack_vars)]
           sv == SubSeq(f.stack_vars, 1, Len(f.stack_vars) - 1)
           h1 == [f EXCEPT !.vars = lv]
           h2 == [h1 EXCEPT !.stack_vars = SubSeq(h1.stack_vars, 1, Len(h1.stack_vars) - 1)]
           g0 == pop_call_stack(f)
<1>0. f.stack_vars \in Seq(Locals(m)) /\ f.calls \in Seq(Closures(p)) /\ f.backtrace \in Seq(Callers)
      /\ f.fn \in Names
  BY FrameFields
<1>1. c.pc \in Pcs /\ c.code \in DOMAIN p /\ c.loc \in Names
  <2>1. c \in Closures(p)
    BY <1>0, Path!ButLast
  <2> QED BY <2>1 DEF Closures
<1>2. g0 \in Frames(p, m) /\ g0.fn = f.fn /\ g0.backtrace = f.backtrace /\ g0.calls = f.calls
  <2>1. CASE f.stack_vars = <<>>
    BY <2>1 DEF pop_call_stack
  <2>2. CASE f.stack_vars # <<>>
    <3>1. lv \in Locals(m) /\ sv \in Seq(Locals(m))
      BY <1>0, <2>2, Path!ButLast
    <3>2. g0 = h2
      BY <2>2 DEF pop_call_stack
    <3> HIDE DEF lv, sv, g0
    <3>3. h1 \in Frames(p, m) /\ h1.fn = f.fn /\ h1.backtrace = f.backtrace /\ h1.calls = f.calls
          /\ h1.stack_vars = f.stack_vars
      BY <3>1 DEF Frames
    <3>4. h2 = [h1 EXCEPT !.stack_vars = sv]
      BY <3>3 DEF sv
    <3> HIDE DEF h1, h2
    <3>5. h2 \in Frames(p, m) /\ h2.fn = f.fn /\ h2.backtrace = f.backtrace /\ h2.calls = f.calls
      BY <3>1, <3>3, <3>4 DEF Frames
    <3> QED BY <3>2, <3>5
  <2> QED BY <2>1, <2>2
<1> DEFINE fn1 == IF f.backtrace = <<>> THEN g0.fn ELSE f.backtrace[Len(f.backtrace)].fn
           g1 == [g0 EXCEPT !.fn = fn1]
           bt2 == IF g1.backtrace = <<>> THEN g1.backtrace
                  ELSE SubSeq(g1.backtrace, 1, Len(g1.backtrace) - 1)
           g2 == [g1 EXCEPT !.backtrace = bt2]
           g3 == [g2 EXCEPT !.pc = c.pc + 1]
           g4 == [g3 EXCEPT !.code = c.code]
           cs5 == SubSeq(g4.calls, 1, Len(g4.calls) - 1)
           g5 == [g4 EXCEPT !.calls = cs5]
<1>3. Restore(f, c) = g5
  BY DEF Restore
<1> HIDE DEF g0
<1>4. g1 \in Frames(p, m) /\ g1.backtrace = f.backtrace /\ g1.calls = f.calls
  <2>1. fn1 \in Names
    <3>1. CASE f.backtrace = <<>>
      BY <1>0, <1>2, <3>1
    <3>2. CASE f.backtrace # <<>>
      <4>1. f.backtrace[Len(f.backtrace)] \in Callers
        BY <1>0, <3>2, Path!ButLast
      <4> QED BY <3>2, <4>1 DEF Callers
    <3> QED BY <3>1, <3>2
  <2> HIDE DEF fn1
  <2> QED BY <1>2, <2>1 DEF Frames
<1> HIDE DEF g1
<1>5. g2 \in Frames(p, m) /\ g2.calls = f.calls
  <2>1. bt2 \in Seq(Callers)
    BY <1>0, <1>4, Path!ButLast
  <2> HIDE DEF bt2
  <2> QED BY <1>4, <2>1 DEF Frames
<1> HIDE DEF g2
<1>6. g3 \in Frames(p, m) /\ g3.calls = f.calls
  <2>1. c.pc + 1 \in Pcs
    BY <1>1 DEF Pcs
  <2> HIDE DEF c
  <2> QED BY <1>5, <2>1 DEF Frames
<1> HIDE DEF g3
<1>7. g4 \in Frames(p, m) /\ g4.calls = f.calls
  <2> HIDE DEF c
  <2> QED BY <1>1, <1>6 DEF Frames
<1> HIDE DEF g4
<1>8. g5 \in Frames(p, m)
  <2>1. cs5 \in Seq(Closures(p))
    BY <1>0, <1>7, Path!ButLast
  <2> HIDE DEF cs5
  <2> QED BY <1>7, <2>1 DEF Frames
<1> QED BY <1>1, <1>3, <1>8

(* The caller goes on with the result.                                     *)
LEMMA ReturnSound ==
  ASSUME NEW p, NEW s, SolverOK(s), NEW f \in Frames(p, s.next_var), f.calls # <<>>,
         NEW v \in Known(s.next_var)
  PROVE  Sound(p, s, Return(f, s, v)) /\ Return(f, s, v).err = "Ok"
<1> DEFINE c == f.calls[Len(f.calls)]
           g == Restore(f, c)
<1>1. g \in Frames(p, s.next_var) /\ c.loc \in Names
  BY RestoreFrames
<1>2. Return(f, s, v) = assign(g, s, c.loc, v)
  BY DEF Return
<1> HIDE DEF g, c
<1> QED BY <1>1, <1>2, assignSound

(* A call or a return of a traced function is recorded.                    *)
LEMMA CallIsNote ==
  ASSUME NEW fn \in Names, NEW ev \in {"call", "return", "abstract", "use-fun-assumption"}
  PROVE  [ev |-> ev, fn |-> fn] \in Notes
BY DEF Notes, Event

LEMMA TraceEventReaches ==
  ASSUME NEW s, SolverOK(s), NEW fn \in Names, NEW ev \in {"call", "return"}
  PROVE  Reaches(s, TraceEvent(s, ev, fn)) /\ TraceEvent(s, ev, fn).next_var = s.next_var
<1>1. [ev |-> ev, fn |-> fn] \in Notes
  BY CallIsNote
<1>2. Reaches(s, s)
  BY SolverTypes
<1>3. LET t == add_event(s, [ev |-> ev, fn |-> fn]) IN Reaches(s, t) /\ t.next_var = s.next_var
  BY <1>1, NoteFacts
<1> QED BY <1>2, <1>3 DEF TraceEvent

(* An outcome with one more record.                                        *)
LEMMA NoteSound ==
  ASSUME NEW p, NEW s, SolverOK(s), NEW r, Sound(p, s, r), NEW e \in Notes
  PROVE  LET q == [r EXCEPT !.s = add_event(r.s, e)] IN Sound(p, s, q) /\ q.err = r.err
<1> DEFINE t == add_event(r.s, e)
           q == [r EXCEPT !.s = t]
<1>1. SolverOK(r.s) /\ r.f \in Frames(p, r.s.next_var) /\ Reaches(s, r.s)
  BY SoundFacts
<1>2. Reaches(r.s, t) /\ t.next_var = r.s.next_var
  BY <1>1, NoteFacts
<1> HIDE DEF t
<1>3. r = [f |-> r.f, s |-> r.s, v |-> r.v, err |-> r.err] /\ (r.err = "Ok" => r.v \in Known(r.s.next_var))
  BY DEF Sound
<1>4. q = [f |-> r.f, s |-> t, v |-> r.v, err |-> r.err]
  BY <1>3
<1>5. Reaches(s, t)
  BY <1>1, <1>2, FollowsTrans DEF Reaches
<1> HIDE DEF q
<1>6. Sound(p, s, q) /\ q.err = r.err
  BY <1>1, <1>2, <1>3, <1>4, <1>5 DEF Sound
<1> QED BY <1>6 DEF q, t

-----------------------------------------------------------------------------
(* Splitting the inputs.                                                   *)

(* What an expression means depends on the declarations alone.             *)
LEMMA MeaningOfDecls ==
  ASSUME NEW s, NEW t, s.decls = t.decls, NEW e PROVE translate_exp(s, e) = translate_exp(t, e)
BY DEF translate_exp, atom_meaning

(* A Sym is true or false, and one of its values or another.               *)
LEMMA SplitMeaning ==
  ASSUME NEW s, NEW v
  PROVE  /\ translate_exp(s, IsFalse(v)) = Assignments \ translate_exp(s, IsTrue(v))
         /\ \A b \in Bits : translate_exp(s, MonoRest(v, b))
                            = Assignments \ translate_exp(s, Term("eq", Var(v), Lit(b)))
<1> DEFINE D == s.decls[v]
<1>1. translate_exp(s, IsTrue(v)) = D
  BY DEF translate_exp, atom_meaning, IsTrue, Var
<1>2. translate_exp(s, IsFalse(v)) = Same(D, {})
  BY DEF translate_exp, atom_meaning, IsFalse, Var, Lit, Term
<1>3. Same(D, {}) = {w \in Assignments : w \notin D}
  BY DEF Same
<1>4. ASSUME NEW b \in Bits
      PROVE  translate_exp(s, MonoRest(v, b)) = Assignments \ translate_exp(s, Term("eq", Var(v), Lit(b)))
  BY DEF translate_exp, atom_meaning, MonoRest, Var, Lit, Term
<1> HIDE DEF D
<1> QED BY <1>1, <1>2, <1>3, <1>4

\* A suspended task, and the inputs and branches it stands for.
TaskOK(p, t, it) ==
  /\ SolverOK(resume(t)) /\ t.frame \in Frames(p, resume(t).next_var)
  /\ t.frac \in PosFraction
  /\ it = Item(to_vec(resume(t)), resume(t).models, t.frac)

\* What Fork2 queues, and the history of it.
Suspended(child, at, rest, event, cond) ==
  [frame |-> child, checkpoint |-> checkpoint(at), frac |-> rest,
   fork_cond |-> <<event, AssertDef(cond)>>]

Stand(at, rest, event, cond) ==
  Item(Append(to_vec(at), event), at.models \cap translate_exp(at, cond), rest)

(* A fork at a solver: the task of the other branch, after its replay.     *)
LEMMA ChildOK ==
  ASSUME NEW p, NEW at, SolverOK(at), NEW child \in Frames(p, at.next_var), NEW rest \in PosFraction,
         NEW event \in Event, event.ev = "fork", NEW cond \in Terms
  PROVE  TaskOK(p, Suspended(child, at, rest, event, cond), Stand(at, rest, event, cond))
<1> DEFINE c == checkpoint(at)
           a == AssertDef(cond)
           t == [frame |-> child, checkpoint |-> c, frac |-> rest, fork_cond |-> <<event, a>>]
           it == Item(Append(to_vec(at), event), at.models \cap translate_exp(at, cond), rest)
           u1 == checkpointed(at)
           u2 == add_event(u1, event)
           u3 == add_event(u2, a)
<1>1. from_checkpoint(c) = u1 /\ SolverOK(u1) /\ u1.next_var = at.next_var /\ u1.decls = at.decls
      /\ u1.models = at.models /\ to_vec(u1) = to_vec(at)
  BY RestoredOK
<1>2. resume(t) = u3
  BY <1>1 DEF resume
<1> HIDE DEF u1, c
<1>3. SolverOK(u2) /\ u2.next_var = at.next_var /\ u2.decls = at.decls /\ u2.models = at.models
      /\ to_vec(u2) = Append(to_vec(at), event)
  BY <1>1, NoNewSym
<1> HIDE DEF u2
<1>4. Follows(u2, u3) /\ u3.next_var = u2.next_var /\ u3.models = u2.models \cap translate_exp(u2, cond)
  BY <1>3, AssertFacts
<1>5. translate_exp(u2, cond) = translate_exp(at, cond)
  BY <1>3, MeaningOfDecls
<1> HIDE DEF u3
<1>6. SolverOK(u3) /\ u3.next_var = at.next_var /\ u3.models = at.models \cap translate_exp(at, cond)
      /\ Branches(to_vec(u3)) = Branches(Append(to_vec(at), event))
  BY <1>3, <1>4, <1>5 DEF Follows
<1>7. t.frame = child /\ t.frac = rest
  OBVIOUS
<1>8. it = Item(to_vec(u3), u3.models, rest)
  BY <1>6 DEF Item
<1> HIDE DEF t, it
<1>9. TaskOK(p, t, it)
  BY <1>2, <1>6, <1>7, <1>8 DEF TaskOK
<1> QED BY <1>9 DEF t, it, c, a, Suspended, Stand

LEMMA StandPath ==
  ASSUME NEW at, SolverOK(at), NEW event \in Event, event.ev = "fork", NEW rest, NEW cond
  PROVE  Stand(at, rest, event, cond).path = Append(Branches(to_vec(at)), event.branch)
<1>1. to_vec(at) \in Seq(Event)
  BY SolverTypes
<1>2. Stand(at, rest, event, cond).path = Branches(Append(to_vec(at), event))
  BY DEF Stand, Item
<1> QED BY <1>1, <1>2, BranchFacts

LEMMA ForkIsEvent ==
  ASSUME NEW n \in Nat, NEW v \in Nat, NEW b \in Bits
  PROVE  Fork(n, v, b) \in Event /\ Fork(n, v, b).ev = "fork" /\ Fork(n, v, b).branch = b
BY DEF Event, Fork

(* A fork event, seen from the path that goes on.                          *)
LEMMA ForkFacts ==
  ASSUME NEW s, SolverOK(s), NEW n \in Nat, NEW v \in Nat, NEW b \in Bits
  PROVE  LET e == Fork(n, v, b)
             u == add_event(s, e) IN
         /\ SolverOK(u) /\ u.next_var = s.next_var /\ u.decls = s.decls /\ u.models = s.models
         /\ Branches(to_vec(u)) = Append(Branches(to_vec(s)), b)
<1> DEFINE e == Fork(n, v, b)
           u == add_event(s, e)
<1>1. e \in Event /\ e.ev = "fork" /\ e.branch = b
  BY ForkIsEvent
<1> HIDE DEF e
<1>2. SolverOK(u) /\ u.next_var = s.next_var /\ u.decls = s.decls /\ u.models = s.models
      /\ to_vec(u) = Append(to_vec(s), e)
  BY <1>1, NoNewSym
<1> HIDE DEF u
<1>3. Branches(to_vec(u)) = Append(Branches(to_vec(s)), b)
  BY <1>1, <1>2, SolverTypes, BranchFacts
<1> QED BY <1>1, <1>2, <1>3 DEF e, u

(* The Sym that Z3's model is asked for changes nothing else.              *)
LEMMA NameFacts ==
  ASSUME NEW at, SolverOK(at), NEW v \in 0..(at.next_var - 1)
  PROVE  LET s == NameForModel(checkpointed(at), v) IN
         Reaches(at, s) /\ v \in 0..(s.next_var - 1) /\ s.decls[v] = at.decls[v]
<1> DEFINE u1 == checkpointed(at)
           n == u1.next_var
           e == DeclareEqual(n, v)
           w == [u1 EXCEPT !.next_var = @ + 1]
           u2 == add_event(w, e)
           x == Term("eq", Var(v), Var(n))
           u3 == add_event(u2, AssertDef(x))
<1>1. NameForModel(u1, v) = u3
  BY DEF NameForModel
<1>2. SolverOK(u1) /\ n = at.next_var /\ u1.decls = at.decls /\ u1.models = at.models
      /\ to_vec(u1) = to_vec(at)
  BY RestoredOK
<1> HIDE DEF u1
<1>3. n \in Nat /\ v \in 0..(n - 1) /\ v \in Nat /\ at.next_var \in Nat
  BY <1>2, SolverTypes
<1>4. e \in Event /\ e.ev = "declare" /\ e.v = n /\ e.of = v /\ v # Free
  BY <1>3 DEF Event, DeclareEqual, Free
<1>5. DOMAIN u1.decls = 0..(n - 1)
  BY <1>2 DEF SolverOK
<1>6. Allowed(w, e)
  <2>1. w.decls = u1.decls
    BY <1>2, FreshFacts DEF SolverOK
  <2> HIDE DEF w, e
  <2> QED BY <1>3, <1>4, <1>5, <2>1 DEF Allowed
<1> HIDE DEF e
<1>7. /\ SolverOK(u2) /\ u2.next_var = n + 1 /\ Keeps(u1, u2) /\ u2.models = u1.models
      /\ u2.decls[n] = u1.decls[v]
  BY <1>2, <1>4, <1>6, NewSym
<1>8. Reaches(u1, u2)
  BY <1>2, <1>4, <1>6, NewSymReaches
<1> HIDE DEF w, u2, n
<1>9. x \in Terms /\ x.op = "eq" /\ x.x = Var(v) /\ x.y = Var(n)
  <2>1. Var(v) \in Atoms /\ Var(n) \in Atoms
    BY <1>3 DEF Var, Atoms
  <2> QED BY <2>1 DEF Term, Terms
<1> HIDE DEF x
<1>10. Follows(u2, u3) /\ u3.next_var = u2.next_var /\ u3.decls = u2.decls
       /\ u3.models = u2.models \cap translate_exp(u2, x)
  BY <1>7, <1>9, AssertFacts
<1> HIDE DEF u3
<1>11. u2.decls[v] = at.decls[v]
  BY <1>2, <1>3, <1>5, <1>7 DEF Keeps
<1>12. translate_exp(u2, x) = Assignments
  <2>1. translate_exp(u2, x) = Same(u2.decls[v], u2.decls[n])
    BY <1>9 DEF translate_exp, atom_meaning, Var
  <2>2. u2.decls[v] = u2.decls[n]
    BY <1>2, <1>7, <1>11
  <2> QED BY <2>1, <2>2 DEF Same
<1>13. u2.models \in SUBSET Assignments
  BY <1>7, SolverTypes
<1>14. Reaches(u2, u3)
  BY <1>10, <1>12, <1>13 DEF Reaches
<1>15. Reaches(at, u1)
  BY <1>2, <1>3 DEF Reaches, Follows, n
<1>16. Reaches(at, u2)
  BY <1>8, <1>15, FollowsTrans DEF Reaches
<1>17. Reaches(at, u3)
  BY <1>14, <1>16, FollowsTrans DEF Reaches
<1>18. u3.next_var = n + 1 /\ u3.decls[v] = at.decls[v]
  BY <1>7, <1>10, <1>11
<1>19. v \in 0..(u3.next_var - 1)
  BY <1>3, <1>18
<1> QED BY <1>1, <1>17, <1>18, <1>19 DEF u1

-----------------------------------------------------------------------------
(* The inductive invariant.                                                *)

IsSeq(q) == \E E : q \in Seq(E)

\* Every path and every suspended task belongs to its solver.
TasksOK ==
  /\ prog \in Programs /\ running \in BOOLEAN /\ frac \in PosFraction
  /\ IsSeq(queue) /\ IsSeq(stands) /\ IsSeq(collected) /\ Len(queue) = Len(stands)
  /\ \A k \in 1..Len(queue) : TaskOK(prog, queue[k], stands[k])

PathOK == running => SolverOK(solver) /\ frame \in Frames(prog, solver.next_var)

\* No two of them follow the same branches.
PathsApart ==
  /\ \A j, k \in 1..Len(stands) : j # k => Diverge(stands[j].path, stands[k].path)
  /\ running => \A k \in 1..Len(stands) : Diverge(Branches(to_vec(solver)), stands[k].path)

IInv == TasksOK /\ PathOK /\ PathsApart

-----------------------------------------------------------------------------
(* The kinds of steps.                                                     *)

PathGoesOn ==
  /\ running /\ running' = TRUE /\ Follows(solver, solver')
  /\ frame' \in Frames(prog, solver'.next_var)
  /\ UNCHANGED <<prog, queue, stands, frac, collected>>

PathEnds ==
  /\ running /\ running' = FALSE
  /\ UNCHANGED <<prog, queue, stands, frac>>
  /\ \E x : /\ collected' = Append(collected, x)
            /\ Item(x.trace, x.models, x.frac) = Item(to_vec(solver), solver.models, frac)

PathSplits ==
  /\ running /\ running' = TRUE /\ UNCHANGED <<prog, collected>>
  /\ frac' \in PosFraction /\ SolverOK(solver') /\ frame' \in Frames(prog, solver'.next_var)
  /\ Branches(to_vec(solver')) = Append(Branches(to_vec(solver)), 0) /\ solver'.models # {}
  /\ \E t, it :
       /\ queue' = Append(queue, t) /\ stands' = Append(stands, it) /\ TaskOK(prog, t, it)
       /\ it.path = Append(Branches(to_vec(solver)), 1)
       /\ solver'.models \cup it.models = solver.models /\ solver'.models \cap it.models = {}
       /\ SumsTo(frac', it.frac, frac)

PathStep == PathGoesOn \/ PathEnds \/ PathSplits

LEMMA CollectEnds ==
  ASSUME running, NEW f, NEW s, Reaches(solver, s), NEW run, NEW v, Collect(f, s, run, v)
  PROVE  PathStep
<1> DEFINE x == [run |-> run, v |-> v, models |-> s.models, trace |-> to_vec(s), frac |-> frac]
<1>1. collected' = Append(collected, x) /\ running' = FALSE /\ UNCHANGED <<prog, queue, stands, frac>>
  BY DEF Collect
<1>2. x.trace = to_vec(s) /\ x.models = s.models /\ x.frac = frac
  OBVIOUS
<1>3. Branches(to_vec(s)) = Branches(to_vec(solver)) /\ s.models = solver.models
  BY DEF Reaches, Follows
<1> HIDE DEF x
<1>4. Item(x.trace, x.models, x.frac) = Item(to_vec(solver), solver.models, frac)
  BY <1>2, <1>3 DEF Item
<1> QED BY <1>1, <1>4 DEF PathStep, PathEnds

LEMMA GoOnGoesOn ==
  ASSUME running \in BOOLEAN, running, NEW s, Follows(solver, s), NEW f \in Frames(prog, s.next_var),
         GoOn(f, s)
  PROVE  PathStep
BY DEF GoOn, PathStep, PathGoesOn

(* The ? of every call.                                                    *)
LEMMA ContinueSteps ==
  ASSUME running \in BOOLEAN, running, NEW r, Asserts(prog, solver, r), Continue(r)
  PROVE  PathStep
<1>1. CASE r.err = "Ok"
  <2>1. Follows(solver, r.s) /\ r.f \in Frames(prog, r.s.next_var) /\ GoOn(r.f, r.s)
    BY <1>1 DEF Asserts, Sound, Continue
  <2> QED BY <2>1, GoOnGoesOn
<1>2. CASE r.err # "Ok"
  <2>1. Reaches(solver, r.s) /\ Collect(r.f, r.s, r.err, Unit)
    BY <1>2 DEF Asserts, Sound, Continue
  <2> QED BY <2>1, CollectEnds
<1> QED BY <1>1, <1>2

LEMMA SoundAsserts == ASSUME NEW p, NEW s, NEW r, Sound(p, s, r) PROVE Asserts(p, s, r)
<1>1. Reaches(s, r.s) /\ SolverOK(r.s)
  BY DEF Sound, Reaches, Follows
<1>2. Reaches(r.s, r.s)
  BY <1>1, SolverTypes
<1> QED BY <1>1, <1>2 DEF Asserts, Sound, Reaches

(* The next instruction is one of a well-formed program.                   *)
LEMMA InstrFacts ==
  ASSUME TasksOK, PathOK, NEW name, At(name)
  PROVE  /\ IsInstr(Instr) /\ Instr.i = name /\ running /\ running \in BOOLEAN
         /\ SolverOK(solver) /\ frame \in Frames(prog, solver.next_var) /\ IsProgram(prog)
<1>1. running /\ frame.pc <= Len(Instrs(frame)) /\ Instr.i = name
  BY DEF At
<1>2. SolverOK(solver) /\ frame \in Frames(prog, solver.next_var) /\ prog \in Programs /\ running \in BOOLEAN
  BY <1>1 DEF PathOK, TasksOK
<1>3. IsProgram(prog)
  BY <1>2, RunLoopAssumption
<1>4. frame.code \in DOMAIN prog /\ frame.pc \in Pcs
  BY <1>2, FrameFields
<1>5. IsInstr(Instr)
  <2> DEFINE q == prog[frame.code]
  <2>1. Len(q) \in Nat /\ \A n \in 1..Len(q) : IsInstr(q[n])
    BY <1>3, <1>4 DEF IsProgram
  <2>2. frame.pc <= Len(q) /\ Instr = q[frame.pc]
    BY <1>1 DEF Instrs, Instr
  <2> HIDE DEF q
  <2> QED BY <1>4, <2>1, <2>2 DEF Pcs
<1> QED BY <1>1, <1>2, <1>3, <1>5

-----------------------------------------------------------------------------
(* Every action is a step of one of these kinds.                           *)

LEMMA StraightSteps == ASSUME TasksOK, PathOK, Straight PROVE PathStep
<1>1. CASE Decl
  <2> DEFINE l == Bind(frame.vars, Instr.id, Uninit)
             g == [frame EXCEPT !.vars = l]
             r == Ok(g, solver, Unit)
  <2>0. At("Decl") /\ Continue(Advance(r))
    BY <1>1 DEF Decl
  <2>1. Instr.id \in Names /\ running /\ running \in BOOLEAN /\ SolverOK(solver)
        /\ frame \in Frames(prog, solver.next_var)
    BY <2>0, InstrFacts DEF IsInstr, Names
  <2>2. l \in Locals(solver.next_var)
    <3>1. Uninit \in Value(solver.next_var) /\ frame.vars \in Locals(solver.next_var)
      BY <2>1, FrameFields DEF Value
    <3> QED BY <2>1, <3>1, BindFacts
  <2> HIDE DEF l
  <2>3. g \in Frames(prog, solver.next_var)
    BY <2>1, <2>2, FrameUpdates
  <2> HIDE DEF g
  <2>4. Sound(prog, solver, r)
    BY <2>1, <2>3, SolverTypes, UnitKnown, OkSound
  <2> HIDE DEF r
  <2>5. Asserts(prog, solver, Advance(r))
    BY <2>4, AdvanceSound, SoundAsserts
  <2> QED BY <2>0, <2>1, <2>5, ContinueSteps
<1>2. CASE InitVar
  <2> DEFINE r == eval_exp(frame, solver, Instr.exp)
             q == BindResult(r, Instr.id)
  <2>0. At("Init") /\ Continue(Advance(q))
    BY <1>2 DEF InitVar
  <2>1. Instr.id \in Names /\ IsExp(Instr.exp) /\ running /\ running \in BOOLEAN /\ SolverOK(solver)
        /\ frame \in Frames(prog, solver.next_var)
    BY <2>0, InstrFacts DEF IsInstr, Names
  <2>2. Sound(prog, solver, r)
    BY <2>1, eval_expSound
  <2> HIDE DEF r
  <2>3. Sound(prog, solver, q)
    BY <2>1, <2>2, BindResultSound
  <2> HIDE DEF q
  <2>4. Asserts(prog, solver, Advance(q))
    BY <2>3, AdvanceSound, SoundAsserts
  <2> QED BY <2>0, <2>1, <2>4, ContinueSteps
<1>3. CASE Goto
  <2> DEFINE g == [frame EXCEPT !.pc = Instr.target]
  <2>0. At("Goto") /\ GoOn(g, solver)
    BY <1>3 DEF Goto
  <2>1. Instr.target \in Pcs /\ running /\ running \in BOOLEAN /\ SolverOK(solver)
        /\ frame \in Frames(prog, solver.next_var)
    BY <2>0, InstrFacts DEF IsInstr, Pcs
  <2>2. g \in Frames(prog, solver.next_var)
    BY <2>1, FrameUpdates
  <2>3. Follows(solver, solver)
    BY <2>1, SolverTypes DEF Reaches
  <2> HIDE DEF g
  <2> QED BY <2>0, <2>1, <2>2, <2>3, GoOnGoesOn
<1>4. CASE Copy
  <2> DEFINE r == eval_exp(frame, solver, Instr.exp)
             q == AssignAfter(r, Instr.loc)
  <2>0. At("Copy") /\ Continue(Advance(q))
    BY <1>4 DEF Copy
  <2>1. Instr.loc \in Names /\ IsExp(Instr.exp) /\ running /\ running \in BOOLEAN /\ SolverOK(solver)
        /\ frame \in Frames(prog, solver.next_var)
    BY <2>0, InstrFacts DEF IsInstr, Names
  <2>2. Sound(prog, solver, r)
    BY <2>1, eval_expSound
  <2> HIDE DEF r
  <2>3. Sound(prog, solver, q)
    BY <2>1, <2>2, AssignAfterSound
  <2> HIDE DEF q
  <2>4. Asserts(prog, solver, Advance(q))
    BY <2>3, AdvanceSound, SoundAsserts
  <2> QED BY <2>0, <2>1, <2>4, ContinueSteps
<1>5. CASE PrimopAssert
  <2> DEFINE r == eval_exp(frame, solver, Instr.exp)
             q == Advance(AssignAfter(Assert(Instr.op, r), Instr.loc))
  <2>0. At("Primop") /\ Continue(q)
    BY <1>5 DEF PrimopAssert
  <2>1. Instr.loc \in Names /\ IsExp(Instr.exp) /\ running /\ running \in BOOLEAN /\ SolverOK(solver)
        /\ frame \in Frames(prog, solver.next_var)
        /\ Instr.op \in {"assume", "optimistic_assert", "pessimistic_assert"}
    BY <2>0, InstrFacts DEF IsInstr, Names
  <2>2. Sound(prog, solver, r)
    BY <2>1, eval_expSound
  <2> HIDE DEF r
  <2>3. Asserts(prog, solver, q)
    BY <2>1, <2>2, PrimopSound
  <2> HIDE DEF q
  <2> QED BY <2>0, <2>1, <2>3, ContinueSteps
<1> QED BY <1>1, <1>2, <1>3, <1>4, <1>5 DEF Straight

LEMMA CallSteps == ASSUME TasksOK, PathOK, Call PROVE PathStep
<1> DEFINE r == eval_exp(frame, solver, Instr.arg)
           fn == Instr.fn
           loc == Instr.loc
<1>0. At("Call") /\ fn \in DOMAIN prog /\ CallWith(r, fn, loc)
  BY DEF Call, IsFunction
<1>1. fn \in Names /\ loc \in Names /\ IsExp(Instr.arg) /\ running /\ running \in BOOLEAN /\ SolverOK(solver)
      /\ frame \in Frames(prog, solver.next_var)
  BY <1>0, InstrFacts DEF IsInstr, Names
<1>2. Sound(prog, solver, r)
  BY <1>1, eval_expSound
<1> HIDE DEF r, fn, loc
<1>3. CASE r.err # "Ok"
  <2>1. Continue(r) /\ Asserts(prog, solver, r)
    BY <1>0, <1>2, <1>3, SoundAsserts DEF CallWith
  <2> QED BY <1>1, <2>1, ContinueSteps
<1>4. CASE r.err = "Ok"
  <2> DEFINE f == r.f
             s == TraceEvent(r.s, "call", fn)
             arg == r.v
  <2>1. CallOn(f, s, fn, loc, arg)
    BY <1>0, <1>4 DEF CallWith
  <2>2. SolverOK(r.s) /\ f \in Frames(prog, r.s.next_var) /\ Reaches(solver, r.s)
        /\ arg \in Known(r.s.next_var)
    BY <1>2, <1>4, SoundFacts DEF Sound
  <2>3. Reaches(r.s, s) /\ s.next_var = r.s.next_var
    BY <1>1, <2>2, TraceEventReaches
  <2> HIDE DEF f, s, arg
  <2>4. SolverOK(s) /\ f \in Frames(prog, s.next_var) /\ arg \in Known(s.next_var)
    BY <2>2, <2>3 DEF Reaches, Follows
  <2>5. Reaches(solver, s)
    BY <1>1, <2>2, <2>3, FollowsTrans DEF Reaches
  <2> DEFINE list == IF fn \in DOMAIN Assumptions THEN Assumptions[fn] ELSE <<>>
             a == find_assumption(f, s, arg, list)
             e == [ev |-> "abstract", fn |-> fn]
             t == add_event(s, e)
  <2>6. \/ Collect(f, s, "Stopped", Unit)
        \/ Collect(f, t, "Finished", Poison)
        \/ AssumeOrEnter(f, fn, loc, arg, a)
    BY <2>1 DEF CallOn
  <2>7. CASE Collect(f, s, "Stopped", Unit)
    BY <1>1, <2>5, <2>7, CollectEnds
  <2>8. CASE Collect(f, t, "Finished", Poison)
    <3>1. e \in Notes
      BY <1>1, CallIsNote
    <3> HIDE DEF e
    <3>2. Reaches(s, t)
      BY <2>4, <3>1, NoteFacts
    <3> HIDE DEF t
    <3>3. Reaches(solver, t)
      BY <1>1, <2>5, <3>2, FollowsTrans DEF Reaches
    <3> QED BY <1>1, <2>8, <3>3, CollectEnds
  <2>9. CASE AssumeOrEnter(f, fn, loc, arg, a)
    <3> DEFINE Pairs == Seq([arg : Bits, result : Bits])
    <3>0. /\ \A g \in DOMAIN Assumptions : Assumptions[g] \in Pairs
          /\ <<>> \in Pairs
      BY RunLoopAssumption, EmptySeq
    <3> HIDE DEF Pairs
    <3>1a. list \in Pairs
      BY <3>0
    <3>1. list \in Seq([arg : Bits, result : Bits])
      BY <3>1a DEF Pairs
    <3> HIDE DEF list
    <3>2. Reaches(s, a.s) /\ (a.err = "Ok" => a.v \in Known(a.s.next_var))
      BY <2>4, <3>1, find_assumptionFacts
    <3> HIDE DEF a
    <3>3. SolverOK(a.s) /\ s.next_var <= a.s.next_var /\ s.next_var \in Nat /\ a.s.next_var \in Nat
      BY <2>4, <3>2, SolverTypes DEF Reaches, Follows
    <3>4. f \in Frames(prog, a.s.next_var) /\ arg \in Known(a.s.next_var)
      BY <2>4, <3>3, MoreFrames, MoreValues
    <3>5. Reaches(solver, a.s)
      BY <1>1, <2>5, <3>2, FollowsTrans DEF Reaches
    <3> DEFINE q == assign(f, a.s, loc, a.v)
               u == [ev |-> "use-fun-assumption", fn |-> fn]
               q2 == [q EXCEPT !.s = add_event(q.s, u)]
    <3>6. CASE a.err = "Ok" /\ Continue(Advance(q2))
      <4>1. Sound(prog, a.s, q)
        BY <1>1, <3>2, <3>3, <3>4, <3>6, assignSound
      <4> HIDE DEF q
      <4>2. u \in Notes
        BY <1>1, CallIsNote
      <4> HIDE DEF u
      <4>3. Sound(prog, a.s, q2)
        BY <3>3, <4>1, <4>2, NoteSound
      <4> HIDE DEF q2
      <4>4. Sound(prog, solver, q2)
        BY <1>1, <3>5, <4>3, SoundTrans
      <4>5. Asserts(prog, solver, Advance(q2))
        BY <4>4, AdvanceSound, SoundAsserts
      <4> QED BY <1>1, <3>6, <4>5, ContinueSteps
    <3>7. CASE GoOn(Enter(f, fn, loc, arg), a.s)
      <4> DEFINE g == Enter(f, fn, loc, arg)
      <4>1. arg \in Value(a.s.next_var)
        BY <3>4 DEF Value
      <4>2. g \in Frames(prog, a.s.next_var)
        BY <1>0, <1>1, <3>4, <4>1, EnterFrames
      <4> HIDE DEF g
      <4>3. GoOn(g, a.s) /\ Follows(solver, a.s)
        BY <3>5, <3>7 DEF Reaches, g
      <4> QED BY <1>1, <4>2, <4>3, GoOnGoesOn
    <3>8. (a.err = "Ok" /\ Continue(Advance(q2))) \/ GoOn(Enter(f, fn, loc, arg), a.s)
      BY <2>9 DEF AssumeOrEnter
    <3> QED BY <3>6, <3>7, <3>8
  <2> QED BY <2>6, <2>7, <2>8, <2>9
<1> QED BY <1>3, <1>4

(* A function returns, or the program ends.                                *)
LEMMA LeaveSteps ==
  ASSUME running \in BOOLEAN, running, SolverOK(solver), NEW s, Reaches(solver, s),
         NEW f \in Frames(prog, s.next_var), NEW v \in Known(s.next_var), LeaveTraced(f, s, v)
  PROVE  PathStep
<1> DEFINE t == TraceEvent(s, "return", f.fn)
<1>1. Leave(f, t, v)
  BY DEF LeaveTraced
<1>2. SolverOK(s) /\ f.fn \in Names
  BY FrameFields DEF Reaches, Follows
<1>3. Reaches(s, t) /\ t.next_var = s.next_var
  BY <1>2, TraceEventReaches
<1> HIDE DEF t
<1>4. Reaches(solver, t) /\ SolverOK(t)
  BY <1>3, FollowsTrans DEF Reaches, Follows
<1>5. f \in Frames(prog, t.next_var) /\ v \in Known(t.next_var)
  BY <1>3
<1>6. CASE f.calls = <<>>
  <2>1. Collect(f, t, "Finished", v)
    BY <1>1, <1>6 DEF Leave
  <2> QED BY <1>4, <2>1, CollectEnds
<1>7. CASE f.calls # <<>>
  <2> DEFINE r == Return(f, t, v)
  <2>1. Continue(r)
    BY <1>1, <1>7 DEF Leave
  <2>2. Sound(prog, t, r)
    BY <1>4, <1>5, <1>7, ReturnSound
  <2> HIDE DEF r
  <2>3. Sound(prog, solver, r)
    BY <1>4, <2>2, SoundTrans
  <2> QED BY <2>1, <2>3, SoundAsserts, ContinueSteps
<1> QED BY <1>6, <1>7

LEMMA FunctionSteps == ASSUME TasksOK, PathOK, Function PROVE PathStep
<1>1. CASE Call
  BY <1>1, CallSteps
<1>2. CASE End
  <2> DEFINE v == frame.vars["return"]
             s == declare_const(solver)
             w == Symbolic(solver.next_var)
  <2>0. At("End") /\ (IF v = Uninit THEN LeaveTraced(frame, s, w) ELSE LeaveTraced(frame, solver, v))
    BY <1>2 DEF End
  <2>1. running /\ running \in BOOLEAN /\ SolverOK(solver) /\ frame \in Frames(prog, solver.next_var)
    BY <2>0, InstrFacts
  <2>2. v \in Value(solver.next_var)
    BY <2>1, FrameFields, LocalFacts
  <2>3. CASE v = Uninit
    <3>1. Reaches(solver, s) /\ w \in Known(s.next_var)
      BY <2>1, symbolicSound, DeclareReaches
    <3>2. frame \in Frames(prog, s.next_var)
      <4>1. symbolic(frame, solver).f = frame /\ symbolic(frame, solver).s = s
        BY <2>1, symbolicSound
      <4> QED BY <2>1, <4>1, symbolicSound DEF Sound
    <3> HIDE DEF s, w
    <3>3. LeaveTraced(frame, s, w)
      BY <2>0, <2>3
    <3> QED BY <2>1, <3>1, <3>2, <3>3, LeaveSteps
  <2>4. CASE v # Uninit
    <3>1. v \in Known(solver.next_var) /\ LeaveTraced(frame, solver, v)
      BY <2>0, <2>2, <2>4 DEF Value
    <3> HIDE DEF v
    <3> QED BY <2>1, <3>1, SolverTypes, LeaveSteps
  <2> QED BY <2>3, <2>4
<1>3. CASE Arbitrary
  <2>1. At("Arbitrary") /\ LeaveTraced(frame, solver, Poison)
    BY <1>3 DEF Arbitrary
  <2>2. running /\ running \in BOOLEAN /\ SolverOK(solver) /\ frame \in Frames(prog, solver.next_var)
    BY <2>1, InstrFacts
  <2> QED BY <2>1, <2>2, SolverTypes, UnitKnown, LeaveSteps
<1>4. CASE Exit
  <2>1. At("Exit") /\ Collect(frame, solver, Instr.cause, Unit)
    BY <1>4 DEF Exit
  <2>2. running /\ SolverOK(solver)
    BY <2>1, InstrFacts
  <2> QED BY <2>1, <2>2, SolverTypes, CollectEnds
<1> QED BY <1>1, <1>2, <1>3, <1>4 DEF Function

(* run_special_primop.                                                     *)
LEMMA DerefSteps == ASSUME TasksOK, PathOK, reg_deref PROVE PathStep
<1> DEFINE v == frame.regs["R"]
           r == IF v = Uninit THEN symbolic(frame, solver) ELSE Ok(frame, solver, v)
           q == Store(r, "regs", "R")
           loc == Instr.loc
<1>0. At("Call") /\ Deref(r, loc)
  BY DEF reg_deref, Special
<1>1. loc \in Names /\ running /\ running \in BOOLEAN /\ SolverOK(solver)
      /\ frame \in Frames(prog, solver.next_var)
  BY <1>0, InstrFacts DEF IsInstr, Names
<1> HIDE DEF loc
<1>2. Sound(prog, solver, r) /\ r.err = "Ok"
  <2>1. CASE v = Uninit
    BY <1>1, <2>1, symbolicSound
  <2>2. CASE v # Uninit
    <3>1. v \in Known(solver.next_var)
      BY <1>1, <2>2, FrameFields DEF Regs, Value
    <3> HIDE DEF v
    <3>2. Sound(prog, solver, Ok(frame, solver, v)) /\ Ok(frame, solver, v).err = "Ok"
      BY <1>1, <3>1, SolverTypes, OkSound
    <3> QED BY <2>2, <3>2
  <2> QED BY <2>1, <2>2
<1> HIDE DEF v, r
<1>3. Sound(prog, solver, q) /\ q.err = "Ok"
  <2>1. "R" \in Names /\ "regs" \in {"vars", "regs", "lets"}
    BY DEF Names
  <2> QED BY <1>1, <1>2, <2>1, StoreSound
<1>4. /\ q.f = [r.f EXCEPT !["regs"]["R"] = r.v]
      /\ q.s = add_event(r.s, Access("read-reg", "R", r.v)) /\ q.v = r.v
  BY DEF Store, Ok
<1>5. Continue(Advance(AssignAfter(q, loc)))
  BY <1>0, <1>3, <1>4 DEF Deref, AssignAfter
<1> HIDE DEF q
<1>6. Asserts(prog, solver, Advance(AssignAfter(q, loc)))
  BY <1>1, <1>3, AssignAfterSound, AdvanceSound, SoundAsserts
<1> QED BY <1>1, <1>5, <1>6, ContinueSteps

LEMMA AbstractSteps == ASSUME TasksOK, PathOK, abstract_call PROVE PathStep
<1> DEFINE r == eval_exp(frame, solver, Instr.arg)
           loc == Instr.loc
<1>0. At("Call") /\ AbstractCall(r, loc)
  BY DEF abstract_call, Special
<1>1. loc \in Names /\ IsExp(Instr.arg) /\ running /\ running \in BOOLEAN /\ SolverOK(solver)
      /\ frame \in Frames(prog, solver.next_var)
  BY <1>0, InstrFacts DEF IsInstr, Names
<1>2. Sound(prog, solver, r)
  BY <1>1, eval_expSound
<1> HIDE DEF r, loc
<1>3. CASE r.err # "Ok"
  <2>1. Continue(r) /\ Asserts(prog, solver, r)
    BY <1>0, <1>2, <1>3, SoundAsserts DEF AbstractCall
  <2> QED BY <1>1, <2>1, ContinueSteps
<1>4. CASE r.err = "Ok"
  <2> DEFINE q == symbolic(r.f, r.s)
             e == [ev |-> "abstract", fn |-> "abstracted"]
             q2 == [q EXCEPT !.s = add_event(q.s, e)]
             x == Advance(AssignAfter(q2, loc))
  <2>1. Sound(prog, r.s, q) /\ q.err = "Ok" /\ SolverOK(r.s) /\ Reaches(solver, r.s)
    BY <1>2, SoundFacts, symbolicSound
  <2>2. Continue(Advance(AbstractEvent(q, loc)))
    BY <1>0, <1>4 DEF AbstractCall
  <2>3. q = [f |-> q.f, s |-> q.s, v |-> q.v, err |-> q.err]
    BY <2>1 DEF Sound
  <2> HIDE DEF q
  <2>4. q2 = [f |-> q.f, s |-> add_event(q.s, e), v |-> q.v, err |-> "Ok"]
    BY <2>1, <2>3
  <2>5. e \in Notes
    <3>1. "abstracted" \in Names
      BY DEF Names
    <3> QED BY <3>1, CallIsNote
  <2>6. AbstractEvent(q, loc) = assign(q.f, add_event(q.s, e), loc, q.v)
    BY DEF AbstractEvent
  <2> HIDE DEF e
  <2>7. Sound(prog, r.s, q2)
    BY <2>1, <2>5, NoteSound
  <2>8. AssignAfter(q2, loc) = AbstractEvent(q, loc)
    BY <2>4, <2>6 DEF AssignAfter
  <2> HIDE DEF q2
  <2>9. Sound(prog, solver, q2)
    BY <1>1, <2>1, <2>7, SoundTrans
  <2>10. Asserts(prog, solver, x)
    BY <1>1, <2>9, AssignAfterSound, AdvanceSound, SoundAsserts
  <2>11. Continue(x)
    BY <2>2, <2>8
  <2> HIDE DEF x
  <2> QED BY <1>1, <2>10, <2>11, ContinueSteps
<1> QED BY <1>3, <1>4

LEMMA AnnounceSteps == ASSUME TasksOK, PathOK, instr_announce PROVE PathStep
<1> DEFINE r == eval_exp(frame, solver, Instr.arg)
           loc == Instr.loc
<1>0. At("Call") /\ Announce(r, loc)
  BY DEF instr_announce, Special
<1>1. loc \in Names /\ IsExp(Instr.arg) /\ running /\ running \in BOOLEAN /\ SolverOK(solver)
      /\ frame \in Frames(prog, solver.next_var)
  BY <1>0, InstrFacts DEF IsInstr, Names
<1>2. Sound(prog, solver, r)
  BY <1>1, eval_expSound
<1> HIDE DEF r, loc
<1>3. CASE r.err # "Ok"
  <2>1. Continue(r) /\ Asserts(prog, solver, r)
    BY <1>0, <1>2, <1>3, SoundAsserts DEF Announce
  <2> QED BY <1>1, <2>1, ContinueSteps
<1>4. CASE r.err = "Ok"
  <2> DEFINE pc == r.f.regs["PC"]
             s == r.s
             v == r.v
             n == r.f.pc_counts[pc.n] + 1
             g == [r.f EXCEPT !.pc_counts[pc.n] = @ + 1]
             h == [r.f.pc_counts EXCEPT ![pc.n] = n]
             e == [ev |-> "instr", val |-> v]
             t == add_event(s, e)
  <2>1. SolverOK(s) /\ r.f \in Frames(prog, s.next_var) /\ Reaches(solver, s) /\ v \in Known(s.next_var)
    BY <1>2, <1>4, SoundFacts DEF Sound
  <2>2. CASE pc.k # "bits"
    <3>1. Collect(r.f, s, "PcNotConcrete", Unit)
      BY <1>0, <1>4, <2>2 DEF Announce
    <3> QED BY <1>1, <2>1, <3>1, CollectEnds
  <2>3. CASE pc.k = "bits"
    <3>1. AnnounceCounted(g, s, v, loc, n)
      BY <1>0, <1>4, <2>3 DEF Announce
    <3>2. pc.n \in Bits /\ r.f.pc_counts \in Counts
      <4>1. pc \in Value(s.next_var) /\ r.f.pc_counts \in Counts
        BY <2>1, FrameFields DEF Regs
      <4> HIDE DEF pc
      <4> QED BY <2>3, <4>1 DEF Value, Known, Uninit
    <3>3. n \in Nat /\ h \in Counts
      BY <3>2 DEF Counts
    <3>4. g = [r.f EXCEPT !.pc_counts = h]
      OBVIOUS
    <3> HIDE DEF h, n
    <3>5. g \in Frames(prog, s.next_var)
      BY <2>1, <3>3, <3>4, FrameUpdates
    <3> HIDE DEF g
    <3>6. \/ Collect(g, s, "PCLimitReached", Unit) \/ Collect(g, s, "Exit", Unit)
          \/ Continue(Advance(assign(g, t, loc, Unit)))
      <4>1. CASE n > PcLimit
        BY <3>1, <4>1 DEF AnnounceCounted
      <4>2. CASE ~(n > PcLimit) /\ v = Bit(0)
        <5>1. n <= PcLimit
          BY <3>3, <4>2, RunLoopAssumption
        <5> QED BY <3>1, <4>2, <5>1 DEF AnnounceCounted
      <4>3. CASE ~(n > PcLimit) /\ v # Bit(0)
        <5>1. n <= PcLimit
          BY <3>3, <4>3, RunLoopAssumption
        <5> QED BY <3>1, <4>3, <5>1 DEF AnnounceCounted
      <4> QED BY <4>1, <4>2, <4>3
    <3>7. CASE Collect(g, s, "PCLimitReached", Unit) \/ Collect(g, s, "Exit", Unit)
      BY <1>1, <2>1, <3>7, CollectEnds
    <3>8. CASE Continue(Advance(assign(g, t, loc, Unit)))
      <4>1. s.next_var \in Nat /\ v \in Value(s.next_var)
        BY <2>1, SolverTypes DEF Value
      <4>2. v \in Recorded
        BY <4>1, RecordedValues
      <4> HIDE DEF v
      <4>3. e \in Notes
        BY <4>2 DEF Notes, Event
      <4> HIDE DEF e, s
      <4>4. Reaches(s, t) /\ t.next_var = s.next_var
        BY <2>1, <4>3, NoteFacts
      <4> HIDE DEF t
      <4>5. Reaches(solver, t) /\ SolverOK(t) /\ g \in Frames(prog, t.next_var) /\ Unit \in Known(t.next_var)
        BY <1>1, <2>1, <3>5, <4>4, FollowsTrans, UnitKnown DEF Reaches, Follows
      <4> DEFINE q == assign(g, t, loc, Unit)
      <4>6. Sound(prog, t, q)
        BY <1>1, <4>5, assignSound
      <4> HIDE DEF q
      <4>7. Asserts(prog, solver, Advance(q))
        BY <1>1, <4>5, <4>6, SoundTrans, AdvanceSound, SoundAsserts
      <4> QED BY <1>1, <3>8, <4>7, ContinueSteps DEF q
    <3> QED BY <3>6, <3>7, <3>8
  <2> QED BY <2>2, <2>3
<1> QED BY <1>3, <1>4

LEMMA SpecialSteps == ASSUME TasksOK, PathOK, SpecialCall PROVE PathStep
<1>1. CASE NoFunction
  <2>1. At("Call") /\ Collect(frame, solver, "NoFunction", Unit)
    BY <1>1 DEF NoFunction, Special
  <2>2. running /\ Reaches(solver, solver)
    BY <2>1, InstrFacts, SolverTypes
  <2> QED BY <2>1, <2>2, CollectEnds
<1> QED BY <1>1, DerefSteps, AbstractSteps, AnnounceSteps DEF SpecialCall

(* A fork gives one branch to the path and the other to a task.            *)
LEMMA ForkSplits ==
  ASSUME running \in BOOLEAN, running, NEW at, SolverOK(at), Reaches(solver, at),
         NEW s, SolverOK(s), NEW f \in Frames(prog, s.next_var),
         NEW self \in PosFraction, NEW rest \in PosFraction, SumsTo(self, rest, frac),
         NEW child \in Frames(prog, at.next_var),
         NEW event \in Event, event.ev = "fork", event.branch = 1, NEW cond \in Terms,
         Branches(to_vec(s)) = Append(Branches(to_vec(at)), 0), s.models # {},
         s.models \cup (at.models \cap translate_exp(at, cond)) = at.models,
         s.models \cap (at.models \cap translate_exp(at, cond)) = {},
         Fork2(at, f, s, self, child, rest, event, cond)
  PROVE  PathStep
<1> DEFINE t == Suspended(child, at, rest, event, cond)
           m == at.models \cap translate_exp(at, cond)
           it == Stand(at, rest, event, cond)
<1>1. /\ queue' = Append(queue, t) /\ stands' = Append(stands, it) /\ frac' = self
      /\ frame' = f /\ solver' = s /\ running' = running /\ UNCHANGED <<prog, collected>>
  BY DEF Fork2, Suspended, Stand
<1>2. TaskOK(prog, t, it) /\ it.path = Append(Branches(to_vec(at)), 1)
  <2>1. TaskOK(prog, t, it)
    BY ChildOK
  <2>2. it.path = Append(Branches(to_vec(at)), event.branch)
    BY StandPath
  <2> QED BY <2>1, <2>2
<1>3. it.models = m /\ it.frac = rest
  BY DEF Stand, Item
<1>4. at.models = solver.models /\ Branches(to_vec(at)) = Branches(to_vec(solver))
  BY DEF Reaches, Follows
<1> HIDE DEF t, it
<1>5. s.models \cup m = at.models /\ s.models \cap m = {}
  OBVIOUS
<1> HIDE DEF m
<1>6. \E x, i : /\ queue' = Append(queue, x) /\ stands' = Append(stands, i) /\ TaskOK(prog, x, i)
                /\ i.path = Append(Branches(to_vec(solver)), 1)
                /\ solver'.models \cup i.models = solver.models /\ solver'.models \cap i.models = {}
                /\ SumsTo(frac', i.frac, frac)
  BY <1>1, <1>2, <1>3, <1>4, <1>5
<1>7. /\ running /\ running' = TRUE /\ UNCHANGED <<prog, collected>>
      /\ frac' \in PosFraction /\ SolverOK(solver') /\ frame' \in Frames(prog, solver'.next_var)
      /\ Branches(to_vec(solver')) = Append(Branches(to_vec(solver)), 0) /\ solver'.models # {}
  BY <1>1, <1>4
<1> QED BY <1>6, <1>7 DEF PathStep, PathSplits

(* A conditional jump on a Sym.                                            *)
LEMMA JumpSymbolSteps ==
  ASSUME running \in BOOLEAN, running, SolverOK(solver), frac \in PosFraction,
         NEW s, Reaches(solver, s), NEW f \in Frames(prog, s.next_var),
         NEW v \in 0..(s.next_var - 1), NEW target \in Pcs,
         JumpOnSymbol(f, s, v, target, can_be(s, IsTrue(v)), can_be(s, IsFalse(v)))
  PROVE  PathStep
<1>0. SolverOK(s) /\ s.next_var \in Nat /\ v \in Nat
  BY SolverTypes DEF Reaches, Follows
<1>1. IsTrue(v) \in Terms /\ IsFalse(v) \in Terms
  BY <1>0, SymTerms
<1>2. f.pc + 1 \in Pcs /\ f.forks \in Nat
  BY FrameFields DEF Pcs
<1>3. CASE JumpTo(f, s, IsTrue(v), target) \/ JumpTo(f, s, IsFalse(v), f.pc + 1)
  <2>1. PICK x \in Terms, pc \in Pcs : JumpTo(f, s, x, pc)
    BY <1>1, <1>2, <1>3
  <2> DEFINE g == [f EXCEPT !.pc = pc]
             u == add_event(s, AssertDef(x))
  <2>2. GoOn(g, u)
    BY <2>1 DEF JumpTo
  <2>3. Follows(s, u) /\ u.next_var = s.next_var
    BY <1>0, AssertFacts
  <2>4. g \in Frames(prog, u.next_var)
    BY <2>3, FrameUpdates
  <2> HIDE DEF g, u
  <2>5. Follows(solver, u)
    BY <2>3, FollowsTrans DEF Reaches
  <2> QED BY <2>2, <2>4, <2>5, GoOnGoesOn
<1>4. CASE Collect(f, s, "Dead", Unit)
  BY <1>4, CollectEnds
<1>5. CASE can_be(s, IsTrue(v)) /\ ForkOn(f, s, v, target)
  <2> DEFINE u1 == checkpointed(s)
             u2 == add_event(u1, Fork(f.forks, v, 0))
             u3 == add_event(u2, AssertDef(IsTrue(v)))
             g1 == [f EXCEPT !.forks = f.forks + 1]
             g2 == [g1 EXCEPT !.pc = target]
             child == [f EXCEPT !.pc = f.pc + 1]
             event == Fork(f.forks, v, 1)
             self == halve(frac)
  <2>1. Fork2(s, g2, u3, self, child, self, event, IsFalse(v))
    BY <1>5 DEF ForkOn
  <2>2. SolverOK(u1) /\ u1.next_var = s.next_var /\ u1.decls = s.decls /\ u1.models = s.models
        /\ to_vec(u1) = to_vec(s)
    BY <1>0, RestoredOK
  <2> HIDE DEF u1
  <2>3. SolverOK(u2) /\ u2.next_var = s.next_var /\ u2.decls = s.decls /\ u2.models = s.models
        /\ Branches(to_vec(u2)) = Append(Branches(to_vec(s)), 0)
    <3> DEFINE n == f.forks
               b == 0
    <3>1. b \in Bits /\ n \in Nat
      BY <1>2 DEF Bits
    <3> HIDE DEF n, b
    <3>2. LET e == Fork(n, v, b)
              u == add_event(u1, e) IN
          /\ SolverOK(u) /\ u.next_var = u1.next_var /\ u.decls = u1.decls /\ u.models = u1.models
          /\ Branches(to_vec(u)) = Append(Branches(to_vec(u1)), b)
      BY <1>0, <2>2, <3>1, ForkFacts
    <3> QED BY <2>2, <3>2 DEF n, b
  <2> HIDE DEF u2
  <2>4. Follows(u2, u3) /\ u3.next_var = u2.next_var /\ u3.models = u2.models \cap translate_exp(u2, IsTrue(v))
    BY <1>1, <2>3, AssertFacts
  <2>5. translate_exp(u2, IsTrue(v)) = translate_exp(s, IsTrue(v))
    BY <2>3, MeaningOfDecls
  <2> HIDE DEF u3
  <2>6. SolverOK(u3) /\ u3.next_var = s.next_var
        /\ u3.models = s.models \cap translate_exp(s, IsTrue(v))
        /\ Branches(to_vec(u3)) = Append(Branches(to_vec(s)), 0)
    BY <2>3, <2>4, <2>5 DEF Follows
  <2>7. u3.models # {}
    BY <1>5, <2>6 DEF can_be
  <2>8. s.models \in SUBSET Assignments
    BY <1>0, SolverTypes
  <2>9. /\ u3.models \cup (s.models \cap translate_exp(s, IsFalse(v))) = s.models
        /\ u3.models \cap (s.models \cap translate_exp(s, IsFalse(v))) = {}
    <3> DEFINE A == translate_exp(s, IsTrue(v))
               M == s.models
    <3>1. translate_exp(s, IsFalse(v)) = Assignments \ A
      BY SplitMeaning
    <3> HIDE DEF A, M
    <3>2. M \in SUBSET Assignments /\ u3.models = M \cap A
      BY <2>6, <2>8 DEF A, M
    <3>3. u3.models \cup (M \cap (Assignments \ A)) = M /\ u3.models \cap (M \cap (Assignments \ A)) = {}
      BY <3>2
    <3> QED BY <3>1, <3>3 DEF M
  <2>10. g2 \in Frames(prog, u3.next_var)
    <3>1. g1 \in Frames(prog, s.next_var)
      BY <1>2, FrameUpdates
    <3> HIDE DEF g1
    <3> QED BY <2>6, <3>1, FrameUpdates
  <2>11. child \in Frames(prog, s.next_var)
    BY <1>2, FrameUpdates
  <2>12. event \in Event /\ event.ev = "fork" /\ event.branch = 1
    <3> DEFINE n == f.forks
               b == 1
    <3>1. b \in Bits /\ n \in Nat
      BY <1>2 DEF Bits
    <3> HIDE DEF n, b
    <3>2. LET e == Fork(n, v, b) IN e \in Event /\ e.ev = "fork" /\ e.branch = b
      BY <1>0, <3>1, ForkIsEvent
    <3> QED BY <3>2 DEF n, b
  <2>13. self \in PosFraction /\ SumsTo(self, self, frac)
    BY HalvesAddUp
  <2> HIDE DEF g2, child, event, self
  <2> QED BY <1>0, <1>1, <2>1, <2>6, <2>7, <2>9, <2>10, <2>11, <2>12, <2>13, ForkSplits
<1> QED
  <2> DEFINE a == can_be(s, IsTrue(v))
             b == can_be(s, IsFalse(v))
  <2>0. a \in BOOLEAN /\ b \in BOOLEAN
    BY DEF can_be
  <2> HIDE DEF a, b
  <2>1. JumpOnSymbol(f, s, v, target, a, b)
    BY DEF a, b
  <2>2. CASE a /\ b
    BY <1>5, <2>0, <2>1, <2>2 DEF JumpOnSymbol, a
  <2>3. CASE a /\ ~b
    BY <1>3, <2>0, <2>1, <2>3 DEF JumpOnSymbol
  <2>4. CASE ~a /\ b
    BY <1>3, <2>0, <2>1, <2>4 DEF JumpOnSymbol
  <2>5. CASE ~a /\ ~b
    BY <1>4, <2>0, <2>1, <2>5 DEF JumpOnSymbol
  <2> QED BY <2>2, <2>3, <2>4, <2>5

LEMMA JumpSteps == ASSUME TasksOK, PathOK, Jump PROVE PathStep
<1> DEFINE r == eval_exp(frame, solver, Instr.exp)
           target == Instr.target
<1>0. At("Jump") /\ JumpOn(r, target)
  BY DEF Jump
<1>1. target \in Pcs /\ IsExp(Instr.exp) /\ running /\ running \in BOOLEAN /\ SolverOK(solver)
      /\ frame \in Frames(prog, solver.next_var) /\ frac \in PosFraction
  BY <1>0, InstrFacts DEF IsInstr, Pcs, TasksOK
<1>2. Sound(prog, solver, r)
  BY <1>1, eval_expSound
<1> HIDE DEF r, target
<1>3. CASE r.err # "Ok"
  <2>1. Continue(r) /\ Asserts(prog, solver, r)
    BY <1>0, <1>2, <1>3, SoundAsserts DEF JumpOn
  <2> QED BY <1>1, <2>1, ContinueSteps
<1>4. CASE r.err = "Ok"
  <2>1. SolverOK(r.s) /\ r.f \in Frames(prog, r.s.next_var) /\ Reaches(solver, r.s)
        /\ r.v \in Known(r.s.next_var)
    BY <1>2, <1>4, SoundFacts DEF Sound
  <2>2. CASE r.v.k = "bits"
    <3> DEFINE pc == IF r.v.n = 1 THEN target ELSE r.f.pc + 1
               g == [r.f EXCEPT !.pc = pc]
    <3>1. GoOn(g, r.s)
      BY <1>0, <1>4, <2>2 DEF JumpOn
    <3>2. pc \in Pcs
      BY <1>1, <2>1, FrameFields DEF Pcs
    <3> HIDE DEF pc
    <3>3. g \in Frames(prog, r.s.next_var)
      BY <2>1, <3>2, FrameUpdates
    <3> HIDE DEF g
    <3> QED BY <1>1, <2>1, <3>1, <3>3, GoOnGoesOn DEF Reaches
  <2>3. CASE r.v.k \in {"poison", "unit"}
    <3>1. Collect(r.f, r.s, "Type", Unit)
      BY <1>0, <1>4, <2>3 DEF JumpOn
    <3> QED BY <1>1, <2>1, <3>1, CollectEnds
  <2>4. CASE r.v.k = "sym"
    <3>1. r.v.n \in 0..(r.s.next_var - 1)
      BY <2>1, <2>4 DEF Known
    <3>2. JumpOnSymbol(r.f, r.s, r.v.n, target, can_be(r.s, IsTrue(r.v.n)), can_be(r.s, IsFalse(r.v.n)))
      BY <1>0, <1>4, <2>4 DEF JumpOn
    <3> QED BY <1>1, <2>1, <3>1, <3>2, JumpSymbolSteps
  <2> QED BY <2>1, <2>2, <2>3, <2>4, KnownKinds
<1> QED BY <1>3, <1>4

(* Monomorphize: the path takes one value of the Sym.                      *)
LEMMA SplitSteps ==
  ASSUME running \in BOOLEAN, running, SolverOK(solver), frac \in PosFraction,
         NEW at, SolverOK(at), Reaches(solver, at), NEW f \in Frames(prog, at.next_var), f.forks # 0,
         NEW v \in 0..(at.next_var - 1), NEW s, Reaches(at, s), s.decls[v] = at.decls[v],
         NEW id \in Names, SplitOn(at, f, s, id, v)
  PROVE  PathStep
<1>0. SolverOK(s) /\ s.next_var \in Nat /\ at.next_var \in Nat /\ v \in Nat /\ at.next_var <= s.next_var
      /\ f.forks - 1 \in Nat
  BY SolverTypes, FrameFields DEF Reaches, Follows
<1>1. PICK b \in {c \in Bits : can_be(s, Term("eq", Var(v), Lit(c)))} :
        \E done \in {Choose(f, s, id, v, b)} :
          Fork2(at, done.f, done.s, min_split_self(frac, 6), f, min_split_rest(frac, 6),
                Fork(f.forks - 1, v, 1), MonoRest(v, b))
  BY DEF SplitOn
<1>a. b \in Bits /\ can_be(s, Term("eq", Var(v), Lit(b)))
  BY <1>1
<1> DEFINE x == Term("eq", Var(v), Lit(b))
           y == MonoRest(v, b)
           n == f.forks - 1
           w1 == add_event(s, Fork(n, v, 0))
           w2 == add_event(w1, AssertDef(x))
           a == assign(f, w2, id, Bit(b))
           done == Advance(a)
           self == min_split_self(frac, 6)
           rest == min_split_rest(frac, 6)
           event == Fork(n, v, 1)
<1>2. done = Choose(f, s, id, v, b)
  BY DEF Choose
<1>3. Fork2(at, done.f, done.s, self, f, rest, event, y)
  BY <1>1, <1>2
<1>4. self \in PosFraction /\ rest \in PosFraction /\ SumsTo(self, rest, frac)
  <2>1. 6 \in Nat \ {0}
    OBVIOUS
  <2> QED BY <2>1, SplitAddsUp
<1> HIDE DEF self, rest
<1>5. x \in Terms /\ y \in Terms
  BY <1>0, <1>a, SymTerms
<1>6. event \in Event /\ event.ev = "fork" /\ event.branch = 1
  <2> DEFINE c == 1
  <2>1. c \in Bits /\ n \in Nat
    BY <1>0 DEF Bits
  <2> HIDE DEF c, n
  <2>2. Fork(n, v, c) \in Event /\ Fork(n, v, c).ev = "fork" /\ Fork(n, v, c).branch = c
    BY <1>0, <2>1, ForkIsEvent
  <2> QED BY <2>2 DEF c
<1> HIDE DEF event
<1>7. SolverOK(w1) /\ w1.next_var = s.next_var /\ w1.decls = s.decls /\ w1.models = s.models
      /\ Branches(to_vec(w1)) = Append(Branches(to_vec(s)), 0)
  <2> DEFINE c == 0
  <2>1. c \in Bits /\ n \in Nat
    BY <1>0 DEF Bits
  <2> HIDE DEF c, n
  <2>2. LET u == add_event(s, Fork(n, v, c)) IN
        /\ SolverOK(u) /\ u.next_var = s.next_var /\ u.decls = s.decls /\ u.models = s.models
        /\ Branches(to_vec(u)) = Append(Branches(to_vec(s)), c)
    BY <1>0, <2>1, ForkFacts
  <2> QED BY <2>2 DEF c
<1> HIDE DEF w1
<1>8. Follows(w1, w2) /\ w2.next_var = w1.next_var /\ w2.models = w1.models \cap translate_exp(w1, x)
  BY <1>5, <1>7, AssertFacts
<1> HIDE DEF w2
<1>9. SolverOK(w2) /\ w2.next_var = s.next_var /\ f \in Frames(prog, w2.next_var)
      /\ Branches(to_vec(w2)) = Append(Branches(to_vec(at)), 0)
  <2>1. f \in Frames(prog, s.next_var)
    BY <1>0, MoreFrames
  <2>2. Branches(to_vec(s)) = Branches(to_vec(at))
    BY DEF Reaches, Follows
  <2> QED BY <1>7, <1>8, <2>1, <2>2 DEF Follows
<1>10. w2.models = at.models \cap translate_exp(at, x)
  <2>1. translate_exp(w1, x) = translate_exp(s, x)
    BY <1>7, MeaningOfDecls
  <2>2. translate_exp(s, x) = translate_exp(at, x)
    <3>1. atom_meaning(s, Var(v)) = atom_meaning(at, Var(v))
          /\ atom_meaning(s, Lit(b)) = atom_meaning(at, Lit(b))
      BY DEF atom_meaning, Var, Lit
    <3>2. \A z : translate_exp(z, x) = Same(atom_meaning(z, Var(v)), atom_meaning(z, Lit(b)))
      BY DEF translate_exp, Term
    <3> QED BY <3>1, <3>2
  <2>3. s.models = at.models
    BY DEF Reaches
  <2> HIDE DEF x
  <2> QED BY <1>7, <1>8, <2>1, <2>2, <2>3
<1>11. w2.models # {}
  <2>1. translate_exp(w1, x) = translate_exp(s, x)
    BY <1>7, MeaningOfDecls
  <2>2. can_be(s, x)
    BY <1>a
  <2> HIDE DEF x
  <2> QED BY <1>7, <1>8, <2>1, <2>2 DEF can_be
<1>12. Sound(prog, w2, done)
  <2>1. Bit(b) \in Known(w2.next_var)
    BY <1>a DEF Known, Bit
  <2>2. Sound(prog, w2, a)
    BY <1>9, <2>1, assignSound
  <2> HIDE DEF a
  <2> QED BY <2>2, AdvanceSound
<1> HIDE DEF done
<1>13. SolverOK(done.s) /\ done.f \in Frames(prog, done.s.next_var) /\ done.s.models = w2.models
       /\ Branches(to_vec(done.s)) = Append(Branches(to_vec(at)), 0)
  BY <1>9, <1>12, SoundFacts DEF Reaches, Follows
<1>14. /\ done.s.models \cup (at.models \cap translate_exp(at, y)) = at.models
       /\ done.s.models \cap (at.models \cap translate_exp(at, y)) = {}
  <2> DEFINE A == translate_exp(at, x)
             M == at.models
  <2>1. translate_exp(at, y) = Assignments \ A
    BY <1>a, SplitMeaning
  <2>2. M \in SUBSET Assignments /\ done.s.models = M \cap A
    BY <1>10, <1>13, SolverTypes
  <2> HIDE DEF A, M
  <2>3. done.s.models \cup (M \cap (Assignments \ A)) = M /\ done.s.models \cap (M \cap (Assignments \ A)) = {}
    BY <2>2
  <2> QED BY <2>1, <2>3 DEF M
<1>15. done.s.models # {}
  BY <1>11, <1>13
<1> HIDE DEF y
<1> QED BY <1>3, <1>4, <1>5, <1>6, <1>13, <1>14, <1>15, ForkSplits

LEMMA MonomorphizeSteps == ASSUME TasksOK, PathOK, Monomorphize PROVE PathStep
<1> DEFINE r == get_id_and_initialize(frame, solver, Instr.id)
           id == Instr.id
<1>0. At("Monomorphize") /\ MonomorphizeVar(r, id)
  BY DEF Monomorphize
<1>1. id \in Names /\ running /\ running \in BOOLEAN /\ SolverOK(solver)
      /\ frame \in Frames(prog, solver.next_var) /\ frac \in PosFraction
  BY <1>0, InstrFacts DEF IsInstr, Names, TasksOK
<1>2. Sound(prog, solver, r)
  BY <1>1, LoadSound
<1> HIDE DEF r, id
<1>3. CASE ~(r.err = "Ok" /\ r.v.k = "sym")
  <2>1. Continue(Advance(r))
    BY <1>0, <1>3 DEF MonomorphizeVar
  <2>2. Asserts(prog, solver, Advance(r))
    BY <1>2, AdvanceSound, SoundAsserts
  <2> QED BY <1>1, <2>1, <2>2, ContinueSteps
<1>4. CASE r.err = "Ok" /\ r.v.k = "sym"
  <2> DEFINE at == r.s
             v == r.v.n
             s == NameForModel(checkpointed(at), v)
             f == [r.f EXCEPT !.forks = @ + 1]
  <2>1. MonomorphizeSym(at, r.f, s, id, v)
    BY <1>0, <1>4 DEF MonomorphizeVar
  <2>2. SolverOK(at) /\ r.f \in Frames(prog, at.next_var) /\ Reaches(solver, at)
    BY <1>2, SoundFacts
  <2>3. v \in 0..(at.next_var - 1)
    BY <1>2, <1>4 DEF Sound, Known
  <2>4. f \in Frames(prog, at.next_var) /\ f.forks # 0
    <3>1. r.f.forks \in Nat /\ r.f.forks + 1 \in Nat
      BY <2>2, FrameFields
    <3>2. f \in Frames(prog, at.next_var)
      BY <2>2, <3>1, FrameUpdates
    <3>3. f.forks = r.f.forks + 1
      BY <2>2 DEF Frames
    <3> QED BY <3>1, <3>2, <3>3
  <2>5. IF s.models = {} THEN Collect(r.f, s, "Dead", Unit) ELSE SplitOn(at, f, s, id, v)
    BY <2>1 DEF MonomorphizeSym
  <2> HIDE DEF at, v, f
  <2>6. Reaches(at, s) /\ s.decls[v] = at.decls[v]
    BY <2>2, <2>3, NameFacts
  <2> HIDE DEF s
  <2>7. Reaches(solver, s)
    BY <1>1, <2>2, <2>6, FollowsTrans DEF Reaches
  <2>8. CASE s.models = {}
    BY <1>1, <2>5, <2>7, <2>8, CollectEnds
  <2>9. CASE s.models # {}
    BY <1>1, <2>2, <2>3, <2>4, <2>5, <2>6, <2>9, SplitSteps
  <2> QED BY <2>8, <2>9
<1> QED BY <1>3, <1>4

(* The path is given up.                                                   *)
LEMMA UnansweredSteps ==
  ASSUME running, SolverOK(solver), NEW r, Sound(prog, solver, r), NEW mono \in BOOLEAN, Unanswered(r, mono)
  PROVE  PathStep
<1> DEFINE s == NameForModel(checkpointed(r.s), r.v.n)
           x == IF mono THEN s ELSE r.s
<1>1. r.err = "Ok" /\ r.v.k = "sym" /\ Collect(r.f, x, "Z3Unknown", Unit)
  BY DEF Unanswered
<1>2. SolverOK(r.s) /\ Reaches(solver, r.s) /\ r.v.n \in 0..(r.s.next_var - 1)
  BY <1>1, SoundFacts DEF Sound, Known
<1>3. Reaches(r.s, s)
  BY <1>2, NameFacts
<1> HIDE DEF s
<1>4. Reaches(solver, s)
  BY <1>2, <1>3, FollowsTrans DEF Reaches
<1>5. Reaches(solver, x)
  BY <1>2, <1>4
<1> HIDE DEF x
<1> QED BY <1>1, <1>5, CollectEnds

LEMMA GiveUpSteps == ASSUME TasksOK, PathOK, OffEnd \/ TimedOut \/ Z3Unknown PROVE PathStep
<1>1. CASE OffEnd \/ TimedOut
  <2>1. running /\ (Collect(frame, solver, "Finished", Unit) \/ Collect(frame, solver, "Timeout", Unit))
    BY <1>1 DEF OffEnd, TimedOut
  <2>2. Reaches(solver, solver)
    BY <2>1, SolverTypes DEF PathOK
  <2> QED BY <2>1, <2>2, CollectEnds
<1>2. CASE Z3Unknown
  <2>1. \/ (At("Jump") \/ At("Primop")) /\ Unanswered(eval_exp(frame, solver, Instr.exp), FALSE)
        \/ At("Monomorphize") /\ Unanswered(get_id_and_initialize(frame, solver, Instr.id), TRUE)
    BY <1>2 DEF Z3Unknown
  <2>2. CASE (At("Jump") \/ At("Primop")) /\ Unanswered(eval_exp(frame, solver, Instr.exp), FALSE)
    <3> DEFINE r == eval_exp(frame, solver, Instr.exp)
    <3>1. IsExp(Instr.exp) /\ running /\ SolverOK(solver) /\ frame \in Frames(prog, solver.next_var)
      BY <2>2, InstrFacts DEF IsInstr
    <3>2. Sound(prog, solver, r)
      BY <3>1, eval_expSound
    <3> HIDE DEF r
    <3>3. Unanswered(r, FALSE)
      BY <2>2 DEF r
    <3> QED BY <3>1, <3>2, <3>3, UnansweredSteps
  <2>3. CASE At("Monomorphize") /\ Unanswered(get_id_and_initialize(frame, solver, Instr.id), TRUE)
    <3> DEFINE r == get_id_and_initialize(frame, solver, Instr.id)
    <3>1. Instr.id \in Names /\ running /\ SolverOK(solver) /\ frame \in Frames(prog, solver.next_var)
      BY <2>3, InstrFacts DEF IsInstr, Names
    <3>2. Sound(prog, solver, r)
      BY <3>1, LoadSound
    <3> HIDE DEF r
    <3>3. Unanswered(r, TRUE)
      BY <2>3 DEF r
    <3> QED BY <3>1, <3>2, <3>3, UnansweredSteps
  <2> QED BY <2>1, <2>2, <2>3
<1> QED BY <1>1, <1>2

-----------------------------------------------------------------------------
(* The invariant is inductive.                                             *)

(* Sequences, whatever their elements.                                     *)
LEMMA AppendFacts ==
  ASSUME NEW q, IsSeq(q), NEW x
  PROVE  /\ IsSeq(Append(q, x)) /\ Len(q) \in Nat /\ Len(Append(q, x)) = Len(q) + 1
         /\ DOMAIN q = 1..Len(q) /\ DOMAIN Append(q, x) = 1..(Len(q) + 1)
         /\ Append(q, x)[Len(q) + 1] = x /\ \A k \in 1..Len(q) : Append(q, x)[k] = q[k]
<1>1. PICK E : q \in Seq(E)
  BY DEF IsSeq
<1> DEFINE F == E \cup {x}
<1>2. q \in Seq(F) /\ x \in F
  BY <1>1
<1> HIDE DEF F
<1>3. Append(q, x) \in Seq(F)
  BY <1>2
<1>4. IsSeq(Append(q, x))
  BY <1>3 DEF IsSeq
<1> QED BY <1>2, <1>4

LEMMA FrontFacts ==
  ASSUME NEW q, IsSeq(q), q # <<>>
  PROVE  LET r == SubSeq(q, 1, Len(q) - 1) IN
         /\ IsSeq(r) /\ Len(q) \in Nat \ {0} /\ Len(r) = Len(q) - 1
         /\ DOMAIN q = 1..Len(q) /\ DOMAIN r = 1..(Len(q) - 1)
         /\ \A k \in 1..(Len(q) - 1) : r[k] = q[k]
<1> DEFINE r == SubSeq(q, 1, Len(q) - 1)
<1>1. PICK E : q \in Seq(E)
  BY DEF IsSeq
<1>2. r \in Seq(E) /\ Len(r) = Len(q) - 1 /\ Len(q) \in Nat \ {0} /\ \A n \in 1..(Len(q) - 1) : r[n] = q[n]
  BY <1>1, Path!ButLast
<1> HIDE DEF r
<1>3. IsSeq(r)
  BY <1>2 DEF IsSeq
<1>4. DOMAIN q = 1..Len(q) /\ DOMAIN r = 1..(Len(q) - 1)
  BY <1>1, <1>2
<1> QED BY <1>2, <1>3, <1>4 DEF r

LEMMA LenFacts == ASSUME NEW q, IsSeq(q) PROVE Len(q) \in Nat /\ DOMAIN q = 1..Len(q)
BY AppendFacts

(* The branches that a task stands for.                                    *)
LEMMA StandPaths ==
  ASSUME TasksOK, NEW k \in 1..Len(stands)
  PROVE  stands[k].path \in Seq({0, 1})
<1>1. TaskOK(prog, queue[k], stands[k])
  BY DEF TasksOK
<1>2. stands[k].path = Branches(to_vec(resume(queue[k]))) /\ SolverOK(resume(queue[k]))
  BY <1>1 DEF TaskOK, Item
<1> QED BY <1>2, SolverTypes DEF Bits

(* A new checkpoint is one of a new solver.                                *)
LEMMA NewResumes == from_checkpoint(NewCheckpoint) = NewSolver /\ SolverOK(NewSolver)
<1>1. Segments!fold(<<>>, <<>>) = <<>> /\ Replay!fold(NewSolver, <<>>) = NewSolver
  BY Segments!FoldEmpty, Replay!FoldEmpty
<1>2. replay(NewCheckpoint) = [NewSolver EXCEPT !.tail = <<>>]
  BY <1>1 DEF replay, NewCheckpoint
<1>3. [NewSolver EXCEPT !.tail = <<>>] = NewSolver
  BY DEF NewSolver
<1>4. from_checkpoint(NewCheckpoint) = [NewSolver EXCEPT !.next_var = 0]
  BY <1>2, <1>3 DEF from_checkpoint, NewCheckpoint
<1>5. [NewSolver EXCEPT !.next_var = 0] = NewSolver
  BY DEF NewSolver
<1>6. DOMAIN NewSolver.decls = {} /\ NewSolver.next_var = 0
  BY DEF NewSolver
<1>7. 0..(0 - 1) = {}
  OBVIOUS
<1> QED BY <1>4, <1>5, <1>6, <1>7, NewFaithful DEF SolverOK

LEMMA NewFrameOK ==
  ASSUME NEW p \in Programs
  PROVE  NewFrame([R |-> Uninit, PC |-> Bit(0)], [L |-> Uninit]) \in Frames(p, 0)
<1> DEFINE X == {"return", "a"}
           l == [x \in X |-> Uninit]
           g == [R |-> Uninit, PC |-> Bit(0)]
           t == [L |-> Uninit]
           c == [b \in Bits |-> 0]
<1>1. "main" \in DOMAIN p /\ "main" \in Names /\ X \in {Y \in SUBSET Names : "return" \in Y}
  BY RunLoopAssumption DEF IsProgram, Names
<1>2. Uninit \in Value(0) /\ Bit(0) \in Value(0)
  BY DEF Value, Known, Bit, Bits
<1>3. l \in Locals(0)
  <2>1. l \in [X -> Value(0)]
    BY <1>2
  <2> HIDE DEF X, l
  <2> QED BY <1>1, <2>1 DEF Locals
<1>4. g \in Regs(0) /\ t \in Lets(0)
  BY <1>2 DEF Regs, Lets
<1>5. c \in Counts
  BY DEF Counts
<1>6. NewFrame(g, t) = [fn |-> "main", code |-> "main", pc |-> 1, forks |-> 0, vars |-> l, regs |-> g,
                        lets |-> t, stack_vars |-> <<>>, calls |-> <<>>, backtrace |-> <<>>, pc_counts |-> c]
  BY DEF NewFrame
<1> HIDE DEF X, l, g, t, c
<1>7. 1 \in Pcs /\ 0 \in Nat
  BY DEF Pcs
<1>8. NewFrame(g, t) \in Frames(p, 0)
  BY <1>1, <1>3, <1>4, <1>5, <1>6, <1>7 DEF Frames
<1> QED BY <1>8 DEF g, t

LEMMA InitIInv == Init => IInv
<1> SUFFICES ASSUME Init PROVE IInv
  OBVIOUS
<1> DEFINE t == [frame |-> frame, checkpoint |-> NewCheckpoint, frac |-> one, fork_cond |-> <<>>]
           it == Item(<<>>, Assignments, one)
<1>1. /\ prog \in Programs /\ frame = NewFrame([R |-> Uninit, PC |-> Bit(0)], [L |-> Uninit])
      /\ queue = <<t>> /\ stands = <<it>> /\ running = FALSE /\ frac = one /\ collected = <<>>
  BY DEF Init
<1>2. resume(t) = NewSolver
  BY NewResumes DEF resume
<1>3. t.frame = frame /\ t.frac = one
  OBVIOUS
<1>4. NewSolver.next_var = 0 /\ NewSolver.models = Assignments /\ to_vec(NewSolver) = <<>>
  BY NewFaithful DEF NewSolver
<1>5. one \in PosFraction
  BY DEF one, PosFraction
<1>6. frame \in Frames(prog, 0)
  BY <1>1, NewFrameOK
<1> HIDE DEF t, it
<1>7. TaskOK(prog, t, it)
  BY <1>2, <1>3, <1>4, <1>5, <1>6, NewResumes DEF TaskOK, it
<1>8. /\ IsSeq(queue) /\ IsSeq(stands) /\ IsSeq(collected) /\ Len(queue) = 1 /\ Len(stands) = 1
      /\ queue[1] = t /\ stands[1] = it
  <2>1. <<t>> \in Seq({t}) /\ <<it>> \in Seq({it}) /\ <<>> \in Seq({})
    BY EmptySeq
  <2> QED BY <1>1, <2>1 DEF IsSeq
<1>9. TasksOK
  <2>1. \A k \in 1..Len(queue) : TaskOK(prog, queue[k], stands[k])
    <3>1. \A k \in 1..Len(queue) : k = 1
      BY <1>8
    <3> QED BY <1>7, <1>8, <3>1
  <2> QED BY <1>1, <1>5, <1>8, <2>1 DEF TasksOK
<1>10. PathOK /\ PathsApart
  BY <1>1, <1>8 DEF PathOK, PathsApart
<1> QED BY <1>9, <1>10 DEF IInv

\* What a step of run_loop may be, besides a step of the path.
Waits == UNCHANGED <<prog, queue, stands, running, frame, solver, frac, collected>>

LEMMA StepKinds == ASSUME IInv, [Next]_vars PROVE PathStep \/ Pop \/ Waits
<1>1. TasksOK /\ PathOK
  BY DEF IInv
<1>2. CASE UNCHANGED vars \/ TimePasses \/ (Finished /\ UNCHANGED vars)
  BY <1>2 DEF vars, TimePasses, Waits
<1>3. CASE Straight \/ Function \/ SpecialCall \/ Jump \/ Monomorphize \/ OffEnd \/ TimedOut \/ Z3Unknown
  BY <1>1, <1>3, StraightSteps, FunctionSteps, SpecialSteps, JumpSteps, MonomorphizeSteps, GiveUpSteps
<1> QED BY <1>2, <1>3 DEF Next, Step, GiveUp

(* The path goes on, ends or splits.                                       *)
LEMMA GoesOnKeeps == ASSUME IInv, PathGoesOn PROVE IInv'
<1>1. TasksOK /\ PathsApart /\ running /\ running' = TRUE /\ Follows(solver, solver')
      /\ frame' \in Frames(prog, solver'.next_var)
      /\ prog' = prog /\ queue' = queue /\ stands' = stands /\ frac' = frac /\ collected' = collected
  BY DEF IInv, PathGoesOn
<1>2. TasksOK'
  BY <1>1 DEF TasksOK
<1>3. PathOK'
  BY <1>1 DEF PathOK, Follows
<1>4. PathsApart'
  <2>1. Branches(to_vec(solver')) = Branches(to_vec(solver))
    BY <1>1 DEF Follows
  <2> QED BY <1>1, <2>1 DEF PathsApart
<1> QED BY <1>2, <1>3, <1>4 DEF IInv

LEMMA EndsKeeps == ASSUME IInv, PathEnds PROVE IInv'
<1>1. TasksOK /\ PathsApart /\ running' = FALSE
      /\ prog' = prog /\ queue' = queue /\ stands' = stands /\ frac' = frac
  BY DEF IInv, PathEnds
<1>2. PICK x : collected' = Append(collected, x)
  BY DEF PathEnds
<1>3. IsSeq(collected')
  BY <1>1, <1>2, AppendFacts DEF TasksOK
<1>4. TasksOK'
  BY <1>1, <1>3 DEF TasksOK
<1>5. PathOK' /\ PathsApart'
  BY <1>1 DEF PathOK, PathsApart
<1> QED BY <1>4, <1>5 DEF IInv

LEMMA SplitsKeeps == ASSUME IInv, PathSplits PROVE IInv'
<1>1. TasksOK /\ PathOK /\ PathsApart
  BY DEF IInv
<1>2. /\ running /\ running' = TRUE /\ prog' = prog /\ collected' = collected
      /\ frac' \in PosFraction /\ SolverOK(solver') /\ frame' \in Frames(prog, solver'.next_var)
      /\ Branches(to_vec(solver')) = Append(Branches(to_vec(solver)), 0)
  BY DEF PathSplits
<1>3. PICK t, it : /\ queue' = Append(queue, t) /\ stands' = Append(stands, it) /\ TaskOK(prog, t, it)
                   /\ it.path = Append(Branches(to_vec(solver)), 1)
  BY DEF PathSplits
<1> DEFINE n == Len(stands)
           b == Branches(to_vec(solver))
<1>4. /\ IsSeq(queue') /\ IsSeq(stands') /\ n \in Nat /\ Len(queue) = n
      /\ Len(queue') = n + 1 /\ Len(stands') = n + 1
      /\ queue'[n + 1] = t /\ stands'[n + 1] = it
      /\ \A k \in 1..n : queue'[k] = queue[k] /\ stands'[k] = stands[k]
  BY <1>1, <1>3, AppendFacts DEF TasksOK
<1>5. b \in Seq({0, 1}) /\ \A k \in 1..n : stands[k].path \in Seq({0, 1})
  BY <1>1, <1>2, SolverTypes, StandPaths DEF PathOK, Bits
<1>6. \A k \in 1..n : Diverge(b, stands[k].path)
  BY <1>1, <1>2 DEF PathsApart
<1>7. \A j, k \in 1..n : j # k => Diverge(stands[j].path, stands[k].path)
  BY <1>1 DEF PathsApart
<1>8. TasksOK'
  <2>1. \A k \in 1..n : TaskOK(prog, queue[k], stands[k])
    BY <1>1, <1>4 DEF TasksOK
  <2>2. \A k \in 1..(n + 1) : TaskOK(prog, queue'[k], stands'[k])
    <3> SUFFICES ASSUME NEW k \in 1..(n + 1) PROVE TaskOK(prog, queue'[k], stands'[k])
      OBVIOUS
    <3>1. k \in 1..n \/ k = n + 1
      BY <1>4
    <3> QED BY <1>3, <1>4, <2>1, <3>1
  <2>3. prog \in Programs /\ IsSeq(collected)
    BY <1>1 DEF TasksOK
  <2> HIDE DEF n
  <2> QED BY <1>2, <1>4, <2>2, <2>3 DEF TasksOK
<1>9. PathOK'
  BY <1>2 DEF PathOK
<1> HIDE DEF n, b
<1>10. \A k \in 1..n : Diverge(Append(b, 0), stands[k].path) /\ Diverge(Append(b, 1), stands[k].path)
                       /\ Diverge(stands[k].path, Append(b, 1))
  <2> SUFFICES ASSUME NEW k \in 1..n
               PROVE  Diverge(Append(b, 0), stands[k].path) /\ Diverge(Append(b, 1), stands[k].path)
                      /\ Diverge(stands[k].path, Append(b, 1))
    OBVIOUS
  <2> DEFINE p == stands[k].path
             c == Append(b, 1)
  <2>1. p \in Seq({0, 1}) /\ Diverge(b, p) /\ c \in Seq({0, 1})
    BY <1>5, <1>6
  <2> HIDE DEF p
  <2>2. Diverge(Append(b, 0), p) /\ Diverge(c, p)
    BY <1>5, <2>1, DivergeFacts
  <2> HIDE DEF c
  <2>3. Diverge(p, c)
    BY <2>1, <2>2, DivergeFacts
  <2> QED BY <2>2, <2>3 DEF p, c
<1>11. Diverge(Append(b, 0), Append(b, 1))
  BY <1>5, DivergeFacts
<1>12. it.path = Append(b, 1) /\ Branches(to_vec(solver')) = Append(b, 0)
  BY <1>2, <1>3 DEF b
<1>13. PathsApart'
  <2>1. ASSUME NEW j \in 1..(n + 1), NEW k \in 1..(n + 1), j # k
        PROVE  Diverge(stands'[j].path, stands'[k].path)
    <3>1. (j \in 1..n \/ j = n + 1) /\ (k \in 1..n \/ k = n + 1)
      BY <1>4
    <3>2. CASE j \in 1..n /\ k \in 1..n
      BY <1>4, <1>7, <2>1, <3>2
    <3>3. CASE j = n + 1 /\ k \in 1..n
      BY <1>4, <1>10, <1>12, <3>3
    <3>4. CASE j \in 1..n /\ k = n + 1
      BY <1>4, <1>10, <1>12, <3>4
    <3> QED BY <2>1, <3>1, <3>2, <3>3, <3>4
  <2>2. ASSUME NEW k \in 1..(n + 1) PROVE Diverge(Append(b, 0), stands'[k].path)
    <3>1. k \in 1..n \/ k = n + 1
      BY <1>4
    <3> QED BY <1>4, <1>10, <1>11, <1>12, <3>1
  <2> QED BY <1>4, <1>12, <2>1, <2>2 DEF PathsApart
<1> QED BY <1>8, <1>9, <1>13 DEF IInv

(* A task is popped: its replayed solver is the one it stands for.         *)
LEMMA PopFacts ==
  ASSUME IInv, Pop
  PROVE  LET n == Len(stands) IN
         /\ n \in Nat \ {0} /\ running = FALSE /\ running' = TRUE /\ collected' = collected
         /\ stands' = SubSeq(stands, 1, n - 1)
         /\ Item(to_vec(solver'), solver'.models, frac') = stands[n]
         /\ IInv'
<1> DEFINE n == Len(stands)
           t == queue[n]
<1>1. TasksOK /\ PathsApart /\ Len(queue) = n /\ IsSeq(queue) /\ IsSeq(stands) /\ running \in BOOLEAN
  BY DEF IInv, TasksOK
<1>2. /\ ~running /\ queue # <<>> /\ frame' = t.frame /\ solver' = resume(t) /\ frac' = t.frac
      /\ queue' = SubSeq(queue, 1, n - 1) /\ stands' = SubSeq(stands, 1, n - 1)
      /\ running' = TRUE /\ prog' = prog /\ collected' = collected
  BY <1>1 DEF Pop
<1>3. stands # <<>>
  <2>1. PICK E : queue \in Seq(E)
    BY <1>1 DEF IsSeq
  <2>2. n # 0
    BY <1>1, <1>2, <2>1
  <2> QED BY <2>2
<1>4. /\ n \in Nat \ {0} /\ IsSeq(queue') /\ IsSeq(stands')
      /\ Len(queue') = n - 1 /\ Len(stands') = n - 1
      /\ \A k \in 1..(n - 1) : queue'[k] = queue[k] /\ stands'[k] = stands[k]
  BY <1>1, <1>2, <1>3, FrontFacts
<1>5. \A k \in 1..n : TaskOK(prog, queue[k], stands[k])
  BY <1>1 DEF TasksOK
<1>6. TaskOK(prog, t, stands[n])
  BY <1>4, <1>5
<1>7. /\ SolverOK(solver') /\ frame' \in Frames(prog, solver'.next_var) /\ frac' \in PosFraction
      /\ Item(to_vec(solver'), solver'.models, frac') = stands[n]
  BY <1>2, <1>6 DEF TaskOK
<1>8. Branches(to_vec(solver')) = stands[n].path
  <2>1. Item(to_vec(solver'), solver'.models, frac').path = Branches(to_vec(solver'))
    BY DEF Item
  <2> QED BY <1>7, <2>1
<1>9. TasksOK'
  <2>1. prog \in Programs /\ IsSeq(collected)
    BY <1>1 DEF TasksOK
  <2>2. \A k \in 1..(n - 1) : TaskOK(prog, queue'[k], stands'[k])
    BY <1>4, <1>5
  <2> HIDE DEF n, t
  <2> QED BY <1>2, <1>4, <1>7, <2>1, <2>2 DEF TasksOK
<1>10. PathOK'
  BY <1>2, <1>7 DEF PathOK
<1>11. PathsApart'
  <2>1. \A j, k \in 1..n : j # k => Diverge(stands[j].path, stands[k].path)
    BY <1>1 DEF PathsApart
  <2> HIDE DEF n, t
  <2>2. ASSUME NEW j \in 1..(n - 1), NEW k \in 1..(n - 1), j # k
        PROVE  Diverge(stands'[j].path, stands'[k].path)
    BY <1>4, <2>1, <2>2
  <2>3. ASSUME NEW k \in 1..(n - 1) PROVE Diverge(Branches(to_vec(solver')), stands'[k].path)
    <3>1. n \in 1..n /\ k \in 1..n /\ n # k
      BY <1>4
    <3>2. Diverge(stands[n].path, stands[k].path)
      BY <2>1, <3>1
    <3> QED BY <1>4, <1>8, <3>2
  <2> QED BY <1>4, <2>2, <2>3 DEF PathsApart
<1>12. IInv'
  BY <1>9, <1>10, <1>11 DEF IInv
<1>13. running = FALSE
  BY <1>1, <1>2
<1> HIDE DEF t
<1> QED BY <1>2, <1>4, <1>7, <1>12, <1>13

(* A path and its tasks stay with their solvers, and apart.                *)
LEMMA Inductive == ASSUME IInv, [Next]_vars PROVE IInv'
<1>1. CASE Waits
  BY <1>1 DEF Waits, IInv, TasksOK, PathOK, PathsApart
<1> QED BY <1>1, StepKinds, GoesOnKeeps, EndsKeeps, SplitsKeeps, PopFacts DEF PathStep

LEMMA Invariance == Spec => []IInv
<1>1. IInv /\ [Next]_vars => IInv'
  BY Inductive
<1> QED BY <1>1, InitIInv, PTL DEF Spec

-----------------------------------------------------------------------------
(* The theorems.                                                           *)

(* A frame mentions Syms that its solver knows.                            *)
LEMMA FrameSymsKnown ==
  ASSUME NEW p, NEW s, SolverOK(s), NEW f \in Frames(p, s.next_var)
  PROVE  FrameSyms(f) \subseteq DOMAIN s.decls /\ \A v \in DOMAIN s.decls : v < s.next_var
<1> DEFINE m == s.next_var
           V == RangeOf(f.vars) \cup RangeOf(f.regs) \cup RangeOf(f.lets)
                  \cup UNION {RangeOf(f.stack_vars[k]) : k \in DOMAIN f.stack_vars}
<1>1. DOMAIN s.decls = 0..(m - 1) /\ m \in Nat
  BY SolverTypes DEF SolverOK
<1>2. f.vars \in Locals(m) /\ f.regs \in Regs(m) /\ f.lets \in Lets(m) /\ f.stack_vars \in Seq(Locals(m))
  BY FrameFields
<1>3. FrameSyms(f) = ValueSyms(V)
  BY DEF FrameSyms
<1>4. V \subseteq Value(m)
  <2>1. ASSUME NEW l \in Locals(m) PROVE RangeOf(l) \subseteq Value(m)
    BY LocalFacts DEF RangeOf
  <2>2. RangeOf(f.regs) \subseteq Value(m) /\ RangeOf(f.lets) \subseteq Value(m)
    BY <1>2 DEF RangeOf, Regs, Lets
  <2>3. \A k \in DOMAIN f.stack_vars : f.stack_vars[k] \in Locals(m)
    BY <1>2
  <2>4. ASSUME NEW k \in DOMAIN f.stack_vars PROVE RangeOf(f.stack_vars[k]) \subseteq Value(m)
    BY <2>1, <2>3
  <2> QED BY <1>2, <2>1, <2>2, <2>4
<1> HIDE DEF V
<1>5. ValueSyms(V) \subseteq 0..(m - 1)
  <2>1. ASSUME NEW u \in V, u.k = "sym" PROVE u.n \in 0..(m - 1)
    <3>1. u \in Value(m)
      BY <1>4
    <3> QED BY <2>1, <3>1 DEF Value, Known, Uninit
  <2> QED BY <2>1 DEF ValueSyms
<1> QED BY <1>1, <1>3, <1>5

(* No frame of run_loop mentions a Sym that its solver does not know, or   *)
(* one that fresh() will hand out again: neither the frame of the running  *)
(* path nor that of the next task, with the solver replayed for it.        *)
THEOREM SymsCorrect == Spec => []SymsAreDeclared
<1>1. IInv => SymsAreDeclared
  <2> SUFFICES ASSUME IInv PROVE SymsAreDeclared
    OBVIOUS
  <2> DEFINE ok(f, s) == FrameSyms(f) \subseteq DOMAIN s.decls /\ \A v \in DOMAIN s.decls : v < s.next_var
             t == queue[Len(queue)]
  <2>1. running => ok(frame, solver)
    BY FrameSymsKnown DEF IInv, PathOK
  <2>2. ASSUME queue # <<>> PROVE ok(t.frame, resume(t))
    <3>1. Len(queue) \in 1..Len(queue)
      BY <2>2, FrontFacts DEF IInv, TasksOK
    <3>2. TaskOK(prog, t, stands[Len(queue)])
      BY <3>1 DEF IInv, TasksOK
    <3> HIDE DEF t
    <3> QED BY <3>2, FrameSymsKnown DEF TaskOK
  <2> HIDE DEF ok, t
  <2> QED BY <2>1, <2>2 DEF SymsAreDeclared, ok, t
<1> QED BY <1>1, Invariance, PTL

-----------------------------------------------------------------------------
(* run_loop implements PathCover.                                          *)

\* The item of the running path, and those of the tasks.
Now == Item(to_vec(solver), solver.models, frac)
Held == {stands[k] : k \in DOMAIN stands}
Pending == Held \cup (IF running THEN {Now} ELSE {})
Done == {Item(collected[k].trace, collected[k].models, collected[k].frac) : k \in DOMAIN collected}

(* The running path is no task.                                            *)
LEMMA NowNotHeld ==
  ASSUME IInv, running, NEW i, i.path = Branches(to_vec(solver)) PROVE i \notin Held
<1> SUFFICES ASSUME NEW k \in DOMAIN stands, i = stands[k] PROVE FALSE
  BY DEF Held
<1>1. k \in 1..Len(stands)
  BY LenFacts DEF IInv, TasksOK
<1>2. Diverge(i.path, i.path)
  BY <1>1 DEF IInv, PathsApart
<1> QED BY <1>2 DEF Diverge

LEMMA NowFields ==
  Now = [id |-> 0, path |-> Branches(to_vec(solver)), models |-> solver.models, frac |-> frac]
BY DEF Now, Item

LEMMA GoesOnNarrows ==
  ASSUME IInv, PathGoesOn PROVE Cover!Narrow \/ UNCHANGED <<Pending, Done>>
<1>1. running /\ running' = TRUE /\ Held' = Held /\ Done' = Done
      /\ Branches(to_vec(solver')) = Branches(to_vec(solver)) /\ solver'.models \subseteq solver.models
      /\ frac' = frac
  BY DEF PathGoesOn, Follows, Held, Done
<1>2. Pending = Held \cup {Now} /\ Pending' = Held \cup {Now'}
  BY <1>1 DEF Pending
<1>3. CASE Now' = Now
  BY <1>1, <1>2, <1>3
<1>4. CASE Now' # Now
  <2>1. Now' = [id |-> 0, path |-> Branches(to_vec(solver)), models |-> solver'.models, frac |-> frac]
    BY <1>1 DEF Now, Item
  <2>2. Now \notin Held /\ Now' \notin Held
    <3>1. Now.path = Branches(to_vec(solver)) /\ Now'.path = Branches(to_vec(solver))
      BY <2>1, NowFields
    <3> QED BY <1>1, <3>1, NowNotHeld
  <2>3. Now' = [Now EXCEPT !.models = Now'.models] /\ Now'.models \subseteq Now.models
    BY <1>1, <2>1, NowFields
  <2>4. Now \in Pending \ Pending' /\ Now' \in Pending' \ Pending /\ Pending' = (Pending \ {Now}) \cup {Now'}
    BY <1>2, <1>4, <2>2
  <2>5. \E i \in Pending \ Pending' : \E j \in Pending' \ Pending :
          /\ j = [i EXCEPT !.models = j.models] /\ j.models \subseteq i.models
          /\ Pending' = (Pending \ {i}) \cup {j}
    BY <2>3, <2>4
  <2>6. Done' = Done
    BY <1>1
  <2> QED BY <2>5, <2>6 DEF Cover!Narrow, Pending, Done, Held, Now
<1> QED BY <1>3, <1>4

LEMMA EndsHandsIn == ASSUME IInv, PathEnds PROVE Cover!HandIn
<1>1. running /\ running' = FALSE /\ Held' = Held
  BY DEF PathEnds, Held
<1>2. PICK x : collected' = Append(collected, x) /\ Item(x.trace, x.models, x.frac) = Now
  BY DEF PathEnds, Now
<1>3. Now \notin Held
  BY <1>1, NowFields, NowNotHeld
<1>4. Pending = Held \cup {Now} /\ Pending' = Held
  BY <1>1 DEF Pending
<1>5. Done' = Done \cup {Now}
  <2> DEFINE n == Len(collected)
  <2>1. /\ n \in Nat /\ DOMAIN collected = 1..n /\ DOMAIN collected' = 1..(n + 1)
        /\ collected'[n + 1] = x /\ \A k \in 1..n : collected'[k] = collected[k]
    BY <1>2, AppendFacts DEF IInv, TasksOK
  <2> HIDE DEF n
  <2>2. 1..(n + 1) = (1..n) \cup {n + 1}
    BY <2>1
  <2> QED BY <1>2, <2>1, <2>2 DEF Done
<1>6. \E i \in Pending \ Pending' : Pending' = Pending \ {i} /\ Done' = Done \cup {i}
  BY <1>3, <1>4, <1>5
<1> QED BY <1>6 DEF Cover!HandIn, Pending, Done, Held, Now

LEMMA SplitsSplit == ASSUME IInv, PathSplits PROVE Cover!Split
<1> DEFINE b == Branches(to_vec(solver))
<1>1. running /\ running' = TRUE /\ Done' = Done /\ Branches(to_vec(solver')) = Append(b, 0)
      /\ solver'.models # {}
  BY DEF PathSplits, Done
<1>2. PICK t, it :
        /\ stands' = Append(stands, it) /\ TaskOK(prog, t, it) /\ it.path = Append(b, 1)
        /\ solver'.models \cup it.models = solver.models /\ solver'.models \cap it.models = {}
        /\ SumsTo(frac', it.frac, frac)
  BY DEF PathSplits
<1>3. Held' = Held \cup {it}
  <2> DEFINE n == Len(stands)
  <2>1. /\ n \in Nat /\ DOMAIN stands = 1..n /\ DOMAIN stands' = 1..(n + 1)
        /\ stands'[n + 1] = it /\ \A k \in 1..n : stands'[k] = stands[k]
    BY <1>2, AppendFacts DEF IInv, TasksOK
  <2> HIDE DEF n
  <2>2. 1..(n + 1) = (1..n) \cup {n + 1}
    BY <2>1
  <2> QED BY <2>1, <2>2 DEF Held
<1>4. Pending = Held \cup {Now} /\ Pending' = Held \cup {it, Now'}
  BY <1>1, <1>3 DEF Pending
<1>5. b \in Seq({0, 1})
  BY <1>1, SolverTypes DEF IInv, PathOK, Bits
<1>6. /\ Now.path = b /\ Now.id = 0 /\ Now.models = solver.models /\ Now.frac = frac
      /\ Now'.path = Append(b, 0) /\ Now'.id = 0 /\ Now'.models = solver'.models /\ Now'.frac = frac'
      /\ it.id = 0
  BY <1>1, <1>2 DEF Now, Item, TaskOK
<1>7. IInv' /\ running'
  BY <1>1, SplitsKeeps
<1>8. /\ b # Append(b, 0) /\ b # Append(b, 1) /\ Append(b, 0) # Append(b, 1)
      /\ ~Diverge(b, Append(b, 0)) /\ ~Diverge(b, Append(b, 1))
  <2>1. Diverge(Append(b, 0), Append(b, 1))
    BY <1>5, DivergeFacts
  <2> QED BY <1>5, <2>1, DivergeFacts DEF Diverge
<1> HIDE DEF b
<1>9. Now \notin Held /\ Now' \notin Held /\ it \notin Held
  <2>1. ASSUME NEW k \in DOMAIN stands PROVE Diverge(b, stands[k].path)
    BY <1>1, LenFacts DEF IInv, TasksOK, PathsApart, b
  <2>2. \A k \in DOMAIN stands : stands[k] # Now' /\ stands[k] # it
    BY <1>2, <1>6, <1>8, <2>1
  <2>3. Now \notin Held
    BY <1>1, <1>6, NowNotHeld DEF b
  <2> QED BY <2>2, <2>3 DEF Held
<1>10. Now # Now' /\ Now # it /\ Now' # it
  BY <1>2, <1>6, <1>8
<1>11. /\ Now \in Pending \ Pending' /\ Now' \in Pending' \ Pending /\ it \in Pending' \ Pending
       /\ Pending' = (Pending \ {Now}) \cup {Now', it}
  BY <1>4, <1>9, <1>10
<1>12. Cover!SumsTo(Now'.frac, it.frac, Now.frac)
  BY <1>2, <1>6 DEF SumsTo, add_assign, Cover!SumsTo, Cover!add_assign
<1>13. \E i \in Pending \ Pending' : \E j, k \in Pending' \ Pending :
         /\ j.id = i.id /\ k.id = i.id
         /\ j.path = Append(i.path, 0) /\ k.path = Append(i.path, 1)
         /\ j.models \cup k.models = i.models /\ j.models \cap k.models = {}
         /\ j.models # {}
         /\ Cover!SumsTo(j.frac, k.frac, i.frac)
         /\ Pending' = (Pending \ {i}) \cup {j, k}
  <2>1. /\ Now'.id = Now.id /\ it.id = Now.id
        /\ Now'.path = Append(Now.path, 0) /\ it.path = Append(Now.path, 1)
        /\ Now'.models \cup it.models = Now.models /\ Now'.models \cap it.models = {}
        /\ Now'.models # {}
    BY <1>1, <1>2, <1>6
  <2> QED BY <1>11, <1>12, <2>1
<1> QED BY <1>1, <1>13 DEF Cover!Split, Cover!SumsTo, Cover!add_assign, Pending, Done, Held, Now

LEMMA PopStutters == ASSUME IInv, Pop PROVE UNCHANGED <<Pending, Done>>
<1> DEFINE n == Len(stands)
<1>1. /\ n \in Nat \ {0} /\ running = FALSE /\ running' = TRUE /\ collected' = collected
      /\ stands' = SubSeq(stands, 1, n - 1) /\ Now' = stands[n]
  BY PopFacts DEF Now
<1>2. IsSeq(stands) /\ stands # <<>>
  BY <1>1 DEF IInv, TasksOK
<1>3. DOMAIN stands = 1..n /\ DOMAIN stands' = 1..(n - 1) /\ \A k \in 1..(n - 1) : stands'[k] = stands[k]
  BY <1>1, <1>2, FrontFacts
<1> HIDE DEF n
<1>4. 1..n = (1..(n - 1)) \cup {n}
  BY <1>1
<1>5. Held = Held' \cup {stands[n]}
  BY <1>3, <1>4 DEF Held
<1>6. Pending = Held /\ Pending' = Held' \cup {Now'}
  BY <1>1 DEF Pending
<1>7. Pending' = Pending
  BY <1>1, <1>5, <1>6
<1> QED BY <1>1, <1>7 DEF Done

(* Symbolic execution of one program implements PathCover: however its     *)
(* instructions fork, split on a value, assume or fail, and however tasks  *)
(* are queued, replayed and given up, every input of the program is on     *)
(* just one path, the paths' Fractions add up, and each path is handed in  *)
(* once.                                                                   *)
THEOREM RunLoopCoversPaths == Spec => CoversPaths
<1>1. Init => Cover!Init
  <2> SUFFICES ASSUME Init PROVE Cover!Init
    OBVIOUS
  <2> DEFINE it == Item(<<>>, Assignments, one)
  <2>1. stands = <<it>> /\ running = FALSE /\ collected = <<>>
    BY DEF Init
  <2> HIDE DEF it
  <2>2. Held = {it}
    BY <2>1 DEF Held
  <2>3. Pending = {it} /\ Done = {}
    BY <2>1, <2>2 DEF Pending, Done
  <2> QED BY <2>3 DEF Cover!Init, Pending, Done, Held, Now, it
<1>2. IInv /\ [Next]_vars => [Cover!Next]_<<Pending, Done>>
  <2> SUFFICES ASSUME IInv, [Next]_vars PROVE [Cover!Next]_<<Pending, Done>>
    OBVIOUS
  <2>1. CASE Waits
    BY <2>1 DEF Waits, Pending, Done, Held, Now
  <2>2. CASE PathGoesOn
    BY <2>2, GoesOnNarrows DEF Cover!Next
  <2>3. CASE PathEnds
    BY <2>3, EndsHandsIn DEF Cover!Next
  <2>4. CASE PathSplits
    BY <2>4, SplitsSplit DEF Cover!Next
  <2>5. CASE Pop
    BY <2>5, PopStutters
  <2> QED BY <2>1, <2>2, <2>3, <2>4, <2>5, StepKinds DEF PathStep
<1>3. Spec => Cover!Spec
  BY <1>1, <1>2, Invariance, PTL DEF Spec, Cover!Spec, Pending, Done, Held, Now
<1> QED BY <1>3 DEF CoversPaths

-----------------------------------------------------------------------------
(* A path, for one of its inputs.                                          *)

\* Bindings, and a frame with its solver, for the input w.
ValuesAt(s, b, w) == [x \in DOMAIN b |-> ValueAt(s, b[x], w)]

StackAt(calls, stack, s, w) ==
  [n \in 1..Len(calls) |-> [code |-> calls[n].code, pc |-> calls[n].pc,
                            vars |-> ValuesAt(s, stack[n], w), loc |-> calls[n].loc]]

Concrete(f, s, w) ==
  [code |-> f.code, pc |-> f.pc, vars |-> ValuesAt(s, f.vars, w), regs |-> ValuesAt(s, f.regs, w),
   lets |-> ValuesAt(s, f.lets, w), stack |-> StackAt(f.calls, f.stack_vars, s, w),
   k |-> s.consts, counts |-> f.pc_counts, run |-> "go", v |-> Unit]

\* The stacks of a frame belong together.
Shaped(f) ==
  /\ f.fn = f.code /\ Len(f.stack_vars) = Len(f.calls) /\ Len(f.backtrace) = Len(f.calls)
  /\ \A n \in 1..Len(f.calls) : f.backtrace[n].fn = f.calls[n].code

(* A value that the solver knows is the same for a later solver.           *)
LEMMA ValueKept ==
  ASSUME NEW s, SolverOK(s), NEW t, Keeps(s, t), NEW v \in Value(s.next_var), NEW w
  PROVE  ValueAt(t, v, w) = ValueAt(s, v, w)
<1>1. CASE v.k = "sym"
  <2>1. v.n \in DOMAIN s.decls
    BY <1>1 DEF Value, Known, Uninit, SolverOK
  <2>2. t.decls[v.n] = s.decls[v.n]
    BY <2>1 DEF Keeps
  <2> QED BY <1>1, <2>2 DEF ValueAt
<1>2. CASE v.k # "sym"
  BY <1>2 DEF ValueAt
<1> QED BY <1>1, <1>2

LEMMA ValuesKept ==
  ASSUME NEW s, SolverOK(s), NEW t, Keeps(s, t), NEW b, \A x \in DOMAIN b : b[x] \in Value(s.next_var), NEW w
  PROVE  ValuesAt(t, b, w) = ValuesAt(s, b, w)
<1>1. \A x \in DOMAIN b : ValueAt(t, b[x], w) = ValueAt(s, b[x], w)
  BY ValueKept
<1> QED BY <1>1 DEF ValuesAt

\* So many bits of the input are used.
WithK(c, x) == [c EXCEPT !.k = x]

(* So is a frame, but for the bits of the input that are used.             *)
LEMMA ConcreteKept ==
  ASSUME NEW p, NEW s, SolverOK(s), NEW t, Keeps(s, t), NEW f \in Frames(p, s.next_var), Shaped(f), NEW w
  PROVE  /\ Concrete(f, t, w) = WithK(Concrete(f, s, w), t.consts)
         /\ t.consts = s.consts => Concrete(f, t, w) = Concrete(f, s, w)
<1> DEFINE m == s.next_var
<1>1. f.vars \in Locals(m) /\ f.regs \in Regs(m) /\ f.lets \in Lets(m) /\ f.stack_vars \in Seq(Locals(m))
  BY FrameFields
<1>2. ASSUME NEW l \in Locals(m) PROVE ValuesAt(t, l, w) = ValuesAt(s, l, w)
  <2>1. \A x \in DOMAIN l : l[x] \in Value(m)
    BY LocalFacts
  <2> QED BY <2>1, ValuesKept
<1>3. ValuesAt(t, f.regs, w) = ValuesAt(s, f.regs, w) /\ ValuesAt(t, f.lets, w) = ValuesAt(s, f.lets, w)
  <2>1. (\A x \in DOMAIN f.regs : f.regs[x] \in Value(m)) /\ \A x \in DOMAIN f.lets : f.lets[x] \in Value(m)
    BY <1>1 DEF Regs, Lets
  <2> QED BY <2>1, ValuesKept
<1>4. StackAt(f.calls, f.stack_vars, t, w) = StackAt(f.calls, f.stack_vars, s, w)
  <2>1. \A n \in 1..Len(f.calls) : ValuesAt(t, f.stack_vars[n], w) = ValuesAt(s, f.stack_vars[n], w)
    BY <1>1, <1>2 DEF Shaped
  <2> QED BY <2>1 DEF StackAt
<1>5. ValuesAt(t, f.vars, w) = ValuesAt(s, f.vars, w)
  BY <1>1, <1>2
<1> QED BY <1>3, <1>4, <1>5 DEF Concrete, WithK

(* Keeping is transitive.                                                  *)
LEMMA KeepsTrans ==
  ASSUME NEW s, SolverOK(s), NEW t, SolverOK(t), NEW u, SolverOK(u), Keeps(s, t), Keeps(t, u)
  PROVE  Keeps(s, u)
<1>1. s.next_var \in Nat /\ t.next_var \in Nat /\ u.next_var \in Nat
  BY SolverTypes
<1>2. DOMAIN s.decls = 0..(s.next_var - 1) /\ DOMAIN t.decls = 0..(t.next_var - 1)
  BY DEF SolverOK
<1>3. s.next_var <= t.next_var /\ t.next_var <= u.next_var
      /\ (\A v \in DOMAIN s.decls : t.decls[v] = s.decls[v]) /\ \A v \in DOMAIN t.decls : u.decls[v] = t.decls[v]
  BY DEF Keeps
<1>4. DOMAIN s.decls \subseteq DOMAIN t.decls
  BY <1>1, <1>2, <1>3
<1> QED BY <1>1, <1>3, <1>4 DEF Keeps

-----------------------------------------------------------------------------
(* A frame changes as its configuration does.                              *)

(* A binding changes.                                                      *)
LEMMA ValuesUpdate ==
  ASSUME NEW s, NEW b, NEW x, NEW v, NEW w
  PROVE  /\ ValuesAt(s, [b EXCEPT ![x] = v], w) = [ValuesAt(s, b, w) EXCEPT ![x] = ValueAt(s, v, w)]
         /\ ValuesAt(s, Bind(b, x, v), w) = Bind(ValuesAt(s, b, w), x, ValueAt(s, v, w))
         /\ DOMAIN ValuesAt(s, b, w) = DOMAIN b
         /\ x \in DOMAIN b => ValuesAt(s, b, w)[x] = ValueAt(s, b[x], w)
BY DEF ValuesAt, Bind

\* One field of a frame or of a configuration changes.
WithVars(c, x) == [c EXCEPT !.vars = x]
WithRegs(c, x) == [c EXCEPT !.regs = x]
WithLets(c, x) == [c EXCEPT !.lets = x]
WithPc(c, x) == [c EXCEPT !.pc = x]
WithForks(c, x) == [c EXCEPT !.forks = x]

(* A configuration changes as its frame does.                              *)
LEMMA ConcreteUpdates ==
  ASSUME NEW p, NEW m, NEW f \in Frames(p, m), NEW s, NEW w, NEW x
  PROVE  /\ Concrete(WithVars(f, x), s, w) = WithVars(Concrete(f, s, w), ValuesAt(s, x, w))
         /\ Concrete(WithRegs(f, x), s, w) = WithRegs(Concrete(f, s, w), ValuesAt(s, x, w))
         /\ Concrete(WithLets(f, x), s, w) = WithLets(Concrete(f, s, w), ValuesAt(s, x, w))
         /\ Concrete(WithPc(f, x), s, w) = WithPc(Concrete(f, s, w), x)
         /\ Concrete(WithForks(f, x), s, w) = Concrete(f, s, w)
<1>1. Concrete(WithVars(f, x), s, w) = WithVars(Concrete(f, s, w), ValuesAt(s, x, w))
  <2> DEFINE g == WithVars(f, x)
  <2>1. g.vars = x /\ g.code = f.code /\ g.pc = f.pc /\ g.regs = f.regs /\ g.lets = f.lets /\ g.calls = f.calls /\ g.stack_vars = f.stack_vars /\ g.pc_counts = f.pc_counts
    BY DEF Frames, WithVars
  <2> HIDE DEF g
  <2>2. Concrete(g, s, w) = WithVars(Concrete(f, s, w), ValuesAt(s, x, w))
    BY <2>1 DEF Concrete, WithVars
  <2> QED BY <2>2 DEF g
<1>2. Concrete(WithRegs(f, x), s, w) = WithRegs(Concrete(f, s, w), ValuesAt(s, x, w))
  <2> DEFINE g == WithRegs(f, x)
  <2>1. g.regs = x /\ g.code = f.code /\ g.pc = f.pc /\ g.vars = f.vars /\ g.lets = f.lets /\ g.calls = f.calls /\ g.stack_vars = f.stack_vars /\ g.pc_counts = f.pc_counts
    BY DEF Frames, WithRegs
  <2> HIDE DEF g
  <2>2. Concrete(g, s, w) = WithRegs(Concrete(f, s, w), ValuesAt(s, x, w))
    BY <2>1 DEF Concrete, WithRegs
  <2> QED BY <2>2 DEF g
<1>3. Concrete(WithLets(f, x), s, w) = WithLets(Concrete(f, s, w), ValuesAt(s, x, w))
  <2> DEFINE g == WithLets(f, x)
  <2>1. g.lets = x /\ g.code = f.code /\ g.pc = f.pc /\ g.vars = f.vars /\ g.regs = f.regs /\ g.calls = f.calls /\ g.stack_vars = f.stack_vars /\ g.pc_counts = f.pc_counts
    BY DEF Frames, WithLets
  <2> HIDE DEF g
  <2>2. Concrete(g, s, w) = WithLets(Concrete(f, s, w), ValuesAt(s, x, w))
    BY <2>1 DEF Concrete, WithLets
  <2> QED BY <2>2 DEF g
<1>4. Concrete(WithPc(f, x), s, w) = WithPc(Concrete(f, s, w), x)
  <2> DEFINE g == WithPc(f, x)
  <2>1. g.pc = x /\ g.code = f.code /\ g.vars = f.vars /\ g.regs = f.regs /\ g.lets = f.lets /\ g.calls = f.calls /\ g.stack_vars = f.stack_vars /\ g.pc_counts = f.pc_counts
    BY DEF Frames, WithPc
  <2> HIDE DEF g
  <2>2. Concrete(g, s, w) = WithPc(Concrete(f, s, w), x)
    BY <2>1 DEF Concrete, WithPc
  <2> QED BY <2>2 DEF g
<1>5. Concrete(WithForks(f, x), s, w) = Concrete(f, s, w)
  <2> DEFINE g == WithForks(f, x)
  <2>1. g.code = f.code /\ g.pc = f.pc /\ g.vars = f.vars /\ g.regs = f.regs /\ g.lets = f.lets /\ g.calls = f.calls /\ g.stack_vars = f.stack_vars /\ g.pc_counts = f.pc_counts
    BY DEF Frames, WithForks
  <2> HIDE DEF g
  <2>2. Concrete(g, s, w) = Concrete(f, s, w)
    BY <2>1 DEF Concrete
  <2> QED BY <2>2 DEF g
<1> QED BY <1>1, <1>2, <1>3, <1>4, <1>5

LEMMA ShapedUpdates ==
  ASSUME NEW p, NEW m, NEW f \in Frames(p, m), Shaped(f), NEW x
  PROVE  /\ Shaped(WithVars(f, x)) /\ Shaped(WithRegs(f, x)) /\ Shaped(WithLets(f, x))
         /\ Shaped(WithPc(f, x)) /\ Shaped(WithForks(f, x))
BY DEF Shaped, Frames, WithVars, WithRegs, WithLets, WithPc, WithForks

\* A place gets a value.
Put(c, place, id, v) == [c EXCEPT ![place][id] = v]

Places == {"vars", "regs", "lets"}

(* A variable, a register or a global gets a value.                        *)
LEMMA PutFacts ==
  ASSUME NEW p, NEW m, NEW f \in Frames(p, m), Shaped(f), NEW place \in Places, NEW id, NEW v, NEW s, NEW w
  PROVE  LET g == Put(f, place, id, v)
             c == Concrete(f, s, w) IN
         /\ Shaped(g) /\ Concrete(g, s, w) = Put(c, place, id, ValueAt(s, v, w))
         /\ c[place] = ValuesAt(s, f[place], w)
<1> DEFINE g == Put(f, place, id, v)
           c == Concrete(f, s, w)
           l == [f[place] EXCEPT ![id] = v]
<1>0. ValuesAt(s, l, w) = [ValuesAt(s, f[place], w) EXCEPT ![id] = ValueAt(s, v, w)]
  BY ValuesUpdate
<1>1. CASE place = "vars"
  <2>1. g = WithVars(f, l)
    BY <1>1 DEF WithVars, Put
  <2>2. c[place] = ValuesAt(s, f[place], w)
    BY <1>1 DEF Concrete
  <2>3. c = [code |-> c.code, pc |-> c.pc, vars |-> c.vars, regs |-> c.regs, lets |-> c.lets,
             stack |-> c.stack, k |-> c.k, counts |-> c.counts, run |-> c.run, v |-> c.v]
    BY DEF Concrete
  <2> HIDE DEF l, g
  <2>4. Shaped(g) /\ Concrete(g, s, w) = WithVars(c, ValuesAt(s, l, w))
    BY <2>1, ConcreteUpdates, ShapedUpdates
  <2> HIDE DEF c
  <2>5. WithVars(c, ValuesAt(s, l, w)) = Put(c, place, id, ValueAt(s, v, w))
    BY <1>0, <1>1, <2>2, <2>3 DEF WithVars, Put
  <2> QED BY <2>2, <2>4, <2>5 DEF g, c
<1>2. CASE place = "regs"
  <2>1. g = WithRegs(f, l)
    BY <1>2 DEF WithRegs, Put
  <2>2. c[place] = ValuesAt(s, f[place], w)
    BY <1>2 DEF Concrete
  <2>3. c = [code |-> c.code, pc |-> c.pc, vars |-> c.vars, regs |-> c.regs, lets |-> c.lets,
             stack |-> c.stack, k |-> c.k, counts |-> c.counts, run |-> c.run, v |-> c.v]
    BY DEF Concrete
  <2> HIDE DEF l, g
  <2>4. Shaped(g) /\ Concrete(g, s, w) = WithRegs(c, ValuesAt(s, l, w))
    BY <2>1, ConcreteUpdates, ShapedUpdates
  <2> HIDE DEF c
  <2>5. WithRegs(c, ValuesAt(s, l, w)) = Put(c, place, id, ValueAt(s, v, w))
    BY <1>0, <1>2, <2>2, <2>3 DEF WithRegs, Put
  <2> QED BY <2>2, <2>4, <2>5 DEF g, c
<1>3. CASE place = "lets"
  <2>1. g = WithLets(f, l)
    BY <1>3 DEF WithLets, Put
  <2>2. c[place] = ValuesAt(s, f[place], w)
    BY <1>3 DEF Concrete
  <2>3. c = [code |-> c.code, pc |-> c.pc, vars |-> c.vars, regs |-> c.regs, lets |-> c.lets,
             stack |-> c.stack, k |-> c.k, counts |-> c.counts, run |-> c.run, v |-> c.v]
    BY DEF Concrete
  <2> HIDE DEF l, g
  <2>4. Shaped(g) /\ Concrete(g, s, w) = WithLets(c, ValuesAt(s, l, w))
    BY <2>1, ConcreteUpdates, ShapedUpdates
  <2> HIDE DEF c
  <2>5. WithLets(c, ValuesAt(s, l, w)) = Put(c, place, id, ValueAt(s, v, w))
    BY <1>0, <1>3, <2>2, <2>3 DEF WithLets, Put
  <2> QED BY <2>2, <2>4, <2>5 DEF g, c
<1> QED BY <1>1, <1>2, <1>3 DEF Places

-----------------------------------------------------------------------------
(* The solver: what a new Sym means, and the bits of the input.            *)

LEMMA EventConsts ==
  ASSUME NEW s \in Solvers, NEW e, Allowed(s, e)
  PROVE  /\ add_event(s, e).consts = add_event_internal(s, e).consts
         /\ add_event(s, e).decls = add_event_internal(s, e).decls
         /\ e.ev = "declare" /\ e.of = Free => add_event(s, e).consts = s.consts + 1
         /\ ~(e.ev = "declare" /\ e.of = Free) => add_event(s, e).consts = s.consts
<1> DEFINE t == add_event_internal(s, e)
<1>1. t \in Solvers
  BY StepFacts
<1>2. /\ e.ev = "declare" /\ e.of = Free => t.consts = s.consts + 1
      /\ ~(e.ev = "declare" /\ e.of = Free) => t.consts = s.consts
  <2>1. ASSUME NEW v, NEW m PROVE Declare(s, v, m).consts = s.consts
    BY DeclareFacts
  <2>2. CASE e.ev = "declare" /\ e.of = Free
    <3> DEFINE d == Declare(s, e.v, next_bit(s))
    <3>1. t = [d EXCEPT !.consts = @ + 1]
      BY <2>2 DEF add_event_internal
    <3>2. d = [next_var |-> s.next_var, decls |-> d.decls, consts |-> s.consts, models |-> s.models,
               tail |-> s.tail, head |-> s.head]
      BY DeclareFacts
    <3> HIDE DEF t, d
    <3>3. t.consts = s.consts + 1
      BY <3>1, <3>2
    <3> QED BY <2>2, <3>3
  <2>3. CASE e.ev = "declare" /\ e.of # Free
    BY <2>1, <2>3 DEF add_event_internal
  <2>4. CASE e.ev = "define"
    BY <2>1, <2>4 DEF add_event_internal
  <2>5. CASE e.ev = "assert"
    <3>1. t = [s EXCEPT !.models = s.models \cap translate_exp(s, e.exp)]
      BY <2>5 DEF add_event_internal
    <3> HIDE DEF t
    <3>2. t.consts = s.consts
      BY <3>1 DEF Solvers
    <3> QED BY <2>5, <3>2
  <2>6. CASE e.ev \notin {"declare", "define", "assert"}
    BY <2>6 DEF add_event_internal
  <2> QED BY <2>2, <2>3, <2>4, <2>5, <2>6
<1>3. add_event(s, e) = [t EXCEPT !.head = Append(t.head, e)]
  BY DEF add_event
<1> HIDE DEF t
<1>4. [t EXCEPT !.head = Append(t.head, e)].consts = t.consts
      /\ [t EXCEPT !.head = Append(t.head, e)].decls = t.decls
  BY <1>1 DEF Solvers
<1> QED BY <1>2, <1>3, <1>4 DEF t

\* A solver with no more input bits.
Leaves(s, t) == SolverOK(t) /\ Keeps(s, t) /\ t.consts = s.consts

LEMMA LeavesTrans ==
  ASSUME NEW s, SolverOK(s), NEW t, NEW u, Leaves(s, t), Leaves(t, u)
  PROVE  Leaves(s, u)
BY KeepsTrans DEF Leaves

LEMMA LeavesSelf == ASSUME NEW s, SolverOK(s) PROVE Leaves(s, s)
BY SolverTypes DEF Leaves, Keeps

(* An assertion, and an event that Z3 does not see.                        *)
LEMMA EventLeaves ==
  ASSUME NEW s, SolverOK(s), NEW e \in Event, e.ev \notin {"declare", "define"}
  PROVE  Leaves(s, add_event(s, e)) /\ add_event(s, e).decls = s.decls
<1>1. s \in Solvers /\ Allowed(s, e)
  BY DEF SolverOK, Faithful, Allowed
<1>2. add_event(s, e).consts = s.consts
  BY <1>1, EventConsts
<1>3. SolverOK(add_event(s, e)) /\ Keeps(s, add_event(s, e)) /\ add_event(s, e).decls = s.decls
  BY NoNewSym
<1> QED BY <1>2, <1>3 DEF Leaves

LEMMA NoteLeaves == ASSUME NEW s, SolverOK(s), NEW e \in Notes PROVE Leaves(s, add_event(s, e))
BY EventLeaves DEF Notes

LEMMA AssertLeaves ==
  ASSUME NEW s, SolverOK(s), NEW x \in Terms PROVE Leaves(s, add_event(s, AssertDef(x)))
<1> DEFINE e == AssertDef(x)
<1>1. e \in Event /\ e.ev = "assert"
  BY DEF Event, AssertDef
<1> HIDE DEF e
<1>2. Leaves(s, add_event(s, e))
  BY <1>1, EventLeaves
<1> QED BY <1>2 DEF e

LEMMA TraceLeaves ==
  ASSUME NEW s, SolverOK(s), NEW fn \in Names, NEW ev \in {"call", "return"}
  PROVE  Leaves(s, TraceEvent(s, ev, fn))
<1>1. [ev |-> ev, fn |-> fn] \in Notes
  BY CallIsNote
<1>2. Leaves(s, add_event(s, [ev |-> ev, fn |-> fn])) /\ Leaves(s, s)
  BY <1>1, NoteLeaves, LeavesSelf
<1> QED BY <1>2 DEF TraceEvent

(* fresh() and the declaration or definition of the Sym.                   *)
LEMMA NewSymConsts ==
  ASSUME NEW s, SolverOK(s), NEW e \in Event, e.ev \in {"declare", "define"}, e.v = s.next_var,
         Allowed([s EXCEPT !.next_var = @ + 1], e)
  PROVE  LET u == add_event([s EXCEPT !.next_var = @ + 1], e) IN
         /\ SolverOK(u) /\ Keeps(s, u) /\ u.models = s.models /\ u.next_var = s.next_var + 1
         /\ e.ev = "declare" /\ e.of = Free => u.consts = s.consts + 1 /\ u.decls[s.next_var] = next_bit(s)
         /\ ~(e.ev = "declare" /\ e.of = Free) => u.consts = s.consts
         /\ e.ev = "define" => u.decls[s.next_var] = translate_exp(s, e.exp)
<1> DEFINE r == [s EXCEPT !.next_var = @ + 1]
           u == add_event(r, e)
<1>1. SolverOK(u) /\ Keeps(s, u) /\ u.models = s.models /\ u.next_var = s.next_var + 1
      /\ (e.ev = "declare" => u.decls[e.v] = IF e.of = Free THEN next_bit(r) ELSE s.decls[e.of])
  BY NewSym
<1>2. s \in Solvers
  BY DEF SolverOK, Faithful
<1>3. r \in Solvers /\ r.decls = s.decls /\ r.consts = s.consts
  BY <1>2 DEF Solvers
<1>4. Allowed(r, e)
  OBVIOUS
<1> HIDE DEF r
<1>5. /\ e.ev = "declare" /\ e.of = Free => u.consts = r.consts + 1
      /\ ~(e.ev = "declare" /\ e.of = Free) => u.consts = r.consts
      /\ u.decls = add_event_internal(r, e).decls
  BY <1>3, <1>4, EventConsts
<1>6. e.ev = "define" => u.decls[s.next_var] = translate_exp(s, e.exp)
  <2>1. e.ev = "define" => add_event_internal(r, e).decls = With(r.decls, e.v, translate_exp(r, e.exp))
    BY <1>3, <1>4, StepFacts
  <2>2. translate_exp(r, e.exp) = translate_exp(s, e.exp)
    BY <1>3, MeaningOfDecls
  <2>3. ASSUME NEW m PROVE With(r.decls, e.v, m)[s.next_var] = m
    BY DEF With
  <2> QED BY <1>5, <2>1, <2>2, <2>3
<1>7. next_bit(r) = next_bit(s)
  BY <1>3 DEF next_bit
<1> HIDE DEF u
<1> QED BY <1>1, <1>3, <1>5, <1>6, <1>7 DEF u, r

(* The same configuration, then.                                           *)
LEMMA LeavesConcrete ==
  ASSUME NEW p, NEW s, SolverOK(s), NEW t, Leaves(s, t), NEW f \in Frames(p, s.next_var), Shaped(f), NEW w
  PROVE  Concrete(f, t, w) = Concrete(f, s, w)
BY ConcreteKept DEF Leaves

-----------------------------------------------------------------------------
(* Evaluating, on a path and for an input.                                 *)

\* The configuration that a part of a step leaves for the input w, and the value.
Outcome(r, w) ==
  IF r.err = "Ok" THEN Concrete(r.f, r.s, w) ELSE Ends(Concrete(r.f, r.s, w), r.err, Unit)

Mirrors(e, r, w) == e = Got(Outcome(r, w), IF r.err = "Ok" THEN ValueAt(r.s, r.v, w) ELSE Unit)

\* The values of the path keep their meaning.
Grows(s, r) == Keeps(s, r.s) /\ Shaped(r.f) /\ r.err # "go"

(* A configuration is its fields.                                          *)
LEMMA ConcreteFields ==
  ASSUME NEW f, NEW s, NEW w
  PROVE  LET c == Concrete(f, s, w) IN
         /\ c = [code |-> c.code, pc |-> c.pc, vars |-> c.vars, regs |-> c.regs, lets |-> c.lets,
                 stack |-> c.stack, k |-> c.k, counts |-> c.counts, run |-> c.run, v |-> c.v]
         /\ c.run = "go" /\ c.code = f.code /\ c.pc = f.pc /\ c.k = s.consts /\ c.counts = f.pc_counts
         /\ c.v = Unit /\ c.vars = ValuesAt(s, f.vars, w) /\ c.regs = ValuesAt(s, f.regs, w)
         /\ c.lets = ValuesAt(s, f.lets, w) /\ c.stack = StackAt(f.calls, f.stack_vars, s, w)
BY DEF Concrete

(* An error is the end of a run.                                           *)
LEMMA OutcomeFields ==
  ASSUME NEW r, NEW w
  PROVE  LET c == Concrete(r.f, r.s, w) IN
         /\ r.err = "Ok" => Outcome(r, w) = c /\ Outcome(r, w).run = "go"
         /\ r.err # "Ok" => Outcome(r, w).run = r.err /\ Outcome(r, w).v = Unit /\ Outcome(r, w).regs = c.regs
<1> DEFINE c == Concrete(r.f, r.s, w)
<1>1. c = [code |-> c.code, pc |-> c.pc, vars |-> c.vars, regs |-> c.regs, lets |-> c.lets,
           stack |-> c.stack, k |-> c.k, counts |-> c.counts, run |-> c.run, v |-> c.v] /\ c.run = "go"
  BY ConcreteFields
<1>2. Outcome(r, w) = IF r.err = "Ok" THEN c ELSE Ends(c, r.err, Unit)
  BY DEF Outcome
<1> HIDE DEF c
<1>3. Ends(c, r.err, Unit).run = r.err /\ Ends(c, r.err, Unit).v = Unit /\ Ends(c, r.err, Unit).regs = c.regs
  BY <1>1 DEF Ends
<1> QED BY <1>1, <1>2, <1>3 DEF c

(* A value that nobody has given is a bit of the input.                    *)
LEMMA DeclareMirrors ==
  ASSUME NEW s, SolverOK(s), NEW w \in Assignments
  PROVE  LET u == declare_const(s) IN
         /\ SolverOK(u) /\ Keeps(s, u) /\ u.consts = s.consts + 1 /\ u.models = s.models
         /\ \A c : c.k = s.consts => ValueAt(u, Symbolic(s.next_var), w) = Input(c, w)
<1> DEFINE e == DeclareConst(s.next_var)
           u == declare_const(s)
           v == Symbolic(s.next_var)
<1>1. e \in Event /\ e.ev = "declare" /\ e.v = s.next_var /\ e.of = Free
  BY SolverTypes DEF Event, DeclareConst
<1>2. u = add_event([s EXCEPT !.next_var = @ + 1], e)
  BY DEF declare_const
<1> HIDE DEF e
<1>3. Allowed([s EXCEPT !.next_var = @ + 1], e)
  BY <1>1 DEF Allowed
<1>4. SolverOK(u) /\ Keeps(s, u) /\ u.models = s.models /\ u.consts = s.consts + 1
      /\ u.decls[s.next_var] = next_bit(s)
  BY <1>1, <1>2, <1>3, NewSymConsts
<1> HIDE DEF u
<1>5. ASSUME NEW c, c.k = s.consts PROVE ValueAt(u, v, w) = Input(c, w)
  <2> DEFINE one_bit == s.consts < MaxConsts /\ (w \div 2^s.consts) % 2 = 1
  <2>1. w \in next_bit(s) <=> one_bit
    BY DEF next_bit
  <2>2. Input(c, w) = Bit(IF one_bit THEN 1 ELSE 0)
    BY <1>5 DEF Input
  <2> HIDE DEF one_bit
  <2>3. ValueAt(u, v, w) = Bit(IF w \in next_bit(s) THEN 1 ELSE 0)
    BY <1>4 DEF ValueAt, Symbolic
  <2> QED BY <2>1, <2>2, <2>3
<1> QED BY <1>4, <1>5 DEF u, v

LEMMA OkMirrors ==
  ASSUME NEW f, NEW s, NEW v, NEW w
  PROVE  /\ Mirrors(Got(Concrete(f, s, w), ValueAt(s, v, w)), Ok(f, s, v), w)
         /\ \A e : e # "Ok" => Mirrors(Got(Ends(Concrete(f, s, w), e, Unit), Unit), Fail(f, s, e), w)
         /\ \A t : Keeps(t, s) /\ Shaped(f) =>
              Grows(t, Ok(f, s, v)) /\ \A e : e # "go" => Grows(t, Fail(f, s, e))
BY DEF Mirrors, Outcome, Ok, Fail, Grows

LEMMA symbolicMirrors ==
  ASSUME NEW p, NEW s, SolverOK(s), NEW f \in Frames(p, s.next_var), Shaped(f), NEW w \in Assignments
  PROVE  Mirrors(Fresh(Concrete(f, s, w), w), symbolic(f, s), w) /\ Grows(s, symbolic(f, s))
<1> DEFINE u == declare_const(s)
           c == Concrete(f, s, w)
           v == Symbolic(s.next_var)
<1>1. symbolic(f, s) = Ok(f, u, v)
  BY DEF symbolic
<1>2. c.k = s.consts
  BY ConcreteFields
<1>3. SolverOK(u) /\ Keeps(s, u) /\ u.consts = s.consts + 1 /\ ValueAt(u, v, w) = Input(c, w)
  BY <1>2, DeclareMirrors
<1> HIDE DEF u, v
<1>4. Concrete(f, u, w) = WithK(c, u.consts)
  BY ONLY <1>3, SolverOK(s), f \in Frames(p, s.next_var), Shaped(f), ConcreteKept DEF c
<1>5. Fresh(c, w) = Got(Concrete(f, u, w), ValueAt(u, v, w))
  BY <1>2, <1>3, <1>4 DEF Fresh, WithK
<1> QED BY <1>1, <1>3, <1>5, OkMirrors DEF c

(* A value has no meaning exactly if it is not initialized.                *)
LEMMA UninitAt ==
  ASSUME NEW m, NEW v \in Value(m), NEW s, NEW w
  PROVE  /\ ValueAt(s, v, w) = Uninit <=> v = Uninit
         /\ v \in Known(m) => ValueAt(s, v, w).k = IF v.k = "sym" THEN "bits" ELSE v.k
BY DEF Value, Known, Uninit, ValueAt, Bit

LEMMA UnitAt == ASSUME NEW s, NEW w PROVE ValueAt(s, Unit, w) = Unit /\ ValueAt(s, Poison, w) = Poison
BY DEF ValueAt, Unit, Poison

(* The value that was read is stored where it was found.                   *)
LEMMA StoreMirrors ==
  ASSUME NEW p, NEW s, SolverOK(s), NEW r, Sound(p, s, r), r.err = "Ok", Grows(s, r),
         NEW place \in Places, NEW id \in Names, NEW w
  PROVE  LET q == Store(r, place, id) IN
         /\ Grows(s, q) /\ q.err = "Ok" /\ q.v = r.v /\ Leaves(r.s, q.s)
         /\ Concrete(q.f, q.s, w) = Put(Concrete(r.f, r.s, w), place, id, ValueAt(r.s, r.v, w))
         /\ ValueAt(q.s, q.v, w) = ValueAt(r.s, r.v, w)
<1> DEFINE f == r.f
           t == r.s
           v == r.v
           g == Put(f, place, id, v)
           e == Access("read-reg", id, v)
           u == IF place = "regs" THEN add_event(t, e) ELSE t
           q == Store(r, place, id)
<1>1. SolverOK(t) /\ f \in Frames(p, t.next_var) /\ v \in Known(t.next_var) /\ t.next_var \in Nat
      /\ Shaped(f) /\ Keeps(s, t)
  BY SoundFacts, SolverTypes DEF Sound, Grows
<1>2. q = Ok(g, u, v)
  BY DEF Store, Put
<1>3. v \in Value(t.next_var)
  BY <1>1 DEF Value
<1>4. Sound(p, s, q)
  BY StoreSound DEF Places
<1> HIDE DEF f, t, v, q
<1>5. Leaves(t, u)
  <2>1. e \in Notes
    BY <1>1, <1>3, AccessIsNote
  <2> HIDE DEF e
  <2> QED BY <1>1, <2>1, NoteLeaves, LeavesSelf
<1> HIDE DEF u
<1>6. q.f = g /\ q.s = u /\ q.v = v /\ q.err = "Ok"
  BY <1>2 DEF Ok
<1>7. Shaped(g) /\ Concrete(g, t, w) = Put(Concrete(f, t, w), place, id, ValueAt(t, v, w))
  BY <1>1, PutFacts
<1> HIDE DEF g
<1>8. Concrete(g, u, w) = Concrete(g, t, w)
  <2>1. g \in Frames(p, u.next_var) /\ u.next_var = t.next_var
    <3>1. g \in Frames(p, u.next_var)
      BY <1>4, <1>6, SoundFacts
    <3>2. u.next_var = t.next_var
      <4>1. add_event(t, e).next_var = t.next_var
        <5>1. e \in Notes
          BY <1>1, <1>3, AccessIsNote
        <5> HIDE DEF e
        <5> QED BY <1>1, <5>1, NoteFacts
      <4> HIDE DEF e
      <4> QED BY <4>1 DEF u
    <3> QED BY <3>1, <3>2
  <2> QED BY <1>1, <1>5, <1>7, <2>1, LeavesConcrete
<1>9. ValueAt(u, v, w) = ValueAt(t, v, w)
  BY <1>1, <1>3, <1>5, ValueKept DEF Leaves
<1>10. Keeps(s, u)
  BY <1>1, <1>5, KeepsTrans DEF Leaves
<1> QED BY <1>5, <1>6, <1>7, <1>8, <1>9, <1>10 DEF Grows, f, t, v, q

(* A place is read.                                                        *)
LEMMA ReadFromMirrors ==
  ASSUME NEW p, NEW s, SolverOK(s), NEW f \in Frames(p, s.next_var), Shaped(f), NEW place \in Places,
         NEW id \in Names, id \in DOMAIN f[place], f[place][id] \in Value(s.next_var), NEW w \in Assignments
  PROVE  LET r == IF f[place][id] = Uninit THEN symbolic(f, s) ELSE Ok(f, s, f[place][id]) IN
         /\ Mirrors(ReadFrom(Concrete(f, s, w), w, place, id), Store(r, place, id), w)
         /\ Grows(s, Store(r, place, id))
<1> DEFINE v == f[place][id]
           c == Concrete(f, s, w)
           r == IF v = Uninit THEN symbolic(f, s) ELSE Ok(f, s, v)
           q == Store(r, place, id)
<1>0. c[place] = ValuesAt(s, f[place], w)
  BY PutFacts
<1>1. c[place][id] = ValueAt(s, v, w)
  BY <1>0 DEF ValuesAt
<1>2. c[place][id] = Uninit <=> v = Uninit
  <2> HIDE DEF v, c
  <2>1. v \in Value(s.next_var)
    BY DEF v
  <2> QED BY <1>1, <2>1, UninitAt
<1>3. c = [code |-> c.code, pc |-> c.pc, vars |-> c.vars, regs |-> c.regs, lets |-> c.lets,
           stack |-> c.stack, k |-> c.k, counts |-> c.counts, run |-> c.run, v |-> c.v]
  BY ConcreteFields
<1>4. ASSUME NEW x, Sound(p, s, x), x.err = "Ok", Grows(s, x),
             Mirrors(Got(Concrete(x.f, x.s, w), ValueAt(x.s, x.v, w)), x, w),
             ReadFrom(c, w, place, id) =
               Got(Put(Concrete(x.f, x.s, w), place, id, ValueAt(x.s, x.v, w)), ValueAt(x.s, x.v, w))
      PROVE  Mirrors(ReadFrom(c, w, place, id), Store(x, place, id), w) /\ Grows(s, Store(x, place, id))
  <2> DEFINE y == Store(x, place, id)
  <2>1. /\ Grows(s, y) /\ y.err = "Ok" /\ Concrete(y.f, y.s, w) = Put(Concrete(x.f, x.s, w), place, id, ValueAt(x.s, x.v, w))
        /\ ValueAt(y.s, y.v, w) = ValueAt(x.s, x.v, w)
    BY <1>4, StoreMirrors
  <2> HIDE DEF y, c
  <2> QED BY <1>4, <2>1 DEF Mirrors, Outcome, y
<1>5. CASE v = Uninit
  <2> DEFINE x == symbolic(f, s)
  <2>1. Sound(p, s, x) /\ x.err = "Ok" /\ x.f = f /\ x.s = declare_const(s) /\ Grows(s, x)
        /\ Mirrors(Fresh(c, w), x, w)
    BY symbolicSound, symbolicMirrors
  <2> HIDE DEF x
  <2>2. Fresh(c, w) = Got(Concrete(x.f, x.s, w), ValueAt(x.s, x.v, w))
    BY <2>1 DEF Mirrors, Outcome
  <2>3. Fresh(c, w) = Got(WithK(c, c.k + 1), Input(c, w))
    BY DEF Fresh, WithK
  <2> HIDE DEF c
  <2>4. Concrete(x.f, x.s, w) = WithK(c, c.k + 1) /\ ValueAt(x.s, x.v, w) = Input(c, w)
    BY <2>2, <2>3 DEF Got
  <2>5. ReadFrom(c, w, place, id) = Got(Put(WithK(c, c.k + 1), place, id, Input(c, w)), Input(c, w))
    <3>1. ReadFrom(c, w, place, id) = Got([c EXCEPT !.k = @ + 1, ![place][id] = Input(c, w)], Input(c, w))
      BY <1>2, <1>5 DEF ReadFrom
    <3>2. place # "k"
      BY DEF Places
    <3>3. [c EXCEPT !.k = @ + 1, ![place][id] = Input(c, w)] = Put(WithK(c, c.k + 1), place, id, Input(c, w))
      BY <1>3, <3>2 DEF Put, WithK
    <3> QED BY <3>1, <3>3
  <2>6. r = x
    BY <1>5 DEF r, x
  <2> HIDE DEF r
  <2>7. Mirrors(ReadFrom(c, w, place, id), Store(x, place, id), w) /\ Grows(s, Store(x, place, id))
    BY <1>4, <2>1, <2>2, <2>4, <2>5
  <2> QED BY <2>6, <2>7 DEF c, r, v
<1>6. CASE v # Uninit
  <2> DEFINE x == Ok(f, s, v)
  <2>0. v \in Known(s.next_var)
    BY <1>6 DEF Value
  <2> HIDE DEF v
  <2>1. Sound(p, s, x) /\ x.err = "Ok" /\ x.f = f /\ x.s = s /\ x.v = v
    BY <2>0, SolverTypes, OkSound DEF Ok
  <2>2. Grows(s, x) /\ Mirrors(Got(c, ValueAt(s, v, w)), x, w)
    BY LeavesSelf, OkMirrors DEF Leaves
  <2> HIDE DEF x, c
  <2>3. ReadFrom(c, w, place, id) = Got(c, c[place][id])
    BY <1>2, <1>6 DEF ReadFrom
  <2>4. Put(c, place, id, c[place][id]) = c
    <3> DEFINE l == c[place]
    <3>1. [l EXCEPT ![id] = l[id]] = l
      BY <1>0 DEF ValuesAt
    <3> QED BY <1>3, <3>1 DEF Put, Places
  <2>5. r = x
    BY <1>6 DEF r, x
  <2> HIDE DEF r
  <2>6. Mirrors(ReadFrom(c, w, place, id), Store(x, place, id), w) /\ Grows(s, Store(x, place, id))
    BY <1>1, <1>4, <2>1, <2>2, <2>3, <2>4 DEF c
  <2> QED BY <2>5, <2>6 DEF c, r, v
<1> QED BY <1>5, <1>6

(* Where a variable is found.                                              *)
LEMMA PlaceFacts ==
  ASSUME NEW p, NEW m, NEW f \in Frames(p, m), NEW s, NEW id, NEW w
  PROVE  LET place == ReadPlace(f, id)
             c == Concrete(f, s, w) IN
         /\ place = "none" => Read(c, w, id) = Got(Ends(c, "VariableNotFound", Unit), Unit)
         /\ place # "none" =>
              /\ place \in Places /\ id \in DOMAIN f[place] /\ f[place][id] \in Value(m)
              /\ Read(c, w, id) = ReadFrom(c, w, place, id)
<1> DEFINE c == Concrete(f, s, w)
           place == ReadPlace(f, id)
<1>1. DOMAIN c.vars = DOMAIN f.vars /\ DOMAIN c.regs = DOMAIN f.regs /\ DOMAIN c.lets = DOMAIN f.lets
  <2>1. c.vars = ValuesAt(s, f.vars, w) /\ c.regs = ValuesAt(s, f.regs, w) /\ c.lets = ValuesAt(s, f.lets, w)
    BY ConcreteFields
  <2> QED BY <2>1 DEF ValuesAt
<1> HIDE DEF c
<1>2. f.vars \in Locals(m) /\ f.regs \in Regs(m) /\ f.lets \in Lets(m)
  BY FrameFields
<1>3. CASE id \in DOMAIN f.vars
  <2>1. f.vars[id] \in Value(m)
    BY <1>2, <1>3, LocalFacts
  <2>2. place = "vars" /\ Read(c, w, id) = ReadFrom(c, w, "vars", id)
    BY <1>1, <1>3 DEF ReadPlace, Read
  <2> QED BY <1>3, <2>1, <2>2 DEF Places, c
<1>4. CASE id \in DOMAIN f.regs \ DOMAIN f.vars
  <2>1. f.regs[id] \in Value(m)
    BY <1>2, <1>4 DEF Regs
  <2>2. place = "regs" /\ Read(c, w, id) = ReadFrom(c, w, "regs", id)
    BY <1>1, <1>4 DEF ReadPlace, Read
  <2> QED BY <1>4, <2>1, <2>2 DEF Places, c
<1>5. CASE id \in DOMAIN f.lets \ (DOMAIN f.vars \cup DOMAIN f.regs)
  <2>1. f.lets[id] \in Value(m)
    BY <1>2, <1>5 DEF Lets
  <2>2. place = "lets" /\ Read(c, w, id) = ReadFrom(c, w, "lets", id)
    BY <1>1, <1>5 DEF ReadPlace, Read
  <2> QED BY <1>5, <2>1, <2>2 DEF Places, c
<1>6. CASE id \notin DOMAIN f.vars \cup DOMAIN f.regs \cup DOMAIN f.lets
  <2>1. place = "none" /\ Read(c, w, id) = Got(Ends(c, "VariableNotFound", Unit), Unit)
    BY <1>1, <1>6 DEF ReadPlace, Read
  <2> QED BY <2>1 DEF c
<1> QED BY <1>3, <1>4, <1>5, <1>6

LEMMA LoadMirrors ==
  ASSUME NEW p, NEW s, SolverOK(s), NEW f \in Frames(p, s.next_var), Shaped(f), NEW id \in Names,
         NEW w \in Assignments
  PROVE  LET q == get_id_and_initialize(f, s, id) IN
         Mirrors(Read(Concrete(f, s, w), w, id), q, w) /\ Grows(s, q)
<1> DEFINE place == ReadPlace(f, id)
           c == Concrete(f, s, w)
           q == get_id_and_initialize(f, s, id)
           r == IF f[place][id] = Uninit THEN symbolic(f, s) ELSE Ok(f, s, f[place][id])
<1>1. q = IF place = "none" THEN Fail(f, s, "VariableNotFound") ELSE Store(r, place, id)
  BY DEF get_id_and_initialize, Load
<1>2. CASE place = "none"
  <2>1. Read(c, w, id) = Got(Ends(c, "VariableNotFound", Unit), Unit)
    <3>1. place = "none" => Read(c, w, id) = Got(Ends(c, "VariableNotFound", Unit), Unit)
      BY ONLY f \in Frames(p, s.next_var), PlaceFacts DEF place, c
    <3> QED BY <1>2, <3>1
  <2>2. Mirrors(Got(Ends(c, "VariableNotFound", Unit), Unit), Fail(f, s, "VariableNotFound"), w)
        /\ Grows(s, Fail(f, s, "VariableNotFound"))
    BY LeavesSelf, OkMirrors DEF Leaves
  <2> HIDE DEF q, place
  <2> QED BY <1>1, <1>2, <2>1, <2>2 DEF q
<1>3. CASE place # "none"
  <2>1. place \in Places /\ id \in DOMAIN f[place] /\ f[place][id] \in Value(s.next_var)
        /\ Read(c, w, id) = ReadFrom(c, w, place, id)
    BY ONLY <1>3, f \in Frames(p, s.next_var), PlaceFacts
  <2> HIDE DEF place
  <2>2. Mirrors(ReadFrom(c, w, place, id), Store(r, place, id), w) /\ Grows(s, Store(r, place, id))
    BY <2>1, ReadFromMirrors
  <2> HIDE DEF q, r
  <2> QED BY <1>1, <1>3, <2>1, <2>2 DEF q
<1> QED BY <1>2, <1>3

LEMMA eval_atomMirrors ==
  ASSUME NEW p, NEW s, SolverOK(s), NEW f \in Frames(p, s.next_var), Shaped(f), NEW e, IsAtom(e),
         NEW w \in Assignments
  PROVE  Mirrors(Atom(Concrete(f, s, w), w, e), eval_atom(f, s, e), w) /\ Grows(s, eval_atom(f, s, e))
<1> DEFINE c == Concrete(f, s, w)
<1>1. CASE e.e = "id"
  <2>1. e.id \in Names
    BY <1>1 DEF IsAtom, Names
  <2>2. Mirrors(Read(c, w, e.id), get_id_and_initialize(f, s, e.id), w)
        /\ Grows(s, get_id_and_initialize(f, s, e.id))
    BY <2>1, LoadMirrors
  <2>3. Atom(c, w, e) = Read(c, w, e.id) /\ eval_atom(f, s, e) = get_id_and_initialize(f, s, e.id)
    BY <1>1 DEF Atom, eval_atom
  <2> QED BY <2>2, <2>3
<1>2. CASE e.e = "val"
  <2>1. ValueAt(s, e.v, w) = e.v
    BY <1>2 DEF IsAtom, ValueAt, Bit, Poison, Unit
  <2>2. Mirrors(Got(c, ValueAt(s, e.v, w)), Ok(f, s, e.v), w) /\ Grows(s, Ok(f, s, e.v))
    BY LeavesSelf, OkMirrors DEF Leaves
  <2>3. Atom(c, w, e) = Got(c, e.v) /\ eval_atom(f, s, e) = Ok(f, s, e.v)
    BY <1>2 DEF Atom, eval_atom
  <2> QED BY <2>1, <2>2, <2>3
<1>3. CASE e.e = "undefined"
  <2>1. Atom(c, w, e) = Fresh(c, w) /\ eval_atom(f, s, e) = symbolic(f, s)
    BY <1>3 DEF Atom, eval_atom
  <2> QED BY <2>1, symbolicMirrors
<1> QED BY <1>1, <1>2, <1>3 DEF IsAtom

(* The meaning of the smtlib::Exp of a value.                              *)
LEMMA AtomMeaning ==
  ASSUME NEW s, NEW m \in Nat, NEW v \in Known(m), v.k \in {"bits", "sym"}, NEW w \in Assignments
  PROVE  ValueAt(s, v, w) = Bit(IF w \in atom_meaning(s, ToExp(v)) THEN 1 ELSE 0)
<1>1. CASE v.k = "bits"
  <2>1. v.n \in Bits /\ v = [k |-> "bits", n |-> v.n]
    BY <1>1 DEF Known
  <2>2. ValueAt(s, v, w) = v
    BY <1>1 DEF ValueAt
  <2>3. atom_meaning(s, ToExp(v)) = IF v.n = 1 THEN Assignments ELSE {}
    BY <1>1 DEF ToExp, Lit, atom_meaning
  <2> QED BY <2>1, <2>2, <2>3 DEF Bit, Bits
<1>2. CASE v.k = "sym"
  BY <1>2 DEF ValueAt, ToExp, Var, atom_meaning
<1> QED BY <1>1, <1>2

LEMMA primopMirrors ==
  ASSUME NEW p, NEW s, SolverOK(s), NEW f \in Frames(p, s.next_var), Shaped(f), NEW op \in {"eq", "neq"},
         NEW v1 \in Known(s.next_var), NEW v2 \in Known(s.next_var), NEW w \in Assignments
  PROVE  LET q == primop(f, s, op, v1, v2)
             y == Got(Concrete(f, s, w), ValueAt(s, v2, w)) IN
         Mirrors(Operate(op, ValueAt(s, v1, w), y), q, w) /\ Grows(s, q)
<1> DEFINE q == primop(f, s, op, v1, v2)
           c == Concrete(f, s, w)
           x1 == ValueAt(s, v1, w)
           x2 == ValueAt(s, v2, w)
<1>0. v1.k \in {"bits", "sym", "poison", "unit"} /\ v2.k \in {"bits", "sym", "poison", "unit"}
      /\ s.next_var \in Nat /\ Keeps(s, s)
  BY KnownKinds, SolverTypes, LeavesSelf DEF Leaves
<1>1. x1.k = (IF v1.k = "sym" THEN "bits" ELSE v1.k) /\ x2.k = (IF v2.k = "sym" THEN "bits" ELSE v2.k)
  BY UninitAt DEF Value
<1>2. c.run = "go"
  BY ConcreteFields
<1>3. Operate(op, x1, Got(c, x2)) = IF x1.k # "bits" \/ x2.k # "bits" THEN Got(Ends(c, "Type", Unit), Unit)
                                    ELSE Got(c, Bit(Compute(op, x1.n, x2.n)))
  <2> HIDE DEF c, x1, x2
  <2> QED BY <1>2 DEF Operate, Got
<1>4. CASE ~({v1.k, v2.k} \subseteq {"bits", "sym"})
  <2>1. q = Fail(f, s, "Type")
    BY <1>4 DEF primop
  <2>2. Mirrors(Got(Ends(c, "Type", Unit), Unit), Fail(f, s, "Type"), w) /\ Grows(s, Fail(f, s, "Type"))
    BY <1>0, OkMirrors
  <2> HIDE DEF q, x1, x2, c
  <2>3. x1.k # "bits" \/ x2.k # "bits"
    BY <1>0, <1>1, <1>4
  <2> QED BY <1>3, <2>1, <2>2, <2>3 DEF q, x1, x2, c
<1>5. CASE v1.k = "bits" /\ v2.k = "bits"
  <2> DEFINE b == Bit(Compute(op, v1.n, v2.n))
  <2>1. q = Ok(f, s, b) /\ x1 = v1 /\ x2 = v2
    BY <1>5 DEF primop, ValueAt
  <2>2. ValueAt(s, b, w) = b
    BY DEF ValueAt, Bit
  <2>3. Operate(op, x1, Got(c, x2)) = Got(c, b)
    BY <1>3, <1>5, <2>1
  <2> HIDE DEF q, x1, x2, c, b
  <2>4. Mirrors(Got(Concrete(f, s, w), ValueAt(s, b, w)), Ok(f, s, b), w) /\ Grows(s, Ok(f, s, b))
    BY <1>0, OkMirrors
  <2> QED BY <2>1, <2>2, <2>3, <2>4 DEF q, x1, x2, c
<1>6. CASE {v1.k, v2.k} \subseteq {"bits", "sym"} /\ ~(v1.k = "bits" /\ v2.k = "bits")
  <2> DEFINE t == define_const(s, Term(op, ToExp(v1), ToExp(v2)))
             v == Symbolic(s.next_var)
             a == ToExp(v1)
             b == ToExp(v2)
             z == Term(op, a, b)
             e == DefineConst(s.next_var, z)
  <2>1. a \in Atoms /\ b \in Atoms
    BY <1>0, <1>6, ToExpType
  <2>2. q = Ok(f, t, v)
    BY <1>6 DEF primop
  <2>3. x1 = Bit(IF w \in atom_meaning(s, a) THEN 1 ELSE 0) /\ x2 = Bit(IF w \in atom_meaning(s, b) THEN 1 ELSE 0)
    BY <1>0, <1>6, AtomMeaning
  <2> HIDE DEF a, b, x1, x2, q
  <2>4. z \in Terms /\ z.op = op /\ z.x = a /\ z.y = b
    BY <2>1 DEF Terms, Term
  <2>5. translate_exp(s, z) = IF op = "eq" THEN Same(atom_meaning(s, a), atom_meaning(s, b))
                              ELSE Assignments \ Same(atom_meaning(s, a), atom_meaning(s, b))
    BY <2>4 DEF translate_exp
  <2>6. \A u : translate_exp(u, z) \in Meanings
    BY <2>4 DEF translate_exp, Same, Meanings
  <2> HIDE DEF z
  <2>7. t = add_event([s EXCEPT !.next_var = @ + 1], e)
    BY DEF define_const, a, b, z
  <2>8. e \in Event /\ e.ev = "define" /\ e.v = s.next_var /\ e.exp = z
    BY <1>0, <2>4 DEF Event, DefineConst
  <2> HIDE DEF e
  <2>9. Allowed([s EXCEPT !.next_var = @ + 1], e)
    BY <2>6, <2>8 DEF Allowed
  <2>10. Leaves(s, t) /\ t.decls[s.next_var] = translate_exp(s, z)
    BY <2>7, <2>8, <2>9, NewSymConsts DEF Leaves
  <2> HIDE DEF t
  <2>11. ValueAt(t, v, w) = Bit(Compute(op, x1.n, x2.n))
    <3>1. ValueAt(t, v, w) = Bit(IF w \in translate_exp(s, z) THEN 1 ELSE 0)
      BY <2>10 DEF ValueAt, Symbolic
    <3> DEFINE A == atom_meaning(s, a)
               B == atom_meaning(s, b)
    <3>2. w \in translate_exp(s, z) <=> (((w \in A) <=> (w \in B)) <=> op = "eq")
      BY <2>5 DEF Same
    <3>3. x1.n = (IF w \in A THEN 1 ELSE 0) /\ x2.n = (IF w \in B THEN 1 ELSE 0)
      BY <2>3 DEF Bit
    <3> HIDE DEF A, B
    <3>4. (x1.n = x2.n) = ((w \in A) <=> (w \in B))
      BY <3>3
    <3>5. Compute(op, x1.n, x2.n) = IF w \in translate_exp(s, z) THEN 1 ELSE 0
      BY <3>2, <3>4 DEF Compute
    <3> QED BY <3>1, <3>5
  <2>12. x1.k = "bits" /\ x2.k = "bits"
    BY <2>3 DEF Bit
  <2>13. Concrete(f, t, w) = c
    BY <2>10, LeavesConcrete
  <2> HIDE DEF v, c
  <2>14. Operate(op, x1, Got(c, x2)) = Got(Concrete(f, t, w), ValueAt(t, v, w))
    BY <1>3, <2>11, <2>12, <2>13
  <2>15. Mirrors(Got(Concrete(f, t, w), ValueAt(t, v, w)), Ok(f, t, v), w) /\ Grows(s, Ok(f, t, v))
    BY <2>10, OkMirrors DEF Leaves
  <2> QED BY <2>2, <2>14, <2>15 DEF q, x1, x2, c
<1> QED BY <1>4, <1>5, <1>6

(* What a mirrored evaluation says.                                        *)
LEMMA MirrorsFacts ==
  ASSUME NEW e, NEW r, NEW w, Mirrors(e, r, w), r.err # "go"
  PROVE  /\ e.c = Outcome(r, w)
         /\ r.err = "Ok" => e.c = Concrete(r.f, r.s, w) /\ e.v = ValueAt(r.s, r.v, w) /\ e.c.run = "go"
                            /\ e = Got(Concrete(r.f, r.s, w), ValueAt(r.s, r.v, w))
         /\ r.err # "Ok" => e.c.run # "go"
<1>1. e.c = Outcome(r, w) /\ (r.err = "Ok" => e.v = ValueAt(r.s, r.v, w))
  BY DEF Mirrors, Got
<1>2. /\ r.err = "Ok" => Outcome(r, w) = Concrete(r.f, r.s, w) /\ Outcome(r, w).run = "go"
      /\ r.err # "Ok" => Outcome(r, w).run = r.err
  BY OutcomeFields
<1>3. r.err = "Ok" => e = Got(Concrete(r.f, r.s, w), ValueAt(r.s, r.v, w))
  BY <1>2 DEF Mirrors
<1> QED BY <1>1, <1>2, <1>3

LEMMA eval_expMirrors ==
  ASSUME NEW p, NEW s, SolverOK(s), NEW f \in Frames(p, s.next_var), Shaped(f), NEW e, IsExp(e),
         NEW w \in Assignments
  PROVE  Mirrors(Eval(Concrete(f, s, w), w, e), eval_exp(f, s, e), w) /\ Grows(s, eval_exp(f, s, e))
<1> DEFINE c == Concrete(f, s, w)
<1>1. CASE e.e # "op"
  <2>1. IsAtom(e) /\ eval_exp(f, s, e) = eval_atom(f, s, e) /\ Eval(c, w, e) = Atom(c, w, e)
    BY <1>1 DEF IsExp, eval_exp, Eval
  <2> QED BY <2>1, eval_atomMirrors
<1>2. CASE e.e = "op"
  <2> DEFINE r1 == eval_atom(f, s, e.x)
             r2 == eval_atom(r1.f, r1.s, e.y)
             r3 == primop(r2.f, r2.s, e.op, r1.v, r2.v)
             x == Atom(c, w, e.x)
             y == Atom(x.c, w, e.y)
             q == eval_exp(f, s, e)
             z == Eval(c, w, e)
  <2>1. e.op \in {"eq", "neq"} /\ IsAtom(e.x) /\ IsAtom(e.y)
    BY <1>2 DEF IsExp, IsAtom
  <2>2. q = IF r1.err # "Ok" THEN r1 ELSE IF r2.err # "Ok" THEN r2 ELSE r3
    BY <1>2 DEF eval_exp, ApplyTo, Apply
  <2>3. z = IF x.c.run # "go" THEN x ELSE Operate(e.op, x.v, y)
    BY <1>2 DEF Eval
  <2> HIDE DEF q, z
  <2>4. Sound(p, s, r1) /\ Mirrors(x, r1, w) /\ Grows(s, r1)
    BY <2>1, eval_atomSound, eval_atomMirrors
  <2> HIDE DEF r1, x
  <2>5. CASE r1.err # "Ok"
    <3>1. x.c.run # "go"
      BY <2>4, <2>5, MirrorsFacts DEF Grows
    <3>2. q = r1 /\ z = x
      BY <2>2, <2>3, <2>5, <3>1
    <3> QED BY <2>4, <3>2 DEF q, z
  <2>6. CASE r1.err = "Ok"
    <3>1. x.c = Concrete(r1.f, r1.s, w) /\ x.v = ValueAt(r1.s, r1.v, w) /\ x.c.run = "go"
      BY <2>4, <2>6, MirrorsFacts DEF Grows
    <3>2. SolverOK(r1.s) /\ r1.f \in Frames(p, r1.s.next_var) /\ Shaped(r1.f) /\ Keeps(s, r1.s)
          /\ r1.v \in Known(r1.s.next_var)
      BY <2>4, <2>6, SoundFacts DEF Grows, Sound
    <3>3. Sound(p, r1.s, r2) /\ Mirrors(y, r2, w) /\ Grows(r1.s, r2)
      BY <2>1, <3>1, <3>2, eval_atomSound, eval_atomMirrors
    <3>4. z = Operate(e.op, x.v, y)
      BY <2>3, <3>1
    <3> HIDE DEF r2, y
    <3>5. SolverOK(r2.s) /\ r2.f \in Frames(p, r2.s.next_var) /\ Shaped(r2.f) /\ Keeps(r1.s, r2.s)
          /\ Reaches(r1.s, r2.s)
      BY <3>3, SoundFacts DEF Grows
    <3>6. Keeps(s, r2.s)
      BY <3>2, <3>5, KeepsTrans
    <3>7. CASE r2.err # "Ok"
      <4>1. y.c.run # "go"
        BY <3>3, <3>7, MirrorsFacts DEF Grows
      <4>2. z = y /\ q = r2
        BY <2>2, <2>6, <3>4, <3>7, <4>1 DEF Operate
      <4>3. Grows(s, r2)
        BY <3>3, <3>6 DEF Grows
      <4> QED BY <3>3, <4>2, <4>3 DEF q, z
    <3>8. CASE r2.err = "Ok"
      <4>1. r2.v \in Known(r2.s.next_var)
        BY <3>3, <3>8 DEF Sound
      <4>2. r1.s.next_var \in Nat /\ r2.s.next_var \in Nat /\ r1.s.next_var <= r2.s.next_var
        BY <3>2, <3>5, SolverTypes DEF Reaches, Follows
      <4>3. r1.v \in Known(r2.s.next_var)
        BY <3>2, <4>2, MoreValues
      <4>4. x.v = ValueAt(r2.s, r1.v, w)
        BY <3>1, <3>2, <3>5, ValueKept DEF Value
      <4>5. y = Got(Concrete(r2.f, r2.s, w), ValueAt(r2.s, r2.v, w))
        BY <3>3, <3>8, MirrorsFacts DEF Grows
      <4>6. Mirrors(Operate(e.op, x.v, y), r3, w) /\ Grows(r2.s, r3) /\ Sound(p, r2.s, r3)
        BY <2>1, <3>5, <4>1, <4>3, <4>4, <4>5, primopMirrors, primopSound
      <4> HIDE DEF r3
      <4>7. q = r3
        BY <2>2, <2>6, <3>8
      <4>8. Grows(s, r3)
        BY <3>5, <3>6, <4>6, SoundFacts, KeepsTrans DEF Grows
      <4> QED BY <3>4, <4>6, <4>7, <4>8 DEF q, z
    <3> QED BY <3>7, <3>8
  <2> QED BY <2>5, <2>6
<1> QED BY <1>1, <1>2

(* An assignment.                                                          *)
LEMMA assignMirrors ==
  ASSUME NEW p, NEW s, SolverOK(s), NEW f \in Frames(p, s.next_var), Shaped(f), NEW loc \in Names,
         NEW v \in Known(s.next_var), NEW w
  PROVE  LET q == assign(f, s, loc, v) IN
         /\ Leaves(s, q.s) /\ Shaped(q.f)
         /\ Concrete(q.f, q.s, w) = Write(Concrete(f, s, w), loc, ValueAt(s, v, w))
<1> DEFINE q == assign(f, s, loc, v)
           c == Concrete(f, s, w)
           x == ValueAt(s, v, w)
<1>1. v \in Value(s.next_var) /\ s.next_var \in Nat /\ Leaves(s, s)
  BY SolverTypes, LeavesSelf DEF Value
<1>2. DOMAIN c.vars = DOMAIN f.vars /\ DOMAIN c.lets = DOMAIN f.lets
  <2>1. c.vars = ValuesAt(s, f.vars, w) /\ c.lets = ValuesAt(s, f.lets, w)
    BY ConcreteFields
  <2> QED BY <2>1 DEF ValuesAt
<1>3. Sound(p, s, q)
  BY assignSound
<1>4. ASSUME NEW place \in Places
      PROVE  Shaped(Put(f, place, loc, v)) /\ Concrete(Put(f, place, loc, v), s, w) = Put(c, place, loc, x)
  BY PutFacts
<1> HIDE DEF c, x
<1>5. CASE loc \in DOMAIN f.vars
  <2>1. q = Ok(Put(f, "vars", loc, v), s, v) /\ Write(c, loc, x) = Put(c, "vars", loc, x)
    BY <1>2, <1>5 DEF assign, Write, Put
  <2> HIDE DEF q
  <2>2. q.f = Put(f, "vars", loc, v) /\ q.s = s
    BY <2>1 DEF Ok
  <2> QED BY <1>1, <1>4, <2>1, <2>2 DEF Places, q, c, x
<1>6. CASE loc \in DOMAIN f.lets \ DOMAIN f.vars
  <2>1. q = Ok(Put(f, "lets", loc, v), s, v) /\ Write(c, loc, x) = Put(c, "lets", loc, x)
    BY <1>2, <1>6 DEF assign, Write, Put
  <2> HIDE DEF q
  <2>2. q.f = Put(f, "lets", loc, v) /\ q.s = s
    BY <2>1 DEF Ok
  <2> QED BY <1>1, <1>4, <2>1, <2>2 DEF Places, q, c, x
<1>7. CASE loc \notin DOMAIN f.lets \cup DOMAIN f.vars
  <2> DEFINE e == Access("write-reg", loc, v)
             t == add_event(s, e)
             g == Put(f, "regs", loc, v)
  <2>1. q = Ok(g, t, v) /\ Write(c, loc, x) = Put(c, "regs", loc, x)
    BY <1>2, <1>7 DEF assign, Write, Put
  <2>2. e \in Notes
    BY <1>1, AccessIsNote
  <2> HIDE DEF q, e
  <2>3. Leaves(s, t) /\ t.next_var = s.next_var
    BY <2>2, NoteLeaves, NoteFacts
  <2> HIDE DEF t
  <2>4. q.f = g /\ q.s = t
    BY <2>1 DEF Ok
  <2>5. Shaped(g) /\ Concrete(g, s, w) = Put(c, "regs", loc, x)
    BY <1>4 DEF Places
  <2> HIDE DEF g
  <2>6. g \in Frames(p, s.next_var)
    BY <1>3, <2>3, <2>4, SoundFacts
  <2>7. Concrete(g, t, w) = Concrete(g, s, w)
    BY <2>3, <2>5, <2>6, LeavesConcrete
  <2> QED BY <2>1, <2>3, <2>4, <2>5, <2>7 DEF q, c, x
<1> QED BY <1>5, <1>6, <1>7

(* The program counter moves on.                                           *)
LEMMA AdvanceMirrors ==
  ASSUME NEW p, NEW s, NEW r, Sound(p, s, r), Shaped(r.f), NEW w
  PROVE  LET q == Advance(r) IN
         /\ q.err = r.err /\ q.s = r.s /\ Shaped(q.f)
         /\ r.err = "Ok" => Outcome(q, w) = Skip(Concrete(r.f, r.s, w))
         /\ r.err # "Ok" => q = r
<1> DEFINE q == Advance(r)
<1>1. CASE r.err # "Ok"
  BY <1>1 DEF Advance
<1>2. CASE r.err = "Ok"
  <2> DEFINE f == r.f
             n == f.pc + 1
             g == WithPc(f, n)
  <2>1. r = [f |-> r.f, s |-> r.s, v |-> r.v, err |-> r.err] /\ f \in Frames(p, r.s.next_var)
    BY DEF Sound
  <2>2. q = [r EXCEPT !.f = g]
    BY <1>2, <2>1 DEF Advance, WithPc
  <2> HIDE DEF q
  <2>3. Shaped(g) /\ Concrete(g, r.s, w) = WithPc(Concrete(f, r.s, w), n)
    <3> HIDE DEF n
    <3> QED BY <2>1, ShapedUpdates, ConcreteUpdates
  <2>4. WithPc(Concrete(f, r.s, w), n) = Skip(Concrete(f, r.s, w))
    <3>1. Concrete(f, r.s, w).pc = f.pc
      BY ConcreteFields
    <3> QED BY <3>1 DEF WithPc, Skip, GoTo
  <2> HIDE DEF g
  <2>5. q.f = g /\ q.s = r.s /\ q.err = "Ok"
    BY <1>2, <2>1, <2>2
  <2>6. Outcome(q, w) = Concrete(g, r.s, w)
    BY <2>5 DEF Outcome
  <2> QED BY <1>2, <2>3, <2>4, <2>5, <2>6 DEF q
<1> QED BY <1>1, <1>2

(* An instruction that assigns the value of its expression, to the end.    *)
LEMMA AssignedMirrors ==
  ASSUME NEW p, NEW s, SolverOK(s), NEW r, Sound(p, s, r), Grows(s, r), NEW loc \in Names, NEW w,
         NEW e, Mirrors(e, r, w)
  PROVE  LET q == Advance(AssignAfter(r, loc)) IN
         /\ Grows(s, q) /\ q.err = r.err
         /\ Outcome(q, w) = Then(e, Assigned(e, loc))
<1> DEFINE a == AssignAfter(r, loc)
           q == Advance(a)
<1>1. Sound(p, s, a)
  BY AssignAfterSound
<1>2. CASE r.err # "Ok"
  <2>1. a = r
    BY <1>2 DEF AssignAfter
  <2>2. q = r
    BY <1>2, <2>1 DEF Advance
  <2> HIDE DEF q
  <2>3. e.c = Outcome(r, w) /\ e.c.run # "go"
    BY <1>2, MirrorsFacts DEF Grows
  <2>4. Then(e, Assigned(e, loc)) = e.c
    BY <2>3 DEF Then
  <2> QED BY <2>2, <2>3, <2>4 DEF q
<1>3. CASE r.err = "Ok"
  <2>1. a = assign(r.f, r.s, loc, r.v)
    BY <1>3 DEF AssignAfter
  <2>2. SolverOK(r.s) /\ r.f \in Frames(p, r.s.next_var) /\ Shaped(r.f) /\ Keeps(s, r.s)
        /\ r.v \in Known(r.s.next_var)
    BY <1>3, SoundFacts DEF Grows, Sound
  <2>3. /\ Leaves(r.s, a.s) /\ Shaped(a.f) /\ a.err = "Ok"
        /\ Concrete(a.f, a.s, w) = Write(Concrete(r.f, r.s, w), loc, ValueAt(r.s, r.v, w))
    <3> DEFINE f == r.f
               t == r.s
               v == r.v
               b == assign(f, t, loc, v)
    <3>1. SolverOK(t) /\ f \in Frames(p, t.next_var) /\ Shaped(f) /\ v \in Known(t.next_var) /\ a = b
      BY <2>1, <2>2
    <3> HIDE DEF f, t, v, a
    <3>2. /\ Leaves(t, b.s) /\ Shaped(b.f)
          /\ Concrete(b.f, b.s, w) = Write(Concrete(f, t, w), loc, ValueAt(t, v, w))
      BY ONLY <3>1, loc \in Names, assignMirrors
    <3>3. b.err = "Ok"
      BY <3>1, assignSound
    <3> HIDE DEF b
    <3> QED BY <3>1, <3>2, <3>3 DEF f, t, v
  <2> HIDE DEF a
  <2>4. Shaped(q.f) /\ q.s = a.s /\ q.err = "Ok" /\ Outcome(q, w) = Skip(Concrete(a.f, a.s, w))
    BY <1>1, <2>3, AdvanceMirrors
  <2>5. e.c = Concrete(r.f, r.s, w) /\ e.v = ValueAt(r.s, r.v, w) /\ e.c.run = "go"
    BY <1>3, MirrorsFacts DEF Grows
  <2>6. Then(e, Assigned(e, loc)) = Skip(Write(e.c, loc, e.v))
    BY <2>5 DEF Then, Assigned
  <2>7. Keeps(s, a.s)
    BY <2>2, <2>3, KeepsTrans DEF Leaves
  <2> HIDE DEF q
  <2> QED BY <1>3, <2>3, <2>4, <2>5, <2>6, <2>7 DEF q, a, Grows
<1> QED BY <1>2, <1>3

(* An instruction that binds it.                                           *)
LEMMA BoundMirrors ==
  ASSUME NEW p, NEW s, SolverOK(s), NEW r, Sound(p, s, r), Grows(s, r), NEW id \in Names, NEW w,
         NEW e, Mirrors(e, r, w)
  PROVE  LET q == Advance(BindResult(r, id)) IN
         /\ Grows(s, q)
         /\ Outcome(q, w) = Then(e, Skip(BindVar(e.c, id, e.v)))
<1> DEFINE a == BindResult(r, id)
           q == Advance(a)
           d == Skip(BindVar(e.c, id, e.v))
<1>1. Sound(p, s, a)
  BY BindResultSound
<1>2. CASE r.err # "Ok"
  <2>1. a = r
    BY <1>2 DEF BindResult
  <2>2. q = r
    BY <1>2, <2>1 DEF Advance
  <2> HIDE DEF q, d
  <2>3. e.c = Outcome(r, w) /\ e.c.run # "go"
    BY <1>2, MirrorsFacts DEF Grows
  <2>4. Then(e, d) = e.c
    BY <2>3 DEF Then
  <2> QED BY <2>2, <2>3, <2>4 DEF q, d
<1>3. CASE r.err = "Ok"
  <2> DEFINE f == r.f
             t == r.s
             l == Bind(f.vars, id, r.v)
             g == WithVars(f, l)
             c == Concrete(f, t, w)
  <2>1. r = [f |-> r.f, s |-> r.s, v |-> r.v, err |-> r.err] /\ f \in Frames(p, t.next_var) /\ Shaped(f)
    BY DEF Sound, Grows
  <2>2. a = [r EXCEPT !.f = g]
    BY <1>3, <2>1 DEF BindResult, WithVars
  <2>3. ValuesAt(t, l, w) = Bind(ValuesAt(t, f.vars, w), id, ValueAt(t, r.v, w))
    <3> DEFINE b == f.vars
               x == r.v
    <3> HIDE DEF b, x, t
    <3>1. ValuesAt(t, Bind(b, id, x), w) = Bind(ValuesAt(t, b, w), id, ValueAt(t, x, w))
      BY DEF ValuesAt, Bind
    <3> QED BY <3>1 DEF b, x
  <2> HIDE DEF a, l
  <2>4. Shaped(g) /\ Concrete(g, t, w) = WithVars(c, ValuesAt(t, l, w))
    BY <2>1, ShapedUpdates, ConcreteUpdates
  <2> HIDE DEF g
  <2>5. a.f = g /\ a.s = t /\ a.err = "Ok"
    BY <1>3, <2>1, <2>2
  <2>6. Shaped(q.f) /\ q.s = a.s /\ q.err = "Ok" /\ Outcome(q, w) = Skip(Concrete(a.f, a.s, w))
    BY <1>1, <2>4, <2>5, AdvanceMirrors
  <2>7. e.c = c /\ e.v = ValueAt(t, r.v, w) /\ e.c.run = "go"
    BY <1>3, MirrorsFacts DEF Grows
  <2>8. c.vars = ValuesAt(t, f.vars, w)
    BY ConcreteFields
  <2> HIDE DEF q, c, t, f
  <2>9. Concrete(g, t, w) = BindVar(e.c, id, e.v)
    BY <2>3, <2>4, <2>7, <2>8 DEF WithVars, BindVar
  <2>10. Skip(Concrete(g, t, w)) = d
    BY <2>9
  <2> HIDE DEF d
  <2>11. Then(e, d) = d
    BY <2>7 DEF Then
  <2>12. Grows(s, q)
    BY <2>5, <2>6 DEF Grows, t
  <2>13. Outcome(q, w) = Then(e, d)
    BY <2>5, <2>6, <2>10, <2>11
  <2> QED BY <2>12, <2>13 DEF q, d, a
<1> QED BY <1>2, <1>3

-----------------------------------------------------------------------------
(* Steps of a path, and steps of the run of each of its inputs.            *)

StepOf(w) == ConcreteStep(prog, Concrete(frame, solver, w), w)

\* The runs of the inputs that are left go on as the path does; the others end.
RunsGoOn(f, s) ==
  /\ Shaped(f)
  /\ \A w \in solver.models :
       IF w \in s.models THEN StepOf(w) = Concrete(f, s, w)
       ELSE StepOf(w).run \in {"Excluded", "AssertionFailure"}

SimGoesOn == running' = TRUE /\ queue' = queue /\ RunsGoOn(frame', solver')

\* The path is handed in as x, and its runs end so.
RunsEnd(x, f, s) ==
  \/ x.run \in GaveUp
  \/ x.run = "AssertionFailure" /\ (x.models # {} => \E w \in x.models : StepOf(w).run = "AssertionFailure")
  \/ x.run # "AssertionFailure" /\ \A w \in x.models : EndsAs(StepOf(w), x, f, s, w)

SimEnds == running' = FALSE /\ \E x : collected' = Append(collected, x) /\ RunsEnd(x, frame', solver')

\* A task is queued for some of the runs, which may have to take the step again.
RunsSplit(f, s, t) ==
  /\ Shaped(f) /\ \A w \in s.models : StepOf(w) = Concrete(f, s, w)
  /\ Shaped(t.frame)
  /\ \A w \in resume(t).models :
       \/ StepOf(w) = Concrete(t.frame, resume(t), w)
       \/ StepOf(w) = ConcreteStep(prog, Concrete(t.frame, resume(t), w), w)

SimSplits == running' = TRUE /\ \E t : queue' = Append(queue, t) /\ RunsSplit(frame', solver', t)

\* An assumption is used: the runs will return from the call.
RunsReturn(f, s) ==
  /\ Shaped(f) /\ s.models = solver.models
  /\ \A w \in solver.models :
       \E fn \in DOMAIN Assumptions : \E k \in DOMAIN Assumptions[fn] :
         /\ Entered(StepOf(w), fn, Bit(Assumptions[fn][k].arg))
         /\ Concrete(f, s, w) = ReturnTo(StepOf(w), Bit(Assumptions[fn][k].result))

SimReturns == running' = TRUE /\ queue' = queue /\ RunsReturn(frame', solver')

SimStep == SimGoesOn \/ SimEnds \/ SimSplits \/ SimReturns

(* The path is handed in.                                                  *)
LEMMA CollectSims ==
  ASSUME running, NEW f, NEW s, Reaches(solver, s), NEW run, NEW v, Collect(f, s, run, v),
         \A w \in solver.models :
           /\ StepOf(w).run = run /\ StepOf(w).v = ValueAt(s, v, w)
           /\ StepOf(w).regs = ValuesAt(s, f.regs, w)
  PROVE  SimStep
<1> DEFINE x == [run |-> run, v |-> v, models |-> s.models, trace |-> to_vec(s), frac |-> frac]
<1>1. collected' = Append(collected, x) /\ running' = FALSE /\ frame' = f /\ solver' = s
  BY DEF Collect
<1>2. x.run = run /\ x.models = s.models /\ x.v = v /\ s.models = solver.models
  BY DEF Reaches
<1> HIDE DEF x
<1>3. \A w \in x.models : EndsAs(StepOf(w), x, f, s, w)
  <2> SUFFICES ASSUME NEW w \in solver.models PROVE EndsAs(StepOf(w), x, f, s, w)
    BY <1>2
  <2>1. StepOf(w).run = run /\ StepOf(w).v = ValueAt(s, v, w) /\ StepOf(w).regs = ValuesAt(s, f.regs, w)
    OBVIOUS
  <2>2. \A reg \in DOMAIN f.regs : StepOf(w).regs[reg] = ValueAt(s, f.regs[reg], w)
    BY <2>1 DEF ValuesAt
  <2> QED BY <1>2, <2>1, <2>2 DEF EndsAs
<1>4. run = "AssertionFailure" => (x.models # {} => \E w \in x.models : StepOf(w).run = "AssertionFailure")
  BY <1>2
<1>5. RunsEnd(x, f, s)
  BY <1>2, <1>3, <1>4 DEF RunsEnd
<1>6. RunsEnd(x, frame', solver')
  BY <1>1, <1>5
<1> QED BY <1>1, <1>6 DEF SimStep, SimEnds

(* It was given up.                                                        *)
LEMMA GiveUpSims ==
  ASSUME running, NEW f, NEW s, NEW run \in GaveUp, NEW v, Collect(f, s, run, v)
  PROVE  SimStep
<1> DEFINE x == [run |-> run, v |-> v, models |-> s.models, trace |-> to_vec(s), frac |-> frac]
<1>1. collected' = Append(collected, x) /\ running' = FALSE /\ x.run = run
  BY DEF Collect
<1> HIDE DEF x
<1> QED BY <1>1 DEF RunsEnd, SimStep, SimEnds

(* It goes on, with all of its inputs.                                     *)
LEMMA GoOnSims ==
  ASSUME running \in BOOLEAN, running, NEW f, Shaped(f), NEW s, Reaches(solver, s), GoOn(f, s),
         \A w \in solver.models : StepOf(w) = Concrete(f, s, w)
  PROVE  SimStep
<1>1. running' = TRUE /\ queue' = queue /\ frame' = f /\ solver' = s /\ s.models = solver.models
  BY DEF GoOn, Reaches
<1>2. RunsGoOn(f, s)
  BY <1>1 DEF RunsGoOn
<1>3. RunsGoOn(frame', solver')
  BY <1>1, <1>2
<1> QED BY <1>1, <1>3 DEF SimStep, SimGoesOn

(* The ? of every call.                                                    *)
LEMMA ContinueSims ==
  ASSUME running \in BOOLEAN, running, NEW r, Sound(prog, solver, r), Shaped(r.f), Continue(r),
         \A w \in solver.models : StepOf(w) = Outcome(r, w)
  PROVE  SimStep
<1>0. Reaches(solver, r.s)
  BY DEF Sound
<1>1. CASE r.err = "Ok"
  <2>1. GoOn(r.f, r.s) /\ \A w \in solver.models : StepOf(w) = Concrete(r.f, r.s, w)
    BY <1>1, OutcomeFields DEF Continue
  <2> QED BY <1>0, <2>1, GoOnSims
<1>2. CASE r.err # "Ok"
  <2>1. Collect(r.f, r.s, r.err, Unit)
    BY <1>2 DEF Continue
  <2>2. ASSUME NEW w \in solver.models
        PROVE  StepOf(w).run = r.err /\ StepOf(w).v = ValueAt(r.s, Unit, w)
               /\ StepOf(w).regs = ValuesAt(r.s, r.f.regs, w)
    <3>1. StepOf(w) = Outcome(r, w) /\ Outcome(r, w).run = r.err /\ Outcome(r, w).v = Unit
          /\ Outcome(r, w).regs = Concrete(r.f, r.s, w).regs
      BY <1>2, OutcomeFields
    <3>2. Concrete(r.f, r.s, w).regs = ValuesAt(r.s, r.f.regs, w)
      BY ConcreteFields
    <3> QED BY <3>1, <3>2, UnitAt
  <2> QED BY <1>0, <2>1, <2>2, CollectSims
<1> QED BY <1>1, <1>2

(* The next step of a run, where the path is.                              *)
LEMMA StepIs ==
  ASSUME TasksOK, PathOK, NEW name, At(name), NEW w
  PROVE  StepOf(w) = InstrStep(prog, Concrete(frame, solver, w), w, Instr)
<1> DEFINE c == Concrete(frame, solver, w)
<1>1. c.run = "go" /\ c.code = frame.code /\ c.pc = frame.pc
  BY ConcreteFields
<1>2. frame.pc <= Len(prog[frame.code]) /\ Instr = prog[frame.code][frame.pc]
  BY DEF At, Instrs, Instr
<1>3. frame.pc \in Pcs /\ frame.code \in DOMAIN prog /\ Len(prog[frame.code]) \in Nat
  BY InstrFacts, FrameFields DEF IsProgram
<1>4. ~(c.pc > Len(prog[c.code])) /\ Instr = prog[c.code][c.pc]
  BY <1>1, <1>2, <1>3 DEF Pcs
<1> HIDE DEF c
<1>5. ConcreteStep(prog, c, w) = InstrStep(prog, c, w, Instr)
  BY <1>1, <1>4 DEF ConcreteStep
<1> QED BY <1>5 DEF StepOf, c

\* The running path still has an input.
Tracked == TasksOK /\ PathOK /\ Shaped(frame) /\ solver.models # {}

LEMMA HereFacts ==
  ASSUME Tracked, NEW name, At(name)
  PROVE  /\ IsInstr(Instr) /\ Instr.i = name /\ running /\ running \in BOOLEAN
         /\ SolverOK(solver) /\ frame \in Frames(prog, solver.next_var) /\ IsProgram(prog)
         /\ Shaped(frame) /\ Reaches(solver, solver) /\ Keeps(solver, solver)
         /\ \A w \in solver.models : w \in Assignments
         /\ \A w : StepOf(w) = InstrStep(prog, Concrete(frame, solver, w), w, Instr)
<1>1. /\ IsInstr(Instr) /\ Instr.i = name /\ running /\ running \in BOOLEAN
      /\ SolverOK(solver) /\ frame \in Frames(prog, solver.next_var) /\ IsProgram(prog) /\ Shaped(frame)
  BY InstrFacts DEF Tracked
<1>2. \A w : StepOf(w) = InstrStep(prog, Concrete(frame, solver, w), w, Instr)
  BY StepIs DEF Tracked
<1>3. Reaches(solver, solver) /\ Keeps(solver, solver) /\ \A w \in solver.models : w \in Assignments
  BY <1>1, SolverTypes, LeavesSelf DEF Leaves
<1> QED BY <1>1, <1>2, <1>3

LEMMA DeclSims == ASSUME Tracked, Decl PROVE SimStep
<1>1. At("Decl")
  BY DEF Decl
<1>2. /\ IsInstr(Instr) /\ Instr.i = "Decl" /\ running /\ running \in BOOLEAN
      /\ SolverOK(solver) /\ frame \in Frames(prog, solver.next_var) /\ Shaped(frame)
      /\ \A w : StepOf(w) = InstrStep(prog, Concrete(frame, solver, w), w, Instr)
  BY <1>1, HereFacts
<1> DEFINE l == Bind(frame.vars, Instr.id, Uninit)
           g == WithVars(frame, l)
           a == Ok(g, solver, Unit)
           q == Advance(a)
<1>3. Continue(q) /\ g = [frame EXCEPT !.vars = l]
  BY DEF Decl, WithVars
<1>4. Instr.id \in Names
  BY <1>2 DEF IsInstr, Names
<1>5. l \in Locals(solver.next_var)
  BY <1>2, <1>4, FrameFields, BindFacts DEF Value
<1>6. ASSUME NEW w PROVE ValuesAt(solver, l, w) = Bind(ValuesAt(solver, frame.vars, w), Instr.id, Uninit)
  <2>1. ValueAt(solver, Uninit, w) = Uninit
    BY DEF ValueAt, Uninit
  <2> DEFINE b == frame.vars
             x == Instr.id
  <2> HIDE DEF b, x
  <2>2. ValuesAt(solver, Bind(b, x, Uninit), w) = Bind(ValuesAt(solver, b, w), x, ValueAt(solver, Uninit, w))
    BY DEF ValuesAt, Bind
  <2> QED BY <2>1, <2>2 DEF b, x
<1>7. ASSUME NEW w PROVE StepOf(w) = Skip(BindVar(Concrete(frame, solver, w), Instr.id, Uninit))
  BY <1>2 DEF InstrStep
<1> HIDE DEF l
<1>8. g \in Frames(prog, solver.next_var)
  BY <1>2, <1>3, <1>5, FrameUpdates
<1>9. Shaped(g) /\ \A w : Concrete(g, solver, w) = WithVars(Concrete(frame, solver, w), ValuesAt(solver, l, w))
  BY <1>2, ShapedUpdates, ConcreteUpdates
<1> HIDE DEF g
<1>10. Sound(prog, solver, a) /\ a.err = "Ok" /\ a.f = g /\ a.s = solver
  BY <1>2, <1>8, OkSound, UnitKnown, SolverTypes DEF Ok
<1> HIDE DEF a
<1>11. Sound(prog, solver, q)
  BY <1>10, AdvanceSound
<1>12. Shaped(q.f)
  BY <1>9, <1>10, AdvanceMirrors
<1>13. ASSUME NEW w \in solver.models PROVE StepOf(w) = Outcome(q, w)
  <2> DEFINE c == Concrete(frame, solver, w)
  <2>1. Outcome(q, w) = Skip(Concrete(g, solver, w))
    BY <1>9, <1>10, AdvanceMirrors
  <2>2. c.vars = ValuesAt(solver, frame.vars, w)
    BY ConcreteFields
  <2>3. Concrete(g, solver, w) = WithVars(c, ValuesAt(solver, l, w))
    BY <1>9
  <2> HIDE DEF c, q
  <2>4. Concrete(g, solver, w) = BindVar(c, Instr.id, Uninit)
    BY <1>6, <2>2, <2>3 DEF WithVars, BindVar
  <2> QED BY <1>7, <2>1, <2>4 DEF c
<1> HIDE DEF q
<1> QED BY <1>2, <1>3, <1>11, <1>12, <1>13, ContinueSims DEF q

(* The value of the instruction's expression, for an input of the path.    *)
LEMMA ValueHere ==
  ASSUME Tracked, NEW name, At(name), NEW x, IsExp(x)
  PROVE  LET r == eval_exp(frame, solver, x) IN
         /\ Sound(prog, solver, r) /\ Grows(solver, r)
         /\ \A w \in solver.models : Mirrors(Eval(Concrete(frame, solver, w), w, x), r, w)
<1>1. /\ SolverOK(solver) /\ frame \in Frames(prog, solver.next_var) /\ Shaped(frame)
      /\ \A w \in solver.models : w \in Assignments
  BY HereFacts
<1>2. ASSUME NEW w \in solver.models
      PROVE  /\ Mirrors(Eval(Concrete(frame, solver, w), w, x), eval_exp(frame, solver, x), w)
             /\ Grows(solver, eval_exp(frame, solver, x))
  BY <1>1, eval_expMirrors
<1>3. Grows(solver, eval_exp(frame, solver, x))
  BY <1>2 DEF Tracked
<1> QED BY <1>1, <1>2, <1>3, eval_expSound

LEMMA InitSims == ASSUME Tracked, InitVar PROVE SimStep
<1>1. At("Init")
  BY DEF InitVar
<1>2. /\ IsInstr(Instr) /\ Instr.i = "Init" /\ running /\ running \in BOOLEAN /\ SolverOK(solver)
      /\ \A w : StepOf(w) = InstrStep(prog, Concrete(frame, solver, w), w, Instr)
  BY <1>1, HereFacts
<1> DEFINE r == eval_exp(frame, solver, Instr.exp)
           q == Advance(BindResult(r, Instr.id))
           e(w) == Eval(Concrete(frame, solver, w), w, Instr.exp)
<1>3. Continue(q)
  BY DEF InitVar
<1>4. Instr.id \in Names /\ IsExp(Instr.exp)
  BY <1>2 DEF IsInstr, Names
<1>5. \A w : StepOf(w) = Then(e(w), Skip(BindVar(e(w).c, Instr.id, e(w).v)))
  BY <1>2 DEF InstrStep
<1>6. Sound(prog, solver, r) /\ Grows(solver, r) /\ \A w \in solver.models : Mirrors(e(w), r, w)
  BY <1>1, <1>4, ValueHere
<1> HIDE DEF e, r
<1>7. Sound(prog, solver, q)
  BY <1>4, <1>6, BindResultSound, AdvanceSound
<1>8. ASSUME NEW w \in solver.models PROVE StepOf(w) = Outcome(q, w) /\ Shaped(q.f)
  <2>1. Grows(solver, q) /\ Outcome(q, w) = Then(e(w), Skip(BindVar(e(w).c, Instr.id, e(w).v)))
    BY <1>2, <1>4, <1>6, BoundMirrors
  <2> QED BY <1>5, <2>1 DEF Grows
<1> HIDE DEF q
<1> QED BY <1>2, <1>3, <1>7, <1>8, ContinueSims DEF Tracked

LEMMA CopySims == ASSUME Tracked, Copy PROVE SimStep
<1>1. At("Copy")
  BY DEF Copy
<1>2. /\ IsInstr(Instr) /\ Instr.i = "Copy" /\ running /\ running \in BOOLEAN /\ SolverOK(solver)
      /\ \A w : StepOf(w) = InstrStep(prog, Concrete(frame, solver, w), w, Instr)
  BY <1>1, HereFacts
<1> DEFINE r == eval_exp(frame, solver, Instr.exp)
           q == Advance(AssignAfter(r, Instr.loc))
           e(w) == Eval(Concrete(frame, solver, w), w, Instr.exp)
<1>3. Continue(q)
  BY DEF Copy
<1>4. Instr.loc \in Names /\ IsExp(Instr.exp)
  BY <1>2 DEF IsInstr, Names
<1>5. \A w : StepOf(w) = Then(e(w), Assigned(e(w), Instr.loc))
  BY <1>2 DEF InstrStep
<1>6. Sound(prog, solver, r) /\ Grows(solver, r) /\ \A w \in solver.models : Mirrors(e(w), r, w)
  BY <1>1, <1>4, ValueHere
<1> HIDE DEF e, r
<1>7. Sound(prog, solver, q)
  BY <1>2, <1>4, <1>6, AssignAfterSound, AdvanceSound
<1>8. ASSUME NEW w \in solver.models PROVE StepOf(w) = Outcome(q, w) /\ Shaped(q.f)
  <2>0. Mirrors(e(w), r, w)
    BY <1>6
  <2>1. Grows(solver, q) /\ Outcome(q, w) = Then(e(w), Assigned(e(w), Instr.loc))
    BY ONLY <1>2, <1>4, <1>6, <2>0, AssignedMirrors
  <2> QED BY <1>5, <2>1 DEF Grows
<1> HIDE DEF q
<1> QED BY <1>2, <1>3, <1>7, <1>8, ContinueSims DEF Tracked

LEMMA GotoSims == ASSUME Tracked, Goto PROVE SimStep
<1>1. At("Goto")
  BY DEF Goto
<1>2. /\ Instr.i = "Goto" /\ running /\ running \in BOOLEAN /\ frame \in Frames(prog, solver.next_var)
      /\ Shaped(frame) /\ Reaches(solver, solver)
      /\ \A w : StepOf(w) = InstrStep(prog, Concrete(frame, solver, w), w, Instr)
  BY <1>1, HereFacts
<1> DEFINE g == WithPc(frame, Instr.target)
<1>3. GoOn(g, solver)
  BY DEF Goto, WithPc
<1>4. Shaped(g) /\ \A w : Concrete(g, solver, w) = WithPc(Concrete(frame, solver, w), Instr.target)
  BY <1>2, ShapedUpdates, ConcreteUpdates
<1>5. \A w : StepOf(w) = WithPc(Concrete(frame, solver, w), Instr.target)
  BY <1>2 DEF InstrStep, GoTo, WithPc
<1> HIDE DEF g
<1> QED BY <1>2, <1>3, <1>4, <1>5, GoOnSims

-----------------------------------------------------------------------------
(* Assertions, which leave a path fewer inputs.                            *)

(* What the conditions on a Sym mean for an input.                         *)
LEMMA SymMeaning ==
  ASSUME NEW s, NEW v, NEW w \in Assignments
  PROVE  LET x == ValueAt(s, Symbolic(v), w) IN
         /\ x \in {Bit(0), Bit(1)}
         /\ w \in translate_exp(s, IsTrue(v)) <=> x = Bit(1)
         /\ w \in translate_exp(s, IsFalse(v)) <=> x = Bit(0)
         /\ \A b \in Bits : /\ w \in translate_exp(s, Term("eq", Var(v), Lit(b))) <=> x = Bit(b)
                            /\ w \in translate_exp(s, MonoRest(v, b)) <=> x # Bit(b)
<1> DEFINE x == ValueAt(s, Symbolic(v), w)
           D == s.decls[v]
<1>1. x = Bit(IF w \in D THEN 1 ELSE 0) /\ Bit(0) # Bit(1)
  BY DEF ValueAt, Symbolic, Bit
<1>2. translate_exp(s, IsTrue(v)) = D
  BY DEF translate_exp, atom_meaning, IsTrue, Var
<1>3. translate_exp(s, IsFalse(v)) = Assignments \ D
  BY <1>2, SplitMeaning
<1>4. ASSUME NEW b \in Bits
      PROVE  /\ w \in translate_exp(s, Term("eq", Var(v), Lit(b))) <=> x = Bit(b)
             /\ w \in translate_exp(s, MonoRest(v, b)) <=> x # Bit(b)
  <2>1. translate_exp(s, Term("eq", Var(v), Lit(b))) = Same(D, IF b = 1 THEN Assignments ELSE {})
    BY DEF translate_exp, atom_meaning, Var, Lit, Term
  <2>2. w \in Same(D, IF b = 1 THEN Assignments ELSE {}) <=> (w \in D <=> b = 1)
    BY DEF Same
  <2>3. w \in translate_exp(s, MonoRest(v, b)) <=> w \notin translate_exp(s, Term("eq", Var(v), Lit(b)))
    BY SplitMeaning
  <2> HIDE DEF x, D
  <2>4. b = 0 \/ b = 1
    BY DEF Bits
  <2> QED BY <1>1, <2>1, <2>2, <2>3, <2>4
<1> HIDE DEF x, D
<1> QED BY <1>1, <1>2, <1>3, <1>4 DEF x

(* Something that is a bit for every input.                                *)
LEMMA BitMeaning ==
  ASSUME NEW s, NEW m \in Nat, NEW v \in Known(m), v.k \in {"bits", "sym"}, NEW w \in Assignments
  PROVE  /\ ValueAt(s, v, w) \in {Bit(0), Bit(1)}
         /\ w \in translate_exp(s, ToExp(v)) <=> ValueAt(s, v, w) = Bit(1)
         /\ v.k = "sym" => v = Symbolic(v.n) /\ ToExp(v) = IsTrue(v.n)
         /\ v.k = "bits" => ValueAt(s, v, w) = v /\ (Holds(v) <=> v = Bit(1))
<1>1. CASE v.k = "sym"
  <2>1. v = Symbolic(v.n) /\ ToExp(v) = IsTrue(v.n)
    BY <1>1 DEF Known, Symbolic, ToExp, IsTrue
  <2> QED BY <1>1, <2>1, SymMeaning
<1>2. CASE v.k = "bits"
  <2>1. v = Bit(v.n) /\ v.n \in {0, 1} /\ ToExp(v) = Lit(v.n) /\ ValueAt(s, v, w) = v
    BY <1>2 DEF Known, Bit, ToExp, Bits, ValueAt
  <2>2. translate_exp(s, Lit(v.n)) = IF v.n = 1 THEN Assignments ELSE {}
    BY DEF translate_exp, atom_meaning, Lit
  <2>3. Holds(v) <=> v.n = 1
    BY <1>2 DEF Holds
  <2>4. v = Bit(1) <=> v.n = 1
    BY <1>2, <2>1 DEF Bit
  <2> QED BY <1>2, <2>1, <2>2, <2>3, <2>4
<1> QED BY <1>1, <1>2

(* The assertion holds for the inputs that are left.                       *)
LEMMA AssertedSims ==
  ASSUME running \in BOOLEAN, running, SolverOK(solver), NEW t, Reaches(solver, t),
         NEW f \in Frames(prog, t.next_var), Shaped(f), NEW u, Leaves(t, u), u.models \subseteq t.models,
         u.next_var = t.next_var, NEW loc \in Names,
         Continue(Advance(AssignAfter(Ok(f, u, Unit), loc))),
         \A w \in solver.models :
           IF w \in u.models THEN StepOf(w) = Assigned(Got(Concrete(f, t, w), Unit), loc)
           ELSE StepOf(w).run \in {"Excluded", "AssertionFailure"}
  PROVE  SimStep
<1> DEFINE b == Ok(f, u, Unit)
           q == Advance(AssignAfter(b, loc))
<1>0. SolverOK(t) /\ SolverOK(u) /\ Reaches(u, u) /\ Keeps(u, u)
  BY SolverTypes, LeavesSelf DEF Reaches, Follows, Leaves
<1>1. Sound(prog, u, b) /\ b.err = "Ok"
  BY <1>0, OkSound, UnitKnown
<1>2. Grows(u, b) /\ \A w : Mirrors(Got(Concrete(f, u, w), Unit), b, w)
  BY <1>0, OkMirrors, UnitAt
<1> HIDE DEF b
<1>3. Sound(prog, u, q)
  BY <1>0, <1>1, AssignAfterSound, AdvanceSound
<1>4. ASSUME NEW w
      PROVE  Grows(u, q) /\ q.err = "Ok" /\ Outcome(q, w) = Assigned(Got(Concrete(f, t, w), Unit), loc)
  <2> DEFINE e == Got(Concrete(f, u, w), Unit)
  <2>1. Mirrors(e, b, w) /\ Concrete(f, u, w) = Concrete(f, t, w)
    BY <1>0, <1>2, LeavesConcrete
  <2>2. e.c.run = "go"
    BY ConcreteFields DEF Got
  <2> HIDE DEF e
  <2>3. Grows(u, q) /\ q.err = b.err /\ Outcome(q, w) = Then(e, Assigned(e, loc))
    BY ONLY <1>0, <1>1, <1>2, <2>1, loc \in Names, AssignedMirrors
  <2>4. Then(e, Assigned(e, loc)) = Assigned(e, loc)
    BY <2>2 DEF Then
  <2> QED BY <1>1, <2>1, <2>3, <2>4 DEF e
<1>5. GoOn(q.f, q.s)
  BY <1>4 DEF Continue, b
<1> HIDE DEF q
<1>6. q.s.models = u.models /\ Shaped(q.f)
  BY <1>3, <1>4 DEF Sound, Reaches, Grows
<1>7. RunsGoOn(q.f, q.s)
  <2> SUFFICES ASSUME NEW w \in solver.models
               PROVE  IF w \in q.s.models THEN StepOf(w) = Concrete(q.f, q.s, w)
                      ELSE StepOf(w).run \in {"Excluded", "AssertionFailure"}
    BY <1>6 DEF RunsGoOn
  <2>1. Outcome(q, w) = Concrete(q.f, q.s, w)
    BY <1>4 DEF Outcome
  <2> QED BY <1>4, <1>6, <2>1
<1>8. running' = TRUE /\ queue' = queue /\ frame' = q.f /\ solver' = q.s
  BY <1>5 DEF GoOn
<1> QED BY <1>7, <1>8 DEF SimStep, SimGoesOn

\* The step of the assertion for an input that it holds for, and for another.
Passes(c, loc) == Assigned(Got(c, Unit), loc)
Fails(op) == IF op = "assume" THEN "Excluded" ELSE "AssertionFailure"

(* What an assertion does with a run.                                      *)
LEMMA PrimopStepIs ==
  ASSUME NEW c, c = [code |-> c.code, pc |-> c.pc, vars |-> c.vars, regs |-> c.regs, lets |-> c.lets,
                     stack |-> c.stack, k |-> c.k, counts |-> c.counts, run |-> c.run, v |-> c.v],
         c.run = "go", NEW x, NEW ins
  PROVE  LET d == Then(Got(c, x), PrimopStep(Got(c, x), ins)) IN
         /\ x = Bit(1) => d = Passes(c, ins.loc)
         /\ x = Bit(0) => d = Ends(c, Fails(ins.op), Unit) /\ d.run = Fails(ins.op)
         /\ x.k # "bits" => d = Ends(c, "Type", Unit)
<1> DEFINE d == Then(Got(c, x), PrimopStep(Got(c, x), ins))
<1>1. d = PrimopStep(Got(c, x), ins) /\ Got(c, x).c = c /\ Got(c, x).v = x
  BY DEF Then, Got
<1>2. x = Bit(1) => PrimopStep(Got(c, x), ins) = Passes(c, ins.loc)
  BY <1>1 DEF PrimopStep, Passes, Bit
<1>3. x = Bit(0) => PrimopStep(Got(c, x), ins) = Ends(c, Fails(ins.op), Unit)
  BY <1>1 DEF PrimopStep, Fails, Bit
<1>4. x.k # "bits" => PrimopStep(Got(c, x), ins) = Ends(c, "Type", Unit)
  BY <1>1 DEF PrimopStep
<1>5. Ends(c, Fails(ins.op), Unit).run = Fails(ins.op)
  BY DEF Ends
<1> QED BY <1>1, <1>2, <1>3, <1>4, <1>5

LEMMA PrimopSims == ASSUME Tracked, PrimopAssert PROVE SimStep
<1>1. At("Primop")
  BY DEF PrimopAssert
<1>2. /\ IsInstr(Instr) /\ Instr.i = "Primop" /\ running /\ running \in BOOLEAN /\ SolverOK(solver)
      /\ \A w : StepOf(w) = InstrStep(prog, Concrete(frame, solver, w), w, Instr)
      /\ \A w \in solver.models : w \in Assignments
  BY <1>1, HereFacts
<1> DEFINE r == eval_exp(frame, solver, Instr.exp)
           op == Instr.op
           loc == Instr.loc
           a == Assert(op, r)
           q == Advance(AssignAfter(a, loc))
           e(w) == Eval(Concrete(frame, solver, w), w, Instr.exp)
<1>3. Continue(q)
  BY DEF PrimopAssert
<1>4. loc \in Names /\ IsExp(Instr.exp) /\ op \in {"assume", "optimistic_assert", "pessimistic_assert"}
  BY <1>2 DEF IsInstr, Names
<1>5. \A w : StepOf(w) = Then(e(w), PrimopStep(e(w), Instr))
  BY <1>2 DEF InstrStep
<1>6. Sound(prog, solver, r) /\ Grows(solver, r) /\ \A w \in solver.models : Mirrors(e(w), r, w)
  BY <1>1, <1>4, ValueHere
<1> HIDE DEF e, r
<1>7. CASE r.err # "Ok"
  <2>1. a = r
    BY <1>7 DEF Assert
  <2>2. q = r
    BY <1>7, <2>1 DEF AssignAfter, Advance
  <2> HIDE DEF q
  <2>3. ASSUME NEW w \in solver.models PROVE StepOf(w) = Outcome(r, w)
    <3>1. e(w).c = Outcome(r, w) /\ e(w).c.run # "go"
      BY <1>6, <1>7, MirrorsFacts DEF Grows
    <3> QED BY <1>5, <3>1 DEF Then
  <2> QED BY <1>2, <1>3, <1>6, <2>2, <2>3, ContinueSims DEF Grows
<1>8. CASE r.err = "Ok"
  <2> DEFINE f == r.f
             t == r.s
             v == r.v
             c(w) == Concrete(f, t, w)
             x(w) == ValueAt(t, v, w)
             bad == Fail(f, t, "AssertionFailure")
             off == Fail(f, t, "Type")
             u == add_event(t, AssertDef(ToExp(v)))
  <2>1. SolverOK(t) /\ f \in Frames(prog, t.next_var) /\ Shaped(f) /\ Keeps(solver, t) /\ Reaches(solver, t)
        /\ v \in Known(t.next_var) /\ t.next_var \in Nat /\ t.models = solver.models
        /\ v.k \in {"bits", "sym", "poison", "unit"}
    BY <1>6, <1>8, SoundFacts, SolverTypes, KnownKinds DEF Grows, Sound, Reaches
  <2>2. ASSUME NEW w \in solver.models
        PROVE  /\ x(w) = Bit(1) => StepOf(w) = Passes(c(w), loc)
               /\ x(w) = Bit(0) => StepOf(w) = Ends(c(w), Fails(op), Unit) /\ StepOf(w).run = Fails(op)
               /\ x(w).k # "bits" => StepOf(w) = Ends(c(w), "Type", Unit)
    <3>1. e(w) = Got(c(w), x(w))
      BY <1>6, <1>8, MirrorsFacts DEF Grows
    <3>2. /\ c(w) = [code |-> c(w).code, pc |-> c(w).pc, vars |-> c(w).vars, regs |-> c(w).regs, lets |-> c(w).lets,
                     stack |-> c(w).stack, k |-> c(w).k, counts |-> c(w).counts, run |-> c(w).run, v |-> c(w).v]
          /\ c(w).run = "go"
      BY ConcreteFields
    <3>3. StepOf(w) = Then(Got(c(w), x(w)), PrimopStep(Got(c(w), x(w)), Instr))
      BY <1>5, <3>1
    <3> HIDE DEF c, x
    <3> QED BY <3>2, <3>3, PrimopStepIs
  <2>3. a = CASE op = "assume" -> assume(f, t, v) [] op = "optimistic_assert" -> optimistic_assert(f, t, v)
              [] op = "pessimistic_assert" -> pessimistic_assert(f, t, v)
    BY <1>4, <1>8 DEF Assert
  <2> HIDE DEF a, f, t, v, op, loc
  <2>4. ASSUME NEW err, err # "Ok", err # "go", a = Fail(f, t, err),
               \A w \in solver.models : StepOf(w) = Ends(c(w), err, Unit)
        PROVE  SimStep
    <3> DEFINE z == Fail(f, t, err)
    <3>1. z.err = err /\ z.f = f /\ z.s = t /\ Sound(prog, solver, z)
      BY <2>1, <2>4, OkSound DEF Fail
    <3>2. q = z
      BY <2>4, <3>1 DEF AssignAfter, Advance
    <3> HIDE DEF z, q
    <3>3. \A w \in solver.models : StepOf(w) = Outcome(z, w)
      BY <2>4, <3>1 DEF Outcome
    <3> QED BY <1>2, <1>3, <2>1, <3>1, <3>2, <3>3, ContinueSims
  <2>5. ASSUME a = Ok(f, t, Unit), \A w \in solver.models : x(w) = Bit(1) PROVE SimStep
    <3>1. Leaves(t, t)
      BY <2>1, LeavesSelf
    <3>2. \A w \in solver.models : StepOf(w) = Assigned(Got(Concrete(f, t, w), Unit), loc)
      BY <2>2, <2>5 DEF Passes
    <3>3. Continue(Advance(AssignAfter(Ok(f, t, Unit), loc)))
      BY <1>3, <2>5
    <3> QED BY <1>2, <1>4, <2>1, <3>1, <3>2, <3>3, AssertedSims
  <2>6. ASSUME a = Ok(f, u, Unit), op # "pessimistic_assert", v.k \in {"bits", "sym"} PROVE SimStep
    <3>1. ToExp(v) \in Terms
      BY <2>1, <2>6, ToExpType
    <3>2. Leaves(t, u)
      BY <2>1, <3>1, AssertLeaves
    <3>3. u.models = t.models \cap translate_exp(t, ToExp(v)) /\ u.next_var = t.next_var
      BY <2>1, <3>1, AssertFacts
    <3> HIDE DEF u
    <3>4. ASSUME NEW w \in solver.models
          PROVE  IF w \in u.models THEN StepOf(w) = Assigned(Got(Concrete(f, t, w), Unit), loc)
                 ELSE StepOf(w).run \in {"Excluded", "AssertionFailure"}
      <4>1. x(w) \in {Bit(0), Bit(1)} /\ (w \in translate_exp(t, ToExp(v)) <=> x(w) = Bit(1))
        BY <1>2, <2>1, <2>6, BitMeaning
      <4> HIDE DEF x
      <4>2. CASE w \in u.models
        BY <2>2, <3>3, <4>1, <4>2 DEF Passes
      <4>3. CASE w \notin u.models
        <5>1. StepOf(w).run = Fails(op)
          BY <2>1, <2>2, <3>3, <4>1, <4>3
        <5> QED BY <4>3, <5>1 DEF Fails
      <4> QED BY <4>2, <4>3
    <3>5. Continue(Advance(AssignAfter(Ok(f, u, Unit), loc)))
      BY <1>3, <2>6
    <3> QED BY <1>2, <1>4, <2>1, <3>2, <3>3, <3>4, <3>5, AssertedSims
  <2>7. CASE v.k \in {"poison", "unit"}
    <3>1. a = Fail(f, t, "Type")
      BY <1>4, <2>3, <2>7 DEF assume, optimistic_assert, pessimistic_assert, op
    <3>2. ASSUME NEW w \in solver.models PROVE StepOf(w) = Ends(c(w), "Type", Unit)
      <4>1. x(w).k # "bits"
        BY <2>7 DEF ValueAt
      <4> QED BY <2>2, <4>1
    <3> QED BY <2>4, <3>1, <3>2
  <2>8. CASE v.k = "bits"
    <3>1. ASSUME NEW w \in solver.models PROVE x(w) = v /\ v \in {Bit(0), Bit(1)} /\ (Holds(v) <=> v = Bit(1))
      BY <1>2, <2>1, <2>8, BitMeaning
    <3>2. v \in {Bit(0), Bit(1)} /\ (Holds(v) <=> v = Bit(1))
      BY <3>1 DEF Tracked
    <3>3. CASE Holds(v)
      <4>1. a = Ok(f, t, Unit)
        BY <1>4, <2>3, <2>8, <3>3 DEF assume, optimistic_assert, pessimistic_assert, op
      <4> QED BY <2>5, <3>1, <3>2, <3>3, <4>1
    <3>4. CASE ~Holds(v) /\ op = "assume"
      <4>1. a = Ok(f, u, Unit)
        BY <2>3, <2>8, <3>4 DEF assume
      <4> QED BY <2>6, <2>8, <3>4, <4>1
    <3>5. CASE ~Holds(v) /\ op # "assume"
      <4>1. a = bad
        BY <1>4, <2>3, <2>8, <3>5 DEF optimistic_assert, pessimistic_assert, op
      <4>2. \A w \in solver.models : StepOf(w) = Ends(c(w), "AssertionFailure", Unit)
        BY <2>2, <3>1, <3>2, <3>5 DEF Fails
      <4> QED BY <2>4, <4>1, <4>2
    <3> QED BY <3>3, <3>4, <3>5
  <2>9. CASE v.k = "sym"
    <3>1. v = Symbolic(v.n) /\ ToExp(v) = IsTrue(v.n) /\ ~Holds(v)
      BY <2>1, <2>9 DEF Known, Symbolic, ToExp, IsTrue, Holds
    <3>2. ASSUME NEW w \in solver.models
          PROVE  /\ x(w) \in {Bit(0), Bit(1)} /\ (w \in translate_exp(t, IsTrue(v.n)) <=> x(w) = Bit(1))
                 /\ (w \in translate_exp(t, IsFalse(v.n)) <=> x(w) = Bit(0))
      BY <1>2, <3>1, SymMeaning
    <3> HIDE DEF x
    <3>3. CASE op = "assume"
      <4>1. a = Ok(f, u, Unit)
        BY <2>3, <2>9, <3>1, <3>3 DEF assume
      <4> QED BY <2>6, <2>9, <3>3, <4>1
    <3>4. CASE op = "optimistic_assert" /\ can_be(t, IsTrue(v.n))
      <4>1. a = Ok(f, u, Unit)
        BY <2>3, <2>9, <3>1, <3>4 DEF optimistic_assert
      <4> QED BY <2>6, <2>9, <3>4, <4>1
    <3>5. CASE op = "optimistic_assert" /\ ~can_be(t, IsTrue(v.n))
      <4>1. a = bad
        BY <2>3, <2>9, <3>5 DEF optimistic_assert
      <4>2. \A w \in solver.models : x(w) = Bit(0)
        BY <2>1, <3>2, <3>5 DEF can_be
      <4>3. \A w \in solver.models : StepOf(w) = Ends(c(w), "AssertionFailure", Unit)
        BY <2>2, <3>5, <4>2 DEF Fails
      <4> QED BY <2>4, <4>1, <4>3
    <3>6. CASE op = "pessimistic_assert" /\ ~can_be(t, IsFalse(v.n))
      <4>1. a = Ok(f, t, Unit)
        BY <2>3, <2>9, <3>6 DEF pessimistic_assert
      <4>2. \A w \in solver.models : x(w) = Bit(1)
        BY <2>1, <3>2, <3>6 DEF can_be
      <4> QED BY <2>5, <4>1, <4>2
    <3>7. CASE op = "pessimistic_assert" /\ can_be(t, IsFalse(v.n))
      <4>1. a = bad
        BY <2>3, <2>9, <3>7 DEF pessimistic_assert
      <4>2. bad.err = "AssertionFailure" /\ bad.f = f /\ bad.s = t
        BY DEF Fail
      <4> HIDE DEF bad
      <4>3. q = bad
        BY <4>1, <4>2 DEF AssignAfter, Advance
      <4> HIDE DEF q
      <4>4. Collect(f, t, "AssertionFailure", Unit)
        BY <1>3, <4>2, <4>3 DEF Continue
      <4> DEFINE y == [run |-> "AssertionFailure", v |-> Unit, models |-> t.models, trace |-> to_vec(t), frac |-> frac]
      <4>5. collected' = Append(collected, y) /\ running' = FALSE
        BY <4>4 DEF Collect
      <4>6. y.run = "AssertionFailure" /\ y.models = solver.models
        BY <2>1
      <4> HIDE DEF y
      <4>7. \E w \in solver.models : x(w) = Bit(0)
        BY <2>1, <3>2, <3>7 DEF can_be
      <4>8. \E w \in solver.models : StepOf(w).run = "AssertionFailure"
        BY <2>2, <3>7, <4>7 DEF Fails
      <4>9. RunsEnd(y, frame', solver')
        BY <4>6, <4>8 DEF RunsEnd
      <4> QED BY <4>5, <4>9 DEF SimStep, SimEnds
    <3> QED BY <1>4, <3>3, <3>4, <3>5, <3>6, <3>7 DEF op
  <2> QED BY <2>1, <2>7, <2>8, <2>9
<1> QED BY <1>7, <1>8

-----------------------------------------------------------------------------
(* Calls and returns.                                                      *)

\* A caller that waits, for an input, and the variables of a function that starts.
Waiting(k, l, s, w) == [code |-> k.code, pc |-> k.pc, vars |-> ValuesAt(s, l, w), loc |-> k.loc]
CallOf(f, loc) == [pc |-> f.pc, code |-> f.code, loc |-> loc]
CallerOf(f) == [fn |-> f.fn, pc |-> f.pc]
Params(arg) == [x \in {"return", "a"} |-> IF x = "a" THEN arg ELSE Uninit]

(* The stack of callers grows ...                                          *)
LEMMA StackGrows ==
  ASSUME NEW K, NEW calls \in Seq(K), NEW L, NEW stack \in Seq(L), Len(stack) = Len(calls),
         NEW k \in K, NEW l \in L, NEW s, NEW w
  PROVE  StackAt(Append(calls, k), Append(stack, l), s, w) = Append(StackAt(calls, stack, s, w), Waiting(k, l, s, w))
<1> DEFINE W == [code : {calls[n].code : n \in 1..Len(calls)} \cup {k.code}, x : {1}]
           st == StackAt(calls, stack, s, w)
           new == StackAt(Append(calls, k), Append(stack, l), s, w)
           n == Len(calls)
           item(j) == Waiting(calls[j], stack[j], s, w)
<1>1. n \in Nat /\ st = [j \in 1..n |-> item(j)]
  BY DEF StackAt, Waiting
<1>2. st \in Seq({item(j) : j \in 1..n}) /\ Len(st) = n
  <2> HIDE DEF st, item, n
  <2> QED BY <1>1
<1>3. Append(st, Waiting(k, l, s, w)) = [j \in 1..(n + 1) |-> IF j = n + 1 THEN Waiting(k, l, s, w) ELSE st[j]]
  <2> DEFINE x == Waiting(k, l, s, w)
  <2> HIDE DEF st, item, n, x
  <2> QED BY <1>1, <1>2
<1>4. /\ Len(Append(calls, k)) = n + 1
      /\ \A j \in 1..n : Append(calls, k)[j] = calls[j] /\ Append(stack, l)[j] = stack[j]
      /\ Append(calls, k)[n + 1] = k /\ Append(stack, l)[n + 1] = l
  OBVIOUS
<1>5. new = [j \in 1..(n + 1) |-> Waiting(Append(calls, k)[j], Append(stack, l)[j], s, w)]
  <2> DEFINE A == Append(calls, k)
             B == Append(stack, l)
  <2> HIDE DEF A, B, n
  <2>1. StackAt(A, B, s, w) = [j \in 1..Len(A) |-> Waiting(A[j], B[j], s, w)]
    BY DEF StackAt, Waiting
  <2> QED BY <1>4, <2>1 DEF A, B
<1> HIDE DEF n, new
<1>6. \A j \in 1..(n + 1) : Waiting(Append(calls, k)[j], Append(stack, l)[j], s, w)
                            = IF j = n + 1 THEN Waiting(k, l, s, w) ELSE st[j]
  <2> SUFFICES ASSUME NEW j \in 1..(n + 1)
               PROVE  Waiting(Append(calls, k)[j], Append(stack, l)[j], s, w)
                      = IF j = n + 1 THEN Waiting(k, l, s, w) ELSE st[j]
    OBVIOUS
  <2> HIDE DEF st
  <2>1. j # n + 1 => j \in 1..n
    BY <1>1
  <2>2. j \in 1..n => st[j] = item(j)
    BY <1>1
  <2> QED BY <1>4, <2>1, <2>2
<1> QED BY <1>3, <1>5, <1>6 DEF new

(* ... and shrinks.                                                        *)
LEMMA StackShrinks ==
  ASSUME NEW K, NEW calls \in Seq(K), NEW L, NEW stack \in Seq(L), Len(stack) = Len(calls), calls # <<>>,
         NEW s, NEW w
  PROVE  LET n == Len(calls)
             st == StackAt(calls, stack, s, w) IN
         /\ n \in Nat \ {0} /\ Len(st) = n /\ st # <<>> /\ st[n] = Waiting(calls[n], stack[n], s, w)
         /\ StackAt(SubSeq(calls, 1, n - 1), SubSeq(stack, 1, n - 1), s, w) = SubSeq(st, 1, n - 1)
<1> DEFINE n == Len(calls)
           st == StackAt(calls, stack, s, w)
           item(j) == Waiting(calls[j], stack[j], s, w)
           A == SubSeq(calls, 1, n - 1)
           B == SubSeq(stack, 1, n - 1)
<1>1. n \in Nat /\ n # 0 /\ st = [j \in 1..n |-> item(j)]
  BY DEF StackAt, Waiting
<1>2. st \in Seq({item(j) : j \in 1..n}) /\ Len(st) = n
  <2>1. st \in [1..n -> {item(j) : j \in 1..n}]
    BY <1>1
  <2>2. ASSUME NEW N \in Nat, NEW S, NEW z \in [1..N -> S] PROVE z \in Seq(S) /\ Len(z) = N
    OBVIOUS
  <2> HIDE DEF st, item, n
  <2> QED BY <1>1, <2>1, <2>2
<1>3. Len(A) = n - 1 /\ \A j \in 1..(n - 1) : A[j] = calls[j] /\ B[j] = stack[j]
  BY <1>1
<1>4. SubSeq(st, 1, n - 1) = [j \in 1..(n - 1) |-> item(j)]
  <2> HIDE DEF st, item, n
  <2>1. SubSeq(st, 1, n - 1) = [j \in 1..(n - 1) |-> st[j]]
    BY <1>1, <1>2
  <2>2. \A j \in 1..(n - 1) : st[j] = item(j)
    BY <1>1
  <2> QED BY <2>1, <2>2
<1>5. StackAt(A, B, s, w) = [j \in 1..(n - 1) |-> item(j)]
  <2> HIDE DEF A, B, n
  <2>1. StackAt(A, B, s, w) = [j \in 1..Len(A) |-> Waiting(A[j], B[j], s, w)]
    BY DEF StackAt, Waiting
  <2> QED BY <1>3, <2>1
<1> HIDE DEF st, n
<1>6. st[n] = item(n)
  <2>1. n \in 1..n
    BY <1>1
  <2> QED BY <1>1, <2>1
<1>7. st # <<>>
  <2> HIDE DEF item
  <2> QED BY <1>1, <1>2
<1> QED BY <1>1, <1>2, <1>4, <1>5, <1>6, <1>7 DEF st, n

LEMMA EnterFields ==
  ASSUME NEW p, NEW m, NEW f \in Frames(p, m), NEW callee, NEW loc, NEW arg
  PROVE  LET g == Enter(f, callee, loc, arg) IN
         /\ g.fn = callee /\ g.code = callee /\ g.pc = 1 /\ g.regs = f.regs /\ g.lets = f.lets
         /\ g.pc_counts = f.pc_counts /\ g.vars = Params(arg)
         /\ g.stack_vars = Append(f.stack_vars, f.vars)
         /\ g.calls = Append(f.calls, CallOf(f, loc))
         /\ g.backtrace = Append(f.backtrace, CallerOf(f))
<1> DEFINE h == push_call_stack(f)
           g == Enter(f, callee, loc, arg)
           k == CallOf(f, loc)
           b == CallerOf(f)
           l == Bind(Bind(NoLocals, "return", Uninit), "a", arg)
           sv == Append(f.stack_vars, f.vars)
           h1 == [f EXCEPT !.stack_vars = sv]
<1>1. f = [fn |-> f.fn, code |-> f.code, pc |-> f.pc, forks |-> f.forks, vars |-> f.vars, regs |-> f.regs,
           lets |-> f.lets, stack_vars |-> f.stack_vars, calls |-> f.calls, backtrace |-> f.backtrace,
           pc_counts |-> f.pc_counts]
  BY DEF Frames
<1>2. h = [fn |-> f.fn, code |-> f.code, pc |-> f.pc, forks |-> f.forks, vars |-> NoLocals, regs |-> f.regs,
           lets |-> f.lets, stack_vars |-> Append(f.stack_vars, f.vars), calls |-> f.calls,
           backtrace |-> f.backtrace, pc_counts |-> f.pc_counts]
  <2> HIDE DEF sv
  <2>1. h1 = [fn |-> f.fn, code |-> f.code, pc |-> f.pc, forks |-> f.forks, vars |-> f.vars, regs |-> f.regs,
              lets |-> f.lets, stack_vars |-> sv, calls |-> f.calls, backtrace |-> f.backtrace,
              pc_counts |-> f.pc_counts]
    BY <1>1
  <2>2. h = [h1 EXCEPT !.vars = NoLocals]
    BY DEF push_call_stack, NoLocals, sv
  <2> HIDE DEF h, h1
  <2> QED BY <2>1, <2>2 DEF sv
<1>3. g = [h EXCEPT !.backtrace = Append(@, b), !.calls = Append(@, k), !.fn = callee, !.code = callee,
                    !.pc = 1, !.vars = Bind(Bind(@, "return", Uninit), "a", arg)]
  BY DEF Enter, CallOf, CallerOf
<1> HIDE DEF h, k, b, g
<1>4. g = [fn |-> callee, code |-> callee, pc |-> 1, forks |-> f.forks, vars |-> l, regs |-> f.regs,
           lets |-> f.lets, stack_vars |-> Append(f.stack_vars, f.vars), calls |-> Append(f.calls, k),
           backtrace |-> Append(f.backtrace, b), pc_counts |-> f.pc_counts]
  <2> HIDE DEF l
  <2>1. l = Bind(Bind(h.vars, "return", Uninit), "a", arg)
    BY <1>2 DEF l
  <2> QED BY <1>2, <1>3, <2>1
<1>5. l = Params(arg)
  BY DEF Bind, NoLocals, Params
<1> HIDE DEF l
<1>6. /\ g.fn = callee /\ g.code = callee /\ g.pc = 1 /\ g.regs = f.regs /\ g.lets = f.lets
      /\ g.pc_counts = f.pc_counts /\ g.vars = l
      /\ g.stack_vars = Append(f.stack_vars, f.vars) /\ g.calls = Append(f.calls, k)
      /\ g.backtrace = Append(f.backtrace, b)
  BY ONLY <1>4
<1> QED BY <1>5, <1>6 DEF g, k, b

(* A function is entered.                                                  *)
LEMMA EnterMirrors ==
  ASSUME NEW p, NEW m, NEW f \in Frames(p, m), Shaped(f), NEW callee, NEW loc, NEW arg,
         loc \in Names, NEW s, NEW w
  PROVE  LET g == Enter(f, callee, loc, arg) IN
         Shaped(g) /\ Concrete(g, s, w) = EnterAt(Concrete(f, s, w), callee, loc, ValueAt(s, arg, w))
<1> DEFINE g == Enter(f, callee, loc, arg)
           c == Concrete(f, s, w)
           k == CallOf(f, loc)
           b == CallerOf(f)
           x == ValueAt(s, arg, w)
           st == [code |-> c.code, pc |-> c.pc, vars |-> c.vars, loc |-> loc]
<1>1. /\ g.fn = callee /\ g.code = callee /\ g.pc = 1 /\ g.regs = f.regs /\ g.lets = f.lets
      /\ g.pc_counts = f.pc_counts /\ g.vars = Params(arg)
      /\ g.stack_vars = Append(f.stack_vars, f.vars) /\ g.calls = Append(f.calls, k)
      /\ g.backtrace = Append(f.backtrace, b)
  BY ONLY f \in Frames(p, m), EnterFields
<1>2. /\ f.calls \in Seq(Closures(p)) /\ f.stack_vars \in Seq(Locals(m)) /\ f.backtrace \in Seq(Callers)
      /\ k \in Closures(p) /\ f.vars \in Locals(m) /\ b \in Callers
  BY FrameFields DEF Closures, Callers, CallOf, CallerOf
<1>3. /\ c = [code |-> c.code, pc |-> c.pc, vars |-> c.vars, regs |-> c.regs, lets |-> c.lets,
              stack |-> c.stack, k |-> c.k, counts |-> c.counts, run |-> c.run, v |-> c.v]
      /\ c.run = "go" /\ c.code = f.code /\ c.pc = f.pc /\ c.k = s.consts /\ c.counts = f.pc_counts
      /\ c.v = Unit /\ c.vars = ValuesAt(s, f.vars, w) /\ c.regs = ValuesAt(s, f.regs, w)
      /\ c.lets = ValuesAt(s, f.lets, w) /\ c.stack = StackAt(f.calls, f.stack_vars, s, w)
  BY ConcreteFields
<1>4. ValuesAt(s, Params(arg), w) = Params(x)
  BY DEF ValuesAt, Params, ValueAt, Uninit
<1>5. Waiting(k, f.vars, s, w) = st
  BY <1>3 DEF Waiting, CallOf
<1>6. b.fn = k.code
  BY DEF Shaped, CallOf, CallerOf
<1> HIDE DEF g, c, k, b, x
<1>7. StackAt(g.calls, g.stack_vars, s, w) = Append(c.stack, st)
  BY <1>1, <1>2, <1>3, <1>5, StackGrows DEF Shaped
<1> HIDE DEF st
<1>8. Concrete(g, s, w) = [code |-> callee, pc |-> 1, vars |-> Params(x), regs |-> c.regs, lets |-> c.lets,
                           stack |-> Append(c.stack, st), k |-> c.k, counts |-> c.counts, run |-> c.run, v |-> c.v]
  BY <1>1, <1>3, <1>4, <1>7 DEF Concrete
<1>9. EnterAt(c, callee, loc, x) = [c EXCEPT !.stack = Append(@, st), !.code = callee, !.pc = 1, !.vars = Params(x)]
  BY DEF EnterAt, Params, st
<1>10. EnterAt(c, callee, loc, x) = Concrete(g, s, w)
  BY <1>3, <1>8, <1>9
<1>11. Shaped(g)
  <2>1. Len(f.stack_vars) = Len(f.calls) /\ Len(f.backtrace) = Len(f.calls)
        /\ \A n \in 1..Len(f.calls) : f.backtrace[n].fn = f.calls[n].code
    BY DEF Shaped
  <2>2. Len(g.stack_vars) = Len(g.calls) /\ Len(g.backtrace) = Len(g.calls)
    BY <1>1, <1>2, <2>1
  <2>3. \A n \in 1..Len(g.calls) : g.backtrace[n].fn = g.calls[n].code
    BY <1>1, <1>2, <1>6, <2>1
  <2> QED BY <1>1, <2>2, <2>3 DEF Shaped
<1> QED BY <1>10, <1>11 DEF g, c, x

LEMMA RestoreFields ==
  ASSUME NEW p, NEW m, NEW f \in Frames(p, m), Shaped(f), f.calls # <<>>
  PROVE  LET n == Len(f.calls)
             g == Restore(f, f.calls[n]) IN
         /\ n \in Nat \ {0}
         /\ g.fn = f.backtrace[n].fn /\ g.code = f.calls[n].code /\ g.pc = f.calls[n].pc + 1
         /\ g.regs = f.regs /\ g.lets = f.lets /\ g.pc_counts = f.pc_counts /\ g.vars = f.stack_vars[n]
         /\ g.stack_vars = SubSeq(f.stack_vars, 1, n - 1) /\ g.calls = SubSeq(f.calls, 1, n - 1)
         /\ g.backtrace = SubSeq(f.backtrace, 1, n - 1)
<1> DEFINE n == Len(f.calls)
           k == f.calls[n]
           sv == SubSeq(f.stack_vars, 1, n - 1)
           b == SubSeq(f.backtrace, 1, n - 1)
           h1 == [f EXCEPT !.vars = f.stack_vars[n]]
           h == pop_call_stack(f)
           g == Restore(f, k)
<1>1. f = [fn |-> f.fn, code |-> f.code, pc |-> f.pc, forks |-> f.forks, vars |-> f.vars, regs |-> f.regs,
           lets |-> f.lets, stack_vars |-> f.stack_vars, calls |-> f.calls, backtrace |-> f.backtrace,
           pc_counts |-> f.pc_counts]
  BY DEF Frames
<1>2. f.calls \in Seq(Closures(p)) /\ f.stack_vars \in Seq(Locals(m)) /\ f.backtrace \in Seq(Callers)
  BY FrameFields
<1>3. n \in Nat \ {0} /\ Len(f.stack_vars) = n /\ Len(f.backtrace) = n
  BY <1>2 DEF Shaped
<1>4. f.stack_vars # <<>> /\ f.backtrace # <<>>
  BY <1>2, <1>3
<1>5. h1 = [fn |-> f.fn, code |-> f.code, pc |-> f.pc, forks |-> f.forks, vars |-> f.stack_vars[n], regs |-> f.regs,
            lets |-> f.lets, stack_vars |-> f.stack_vars, calls |-> f.calls, backtrace |-> f.backtrace,
            pc_counts |-> f.pc_counts]
  BY <1>1
<1>6. h = [h1 EXCEPT !.stack_vars = sv]
  BY <1>3, <1>4, <1>5 DEF pop_call_stack
<1> HIDE DEF h, h1, sv
<1>7. h = [fn |-> f.fn, code |-> f.code, pc |-> f.pc, forks |-> f.forks, vars |-> f.stack_vars[n], regs |-> f.regs,
           lets |-> f.lets, stack_vars |-> sv, calls |-> f.calls, backtrace |-> f.backtrace,
           pc_counts |-> f.pc_counts]
  BY <1>5, <1>6
<1>8. g = [h EXCEPT !.fn = f.backtrace[n].fn, !.backtrace = b, !.pc = k.pc + 1, !.code = k.code,
                    !.calls = SubSeq(f.calls, 1, n - 1)]
  <2>1. g = [h EXCEPT !.fn = IF f.backtrace = <<>> THEN @ ELSE f.backtrace[Len(f.backtrace)].fn,
                      !.backtrace = IF @ = <<>> THEN @ ELSE SubSeq(@, 1, Len(@) - 1),
                      !.pc = k.pc + 1, !.code = k.code, !.calls = SubSeq(@, 1, Len(@) - 1)]
    BY DEF Restore, h
  <2>2. h.backtrace = f.backtrace /\ h.calls = f.calls
    BY <1>7
  <2> HIDE DEF g, k, n
  <2> QED BY <1>3, <1>4, <2>1, <2>2 DEF n
<1> DEFINE A == f.backtrace[n].fn
           B == k.pc + 1
           C == k.code
           D == SubSeq(f.calls, 1, n - 1)
           E == f.stack_vars[n]
<1> HIDE DEF g, b, A, B, C, D, E
<1>9. g = [fn |-> A, code |-> C, pc |-> B, forks |-> f.forks, vars |-> E,
           regs |-> f.regs, lets |-> f.lets, stack_vars |-> sv, calls |-> D,
           backtrace |-> b, pc_counts |-> f.pc_counts]
  BY <1>7, <1>8 DEF A, B, C, D, E
<1>10. /\ g.fn = A /\ g.code = C /\ g.pc = B /\ g.regs = f.regs /\ g.lets = f.lets
       /\ g.pc_counts = f.pc_counts /\ g.vars = E /\ g.stack_vars = sv /\ g.calls = D /\ g.backtrace = b
  BY ONLY <1>9
<1> QED BY <1>3, <1>10 DEF g, b, sv, A, B, C, D, E

(* The caller goes on as it was.                                           *)
LEMMA RestoreMirrors ==
  ASSUME NEW p, NEW m, NEW f \in Frames(p, m), Shaped(f), f.calls # <<>>, NEW s, NEW w
  PROVE  LET n == Len(f.calls)
             g == Restore(f, f.calls[n])
             c == Concrete(f, s, w) IN
         /\ Shaped(g) /\ c.stack # <<>> /\ Len(c.stack) = n /\ c.stack[n].loc = f.calls[n].loc
         /\ Concrete(g, s, w) = Resumed(c, c.stack[n])
<1> DEFINE n == Len(f.calls)
           g == Restore(f, f.calls[n])
           c == Concrete(f, s, w)
           top == c.stack[n]
<1>1. /\ n \in Nat \ {0}
      /\ g.fn = f.backtrace[n].fn /\ g.code = f.calls[n].code /\ g.pc = f.calls[n].pc + 1
      /\ g.regs = f.regs /\ g.lets = f.lets /\ g.pc_counts = f.pc_counts /\ g.vars = f.stack_vars[n]
      /\ g.stack_vars = SubSeq(f.stack_vars, 1, n - 1) /\ g.calls = SubSeq(f.calls, 1, n - 1)
      /\ g.backtrace = SubSeq(f.backtrace, 1, n - 1)
  BY ONLY f \in Frames(p, m), Shaped(f), f.calls # <<>>, RestoreFields
<1>2. f.calls \in Seq(Closures(p)) /\ f.stack_vars \in Seq(Locals(m)) /\ f.backtrace \in Seq(Callers)
  BY FrameFields
<1>3. /\ Len(f.stack_vars) = n /\ Len(f.backtrace) = n
      /\ \A j \in 1..n : f.backtrace[j].fn = f.calls[j].code
  BY DEF Shaped
<1>4. /\ c = [code |-> c.code, pc |-> c.pc, vars |-> c.vars, regs |-> c.regs, lets |-> c.lets,
              stack |-> c.stack, k |-> c.k, counts |-> c.counts, run |-> c.run, v |-> c.v]
      /\ c.run = "go" /\ c.k = s.consts /\ c.counts = f.pc_counts
      /\ c.v = Unit /\ c.regs = ValuesAt(s, f.regs, w)
      /\ c.lets = ValuesAt(s, f.lets, w) /\ c.stack = StackAt(f.calls, f.stack_vars, s, w)
  BY ConcreteFields
<1> HIDE DEF g, c, n
<1>5. /\ Len(c.stack) = n /\ c.stack # <<>> /\ top = Waiting(f.calls[n], f.stack_vars[n], s, w)
      /\ StackAt(g.calls, g.stack_vars, s, w) = SubSeq(c.stack, 1, n - 1)
  BY <1>1, <1>2, <1>3, <1>4, StackShrinks DEF n
<1> HIDE DEF top
<1>6. top.code = f.calls[n].code /\ top.pc = f.calls[n].pc /\ top.vars = ValuesAt(s, f.stack_vars[n], w)
      /\ top.loc = f.calls[n].loc
  BY <1>5 DEF Waiting
<1>7. Shaped(g)
  <2>1. Len(g.stack_vars) = n - 1 /\ Len(g.calls) = n - 1 /\ Len(g.backtrace) = n - 1
    BY <1>1, <1>2, <1>3 DEF n
  <2>2. \A j \in 1..(n - 1) : g.backtrace[j] = f.backtrace[j] /\ g.calls[j] = f.calls[j]
    BY <1>1, <1>2, <1>3 DEF n
  <2>3. \A j \in 1..(n - 1) : g.backtrace[j].fn = g.calls[j].code
    BY <1>1, <1>3, <2>2
  <2> QED BY <1>1, <1>3, <2>1, <2>3 DEF Shaped
<1>8. Concrete(g, s, w) = [code |-> top.code, pc |-> top.pc + 1, vars |-> top.vars, regs |-> c.regs,
                           lets |-> c.lets, stack |-> SubSeq(c.stack, 1, n - 1), k |-> c.k,
                           counts |-> c.counts, run |-> c.run, v |-> c.v]
  BY <1>1, <1>4, <1>5, <1>6 DEF Concrete
<1>9. Resumed(c, top) = [c EXCEPT !.code = top.code, !.pc = top.pc + 1, !.vars = top.vars,
                                  !.stack = SubSeq(@, 1, n - 1)]
  BY <1>4, <1>5 DEF Resumed
<1>10. Resumed(c, top) = Concrete(g, s, w)
  BY <1>4, <1>8, <1>9
<1> QED BY <1>5, <1>6, <1>7, <1>10 DEF g, c, n, top

(* A function that was called returns.                                     *)
LEMMA ReturnMirrors ==
  ASSUME NEW p, NEW s, SolverOK(s), NEW f \in Frames(p, s.next_var), Shaped(f), f.calls # <<>>,
         NEW v \in Known(s.next_var), NEW w
  PROVE  LET q == Return(f, s, v) IN
         Shaped(q.f) /\ q.err = "Ok" /\ Concrete(q.f, q.s, w) = ReturnTo(Concrete(f, s, w), ValueAt(s, v, w))
<1> DEFINE n == Len(f.calls)
           k == f.calls[n]
           g == Restore(f, k)
           c == Concrete(f, s, w)
           x == ValueAt(s, v, w)
           q == Return(f, s, v)
<1>1. /\ Shaped(g) /\ c.stack # <<>> /\ Len(c.stack) = n /\ c.stack[n].loc = k.loc
      /\ Concrete(g, s, w) = Resumed(c, c.stack[n])
  BY ONLY f \in Frames(p, s.next_var), Shaped(f), f.calls # <<>>, RestoreMirrors
<1>2. g \in Frames(p, s.next_var) /\ k.loc \in Names
  BY RestoreFrames
<1>3. q = assign(g, s, k.loc, v)
  BY DEF Return
<1>4. q.err = "Ok"
  BY ReturnSound
<1> HIDE DEF g, k, q, c, x, n
<1>5. Shaped(q.f) /\ Concrete(q.f, q.s, w) = Write(Concrete(g, s, w), k.loc, x)
  <2> DEFINE loc == k.loc
             a == assign(g, s, loc, v)
  <2> HIDE DEF loc
  <2>1. SolverOK(s) /\ g \in Frames(p, s.next_var) /\ Shaped(g) /\ v \in Known(s.next_var) /\ loc \in Names
    BY <1>1, <1>2 DEF loc
  <2>2. /\ Leaves(s, a.s) /\ Shaped(a.f)
        /\ Concrete(a.f, a.s, w) = Write(Concrete(g, s, w), loc, ValueAt(s, v, w))
    BY ONLY <2>1, assignMirrors
  <2>3. q = a
    BY <1>3 DEF loc
  <2> HIDE DEF a
  <2> QED BY <2>2, <2>3 DEF loc, x
<1>6. ReturnTo(c, x) = Write(Resumed(c, c.stack[n]), k.loc, x)
  BY <1>1 DEF ReturnTo
<1> QED BY <1>1, <1>4, <1>5, <1>6 DEF q, c, x

(* The end of a run, in its fields.                                        *)
LEMMA EndsFields ==
  ASSUME NEW f, NEW s, NEW w, NEW run, NEW v
  PROVE  LET d == Ends(Concrete(f, s, w), run, v) IN
         d.run = run /\ d.v = v /\ d.regs = ValuesAt(s, f.regs, w)
<1> DEFINE c == Concrete(f, s, w)
<1>1. c = [code |-> c.code, pc |-> c.pc, vars |-> c.vars, regs |-> c.regs, lets |-> c.lets,
           stack |-> c.stack, k |-> c.k, counts |-> c.counts, run |-> c.run, v |-> c.v]
      /\ c.regs = ValuesAt(s, f.regs, w)
  BY ConcreteFields
<1> HIDE DEF c
<1>2. Ends(c, run, v).run = run /\ Ends(c, run, v).v = v /\ Ends(c, run, v).regs = c.regs
  BY <1>1 DEF Ends
<1> QED BY <1>1, <1>2 DEF c

(* A function ends.                                                        *)
LEMMA LeaveSims ==
  ASSUME running \in BOOLEAN, running, SolverOK(solver), NEW t, Reaches(solver, t),
         NEW f \in Frames(prog, t.next_var), Shaped(f), NEW v \in Known(t.next_var), LeaveTraced(f, t, v),
         \A w \in solver.models : StepOf(w) = ReturnTo(Concrete(f, t, w), ValueAt(t, v, w))
  PROVE  SimStep
<1> DEFINE u == TraceEvent(t, "return", f.fn)
<1>1. SolverOK(t) /\ f.fn \in Names /\ f.calls \in Seq(Closures(prog))
  BY FrameFields DEF Reaches, Follows
<1>2. Leaves(t, u) /\ Reaches(t, u) /\ u.next_var = t.next_var
  BY <1>1, TraceLeaves, TraceEventReaches
<1>3. IF f.calls = <<>> THEN Collect(f, u, "Finished", v) ELSE Continue(Return(f, u, v))
  BY DEF LeaveTraced, Leave
<1> HIDE DEF u
<1>4. Reaches(solver, u) /\ SolverOK(u)
  BY <1>2, FollowsTrans DEF Reaches, Leaves
<1>5. ASSUME NEW w PROVE Concrete(f, u, w) = Concrete(f, t, w) /\ ValueAt(u, v, w) = ValueAt(t, v, w)
  <2>1. Concrete(f, u, w) = Concrete(f, t, w)
    <3>1. SolverOK(t) /\ Leaves(t, u) /\ f \in Frames(prog, t.next_var) /\ Shaped(f)
      BY <1>1, <1>2
    <3> QED BY ONLY <3>1, LeavesConcrete
  <2>2. v \in Value(t.next_var) /\ Keeps(t, u)
    BY <1>2 DEF Value, Leaves
  <2> QED BY <1>1, <2>1, <2>2, ValueKept
<1>6. CASE f.calls = <<>>
  <2>1. ASSUME NEW w \in solver.models
        PROVE  /\ StepOf(w).run = "Finished" /\ StepOf(w).v = ValueAt(u, v, w)
               /\ StepOf(w).regs = ValuesAt(u, f.regs, w)
    <3> DEFINE c == Concrete(f, u, w)
               x == ValueAt(u, v, w)
    <3>1. c.stack = <<>>
      <4>1. c.stack = StackAt(f.calls, f.stack_vars, u, w)
        BY ConcreteFields
      <4>2. Len(f.calls) = 0
        BY <1>6
      <4> QED BY <4>1, <4>2 DEF StackAt
    <3>2. StepOf(w) = ReturnTo(c, x)
      BY <1>5
    <3>3. ReturnTo(c, x) = Ends(c, "Finished", x)
      BY <3>1 DEF ReturnTo
    <3> QED BY <3>2, <3>3, EndsFields
  <2>2. Collect(f, u, "Finished", v)
    BY <1>3, <1>6
  <2> QED BY <1>4, <2>1, <2>2, CollectSims
<1>7. CASE f.calls # <<>>
  <2> DEFINE q == Return(f, u, v)
  <2>1. f \in Frames(prog, u.next_var) /\ v \in Known(u.next_var)
    BY <1>2
  <2>2. Sound(prog, u, q)
    BY <1>4, <1>7, <2>1, ReturnSound
  <2>3. Sound(prog, solver, q)
    BY <1>4, <2>2, SoundTrans
  <2>4. ASSUME NEW w
        PROVE  Shaped(q.f) /\ q.err = "Ok" /\ Concrete(q.f, q.s, w) = ReturnTo(Concrete(f, u, w), ValueAt(u, v, w))
    BY ONLY <1>4, <1>7, <2>1, Shaped(f), ReturnMirrors
  <2>5. Continue(q)
    BY <1>3, <1>7
  <2> HIDE DEF q
  <2>6. \A w \in solver.models : StepOf(w) = Outcome(q, w)
    BY <1>5, <2>4 DEF Outcome
  <2> QED BY <2>3, <2>4, <2>5, <2>6, ContinueSims
<1> QED BY <1>6, <1>7

LEMMA EndSims == ASSUME Tracked, End PROVE SimStep
<1>1. At("End")
  BY DEF End
<1>2. /\ IsInstr(Instr) /\ Instr.i = "End" /\ running /\ running \in BOOLEAN /\ SolverOK(solver)
      /\ frame \in Frames(prog, solver.next_var) /\ Shaped(frame) /\ Reaches(solver, solver)
      /\ \A w : StepOf(w) = InstrStep(prog, Concrete(frame, solver, w), w, Instr)
      /\ \A w \in solver.models : w \in Assignments
  BY <1>1, HereFacts
<1> DEFINE v == frame.vars["return"]
           c(w) == Concrete(frame, solver, w)
<1>3. \A w : StepOf(w) = EndStep(c(w), w)
  BY <1>2 DEF InstrStep
<1>4. v \in Value(solver.next_var) /\ "return" \in DOMAIN frame.vars
  BY <1>2, FrameFields, LocalFacts
<1>5. ASSUME NEW w PROVE c(w).vars["return"] = ValueAt(solver, v, w)
  <2>1. c(w).vars = ValuesAt(solver, frame.vars, w)
    BY ConcreteFields
  <2> QED BY <1>4, <2>1 DEF ValuesAt
<1>6. CASE v = Uninit
  <2> DEFINE u == declare_const(solver)
             y == Symbolic(solver.next_var)
             r == symbolic(frame, solver)
  <2>1. LeaveTraced(frame, u, y)
    BY <1>6 DEF End
  <2>2. Sound(prog, solver, r) /\ r.err = "Ok" /\ r.f = frame /\ r.s = u /\ r.v = y /\ y \in Known(u.next_var)
    BY <1>2, symbolicSound
  <2>3. Reaches(solver, u) /\ frame \in Frames(prog, u.next_var)
    BY <2>2, SoundFacts
  <2>4. ASSUME NEW w \in solver.models PROVE StepOf(w) = ReturnTo(Concrete(frame, u, w), ValueAt(u, y, w))
    <3>1. Mirrors(Fresh(c(w), w), r, w) /\ Grows(solver, r)
      BY <1>2, symbolicMirrors
    <3>2. Fresh(c(w), w).c = Concrete(frame, u, w) /\ Fresh(c(w), w).v = ValueAt(u, y, w)
      <4> HIDE DEF r, u, y, c
      <4> QED BY <2>2, <3>1, MirrorsFacts DEF Grows
    <3>3. c(w).vars["return"] = Uninit
      BY <1>4, <1>5, <1>6, UninitAt
    <3> HIDE DEF c, u, y
    <3>4. EndStep(c(w), w) = ReturnTo(Fresh(c(w), w).c, Fresh(c(w), w).v)
      BY <3>3 DEF EndStep
    <3> QED BY <1>3, <3>2, <3>4
  <2> HIDE DEF u, y
  <2> QED BY <1>2, <2>1, <2>2, <2>3, <2>4, LeaveSims
<1>7. CASE v # Uninit
  <2>1. LeaveTraced(frame, solver, v)
    BY <1>7 DEF End
  <2>2. v \in Known(solver.next_var)
    BY <1>4, <1>7 DEF Value
  <2>3. ASSUME NEW w \in solver.models PROVE StepOf(w) = ReturnTo(c(w), ValueAt(solver, v, w))
    <3>1. c(w).vars["return"] # Uninit
      BY <1>4, <1>5, <1>7, UninitAt
    <3> HIDE DEF c
    <3> QED BY <1>3, <1>5, <3>1 DEF EndStep
  <2> HIDE DEF v
  <2> QED BY <1>2, <2>1, <2>2, <2>3, LeaveSims
<1> QED BY <1>6, <1>7

LEMMA ArbitrarySims == ASSUME Tracked, Arbitrary PROVE SimStep
<1>1. At("Arbitrary") /\ LeaveTraced(frame, solver, Poison)
  BY DEF Arbitrary
<1>2. /\ Instr.i = "Arbitrary" /\ running /\ running \in BOOLEAN /\ SolverOK(solver)
      /\ frame \in Frames(prog, solver.next_var) /\ Shaped(frame) /\ Reaches(solver, solver)
      /\ \A w : StepOf(w) = InstrStep(prog, Concrete(frame, solver, w), w, Instr)
  BY <1>1, HereFacts
<1>3. \A w : StepOf(w) = ReturnTo(Concrete(frame, solver, w), ValueAt(solver, Poison, w))
  BY <1>2, UnitAt DEF InstrStep
<1> QED BY <1>1, <1>2, <1>3, UnitKnown, LeaveSims

LEMMA ExitSims == ASSUME Tracked, Exit PROVE SimStep
<1>1. At("Exit") /\ Collect(frame, solver, Instr.cause, Unit)
  BY DEF Exit
<1>2. /\ Instr.i = "Exit" /\ running /\ Reaches(solver, solver)
      /\ \A w : StepOf(w) = InstrStep(prog, Concrete(frame, solver, w), w, Instr)
  BY <1>1, HereFacts
<1>3. \A w : StepOf(w) = Ends(Concrete(frame, solver, w), Instr.cause, Unit)
  BY <1>2 DEF InstrStep
<1>4. ASSUME NEW w
      PROVE  /\ StepOf(w).run = Instr.cause /\ StepOf(w).v = ValueAt(solver, Unit, w)
             /\ StepOf(w).regs = ValuesAt(solver, frame.regs, w)
  BY <1>3, EndsFields, UnitAt
<1> QED BY <1>1, <1>2, <1>4, CollectSims

LEMMA OffEndSims == ASSUME Tracked, OffEnd PROVE SimStep
<1>1. running /\ frame.pc > Len(prog[frame.code]) /\ Collect(frame, solver, "Finished", Unit)
  BY DEF OffEnd, Instrs
<1>2. SolverOK(solver) /\ Reaches(solver, solver)
  BY <1>1, SolverTypes DEF Tracked, PathOK
<1>3. ASSUME NEW w PROVE StepOf(w) = Ends(Concrete(frame, solver, w), "Finished", Unit)
  <2> DEFINE c == Concrete(frame, solver, w)
  <2>1. c.run = "go" /\ c.code = frame.code /\ c.pc = frame.pc
    BY ConcreteFields
  <2> HIDE DEF c
  <2>2. ConcreteStep(prog, c, w) = Ends(c, "Finished", Unit)
    BY <1>1, <2>1 DEF ConcreteStep
  <2> QED BY <2>2 DEF StepOf, c
<1>4. ASSUME NEW w
      PROVE  /\ StepOf(w).run = "Finished" /\ StepOf(w).v = ValueAt(solver, Unit, w)
             /\ StepOf(w).regs = ValuesAt(solver, frame.regs, w)
  BY <1>3, EndsFields, UnitAt
<1> QED BY <1>1, <1>2, <1>4, CollectSims

-----------------------------------------------------------------------------
(* Function assumptions.                                                   *)

\* The argument is what the assumption e is about, for every input.
Knows(s, arg, e) == \A w \in s.models : ValueAt(s, arg, w) = Bit(e.arg)

Learned(f, s, arg, E) ==
  {x \in Attempts(f, s, arg) :
     /\ Leaves(s, x.s)
     /\ x.err = "Ok" => \E e \in E : x.v = Bit(e.result) /\ Knows(s, arg, e)}

(* A comparison that is sure to hold holds for every input.                *)
LEMMA SureHolds ==
  ASSUME NEW p, NEW s, SolverOK(s), NEW f \in Frames(p, s.next_var), Shaped(f),
         NEW arg \in Known(s.next_var), NEW b \in Bits, Sure(primop(f, s, "eq", Bit(b), arg)),
         NEW w \in s.models
  PROVE  ValueAt(s, arg, w) = Bit(b)
<1> DEFINE B == Bit(b)
           r == primop(f, s, "eq", B, arg)
           x == ValueAt(s, arg, w)
           c == Concrete(f, s, w)
           y == Got(c, x)
           d == Operate("eq", B, y)
<1>1. B \in Known(s.next_var) /\ s.next_var \in Nat /\ w \in Assignments /\ B.k = "bits" /\ B.n = b
  BY SolverTypes DEF Known, Bit
<1>2. ValueAt(s, B, w) = B
  BY <1>1 DEF ValueAt
<1>3. Sound(p, s, r)
  <2> DEFINE op == "eq"
  <2>1. op \in {"eq", "neq"}
    OBVIOUS
  <2> HIDE DEF op, B
  <2>2. Sound(p, s, primop(f, s, op, B, arg))
    BY <1>1, <2>1, primopSound
  <2> QED BY <2>2 DEF op
<1>4. Mirrors(d, r, w) /\ Grows(s, r)
  <2> DEFINE op == "eq"
  <2>1. op \in {"eq", "neq"}
    OBVIOUS
  <2> HIDE DEF op, B
  <2>2. Mirrors(Operate(op, ValueAt(s, B, w), Got(Concrete(f, s, w), ValueAt(s, arg, w))), primop(f, s, op, B, arg), w)
        /\ Grows(s, primop(f, s, op, B, arg))
    BY ONLY <1>1, <2>1, SolverOK(s), f \in Frames(p, s.next_var), Shaped(f), arg \in Known(s.next_var), primopMirrors
  <2> QED BY <1>2, <2>2 DEF op
<1>5. Holds(r.v) \/ (r.v.k = "sym" /\ ~can_be(r.s, IsFalse(r.v.n)))
  BY DEF Sure
<1>6. r.err = "Ok"
  <2>1. r.err = "Ok" \/ r = Fail(f, s, "Type")
    BY DEF primop, Ok, Fail
  <2> HIDE DEF r
  <2> QED BY <1>5, <2>1 DEF Fail, Unit, Holds
<1> HIDE DEF r, d
<1>7. r.v \in Known(r.s.next_var) /\ r.s.models = s.models /\ SolverOK(r.s)
  BY <1>3, <1>6, SoundFacts DEF Sound, Reaches
<1>8. ValueAt(r.s, r.v, w) = Bit(1)
  <2>1. CASE Holds(r.v)
    <3>1. r.v.k = "bits" /\ r.v.n = 1 /\ r.v = [k |-> r.v.k, n |-> r.v.n]
      BY <1>7, <2>1 DEF Holds, Known
    <3> QED BY <3>1 DEF ValueAt, Bit
  <2>2. CASE r.v.k = "sym" /\ ~can_be(r.s, IsFalse(r.v.n))
    <3>1. r.v = Symbolic(r.v.n)
      BY <1>7, <2>2 DEF Known, Symbolic
    <3>2. w \notin translate_exp(r.s, IsFalse(r.v.n))
      BY <1>7, <2>2 DEF can_be
    <3> DEFINE z == ValueAt(r.s, Symbolic(r.v.n), w)
    <3>3. z \in {Bit(0), Bit(1)} /\ (w \in translate_exp(r.s, IsFalse(r.v.n)) <=> z = Bit(0))
      BY <1>1, SymMeaning
    <3> QED BY <3>1, <3>2, <3>3
  <2> QED BY <1>5, <2>1, <2>2
<1>9. d.v = Bit(1) /\ d.c.run = "go"
  BY <1>4, <1>6, <1>8, MirrorsFacts DEF Grows
<1>10. x.k = "bits" /\ Compute("eq", b, x.n) = 1
  <2>1. d = IF c.run # "go" THEN y
            ELSE IF B.k # "bits" \/ x.k # "bits" THEN Got(Ends(c, "Type", Unit), Unit)
            ELSE Got(c, Bit(Compute("eq", B.n, x.n)))
    BY DEF Operate, Got, d
  <2>2. c.run = "go"
    BY ConcreteFields
  <2>3. Ends(c, "Type", Unit).run = "Type"
    <3>1. c = [code |-> c.code, pc |-> c.pc, vars |-> c.vars, regs |-> c.regs, lets |-> c.lets,
               stack |-> c.stack, k |-> c.k, counts |-> c.counts, run |-> c.run, v |-> c.v]
      BY ConcreteFields
    <3> HIDE DEF c
    <3> QED BY <3>1 DEF Ends
  <2> HIDE DEF c, x, B, y
  <2>4. x.k = "bits"
    BY <1>1, <1>9, <2>1, <2>2, <2>3 DEF Got
  <2>5. d = Got(c, Bit(Compute("eq", b, x.n)))
    BY <1>1, <2>1, <2>2, <2>4
  <2> QED BY <1>9, <2>4, <2>5 DEF Got, Bit
<1>11. x.n = b
  BY <1>10 DEF Compute
<1>12. x = [k |-> x.k, n |-> x.n]
  <2>1. arg.k \in {"bits", "sym", "poison", "unit"}
    BY KnownKinds
  <2> QED BY <2>1 DEF Known, ValueAt, Bit
<1> QED BY <1>10, <1>11, <1>12 DEF Bit

LEMMA tryLearns ==
  ASSUME NEW p, NEW s, SolverOK(s), NEW f \in Frames(p, s.next_var), Shaped(f),
         NEW arg \in Known(s.next_var), NEW E \in SUBSET [arg : Bits, result : Bits],
         NEW acc \in Learned(f, s, arg, E), NEW a \in E
  PROVE  try(acc, a) \in Learned(f, s, arg, E)
<1>0. acc \in Attempts(f, s, arg) /\ Leaves(s, acc.s) /\ a \in [arg : Bits, result : Bits]
  BY DEF Learned
<1>1. CASE acc.err = "Ok"
  BY <1>1 DEF try
<1>2. CASE acc.err # "Ok"
  <2> DEFINE t == acc.s
             r == primop(f, t, "eq", Bit(a.arg), arg)
             b == Bit(a.result)
             y == try(acc, a)
  <2>1. acc.f = f /\ acc.v = arg /\ Reaches(s, t) /\ SolverOK(t)
    BY <1>0, <1>2 DEF Attempts, Leaves
  <2>2. y = IF Sure(r) THEN Ok(r.f, r.s, b) ELSE Untried(r.f, r.s, arg)
    BY <1>2, <2>1 DEF try, Assumed
  <2>3. s.next_var \in Nat /\ t.next_var \in Nat /\ s.next_var <= t.next_var /\ t.models = s.models
    BY <2>1, SolverTypes DEF Reaches, Follows
  <2>4. f \in Frames(p, t.next_var) /\ arg \in Known(t.next_var)
    BY <2>3, MoreFrames, MoreValues
  <2>5. y \in Attempts(f, s, arg)
    BY <1>0, tryAttempts
  <2>6. Leaves(t, r.s)
    <3> DEFINE z == Term("eq", ToExp(Bit(a.arg)), ToExp(arg))
    <3>1. r = Fail(f, t, "Type") \/ (\E v : r = Ok(f, t, v)) \/ (\E v : r = Ok(f, define_const(t, z), v) /\ arg.k \in {"bits", "sym"})
      BY DEF primop, Bit
    <3>2. arg.k \in {"bits", "sym"} => Leaves(t, define_const(t, z))
      <4> SUFFICES ASSUME arg.k \in {"bits", "sym"} PROVE Leaves(t, define_const(t, z))
        OBVIOUS
      <4> DEFINE A == ToExp(Bit(a.arg))
                 B == ToExp(arg)
                 e == DefineConst(t.next_var, z)
      <4>1. A \in Atoms /\ B \in Atoms
        <5>1. Bit(a.arg) \in Known(t.next_var) /\ Bit(a.arg).k = "bits"
          BY <1>0 DEF Known, Bit
        <5> DEFINE g == Bit(a.arg)
        <5> HIDE DEF g
        <5>2. ToExp(g) \in Atoms
          BY <2>3, <5>1, ToExpType DEF g
        <5> QED BY <2>3, <2>4, <5>2, ToExpType DEF g
      <4> HIDE DEF A, B
      <4>2. z \in Terms /\ z.op = "eq" /\ z.x = A /\ z.y = B
        BY <4>1 DEF Terms, Term, A, B
      <4>3. \A u : translate_exp(u, z) \in Meanings
        BY <4>2 DEF translate_exp, Same, Meanings
      <4> HIDE DEF z
      <4>4. define_const(t, z) = add_event([t EXCEPT !.next_var = @ + 1], e)
        BY DEF define_const
      <4>5. e \in Event /\ e.ev = "define" /\ e.v = t.next_var /\ e.exp = z
        BY <2>3, <4>2 DEF Event, DefineConst
      <4> HIDE DEF e
      <4>6. Allowed([t EXCEPT !.next_var = @ + 1], e)
        BY <4>3, <4>5 DEF Allowed
      <4> DEFINE u == define_const(t, z)
      <4>7. u = add_event([t EXCEPT !.next_var = @ + 1], e)
        BY <4>4
      <4> HIDE DEF t, u
      <4>8. SolverOK(u) /\ Keeps(t, u) /\ u.consts = t.consts
        BY <2>1, <4>5, <4>6, <4>7, NewSymConsts
      <4> QED BY <4>8 DEF Leaves, u
    <3> HIDE DEF r, z, t
    <3>3. r.s = t \/ (r.s = define_const(t, z) /\ arg.k \in {"bits", "sym"})
      BY <3>1 DEF Ok, Fail
    <3> QED BY <2>1, <3>2, <3>3, LeavesSelf
  <2>7. Sure(r) => Knows(s, arg, a)
    <3> SUFFICES ASSUME Sure(r), NEW w \in s.models PROVE ValueAt(s, arg, w) = Bit(a.arg)
      BY DEF Knows
    <3> DEFINE bb == a.arg
    <3>1. bb \in Bits
      BY <1>0
    <3> HIDE DEF bb, t
    <3>2. Sure(primop(f, t, "eq", Bit(bb), arg))
      BY DEF bb
    <3>3. ValueAt(t, arg, w) = Bit(bb)
      <4>1. SolverOK(t) /\ f \in Frames(p, t.next_var) /\ Shaped(f) /\ arg \in Known(t.next_var) /\ w \in t.models
        BY <2>1, <2>3, <2>4
      <4> QED BY ONLY <3>1, <3>2, <4>1, SureHolds
    <3>4. ValueAt(t, arg, w) = ValueAt(s, arg, w)
      <4>1. arg \in Value(s.next_var) /\ Keeps(s, t)
        BY <1>0 DEF Value, Leaves, t
      <4> QED BY <4>1, ValueKept
    <3> QED BY <3>3, <3>4 DEF bb
  <2> HIDE DEF r, t, b, y
  <2>8. Leaves(s, r.s)
    BY <1>0, <2>6, LeavesTrans DEF t
  <2>9. y.s = r.s
    BY <2>2 DEF Ok, Untried
  <2>10. y.err = "Ok" => Sure(r) /\ y.v = b
    BY <2>2 DEF Ok, Untried
  <2>11. y \in Learned(f, s, arg, E)
    BY <2>5, <2>7, <2>8, <2>9, <2>10 DEF Learned, b
  <2> QED BY <2>11 DEF y
<1> QED BY <1>1, <1>2

LEMMA find_assumptionLearns ==
  ASSUME NEW p, NEW s, SolverOK(s), NEW f \in Frames(p, s.next_var), Shaped(f),
         NEW arg \in Known(s.next_var), NEW list \in Seq([arg : Bits, result : Bits])
  PROVE  LET a == find_assumption(f, s, arg, list) IN
         /\ Leaves(s, a.s) /\ Reaches(s, a.s)
         /\ a.err = "Ok" => \E k \in DOMAIN list : a.v = Bit(list[k].result) /\ Knows(s, arg, list[k])
<1> DEFINE E == {list[k] : k \in DOMAIN list}
           T == Learned(f, s, arg, E)
           base == Untried(f, s, arg)
           a == Tries!fold(base, list)
<1>1. base \in T
  <2>1. s \in Solvers /\ Reaches(s, s) /\ Leaves(s, s)
    BY SolverTypes, LeavesSelf DEF SolverOK, Faithful
  <2>2. base \in Attempts(f, s, arg) /\ base.s = s /\ base.err = "None"
    BY <2>1 DEF Attempts, Untried
  <2> HIDE DEF base, E
  <2> QED BY <2>1, <2>2 DEF Learned
<1>2. E \in SUBSET [arg : Bits, result : Bits]
  <2> DEFINE R == [arg : Bits, result : Bits]
  <2>1. list \in Seq(R)
    OBVIOUS
  <2> HIDE DEF R
  <2>2. \A k \in DOMAIN list : list[k] \in R
    BY <2>1
  <2> QED BY <2>2 DEF R
<1>3. \A x \in T, e \in E : try(x, e) \in T
  <2> HIDE DEF E
  <2> QED BY <1>2, tryLearns
<1>4. list \in Seq(E)
  <2>1. list \in [1..Len(list) -> E] /\ Len(list) \in Nat
    OBVIOUS
  <2> HIDE DEF E
  <2> QED BY <2>1
<1>5. a \in T
  <2> HIDE DEF E, T, base
  <2> QED BY ONLY <1>1, <1>3, <1>4, Tries!FoldType
<1>6. find_assumption(f, s, arg, list) = a
  BY DEF find_assumption
<1> HIDE DEF a, base, E
<1>7. Leaves(s, a.s) /\ Reaches(s, a.s) /\ (a.err = "Ok" => \E e \in E : a.v = Bit(e.result) /\ Knows(s, arg, e))
  BY <1>5 DEF Attempts, Learned
<1> QED BY <1>6, <1>7 DEF E

-----------------------------------------------------------------------------
(* Calls.                                                                  *)

(* The path and the run have the same functions on their stacks.           *)
LEMMA StopsAgree ==
  ASSUME ContextsAgree, NEW p, NEW m, NEW f \in Frames(p, m), Shaped(f), NEW s, NEW w, NEW fn,
         NEW action \in should_stop(fn, f)
  PROVE  action = Stopped(Concrete(f, s, w), fn)
<1> DEFINE c == Concrete(f, s, w)
           ctx == Stops[fn].ctx
           names == {f.fn} \cup {f.backtrace[k].fn : k \in DOMAIN f.backtrace}
           found == DOMAIN ctx \cap names
<1>1. names = Active(c)
  <2>1. f.calls \in Seq(Closures(p)) /\ f.backtrace \in Seq(Callers)
    BY FrameFields
  <2>2. DOMAIN f.backtrace = 1..Len(f.calls) /\ f.fn = f.code
        /\ \A n \in 1..Len(f.calls) : f.backtrace[n].fn = f.calls[n].code
    BY <2>1 DEF Shaped
  <2>3. c.code = f.code /\ c.stack = StackAt(f.calls, f.stack_vars, s, w)
    BY ConcreteFields
  <2> HIDE DEF c
  <2>4. DOMAIN c.stack = 1..Len(f.calls) /\ \A n \in 1..Len(f.calls) : c.stack[n].code = f.calls[n].code
    BY <2>3 DEF StackAt
  <2> QED BY <2>2, <2>3, <2>4 DEF Active
<1>2. action \in IF fn \notin DOMAIN Stops THEN {"None"}
                 ELSE IF {ctx[n] : n \in found} # {} THEN {ctx[n] : n \in found} ELSE {Stops[fn].direct}
  BY DEF should_stop
<1> DEFINE here == DOMAIN ctx \cap Active(c)
<1>3. Stopped(c, fn) = IF fn \notin DOMAIN Stops THEN "None"
                       ELSE IF here # {} THEN ctx[CHOOSE n \in here : TRUE] ELSE Stops[fn].direct
  BY DEF Stopped
<1>a. here = found
  BY <1>1
<1> HIDE DEF c, names, found, here
<1>4. CASE fn \in DOMAIN Stops /\ found # {}
  <2>1. PICK n \in found : action = ctx[n]
    BY <1>2, <1>4
  <2>2. (CHOOSE j \in here : TRUE) \in found
    BY <1>4, <1>a
  <2>3. \A a, b \in DOMAIN ctx : ctx[a] = ctx[b]
    BY <1>4 DEF ContextsAgree
  <2>4. found \subseteq DOMAIN ctx
    BY DEF found
  <2> QED BY <1>3, <1>4, <1>a, <2>1, <2>2, <2>3, <2>4 DEF c
<1>5. CASE ~(fn \in DOMAIN Stops /\ found # {})
  BY <1>2, <1>3, <1>5, <1>a DEF c
<1> QED BY <1>4, <1>5

(* The result of an assumption is what the call returns.                   *)
LEMMA AssumedReturns ==
  ASSUME NEW p, NEW m, NEW f \in Frames(p, m), NEW s, NEW w, NEW fn, NEW loc, NEW x, NEW v
  PROVE  LET c == Concrete(f, s, w)
             d == EnterAt(c, fn, loc, x) IN
         Entered(d, fn, x) /\ ReturnTo(d, v) = Skip(Write(c, loc, v))
<1> DEFINE c == Concrete(f, s, w)
           top == [code |-> c.code, pc |-> c.pc, vars |-> c.vars, loc |-> loc]
           d == EnterAt(c, fn, loc, x)
           n == Len(c.stack)
           st == Append(c.stack, top)
<1>1. c = [code |-> c.code, pc |-> c.pc, vars |-> c.vars, regs |-> c.regs, lets |-> c.lets,
           stack |-> c.stack, k |-> c.k, counts |-> c.counts, run |-> c.run, v |-> c.v] /\ c.run = "go"
  BY ConcreteFields
<1>2. c.stack = StackAt(f.calls, f.stack_vars, s, w)
  BY ConcreteFields
<1>3. f.calls \in Seq(Closures(p)) /\ Len(f.calls) \in Nat
  BY FrameFields
<1> HIDE DEF c
<1>4. n \in Nat /\ c.stack \in Seq({c.stack[j] : j \in 1..n})
  <2>1. c.stack = [j \in 1..Len(f.calls) |-> c.stack[j]]
    BY <1>2 DEF StackAt
  <2>2. ASSUME NEW N \in Nat, NEW z, z = [j \in 1..N |-> z[j]] PROVE Len(z) = N /\ z \in Seq({z[j] : j \in 1..N})
    <3>1. z \in [1..N -> {z[j] : j \in 1..N}]
      BY <2>2
    <3> DEFINE S == {z[j] : j \in 1..N}
    <3> HIDE DEF S
    <3> QED BY <3>1 DEF S
  <2> QED BY <1>3, <2>1, <2>2
<1> DEFINE S == {c.stack[j] : j \in 1..n} \cup {top}
<1>5. c.stack \in Seq(S) /\ top \in S
  BY <1>4
<1> HIDE DEF S, top
<1>6. st # <<>> /\ Len(st) = n + 1 /\ st[n + 1] = top /\ SubSeq(st, 1, n) = c.stack
  BY <1>5
<1>7. d = [c EXCEPT !.stack = st, !.code = fn, !.pc = 1, !.vars = Params(x)]
  BY DEF EnterAt, Params, top
<1> HIDE DEF d, st
<1>8. d = [code |-> fn, pc |-> 1, vars |-> Params(x), regs |-> c.regs, lets |-> c.lets,
           stack |-> st, k |-> c.k, counts |-> c.counts, run |-> c.run, v |-> c.v]
  BY <1>1, <1>7
<1>9. d.run = "go" /\ d.code = fn /\ d.pc = 1 /\ d.stack = st /\ d.vars = Params(x)
  BY ONLY <1>1, <1>8
<1>10. Entered(d, fn, x)
  BY <1>6, <1>9 DEF Entered, Params
<1>11. ReturnTo(d, v) = Write(Resumed(d, top), loc, v)
  <2>1. top.loc = loc
    BY DEF top
  <2>2. Len(d.stack) = n + 1 /\ d.stack # <<>> /\ d.stack[n + 1] = top
    BY <1>6, <1>9
  <2> QED BY <2>1, <2>2 DEF ReturnTo
<1> DEFINE g == GoTo(c, c.pc + 1)
<1>12. Resumed(d, top) = g
  <2>1. top.code = c.code /\ top.pc = c.pc /\ top.vars = c.vars
    BY DEF top
  <2>2. SubSeq(d.stack, 1, Len(d.stack) - 1) = c.stack
    BY <1>4, <1>6, <1>9
  <2>3. Resumed(d, top) = [d EXCEPT !.code = c.code, !.pc = c.pc + 1, !.vars = c.vars, !.stack = c.stack]
    BY <2>1, <2>2 DEF Resumed
  <2> DEFINE z == c.pc + 1
  <2> HIDE DEF z
  <2>4. Resumed(d, top) = [code |-> c.code, pc |-> z, vars |-> c.vars, regs |-> c.regs, lets |-> c.lets,
                           stack |-> c.stack, k |-> c.k, counts |-> c.counts, run |-> c.run, v |-> c.v]
    BY <1>8, <2>3 DEF z
  <2>5. GoTo(c, z) = [code |-> c.code, pc |-> z, vars |-> c.vars, regs |-> c.regs, lets |-> c.lets,
                      stack |-> c.stack, k |-> c.k, counts |-> c.counts, run |-> c.run, v |-> c.v]
    BY <1>1 DEF GoTo
  <2> QED BY <2>4, <2>5 DEF z
<1>13. Write(g, loc, v) = Skip(Write(c, loc, v))
  <2> DEFINE z == c.pc + 1
  <2>1. g.vars = c.vars /\ g.lets = c.lets /\ g.regs = c.regs
    BY <1>1 DEF GoTo
  <2>2. CASE loc \in DOMAIN c.vars
    <3> DEFINE y == [c.vars EXCEPT ![loc] = v]
    <3>1. Write(g, loc, v) = WithVars(g, y) /\ Write(c, loc, v) = WithVars(c, y)
      BY <2>1, <2>2 DEF Write, WithVars
    <3> HIDE DEF y
    <3>2. WithVars(g, y) = Skip(WithVars(c, y))
      BY <1>1 DEF Skip, GoTo, WithVars
    <3> QED BY <3>1, <3>2
  <2>3. CASE loc \in DOMAIN c.lets \ DOMAIN c.vars
    <3> DEFINE y == [c.lets EXCEPT ![loc] = v]
    <3>1. Write(g, loc, v) = WithLets(g, y) /\ Write(c, loc, v) = WithLets(c, y)
      BY <2>1, <2>3 DEF Write, WithLets
    <3> HIDE DEF y
    <3>2. WithLets(g, y) = Skip(WithLets(c, y))
      BY <1>1 DEF Skip, GoTo, WithLets
    <3> QED BY <3>1, <3>2
  <2>4. CASE loc \notin DOMAIN c.vars \cup DOMAIN c.lets
    <3> DEFINE y == [c.regs EXCEPT ![loc] = v]
    <3>1. Write(g, loc, v) = WithRegs(g, y) /\ Write(c, loc, v) = WithRegs(c, y)
      BY <2>1, <2>4 DEF Write, WithRegs
    <3> HIDE DEF y
    <3>2. WithRegs(g, y) = Skip(WithRegs(c, y))
      BY <1>1 DEF Skip, GoTo, WithRegs
    <3> QED BY <3>1, <3>2
  <2> QED BY <2>2, <2>3, <2>4
<1> QED BY <1>10, <1>11, <1>12, <1>13 DEF d, c

(* A frame, a value and the registers under a solver that knows no more.   *)
SameUnder(f, s, t) ==
  \A w : /\ Concrete(f, t, w) = Concrete(f, s, w) /\ ValuesAt(t, f.regs, w) = ValuesAt(s, f.regs, w)
         /\ \A v \in Known(s.next_var) : ValueAt(t, v, w) = ValueAt(s, v, w)

LEMMA LeavesSame ==
  ASSUME NEW p, NEW s, SolverOK(s), NEW t, Leaves(s, t), NEW f \in Frames(p, s.next_var), Shaped(f)
  PROVE  SameUnder(f, s, t)
<1> SUFFICES ASSUME NEW w
             PROVE  /\ Concrete(f, t, w) = Concrete(f, s, w) /\ ValuesAt(t, f.regs, w) = ValuesAt(s, f.regs, w)
                    /\ \A v \in Known(s.next_var) : ValueAt(t, v, w) = ValueAt(s, v, w)
  BY DEF SameUnder
<1>1. Concrete(f, t, w) = Concrete(f, s, w)
  BY LeavesConcrete
<1>2. ValuesAt(t, f.regs, w) = ValuesAt(s, f.regs, w)
  BY <1>1, ConcreteFields
<1>3. Keeps(s, t) /\ Known(s.next_var) \subseteq Value(s.next_var)
  BY DEF Leaves, Value
<1> QED BY <1>1, <1>2, <1>3, ValueKept

\* The assumptions about a function, and the runs of a path that enter it.
IsAssumed(fn, list) ==
  /\ list \in Seq([arg : Bits, result : Bits])
  /\ list # <<>> => fn \in DOMAIN Assumptions /\ list = Assumptions[fn]

RunsEnter(f, s, fn, loc, arg) ==
  \A w \in solver.models : StepOf(w) = EnterAt(Concrete(f, s, w), fn, loc, ValueAt(s, arg, w))

(* A call of a function that is not stopped.                               *)
LEMMA AssumeOrEnterSims ==
  ASSUME running \in BOOLEAN, running, SolverOK(solver), NEW s, Reaches(solver, s),
         NEW f, f \in Frames(prog, s.next_var), Shaped(f), NEW fn, fn \in DOMAIN prog, fn \in Names,
         NEW loc, loc \in Names, NEW arg, arg \in Known(s.next_var), NEW list, IsAssumed(fn, list),
         AssumeOrEnter(f, fn, loc, arg, find_assumption(f, s, arg, list)), RunsEnter(f, s, fn, loc, arg)
  PROVE  SimStep
<1>i. list \in Seq([arg : Bits, result : Bits]) /\ (list # <<>> => fn \in DOMAIN Assumptions /\ list = Assumptions[fn])
  BY DEF IsAssumed
<1>r. \A w \in solver.models : StepOf(w) = EnterAt(Concrete(f, s, w), fn, loc, ValueAt(s, arg, w))
  BY DEF RunsEnter
<1> DEFINE a == find_assumption(f, s, arg, list)
<1>0. SolverOK(s) /\ s.models = solver.models /\ s.next_var \in Nat
  BY SolverTypes DEF Reaches, Follows
<1>1. /\ Leaves(s, a.s) /\ Reaches(s, a.s)
      /\ a.err = "Ok" => \E k \in DOMAIN list : a.v = Bit(list[k].result) /\ Knows(s, arg, list[k])
  BY <1>0, <1>i, find_assumptionLearns
<1>2. AssumeOrEnter(f, fn, loc, arg, a)
  OBVIOUS
<1>2a. a.err = "Ok" => a.v \in Known(a.s.next_var)
  BY <1>0, <1>i, find_assumptionFacts
<1> HIDE DEF a
<1> DEFINE t == a.s
<1>3. SolverOK(t) /\ Reaches(solver, t) /\ f \in Frames(prog, t.next_var) /\ arg \in Known(t.next_var)
      /\ t.models = solver.models
  <2>1. SolverOK(t) /\ s.next_var <= t.next_var /\ t.next_var \in Nat
    BY <1>1, SolverTypes DEF Reaches, Follows
  <2>2. Reaches(solver, t)
    BY <1>1, FollowsTrans DEF Reaches
  <2>3. f \in Frames(prog, t.next_var) /\ arg \in Known(t.next_var)
    BY <1>0, <2>1, MoreFrames, MoreValues
  <2> QED BY <2>1, <2>2, <2>3 DEF Reaches
<1>4. ASSUME NEW w PROVE Concrete(f, t, w) = Concrete(f, s, w) /\ ValueAt(t, arg, w) = ValueAt(s, arg, w)
  <2>1. SolverOK(s) /\ Leaves(s, t) /\ f \in Frames(prog, s.next_var) /\ Shaped(f)
    BY <1>0, <1>1
  <2> HIDE DEF t
  <2>2. SameUnder(f, s, t)
    BY ONLY <2>1, LeavesSame
  <2> QED BY <2>2 DEF SameUnder
<1>5. CASE a.err = "Ok" /\ Continue(Advance([assign(f, a.s, loc, a.v) EXCEPT !.s =
                                               add_event(@, [ev |-> "use-fun-assumption", fn |-> fn])]))
  <2> DEFINE v == a.v
             e == [ev |-> "use-fun-assumption", fn |-> fn]
             b == assign(f, t, loc, v)
             d == [b EXCEPT !.s = add_event(b.s, e)]
             q == Advance(d)
  <2>1. PICK k \in DOMAIN list : v = Bit(list[k].result) /\ Knows(s, arg, list[k])
    BY <1>1, <1>5
  <2>2. fn \in DOMAIN Assumptions /\ list = Assumptions[fn]
    BY <1>i, <2>1
  <2>3. v \in Known(t.next_var)
    BY <1>2a, <1>5
  <2>4. e \in Notes
    BY CallIsNote
  <2>6. Continue(q)
    BY <1>5
  <2> HIDE DEF t, v, e
  <2>5. Sound(prog, t, b) /\ b.err = "Ok"
    <3>1. SolverOK(t) /\ f \in Frames(prog, t.next_var) /\ loc \in Names /\ v \in Known(t.next_var)
      BY <1>3, <2>3
    <3> QED BY ONLY <3>1, assignSound
  <2>7. ASSUME NEW w
        PROVE  /\ Leaves(t, b.s) /\ Shaped(b.f)
               /\ Concrete(b.f, b.s, w) = Write(Concrete(f, t, w), loc, ValueAt(t, v, w))
    <3>1. SolverOK(t) /\ f \in Frames(prog, t.next_var) /\ Shaped(f) /\ loc \in Names /\ v \in Known(t.next_var)
      BY <1>3, <2>3
    <3> QED BY ONLY <3>1, assignMirrors
  <2> HIDE DEF b
  <2>8. b = [f |-> b.f, s |-> b.s, v |-> b.v, err |-> b.err] /\ SolverOK(b.s) /\ b.f \in Frames(prog, b.s.next_var)
    BY <2>5, SoundFacts DEF Sound
  <2>9. Sound(prog, t, d) /\ d.err = "Ok"
    BY <1>3, <2>4, <2>5, NoteSound
  <2> DEFINE u == add_event(b.s, e)
  <2>10. d.f = b.f /\ d.s = u
    BY <2>8
  <2>11. Leaves(b.s, u)
    BY <2>4, <2>8, NoteLeaves
  <2> HIDE DEF d, u
  <2>12. Sound(prog, t, q) /\ q.err = "Ok" /\ q.s = d.s
    BY <2>9, AdvanceSound
  <2>13. ASSUME NEW w PROVE Shaped(q.f) /\ Concrete(q.f, q.s, w) = Skip(Write(Concrete(f, s, w), loc, v))
    <3>1. Concrete(b.f, u, w) = Concrete(b.f, b.s, w)
      <4>1. SolverOK(b.s) /\ Leaves(b.s, u) /\ b.f \in Frames(prog, b.s.next_var) /\ Shaped(b.f)
        BY <2>7, <2>8, <2>11
      <4> DEFINE bs == b.s
                 bf == b.f
      <4> HIDE DEF bs, bf
      <4>2. SolverOK(bs) /\ Leaves(bs, u) /\ bf \in Frames(prog, bs.next_var) /\ Shaped(bf)
        BY <4>1 DEF bs, bf
      <4>3. Concrete(bf, u, w) = Concrete(bf, bs, w)
        BY ONLY <4>2, LeavesConcrete
      <4> QED BY <4>3 DEF bs, bf
    <3>2. Shaped(q.f) /\ Outcome(q, w) = Skip(Concrete(d.f, d.s, w))
      BY <2>7, <2>9, <2>10, AdvanceMirrors
    <3>3. Outcome(q, w) = Concrete(q.f, q.s, w)
      BY <2>12 DEF Outcome
    <3>4. ValueAt(t, v, w) = v
      BY <2>1 DEF ValueAt, Bit, v
    <3> HIDE DEF q
    <3> QED BY <1>4, <2>7, <2>10, <3>1, <3>2, <3>3, <3>4
  <2> HIDE DEF q
  <2>14. GoOn(q.f, q.s) /\ q.s.models = solver.models
    BY <1>3, <2>6, <2>12 DEF Continue, Sound, Reaches
  <2>15. ASSUME NEW w \in solver.models
         PROVE  /\ Entered(StepOf(w), fn, Bit(Assumptions[fn][k].arg))
                /\ Concrete(q.f, q.s, w) = ReturnTo(StepOf(w), Bit(Assumptions[fn][k].result))
    <3> DEFINE x == Bit(list[k].arg)
               c == Concrete(f, s, w)
    <3>1. StepOf(w) = EnterAt(c, fn, loc, x)
      BY <1>0, <1>r, <2>1 DEF Knows
    <3>2. Entered(EnterAt(c, fn, loc, x), fn, x) /\ ReturnTo(EnterAt(c, fn, loc, x), v) = Skip(Write(c, loc, v))
      <4> HIDE DEF x
      <4> QED BY ONLY f \in Frames(prog, s.next_var), AssumedReturns
    <3> HIDE DEF x, c
    <3>3. Entered(StepOf(w), fn, x) /\ Concrete(q.f, q.s, w) = ReturnTo(StepOf(w), v)
      BY <2>13, <3>1, <3>2 DEF c
    <3> QED BY <2>1, <2>2, <3>3 DEF x
  <2>16. RunsReturn(q.f, q.s)
    <3>1. k \in DOMAIN Assumptions[fn]
      BY <2>2
    <3> QED BY <2>2, <2>13, <2>14, <2>15, <3>1 DEF RunsReturn
  <2>17. running' = TRUE /\ queue' = queue /\ frame' = q.f /\ solver' = q.s
    BY <2>14 DEF GoOn
  <2> QED BY <2>16, <2>17 DEF SimStep, SimReturns
<1>6. CASE GoOn(Enter(f, fn, loc, arg), a.s)
  <2> DEFINE g == Enter(f, fn, loc, arg)
  <2>1. ASSUME NEW w PROVE Shaped(g) /\ Concrete(g, t, w) = EnterAt(Concrete(f, t, w), fn, loc, ValueAt(t, arg, w))
    BY ONLY <1>3, Shaped(f), loc \in Names, EnterMirrors
  <2> HIDE DEF g
  <2>2. \A w \in solver.models : StepOf(w) = Concrete(g, t, w)
    BY <1>4, <1>r, <2>1
  <2> QED BY <1>3, <1>6, <2>1, <2>2, GoOnSims DEF g
<1> QED BY <1>2, <1>5, <1>6 DEF AssumeOrEnter

(* A function is called.                                                   *)
LEMMA CallSims == ASSUME Tracked, ContextsAgree, Call PROVE SimStep
<1> DEFINE r == eval_exp(frame, solver, Instr.arg)
           fn == Instr.fn
           loc == Instr.loc
           e(w) == Eval(Concrete(frame, solver, w), w, Instr.arg)
<1>1. At("Call") /\ fn \in DOMAIN prog /\ CallWith(r, fn, loc)
  BY DEF Call, IsFunction
<1>2. /\ IsInstr(Instr) /\ Instr.i = "Call" /\ running /\ running \in BOOLEAN /\ SolverOK(solver)
      /\ \A w : StepOf(w) = InstrStep(prog, Concrete(frame, solver, w), w, Instr)
  BY <1>1, HereFacts
<1>3. fn \in Names /\ loc \in Names /\ IsExp(Instr.arg)
  BY <1>2 DEF IsInstr, Names
<1>4. \A w : StepOf(w) = Then(e(w), FunctionStep(e(w).c, Instr, e(w).v))
  BY <1>1, <1>2 DEF InstrStep, CallStep
<1>5. Sound(prog, solver, r) /\ Grows(solver, r) /\ \A w \in solver.models : Mirrors(e(w), r, w)
  BY <1>1, <1>3, ValueHere
<1>6. \A c, x : FunctionStep(c, Instr, x) =
        CASE Stopped(c, fn) = "Kill" -> Ends(c, "Stopped", Unit)
          [] Stopped(c, fn) = "Abstract" -> Ends(c, "Finished", Poison)
          [] Stopped(c, fn) = "None" -> EnterAt(c, fn, loc, x)
  BY DEF FunctionStep
<1> HIDE DEF e, r, fn, loc
<1>7. CASE r.err # "Ok"
  <2>1. Continue(r)
    BY <1>1, <1>7 DEF CallWith
  <2>2. ASSUME NEW w \in solver.models PROVE StepOf(w) = Outcome(r, w)
    <3>1. e(w).c = Outcome(r, w) /\ e(w).c.run # "go"
      BY <1>5, <1>7, MirrorsFacts DEF Grows
    <3> QED BY <1>4, <3>1 DEF Then
  <2> QED BY <1>2, <1>5, <2>1, <2>2, ContinueSims DEF Grows
<1>8. CASE r.err = "Ok"
  <2> DEFINE f == r.f
             t == r.s
             v == r.v
             s == TraceEvent(t, "call", fn)
  <2>1. CallOn(f, s, fn, loc, v)
    BY <1>1, <1>8 DEF CallWith
  <2>2. SolverOK(t) /\ f \in Frames(prog, t.next_var) /\ Shaped(f) /\ Reaches(solver, t)
        /\ v \in Known(t.next_var) /\ t.next_var \in Nat
    BY <1>5, <1>8, SoundFacts, SolverTypes DEF Grows, Sound
  <2>3. ASSUME NEW w \in solver.models
        PROVE  StepOf(w) = FunctionStep(Concrete(f, t, w), Instr, ValueAt(t, v, w))
    <3>1. e(w).c = Concrete(f, t, w) /\ e(w).v = ValueAt(t, v, w) /\ e(w).c.run = "go"
      BY <1>5, <1>8, MirrorsFacts DEF Grows
    <3> QED BY <1>4, <3>1 DEF Then
  <2> HIDE DEF f, t, v
  <2>4. Leaves(t, s) /\ Reaches(t, s) /\ s.next_var = t.next_var
    BY <1>3, <2>2, TraceLeaves, TraceEventReaches
  <2> HIDE DEF s
  <2>5. SolverOK(s) /\ f \in Frames(prog, s.next_var) /\ v \in Known(s.next_var) /\ Reaches(solver, s)
    BY <1>2, <2>2, <2>4, FollowsTrans DEF Reaches, Follows
  <2>6. ASSUME NEW w \in solver.models
        PROVE  StepOf(w) = FunctionStep(Concrete(f, s, w), Instr, ValueAt(s, v, w))
    <3>1. SolverOK(t) /\ Leaves(t, s) /\ f \in Frames(prog, t.next_var) /\ Shaped(f)
      BY <2>2, <2>4
    <3>2. SameUnder(f, t, s)
      BY ONLY <3>1, LeavesSame
    <3>3. Concrete(f, s, w) = Concrete(f, t, w) /\ ValueAt(s, v, w) = ValueAt(t, v, w)
      BY <2>2, <3>2 DEF SameUnder
    <3> QED BY <2>3, <3>3
  <2> DEFINE list == IF fn \in DOMAIN Assumptions THEN Assumptions[fn] ELSE <<>>
             a == find_assumption(f, s, v, list)
             n == [ev |-> "abstract", fn |-> fn]
             u == add_event(s, n)
  <2>7. PICK action \in should_stop(fn, f) :
          \/ action = "Kill" /\ Collect(f, s, "Stopped", Unit)
          \/ action = "Abstract" /\ Collect(f, u, "Finished", Poison)
          \/ action = "None" /\ AssumeOrEnter(f, fn, loc, v, a)
    BY <2>1 DEF CallOn
  <2>8. \A w : Stopped(Concrete(f, s, w), fn) = action
    BY <2>2, StopsAgree
  <2>9. CASE action = "Kill" /\ Collect(f, s, "Stopped", Unit)
    <3>1. ASSUME NEW w \in solver.models
          PROVE  /\ StepOf(w).run = "Stopped" /\ StepOf(w).v = ValueAt(s, Unit, w)
                 /\ StepOf(w).regs = ValuesAt(s, f.regs, w)
      <4>1. StepOf(w) = Ends(Concrete(f, s, w), "Stopped", Unit)
        BY <1>6, <2>6, <2>8, <2>9
      <4> QED BY <4>1, EndsFields, UnitAt
    <3> QED BY <1>2, <2>5, <2>9, <3>1, CollectSims
  <2>10. CASE action = "Abstract" /\ Collect(f, u, "Finished", Poison)
    <3>1. n \in Notes
      BY <1>3, CallIsNote
    <3> HIDE DEF n
    <3>2. Leaves(s, u) /\ Reaches(s, u)
      BY <2>5, <3>1, NoteLeaves, NoteFacts
    <3> HIDE DEF u
    <3>3. Reaches(solver, u)
      BY <1>2, <2>5, <3>2, FollowsTrans DEF Reaches
    <3>4. ASSUME NEW w \in solver.models
          PROVE  /\ StepOf(w).run = "Finished" /\ StepOf(w).v = ValueAt(u, Poison, w)
                 /\ StepOf(w).regs = ValuesAt(u, f.regs, w)
      <4>1. StepOf(w) = Ends(Concrete(f, s, w), "Finished", Poison)
        BY <1>6, <2>6, <2>8, <2>10
      <4>2. SolverOK(s) /\ Leaves(s, u) /\ f \in Frames(prog, s.next_var) /\ Shaped(f)
        BY <2>2, <2>5, <3>2
      <4>3. SameUnder(f, s, u)
        BY ONLY <4>2, LeavesSame
      <4>4. ValuesAt(u, f.regs, w) = ValuesAt(s, f.regs, w)
        BY <4>3 DEF SameUnder
      <4> QED BY <4>1, <4>4, EndsFields, UnitAt
    <3> QED BY <1>2, <2>10, <3>3, <3>4, CollectSims
  <2>11. CASE action = "None" /\ AssumeOrEnter(f, fn, loc, v, a)
    <3> DEFINE Pairs == Seq([arg : Bits, result : Bits])
    <3>1. /\ \A g \in DOMAIN Assumptions : Assumptions[g] \in Pairs
          /\ <<>> \in Pairs
      BY RunLoopAssumption, EmptySeq
    <3> HIDE DEF Pairs
    <3>2. list \in Pairs
      BY <3>1
    <3>3. IsAssumed(fn, list)
      BY <3>2 DEF IsAssumed, Pairs
    <3> HIDE DEF list
    <3>4. RunsEnter(f, s, fn, loc, v)
      BY <1>6, <2>6, <2>8, <2>11 DEF RunsEnter
    <3>5. /\ running \in BOOLEAN /\ running /\ SolverOK(solver) /\ Reaches(solver, s)
          /\ f \in Frames(prog, s.next_var) /\ Shaped(f) /\ fn \in DOMAIN prog /\ fn \in Names /\ loc \in Names
          /\ v \in Known(s.next_var) /\ IsAssumed(fn, list)
          /\ AssumeOrEnter(f, fn, loc, v, find_assumption(f, s, v, list)) /\ RunsEnter(f, s, fn, loc, v)
      BY <1>1, <1>2, <1>3, <2>2, <2>5, <2>11, <3>3, <3>4
    <3> QED BY ONLY <3>5, AssumeOrEnterSims
  <2> QED BY <2>7, <2>9, <2>10, <2>11
<1> QED BY <1>7, <1>8

-----------------------------------------------------------------------------
(* run_special_primop.                                                     *)

\* An event that Z3 does not see is recorded after a part of a step.
Noted(r, e) == [r EXCEPT !.s = add_event(r.s, e)]

LEMMA NotedMirrors ==
  ASSUME NEW p, NEW s, SolverOK(s), NEW r, Sound(p, s, r), Grows(s, r), r.err = "Ok", NEW e \in Notes,
         NEW x, NEW w, Mirrors(x, r, w)
  PROVE  LET q == Noted(r, e) IN Sound(p, s, q) /\ q.err = "Ok" /\ Grows(s, q) /\ Mirrors(x, q, w)
<1> DEFINE f == r.f
           t == r.s
           v == r.v
           u == add_event(t, e)
           q == Noted(r, e)
<1>1. r = [f |-> f, s |-> t, v |-> v, err |-> r.err] /\ SolverOK(t) /\ f \in Frames(p, t.next_var)
      /\ v \in Known(t.next_var) /\ Shaped(f) /\ Keeps(s, t)
  BY SoundFacts DEF Sound, Grows
<1>2. x = Got(Concrete(f, t, w), ValueAt(t, v, w))
  BY MirrorsFacts DEF Grows
<1>3. Sound(p, s, q) /\ q.err = "Ok"
  BY NoteSound DEF Noted
<1> HIDE DEF f, t, v
<1>4. Leaves(t, u)
  BY <1>1, NoteLeaves
<1> HIDE DEF u
<1>5. q = [f |-> f, s |-> u, v |-> v, err |-> r.err]
  BY <1>1 DEF Noted, u, t
<1>6. q.f = f /\ q.s = u /\ q.v = v
  BY <1>5
<1>7. SameUnder(f, t, u)
  BY ONLY <1>1, <1>4, LeavesSame
<1>8. Concrete(f, u, w) = Concrete(f, t, w) /\ ValueAt(u, v, w) = ValueAt(t, v, w)
  BY <1>1, <1>7 DEF SameUnder
<1>9. Keeps(s, u)
  BY <1>1, <1>4, KeepsTrans DEF Leaves
<1> HIDE DEF q
<1>10. Grows(s, q)
  BY <1>1, <1>3, <1>6, <1>9 DEF Grows
<1>11. Mirrors(x, q, w)
  BY <1>2, <1>3, <1>6, <1>8 DEF Mirrors, Outcome
<1> QED BY <1>3, <1>10, <1>11 DEF q

LEMMA DerefSims == ASSUME Tracked, reg_deref PROVE SimStep
<1> DEFINE v == frame.regs["R"]
           r == IF v = Uninit THEN symbolic(frame, solver) ELSE Ok(frame, solver, v)
           q == Store(r, "regs", "R")
           loc == Instr.loc
           e(w) == ReadFrom(Concrete(frame, solver, w), w, "regs", "R")
<1>0. At("Call") /\ Deref(r, loc) /\ Instr.fn \notin DOMAIN prog /\ Instr.fn = "reg_deref"
  BY DEF reg_deref, Special, IsFunction
<1>1. /\ IsInstr(Instr) /\ Instr.i = "Call" /\ running /\ running \in BOOLEAN /\ SolverOK(solver)
      /\ frame \in Frames(prog, solver.next_var) /\ Shaped(frame)
      /\ \A w \in solver.models : w \in Assignments
      /\ \A w : StepOf(w) = InstrStep(prog, Concrete(frame, solver, w), w, Instr)
  BY <1>0, HereFacts
<1>2. loc \in Names
  BY <1>1 DEF IsInstr, Names
<1>3. \A w : StepOf(w) = Assigned(e(w), loc)
  BY <1>0, <1>1 DEF InstrStep, CallStep
<1>4. v \in Value(solver.next_var) /\ "R" \in DOMAIN frame.regs /\ "R" \in Names /\ "regs" \in Places
  BY <1>1, FrameFields DEF Regs, Names, Places
<1>5. Sound(prog, solver, r) /\ r.err = "Ok"
  <2>1. CASE v = Uninit
    BY <1>1, <2>1, symbolicSound
  <2>2. CASE v # Uninit
    <3>1. v \in Known(solver.next_var)
      BY <1>4, <2>2 DEF Value
    <3> HIDE DEF v
    <3>2. Sound(prog, solver, Ok(frame, solver, v)) /\ Ok(frame, solver, v).err = "Ok"
      BY <1>1, <3>1, SolverTypes, OkSound
    <3> QED BY <2>2, <3>2
  <2> QED BY <2>1, <2>2
<1>6. ASSUME NEW w \in solver.models PROVE Mirrors(e(w), q, w) /\ Grows(solver, q)
  <2> DEFINE place == "regs"
             id == "R"
             y == IF frame[place][id] = Uninit THEN symbolic(frame, solver) ELSE Ok(frame, solver, frame[place][id])
  <2>1. /\ SolverOK(solver) /\ frame \in Frames(prog, solver.next_var) /\ Shaped(frame) /\ place \in Places
        /\ id \in Names /\ id \in DOMAIN frame[place] /\ frame[place][id] \in Value(solver.next_var)
        /\ w \in Assignments
    BY <1>1, <1>4
  <2>2. q = Store(y, place, id) /\ e(w) = ReadFrom(Concrete(frame, solver, w), w, place, id)
    OBVIOUS
  <2> HIDE DEF place, id
  <2>3. Mirrors(ReadFrom(Concrete(frame, solver, w), w, place, id), Store(y, place, id), w)
        /\ Grows(solver, Store(y, place, id))
    BY <2>1, ReadFromMirrors
  <2> QED BY <2>2, <2>3
<1> HIDE DEF v, r, e
<1>7. Sound(prog, solver, q) /\ q.err = "Ok"
  BY <1>1, <1>4, <1>5, StoreSound DEF Places
<1>8. /\ q.f = [r.f EXCEPT !["regs"]["R"] = r.v]
      /\ q.s = add_event(r.s, Access("read-reg", "R", r.v)) /\ q.v = r.v
  BY DEF Store, Ok
<1> DEFINE x == Advance(AssignAfter(q, loc))
<1>9. Continue(x)
  BY <1>0, <1>7, <1>8 DEF Deref, AssignAfter
<1> HIDE DEF q, loc
<1>10. Sound(prog, solver, x)
  BY <1>1, <1>2, <1>7, AssignAfterSound, AdvanceSound
<1>11. ASSUME NEW w \in solver.models PROVE StepOf(w) = Outcome(x, w) /\ Shaped(x.f)
  <2>1. Mirrors(e(w), q, w) /\ Grows(solver, q)
    BY <1>6
  <2>2. Grows(solver, x) /\ x.err = q.err /\ Outcome(x, w) = Then(e(w), Assigned(e(w), loc))
    BY ONLY <1>1, <1>2, <1>7, <2>1, AssignedMirrors
  <2>3. e(w).c.run = "go"
    BY <1>7, <2>1, MirrorsFacts DEF Grows
  <2> QED BY <1>3, <2>2, <2>3 DEF Then, Grows
<1> HIDE DEF x
<1> QED BY <1>1, <1>9, <1>10, <1>11, ContinueSims DEF Tracked

LEMMA AbstractSims == ASSUME Tracked, abstract_call PROVE SimStep
<1> DEFINE r == eval_exp(frame, solver, Instr.arg)
           loc == Instr.loc
           e(w) == Eval(Concrete(frame, solver, w), w, Instr.arg)
<1>0. At("Call") /\ AbstractCall(r, loc) /\ Instr.fn \notin DOMAIN prog /\ Instr.fn = "abstract_call"
  BY DEF abstract_call, Special, IsFunction
<1>1. /\ IsInstr(Instr) /\ Instr.i = "Call" /\ running /\ running \in BOOLEAN /\ SolverOK(solver)
      /\ \A w \in solver.models : w \in Assignments
      /\ \A w : StepOf(w) = InstrStep(prog, Concrete(frame, solver, w), w, Instr)
  BY <1>0, HereFacts
<1>2. loc \in Names /\ IsExp(Instr.arg)
  BY <1>1 DEF IsInstr, Names
<1>3. \A w : StepOf(w) = Then(e(w), Assigned(Fresh(e(w).c, w), loc))
  BY <1>0, <1>1 DEF InstrStep, CallStep
<1>4. Sound(prog, solver, r) /\ Grows(solver, r) /\ \A w \in solver.models : Mirrors(e(w), r, w)
  BY <1>0, <1>2, ValueHere
<1> HIDE DEF e, r, loc
<1>5. CASE r.err # "Ok"
  <2>1. Continue(r)
    BY <1>0, <1>5 DEF AbstractCall
  <2>2. ASSUME NEW w \in solver.models PROVE StepOf(w) = Outcome(r, w)
    <3>1. e(w).c = Outcome(r, w) /\ e(w).c.run # "go"
      BY <1>4, <1>5, MirrorsFacts DEF Grows
    <3> QED BY <1>3, <3>1 DEF Then
  <2> QED BY <1>1, <1>4, <2>1, <2>2, ContinueSims DEF Grows
<1>6. CASE r.err = "Ok"
  <2> DEFINE f == r.f
             t == r.s
             q == symbolic(f, t)
             n == [ev |-> "abstract", fn |-> "abstracted"]
             z == Noted(q, n)
             x == Advance(AssignAfter(z, loc))
  <2>1. SolverOK(t) /\ f \in Frames(prog, t.next_var) /\ Shaped(f) /\ Reaches(solver, t)
    BY <1>4, SoundFacts DEF Grows
  <2>2. Continue(Advance(AbstractEvent(q, loc)))
    BY <1>0, <1>6 DEF AbstractCall
  <2> HIDE DEF f, t
  <2>3. Sound(prog, t, q) /\ q.err = "Ok"
    BY <2>1, symbolicSound
  <2>4. ASSUME NEW w \in solver.models PROVE Mirrors(Fresh(Concrete(f, t, w), w), q, w) /\ Grows(t, q)
    BY <1>1, <2>1, symbolicMirrors
  <2>5. n \in Notes
    <3>1. "abstracted" \in Names
      BY DEF Names
    <3> QED BY <3>1, CallIsNote
  <2>6. q = [f |-> q.f, s |-> q.s, v |-> q.v, err |-> q.err]
    BY <2>3 DEF Sound
  <2> HIDE DEF q
  <2>7. z = [f |-> q.f, s |-> add_event(q.s, n), v |-> q.v, err |-> "Ok"]
    BY <2>3, <2>6 DEF Noted
  <2>8. AssignAfter(z, loc) = AbstractEvent(q, loc)
    BY <2>7 DEF AssignAfter, AbstractEvent
  <2>9. Continue(x)
    BY <2>2, <2>8
  <2> HIDE DEF n
  <2>10. ASSUME NEW w \in solver.models
         PROVE  Sound(prog, t, z) /\ z.err = "Ok" /\ Grows(t, z) /\ Mirrors(Fresh(Concrete(f, t, w), w), z, w)
    <3> DEFINE y == Fresh(Concrete(f, t, w), w)
    <3>1. Mirrors(y, q, w) /\ Grows(t, q)
      BY <2>4
    <3> HIDE DEF y
    <3>2. Sound(prog, t, z) /\ z.err = "Ok" /\ Grows(t, z) /\ Mirrors(y, z, w)
      BY <2>1, <2>3, <2>5, <3>1, NotedMirrors
    <3> QED BY <3>2 DEF y
  <2> HIDE DEF z
  <2>11. ASSUME NEW w \in solver.models
         PROVE  StepOf(w) = Outcome(x, w) /\ Shaped(x.f) /\ Sound(prog, t, x)
    <3> DEFINE y == Fresh(Concrete(f, t, w), w)
    <3>1. Sound(prog, t, z) /\ z.err = "Ok" /\ Grows(t, z) /\ Mirrors(y, z, w)
      BY <2>10
    <3> HIDE DEF y
    <3>2. Grows(t, x) /\ x.err = z.err /\ Outcome(x, w) = Then(y, Assigned(y, loc))
      BY ONLY <1>2, <2>1, <3>1, AssignedMirrors
    <3>3. y.c.run = "go"
      BY <3>1, MirrorsFacts DEF Grows
    <3>4. e(w).c = Concrete(f, t, w) /\ e(w).c.run = "go"
      BY <1>4, <1>6, MirrorsFacts DEF Grows, f, t
    <3>5. StepOf(w) = Assigned(y, loc)
      BY <1>3, <3>4 DEF Then, y
    <3>6. Sound(prog, t, x)
      BY <1>2, <2>1, <3>1, AssignAfterSound, AdvanceSound
    <3> QED BY <3>2, <3>3, <3>5, <3>6 DEF Then, Grows
  <2> HIDE DEF x
  <2>12. Sound(prog, solver, x) /\ Shaped(x.f)
    BY <1>1, <2>1, <2>11, SoundTrans DEF Tracked
  <2> QED BY <1>1, <2>9, <2>11, <2>12, ContinueSims
<1> QED BY <1>5, <1>6

LEMMA NoFunctionSims == ASSUME Tracked, NoFunction PROVE SimStep
<1>1. At("Call") /\ Collect(frame, solver, "NoFunction", Unit) /\ Instr.fn \notin DOMAIN prog /\ Instr.fn = "missing"
  BY DEF NoFunction, Special, IsFunction
<1>2. /\ Instr.i = "Call" /\ running /\ Reaches(solver, solver)
      /\ \A w : StepOf(w) = InstrStep(prog, Concrete(frame, solver, w), w, Instr)
  BY <1>1, HereFacts
<1>3. \A w : StepOf(w) = Ends(Concrete(frame, solver, w), "NoFunction", Unit)
  BY <1>1, <1>2 DEF InstrStep, CallStep
<1>4. ASSUME NEW w
      PROVE  /\ StepOf(w).run = "NoFunction" /\ StepOf(w).v = ValueAt(solver, Unit, w)
             /\ StepOf(w).regs = ValuesAt(solver, frame.regs, w)
  BY <1>3, EndsFields, UnitAt
<1> QED BY <1>1, <1>2, <1>4, CollectSims

\* The counts of announcements change.
WithCounts(c, x) == [c EXCEPT !.counts = x]
WithPcCounts(f, x) == [f EXCEPT !.pc_counts = x]

LEMMA CountsUpdate ==
  ASSUME NEW p, NEW m, NEW f \in Frames(p, m), Shaped(f), NEW s, NEW w, NEW x
  PROVE  /\ Shaped(WithPcCounts(f, x)) /\ WithPcCounts(f, x).regs = f.regs
         /\ Concrete(WithPcCounts(f, x), s, w) = WithCounts(Concrete(f, s, w), x)
<1> DEFINE g == WithPcCounts(f, x)
<1>1. /\ g.fn = f.fn /\ g.code = f.code /\ g.pc = f.pc /\ g.vars = f.vars /\ g.regs = f.regs /\ g.lets = f.lets
      /\ g.stack_vars = f.stack_vars /\ g.calls = f.calls /\ g.backtrace = f.backtrace /\ g.pc_counts = x
  BY DEF Frames, WithPcCounts
<1> HIDE DEF g
<1>2. Shaped(g)
  BY <1>1 DEF Shaped
<1>3. Concrete(g, s, w) = WithCounts(Concrete(f, s, w), x)
  BY <1>1 DEF Concrete, WithCounts
<1> QED BY <1>1, <1>2, <1>3 DEF g

(* An announcement of a literal.                                           *)
LEMMA AnnounceSims == ASSUME Tracked, AnnouncesLiterals, instr_announce PROVE SimStep
<1> DEFINE r == eval_exp(frame, solver, Instr.arg)
           loc == Instr.loc
           v == Instr.arg.v
           c(w) == Concrete(frame, solver, w)
<1>0. At("Call") /\ Announce(r, loc) /\ Instr.fn \notin DOMAIN prog /\ Instr.fn = "instr_announce"
  BY DEF instr_announce, Special, IsFunction
<1>1. /\ IsInstr(Instr) /\ Instr.i = "Call" /\ running /\ running \in BOOLEAN /\ SolverOK(solver)
      /\ frame \in Frames(prog, solver.next_var) /\ Shaped(frame) /\ Reaches(solver, solver)
      /\ \A w : StepOf(w) = InstrStep(prog, Concrete(frame, solver, w), w, Instr)
  BY <1>0, HereFacts
<1>2. loc \in Names /\ IsExp(Instr.arg)
  BY <1>1 DEF IsInstr, Names
<1>3. Instr.arg.e = "val"
  <2>1. prog \in Programs /\ IsProgram(prog)
    BY RunLoopAssumption DEF Tracked, TasksOK
  <2>2. frame.code \in DOMAIN prog /\ frame.pc \in Pcs
    BY <1>1, FrameFields
  <2>3. frame.pc <= Len(prog[frame.code]) /\ Instr = prog[frame.code][frame.pc]
    BY <1>0 DEF At, Instr, Instrs
  <2>4. Len(prog[frame.code]) \in Nat
    BY <2>1, <2>2 DEF IsProgram
  <2>5. frame.pc \in 1..Len(prog[frame.code])
    BY <2>2, <2>3, <2>4 DEF Pcs
  <2> HIDE DEF Instr
  <2> QED BY <1>0, <1>1, <2>1, <2>2, <2>3, <2>5 DEF AnnouncesLiterals
<1>4. r = Ok(frame, solver, v) /\ v \in Known(solver.next_var) /\ v.k # "sym"
      /\ \A w : Eval(c(w), w, Instr.arg) = Got(c(w), v)
  <2>1. v \in {Bit(0), Bit(1), Poison, Unit}
    BY <1>2, <1>3 DEF IsExp, IsAtom
  <2>2. v \in Known(solver.next_var) /\ v.k # "sym"
    BY <2>1 DEF Known, Bit, Poison, Unit, Bits
  <2>3. r = Ok(frame, solver, v)
    BY <1>3 DEF eval_exp, eval_atom
  <2>4. \A w : Eval(c(w), w, Instr.arg) = Got(c(w), v)
    BY <1>3 DEF Eval, Atom
  <2> QED BY <2>2, <2>3, <2>4
<1>5. \A w : StepOf(w) = AnnounceStep(c(w), Instr, v)
  <2> SUFFICES ASSUME NEW w PROVE StepOf(w) = AnnounceStep(c(w), Instr, v)
    OBVIOUS
  <2> DEFINE e == Eval(c(w), w, Instr.arg)
  <2>1. StepOf(w) = Then(e, AnnounceStep(e.c, Instr, e.v))
    BY <1>0, <1>1 DEF InstrStep, CallStep
  <2>2. c(w).run = "go"
    BY ConcreteFields
  <2>3. e = Got(c(w), v)
    BY <1>4
  <2> HIDE DEF e, c, v
  <2>4. e.c = c(w) /\ e.v = v
    BY <2>3 DEF Got
  <2> QED BY <2>1, <2>2, <2>4 DEF Then
<1> DEFINE pc == frame.regs["PC"]
           b == pc.n
           n == frame.pc_counts[b] + 1
           h == [frame.pc_counts EXCEPT ![b] = n]
           g == WithPcCounts(frame, h)
<1>6. r.err = "Ok" /\ r.f = frame /\ r.s = solver /\ r.v = v
  BY <1>4 DEF Ok
<1> HIDE DEF r
<1>7. CASE pc.k # "bits"
  <2>1. Collect(frame, solver, "PcNotConcrete", Unit)
    BY <1>0, <1>6, <1>7 DEF Announce
  <2> QED BY <1>1, <2>1, GiveUpSims DEF GaveUp
<1>8. CASE pc.k = "bits"
  <2>1. b \in Bits /\ frame.pc_counts \in Counts
    <3>1. pc \in Value(solver.next_var) /\ frame.pc_counts \in Counts
      BY <1>1, FrameFields DEF Regs
    <3> HIDE DEF pc
    <3> QED BY <1>8, <3>1 DEF Value, Known, Uninit
  <2>2. n \in Nat /\ h \in Counts /\ frame.pc_counts[b] \in Nat /\ PcLimit \in Nat
    BY <2>1, RunLoopAssumption DEF Counts
  <2>3. AnnounceCounted(g, solver, v, loc, n)
    <3>1. g = [frame EXCEPT !.pc_counts[pc.n] = @ + 1]
      BY DEF WithPcCounts
    <3> HIDE DEF g
    <3> QED BY <1>0, <1>6, <1>8, <3>1 DEF Announce
  <2>4. ASSUME NEW w PROVE c(w).regs["PC"].n = b /\ c(w).counts = frame.pc_counts
    <3>1. c(w).regs = ValuesAt(solver, frame.regs, w) /\ c(w).counts = frame.pc_counts
      BY ConcreteFields
    <3>2. "PC" \in DOMAIN frame.regs
      BY <1>1, FrameFields DEF Regs
    <3> HIDE DEF c
    <3>3. c(w).regs["PC"] = pc
      BY <1>8, <3>1, <3>2 DEF ValuesAt, ValueAt
    <3> QED BY <3>1, <3>3
  <2>5. ASSUME NEW w
        PROVE  /\ n > PcLimit => StepOf(w) = Ends(c(w), "PCLimitReached", Unit)
               /\ n <= PcLimit /\ v = Bit(0) => StepOf(w) = Ends(c(w), "Exit", Unit)
               /\ n <= PcLimit /\ v # Bit(0) => StepOf(w) = Skip(Write(WithCounts(c(w), h), loc, Unit))
    <3> DEFINE y == c(w)
    <3> HIDE DEF c, y, v, loc, b, h
    <3>1. AnnounceStep(y, Instr, v) =
            CASE y.counts[b] >= PcLimit -> Ends(y, "PCLimitReached", Unit)
              [] y.counts[b] < PcLimit /\ v = Bit(0) -> Ends(y, "Exit", Unit)
              [] OTHER -> Skip(Write([y EXCEPT !.counts[b] = @ + 1], loc, Unit))
      BY <2>4 DEF AnnounceStep, loc, y
    <3>2. [y EXCEPT !.counts[b] = @ + 1] = WithCounts(y, h)
      BY <2>4 DEF WithCounts, y, h
    <3>3. y.counts[b] \in Nat /\ n = y.counts[b] + 1
      BY <2>2, <2>4 DEF y
    <3>4. CASE n > PcLimit
      <4>1. y.counts[b] >= PcLimit
        BY <2>2, <3>3, <3>4
      <4>2. AnnounceStep(y, Instr, v) = Ends(y, "PCLimitReached", Unit)
        BY <2>2, <3>1, <3>3, <4>1
      <4> QED BY <1>5, <2>2, <3>4, <4>2 DEF y
    <3>5. CASE n <= PcLimit
      <4>1. ~(y.counts[b] >= PcLimit) /\ y.counts[b] < PcLimit
        BY <2>2, <3>3, <3>5
      <4>2. v = Bit(0) => AnnounceStep(y, Instr, v) = Ends(y, "Exit", Unit)
        BY <3>1, <4>1
      <4>3. v # Bit(0) => AnnounceStep(y, Instr, v) = Skip(Write(WithCounts(y, h), loc, Unit))
        BY <3>1, <3>2, <4>1
      <4> QED BY <1>5, <2>2, <3>5, <4>2, <4>3 DEF y
    <3> QED BY <2>2, <3>4, <3>5
  <2>6. g.regs = frame.regs /\ g \in Frames(prog, solver.next_var)
        /\ \A w : Shaped(g) /\ Concrete(g, solver, w) = WithCounts(c(w), h)
    <3>1. g \in Frames(prog, solver.next_var)
      BY <1>1, <2>2, FrameUpdates DEF WithPcCounts
    <3> HIDE DEF h
    <3> QED BY <1>1, <3>1, CountsUpdate
  <2> HIDE DEF g, h, n, v
  <2>7. ASSUME NEW run, Collect(g, solver, run, Unit), \A w : StepOf(w) = Ends(c(w), run, Unit) PROVE SimStep
    <3>1. ASSUME NEW w
          PROVE  /\ StepOf(w).run = run /\ StepOf(w).v = ValueAt(solver, Unit, w)
                 /\ StepOf(w).regs = ValuesAt(solver, g.regs, w)
      BY <2>6, <2>7, EndsFields, UnitAt
    <3> QED BY <1>1, <2>7, <3>1, CollectSims
  <2>8. CASE n > PcLimit
    <3>1. Collect(g, solver, "PCLimitReached", Unit)
      <4>1. ~(n <= PcLimit)
        BY <2>2, <2>8
      <4> QED BY <2>3, <2>8, <4>1 DEF AnnounceCounted
    <3> QED BY <2>5, <2>7, <2>8, <3>1
  <2>9. CASE n <= PcLimit /\ v = Bit(0)
    <3>1. ~(n > PcLimit)
      BY <2>2, <2>9
    <3>2. Collect(g, solver, "Exit", Unit)
      BY <2>3, <2>9, <3>1 DEF AnnounceCounted
    <3> QED BY <2>5, <2>7, <2>9, <3>2
  <2>10. CASE n <= PcLimit /\ v # Bit(0)
    <3> DEFINE e == [ev |-> "instr", val |-> v]
               t == add_event(solver, e)
               q == assign(g, t, loc, Unit)
               z == Advance(q)
    <3>1. ~(n > PcLimit)
      BY <2>2, <2>10
    <3>2. Continue(z)
      BY <2>3, <2>10, <3>1 DEF AnnounceCounted
    <3>3. e \in Notes
      <4>1. solver.next_var \in Nat /\ v \in Value(solver.next_var)
        BY <1>1, <1>4, SolverTypes DEF Value
      <4>2. v \in Recorded
        BY <4>1, RecordedValues
      <4> QED BY <4>2 DEF Notes, Event
    <3> HIDE DEF e
    <3>4. Reaches(solver, t) /\ t.next_var = solver.next_var /\ Leaves(solver, t)
      BY <1>1, <3>3, NoteFacts, NoteLeaves
    <3> HIDE DEF t, loc
    <3>5. SolverOK(t) /\ g \in Frames(prog, t.next_var) /\ Shaped(g) /\ loc \in Names /\ Unit \in Known(t.next_var)
      BY <1>2, <2>6, <3>4, UnitKnown DEF Leaves
    <3>6. Sound(prog, t, q) /\ q.err = "Ok"
      BY ONLY <3>5, assignSound
    <3>7. ASSUME NEW w
          PROVE  /\ Leaves(t, q.s) /\ Shaped(q.f)
                 /\ Concrete(q.f, q.s, w) = Write(Concrete(g, t, w), loc, ValueAt(t, Unit, w))
      <4> DEFINE y == Unit
      <4> HIDE DEF y
      <4>1. SolverOK(t) /\ g \in Frames(prog, t.next_var) /\ Shaped(g) /\ loc \in Names /\ y \in Known(t.next_var)
        BY <3>5 DEF y
      <4>2. /\ Leaves(t, assign(g, t, loc, y).s) /\ Shaped(assign(g, t, loc, y).f)
            /\ Concrete(assign(g, t, loc, y).f, assign(g, t, loc, y).s, w)
               = Write(Concrete(g, t, w), loc, ValueAt(t, y, w))
        BY ONLY <4>1, assignMirrors
      <4> QED BY <4>2 DEF y
    <3> HIDE DEF q
    <3>8. SameUnder(g, solver, t)
      <4>1. SolverOK(solver) /\ Leaves(solver, t) /\ g \in Frames(prog, solver.next_var) /\ Shaped(g)
        BY <1>1, <2>6, <3>4
      <4> QED BY ONLY <4>1, LeavesSame
    <3>9. ASSUME NEW w PROVE StepOf(w) = Outcome(z, w) /\ Shaped(z.f)
      <4>1. Shaped(z.f) /\ Outcome(z, w) = Skip(Concrete(q.f, q.s, w))
        BY <3>6, <3>7, AdvanceMirrors
      <4>2. Concrete(q.f, q.s, w) = Write(WithCounts(c(w), h), loc, Unit)
        BY <2>6, <3>7, <3>8, UnitAt DEF SameUnder
      <4>3. StepOf(w) = Skip(Write(WithCounts(c(w), h), loc, Unit))
        BY <2>5, <2>10
      <4> QED BY <4>1, <4>2, <4>3
    <3>10. Sound(prog, t, z)
      BY <3>6, AdvanceSound
    <3> HIDE DEF z
    <3>11. Sound(prog, solver, z)
      BY <1>1, <3>4, <3>10, SoundTrans
    <3> QED BY <1>1, <3>2, <3>9, <3>11, ContinueSims
  <2>11. n > PcLimit \/ n <= PcLimit
    BY <2>2
  <2> QED BY <2>8, <2>9, <2>10, <2>11
<1> QED BY <1>7, <1>8

LEMMA TimedOutSims == ASSUME Tracked, TimedOut PROVE SimStep
<1>1. running /\ Collect(frame, solver, "Timeout", Unit)
  BY DEF TimedOut
<1> QED BY <1>1, GiveUpSims DEF GaveUp

LEMMA UnknownSims == ASSUME Tracked, Z3Unknown PROVE SimStep
<1>1. ASSUME NEW r, NEW mono, Unanswered(r, mono), running PROVE SimStep
  BY <1>1, GiveUpSims DEF GaveUp, Unanswered
<1>2. running
  BY DEF Z3Unknown, At
<1> QED BY <1>1, <1>2 DEF Z3Unknown

-----------------------------------------------------------------------------
(* Forks.                                                                  *)

LEMMA CheckpointedLeaves == ASSUME NEW s, SolverOK(s) PROVE Leaves(s, checkpointed(s))
<1> DEFINE u == checkpointed(s)
<1>1. SolverOK(u) /\ Keeps(s, u)
  BY RestoredOK
<1>2. u.consts = s.consts
  <2>1. s = [next_var |-> s.next_var, decls |-> s.decls, consts |-> s.consts,
             models |-> s.models, tail |-> s.tail, head |-> s.head]
    BY SolverFields DEF SolverOK, Faithful
  <2> DEFINE l == Append(s.tail, s.head)
  <2>2. u = [s EXCEPT !.tail = l, !.head = <<>>]
    BY DEF checkpointed
  <2> HIDE DEF l, u
  <2>3. u = [next_var |-> s.next_var, decls |-> s.decls, consts |-> s.consts,
             models |-> s.models, tail |-> l, head |-> <<>>]
    BY <2>1, <2>2
  <2> QED BY <2>3
<1> QED BY <1>1, <1>2 DEF Leaves

\* The solver of a branch: the fork and its condition are recorded.
Forked(s, event, cond) == add_event(add_event(checkpointed(s), event), AssertDef(cond))

LEMMA ForkedLeaves ==
  ASSUME NEW s, SolverOK(s), NEW event \in Event, event.ev = "fork", NEW cond \in Terms
  PROVE  LET u == Forked(s, event, cond) IN
         /\ Leaves(s, u) /\ u.next_var = s.next_var /\ u.models = s.models \cap translate_exp(s, cond)
<1> DEFINE u1 == checkpointed(s)
           u2 == add_event(u1, event)
           u3 == add_event(u2, AssertDef(cond))
<1>1. SolverOK(u1) /\ Leaves(s, u1) /\ u1.next_var = s.next_var /\ u1.decls = s.decls /\ u1.models = s.models
  BY RestoredOK, CheckpointedLeaves
<1>2. u3 = Forked(s, event, cond)
  BY DEF Forked
<1> HIDE DEF u1
<1>3. SolverOK(u2) /\ Leaves(u1, u2) /\ u2.next_var = s.next_var /\ u2.decls = s.decls /\ u2.models = s.models
  <2>1. Leaves(u1, u2) /\ u2.decls = s.decls
    BY <1>1, EventLeaves
  <2>2. SolverOK(u2) /\ u2.next_var = u1.next_var /\ u2.models = u1.models
    BY <1>1, NoNewSym
  <2> QED BY <1>1, <2>1, <2>2
<1> HIDE DEF u2
<1>4. Leaves(u2, u3) /\ u3.next_var = u2.next_var /\ u3.models = u2.models \cap translate_exp(u2, cond)
  BY <1>3, AssertLeaves, AssertFacts
<1>5. translate_exp(u2, cond) = translate_exp(s, cond)
  BY <1>3, MeaningOfDecls
<1> HIDE DEF u3
<1>6. Leaves(s, u3)
  <2>1. Leaves(s, u2)
    BY <1>1, <1>3, LeavesTrans
  <2> QED BY <1>4, <2>1, LeavesTrans
<1> QED BY <1>2, <1>3, <1>4, <1>5, <1>6

LEMMA ResumeIs ==
  ASSUME NEW child, NEW at, SolverOK(at), NEW rest, NEW event, NEW cond
  PROVE  LET t == Suspended(child, at, rest, event, cond) IN
         t.frame = child /\ resume(t) = Forked(at, event, cond)
<1> DEFINE t == Suspended(child, at, rest, event, cond)
           a == AssertDef(cond)
           c == checkpoint(at)
           l == <<event, a>>
<1>1. t = [frame |-> child, checkpoint |-> c, frac |-> rest, fork_cond |-> l]
  BY DEF Suspended
<1>2. l # <<>> /\ l[1] = event /\ l[2] = a
  OBVIOUS
<1>3. from_checkpoint(c) = checkpointed(at)
  BY RestoredOK
<1> HIDE DEF t, a, c, l
<1>4. t.frame = child /\ t.checkpoint = c /\ t.fork_cond = l
  BY <1>1
<1>5. resume(t) = add_event(add_event(checkpointed(at), event), a)
  BY <1>2, <1>3, <1>4 DEF resume
<1> QED BY <1>4, <1>5 DEF t, a, Forked

\* The step of the inputs M leads to the frame; it leads there or does not leave it.
RunsTo(M, f, s) == \A w \in M : StepOf(w) = Concrete(f, s, w)
RunsToOrFrom(M, f, s) ==
  \A w \in M : \/ StepOf(w) = Concrete(f, s, w)
               \/ StepOf(w) = ConcreteStep(prog, Concrete(f, s, w), w)

LEMMA ForkSims ==
  ASSUME running \in BOOLEAN, running, NEW at, SolverOK(at), NEW f, Shaped(f), NEW s, NEW self, NEW rest,
         NEW child, child \in Frames(prog, at.next_var), Shaped(child),
         NEW event, event \in Event, event.ev = "fork", NEW cond, cond \in Terms,
         Fork2(at, f, s, self, child, rest, event, cond), RunsTo(s.models, f, s),
         RunsToOrFrom(at.models \cap translate_exp(at, cond), child, at)
  PROVE  SimStep
<1> DEFINE t == Suspended(child, at, rest, event, cond)
           u == Forked(at, event, cond)
<1>1. queue' = Append(queue, t) /\ running' = TRUE /\ frame' = f /\ solver' = s
  BY DEF Fork2, Suspended
<1>2. t.frame = child /\ resume(t) = u
  BY ResumeIs
<1>3. Leaves(at, u) /\ u.models = at.models \cap translate_exp(at, cond)
  BY ForkedLeaves
<1> HIDE DEF t, u
<1>4. SameUnder(child, at, u)
  <2>1. SolverOK(at) /\ Leaves(at, u) /\ child \in Frames(prog, at.next_var) /\ Shaped(child)
    BY <1>3
  <2> QED BY ONLY <2>1, LeavesSame
<1>5. ASSUME NEW w \in u.models
      PROVE  StepOf(w) = Concrete(child, u, w) \/ StepOf(w) = ConcreteStep(prog, Concrete(child, u, w), w)
  BY <1>3, <1>4 DEF SameUnder, RunsToOrFrom
<1>6. RunsSplit(f, s, t)
  BY <1>2, <1>5 DEF RunsSplit, RunsTo
<1>7. RunsSplit(frame', solver', t)
  BY <1>1, <1>6
<1> QED BY <1>1, <1>7 DEF SimStep, SimSplits

(* A conditional jump on a Sym.                                            *)
LEMMA JumpSymbolSims ==
  ASSUME running \in BOOLEAN, running, SolverOK(solver), solver.models # {},
         NEW s, Reaches(solver, s), NEW f, f \in Frames(prog, s.next_var), Shaped(f),
         NEW v, v \in 0..(s.next_var - 1), NEW target, target \in Pcs,
         JumpOnSymbol(f, s, v, target, can_be(s, IsTrue(v)), can_be(s, IsFalse(v))),
         \A w \in solver.models :
           StepOf(w) = WithPc(Concrete(f, s, w), IF ValueAt(s, Symbolic(v), w) = Bit(1) THEN target ELSE f.pc + 1)
  PROVE  SimStep
<1> DEFINE x(w) == ValueAt(s, Symbolic(v), w)
           c(w) == Concrete(f, s, w)
<1>0. SolverOK(s) /\ s.next_var \in Nat /\ v \in Nat /\ s.models = solver.models /\ s.models \in SUBSET Assignments
      /\ f.forks \in Nat
  BY SolverTypes, FrameFields DEF Reaches, Follows
<1>1. IsTrue(v) \in Terms /\ IsFalse(v) \in Terms
  BY <1>0, SymTerms
<1>2. ASSUME NEW w \in solver.models
      PROVE  /\ x(w) \in {Bit(0), Bit(1)} /\ Bit(0) # Bit(1)
             /\ w \in translate_exp(s, IsTrue(v)) <=> x(w) = Bit(1)
             /\ w \in translate_exp(s, IsFalse(v)) <=> x(w) = Bit(0)
             /\ StepOf(w) = WithPc(c(w), IF x(w) = Bit(1) THEN target ELSE f.pc + 1)
  <2>1. w \in Assignments /\ Bit(0) # Bit(1)
    BY <1>0 DEF Bit
  <2> QED BY <2>1, SymMeaning
<1>3. ASSUME NEW pc PROVE Shaped(WithPc(f, pc)) /\ \A w : Concrete(WithPc(f, pc), s, w) = WithPc(c(w), pc)
  BY ShapedUpdates, ConcreteUpdates
<1> HIDE DEF x, c
<1>4. ASSUME NEW e, e \in Terms, NEW pc, pc \in Pcs, JumpTo(f, s, e, pc), s.models \subseteq translate_exp(s, e),
             \A w \in solver.models : StepOf(w) = WithPc(c(w), pc)
      PROVE  SimStep
  <2> DEFINE u == add_event(s, AssertDef(e))
             g == WithPc(f, pc)
  <2>1. GoOn(g, u)
    BY <1>4 DEF JumpTo, WithPc
  <2>2. Leaves(s, u) /\ u.models = s.models /\ Follows(s, u)
    <3>1. SolverOK(s) /\ e \in Terms
      BY <1>0, <1>4
    <3>2. Leaves(s, u)
      BY ONLY <3>1, AssertLeaves
    <3>3. Follows(s, u) /\ u.models = s.models \cap translate_exp(s, e)
      BY ONLY <3>1, AssertFacts
    <3> HIDE DEF u
    <3> QED BY <1>4, <3>2, <3>3
  <2>3. Reaches(solver, u)
    BY <1>0, <2>2, FollowsTrans DEF Reaches
  <2>4. g \in Frames(prog, s.next_var) /\ Shaped(g)
    BY <1>3, <1>4, FrameUpdates DEF WithPc
  <2> HIDE DEF u, g
  <2>5. SameUnder(g, s, u)
    BY ONLY <1>0, <2>2, <2>4, LeavesSame
  <2>6. \A w \in solver.models : StepOf(w) = Concrete(g, u, w)
    BY <1>3, <1>4, <2>5 DEF SameUnder, g
  <2> QED BY <2>1, <2>3, <2>4, <2>6, GoOnSims
<1>5. CASE can_be(s, IsTrue(v)) /\ can_be(s, IsFalse(v))
  <2> DEFINE e0 == Fork(f.forks, v, 0)
             e1 == Fork(f.forks, v, 1)
             g1 == WithForks(f, f.forks + 1)
             g == WithPc(g1, target)
             child == WithPc(f, f.pc + 1)
             u == Forked(s, e0, IsTrue(v))
             self == halve(frac)
             yes == s.models \cap translate_exp(s, IsTrue(v))
             no == s.models \cap translate_exp(s, IsFalse(v))
  <2>1. Fork2(s, g, u, self, child, self, e1, IsFalse(v))
    <3> DEFINE a == can_be(s, IsTrue(v))
               b == can_be(s, IsFalse(v))
    <3>1. a /\ b /\ a \in BOOLEAN /\ b \in BOOLEAN /\ JumpOnSymbol(f, s, v, target, a, b)
      BY <1>5 DEF can_be
    <3> HIDE DEF a, b
    <3>2. ForkOn(f, s, v, target)
      BY <3>1 DEF JumpOnSymbol
    <3> QED BY <3>2 DEF ForkOn, WithPc, WithForks, Forked
  <2>2. e0 \in Event /\ e0.ev = "fork" /\ e1 \in Event /\ e1.ev = "fork"
    <3>1. ASSUME NEW n \in Nat, NEW b \in Bits PROVE Fork(n, v, b) \in Event /\ Fork(n, v, b).ev = "fork"
      <4>1. v \in Nat /\ n \in Nat /\ b \in Bits
        BY <1>0
      <4> QED BY ONLY <4>1, ForkIsEvent
    <3>2. 0 \in Bits /\ 1 \in Bits
      BY DEF Bits
    <3> QED BY <1>0, <3>1, <3>2
  <2> HIDE DEF e0, e1, self
  <2>3. Leaves(s, u) /\ u.models = yes
    BY <1>0, <1>1, <2>2, ForkedLeaves
  <2>4. g1 \in Frames(prog, s.next_var) /\ Shaped(g1) /\ \A w : Concrete(g1, s, w) = c(w)
    <3>1. f.forks + 1 \in Nat
      BY <1>0
    <3>2. g1 \in Frames(prog, s.next_var)
      BY <3>1, FrameUpdates DEF WithForks
    <3> QED BY <3>2, ShapedUpdates, ConcreteUpdates DEF c
  <2> HIDE DEF g1
  <2>5. g \in Frames(prog, s.next_var) /\ Shaped(g) /\ \A w : Concrete(g, s, w) = WithPc(c(w), target)
    <3>1. g \in Frames(prog, s.next_var)
      BY <2>4, FrameUpdates DEF WithPc
    <3>2. Shaped(g) /\ \A w : Concrete(g, s, w) = WithPc(Concrete(g1, s, w), target)
      BY <2>4, ShapedUpdates, ConcreteUpdates
    <3> QED BY <2>4, <3>1, <3>2
  <2>6. child \in Frames(prog, s.next_var) /\ Shaped(child) /\ \A w : Concrete(child, s, w) = WithPc(c(w), f.pc + 1)
    <3>1. f.pc + 1 \in Pcs
      BY FrameFields DEF Pcs
    <3>2. child \in Frames(prog, s.next_var)
      BY <3>1, FrameUpdates DEF WithPc
    <3> QED BY <1>3, <3>2
  <2> HIDE DEF g, child, u
  <2>7. SameUnder(g, s, u)
    BY ONLY <1>0, <2>3, <2>5, LeavesSame
  <2>8. RunsTo(u.models, g, u)
    <3> SUFFICES ASSUME NEW w \in u.models PROVE StepOf(w) = Concrete(g, u, w)
      BY DEF RunsTo
    <3>1. w \in solver.models /\ x(w) = Bit(1)
      BY <1>0, <1>2, <2>3
    <3>2. StepOf(w) = WithPc(c(w), target)
      BY <1>2, <3>1
    <3> QED BY <2>5, <2>7, <3>2 DEF SameUnder
  <2>9. RunsToOrFrom(no, child, s)
    <3> SUFFICES ASSUME NEW w \in no PROVE StepOf(w) = Concrete(child, s, w)
      BY DEF RunsToOrFrom
    <3>1. w \in solver.models /\ x(w) = Bit(0) /\ x(w) # Bit(1)
      BY <1>0, <1>2
    <3>2. StepOf(w) = WithPc(c(w), f.pc + 1)
      BY <1>2, <3>1
    <3> QED BY <2>6, <3>2
  <2>10. running \in BOOLEAN /\ running /\ SolverOK(s) /\ Shaped(g)
         /\ child \in Frames(prog, s.next_var) /\ Shaped(child)
         /\ e1 \in Event /\ e1.ev = "fork" /\ IsFalse(v) \in Terms
         /\ Fork2(s, g, u, self, child, self, e1, IsFalse(v)) /\ RunsTo(u.models, g, u)
         /\ RunsToOrFrom(s.models \cap translate_exp(s, IsFalse(v)), child, s)
    BY <1>0, <1>1, <2>1, <2>2, <2>5, <2>6, <2>8, <2>9
  <2> DEFINE cond == IsFalse(v)
  <2> HIDE DEF cond
  <2>11. running \in BOOLEAN /\ running /\ SolverOK(s) /\ Shaped(g)
         /\ child \in Frames(prog, s.next_var) /\ Shaped(child)
         /\ e1 \in Event /\ e1.ev = "fork" /\ cond \in Terms
         /\ Fork2(s, g, u, self, child, self, e1, cond) /\ RunsTo(u.models, g, u)
         /\ RunsToOrFrom(s.models \cap translate_exp(s, cond), child, s)
    BY <2>10 DEF cond
  <2> QED BY ONLY <2>11, ForkSims
<1>6. CASE can_be(s, IsTrue(v)) /\ ~can_be(s, IsFalse(v))
  <2>1. \A w \in solver.models : x(w) = Bit(1)
    BY <1>0, <1>2, <1>6 DEF can_be
  <2>2. JumpTo(f, s, IsTrue(v), target)
    <3> DEFINE a == can_be(s, IsTrue(v))
               b == can_be(s, IsFalse(v))
    <3>1. a /\ ~b /\ a \in BOOLEAN /\ b \in BOOLEAN /\ JumpOnSymbol(f, s, v, target, a, b)
      BY <1>6 DEF can_be
    <3> HIDE DEF a, b
    <3> QED BY <3>1 DEF JumpOnSymbol
  <2>3. s.models \subseteq translate_exp(s, IsTrue(v))
    BY <1>0, <1>2, <2>1
  <2>4. \A w \in solver.models : StepOf(w) = WithPc(c(w), target)
    BY <1>2, <2>1
  <2> QED BY <1>1, <1>4, <2>2, <2>3, <2>4
<1>7. CASE ~can_be(s, IsTrue(v)) /\ can_be(s, IsFalse(v))
  <2>1. \A w \in solver.models : x(w) = Bit(0) /\ x(w) # Bit(1)
    BY <1>0, <1>2, <1>7 DEF can_be
  <2>2. JumpTo(f, s, IsFalse(v), f.pc + 1)
    <3> DEFINE a == can_be(s, IsTrue(v))
               b == can_be(s, IsFalse(v))
    <3>1. ~a /\ b /\ a \in BOOLEAN /\ b \in BOOLEAN /\ JumpOnSymbol(f, s, v, target, a, b)
      BY <1>7 DEF can_be
    <3> HIDE DEF a, b
    <3> QED BY <3>1 DEF JumpOnSymbol
  <2>3. s.models \subseteq translate_exp(s, IsFalse(v))
    BY <1>0, <1>2, <2>1
  <2>4. \A w \in solver.models : StepOf(w) = WithPc(c(w), f.pc + 1)
    BY <1>2, <2>1
  <2>5. f.pc + 1 \in Pcs
    BY FrameFields DEF Pcs
  <2> QED BY <1>1, <1>4, <2>2, <2>3, <2>4, <2>5
<1>8. CASE ~can_be(s, IsTrue(v)) /\ ~can_be(s, IsFalse(v))
  <2>1. PICK w : w \in solver.models
    OBVIOUS
  <2> QED BY <1>0, <1>2, <1>8, <2>1 DEF can_be
<1> QED BY <1>5, <1>6, <1>7, <1>8


LEMMA JumpStepIs ==
  ASSUME NEW c, c.run = "go", NEW x, NEW target
  PROVE  LET d == Then(Got(c, x), JumpStep(Got(c, x), target)) IN
         /\ x.k = "bits" => d = WithPc(c, IF x.n = 1 THEN target ELSE c.pc + 1)
         /\ x.k # "bits" => d = Ends(c, "Type", Unit)
<1>1. Got(c, x).c = c /\ Got(c, x).v = x
  BY DEF Got
<1>2. Then(Got(c, x), JumpStep(Got(c, x), target)) = JumpStep(Got(c, x), target)
  BY <1>1 DEF Then
<1>3. WithPc(c, target) = GoTo(c, target) /\ WithPc(c, c.pc + 1) = Skip(c)
  BY DEF WithPc, GoTo, Skip
<1> QED BY <1>1, <1>2, <1>3 DEF JumpStep

LEMMA JumpSims == ASSUME Tracked, Jump PROVE SimStep
<1> DEFINE r == eval_exp(frame, solver, Instr.exp)
           target == Instr.target
           e(w) == Eval(Concrete(frame, solver, w), w, Instr.exp)
<1>1. At("Jump") /\ JumpOn(r, target)
  BY DEF Jump
<1>2. /\ IsInstr(Instr) /\ Instr.i = "Jump" /\ running /\ running \in BOOLEAN /\ SolverOK(solver)
      /\ \A w : StepOf(w) = InstrStep(prog, Concrete(frame, solver, w), w, Instr)
      /\ \A w \in solver.models : w \in Assignments
  BY <1>1, HereFacts
<1>4. target \in Pcs /\ IsExp(Instr.exp)
  BY <1>2 DEF IsInstr, Pcs
<1>5. \A w : StepOf(w) = Then(e(w), JumpStep(e(w), target))
  BY <1>2 DEF InstrStep
<1>6. Sound(prog, solver, r) /\ Grows(solver, r) /\ \A w \in solver.models : Mirrors(e(w), r, w)
  BY <1>1, <1>4, ValueHere
<1>7. solver.models # {}
  BY DEF Tracked
<1> HIDE DEF e, r, target
<1>8. CASE r.err # "Ok"
  <2>1. Continue(r)
    BY <1>1, <1>8 DEF JumpOn
  <2>2. ASSUME NEW w \in solver.models PROVE StepOf(w) = Outcome(r, w)
    <3>1. e(w).c = Outcome(r, w) /\ e(w).c.run # "go"
      BY <1>6, <1>8, MirrorsFacts DEF Grows
    <3> QED BY <1>5, <3>1 DEF Then
  <2> QED BY <1>2, <1>6, <2>1, <2>2, ContinueSims DEF Grows
<1>9. CASE r.err = "Ok"
  <2> DEFINE f == r.f
             s == r.s
             v == r.v
             c(w) == Concrete(f, s, w)
             x(w) == ValueAt(s, v, w)
  <2>1. SolverOK(s) /\ f \in Frames(prog, s.next_var) /\ Shaped(f) /\ Reaches(solver, s)
        /\ v \in Known(s.next_var) /\ s.next_var \in Nat
        /\ v.k \in {"bits", "sym", "poison", "unit"}
    BY <1>6, <1>9, SoundFacts, SolverTypes, KnownKinds DEF Grows, Sound
  <2>2. ASSUME NEW w \in solver.models
        PROVE  /\ x(w).k = "bits" => StepOf(w) = WithPc(c(w), IF x(w).n = 1 THEN target ELSE f.pc + 1)
               /\ x(w).k # "bits" => StepOf(w) = Ends(c(w), "Type", Unit)
    <3>1. e(w) = Got(c(w), x(w))
      BY <1>6, <1>9, MirrorsFacts DEF Grows
    <3>2. c(w).run = "go" /\ c(w).pc = f.pc
      BY ConcreteFields
    <3>3. StepOf(w) = Then(Got(c(w), x(w)), JumpStep(Got(c(w), x(w)), target))
      BY <1>5, <3>1
    <3> HIDE DEF c, x
    <3> QED BY <3>2, <3>3, JumpStepIs
  <2>3. JumpOn(r, target) /\ v = r.v /\ f = r.f /\ s = r.s
    BY <1>1
  <2> HIDE DEF f, s, v
  <2>4. CASE v.k = "bits"
    <3> DEFINE pc == IF v.n = 1 THEN target ELSE f.pc + 1
               g == WithPc(f, pc)
    <3>1. GoOn(g, s)
      BY <1>9, <2>3, <2>4 DEF JumpOn, WithPc
    <3>2. \A w \in solver.models : StepOf(w) = WithPc(c(w), pc)
      BY <2>2, <2>4 DEF ValueAt
    <3> HIDE DEF pc
    <3>3. Shaped(g) /\ \A w : Concrete(g, s, w) = WithPc(c(w), pc)
      BY <2>1, ShapedUpdates, ConcreteUpdates
    <3> HIDE DEF g, c
    <3> QED BY <1>2, <2>1, <3>1, <3>2, <3>3, GoOnSims
  <2>5. CASE v.k \in {"poison", "unit"}
    <3>1. Collect(f, s, "Type", Unit)
      BY <1>9, <2>3, <2>5 DEF JumpOn
    <3>2. ASSUME NEW w \in solver.models
          PROVE  StepOf(w).run = "Type" /\ StepOf(w).v = ValueAt(s, Unit, w)
                 /\ StepOf(w).regs = ValuesAt(s, f.regs, w)
      <4>1. x(w).k # "bits"
        BY <2>5 DEF ValueAt
      <4>2. StepOf(w) = Ends(Concrete(f, s, w), "Type", Unit)
        BY <2>2, <4>1
      <4> QED BY <4>2, EndsFields, UnitAt
    <3> QED BY <1>2, <2>1, <3>1, <3>2, CollectSims
  <2>6. CASE v.k = "sym"
    <3> DEFINE n == v.n
    <3>1. n \in 0..(s.next_var - 1) /\ v = Symbolic(n)
      BY <2>1, <2>6 DEF Known, Symbolic
    <3>2. JumpOnSymbol(f, s, n, target, can_be(s, IsTrue(n)), can_be(s, IsFalse(n)))
      BY <1>9, <2>3, <2>6 DEF JumpOn
    <3> HIDE DEF n
    <3>3. ASSUME NEW w \in solver.models
          PROVE  StepOf(w) = WithPc(Concrete(f, s, w), IF ValueAt(s, Symbolic(n), w) = Bit(1) THEN target ELSE f.pc + 1)
      <4>1. x(w) = ValueAt(s, Symbolic(n), w) /\ w \in Assignments
        BY <1>2, <3>1
      <4>2. x(w) \in {Bit(0), Bit(1)}
        BY <4>1, SymMeaning
      <4>3. x(w).k = "bits" /\ (x(w).n = 1 <=> x(w) = Bit(1))
        BY <4>2 DEF Bit
      <4> QED BY <2>2, <4>1, <4>3
    <3>4. /\ running \in BOOLEAN /\ running /\ SolverOK(solver) /\ solver.models # {}
          /\ Reaches(solver, s) /\ f \in Frames(prog, s.next_var) /\ Shaped(f)
          /\ n \in 0..(s.next_var - 1) /\ target \in Pcs
          /\ JumpOnSymbol(f, s, n, target, can_be(s, IsTrue(n)), can_be(s, IsFalse(n)))
          /\ \A w \in solver.models :
               StepOf(w) = WithPc(Concrete(f, s, w), IF ValueAt(s, Symbolic(n), w) = Bit(1) THEN target ELSE f.pc + 1)
      BY <1>2, <1>4, <1>7, <2>1, <3>1, <3>2, <3>3
    <3> QED BY ONLY <3>4, JumpSymbolSims
  <2> QED BY <2>1, <2>4, <2>5, <2>6
<1> QED BY <1>8, <1>9


(* Monomorphize.                                                           *)

LEMMA NameLeaves ==
  ASSUME NEW at, SolverOK(at), NEW v, v \in 0..(at.next_var - 1)
  PROVE  Leaves(at, NameForModel(checkpointed(at), v))
<1> DEFINE u1 == checkpointed(at)
           n == u1.next_var
           e == DeclareEqual(n, v)
           r == [u1 EXCEPT !.next_var = @ + 1]
           u2 == add_event(r, e)
           x == Term("eq", Var(v), Var(n))
           u3 == add_event(u2, AssertDef(x))
<1>1. NameForModel(u1, v) = u3
  BY DEF NameForModel
<1>2. SolverOK(u1) /\ n = at.next_var /\ u1.decls = at.decls /\ Leaves(at, u1)
  BY RestoredOK, CheckpointedLeaves
<1> HIDE DEF u1
<1>3. n \in Nat /\ v \in 0..(n - 1) /\ v \in Nat /\ at.next_var \in Nat
  BY <1>2, SolverTypes
<1>4. e \in Event /\ e.ev = "declare" /\ e.v = n /\ e.of = v /\ v # Free
  BY <1>3 DEF Event, DeclareEqual, Free
<1>5. DOMAIN u1.decls = 0..(n - 1)
  BY <1>2 DEF SolverOK
<1>6. Allowed(r, e)
  <2>1. r.decls = u1.decls
    BY <1>2, FreshFacts DEF SolverOK
  <2> HIDE DEF r, e
  <2> QED BY <1>3, <1>4, <1>5, <2>1 DEF Allowed
<1> HIDE DEF e
<1>7. Leaves(u1, u2) /\ SolverOK(u2)
  BY <1>2, <1>4, <1>6, NewSymConsts DEF Leaves
<1> HIDE DEF r, u2, n
<1>8. x \in Terms
  <2>1. Var(v) \in Atoms /\ Var(n) \in Atoms
    BY <1>3 DEF Var, Atoms
  <2> QED BY <2>1 DEF Term, Terms
<1> HIDE DEF x
<1>9. Leaves(u2, u3)
  BY <1>7, <1>8, AssertLeaves
<1> HIDE DEF u3
<1>10. Leaves(at, u2)
  BY <1>2, <1>7, LeavesTrans
<1>11. Leaves(at, u3)
  BY <1>9, <1>10, LeavesTrans
<1> QED BY <1>1, <1>11 DEF u1

\* The variable is found with the value v.
Stores(f, id, v) == ReadPlace(f, id) # "none" /\ f[ReadPlace(f, id)][id] = v

LEMMA LoadStores ==
  ASSUME NEW p, NEW s, SolverOK(s), NEW f \in Frames(p, s.next_var), NEW id \in Names
  PROVE  LET q == get_id_and_initialize(f, s, id) IN q.err = "Ok" => Stores(q.f, id, q.v)
<1> DEFINE place == ReadPlace(f, id)
           q == get_id_and_initialize(f, s, id)
           r == IF f[place][id] = Uninit THEN symbolic(f, s) ELSE Ok(f, s, f[place][id])
           v == r.v
           g == [f EXCEPT ![place][id] = v]
<1>1. q = IF place = "none" THEN Fail(f, s, "VariableNotFound") ELSE Store(r, place, id)
  BY DEF get_id_and_initialize, Load
<1>2. CASE place = "none"
  BY <1>1, <1>2 DEF Fail
<1>3. CASE place # "none"
  <2>1. r.f = f
    BY DEF symbolic, Ok
  <2>2. q.f = g /\ q.v = v
    BY <1>1, <1>3, <2>1 DEF Store, Ok
  <2>3. place \in Places /\ id \in DOMAIN f[place]
    BY ONLY <1>3, f \in Frames(p, s.next_var), PlaceFacts
  <2> HIDE DEF v, r, q
  <2>4. /\ DOMAIN g.vars = DOMAIN f.vars /\ DOMAIN g.regs = DOMAIN f.regs /\ DOMAIN g.lets = DOMAIN f.lets
        /\ g[place][id] = v
    <3> HIDE DEF place
    <3> QED BY <2>3 DEF Frames, Places
  <2>5. ReadPlace(g, id) = place
    BY <2>4 DEF ReadPlace
  <2> HIDE DEF g, place
  <2> QED BY <1>3, <2>2, <2>4, <2>5 DEF Stores, q
<1> QED BY <1>2, <1>3

\* A variable that has the value x.
Has(c, w, id, x) == Read(c, w, id) = Got(c, x) /\ Write(c, id, x) = c

LEMMA StoredReads ==
  ASSUME NEW p, NEW s, SolverOK(s), NEW f, f \in Frames(p, s.next_var), Shaped(f), NEW id, NEW v, Stores(f, id, v),
         v # Uninit, NEW w
  PROVE  Has(Concrete(f, s, w), w, id, ValueAt(s, v, w))
<1> DEFINE c == Concrete(f, s, w)
           x == ValueAt(s, v, w)
           place == ReadPlace(f, id)
<1>1. place \in Places /\ id \in DOMAIN f[place] /\ f[place][id] \in Value(s.next_var)
      /\ Read(c, w, id) = ReadFrom(c, w, place, id)
  <2>1. place # "none" /\ f \in Frames(p, s.next_var)
    BY DEF Stores
  <2> QED BY ONLY <2>1, PlaceFacts
<1>2. f[place][id] = v
  BY DEF Stores
<1>3. c[place] = ValuesAt(s, f[place], w)
  BY <1>1, PutFacts
<1>4. c = [code |-> c.code, pc |-> c.pc, vars |-> c.vars, regs |-> c.regs, lets |-> c.lets,
           stack |-> c.stack, k |-> c.k, counts |-> c.counts, run |-> c.run, v |-> c.v]
      /\ c.vars = ValuesAt(s, f.vars, w) /\ c.regs = ValuesAt(s, f.regs, w) /\ c.lets = ValuesAt(s, f.lets, w)
  BY ConcreteFields
<1>5. DOMAIN f.regs = {"R", "PC"} /\ DOMAIN f.lets = {"L"}
  BY FrameFields DEF Regs, Lets
<1>6. DOMAIN c.vars = DOMAIN f.vars /\ DOMAIN c.lets = DOMAIN f.lets /\ DOMAIN c.regs = DOMAIN f.regs
  <2> HIDE DEF c
  <2> QED BY <1>4 DEF ValuesAt
<1>7. place = IF id \in DOMAIN f.vars THEN "vars" ELSE IF id \in DOMAIN f.lets THEN "lets" ELSE "regs"
  BY <1>1, <1>5 DEF ReadPlace, Places
<1> HIDE DEF c, place
<1>8. c[place][id] = x /\ id \in DOMAIN c[place]
  BY <1>1, <1>2, <1>3 DEF ValuesAt
<1>9. x # Uninit
  BY <1>1, <1>2, UninitAt
<1> HIDE DEF x
<1>10. Read(c, w, id) = Got(c, x)
  BY <1>1, <1>8, <1>9 DEF ReadFrom
<1>11. Put(c, place, id, x) = c
  <2> DEFINE l == c[place]
  <2>1. [l EXCEPT ![id] = l[id]] = l
    BY <1>3 DEF ValuesAt
  <2> QED BY <1>1, <1>4, <1>8, <2>1 DEF Put, Places
<1>12. Write(c, id, x) = Put(c, place, id, x)
  BY <1>6, <1>7 DEF Write, Put
<1> QED BY <1>10, <1>11, <1>12 DEF Has, c, x


\* The inputs of the path skip the instruction, and would do so again.
Skips(f, at) ==
  \A w \in at.models : /\ StepOf(w) = Skip(Concrete(f, at, w))
                       /\ StepOf(w) = ConcreteStep(prog, Concrete(f, at, w), w)

LEMMA ChooseSims ==
  ASSUME NEW at, SolverOK(at), NEW f, f \in Frames(prog, at.next_var), Shaped(f), f.forks # 0,
         NEW v, v \in 0..(at.next_var - 1), NEW s, Reaches(at, s), Leaves(at, s),
         NEW id, id \in Names, Stores(f, id, Symbolic(v)), NEW b, b \in Bits, Skips(f, at)
  PROVE  LET done == Choose(f, s, id, v, b) IN Shaped(done.f) /\ RunsTo(done.s.models, done.f, done.s)
<1>0. SolverOK(s) /\ s.next_var \in Nat /\ at.next_var \in Nat /\ v \in Nat /\ at.next_var <= s.next_var
      /\ f.forks - 1 \in Nat /\ s.models = at.models /\ v \in 0..(s.next_var - 1) /\ at.models \in SUBSET Assignments
  <2>1. SolverOK(s) /\ s.models = at.models /\ at.next_var <= s.next_var
    BY DEF Reaches, Follows
  <2>2. s.next_var \in Nat /\ at.next_var \in Nat /\ at.models \in SUBSET Assignments
    BY <2>1, SolverTypes
  <2>3. f.forks \in Nat
    BY FrameFields
  <2> QED BY <2>1, <2>2, <2>3
<1> DEFINE x == Term("eq", Var(v), Lit(b))
           n == f.forks - 1
           z == 0
           e == Fork(n, v, z)
           w1 == add_event(s, e)
           w2 == add_event(w1, AssertDef(x))
           k == Bit(b)
           a == assign(f, w2, id, k)
           done == Advance(a)
<1>1. done = Choose(f, s, id, v, b)
  BY DEF Choose
<1>2. x \in Terms
  BY <1>0, SymTerms
<1>3. e \in Event /\ e.ev = "fork"
  <2>1. n \in Nat /\ v \in Nat /\ z \in Bits
    BY <1>0 DEF Bits
  <2> HIDE DEF n, z
  <2> QED BY ONLY <2>1, ForkIsEvent
<1> HIDE DEF e, x
<1>4. SolverOK(w1) /\ Leaves(s, w1) /\ w1.decls = s.decls /\ w1.models = s.models /\ w1.next_var = s.next_var
  <2>1. Leaves(s, w1) /\ w1.decls = s.decls
    BY <1>0, <1>3, EventLeaves
  <2>2. SolverOK(w1) /\ w1.next_var = s.next_var /\ w1.models = s.models
    BY <1>0, <1>3, NoNewSym
  <2> QED BY <2>1, <2>2
<1> HIDE DEF w1
<1>5. Leaves(w1, w2) /\ SolverOK(w2) /\ w2.next_var = w1.next_var /\ w2.models = w1.models \cap translate_exp(w1, x)
  BY <1>2, <1>4, AssertLeaves, AssertFacts DEF Leaves
<1>6. translate_exp(w1, x) = translate_exp(s, x)
  BY <1>4, MeaningOfDecls
<1> HIDE DEF w2
<1>7. Leaves(at, w2)
  <2>1. Leaves(at, w1)
    BY <1>0, <1>4, LeavesTrans
  <2> QED BY <1>5, <2>1, LeavesTrans
<1>8. SameUnder(f, at, w2)
  <2>1. SolverOK(at) /\ Leaves(at, w2) /\ f \in Frames(prog, at.next_var) /\ Shaped(f)
    BY <1>7
  <2> QED BY ONLY <2>1, LeavesSame
<1>9. ASSUME NEW w \in w2.models
      PROVE  w \in at.models /\ ValueAt(at, Symbolic(v), w) = k
  <2>1. w \in at.models /\ w \in Assignments /\ w \in translate_exp(s, x)
    BY <1>0, <1>4, <1>5, <1>6
  <2>2. ValueAt(s, Symbolic(v), w) = k
    BY <2>1, SymMeaning DEF x
  <2>3. Symbolic(v) \in Value(at.next_var) /\ Keeps(at, s)
    BY <1>0 DEF Symbolic, Value, Known, Leaves
  <2>4. ValueAt(s, Symbolic(v), w) = ValueAt(at, Symbolic(v), w)
    BY <2>3, ValueKept
  <2> QED BY <2>1, <2>2, <2>4
<1>10. f \in Frames(prog, w2.next_var) /\ k \in Known(w2.next_var) /\ \A w : ValueAt(w2, k, w) = k
  <2>1. f \in Frames(prog, s.next_var)
    BY <1>0, MoreFrames
  <2> QED BY <1>4, <1>5, <2>1 DEF Known, Bit, ValueAt
<1> HIDE DEF k
<1>11. /\ Sound(prog, w2, a) /\ a.err = "Ok" /\ Shaped(a.f)
       /\ \A w : Concrete(a.f, a.s, w) = Write(Concrete(f, w2, w), id, k)
  <2>1. SolverOK(w2) /\ f \in Frames(prog, w2.next_var) /\ Shaped(f) /\ id \in Names /\ k \in Known(w2.next_var)
    BY <1>5, <1>10
  <2>2. Sound(prog, w2, a) /\ a.err = "Ok"
    BY ONLY <2>1, assignSound
  <2>3. \A w : Shaped(a.f) /\ Concrete(a.f, a.s, w) = Write(Concrete(f, w2, w), id, ValueAt(w2, k, w))
    BY ONLY <2>1, assignMirrors
  <2> QED BY <1>10, <2>2, <2>3
<1> HIDE DEF a
<1>12. done.err = "Ok" /\ done.s = a.s /\ Shaped(done.f) /\ \A w : Concrete(done.f, done.s, w) = Skip(Concrete(a.f, a.s, w))
  <2>1. Sound(prog, w2, a) /\ Shaped(a.f)
    BY <1>11
  <2>2. \A w : done.err = a.err /\ done.s = a.s /\ Shaped(done.f) /\ (a.err = "Ok" => Outcome(done, w) = Skip(Concrete(a.f, a.s, w)))
    BY ONLY <2>1, AdvanceMirrors
  <2> HIDE DEF done
  <2> QED BY <1>11, <2>2, OutcomeFields
<1> HIDE DEF done
<1>13. done.s.models = w2.models
  BY <1>11, <1>12 DEF Sound, Reaches
<1>14. ASSUME NEW w \in w2.models PROVE StepOf(w) = Concrete(done.f, done.s, w)
  <2> DEFINE c == Concrete(f, at, w)
  <2>1. Symbolic(v) # Uninit
    BY DEF Symbolic, Uninit
  <2>2. Write(c, id, ValueAt(at, Symbolic(v), w)) = c
    <3> DEFINE y == Symbolic(v)
    <3> HIDE DEF y
    <3>1. SolverOK(at) /\ f \in Frames(prog, at.next_var) /\ Shaped(f) /\ Stores(f, id, y) /\ y # Uninit
      BY <2>1 DEF y
    <3>2. Has(Concrete(f, at, w), w, id, ValueAt(at, y, w))
      BY ONLY <3>1, StoredReads
    <3> QED BY <3>2 DEF Has, y
  <2>3. Concrete(f, w2, w) = c
    BY <1>8 DEF SameUnder
  <2>4. StepOf(w) = Skip(c)
    BY <1>9 DEF Skips
  <2> HIDE DEF c
  <2> QED BY <1>9, <1>11, <1>12, <2>2, <2>3, <2>4
<1> QED BY <1>1, <1>12, <1>13, <1>14 DEF RunsTo

LEMMA SplitSims ==
  ASSUME running \in BOOLEAN, running, NEW at, SolverOK(at), NEW f, f \in Frames(prog, at.next_var), Shaped(f), f.forks # 0,
         NEW v, v \in 0..(at.next_var - 1), NEW s, Reaches(at, s), Leaves(at, s),
         NEW id, id \in Names, Stores(f, id, Symbolic(v)), SplitOn(at, f, s, id, v), Skips(f, at)
  PROVE  SimStep
<1>0. v \in Nat /\ f.forks - 1 \in Nat
  BY SolverTypes, FrameFields
<1>1. PICK b \in {c \in Bits : can_be(s, Term("eq", Var(v), Lit(c)))} :
        \E done \in {Choose(f, s, id, v, b)} :
          Fork2(at, done.f, done.s, min_split_self(frac, 6), f, min_split_rest(frac, 6),
                Fork(f.forks - 1, v, 1), MonoRest(v, b))
  BY DEF SplitOn
<1> DEFINE done == Choose(f, s, id, v, b)
           y == MonoRest(v, b)
           n == f.forks - 1
           z == 1
           event == Fork(n, v, z)
           self == min_split_self(frac, 6)
           rest == min_split_rest(frac, 6)
<1>2. b \in Bits /\ Fork2(at, done.f, done.s, self, f, rest, event, y)
  BY <1>1
<1>3. y \in Terms
  BY <1>0, <1>2, SymTerms
<1>4. event \in Event /\ event.ev = "fork"
  <2>1. n \in Nat /\ v \in Nat /\ z \in Bits
    BY <1>0 DEF Bits
  <2> HIDE DEF n, z
  <2> QED BY ONLY <2>1, ForkIsEvent
<1>5. Shaped(done.f) /\ RunsTo(done.s.models, done.f, done.s)
  <2>1. /\ SolverOK(at) /\ f \in Frames(prog, at.next_var) /\ Shaped(f) /\ f.forks # 0
        /\ v \in 0..(at.next_var - 1) /\ Reaches(at, s) /\ Leaves(at, s)
        /\ id \in Names /\ Stores(f, id, Symbolic(v)) /\ b \in Bits /\ Skips(f, at)
    BY <1>2
  <2> QED BY ONLY <2>1, ChooseSims
<1> HIDE DEF done, y, event, self, rest
<1> DEFINE g == done.f
           u == done.s
<1>6. RunsToOrFrom(at.models \cap translate_exp(at, y), f, at)
  BY DEF RunsToOrFrom, Skips
<1>7. /\ running \in BOOLEAN /\ running /\ SolverOK(at) /\ Shaped(g)
      /\ f \in Frames(prog, at.next_var) /\ Shaped(f)
      /\ event \in Event /\ event.ev = "fork" /\ y \in Terms
      /\ Fork2(at, g, u, self, f, rest, event, y) /\ RunsTo(u.models, g, u)
      /\ RunsToOrFrom(at.models \cap translate_exp(at, y), f, at)
  BY <1>2, <1>3, <1>4, <1>5, <1>6
<1> HIDE DEF g, u
<1> QED BY ONLY <1>7, ForkSims


\* The frames are at the same instruction.
SamePlace(f, g) == g.code = f.code /\ g.pc = f.pc

LEMMA LoadStays ==
  ASSUME NEW p, NEW s, SolverOK(s), NEW f \in Frames(p, s.next_var), NEW id \in Names
  PROVE  LET q == get_id_and_initialize(f, s, id) IN SamePlace(f, q.f)
<1> DEFINE place == ReadPlace(f, id)
           q == get_id_and_initialize(f, s, id)
           r == IF f[place][id] = Uninit THEN symbolic(f, s) ELSE Ok(f, s, f[place][id])
           v == r.v
           g == [f EXCEPT ![place][id] = v]
<1>1. q = IF place = "none" THEN Fail(f, s, "VariableNotFound") ELSE Store(r, place, id)
  BY DEF get_id_and_initialize, Load
<1>2. CASE place = "none"
  BY <1>1, <1>2 DEF Fail, SamePlace
<1>3. CASE place # "none"
  <2>1. r.f = f
    BY DEF symbolic, Ok
  <2>2. q.f = g
    BY <1>1, <1>3, <2>1 DEF Store, Ok
  <2>3. place \in Places
    BY ONLY <1>3, f \in Frames(p, s.next_var), PlaceFacts
  <2> HIDE DEF v, r, q, place
  <2>4. g.code = f.code /\ g.pc = f.pc
    BY <2>3 DEF Frames, Places
  <2> HIDE DEF g
  <2> QED BY <2>2, <2>4 DEF SamePlace, q
<1> QED BY <1>2, <1>3

(* The step of a configuration that is at the instruction of the path.     *)
LEMMA StepAt ==
  ASSUME Tracked, NEW name, At(name), NEW c, c.run = "go", c.code = frame.code, c.pc = frame.pc, NEW w
  PROVE  ConcreteStep(prog, c, w) = InstrStep(prog, c, w, Instr)
<1>1. frame.pc <= Len(prog[frame.code]) /\ Instr = prog[frame.code][frame.pc]
  BY DEF At, Instrs, Instr
<1>2. frame.pc \in Pcs /\ frame.code \in DOMAIN prog /\ Len(prog[frame.code]) \in Nat
  BY InstrFacts, FrameFields DEF IsProgram, Tracked
<1>3. ~(c.pc > Len(prog[c.code])) /\ Instr = prog[c.code][c.pc]
  BY <1>1, <1>2 DEF Pcs
<1> QED BY <1>3 DEF ConcreteStep

LEMMA MonoSims == ASSUME Tracked, Monomorphize PROVE SimStep
<1> DEFINE r == get_id_and_initialize(frame, solver, Instr.id)
           id == Instr.id
           e(w) == Read(Concrete(frame, solver, w), w, id)
<1>1. At("Monomorphize") /\ MonomorphizeVar(r, id)
  BY DEF Monomorphize
<1>2. /\ IsInstr(Instr) /\ Instr.i = "Monomorphize" /\ running /\ running \in BOOLEAN /\ SolverOK(solver)
      /\ frame \in Frames(prog, solver.next_var) /\ Shaped(frame)
      /\ \A w : StepOf(w) = InstrStep(prog, Concrete(frame, solver, w), w, Instr)
      /\ \A w \in solver.models : w \in Assignments
  BY <1>1, HereFacts
<1>3. id \in Names
  BY <1>2 DEF IsInstr, Names
<1>4. \A c, w : InstrStep(prog, c, w, Instr) = Then(Read(c, w, id), Skip(Read(c, w, id).c))
  BY <1>2 DEF InstrStep
<1>5. \A w : StepOf(w) = Then(e(w), Skip(e(w).c))
  BY <1>2, <1>4
<1>6. /\ SolverOK(solver) /\ frame \in Frames(prog, solver.next_var) /\ Shaped(frame) /\ id \in Names
      /\ solver.models # {} /\ \A w \in solver.models : w \in Assignments
  BY <1>2, <1>3 DEF Tracked
<1>7. Sound(prog, solver, r)
  BY <1>6, LoadSound
<1>8. Grows(solver, r) /\ \A w \in solver.models : Mirrors(e(w), r, w)
  <2>1. \A w \in solver.models : Mirrors(e(w), r, w) /\ Grows(solver, r)
    BY ONLY <1>6, LoadMirrors DEF e, r, id
  <2> QED BY <1>6, <2>1
<1>9. r.err = "Ok" => Stores(r.f, id, r.v)
  <2> HIDE DEF r
  <2>1. LET q == get_id_and_initialize(frame, solver, id) IN q.err = "Ok" => Stores(q.f, id, q.v)
    BY ONLY <1>6, LoadStores DEF id
  <2> QED BY <2>1 DEF r
<1>10. r.f.code = frame.code /\ r.f.pc = frame.pc
  <2>1. r = get_id_and_initialize(frame, solver, id)
    OBVIOUS
  <2> HIDE DEF r, id
  <2>2. SolverOK(solver) /\ frame \in Frames(prog, solver.next_var) /\ id \in Names
    BY <1>6
  <2>3. LET q == get_id_and_initialize(frame, solver, id) IN SamePlace(frame, q.f)
    BY ONLY <2>2, LoadStays
  <2> QED BY <2>1, <2>3 DEF SamePlace
<1> HIDE DEF e, r, id
<1>11. CASE ~(r.err = "Ok" /\ r.v.k = "sym")
  <2> DEFINE q == Advance(r)
  <2>1. Continue(q)
    BY <1>1, <1>11 DEF MonomorphizeVar
  <2>2. Sound(prog, solver, q)
    BY <1>7, AdvanceSound
  <2>3. ASSUME NEW w \in solver.models
        PROVE  /\ q.err = r.err /\ q.s = r.s /\ Shaped(q.f)
               /\ r.err = "Ok" => Outcome(q, w) = Skip(Concrete(r.f, r.s, w))
               /\ r.err # "Ok" => q = r
    <3>1. Sound(prog, solver, r) /\ Shaped(r.f)
      BY <1>7, <1>8 DEF Grows
    <3> QED BY ONLY <3>1, AdvanceMirrors
  <2> HIDE DEF q
  <2>4. Shaped(q.f)
    BY <1>6, <2>3
  <2>5. ASSUME NEW w \in solver.models PROVE StepOf(w) = Outcome(q, w)
    <3>1. Mirrors(e(w), r, w) /\ r.err # "go"
      BY <1>8 DEF Grows
    <3>2. CASE r.err = "Ok"
      <4>1. e(w).c = Concrete(r.f, r.s, w) /\ e(w).c.run = "go"
        BY <3>1, <3>2, MirrorsFacts
      <4> QED BY <1>5, <2>3, <3>2, <4>1 DEF Then
    <3>3. CASE r.err # "Ok"
      <4>1. e(w).c = Outcome(r, w) /\ e(w).c.run # "go"
        BY <3>1, <3>3, MirrorsFacts
      <4> QED BY <1>5, <2>3, <3>3, <4>1 DEF Then
    <3> QED BY <3>2, <3>3
  <2> QED BY <1>2, <2>1, <2>2, <2>4, <2>5, ContinueSims
<1>12. CASE r.err = "Ok" /\ r.v.k = "sym"
  <2> DEFINE at == r.s
             v == r.v.n
             s == NameForModel(checkpointed(at), v)
             f == WithForks(r.f, r.f.forks + 1)
  <2>1. IF s.models = {} THEN Collect(r.f, s, "Dead", Unit) ELSE SplitOn(at, f, s, id, v)
    BY <1>1, <1>12 DEF MonomorphizeVar, MonomorphizeSym, WithForks
  <2>2. SolverOK(at) /\ r.f \in Frames(prog, at.next_var) /\ Reaches(solver, at) /\ at.models = solver.models
    BY <1>7, SoundFacts DEF Reaches
  <2>3. v \in 0..(at.next_var - 1) /\ r.v = Symbolic(v)
    BY <1>7, <1>12 DEF Sound, Known, Symbolic
  <2>4. Shaped(r.f)
    BY <1>8 DEF Grows
  <2>5. /\ f \in Frames(prog, at.next_var) /\ f.forks # 0 /\ Shaped(f) /\ f.code = r.f.code /\ f.pc = r.f.pc
        /\ \A w : Concrete(f, at, w) = Concrete(r.f, at, w)
    <3>1. r.f.forks \in Nat /\ r.f.forks + 1 \in Nat
      BY <2>2, FrameFields
    <3>2. f \in Frames(prog, at.next_var)
      BY <2>2, <3>1, FrameUpdates DEF WithForks
    <3>3. f.forks = r.f.forks + 1 /\ f.code = r.f.code /\ f.pc = r.f.pc
      BY <2>2 DEF Frames, WithForks
    <3>4. Shaped(f) /\ \A w : Concrete(f, at, w) = Concrete(r.f, at, w)
      BY <2>2, <2>4, ShapedUpdates, ConcreteUpdates
    <3> QED BY <3>1, <3>2, <3>3, <3>4
  <2>6. Stores(f, id, Symbolic(v))
    <3>1. Stores(r.f, id, Symbolic(v))
      BY <1>9, <1>12, <2>3
    <3>2. f.vars = r.f.vars /\ f.regs = r.f.regs /\ f.lets = r.f.lets
      BY <2>2 DEF Frames, WithForks
    <3> HIDE DEF f
    <3> QED BY <3>1, <3>2 DEF Stores, ReadPlace
  <2> HIDE DEF at, v, f
  <2>7. Reaches(at, s) /\ Leaves(at, s)
    BY <2>2, <2>3, NameFacts, NameLeaves
  <2> HIDE DEF s
  <2>8. SplitOn(at, f, s, id, v)
    BY <1>6, <2>1, <2>2, <2>7 DEF Reaches
  <2>9. Skips(f, at)
    <3> SUFFICES ASSUME NEW w \in at.models
                 PROVE  /\ StepOf(w) = Skip(Concrete(f, at, w))
                        /\ StepOf(w) = ConcreteStep(prog, Concrete(f, at, w), w)
      BY DEF Skips
    <3> DEFINE c == Concrete(f, at, w)
               y == Symbolic(v)
               x == ValueAt(at, y, w)
    <3>1. e(w).c = c /\ e(w).c.run = "go"
      <4>1. Mirrors(e(w), r, w) /\ r.err # "go"
        BY <1>8, <2>2 DEF Grows
      <4>2. e(w).c = Concrete(r.f, r.s, w) /\ e(w).c.run = "go"
        BY <1>12, <4>1, MirrorsFacts
      <4> QED BY <2>5, <4>2 DEF at
    <3>2. StepOf(w) = Skip(c)
      BY <1>5, <3>1 DEF Then
    <3>3. c.run = "go" /\ c.code = frame.code /\ c.pc = frame.pc
      BY <1>10, <2>5, ConcreteFields
    <3>4. Read(c, w, id) = Got(c, x)
      <4>1. y # Uninit
        BY DEF Symbolic, Uninit
      <4> HIDE DEF y
      <4>2. SolverOK(at) /\ f \in Frames(prog, at.next_var) /\ Shaped(f) /\ Stores(f, id, y) /\ y # Uninit
        BY <2>2, <2>5, <2>6, <4>1 DEF y
      <4>3. Has(Concrete(f, at, w), w, id, ValueAt(at, y, w))
        BY ONLY <4>2, StoredReads
      <4> QED BY <4>3 DEF Has
    <3> HIDE DEF c, x
    <3>5. ConcreteStep(prog, c, w) = InstrStep(prog, c, w, Instr)
      BY <1>1, <3>3, StepAt
    <3>6. InstrStep(prog, c, w, Instr) = Skip(c)
      BY <1>4, <3>3, <3>4 DEF Then, Got
    <3> QED BY <3>2, <3>5, <3>6 DEF c
  <2>10. /\ running \in BOOLEAN /\ running /\ SolverOK(at) /\ f \in Frames(prog, at.next_var) /\ Shaped(f)
         /\ f.forks # 0 /\ v \in 0..(at.next_var - 1) /\ Reaches(at, s) /\ Leaves(at, s)
         /\ id \in Names /\ Stores(f, id, Symbolic(v)) /\ SplitOn(at, f, s, id, v) /\ Skips(f, at)
    BY <1>2, <1>3, <2>2, <2>3, <2>5, <2>6, <2>7, <2>8, <2>9
  <2> QED BY ONLY <2>10, SplitSims
<1> QED BY <1>11, <1>12


-----------------------------------------------------------------------------
(* Every step of the path is one of its runs.                              *)

LEMMA StepSims ==
  ASSUME Tracked, ContextsAgree, AnnouncesLiterals, Step \/ TimedOut \/ Z3Unknown PROVE SimStep
<1>1. CASE Straight
  BY <1>1, DeclSims, InitSims, GotoSims, CopySims, PrimopSims DEF Straight
<1>2. CASE Function
  BY <1>2, CallSims, EndSims, ArbitrarySims, ExitSims DEF Function
<1>3. CASE SpecialCall
  BY <1>3, DerefSims, AbstractSims, AnnounceSims, NoFunctionSims DEF SpecialCall
<1> QED BY <1>1, <1>2, <1>3, JumpSims, MonoSims, OffEndSims, TimedOutSims, UnknownSims DEF Step

(* One step more of a run.                                                 *)
LEMMA RunAtFacts ==
  ASSUME NEW p, NEW w, NEW n \in Nat
  PROVE  RunAt(p, w, 0) = Start /\ RunAt(p, w, n + 1) = ConcreteStep(p, RunAt(p, w, n), w)
<1> DEFINE x == [p |-> p, w |-> w]
           l(m) == [i \in 1..m |-> x]
<1>1. l(0) = <<>>
  OBVIOUS
<1>2. l(n) \in Seq({x}) /\ l(n + 1) = Append(l(n), x)
  OBVIOUS
<1>3. Runs!fold(Start, <<>>) = Start
  BY Runs!FoldEmpty
<1>4. Runs!fold(Start, Append(l(n), x)) = RunStep(Runs!fold(Start, l(n)), x)
  <2> HIDE DEF l, x
  <2> QED BY <1>2, Runs!FoldAppend
<1>5. \A c : RunStep(c, x) = ConcreteStep(p, c, w)
  BY DEF RunStep
<1> QED BY <1>1, <1>2, <1>3, <1>4, <1>5 DEF RunAt


-----------------------------------------------------------------------------
(* The runs of all inputs.                                                 *)

\* The run of p on w comes to c; it comes to an assumption that does not hold.
Comes(p, w, c) == \E n \in Nat : RunAt(p, w, n) = c
Dropped(p, w) == \E n \in Nat : RunAt(p, w, n).run \in {"Excluded", "AssertionFailure"}

\* The next step of a path is one of the run, for each input.
Along(p, f, s) ==
  s.models # {} =>
    /\ Shaped(f)
    /\ \A w \in s.models : Comes(p, w, ConcreteStep(p, Concrete(f, s, w), w))

RunsAlong ==
  /\ running => Along(prog, frame, solver)
  /\ \A k \in 1..Len(queue) : Along(prog, queue[k].frame, resume(queue[k]))

\* What the executor relies on, for runs of any length.
Reliable == Steps = Nat /\ ContextsAgree /\ AnnouncesLiterals /\ AssumptionsHold

Acts == Step \/ TimedOut \/ Z3Unknown

LEMMA ActKinds == ASSUME IInv, [Next]_vars PROVE (Acts /\ PathStep) \/ Pop \/ Waits
<1>1. TasksOK /\ PathOK
  BY DEF IInv
<1>2. CASE UNCHANGED vars \/ TimePasses \/ (Finished /\ UNCHANGED vars)
  BY <1>2 DEF vars, TimePasses, Waits
<1>3. CASE Step \/ TimedOut \/ Z3Unknown
  BY <1>1, <1>3, StraightSteps, FunctionSteps, SpecialSteps, JumpSteps, MonomorphizeSteps, GiveUpSteps DEF Step, Acts
<1> QED BY <1>2, <1>3 DEF Next, GiveUp

LEMMA NextComes ==
  ASSUME NEW p, NEW w, NEW c, Comes(p, w, c) PROVE Comes(p, w, ConcreteStep(p, c, w))
<1>1. PICK n \in Nat : RunAt(p, w, n) = c
  BY DEF Comes
<1>2. RunAt(p, w, n + 1) = ConcreteStep(p, c, w) /\ n + 1 \in Nat
  BY <1>1, RunAtFacts
<1> QED BY <1>2 DEF Comes

(* The step of the running path, while it has an input.                    *)
LEMMA ActSims ==
  ASSUME Reliable, IInv, RunsAlong, Acts, running, solver.models # {}
  PROVE  SimStep /\ \A w \in solver.models : w \in Assignments /\ Comes(prog, w, StepOf(w))
<1>1. TasksOK /\ PathOK /\ Along(prog, frame, solver)
  BY DEF IInv, RunsAlong
<1>2. Tracked /\ \A w \in solver.models : Comes(prog, w, StepOf(w))
  BY <1>1 DEF Along, Tracked, StepOf
<1>3. solver.models \in SUBSET Assignments
  BY <1>1, SolverTypes DEF PathOK
<1> QED BY <1>2, <1>3, StepSims DEF Acts, Reliable

(* An assumption that is used: the run has the result, too.                *)
LEMMA ReturnComes ==
  ASSUME Reliable, prog \in Programs, NEW w, w \in Assignments, NEW c, Comes(prog, w, c), NEW d,
         NEW fn, fn \in DOMAIN Assumptions, NEW k, k \in DOMAIN Assumptions[fn],
         Entered(c, fn, Bit(Assumptions[fn][k].arg)), d = ReturnTo(c, Bit(Assumptions[fn][k].result))
  PROVE  Comes(prog, w, d)
<1>1. PICK n \in Nat : RunAt(prog, w, n) = c
  BY DEF Comes
<1>2. Steps = Nat /\ AssumptionsHold
  BY DEF Reliable
<1>3. Entered(RunAt(prog, w, n), fn, Bit(Assumptions[fn][k].arg))
  BY <1>1
<1>4. \E m \in Steps : RunAt(prog, w, m) = ReturnTo(RunAt(prog, w, n), Bit(Assumptions[fn][k].result))
  BY <1>2, <1>3 DEF AssumptionsHold
<1> QED BY <1>1, <1>2, <1>4 DEF Comes

\* The running path goes on with the frame f and the solver s.
GoesAlong(f, s) ==
  /\ Shaped(f)
  /\ \A w \in solver.models : IF w \in s.models THEN Comes(prog, w, Concrete(f, s, w)) ELSE Dropped(prog, w)

LEMMA GoesAlongIs ==
  ASSUME NEW f, NEW s, GoesAlong(f, s), s.models \subseteq solver.models PROVE Along(prog, f, s)
<1>1. ASSUME NEW w \in s.models PROVE Comes(prog, w, ConcreteStep(prog, Concrete(f, s, w), w))
  BY NextComes DEF GoesAlong
<1> QED BY <1>1 DEF Along, GoesAlong

LEMMA GoOnComes ==
  ASSUME prog \in Programs, Reliable, \A w \in solver.models : w \in Assignments /\ Comes(prog, w, StepOf(w)),
         SimGoesOn \/ SimReturns
  PROVE  GoesAlong(frame', solver') /\ queue' = queue
<1> DEFINE f == frame'
           s == solver'
<1>1. CASE SimGoesOn
  <2>1. RunsGoOn(f, s) /\ queue' = queue
    BY <1>1 DEF SimGoesOn
  <2> HIDE DEF f, s
  <2>2. ASSUME NEW w \in solver.models, w \notin s.models PROVE Dropped(prog, w)
    BY <2>1, <2>2 DEF RunsGoOn, Dropped, Comes
  <2>3. GoesAlong(f, s)
    BY <2>1, <2>2 DEF GoesAlong, RunsGoOn
  <2> QED BY <2>1, <2>3 DEF f, s
<1>2. CASE SimReturns
  <2>1. RunsReturn(f, s) /\ queue' = queue
    BY <1>2 DEF SimReturns
  <2> HIDE DEF f, s
  <2>2. ASSUME NEW w \in solver.models PROVE Comes(prog, w, Concrete(f, s, w))
    <3>1. PICK fn \in DOMAIN Assumptions : \E k \in DOMAIN Assumptions[fn] :
            /\ Entered(StepOf(w), fn, Bit(Assumptions[fn][k].arg))
            /\ Concrete(f, s, w) = ReturnTo(StepOf(w), Bit(Assumptions[fn][k].result))
      BY <2>1 DEF RunsReturn
    <3>2. PICK k \in DOMAIN Assumptions[fn] :
            /\ Entered(StepOf(w), fn, Bit(Assumptions[fn][k].arg))
            /\ Concrete(f, s, w) = ReturnTo(StepOf(w), Bit(Assumptions[fn][k].result))
      BY <3>1
    <3> DEFINE c == StepOf(w)
               d == Concrete(f, s, w)
    <3> HIDE DEF c, d
    <3>3. /\ Reliable /\ prog \in Programs /\ w \in Assignments /\ Comes(prog, w, c)
          /\ fn \in DOMAIN Assumptions /\ k \in DOMAIN Assumptions[fn]
          /\ Entered(c, fn, Bit(Assumptions[fn][k].arg)) /\ d = ReturnTo(c, Bit(Assumptions[fn][k].result))
      BY <3>2 DEF c, d
    <3>4. Comes(prog, w, d)
      BY ONLY <3>3, ReturnComes
    <3> QED BY <3>4 DEF d
  <2>3. GoesAlong(f, s)
    BY <2>1, <2>2 DEF GoesAlong, RunsReturn
  <2> QED BY <2>1, <2>3 DEF f, s
<1> QED BY <1>1, <1>2

LEMMA SplitComes ==
  ASSUME \A w \in solver.models : Comes(prog, w, StepOf(w)), NEW f, NEW s, NEW t, RunsSplit(f, s, t),
         s.models \subseteq solver.models, resume(t).models \subseteq solver.models
  PROVE  Along(prog, f, s) /\ Along(prog, t.frame, resume(t))
<1>1. ASSUME NEW w \in s.models PROVE Comes(prog, w, ConcreteStep(prog, Concrete(f, s, w), w))
  BY NextComes DEF RunsSplit
<1> DEFINE g == t.frame
           u == resume(t)
<1>2. Shaped(g) /\ u.models \subseteq solver.models
      /\ \A w \in u.models : \/ StepOf(w) = Concrete(g, u, w)
                             \/ StepOf(w) = ConcreteStep(prog, Concrete(g, u, w), w)
  BY DEF RunsSplit
<1> HIDE DEF g, u
<1>3. ASSUME NEW w \in u.models PROVE Comes(prog, w, ConcreteStep(prog, Concrete(g, u, w), w))
  BY <1>2, NextComes
<1>4. Along(prog, g, u)
  BY <1>2, <1>3 DEF Along
<1>5. Along(prog, f, s)
  BY <1>1 DEF Along, RunsSplit
<1> QED BY <1>4, <1>5 DEF g, u


(* The steps of run_loop keep the runs along their paths.                  *)
LEMMA GoesOnAlong ==
  ASSUME Reliable, IInv, RunsAlong, Acts, PathGoesOn
  PROVE  RunsAlong' /\ \A w \in solver.models : w \in solver'.models \/ Dropped(prog, w)
<1>1. /\ running /\ running' = TRUE /\ solver'.models \subseteq solver.models /\ queue' = queue /\ prog' = prog
      /\ prog \in Programs
  BY DEF PathGoesOn, Follows, IInv, TasksOK
<1>2. \A k \in 1..Len(queue) : Along(prog, queue[k].frame, resume(queue[k]))
  BY DEF RunsAlong
<1>3. Along(prog, frame', solver') /\ \A w \in solver.models : w \in solver'.models \/ Dropped(prog, w)
  <2>1. CASE solver.models = {}
    BY <1>1, <2>1 DEF Along
  <2>2. CASE solver.models # {}
    <3>1. SimStep /\ \A w \in solver.models : w \in Assignments /\ Comes(prog, w, StepOf(w))
      BY <1>1, <2>2, ActSims
    <3>2. CASE SimGoesOn \/ SimReturns
      <4>1. GoesAlong(frame', solver')
        BY <1>1, <3>1, <3>2, GoOnComes
      <4>2. Along(prog, frame', solver')
        BY <1>1, <4>1, GoesAlongIs
      <4> QED BY <4>1, <4>2 DEF GoesAlong
    <3>3. CASE SimEnds
      BY <1>1, <3>3 DEF SimEnds
    <3>4. CASE SimSplits
      <4>1. PICK t : queue' = Append(queue, t)
        BY <3>4 DEF SimSplits
      <4>2. Len(Append(queue, t)) = Len(queue) + 1 /\ Len(queue) \in Nat
        BY AppendFacts DEF IInv, TasksOK
      <4> QED BY <1>1, <4>1, <4>2
    <3> QED BY <3>1, <3>2, <3>3, <3>4 DEF SimStep
  <2> QED BY <2>1, <2>2
<1> QED BY <1>1, <1>2, <1>3 DEF RunsAlong

LEMMA EndsAlong ==
  ASSUME Reliable, IInv, RunsAlong, Acts, PathEnds PROVE RunsAlong' /\ PathsSound'
<1>1. running /\ running' = FALSE /\ queue' = queue /\ prog' = prog
  BY DEF PathEnds
<1>2. \A k \in 1..Len(queue) : Along(prog, queue[k].frame, resume(queue[k]))
  BY DEF RunsAlong
<1>3. RunsAlong'
  BY <1>1, <1>2 DEF RunsAlong
<1>4. PICK x : collected' = Append(collected, x)
               /\ Item(x.trace, x.models, x.frac) = Item(to_vec(solver), solver.models, frac)
  BY DEF PathEnds
<1>5. x.models = solver.models
  BY <1>4 DEF Item
<1>6. \A y : collected' = Append(collected, y) => collected'[Len(collected')] = y
  BY AppendFacts DEF IInv, TasksOK
<1>7. collected'[Len(collected')] = x
  BY <1>4, <1>6
<1>8. Steps = Nat
  BY DEF Reliable
<1> DEFINE f == frame'
           s == solver'
           sound == CASE x.run \in GaveUp -> TRUE
                      [] x.run = "AssertionFailure" ->
                           x.models # {} =>
                             \E w \in x.models : \E n \in Steps : RunAt(prog, w, n).run = "AssertionFailure"
                      [] x.run \notin GaveUp \cup {"AssertionFailure"} ->
                           \A w \in x.models : \E n \in Steps : EndsAs(RunAt(prog, w, n), x, f, s, w)
<1>9. sound
  <2>1. CASE x.models = {}
    BY <2>1 DEF GaveUp
  <2>2. CASE x.models # {}
    <3>1. SimStep /\ \A w \in solver.models : Comes(prog, w, StepOf(w))
      BY <1>1, <1>5, <2>2, ActSims
    <3>2. SimEnds
      BY <1>1, <3>1 DEF SimStep, SimGoesOn, SimSplits, SimReturns
    <3>3. RunsEnd(x, f, s)
      BY <1>6, <1>7, <3>2 DEF SimEnds
    <3> HIDE DEF f, s
    <3>4. CASE x.run \in GaveUp
      BY <3>4 DEF GaveUp
    <3>5. CASE x.run = "AssertionFailure"
      <4>1. \E w \in x.models : StepOf(w).run = "AssertionFailure"
        BY <2>2, <3>3, <3>5 DEF RunsEnd, GaveUp
      <4>2. \E w \in x.models : \E n \in Steps : RunAt(prog, w, n).run = "AssertionFailure"
        BY <1>5, <1>8, <3>1, <4>1 DEF Comes
      <4> QED BY <3>5, <4>2 DEF GaveUp
    <3>6. CASE x.run \notin GaveUp \cup {"AssertionFailure"}
      <4>1. \A w \in x.models : EndsAs(StepOf(w), x, f, s, w)
        BY <3>3, <3>6 DEF RunsEnd
      <4>2. \A w \in x.models : \E n \in Steps : EndsAs(RunAt(prog, w, n), x, f, s, w)
        BY <1>5, <1>8, <3>1, <4>1 DEF Comes
      <4> QED BY <3>6, <4>2
    <3> QED BY <3>4, <3>5, <3>6
  <2> QED BY <2>1, <2>2
<1>10. PathsSound'
  BY <1>1, <1>7, <1>9 DEF PathsSound, f, s
<1> QED BY <1>3, <1>10

LEMMA SplitsAlong == ASSUME Reliable, IInv, RunsAlong, Acts, PathSplits PROVE RunsAlong'
<1>1. running /\ running' = TRUE /\ prog' = prog /\ solver'.models # {} /\ prog \in Programs
  BY DEF PathSplits, IInv, TasksOK
<1>2. PICK t, it : /\ queue' = Append(queue, t) /\ TaskOK(prog, t, it)
                   /\ solver'.models \cup it.models = solver.models
  BY DEF PathSplits
<1>3. it.models = resume(t).models
  BY <1>2 DEF TaskOK, Item
<1>4. /\ IsSeq(queue) /\ Len(queue) \in Nat /\ Len(queue') = Len(queue) + 1 /\ queue'[Len(queue) + 1] = t
      /\ \A k \in 1..Len(queue) : queue'[k] = queue[k]
      /\ \A x : queue' = Append(queue, x) => x = t
  BY <1>2, AppendFacts DEF IInv, TasksOK
<1>5. SimStep /\ \A w \in solver.models : w \in Assignments /\ Comes(prog, w, StepOf(w))
  BY <1>1, <1>2, ActSims
<1>6. SimSplits
  <2>1. ~(SimGoesOn \/ SimReturns)
    BY <1>4 DEF SimGoesOn, SimReturns
  <2>2. ~SimEnds
    BY <1>1 DEF SimEnds
  <2> QED BY <1>5, <2>1, <2>2 DEF SimStep
<1>7. RunsSplit(frame', solver', t)
  BY <1>4, <1>6 DEF SimSplits
<1>8. Along(prog, frame', solver') /\ Along(prog, t.frame, resume(t))
  <2> DEFINE f == frame'
             s == solver'
  <2>1. /\ \A w \in solver.models : Comes(prog, w, StepOf(w))
        /\ RunsSplit(f, s, t) /\ s.models \subseteq solver.models /\ resume(t).models \subseteq solver.models
    BY <1>2, <1>3, <1>5, <1>7
  <2> HIDE DEF f, s
  <2>2. Along(prog, f, s) /\ Along(prog, t.frame, resume(t))
    BY ONLY <2>1, SplitComes
  <2> QED BY <2>2 DEF f, s
<1>9. \A k \in 1..Len(queue') : Along(prog, queue'[k].frame, resume(queue'[k]))
  <2> SUFFICES ASSUME NEW k \in 1..Len(queue') PROVE Along(prog, queue'[k].frame, resume(queue'[k]))
    OBVIOUS
  <2>1. k \in 1..Len(queue) \/ k = Len(queue) + 1
    BY <1>4
  <2>2. \A j \in 1..Len(queue) : Along(prog, queue[j].frame, resume(queue[j]))
    BY DEF RunsAlong
  <2> QED BY <1>4, <1>8, <2>1, <2>2
<1> QED BY <1>1, <1>8, <1>9 DEF RunsAlong

LEMMA PopAlong == ASSUME IInv, RunsAlong, Pop PROVE RunsAlong'
<1> DEFINE n == Len(queue)
           t == queue[n]
<1>1. /\ IsSeq(queue) /\ queue # <<>> /\ frame' = t.frame /\ solver' = resume(t)
      /\ queue' = SubSeq(queue, 1, n - 1) /\ running' = TRUE /\ prog' = prog
  BY DEF Pop, IInv, TasksOK
<1>2. n \in Nat \ {0} /\ Len(queue') = n - 1 /\ \A k \in 1..(n - 1) : queue'[k] = queue[k]
  BY <1>1, FrontFacts
<1>3. \A k \in 1..n : Along(prog, queue[k].frame, resume(queue[k]))
  BY DEF RunsAlong
<1>4. Along(prog, t.frame, resume(t))
  BY <1>2, <1>3
<1>5. \A k \in 1..(n - 1) : Along(prog, queue'[k].frame, resume(queue'[k]))
  BY <1>2, <1>3
<1> HIDE DEF n, t
<1> QED BY <1>1, <1>2, <1>4, <1>5 DEF RunsAlong


LEMMA InitAlong == Init => RunsAlong
<1> SUFFICES ASSUME Init PROVE RunsAlong
  OBVIOUS
<1> DEFINE g == [R |-> Uninit, PC |-> Bit(0)]
           l == [L |-> Uninit]
           f == NewFrame(g, l)
           t == [frame |-> frame, checkpoint |-> NewCheckpoint, frac |-> one, fork_cond |-> <<>>]
<1>1. frame = f /\ queue = <<t>> /\ running = FALSE
  BY DEF Init
<1>2. resume(t) = NewSolver /\ t.frame = frame
  BY NewResumes DEF resume
<1>3. f = [fn |-> "main", code |-> "main", pc |-> 1, forks |-> 0, vars |-> [x \in {"return", "a"} |-> Uninit],
           regs |-> g, lets |-> l, stack_vars |-> <<>>, calls |-> <<>>, backtrace |-> <<>>,
           pc_counts |-> [b \in Bits |-> 0]]
  BY DEF NewFrame
<1>4. Shaped(f)
  <2> HIDE DEF f
  <2>1. f.fn = f.code /\ f.stack_vars = <<>> /\ f.calls = <<>> /\ f.backtrace = <<>>
    BY <1>3
  <2>2. Len(f.calls) = 0 /\ Len(f.stack_vars) = 0 /\ Len(f.backtrace) = 0
    BY <2>1
  <2> QED BY <2>1, <2>2 DEF Shaped
<1>5. ASSUME NEW w PROVE Concrete(f, NewSolver, w) = Start
  <2>1. \A s : ValueAt(s, Uninit, w) = Uninit /\ ValueAt(s, Bit(0), w) = Bit(0)
    BY DEF ValueAt, Uninit, Bit
  <2>2. ValuesAt(NewSolver, [x \in {"return", "a"} |-> Uninit], w) = [x \in {"return", "a"} |-> Uninit]
    BY <2>1 DEF ValuesAt
  <2>3. ValuesAt(NewSolver, g, w) = g /\ ValuesAt(NewSolver, l, w) = l
    BY <2>1 DEF ValuesAt
  <2>4. StackAt(<<>>, <<>>, NewSolver, w) = <<>>
    BY DEF StackAt
  <2>5. NewSolver.consts = 0
    BY DEF NewSolver
  <2> HIDE DEF g, l, f
  <2>6. f.code = "main" /\ f.pc = 1 /\ f.vars = [x \in {"return", "a"} |-> Uninit] /\ f.regs = g /\ f.lets = l
        /\ f.calls = <<>> /\ f.stack_vars = <<>> /\ f.pc_counts = [b \in Bits |-> 0]
    BY <1>3
  <2>7. Start = [code |-> "main", pc |-> 1, vars |-> [x \in {"return", "a"} |-> Uninit],
                 regs |-> g, lets |-> l, stack |-> <<>>,
                 k |-> 0, counts |-> [b \in Bits |-> 0], run |-> "go", v |-> Unit]
    BY DEF Start, g, l
  <2> QED BY <2>2, <2>3, <2>4, <2>5, <2>6, <2>7 DEF Concrete
<1>6. ASSUME NEW w PROVE Comes(prog, w, ConcreteStep(prog, Concrete(f, NewSolver, w), w))
  <2>1. RunAt(prog, w, 0) = Start /\ 0 \in Nat
    BY RunAtFacts
  <2>2. Comes(prog, w, Start)
    BY <2>1 DEF Comes
  <2> QED BY <1>5, <2>2, NextComes
<1> HIDE DEF f, t
<1>7. Along(prog, f, NewSolver)
  BY <1>4, <1>6 DEF Along
<1>8. Len(queue) = 1 /\ queue[1] = t
  BY <1>1
<1>9. \A k \in 1..Len(queue) : k = 1
  BY <1>8
<1> QED BY <1>1, <1>2, <1>7, <1>8, <1>9 DEF RunsAlong

-----------------------------------------------------------------------------
(* The theorems about the runs.                                            *)

LEMMA SoundStep ==
  ASSUME Reliable, IInv, RunsAlong, PathsSound, [Next]_vars PROVE RunsAlong' /\ PathsSound'
<1>1. CASE Waits
  BY <1>1 DEF Waits, RunsAlong, PathsSound
<1>2. CASE Pop
  BY <1>2, PopAlong DEF Pop, PathsSound
<1>3. CASE Acts /\ PathGoesOn
  BY <1>3, GoesOnAlong DEF PathGoesOn, PathsSound
<1>4. CASE Acts /\ PathEnds
  BY <1>4, EndsAlong
<1>5. CASE Acts /\ PathSplits
  BY <1>5, SplitsAlong DEF PathSplits, PathsSound
<1> QED BY <1>1, <1>2, <1>3, <1>4, <1>5, ActKinds DEF PathStep

(* A path that is handed in describes what the program does on each of its *)
(* inputs, for every program.                                              *)
THEOREM PathsAreSound ==
  ASSUME Steps = Nat, ContextsAgree, AnnouncesLiterals, AssumptionsHold
  PROVE  Spec => []PathsSound
<1>1. Reliable
  BY DEF Reliable
<1>2. Init => RunsAlong /\ PathsSound
  BY InitAlong DEF Init, PathsSound
<1>3. IInv /\ RunsAlong /\ PathsSound /\ [Next]_vars => RunsAlong' /\ PathsSound'
  BY <1>1, SoundStep
<1> QED BY <1>2, <1>3, Invariance, PTL DEF Spec


-----------------------------------------------------------------------------
(* Every input is on one path.                                             *)

\* No input is on two of the paths that were handed in, the tasks and the path.
InputsApart ==
  /\ \A m, n \in 1..Len(collected) : m # n => collected[m].models \cap collected[n].models = {}
  /\ \A j, k \in 1..Len(stands) : j # k => stands[j].models \cap stands[k].models = {}
  /\ \A n \in 1..Len(collected) : \A k \in 1..Len(stands) : collected[n].models \cap stands[k].models = {}
  /\ running => \A n \in 1..Len(collected) : collected[n].models \cap solver.models = {}
  /\ running => \A k \in 1..Len(stands) : stands[k].models \cap solver.models = {}

\* An input is on one, or its run comes to an assumption that does not hold.
InputsHeld ==
  \A w \in Assignments :
    \/ \E n \in 1..Len(collected) : w \in collected[n].models
    \/ \E k \in 1..Len(stands) : w \in stands[k].models
    \/ running /\ w \in solver.models
    \/ Dropped(prog, w)

EachInput == InputsApart /\ InputsHeld

LEMMA GoesOnHolds == ASSUME Reliable, IInv, RunsAlong, EachInput, Acts, PathGoesOn PROVE EachInput'
<1>1. /\ running /\ running' = TRUE /\ solver'.models \subseteq solver.models
      /\ prog' = prog /\ stands' = stands /\ collected' = collected
  BY DEF PathGoesOn, Follows
<1>2. \A w \in solver.models : w \in solver'.models \/ Dropped(prog, w)
  BY GoesOnAlong
<1>3. InputsApart'
  BY <1>1 DEF EachInput, InputsApart
<1>4. InputsHeld'
  BY <1>1, <1>2 DEF EachInput, InputsHeld
<1> QED BY <1>3, <1>4 DEF EachInput

LEMMA EndsHolds == ASSUME IInv, EachInput, PathEnds PROVE EachInput'
<1>1. running /\ running' = FALSE /\ prog' = prog /\ stands' = stands
  BY DEF PathEnds
<1>2. PICK x : collected' = Append(collected, x)
               /\ Item(x.trace, x.models, x.frac) = Item(to_vec(solver), solver.models, frac)
  BY DEF PathEnds
<1> DEFINE n == Len(collected)
<1>3. x.models = solver.models
  BY <1>2 DEF Item
<1>4. n \in Nat /\ Len(collected') = n + 1 /\ collected'[n + 1] = x /\ \A k \in 1..n : collected'[k] = collected[k]
  BY <1>2, AppendFacts DEF IInv, TasksOK
<1>5. \A k \in 1..(n + 1) : k \in 1..n \/ k = n + 1
  BY <1>4
<1>6. /\ \A j, k \in 1..n : j # k => collected[j].models \cap collected[k].models = {}
      /\ \A j \in 1..n : \A k \in 1..Len(stands) : collected[j].models \cap stands[k].models = {}
      /\ \A j \in 1..n : collected[j].models \cap solver.models = {}
      /\ \A j, k \in 1..Len(stands) : j # k => stands[j].models \cap stands[k].models = {}
      /\ \A k \in 1..Len(stands) : stands[k].models \cap solver.models = {}
  BY <1>1 DEF EachInput, InputsApart
<1>7. \A w \in Assignments : \/ \E k \in 1..n : w \in collected[k].models
                             \/ \E k \in 1..Len(stands) : w \in stands[k].models
                             \/ w \in solver.models
                             \/ Dropped(prog, w)
  BY DEF EachInput, InputsHeld
<1> HIDE DEF n
<1>8. InputsApart'
  <2>1. ASSUME NEW j \in 1..(n + 1), NEW k \in 1..(n + 1), j # k
        PROVE  collected'[j].models \cap collected'[k].models = {}
    <3>1. CASE j \in 1..n /\ k \in 1..n
      BY <1>4, <1>6, <2>1, <3>1
    <3>2. CASE j = n + 1 /\ k \in 1..n
      BY <1>3, <1>4, <1>6, <3>2
    <3>3. CASE j \in 1..n /\ k = n + 1
      BY <1>3, <1>4, <1>6, <3>3
    <3> QED BY <1>5, <2>1, <3>1, <3>2, <3>3
  <2>2. ASSUME NEW j \in 1..(n + 1), NEW k \in 1..Len(stands) PROVE collected'[j].models \cap stands[k].models = {}
    <3>1. CASE j \in 1..n
      BY <1>4, <1>6, <3>1
    <3>2. CASE j = n + 1
      BY <1>3, <1>4, <1>6, <3>2
    <3> QED BY <1>5, <3>1, <3>2
  <2> QED BY <1>1, <1>4, <1>6, <2>1, <2>2 DEF InputsApart
<1>9. InputsHeld'
  <2> SUFFICES ASSUME NEW w \in Assignments
               PROVE  \/ \E k \in 1..(n + 1) : w \in collected'[k].models
                      \/ \E k \in 1..Len(stands) : w \in stands[k].models
                      \/ Dropped(prog, w)
    BY <1>1, <1>4 DEF InputsHeld
  <2>1. CASE \E k \in 1..n : w \in collected[k].models
    <3>1. PICK k \in 1..n : w \in collected[k].models
      BY <2>1
    <3>2. k \in 1..(n + 1) /\ w \in collected'[k].models
      BY <1>4, <3>1
    <3> QED BY <3>2
  <2>2. CASE w \in solver.models
    <3>1. n + 1 \in 1..(n + 1) /\ w \in collected'[n + 1].models
      BY <1>3, <1>4, <2>2
    <3> QED BY <3>1
  <2> QED BY <1>7, <2>1, <2>2
<1> QED BY <1>8, <1>9 DEF EachInput

LEMMA SplitsHolds == ASSUME IInv, EachInput, PathSplits PROVE EachInput'
<1>1. running /\ running' = TRUE /\ prog' = prog /\ collected' = collected
  BY DEF PathSplits
<1>2. PICK t, it : /\ stands' = Append(stands, it)
                   /\ solver'.models \cup it.models = solver.models /\ solver'.models \cap it.models = {}
  BY DEF PathSplits
<1> DEFINE n == Len(stands)
           M == solver.models
           N == solver'.models
           I == it.models
<1>3. N \subseteq M /\ I \subseteq M /\ I \cap N = {} /\ \A w \in M : w \in N \/ w \in I
  BY <1>2
<1>4. n \in Nat /\ Len(stands') = n + 1 /\ stands'[n + 1] = it /\ \A k \in 1..n : stands'[k] = stands[k]
  BY <1>2, AppendFacts DEF IInv, TasksOK
<1>5. \A k \in 1..(n + 1) : k \in 1..n \/ k = n + 1
  BY <1>4
<1>6. /\ \A j, k \in 1..Len(collected) : j # k => collected[j].models \cap collected[k].models = {}
      /\ \A j \in 1..Len(collected) : \A k \in 1..n : collected[j].models \cap stands[k].models = {}
      /\ \A j \in 1..Len(collected) : collected[j].models \cap M = {}
      /\ \A j, k \in 1..n : j # k => stands[j].models \cap stands[k].models = {}
      /\ \A k \in 1..n : stands[k].models \cap M = {}
  BY <1>1 DEF EachInput, InputsApart
<1>7. \A w \in Assignments : \/ \E k \in 1..Len(collected) : w \in collected[k].models
                             \/ \E k \in 1..n : w \in stands[k].models
                             \/ w \in M
                             \/ Dropped(prog, w)
  BY DEF EachInput, InputsHeld
<1> HIDE DEF n
<1>8. InputsApart'
  <2>1. ASSUME NEW j \in 1..(n + 1), NEW k \in 1..(n + 1), j # k
        PROVE  stands'[j].models \cap stands'[k].models = {}
    <3>1. CASE j \in 1..n /\ k \in 1..n
      BY <1>4, <1>6, <2>1, <3>1
    <3>2. CASE j = n + 1 /\ k \in 1..n
      BY <1>3, <1>4, <1>6, <3>2
    <3>3. CASE j \in 1..n /\ k = n + 1
      BY <1>3, <1>4, <1>6, <3>3
    <3> QED BY <1>5, <2>1, <3>1, <3>2, <3>3
  <2>2. ASSUME NEW k \in 1..(n + 1), NEW j \in 1..Len(collected) PROVE collected[j].models \cap stands'[k].models = {}
    <3>1. CASE k \in 1..n
      BY <1>4, <1>6, <3>1
    <3>2. CASE k = n + 1
      BY <1>3, <1>4, <1>6, <3>2
    <3> QED BY <1>5, <3>1, <3>2
  <2>3. ASSUME NEW k \in 1..(n + 1) PROVE stands'[k].models \cap N = {}
    <3>1. CASE k \in 1..n
      BY <1>3, <1>4, <1>6, <3>1
    <3>2. CASE k = n + 1
      BY <1>3, <1>4, <3>2
    <3> QED BY <1>5, <3>1, <3>2
  <2>4. ASSUME NEW j \in 1..Len(collected) PROVE collected[j].models \cap N = {}
    BY <1>3, <1>6
  <2> QED BY <1>1, <1>4, <1>6, <2>1, <2>2, <2>3, <2>4 DEF InputsApart
<1>9. InputsHeld'
  <2> SUFFICES ASSUME NEW w \in Assignments
               PROVE  \/ \E k \in 1..Len(collected) : w \in collected[k].models
                      \/ \E k \in 1..(n + 1) : w \in stands'[k].models
                      \/ w \in N
                      \/ Dropped(prog, w)
    BY <1>1, <1>4 DEF InputsHeld
  <2>1. CASE \E k \in 1..n : w \in stands[k].models
    <3>1. PICK k \in 1..n : w \in stands[k].models
      BY <2>1
    <3>2. k \in 1..(n + 1) /\ w \in stands'[k].models
      BY <1>4, <3>1
    <3> QED BY <3>2
  <2>2. CASE w \in M
    <3>1. n + 1 \in 1..(n + 1) /\ (w \in N \/ w \in stands'[n + 1].models)
      BY <1>3, <1>4, <2>2
    <3> QED BY <3>1
  <2> QED BY <1>7, <2>1, <2>2
<1> QED BY <1>8, <1>9 DEF EachInput

LEMMA PopHolds == ASSUME IInv, EachInput, Pop PROVE EachInput'
<1> DEFINE n == Len(stands)
<1>1. /\ n \in Nat \ {0} /\ running = FALSE /\ running' = TRUE /\ collected' = collected
      /\ stands' = SubSeq(stands, 1, n - 1)
      /\ Item(to_vec(solver'), solver'.models, frac') = stands[n]
  BY PopFacts
<1>2. prog' = prog
  BY DEF Pop
<1>3. solver'.models = stands[n].models
  <2>1. Item(to_vec(solver'), solver'.models, frac').models = solver'.models
    BY DEF Item
  <2> QED BY <1>1, <2>1
<1>4. Len(stands') = n - 1 /\ \A k \in 1..(n - 1) : stands'[k] = stands[k]
  <2>1. IsSeq(stands) /\ stands # <<>>
    BY <1>1 DEF IInv, TasksOK
  <2> QED BY <1>1, <2>1, FrontFacts
<1>5. n \in 1..n /\ \A k \in 1..(n - 1) : k \in 1..n /\ k # n
  BY <1>1
<1>6. \A k \in 1..n : k \in 1..(n - 1) \/ k = n
  BY <1>1
<1>7. /\ \A j, k \in 1..Len(collected) : j # k => collected[j].models \cap collected[k].models = {}
      /\ \A j \in 1..Len(collected) : \A k \in 1..n : collected[j].models \cap stands[k].models = {}
      /\ \A j, k \in 1..n : j # k => stands[j].models \cap stands[k].models = {}
  BY DEF EachInput, InputsApart
<1>8. \A w \in Assignments : \/ \E k \in 1..Len(collected) : w \in collected[k].models
                             \/ \E k \in 1..n : w \in stands[k].models
                             \/ Dropped(prog, w)
  BY <1>1 DEF EachInput, InputsHeld
<1> HIDE DEF n
<1>9. InputsApart'
  BY <1>1, <1>3, <1>4, <1>5, <1>7 DEF InputsApart
<1>10. InputsHeld'
  <2> SUFFICES ASSUME NEW w \in Assignments
               PROVE  \/ \E k \in 1..Len(collected) : w \in collected[k].models
                      \/ \E k \in 1..(n - 1) : w \in stands'[k].models
                      \/ w \in solver'.models
                      \/ Dropped(prog, w)
    BY <1>1, <1>2, <1>4 DEF InputsHeld
  <2>1. CASE \E k \in 1..n : w \in stands[k].models
    <3>1. PICK k \in 1..n : w \in stands[k].models
      BY <2>1
    <3> QED BY <1>3, <1>4, <1>6, <3>1
  <2> QED BY <1>8, <2>1
<1> QED BY <1>9, <1>10 DEF EachInput


LEMMA InitHolds == Init => EachInput
<1> SUFFICES ASSUME Init PROVE EachInput
  OBVIOUS
<1> DEFINE it == Item(<<>>, Assignments, one)
<1>1. stands = <<it>> /\ running = FALSE /\ collected = <<>>
  BY DEF Init
<1>2. it.models = Assignments
  BY DEF Item
<1> HIDE DEF it
<1>3. Len(stands) = 1 /\ stands[1] = it /\ Len(collected) = 0
  BY <1>1
<1>4. (\A k \in 1..Len(stands) : k = 1) /\ 1 \in 1..Len(stands) /\ \A n \in 1..Len(collected) : FALSE
  BY <1>3
<1> QED BY <1>1, <1>2, <1>3, <1>4 DEF EachInput, InputsApart, InputsHeld

LEMMA HoldsStep ==
  ASSUME Reliable, IInv, RunsAlong, EachInput, [Next]_vars PROVE EachInput'
<1>1. CASE Waits
  BY <1>1 DEF Waits, EachInput, InputsApart, InputsHeld
<1> QED BY <1>1, ActKinds, PopHolds, GoesOnHolds, EndsHolds, SplitsHolds DEF PathStep

LEMMA CompleteAtEnd == ASSUME Steps = Nat, IInv, EachInput PROVE PathsComplete
<1> SUFFICES ASSUME Finished, NEW w \in Assignments
             PROVE  LET on == {n \in DOMAIN collected : w \in collected[n].models} IN
                    /\ Cardinality(on) <= 1
                    /\ on = {} => \E n \in Steps : RunAt(prog, w, n).run \in {"Excluded", "AssertionFailure"}
  BY DEF PathsComplete
<1> DEFINE on == {n \in DOMAIN collected : w \in collected[n].models}
<1>1. running = FALSE /\ queue = <<>> /\ Len(stands) = 0 /\ DOMAIN collected = 1..Len(collected)
  <2>1. queue = <<>> /\ ~running /\ Len(queue) = Len(stands) /\ running \in BOOLEAN
        /\ DOMAIN collected = 1..Len(collected)
    BY LenFacts DEF Finished, IInv, TasksOK
  <2> QED BY <2>1
<1>2. \A m, n \in on : m = n
  BY <1>1 DEF EachInput, InputsApart
<1>3. Cardinality(on) <= 1
  <2>1. CASE on = {}
    <3>1. Cardinality(on) = 0
      BY <2>1, FS_EmptySet
    <3> QED BY <3>1
  <2>2. CASE on # {}
    <3>1. PICK n : n \in on
      BY <2>2
    <3>2. on = {n}
      BY <1>2, <3>1
    <3> HIDE DEF on
    <3>3. Cardinality(on) = 1
      BY <3>2, FS_Singleton
    <3> QED BY <3>3
  <2> QED BY <2>1, <2>2
<1>4. on = {} => Dropped(prog, w)
  <2>1. \A k \in 1..Len(stands) : FALSE
    BY <1>1
  <2>2. \/ \E n \in 1..Len(collected) : w \in collected[n].models
        \/ \E k \in 1..Len(stands) : w \in stands[k].models
        \/ running /\ w \in solver.models
        \/ Dropped(prog, w)
    BY DEF EachInput, InputsHeld
  <2> QED BY <1>1, <2>1, <2>2
<1> QED BY <1>3, <1>4 DEF Dropped

(* When the queue is empty, every input is on exactly one of the paths,    *)
(* unless the program's own assumptions or optimistic assertions exclude   *)
(* it, for every program.                                                  *)
THEOREM PathsAreComplete ==
  ASSUME Steps = Nat, ContextsAgree, AnnouncesLiterals, AssumptionsHold
  PROVE  Spec => []PathsComplete
<1>1. Reliable
  BY DEF Reliable
<1>2. Init => RunsAlong /\ PathsSound /\ EachInput
  BY InitAlong, InitHolds DEF Init, PathsSound
<1>3. IInv /\ RunsAlong /\ PathsSound /\ EachInput /\ [Next]_vars => RunsAlong' /\ PathsSound' /\ EachInput'
  BY <1>1, SoundStep, HoldsStep
<1>4. IInv /\ EachInput => PathsComplete
  BY CompleteAtEnd
<1> QED BY <1>2, <1>3, <1>4, Invariance, PTL DEF Spec

=============================================================================
