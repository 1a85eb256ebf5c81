------------------------------ MODULE RunLitmus ------------------------------
(***************************************************************************)
(* A litmus test run by isla-axiomatic: isla-axiomatic/src/run_litmus.rs   *)
(* and the callback and the reports of src/axiomatic.rs.  The paths of the *)
(* threads are collected from the queue of the executor, the footprints of *)
(* their opcodes are found, and worker threads take the candidate          *)
(* executions one by one, ask the solver about each (in exhaustive mode    *)
(* again and again, with the reads-from relations found so far excluded)   *)
(* and push results from which the verdict is made.                        *)
(*                                                                         *)
(* A test is [opts, executed, assertion, model, initial, ref, ...]:        *)
(* executed is what start_multi leaves in the queue, in no order, model    *)
(* the compiled memory model, ref the lines of the reference log.          *)
(***************************************************************************)
EXTENDS SmtEvents, MemoryModel

CONSTANTS NumThreads,        \* opts.num_threads
          FootprintTraces    \* the traces of an opcode, for those that execute without error

VARIABLES test,
          phase,        \* "collect", "check", "report" or "end"
          queue,        \* results of symbolic execution
          threads,      \* the paths of every thread
          discarded,    \* paths cut off by the PC limit
          footprints,
          cqueue,       \* candidates, numbered
          workers,
          errs,         \* errors of the callback
          results,      \* [i, kind, rf] in the order the callback pushed them
          outcome       \* [error, report]: the verdict printed and the exit code

vars == <<test, phase, queue, threads, discarded, footprints, cqueue, workers, errs, results, outcome>>

NoOutcome == [error |-> "", report |-> << >>]
Idle == [k |-> "idle"]
Gone == [k |-> "gone"]

-----------------------------------------------------------------------------
(* The reports of src/axiomatic.rs *)

Kinds(rs) == {rs[i].kind : i \in DOMAIN rs}
ErrorResult == [i |-> 0, kind |-> "error", rf |-> {}]

(* The first of the kinds that some result has. *)
FirstKind(rs, kinds) ==
  LET found == SelectSeq(kinds, LAMBDA k : k \in Kinds(rs)) IN IF found = << >> THEN "error" ELSE found[1]

print_results_legacy(rs) == FirstKind(rs, <<"error", "allowed", "forbidden">>)

(* The herd7 style prints the same state, but compares another result with *)
(* the reference.                                                          *)
print_results_herd7(rs) ==
  [state |-> FirstKind(rs, <<"error", "allowed", "forbidden">>),
   compared |-> FirstKind(rs, <<"error", "forbidden", "allowed">>)]

(* What process_refs reads of a log: the expectation, negated by "No". *)
negate_result(kind) == IF kind = "allowed" THEN "forbidden" ELSE "allowed"
parse_expected(word) ==
  CASE word = "Allowed" -> "allowed" [] word \in {"Forbidden", "Required"} -> "forbidden" [] word = "Error" -> "none"
process_refs(ref) ==
  LET expected == parse_expected(ref.word)
  IN IF expected = "none" \/ ref.line = "Ok" THEN expected ELSE negate_result(expected)

(* Without results nothing is compared. *)
print_results(rs, t) ==
  LET got == IF t.opts.herd7 THEN print_results_herd7(rs).compared ELSE print_results_legacy(rs)
  IN [verdict |-> IF t.opts.herd7 THEN print_results_herd7(rs).state ELSE print_results_legacy(rs),
      failure |-> /\ rs # << >> /\ process_refs(t.ref) # "none" /\ got # process_refs(t.ref)]

(* An error of the test is reported as one result. *)
Stop(why) == phase' = "end" /\ outcome' = [error |-> why, report |-> print_results(<<ErrorResult>>, test)]

-----------------------------------------------------------------------------
(* run_litmus_setup *)

FetchRead(ev) == ev.ev = "readmem" /\ ev.opts = "ifetch"
KeptEvent(ev, ignore_ifetch) ==
  \/ IsMem(ev) /\ ~(ignore_ifetch /\ FetchRead(ev))
  \/ IsSmt(ev) \/ IsReg(ev)
  \/ ev.ev \in {"function", "instr", "cycle", "abstract", "branch"}

(* Every thread has numbers of its own. *)
ThreadSymbol(v, total, task) == <<v[1] * total + (task - 1), v[2]>>

ThreadPath(result, total, opts) ==
  LET events == remove_unused(SelectSeq(Reverse(result.events), LAMBDA ev : KeptEvent(ev, opts.ignore_ifetch)))
      renamed(ev) == renumber_event(ev, [v \in EventSymbols(ev) |-> ThreadSymbol(v, total, result.task)])
  IN [i \in DOMAIN events |-> renamed(events[i])]

(* A path that ended at the PC limit is counted or an error, any other     *)
(* error ends the test.                                                    *)
PopResult(result) ==
  /\ phase = "collect"
  /\ result \in queue
  /\ queue' = queue \ {result}
  /\ \/ /\ result.kind = "ok"
        /\ threads' = [threads EXCEPT ![result.task] = Append(@, ThreadPath(result, Len(threads), test.opts))]
        /\ UNCHANGED <<discarded, phase, outcome>>
     \/ /\ result.kind = "pc_limit" /\ test.opts.pc_limit_mode = "discard"
        /\ discarded' = discarded + 1
        /\ UNCHANGED <<threads, phase, outcome>>
     \/ /\ result.kind = "error" \/ (result.kind = "pc_limit" /\ test.opts.pc_limit_mode = "error")
        /\ Stop("trace")
        /\ UNCHANGED <<threads, discarded>>
  /\ UNCHANGED <<test, footprints, cqueue, workers, errs, results>>

-----------------------------------------------------------------------------
(* litmus_per_candidate *)

AllOpcodes(ts) == UNION {UNION {Opcodes(ts[t][p]) : p \in DOMAIN ts[t]} : t \in DOMAIN ts}
Numbered(cands) == [i \in DOMAIN cands |-> [i |-> i, events |-> cands[i]]]

StartCandidates ==
  /\ phase = "collect" /\ queue = {}
  /\ LET ops == AllOpcodes(threads)
     IN IF ops \subseteq DOMAIN FootprintTraces
        THEN /\ footprints' = footprint_analysis(ops, FootprintTraces, test.cache)
             /\ IF TotalCandidates(threads) = 0 THEN Stop("no candidates") /\ UNCHANGED cqueue
                ELSE /\ phase' = "check"
                     /\ cqueue' = Numbered(Candidates(threads))
                     /\ UNCHANGED outcome
        ELSE Stop("footprint") /\ UNCHANGED <<footprints, cqueue>>
  /\ UNCHANGED <<test, queue, threads, discarded, workers, errs, results>>

-----------------------------------------------------------------------------
(* smt_output_per_candidate: the problem of a candidate *)

(* The sets and relations the memory model may name. *)
Tuples(set) == {<<e>> : e \in set}
smt_of_candidate(exec, env, trf, ctx) ==
  Atom("IW") :> IW @@ Atom("id") :> {<<e, e>> : e \in Events(exec) \cup {IW}}
  @@ Atom("R") :> Tuples(R(exec)) @@ Atom("W") :> Tuples(W(exec)) @@ Atom("M") :> Tuples(R(exec) \cup W(exec))
  @@ Atom("IF") :> Tuples(IF_(exec)) @@ Atom("AT") :> Tuples(AT(exec)) @@ Atom("T") :> Tuples(T(exec))
  @@ Atom("Stage1") :> Tuples(Stage1(exec)) @@ Atom("Stage2") :> Tuples(Stage2(exec))
  @@ Atom("T_f") :> Tuples(T_f(exec, env, ctx))
  @@ Atom("instruction-order") :> instruction_order_rel(exec) @@ Atom("po") :> po_rel(exec)
  @@ Atom("iio") :> iio(exec) @@ Atom("int") :> int(exec) @@ Atom("ext") :> ext(exec)
  @@ Atom("fpo") :> (IF ctx.ignore_ifetch THEN {} ELSE fpo(exec))
  @@ Atom("fe") :> (IF ctx.ignore_ifetch THEN {} ELSE fe(exec))
  @@ Atom("same-translation") :> same_translation_rel(exec)
  @@ Atom("loc") :> loc(exec, env) @@ Atom("overlap-loc") :> overlap_loc(exec, env)
  @@ Atom("po-loc") :> po_loc(exec, env) @@ Atom("rw-pair") :> rw_pair(exec, env)
  @@ Atom("addr") :> addr_rel(exec, env, ctx) @@ Atom("data") :> data_rel(exec, env, ctx)
  @@ Atom("ctrl") :> ctrl_rel(exec, ctx) @@ Atom("rmw") :> rmw_rel(exec, ctx) @@ Atom("amo") :> amo_rel(exec, ctx)
  @@ Atom("translate-same-va-page") :> translate_same_va_page(exec)
  @@ Atom("translate-same-ipa-page") :> translate_same_ipa_page(exec)
  @@ Atom("trf1-internal") :> trf_internal(exec, trf, TRUE) @@ Atom("trf2-internal") :> trf_internal(exec, trf, FALSE)

(* The models the solver has to choose from, which the callback tells      *)
(* apart by the reads-from relation only.                                  *)
IsModel(exec, s, names, ctx, t) ==
  /\ exp_to_smt(t.assertion, exec, s.env, s.co, ctx)
  /\ Satisfiable(t.model, [events |-> Events(exec) \cup {IW}, env |-> << >>,
                          val |-> Atom("co") :> s.co @@ Atom("rf") :> s.rf @@ Atom("irf") :> s.irf @@ names], TRUE)
ModelsIn(exec, env, trf, names, ctx, t) ==
  {s.rf : s \in {x \in SolutionsIn(exec, env, trf, ctx, W(exec), names[Atom("loc")]) : IsModel(exec, x, names, ctx, t)}}
Models(exec, events, ctx, t) ==
  UNION {UNION {UNION {ModelsIn(exec, env, trf, names, ctx, t) : names \in {smt_of_candidate(exec, env, trf, ctx)}} :
                  trf \in WalksFrom(exec, env, ctx)} : env \in Assignments(events)}

Prepared(events, t) ==
  LET cfg == [translation_function |-> "translate", read_registers |-> {}, write_registers |-> {},
              in_program_order |-> {}, ignore_ifetch |-> t.opts.ignore_ifetch]
      info == ExecutionInfoFrom(events, cfg)
      fewer == IF t.opts.remove = "no" THEN info
               ELSE remove_uninteresting_translates(info, t.maybe_mapped, t.custom, t.opts.remove = "entire")
  IN IF info.err # "" THEN info
     ELSE IF t.opts.merge = "no" THEN fewer ELSE merge_translations(fewer, t.opts.merge = "split")

Context(t, fps) ==
  [initial |-> t.initial, custom |-> t.custom, objdump |-> t.objdump, encoding |-> t.encoding, fps |-> fps,
   ignore_ifetch |-> t.opts.ignore_ifetch, page_tables |-> t.opts.page_tables]

(* An event outside its candidate: its thread, instruction and kind. *)
Place(exec, e) ==
  IF e = IW THEN <<0, 0, "initial">>
  ELSE <<exec.smt[e].thread_id, exec.smt[e].instruction_index, exec.smt[e].base[1].ev>>
Placed(exec, rf) == {<<Place(exec, p[1]), Place(exec, p[2])>> : p \in rf}

CandidateModels(exec, events, t, fps) ==
  {Placed(exec, rf) : rf \in Models(exec, events, Context(t, fps), t)}

TakeCandidate(w) ==
  /\ phase = "check" /\ workers[w] = Idle /\ cqueue # << >>
  /\ cqueue' = Tail(cqueue)
  /\ LET c == Head(cqueue)
     IN \E exec \in {Prepared(c.events, test)} :
          IF exec.err # "" THEN errs' = errs + 1 /\ UNCHANGED workers
          ELSE /\ workers' = [workers EXCEPT ![w] =
                    [k |-> "solving", i |-> c.i, models |-> CandidateModels(exec, c.events, test, footprints),
                     found |-> {}, first_run |-> TRUE]]
               /\ UNCHANGED errs
  /\ UNCHANGED <<test, phase, queue, threads, discarded, footprints, results, outcome>>

LeaveQueue(w) ==
  /\ phase = "check" /\ workers[w] = Idle /\ cqueue = << >>
  /\ workers' = [workers EXCEPT ![w] = Gone]
  /\ UNCHANGED <<test, phase, queue, threads, discarded, footprints, cqueue, errs, results, outcome>>

(* A model that contains a relation found before is excluded. *)
Exclude(found, rf) == found \cup {rf}
Remaining(wk) == {rf \in wk.models : \A f \in wk.found : ~(f \subseteq rf)}

(* The callback: what the solver said becomes a result. *)
Callback(w, kind, rf) == results' = Append(results, [i |-> workers[w].i, kind |-> kind, rf |-> rf])

Sat(w) ==
  /\ workers[w].k = "solving"
  /\ \E rf \in Remaining(workers[w]) :
       /\ Callback(w, "allowed", rf)
       /\ workers' = [workers EXCEPT ![w] =
            IF test.opts.exhaustive THEN [@ EXCEPT !.found = Exclude(@, rf), !.first_run = FALSE] ELSE Idle]
  /\ UNCHANGED <<test, phase, queue, threads, discarded, footprints, cqueue, errs, outcome>>

(* Later, unsat means that all is found. *)
Unsat(w) ==
  /\ workers[w].k = "solving"
  /\ Remaining(workers[w]) = {}
  /\ IF test.opts.exhaustive /\ ~workers[w].first_run THEN UNCHANGED results ELSE Callback(w, "forbidden", {})
  /\ workers' = [workers EXCEPT ![w] = Idle]
  /\ UNCHANGED <<test, phase, queue, threads, discarded, footprints, cqueue, errs, outcome>>

(* The solver gives up, at its time or memory limit. *)
Unknown(w) ==
  /\ workers[w].k = "solving" /\ test.opts.limits
  /\ Callback(w, "error", {})
  /\ workers' = [workers EXCEPT ![w] = Idle]
  /\ UNCHANGED <<test, phase, queue, threads, discarded, footprints, cqueue, errs, outcome>>

Finish ==
  /\ phase = "check" /\ \A w \in DOMAIN workers : workers[w] = Gone
  /\ IF errs > 0 THEN Stop("callback")
     ELSE phase' = "end" /\ outcome' = [error |-> "", report |-> print_results(results, test)]
  /\ UNCHANGED <<test, queue, threads, discarded, footprints, cqueue, workers, errs, results>>

-----------------------------------------------------------------------------
Setup(t, start) ==
  /\ test = t /\ phase = start /\ queue = t.executed
  /\ threads = [n \in 1 .. t.num_threads |-> << >>]
  /\ discarded = 0 /\ footprints = << >> /\ cqueue = << >>
  /\ workers = [w \in 1 .. NumThreads |-> Idle]
  /\ errs = 0 /\ results = << >> /\ outcome = NoOutcome
RunInit(t) == Setup(t, "collect")

Next ==
  \/ \E result \in queue : PopResult(result)
  \/ StartCandidates
  \/ \E w \in DOMAIN workers : TakeCandidate(w) \/ LeaveQueue(w) \/ Sat(w) \/ Unsat(w) \/ Unknown(w)
  \/ Finish
=============================================================================
