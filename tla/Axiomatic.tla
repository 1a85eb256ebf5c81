------------------------------ MODULE Axiomatic ------------------------------
(***************************************************************************)
(* Candidate executions, isla-axiomatic/src/axiomatic.rs: the product of   *)
(* the paths of the threads, and for each candidate the axiomatic events   *)
(* found in its traces and the relations between them that need no solver. *)
(*                                                                         *)
(* cfg is the part of ISAConfig and of the options that is used here:      *)
(* [translation_function, read_registers, write_registers,                 *)
(* in_program_order, ignore_ifetch].  Types of symbols are not kept, a     *)
(* symbol carries its sort.                                                *)
(***************************************************************************)
EXTENDS Footprint

CONSTANT TableBytes   \* a table of four levels has TableBytes \div 8 entries

None == 0

-----------------------------------------------------------------------------
(* Candidates: an index into the paths of every thread, counted up *)

NewCandidates(threads) ==
  [index |-> [t \in DOMAIN threads |-> 1],
   out_of_bounds |-> \E t \in DOMAIN threads : threads[t] = << >>]

TotalCandidates(threads) ==
  IF threads = << >> THEN 0 ELSE FoldLeft(LAMBDA n, paths : n * Len(paths), 1, threads)

\* Mutant: the carry out of a thread is lost.
increment_without_carry(index, threads, carry) ==
  IF carry > Len(index) \/ index[carry] + 1 > Len(threads[carry]) THEN [index |-> index, out_of_bounds |-> TRUE]
  ELSE [index |-> [index EXCEPT ![carry] = @ + 1], out_of_bounds |-> FALSE]

RECURSIVE increment_index(_, _, _)
increment_index(index, threads, carry) ==
  IF carry > Len(index) THEN [index |-> index, out_of_bounds |-> TRUE]
  ELSE IF index[carry] + 1 > Len(threads[carry])
       THEN increment_index([index EXCEPT ![carry] = 1], threads, carry + 1)
       ELSE [index |-> [index EXCEPT ![carry] = @ + 1], out_of_bounds |-> FALSE]

NextCandidates(cands, threads) == increment_index(cands.index, threads, 1)
CandidateAt(cands, threads) == [t \in DOMAIN threads |-> threads[t][cands.index[t]]]

RECURSIVE CandidatesFrom(_, _)
CandidatesFrom(cands, threads) ==
  IF cands.out_of_bounds THEN << >>
  ELSE <<CandidateAt(cands, threads)>> \o CandidatesFrom(NextCandidates(cands, threads), threads)
Candidates(threads) == CandidatesFrom(NewCandidates(threads), threads)

-----------------------------------------------------------------------------
(* Axiomatic events *)

(* The event there is one of; a merged translation has none. *)
HasBase(ax) == Len(ax.base) = 1
BaseIs(ax, kind) == HasBase(ax) /\ ax.base[1].ev = kind
address(ax) == AddressOf(ax.base[1])
addresses(ax) == {AddressOf(ax.base[i]) : i \in {j \in DOMAIN ax.base : IsMem(ax.base[j])}}
read_value(ax) == ax.base[1].vals[1]
write_data(ax) == ax.base[1].vals[1]
has_read_reg_of(ax, reg) == \E i \in DOMAIN ax.base : ax.base[i].ev = "read" /\ ax.base[i].reg = reg

is_write(ax) == BaseIs(ax, "writemem")
is_translate(ax) == ax.translate # None
is_ifetch(ax) == ax.is_ifetch
in_region(ev, region) == IsMem(ev) /\ ev.region = region
is_in_s1_table(ax) == \E i \in DOMAIN ax.base : in_region(ax.base[i], "stage 1")
is_in_s2_table(ax) == \E i \in DOMAIN ax.base : in_region(ax.base[i], "stage 2")
is_read(ax) == ~is_translate(ax) /\ ~is_ifetch(ax) /\ BaseIs(ax, "readmem")
is_memory(ax) == is_read(ax) \/ is_write(ax)

-----------------------------------------------------------------------------
(* Relations of positions *)

same_translation(a, b) == is_translate(a) /\ is_translate(b) /\ a.translate = b.translate
disjoint(a, b) == a.instruction_index # b.instruction_index \/ a.thread_id # b.thread_id
instruction_order(a, b) == a.instruction_index < b.instruction_index /\ a.thread_id = b.thread_id

(* Program order is instruction order between the events that count in it. *)
po(a, b) ==
  /\ instruction_order(a, b)
  /\ is_memory(a) \/ a.in_program_order
  /\ is_memory(b) \/ b.in_program_order

intra_instruction_ordered(a, b) ==
  /\ a.instruction_index = b.instruction_index /\ a.thread_id = b.thread_id
  /\ a.intra_instruction_index < b.intra_instruction_index

internal(a, b) == a.instruction_index # b.instruction_index /\ a.thread_id = b.thread_id
external(a, b) == a.thread_id # b.thread_id

(* Relations of dependency, from the opcodes of the thread. *)
Dep(D(_, _, _, _), a, b, opcodes, fps) ==
  D(a.instruction_index, b.instruction_index, opcodes[a.thread_id], fps)
addr(a, b, opcodes, fps) ==
  ~a.is_ifetch /\ ~b.is_ifetch /\ instruction_order(a, b) /\ Dep(addr_dep, a, b, opcodes, fps)
data(a, b, opcodes, fps) ==
  ~a.is_ifetch /\ ~b.is_ifetch /\ instruction_order(a, b) /\ Dep(data_dep, a, b, opcodes, fps)
ctrl(a, b, opcodes, fps) ==
  ~a.is_ifetch /\ ~b.is_ifetch /\ po(a, b) /\ Dep(ctrl_dep, a, b, opcodes, fps)
rmw(a, b, opcodes, fps) ==
  /\ po(a, b) \/ intra_instruction_ordered(a, b)
  /\ is_read(a) /\ is_write(b)
  /\ Dep(rmw_dep, a, b, opcodes, fps)
amo(a, b, opcodes, fps) ==
  is_read(a) /\ is_write(b) /\ intra_instruction_ordered(a, b) /\ Dep(rmw_dep, a, b, opcodes, fps)

translation_walk_order(a, b) == intra_instruction_ordered(a, b) /\ is_translate(a) /\ is_translate(b)
ifetch_to_execute(a, b) ==
  /\ a.is_ifetch /\ ~b.is_ifetch
  /\ a.instruction_index = b.instruction_index /\ a.thread_id = b.thread_id

-----------------------------------------------------------------------------
(* Translations: the events of one table walk *)

WalkBefore(a, b) ==
  \/ a.instruction_index < b.instruction_index
  \/ a.instruction_index = b.instruction_index /\ a.intra_instruction_index < b.intra_instruction_index

(* The table indices of the reads of a walk in a region; a read with a     *)
(* symbolic address leaves none.                                           *)
WalkReads(events, id, region) ==
  LET walk == SortSeq(SelectSeq(events, LAMBDA ax : ax.translate = id), WalkBefore)
  IN SelectSeq(FlattenSeq([i \in DOMAIN walk |-> walk[i].base]),
               LAMBDA ev : in_region(ev, region) /\ ev.ev = "readmem")
TableIndex(ev) == (AddressOf(ev).bits[2] % TableBytes) \div 8
AllConcrete(reads) == \A i \in DOMAIN reads : AddressOf(reads[i]).k = "bits"

(* A page is the indices of its walk, << >> when there is none. *)
NoPage == << >>
va_page(events, id) ==
  LET reads == WalkReads(events, id, "stage 1")
  IN IF Len(reads) = 4 /\ AllConcrete(reads) THEN [l \in 1 .. 4 |-> TableIndex(reads[l])] ELSE NoPage
ipa_page(events, id) ==
  LET reads == WalkReads(events, id, "stage 2")
  IN IF Len(reads) >= 4 /\ AllConcrete(reads)
     THEN [l \in 1 .. 4 |-> TableIndex(reads[Len(reads) - 4 + l])] ELSE NoPage

SamePage(page(_, _), events, a, b) ==
  /\ a.name # b.name /\ is_translate(a) /\ is_translate(b)
  /\ page(events, a.translate) # NoPage
  /\ page(events, a.translate) = page(events, b.translate)
same_va_page(events, a, b) == SamePage(va_page, events, a, b)
same_ipa_page(events, a, b) == SamePage(ipa_page, events, a, b)

-----------------------------------------------------------------------------
(* ExecutionInfo::from *)

(* The calls that have not returned, each with its number, the first at 1. *)
PushCall(st, f) == [st EXCEPT !.stack = Append(@, [f |-> f, n |-> st.count]), !.count = @ + 1]
PopCall(st) == [st EXCEPT !.stack = Front(@)]
FirstCallOf(stack, f) ==
  LET calls == SelectSeq(stack, LAMBDA c : c.f = f) IN IF calls = << >> THEN None ELSE calls[1].n

AddCycleEvent(st, at, prefix, ev, in_po, fetch, translate, in_smt) ==
  [st EXCEPT !.cycle = Append(@, [name |-> <<prefix, at.po, at.eid, at.tid>>, event |-> ev,
                                  in_po |-> in_po, fetch |-> fetch, translate |-> translate, in_smt |-> in_smt])]

(* A register event counts after the fetch, and in the problem given to    *)
(* the solver only for the registers the configuration names.              *)
RegEvent(st, at, prefix, ev, registers, translate) ==
  IF st.instr = NoOpcode THEN st
  ELSE AddCycleEvent(st, at, prefix, ev, FALSE, FALSE, IF ev.reg \in registers THEN translate ELSE None,
                     ev.reg \in registers)

(* Before the first cycle there are only register writes. *)
CycleStep(st, at, ev, cfg) ==
  LET translate == FirstCallOf(st.stack, cfg.translation_function)
  IN CASE ev.ev = "write" ->
            [RegEvent(st, at, "Wreg", ev, cfg.write_registers, translate)
               EXCEPT !.final_writes = (<<ev.reg, at.tid>> :> ev.val) @@ @]
       [] ev.ev = "read" -> RegEvent(st, at, "Rreg", ev, cfg.read_registers, translate)
       [] at.po = 0 /\ ~IsReg(ev) -> st
       [] at.po > 0 /\ ev.ev = "instr" ->
            IF st.instr # NoOpcode THEN [st EXCEPT !.err = "MultipleInstructionsInCycle"]
            ELSE [st EXCEPT !.opcodes[at.tid] = Append(@, ev.opcode), !.instr = ev.opcode]
       [] at.po > 0 /\ ev.ev = "readmem" -> AddCycleEvent(st, at, "R", ev, FALSE, st.instr = NoOpcode, translate, TRUE)
       [] at.po > 0 /\ ev.ev = "writemem" -> AddCycleEvent(st, at, "W", ev, FALSE, FALSE, None, TRUE)
       [] at.po > 0 /\ ev.ev = "function" -> IF ev.call THEN PushCall(st, ev.name) ELSE PopCall(st)
       [] at.po > 0 /\ ev.ev = "abstract" /\ ev.primitive ->
            AddCycleEvent(st, at, ev.name, ev, ev.name \in cfg.in_program_order, FALSE, None, TRUE)
       [] OTHER -> st

AxEventOf(st, po_index, iio, c) ==
  [opcode |-> st.instr, instruction_index |-> po_index, intra_instruction_index |-> iio,
   in_program_order |-> c.in_po, thread_id |-> c.name[4], name |-> c.name, base |-> <<c.event>>,
   is_ifetch |-> c.fetch, translate |-> c.translate]

(* The end of a cycle: its events go to the solver or to the others, and a *)
(* cycle without an instruction holds its place among the opcodes.         *)
EndCycle(st, at, cfg) ==
  LET ToSolver(c) == c.in_smt /\ ~(cfg.ignore_ifetch /\ c.fetch)
      axs(keep(_)) == LET places == SelectSeq([i \in DOMAIN st.cycle |-> i], LAMBDA i : keep(st.cycle[i]))
                      IN [k \in DOMAIN places |-> AxEventOf(st, at.po, places[k], st.cycle[places[k]])]
      done == IF st.instr = NoOpcode THEN [st EXCEPT !.opcodes[at.tid] = Append(@, NoOpcode)] ELSE st
  IN [done EXCEPT !.smt = @ \o axs(ToSolver), !.other = @ \o axs(LAMBDA c : ~ToSolver(c)),
                  !.cycle = << >>, !.instr = NoOpcode]

(* The end of the thread ends its last cycle too. *)
TraceStep(st, tid, ev, cfg) ==
  LET at == [tid |-> tid, po |-> st.po, eid |-> st.eid]
  IN IF st.err # "" THEN st
     ELSE IF ev.ev = "cycle"
          THEN [IF st.po > 0 THEN EndCycle(st, at, cfg) ELSE st EXCEPT !.po = @ + 1, !.eid = 0]
          ELSE [CycleStep(st, at, ev, cfg) EXCEPT !.eid = @ + 1]

ThreadEvents(st, tid, thread, cfg) ==
  FoldLeft(LAMBDA s, ev : TraceStep(s, tid, ev, cfg), [st EXCEPT !.po = 0, !.eid = 0], Append(thread, Cycle))

ExecutionInfoFrom(candidate, cfg) ==
  FoldLeft(LAMBDA s, tid : ThreadEvents(s, tid, candidate[tid], cfg),
           [smt |-> << >>, other |-> << >>, opcodes |-> [t \in DOMAIN candidate |-> << >>],
            final_writes |-> << >>, stack |-> << >>, count |-> 1, cycle |-> << >>,
            instr |-> NoOpcode, po |-> 0, eid |-> 0, err |-> ""],
           [t \in DOMAIN candidate |-> t])

-----------------------------------------------------------------------------
(* Fewer translate events *)

(* A table entry some event writes, the set-up may change, or that is zero *)
(* at first.                                                               *)
BaseEvents(exec) == FlattenSeq([i \in DOMAIN exec.smt |-> exec.smt[i].base])
IsTableWrite(ev) == ev.ev = "writemem" /\ ev.region \in {"stage 1", "stage 2"}
WrittenEntries(exec) ==
  {AddressOf(ev) : ev \in {e \in ToSet(BaseEvents(exec)) : IsTableWrite(e)}}
InterestingEntry(exec, a, updated, initial) ==
  a \in WrittenEntries(exec) \/ a \in updated \/ a \notin DOMAIN initial \/ initial[a].bits[2] = 0

Interesting(exec, ax, updated, initial) ==
  BaseIs(ax, "readmem") => InterestingEntry(exec, address(ax), updated, initial)

\* Mutant: what is left out is forgotten.
Dropped(exec, kept) == [exec EXCEPT !.smt = SelectSeq(@, LAMBDA ax : ax \in kept)]
SetAside(exec, kept) ==
  [exec EXCEPT !.smt = SelectSeq(@, LAMBDA ax : ax \in kept),
               !.other = @ \o SelectSeq(exec.smt, LAMBDA ax : ax \notin kept)]

remove_uninteresting_translates(exec, updated, initial, keep_entire) ==
  LET ids == {exec.smt[i].translate : i \in {j \in DOMAIN exec.smt : /\ is_translate(exec.smt[j])
                                                                     /\ BaseIs(exec.smt[j], "readmem")
                                                                     /\ Interesting(exec, exec.smt[j], updated, initial)}}
      keep(ax) == \/ ~is_translate(ax)
                  \/ IF keep_entire THEN ax.translate \in ids ELSE Interesting(exec, ax, updated, initial)
  IN SetAside(exec, {ax \in ToSet(exec.smt) : keep(ax)})

(* The first of the two stages has the first FirstStage base events. *)
FirstStage == 20
MergedEvent(name, walk, base) ==
  [walk[1] EXCEPT !.name = name, !.base = base, !.in_program_order = FALSE, !.is_ifetch = FALSE]

Merged(exec, id, split) ==
  LET walk == SortSeq(SelectSeq(exec.smt, LAMBDA ax : ax.translate = id),
                      LAMBDA a, b : a.intra_instruction_index < b.intra_instruction_index)
      base == FlattenSeq([i \in DOMAIN walk |-> walk[i].base])
  IN IF split
     THEN <<MergedEvent(<<"TRANS_S1", id>>, walk, SubSeq(base, 1, FirstStage)),
            MergedEvent(<<"TRANS_S2", id>>, walk, SubSeq(base, FirstStage + 1, Len(base)))>>
     ELSE <<MergedEvent(<<"TRANS", id>>, walk, base)>>

merge_translations(exec, split) ==
  LET ids == {exec.smt[i].translate : i \in DOMAIN exec.smt} \ {None}
  IN [exec EXCEPT !.smt = FoldSet(LAMBDA id, evs : evs \o Merged(exec, id, split),
                                  SelectSeq(@, LAMBDA ax : ~is_translate(ax)), ids)]
=============================================================================
