------------------------------ MODULE Footprint ------------------------------
(***************************************************************************)
(* Footprint analysis, isla-axiomatic/src/footprint_analysis.rs: what an   *)
(* opcode reads, writes and accesses, found by executing it once with all  *)
(* registers symbolic, and the dependencies between two instructions of a  *)
(* thread that follow from the footprints of the instructions between.     *)
(*                                                                         *)
(* A register field is a pair of a register and an accessor.  A thread's   *)
(* instructions are a sequence of opcodes, NoOpcode for a cycle that ended *)
(* before the fetch.                                                       *)
(***************************************************************************)
EXTENDS Simplify

CONSTANT IgnoredRegisters   \* ISAConfig.ignored_registers

NoOpcode == "none"
NoTag == VBits(1, 0)
AnyRegister == "any"

(* The events with values: the value read, its tag, the address.  opts is  *)
(* the kind of the access, region the kind of memory it is in.             *)
ReadMem(value, address, bytes, opts, region) ==
  [ev |-> "readmem", vals |-> <<value, NoTag, address>>, bytes |-> bytes, opts |-> opts, region |-> region]
WriteMem(address, data, bytes, opts, region) ==
  [ev |-> "writemem", vals |-> <<data, address>>, bytes |-> bytes, opts |-> opts, region |-> region]
Branch(address) == [ev |-> "branch", vals |-> <<address>>]
Abstract(name, primitive) == [ev |-> "abstract", vals |-> << >>, name |-> name, primitive |-> primitive]
MarkReg(regs, mark) == [ev |-> "mark", vals |-> << >>, regs |-> regs, mark |-> mark]

IsMem(ev) == ev.ev \in {"readmem", "writemem"}
AddressOf(ev) == ev.vals[Len(ev.vals)]
is_exclusive(ev) == IsMem(ev) /\ ev.opts = "exclusive"

NoTaints == [registers |-> {}, memory |-> FALSE]
Join(s, t) == [registers |-> s.registers \cup t.registers, memory |-> s.memory \/ t.memory]

NewFootprint ==
  [write_data |-> NoTaints, mem_addr |-> NoTaints, branch_addr |-> NoTaints,
   reads |-> {}, writes |-> {}, tainted |-> {}, ignored |-> {}, picks |-> {},
   is_store |-> FALSE, is_load |-> FALSE, is_branch |-> FALSE, is_exclusive |-> FALSE,
   is_system_register_write |-> FALSE]

-----------------------------------------------------------------------------
(* The analysis of one path *)

(* The trace of a task, oldest event first: what follows initialisation,   *)
(* without the events the analysis does not look at.                       *)
FootprintTrace(events) ==
  LET oldest == Reverse(events)
      executed == KeepAt(oldest, LAMBDA i : ~BeforeCycle(oldest, i))
  IN remove_unused(SelectSeq(executed, LAMBDA ev :
       IsReg(ev) \/ IsSmt(ev) \/ ev.ev \in {"mark", "readmem", "writemem", "announce", "branch", "fork", "abstract"}))

(* intrinsic_data maps a symbol to the registers it is computed from. *)
DataOf(acc, v) == IF v \in DOMAIN acc.data THEN acc.data[v] ELSE {}
DataOfAll(acc, vs) == UNION {DataOf(acc, v) : v \in vs}

Marked(fp, ctrl, ev) ==
  CASE ev.mark = "pick" /\ Len(ev.regs) = 1 -> [fp EXCEPT !.picks = @ \cup {<<ev.regs[1], f>> : f \in ctrl}]
    [] ev.mark = "ignore_write" /\ Len(ev.regs) = 1 -> [fp EXCEPT !.ignored = @ \cup {<<AnyRegister, ev.regs[1]>>}]
    [] ev.mark = "ignore_edge" /\ Len(ev.regs) = 2 -> [fp EXCEPT !.ignored = @ \cup {<<ev.regs[1], ev.regs[2]>>}]
    [] OTHER -> fp

MemAccess(fp, events, ev) ==
  LET addr == [fp EXCEPT !.mem_addr = Join(@, value_taints(events, AddressOf(ev))),
                         !.is_exclusive = @ \/ is_exclusive(ev)]
  IN IF ev.ev = "readmem" THEN [addr EXCEPT !.is_load = TRUE]
     ELSE [addr EXCEPT !.is_store = TRUE, !.write_data = Join(@, value_taints(events, ev.vals[1]))]

FootprintEvent(acc, events, ev) ==
  LET field == <<ev.reg, ev.acc>>
  IN CASE ev.ev = "define" -> [acc EXCEPT !.data = (ev.v :> DataOfAll(acc, Variables(ev.e))) @@ @]
       [] ev.ev = "fork" -> [acc EXCEPT !.forks = @ \cup {ev.v}, !.ctrl = @ \cup DataOf(acc, ev.v)]
       [] ev.ev = "read" /\ ev.reg \notin IgnoredRegisters ->
            [acc EXCEPT !.fp.reads = @ \cup {field},
                        !.data = [v \in SymbolsOf(ev.val) |-> DataOf(acc, v) \cup {field}] @@ @]
       [] ev.ev = "write" /\ ev.reg \notin IgnoredRegisters ->
            [acc EXCEPT !.fp.writes = @ \cup {field},
                        !.fp.tainted = @ \cup {f \in {field} : value_taints(events, ev.val).memory}]
       [] ev.ev = "mark" -> [acc EXCEPT !.fp = Marked(@, acc.ctrl, ev)]
       [] IsMem(ev) -> [acc EXCEPT !.fp = MemAccess(@, events, ev)]
       [] ev.ev = "announce" -> [acc EXCEPT !.fp.mem_addr = Join(@, value_taints(events, AddressOf(ev)))]
       [] ev.ev = "branch" ->
            [acc EXCEPT !.fp.is_branch = TRUE,
                        !.fp.branch_addr = Join(Join(@, value_taints(events, AddressOf(ev))),
                                                collect_taints(events, DependenciesOf(events, acc.forks)))]
       [] ev.ev = "abstract" /\ ev.name = "sail_system_register_write" ->
            [acc EXCEPT !.fp.is_system_register_write = TRUE]
       [] OTHER -> acc

PathFootprint(fp, events) ==
  FoldLeft(LAMBDA a, ev : FootprintEvent(a, events, ev),
           [fp |-> fp, forks |-> {}, data |-> << >>, ctrl |-> {}], events).fp

-----------------------------------------------------------------------------
(* The analysis of the opcodes of the threads' paths: those in the cache   *)
(* are not executed, the others are, and go into the cache.                *)

Instr(opcode) == [ev |-> "instr", vals |-> << >>, opcode |-> opcode]
Opcodes(path) == {path[i].opcode : i \in {j \in DOMAIN path : path[j].ev = "instr"}}

OpcodeFootprint(traces) == FoldLeft(PathFootprint, NewFootprint, [i \in DOMAIN traces |-> FootprintTrace(traces[i])])

footprint_analysis(opcodes, traces, cache) ==
  [op \in opcodes |-> IF op \in DOMAIN cache THEN cache[op] ELSE OpcodeFootprint(traces[op])]

-----------------------------------------------------------------------------
(* Dependencies between instrs[from] and instrs[to] *)

Executed(instrs, i) == instrs[i] # NoOpcode

rmw_dep(from, to, instrs, fps) ==
  /\ from <= to
  /\ Executed(instrs, from) /\ Executed(instrs, to)
  /\ fps[instrs[from]].is_exclusive /\ fps[instrs[from]].is_load
  /\ \A i \in (from + 1) .. (to - 1) : Executed(instrs, i) => ~fps[instrs[i]].is_exclusive
  /\ fps[instrs[to]].is_exclusive /\ fps[instrs[to]].is_store

(* The registers a footprint passes the touched ones on to. *)
NewTouched(fp, touched) ==
  {w \in fp.writes :
     /\ <<AnyRegister, w[1]>> \notin fp.ignored
     /\ \E r \in touched \cap fp.reads : <<r[1], w[1]>> \notin fp.ignored}

\* Mutant: what an instruction writes is no longer touched, whatever it read.
advance_clobbering(fp, touched) == (touched \ fp.writes) \cup (NewTouched(fp, touched) \ fp.reads)

(* Registers an instruction writes are forgotten when it passes none on.   *)
(* touched_by has this inline; pick_dep calls it by name.                  *)
advance_deps(fp, touched) ==
  LET new == NewTouched(fp, touched)
  IN IF new = {} THEN touched \ fp.writes ELSE touched \cup new

Advance(instrs, fps, i, touched) ==
  IF Executed(instrs, i) THEN advance_deps(fps[instrs[i]], touched) ELSE touched

Between(from, to) == [k \in 1 .. (to - from - 1) |-> from + k]

touched_by(from, to, instrs, fps) ==
  IF ~Executed(instrs, from) THEN {}
  ELSE FoldLeft(LAMBDA t, i : Advance(instrs, fps, i, t), fps[instrs[from]].tainted, Between(from, to))

addr_dep(from, to, instrs, fps) ==
  /\ from < to /\ Executed(instrs, to)
  /\ fps[instrs[to]].mem_addr.registers \cap touched_by(from, to, instrs, fps) # {}

data_dep(from, to, instrs, fps) ==
  /\ from < to /\ Executed(instrs, to)
  /\ LET fp == fps[instrs[to]]
         touched == touched_by(from, to, instrs, fps)
     IN \/ fp.write_data.registers \cap touched # {}
        \/ fp.is_system_register_write /\ fp.reads \cap touched # {}

(* Nothing is forgotten on the way to a branch.  The check that there is   *)
(* an access is made of the first instruction.                             *)
ctrl_dep(from, to, instrs, fps) ==
  /\ Executed(instrs, from) /\ from < to
  /\ fps[instrs[from]].is_load \/ fps[instrs[from]].is_store
  /\ LET step(acc, i) ==
           IF ~Executed(instrs, i) THEN acc
           ELSE LET fp == fps[instrs[i]]
                IN [found |-> acc.found \/ (fp.is_branch /\ fp.branch_addr.registers \cap acc.touched # {}),
                    touched |-> acc.touched \cup NewTouched(fp, acc.touched)]
     IN FoldLeft(step, [found |-> FALSE, touched |-> fps[instrs[from]].tainted], Between(from, to)).found

pick_dep(from, to, instrs, fps) ==
  /\ Executed(instrs, from) /\ Executed(instrs, to) /\ from < to
  /\ fps[instrs[to]].is_load \/ fps[instrs[to]].is_store
  /\ LET step(acc, i) ==
           IF ~Executed(instrs, i) THEN acc
           ELSE LET fp == fps[instrs[i]]
                    picked == {<<p[1], << >>>> : p \in {q \in fp.picks : q[2] \in acc.before}}
                IN [before |-> advance_deps(fp, acc.before),
                    after |-> advance_deps(fp, acc.after \cup picked)]
         reached == FoldLeft(step, [before |-> fps[instrs[from]].tainted, after |-> {}], Between(from, to)).after
     IN reached \cap fps[instrs[to]].reads # {}
=============================================================================
