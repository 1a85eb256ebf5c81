------------------------------- MODULE Machine -------------------------------
(***************************************************************************)
(* The registers of one path as the interpreter uses them                  *)
(* (isla-lib/src/executor.rs:78-965): reading and writing registers and    *)
(* their fields, through references and through vectors of registers,      *)
(* resetting them, injecting interrupts, announcing instructions, calling  *)
(* functions that have assumptions; with the events of the trace, and what *)
(* a reader of the trace knows of the registers.                           *)
(*                                                                         *)
(* A location is [reg, acc]: acc is <<>>, or <<f>> for a field.            *)
(***************************************************************************)
EXTENDS Registers, FiniteSets, Functions

CONSTANTS
  Regs, Relaxed,     \* the registers, and those with relaxed semantics
  Locs,              \* the locations the program reads and writes
  Written,           \* the values it writes to registers
  FieldsWritten,     \* the values it writes to fields
  VectorRegs,        \* the vector of register references
  SharedResets,      \* shared_state.reset_registers: [loc, value]
  TaskResets,        \* task_state.reset_registers
  ResetConstraints,  \* shared_state.reset_constraints: [loc, value], asserted equal
  FunctionAssumptions, \* shared_state.function_assumptions: [arg, result], arg a location
  Interrupts,        \* task_state.interrupts: [id, reg, value, resets]
  PcReg, PcLimit     \* task_state.pc_limit

VARIABLES
  regs,       \* frame.local_state.regs
  taken,      \* frame.taken_interrupts, of this task
  pc_counts,  \* frame.pc_counts
  assumed,    \* frame.function_assumptions of the function
  events,     \* what the last operation added to the trace
  outcome,    \* the value the last operation returned, and the error of a path that ended
  seen        \* by register: what the trace says of it

machineVars == <<regs, taken, pc_counts, assumed, events, outcome, seen>>

Whole(r) == [reg |-> r, acc |-> <<>>]

Locations == [reg : Regs, acc : {<<>>} \cup {<<f>> : f \in Fields}]

ValuesAt(loc) == IF loc.acc = <<>> THEN Values ELSE FieldValues

IsReset(reset) == reset.loc \in Locations /\ reset.value \in ValuesAt(reset.loc)

\* The registers of a vector are distinct; a configuration names locations and
\* gives them values of their types.  Interrupts are numbered (run_litmus.rs:283).
ASSUME MachineAssumption ==
  /\ Fields # {}
  /\ PcReg \in Regs
  /\ Locs \subseteq Locations /\ Written \subseteq Values /\ FieldsWritten \subseteq FieldValues
  /\ VectorRegs \in Seq(Regs) /\ \A i, j \in DOMAIN VectorRegs : VectorRegs[i] = VectorRegs[j] => i = j
  /\ IsFiniteSet(SharedResets) /\ \A reset \in SharedResets : IsReset(reset)
  /\ IsFiniteSet(TaskResets) /\ \A reset \in TaskResets : IsReset(reset)
  /\ ResetConstraints \in Seq(Range(ResetConstraints))
  /\ \A i \in DOMAIN ResetConstraints : ResetConstraints[i].loc \in Locations
  /\ FunctionAssumptions \in Seq(Range(FunctionAssumptions))
  /\ \A i \in DOMAIN FunctionAssumptions : FunctionAssumptions[i].arg \in Locations
  /\ Interrupts \in Seq(Range(Interrupts))
  /\ \A k \in DOMAIN Interrupts :
       /\ Interrupts[k].reg \in Regs
       /\ IsFiniteSet(Interrupts[k].resets) /\ \A reset \in Interrupts[k].resets : IsReset(reset)
       /\ \A j \in DOMAIN Interrupts : Interrupts[j].id = Interrupts[k].id => j = k

Ev(kind, loc, val) == [ev |-> kind, reg |-> loc.reg, acc |-> loc.acc, val |-> val]

\* A value of a location inside a value of its register.
SetAt(whole, loc, value) == IF loc.acc = <<>> THEN value ELSE [whole EXCEPT ![loc.acc[1]] = value]

GetAt(whole, loc) == IF loc.acc = <<>> THEN whole ELSE whole[loc.acc[1]]

(***************************************************************************)
(* Steps on a state [regs, evs], each a set of outcomes.                   *)
(***************************************************************************)
Result(s, value) == [s |-> s, value |-> value]

\* get_loc_and_initialize: the event has the accessor and the whole value.
Get(s, loc, for_write) ==
  {Result([s EXCEPT !.regs[loc.reg] = r.reg,
                    !.evs = IF for_write THEN @ ELSE Append(@, Ev("ReadReg", loc, r.value))],
          GetAt(r.value, loc)) : r \in Read(s.regs[loc.reg])}

\* assign_with_accessor: a field is written with the rest of the register's
\* value, which is read first.
Put(s, loc, whole) ==
  [s EXCEPT !.regs[loc.reg] = Write(@, whole), !.evs = Append(@, Ev("WriteReg", loc, whole))]

Assign(s, loc, value) ==
  IF loc.acc = <<>> THEN {Put(s, loc, value)}
  ELSE {Put(r.s, loc, SetAt(r.value, loc, value)) : r \in Get(s, Whole(loc.reg), TRUE)}

Assume(s, reset) == [s EXCEPT !.evs = Append(@, Ev("AssumeReg", reset.loc, reset.value))]

\* Assign and assume a reset, in each of a set of states.
apply_reset(starts, reset) ==
  UNION {{Assume(a, reset) : a \in Assign(s, reset.loc, reset.value)} : s \in starts}

SyncRegister(s, r) == [s EXCEPT !.regs[r] = Synchronize(@)]

apply_shared_reset(starts, reset) ==
  UNION {{Assume(SyncRegister(a, reset.loc.reg), reset) : a \in Assign(s, reset.loc, reset.value)} : s \in starts}

Plain == INSTANCE SeqFold WITH Step <- apply_reset
Shared == INSTANCE SeqFold WITH Step <- apply_shared_reset

\* The orders in which a hash map may be iterated.
Orders(resets) == Injection(1 .. Cardinality(resets), resets)

Start == [regs |-> regs, evs |-> <<>>]

Done(s, value) ==
  /\ regs' = s.regs
  /\ events' = s.evs
  /\ outcome' = [st |-> "ok", value |-> value]

Failed(error) ==
  /\ outcome' = [st |-> error, value |-> NoValue]
  /\ events' = <<>>
  /\ UNCHANGED <<regs, taken, pc_counts, assumed>>

Running == outcome.st = "ok"

(***************************************************************************)
(* Operations of the program.                                              *)
(***************************************************************************)
ReadLoc(loc) ==
  /\ Running
  /\ \E r \in Get(Start, loc, FALSE) : Done(r.s, r.value)
  /\ UNCHANGED <<taken, pc_counts, assumed>>

\* reg_deref: as a read of the whole register.
RegDeref(reg) == ReadLoc(Whole(reg))

WriteLoc(loc, value) ==
  /\ Running
  /\ \E s \in Assign(Start, loc, value) : Done(s, value)
  /\ UNCHANGED <<taken, pc_counts, assumed>>

\* The outcomes of reading the registers of the vector, one after the other.
VectorReads == {outs \in [DOMAIN VectorRegs -> UNION {Read(regs[r]) : r \in Range(VectorRegs)}] :
                  \A j \in DOMAIN VectorRegs : outs[j] \in Read(regs[VectorRegs[j]])}

VectorIndex(r) == CHOOSE j \in DOMAIN VectorRegs : VectorRegs[j] = r

Vals(outs) == [j \in DOMAIN VectorRegs |-> outs[j].value]

\* A symbolic index is i on this path; the chain of choices makes a variable.
ReadVector(i, symbolic) ==
  /\ Running
  /\ IF symbolic
     THEN \E outs \in VectorReads :
            LET value == Symbolic(outs[i].value)
            IN Done([regs |-> [r \in Regs |-> IF r \in Range(VectorRegs) THEN outs[VectorIndex(r)].reg ELSE regs[r]],
                     evs |-> <<[ev |-> "ReadVector", index |-> i, vals |-> Vals(outs), val |-> value]>>], value)
     ELSE \E r \in Get(Start, Whole(VectorRegs[i]), FALSE) : Done(r.s, r.value)
  /\ UNCHANGED <<taken, pc_counts, assumed>>

\* A symbolic index writes every register: its own value where it is not meant.
WriteOne(out, value) == Write(out.reg, Symbolic(value))

WriteVector(i, value, symbolic) ==
  /\ Running
  /\ IF symbolic
     THEN \E outs \in VectorReads :
            Done([regs |-> [r \in Regs |->
                              IF r \notin Range(VectorRegs) THEN regs[r]
                              ELSE LET j == VectorIndex(r)
                                   IN WriteOne(outs[j], IF j = i THEN value ELSE outs[j].value)],
                  evs |-> <<[ev |-> "WriteVector", index |-> i, vals |-> Vals(outs), val |-> value]>>], NoValue)
     ELSE Done(Put(Start, Whole(VectorRegs[i]), value), NoValue)
  /\ UNCHANGED <<taken, pc_counts, assumed>>

synchronize_registers ==
  /\ Running
  /\ Done([Start EXCEPT !.regs = [r \in Regs |-> Synchronize(regs[r])]], NoValue)
  /\ UNCHANGED <<taken, pc_counts, assumed>>

\* Of the library's interface; nothing in the repository calls it.
forget_last_reads ==
  /\ Running
  /\ Done([Start EXCEPT !.regs = [r \in Regs |-> ForgetLastRead(regs[r])]], NoValue)
  /\ UNCHANGED <<taken, pc_counts, assumed>>

(***************************************************************************)
(* reset_registers, with the synchronization of its primitive.             *)
(***************************************************************************)
TaskLocs == {reset.loc : reset \in TaskResets}

NotReplaced == {reset \in SharedResets : reset.loc \notin TaskLocs}

\* As Reset, with the task's resets first.
ResetTaskFirst(starts) ==
  UNION {Shared!fold(Plain!fold(starts, mine), shared) : mine \in Orders(TaskResets), shared \in Orders(NotReplaced)}

Reset(starts) ==
  UNION {Plain!fold(Shared!fold(starts, shared), mine) : shared \in Orders(NotReplaced), mine \in Orders(TaskResets)}

\* Reading what the constraints are about, or what the assumptions refer to.
look_up(acc, loc) ==
  UNION {{[s |-> r.s, vals |-> Append(a.vals, r.value)] : r \in Get(a.s, loc, FALSE)} : a \in acc}

Looked == INSTANCE SeqFold WITH Step <- look_up

Lookups(starts, locs) == Looked!fold({[s |-> s, vals |-> <<>>] : s \in starts}, locs)

\* A constraint on a concrete value that is false leaves nothing satisfiable;
\* one on an SMT variable leaves the paths on which it is true.
Violates(val, c) == val.v # c.value.v

Inconsistent(a) == \E i \in DOMAIN ResetConstraints :
                     Violates(a.vals[i], ResetConstraints[i]) /\ ~ a.vals[i].sym

Satisfied(a) == \A i \in DOMAIN ResetConstraints : ~ Violates(a.vals[i], ResetConstraints[i])

ResetLookups == Lookups(Reset({Start}), [i \in DOMAIN ResetConstraints |-> ResetConstraints[i].loc])

AssumptionLookups(s) == Lookups({s}, [i \in DOMAIN FunctionAssumptions |-> FunctionAssumptions[i].arg])

reset_registers ==
  /\ Running
  /\ \E a \in ResetLookups :
       \/ Inconsistent(a) /\ Failed("InconsistentRegisterReset")
       \/ /\ Satisfied(a)
          /\ \E b \in AssumptionLookups(a.s) :
               /\ Done([b.s EXCEPT !.regs = [r \in Regs |-> Synchronize(b.s.regs[r])]], NoValue)
               /\ assumed' = assumed \o [i \in DOMAIN b.vals |->
                                          [arg |-> b.vals[i], result |-> FunctionAssumptions[i].result]]
          /\ UNCHANGED <<taken, pc_counts>>

\* A call of the function with assumptions: the first that must match.  An
\* argument in an SMT variable may be equal and need not be.
MustEqual(required, arg) == required = arg

call_assumed(arg) ==
  /\ Running
  /\ LET use == {i \in DOMAIN assumed : MustEqual(assumed[i].arg, arg)}
     IN /\ use # {}
        /\ \E i \in use :
             /\ \A j \in use : i <= j
             /\ Done(Start, [f \in Fields |-> [v |-> assumed[i].result, sym |-> FALSE]])
  /\ UNCHANGED <<taken, pc_counts, assumed>>

(***************************************************************************)
(* interrupt_pending and instr_announce.                                   *)
(***************************************************************************)
ConcreteValue(value) == \A f \in Fields : ~ value[f].sym

\* The triggers are looked at in order, up to the first that matches: if it
\* has been taken the answer is false.  [k, s]: k is 0 when none matches.
scan_trigger(acc, k) ==
  UNION {IF a.k # 0 \/ a.bad THEN {a}
         ELSE {[s |-> [a.s EXCEPT !.regs[Interrupts[k].reg] = r.reg],
                bad |-> ~ ConcreteValue(r.value),
                k |-> IF ConcreteValue(r.value) /\ Contents(r.value) = Contents(Interrupts[k].value)
                      THEN k ELSE 0] : r \in Read(a.s.regs[Interrupts[k].reg])} : a \in acc}

Triggers == INSTANCE SeqFold WITH Step <- scan_trigger

ScanTriggers == Triggers!fold({[s |-> Start, k |-> 0, bad |-> FALSE]}, [k \in DOMAIN Interrupts |-> k])

Flag(b) == [f \in Fields |-> [v |-> IF b THEN 1 ELSE 0, sym |-> FALSE]]

IsTaken(k) == Interrupts[k].id \in taken

interrupt_pending ==
  /\ Running
  /\ \E a \in ScanTriggers :
       \/ a.bad /\ Failed("BadInterrupt")
       \/ /\ ~ a.bad /\ ~ (a.k # 0 /\ ~ IsTaken(a.k))
          /\ Done(a.s, Flag(FALSE))
          /\ UNCHANGED <<taken, pc_counts, assumed>>
       \/ /\ ~ a.bad /\ a.k # 0 /\ ~ IsTaken(a.k)
          /\ \E order \in Orders(Interrupts[a.k].resets) :
               \E s \in Plain!fold({a.s}, order) : Done(s, Flag(TRUE))
          /\ taken' = taken \cup {Interrupts[a.k].id}
          /\ UNCHANGED <<pc_counts, assumed>>

\* A pc is counted once for each instruction announced at it.
Announce(r, opcode) ==
  LET pc == Contents(r.value)
  IN IF ~ ConcreteValue(r.value) THEN Failed("Type")
     ELSE IF pc_counts[pc] + 1 > PcLimit THEN Failed("PCLimitReached")
     ELSE /\ pc_counts' = [pc_counts EXCEPT ![pc] = @ + 1]
          /\ regs' = [regs EXCEPT ![PcReg] = r.reg]
          /\ events' = IF opcode = 0 THEN <<>> ELSE <<[ev |-> "Instr", val |-> opcode]>>
          /\ outcome' = [st |-> IF opcode = 0 THEN "Exit" ELSE "ok", value |-> NoValue]
          /\ UNCHANGED <<taken, assumed>>

instr_announce(opcode) ==
  /\ Running
  /\ \E r \in Read(regs[PcReg]) : Announce(r, opcode)

(***************************************************************************)
(* What the events say, register by register: [now, last, window], the     *)
(* contents that a read must return, the last written ones, and all that   *)
(* were written since the register was synchronized.  None is NoValue.     *)
(***************************************************************************)
Unseen == [now |-> NoValue, last |-> NoValue, window |-> {}]

\* The registers that are also read without an event.
Silent == {PcReg} \cup {Interrupts[k].reg : k \in DOMAIN Interrupts}

SeenRead(k, c) == [now |-> c, last |-> IF k.last = NoValue THEN c ELSE k.last,
                   window |-> IF k.last = NoValue THEN {c} ELSE k.window]

SeenWrite(k, c) == [now |-> c, last |-> c, window |-> k.window \cup {c}]

\* The first write says nothing of what a field held before it, or a register
\* that was read silently; that may still be read.
Before(k, e) ==
  IF k.last # NoValue THEN k
  ELSE [k EXCEPT !.window = IF e.acc # <<>> THEN {[Contents(e.val) EXCEPT ![e.acc[1]] = b] : b \in Bits}
                            ELSE IF e.reg \in Silent THEN [Fields -> Bits] ELSE {}]

SeenSync(k) == [k EXCEPT !.now = k.last, !.window = IF k.last = NoValue THEN {} ELSE {k.last}]

SeenForget(k) == [k EXCEPT !.now = NoValue]

VectorVal(e, r) == e.vals[VectorIndex(r)]

\* A vector event is a read of each of its registers, or a read and a write.
Seen(k, e, r) ==
  CASE e.ev = "ReadReg" /\ e.reg = r -> SeenRead(k, Contents(e.val))
    [] e.ev = "WriteReg" /\ e.reg = r -> SeenWrite(Before(k, e), Contents(e.val))
    [] e.ev = "ReadVector" /\ r \in Range(VectorRegs) -> SeenRead(k, Contents(VectorVal(e, r)))
    [] e.ev = "WriteVector" /\ r \in Range(VectorRegs) ->
         SeenWrite(SeenRead(k, Contents(VectorVal(e, r))),
                   Contents(IF VectorIndex(r) = e.index THEN e.val ELSE VectorVal(e, r)))
    [] OTHER -> k

\* What an event reads or assumes is what the events before it say; a relaxed
\* register may return any value written since the last synchronization, once.
ReadOf(k, c) ==
  /\ k.now # NoValue => c = k.now
  /\ k.now = NoValue /\ k.last # NoValue => c \in k.window

Agrees(k, e, r) ==
  CASE e.ev = "ReadReg" /\ e.reg = r -> ReadOf(k, Contents(e.val))
    [] e.ev = "WriteReg" /\ e.reg = r /\ e.acc # <<>> ->
         k.now # NoValue => \A f \in Fields \ {e.acc[1]} : e.val[f].v = k.now[f]
    [] e.ev = "AssumeReg" /\ e.reg = r ->
         IF e.acc = <<>> THEN Contents(e.val) = k.now ELSE k.now # NoValue /\ e.val.v = k.now[e.acc[1]]
    [] e.ev \in {"ReadVector", "WriteVector"} /\ r \in Range(VectorRegs) -> ReadOf(k, Contents(VectorVal(e, r)))
    [] OTHER -> TRUE

\* [known, ok]: what is known of every register, and whether all events agreed.
replay(acc, e) ==
  [known |-> [r \in Regs |-> Seen(acc.known[r], e, r)],
   ok |-> acc.ok /\ \A r \in Regs : Agrees(acc.known[r], e, r)]

Trace == INSTANCE SeqFold WITH Step <- replay

Replay(evs) == Trace!fold([known |-> seen, ok |-> TRUE], evs)

(***************************************************************************)
(* The machine.                                                            *)
(***************************************************************************)
MachineInit ==
  /\ regs = [r \in Regs |-> UninitRegister(r \in Relaxed)]
  /\ taken = {}
  /\ pc_counts = [pc \in [Fields -> Bits] |-> 0]
  /\ assumed = <<>>
  /\ events = <<>>
  /\ outcome = [st |-> "ok", value |-> NoValue]
  /\ seen = [r \in Regs |-> Unseen]

Operation ==
  \/ \E loc \in Locs : ReadLoc(loc)
  \/ \E r \in Regs : RegDeref(r)
  \/ \E r \in Regs, v \in Written : WriteLoc(Whole(r), v)
  \/ \E loc \in Locs, v \in FieldsWritten : loc.acc # <<>> /\ WriteLoc(loc, v)
  \/ \E i \in DOMAIN VectorRegs, b \in BOOLEAN : ReadVector(i, b)
  \/ \E i \in DOMAIN VectorRegs, b \in BOOLEAN, v \in Written : WriteVector(i, v, b)
  \/ \E b \in Bits : call_assumed([v |-> b, sym |-> FALSE])
  \/ interrupt_pending
  \/ \E opcode \in 0 .. 1 : instr_announce(opcode)

\* The primitives that synchronize leave no event of it.
MachineNext ==
  \/ Operation /\ seen' = Replay(events').known
  \/ /\ reset_registers \/ synchronize_registers
     /\ seen' = [r \in Regs |-> LET k == Replay(events').known[r]
                                IN IF outcome'.st = "ok" THEN SeenSync(k) ELSE k]
  \/ forget_last_reads /\ seen' = [r \in Regs |-> IF r \in Relaxed THEN SeenForget(seen[r]) ELSE seen[r]]

MachineSpec == MachineInit /\ [][MachineNext]_machineVars

(***************************************************************************)
(* Properties.                                                             *)
(***************************************************************************)

\* The trace alone explains the registers: replaying its events gives every
\* value a later event reads or assumes, through fields, references, vectors
\* with symbolic indices, resets and interrupts (executor.rs:78-354, 506-570).
TraceExplainsReads == [][Replay(events').ok]_machineVars

\* A relaxed register holds the last write and nothing from before the last
\* synchronization (register.rs:33-75), and a plain register the last write:
\* what reset_registers and synchronize_registers promise the next instruction.
RegistersHoldWrites ==
  \A r \in Regs :
    seen[r].last # NoValue =>
      /\ Contents(regs[r].last_write) = seen[r].last
      /\ \A o \in Read(regs[r]) :
           /\ Contents(o.value) \in seen[r].window
           /\ r \notin Relaxed => Contents(o.value) = seen[r].last
           /\ seen[r].now # NoValue => Contents(o.value) = seen[r].now

Overlaps(l, m) == l.reg = m.reg /\ (l.acc = <<>> \/ m.acc = <<>> \/ l.acc = m.acc)

HoldsAt(rs, reset) ==
  \A o \in Read(rs[reset.loc.reg]) :
    IF reset.loc.acc = <<>> THEN Contents(o.value) = Contents(reset.value)
    ELSE o.value[reset.loc.acc[1]].v = reset.value.v

Alone(reset, resets) == \A other \in resets : other = reset \/ ~ Overlaps(reset.loc, other.loc)

\* The step assumed the resets of registers, and of no interrupt.
ResetsApplied == outcome'.st = "ok" /\ taken' = taken /\ \E i \in DOMAIN events' : events'[i].ev = "AssumeReg"

RegistersReset ==
  ResetsApplied =>
    /\ \A reset \in TaskResets : Alone(reset, TaskResets) => HoldsAt(regs', reset)
    /\ \A reset \in SharedResets :
         Alone(reset, NotReplaced) /\ Alone(reset, TaskResets) => HoldsAt(regs', reset)

\* The step took interrupt k.
Injected(k) == Interrupts[k].id \in taken' \ taken

InterruptReset ==
  \A k \in DOMAIN Interrupts :
    Injected(k) => \A reset \in Interrupts[k].resets : Alone(reset, Interrupts[k].resets) => HoldsAt(regs', reset)

\* After reset_registers the task's resets hold, and of the shared ones those
\* that the task does not replace, in whatever order the maps are iterated, if
\* no other reset of the same map overlaps (executor.rs:694-720); and when an
\* interrupt is injected, so do its own (executor.rs:660-673).
ResetsHold == [][RegistersReset /\ InterruptReset]_machineVars
=============================================================================
