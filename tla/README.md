# A TLA+ model of Isla

Isla executes instruction-set specifications (Sail, compiled to a small
intermediate representation) symbolically: it runs the specification of an
instruction with unknown inputs, forks where a branch depends on them, and hands
in one trace per path. The traces are simplified and printed by the tools, or
combined by `isla-axiomatic` into the executions of a litmus test, which a
memory model allows or forbids. This project models the executor and the pool of
threads it runs on, the values, registers and memory it works with, the rewrites
before and after it, the axiomatic engine on top, and the web server in front.

## 1. Inventory

| Part | State it keeps | Operations | Hard parts | What makes it correct |
|---|---|---|---|---|
| `fraction.rs` | numerator, power of the denominator | `halve`, `min_split`, `+=`, `is_one` | sums over different denominators | parts of a task add up to one |
| `executor.rs`: `start_multi` | work-stealing deques, channels, `progress`, `is_idle` | `find_task`, `do_work`, report, poke, kill | steals that lose races, early kill, stale idle flags | no path lost or run twice; it returns |
| `executor.rs`: `start_multi_per_task` | the same, result map behind a lock, finished set | the same, spawner | lock held while executing, tasks added late | each task's result complete |
| `executor.rs`: `run_loop`, `start_single`; `executor/frame.rs`, `executor/task.rs` | frame (variables, stacks, closures, counters), task queue | one per instruction; fork, freeze, resume, stop, assume | resuming on another thread from a frozen frame and a checkpoint | paths are sound and cover every input once |
| `smt.rs` | declarations and assertions, next variable, trace segments | declare, define, assert, check, checkpoint, replay | segments shared between paths | a replay is the solver that was checkpointed |
| `register.rs`, register part of `executor.rs` | last write, last read, old writes | read, write, synchronise, forget; vectors of registers, resets, interrupts | which write a read sees; order of hash maps | the trace explains every value read |
| `memory.rs` | regions | load, read, write, overlap, address constraints | ends of regions, symbolic addresses | symbolic accesses agree with concrete ones |
| `bitvector/`, `smt/smtlib.rs`, `primop.rs`, `primop_util.rs` | none | operations on values, constant folding | widths, signs, mixed vectors | one meaning in every representation |
| `ir.rs`, `ir/` | instruction vectors, control-flow graphs | labels, SSA, two linearisations, abstraction | phi conditions, names of siblings | the function does the same |
| `simplify.rs` | traces, event trees | `add_events`; remove, propagate, hide, renumber | uses on other branches, shadowed registers | the trace says the same |
| `page_table.rs`, `page_table/setup.rs` | tables, scopes, named walks | one per command of a setup; walk, translate | tables allocated on the way, tables mapped into tables | commands map what they name and nothing else |
| `isla-axiomatic`: `footprint_analysis.rs`, `axiomatic.rs`, `smt_events.rs`, `run_litmus.rs`; `src/axiomatic.rs` | footprint cache, queue of candidates, results | dependencies, candidates, relations, solver calls, report | combinations of paths, repeated solver calls | the verdict is that of the memory model |
| `isla-mml` | symbol table, formulas written | compile expressions, definitions, checks | closures, fresh events | the formula means the expression |
| `web/server` | worker counter, response cache | admit, run worker process, cache | early returns, dropped futures, blocked processes | bounded processes, exact counter, requests served |
| `isla-cat`, `isla-elf`, `isla-sexp`, `isla-sail`, parsers, other tools | | I/O, parsing | | |

How they interact. A tool parses the architecture, rewrites its functions
(`ir/`), builds `Task`s and calls `start_multi` with a collector. A worker takes
a task, builds a solver from its checkpoint and calls `run_loop`, which pushes
forks to the worker's own queue and reads and writes registers and memory; values
are computed by the primitive operations, as bitvectors or as SMT expressions.
The collector receives result and trace. The worker then tells main how large a
`Fraction` of the task this was; main adds them up and kills the pool when each
task it has heard of is one. `footprint` joins the traces into a tree and
simplifies it. `isla-axiomatic` does the same per thread of a litmus test with
page tables as part of memory, multiplies the paths of the threads, writes each
combination with the compiled memory model as an SMT problem, and reports. The
web server runs it in worker processes.

## 2. Modules

**Execution.**

* `Fraction` – the operators of `fraction.rs`. `min_split` changes its receiver
  and returns a value; the two are `min_split_self` and `min_split_rest`.
* `PathCover` – abstract specification of any execution: paths are split without
  losing or sharing inputs, may be narrowed by assumptions, and are handed in once.
* `WorkerPool` – workers and the common part of main. One action per step that
  another thread can observe: `Register`, `PopLocal`, `StartScan`, `Steal`,
  `StealGlobal`, `Advance` (a queue is empty, or a race is lost), `EndScan`,
  `Jump`, `Monomorphize`, `Collect`, `SendFinished`, `SendIdle`, `RecvPoke`,
  `RecvKill`, and main's `MainRecv` and `PokeIdle`. A path is abstracted to the
  inputs on it; what `run_loop` does between forks is internal here.
* `StartMulti`, `StartMultiPerTask` – the two main threads on top of the pool.
* `Solver` – `smt.rs`. Assertions are sets of satisfying assignments, so
  satisfiability is exact; the trace and its shared segments are kept as in the
  code, because replay works on them.
* `RunLoop` – one action per instruction, including error returns, plus `Pop`
  (the head of `start_single`'s loop), `TimePasses`/`TimedOut` and `Z3Unknown`.
  `stands` is a history variable: the inputs each queued task is meant to have.
* `ConcreteRun` – what a program does on one input: a reference interpreter on
  concrete bits, one step at a time, against which `PathsSound` and
  `PathsComplete` compare the paths of `RunLoop`.
* `EventTree` – the trees of `simplify.rs`.
* `SeqFold` – the fold of a constant operator over a sequence: what the loops over
  segments, events and choices in `Solver` and `RunLoop` compute, in a form about
  which the prover can reason.

Queues of the pool are sets, so which end is popped and how large a batch is are
left open; the code relies on neither. The pool's main thread receives the
messages of different workers in any order, keeping each worker's own order:
`try_recv` sees one channel, but messages of different workers commute.

**Values.** `BV` is the trait of `bitvector.rs` with its default methods; `B64`
and `B129` instantiate it as the code implements it, with the width of a word as
a constant and the arithmetic of a release build (it wraps, and a shift takes its
amount modulo the width; a debug build panics there). `BVSpec` says what the
methods promise on naturals. `SmtExp` has
expressions, their meaning `Denote`, and the code's `eval`, substitution and
`commute_extract`. `Primops` has the primitive operations, with
a branch for concrete operands, one that builds a term, and where the code has it
one for mixed vectors. A symbolic value is the term its variable is defined to
be.

**Registers and memory.** `Registers` is `register.rs`, `Machine` what
`executor.rs` does with registers: locations and fields, references, vectors with
symbolic indices, `reset_registers`, `interrupt_pending`, `instr_announce`,
assumptions on functions, each with the events it adds. Hash maps, those of an
interrupt's resets among them, are iterated in every order. The history variable `seen` is what a reader of the trace knows of
each register. `Memory` is `memory.rs`, with page tables as its custom region; a
symbolic address is the set of addresses it may have.

**Rewrites.** `IR` has bodies and the rewrites of instruction vectors; `SSA` the
graphs (petgraph's order of edges and its removal by swapping are modelled,
because the code's choices depend on them), dominance frontiers, phi placement
and renaming; `Linearize` both linearisations; `MCRewrites` runs a body.
`Simplify` has every pass on traces and trees.

**Axiomatic engine.** `Footprint` computes footprints from traces and
dependencies from footprints; `Axiomatic` candidates, their events, translations
and the relations that need no solver; `SmtEvents` the problem that a candidate
becomes, as the sets and relations its formulas denote; `MemoryModel` the
compiler of `isla-mml`; `RunLitmus` the run of a test: the queue of thread
results, workers that take candidates, the exhaustive loop and the reports and
reference results of `src/axiomatic.rs`. The solver is external: its answers are
exact, or unknown.

**Page tables.** `PageTable` has descriptors, attributes, updates and walks;
`PageTableSetup` the evaluation of a setup, one action per kind of command.
A descriptor is an output address and a set of bits; the numbers of entries and
bytes are constants.

**Web server.** `WebServer` – the request handlers of
`web/server/src/server.rs`. One action per stretch between two points where
another handler or process can act; `Fail` is every `?` after the admission,
`Drop` a client that disconnects where the handler awaits, `WorkerStep` what a
worker process can do as seen from outside. `leaked` is a history variable.

**Instances and proofs.** `MC…` modules give the inputs and properties of a run;
`MCTransforms` is the union of `MCRewrites` and `MCSimplify`. Proofs are in
`SeqFold` (facts about folds), `PathLemmas` (Fractions and paths), `PoolProofs`
(what holds for both pools), `StartMultiProofs`, `PerTaskProofs`, `RunLoopProofs`
(the solver, the interpreter and its runs on concrete inputs), `MachineProofs` and `WebServerProofs`.

Composition: `Fraction` ← `WorkerPool` ← `StartMulti`, `StartMultiPerTask`;
`SeqFold` ← `Solver` ← `RunLoop`; `SeqFold` + `Registers` ← `Machine`; 
`RunLoop` ← `ConcreteRun`; `ConcreteRun` + `EventTree` ← `MCRunLoop`;
`StartMulti` and `RunLoop` refine `PathCover`; `BV` ← `B64`, `B129` ← `SmtExp` ←
`Primops`; `SmtExp` + `EventTree` ← `Simplify` ← `Footprint` ←
`Axiomatic` ← `SmtEvents` ← `RunLitmus` → `MemoryModel`; `PageTable` ← `Memory`,
`PageTableSetup`; `Machine` + `Memory` ← `MCMachine`.

## 3. Runs

| Run | Question | Bounds | Result |
|---|---|---|---|
| `start_multi` | Is a path ever lost, run twice, or counted wrongly? Does the pool implement `PathCover`? | 2 workers, 2 tasks, 2 inputs, 3 paths in all | holds |
| `start_multi_live` | Does `start_multi` return? | 2 workers, 1 task, 2 paths | holds |
| `per_task` | Does the per-task pool return, with final results? | 2 workers, 1 task and 1 spawned, 2 paths before a spawn | holds |
| `per_task_lost` | Is every task executed? | 1 worker, 1 task and 1 spawned | violated |
| `run_loop` | Are the paths sound and complete, do frames and solver agree, and has the tree a leaf per path? | 501 programs, 8 inputs, runs of at most 40 steps | holds |
| `values` | Has a value one meaning, whichever representation computes it? | words of 3 bits, double words of 3 and a tag, integers of 6; every pair of vectors; expressions of depth 2 | holds |
| `machine` | Does the trace explain the registers? Do symbolic accesses agree with concrete ones? | 4 operations on 3 registers with 2 fields; memories of 3 regions over 16 addresses | holds |
| `page_tables` | Do setup commands map what they name, and only that? | 3 commands, tables of 4 entries, 4 levels, default and nested tables | holds |
| `transforms` | Do rewritten functions and simplified traces mean the same? | 1184 bodies of up to two nested conditionals, in models with and without Unreachable; 4320 traces and trees | holds |
| `axiomatic` | Is the verdict of a litmus test that of its interleavings? Do dependencies, compiled checks and pages mean what they should? | 2 threads of up to 3 instructions, 2 locations, 2 workers; 30 groups of programs, 165 expressions, 128 walks | holds |
| `last_write` | Is an allowed final state reachable? | a store and a load of one location | violated |
| `web_server` | Is the process limit kept, the counter exact, and what can starve a request? | 3 connections, 2 requests, 2 slots | holds |

**Pool.** Two workers are enough for every race of `find_task` (thief and owner,
two thieves on `global`), and three paths let one task fork while another is
stolen. `SplitPow` is 2 where the code has 6, which keeps numbers small. There is
one fork in a run, so sums of Fractions over different denominators are left to
the theorems of section 4, which bound neither forks nor denominators. `MaxPokes` is 1: a worker that has an
unread poke looks for work again after every later one too.

**Interpreter.** A program has a fixed frame and slots filled from a menu that
contains every instruction, a loop that only `pc_limit` ends, traced, stopped,
abstracted and assumed functions, reads of undefined values, and all three
assertion primitives. `MaxConsts = 3` gives eight inputs; later unknowns are 0
both for the solver and for the reference interpreter. One question per execution
may stay unanswered by Z3; the timeout may come at any step. `PathsSound` and
`PathsComplete` compare with the reference interpreter input by input.

**Values.** `B64MeetsContract` and `B129MeetsContract` compare every method with
arithmetic on naturals on all vectors up to the full length, the tag bit
included, but for the methods that section 5 names; positions go below zero and
past the end. `EvalKeepsMeaning` evaluates
expression and folded expression under every assignment. `PrimopsAgree` performs
each operation on concrete operands, and on the same operands with each of them
symbolic or half symbolic: the values possible are the same. Words of three bits
have every case of the code's comparisons with the width. Operations are called
with operands that Sail's types allow (`Pre`); cases excluded because the code
departs from its concrete branch are listed in section 5.

**Registers and memory.** `TraceExplainsReads` keeps what a reader of the trace
knows (`seen`) and requires each later event to agree; `RegistersHoldWrites` is
the same for the state. Four operations reach a write, a synchronisation, a read
and a write through a vector in any order. `ResetsHold` is an action property:
after `reset_registers`, and after an interrupt for the one that was taken, each
reset holds that no other of the same map overlaps, in each order of the maps.
Where two overlap (a register and a field of it), the order decides and nothing is
claimed. The memory properties look at every memory of up to three regions from
a menu of overlapping ones, and at all addresses and pairs of addresses.

**Page tables.** Three commands let a table be allocated, used by a second
address and replaced by a block. Probes cover the spans of all levels.
`CommandsTranslate` is an action property: a command changes the translation of
the addresses it names and of no other, except that a table in the place of a
block takes the rest of the block with it. Commands that use a table by name make
aliases on purpose and are excluded (`last.aliased`).

**Transforms.** `RewritesKeepRuns` compares the runs of a body before and after
any choice of the rewrites in the order the tools apply them, for each valuation
of symbolic arguments: the calls made, the value returned or the exit. In a model
that defines Unreachable, a partially linearised body may make more calls and
fail an assertion early (section 5); the value is the same.
`SimplifyKeepsMeaning` compares the register states and observed values a path
allows, over all values of its symbols, before and after any prefix of the
passes, and asks that the checks of `--eval-carefully` abort on no tree (on a flat
trace they may, see section 5); `NeededAssumptionsStay` compares the assumptions
that a read relies on. Rewrites and simplification are independent, a behaviour is
about one of them.

**Axiomatic.** The instruction set is a toy one whose traces are made by the same
steps that run it concretely. Tests are the usual shapes (store buffering,
message passing, load buffering, coherence, an atomic swap, control and address
dependencies), ordinary and exhaustive, with paths that failed or met a limit.
The model is sequential consistency, written in the memory model language and
compiled; with it, the verdict must be that of the interleavings, and the
executions reported those of the interleavings that satisfy the assertion. No
test turns on instruction fetches or page tables, so the sources of fetched and
translated reads (`IrfSources`, `TrfSources`) and `tt_write` are translated and
not exercised by a verdict.
`DependenciesFound` runs programs twice with different values loaded first, and
asks the footprints for a dependency wherever the runs differ. `CompiledMeaning`
gives relations on two events all meanings; a check on a closure is exact where
the code axiomatises it exactly, and implied elsewhere. `PagesSurvive` removes or
merges translation events of three walks and looks up the pages again.

**Web server.** There is one connection more than slots, so that handlers wait,
and fewer requests than connections, so that the cache is hit.

**Fairness.** Threads are scheduled, and `run_loop` returns (it has a timeout):
weak fairness of main, of messages and of `find_task`. A steal fails only because
another worker succeeded, and a lock is granted to a waiting writer: strong
fairness of `Steal`, `StealGlobal`, `Register` and, in the per-task pool,
`Spawn`. In the web server only weak fairness: the runtime polls handlers, and a
worker has a limit on its CPU time. No handler is assumed to find a free slot; it
does because the others end. `Served` says what remains: `server.rs` gives a slot
back only on its last lines, so an early return or a dropped future loses one for
good, and it waits for the worker before it reads the worker's output, so an
answer larger than a pipe blocks both.

Deadlock is checked in the runs of the pool, the interpreter and the server; the
others compute something and stop.

## 4. Proofs

All statements are for every value of the constants that the named assumptions
allow. Where a run checks the same definition, the run shows it on the instance
of section 3 and the theorem in general.

| Theorem | Says | Rests on |
|---|---|---|
| `StartMultiProofs!TypeCorrect` | types; a running worker has one task; a report is pending exactly where a worker is about to send it | `PoolAssumption` |
| `PartitionCorrect`, `DistinctCorrect` | every input on one item in one place; no two items follow the same branches | the same |
| `DrainCorrect`, `NoWorkLost` | an idle worker has drained its queue; when all have left, everything was collected | the same |
| `ProgressCorrect`, `CompleteCorrect` | what main counted and what is outstanding add up to one; a task found complete was collected | the same |
| `PoolCoversPaths` | `start_multi` implements `PathCover` | the same |
| `PerTaskProofs!FinalCorrect` | a task found complete stays complete, and its results final | with `TasksAssumption` |
| `RunLoopProofs!CheckpointsRestore` | replaying a checkpoint gives back the solver it was taken of | `SolverAssumption` |
| `RunLoopProofs!SymsCorrect` | frames and solver agree on the variables there are | with `RunLoopAssumption` |
| `RunLoopProofs!RunLoopCoversPaths` | `run_loop` and `start_single` implement `PathCover` | the same |
| `RunLoopProofs!PathsAreSound` | a path says what the program does on each of its inputs | and the hypotheses below |
| `RunLoopProofs!PathsAreComplete` | each input is on one path, or its run fails an assumption or an assertion | the same |
| `MachineProofs!MachineHoldsWrites` | a register holds what the trace says was written to it last | `MachineAssumption` |
| `MachineProofs!MachineResetsHold` | after `reset_registers`, and after an interrupt for the one taken, each reset that no other of its map overlaps holds, in every order of the maps | the same |
| `MachineProofs!MachineTraceExplains` | each step adds events that agree with what the trace said before | the same |
| `WebServerProofs!SlotsCorrect`, `ProcessesCorrect` | `WORKERS` is exact; the process limit holds | `WebAssumption` |

`PoolAssumption`: finitely many workers and at least one, `SplitPow` positive,
bounds that are naturals. `TasksAssumption`: the initial tasks are among the
TaskIds. `SolverAssumption`: `MaxConsts` is a natural. `RunLoopAssumption`: programs
have a `main`, functions are sequences of the instructions of `ir.rs` with their
operands, function assumptions are lists of bits, `PcLimit` is a natural; nothing
is assumed about jump targets, declarations before use, or calls.
`MachineAssumption`: a vector names each register once, the reset maps are finite
and give values of the register's shape, and so do initial values and the fields
an operation may write; interrupts have distinct numbers (`run_litmus.rs:283`
counts them). Nothing is assumed about the number of registers, vectors, fields,
interrupts or operations. `WebAssumption`:
finitely many connections, a positive limit.

**The pool.** Main may send the Kill before any task is complete, since
`all_tasks_complete` holds vacuously while `progress` is empty, so the safety of
the pool cannot rest on main's count. It rests on `find_task`. `IInv` is `TypeOK`,
`PathsPartition`, `IdleIsDrained`, `PathsDistinct`, and `Balanced` for each task.
`NoLostWork` alone is not inductive: a worker can only leave from "wait", and that
its queue is then empty needs `IdleIsDrained`. That in turn needs `TypeOK`, because
a worker runs at most one item and only a running worker pushes to its queue. The
partition gives the conclusion: every input is on some item in some place, all
places but the collector are empty when everybody has left, so it was collected.

`ProgressConserved` needs more. The sum runs over items, unsent reports and unread
messages; a fork replaces one summand by two, which takes that the branches are no
items yet, and this is `PathsDistinct`: two paths of a task diverge at some branch,
so neither continues the other, and the branches of a fork are new. Collecting
turns an item into a report, which keeps the sum because a worker reports one item
that nobody else does (`ReportOK`). `PathLemmas` has what is needed of Fractions:
`+=` is associative and commutative, does not depend on how a Fraction is written,
and a sum over a finite family can be taken in any order. `CompleteIsCollected`
follows, since every path keeps a positive share.

For `PathCover` the mapping is `pending` to the items that are not collected and
`done` to those that are. Steps that move items between queues are stutters, and
that a split or a hand-in really takes one item out uses `PathsDistinct` again.

**The per-task pool.** Completeness is not a property of one moment here, as tasks
arrive late. `IInv` says that a TaskId outside the result map has left no trace
(`Fresh`), that those inside are `Balanced`, and that those in `finished` have been
counted in full. A task counted in full has nothing outstanding (`Settled`),
because shares are positive, and no step of a worker brings an item of a task that
has none; so no later step can add to its results.

**The solver.** `Faithful(s)`: replaying the events of the trace into a new solver
gives the declarations, constants and satisfying assignments that `s` holds now.
Each operation that adds an event keeps it, a checkpoint of a faithful solver
replays to it, and the numbers of the variables are kept (`SolverOK`: exactly 0 to
`next_var - 1` are declared). That segments are shared and stored newest first is
handled once, in what `to_vec` is after a checkpoint.

**The interpreter.** `IInv == TasksOK /\ PathOK /\ PathsApart`. A queued task has a
checkpoint that replays to a faithful solver whose assignments and branches are
what `stands` says of the task, and a frame that mentions only variables of that
solver; the running path has the same of its own frame and solver; and all paths
diverge. Each instruction is shown to be a step of one of five kinds: the path goes
on, ends, splits, is taken from the queue, or time passes. An instruction is a
chain of smaller parts (evaluate, assign, call, assert); `Sound` says that a part
keeps frame and solver in agreement and asserts nothing new, `Asserts` that it may
also narrow the path. From the kinds follow both theorems, whatever the order in
which Z3 gives up, the timeout comes and tasks are popped. The sets of frames and
solvers in `IInv` are infinite, so TLC checks its consequences `SymsAreDeclared`
and `CoversPaths` instead of `IInv` itself.

**Paths and runs.** `PathsAreSound` and `PathsAreComplete` hold for every program,
every number of inputs and runs of any length (`Steps = Nat`; a run of TLC has
finitely many). They have three hypotheses, each about something the code takes on
trust. `ContextsAgree`: if a function stops the execution in several contexts, they
call for the same action; `should_stop` takes the first that it meets in a hash map
(`task.rs:160`), so otherwise the result depends on its order.
`AnnouncesLiterals`: opcodes are announced as literals, since a symbolic one is
taken not to be zero (`task.rs:82`). `AssumptionsHold`: the function assumptions
that the user gives are true, that is, a call with the assumed argument does return
the assumed result and changes nothing else; the executor never calls the function.
`MCRunLoop` evaluates the three for its programs, with an assumption that calls
meet, so they can be satisfied.

The argument is a simulation. For an input of a path, its frame and solver stand
for a configuration of the run on that input (`Concrete`): a symbol is worth what
its declaration says of the input. `StepSims` shows for every action that the new
configuration is that of the next step of the run, or, where an assumption spares a
call, that of the step after the call has returned. An instruction that makes a fork is executed again by
the task that is resumed, so what is kept by all steps is not where a task is but
where its next step leads: `RunsAlong` says that of the running path and of every
queued task, for each of their inputs, a configuration that the run on the input
reaches. With `IInv`, and `PathsSound` itself, which needs it only at the step that hands
a path in, it is inductive. For completeness, `EachInput` says that an input is on at
most one path, queued, running or handed in (`InputsApart`), and on one unless its
run was excluded (`InputsHeld`); assumptions and assertions of the program are the only steps that take an input
off a path, and there the simulation gives that the run ends excluded or in an
assertion failure.

**Registers.** `MachineInv` relates each register to what its reader knows from the
trace (`Explained`): the value the trace says was written last is the value the
register holds now, or one of its old writes where a read returned such a one. An
operation is a chain of reads and writes, and the invariant holds between any two
of them (`Good`), which is what makes loops over vectors and reset maps provable:
a fold of steps that keep `Good` keeps it. A reset writes register after register;
`Settled` says which of them already have their value, and a later step of the same
reset cannot take one away because every register occurs in the order once. The
order in which a hash map is iterated is any injection onto its keys. For an
interrupt the step itself names the one taken: its number is new in
`taken_interrupts`, and numbers are distinct.

**The web server.** The bound on processes is not inductive: it needs that
`WORKERS` is exact (`SlotsAccounted`), that a process belongs to a handler with a
slot (`ChildHeld`) or to one that left with it (`OrphansLeaked`), and that a handler
before its exchange has seen a value below the limit (`Admitted`), so that a
successful exchange keeps `WORKERS` at or below it. Steps change the set of slot
holders by one connection at most (`SlotTaken`, `SlotLeft`, `SlotKept`), from which
the cardinalities follow.

**Induction.** The prover cannot instantiate an induction principle that takes a
predicate. Two forms replace it. Over finite sets and naturals: a non-empty set of
counterexamples has a least element (`LeastSet`, `LeastNat`). Over sequences: `SeqFold` is
proved about for a constant operator, and instantiated with `add_assign`,
`append_segment`, `add_event_internal`, `add_branch`, `try`, the steps of a concrete
run, and the loops of `Machine` over vectors, reset maps, interrupts and events.

**Only model-checked.** Liveness (`Termination`, `Served`), as fairness is outside
the prover. `TreeHasEveryPath`: the trees are recursive. Values, rewrites, simplification, the
axiomatic engine, memory and page tables: their reference meanings are recursive,
and bitwise operators are outside the prover.

## 5. Where the code and its descriptions part

Two properties are violated, both listed as findings in `PROJECT.json`. In
`start_multi_per_task`, a task added by the spawner is not in `progress` until
one of its paths is finished, and the round after the spawn can find everything
complete, so the call returns a default result for a task that nobody executed
(`per_task_lost`). And `*X = 0` in a final assertion is satisfied by any read of
X, because an event that is no write has the value zero and no coherence
successor (`last_write`).

Modelling met other places where the code does not do what a document, a comment
or its own concrete case says. They have no run; the model does what the code
does, and where a property would fail for this reason alone, its inputs leave the
case out and say so.

* Interpreter. Jump freezes the queued frame before `forks += 1`
  (`executor.rs:1085`), so a fork number can repeat on a path, although
  `doc/manual.adoc:147` has it incremented at every fork. The traces of a
  Monomorphize fork differ before their Fork event (`executor.rs:1349`), and the
  tree keeps the first. A symbolic opcode constrained to zero does not end a run
  (`executor.rs:987`, `task.rs:82`). `eq_anything(..).unwrap()` panics on a
  Poison argument (1245), and a worker that panics leaves main waiting.
  `from_checkpoint` does not restore the cycle counter. An interrupt already
  taken hides later ones whose trigger also matches (654). `set_def_attrs` stays
  on after a write to a vector (332).
* Registers. `forget_last_reads` has no caller, so a relaxed register never
  returns an old write in practice.
* Memory. `access_check` accepts an access that ends at the end of a region, the
  SMT constraint does not. A byte written outside any concrete region makes an
  empty one. A write at a symbolic address that can only be in page tables does
  not check the descriptor; a symbolic instruction fetch from default memory is
  accepted where a concrete one is an error.
* Values. `B64::set_slice` with an empty update at position 64 of a vector of 64
  bits shifts a word by its width (`b64.rs:301`): in a release build it clears the
  vector, in a debug build it panics. `smt_ctz` has the body of `smt_clz` (`primop.rs:2470`).
  `commute_extract` is wrong through addition and subtraction when the low end is
  not zero. Shift amounts are cut to the length of the vector. A slice at a
  symbolic position of concrete zeros has the length of the vector. `build_ite`
  does not tie a symbolic constructor to its condition. B129's `add_i128(0)` at
  full length flips the tag, and `trailing_zeros` ignores the length.
* Page tables. A recorded `pteN` is the table's address plus the index, not the
  offset (`page_table.rs:758`; `doc/translation.adoc:275`). `bits()` places UXN
  and PXN the other way round than `fields()`. The initial walk tests the level 2
  descriptor where it means level 3. A table allocated while tables are mapped
  may stay unmapped itself.
* Rewrites. A phi all of whose conditions are concretely false panics; partial
  linearisation of a loop does not keep its meaning; `-P` and `-L` on one
  function leave a phi without values. In a model that defines Unreachable, every
  other call counts as pure (`ssa.rs:297-305`), and partial linearisation moves it
  out of its branch (`partial_linearize.rs:87-131`): a function with effects is
  called on paths that did not call it, and an assertion that is still a call fails
  on paths that did not reach it. The bodies have forward jumps only, as
  Sail's compiler lays them out, and a function is given to one of the two.
* Simplification. `footprint --eval-carefully` without `--tree` gives
  `eval_carefully` a trace that is still newest first (`footprint.rs:650-667`),
  which it walks forwards (`simplify.rs:958`): an expression meets Z3 before its
  symbols are declared, and the translation panics (`smt.rs:1729`). With `--tree`
  the events are in order.
* Axiomatic engine. `ctrl_dep` looks at the footprint of the first instruction
  where its comment names the second; `touched_by` may keep overwritten registers
  and drop conditionally overwritten ones; a whole-register write and a field
  read have no dependency; the footprint cache is keyed by opcode only. The
  exhaustive search tells executions apart by reads-from only, and an unknown
  answer ends it with an extra result. A closure may be chosen too large by the
  solver where it counts for a check. Removal together with merging of
  translation events confuses pages. The herd7 verdict and the printed state
  prefer different results, and its output read back as a reference may say
  allowed for a forbidden test.

## 6. Not modelled

Parsers, lexers, ELF, s-expressions, printing, drawing, logging and options;
initialisation and configuration files; the Sail plugin; `isla-cat` and the
accessors of `isla-mml`; floats, reals and strings; enums, functions and cycle
counting in the solver; reading models back from Z3; `make_executable`;
panics. Definitions that are translated but that no run distinguishes: list
operations and `zeros`/`ones` beyond a word among the primitive operations,
register sets, translation orders and the sources of fetches and translations in
`SmtEvents`, and `pick_dep`, which the code never calls. `advance_deps` is reached
only through it; the code that runs is its copy in `touched_by`
(`footprint_analysis.rs:253-281`), which the model writes with the same operators. `PROJECT.json` lists every component with its status.
