----------------------------- MODULE WorkerPool -----------------------------
(***************************************************************************)
(* The worker side of executor::start_multi and start_multi_per_task       *)
(* (isla-lib/src/executor.rs), with the forking of run_loop that feeds it. *)
(*                                                                         *)
(* An item is a Task on its way through the pool.  Its solver state is     *)
(* abstracted to `models`, the program inputs whose execution follows the  *)
(* item's path; `path` is the sequence of branch numbers of the Fork       *)
(* events of its trace, and `frac` its Fraction.  A path may end at any    *)
(* step, with a value, an error, a timeout or Run::Dead: do_work hands     *)
(* every one of those to the collector, so they are one action here.       *)
(*                                                                         *)
(* Every queue is a set: the owner's LIFO end, the thieves' FIFO end and   *)
(* the number of tasks a batch takes are left open.                        *)
(***************************************************************************)
EXTENDS Fraction, Sequences, FiniteSets

CONSTANTS
  Workers,    \* the num_threads workers
  TaskIds,    \* the TaskIds that can occur
  Inputs,     \* the inputs (initial models) of a task
  SplitPow,   \* the argument of min_split in Instr::Monomorphize
  MaxItems,   \* bound: paths of all tasks together
  MaxPokes    \* bound: unread Poke messages of one worker

ASSUME PoolAssumption ==
  /\ Workers # {} /\ IsFiniteSet(Workers)
  /\ SplitPow \in Nat \ {0}
  /\ MaxItems \in Nat /\ MaxPokes \in Nat \ {0}

VARIABLES
  items,      \* place |-> the items it holds
  stealers,   \* the workers whose Stealer is registered, in order
  wpc,        \* where each worker is in its loop
  at,         \* the next queue a scanning worker tries
  again,      \* a steal of this scan answered Retry
  unsent,     \* items collected, whose Finished message is not sent yet
  chan,       \* Progress messages of each worker, oldest first
  poke, kill, \* unread Poke messages; whether a Kill follows them
  progress,   \* main's map from TaskId to Fraction
  isIdle,     \* main's is_idle vector
  mpc         \* where the main thread is

poolVars == <<items, stealers, wpc, at, again, unsent, chan, poke, kill,
              progress, isIdle, mpc>>

Global == <<"global", "queue">>
Collected == <<"collected", "queue">>
Local(w) == <<"local", w>>
Exec(w) == <<"exec", w>>
Places == {Global, Collected} \cup {Local(w) : w \in Workers}
                              \cup {Exec(w) : w \in Workers}
Pending == Places \ {Collected}

\* No path is ever given a Fraction of zero.
Items == [id : TaskIds, path : Seq({0, 1}), models : SUBSET Inputs,
          frac : [num : Nat \ {0}, denom_pow : Nat]]

NewTask(t) == [id |-> t, path |-> <<>>, models |-> Inputs, frac |-> one]

Idle == [type |-> "Idle"]
Finished(i) == [type |-> "Finished", id |-> i.id, frac |-> i.frac]
Messages == {Idle} \cup [type : {"Finished"}, id : TaskIds,
                           frac : [num : Nat \ {0}, denom_pow : Nat]]

PoolInit(tasks) ==
  /\ items = [p \in Places |-> IF p = Global THEN {NewTask(t) : t \in tasks} ELSE {}]
  /\ stealers = <<>>
  /\ wpc = [w \in Workers |-> "start"]
  /\ at = [w \in Workers |-> 1]
  /\ again = [w \in Workers |-> FALSE]
  /\ unsent = [w \in Workers |-> {}]
  /\ chan = [w \in Workers |-> <<>>]
  /\ poke = [w \in Workers |-> 0]
  /\ kill = [w \in Workers |-> FALSE]
  /\ progress = [t \in {} |-> zero]
  /\ isIdle = [w \in Workers |-> FALSE]
  /\ mpc = "recv"

-----------------------------------------------------------------------------
(* A worker thread: registration and find_task.                            *)

mainVars == <<poke, kill, progress, isIdle, mpc>>

Goto(w, from, to) == wpc[w] = from /\ wpc' = [wpc EXCEPT ![w] = to]

\* A scan starts at the first stealer; outside a scan `at` and `again` rest there.
Rewind(w) == at' = [at EXCEPT ![w] = 1] /\ again' = [again EXCEPT ![w] = FALSE]

\* The write lock on `stealers` excludes every worker inside find_task, which
\* holds the read lock while it scans.
Register(w) ==
  /\ Goto(w, "start", "find")
  /\ \A v \in Workers : wpc[v] # "scan"
  /\ stealers' = Append(stealers, w)
  /\ UNCHANGED <<items, at, again, unsent, chan, mainVars>>

Take(w, from, i) ==
  items' = [items EXCEPT ![from] = @ \ {i}, ![Exec(w)] = {i}]

PopLocal(w) ==
  /\ Goto(w, "find", "run")
  /\ \E i \in items[Local(w)] : Take(w, Local(w), i)
  /\ UNCHANGED <<stealers, at, again, unsent, chan, mainVars>>

StartScan(w) ==
  /\ Goto(w, "find", "scan")
  /\ items[Local(w)] = {}
  /\ Rewind(w)
  /\ UNCHANGED <<items, stealers, unsent, chan, mainVars>>

\* The queue a scanning worker looks at: the stealers in order, then global.
Scanned(w) == IF at[w] <= Len(stealers) THEN Local(stealers[at[w]]) ELSE Global

Scanning(w) == wpc[w] = "scan" /\ at[w] <= Len(stealers) + 1

Steal(w) ==
  /\ at[w] <= Len(stealers)
  /\ Goto(w, "scan", "run")
  /\ \E i \in items[Scanned(w)] : Take(w, Scanned(w), i)
  /\ Rewind(w)
  /\ UNCHANGED <<stealers, unsent, chan, mainVars>>

\* Mutant: the batch is executed instead of queued.
StealGlobalMutant(w) ==
  /\ at[w] = Len(stealers) + 1
  /\ Goto(w, "scan", "run")
  /\ \E i \in items[Global] : \E batch \in SUBSET (items[Global] \ {i}) :
       items' = [items EXCEPT ![Global] = @ \ (batch \cup {i}),
                              ![Exec(w)] = batch \cup {i}]
  /\ Rewind(w)
  /\ UNCHANGED <<stealers, unsent, chan, mainVars>>

\* Injector::steal_batch_and_pop: one task to run, a batch into the local queue.
StealGlobal(w) ==
  /\ at[w] = Len(stealers) + 1
  /\ Goto(w, "scan", "run")
  /\ \E i \in items[Global] : \E batch \in SUBSET (items[Global] \ {i}) :
       items' = [items EXCEPT ![Global] = @ \ (batch \cup {i}),
                              ![Local(w)] = @ \cup batch,
                              ![Exec(w)] = {i}]
  /\ Rewind(w)
  /\ UNCHANGED <<stealers, unsent, chan, mainVars>>

\* A queue is empty, or the steal lost a race for its last element (Retry).
Advance(w) ==
  /\ Scanning(w)
  /\ \/ items[Scanned(w)] = {} /\ UNCHANGED again
     \/ items[Scanned(w)] # {} /\ again' = [again EXCEPT ![w] = TRUE]
  /\ at' = [at EXCEPT ![w] = @ + 1]
  /\ UNCHANGED <<items, stealers, wpc, unsent, chan, mainVars>>

\* Mutant: a steal that has to be retried counts as an empty queue.
EndScanMutant(w) ==
  /\ wpc[w] = "scan" /\ at[w] = Len(stealers) + 2
  /\ wpc' = [wpc EXCEPT ![w] = "idle"]
  /\ Rewind(w)
  /\ UNCHANGED <<items, stealers, unsent, chan, mainVars>>

\* Every queue was tried: repeat if some steal has to be retried, else None.
EndScan(w) ==
  /\ wpc[w] = "scan" /\ at[w] = Len(stealers) + 2
  /\ wpc' = [wpc EXCEPT ![w] = IF again[w] THEN "scan" ELSE "idle"]
  /\ Rewind(w)
  /\ UNCHANGED <<items, stealers, unsent, chan, mainVars>>

-----------------------------------------------------------------------------
(* do_work: the forks of run_loop, then the collector.                     *)

\* The running item goes on as `kept`, its fork is queued as `child`.
ForkItem(w, kept, child) ==
  items' = [items EXCEPT ![Exec(w)] = {kept}, ![Local(w)] = @ \cup {child}]

Branch(i, b, models, frac) ==
  [id |-> i.id, path |-> Append(i.path, b), models |-> models, frac |-> frac]

MayFork == Cardinality(UNION {items[p] : p \in Places}) < MaxItems

\* Mutant: the queued branch is not constrained by the negated condition.
JumpMutant(w) ==
  /\ wpc[w] = "run" /\ MayFork
  /\ \E i \in items[Exec(w)] :
       \E b \in SUBSET i.models :
         /\ b # {} /\ b # i.models
         /\ ForkItem(w, Branch(i, 0, b, halve(i.frac)),
                        Branch(i, 1, i.models, halve(i.frac)))
  /\ UNCHANGED <<stealers, wpc, at, again, unsent, chan, mainVars>>

\* Instr::Jump on a symbolic condition that can be true (b) and false.
Jump(w) ==
  /\ wpc[w] = "run" /\ MayFork
  /\ \E i \in items[Exec(w)] :
       \E b \in SUBSET i.models :
         /\ b # {} /\ b # i.models
         /\ ForkItem(w, Branch(i, 0, b, halve(i.frac)),
                        Branch(i, 1, i.models \ b, halve(i.frac)))
  /\ UNCHANGED <<stealers, wpc, at, again, unsent, chan, mainVars>>

\* Mutant: both tasks are given the smaller part of the Fraction.
MonomorphizeMutant(w) ==
  /\ wpc[w] = "run" /\ MayFork
  /\ \E i \in items[Exec(w)] :
       \E b \in SUBSET i.models :
         /\ b # {}
         /\ ForkItem(w, Branch(i, 0, b, min_split_self(i.frac, SplitPow)),
                        Branch(i, 1, i.models \ b, min_split_self(i.frac, SplitPow)))
  /\ UNCHANGED <<stealers, wpc, at, again, unsent, chan, mainVars>>

\* Instr::Monomorphize: the path keeps the models of one value (b); the task
\* for the other values is queued without asking whether there are any.
Monomorphize(w) ==
  /\ wpc[w] = "run" /\ MayFork
  /\ \E i \in items[Exec(w)] :
       \E b \in SUBSET i.models :
         /\ b # {}
         /\ ForkItem(w, Branch(i, 0, b, min_split_self(i.frac, SplitPow)),
                        Branch(i, 1, i.models \ b, min_split_rest(i.frac, SplitPow)))
  /\ UNCHANGED <<stealers, wpc, at, again, unsent, chan, mainVars>>

\* run returns, whatever the result, and the collector records it.
Collect(w) ==
  /\ Goto(w, "run", "report")
  /\ items' = [items EXCEPT ![Collected] = @ \cup items[Exec(w)], ![Exec(w)] = {}]
  /\ unsent' = [unsent EXCEPT ![w] = items[Exec(w)]]
  /\ UNCHANGED <<stealers, at, again, chan, mainVars>>

Send(w, m) == chan' = [chan EXCEPT ![w] = Append(@, m)]

SendFinished(w) ==
  /\ Goto(w, "report", "find")
  /\ \E i \in unsent[w] : Send(w, Finished(i))
  /\ unsent' = [unsent EXCEPT ![w] = {}]
  /\ UNCHANGED <<items, stealers, at, again, mainVars>>

SendIdle(w) ==
  /\ Goto(w, "idle", "wait")
  /\ Send(w, Idle)
  /\ UNCHANGED <<items, stealers, at, again, unsent, mainVars>>

RecvPoke(w) ==
  /\ Goto(w, "wait", "find")
  /\ poke[w] > 0
  /\ poke' = [poke EXCEPT ![w] = @ - 1]
  /\ UNCHANGED <<items, stealers, at, again, unsent, chan, kill, progress, isIdle, mpc>>

\* Mutant: a killed worker stops before it looks for more work.
RecvKillMutant(w) ==
  /\ wpc[w] \in {"find", "wait"}
  /\ wpc' = [wpc EXCEPT ![w] = "exit"]
  /\ kill[w]
  /\ UNCHANGED <<items, stealers, at, again, unsent, chan, mainVars>>

\* The Kill is the last message of the channel.
RecvKill(w) ==
  /\ Goto(w, "wait", "exit")
  /\ poke[w] = 0 /\ kill[w]
  /\ UNCHANGED <<items, stealers, at, again, unsent, chan, mainVars>>

FindTask(w) == PopLocal(w) \/ StartScan(w) \/ Steal(w) \/ StealGlobal(w)
                 \/ Advance(w) \/ EndScan(w)
DoWork(w) == Jump(w) \/ Monomorphize(w) \/ Collect(w)
Message(w) == SendFinished(w) \/ SendIdle(w) \/ RecvPoke(w) \/ RecvKill(w)
Worker(w) == Register(w) \/ FindTask(w) \/ DoWork(w) \/ Message(w)

-----------------------------------------------------------------------------
(* The main thread, up to its test for completion.  Messages of different  *)
(* workers commute, so only each worker's own order is kept.               *)

Drained == \A w \in Workers : chan[w] = <<>>

\* What main has counted of task t.
Reported(t) == IF t \in DOMAIN progress THEN progress[t] ELSE zero

\* progress.entry(id).or_insert(zero) += frac
AddProgress(t, f) ==
  [u \in DOMAIN progress \cup {t} |->
     IF u # t THEN progress[u] ELSE add_assign(Reported(t), f)]

\* Mutant: only the first Finished of a task counts.
MainRecvMutant(w) ==
  /\ mpc = "recv" /\ chan[w] # <<>>
  /\ LET m == Head(chan[w]) IN
       /\ isIdle' = [isIdle EXCEPT ![w] = m.type = "Idle"]
       /\ progress' = IF m.type = "Idle" \/ m.id \in DOMAIN progress
                        THEN progress ELSE AddProgress(m.id, m.frac)
  /\ chan' = [chan EXCEPT ![w] = Tail(@)]
  /\ UNCHANGED <<items, stealers, wpc, at, again, unsent, poke, kill, mpc>>

\* rx.try_recv() answers Ok.
MainRecv(w) ==
  /\ mpc = "recv" /\ chan[w] # <<>>
  /\ LET m == Head(chan[w]) IN
       /\ isIdle' = [isIdle EXCEPT ![w] = m.type = "Idle"]
       /\ progress' = IF m.type = "Idle" THEN progress ELSE AddProgress(m.id, m.frac)
  /\ chan' = [chan EXCEPT ![w] = Tail(@)]
  /\ UNCHANGED <<items, stealers, wpc, at, again, unsent, poke, kill, mpc>>

\* rx.try_recv() answers Err; then every worker marked idle is poked.
PokeIdle ==
  /\ mpc = "recv" /\ Drained
  /\ poke' = [w \in Workers |-> IF isIdle[w] /\ poke[w] < MaxPokes
                                  THEN poke[w] + 1 ELSE poke[w]]

KillAll == kill' = [w \in Workers |-> TRUE]

AllExited == \A w \in Workers : wpc[w] = "exit"

-----------------------------------------------------------------------------
(* What the pool keeps, whichever main thread it has.                      *)

ItemsOK == items \in [Places -> SUBSET Items]
PcOK == wpc \in [Workers -> {"start", "find", "scan", "run", "report", "idle", "wait", "exit"}]
ExecOK == \A w \in Workers : /\ wpc[w] = "run" <=> items[Exec(w)] # {}
                            /\ \A i, j \in items[Exec(w)] : i = j
ScanOK == /\ stealers \in Seq(Workers)
          /\ at \in [Workers -> Nat \ {0}]
          /\ again \in [Workers -> BOOLEAN]
ChanOK == /\ unsent \in [Workers -> SUBSET Items]
          /\ chan \in [Workers -> Seq(Messages)]
ReportOK == \A w \in Workers :
              /\ wpc[w] = "report" <=> unsent[w] # {}
              /\ \A i, j \in unsent[w] : i = j
              /\ unsent[w] \subseteq items[Collected]
              /\ \A v \in Workers : v # w => unsent[v] \cap unsent[w] = {}

\* The paths of task t that main has not been sent a Finished message for,
\* and the Finished messages of t, by worker and position, it has not read.
Unfinished(t) ==
  {i \in UNION ({items[p] : p \in Pending} \cup {unsent[w] : w \in Workers}) : i.id = t}
Unread(t) ==
  {m \in UNION {{w} \X DOMAIN chan[w] : w \in Workers} :
     chan[m[1]][m[2]].type = "Finished" /\ chan[m[1]][m[2]].id = t}

\* The Fractions of task t that main has not counted.
Shares(t) ==
  [s \in ({"item"} \X Unfinished(t)) \cup ({"sent"} \X Unread(t)) |->
     IF s[1] = "item" THEN s[2].frac ELSE chan[s[2][1]][s[2][2]].frac]

\* What main has counted of task t and what is outstanding is exactly one.
Counted(t) == is_one(add_assign(total(Shares(t)), Reported(t)))

=============================================================================
