----------------------------- MODULE StartMulti -----------------------------
(***************************************************************************)
(* executor::start_multi: a pool of workers that executes a set of tasks   *)
(* and everything they fork, and a main thread that wakes idle workers and *)
(* kills the pool when the Fractions it was told of add up to one.         *)
(***************************************************************************)
EXTENDS WorkerPool

Init == PoolInit(TaskIds)

all_tasks_complete == \A t \in DOMAIN progress : is_one(progress[t])

\* The rest of one round of main's loop: wake idle workers, then send Kill to
\* every worker and leave, or sleep and start over.
MainRound ==
  /\ PokeIdle
  /\ IF all_tasks_complete THEN mpc' = "done" /\ KillAll ELSE UNCHANGED <<mpc, kill>>
  /\ UNCHANGED <<items, stealers, wpc, at, again, unsent, chan, progress, isIdle>>

Main == MainRound \/ \E w \in Workers : MainRecv(w)

\* The scope joins the workers: nothing happens once all have left.
Joined == mpc = "done" /\ AllExited /\ UNCHANGED poolVars

Next == Main \/ (\E w \in Workers : Worker(w)) \/ Joined

(* Threads are scheduled and run_loop returns.  A steal that keeps losing  *)
(* races needs another worker to make progress each time, and a writer     *)
(* gets its turn at the lock: both are strong fairness.                    *)
Fairness ==
  /\ WF_poolVars(Main)
  /\ \A w \in Workers :
       /\ WF_poolVars(FindTask(w)) /\ WF_poolVars(Collect(w)) /\ WF_poolVars(Message(w))
       /\ SF_poolVars(Steal(w)) /\ SF_poolVars(StealGlobal(w)) /\ SF_poolVars(Register(w))

Spec == Init /\ [][Next]_poolVars

FairSpec == Spec /\ Fairness

-----------------------------------------------------------------------------
(* Properties                                                              *)

MainOK == /\ poke \in [Workers -> 0..MaxPokes]
          /\ kill \in [Workers -> BOOLEAN]
          /\ isIdle \in [Workers -> BOOLEAN]
          /\ DOMAIN progress \subseteq TaskIds
          /\ mpc \in {"recv", "done"}

(* Every variable keeps its type; a worker executes exactly one item while *)
(* it runs and none otherwise (do_work takes a single task), and reports   *)
(* only what it alone collected.                                           *)
TypeOK == ItemsOK /\ PcOK /\ ExecOK /\ ScanOK /\ ChanOK /\ ReportOK /\ MainOK

Holds(p, i, t, x) == i \in items[p] /\ i.id = t /\ x \in i.models

(* However workers fork, steal and race, the paths partition the inputs of *)
(* each task: every input is on exactly one item, in exactly one place.    *)
(* (Fork conditions, steals and batches of run_loop and find_task.)        *)
PathsPartition ==
  \A t \in TaskIds, x \in Inputs :
    /\ \E p \in Places : \E i \in items[p] : Holds(p, i, t, x)
    /\ \A p, q \in Places : \A i \in items[p], j \in items[q] :
         Holds(p, i, t, x) /\ Holds(q, j, t, x) => p = q /\ i = j

(* The Kill may come at any time, early ones included: once every worker   *)
(* has left, each input of each task was collected.                        *)
NoLostWork ==
  AllExited => /\ \A p \in Pending : items[p] = {}
               /\ \A t \in TaskIds, x \in Inputs :
                    \E i \in items[Collected] : Holds(Collected, i, t, x)

\* A worker that reports None, or is about to, has tried every queue.
NoneFound(w) == \/ wpc[w] \in {"idle", "wait", "exit"}
                \/ wpc[w] = "scan" /\ at[w] = Len(stealers) + 2 /\ ~again[w]

(* A worker that goes idle, or leaves, leaves no work that only it could   *)
(* find: its own queue and the global queue are empty for good (find_task).*)
IdleIsDrained ==
  \A w \in Workers :
    /\ wpc[w] \in {"scan", "idle", "wait", "exit"} => items[Local(w)] = {}
    /\ NoneFound(w) => items[Global] = {}

(* No fork, steal, message or sum creates or loses a part of a task: what  *)
(* main has counted and what is outstanding is exactly one.                *)
ProgressConserved == \A t \in TaskIds : Counted(t)

(* When main counts a task as complete (frac.is_one), every path of it has *)
(* been collected: the count never runs ahead of the results.              *)
CompleteIsCollected ==
  \A t \in DOMAIN progress :
    is_one(progress[t]) =>
      \A p \in Pending : \A i \in items[p] : i.id # t

(* Every worker is eventually told to leave and does: start_multi returns. *)
Termination == <>(mpc = "done" /\ AllExited)

Cover == INSTANCE PathCover WITH
  Initial <- {NewTask(t) : t \in TaskIds},
  pending <- UNION {items[p] : p \in Pending},
  done <- items[Collected]

(* However many workers execute the tasks, each step of the pool splits a  *)
(* path in two, hands one in, or only moves paths: the pool implements     *)
(* PathCover, as run_loop does on one thread.                              *)
CoversPaths == Cover!Spec

=============================================================================
