------------------------- MODULE StartMultiPerTask --------------------------
(***************************************************************************)
(* executor::start_multi_per_task: the pool of start_multi, with a result  *)
(* per task, kept in a map behind the RwLock `collected_lock`, and a       *)
(* spawner that main calls for each task it counts as finished and that    *)
(* may return new tasks.                                                   *)
(*                                                                         *)
(* What the spawner returns depends on the task's results, which are       *)
(* abstracted away: it may return any set of tasks with fresh ids.  The    *)
(* parent/child links that main stores for the client are left out.        *)
(***************************************************************************)
EXTENDS WorkerPool

CONSTANT InitialTasks   \* the TaskIds start_multi_per_task is called with

ASSUME TasksAssumption == InitialTasks \subseteq TaskIds

VARIABLES
  entries,    \* TaskIds with an entry in the result map
  finished,   \* TaskIds whose spawner was called
  readers,    \* workers holding the read lock on the result map
  todo,       \* TaskIds of this round of main's loop over `progress`
  complete    \* all_tasks_complete

vars == <<poolVars, entries, finished, readers, todo, complete>>
checkVars == <<entries, finished, todo, complete>>

Init ==
  /\ PoolInit(InitialTasks)
  /\ entries = InitialTasks
  /\ finished = {} /\ readers = {} /\ todo = {} /\ complete = TRUE

\* collected_lock.read(), between find_task and do_work.
LockResults(w) ==
  /\ wpc[w] = "run" /\ w \notin readers
  /\ readers' = readers \cup {w}
  /\ UNCHANGED <<poolVars, checkVars>>

LockedWork(w) == w \in readers /\ DoWork(w) /\ UNCHANGED <<readers, checkVars>>

\* The guard is dropped at the end of the loop body, after the send.
ReportAndUnlock(w) ==
  /\ SendFinished(w)
  /\ readers' = readers \ {w}
  /\ UNCHANGED checkVars

OtherWorkerStep(w) ==
  /\ Register(w) \/ FindTask(w) \/ SendIdle(w) \/ RecvPoke(w) \/ RecvKill(w)
  /\ UNCHANGED <<readers, checkVars>>

PerTaskWorker(w) ==
  LockResults(w) \/ LockedWork(w) \/ ReportAndUnlock(w) \/ OtherWorkerStep(w)

MainReceive ==
  /\ \E w \in Workers : MainRecv(w)
  /\ UNCHANGED <<readers, checkVars>>

StartCheck ==
  /\ PokeIdle
  /\ mpc' = "check" /\ todo' = DOMAIN progress /\ complete' = TRUE
  /\ UNCHANGED <<items, stealers, wpc, at, again, unsent, chan, kill, progress,
                 isIdle, entries, finished, readers>>

\* A task newly complete: take the write lock, spawn, queue the new tasks.
Spawn(t) ==
  /\ mpc = "check" /\ t \in todo
  /\ is_one(progress[t]) /\ t \notin finished /\ readers = {}
  /\ \E new \in SUBSET (TaskIds \ entries) :
       /\ entries' = entries \cup new
       /\ items' = [items EXCEPT ![Global] = @ \cup {NewTask(n) : n \in new}]
       /\ complete' = (complete /\ new = {})
  /\ finished' = finished \cup {t}
  /\ todo' = todo \ {t}
  /\ UNCHANGED <<stealers, wpc, at, again, unsent, chan, poke, kill, progress,
                 isIdle, mpc, readers>>

CheckTask(t) ==
  /\ mpc = "check" /\ t \in todo
  /\ is_one(progress[t]) => t \in finished
  /\ complete' = (complete /\ is_one(progress[t]))
  /\ todo' = todo \ {t}
  /\ UNCHANGED <<poolVars, entries, finished, readers>>

EndCheck ==
  /\ mpc = "check" /\ todo = {}
  /\ IF complete THEN mpc' = "done" /\ KillAll ELSE mpc' = "recv" /\ UNCHANGED kill
  /\ UNCHANGED <<items, stealers, wpc, at, again, unsent, chan, poke, progress,
                 isIdle, checkVars, readers>>

PerTaskMain == MainReceive \/ StartCheck \/ EndCheck
                 \/ \E t \in TaskIds : Spawn(t) \/ CheckTask(t)

Joined == mpc = "done" /\ AllExited /\ UNCHANGED vars

Next == PerTaskMain \/ (\E w \in Workers : PerTaskWorker(w)) \/ Joined

(* As in start_multi; and main, which waits for the write lock of the      *)
(* result map while workers take and drop the read lock, gets it.          *)
Fairness ==
  /\ WF_vars(PerTaskMain) /\ \A t \in TaskIds : SF_vars(Spawn(t))
  /\ \A w \in Workers :
       /\ WF_vars(LockResults(w)) /\ WF_vars(ReportAndUnlock(w))
       /\ WF_vars(OtherWorkerStep(w)) /\ WF_vars(LockedWork(w) /\ wpc'[w] = "report")
       /\ SF_vars(OtherWorkerStep(w) /\ wpc[w] \in {"scan", "start"} /\ wpc'[w] \in {"run", "find"})

Spec == Init /\ [][Next]_vars

FairSpec == Spec /\ Fairness

-----------------------------------------------------------------------------
OfTask(t, p) == {i \in items[p] : i.id = t}

(* The spawner sees the complete results of a task: once it was called for *)
(* the task, no path of it is in the pool and none is collected any more.  *)
ResultsAreFinal ==
  [][\A t \in finished :
       /\ \A p \in Pending : OfTask(t, p) = {}
       /\ OfTask(t, Collected)' = OfTask(t, Collected)]_vars

(* Whatever the spawner adds, every worker is told to leave and does, and  *)
(* neither the lock on the results nor a lost wake-up keeps the call from  *)
(* returning.                                                              *)
Termination == <>(mpc = "done" /\ AllExited)

(* "collecting a separate result for each task": when the call returns, the*)
(* result of every task in the map holds every path of that task.          *)
EveryTaskCollected ==
  mpc = "done" /\ AllExited =>
    \A t \in entries, x \in Inputs :
      \E i \in items[Collected] : i.id = t /\ x \in i.models

=============================================================================
