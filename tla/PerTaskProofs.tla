---------------------------- MODULE PerTaskProofs ----------------------------
(***************************************************************************)
(* start_multi_per_task calls the spawner of a task on its final results:  *)
(* proofs for any number of workers and of tasks spawned.                  *)
(***************************************************************************)
EXTENDS StartMultiPerTask, PoolProofs

\* Nothing of task t is in the pool, or on its way to main.
Settled(t) == Unfinished(t) = {} /\ Unread(t) = {}

\* Task t has not been seen by the pool.
Fresh(t) == Settled(t) /\ OfTask(t, Collected) = {} /\ t \notin DOMAIN progress

\* Fresh ids have left no trace, tasks in the result map are accounted for,
\* and a task whose spawner was called is counted as whole.
IInv == /\ PoolOK /\ entries \subseteq TaskIds
        /\ \A t \in TaskIds \ entries : Fresh(t)
        /\ \A t \in entries : Balanced(t)
        /\ finished \subseteq entries /\ \A t \in finished : is_one(Reported(t))
        /\ todo \subseteq DOMAIN progress /\ DOMAIN progress \subseteq entries

-----------------------------------------------------------------------------
(* A step of the pool touches only tasks that are in it.                   *)

(* No step brings an item of a task that has none, nor collects one.       *)
LEMMA NoItemsStay ==
  ASSUME NEW t, WorkOK, ScanOK, PoolStep, \A p \in Pending : \A i \in items[p] : i.id # t
  PROVE  /\ \A p \in Pending : \A i \in items'[p] : i.id # t
         /\ \A i : i \in OfTask(t, Collected)' <=> i \in OfTask(t, Collected)
<1> USE DEF OfTask
<1>0. ItemsOK
  BY DEF WorkOK
<1>1. CASE UNCHANGED items
  BY <1>1
<1>2. CASE MoveStep
  <2>1. PICK p, q, r \in Pending : \E S, T \in SUBSET items[p] : Moved(p, q, r, S, T)
    BY <1>2 DEF MoveStep
  <2>2. PICK S, T \in SUBSET items[p] : Moved(p, q, r, S, T)
    BY <2>1
  <2>3. /\ items'[p] = items[p] \ (S \cup T)
        /\ items'[q] = items[q] \cup S /\ items'[r] = items[r] \cup T
        /\ \A a \in Places \ {p, q, r} : items'[a] = items[a]
    BY <2>2, <1>0, PendingFacts DEF Moved, ItemsOK
  <2> QED BY <2>3, PendingFacts
<1>3. CASE ForkStep
  <2>1. PICK w \in Workers : \E i \in items[Exec(w)], k, c \in Items : Forked(w, i, k, c)
    BY <1>3 DEF ForkStep
  <2>2. PICK i \in items[Exec(w)], k \in Items, c \in Items : Forked(w, i, k, c)
    BY <2>1
  <2>3. /\ items'[Exec(w)] = {k} /\ items'[Local(w)] = items[Local(w)] \cup {c}
        /\ \A a \in Places \ {Exec(w), Local(w)} : items'[a] = items[a]
    BY <2>2, <1>0, PlaceFacts DEF Forked, ForkItem, ItemsOK
  <2>4. k.id = i.id /\ c.id = i.id
    BY <2>2 DEF Forked, Branch
  <2> QED BY <2>3, <2>4, PendingFacts, PlaceFacts
<1>4. CASE CollectStep
  <2>1. PICK w \in Workers : \E i \in items[Exec(w)] :
           items' = [items EXCEPT ![Collected] = @ \cup {i}, ![Exec(w)] = {}]
    BY <1>4 DEF CollectStep
  <2>2. PICK i \in items[Exec(w)] :
           items' = [items EXCEPT ![Collected] = @ \cup {i}, ![Exec(w)] = {}]
    BY <2>1
  <2>3. /\ items'[Exec(w)] = {} /\ items'[Collected] = items[Collected] \cup {i}
        /\ \A a \in Pending \ {Exec(w)} : items'[a] = items[a]
    BY <2>2, <1>0, PlaceFacts, PendingFacts DEF ItemsOK
  <2> QED BY <2>3, PendingFacts
<1> QED BY <1>1, <1>2, <1>3, <1>4, ItemSteps

(* What a worker reports it was executing; a message sent is about what it *)
(* reports, and main counts only messages it was sent.                     *)
LEMMA MessageSteps ==
  ASSUME PoolOK, PoolStep
  PROVE  /\ \A v \in Workers : unsent'[v] \subseteq unsent[v] \cup items[Exec(v)]
         /\ \/ UNCHANGED <<chan, progress>>
            \/ \E w \in Workers : Send(w, Idle) /\ UNCHANGED progress
            \/ \E w \in Workers : \E i \in unsent[w] : Send(w, Finished(i)) /\ UNCHANGED progress
            \/ \E w \in Workers : MainRecv(w)
<1>0. unsent \in [Workers -> SUBSET Items]
  BY DEF PoolOK, ChanOK
<1>1. ASSUME NEW w \in Workers, Register(w) \/ FindTask(w) \/ Jump(w) \/ Monomorphize(w)
                                 \/ RecvPoke(w) \/ RecvKill(w)
      PROVE  UNCHANGED <<unsent, chan, progress>>
  BY <1>1 DEF Register, FindTask, PopLocal, StartScan, Steal, StealGlobal, Advance, EndScan, Jump,
              Monomorphize, RecvPoke, RecvKill, mainVars
<1>2. ASSUME NEW w \in Workers, Collect(w)
      PROVE  /\ UNCHANGED <<chan, progress>>
             /\ \A v \in Workers : unsent'[v] \subseteq unsent[v] \cup items[Exec(v)]
  BY <1>0, <1>2 DEF Collect, mainVars
<1>3. ASSUME NEW w \in Workers, SendFinished(w)
      PROVE  /\ \E i \in unsent[w] : Send(w, Finished(i)) /\ UNCHANGED progress
             /\ \A v \in Workers : unsent'[v] \subseteq unsent[v] \cup items[Exec(v)]
  BY <1>0, <1>3 DEF SendFinished, mainVars
<1>4. ASSUME NEW w \in Workers, SendIdle(w)
      PROVE  Send(w, Idle) /\ UNCHANGED <<unsent, progress>>
  BY <1>4 DEF SendIdle, mainVars
<1>5. ASSUME NEW w \in Workers, MainRecv(w) PROVE UNCHANGED unsent
  BY <1>5 DEF MainRecv
<1>6. CASE Quiet
  BY <1>6 DEF Quiet
<1> QED BY <1>1, <1>2, <1>3, <1>4, <1>5, <1>6 DEF PoolStep, Worker, DoWork, Message

(* No message about a task comes from a pool that holds nothing of it, and *)
(* main counts no more of it.                                              *)
LEMMA NoMessagesStay ==
  ASSUME NEW t, PoolOK, PoolStep, Settled(t)
  PROVE  /\ Unread(t)' = {}
         /\ Reported(t)' = Reported(t)
         /\ t \in DOMAIN progress' <=> t \in DOMAIN progress
         /\ DOMAIN progress \subseteq DOMAIN progress'
<1>0. ChanOK /\ Unread(t) = {} /\ unsent \in [Workers -> SUBSET Items]
  BY DEF PoolOK, ChanOK, Settled
<1>1. \A v \in Workers : \A i \in unsent[v] : i.id # t
  BY UnfinishedFacts DEF Settled
<1>2. \A v \in Workers : \A n \in DOMAIN chan[v] : ~(chan[v][n].type = "Finished" /\ chan[v][n].id = t)
  BY <1>0, UnreadFacts
<1>3. ASSUME UNCHANGED progress, UNCHANGED chan
      PROVE  Unread(t)' = {}
  BY <1>3, <1>0 DEF Unread
<1>4. ASSUME NEW w \in Workers, NEW m \in Messages, Send(w, m), ~(m.type = "Finished" /\ m.id = t)
      PROVE  Unread(t)' = {}
  <2>1. \A v \in Workers : \A n \in DOMAIN chan'[v] :
          ~(chan'[v][n].type = "Finished" /\ chan'[v][n].id = t)
    <3> SUFFICES ASSUME NEW v \in Workers, NEW n \in DOMAIN chan'[v]
                 PROVE  ~(chan'[v][n].type = "Finished" /\ chan'[v][n].id = t)
      OBVIOUS
    <3>1. n \in DOMAIN chan[v] \/ (v = w /\ n = Len(chan[w]) + 1)
      BY <1>0, <1>4, SendFacts
    <3>2. CASE n \in DOMAIN chan[v]
      BY <3>2, <1>0, <1>2, <1>4, SendFacts
    <3>3. CASE v = w /\ n = Len(chan[w]) + 1
      BY <3>3, <1>0, <1>4, SendFacts
    <3> QED BY <3>1, <3>2, <3>3
  <2> QED BY <2>1, UnreadFacts
<1>5. ASSUME NEW w \in Workers, MainRecv(w)
      PROVE  /\ Unread(t)' = {} /\ Reported(t)' = Reported(t)
             /\ t \in DOMAIN progress' <=> t \in DOMAIN progress
             /\ DOMAIN progress \subseteq DOMAIN progress'
  <2> DEFINE m == chan[w][1]
  <2>1. /\ 1 \in DOMAIN chan[w] /\ m \in Messages
        /\ progress' = IF m.type = "Idle" THEN progress ELSE AddProgress(m.id, m.frac)
    BY <1>0, <1>5, RecvFacts DEF MainRecv
  <2>2. ~(m.type = "Finished" /\ m.id = t)
    BY <2>1, <1>2
  <2>3. m.type = "Idle" \/ (m.type = "Finished" /\ m.id # t)
    BY <2>1, <2>2 DEF Messages, Idle
  <2> HIDE DEF m
  <2>4. /\ Reported(t)' = Reported(t) /\ (t \in DOMAIN progress' <=> t \in DOMAIN progress)
        /\ DOMAIN progress \subseteq DOMAIN progress'
    BY <2>1, <2>3 DEF AddProgress, Reported
  <2>5. \A v \in Workers : \A n \in DOMAIN chan'[v] :
          ~(chan'[v][n].type = "Finished" /\ chan'[v][n].id = t)
    BY <1>0, <1>2, <1>5, RecvFacts
  <2> QED BY <2>4, <2>5, UnreadFacts
<1>6. Idle \in Messages /\ Idle.type # "Finished"
  BY DEF Idle, Messages
<1>7. ASSUME NEW w \in Workers, NEW i \in unsent[w]
      PROVE  Finished(i) \in Messages /\ Finished(i).id # t
  <2>1. i \in Items /\ i.id # t
    BY <1>0, <1>1
  <2> QED BY <2>1 DEF Finished, Messages, Items
<1>8. UNCHANGED progress => Reported(t)' = Reported(t)
  BY DEF Reported
<1> QED BY <1>3, <1>4, <1>5, <1>6, <1>7, <1>8, MessageSteps

(* A task that is over stays over: its results are final.                  *)
LEMMA SettledStays ==
  ASSUME NEW t, PoolOK, PoolStep, Settled(t)
  PROVE  /\ Settled(t)' /\ OfTask(t, Collected)' = OfTask(t, Collected)
         /\ Reported(t)' = Reported(t) /\ (t \in DOMAIN progress' <=> t \in DOMAIN progress)
<1>0. WorkOK /\ ScanOK
  BY DEF PoolOK
<1>1. /\ \A p \in Pending : \A i \in items[p] : i.id # t
      /\ \A v \in Workers : \A i \in unsent[v] : i.id # t
  BY UnfinishedFacts DEF Settled
<1>2. /\ \A p \in Pending : \A i \in items'[p] : i.id # t
      /\ \A i : i \in OfTask(t, Collected)' <=> i \in OfTask(t, Collected)
  BY <1>0, <1>1, NoItemsStay
<1>3. \A v \in Workers : \A i \in unsent'[v] : i.id # t
  BY <1>1, MessageSteps, PendingFacts
<1>4. Unfinished(t)' = {}
  BY <1>2, <1>3, UnfinishedFacts
<1>5. OfTask(t, Collected)' = OfTask(t, Collected)
  BY <1>2 DEF OfTask
<1> QED BY <1>4, <1>5, NoMessagesStay DEF Settled

(* Main's map only grows, by tasks of the pool.                            *)
LEMMA ProgressGrows ==
  ASSUME PoolOK, PoolStep, DOMAIN progress \subseteq TaskIds
  PROVE  DOMAIN progress \subseteq DOMAIN progress' /\ DOMAIN progress' \subseteq TaskIds
<1>0. ChanOK
  BY DEF PoolOK
<1>1. ASSUME NEW w \in Workers, MainRecv(w)
      PROVE  DOMAIN progress \subseteq DOMAIN progress' /\ DOMAIN progress' \subseteq TaskIds
  <2> DEFINE m == chan[w][1]
  <2>1. /\ m \in Messages
        /\ progress' = IF m.type = "Idle" THEN progress ELSE AddProgress(m.id, m.frac)
    BY <1>0, <1>1, RecvFacts DEF MainRecv
  <2>2. m.type = "Idle" \/ m.id \in TaskIds
    BY <2>1 DEF Messages, Idle
  <2> HIDE DEF m
  <2> QED BY <2>1, <2>2 DEF AddProgress
<1> QED BY <1>1, MessageSteps

-----------------------------------------------------------------------------
(* The spawner.                                                            *)

\* What Spawn(t) does to the state when the spawner returns the tasks new.
Spawned(t, new) ==
  /\ t \in todo /\ is_one(progress[t])
  /\ new \subseteq TaskIds \ entries
  /\ entries' = entries \cup new
  /\ items' = [items EXCEPT ![Global] = @ \cup {NewTask(n) : n \in new}]
  /\ finished' = finished \cup {t} /\ todo' \subseteq todo
  /\ UNCHANGED <<stealers, wpc, at, again, unsent, chan, progress>>

(* The rounds of main are steps of the pool that leave the results alone,  *)
(* but for the spawner's.                                                  *)
LEMMA StepsOfPool ==
  ASSUME [Next]_vars
  PROVE  \/ /\ PoolStep /\ UNCHANGED <<entries, finished>>
            /\ todo' \subseteq todo \cup DOMAIN progress
         \/ \E t \in TaskIds, new \in SUBSET (TaskIds \ entries) : Spawned(t, new)
<1>1. ASSUME NEW t \in TaskIds, Spawn(t)
      PROVE  \E new \in SUBSET (TaskIds \ entries) : Spawned(t, new)
  BY <1>1 DEF Spawn, Spawned
<1>2. CASE MainReceive \/ \E w \in Workers : LockedWork(w) \/ ReportAndUnlock(w) \/ OtherWorkerStep(w)
  BY <1>2 DEF MainReceive, LockedWork, ReportAndUnlock, OtherWorkerStep, PoolStep, Worker, Message,
              checkVars
<1>3. CASE \/ StartCheck \/ EndCheck \/ Joined \/ UNCHANGED vars
           \/ \E t \in TaskIds : CheckTask(t)
           \/ \E w \in Workers : LockResults(w)
  BY <1>3 DEF StartCheck, EndCheck, Joined, CheckTask, LockResults, PoolStep, Quiet, poolVars,
              checkVars, vars
<1> QED BY <1>1, <1>2, <1>3 DEF Next, PerTaskMain, PerTaskWorker

(* What is new in the pool is a whole task with an id of its own.          *)
LEMMA SpawnedItems ==
  ASSUME IInv, NEW t \in TaskIds, NEW new \in SUBSET (TaskIds \ entries), Spawned(t, new)
  PROVE  /\ \A p \in Places \ {Global} : items'[p] = items[p]
         /\ items'[Global] = items[Global] \cup {NewTask(n) : n \in new}
         /\ \A n \in new : NewTask(n) \in Items /\ NewTask(n).id = n
         /\ \A p \in Places : \A i \in items[p] : i.id \notin new
<1>1. ItemsOK /\ \A n \in new : Fresh(n)
  BY DEF IInv, PoolOK, WorkOK
<1>2. /\ \A p \in Places \ {Global} : items'[p] = items[p]
      /\ items'[Global] = items[Global] \cup {NewTask(n) : n \in new}
  BY <1>1, PlaceFacts DEF Spawned, ItemsOK
<1>3. \A n \in new : NewTask(n) \in Items /\ NewTask(n).id = n
  BY DEF NewTask, Items, one
<1>4. ASSUME NEW p \in Places, NEW i \in items[p], i.id \in new PROVE FALSE
  <2>1. Fresh(i.id)
    BY <1>1, <1>4
  <2>2. CASE p = Collected
    BY <2>1, <2>2 DEF Fresh, OfTask
  <2>3. CASE p \in Pending
    BY <2>1, <2>3, UnfinishedFacts DEF Fresh, Settled
  <2> QED BY <2>2, <2>3, PendingFacts
<1> QED BY <1>2, <1>3, <1>4

(* Spawning keeps the pool in order: the new tasks have no copy in it.     *)
LEMMA SpawnKeepsPool ==
  ASSUME IInv, NEW t \in TaskIds, NEW new \in SUBSET (TaskIds \ entries), Spawned(t, new)
  PROVE  PoolOK'
<1>0. /\ ItemsOK /\ PcOK /\ ExecOK /\ ScanOK /\ ChanOK /\ ReportOK /\ PathsDistinct
      /\ UNCHANGED <<stealers, wpc, at, again, unsent, chan>>
  BY DEF IInv, PoolOK, WorkOK, Spawned
<1>1. /\ \A p \in Places \ {Global} : items'[p] = items[p]
      /\ items'[Global] = items[Global] \cup {NewTask(n) : n \in new}
      /\ \A n \in new : NewTask(n) \in Items /\ NewTask(n).id = n
      /\ \A p \in Places : \A i \in items[p] : i.id \notin new
  BY SpawnedItems
<1>2. ItemsOK'
  <2>1. {NewTask(n) : n \in new} \subseteq Items
    BY <1>1
  <2> QED BY <1>0, <2>1, PlaceFacts DEF ItemsOK, Spawned
<1>3. PcOK' /\ ExecOK' /\ ScanOK' /\ ChanOK' /\ ReportOK'
  <2>1. \A w \in Workers : items'[Exec(w)] = items[Exec(w)]
    BY <1>1, PlaceFacts
  <2>2. items'[Collected] = items[Collected]
    BY <1>1, PlaceFacts
  <2>3. PcOK' /\ ExecOK'
    BY <1>0, <2>1 DEF PcOK, ExecOK
  <2>4. ScanOK' /\ ChanOK'
    BY <1>0 DEF ScanOK, ChanOK
  <2>5. ReportOK'
    BY <1>0, <2>2 DEF ReportOK
  <2> QED BY <2>3, <2>4, <2>5
<1>4. PathsDistinct'
  <2>1. \A p \in Places : \A i \in items'[p] :
          i \in items[p] \/ (p = Global /\ i.id \in new /\ i = NewTask(i.id))
    BY <1>1
  <2> QED BY <2>1, <1>0, <1>1 DEF PathsDistinct
<1> QED BY <1>2, <1>3, <1>4 DEF PoolOK, WorkOK

(* A new task is whole after the step as well.                             *)
LEMMA NewTaskBalanced ==
  ASSUME NEW t
  PROVE  ItemsOK /\ ChanOK /\ Unfinished(t) = {NewTask(t)} /\ Unread(t) = {} /\ Reported(t) = zero
           => Balanced(t)
BY NewTaskBalance

LEMMA NewTaskBalancedNext ==
  ASSUME NEW t, ItemsOK', ChanOK', Unfinished(t)' = {NewTask(t)}, Unread(t)' = {}, Reported(t)' = zero
  PROVE  Balanced(t)'
<1>1. (ItemsOK /\ ChanOK /\ Unfinished(t) = {NewTask(t)} /\ Unread(t) = {} /\ Reported(t) = zero
         => Balanced(t))'
  BY NewTaskBalanced, PTL
<1> QED BY <1>1 DEF NewTask

(* Spawning changes nothing of the other tasks, and adds whole ones.       *)
LEMMA SpawnKeepsTasks ==
  ASSUME IInv, NEW t \in TaskIds, NEW new \in SUBSET (TaskIds \ entries), Spawned(t, new)
  PROVE  /\ \A u \in TaskIds \ entries' : Fresh(u)'
         /\ \A u \in entries' : Balanced(u)'
         /\ \A u : OfTask(u, Collected)' = OfTask(u, Collected)
<1>0. UNCHANGED <<unsent, chan, progress>> /\ entries' = entries \cup new /\ ItemsOK' /\ ChanOK'
  BY SpawnKeepsPool DEF Spawned, PoolOK, WorkOK
<1>1. /\ \A p \in Places \ {Global} : items'[p] = items[p]
      /\ items'[Global] = items[Global] \cup {NewTask(n) : n \in new}
      /\ \A n \in new : NewTask(n).id = n
  BY SpawnedItems
<1>2. \A u : Unread(u)' = Unread(u) /\ Reported(u)' = Reported(u)
  BY <1>0 DEF Unread, Reported
<1>3. \A u : OfTask(u, Collected)' = OfTask(u, Collected)
  BY <1>1, PlaceFacts DEF OfTask
<1>4. ASSUME NEW u, u \notin new PROVE Unfinished(u)' = Unfinished(u)
  <2>1. \A i : i \in Unfinished(u)' <=> i \in Unfinished(u)
    BY <1>0, <1>1, <1>4, UnfinishedFacts, PendingFacts
  <2> QED BY <2>1 DEF Unfinished
<1>5. ASSUME NEW u \in TaskIds \ entries' PROVE Fresh(u)'
  <2>1. Fresh(u) /\ u \notin new
    BY <1>0 DEF IInv
  <2> QED BY <2>1, <1>0, <1>2, <1>3, <1>4 DEF Fresh, Settled
<1>6. ASSUME NEW u \in new PROVE Balanced(u)'
  <2>1. Fresh(u)
    BY DEF IInv
  <2>2. Unfinished(u) = {} /\ Unread(u) = {} /\ Reported(u) = zero
    BY <2>1 DEF Fresh, Settled, Reported
  <2>3. \A i : i \in Unfinished(u)' <=> i = NewTask(u)
    BY <2>2, <1>0, <1>1, UnfinishedFacts, PendingFacts
  <2>4. Unfinished(u)' = {NewTask(u)}
    BY <2>3
  <2> QED BY <2>2, <2>4, <1>0, <1>2, NewTaskBalancedNext
<1>7. ASSUME NEW u \in entries PROVE Balanced(u)'
  <2>1. u \notin new /\ Balanced(u)
    BY DEF IInv
  <2>2. Shares(u)' = Shares(u)
    BY <2>1, <1>0, <1>4, SameShares
  <2> QED BY <2>1, <2>2, <1>2 DEF Balanced
<1> QED BY <1>0, <1>3, <1>5, <1>6, <1>7

-----------------------------------------------------------------------------
(* The invariant, and what it says of a finished task.                     *)

(* Nothing of a task whose spawner was called is left in the pool.         *)
LEMMA FinishedIsSettled == ASSUME IInv, NEW t \in finished PROVE Settled(t)
BY NothingLeft DEF IInv, Settled

LEMMA InvInit == Init => IInv
<1> SUFFICES ASSUME Init PROVE IInv
  OBVIOUS
<1>1. PoolOK /\ \A t \in InitialTasks : Balanced(t)
  BY PoolInitOK, TasksAssumption DEF Init
<1>2. entries = InitialTasks /\ finished = {} /\ todo = {} /\ DOMAIN progress = {}
  BY DEF Init, PoolInit
<1>3. ASSUME NEW t \in TaskIds \ entries PROVE Fresh(t)
  <2>1. /\ items[Global] = {NewTask(u) : u \in InitialTasks}
        /\ \A p \in Places \ {Global} : items[p] = {}
        /\ \A v \in Workers : unsent[v] = {} /\ DOMAIN chan[v] = {}
    BY PlaceFacts DEF Init, PoolInit
  <2>2. \A i : i \notin Unfinished(t)
    BY <1>2, <1>3, <2>1, UnfinishedFacts, PendingFacts DEF NewTask
  <2>3. Unread(t) = {}
    BY <2>1, UnreadFacts
  <2>4. OfTask(t, Collected) = {}
    BY <2>1, PlaceFacts DEF OfTask
  <2> QED BY <1>2, <2>2, <2>3, <2>4 DEF Fresh, Settled
<1> QED BY <1>1, <1>2, <1>3, TasksAssumption DEF IInv

LEMMA InvStep == IInv /\ [Next]_vars => IInv'
<1> SUFFICES ASSUME IInv, [Next]_vars PROVE IInv'
  OBVIOUS
<1>0. PoolOK /\ entries \subseteq TaskIds /\ DOMAIN progress \subseteq entries
  BY DEF IInv
<1>1. CASE /\ PoolStep /\ UNCHANGED <<entries, finished>>
           /\ todo' \subseteq todo \cup DOMAIN progress
  <2>1. PoolOK' /\ \A t \in entries' : Balanced(t)'
    BY <1>0, <1>1, PoolKeeps, BalanceStep DEF IInv
  <2>2. ASSUME NEW t \in TaskIds \ entries PROVE Fresh(t)'
    <3>1. Fresh(t)
      BY DEF IInv
    <3>2. /\ Settled(t)' /\ OfTask(t, Collected)' = OfTask(t, Collected)
          /\ t \in DOMAIN progress' <=> t \in DOMAIN progress
      BY <3>1, <1>0, <1>1, SettledStays DEF Fresh
    <3> QED BY <3>1, <3>2 DEF Fresh
  <2>3. ASSUME NEW t \in finished PROVE is_one(Reported(t)')
    BY <1>0, <1>1, FinishedIsSettled, SettledStays DEF IInv
  <2>4. DOMAIN progress \subseteq DOMAIN progress' /\ DOMAIN progress' \subseteq entries
    BY <1>0, <1>1, <2>2, ProgressGrows DEF Fresh
  <2>5. todo' \subseteq DOMAIN progress'
    BY <1>1, <2>4 DEF IInv
  <2>6. \A t \in finished' : is_one(Reported(t))'
    BY <2>3, <1>1 DEF is_one
  <2> QED BY <1>0, <1>1, <2>1, <2>2, <2>4, <2>5, <2>6 DEF IInv
<1>2. ASSUME NEW t \in TaskIds, NEW new \in SUBSET (TaskIds \ entries), Spawned(t, new)
      PROVE  IInv'
  <2>1. PoolOK'
    BY <1>2, SpawnKeepsPool
  <2>2. (\A u \in TaskIds \ entries' : Fresh(u)') /\ (\A u \in entries' : Balanced(u)')
    BY <1>2, SpawnKeepsTasks
  <2>3. /\ t \in todo /\ is_one(progress[t]) /\ finished' = finished \cup {t}
        /\ todo' \subseteq todo /\ entries' = entries \cup new /\ UNCHANGED progress
    BY <1>2 DEF Spawned
  <2>4. t \in DOMAIN progress /\ t \in entries /\ Reported(t) = progress[t]
    BY <2>3 DEF IInv, Reported
  <2>5. \A u : Reported(u)' = Reported(u)
    BY <2>3 DEF Reported
  <2>6. \A u \in finished' : is_one(Reported(u))'
    BY <2>3, <2>4, <2>5 DEF IInv, is_one
  <2> QED BY <1>0, <2>1, <2>2, <2>3, <2>4, <2>6 DEF IInv
<1> QED BY <1>1, <1>2, StepsOfPool

(* start_multi_per_task: when main calls the spawner of a task, its paths  *)
(* have all been collected, and none is added later, whatever tasks the    *)
(* spawner adds and however the workers interleave.                        *)
THEOREM FinalCorrect == Spec => ResultsAreFinal
<1> DEFINE Final == \A t \in finished :
                      /\ \A p \in Pending : OfTask(t, p) = {}
                      /\ OfTask(t, Collected)' = OfTask(t, Collected)
<1>1. ASSUME IInv, [Next]_vars PROVE Final
  <2> SUFFICES ASSUME NEW t \in finished
               PROVE  /\ \A p \in Pending : OfTask(t, p) = {}
                      /\ OfTask(t, Collected)' = OfTask(t, Collected)
    OBVIOUS
  <2>1. Settled(t) /\ PoolOK
    BY <1>1, FinishedIsSettled DEF IInv
  <2>2. \A p \in Pending : OfTask(t, p) = {}
    BY <2>1, UnfinishedFacts DEF Settled, OfTask
  <2>3. OfTask(t, Collected)' = OfTask(t, Collected)
    BY <1>1, <2>1, StepsOfPool, SettledStays, SpawnKeepsTasks
  <2> QED BY <2>2, <2>3
<1>2. IInv /\ [Next]_vars => [Final]_vars
  BY <1>1
<1> QED BY <1>2, InvInit, InvStep, PTL DEF Spec, ResultsAreFinal

=============================================================================
