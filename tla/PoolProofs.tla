----------------------------- MODULE PoolProofs -----------------------------
(***************************************************************************)
(* What the steps of the pool keep, whichever main thread it has: the      *)
(* types, that no path is executed twice, and that the Fractions of a task *)
(* add up to one.                                                          *)
(***************************************************************************)
EXTENDS WorkerPool, PathLemmas

WorkOK == ItemsOK /\ PcOK /\ ExecOK

(* No path is executed twice, not even one without inputs: an item is in   *)
(* one place, and no item continues a path that is another item's.         *)
(* (Frozen tasks, batches and steals each hand on the only copy.)          *)
PathsDistinct ==
  \A p, q \in Places : \A i \in items[p], j \in items[q] :
    i.id = j.id => (p = q /\ i = j) \/ Diverge(i.path, j.path)

PoolOK == WorkOK /\ ScanOK /\ ChanOK /\ ReportOK /\ PathsDistinct

\* Nothing that the workers and the progress map hold changes.
Quiet == UNCHANGED <<items, stealers, wpc, at, again, unsent, chan, progress>>

PoolStep == Quiet \/ \E w \in Workers : Worker(w) \/ MainRecv(w)

(* The places of different workers, and the four kinds of place, are       *)
(* distinct.                                                               *)
LEMMA PlaceFacts ==
  /\ Global \in Places /\ Collected \in Places /\ Global # Collected
  /\ \A w \in Workers : /\ Local(w) \in Places /\ Exec(w) \in Places
                        /\ Local(w) # Global /\ Local(w) # Collected
                        /\ Exec(w) # Global /\ Exec(w) # Collected
  /\ \A v, w \in Workers : /\ Local(v) # Exec(w)
                           /\ Local(v) = Local(w) => v = w
                           /\ Exec(v) = Exec(w) => v = w
  /\ \A p \in Places : \/ p = Global \/ p = Collected
                       \/ \E w \in Workers : p = Local(w) \/ p = Exec(w)
BY DEF Places, Global, Collected, Local, Exec

(* Every place but the collector's is pending.                             *)
LEMMA PendingFacts ==
  /\ Global \in Pending /\ Collected \notin Pending
  /\ \A w \in Workers : Local(w) \in Pending /\ Exec(w) \in Pending
  /\ Pending \subseteq Places /\ Places = Pending \cup {Collected}
BY PlaceFacts DEF Pending

-----------------------------------------------------------------------------
(* Types.                                                                  *)

(* A step outside do_work that moves no item keeps the types of the items. *)
LEMMA PcType ==
  ASSUME WorkOK, NEW w \in Workers, wpc[w] # "run", UNCHANGED items,
         NEW x \in {"start", "find", "scan", "report", "idle", "wait", "exit"},
         wpc' = [wpc EXCEPT ![w] = x]
  PROVE  WorkOK'
BY DEF WorkOK, ItemsOK, PcOK, ExecOK

(* Moving items between queues, one of them to an idle worker, keeps types.*)
LEMMA TakeType ==
  ASSUME WorkOK, NEW w \in Workers, NEW from \in Places,
         \A v \in Workers : from # Exec(v),
         wpc[w] # "run", wpc' = [wpc EXCEPT ![w] = "run"],
         NEW i \in items[from], Take(w, from, i)
  PROVE  WorkOK'
<1>1. items' = [items EXCEPT ![from] = items[from] \ {i}, ![Exec(w)] = {i}]
  BY DEF Take
<1>2. Exec(w) \in Places /\ \A v \in Workers \ {w} : Exec(v) # Exec(w) /\ Exec(v) \in Places
  BY PlaceFacts
<1>3. i \in Items
  BY DEF WorkOK, ItemsOK
<1>4. ItemsOK'
  BY <1>1, <1>2, <1>3 DEF WorkOK, ItemsOK
<1>5. /\ items'[Exec(w)] = {i}
      /\ \A v \in Workers \ {w} : items'[Exec(v)] = items[Exec(v)]
  BY <1>1, <1>2 DEF WorkOK, ItemsOK
<1>6. PcOK'
  BY DEF WorkOK, PcOK
<1>7. ExecOK'
  BY <1>5 DEF WorkOK, PcOK, ExecOK
<1> QED BY <1>4, <1>6, <1>7 DEF WorkOK

(* steal_batch_and_pop keeps types.                                        *)
LEMMA StealGlobalType ==
  ASSUME WorkOK, NEW w \in Workers, StealGlobal(w)
  PROVE  WorkOK'
<1>a. PICK i \in items[Global] : \E batch \in SUBSET (items[Global] \ {i}) :
        items' = [items EXCEPT ![Global] = @ \ (batch \cup {i}),
                               ![Local(w)] = @ \cup batch,
                               ![Exec(w)] = {i}]
  BY DEF StealGlobal
<1>1. PICK batch \in SUBSET (items[Global] \ {i}) :
        items' = [items EXCEPT ![Global] = @ \ (batch \cup {i}),
                               ![Local(w)] = @ \cup batch,
                               ![Exec(w)] = {i}]
  BY <1>a
<1>2. wpc[w] = "scan" /\ wpc' = [wpc EXCEPT ![w] = "run"]
  BY DEF StealGlobal, Goto
<1>3. /\ Exec(w) \in Places /\ Local(w) \in Places /\ Global \in Places
      /\ Exec(w) # Global /\ Local(w) # Global /\ Local(w) # Exec(w)
      /\ \A v \in Workers \ {w} : /\ Exec(v) # Exec(w) /\ Exec(v) # Local(w)
                                  /\ Exec(v) # Global /\ Exec(v) \in Places
  BY PlaceFacts
<1>4. ItemsOK'
  BY <1>1, <1>3 DEF WorkOK, ItemsOK
<1>5. /\ items'[Exec(w)] = {i}
      /\ \A v \in Workers \ {w} : items'[Exec(v)] = items[Exec(v)]
  BY <1>1, <1>3 DEF WorkOK, ItemsOK
<1>6. PcOK' /\ ExecOK'
  BY <1>2, <1>5 DEF WorkOK, PcOK, ExecOK
<1> QED BY <1>4, <1>6 DEF WorkOK

(* A fork keeps the types, and both branches get a positive Fraction.      *)
LEMMA ForkType ==
  ASSUME WorkOK, NEW w \in Workers, wpc[w] = "run", UNCHANGED wpc,
         NEW i \in items[Exec(w)], NEW f \in PosFraction, NEW g \in PosFraction,
         NEW b \in SUBSET i.models,
         ForkItem(w, Branch(i, 0, b, f), Branch(i, 1, i.models \ b, g))
  PROVE  WorkOK'
<1> DEFINE k == Branch(i, 0, b, f)
           c == Branch(i, 1, i.models \ b, g)
<1>1. Exec(w) \in Places /\ Local(w) \in Places /\ Exec(w) # Local(w)
  BY PlaceFacts
<1>2. i \in Items
  BY <1>1 DEF WorkOK, ItemsOK
<1>3. /\ i.id \in TaskIds /\ i.models \subseteq Inputs
      /\ Append(i.path, 0) \in Seq({0, 1}) /\ Append(i.path, 1) \in Seq({0, 1})
  BY <1>2 DEF Items
<1>4. k \in Items /\ c \in Items
  BY <1>3 DEF Branch, Items, PosFraction
<1> HIDE DEF k, c
<1>5. items' = [items EXCEPT ![Exec(w)] = {k}, ![Local(w)] = items[Local(w)] \cup {c}]
  BY DEF ForkItem, k, c
<1>6. ItemsOK'
  BY <1>1, <1>4, <1>5 DEF WorkOK, ItemsOK
<1>7. \A v \in Workers \ {w} : Exec(v) # Exec(w) /\ Exec(v) # Local(w) /\ Exec(v) \in Places
  BY PlaceFacts
<1>8. /\ items'[Exec(w)] = {k}
      /\ \A v \in Workers \ {w} : items'[Exec(v)] = items[Exec(v)]
  BY <1>1, <1>5, <1>7 DEF WorkOK, ItemsOK
<1>9. ExecOK'
  BY <1>8 DEF WorkOK, PcOK, ExecOK
<1> QED BY <1>6, <1>9 DEF WorkOK, PcOK

(* Collecting keeps types.                                                 *)
LEMMA CollectType ==
  ASSUME WorkOK, NEW w \in Workers, Collect(w)
  PROVE  WorkOK'
<1>1. /\ wpc' = [wpc EXCEPT ![w] = "report"]
      /\ items' = [items EXCEPT ![Collected] = @ \cup items[Exec(w)], ![Exec(w)] = {}]
  BY DEF Collect, Goto
<1>2. /\ Exec(w) \in Places /\ Collected \in Places /\ Collected # Exec(w)
      /\ \A v \in Workers \ {w} : Exec(v) # Exec(w) /\ Exec(v) # Collected /\ Exec(v) \in Places
  BY PlaceFacts
<1>3. ItemsOK'
  BY <1>1, <1>2 DEF WorkOK, ItemsOK
<1>4. /\ items'[Exec(w)] = {}
      /\ \A v \in Workers \ {w} : items'[Exec(v)] = items[Exec(v)]
  BY <1>1, <1>2 DEF WorkOK, ItemsOK
<1>5. PcOK' /\ ExecOK'
  BY <1>1, <1>4 DEF WorkOK, PcOK, ExecOK
<1> QED BY <1>3, <1>5 DEF WorkOK

(* What a worker forks: two items that share the inputs and the Fraction   *)
(* of the one it runs.                                                     *)
LEMMA ForkParts ==
  ASSUME ItemsOK, NEW w \in Workers, Jump(w) \/ Monomorphize(w)
  PROVE  /\ wpc[w] = "run" /\ UNCHANGED <<stealers, wpc, at, again, unsent, chan, mainVars>>
         /\ \E i \in items[Exec(w)] : \E b \in SUBSET i.models : \E f, g \in PosFraction :
              /\ b # {} /\ SumsTo(f, g, i.frac)
              /\ ForkItem(w, Branch(i, 0, b, f), Branch(i, 1, i.models \ b, g))
<1>0. \A i \in items[Exec(w)] : i.frac \in PosFraction
  BY PlaceFacts DEF ItemsOK, Items, PosFraction
<1>1. CASE Jump(w)
  <2>1. PICK i \in items[Exec(w)] : \E b \in SUBSET i.models :
          b # {} /\ ForkItem(w, Branch(i, 0, b, halve(i.frac)), Branch(i, 1, i.models \ b, halve(i.frac)))
    BY <1>1 DEF Jump
  <2>2. halve(i.frac) \in PosFraction /\ SumsTo(halve(i.frac), halve(i.frac), i.frac)
    BY <1>0, HalvesAddUp
  <2> QED BY <1>1, <2>1, <2>2 DEF Jump
<1>2. CASE Monomorphize(w)
  <2>1. PICK i \in items[Exec(w)] : \E b \in SUBSET i.models :
          b # {} /\ ForkItem(w, Branch(i, 0, b, min_split_self(i.frac, SplitPow)),
                                Branch(i, 1, i.models \ b, min_split_rest(i.frac, SplitPow)))
    BY <1>2 DEF Monomorphize
  <2>2. /\ min_split_self(i.frac, SplitPow) \in PosFraction
        /\ min_split_rest(i.frac, SplitPow) \in PosFraction
        /\ SumsTo(min_split_self(i.frac, SplitPow), min_split_rest(i.frac, SplitPow), i.frac)
    BY <1>0, SplitAddsUp, PoolAssumption
  <2> QED BY <1>2, <2>1, <2>2 DEF Monomorphize
<1> QED BY <1>1, <1>2

(* What a worker takes to run it comes from a queue.                       *)
LEMMA TakeParts ==
  ASSUME ScanOK, NEW w \in Workers, PopLocal(w) \/ Steal(w)
  PROVE  /\ wpc[w] \in {"find", "scan"} /\ wpc' = [wpc EXCEPT ![w] = "run"]
         /\ UNCHANGED <<stealers, unsent, chan, mainVars>>
         /\ \A v \in Workers \ {w} : at'[v] = at[v] /\ again'[v] = again[v]
         /\ \E from \in {Global} \cup {Local(v) : v \in Workers} :
              \E i \in items[from] : Take(w, from, i)
<1>1. CASE PopLocal(w)
  BY <1>1 DEF PopLocal, Goto
<1>2. CASE Steal(w)
  <2>1. PICK i \in items[Scanned(w)] : Take(w, Scanned(w), i)
    BY <1>2 DEF Steal
  <2>2. Scanned(w) \in {Global} \cup {Local(v) : v \in Workers}
    BY <1>2 DEF Steal, Scanned, ScanOK
  <2>3. /\ wpc[w] = "scan" /\ wpc' = [wpc EXCEPT ![w] = "run"]
        /\ UNCHANGED <<stealers, unsent, chan, mainVars>>
        /\ \A v \in Workers \ {w} : at'[v] = at[v] /\ again'[v] = again[v]
    BY <1>2 DEF Steal, Goto, Rewind, ScanOK
  <2> QED BY <2>1, <2>2, <2>3
<1> QED BY <1>1, <1>2

(* Every step keeps the types of the items and of the workers' states.     *)
LEMMA WorkTypes == ASSUME WorkOK, ScanOK, PoolStep PROVE WorkOK'
<1>0. ItemsOK /\ PcOK /\ ExecOK
  BY DEF WorkOK
<1>1. ASSUME NEW w \in Workers, Register(w) \/ StartScan(w) \/ EndScan(w) \/ Message(w)
      PROVE  WorkOK'
  <2>1. /\ UNCHANGED items /\ wpc[w] # "run"
        /\ \E x \in {"start", "find", "scan", "report", "idle", "wait", "exit"} :
             wpc' = [wpc EXCEPT ![w] = x]
    BY <1>1 DEF Register, StartScan, EndScan, Message, SendFinished, SendIdle, RecvPoke, RecvKill, Goto
  <2> QED BY <2>1, PcType
<1>2. ASSUME NEW w \in Workers, PopLocal(w) \/ Steal(w) PROVE WorkOK'
  <2>1. /\ wpc[w] # "run" /\ wpc' = [wpc EXCEPT ![w] = "run"]
        /\ \E from \in {Global} \cup {Local(v) : v \in Workers} :
             \E i \in items[from] : Take(w, from, i)
    BY <1>2, TakeParts
  <2>2. \A from \in {Global} \cup {Local(v) : v \in Workers} :
          from \in Places /\ \A v \in Workers : from # Exec(v)
    BY PlaceFacts
  <2> QED BY <2>1, <2>2, TakeType
<1>3. ASSUME NEW w \in Workers, Jump(w) \/ Monomorphize(w) PROVE WorkOK'
  BY <1>0, <1>3, ForkParts, ForkType
<1>4. ASSUME UNCHANGED <<items, wpc>> PROVE WorkOK'
  BY <1>4 DEF WorkOK, ItemsOK, PcOK, ExecOK
<1>5. ASSUME NEW w \in Workers, Advance(w) \/ MainRecv(w) PROVE WorkOK'
  BY <1>4, <1>5 DEF Advance, MainRecv
<1>6. CASE Quiet
  BY <1>4, <1>6 DEF Quiet
<1> QED
  BY <1>1, <1>2, <1>3, <1>5, <1>6, StealGlobalType, CollectType
  DEF PoolStep, Worker, FindTask, DoWork

(* Every step keeps the types of the stealers and of the workers' scans.   *)
LEMMA ScanTypes == ASSUME ScanOK, PoolStep PROVE ScanOK'
<1> USE DEF ScanOK
<1>1. ASSUME NEW w \in Workers, Register(w) PROVE ScanOK'
  BY <1>1 DEF Register
<1>2. ASSUME NEW w \in Workers, Rewind(w), UNCHANGED stealers PROVE ScanOK'
  BY <1>2 DEF Rewind
<1>3. ASSUME NEW w \in Workers, Advance(w) PROVE ScanOK'
  <2>1. at' \in [Workers -> Nat \ {0}] /\ UNCHANGED stealers
    BY <1>3 DEF Advance
  <2>2. again' \in [Workers -> BOOLEAN]
    <3>1. UNCHANGED again \/ again' = [again EXCEPT ![w] = TRUE]
      BY <1>3 DEF Advance
    <3> QED BY <3>1
  <2> QED BY <2>1, <2>2
<1>4. ASSUME UNCHANGED <<stealers, at, again>> PROVE ScanOK'
  BY <1>4
<1>5. ASSUME NEW w \in Workers, FindTask(w) PROVE ScanOK'
  BY <1>2, <1>3, <1>4, <1>5
  DEF FindTask, PopLocal, StartScan, Steal, StealGlobal, EndScan
<1>6. ASSUME NEW w \in Workers, DoWork(w) \/ Message(w) \/ MainRecv(w) PROVE ScanOK'
  <2>1. UNCHANGED <<stealers, at, again>>
    BY <1>6 DEF DoWork, Message, Jump, Monomorphize, Collect, SendFinished,
                SendIdle, RecvPoke, RecvKill, MainRecv
  <2> QED BY <2>1, <1>4
<1>7. CASE Quiet
  BY <1>4, <1>7 DEF Quiet
<1> QED BY <1>1, <1>5, <1>6, <1>7 DEF PoolStep, Worker

(* Every step keeps the types of the messages sent and still to send.      *)
LEMMA ChanTypes == ASSUME ItemsOK, ChanOK, PoolStep PROVE ChanOK'
<1>1. ASSUME UNCHANGED <<unsent, chan>> PROVE ChanOK'
  BY <1>1 DEF ChanOK
<1>2. ASSUME NEW w \in Workers, Collect(w) PROVE ChanOK'
  <2>1. items[Exec(w)] \in SUBSET Items
    BY PlaceFacts DEF ItemsOK
  <2> QED BY <2>1, <1>2 DEF Collect, ChanOK
<1>3. ASSUME NEW w \in Workers, NEW m \in Messages, Send(w, m) PROVE chan' \in [Workers -> Seq(Messages)]
  BY <1>3 DEF ChanOK, Send
<1>4. ASSUME NEW w \in Workers, SendFinished(w) PROVE ChanOK'
  <2>1. PICK i \in unsent[w] : Send(w, Finished(i))
    BY <1>4 DEF SendFinished
  <2>2. Finished(i) \in Messages
    BY DEF ChanOK, Items, Finished, Messages
  <2> QED BY <2>1, <2>2, <1>3, <1>4 DEF SendFinished, ChanOK
<1>5. ASSUME NEW w \in Workers, SendIdle(w) PROVE ChanOK'
  BY <1>3, <1>5 DEF SendIdle, ChanOK, Messages
<1>6. ASSUME NEW w \in Workers, MainRecv(w) PROVE ChanOK'
  BY <1>6 DEF MainRecv, ChanOK
<1>7. ASSUME NEW w \in Workers, Register(w) \/ FindTask(w) \/ Jump(w) \/ Monomorphize(w)
                                 \/ RecvPoke(w) \/ RecvKill(w)
      PROVE  ChanOK'
  <2>1. UNCHANGED <<unsent, chan>>
    BY <1>7 DEF Register, FindTask, PopLocal, StartScan, Steal, StealGlobal, Advance,
                EndScan, Jump, Monomorphize, RecvPoke, RecvKill
  <2> QED BY <2>1, <1>1
<1>8. CASE Quiet
  BY <1>1, <1>8 DEF Quiet
<1> QED
  BY <1>2, <1>4, <1>5, <1>6, <1>7, <1>8 DEF PoolStep, Worker, DoWork, Message

-----------------------------------------------------------------------------
(* The steps of the pool, told apart by what they do to the items.         *)

\* find_task: S goes from p to q and T from p to r.
Moved(p, q, r, S, T) ==
  /\ p # q /\ p # r /\ q # r /\ S \cap T = {}
  /\ S \subseteq items[p] /\ T \subseteq items[p]
  /\ items' = [items EXCEPT ![p] = @ \ (S \cup T), ![q] = @ \cup S, ![r] = @ \cup T]

MoveStep == \E p, q, r \in Pending : \E S, T \in SUBSET items[p] : Moved(p, q, r, S, T)

\* run_loop: worker w splits i into kept and child.
Forked(w, i, kept, child) ==
  /\ items[Exec(w)] = {i}
  /\ ForkItem(w, kept, child)
  /\ kept = Branch(i, 0, kept.models, kept.frac)
  /\ child = Branch(i, 1, child.models, child.frac)
  /\ kept.models \cup child.models = i.models /\ kept.models \cap child.models = {}
  /\ kept.models # {}
  /\ SumsTo(kept.frac, child.frac, i.frac)

ForkStep == \E w \in Workers : \E i \in items[Exec(w)], k, c \in Items : Forked(w, i, k, c)

\* do_work: the item of worker w is handed to the collector.
CollectStep ==
  \E w \in Workers : \E i \in items[Exec(w)] :
    /\ items[Exec(w)] = {i}
    /\ items' = [items EXCEPT ![Collected] = @ \cup {i}, ![Exec(w)] = {}]

(* Taking an item of a queue to run it is a move.                          *)
LEMMA TakeMoves ==
  ASSUME ItemsOK, ExecOK, NEW w \in Workers, wpc[w] # "run",
         NEW from \in {Global} \cup {Local(v) : v \in Workers},
         NEW i \in items[from], Take(w, from, i)
  PROVE  MoveStep
<1>1. PICK r \in {Global} \cup {Local(v) : v \in Workers} : r # from
  BY PlaceFacts
<1>2. /\ from \in Pending /\ r \in Pending /\ Exec(w) \in Pending
      /\ from # Exec(w) /\ r # Exec(w)
  BY PendingFacts, PlaceFacts
<1>3. items[Exec(w)] = {}
  BY DEF ExecOK
<1>4. items' = [items EXCEPT ![from] = @ \ ({i} \cup {}), ![Exec(w)] = @ \cup {i}, ![r] = @ \cup {}]
  BY <1>1, <1>2, <1>3, PendingFacts DEF Take, ItemsOK
<1>5. Moved(from, Exec(w), r, {i}, {})
  BY <1>1, <1>2, <1>4 DEF Moved
<1> QED BY <1>2, <1>5 DEF MoveStep

(* steal_batch_and_pop is a move to two places.                            *)
LEMMA StealGlobalMoves ==
  ASSUME ItemsOK, ExecOK, NEW w \in Workers, StealGlobal(w)
  PROVE  MoveStep
<1>1. PICK i \in items[Global] : \E batch \in SUBSET (items[Global] \ {i}) :
        items' = [items EXCEPT ![Global] = @ \ (batch \cup {i}),
                               ![Local(w)] = @ \cup batch,
                               ![Exec(w)] = {i}]
  BY DEF StealGlobal
<1>2. PICK batch \in SUBSET (items[Global] \ {i}) :
        items' = [items EXCEPT ![Global] = @ \ (batch \cup {i}),
                               ![Local(w)] = @ \cup batch,
                               ![Exec(w)] = {i}]
  BY <1>1
<1>3. items[Exec(w)] = {}
  BY DEF StealGlobal, Goto, ExecOK
<1>4. /\ Global \in Pending /\ Local(w) \in Pending /\ Exec(w) \in Pending
      /\ Global # Local(w) /\ Global # Exec(w) /\ Local(w) # Exec(w)
  BY PendingFacts, PlaceFacts
<1>5. items' = [items EXCEPT ![Global] = @ \ (batch \cup {i}),
                             ![Local(w)] = @ \cup batch, ![Exec(w)] = @ \cup {i}]
  BY <1>2, <1>3, <1>4, PendingFacts DEF ItemsOK
<1>6. Moved(Global, Local(w), Exec(w), batch, {i})
  BY <1>4, <1>5 DEF Moved
<1> QED BY <1>4, <1>6 DEF MoveStep

(* A Fork with Fractions that add up is a fork step.                       *)
LEMMA ForkForks ==
  ASSUME ItemsOK, ExecOK, NEW w \in Workers,
         NEW i \in items[Exec(w)], NEW b \in SUBSET i.models, b # {},
         NEW f \in PosFraction, NEW g \in PosFraction, SumsTo(f, g, i.frac),
         ForkItem(w, Branch(i, 0, b, f), Branch(i, 1, i.models \ b, g))
  PROVE  ForkStep
<1> DEFINE k == Branch(i, 0, b, f)
           c == Branch(i, 1, i.models \ b, g)
<1>1. i \in Items
  BY PlaceFacts DEF ItemsOK
<1>2. /\ i.id \in TaskIds /\ i.models \subseteq Inputs
      /\ Append(i.path, 0) \in Seq({0, 1}) /\ Append(i.path, 1) \in Seq({0, 1})
  BY <1>1 DEF Items
<1>3. k \in Items /\ c \in Items
  BY <1>2 DEF Branch, Items, PosFraction
<1>4. k.models = b /\ k.frac = f /\ c.models = i.models \ b /\ c.frac = g
  BY DEF Branch
<1>5. k = Branch(i, 0, k.models, k.frac) /\ c = Branch(i, 1, c.models, c.frac)
  BY <1>4
<1>6. items[Exec(w)] = {i}
  BY DEF ExecOK
<1>7. Forked(w, i, k, c)
  <2> HIDE DEF k, c
  <2>1. ForkItem(w, k, c)
    BY DEF k, c
  <2> QED BY <1>4, <1>5, <1>6, <2>1 DEF Forked
<1> QED BY <1>3, <1>7 DEF ForkStep

(* Every step leaves the items alone, moves some, forks one or collects    *)
(* one.                                                                    *)
LEMMA ItemSteps ==
  ASSUME WorkOK, ScanOK, PoolStep
  PROVE  UNCHANGED items \/ MoveStep \/ ForkStep \/ CollectStep
<1>0. ItemsOK /\ ExecOK
  BY DEF WorkOK
<1>1. ASSUME NEW w \in Workers, PopLocal(w) \/ Steal(w) PROVE MoveStep
  <2>1. /\ wpc[w] # "run"
        /\ \E from \in {Global} \cup {Local(v) : v \in Workers} :
             \E i \in items[from] : Take(w, from, i)
    BY <1>1, TakeParts
  <2> QED BY <2>1, <1>0, TakeMoves
<1>2. ASSUME NEW w \in Workers, StealGlobal(w) PROVE MoveStep
  BY <1>0, <1>2, StealGlobalMoves
<1>3. ASSUME NEW w \in Workers, Jump(w) \/ Monomorphize(w) PROVE ForkStep
  BY <1>0, <1>3, ForkParts, ForkForks
<1>4. ASSUME NEW w \in Workers, Collect(w) PROVE CollectStep
  <2>1. items[Exec(w)] # {}
    BY <1>0, <1>4 DEF Collect, Goto, ExecOK
  <2>2. PICK i \in items[Exec(w)] : items[Exec(w)] = {i}
    BY <2>1, <1>0 DEF ExecOK
  <2>3. items' = [items EXCEPT ![Collected] = @ \cup {i}, ![Exec(w)] = {}]
    BY <2>2, <1>4 DEF Collect
  <2> QED BY <2>2, <2>3 DEF CollectStep
<1>5. ASSUME NEW w \in Workers,
             Register(w) \/ StartScan(w) \/ Advance(w) \/ EndScan(w) \/ Message(w) \/ MainRecv(w)
      PROVE  UNCHANGED items
  BY <1>5 DEF Register, StartScan, Advance, EndScan, Message, SendFinished, SendIdle, RecvPoke,
              RecvKill, MainRecv
<1>6. CASE Quiet
  BY <1>6 DEF Quiet
<1> QED
  BY <1>1, <1>2, <1>3, <1>4, <1>5, <1>6 DEF PoolStep, Worker, FindTask, DoWork

-----------------------------------------------------------------------------
(* No path is executed twice.                                              *)

(* A step that moves items, and copies none, keeps paths distinct.         *)
LEMMA MoveKeepsDistinct ==
  ASSUME ItemsOK, PathsDistinct, NEW p \in Places, NEW q \in Places, NEW r \in Places,
         NEW S \in SUBSET items[p], NEW T \in SUBSET items[p], Moved(p, q, r, S, T)
  PROVE  PathsDistinct'
<1> DEFINE src(a, i) == IF (a = q /\ i \in S) \/ (a = r /\ i \in T) THEN p ELSE a
<1>1. /\ items'[p] = items[p] \ (S \cup T)
      /\ items'[q] = items[q] \cup S
      /\ items'[r] = items[r] \cup T
      /\ \A a \in Places \ {p, q, r} : items'[a] = items[a]
      /\ p # q /\ p # r /\ q # r /\ S \cap T = {}
  BY DEF Moved, ItemsOK
<1>2. \A a \in Places : \A i \in items'[a] : i \in items[src(a, i)] /\ src(a, i) \in Places
  BY <1>1
<1> SUFFICES ASSUME NEW a \in Places, NEW b \in Places, NEW i \in items'[a], NEW j \in items'[b],
                    i.id = j.id, ~Diverge(i.path, j.path)
             PROVE  a = b /\ i = j
  BY DEF PathsDistinct
<1>3. src(a, i) = src(b, j) /\ i = j
  BY <1>2 DEF PathsDistinct
<1>4. a = b
  BY <1>1, <1>2, <1>3
<1> QED BY <1>3, <1>4

(* A fork replaces a path by its two continuations: they stay distinct     *)
(* from one another and from all others.                                   *)
LEMMA ForkKeepsDistinct ==
  ASSUME ItemsOK, PathsDistinct, NEW w \in Workers, NEW i \in items[Exec(w)],
         NEW k \in Items, NEW c \in Items, Forked(w, i, k, c)
  PROVE  PathsDistinct'
<1> DEFINE p == Exec(w)
           q == Local(w)
<1>1. p \in Places /\ q \in Places /\ p # q
  BY PlaceFacts
<1>2. /\ items[p] = {i} /\ items'[p] = {k} /\ items'[q] = items[q] \cup {c}
      /\ \A a \in Places \ {p, q} : items'[a] = items[a]
  BY <1>1 DEF Forked, ForkItem, ItemsOK
<1>3. /\ k.id = i.id /\ c.id = i.id
      /\ k.path = Append(i.path, 0) /\ c.path = Append(i.path, 1)
  BY DEF Forked, Branch
<1> HIDE DEF p, q
<1>4. \A a \in Places : \A j \in items[a] : j.path \in Seq({0, 1})
  BY DEF ItemsOK, Items
<1>5. i.path \in Seq({0, 1})
  BY <1>1, <1>2, <1>4
<1>6. \A a \in Places : \A j \in items'[a] :
        \/ a = p /\ j = k
        \/ a = q /\ j = c
        \/ a # p /\ j \in items[a]
  BY <1>1, <1>2
<1>7. \A a \in Places : \A j \in items[a] :
        a # p /\ j.id = i.id => Diverge(k.path, j.path) /\ Diverge(j.path, k.path)
                              /\ Diverge(c.path, j.path) /\ Diverge(j.path, c.path)
  <2> SUFFICES ASSUME NEW a \in Places, NEW j \in items[a], a # p, j.id = i.id
               PROVE  /\ Diverge(k.path, j.path) /\ Diverge(j.path, k.path)
                      /\ Diverge(c.path, j.path) /\ Diverge(j.path, c.path)
    OBVIOUS
  <2>1. Diverge(i.path, j.path)
    BY <1>1, <1>2 DEF PathsDistinct
  <2>2. j.path \in Seq({0, 1}) /\ k.path \in Seq({0, 1}) /\ c.path \in Seq({0, 1})
    BY <1>4 DEF Items
  <2>3. Diverge(k.path, j.path) /\ Diverge(c.path, j.path)
    BY <2>1, <2>2, <1>3, <1>5, DivergeFacts
  <2> QED BY <2>2, <2>3, DivergeFacts
<1>8. Diverge(k.path, c.path) /\ Diverge(c.path, k.path)
  <2>1. k.path \in Seq({0, 1}) /\ c.path \in Seq({0, 1})
    BY DEF Items
  <2>2. Diverge(k.path, c.path)
    BY <1>3, <1>5, DivergeFacts
  <2> QED BY <2>1, <2>2, DivergeFacts
<1> SUFFICES ASSUME NEW a \in Places, NEW b \in Places, NEW u \in items'[a], NEW v \in items'[b],
                    u.id = v.id, ~Diverge(u.path, v.path)
             PROVE  a = b /\ u = v
  BY DEF PathsDistinct
<1>9. CASE a # p /\ u \in items[a]
  <2>1. CASE b # p /\ v \in items[b]
    BY <1>9, <2>1 DEF PathsDistinct
  <2>2. CASE v = k \/ v = c
    BY <1>9, <2>2, <1>3, <1>7
  <2> QED BY <2>1, <2>2, <1>6
<1>10. CASE a = p /\ u = k
  BY <1>10, <1>3, <1>6, <1>7, <1>8
<1>11. CASE a = q /\ u = c
  BY <1>11, <1>3, <1>6, <1>7, <1>8
<1> QED BY <1>6, <1>9, <1>10, <1>11

(* PathsDistinct is kept by every step.                                    *)
LEMMA DistinctStep ==
  ASSUME WorkOK, ScanOK, PathsDistinct, PoolStep
  PROVE  PathsDistinct'
<1>0. ItemsOK
  BY DEF WorkOK
<1>1. CASE UNCHANGED items
  BY <1>1 DEF PathsDistinct
<1>2. CASE MoveStep
  <2>1. PICK p, q, r \in Pending : \E S, T \in SUBSET items[p] : Moved(p, q, r, S, T)
    BY <1>2 DEF MoveStep
  <2> QED BY <2>1, <1>0, PendingFacts, MoveKeepsDistinct
<1>3. CASE ForkStep
  BY <1>0, <1>3, ForkKeepsDistinct DEF ForkStep
<1>4. CASE CollectStep
  <2>0. PICK w \in Workers : \E i \in items[Exec(w)] :
          /\ items[Exec(w)] = {i}
          /\ items' = [items EXCEPT ![Collected] = @ \cup {i}, ![Exec(w)] = {}]
    BY <1>4 DEF CollectStep
  <2>1. PICK i \in items[Exec(w)] :
          /\ items[Exec(w)] = {i}
          /\ items' = [items EXCEPT ![Collected] = @ \cup {i}, ![Exec(w)] = {}]
    BY <2>0
  <2>2. /\ Exec(w) \in Places /\ Collected \in Places /\ Global \in Places
        /\ Exec(w) # Collected /\ Exec(w) # Global /\ Collected # Global
    BY PlaceFacts
  <2>3. items' = [items EXCEPT ![Exec(w)] = @ \ ({i} \cup {}), ![Collected] = @ \cup {i}, ![Global] = @ \cup {}]
    BY <2>1, <2>2, <1>0 DEF ItemsOK
  <2>4. Moved(Exec(w), Collected, Global, {i}, {})
    BY <2>2, <2>3 DEF Moved
  <2>5. {i} \in SUBSET items[Exec(w)] /\ {} \in SUBSET items[Exec(w)]
    OBVIOUS
  <2> QED BY <2>2, <2>4, <2>5, <1>0, MoveKeepsDistinct
<1> QED BY <1>1, <1>2, <1>3, <1>4, ItemSteps

-----------------------------------------------------------------------------
(* What is reported was collected by the worker that reports it.           *)

(* What is collected stays collected.                                      *)
LEMMA CollectedGrows ==
  ASSUME WorkOK, ScanOK, PoolStep PROVE items[Collected] \subseteq items'[Collected]
<1>0. ItemsOK
  BY DEF WorkOK
<1>1. CASE MoveStep
  <2>1. PICK p, q, r \in Pending : \E S, T \in SUBSET items[p] : Moved(p, q, r, S, T)
    BY <1>1 DEF MoveStep
  <2> QED BY <2>1, <1>0, PendingFacts DEF Moved, ItemsOK
<1>2. CASE ForkStep
  BY <1>0, <1>2, PlaceFacts DEF ForkStep, Forked, ForkItem, ItemsOK
<1>3. CASE CollectStep
  BY <1>0, <1>3, PlaceFacts DEF CollectStep, ItemsOK
<1> QED BY <1>1, <1>2, <1>3, ItemSteps

(* ReportOK is kept by every step.                                         *)
LEMMA ReportStep == ASSUME PoolOK, PoolStep PROVE ReportOK'
<1>0. /\ WorkOK /\ ScanOK /\ ReportOK /\ PathsDistinct /\ ItemsOK /\ PcOK /\ ExecOK
      /\ unsent \in [Workers -> SUBSET Items]
      /\ items[Collected] \subseteq items'[Collected]
  BY CollectedGrows DEF PoolOK, WorkOK, ChanOK
<1>1. ASSUME UNCHANGED unsent, \A v \in Workers : wpc'[v] = "report" <=> wpc[v] = "report"
      PROVE  ReportOK'
  BY <1>0, <1>1 DEF ReportOK
<1>2. ASSUME NEW w \in Workers, Collect(w) PROVE ReportOK'
  <2>1. /\ wpc[w] = "run" /\ wpc' = [wpc EXCEPT ![w] = "report"]
        /\ unsent' = [unsent EXCEPT ![w] = items[Exec(w)]]
        /\ items' = [items EXCEPT ![Collected] = @ \cup items[Exec(w)], ![Exec(w)] = {}]
    BY <1>2 DEF Collect, Goto
  <2>2. items[Exec(w)] # {} /\ \A i, j \in items[Exec(w)] : i = j
    BY <2>1, <1>0 DEF ExecOK
  <2>3. items[Exec(w)] \subseteq items'[Collected]
    BY <2>1, <1>0, PlaceFacts DEF ItemsOK
  <2>4. items[Exec(w)] \cap items[Collected] = {}
    <3>1. \A i : ~Diverge(i.path, i.path)
      BY DEF Diverge
    <3> QED BY <3>1, <1>0, PlaceFacts DEF PathsDistinct
  <2>5. /\ unsent'[w] = items[Exec(w)] /\ wpc'[w] = "report"
        /\ \A v \in Workers \ {w} : unsent'[v] = unsent[v] /\ wpc'[v] = wpc[v]
    BY <2>1, <1>0 DEF PcOK
  <2>6. \A v \in Workers \ {w} : unsent[v] \cap items[Exec(w)] = {}
    BY <2>4, <1>0 DEF ReportOK
  <2> QED BY <2>2, <2>3, <2>5, <2>6, <1>0 DEF ReportOK
<1>3. ASSUME NEW w \in Workers, SendFinished(w) PROVE ReportOK'
  <2>1. /\ wpc'[w] = "find" /\ unsent'[w] = {}
        /\ \A v \in Workers \ {w} : unsent'[v] = unsent[v] /\ wpc'[v] = wpc[v]
    BY <1>0, <1>3 DEF SendFinished, Goto, PcOK
  <2> QED BY <2>1, <1>0 DEF ReportOK
<1>4. ASSUME NEW w \in Workers, Register(w) \/ FindTask(w) \/ SendIdle(w) \/ RecvPoke(w) \/ RecvKill(w)
      PROVE  ReportOK'
  <2>1. /\ UNCHANGED unsent
        /\ \/ UNCHANGED wpc
           \/ /\ wpc[w] # "report"
              /\ \E x \in {"find", "scan", "run", "idle", "wait", "exit"} : wpc' = [wpc EXCEPT ![w] = x]
    BY <1>4 DEF Register, FindTask, PopLocal, StartScan, Steal, StealGlobal, Advance, EndScan,
                SendIdle, RecvPoke, RecvKill, Goto
  <2>2. \A v \in Workers : wpc'[v] = "report" <=> wpc[v] = "report"
    BY <2>1, <1>0 DEF PcOK
  <2> QED BY <2>1, <2>2, <1>1
<1>5. ASSUME NEW w \in Workers, Jump(w) \/ Monomorphize(w) \/ MainRecv(w) PROVE ReportOK'
  <2>1. UNCHANGED <<unsent, wpc>>
    BY <1>5 DEF Jump, Monomorphize, MainRecv
  <2> QED BY <2>1, <1>1
<1>6. CASE Quiet
  BY <1>1, <1>6 DEF Quiet
<1> QED
  BY <1>2, <1>3, <1>4, <1>5, <1>6 DEF PoolStep, Worker, DoWork, Message

(* PoolOK is inductive for the steps of the pool.                          *)
LEMMA PoolKeeps == ASSUME PoolOK, PoolStep PROVE PoolOK'
<1>1. WorkOK /\ ScanOK /\ ChanOK /\ PathsDistinct /\ ItemsOK
  BY DEF PoolOK, WorkOK
<1>2. WorkOK' /\ ScanOK' /\ ChanOK' /\ PathsDistinct' /\ ReportOK'
  BY <1>1, WorkTypes, ScanTypes, ChanTypes, DistinctStep, ReportStep
<1> QED BY <1>2 DEF PoolOK

-----------------------------------------------------------------------------
(* The shares of a task, now and after a step.                             *)

(* What is unfinished is in a queue, is executed or is to be reported.     *)
LEMMA UnfinishedFacts ==
  ASSUME NEW t
  PROVE  /\ \A i : i \in Unfinished(t) <=>
                     /\ i.id = t
                     /\ (\E p \in Pending : i \in items[p]) \/ (\E w \in Workers : i \in unsent[w])
         /\ \A i : i \in Unfinished(t)' <=>
                     /\ i.id = t
                     /\ (\E p \in Pending : i \in items'[p]) \/ (\E w \in Workers : i \in unsent'[w])
BY DEF Unfinished

(* What is unread is in a channel.                                         *)
LEMMA UnreadFacts ==
  ASSUME NEW t
  PROVE  /\ \A m \in Unread(t) : \E v \in Workers : \E n \in DOMAIN chan[v] : m = <<v, n>>
         /\ \A m \in Unread(t)' : \E v \in Workers : \E n \in DOMAIN chan'[v] : m = <<v, n>>
         /\ \A v \in Workers : \A n \in DOMAIN chan[v] :
              <<v, n>> \in Unread(t) <=> chan[v][n].type = "Finished" /\ chan[v][n].id = t
         /\ \A v \in Workers : \A n \in DOMAIN chan'[v] :
              <<v, n>> \in Unread(t)' <=> chan'[v][n].type = "Finished" /\ chan'[v][n].id = t
BY DEF Unread

\* The shares are those of the unfinished paths and the unread messages, and
\* each is positive.
SharesOK(t) ==
  /\ \A i \in Unfinished(t) : <<"item", i>> \in DOMAIN Shares(t) /\ Shares(t)[<<"item", i>>] = i.frac
  /\ \A m \in Unread(t) : /\ <<"sent", m>> \in DOMAIN Shares(t)
                          /\ Shares(t)[<<"sent", m>>] = chan[m[1]][m[2]].frac
  /\ \A s \in DOMAIN Shares(t) : \/ \E i \in Unfinished(t) : s = <<"item", i>>
                                 \/ \E m \in Unread(t) : s = <<"sent", m>>
  /\ Shares(t) \in [DOMAIN Shares(t) -> PosFraction]

(* SharesOK follows from the types.                                        *)
LEMMA ShareFacts == ASSUME NEW t PROVE ItemsOK /\ ChanOK => SharesOK(t)
<1> SUFFICES ASSUME ItemsOK, ChanOK PROVE SharesOK(t)
  OBVIOUS
<1> DEFINE D == ({"item"} \X Unfinished(t)) \cup ({"sent"} \X Unread(t))
           F(s) == IF s[1] = "item" THEN s[2].frac ELSE chan[s[2][1]][s[2][2]].frac
<1>1. Shares(t) = [s \in D |-> F(s)]
  BY DEF Shares
<1>2. \A s \in D : (\E i \in Unfinished(t) : s = <<"item", i>>) \/ (\E m \in Unread(t) : s = <<"sent", m>>)
  OBVIOUS
<1>3. \A i \in Unfinished(t) : <<"item", i>> \in D /\ F(<<"item", i>>) = i.frac
  OBVIOUS
<1>4. \A m \in Unread(t) : <<"sent", m>> \in D /\ F(<<"sent", m>>) = chan[m[1]][m[2]].frac
  OBVIOUS
<1>5. \A i \in Unfinished(t) : i.frac \in PosFraction
  <2>1. \A i \in Unfinished(t) : i \in Items
    BY UnfinishedFacts, PendingFacts DEF ItemsOK, ChanOK
  <2> QED BY <2>1 DEF Items, PosFraction
<1>6. \A m \in Unread(t) : chan[m[1]][m[2]].frac \in PosFraction
  <2> SUFFICES ASSUME NEW m \in Unread(t) PROVE chan[m[1]][m[2]].frac \in PosFraction
    OBVIOUS
  <2>1. PICK v \in Workers : \E n \in DOMAIN chan[v] : m = <<v, n>>
    BY UnreadFacts
  <2>2. PICK n \in DOMAIN chan[v] : m = <<v, n>>
    BY <2>1
  <2>3. chan[v][n] \in Messages /\ chan[v][n].type = "Finished"
    BY <2>2, UnreadFacts DEF ChanOK
  <2>4. chan[v][n].frac \in PosFraction
    BY <2>3 DEF Messages, Idle, PosFraction
  <2> QED BY <2>2, <2>4
<1> HIDE DEF D, F
<1>7. \A s \in D : F(s) \in PosFraction
  BY <1>2, <1>3, <1>4, <1>5, <1>6
<1> QED BY <1>1, <1>2, <1>3, <1>4, <1>7 DEF SharesOK

(* The same after a step.                                                  *)
LEMMA ShareFactsNext == ASSUME NEW t, ItemsOK', ChanOK' PROVE SharesOK(t)'
<1>1. (ItemsOK /\ ChanOK => SharesOK(t))'
  BY ShareFacts, PTL
<1> QED BY <1>1

\* What main counted of task t and its shares are one, and each share is positive.
Balanced(t) == Conserves(Shares(t), Reported(t))

(* A step that changes neither the unfinished paths, nor the channels.     *)
LEMMA SameShares ==
  ASSUME NEW t, UNCHANGED chan, Unfinished(t)' = Unfinished(t)
  PROVE  Shares(t)' = Shares(t)
<1>1. Unread(t)' = Unread(t)
  BY DEF Unread
<1> QED BY <1>1 DEF Shares

(* Moving items between queues, and collecting one, changes no share.      *)
LEMMA MoveShares ==
  ASSUME NEW t, WorkOK, MoveStep, UNCHANGED <<unsent, chan>> PROVE Shares(t)' = Shares(t)
<1>1. PICK p, q, r \in Pending : \E S, T \in SUBSET items[p] : Moved(p, q, r, S, T)
  BY DEF MoveStep
<1>2. PICK S, T \in SUBSET items[p] : Moved(p, q, r, S, T)
  BY <1>1
<1>3. /\ items'[p] = items[p] \ (S \cup T)
      /\ items'[q] = items[q] \cup S
      /\ items'[r] = items[r] \cup T
      /\ \A a \in Places \ {p, q, r} : items'[a] = items[a]
      /\ p # q /\ p # r /\ q # r
  BY <1>2, PendingFacts DEF Moved, WorkOK, ItemsOK
<1>4. \A x : (\E a \in Pending : x \in items'[a]) <=> (\E a \in Pending : x \in items[a])
  BY <1>2, <1>3, PendingFacts
<1>5. \A x : x \in Unfinished(t)' <=> x \in Unfinished(t)
  BY <1>4, UnfinishedFacts
<1>6. Unfinished(t)' = Unfinished(t)
  BY <1>5
<1> QED BY <1>6, SameShares

(* Collecting: the item is unfinished until its message is sent.           *)
LEMMA CollectShares ==
  ASSUME NEW t, PoolOK, NEW w \in Workers, Collect(w) PROVE Shares(t)' = Shares(t)
<1>0. ItemsOK /\ ExecOK /\ ReportOK /\ unsent \in [Workers -> SUBSET Items]
  BY DEF PoolOK, WorkOK, ChanOK
<1>1. /\ items' = [items EXCEPT ![Collected] = @ \cup items[Exec(w)], ![Exec(w)] = {}]
      /\ unsent' = [unsent EXCEPT ![w] = items[Exec(w)]] /\ wpc[w] = "run" /\ UNCHANGED chan
  BY DEF Collect, Goto
<1>2. unsent[w] = {}
  BY <1>0, <1>1 DEF ReportOK
<1>3. /\ items'[Exec(w)] = {} /\ \A a \in Pending \ {Exec(w)} : items'[a] = items[a]
      /\ unsent'[w] = items[Exec(w)] /\ \A v \in Workers \ {w} : unsent'[v] = unsent[v]
      /\ Exec(w) \in Pending
  BY <1>0, <1>1, PendingFacts, PlaceFacts DEF ItemsOK
<1>4. \A x : x \in Unfinished(t)' <=> x \in Unfinished(t)
  BY <1>2, <1>3, UnfinishedFacts
<1>5. Unfinished(t)' = Unfinished(t)
  BY <1>4
<1> QED BY <1>1, <1>5, SameShares

(* A fork splits a share of its task in two, and leaves the other tasks'.  *)
LEMMA ForkBalance ==
  ASSUME NEW t, PoolOK, ForkStep, UNCHANGED <<unsent, chan, progress>>, ItemsOK', ChanOK',
         Balanced(t)
  PROVE  Balanced(t)'
<1>0. ItemsOK /\ ChanOK /\ ReportOK /\ PathsDistinct
  BY DEF PoolOK, WorkOK
<1>1. PICK w \in Workers : \E i \in items[Exec(w)], k, c \in Items : Forked(w, i, k, c)
  BY DEF ForkStep
<1>a. PICK i \in items[Exec(w)], k \in Items, c \in Items : Forked(w, i, k, c)
  BY <1>1
<1> DEFINE p == Exec(w)
           q == Local(w)
<1>2. p \in Pending /\ q \in Pending /\ p # q
  BY PendingFacts, PlaceFacts
<1>3. /\ items[p] = {i} /\ items'[p] = {k} /\ items'[q] = items[q] \cup {c}
      /\ \A a \in Places \ {p, q} : items'[a] = items[a]
  BY <1>0, <1>a, <1>2, PendingFacts DEF Forked, ForkItem, ItemsOK
<1>4. /\ k.id = i.id /\ c.id = i.id
      /\ k.path = Append(i.path, 0) /\ c.path = Append(i.path, 1)
      /\ SumsTo(k.frac, c.frac, i.frac)
  BY <1>a DEF Forked, Branch
<1> HIDE DEF p, q
<1>5. UNCHANGED Reported(t)
  BY DEF Reported
<1>6. CASE i.id # t
  <2>1. \A x : x \in Unfinished(t)' <=> x \in Unfinished(t)
    BY <1>2, <1>3, <1>4, <1>6, PendingFacts, UnfinishedFacts
  <2>2. Shares(t)' = Shares(t)
    <3>1. Unfinished(t)' = Unfinished(t)
      BY <2>1
    <3> QED BY <3>1, SameShares
  <2> QED BY <1>5, <2>2 DEF Balanced
<1>7. CASE i.id = t
  <2>1. i.path \in Seq({0, 1}) /\ k.path \in Seq({0, 1}) /\ c.path \in Seq({0, 1}) /\ p \in Places
    BY <1>0, <1>2, <1>3, PendingFacts DEF ItemsOK, Items
  <2>2. /\ k # i /\ c # i /\ k # c /\ ~Diverge(i.path, i.path)
        /\ ~Diverge(i.path, k.path) /\ ~Diverge(i.path, c.path)
    <3>1. Diverge(k.path, c.path)
      BY <2>1, <1>4, DivergeFacts
    <3>2. ~Diverge(k.path, k.path) /\ ~Diverge(i.path, i.path)
      BY DEF Diverge
    <3> QED BY <3>1, <3>2, <2>1, <1>4, DivergeFacts
  <2>3. \A a \in Places : (i \in items[a] => a = p) /\ k \notin items[a] /\ c \notin items[a]
    BY <2>1, <2>2, <1>0, <1>3, <1>4 DEF PathsDistinct
  <2>4. \A v \in Workers : i \notin unsent[v] /\ k \notin unsent[v] /\ c \notin unsent[v]
    <3>1. Collected \in Places /\ Collected # p
      BY <1>2, PendingFacts
    <3> QED BY <3>1, <2>3, <1>0 DEF ReportOK
  <2>5. /\ i \in Unfinished(t) /\ k \notin Unfinished(t) /\ c \notin Unfinished(t)
        /\ \A x : x \in Unfinished(t)' <=> (x # i /\ x \in Unfinished(t)) \/ x = k \/ x = c
    BY <1>2, <1>3, <1>4, <1>7, <2>2, <2>3, <2>4, PendingFacts, UnfinishedFacts
  <2>6. Unread(t)' = Unread(t) /\ \A m : chan'[m[1]][m[2]] = chan[m[1]][m[2]]
    BY DEF Unread
  <2> DEFINE fs == Shares(t)
             gs == Shares(t)'
             x == <<"item", i>>
             y == <<"item", k>>
             z == <<"item", c>>
  <2>7. SharesOK(t) /\ SharesOK(t)'
    BY <1>0, ShareFacts, ShareFactsNext
  <2>8. x \in DOMAIN fs /\ fs[x] = i.frac /\ y \notin DOMAIN fs /\ z \notin DOMAIN fs
    BY <2>5, <2>7 DEF SharesOK
  <2>9. y \in DOMAIN gs /\ gs[y] = k.frac /\ z \in DOMAIN gs /\ gs[z] = c.frac
    BY <2>5, <2>7 DEF SharesOK
  <2>10. \A s : s \in DOMAIN gs <=> (s \in DOMAIN fs /\ s # x) \/ s = y \/ s = z
    <3>1. ASSUME NEW s \in DOMAIN gs PROVE (s \in DOMAIN fs /\ s # x) \/ s = y \/ s = z
      BY <2>5, <2>6, <2>7 DEF SharesOK
    <3>2. ASSUME NEW s \in DOMAIN fs, s # x PROVE s \in DOMAIN gs
      BY <3>2, <2>5, <2>6, <2>7 DEF SharesOK
    <3> QED BY <2>9, <3>1, <3>2
  <2>11. \A s \in DOMAIN fs \ {x} : gs[s] = fs[s]
    BY <2>5, <2>6, <2>7 DEF SharesOK
  <2>12. gs \in [DOMAIN gs -> Fractions]
    BY <2>7 DEF SharesOK, PosFraction, Fractions
  <2>13. y # z /\ Conserves(fs, Reported(t))
    BY <2>2 DEF Balanced
  <2> HIDE DEF fs, gs, x, y, z
  <2>14. DOMAIN gs = (DOMAIN fs \ {x}) \cup {y, z}
    BY <2>10
  <2>15. SumsTo(gs[y], gs[z], fs[x])
    BY <1>4, <2>8, <2>9
  <2>16. Conserves(gs, Reported(t))
    BY <2>8, <2>11, <2>12, <2>13, <2>14, <2>15, SplitShare
  <2> QED BY <2>16, <1>5 DEF Balanced, gs
<1> QED BY <1>6, <1>7

(* A message sent is the last of its channel and moves none of the others. *)
LEMMA SendFacts ==
  ASSUME ChanOK, NEW w \in Workers, NEW m \in Messages, Send(w, m)
  PROVE  /\ \A v \in Workers : \A n \in DOMAIN chan[v] : n \in DOMAIN chan'[v] /\ chan'[v][n] = chan[v][n]
         /\ \A v \in Workers : \A n \in DOMAIN chan'[v] :
              n \in DOMAIN chan[v] \/ (v = w /\ n = Len(chan[w]) + 1)
         /\ Len(chan[w]) + 1 \in DOMAIN chan'[w] /\ chan'[w][Len(chan[w]) + 1] = m
         /\ Len(chan[w]) + 1 \notin DOMAIN chan[w]
<1>1. chan'[w] = Append(chan[w], m) /\ \A v \in Workers \ {w} : chan'[v] = chan[v]
  BY DEF Send, ChanOK
<1> DEFINE c == chan[w]
           d == chan'[w]
<1>2. c \in Seq(Messages) /\ d = Append(c, m)
  BY <1>1 DEF ChanOK
<1> HIDE DEF c, d
<1>3. /\ DOMAIN c = 1..Len(c) /\ DOMAIN d = 1..(Len(c) + 1) /\ Len(c) \in Nat
      /\ d[Len(c) + 1] = m /\ \A n \in 1..Len(c) : d[n] = c[n]
  BY <1>2
<1>4. /\ \A n \in DOMAIN c : n \in DOMAIN d /\ d[n] = c[n]
      /\ \A n \in DOMAIN d : n \in DOMAIN c \/ n = Len(c) + 1
      /\ Len(c) + 1 \in DOMAIN d /\ d[Len(c) + 1] = m /\ Len(c) + 1 \notin DOMAIN c
  BY <1>3
<1> QED BY <1>1, <1>4 DEF c, d

(* A message that is not about task t changes none of its shares.          *)
LEMMA SendOther ==
  ASSUME NEW t, ChanOK, NEW w \in Workers, NEW m \in Messages, Send(w, m),
         ~(m.type = "Finished" /\ m.id = t), Unfinished(t)' = Unfinished(t)
  PROVE  Shares(t)' = Shares(t)
<1>1. \A u : u \in Unread(t)' <=> u \in Unread(t)
  <2>1. ASSUME NEW u \in Unread(t) PROVE u \in Unread(t)'
    <3>1. PICK v \in Workers : \E n \in DOMAIN chan[v] : u = <<v, n>>
      BY UnreadFacts
    <3>2. PICK n \in DOMAIN chan[v] : u = <<v, n>>
      BY <3>1
    <3>3. n \in DOMAIN chan'[v] /\ chan'[v][n] = chan[v][n]
      BY SendFacts
    <3> QED BY <3>2, <3>3, UnreadFacts
  <2>2. ASSUME NEW u \in Unread(t)' PROVE u \in Unread(t)
    <3>1. PICK v \in Workers : \E n \in DOMAIN chan'[v] : u = <<v, n>>
      BY UnreadFacts
    <3>2. PICK n \in DOMAIN chan'[v] : u = <<v, n>>
      BY <3>1
    <3>3. chan'[v][n].type = "Finished" /\ chan'[v][n].id = t
      BY <3>2, UnreadFacts
    <3>4. n \in DOMAIN chan[v] /\ chan'[v][n] = chan[v][n]
      BY <3>3, SendFacts
    <3> QED BY <3>2, <3>3, <3>4, UnreadFacts
  <2> QED BY <2>1, <2>2
<1>2. Unread(t)' = Unread(t)
  BY <1>1
<1>3. \A u \in Unread(t) : chan'[u[1]][u[2]] = chan[u[1]][u[2]]
  <2> SUFFICES ASSUME NEW u \in Unread(t) PROVE chan'[u[1]][u[2]] = chan[u[1]][u[2]]
    OBVIOUS
  <2>1. PICK v \in Workers : \E n \in DOMAIN chan[v] : u = <<v, n>>
    BY UnreadFacts
  <2>2. PICK n \in DOMAIN chan[v] : u = <<v, n>>
    BY <2>1
  <2> QED BY <2>2, SendFacts
<1> DEFINE D == ({"item"} \X Unfinished(t)) \cup ({"sent"} \X Unread(t))
           F(s) == IF s[1] = "item" THEN s[2].frac ELSE chan[s[2][1]][s[2][2]].frac
           G(s) == IF s[1] = "item" THEN s[2].frac ELSE chan'[s[2][1]][s[2][2]].frac
<1>4. Shares(t) = [s \in D |-> F(s)] /\ Shares(t)' = [s \in D |-> G(s)]
  BY <1>2 DEF Shares
<1>5. \A s \in D : F(s) = G(s)
  BY <1>3
<1> HIDE DEF D, F, G
<1> QED BY <1>4, <1>5

(* A Finished message takes over the share of the item it is about.        *)
LEMMA FinishBalance ==
  ASSUME NEW t, PoolOK, NEW w \in Workers, SendFinished(w), ItemsOK', ChanOK', Balanced(t)
  PROVE  Balanced(t)'
<1>0. /\ ItemsOK /\ ChanOK /\ ReportOK /\ PathsDistinct
      /\ unsent \in [Workers -> SUBSET Items]
  BY DEF PoolOK, WorkOK, ChanOK
<1>1. PICK i \in unsent[w] : Send(w, Finished(i))
  BY DEF SendFinished
<1>2. /\ unsent'[w] = {} /\ \A v \in Workers \ {w} : unsent'[v] = unsent[v]
      /\ UNCHANGED <<items, progress>>
  BY <1>0 DEF SendFinished, mainVars
<1>3. unsent[w] = {i} /\ i \in Items
  BY <1>0 DEF ReportOK
<1>4. /\ Finished(i) \in Messages /\ Finished(i).type = "Finished" /\ Finished(i).id = i.id
      /\ Finished(i).frac = i.frac
  BY <1>3 DEF Items, Finished, Messages
<1>5. Reported(t)' = Reported(t)
  BY <1>2 DEF Reported
<1>6. CASE i.id # t
  <2>1. \A x : x \in Unfinished(t)' <=> x \in Unfinished(t)
    BY <1>2, <1>3, <1>6, UnfinishedFacts
  <2>2. Unfinished(t)' = Unfinished(t)
    BY <2>1
  <2>3. Shares(t)' = Shares(t)
    BY <1>0, <1>1, <1>4, <1>6, <2>2, SendOther
  <2> QED BY <1>5, <2>3 DEF Balanced
<1>7. CASE i.id = t
  <2>1. /\ \A p \in Pending : i \notin items[p]
        /\ \A v \in Workers \ {w} : i \notin unsent[v]
    <3>1. ~Diverge(i.path, i.path)
      BY DEF Diverge
    <3>2. i \in items[Collected]
      BY <1>0 DEF ReportOK
    <3> QED BY <3>1, <3>2, <1>0, <1>3, PendingFacts DEF PathsDistinct, ReportOK
  <2>2. /\ i \in Unfinished(t)
        /\ \A x : x \in Unfinished(t)' <=> x # i /\ x \in Unfinished(t)
    BY <1>2, <1>3, <1>7, <2>1, UnfinishedFacts
  <2> DEFINE u0 == <<w, Len(chan[w]) + 1>>
  <2>3. u0 \in Unread(t)' /\ chan'[u0[1]][u0[2]].frac = i.frac
    BY <1>0, <1>1, <1>4, <1>7, SendFacts, UnreadFacts
  <2>4. u0 \notin Unread(t)
    <3>1. Len(chan[w]) + 1 \notin DOMAIN chan[w]
      BY <1>0, <1>1, <1>4, SendFacts
    <3> QED BY <3>1, UnreadFacts
  <2>5. \A u \in Unread(t) : u \in Unread(t)' /\ chan'[u[1]][u[2]] = chan[u[1]][u[2]]
    <3> SUFFICES ASSUME NEW u \in Unread(t)
                 PROVE  u \in Unread(t)' /\ chan'[u[1]][u[2]] = chan[u[1]][u[2]]
      OBVIOUS
    <3>1. PICK v \in Workers : \E n \in DOMAIN chan[v] : u = <<v, n>>
      BY UnreadFacts
    <3>2. PICK n \in DOMAIN chan[v] : u = <<v, n>>
      BY <3>1
    <3>3. n \in DOMAIN chan'[v] /\ chan'[v][n] = chan[v][n]
      BY <1>0, <1>1, <1>4, SendFacts
    <3> QED BY <3>2, <3>3, UnreadFacts
  <2>6. \A u \in Unread(t)' : u \in Unread(t) \/ u = u0
    <3> SUFFICES ASSUME NEW u \in Unread(t)' PROVE u \in Unread(t) \/ u = u0
      OBVIOUS
    <3>1. PICK v \in Workers : \E n \in DOMAIN chan'[v] : u = <<v, n>>
      BY UnreadFacts
    <3>2. PICK n \in DOMAIN chan'[v] : u = <<v, n>>
      BY <3>1
    <3>3. chan'[v][n].type = "Finished" /\ chan'[v][n].id = t
      BY <3>2, UnreadFacts
    <3>4. (n \in DOMAIN chan[v] /\ chan'[v][n] = chan[v][n]) \/ (v = w /\ n = Len(chan[w]) + 1)
      BY <1>0, <1>1, <1>4, SendFacts
    <3> QED BY <3>2, <3>3, <3>4, UnreadFacts
  <2> HIDE DEF u0
  <2> DEFINE fs == Shares(t)
             gs == Shares(t)'
             x == <<"item", i>>
             y == <<"sent", u0>>
             h == [s \in DOMAIN fs |-> IF s = x THEN y ELSE s]
  <2>7. SharesOK(t) /\ SharesOK(t)'
    BY <1>0, ShareFacts, ShareFactsNext
  <2>8. x \in DOMAIN fs /\ fs[x] = i.frac /\ y \notin DOMAIN fs /\ y \in DOMAIN gs /\ gs[y] = i.frac
    BY <2>2, <2>3, <2>4, <2>7 DEF SharesOK
  <2>9. \A s \in DOMAIN fs \ {x} : s \in DOMAIN gs /\ gs[s] = fs[s]
    BY <2>2, <2>5, <2>7 DEF SharesOK
  <2>10. \A s \in DOMAIN gs : s = y \/ (s \in DOMAIN fs /\ s # x)
    BY <2>2, <2>6, <2>7 DEF SharesOK
  <2>11. gs \in [DOMAIN gs -> Fractions] /\ Conserves(fs, Reported(t))
    BY <2>7 DEF SharesOK, PosFraction, Fractions, Balanced
  <2> HIDE DEF fs, gs, x, y
  <2>12. h \in Bijection(DOMAIN fs, DOMAIN gs) /\ \A s \in DOMAIN fs : gs[h[s]] = fs[s]
    BY <2>8, <2>9, <2>10 DEF Bijection, Injection, IsInjective, Surjection
  <2> HIDE DEF h
  <2>13. Conserves(gs, Reported(t))
    BY <2>11, <2>12, RenameShares
  <2> QED BY <2>13, <1>5 DEF Balanced, gs
<1> QED BY <1>6, <1>7

(* The message received is the first of its channel; the others move up.   *)
LEMMA RecvFacts ==
  ASSUME ChanOK, NEW w \in Workers, MainRecv(w)
  PROVE  /\ 1 \in DOMAIN chan[w] /\ Head(chan[w]) = chan[w][1] /\ chan[w][1] \in Messages
         /\ \A n \in DOMAIN chan[w] : n # 1 => n - 1 \in DOMAIN chan'[w] /\ chan'[w][n - 1] = chan[w][n]
         /\ \A n \in DOMAIN chan'[w] : n + 1 \in DOMAIN chan[w] /\ chan'[w][n] = chan[w][n + 1]
         /\ DOMAIN chan[w] \subseteq Nat \ {0} /\ DOMAIN chan'[w] \subseteq Nat \ {0}
         /\ \A v \in Workers \ {w} : chan'[v] = chan[v]
<1>1. chan'[w] = Tail(chan[w]) /\ chan[w] # <<>> /\ \A v \in Workers \ {w} : chan'[v] = chan[v]
  BY DEF MainRecv, ChanOK
<1> DEFINE c == chan[w]
           d == chan'[w]
<1>2. c \in Seq(Messages) /\ d = Tail(c) /\ c # <<>>
  BY <1>1 DEF ChanOK
<1> HIDE DEF c, d
<1>3. /\ DOMAIN c = 1..Len(c) /\ DOMAIN d = 1..(Len(c) - 1) /\ Len(c) \in Nat \ {0}
      /\ Head(c) = c[1] /\ \A n \in 1..(Len(c) - 1) : d[n] = c[n + 1]
  BY <1>2
<1>4. /\ 1 \in DOMAIN c /\ Head(c) = c[1] /\ c[1] \in Messages
      /\ \A n \in DOMAIN d : n + 1 \in DOMAIN c /\ d[n] = c[n + 1]
      /\ DOMAIN c \subseteq Nat \ {0} /\ DOMAIN d \subseteq Nat \ {0}
  BY <1>2, <1>3
<1>5. \A n \in DOMAIN c : n # 1 => n - 1 \in DOMAIN d /\ d[n - 1] = c[n]
  <2> SUFFICES ASSUME NEW n \in DOMAIN c, n # 1 PROVE n - 1 \in DOMAIN d /\ d[n - 1] = c[n]
    OBVIOUS
  <2>1. n \in Nat /\ n - 1 \in 1..(Len(c) - 1) /\ (n - 1) + 1 = n
    BY <1>3
  <2> QED BY <2>1, <1>3
<1> QED BY <1>1, <1>4, <1>5 DEF c, d

(* Main counts the Fraction of a Finished message, whose share is gone;    *)
(* the shares of the messages behind it are renamed.                       *)
LEMMA RecvBalance ==
  ASSUME NEW t, PoolOK, NEW w \in Workers, MainRecv(w), ItemsOK', ChanOK', Balanced(t)
  PROVE  Balanced(t)'
<1>0. ItemsOK /\ ChanOK
  BY DEF PoolOK, WorkOK
<1> DEFINE m == chan[w][1]
           u0 == <<w, 1>>
           x == <<"sent", u0>>
           S == Shares(t)
<1>1. /\ 1 \in DOMAIN chan[w] /\ m \in Messages /\ UNCHANGED <<items, unsent>>
      /\ progress' = IF m.type = "Idle" THEN progress ELSE AddProgress(m.id, m.frac)
  BY <1>0, RecvFacts DEF MainRecv
<1>2. SharesOK(t) /\ SharesOK(t)'
  BY <1>0, ShareFacts, ShareFactsNext
<1>3. \A u : u \in Unfinished(t)' <=> u \in Unfinished(t)
  BY <1>1, UnfinishedFacts
<1>4. u0 \in Unread(t) <=> m.type = "Finished" /\ m.id = t
  BY <1>1, UnreadFacts
<1>5. m.type = "Idle" \/ m.type = "Finished"
  BY <1>1 DEF Messages, Idle
<1>6. \E fs : /\ Conserves(fs, Reported(t)') /\ DOMAIN fs = DOMAIN S \ {x}
              /\ \A s \in DOMAIN fs : fs[s] = S[s]
  <2>1. CASE m.type = "Finished" /\ m.id = t
    <3>1. x \in DOMAIN S /\ S[x] = m.frac
      BY <2>1, <1>2, <1>4 DEF SharesOK
    <3>2. Reported(t)' = add_assign(Reported(t), m.frac)
      <4>1. progress' = AddProgress(t, m.frac)
        BY <2>1, <1>1
      <4>2. t \in DOMAIN progress' /\ progress'[t] = add_assign(Reported(t), m.frac)
        BY <4>1 DEF AddProgress
      <4> QED BY <4>2 DEF Reported
    <3> HIDE DEF x, S, m
    <3>3. Conserves(Without(S, x), Reported(t)')
      BY <3>1, <3>2, ReportShare DEF Balanced, S
    <3>4. DOMAIN Without(S, x) = DOMAIN S \ {x} /\ \A s \in DOMAIN S \ {x} : Without(S, x)[s] = S[s]
      BY DEF Without
    <3> QED BY <3>3, <3>4
  <2>2. CASE ~(m.type = "Finished" /\ m.id = t)
    <3>1. x \notin DOMAIN S
      BY <2>2, <1>2, <1>4 DEF SharesOK
    <3>2. Reported(t)' = Reported(t)
      <4>1. CASE m.type = "Idle"
        BY <4>1, <1>1 DEF Reported
      <4>2. CASE m.type # "Idle"
        <5>1. m.id # t /\ progress' = AddProgress(m.id, m.frac)
          BY <4>2, <2>2, <1>1, <1>5
        <5>2. /\ t \in DOMAIN progress' <=> t \in DOMAIN progress
              /\ t \in DOMAIN progress => progress'[t] = progress[t]
          BY <5>1 DEF AddProgress
        <5> QED BY <5>2 DEF Reported
      <4> QED BY <4>1, <4>2
    <3>3. Conserves(S, Reported(t)')
      BY <3>2 DEF Balanced
    <3> QED BY <3>1, <3>3
  <2> QED BY <2>1, <2>2
<1>7. PICK fs : /\ Conserves(fs, Reported(t)') /\ DOMAIN fs = DOMAIN S \ {x}
                /\ \A s \in DOMAIN fs : fs[s] = S[s]
  BY <1>6
<1> DEFINE gs == Shares(t)'
           up(s) == IF s[1] = "sent" /\ s[2][1] = w THEN <<"sent", <<w, s[2][2] - 1>>>> ELSE s
           h == [s \in DOMAIN fs |-> up(s)]
<1>8. /\ \A i \in Unfinished(t) : up(<<"item", i>>) = <<"item", i>>
      /\ \A v, n : v # w => up(<<"sent", <<v, n>>>>) = <<"sent", <<v, n>>>>
      /\ \A n : up(<<"sent", <<w, n>>>>) = <<"sent", <<w, n - 1>>>>
  OBVIOUS
<1> HIDE DEF up
<1>9. ASSUME NEW s \in DOMAIN fs
      PROVE  \/ \E i \in Unfinished(t) : s = <<"item", i>>
             \/ \E v \in Workers \ {w} : \E n \in DOMAIN chan[v] : s = <<"sent", <<v, n>>>> /\ <<v, n>> \in Unread(t)
             \/ \E n \in DOMAIN chan[w] : n # 1 /\ s = <<"sent", <<w, n>>>> /\ <<w, n>> \in Unread(t)
  <2>1. s \in DOMAIN S /\ s # x
    BY <1>7
  <2>2. CASE \E i \in Unfinished(t) : s = <<"item", i>>
    BY <2>2
  <2>3. CASE \E u \in Unread(t) : s = <<"sent", u>>
    <3>1. PICK u \in Unread(t) : s = <<"sent", u>>
      BY <2>3
    <3>2. PICK v \in Workers : \E n \in DOMAIN chan[v] : u = <<v, n>>
      BY UnreadFacts
    <3>3. PICK n \in DOMAIN chan[v] : u = <<v, n>>
      BY <3>2
    <3>4. ~(v = w /\ n = 1)
      BY <2>1, <3>1, <3>3
    <3> QED BY <3>1, <3>3, <3>4
  <2> QED BY <2>1, <2>2, <2>3, <1>2 DEF SharesOK
<1>10. ASSUME NEW s \in DOMAIN fs PROVE up(s) \in DOMAIN gs /\ gs[up(s)] = fs[s]
  <2>1. CASE \E i \in Unfinished(t) : s = <<"item", i>>
    BY <2>1, <1>2, <1>3, <1>7, <1>8 DEF SharesOK
  <2>2. ASSUME NEW v \in Workers \ {w}, NEW n \in DOMAIN chan[v], s = <<"sent", <<v, n>>>>, <<v, n>> \in Unread(t)
        PROVE  up(s) \in DOMAIN gs /\ gs[up(s)] = fs[s]
    <3>1. <<v, n>> \in Unread(t)' /\ chan'[v] = chan[v]
      BY <2>2, <1>0, RecvFacts, UnreadFacts
    <3>2. fs[s] = chan[v][n].frac
      BY <2>2, <1>2, <1>7 DEF SharesOK
    <3>3. s \in DOMAIN gs /\ gs[s] = chan'[v][n].frac
      BY <2>2, <3>1, <1>2 DEF SharesOK
    <3> QED BY <3>1, <3>2, <3>3, <2>2, <1>8
  <2>3. ASSUME NEW n \in DOMAIN chan[w], n # 1, s = <<"sent", <<w, n>>>>, <<w, n>> \in Unread(t)
        PROVE  up(s) \in DOMAIN gs /\ gs[up(s)] = fs[s]
    <3>0. n - 1 \in DOMAIN chan'[w] /\ chan'[w][n - 1] = chan[w][n]
      BY <2>3, <1>0, RecvFacts
    <3>1. <<w, n - 1>> \in Unread(t)'
      BY <2>3, <3>0, UnreadFacts
    <3>2. fs[s] = chan[w][n].frac
      BY <2>3, <1>2, <1>7 DEF SharesOK
    <3> DEFINE u == <<w, n - 1>>
    <3>3. up(s) = <<"sent", u>> /\ u[1] = w /\ u[2] = n - 1
      BY <2>3, <1>8
    <3>4. u \in Unread(t)'
      BY <3>1
    <3> HIDE DEF u
    <3>5. up(s) \in DOMAIN gs /\ gs[up(s)] = chan'[u[1]][u[2]].frac
      BY <3>3, <3>4, <1>2 DEF SharesOK
    <3> QED BY <3>0, <3>2, <3>3, <3>5
  <2> QED BY <2>1, <2>2, <2>3, <1>9
<1>11. ASSUME NEW r \in DOMAIN fs, NEW s \in DOMAIN fs, up(r) = up(s) PROVE r = s
  <2> DEFINE down(g) == IF g[1] = "sent" /\ g[2][1] = w THEN <<"sent", <<w, g[2][2] + 1>>>> ELSE g
  <2>1. /\ \A i \in Unfinished(t) : down(<<"item", i>>) = <<"item", i>>
        /\ \A v, n : v # w => down(<<"sent", <<v, n>>>>) = <<"sent", <<v, n>>>>
        /\ \A n : down(<<"sent", <<w, n>>>>) = <<"sent", <<w, n + 1>>>>
    OBVIOUS
  <2> HIDE DEF down
  <2>2. \A n \in DOMAIN chan[w] : (n - 1) + 1 = n
    BY <1>0, RecvFacts
  <2>3. ASSUME NEW n \in DOMAIN chan[w], NEW q \in DOMAIN fs, q = <<"sent", <<w, n>>>> PROVE down(up(q)) = q
    BY <2>1, <2>2, <2>3, <1>8
  <2>4. ASSUME NEW q \in DOMAIN fs PROVE down(up(q)) = q
    <3>1. CASE \E i \in Unfinished(t) : q = <<"item", i>>
      BY <3>1, <2>1, <1>8
    <3>2. CASE \E v \in Workers \ {w} : \E n \in DOMAIN chan[v] : q = <<"sent", <<v, n>>>> /\ <<v, n>> \in Unread(t)
      BY <3>2, <2>1, <1>8
    <3> QED BY <3>1, <3>2, <2>3, <1>9
  <2> QED BY <2>4, <1>11
<1>12. ASSUME NEW g \in DOMAIN gs PROVE \E s \in DOMAIN fs : up(s) = g
  <2>1. CASE \E i \in Unfinished(t)' : g = <<"item", i>>
    <3>1. PICK i \in Unfinished(t)' : g = <<"item", i>>
      BY <2>1
    <3>2. g \in DOMAIN S /\ g # x
      BY <3>1, <1>2, <1>3 DEF SharesOK
    <3>3. up(g) = g
      BY <3>1, <1>3, <1>8
    <3> QED BY <3>2, <3>3, <1>7
  <2>2. CASE \E u \in Unread(t)' : g = <<"sent", u>>
    <3>1. PICK u \in Unread(t)' : g = <<"sent", u>>
      BY <2>2
    <3>2. PICK v \in Workers : \E n \in DOMAIN chan'[v] : u = <<v, n>>
      BY UnreadFacts
    <3>3. PICK n \in DOMAIN chan'[v] : u = <<v, n>>
      BY <3>2
    <3>4. CASE v # w
      <4>1. chan'[v] = chan[v]
        BY <3>4, <1>0, RecvFacts
      <4>2. <<v, n>> \in Unread(t)
        BY <3>1, <3>3, <4>1, UnreadFacts
      <4>3. g \in DOMAIN S /\ g # x
        BY <3>1, <3>3, <3>4, <4>2, <1>2 DEF SharesOK
      <4>4. up(g) = g
        BY <3>1, <3>3, <3>4, <1>8
      <4> QED BY <4>3, <4>4, <1>7
    <3>5. CASE v = w
      <4>1. n + 1 \in DOMAIN chan[w] /\ chan'[w][n] = chan[w][n + 1] /\ n + 1 # 1 /\ (n + 1) - 1 = n
        BY <3>5, <1>0, RecvFacts
      <4>2. <<w, n + 1>> \in Unread(t)
        BY <3>1, <3>3, <3>5, <4>1, UnreadFacts
      <4> DEFINE s == <<"sent", <<w, n + 1>>>>
      <4>3. s \in DOMAIN S /\ s # x
        BY <4>1, <4>2, <1>2 DEF SharesOK
      <4>4. up(s) = g
        BY <3>1, <3>3, <3>5, <4>1, <1>8
      <4> QED BY <4>3, <4>4, <1>7
    <3> QED BY <3>4, <3>5
  <2> QED BY <2>1, <2>2, <1>2 DEF SharesOK
<1>13. gs \in [DOMAIN gs -> Fractions]
  BY <1>2 DEF SharesOK, PosFraction, Fractions
<1> HIDE DEF gs, x, S
<1>14. h \in Bijection(DOMAIN fs, DOMAIN gs) /\ \A s \in DOMAIN fs : gs[h[s]] = fs[s]
  BY <1>10, <1>11, <1>12 DEF Bijection, Injection, IsInjective, Surjection
<1> HIDE DEF h
<1>15. Conserves(gs, Reported(t)')
  BY <1>7, <1>13, <1>14, RenameShares
<1> QED BY <1>15 DEF Balanced, gs

(* No step of the pool creates or loses a part of a task.                  *)
LEMMA BalanceStep == ASSUME NEW t, PoolOK, PoolStep, Balanced(t) PROVE Balanced(t)'
<1>0. WorkOK /\ ScanOK /\ ItemsOK /\ ExecOK /\ ChanOK /\ ItemsOK' /\ ChanOK'
  BY PoolKeeps DEF PoolOK, WorkOK
<1>1. ASSUME Shares(t)' = Shares(t), UNCHANGED progress PROVE Balanced(t)'
  BY <1>1 DEF Balanced, Reported
<1>2. ASSUME UNCHANGED <<items, unsent, chan, progress>> PROVE Balanced(t)'
  <2>1. Unfinished(t)' = Unfinished(t)
    BY <1>2 DEF Unfinished
  <2> QED BY <2>1, <1>1, <1>2, SameShares
<1>3. ASSUME NEW w \in Workers, Register(w) \/ StartScan(w) \/ Advance(w) \/ EndScan(w)
                                 \/ RecvPoke(w) \/ RecvKill(w)
      PROVE  Balanced(t)'
  <2>1. UNCHANGED <<items, unsent, chan, progress>>
    BY <1>3 DEF Register, StartScan, Advance, EndScan, RecvPoke, RecvKill, mainVars
  <2> QED BY <2>1, <1>2
<1>4. ASSUME NEW w \in Workers, PopLocal(w) \/ Steal(w) \/ StealGlobal(w) PROVE Balanced(t)'
  <2>1. UNCHANGED <<unsent, chan, progress>>
    BY <1>4 DEF PopLocal, Steal, StealGlobal, mainVars
  <2>2. MoveStep
    <3>1. CASE PopLocal(w) \/ Steal(w)
      <4>1. /\ wpc[w] # "run"
            /\ \E from \in {Global} \cup {Local(v) : v \in Workers} :
                 \E i \in items[from] : Take(w, from, i)
        BY <3>1, <1>0, TakeParts
      <4> QED BY <4>1, <1>0, TakeMoves
    <3>2. CASE StealGlobal(w)
      BY <3>2, <1>0, StealGlobalMoves
    <3> QED BY <1>4, <3>1, <3>2
  <2> QED BY <2>1, <2>2, <1>0, <1>1, MoveShares
<1>5. ASSUME NEW w \in Workers, Jump(w) \/ Monomorphize(w) PROVE Balanced(t)'
  <2>1. UNCHANGED <<unsent, chan, progress>>
    BY <1>5 DEF Jump, Monomorphize, mainVars
  <2>2. ForkStep
    BY <1>0, <1>5, ForkParts, ForkForks
  <2> QED BY <2>1, <2>2, <1>0, ForkBalance
<1>6. ASSUME NEW w \in Workers, Collect(w) PROVE Balanced(t)'
  <2>1. UNCHANGED progress
    BY <1>6 DEF Collect, mainVars
  <2> QED BY <2>1, <1>1, <1>6, CollectShares
<1>7. ASSUME NEW w \in Workers, SendIdle(w) PROVE Balanced(t)'
  <2>1. Idle \in Messages /\ Idle.type # "Finished"
    BY DEF Idle, Messages
  <2>2. Send(w, Idle) /\ UNCHANGED <<items, unsent, progress>>
    BY <1>7 DEF SendIdle, mainVars
  <2>3. Unfinished(t)' = Unfinished(t)
    BY <2>2 DEF Unfinished
  <2> QED BY <2>1, <2>2, <2>3, <1>0, <1>1, SendOther
<1>8. ASSUME NEW w \in Workers, SendFinished(w) PROVE Balanced(t)'
  BY <1>0, <1>8, FinishBalance
<1>9. ASSUME NEW w \in Workers, MainRecv(w) PROVE Balanced(t)'
  BY <1>0, <1>9, RecvBalance
<1>10. CASE Quiet
  BY <1>2, <1>10 DEF Quiet
<1> QED
  BY <1>3, <1>4, <1>5, <1>6, <1>7, <1>8, <1>9, <1>10
  DEF PoolStep, Worker, FindTask, DoWork, Message

(* A task starts as a single share: the whole of it.                       *)
LEMMA NewTaskBalance ==
  ASSUME NEW t, ItemsOK, ChanOK, Unfinished(t) = {NewTask(t)}, Unread(t) = {}, Reported(t) = zero
  PROVE  Balanced(t)
<1> DEFINE fs == Shares(t)
           x == <<"item", NewTask(t)>>
<1>1. SharesOK(t) /\ NewTask(t).frac = one
  BY ShareFacts DEF NewTask
<1>2. DOMAIN fs = {x} /\ fs[x] = one
  BY <1>1 DEF SharesOK
<1>3. one \in Fractions /\ zero \in Fractions
  BY DEF one, zero, Fractions
<1>4. fs \in [DOMAIN fs -> Fractions]
  BY <1>1 DEF SharesOK, PosFraction, Fractions
<1> HIDE DEF fs, x
<1>5. IsShares(fs)
  BY <1>2, <1>4, FS_Singleton DEF IsShares
<1>6. total(fs) = add_assign(one, total(Without(fs, x))) /\ IsShares(Without(fs, x))
  BY <1>2, <1>5, TotalFacts
<1>7. total(Without(fs, x)) = zero
  <2>1. DOMAIN Without(fs, x) = {}
    BY <1>2 DEF Without
  <2> QED BY <1>6, <2>1, TotalFacts
<1>8. add_assign(total(fs), zero) = one
  BY <1>3, <1>6, <1>7, AddLaws
<1>9. is_one(one)
  <2>1. 2^0 = 1
    OBVIOUS
  <2> QED BY <2>1 DEF is_one, one
<1> QED BY <1>3, <1>5, <1>8, <1>9 DEF Balanced, Conserves, fs

(* When main has counted a whole task, nothing of it is left in the pool.  *)
LEMMA NothingLeft ==
  ASSUME NEW t, PoolOK, Balanced(t), is_one(Reported(t))
  PROVE  Unfinished(t) = {} /\ Unread(t) = {}
<1>1. SharesOK(t)
  BY ShareFacts DEF PoolOK, WorkOK
<1>2. \A s \in DOMAIN Shares(t) : Shares(t)[s].num # 0
  BY <1>1 DEF SharesOK, PosFraction
<1>3. DOMAIN Shares(t) = {}
  BY <1>2, NoShareLeft DEF Balanced
<1> QED BY <1>1, <1>3 DEF SharesOK

(* The pool starts with one item for each task, a whole task.              *)
LEMMA PoolInitOK ==
  ASSUME NEW T \in SUBSET TaskIds, PoolInit(T)
  PROVE  PoolOK /\ \A t \in T : Balanced(t)
<1> USE DEF PoolInit
<1>0. /\ items[Global] = {NewTask(t) : t \in T} /\ \A p \in Places \ {Global} : items[p] = {}
      /\ Global \in Pending
  BY PlaceFacts, PendingFacts
<1>1. \A t \in TaskIds : NewTask(t) \in Items /\ NewTask(t).id = t
  BY DEF NewTask, Items, one
<1>2. ItemsOK
  BY <1>1 DEF ItemsOK
<1>3. PcOK /\ ExecOK
  BY <1>0, PlaceFacts DEF PcOK, ExecOK
<1>4. stealers \in Seq(Workers) /\ chan \in [Workers -> Seq(Messages)] /\ at \in [Workers -> Nat \ {0}]
  OBVIOUS
<1>5. ScanOK /\ ChanOK /\ ReportOK
  BY <1>4 DEF ScanOK, ChanOK, ReportOK
<1>6. PathsDistinct
  <2>1. \A p \in Places : \A i \in items[p] : p = Global /\ \E t \in T : i = NewTask(t)
    BY <1>0
  <2> QED BY <1>1, <2>1 DEF PathsDistinct
<1>7. ASSUME NEW t \in T PROVE Balanced(t)
  <2>1. \A i : i \in Unfinished(t) <=> i = NewTask(t)
    BY <1>0, <1>1, UnfinishedFacts, PendingFacts
  <2>2. Unfinished(t) = {NewTask(t)}
    BY <2>1
  <2>3. Unread(t) = {}
    <3>1. \A v \in Workers : DOMAIN chan[v] = {}
      OBVIOUS
    <3> QED BY <3>1, UnreadFacts
  <2>4. Reported(t) = zero
    BY DEF Reported
  <2> QED BY <1>2, <1>5, <2>2, <2>3, <2>4, NewTaskBalance
<1> QED BY <1>2, <1>3, <1>5, <1>6, <1>7 DEF PoolOK, WorkOK

=============================================================================
