-------------------------- MODULE StartMultiProofs --------------------------
(***************************************************************************)
(* start_multi loses no work: proofs for any number of workers, tasks and  *)
(* inputs.                                                                 *)
(***************************************************************************)
EXTENDS StartMulti, PoolProofs

-----------------------------------------------------------------------------
(* What the actions do to the items.                                       *)

(* find_task moves items S to one place and T to another: nobody gains or  *)
(* loses an input.                                                         *)
LEMMA MoveKeepsPartition ==
  ASSUME PathsPartition, items \in [Places -> SUBSET Items],
         NEW p \in Places, NEW q \in Places, NEW r \in Places,
         p # q, p # r, q # r,
         NEW S \in SUBSET items[p], NEW T \in SUBSET items[p], S \cap T = {},
         items' = [items EXCEPT ![p] = @ \ (S \cup T), ![q] = @ \cup S, ![r] = @ \cup T]
  PROVE  PathsPartition'
<1> SUFFICES ASSUME NEW t \in TaskIds, NEW x \in Inputs
             PROVE  /\ \E a \in Places : \E i \in items'[a] : Holds(a, i, t, x)'
                    /\ \A a, b \in Places : \A i \in items'[a], j \in items'[b] :
                         Holds(a, i, t, x)' /\ Holds(b, j, t, x)' => a = b /\ i = j
  BY DEF PathsPartition
<1> DEFINE src(a, i) == IF (a = q /\ i \in S) \/ (a = r /\ i \in T) THEN p ELSE a
<1>1. /\ items'[p] = items[p] \ (S \cup T)
      /\ items'[q] = items[q] \cup S
      /\ items'[r] = items[r] \cup T
      /\ \A a \in Places \ {p, q, r} : items'[a] = items[a]
  OBVIOUS
<1>2. \A a \in Places : \A i \in items'[a] : i \in items[src(a, i)] /\ src(a, i) \in Places
  BY <1>1
<1>3. PICK a0 \in Places : \E i \in items[a0] : Holds(a0, i, t, x)
  BY DEF PathsPartition
<1>4. PICK i0 \in items[a0] : i0.id = t /\ x \in i0.models
  BY <1>3 DEF Holds
<1>5. \E a \in Places : \E i \in items'[a] : Holds(a, i, t, x)'
  <2>1. CASE a0 = p /\ i0 \in S
    BY <1>1, <1>4, <2>1 DEF Holds
  <2>2. CASE a0 = p /\ i0 \in T
    BY <1>1, <1>4, <2>2 DEF Holds
  <2>3. CASE ~(a0 = p /\ i0 \in S) /\ ~(a0 = p /\ i0 \in T)
    BY <1>1, <1>4, <2>3 DEF Holds
  <2> QED BY <2>1, <2>2, <2>3
<1>6. ASSUME NEW a \in Places, NEW b \in Places, NEW i \in items'[a], NEW j \in items'[b],
             Holds(a, i, t, x)', Holds(b, j, t, x)'
      PROVE  a = b /\ i = j
  <2>1. src(a, i) = src(b, j) /\ i = j
    BY <1>2, <1>6 DEF PathsPartition, Holds
  <2>2. a = b
    BY <2>1, <1>1, <1>2
  <2> QED BY <2>1, <2>2
<1> QED BY <1>5, <1>6

(* A fork splits the inputs of the running item between two items.         *)
LEMMA ForkKeepsPartition ==
  ASSUME PathsPartition, items \in [Places -> SUBSET Items],
         NEW p \in Places, NEW q \in Places, p # q,
         NEW i, NEW k, NEW c, items[p] = {i},
         k.id = i.id, c.id = i.id,
         k.models \cup c.models = i.models, k.models \cap c.models = {},
         items' = [items EXCEPT ![p] = {k}, ![q] = @ \cup {c}]
  PROVE  PathsPartition'
<1> SUFFICES ASSUME NEW t \in TaskIds, NEW x \in Inputs
             PROVE  /\ \E a \in Places : \E u \in items'[a] : Holds(a, u, t, x)'
                    /\ \A a, b \in Places : \A u \in items'[a], v \in items'[b] :
                         Holds(a, u, t, x)' /\ Holds(b, v, t, x)' => a = b /\ u = v
  BY DEF PathsPartition
<1>1. /\ items'[p] = {k}
      /\ items'[q] = items[q] \cup {c}
      /\ \A a \in Places \ {p, q} : items'[a] = items[a]
  OBVIOUS
<1>2. PICK a0 \in Places : \E u \in items[a0] : Holds(a0, u, t, x)
  BY DEF PathsPartition
<1>3. PICK u0 \in items[a0] : u0.id = t /\ x \in u0.models
  BY <1>2 DEF Holds
<1>4. \A a \in Places : \A u \in items[a] :
        u.id = t /\ x \in u.models => a = a0 /\ u = u0
  BY <1>3 DEF PathsPartition, Holds
<1>5. CASE a0 = p
  <2>1. u0 = i
    BY <1>3, <1>5
  <2>2. CASE x \in k.models
    <3>1. k.id = t /\ ~(x \in c.models)
      BY <2>1, <2>2, <1>3
    <3>2. \A a \in Places : \A u \in items'[a] :
            u.id = t /\ x \in u.models => a = p /\ u = k
      BY <1>1, <1>4, <1>5, <3>1
    <3> QED BY <1>1, <2>2, <3>1, <3>2 DEF Holds
  <2>3. CASE x \in c.models
    <3>1. c.id = t /\ ~(x \in k.models)
      BY <2>1, <2>3, <1>3
    <3>2. \A a \in Places : \A u \in items'[a] :
            u.id = t /\ x \in u.models => a = q /\ u = c
      BY <1>1, <1>4, <1>5, <3>1
    <3> QED BY <1>1, <2>3, <3>1, <3>2 DEF Holds
  <2> QED BY <2>1, <2>2, <2>3, <1>3
<1>6. CASE a0 # p
  <2>1. ~(i.id = t /\ x \in i.models)
    BY <1>4, <1>6
  <2>2. ~(k.id = t /\ x \in k.models) /\ ~(c.id = t /\ x \in c.models)
    BY <2>1
  <2>3. u0 \in items'[a0]
    BY <1>1, <1>3, <1>6
  <2>4. \A a \in Places : \A u \in items'[a] :
          u.id = t /\ x \in u.models => a = a0 /\ u = u0
    BY <1>1, <1>4, <2>2
  <2> QED BY <2>3, <2>4, <1>3 DEF Holds
<1> QED BY <1>5, <1>6

-----------------------------------------------------------------------------
(* Type correctness.                                                       *)

(* Init establishes the types: tasks are whole and nothing runs.           *)
LEMMA TypeInit == Init => TypeOK /\ PathsDistinct /\ \A t \in TaskIds : Balanced(t)
<1> SUFFICES ASSUME Init PROVE TypeOK /\ PathsDistinct /\ \A t \in TaskIds : Balanced(t)
  OBVIOUS
<1>1. PoolOK /\ \A t \in TaskIds : Balanced(t)
  BY PoolInitOK DEF Init
<1>2. poke \in [Workers -> 0..MaxPokes]
  BY PoolAssumption DEF Init, PoolInit
<1>3. MainOK
  BY <1>2 DEF Init, PoolInit, MainOK
<1> QED BY <1>1, <1>3 DEF TypeOK, PoolOK, WorkOK

(* Every step of start_multi is one of the pool.                           *)
LEMMA StepsOfPool == [Next]_poolVars => PoolStep
BY DEF Next, Main, MainRound, Joined, poolVars, PoolStep, Quiet

-----------------------------------------------------------------------------
(* The inductive invariant, and one lemma per action that touches items.   *)

IInv == /\ TypeOK /\ PathsPartition /\ IdleIsDrained /\ PathsDistinct
        /\ \A t \in TaskIds : Balanced(t)

\* What an action must keep of the items' part of IInv.
KeepsWork == PathsPartition' /\ IdleIsDrained'

(* A step that moves no item keeps the partition.                          *)
LEMMA SameItems == PathsPartition /\ UNCHANGED items => PathsPartition'
BY DEF PathsPartition, Holds

(* Taking an item from a queue to run it keeps the partition.              *)
LEMMA TakeKeeps ==
  ASSUME IInv, NEW w \in Workers, NEW from \in {Global} \cup {Local(v) : v \in Workers},
         wpc[w] \in {"find", "scan"}, wpc' = [wpc EXCEPT ![w] = "run"],
         NEW i \in items[from], Take(w, from, i),
         UNCHANGED stealers,
         \A v \in Workers \ {w} : at'[v] = at[v] /\ again'[v] = again[v]
  PROVE  KeepsWork
<1>0. WorkOK /\ ItemsOK /\ PcOK /\ ExecOK /\ wpc[w] # "run" /\ from \in Places
  BY PlaceFacts DEF IInv, TypeOK, WorkOK
<1>1. /\ \A v \in Workers : from # Exec(v)
      /\ from # Collected /\ Collected # Exec(w)
      /\ Exec(w) \in Places /\ Collected \in Places /\ Global \in Places
      /\ Exec(w) # Global /\ \A v \in Workers : Local(v) # Exec(w) /\ Local(v) \in Places
  BY PlaceFacts
<1>3. PathsPartition'
  <2>1. items[Exec(w)] = {}
    BY <1>0 DEF ExecOK
  <2> DEFINE S == {i}
             T == {}
  <2>2. /\ S \in SUBSET items[from] /\ T \in SUBSET items[from] /\ S \cap T = {}
        /\ items \in [Places -> SUBSET Items] /\ PathsPartition
    BY <1>0 DEF IInv, ItemsOK
  <2>3. items' = [items EXCEPT ![from] = @ \ (S \cup T), ![Exec(w)] = @ \cup S,
                               ![Collected] = @ \cup T]
    BY <2>1, <1>0, <1>1 DEF Take, ItemsOK
  <2> HIDE DEF S, T
  <2>4. /\ from \in Places /\ Exec(w) \in Places /\ Collected \in Places
        /\ from # Exec(w) /\ from # Collected /\ Exec(w) # Collected
    BY <1>0, <1>1
  <2> QED BY ONLY <2>2, <2>3, <2>4, MoveKeepsPartition
<1>4. \A p \in Places \ {Exec(w)} : items'[p] \subseteq items[p]
  BY <1>0, <1>1 DEF Take, ItemsOK
<1>5. IdleIsDrained'
  <2> SUFFICES ASSUME NEW v \in Workers
               PROVE  /\ wpc'[v] \in {"scan", "idle", "wait", "exit"} => items'[Local(v)] = {}
                      /\ NoneFound(v)' => items'[Global] = {}
    BY DEF IdleIsDrained
  <2>1. CASE v = w
    BY <2>1, <1>0 DEF PcOK, NoneFound
  <2>2. CASE v # w
    <3>1. wpc'[v] = wpc[v] /\ (NoneFound(v)' => NoneFound(v))
      BY <2>2, <1>0 DEF PcOK, NoneFound
    <3> QED BY <3>1, <1>1, <1>4 DEF IInv, IdleIsDrained
  <2> QED BY <2>1, <2>2
<1> QED BY <1>3, <1>5 DEF KeepsWork

(* steal_batch_and_pop, one item to run and a batch to the local queue,    *)
(* keeps the partition.                                                    *)
LEMMA StealGlobalKeeps ==
  ASSUME IInv, NEW w \in Workers, StealGlobal(w)
  PROVE  KeepsWork
<1>0. WorkOK /\ ItemsOK /\ PcOK /\ ExecOK /\ PathsPartition
  BY DEF IInv, TypeOK, WorkOK
<1>a. PICK i \in items[Global] : \E batch \in SUBSET (items[Global] \ {i}) :
        items' = [items EXCEPT ![Global] = @ \ (batch \cup {i}),
                               ![Local(w)] = @ \cup batch,
                               ![Exec(w)] = {i}]
  BY DEF StealGlobal
<1>1. PICK batch \in SUBSET (items[Global] \ {i}) :
        items' = [items EXCEPT ![Global] = @ \ (batch \cup {i}),
                               ![Local(w)] = @ \cup batch,
                               ![Exec(w)] = {i}]
  BY <1>a
<1>2. wpc[w] = "scan" /\ wpc' = [wpc EXCEPT ![w] = "run"]
  BY DEF StealGlobal, Goto
<1>3. /\ Exec(w) \in Places /\ Local(w) \in Places /\ Global \in Places
      /\ Exec(w) # Global /\ Local(w) # Global /\ Local(w) # Exec(w)
      /\ \A v \in Workers \ {w} : /\ Exec(v) # Exec(w) /\ Exec(v) # Local(w)
                                 /\ Exec(v) # Global /\ Exec(v) \in Places
                                 /\ Local(v) # Exec(w) /\ Local(v) # Local(w)
                                 /\ Local(v) # Global /\ Local(v) \in Places
  BY PlaceFacts
<1>4. items[Exec(w)] = {}
  BY <1>0, <1>2 DEF ExecOK
<1>5. items' = [items EXCEPT ![Global] = @ \ (batch \cup {i}),
                             ![Local(w)] = @ \cup batch,
                             ![Exec(w)] = @ \cup {i}]
  BY <1>0, <1>1, <1>3, <1>4 DEF ItemsOK
<1>6. PathsPartition'
  <2>1. /\ batch \in SUBSET items[Global] /\ {i} \in SUBSET items[Global]
        /\ batch \cap {i} = {} /\ items \in [Places -> SUBSET Items]
    BY <1>0 DEF ItemsOK
  <2> QED BY <2>1, <1>0, <1>3, <1>5, MoveKeepsPartition
<1>8. /\ items'[Exec(w)] = {i}
      /\ \A v \in Workers \ {w} : /\ items'[Exec(v)] = items[Exec(v)]
                                 /\ items'[Local(v)] = items[Local(v)]
      /\ items'[Global] \subseteq items[Global]
  BY <1>0, <1>1, <1>3 DEF ItemsOK
<1>10. IdleIsDrained'
  <2> SUFFICES ASSUME NEW v \in Workers
               PROVE  /\ wpc'[v] \in {"scan", "idle", "wait", "exit"} => items'[Local(v)] = {}
                      /\ NoneFound(v)' => items'[Global] = {}
    BY DEF IdleIsDrained
  <2>1. CASE v = w
    BY <2>1, <1>0, <1>2 DEF PcOK, NoneFound
  <2>2. CASE v # w
    <3>0. ScanOK
      BY DEF IInv, TypeOK
    <3>1. stealers' = stealers /\ at'[v] = at[v] /\ again'[v] = again[v]
      BY <2>2, <3>0 DEF StealGlobal, Rewind, ScanOK
    <3>2. wpc'[v] = wpc[v] /\ (NoneFound(v)' => NoneFound(v))
      BY <2>2, <3>1, <1>0, <1>2 DEF PcOK, NoneFound
    <3> QED BY <3>2, <2>2, <1>8 DEF IInv, IdleIsDrained
  <2> QED BY <2>1, <2>2
<1> QED BY <1>6, <1>10 DEF KeepsWork

(* A fork of the running item, by Jump or Monomorphize, keeps the          *)
(* partition.                                                              *)
LEMMA ForkKeeps ==
  ASSUME IInv, NEW w \in Workers, wpc[w] = "run",
         UNCHANGED <<wpc, stealers, at, again>>,
         NEW i \in items[Exec(w)], NEW f, NEW g, NEW b \in SUBSET i.models,
         ForkItem(w, Branch(i, 0, b, f), Branch(i, 1, i.models \ b, g))
  PROVE  KeepsWork
<1>0. WorkOK /\ ItemsOK /\ ExecOK /\ PathsPartition
  BY DEF IInv, TypeOK, WorkOK
<1> DEFINE k == Branch(i, 0, b, f)
           c == Branch(i, 1, i.models \ b, g)
<1>2. /\ k.id = i.id /\ c.id = i.id
      /\ k.models \cup c.models = i.models /\ k.models \cap c.models = {}
  BY DEF Branch
<1>3. items' = [items EXCEPT ![Exec(w)] = {k}, ![Local(w)] = @ \cup {c}]
  BY DEF ForkItem
<1> HIDE DEF k, c
<1>4. /\ Exec(w) \in Places /\ Local(w) \in Places /\ Exec(w) # Local(w)
      /\ Global \in Places /\ Global # Exec(w) /\ Global # Local(w)
      /\ \A v \in Workers \ {w} : /\ Local(v) \in Places /\ Local(v) # Local(w)
                                 /\ Local(v) # Exec(w)
  BY PlaceFacts
<1>5. items[Exec(w)] = {i} /\ items \in [Places -> SUBSET Items]
  BY <1>0 DEF ExecOK, ItemsOK
<1>6. PathsPartition'
  BY ONLY <1>0, <1>2, <1>3, <1>4, <1>5, ForkKeepsPartition
<1>7. /\ items'[Global] = items[Global]
      /\ \A v \in Workers \ {w} : items'[Local(v)] = items[Local(v)]
  BY <1>3, <1>4, <1>5
<1>8. IdleIsDrained'
  BY <1>7 DEF IInv, IdleIsDrained, NoneFound
<1> QED BY <1>6, <1>8 DEF KeepsWork

(* Handing in the running item to the collector keeps the partition.       *)
LEMMA CollectKeeps ==
  ASSUME IInv, NEW w \in Workers, Collect(w)
  PROVE  KeepsWork
<1>0. WorkOK /\ ItemsOK /\ PcOK /\ ExecOK /\ PathsPartition
  BY DEF IInv, TypeOK, WorkOK
<1>1. /\ wpc[w] = "run" /\ wpc' = [wpc EXCEPT ![w] = "report"]
      /\ items' = [items EXCEPT ![Collected] = @ \cup items[Exec(w)], ![Exec(w)] = {}]
      /\ UNCHANGED <<stealers, at, again>>
  BY DEF Collect, Goto
<1>2. /\ Exec(w) \in Places /\ Collected \in Places /\ Global \in Places
      /\ Exec(w) # Collected /\ Exec(w) # Global /\ Collected # Global
      /\ \A v \in Workers : /\ Local(v) \in Places /\ Local(v) # Exec(w)
                           /\ Local(v) # Collected
      /\ \A v \in Workers \ {w} : /\ Exec(v) \in Places /\ Exec(v) # Exec(w)
                                 /\ Exec(v) # Collected
  BY PlaceFacts
<1>4. /\ items'[Exec(w)] = {} /\ items'[Global] = items[Global]
      /\ \A v \in Workers \ {w} : items'[Exec(v)] = items[Exec(v)]
      /\ \A v \in Workers : items'[Local(v)] = items[Local(v)]
  BY <1>0, <1>1, <1>2 DEF ItemsOK
<1>6. PathsPartition'
  <2> DEFINE S == items[Exec(w)]
             T == {}
  <2>1. /\ S \in SUBSET items[Exec(w)] /\ T \in SUBSET items[Exec(w)] /\ S \cap T = {}
        /\ items \in [Places -> SUBSET Items]
    BY <1>0 DEF ItemsOK
  <2>2. items' = [items EXCEPT ![Exec(w)] = @ \ (S \cup T), ![Collected] = @ \cup S,
                               ![Global] = @ \cup T]
    BY <1>0, <1>1, <1>2 DEF ItemsOK
  <2> HIDE DEF S, T
  <2> QED BY ONLY <2>1, <2>2, <1>0, <1>2, MoveKeepsPartition
<1>7. IdleIsDrained'
  BY <1>0, <1>1, <1>4 DEF IInv, IdleIsDrained, NoneFound, PcOK
<1> QED BY <1>6, <1>7 DEF KeepsWork

(* Every step of a worker or of main keeps the items' part of IInv.        *)
LEMMA WorkStep == ASSUME IInv, [Next]_poolVars PROVE KeepsWork
<1>0. WorkOK /\ PathsPartition /\ IdleIsDrained /\ ItemsOK /\ PcOK /\ ExecOK /\ ScanOK
  BY DEF IInv, TypeOK, WorkOK
<1>1. ASSUME NEW w \in Workers, Register(w) PROVE KeepsWork
  <2>1. /\ wpc[w] = "start" /\ wpc' = [wpc EXCEPT ![w] = "find"] /\ UNCHANGED items
        /\ \A v \in Workers : wpc[v] # "scan"
    BY <1>1 DEF Register, Goto
  <2>3. IdleIsDrained'
    BY <2>1, <1>0 DEF IdleIsDrained, NoneFound, PcOK
  <2> QED BY <2>1, <2>3, <1>0, SameItems DEF KeepsWork
<1>2. ASSUME NEW w \in Workers, PopLocal(w) \/ Steal(w) PROVE KeepsWork
  BY <1>0, <1>2, TakeParts, TakeKeeps
<1>3. ASSUME NEW w \in Workers, StartScan(w) PROVE KeepsWork
  <2>1. /\ wpc[w] = "find" /\ wpc' = [wpc EXCEPT ![w] = "scan"]
        /\ items[Local(w)] = {} /\ UNCHANGED <<items, stealers>>
        /\ at'[w] = 1 /\ Len(stealers) \in Nat
        /\ \A v \in Workers \ {w} : at'[v] = at[v] /\ again'[v] = again[v]
    BY <1>0, <1>3 DEF StartScan, Goto, Rewind, ScanOK
  <2>3. IdleIsDrained'
    <3> SUFFICES ASSUME NEW v \in Workers
                 PROVE  /\ wpc'[v] \in {"scan", "idle", "wait", "exit"} => items'[Local(v)] = {}
                        /\ NoneFound(v)' => items'[Global] = {}
      BY DEF IdleIsDrained
    <3>1. CASE v = w
      BY <3>1, <2>1, <1>0 DEF NoneFound, PcOK
    <3>2. CASE v # w
      BY <3>2, <2>1, <1>0 DEF IdleIsDrained, NoneFound, PcOK
    <3> QED BY <3>1, <3>2
  <2> QED BY <2>1, <2>3, <1>0, SameItems DEF KeepsWork
<1>5. ASSUME NEW w \in Workers, StealGlobal(w) PROVE KeepsWork
  BY <1>5, StealGlobalKeeps
<1>6. ASSUME NEW w \in Workers, Advance(w) PROVE KeepsWork
  <2>1. /\ wpc[w] = "scan" /\ UNCHANGED <<items, wpc, stealers>>
        /\ at' = [at EXCEPT ![w] = at[w] + 1] /\ Len(stealers) \in Nat
        /\ \A v \in Workers \ {w} : at'[v] = at[v] /\ again'[v] = again[v]
    BY <1>0, <1>6 DEF Advance, Scanning, ScanOK
  <2>2. at'[w] = Len(stealers) + 2 /\ ~again'[w] => items[Global] = {}
    BY <1>0, <1>6, <2>1 DEF Advance, Scanning, Scanned, ScanOK
  <2>3. IdleIsDrained'
    <3> SUFFICES ASSUME NEW v \in Workers
                 PROVE  /\ wpc'[v] \in {"scan", "idle", "wait", "exit"} => items'[Local(v)] = {}
                        /\ NoneFound(v)' => items'[Global] = {}
      BY DEF IdleIsDrained
    <3>1. CASE v = w
      BY <3>1, <2>1, <2>2, <1>0 DEF IdleIsDrained, NoneFound
    <3>2. CASE v # w
      BY <3>2, <2>1, <1>0 DEF IdleIsDrained, NoneFound
    <3> QED BY <3>1, <3>2
  <2> QED BY <2>1, <2>3, <1>0, SameItems DEF KeepsWork
<1>7. ASSUME NEW w \in Workers, EndScan(w) PROVE KeepsWork
  <2>1. /\ wpc[w] = "scan" /\ at[w] = Len(stealers) + 2
        /\ wpc' = [wpc EXCEPT ![w] = IF again[w] THEN "scan" ELSE "idle"]
        /\ UNCHANGED <<items, stealers>> /\ at'[w] = 1 /\ Len(stealers) \in Nat
        /\ \A v \in Workers \ {w} : at'[v] = at[v] /\ again'[v] = again[v]
    BY <1>0, <1>7 DEF EndScan, Rewind, ScanOK
  <2>2. items[Local(w)] = {} /\ (~again[w] => items[Global] = {})
    BY <2>1, <1>0 DEF IdleIsDrained, NoneFound
  <2>3. IdleIsDrained'
    <3> SUFFICES ASSUME NEW v \in Workers
                 PROVE  /\ wpc'[v] \in {"scan", "idle", "wait", "exit"} => items'[Local(v)] = {}
                        /\ NoneFound(v)' => items'[Global] = {}
      BY DEF IdleIsDrained
    <3>1. CASE v = w
      BY <3>1, <2>1, <2>2, <1>0 DEF NoneFound, PcOK
    <3>2. CASE v # w
      BY <3>2, <2>1, <1>0 DEF IdleIsDrained, NoneFound, PcOK
    <3> QED BY <3>1, <3>2
  <2> QED BY <2>1, <2>3, <1>0, SameItems DEF KeepsWork
<1>8. ASSUME NEW w \in Workers, Jump(w) \/ Monomorphize(w) PROVE KeepsWork
  BY <1>0, <1>8, ForkParts, ForkKeeps
<1>10. ASSUME NEW w \in Workers, Collect(w) PROVE KeepsWork
  BY <1>10, CollectKeeps
<1>11. ASSUME NEW w \in Workers, Message(w) PROVE KeepsWork
  <2>1. /\ UNCHANGED <<items, stealers, at, again>>
        /\ \/ wpc[w] = "report" /\ wpc' = [wpc EXCEPT ![w] = "find"]
           \/ wpc[w] = "idle" /\ wpc' = [wpc EXCEPT ![w] = "wait"]
           \/ wpc[w] = "wait" /\ wpc' = [wpc EXCEPT ![w] = "find"]
           \/ wpc[w] = "wait" /\ wpc' = [wpc EXCEPT ![w] = "exit"]
    BY <1>11 DEF Message, SendFinished, SendIdle, RecvPoke, RecvKill, Goto
  <2>3. IdleIsDrained'
    BY <2>1, <1>0 DEF IdleIsDrained, NoneFound, PcOK
  <2> QED BY <2>1, <2>3, <1>0, SameItems DEF KeepsWork
<1>12. ASSUME UNCHANGED <<items, stealers, wpc, at, again>> PROVE KeepsWork
  <2>2. IdleIsDrained'
    BY <1>12, <1>0 DEF IdleIsDrained, NoneFound
  <2> QED BY <2>2, <1>0, <1>12, SameItems DEF KeepsWork
<1>13. CASE Main \/ Joined \/ UNCHANGED poolVars
  <2>1. UNCHANGED <<items, stealers, wpc, at, again>>
    BY <1>13 DEF Main, MainRound, MainRecv, Joined, poolVars
  <2> QED BY <2>1, <1>12
<1> QED
  BY <1>1, <1>2, <1>3, <1>5, <1>6, <1>7, <1>8, <1>10, <1>11, <1>13
  DEF Next, Worker, FindTask, DoWork

-----------------------------------------------------------------------------
(* Every step keeps the types of the main thread's state.                  *)
LEMMA MainStep == ASSUME TypeOK, [Next]_poolVars PROVE MainOK'
<1>0. MainOK /\ ChanOK
  BY DEF TypeOK
<1>1. ASSUME UNCHANGED mainVars PROVE MainOK'
  BY <1>0, <1>1 DEF MainOK, mainVars
<1>2. ASSUME NEW w \in Workers, RecvPoke(w) PROVE MainOK'
  <2>1. poke' \in [Workers -> 0..MaxPokes]
    BY <1>0, <1>2, PoolAssumption DEF RecvPoke, MainOK
  <2> QED BY <2>1, <1>0, <1>2 DEF RecvPoke, MainOK
<1>3. ASSUME NEW w \in Workers, MainRecv(w) PROVE MainOK'
  <2>1. Head(chan[w]) \in Messages
    BY <1>0, <1>3 DEF MainRecv, ChanOK
  <2>2. Head(chan[w]).type = "Idle" \/ Head(chan[w]).id \in TaskIds
    BY <2>1 DEF Messages, Idle
  <2>3. DOMAIN progress' \subseteq TaskIds
    <3>1. CASE Head(chan[w]).type = "Idle"
      BY <3>1, <1>0, <1>3 DEF MainRecv, MainOK
    <3>2. CASE Head(chan[w]).type # "Idle"
      <4>1. progress' = AddProgress(Head(chan[w]).id, Head(chan[w]).frac)
        BY <3>2, <1>3 DEF MainRecv
      <4>2. DOMAIN progress' = DOMAIN progress \cup {Head(chan[w]).id}
        BY <4>1 DEF AddProgress
      <4> QED BY <4>2, <2>2, <3>2, <1>0 DEF MainOK
    <3> QED BY <3>1, <3>2
  <2>4. isIdle' \in [Workers -> BOOLEAN]
    BY <1>0, <1>3 DEF MainRecv, MainOK
  <2> QED BY <2>3, <2>4, <1>0, <1>3 DEF MainRecv, MainOK
<1>4. CASE MainRound
  <2>1. poke' \in [Workers -> 0..MaxPokes]
    BY <1>0, <1>4, PoolAssumption DEF MainRound, PokeIdle, MainOK
  <2>2. kill' \in [Workers -> BOOLEAN] /\ mpc' \in {"recv", "done"}
    BY <1>0, <1>4 DEF MainRound, KillAll, MainOK
  <2> QED BY <2>1, <2>2, <1>0, <1>4 DEF MainRound, MainOK
<1>5. ASSUME NEW w \in Workers, Register(w) \/ FindTask(w) \/ DoWork(w) \/ SendFinished(w)
                                 \/ SendIdle(w) \/ RecvKill(w)
      PROVE  MainOK'
  <2>1. UNCHANGED mainVars
    BY <1>5 DEF Register, FindTask, PopLocal, StartScan, Steal, StealGlobal, Advance,
                EndScan, DoWork, Jump, Monomorphize, Collect, SendFinished, SendIdle, RecvKill
  <2> QED BY <2>1, <1>1
<1>6. CASE Joined \/ UNCHANGED poolVars
  <2>1. UNCHANGED mainVars
    BY <1>6 DEF Joined, poolVars, mainVars
  <2> QED BY <2>1, <1>1
<1> QED BY <1>2, <1>3, <1>4, <1>5, <1>6 DEF Next, Worker, Message, Main

-----------------------------------------------------------------------------
(* The theorems.                                                           *)

(* At the start every input of a task is on the one item queued for it.    *)
LEMMA PartitionInit == Init => PathsPartition /\ IdleIsDrained
<1> SUFFICES ASSUME Init PROVE PathsPartition /\ IdleIsDrained
  OBVIOUS
<1>1. /\ items[Global] = {NewTask(t) : t \in TaskIds}
      /\ \A p \in Places \ {Global} : items[p] = {}
  BY PlaceFacts DEF Init, PoolInit
<1>2. PathsPartition
  <2>1. \A t \in TaskIds : NewTask(t).id = t /\ NewTask(t).models = Inputs
    BY DEF NewTask
  <2>2. \A p \in Places : \A i \in items[p] :
          p = Global /\ \E t \in TaskIds : i = NewTask(t)
    BY <1>1
  <2> QED BY <1>1, <2>1, <2>2, PlaceFacts DEF PathsPartition, Holds
<1>3. IdleIsDrained
  BY DEF Init, PoolInit, IdleIsDrained, NoneFound
<1> QED BY <1>2, <1>3

(* IInv is inductive: Init establishes it and every step keeps it.         *)
LEMMA Invariance == Spec => []IInv
<1>1. Init => IInv
  BY TypeInit, PartitionInit DEF IInv
<1>2. IInv /\ [Next]_poolVars => IInv'
  <2> SUFFICES ASSUME IInv, [Next]_poolVars PROVE IInv'
    OBVIOUS
  <2>1. PoolOK /\ PoolStep /\ MainOK'
    BY StepsOfPool, MainStep DEF IInv, TypeOK, PoolOK, WorkOK
  <2>2. PoolOK' /\ \A t \in TaskIds : Balanced(t)'
    BY <2>1, PoolKeeps, BalanceStep DEF IInv
  <2>3. PathsPartition' /\ IdleIsDrained'
    BY WorkStep DEF KeepsWork
  <2> QED BY <2>1, <2>2, <2>3 DEF IInv, TypeOK, PoolOK, WorkOK
<1> QED BY <1>1, <1>2, PTL DEF Spec

(* start_multi keeps every variable in its type, for any number of workers,*)
(* tasks and inputs.                                                       *)
THEOREM TypeCorrect == Spec => []TypeOK
BY Invariance, PTL DEF IInv

(* Whatever the workers fork and steal, and in whatever order, every input *)
(* of every task is on exactly one item in exactly one place.              *)
THEOREM PartitionCorrect == Spec => []PathsPartition
BY Invariance, PTL DEF IInv

(* A worker goes idle only after the queues it could have served are empty.*)
THEOREM DrainCorrect == Spec => []IdleIsDrained
BY Invariance, PTL DEF IInv

(* When the last worker has left, every input of every task was collected, *)
(* even though main may send the Kill before any task is complete.         *)
THEOREM NoWorkLost == Spec => []NoLostWork
<1>1. IInv => NoLostWork
  <2> SUFFICES ASSUME IInv, AllExited
               PROVE  /\ \A p \in Pending : items[p] = {}
                      /\ \A t \in TaskIds, x \in Inputs :
                           \E i \in items[Collected] : Holds(Collected, i, t, x)
    BY DEF NoLostWork
  <2>1. \A w \in Workers : items[Local(w)] = {} /\ items[Global] = {}
    BY DEF IInv, IdleIsDrained, NoneFound, AllExited
  <2>2. \A w \in Workers : items[Exec(w)] = {}
    BY DEF IInv, TypeOK, ExecOK, AllExited
  <2>3. \A p \in Pending : items[p] = {}
    BY <2>1, <2>2, PlaceFacts, PoolAssumption DEF Pending
  <2>4. \A p \in Places : items[p] # {} => p = Collected
    BY <2>3 DEF Pending
  <2>5. \A t \in TaskIds, x \in Inputs :
          \E p \in Places : \E i \in items[p] : Holds(p, i, t, x)
    BY DEF IInv, PathsPartition
  <2> QED BY <2>3, <2>4, <2>5
<1> QED BY <1>1, Invariance, PTL

(* No path is executed twice and none is executed together with a          *)
(* continuation of it, however tasks are forked, stolen and batched.       *)
THEOREM DistinctCorrect == Spec => []PathsDistinct
BY Invariance, PTL DEF IInv

(* What main has counted of a task and the Fractions of its paths that are *)
(* still outstanding add up to one, exactly, at any time.                  *)
THEOREM ProgressCorrect == Spec => []ProgressConserved
<1>1. IInv => ProgressConserved
  BY DEF IInv, Balanced, Conserves, ProgressConserved, Counted
<1> QED BY <1>1, Invariance, PTL

(* When main counts a task as complete, all its paths have been collected. *)
THEOREM CompleteCorrect == Spec => []CompleteIsCollected
<1>1. IInv => CompleteIsCollected
  <2> SUFFICES ASSUME IInv, NEW t \in DOMAIN progress, is_one(progress[t]),
                      NEW p \in Pending, NEW i \in items[p]
               PROVE  i.id # t
    BY DEF CompleteIsCollected
  <2>1. PoolOK /\ t \in TaskIds
    BY DEF IInv, TypeOK, PoolOK, WorkOK, MainOK
  <2>2. Balanced(t) /\ is_one(Reported(t))
    BY <2>1 DEF IInv, Reported
  <2> QED BY <2>1, <2>2, NothingLeft, UnfinishedFacts
<1> QED BY <1>1, Invariance, PTL

-----------------------------------------------------------------------------
(* start_multi implements PathCover.  A step of the pool moves items       *)
(* between queues, forks the item of one worker, or collects it; only the  *)
(* last two are steps of PathCover, and that they replace just one item is *)
(* what PathsDistinct is needed for.                                       *)

InPool == UNION {items[p] : p \in Pending}

(* A place holds what is pending in it.                                    *)
LEMMA InPoolFacts ==
  /\ \A x : x \in InPool <=> \E p \in Pending : x \in items[p]
  /\ \A x : x \in InPool' <=> \E p \in Pending : x \in items'[p]
BY DEF InPool

(* Moving items between queues changes neither what is pending nor what is *)
(* collected.                                                              *)
LEMMA MoveStutters ==
  ASSUME ItemsOK, MoveStep PROVE InPool' = InPool /\ items'[Collected] = items[Collected]
<1>1. PICK p, q, r \in Pending : \E S, T \in SUBSET items[p] : Moved(p, q, r, S, T)
  BY DEF MoveStep
<1>2. PICK S, T \in SUBSET items[p] : Moved(p, q, r, S, T)
  BY <1>1
<1>3. /\ items'[p] = items[p] \ (S \cup T)
      /\ items'[q] = items[q] \cup S
      /\ items'[r] = items[r] \cup T
      /\ \A a \in Places \ {p, q, r} : items'[a] = items[a]
      /\ p # q /\ p # r /\ q # r
  BY <1>2, PendingFacts DEF Moved, ItemsOK
<1>4. \A x : (\E a \in Pending : x \in items'[a]) <=> (\E a \in Pending : x \in items[a])
  BY <1>2, <1>3, PendingFacts
<1>5. InPool' = InPool
  BY <1>4, InPoolFacts
<1>6. items'[Collected] = items[Collected]
  BY <1>3, PendingFacts
<1> QED BY <1>5, <1>6

(* A fork is a Split of PathCover: it replaces one item by two new ones.   *)
LEMMA ForkSplits ==
  ASSUME ItemsOK, PathsDistinct, ForkStep PROVE Cover!Split
<1>1. PICK w \in Workers : \E i \in items[Exec(w)], k, c \in Items : Forked(w, i, k, c)
  BY DEF ForkStep
<1>a. PICK i \in items[Exec(w)], k \in Items, c \in Items : Forked(w, i, k, c)
  BY <1>1
<1> DEFINE p == Exec(w)
           q == Local(w)
<1>2. p \in Pending /\ q \in Pending /\ p # q /\ Collected # p /\ Collected # q
  BY PendingFacts, PlaceFacts
<1>3. /\ items[p] = {i} /\ items'[p] = {k} /\ items'[q] = items[q] \cup {c}
      /\ \A a \in Places \ {p, q} : items'[a] = items[a]
  BY <1>a, <1>2, PendingFacts DEF Forked, ForkItem, ItemsOK
<1>4. /\ k.id = i.id /\ c.id = i.id
      /\ k.path = Append(i.path, 0) /\ c.path = Append(i.path, 1)
      /\ k.models \cup c.models = i.models /\ k.models \cap c.models = {}
      /\ k.models # {} /\ Cover!SumsTo(k.frac, c.frac, i.frac)
  BY <1>a DEF Forked, Branch, SumsTo, add_assign, Cover!SumsTo, Cover!add_assign
<1> HIDE DEF p, q
<1>5. i.path \in Seq({0, 1}) /\ k.path \in Seq({0, 1}) /\ c.path \in Seq({0, 1})
  BY <1>2, <1>3, PendingFacts DEF ItemsOK, Items
<1>6. /\ k # i /\ c # i /\ ~Diverge(i.path, k.path) /\ ~Diverge(i.path, c.path)
  BY <1>4, <1>5, DivergeFacts
<1>7. \A a \in Pending : (i \in items[a] => a = p) /\ k \notin items[a] /\ c \notin items[a]
  <2> SUFFICES ASSUME NEW a \in Pending
               PROVE  (i \in items[a] => a = p) /\ k \notin items[a] /\ c \notin items[a]
    OBVIOUS
  <2>1. ~Diverge(i.path, i.path)
    BY DEF Diverge
  <2>2. a \in Places /\ p \in Places /\ i \in items[p]
    BY <1>2, <1>3, PendingFacts
  <2> QED BY <2>1, <2>2, <1>4, <1>6 DEF PathsDistinct
<1>8. i \in InPool /\ i \notin InPool'
  BY <1>2, <1>3, <1>6, <1>7, InPoolFacts, PendingFacts
<1>9. k \in InPool' /\ c \in InPool' /\ k \notin InPool /\ c \notin InPool
  BY <1>2, <1>3, <1>7, InPoolFacts
<1>10. InPool' = (InPool \ {i}) \cup {k, c}
  <2>1. \A x : (\E a \in Pending : x \in items'[a])
                <=> (x # i /\ \E a \in Pending : x \in items[a]) \/ x = k \/ x = c
    BY <1>2, <1>3, <1>6, <1>7, PendingFacts
  <2> QED BY <2>1, InPoolFacts
<1>11. items'[Collected] = items[Collected]
  BY <1>2, <1>3, PlaceFacts
<1> QED BY <1>4, <1>8, <1>9, <1>10, <1>11 DEF Cover!Split, Cover!SumsTo, Cover!add_assign, InPool

(* Collecting is a HandIn of PathCover.                                    *)
LEMMA CollectHandsIn ==
  ASSUME ItemsOK, PathsDistinct, CollectStep PROVE Cover!HandIn
<1>0. PICK w \in Workers : \E i \in items[Exec(w)] :
        /\ items[Exec(w)] = {i}
        /\ items' = [items EXCEPT ![Collected] = @ \cup {i}, ![Exec(w)] = {}]
  BY DEF CollectStep
<1>1. PICK i \in items[Exec(w)] :
        /\ items[Exec(w)] = {i}
        /\ items' = [items EXCEPT ![Collected] = @ \cup {i}, ![Exec(w)] = {}]
  BY <1>0
<1>2. Exec(w) \in Pending /\ Exec(w) # Collected
  BY PendingFacts, PlaceFacts
<1>3. /\ items'[Exec(w)] = {} /\ items'[Collected] = items[Collected] \cup {i}
      /\ \A a \in Pending \ {Exec(w)} : items'[a] = items[a]
  BY <1>1, <1>2, PendingFacts DEF ItemsOK
<1>4. \A a \in Pending : i \in items[a] => a = Exec(w)
  <2>1. ~Diverge(i.path, i.path)
    BY DEF Diverge
  <2> QED BY <2>1, <1>2, PendingFacts DEF PathsDistinct
<1>5. i \in InPool /\ i \notin InPool'
  BY <1>2, <1>3, <1>4, InPoolFacts
<1>6. InPool' = InPool \ {i}
  <2>1. \A x : (\E a \in Pending : x \in items'[a]) <=> (x # i /\ \E a \in Pending : x \in items[a])
    BY <1>1, <1>2, <1>3, <1>4
  <2> QED BY <2>1, InPoolFacts
<1> QED BY <1>3, <1>5, <1>6 DEF Cover!HandIn, InPool

(* start_multi implements PathCover: each step of the pool splits one path *)
(* into two that share its inputs and its Fraction, hands one in, or only  *)
(* moves paths around.                                                     *)
THEOREM PoolCoversPaths == Spec => CoversPaths
<1>1. Init => Cover!Init
  <2> SUFFICES ASSUME Init PROVE Cover!Init
    OBVIOUS
  <2>1. items[Global] = {NewTask(t) : t \in TaskIds} /\ \A p \in Places \ {Global} : items[p] = {}
    BY PlaceFacts DEF Init, PoolInit
  <2>2. InPool = {NewTask(t) : t \in TaskIds}
    BY <2>1, InPoolFacts, PendingFacts
  <2>3. items[Collected] = {}
    BY <2>1, PlaceFacts
  <2> QED BY <2>2, <2>3 DEF Cover!Init, InPool
<1>2. TypeOK /\ PathsDistinct /\ [Next]_poolVars => [Cover!Next]_<<InPool, items[Collected]>>
  <2> SUFFICES ASSUME TypeOK, PathsDistinct, [Next]_poolVars
               PROVE  [Cover!Next]_<<InPool, items[Collected]>>
    OBVIOUS
  <2>0. ItemsOK /\ WorkOK /\ ScanOK /\ PoolStep
    BY StepsOfPool DEF TypeOK, WorkOK
  <2>1. CASE UNCHANGED items
    BY <2>1 DEF InPool
  <2>2. CASE MoveStep
    BY <2>0, <2>2, MoveStutters
  <2>3. CASE ForkStep
    BY <2>0, <2>3, ForkSplits DEF Cover!Next
  <2>4. CASE CollectStep
    BY <2>0, <2>4, CollectHandsIn DEF Cover!Next
  <2> QED BY <2>0, <2>1, <2>2, <2>3, <2>4, ItemSteps
<1>3. Spec => Cover!Spec
  BY <1>1, <1>2, TypeCorrect, DistinctCorrect, PTL DEF Spec, Cover!Spec, InPool
<1> QED BY <1>3 DEF CoversPaths

=============================================================================
