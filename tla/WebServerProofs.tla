--------------------------- MODULE WebServerProofs --------------------------
(***************************************************************************)
(* The limit on worker processes of web/server/src/server.rs, for any      *)
(* number of connections, requests and slots.                              *)
(***************************************************************************)
EXTENDS WebServer, FiniteSetTheorems, TLAPS

Pcs == {"none", "lookup", "load", "cas", "spawn", "write", "wait", "release", "insert", "done"}
Processes == {"none", "running", "full", "success", "failure"}

TypeInv ==
  /\ pc \in [Conns -> Pcs]
  /\ num \in [Conns -> Nat]
  /\ child \in [Conns -> Processes]
  /\ WORKERS \in Nat /\ orphans \in Nat /\ leaked \in Nat

\* A process of a handler exists only while the handler holds a slot.
ChildHeld == \A c \in Conns : child[c] \in Alive => pc[c] \in {"write", "wait"}

\* What the load has seen below the limit stays so until the exchange.
Admitted == /\ \A c \in Conns : pc[c] = "cas" => num[c] < MAX_WORKERS
            /\ WORKERS <= MAX_WORKERS

\* Every orphan comes from a handler that left with its slot.
OrphansLeaked == orphans <= leaked

IInv == TypeInv /\ ChildHeld /\ Admitted /\ OrphansLeaked /\ SlotsAccounted

-----------------------------------------------------------------------------
(* A set of connections has a cardinality (Conns is finite).               *)
LEMMA HoldingFinite == IsFiniteSet(Holding) /\ Cardinality(Holding) \in Nat
BY WebAssumption, FS_Subset, FS_CardinalityType DEF Holding

(* No connection exists at the start that holds a slot or a process        *)
(* (WORKERS starts at zero).                                               *)
LEMMA InitInv == Init => IInv
<1> SUFFICES ASSUME Init PROVE IInv
  OBVIOUS
<1>1. TypeInv
  BY DEF Init, TypeInv, Pcs, Processes
<1>2. ChildHeld /\ Admitted /\ OrphansLeaked
  BY WebAssumption DEF Init, ChildHeld, Admitted, OrphansLeaked, Alive
<1>3. Holding = {}
  BY DEF Init, Holding
<1>4. SlotsAccounted
  BY <1>3, FS_EmptySet DEF Init, SlotsAccounted
<1> QED BY <1>1, <1>2, <1>4 DEF IInv

\* Only the handler of c takes a step.
OnlyMoves(c) == \A d \in Conns \ {c} : pc'[d] = pc[d]

HasSlot(p) == p \in {"spawn", "write", "wait", "release"}

(* A handler gives its slot back, or leaves with it.                       *)
LEMMA SlotLeft ==
  ASSUME NEW c \in Conns, OnlyMoves(c), HasSlot(pc[c]), ~HasSlot(pc'[c])
  PROVE  Cardinality(Holding)' = Cardinality(Holding) - 1 /\ Cardinality(Holding) > 0
<1>1. Holding' = Holding \ {c} /\ c \in Holding
  BY DEF Holding, OnlyMoves, HasSlot
<1>2. Cardinality(Holding \ {c}) = Cardinality(Holding) - 1
  BY <1>1, HoldingFinite, FS_RemoveElement
<1>3. Cardinality(Holding \ {c}) \in Nat
  BY HoldingFinite, FS_RemoveElement, FS_CardinalityType
<1> QED BY <1>1, <1>2, <1>3, HoldingFinite

(* A handler is admitted by compare_exchange.                              *)
LEMMA SlotTaken ==
  ASSUME NEW c \in Conns, OnlyMoves(c), ~HasSlot(pc[c]), HasSlot(pc'[c])
  PROVE  Cardinality(Holding)' = Cardinality(Holding) + 1
<1>1. Holding' = Holding \cup {c} /\ c \notin Holding
  BY DEF Holding, OnlyMoves, HasSlot
<1> QED BY <1>1, HoldingFinite, FS_AddElement

(* Any other step of a handler.                                            *)
LEMMA SlotKept ==
  ASSUME NEW c \in Conns, OnlyMoves(c), HasSlot(pc[c]) <=> HasSlot(pc'[c])
  PROVE  Cardinality(Holding)' = Cardinality(Holding)
<1>1. Holding' = Holding
  BY DEF Holding, OnlyMoves, HasSlot
<1> QED BY <1>1

(* An early return or a dropped future keeps the accounts: the slot of the *)
(* handler is counted as leaked, and its process as an orphan.             *)
LEMMA AbandonKeeps ==
  ASSUME IInv, NEW c \in Conns, pc[c] \in {"spawn", "write", "wait"}, Abandon(c)
  PROVE  IInv'
<1>1. TypeInv'
  BY DEF IInv, TypeInv, Abandon, Pcs, Processes
<1>2. ChildHeld' /\ Admitted' /\ OrphansLeaked'
  BY DEF IInv, TypeInv, ChildHeld, Admitted, OrphansLeaked, Abandon, Alive
<1>3. Cardinality(Holding)' = Cardinality(Holding) - 1 /\ Cardinality(Holding) > 0
  BY SlotLeft DEF IInv, TypeInv, Abandon, OnlyMoves, HasSlot
<1>4. SlotsAccounted'
  BY <1>3, HoldingFinite DEF IInv, TypeInv, SlotsAccounted, Abandon
<1> QED BY <1>1, <1>2, <1>4 DEF IInv

(* A step of one handler that is no early return.                          *)
LEMMA HandlerKeeps ==
  ASSUME IInv, NEW c \in Conns, Arrive(c) \/ Handler(c)
  PROVE  IInv'
<1> USE WebAssumption, HoldingFinite DEF IInv, TypeInv
<1>1. CASE Arrive(c)
  <2>1. Cardinality(Holding)' = Cardinality(Holding)
    BY <1>1, SlotKept DEF Arrive, Goto, OnlyMoves, HasSlot
  <2> QED BY <1>1, <2>1 DEF Arrive, Goto, Pcs, ChildHeld, Admitted, OrphansLeaked, SlotsAccounted
<1>2. CASE Lookup(c)
  <2>1. Cardinality(Holding)' = Cardinality(Holding)
    BY <1>2, SlotKept DEF Lookup, Goto, OnlyMoves, HasSlot
  <2> QED BY <1>2, <2>1 DEF Lookup, Goto, Pcs, ChildHeld, Admitted, OrphansLeaked, SlotsAccounted
<1>3. CASE Load(c)
  <2>1. Cardinality(Holding)' = Cardinality(Holding)
    BY <1>3, SlotKept DEF Load, Goto, OnlyMoves, HasSlot
  <2> QED BY <1>3, <2>1 DEF Load, Goto, Pcs, ChildHeld, Admitted, OrphansLeaked, SlotsAccounted
<1>4. CASE CompareExchange(c)
  <2>1. CASE WORKERS = num[c]
    <3>1. Cardinality(Holding)' = Cardinality(Holding) + 1
      BY <1>4, <2>1, SlotTaken DEF CompareExchange, Goto, OnlyMoves, HasSlot
    <3> QED BY <1>4, <2>1, <3>1
            DEF CompareExchange, Goto, Pcs, ChildHeld, Admitted, OrphansLeaked, SlotsAccounted
  <2>2. CASE WORKERS # num[c]
    <3>1. Cardinality(Holding)' = Cardinality(Holding)
      BY <1>4, <2>2, SlotKept DEF CompareExchange, Goto, OnlyMoves, HasSlot
    <3> QED BY <1>4, <2>2, <3>1
            DEF CompareExchange, Goto, Pcs, ChildHeld, Admitted, OrphansLeaked, SlotsAccounted
  <2> QED BY <2>1, <2>2
<1>5. CASE Spawn(c)
  <2>1. Cardinality(Holding)' = Cardinality(Holding)
    BY <1>5, SlotKept DEF Spawn, Goto, OnlyMoves, HasSlot
  <2> QED BY <1>5, <2>1
          DEF Spawn, Goto, Pcs, Processes, ChildHeld, Admitted, OrphansLeaked, SlotsAccounted
<1>6. CASE Write(c)
  <2>1. Cardinality(Holding)' = Cardinality(Holding)
    BY <1>6, SlotKept DEF Write, Goto, OnlyMoves, HasSlot
  <2> QED BY <1>6, <2>1 DEF Write, Goto, Pcs, ChildHeld, Admitted, OrphansLeaked, SlotsAccounted
<1>7. CASE Wait(c)
  <2>1. Cardinality(Holding)' = Cardinality(Holding)
    BY <1>7, SlotKept DEF Wait, Goto, OnlyMoves, HasSlot
  <2> QED BY <1>7, <2>1
          DEF Wait, Goto, Pcs, Processes, Alive, ChildHeld, Admitted, OrphansLeaked, SlotsAccounted
<1>8. CASE Release(c)
  <2>1. Cardinality(Holding)' = Cardinality(Holding) - 1 /\ Cardinality(Holding) > 0
    BY <1>8, SlotLeft DEF Release, Goto, OnlyMoves, HasSlot
  <2> QED BY <1>8, <2>1
          DEF Release, Goto, Pcs, Alive, ChildHeld, Admitted, OrphansLeaked, SlotsAccounted
<1>9. CASE Insert(c)
  <2>1. Cardinality(Holding)' = Cardinality(Holding)
    BY <1>9, SlotKept DEF Insert, Goto, OnlyMoves, HasSlot
  <2> QED BY <1>9, <2>1 DEF Insert, Goto, Pcs, ChildHeld, Admitted, OrphansLeaked, SlotsAccounted
<1> QED BY <1>1, <1>2, <1>3, <1>4, <1>5, <1>6, <1>7, <1>8, <1>9 DEF Handler

(* What happens outside of the handlers: a client leaves, a process ends.  *)
LEMMA OutsideKeeps ==
  ASSUME IInv, (\E c \in Conns : Drop(c) \/ WorkerStep(c)) \/ OrphanExits
  PROVE  IInv'
<1>1. ASSUME NEW c \in Conns, Drop(c) PROVE IInv'
  <2>1. CASE pc[c] \in {"write", "wait"} /\ Abandon(c)
    BY <2>1, AbandonKeeps
  <2>2. CASE /\ pc[c] \in {"lookup", "load", "insert"}
             /\ pc' = [pc EXCEPT ![c] = "done"]
             /\ UNCHANGED <<req, num, child, response, WORKERS, orphans, leaked, req_cache>>
    <3>1. Cardinality(Holding)' = Cardinality(Holding)
      BY <2>2, SlotKept DEF IInv, TypeInv, OnlyMoves, HasSlot
    <3> QED BY <2>2, <3>1
            DEF IInv, TypeInv, Pcs, ChildHeld, Admitted, OrphansLeaked, SlotsAccounted
  <2> QED BY <1>1, <2>1, <2>2 DEF Drop
<1>2. ASSUME NEW c \in Conns, WorkerStep(c) PROVE IInv'
  <2>1. Holding' = Holding
    BY <1>2 DEF WorkerStep, Holding
  <2>2. TypeInv'
    BY <1>2 DEF IInv, TypeInv, WorkerStep, Processes
  <2>3. ChildHeld'
    BY <1>2 DEF IInv, TypeInv, WorkerStep, ChildHeld, Alive
  <2> QED BY <1>2, <2>1, <2>2, <2>3
          DEF IInv, WorkerStep, Admitted, OrphansLeaked, SlotsAccounted
<1>3. CASE OrphanExits
  <2>1. Holding' = Holding
    BY <1>3 DEF OrphanExits, Holding
  <2> QED BY <1>3, <2>1
          DEF IInv, TypeInv, OrphanExits, ChildHeld, Admitted, OrphansLeaked, SlotsAccounted
<1> QED BY <1>1, <1>2, <1>3

(* The accounts and the limit are an inductive invariant of the server.    *)
LEMMA Invariance == Spec => []IInv
<1>1. IInv /\ [Next]_vars => IInv'
  <2> SUFFICES ASSUME IInv, [Next]_vars PROVE IInv'
    OBVIOUS
  <2>1. ASSUME NEW c \in Conns, Fail(c) PROVE IInv'
    BY <2>1, AbandonKeeps DEF Fail
  <2>2. CASE UNCHANGED vars
    <3>1. Holding' = Holding
      BY <2>2 DEF vars, Holding
    <3> QED BY <2>2, <3>1
            DEF vars, IInv, TypeInv, ChildHeld, Admitted, OrphansLeaked, SlotsAccounted
  <2> QED BY <2>1, <2>2, HandlerKeeps, OutsideKeeps DEF Next
<1> QED BY <1>1, InitInv, PTL DEF Spec

(* WORKERS counts the handlers that hold a slot and those that left with   *)
(* one: compare_exchange and fetch_sub never get out of step, and the      *)
(* assertion on the value that fetch_sub returns holds.                    *)
THEOREM SlotsCorrect == Spec => []SlotsAccounted
BY Invariance, PTL DEF IInv

(* No interleaving of handlers, failures and lost clients makes more than  *)
(* MAX_WORKERS worker processes run at the same time.                      *)
THEOREM ProcessesCorrect == Spec => []ProcessesBounded
<1>1. IInv => ProcessesBounded
  <2> SUFFICES ASSUME IInv PROVE ProcessesBounded
    OBVIOUS
  <2> DEFINE Own == {c \in Conns : child[c] \in Alive}
  <2>1. Own \in SUBSET Holding
    BY DEF IInv, ChildHeld, Holding
  <2>2. Cardinality(Own) <= Cardinality(Holding) /\ Cardinality(Own) \in Nat
    BY <2>1, HoldingFinite, FS_Subset, FS_CardinalityType
  <2>3. Living = Cardinality(Own) + orphans
    BY DEF Living
  <2> HIDE DEF Own
  <2> QED BY <2>2, <2>3, HoldingFinite, WebAssumption
          DEF IInv, TypeInv, SlotsAccounted, OrphansLeaked, Admitted, ProcessesBounded
<1> QED BY <1>1, Invariance, PTL

=============================================================================
