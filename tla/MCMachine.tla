------------------------------ MODULE MCMachine ------------------------------
(***************************************************************************)
(* Programs of a few operations over two plain registers, which form a     *)
(* vector, and a relaxed one, with what a reader of the trace knows.       *)
(* Before them the memory is loaded; the operations are followed for one   *)
(* of the memories.                                                        *)
(***************************************************************************)
EXTENDS Machine, Memory

CONSTANTS
  MaxOps,      \* bound on the operations of a path
  MaxRegions,  \* bound on the regions of a memory
  TopAddr      \* accesses are below this address

VARIABLES
  ops,     \* how many operations there were
  loaded   \* by address: the last byte loaded there

vars == <<machineVars, regions, ops, loaded>>

Conc(a, b) == [f \in Fields |-> [v |-> IF f = "a" THEN a ELSE b, sym |-> FALSE]]

At(reg, f) == [reg |-> reg, acc |-> <<f>>]

Known(b) == [v |-> b, sym |-> FALSE]

MCWritten == {Conc(0, 1), Conc(1, 1)}
MCFieldsWritten == {Known(0)}
MCLocs == {Whole(r) : r \in Regs} \cup {At("s", f) : f \in Fields} \cup {At("y", "b")}
MCVectorRegs == <<"x", "y">>
MCSharedResets == {[loc |-> Whole("s"), value |-> Conc(0, 0)], [loc |-> At("y", "a"), value |-> Known(1)],
                   [loc |-> Whole("x"), value |-> Conc(0, 1)]}
MCTaskResets == {[loc |-> At("s", "a"), value |-> Known(1)], [loc |-> Whole("x"), value |-> Conc(1, 0)]}
MCResetConstraints == <<[loc |-> At("y", "b"), value |-> Known(1)]>>
MCFunctionAssumptions == <<[arg |-> At("y", "b"), result |-> 0]>>
MCInterrupts == <<[id |-> 1, reg |-> "x", value |-> Conc(1, 1), resets |-> {[loc |-> At("s", "b"), value |-> Known(1)]}],
                  [id |-> 2, reg |-> "x", value |-> Conc(0, 1),
                   resets |-> {[loc |-> Whole("x"), value |-> Conc(1, 0)], [loc |-> At("x", "b"), value |-> Known(1)],
                              [loc |-> At("s", "a"), value |-> Known(1)]}]>>

\* One table of two descriptors, the second of which has two possible values.
Tables == [base |-> 8, tables |-> <<[i \in 0 .. 1 |->
             IF i = 0 THEN Concrete(TableBits(8)) ELSE or_bits(new_invalid, TableBits(8))]>>]

MCRegions == {Region("constrained", 2, 4), Region("symbolic", 1, 6), Region("code", 4, 7), Region("concrete", 3, 7),
              CustomRegion(Tables), Region("concrete", 12, 15)}
MCSections == {2, 5}
MCThreads == {3, 6}
MCBytes == {<<1, 0, 1>>, <<0, 1>>}
MCMemory == <<Region("concrete", 3, 7), Region("symbolic", 1, 6)>>

Init == MachineInit /\ regions = <<>> /\ ops = 0 /\ loaded = [a \in {} |-> 0]

Load(a, bytes) ==
  loaded' = [x \in DOMAIN loaded \cup (a .. a + Len(bytes) - 1) |->
               IF x \in a .. a + Len(bytes) - 1 THEN bytes[x - a + 1] ELSE loaded[x]]

\* The loader adds the region for the code of threads first (run_litmus.rs:203).
HasRegion(a, n) == \A x \in a .. a + n - 1 : \E k \in DOMAIN regions :
                     regions[k].k = "concrete" /\ InRegion(regions[k], x)

LoadStep ==
  /\ ops = 0 /\ Len(regions) < MaxRegions
  /\ \/ \E r \in MCRegions : add_region(r) /\ UNCHANGED loaded
     \/ \E a \in MCSections, bs \in MCBytes : load_section(a, bs) /\ Load(a, bs)
     \/ \E a \in MCThreads, bs \in MCBytes : HasRegion(a, Len(bs)) /\ load_thread(a, bs) /\ Load(a, bs)
  /\ UNCHANGED <<machineVars, ops>>

OperationStep ==
  /\ ops < MaxOps /\ regions = MCMemory
  /\ MachineNext
  /\ ops' = ops + 1
  /\ UNCHANGED <<regions, loaded>>

Next == OperationStep \/ LoadStep

Spec == Init /\ [][Next]_vars

(***************************************************************************)
(* Memory.                                                                 *)
(***************************************************************************)
Addrs == 0 .. TopAddr - 1

\* The memory is looked at once, when it has been loaded.
AtLoad == ops = 0

At1(a) == [poss |-> {a}, sym |-> FALSE]

Sizes == {1, 2, 3, 5}

\* What was loaded is what is read: by read_initial when tables are set up, and
\* by the instructions, in little-endian order, although sections overlap and
\* a byte goes to the first concrete region (memory.rs:328, 342, 808, 852).
LoadedBytesRead ==
  AtLoad =>
    \A a \in Addrs, n \in Sizes :
      LET k == RegionAt(a)
          inside == k # 0 /\ \A x \in a .. a + n - 1 : RegionAt(x) = k
          expected == MapThenSumSet(LAMBDA i : (IF a + i \in DOMAIN loaded THEN loaded[a + i] ELSE 0) * ByteBase ^ i, 0 .. n - 1)
      IN inside /\ regions[k].k = "concrete" =>
           /\ read(At1(a), n, FALSE) = [st |-> "value", v |-> expected]
           /\ read_initial(a, n) = read(At1(a), n, FALSE)

\* A read at a symbolic address either fails or is the read that any of its
\* possible addresses would be, up to the name of the region: no concrete,
\* constrained or page table memory is read as if its contents were unknown
\* (memory.rs:384, 521).
SymbolicReadsAgree ==
  AtLoad =>
    \A a \in Addrs, b \in Addrs, n \in {1, 2} :
      LET r == read([poss |-> {a, b}, sym |-> TRUE], n, FALSE)
      IN r # Error => \A c \in {a, b} : LET s == read(At1(c), n, FALSE)
                                         IN r = s \/ (r.st = "any" /\ s.st = "any")

\* An access that the address constraint or the check allows lies in one
\* region, and of a kind that may be accessed so, also where the sum of the
\* address and the size wraps; what the constraint allows the check allows; and
\* a descriptor is only ever written with a value it may have
\* (memory.rs:745-806, page_table.rs:950).
AccessesStayInRegions ==
  AtLoad =>
    \A a \in 0 .. 2 ^ AddrBits - 1, n \in {1, 2, 2 ^ AddrBits - 4}, kind \in DOMAIN AccessKinds :
      /\ smt_address_constraint(a, n, kind, 0) => access_check(a, n, kind)
      /\ access_check(a, n, kind) =>
           \E k \in DOMAIN regions : /\ regions[k].k \in AccessKinds[kind]
                                      /\ \A x \in a .. a + n - 1 : InRegion(regions[k], x)
      /\ smt_address_constraint(a, n, "ReadData", 1) =>
           \E k \in DOMAIN regions : regions[k].k = "symbolic" /\ InRegion(regions[k], a)
      /\ \A k \in DOMAIN regions, v \in {InvalidBits, TableBits(8), TableBits(4)} :
           regions[k].k = "custom" /\ write(At1(a), {v}) = AnyValue("custom") => v \in ReadDescriptor(regions[k].pt, a)
=============================================================================
