------------------------------ MODULE PageTable ------------------------------
(***************************************************************************)
(* ARMv8 translation tables (isla-axiomatic/src/page_table.rs).  The       *)
(* geometry is a parameter: the code has Entries = 512 descriptors of      *)
(* DescSize = 8 bytes in a table, and a table fills one page.              *)
(*                                                                         *)
(* A 64-bit descriptor value is a record [out, bits]: its output address   *)
(* (the address field, bits 47-12) and the set of the other bits that are  *)
(* one, named by their position in the code (bits 1-0 are the kind).       *)
(*                                                                         *)
(* A Desc is [init, maybe]: the value it has initially and the set of the  *)
(* other values or_bits allows; it is concrete when maybe is empty.        *)
(***************************************************************************)
EXTENDS Integers, Sequences, FiniteSets

CONSTANTS Entries, DescSize

ASSUME GeometryAssumption ==
  /\ Entries \in Nat /\ Entries > 1
  /\ DescSize \in Nat /\ DescSize > 0

PageSize == Entries * DescSize

\* The bytes that one descriptor of a table of a level covers.
Span(level) == PageSize * Entries ^ (3 - level)

Aligned(a, size) == a - (a % size)

(***************************************************************************)
(* Virtual addresses.                                                      *)
(***************************************************************************)
from_u64(bits) == bits % (Span(0) * Entries)

level_index(va, level) == (va \div Span(level)) % Entries

page_offset(va, level) == va % Span(level)

(***************************************************************************)
(* Page attributes: a function from the fields of a stage to values, with  *)
(* Unknown for the fields that are None.                                   *)
(***************************************************************************)
Unknown == -1

S1_PAGE_ATTR_FIELDS ==
  [UXN |-> <<54, 54>>, PXN |-> <<53, 53>>, Contiguous |-> <<52, 52>>, nG |-> <<11, 11>>,
   AF |-> <<10, 10>>, SH |-> <<9, 8>>, AP |-> <<7, 6>>, NS |-> <<5, 5>>, AttrIndx |-> <<4, 2>>]

S2_PAGE_ATTR_FIELDS ==
  [XN |-> <<54, 54>>, Contiguous |-> <<52, 52>>, AF |-> <<10, 10>>, SH |-> <<9, 8>>,
   S2AP |-> <<7, 6>>, MemAttr |-> <<5, 2>>]

S1Default ==
  [UXN |-> 0, PXN |-> 0, Contiguous |-> 0, nG |-> 0, AF |-> 1, SH |-> 0, AP |-> 1, NS |-> 0,
   AttrIndx |-> 0]

S1Code == [S1Default EXCEPT !.AP = 3]

S2Default == [XN |-> 0, Contiguous |-> 0, AF |-> 1, SH |-> 0, S2AP |-> 3, MemAttr |-> 15]

S2Code == [S2Default EXCEPT !.S2AP = 0]

\* Where bits() puts each field: not where fields() says for UXN and PXN.
S1BitPositions == [S1_PAGE_ATTR_FIELDS EXCEPT !.UXN = <<53, 53>>, !.PXN = <<54, 54>>]

S2BitPositions == S2_PAGE_ATTR_FIELDS

Ones(v, hi, lo) == {lo + k : k \in {j \in 0 .. hi - lo : (v \div 2 ^ j) % 2 = 1}}

BitsAt(attrs, at) ==
  [set     |-> UNION {Ones(attrs[f], at[f][1], at[f][2]) : f \in {g \in DOMAIN at : attrs[g] # Unknown}},
   unknown |-> UNION {at[f][2] .. at[f][1] : f \in {g \in DOMAIN at : attrs[g] = Unknown}}]

S1Bits(attrs) == BitsAt(attrs, S1BitPositions)

S2Bits(attrs) == BitsAt(attrs, S2BitPositions)

\* bits() of either stage.
AttrBits(attrs) == IF "UXN" \in DOMAIN attrs THEN S1Bits(attrs) ELSE S2Bits(attrs)

FieldLength(at, f) == at[f][1] - at[f][2] + 1

\* None when there is no such field or the bits have another length.
CanSetField(at, f, len) == f \in DOMAIN at /\ FieldLength(at, f) = len

\* One-bit fields keep whether the bits are zero, the others their value.
set_field(attrs, at, f, v) ==
  [attrs EXCEPT ![f] = IF FieldLength(at, f) = 1 THEN (IF v = 0 THEN 0 ELSE 1) ELSE v]

(***************************************************************************)
(* Descriptors.                                                            *)
(***************************************************************************)
InvalidBits == [out |-> 0, bits |-> {}]

TableBits(addr) == [out |-> addr, bits |-> {0, 1}]

page_desc_bits(page, attrs) == [out |-> Aligned(page, PageSize), bits |-> {0, 1} \cup AttrBits(attrs).set]

block_desc_bits(page, attrs, level) == [out |-> Aligned(page, Span(level)), bits |-> {0} \cup AttrBits(attrs).set]

Concrete(d) == [init |-> d, maybe |-> {}]

IsConcrete(desc) == desc.maybe = {}

new_invalid == Concrete(InvalidBits)

\* What Desc::page and Desc::block store: nothing valid when an attribute is unknown.
LeafBits(page, attrs, level) ==
  IF AttrBits(attrs).unknown # {} THEN InvalidBits
  ELSE IF level = 3 THEN page_desc_bits(page, attrs) ELSE block_desc_bits(page, attrs, level)

or_bits(desc, d) == [desc EXCEPT !.maybe = @ \cup {d}]

is_concrete_invalid(desc) == desc = new_invalid

is_invalid(d) == 0 \notin d.bits

is_block(d) == 0 \in d.bits /\ 1 \notin d.bits

\* The values the SMT variable of a descriptor ranges over.
PossibleBits(desc) == {desc.init} \cup desc.maybe

(***************************************************************************)
(* A set of tables: [base, tables], the tables allocated one after the     *)
(* other from base.  A table is named by its index.                        *)
(***************************************************************************)
NewTables(base) == [base |-> base, tables |-> <<>>]

table_address(pt, ix) == pt.base + PageSize * (ix - 1)

TablesRange(pt) == pt.base .. pt.base + PageSize * Len(pt.tables) - 1

EmptyTable == [i \in 0 .. Entries - 1 |-> new_invalid]

alloc(pt) == [pt EXCEPT !.tables = Append(@, EmptyTable)]

NoTable == 0

lookup(pt, addr) ==
  IF addr \in TablesRange(pt) THEN (addr - pt.base) \div PageSize + 1 ELSE NoTable

\* concrete_table_address keeps the attribute bits: the upper ones name no table.
LookupDesc(pt, d) == IF d.bits \cap {52, 53, 54} # {} THEN NoTable ELSE lookup(pt, d.out)

SetDesc(pt, ix, i, desc) == [pt EXCEPT !.tables[ix][i] = desc]

(***************************************************************************)
(* update: walk down to the table of a level, allocating the tables that   *)
(* are missing, and replace the descriptor there.  The state of the walk   *)
(* has the tables, the table reached, the descriptor read from it, the     *)
(* recorded addresses and whether the walk still goes on.                  *)
(***************************************************************************)
StartWalk(pt, ix, va) ==
  [pt |-> pt, ix |-> ix, desc |-> pt.tables[ix][level_index(va, 0)], st |-> "ok",
   tables |-> <<0, 0, 0>>, ptes |-> <<table_address(pt, ix) + level_index(va, 0), 0, 0, 0>>]

\* As LinkNew, with the address of the last table there is before the new one.
LinkNewStale(w, va, i) ==
  [w EXCEPT !.pt = SetDesc(alloc(w.pt), w.ix, level_index(va, i - 1),
                           Concrete(TableBits(table_address(w.pt, Len(w.pt.tables))))),
            !.desc = Concrete(TableBits(table_address(w.pt, Len(w.pt.tables))))]

\* Put a new table where the descriptor that leads to level i is.
LinkNew(w, va, i) ==
  [w EXCEPT !.pt = SetDesc(alloc(w.pt), w.ix, level_index(va, i - 1),
                           Concrete(TableBits(table_address(w.pt, Len(w.pt.tables) + 1)))),
            !.desc = Concrete(TableBits(table_address(w.pt, Len(w.pt.tables) + 1)))]

\* The recorded entry addresses are the table's plus the index, not index * 8.
Arrive(w, va, i, ix) ==
  [w EXCEPT !.ix = ix,
            !.desc = w.pt.tables[ix][level_index(va, i)],
            !.tables[i] = table_address(w.pt, ix),
            !.ptes[i + 1] = table_address(w.pt, ix) + level_index(va, i)]

Follow(w, va, i) ==
  IF ~ IsConcrete(w.desc) THEN [w EXCEPT !.st = "panic"]
  ELSE IF LookupDesc(w.pt, w.desc.init) = NoTable THEN [w EXCEPT !.st = "none"]
  ELSE Arrive(w, va, i, LookupDesc(w.pt, w.desc.init))

\* One turn of the loop over the levels above the last one.
Descend(w, va, i) ==
  IF w.st # "ok" THEN w
  ELSE Follow(IF is_concrete_invalid(w.desc) THEN LinkNew(w, va, i) ELSE w, va, i)

\* The last table: whatever does not lead to a table is replaced by a new one.
LastTable(w, va, level) ==
  CASE w.st # "ok" -> w
    [] w.st = "ok" /\ ~ IsConcrete(w.desc) -> [w EXCEPT !.st = "none"]
    [] w.st = "ok" /\ IsConcrete(w.desc) ->
         Follow(IF LookupDesc(w.pt, w.desc.init) = NoTable THEN LinkNew(w, va, level) ELSE w, va, level)

WalkTo(pt, ix, va, level) ==
  LastTable(CASE level = 1 -> StartWalk(pt, ix, va)
              [] level = 2 -> Descend(StartWalk(pt, ix, va), va, 1)
              [] level = 3 -> Descend(Descend(StartWalk(pt, ix, va), va, 1), va, 2), va, level)

\* As Store, at the level 3 index of the address at every level.
StoreAsPage(w, va, level, desc) == [w EXCEPT !.pt = SetDesc(w.pt, w.ix, level_index(va, 3), desc)]

Store(w, va, level, desc) == [w EXCEPT !.pt = SetDesc(w.pt, w.ix, level_index(va, level), desc)]

\* target is what the closure given to update does to the descriptor:
\* replace it by a value, allow a value, or give up (an unknown attribute).
Apply(desc, target) ==
  IF target.maybe THEN or_bits(desc, target.bits) ELSE Concrete(target.bits)

FinishUpdate(w, va, level, target) ==
  CASE w.st # "ok" -> w
    [] w.st = "ok" /\ target.none -> [w EXCEPT !.st = "none"]
    [] w.st = "ok" /\ ~ target.none -> Store(w, va, level, Apply(w.desc, target))

update(pt, ix, va, target, level) == FinishUpdate(WalkTo(pt, ix, va, level), va, level, target)

Levels == 1 .. 3

\* The closures of map, maybe_map, invalid, maybe_invalid and maybe_raw_desc.
MapTarget(page, is_table, attrs, level) ==
  [maybe |-> FALSE, none |-> FALSE,
   bits |-> IF is_table /\ level < 3 THEN TableBits(page) ELSE LeafBits(page, attrs, level)]

MaybeMapTarget(page, is_table, attrs, level) ==
  [MapTarget(page, is_table, attrs, level)
     EXCEPT !.maybe = TRUE, !.none = ~ (is_table /\ level < 3) /\ AttrBits(attrs).unknown # {}]

InvalidTarget == [maybe |-> FALSE, none |-> FALSE, bits |-> InvalidBits]

RawTarget(d) == [maybe |-> TRUE, none |-> FALSE, bits |-> d]

(***************************************************************************)
(* The frozen tables as a region of memory.                                *)
(***************************************************************************)
EntryAt(pt, addr) == pt.tables[lookup(pt, addr)][(addr % PageSize) \div DescSize]

CanAccess(pt, addr, bytes) ==
  addr % DescSize = 0 /\ bytes = DescSize /\ addr >= pt.base /\ lookup(pt, addr) # NoTable

ReadDescriptor(pt, addr) == PossibleBits(EntryAt(pt, addr))

\* A write must be of a value the descriptor may have.
CanWrite(pt, addr, values) ==
  IF Cardinality(values) = 1 /\ IsConcrete(EntryAt(pt, addr))
  THEN values = {EntryAt(pt, addr).init}
  ELSE values \cap PossibleBits(EntryAt(pt, addr)) # {}

\* The tables of a memory, a sequence of sets of tables, at an address.
TablesAt(mem, addr) == {k \in DOMAIN mem : addr \in TablesRange(mem[k])}

FirstTables(mem, addr) == CHOOSE k \in TablesAt(mem, addr) : \A j \in TablesAt(mem, addr) : k <= j

\* initial_descriptor through read_initial: the initial value, not the others.
InitialReadable(mem, addr) == addr % DescSize = 0 /\ TablesAt(mem, addr) # {}

InitialDescriptor(mem, addr) == EntryAt(mem[FirstTables(mem, addr)], addr).init

(***************************************************************************)
(* initial_translation_table_walk: the addresses and values of the         *)
(* descriptors met, and the physical address (0 when there is none).       *)
(***************************************************************************)
NextEntry(d, va, level) == d.out + level_index(va, level) * DescSize

ReadEntry(walk, mem, va, level, addr) ==
  IF ~ InitialReadable(mem, addr) THEN [walk EXCEPT !.st = "error"]
  ELSE [walk EXCEPT !.level = level,
                    !.ptes[level + 1] = addr,
                    !.descs[level + 1] = InitialDescriptor(mem, addr)]

PhysicalAddress(d, va, level) == d.out + page_offset(va, level)

\* What the walk does with the descriptor it has just read at a level.
\* At level 3 the code tests the level 2 descriptor for validity again.
Decide(walk, va) ==
  LET d == walk.descs[walk.level + 1]
  IN IF walk.st # "walking" THEN walk
     ELSE IF walk.level = 3 THEN [walk EXCEPT !.st = "done", !.pa = PhysicalAddress(d, va, 3)]
     ELSE IF walk.level > 0 /\ is_block(d)
          THEN [walk EXCEPT !.st = "done", !.pa = PhysicalAddress(d, va, walk.level)]
     ELSE IF is_invalid(d) THEN [walk EXCEPT !.st = "done"]
     ELSE walk

WalkLevel(walk, mem, va, level) ==
  IF walk.st # "walking" THEN walk
  ELSE Decide(ReadEntry(walk, mem, va, level, NextEntry(walk.descs[level], va, level)), va)

initial_translation_table_walk(va, table_addr, mem) ==
  LET start == [st |-> "walking", level |-> 0, pa |-> 0,
                ptes |-> <<0, 0, 0, 0>>, descs |-> <<InvalidBits, InvalidBits, InvalidBits, InvalidBits>>]
      l0(w) == Decide(ReadEntry(w, mem, va, 0, table_addr + level_index(va, 0) * DescSize), va)
  IN WalkLevel(WalkLevel(WalkLevel(l0(start), mem, va, 1), mem, va, 2), mem, va, 3)
=============================================================================
