------------------------------- MODULE Memory -------------------------------
(***************************************************************************)
(* Memory as a sequence of regions (isla-lib/src/memory.rs).  The address  *)
(* of an access is [poss, sym]: the addresses it may have, and whether it  *)
(* is an SMT variable; a concrete address has one.  A byte has ByteBase    *)
(* values.  Custom regions are the page tables of PageTable.               *)
(***************************************************************************)
EXTENDS PageTable, SequencesExt

CONSTANTS ByteBase, AddrBits

VARIABLE regions

Kinds == {"constrained", "symbolic", "code", "concrete", "custom"}

Region(k, start, end) == [k |-> k, start |-> start, end |-> end, bytes |-> [a \in {} |-> 0]]

\* The frozen tables as a region.
CustomRegion(pt) ==
  [k |-> "custom", start |-> pt.base, end |-> pt.base + PageSize * Len(pt.tables), pt |-> pt]

InRegion(region, a) == region.start <= a /\ a < region.end

\* The first region, in the order they were added, with a property; 0 if none.
FirstRegion(P(_)) == SelectInSeq(regions, P)

RegionAt(a) == FirstRegion(LAMBDA r : InRegion(r, a))

add_region(region) == regions' = Append(regions, region)

InsertByte(rs, a, byte) ==
  LET k == SelectInSeq(rs, LAMBDA r : r.k = "concrete" /\ InRegion(r, a))
  IN IF k = 0
     THEN Append(rs, [Region("concrete", a, a) EXCEPT !.bytes = [x \in {a} |-> byte]])
     ELSE [rs EXCEPT ![k].bytes = [x \in DOMAIN @ \cup {a} |-> IF x = a THEN byte ELSE @[x]]]

write_byte(a, byte) == regions' = InsertByte(regions, a, byte)

\* A section of an object file: its region, then its bytes.
WriteBytes(rs, a, bytes) == FoldLeftDomain(LAMBDA acc, i : InsertByte(acc, a + i - 1, bytes[i]), rs, bytes)

load_section(a, bytes) ==
  regions' = WriteBytes(Append(regions, Region("concrete", a, a + Len(bytes))), a, bytes)

load_thread(a, bytes) == regions' = WriteBytes(regions, a, bytes)

(***************************************************************************)
(* Bytes.                                                                  *)
(***************************************************************************)
Error == [st |-> "error"]

ByteOf(region, a) == IF a \in DOMAIN region.bytes THEN region.bytes[a] ELSE 0

\* As reverse_endianness, leaving the two halves in their places.
RECURSIVE reverse_halves(_)
reverse_halves(bytes) ==
  IF Len(bytes) <= 2 THEN Reverse(bytes)
  ELSE reverse_halves(SubSeq(bytes, 1, Len(bytes) \div 2)) \o reverse_halves(SubSeq(bytes, Len(bytes) \div 2 + 1, Len(bytes)))

RECURSIVE reverse_endianness(_)
reverse_endianness(bytes) ==
  LET half == Len(bytes) \div 2
      rotate_left(s, n) == SubSeq(s, n + 1, Len(s)) \o SubSeq(s, 1, n)
  IN IF Len(bytes) <= 2 THEN Reverse(bytes)
     ELSE rotate_left(reverse_endianness(SubSeq(bytes, 1, half))
                      \o reverse_endianness(SubSeq(bytes, half + 1, Len(bytes))), half)

from_bytes(bytes) == FoldLeft(LAMBDA acc, b : acc * ByteBase + b, 0, bytes)

MaxBytes == 8

\* The value of a sequence of bytes read from rising addresses.
BytesValue(bytes) ==
  IF Len(bytes) > MaxBytes THEN Error ELSE [st |-> "value", v |-> from_bytes(reverse_endianness(bytes))]

Unreadable == -1

\* The page tables do not answer for single bytes of what is not a number here.
read_initial_byte(a) ==
  LET k == RegionAt(a)
  IN IF k = 0 THEN Unreadable
     ELSE IF regions[k].k # "concrete" THEN Unreadable ELSE ByteOf(regions[k], a)

read_initial(a, bytes) ==
  LET all == [i \in 1 .. bytes |-> read_initial_byte(a + i - 1)]
  IN IF Unreadable \in Range(all) THEN Error ELSE BytesValue(all)

(***************************************************************************)
(* Reads and writes: what they return, and the region of the event.        *)
(***************************************************************************)
Default == "default"

AnyValue(region) == [st |-> "any", region |-> region]

read_constrained(region, a, bytes) ==
  IF a = region.start /\ a + bytes = region.end THEN AnyValue("constrained") ELSE Error

read_concrete(region, a, bytes) == BytesValue([i \in 1 .. bytes |-> ByteOf(region, a + i - 1)])

read_custom(pt, a, bytes) ==
  IF CanAccess(pt, a, bytes) THEN [st |-> "desc", values |-> ReadDescriptor(pt, a)] ELSE Error

ReadRegion(region, a, bytes) ==
  CASE region.k = "constrained" -> read_constrained(region, a, bytes)
    [] region.k \in {"symbolic", "code"} -> AnyValue(region.k)
    [] region.k = "concrete" -> read_concrete(region, a, bytes)
    [] region.k = "custom" -> read_custom(region.pt, a, bytes)

ReadAt(a, bytes, is_ifetch) ==
  IF RegionAt(a) # 0 THEN ReadRegion(regions[RegionAt(a)], a, bytes)
  ELSE IF is_ifetch THEN Error ELSE AnyValue(Default)

\* As InConcrete, with the end of a region left out.
InConcreteShort(a) == \E k \in DOMAIN regions :
                        regions[k].k \notin {"symbolic", "code"} /\ regions[k].start <= a /\ a < regions[k].end - 1

InConcrete(a) == \E k \in DOMAIN regions : regions[k].k \notin {"symbolic", "code"} /\ InRegion(regions[k], a)

\* "none", "unique" or "error": an address that may be in a concrete region
\* must be in one place.  Only the first byte is looked at.
check_concrete_overlap(poss) ==
  IF \A a \in poss : ~ InConcrete(a) THEN "none"
  ELSE IF \E a \in poss : poss = {a} THEN "unique" ELSE "error"

TheOne(set) == CHOOSE a \in set : TRUE

read(addr, bytes, is_ifetch) ==
  IF ~ addr.sym THEN ReadAt(TheOne(addr.poss), bytes, is_ifetch)
  ELSE LET overlap == check_concrete_overlap(addr.poss)
       IN CASE overlap = "error" -> Error
            [] overlap = "unique" -> ReadAt(TheOne(addr.poss), bytes, is_ifetch)
            [] overlap = "none" -> AnyValue(Default)

\* A write is an event, except to page tables at a concrete address: there it
\* must be of a value the descriptor may have.
WriteAt(a, values) ==
  LET k == FirstRegion(LAMBDA r : r.k = "custom" /\ InRegion(r, a))
  IN IF k = 0 THEN AnyValue(Default)
     ELSE IF CanAccess(regions[k].pt, a, DescSize) /\ CanWrite(regions[k].pt, a, values)
          THEN AnyValue("custom") ELSE Error

write(addr, values) ==
  IF ~ addr.sym THEN WriteAt(TheOne(addr.poss), values)
  ELSE IF check_concrete_overlap(addr.poss) = "error" THEN Error ELSE AnyValue(Default)

(***************************************************************************)
(* Constraints on addresses.                                               *)
(***************************************************************************)
AccessKinds == [ReadData |-> Kinds, ReadInstr |-> {"code"}, WriteData |-> {"symbolic"}]

ranges_for_access_checks(bytes, kind) ==
  {k \in DOMAIN regions : regions[k].k \in AccessKinds[kind] /\ regions[k].end - regions[k].start >= bytes}

access_check(a, bytes, kind) ==
  \E k \in ranges_for_access_checks(bytes, kind) : regions[k].start <= a /\ a <= regions[k].end - bytes

\* As InRange, without the extra bit that keeps the sum from wrapping.
InRangeWrapping(region, a, bytes) ==
  region.start <= a /\ (a + bytes) % 2 ^ AddrBits < region.end

\* One bit more than an address has, so that the sum does not wrap.
InRange(region, a, bytes) ==
  region.start <= a /\ (a + bytes) % 2 ^ (AddrBits + 1) < region.end

\* With a tag that is set only the symbolic regions are left.
smt_address_constraint(a, bytes, kind, tag) ==
  \E k \in ranges_for_access_checks(bytes, kind) :
    InRange(regions[k], a, bytes) /\ (tag = 1 => regions[k].k = "symbolic")
=============================================================================
