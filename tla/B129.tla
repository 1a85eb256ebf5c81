-------------------------------- MODULE B129 --------------------------------
(***************************************************************************)
(* The representation B129 of isla-lib/src/bitvector/b129.rs: a length, a  *)
(* double word and one tag bit above it, so that a CHERI capability fits.  *)
(* 128 bits in the code, Word bits here; i128 is as wide as the word.      *)
(***************************************************************************)
EXTENDS Integers, Sequences, Bitwise

CONSTANT Word

Mask == 2 ^ Word
MAX_WIDTH == Word + 1
Wrap(i) == i % Mask
bzhi128(b, len) == IF len < Word THEN b % 2 ^ len ELSE b
B(len, tag, b) == [len |-> len, tag |-> tag, bits |-> b]
Bit(b) == IF b THEN 1 ELSE 0
\* The tag goes too, unless the length is the full one.
bzhi(x, len) == IF len > Word THEN x ELSE [x EXCEPT !.tag = FALSE, !.bits = bzhi128(@, len)]

New(b, len) == B(len, FALSE, b)
BvLen(x) == x.len
IsZero(x) == ~x.tag /\ x.bits = 0
Zeros(len) == B(len, FALSE, 0)
Ones(len) == bzhi(B(len, TRUE, Mask - 1), len)
LowBit(x) == x.bits % 2
LeadingZerosOf(b) == CHOOSE z \in 0 .. Word : b < 2 ^ (Word - z) /\ (z = Word \/ b >= 2 ^ (Word - z - 1))
LeadingZeros(x) == IF x.tag THEN 0 ELSE LeadingZerosOf(x.bits) + 1 - (Word + 1 - x.len)
\* The length is not taken into account.
TrailingZeros(x) ==
    LET tz == CHOOSE z \in 0 .. Word : x.bits % 2 ^ z = 0 /\ (z = Word \/ (x.bits \div 2 ^ z) % 2 = 1)
    IN  IF tz = Word THEN IF x.tag THEN Word ELSE Word + 1 ELSE tz

BitNot(x) == bzhi(B(x.len, ~x.tag, Mask - 1 - x.bits), x.len)
BitXor(x, y) == B(x.len, x.tag # y.tag, x.bits ^^ y.bits)
BitOr(x, y) == B(x.len, x.tag \/ y.tag, x.bits | y.bits)
BitAnd(x, y) == B(x.len, x.tag /\ y.tag, x.bits & y.bits)
Add(x, y) ==
    LET carry == x.bits + y.bits >= Mask
    IN  bzhi(B(x.len, (x.tag # y.tag) # carry, Wrap(x.bits + y.bits)), x.len)
Neg(x) == Add(BitNot(x), B(x.len, FALSE, 1))
Sub(x, y) == Add(x, Neg(y))
Shl(x, y) ==
    CASE y.bits > Word \/ y.tag -> Zeros(x.len)
      [] y.bits = Word -> bzhi(B(x.len, x.bits % 2 = 1, 0), x.len)
      [] y.bits = 0 -> x
      [] OTHER -> bzhi(B(x.len, (x.bits \div 2 ^ (Word - y.bits)) % 2 = 1, Wrap(x.bits * 2 ^ y.bits)), x.len)
\* Mutant: the tag bit is lost when it is shifted into the word.
ShrWithoutTag(x, y) ==
    IF y.bits > Word \/ y.tag THEN Zeros(x.len)
    ELSE IF y.bits = 0 THEN x ELSE bzhi(B(x.len, FALSE, x.bits \div 2 ^ y.bits), x.len)
Shr(x, y) ==
    CASE y.bits > Word \/ y.tag -> Zeros(x.len)
      [] y.bits = Word -> bzhi(B(x.len, FALSE, Bit(x.tag)), x.len)
      [] y.bits = 0 -> x
      [] OTHER -> bzhi(B(x.len, FALSE, (x.bits \div 2 ^ y.bits) | (Bit(x.tag) * 2 ^ (Word - y.bits))), x.len)
\* op = 0 takes the branch of the negative operands.
AddI128(x, op) == Add(x, bzhi(B(x.len, ~(op > 0), Wrap(op)), x.len))

ZeroExtend(x, len) == B(len, x.tag, x.bits)
SignExtend(x, len) ==
    CASE x.len = 0 -> Zeros(len)
      [] x.len = Word + 1 -> x
      [] OTHER -> IF (x.bits \div 2 ^ (x.len - 1)) % 2 = 1
                  THEN B(len, len = Word + 1,
                         x.bits | (bzhi128(Mask - 1, len) - bzhi128(Mask - 1, x.len)))
                  ELSE B(len, FALSE, x.bits)
\* unsigned and signed assert that the value fits into an i128.
Unsigned(x) == IF x.tag \/ x.bits >= Mask \div 2 THEN [err |-> "panic"] ELSE x.bits
Signed(x) ==
    LET b == IF x.len = Word + 1 THEN x.bits ELSE SignExtend(x, Word).bits
    IN  IF x.len = Word + 1 /\ x.tag # (b >= Mask \div 2) THEN [err |-> "panic"]
        ELSE IF b >= Mask \div 2 THEN b - Mask ELSE b
Slice(x, from, len) ==
    IF from + len <= x.len
    THEN bzhi([Shr(x, B(x.len, FALSE, from)) EXCEPT !.len = len], len)
    ELSE [err |-> "none"]
SetSlice(x, n, update) ==
    LET all == Shl(B(Word + 1, TRUE, Mask - 1), B(Word + 1, FALSE, n))
        mask == ZeroExtend(Slice(all, 0, n + update.len), x.len)
    IN  BitOr(BitAnd(x, BitNot(mask)), Shl(ZeroExtend(update, x.len), B(x.len, FALSE, n)))
\* i128 and the word have the same width here.
SetSliceInt(int, n, update) ==
    LET hole == (2 ^ update.len - 1) * 2 ^ n
        u == Wrap(int)
        r == (u - (u & hole)) | Wrap(update.bits * 2 ^ n)
    IN  IF r >= Mask \div 2 THEN r - Mask ELSE r
GetSliceInt(len, int, n) == B(len, FALSE, bzhi128(Wrap(int \div 2 ^ n), len))

INSTANCE BV
=============================================================================
