--------------------------------- MODULE B64 --------------------------------
(***************************************************************************)
(* The representation B64 of isla-lib/src/bitvector/b64.rs: a length and a *)
(* machine word, 64 bits in the code and Word bits here.  Arithmetic is    *)
(* that of a release build: it wraps, and << and >> shift by the amount    *)
(* modulo the width.  A debug build panics in those places instead.        *)
(***************************************************************************)
EXTENDS Integers, Sequences, SequencesExt, Bitwise

CONSTANTS
    Word,   \* bits of u64
    IW,     \* bits of i128
    Byte    \* bits of u8

Mask == 2 ^ Word
MAX_WIDTH == Word
Wrap(i) == i % Mask             \* two's complement of a machine word
Int128(u) == LET n == u % 2 ^ IW IN IF n >= 2 ^ (IW - 1) THEN n - 2 ^ IW ELSE n
ShlWord(b, k) == Wrap(b * 2 ^ (k % Word))
ShrWord(b, k) == b \div 2 ^ (k % Word)
bzhi(b, len) == IF len < Word THEN b % 2 ^ len ELSE b

New(b, len) == [len |-> len, bits |-> b]
BvLen(x) == x.len
IsZero(x) == x.bits = 0
Zeros(len) == New(0, len)
Ones(len) == New(bzhi(Mask - 1, len), len)
LowBit(x) == x.bits % 2
LeadingZerosOf(b) == CHOOSE z \in 0 .. Word : b < 2 ^ (Word - z) /\ (z = Word \/ b >= 2 ^ (Word - z - 1))
LeadingZeros(x) == LeadingZerosOf(x.bits) - (Word - x.len)
\* The bits above the length are set before counting.
TrailingZeros(x) ==
    LET b == IF x.len = Word THEN x.bits ELSE x.bits | 2 ^ x.len
    IN  CHOOSE z \in 0 .. Word : b % 2 ^ z = 0 /\ (z = Word \/ (b \div 2 ^ z) % 2 = 1)

BitNot(x) == New(bzhi(Mask - 1 - x.bits, x.len), x.len)
BitXor(x, y) == New(x.bits ^^ y.bits, x.len)
BitOr(x, y) == New(x.bits | y.bits, x.len)
BitAnd(x, y) == New(x.bits & y.bits, x.len)
Neg(x) == New(bzhi(Wrap(-x.bits), x.len), x.len)
Add(x, y) == New(bzhi(Wrap(x.bits + y.bits), x.len), x.len)
Sub(x, y) == New(bzhi(Wrap(x.bits - y.bits), x.len), x.len)
Shl(x, y) == New(IF y.bits >= Word THEN 0 ELSE bzhi(ShlWord(x.bits, y.bits), x.len), x.len)
Shr(x, y) == New(IF y.bits >= Word THEN 0 ELSE bzhi(ShrWord(x.bits, y.bits), x.len), x.len)
AddI128(x, op) == New(bzhi(Wrap(x.bits + Wrap(op)), x.len), x.len)

ZeroExtend(x, len) == New(x.bits, len)
SignExtend(x, len) ==
    IF x.len > 0 /\ (x.bits \div 2 ^ (x.len - 1)) % 2 = 1
    THEN New(x.bits | (bzhi(Mask - 1, len) - bzhi(Mask - 1, x.len)), len)
    ELSE New(x.bits, len)
Unsigned(x) == x.bits
Signed(x) == LET w == SignExtend(x, Word).bits IN IF w >= Mask \div 2 THEN w - Mask ELSE w
Slice(x, from, len) ==
    IF from + len <= x.len
    THEN New(bzhi(ShrWord(x.bits, from), len), len)
    ELSE [err |-> "none"]
\* Mutant: the mask ends at the update's length instead of its end.
SetSliceShortMask(x, n, update) ==
    LET mask == Mask - 1 - bzhi(ShlWord(Mask - 1, n), update.len)
    IN  New((x.bits & mask) | ShlWord(update.bits, n), x.len)
\* The mask keeps every bit outside n .. n + update.len.  An n of Word, which
\* only an empty update allows, is the shift by zero.
SetSlice(x, n, update) ==
    LET mask == Mask - 1 - bzhi(ShlWord(Mask - 1, n), n + update.len)
    IN  New((x.bits & mask) | ShlWord(update.bits, n), x.len)
SetSliceInt(int, n, update) ==
    LET hole == (2 ^ update.len - 1) * 2 ^ n
        u == int % 2 ^ IW
    IN  Int128((u - (u & hole)) + update.bits * 2 ^ n)
GetSliceInt(len, int, n) == New(bzhi(Wrap(int \div 2 ^ n), len), len)

\* Big-endian: the first byte is the most significant one.
FromBytes(bytes) ==
    New(FoldLeft(LAMBDA b, byte : ShlWord(b, Byte) | byte, 0, bytes), Len(bytes) * Byte)
ToLeBytes(x) ==
    [i \in 1 .. x.len \div Byte |-> (x.bits \div 2 ^ (Byte * (i - 1))) % 2 ^ Byte]
ToBeBytes(x) == Reverse(ToLeBytes(x))

INSTANCE BV
=============================================================================
