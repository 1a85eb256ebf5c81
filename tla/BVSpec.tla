------------------------------- MODULE BVSpec -------------------------------
(***************************************************************************)
(* What the methods of BV promise, whatever the representation: the        *)
(* methods of a pair of vectors x, y of equal length with integers i, j in *)
(* one record, and the same record computed on naturals.                   *)
(***************************************************************************)
EXTENDS Integers, Sequences

CONSTANTS
    Value(_),       \* the natural number a vector stands for
    MAX_WIDTH, New(_, _), BvLen(_), Zeros(_), Ones(_), LeadingZeros(_), TrailingZeros(_),
    BitNot(_), BitXor(_, _), BitOr(_, _), BitAnd(_, _), Neg(_), Add(_, _), Sub(_, _), AddI128(_, _),
    ZeroExtend(_, _), SignExtend(_, _), Unsigned(_), Signed(_), Slice(_, _, _), SetSlice(_, _, _),
    SetSliceInt(_, _, _), GetSliceInt(_, _, _),
    BvAppend(_, _), Extract(_, _, _), ShiftR(_, _), ShiftL(_, _), ArithShiftR(_, _), TruncateLsb(_, _),
    Replicate(_, _), ToVec(_)

Failed(x) == DOMAIN x = {"err"}
Means(x) == IF Failed(x) THEN "none" ELSE <<BvLen(x), Value(x)>>
V(len, n) == <<len, n % 2 ^ len>>

Methods(x, y, i, j) ==
    [not |-> Means(BitNot(x)), xor |-> Means(BitXor(x, y)), or |-> Means(BitOr(x, y)),
     and |-> Means(BitAnd(x, y)), neg |-> Means(Neg(x)), add |-> Means(Add(x, y)), sub |-> Means(Sub(x, y)),
     add_i128 |-> Means(AddI128(x, i)), leading_zeros |-> LeadingZeros(x), trailing_zeros |-> TrailingZeros(x),
     shiftr |-> Means(ShiftR(x, i)), shiftl |-> Means(ShiftL(x, i)), arith_shiftr |-> Means(ArithShiftR(x, i)),
     append |-> Means(BvAppend(x, y)), replicate |-> Means(Replicate(x, j)),
     zero_extend |-> Means(ZeroExtend(x, MAX_WIDTH)), sign_extend |-> Means(SignExtend(x, MAX_WIDTH)),
     slice |-> IF i < 0 THEN "none" ELSE Means(Slice(x, i, j)),
     extract |-> IF i < 0 THEN "none" ELSE Means(Extract(x, j, i)),
     truncate_lsb |-> IF j > BvLen(x) THEN "none" ELSE Means(TruncateLsb(x, j)),
     set_slice |-> IF j > BvLen(x) THEN "none"
                   ELSE Means(SetSlice(x, j, Slice(y, 0, BvLen(x) - j))),
     to_vec |-> ToVec(x)]

\* The bits of n from position lo upwards, len of them.
Part(n, lo, len) == (n \div 2 ^ lo) % 2 ^ len
BitAt(n, k) == (n \div 2 ^ k) % 2
FromBits(len, B(_)) == LET sum[k \in 0 .. len] == IF k = 0 THEN 0 ELSE sum[k - 1] + B(k - 1) * 2 ^ (k - 1) IN <<len, sum[len]>>
SignedOf(len, n) == IF len > 0 /\ BitAt(n, len - 1) = 1 THEN n - 2 ^ len ELSE n
Down(len, n, k) == IF k >= 0 THEN V(len, n \div 2 ^ k) ELSE V(len, n * 2 ^ (-k))

Promised(x, y, i, j) ==
    LET w == BvLen(x)
        a == Value(x)
        b == Value(y)
    IN  [not |-> FromBits(w, LAMBDA k : 1 - BitAt(a, k)),
         xor |-> FromBits(w, LAMBDA k : (BitAt(a, k) + BitAt(b, k)) % 2),
         or |-> FromBits(w, LAMBDA k : IF BitAt(a, k) + BitAt(b, k) > 0 THEN 1 ELSE 0),
         and |-> FromBits(w, LAMBDA k : BitAt(a, k) * BitAt(b, k)),
         neg |-> V(w, -a), add |-> V(w, a + b), sub |-> V(w, a - b), add_i128 |-> V(w, a + i),
         leading_zeros |-> CHOOSE z \in 0 .. w : a < 2 ^ (w - z) /\ (z = w \/ BitAt(a, w - 1 - z) = 1),
         trailing_zeros |-> CHOOSE z \in 0 .. w : a % 2 ^ z = 0 /\ (z = w \/ BitAt(a, z) = 1),
         shiftr |-> Down(w, a, i), shiftl |-> Down(w, a, -i),
         arith_shiftr |-> IF i < 0 THEN Down(w, a, i) ELSE V(w, SignedOf(w, a) \div 2 ^ i),
         append |-> IF 2 * w <= MAX_WIDTH THEN V(2 * w, a * 2 ^ w + b) ELSE "none",
         replicate |-> IF w * j <= MAX_WIDTH THEN FromBits(w * j, LAMBDA k : BitAt(a, k % w)) ELSE "none",
         zero_extend |-> V(MAX_WIDTH, a), sign_extend |-> V(MAX_WIDTH, SignedOf(w, a)),
         slice |-> IF i >= 0 /\ i + j <= w THEN <<j, Part(a, i, j)>> ELSE "none",
         extract |-> IF i >= 0 /\ i <= j /\ j < w THEN <<j - i + 1, Part(a, i, j - i + 1)>> ELSE "none",
         truncate_lsb |-> IF j > w THEN "none" ELSE <<j, Part(a, w - j, j)>>,
         set_slice |-> IF j > w THEN "none"
                       ELSE FromBits(w, LAMBDA k : IF k < j THEN BitAt(a, k) ELSE BitAt(b, k - j)),
         to_vec |-> [k \in 1 .. w |-> BitAt(a, k - 1)]]
=============================================================================
