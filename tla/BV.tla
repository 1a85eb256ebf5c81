--------------------------------- MODULE BV ---------------------------------
(***************************************************************************)
(* The trait BV of isla-lib/src/bitvector.rs: the methods with a default   *)
(* body, written once over the methods that a concrete representation      *)
(* must provide.  B64 and B129 instantiate this module the way they        *)
(* implement the trait.  None is a result of type Option, Panic a failed   *)
(* assertion or unwrap; both propagate.                                    *)
(***************************************************************************)
EXTENDS Integers, Sequences

CONSTANTS
    MAX_WIDTH,              \* the longest vector the representation holds
    New(_, _), BvLen(_), Zeros(_), Ones(_), LowBit(_), LeadingZeros(_),
    ZeroExtend(_, _), SignExtend(_, _), Slice(_, _, _),
    Shl(_, _), Shr(_, _), BitOr(_, _)

None == [err |-> "none"]
Panic == [err |-> "panic"]
Failed(x) == "err" \in DOMAIN x

BvAppend(x, suffix) ==
    LET new_len == BvLen(x) + BvLen(suffix)
    IN  IF new_len <= MAX_WIDTH
        THEN BitOr(Shl(ZeroExtend(x, new_len), New(BvLen(suffix), new_len)),
                   ZeroExtend(suffix, new_len))
        ELSE None

\* A low above high is no vector either: None, or a panic in the subtraction
\* where the build checks overflow.  high = BvLen(x) is left to Slice.
Extract(x, high, low) ==
    IF low <= high /\ high <= BvLen(x) THEN Slice(x, low, high - low + 1) ELSE None

\* A negative shift goes the other way.
Shift(Op(_, _), Other(_, _), x, shift) ==
    IF shift < 0 THEN IF -shift >= BvLen(x) THEN Zeros(BvLen(x)) ELSE Other(x, New(-shift, BvLen(x)))
    ELSE IF shift >= BvLen(x) THEN Zeros(BvLen(x))
    ELSE Op(x, New(shift, BvLen(x)))

ShiftR(x, shift) == Shift(Shr, Shl, x, shift)
ShiftL(x, shift) == Shift(Shl, Shr, x, shift)

ArithShiftR(x, shift) ==
    CASE shift < 0 -> ShiftL(x, -shift)
      [] shift >= BvLen(x) -> IF LeadingZeros(x) > 0 THEN Zeros(BvLen(x)) ELSE Ones(BvLen(x))
      [] OTHER -> IF LeadingZeros(x) > 0 THEN ShiftR(x, shift)
                  ELSE SignExtend(Slice(ShiftR(x, shift), 0, BvLen(x) - shift), BvLen(x))

\* self.len() - len is a u32: a len above the vector's own panics where the
\* build checks overflow, and takes a slice that is no part of it elsewhere.
TruncateLsb(x, len) ==
    CASE len = 0 -> New(0, 0)
      [] 0 < len /\ len <= MAX_WIDTH -> IF len > BvLen(x) THEN Panic ELSE Slice(x, BvLen(x) - len, len)
      [] OTHER -> None

Replicate(x, times) ==
    IF times = 0 THEN New(0, 0)
    ELSE IF 0 <= times /\ BvLen(x) * times <= MAX_WIDTH
         THEN LET copies[i \in 1 .. times] == IF i = 1 THEN x ELSE BvAppend(copies[i - 1], x)
              IN  copies[times]
    ELSE None

ToVec(x) == [n \in 1 .. BvLen(x) |-> LowBit(ShiftR(x, n - 1))]
=============================================================================
