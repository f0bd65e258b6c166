----------------------------- MODULE FixedPoint -----------------------------
(***************************************************************************)
(* The checked fixed-point arithmetic of autara-lib/src/math.              *)
(*                                                                         *)
(* A fixed-point number is the integer of its bits: UFixedPoint (U64F64)   *)
(* counts units of 1/UOne and IFixedPoint (I80F48) units of 1/IOne.  The   *)
(* program has UOne = 2^64, IOne = 2^48 and MaxU64 = 2^64 - 1; the model   *)
(* keeps the scales and the width symbolic, so that small ones show the    *)
(* same roundings and the same overflows.                                  *)
(*                                                                         *)
(* A checked operation returns LendingResult in the code.  Here it is the  *)
(* set of its outcomes: the singleton of the result, or {} for Err.  The   *)
(* code's `?' is then \E over that set, and a transaction that returns Err *)
(* has no outcome and takes no step.  IFixedPoint has 15 more integer bits *)
(* than a u64; its overflow is not modelled.                               *)
(***************************************************************************)
EXTENDS Integers

CONSTANTS UOne,     \* bits of 1 in U64F64
          IOne,     \* bits of 1 in I80F48
          MaxU64    \* largest u64

ASSUME FixedPointAssumption ==
    /\ UOne \in Nat \ {0}
    /\ IOne \in Nat \ {0}
    /\ MaxU64 \in Nat \ {0}
    /\ UOne % IOne = 0

\* The low bits of a UFixedPoint that an IFixedPoint cannot hold.
LowBits == UOne \div IOne

UMax == (MaxU64 + 1) * UOne - 1

CheckedU(x) == {x} \cap (0..UMax)

CheckedU64(x) == {x} \cap (0..MaxU64)

u_from_u64(n) == n * UOne

u_safe_add(a, b) == CheckedU(a + b)

u_safe_sub(a, b) == CheckedU(a - b)

u_safe_mul(a, b) == CheckedU((a * b) \div UOne)

u_safe_div(a, b) == IF b = 0 THEN {} ELSE CheckedU((a * UOne) \div b)

\* as_u64_rounded_down and as_u64_rounded_up of a UFixedPoint.  Rounding up
\* saturates at the largest u64.
u_rounded_down(x) == x \div UOne

u_rounded_up(x) ==
    IF x % UOne = 0 \/ x \div UOne = MaxU64
    THEN x \div UOne
    ELSE (x \div UOne) + 1

i_mul(a, b) == (a * b) \div IOne

i_safe_div(a, b) == IF b = 0 THEN {} ELSE {(a * IOne) \div b}

i_rounded_down(x) == CheckedU64(x \div IOne)

i_rounded_up(x) ==
    {IF x % IOne = 0 \/ d = MaxU64 THEN d ELSE d + 1 : d \in CheckedU64(x \div IOne)}

\* The two conversions: from_ufixed drops the low bits, the way back is exact
\* and checked.
i_from_ufixed(x) == x \div LowBits

u_from_ifixed(y) == CheckedU(y * LowBits)
=============================================================================
