----------------------------- MODULE FixedPoint -----------------------------
(***************************************************************************)
(* The unsigned fixed-point arithmetic the maker contract computes with.  *)
(* cosmwasm_std::Decimal256 stores a value x as the integer x * 10^18;    *)
(* here a Decimal is its raw integer and ONE is the scale (10^18 in the    *)
(* contract, a small power of ten in the model runs).  Multiplication and *)
(* division truncate towards zero, as Decimal256 does, and a subtraction  *)
(* whose result would be negative panics: the predicates named ...Fails   *)
(* below say when one of the contract's subtractions does.                *)
(***************************************************************************)
EXTENDS Integers

CONSTANT ONE            \* raw value of Decimal::one()

ASSUME OneAssumption == ONE \in Nat \ {0}

\* The Decimal256 values: raw integers, never negative.
Dec == Nat

\* Decimal::from(n) for a whole number n.
FromNat(n) == n * ONE

\* a * b for Decimal256: the raw product rescaled, truncated.
DecMul(a, b) == (a * b) \div ONE

\* a / b for Decimal256 with b # 0: the raw quotient rescaled, truncated.
DecDiv(a, b) == (a * ONE) \div b

\* utils::div_dec: division that returns zero for a zero denominator.
DivDec(a, b) == IF b = 0 THEN 0 ELSE DecDiv(a, b)

\* utils::sub_abs: |a - b| computed without an unsigned underflow.
SubAbs(a, b) == IF a >= b THEN a - b ELSE b - a

\* utils::bp_to_dec: basis points to a fraction.
BpToDec(bp) == DivDec(bp, FromNat(10000))

\* The smaller of two Decimals (Decimal256::min).
DecMin(a, b) == IF a <= b THEN a ELSE b

=============================================================================
