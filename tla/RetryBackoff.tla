---------------------------- MODULE RetryBackoff ----------------------------
(***************************************************************************)
(* The delay before a run whose lease expired may be claimed again:        *)
(* bounded_retry_backoff_seconds in src/src/repositories.rs.  All          *)
(* arithmetic is on i64, saturating at I64Max; attempt counts are i32.     *)
(***************************************************************************)
EXTENDS Integers

CONSTANT I64Max         \* i64::MAX, or a smaller stand-in for model checking

ASSUME I64MaxAssumption == I64Max \in Nat \ {0}

AtLeast(a, b) == IF a >= b THEN a ELSE b     \* a.max(b)
AtMost(a, b) == IF a <= b THEN a ELSE b      \* a.min(b)

MaxExponent == 30

(* attempt_count.saturating_sub(1).clamp(0, 30) *)
Exponent(attempt_count) == AtMost(AtLeast(attempt_count - 1, 0), MaxExponent)

(* i64::saturating_mul, for operands that are not negative *)
SaturatingMul(a, b) == AtMost(a * b, I64Max)

BoundedRetryBackoff(attempt_count, base_seconds, max_seconds) ==
    LET base == AtLeast(base_seconds, 1)
        max == AtLeast(max_seconds, base)
    IN  AtMost(SaturatingMul(base, 2 ^ Exponent(attempt_count)), max)
=============================================================================
