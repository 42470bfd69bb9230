------------------------------ MODULE TypeUtils ----------------------------
(***************************************************************************)
(* inc/utils/typeutils.h: alignment to a power of two n, and rounding up   *)
(* to a power of two, on unsigned integers.                                *)
(***************************************************************************)
EXTENDS Integers

ALIGN_DOWN(v, n) == v - (v % n)
ALIGN_UP(v, n) == ALIGN_DOWN(v + n - 1, n)
IS_ALIGNED(v, n) == v = ALIGN_DOWN(v, n)
(* v - 1 with every bit under its highest one set, plus 1                  *)
NEXTPOW2(v) == 2 ^ (CHOOSE k \in 0 .. 31 : v <= 2 ^ k /\ (k = 0 \/ 2 ^ (k - 1) < v))
=============================================================================
