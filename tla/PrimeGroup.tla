----------------------------- MODULE PrimeGroup -----------------------------
(***************************************************************************)
(* External: the curve of libsecp256k1, as the targets see it.  A group of *)
(* prime order Order stands for it and a point is its discrete logarithm,  *)
(* 0 for infinity; Order itself stands for 32 bytes that are out of range. *)
(***************************************************************************)
EXTENDS Integers

CONSTANT Order

ASSUME OrderAssumption ==
    /\ Order \in Nat /\ Order > 2
    /\ \A x, y \in 1..(Order - 1) : (x * y) % Order # 0     \* Order is prime

Bytes   == 0..Order             \* what 32 bytes can mean
Scalars == 0..(Order - 1)
Keys    == 1..(Order - 1)       \* valid, secret or public

Negated(x)    == IF x = 0 THEN 0 ELSE Order - x
Sum(x, t)     == IF x + t < Order THEN x + t ELSE x + t - Order
Product(x, t) == (x * t) % Order

(* Whether a tweak of key x by t, 32 bytes, succeeds. *)
AddOk(x, t) == x \in Keys /\ t \in Scalars /\ Sum(x, t) # 0
MulOk(x, t) == x \in Keys /\ t \in Keys

(* Of a point and its negation one has an even Y coordinate, and stands for *)
(* both in an x-only key.                                                   *)
Even(x)  == 2 * x < Order
EvenY(x) == IF Even(x) THEN x ELSE Negated(x)
=============================================================================
