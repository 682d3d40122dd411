---------------------------- MODULE EllswiftInv ----------------------------
(***************************************************************************)
(* src/targets/ellswift.c: ellswift_inv and ellswift_x_r_zero, which call  *)
(* the library's field functions directly.  A field element is its value   *)
(* modulo P, the magnitude the library tracks, and whether every call it   *)
(* came from kept the library's contract.                                  *)
(***************************************************************************)
EXTENDS Integers

CONSTANT FieldP     \* the field's prime; the curve is y^2 = x^3 + CurveB

CurveB == 7         \* SECP256K1_B

(* As in the library's field: no point of the curve has a zero x or y. *)
ASSUME FieldPAssumption ==
    /\ FieldP \in Nat /\ FieldP > 7
    /\ \A x, y \in 1..(FieldP - 1) : (x * y) % FieldP # 0       \* FieldP is prime
    /\ \A y \in 0..(FieldP - 1) :
        (y * y - CurveB) % FieldP # 0 /\ (y * y * y + CurveB) % FieldP # 0

Residues == 0..(FieldP - 1)
Cubic(x) == (x * x * x + CurveB) % FieldP
Squares  == {(y * y) % FieldP : y \in Residues}
CurveXs  == {x \in Residues : Cubic(x) \in Squares}

-----------------------------------------------------------------------------
(* External: the library's field functions and their contracts.              *)

Fe(v, mag, legal) == [v |-> v % FieldP, mag |-> mag, legal |-> legal]
Normal(v)         == Fe(v, 1, TRUE)
FeMul(a, b)       == Fe(a.v * b.v, 1, a.legal /\ b.legal /\ a.mag <= 8 /\ b.mag <= 8)
FeAddInt(a, n)    == Fe(a.v + n, a.mag + 1, a.legal /\ a.mag < 32)
FeMulInt(a, n)    == Fe(a.v * n, a.mag * n, a.legal /\ a.mag * n <= 32)
FeAdd(a, b)       == Fe(a.v + b.v, a.mag + b.mag, a.legal /\ b.legal /\ a.mag + b.mag <= 32)
FeNegate(a, m)    == Fe(-a.v, m + 1, a.legal /\ a.mag <= m /\ m <= 31)
InverseIn         == [v \in Residues |->
                         IF v = 0 THEN 0 ELSE CHOOSE w \in Residues : (v * w) % FieldP = 1]
FeInv(a)          == Fe(InverseIn[a.v], 1, a.legal)
FeNormalize(a)    == Fe(a.v, 1, a.legal)

-----------------------------------------------------------------------------
VARIABLES
    invPc,          \* the step that comes next
    invKind,        \* enum ellswift_inv_kind
    invU, invX      \* the field elements

invVars == <<invPc, invKind, invU, invX>>

InvKinds  == {"fuzzed", "u_is_x", "r_zero"}
FeNormals == [v : Residues, mag : {1}, legal : BOOLEAN]   \* normalized between the calls

InvTypeOK ==
    /\ invPc \in {"nonzero", "kind", "on_curve", "invert", "done"} /\ invKind \in InvKinds
    /\ invU \in FeNormals /\ invX \in FeNormals

(* Any 32 bytes as u, the x of any point as x. *)
InvInit ==
    /\ invPc = "nonzero" /\ invKind \in InvKinds
    /\ invU \in {Normal(v) : v \in Residues} /\ invX \in {Normal(v) : v \in CurveXs}

NonZero(a) == IF a.v = 0 THEN Normal(1) ELSE a

MakeNonZero ==
    /\ invPc = "nonzero" /\ invPc' = "kind" /\ invU' = NonZero(invU)
    /\ UNCHANGED <<invKind, invX>>

(* Mutated XRZero: of 2 u^2. *)
XRZeroHalf(w) ==
    LET u2  == FeMul(w, w)
        num == FeMulInt(FeAddInt(FeMul(u2, w), CurveB), 4)
        den == FeInv(FeMulInt(u2, 2))
    IN  FeNormalize(FeAdd(FeNegate(FeMul(num, den), 1), w))

(* ellswift_x_r_zero: u - 4 (u^3 + 7) / (3 u^2) *)
XRZero(w) ==
    LET u2  == FeMul(w, w)
        num == FeMulInt(FeAddInt(FeMul(u2, w), CurveB), 4)
        den == FeInv(FeMulInt(u2, 3))
    IN  FeNormalize(FeAdd(FeNegate(FeMul(num, den), 1), w))

ChooseKind ==
    /\ invPc = "kind" /\ invPc' = "on_curve"
    /\ \/ invKind = "fuzzed" /\ UNCHANGED <<invU, invX>>
       \/ invKind = "u_is_x" /\ invU' = invX /\ UNCHANGED invX
       \/ invKind = "r_zero" /\ invX' = XRZero(invU) /\ UNCHANGED invU
    /\ UNCHANGED invKind

OnCurve(a) == a.v \in CurveXs

(* An x that is not on the curve ends the target's step. *)
CheckCurve ==
    /\ invPc = "on_curve" /\ invPc' = IF OnCurve(invX) THEN "invert" ELSE "done"
    /\ UNCHANGED <<invKind, invU, invX>>

Invert ==
    /\ invPc = "invert" /\ invPc' = "done"
    /\ UNCHANGED <<invKind, invU, invX>>

InvNext == MakeNonZero \/ ChooseKind \/ CheckCurve \/ Invert
InvSpec == InvInit /\ [][InvNext]_invVars

-----------------------------------------------------------------------------
(* Properties. *)

(* r^2 of the x3 branches, for s = x - u. *)
InvS  == (invX.v - invU.v) % FieldP
InvR2 == (-(InvS * (4 * Cubic(invU.v) + 3 * invU.v * invU.v * InvS))) % FieldP

(* "s = x - u is zero, so r is too" and "x = u + s for the nonzero s that     *)
(* zeroes r" (enum ellswift_inv_kind): each kind reaches the branch it is     *)
(* for.  Every call on the way stays within the library's magnitudes, and the *)
(* inverse map is asked for a u that is not zero ("The inverse is undefined   *)
(* for u = 0") and an x on the curve.                                         *)
BranchReached ==
    /\ invU.legal /\ invX.legal
    /\ invPc = "invert" =>
        /\ invU.v # 0 /\ invX.v \in CurveXs
        /\ invKind = "u_is_x" => InvS = 0 /\ InvR2 = 0
        /\ invKind = "r_zero" => InvS # 0 /\ InvR2 = 0
=============================================================================
