---------------------------- MODULE GroupMachine ----------------------------
(***************************************************************************)
(* src/targets/group.c: points of the curve as a register machine over the *)
(* library's internal calls, run on one input by several builds at once.   *)
(* "The jacobian z depends on how a point was computed ... and differs     *)
(* between builds", so only what does not depend on it may be recorded;    *)
(* and several calls are out of contract for infinity.                     *)
(*                                                                         *)
(* The library is external (PrimeGroup): every build computes the same     *)
(* point, with a z of its own, unless it is called out of contract: then   *)
(* the builds compute what they will.                                      *)
(***************************************************************************)
EXTENDS PrimeGroup, Sequences

CONSTANTS
    Builds,         \* numbers of the builds compared
    GrpNRegs,       \* GROUP_REGS
    Zs,             \* the z coordinates a point may have
    Lambda          \* what secp256k1_ge_mul_lambda multiplies by

ASSUME GroupAssumption ==
    /\ Builds \subseteq Nat \ {0}
    /\ GrpNRegs \in Nat \ {0}
    /\ Zs \subseteq Nat /\ 1 \in Zs
    /\ Lambda \in Keys

VARIABLES
    grpReg,        \* grpReg[y][x]: build y's register x, the point it is at and its z
    large,         \* this input may still take a large multiplication
    agree          \* the builds' transcripts are the same so far

grpVars == <<grpReg, large, agree>>

GrpRegs  == 0..(GrpNRegs - 1)
Infinity == 0
Point    == [at : Scalars, z : Zs]

GrpTypeOK ==
    /\ grpReg \in [Builds -> [GrpRegs -> Point]]
    /\ {large, agree} \subseteq BOOLEAN

(* group_large_due decides on large by a hash of the input. *)
GrpInit ==
    /\ grpReg = [y \in Builds |-> [x \in GrpRegs |-> [at |-> Infinity, z |-> 1]]]
    /\ large \in BOOLEAN /\ agree = TRUE

-----------------------------------------------------------------------------
(* External: the calls that have a contract for infinity or zero, in build  *)
(* y.  VERIFY builds abort on the breach of one; the others go on with what *)
(* their arithmetic or memory happens to hold, which is a build's own.      *)

Garbage(y) == -y

(* gej_add_ge for an infinite b. *)
AddedGe(y, p, q) == IF q = Infinity THEN Garbage(y) ELSE Sum(p, q)

(* gej_add_zinv_var, gej_rescale and a fraction of denominator zero. *)
Scaled(y, p, f) == IF f = 0 THEN Garbage(y) ELSE p

(* ecmult_const_xonly of a known point: an x stands for p and its negation. *)
MultipliedX(y, k, p) == IF k = 0 \/ p = Infinity THEN Garbage(y) ELSE EvenY(Product(k, p))

(* gej_eq_x_var: infinity has no x. *)
SameX(y, p, q) == IF Infinity \in {p, q} THEN Garbage(y) ELSE p \in {q, Negated(q)}

(* ge_set_all_gej, which inverts the product of all z. *)
AllAffine(y, ps) == [x \in DOMAIN ps |->
    IF \E w \in DOMAIN ps : ps[w] = Infinity THEN Garbage(y) ELSE ps[x]]

-----------------------------------------------------------------------------
(* The parts of an op. *)

At(y, x) == grpReg[y][x].at

(* What an op does in a build: the point it leaves in d and what it records. *)
Outcome(at, z, rec) == [p |-> [at |-> at, z |-> z], rec |-> rec]
Stays(y, d, rec)    == [p |-> grpReg[y][d], rec |-> rec]

(* The end of every op: the result lands in d and is recorded "in affine    *)
(* coordinates", after what the op recorded itself.                         *)
GrpCommit(d, out) ==
    /\ grpReg' = [y \in Builds |-> [grpReg[y] EXCEPT ![d] = out[y].p]]
    /\ IF \A y, w \in Builds : out[y].rec = out[w].rec /\ out[y].p.at = out[w].p.at
         THEN UNCHANGED agree ELSE agree' = FALSE

(* The z of each build. *)
AnyZ == [Builds -> Zs]

(* A field element of the input is zero or not. *)
Elements == {0, 1}

(* group_take_nonzero_fe *)
Nonzero(f) == IF f = 0 THEN 1 ELSE f

(* Mutated RecordRzr: the ratio, which depends on a's z and the result's. *)
RecordRzrItself(y, a, z) == IF At(y, a) = Infinity THEN Garbage(y) ELSE grpReg[y][a].z

(* group_record_rzr: "only whether the promise holds is comparable across   *)
(* builds", and of infinity there is none.                                  *)
RecordRzr(y, a, z) == IF At(y, a) = Infinity THEN Garbage(y) ELSE 1

-----------------------------------------------------------------------------
(* The ops: d is the destination, a and b are the sources.  What differs    *)
(* between builds is chosen for each, what the input gives for all.         *)

Gen(d) ==
    /\ \E k \in Scalars, z \in AnyZ :
        GrpCommit(d, [y \in Builds |-> Outcome(k, z[y], << >>)])
    /\ UNCHANGED large

(* An x coordinate may not be on the curve: d stays as it is. *)
SetXo(d) ==
    /\ \/ \E p \in Keys : GrpCommit(d, [y \in Builds |-> Outcome(p, 1, <<TRUE>>)])
       \/ GrpCommit(d, [y \in Builds |-> Stays(y, d, <<FALSE>>)])
    /\ UNCHANGED large

SetInfinity(d) ==
    /\ GrpCommit(d, [y \in Builds |-> Outcome(Infinity, 1, << >>)])
    /\ UNCHANGED large

(* GROUP_ADD_VAR and GROUP_ADD_GE_VAR: "rzr is only defined when a is not   *)
(* infinity".                                                               *)
AddVar(d, a, b) ==
    /\ \E z \in AnyZ :
        GrpCommit(d, [y \in Builds |->
            Outcome(Sum(At(y, a), At(y, b)), z[y],
                    IF At(y, a) = Infinity THEN << >> ELSE <<RecordRzr(y, a, z)>>)])
    /\ UNCHANGED large

(* "The constant-time addition rejects an infinite b." *)
AddGe(d, a, b) ==
    /\ \E z \in AnyZ :
        GrpCommit(d, [y \in Builds |->
            IF At(y, b) = Infinity THEN Stays(y, d, << >>)
            ELSE Outcome(AddedGe(y, At(y, a), At(y, b)), z[y], << >>)])
    /\ UNCHANGED large

(* b scaled by a z of the input, and 1/z, which must not be zero. *)
AddZinvVar(d, a, b) ==
    /\ \E f \in Elements, z \in AnyZ :
        GrpCommit(d, [y \in Builds |->
            Outcome(Scaled(y, Sum(At(y, a), At(y, b)), Nonzero(f)), z[y], << >>)])
    /\ UNCHANGED large

(* GROUP_DOUBLE records no ratio, GROUP_DOUBLE_VAR one unless a is infinity. *)
Double(d, a) ==
    /\ \E var \in BOOLEAN, z \in AnyZ :
        GrpCommit(d, [y \in Builds |->
            Outcome(Sum(At(y, a), At(y, a)), z[y],
                    IF var /\ At(y, a) # Infinity THEN <<RecordRzr(y, a, z)>> ELSE << >>)])
    /\ UNCHANGED large

(* The z stays a's. *)
Neg(d, a) ==
    /\ GrpCommit(d, [y \in Builds |-> Outcome(Negated(At(y, a)), grpReg[y][a].z, << >>)])
    /\ UNCHANGED large

(* Another z, the same point. *)
Rescale(d) ==
    /\ \E f \in Elements, z \in AnyZ :
        GrpCommit(d, [y \in Builds |->
            IF At(y, d) = Infinity THEN Stays(y, d, << >>)
            ELSE Outcome(Scaled(y, At(y, d), Nonzero(f)), z[y], << >>)])
    /\ UNCHANGED large

MulLambda(d, a) ==
    /\ GrpCommit(d, [y \in Builds |-> Outcome(Product(Lambda, At(y, a)), 1, << >>)])
    /\ UNCHANGED large

(* GROUP_ECMULT, na*A + ng*G, and with ng dropped GROUP_ECMULT_CONST, too. *)
Ecmult(d, a) ==
    /\ \E na, ng \in Scalars, z \in AnyZ :
        GrpCommit(d, [y \in Builds |->
            Outcome(Sum(Product(na, At(y, a)), ng), z[y], << >>)])
    /\ UNCHANGED large

Known(y, a, raw) == ~raw /\ At(y, a) # Infinity

(* The multiplier the input gives, "must be nonzero". *)
NonzeroScalar(q) == IF q = 0 THEN 1 ELSE q

(* x(q*P) for a known P or a raw fraction, which may be on no curve: "a     *)
(* known point must not be infinity".  Of a raw fraction everything is the  *)
(* input's: whether it is on the curve, and an x that 1 stands for.         *)
EcmultConstXonly(d, a) ==
    /\ \E q \in Scalars, f \in Elements, raw, onCurve \in BOOLEAN :
        GrpCommit(d, [y \in Builds |->
            Stays(y, d,
                  IF Known(y, a, raw)
                  THEN <<TRUE, Scaled(y, MultipliedX(y, NonzeroScalar(q), At(y, a)), Nonzero(f))>>
                  ELSE <<onCurve, Scaled(y, MultipliedX(y, NonzeroScalar(q), 1), Nonzero(f))>>)])
    /\ UNCHANGED large

(* What ng*G and multiples of build y's registers may add up to. *)
Combinations(y, dropped) ==
    IF dropped /\ \A x \in GrpRegs : At(y, x) = Infinity THEN {Infinity} ELSE Scalars

(* Mutated Failed: the partial sum stays. *)
Partial(sum) == sum

(* "A failed batch leaves a partial sum, which depends on the batch sizes   *)
(* and so on the struct sizes of the build": it is replaced by infinity.    *)
Failed(sum) == Infinity

(* group_ecmult_multi fails if the callback does, which depends on the      *)
(* input alone.  The number of points and the scratch space decide how the  *)
(* sum is computed and in what batches, not what it is.                     *)
EcmultMulti(d) ==
    /\ \/ \E dropped \in BOOLEAN, p \in Scalars, z \in AnyZ :
            /\ \A y \in Builds : p \in Combinations(y, dropped)
            /\ GrpCommit(d, [y \in Builds |-> Outcome(p, z[y], <<TRUE>>)])
       \/ \E sum \in [Builds -> Scalars] :
            GrpCommit(d, [y \in Builds |-> Outcome(Failed(sum[y]), 1, <<FALSE>>)])
    /\ large' \in {FALSE, large}

(* Mutated ConstantTime: only the first of them is looked at. *)
ConstantTimeFirst(y, batch) == 0 \in batch => At(y, 0) # Infinity

(* "The constant-time batch rejects infinity." *)
ConstantTime(y, batch) == \A x \in batch : At(y, x) # Infinity

(* group_batch_affine on the first n registers, to affine once in variable  *)
(* time and then, maybe, once more in constant time.                        *)
BatchAffine(d) ==
    /\ \E halvings \in 0..3 :
        LET batch == 0..((GrpNRegs \div 2^halvings) - 1)
            Affine(y) == [x \in batch |-> At(y, x)]
        IN  GrpCommit(d, [y \in Builds |->
                Stays(y, d,
                      IF ConstantTime(y, batch) THEN <<Affine(y), AllAffine(y, Affine(y))>>
                      ELSE <<Affine(y)>>)])
    /\ UNCHANGED large

(* gej_eq_x_var reads b's affine x, and a, neither of which is infinity. *)
Comparable(y, a, b) == At(y, a) # Infinity /\ At(y, b) # Infinity

(* group_query *)
Query(d, a, b) ==
    /\ \E f \in Elements :
        GrpCommit(d, [y \in Builds |->
            Stays(y, d,
                  <<At(y, a) = Infinity, At(y, a) = At(y, b), Scaled(y, 1, Nonzero(f))>>
                    \o IF Comparable(y, a, b) THEN <<SameX(y, At(y, a), At(y, b))>> ELSE << >>)])
    /\ UNCHANGED large

GrpNext ==
    \E d \in GrpRegs :
        \/ Gen(d) \/ SetXo(d) \/ SetInfinity(d) \/ Rescale(d) \/ EcmultMulti(d)
        \/ BatchAffine(d)
        \/ \E a \in GrpRegs :
            \/ Double(d, a) \/ Neg(d, a) \/ MulLambda(d, a) \/ Ecmult(d, a)
            \/ EcmultConstXonly(d, a)
            \/ \E b \in GrpRegs :
                AddVar(d, a, b) \/ AddGe(d, a, b) \/ AddZinvVar(d, a, b) \/ Query(d, a, b)

GrpSpec == GrpInit /\ [][GrpNext]_grpVars
-----------------------------------------------------------------------------
(* Properties. *)

(* Builds that compute the same points record the same, whatever their z    *)
(* coordinates, whatever a failed multiplication leaves in each, and        *)
(* whichever registers earlier ops have left at infinity, where a call out  *)
(* of contract would differ: a divergence is never the harness's own.       *)
BuildsAgree == agree
=============================================================================
