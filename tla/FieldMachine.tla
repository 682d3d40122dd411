---------------------------- MODULE FieldMachine ----------------------------
(***************************************************************************)
(* src/targets/field.c: field arithmetic as a register machine.  The       *)
(* library's field element has a magnitude and a normalized flag, which    *)
(* its VERIFY builds track and its calls bound; the harness tracks the     *)
(* magnitude on its own, in every build, to stay within those bounds.      *)
(* Values are left out: no operation's control depends on them except      *)
(* set_b32_limit's success.                                                *)
(***************************************************************************)
EXTENDS Integers

CONSTANT NRegs                  \* FIELD_REGS

ASSUME FieldAssumption == NRegs \in Nat \ {0}

VARIABLES
    reg,        \* reg[x]: mag, the harness's magnitude; lib and norm, the library's
    legal       \* every call so far was within the library's contract

vars == <<reg, legal>>

Regs == 0..(NRegs - 1)
Register == [mag : 0..32, lib : Nat, norm : BOOLEAN]

TypeOK == reg \in [Regs -> Register] /\ legal \in BOOLEAN

Init ==
    /\ reg = [x \in Regs |-> [mag |-> 0, lib |-> 0, norm |-> TRUE]]
    /\ legal = TRUE

-----------------------------------------------------------------------------
(* field_weaken and field_limit, on registers R. *)
Weaken(R, x)     == [R EXCEPT ![x] = [mag |-> 1, lib |-> 1, norm |-> @.norm]]
Limit(R, x, max) == IF R[x].mag > max THEN Weaken(R, x) ELSE R

(* The end of an operation on registers R: a call of which the contract is  *)
(* ok wrote d and left it with magnitude lib, and mag for the harness.      *)
Called(ok) == IF ok THEN UNCHANGED legal ELSE legal' = FALSE
Result(R, d, mag, lib, norm) ==
    reg' = [R EXCEPT ![d] = [mag |-> mag, lib |-> lib, norm |-> norm]]

SetB32Mod(d) == Result(reg, d, 1, 1, FALSE) /\ Called(TRUE)

(* An input of p or more makes d invalid, so it is overwritten with zero. *)
SetB32Limit(d) ==
    /\ Result(reg, d, 1, 1, TRUE) \/ Result(reg, d, 0, 0, TRUE)
    /\ Called(TRUE)

(* d may be a: weakening d weakens both. *)
Add(d, a) ==
    LET R == IF reg[d].mag + reg[a].mag > 32 THEN Weaken(reg, d) ELSE reg
        S == IF R[d].mag + R[a].mag > 32 THEN Weaken(R, a) ELSE R
    IN  /\ Result(S, d, S[d].mag + S[a].mag, S[d].lib + S[a].lib, FALSE)
        /\ Called(S[d].lib + S[a].lib =< 32)

(* Mutated AddInt: the result may have magnitude 33. *)
AddIntUnlimited(d) ==
    /\ Result(reg, d, reg[d].mag + 1, reg[d].lib + 1, FALSE)
    /\ Called(reg[d].lib + 1 =< 32)

AddInt(d) ==
    LET R == Limit(reg, d, 31)
    IN  Result(R, d, R[d].mag + 1, R[d].lib + 1, FALSE) /\ Called(R[d].lib + 1 =< 32)

(* Mutated Factor: the register itself is passed. *)
FactorInPlace(b) == b

(* Where the second factor is: in tmp, a place beside the registers, as it  *)
(* may be neither the result nor the first factor.                          *)
Tmp == NRegs
Factor(b) == Tmp

Mul(d, a, b) ==
    LET R == Limit(Limit(reg, a, 8), b, 8)
    IN  /\ Result(R, d, 1, 1, FALSE)
        /\ Called(R[a].lib =< 8 /\ R[b].lib =< 8 /\ Factor(b) \notin {d, a})

Sqr(d, a) ==
    LET R == Limit(reg, a, 8) IN Result(R, d, 1, 1, FALSE) /\ Called(R[a].lib =< 8)

(* Negation for any magnitude m the contract allows, from a's up. *)
Negate(d, a) ==
    LET R == Limit(reg, a, 31) IN
    \E m \in R[a].mag..31 :
        Result(R, d, m + 1, m + 1, FALSE) /\ Called(R[a].lib =< m /\ m =< 31)

MulInt(d) ==
    \E m \in 0..32 :
        LET R == IF m * reg[d].mag > 32 THEN Weaken(reg, d) ELSE reg
        IN  Result(R, d, m * R[d].mag, m * R[d].lib, FALSE) /\ Called(m * R[d].lib =< 32)

Half(d) ==
    LET R == Limit(reg, d, 31)
    IN  /\ Result(R, d, R[d].mag \div 2 + 1, R[d].lib \div 2 + 1, FALSE)
        /\ Called(R[d].lib =< 31)

(* FIELD_NORMALIZE and FIELD_NORMALIZE_VAR *)
Normalize(d) == Result(reg, d, 1, 1, TRUE) /\ Called(TRUE)

NormalizeWeak(d) == reg' = Weaken(reg, d) /\ UNCHANGED legal

(* FIELD_INV and FIELD_INV_VAR: a zero of magnitude 0 stays one. *)
Inv(d, a) ==
    /\ Result(reg, d, IF reg[a].mag # 0 THEN 1 ELSE 0, IF reg[a].lib > 0 THEN 1 ELSE 0, TRUE)
    /\ Called(TRUE)

(* The root goes to a temporary, as it may not share a's place. *)
Sqrt(d, a) ==
    LET R == Limit(reg, a, 8) IN Result(R, d, 1, 1, FALSE) /\ Called(R[a].lib =< 8)

Larger(x, y) == IF x > y THEN x ELSE y

(* Mutated Cmov: the harness follows the value selected. *)
CmovSelected(d, a) ==
    /\ \E s \in {d, a} :
        Result(reg, d, reg[s].mag, Larger(reg[d].lib, reg[a].lib), reg[d].norm /\ reg[a].norm)
    /\ Called(TRUE)

(* The library's magnitude, too, ignores which of the two was selected. *)
Cmov(d, a) ==
    /\ Result(reg, d, Larger(reg[d].mag, reg[a].mag), Larger(reg[d].lib, reg[a].lib),
              reg[d].norm /\ reg[a].norm)
    /\ Called(TRUE)

(* To storage, which takes a normalized element, and back. *)
Storage(d) ==
    LET full == [reg[d] EXCEPT !.lib = 1, !.norm = TRUE]
    IN  Result(reg, d, 1, 1, TRUE) /\ Called(full.norm)

(* field_query compares copies: weakly normalized for equal, normalized for *)
(* is_zero, is_odd and cmp_var.                                             *)
Query(a, b) ==
    LET weak == Weaken(Weaken(reg, a), b)
        full == [x \in {a, b} |-> [weak[x] EXCEPT !.norm = TRUE]]
    IN  /\ Called(weak[a].lib =< 1 /\ weak[b].lib =< 31 /\ full[a].norm /\ full[b].norm)
        /\ UNCHANGED reg

Next ==
    \E d, a, b \in Regs :
        \/ SetB32Mod(d) \/ SetB32Limit(d) \/ Add(d, a) \/ AddInt(d)
        \/ Mul(d, a, b) \/ Sqr(d, a) \/ Negate(d, a) \/ MulInt(d) \/ Half(d)
        \/ Normalize(d) \/ NormalizeWeak(d) \/ Inv(d, a) \/ Sqrt(d, a)
        \/ Cmov(d, a) \/ Storage(d) \/ Query(a, b)

Spec == Init /\ [][Next]_vars

-----------------------------------------------------------------------------
(* Properties. *)

(* The harness's magnitude of every register is the library's, through      *)
(* aliased operands and operands weakened on the way: tracked too low, a    *)
(* later call breaks its contract; too high, the large magnitudes the       *)
(* target is for are never reached.                                         *)
MagnitudesTracked == \A x \in Regs : reg[x].mag = reg[x].lib

(* No sequence of operations makes a call outside the documented bounds     *)
(* ("weakly normalizes operands before any call that would exceed" them).   *)
CallsInContract == legal
=============================================================================
