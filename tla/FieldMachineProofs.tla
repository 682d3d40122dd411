------------------------- MODULE FieldMachineProofs -------------------------
(***************************************************************************)
(* Proofs about FieldMachine, for any number of registers: one invariant   *)
(* is inductive, the types, the magnitudes tracked and the calls in        *)
(* contract together, since an operation stays in contract only because    *)
(* the magnitude it tests is the library's.  Then the harness's other      *)
(* bounds: the DER buffers (EcdsaDer), for any input, the transcript       *)
(* (TranscriptBudget), and the calls of ScalarMachine, for any number of   *)
(* registers.                                                              *)
(***************************************************************************)
EXTENDS FieldMachine, EcdsaDer, TranscriptBudget, ScalarMachine, TLAPS

IInv == TypeOK /\ MagnitudesTracked /\ CallsInContract

(* What an operation may assume of registers R, and must ensure. *)
Tracked(R) == R \in [Regs -> Register] /\ \A x \in Regs : R[x].mag = R[x].lib

(* field_weaken keeps the magnitudes tracked, with 1 for x and no other     *)
(* register changed (src/targets/field.c:42-45).                            *)
LEMMA WeakenTracked ==
    ASSUME NEW R, Tracked(R), NEW x \in Regs
    PROVE  /\ Tracked(Weaken(R, x))
           /\ Weaken(R, x)[x].mag = 1
           /\ \A y \in Regs : y # x => Weaken(R, x)[y] = R[y]
<1> DEFINE W == [mag |-> 1, lib |-> 1, norm |-> R[x].norm]
<1>1. W \in Register /\ W.mag = 1 /\ W.lib = 1
  BY DEF Tracked, Register
<1>2. Weaken(R, x) = [R EXCEPT ![x] = W]
  BY DEF Weaken, Tracked, Register
<1> QED
  BY <1>1, <1>2 DEF Tracked

(* field_limit keeps them tracked and brings x's under any limit of at      *)
(* least 1 (src/targets/field.c:47-51).                                     *)
LEMMA LimitTracked ==
    ASSUME NEW R, Tracked(R), NEW x \in Regs, NEW max \in 1..32
    PROVE  /\ Tracked(Limit(R, x, max))
           /\ Limit(R, x, max)[x].mag =< max
           /\ \A y \in Regs : y # x => Limit(R, x, max)[y] = R[y]
BY WeakenTracked DEF Limit, Tracked, Register

(* An operation that ends by writing equal magnitudes of at most 32 to d,   *)
(* with its call in contract, establishes the invariant.                    *)
LEMMA ResultSound ==
    ASSUME NEW R, Tracked(R), NEW d \in Regs, NEW g \in 0..32, NEW n \in BOOLEAN,
           Result(R, d, g, g, n), legal' = TRUE
    PROVE  IInv'
<1> DEFINE V == [mag |-> g, lib |-> g, norm |-> n]
<1>1. V \in Register /\ V.mag = V.lib
  BY DEF Register
<1>2. reg' = [R EXCEPT ![d] = V]
  BY DEF Result
<1> QED
  BY <1>1, <1>2 DEF IInv, TypeOK, MagnitudesTracked, CallsInContract, Tracked

(* The registers start as zeros of magnitude 0. *)
LEMMA InitIInv == Init => IInv
BY DEF Init, IInv, TypeOK, MagnitudesTracked, CallsInContract, Register

(* Every operation, on any registers and however they are aliased. *)
LEMMA NextIInv == IInv /\ [Next]_vars => IInv'
<1> SUFFICES ASSUME IInv, [Next]_vars PROVE IInv'
  OBVIOUS
<1>0. Tracked(reg) /\ legal = TRUE
  BY DEF IInv, TypeOK, MagnitudesTracked, CallsInContract, Tracked
<1>1. CASE UNCHANGED vars
  BY <1>1 DEF IInv, TypeOK, MagnitudesTracked, CallsInContract, vars
<1>2. ASSUME NEW d \in Regs, NEW a \in Regs, NEW b \in Regs,
             SetB32Mod(d) \/ SetB32Limit(d) \/ Add(d, a) \/ AddInt(d)
             \/ Mul(d, a, b) \/ Sqr(d, a) \/ Negate(d, a) \/ MulInt(d) \/ Half(d)
             \/ Normalize(d) \/ NormalizeWeak(d) \/ Inv(d, a) \/ Sqrt(d, a)
             \/ Cmov(d, a) \/ Storage(d) \/ Query(a, b)
      PROVE  IInv'
  <2> USE <1>0
  <2>0. \A x \in Regs : reg[x].mag \in 0..32 /\ reg[x].lib = reg[x].mag /\ reg[x].norm \in BOOLEAN
    BY DEF Tracked, Register
  <2>z. 0 \in 0..32 /\ 1 \in 0..32 /\ TRUE \in BOOLEAN /\ FALSE \in BOOLEAN
    OBVIOUS
  <2>1. CASE SetB32Mod(d)
    <3>1. Result(reg, d, 1, 1, FALSE) /\ legal' = TRUE
      BY <2>1 DEF SetB32Mod, Called
    <3> QED
      BY <3>1, <2>z, ResultSound
  <2>2. CASE SetB32Limit(d)
    <3>1. /\ Result(reg, d, 1, 1, TRUE) \/ Result(reg, d, 0, 0, TRUE)
          /\ legal' = TRUE
      BY <2>2 DEF SetB32Limit, Called
    <3> QED
      BY <3>1, <2>z, ResultSound
  <2>3. CASE Add(d, a)
    <3> DEFINE R == IF reg[d].mag + reg[a].mag > 32 THEN Weaken(reg, d) ELSE reg
               S == IF R[d].mag + R[a].mag > 32 THEN Weaken(R, a) ELSE R
    <3>1. Tracked(R) /\ (R[d].mag = 1 \/ R[d].mag + R[a].mag =< 32)
      <4>1. CASE reg[d].mag + reg[a].mag > 32
        BY <4>1, WeakenTracked
      <4>2. CASE ~(reg[d].mag + reg[a].mag > 32)
        BY <4>2, <2>0
      <4> QED
        BY <4>1, <4>2
    <3>2. /\ R[d].mag \in 0..32 /\ R[a].mag \in 0..32
      BY <3>1 DEF Tracked, Register
    <3> HIDE DEF R
    <3>3. Tracked(S)
      BY <3>1, WeakenTracked
    <3>4. S[d].mag + S[a].mag =< 32
      <4>1. CASE R[d].mag + R[a].mag > 32
        <5>1. S = Weaken(R, a) /\ R[d].mag = 1
          BY <4>1, <3>1, <3>2
        <5>2. S[a].mag = 1 /\ S[d].mag = 1
          BY <5>1, <3>1, WeakenTracked
        <5> QED BY <5>2
      <4>2. CASE ~(R[d].mag + R[a].mag > 32)
        BY <4>2, <3>2
      <4> QED BY <4>1, <4>2
    <3>5. /\ S[d].mag \in 0..32 /\ S[a].mag \in 0..32
          /\ S[d].lib = S[d].mag /\ S[a].lib = S[a].mag
      BY <3>3 DEF Tracked, Register
    <3>6. /\ Result(S, d, S[d].mag + S[a].mag, S[d].lib + S[a].lib, FALSE)
          /\ Called(S[d].lib + S[a].lib =< 32)
      BY <2>3 DEF Add, R
    <3> HIDE DEF S
    <3> DEFINE g == S[d].mag + S[a].mag
    <3>7. g \in 0..32 /\ S[d].lib + S[a].lib = g /\ S[d].lib + S[a].lib =< 32
      <4>1. \A u, v \in 0..32 : u + v =< 32 => u + v \in 0..32
        OBVIOUS
      <4>2. S[d].lib + S[a].lib = g
        BY <3>5
      <4> QED
        BY <3>4, <3>5, <4>1, <4>2
    <3>8. legal' = TRUE
      BY <3>6, <3>7, Zenon DEF Called
    <3>9. Result(S, d, g, g, FALSE)
      BY <3>6, <3>7
    <3> HIDE DEF g
    <3> QED
      BY <3>3, <3>7, <3>8, <3>9, <2>z, ResultSound
  <2>4. CASE AddInt(d)
    <3> DEFINE R == Limit(reg, d, 31)
    <3>1. Tracked(R) /\ R[d].mag =< 31
      BY LimitTracked
    <3>2. R[d].mag \in 0..31 /\ R[d].lib = R[d].mag
      BY <3>1 DEF Tracked, Register
    <3>3. Result(R, d, R[d].mag + 1, R[d].lib + 1, FALSE) /\ Called(R[d].lib + 1 =< 32)
      BY <2>4 DEF AddInt
    <3> HIDE DEF R
    <3> DEFINE g == R[d].mag + 1
    <3>4. g \in 0..32 /\ R[d].lib + 1 = g /\ R[d].lib + 1 =< 32
      BY <3>2
    <3>5. legal' = TRUE
      BY <3>3, <3>4, Zenon DEF Called
    <3>6. Result(R, d, g, g, FALSE)
      BY <3>3, <3>4
    <3> HIDE DEF g
    <3> QED
      BY <3>1, <3>4, <3>5, <3>6, <2>z, ResultSound
  <2>5. CASE Mul(d, a, b)
    <3> DEFINE Q == Limit(reg, a, 8)
               R == Limit(Q, b, 8)
    <3>1. Tracked(Q) /\ Q[a].mag =< 8
      BY LimitTracked
    <3>2. Tracked(R) /\ R[b].mag =< 8 /\ (a # b => R[a] = Q[a])
      BY <3>1, LimitTracked
    <3>3. R[a].lib =< 8 /\ R[b].lib =< 8
      BY <3>1, <3>2 DEF Tracked
    <3>4. Factor(b) \notin {d, a}
      BY FieldAssumption DEF Factor, Tmp, Regs
    <3> QED
      <4>1. Result(R, d, 1, 1, FALSE) /\ legal' = TRUE
        BY <2>5, <3>3, <3>4 DEF Mul, Called
      <4> HIDE DEF R
      <4> QED
        BY <4>1, <3>2, <2>z, ResultSound
  <2>6. CASE Sqr(d, a)
    <3>1. Tracked(Limit(reg, a, 8)) /\ Limit(reg, a, 8)[a].mag =< 8
      BY LimitTracked
    <3>2. Limit(reg, a, 8)[a].lib =< 8
      BY <3>1 DEF Tracked
    <3> QED
      <4>1. Result(Limit(reg, a, 8), d, 1, 1, FALSE) /\ legal' = TRUE
        BY <2>6, <3>2 DEF Sqr, Called
      <4> QED
        BY <4>1, <3>1, <2>z, ResultSound
  <2>7. CASE Negate(d, a)
    <3> DEFINE R == Limit(reg, a, 31)
    <3>1. Tracked(R)
      BY LimitTracked
    <3>2. R[a].mag \in 0..32 /\ R[a].lib = R[a].mag
      BY <3>1 DEF Tracked, Register
    <3>3. PICK k \in R[a].mag..31 :
            Result(R, d, k + 1, k + 1, FALSE) /\ Called(R[a].lib =< k /\ k =< 31)
      BY <2>7 DEF Negate
    <3> HIDE DEF R
    <3> DEFINE g == k + 1
    <3>4. g \in 0..32 /\ R[a].lib =< k /\ k =< 31
      BY <3>2
    <3>5. legal' = TRUE
      BY <3>3, <3>4, Zenon DEF Called
    <3>6. Result(R, d, g, g, FALSE)
      BY <3>3
    <3> HIDE DEF g
    <3> QED
      BY <3>1, <3>4, <3>5, <3>6, <2>z, ResultSound
  <2>8. CASE MulInt(d)
    <3>1. PICK k \in 0..32 :
            LET R == IF k * reg[d].mag > 32 THEN Weaken(reg, d) ELSE reg
            IN  Result(R, d, k * R[d].mag, k * R[d].lib, FALSE) /\ Called(k * R[d].lib =< 32)
      BY <2>8 DEF MulInt
    <3> DEFINE R == IF k * reg[d].mag > 32 THEN Weaken(reg, d) ELSE reg
               g == k * R[d].mag
    <3>2. Tracked(R)
      BY WeakenTracked
    <3>3. R[d].lib = R[d].mag /\ R[d].mag \in 0..32
      BY <3>2 DEF Tracked, Register
    <3>4. k * reg[d].mag \in Nat
      BY <2>0
    <3>5. g \in 0..32
      <4>1. CASE k * reg[d].mag > 32
        BY <4>1, WeakenTracked
      <4>2. CASE ~(k * reg[d].mag > 32)
        BY <4>2, <3>4
      <4> QED BY <4>1, <4>2
    <3>6. Result(R, d, g, g, FALSE) /\ Called(g =< 32)
      BY <3>1, <3>3
    <3> HIDE DEF R, g
    <3>8. g =< 32
      BY <3>5
    <3>7. legal' = TRUE
      BY <3>6, <3>8, Zenon DEF Called
    <3> QED
      BY <3>2, <3>5, <3>6, <3>7, <2>z, ResultSound
  <2>9. CASE Half(d)
    <3> DEFINE R == Limit(reg, d, 31)
    <3>1. Tracked(R) /\ R[d].mag =< 31
      BY LimitTracked
    <3>2. R[d].mag \in 0..31 /\ R[d].lib = R[d].mag
      BY <3>1 DEF Tracked, Register
    <3>3. /\ Result(R, d, R[d].mag \div 2 + 1, R[d].lib \div 2 + 1, FALSE)
          /\ Called(R[d].lib =< 31)
      BY <2>9 DEF Half
    <3> HIDE DEF R
    <3> DEFINE g == R[d].mag \div 2 + 1
    <3>4. g \in 0..32
      <4>1. \A u \in 0..31 : u \div 2 + 1 \in 0..32
        OBVIOUS
      <4> QED
        BY <3>2, <4>1
    <3>5. Result(R, d, g, g, FALSE)
      BY <3>2, <3>3
    <3>7. R[d].lib =< 31
      BY <3>2
    <3>6. legal' = TRUE
      BY <3>3, <3>7, Zenon DEF Called
    <3> HIDE DEF g
    <3> QED
      BY <3>1, <3>4, <3>5, <3>6, <2>z, ResultSound
  <2>10. CASE Normalize(d)
    <3>1. Result(reg, d, 1, 1, TRUE) /\ legal' = TRUE
      BY <2>10 DEF Normalize, Called
    <3> QED
      BY <3>1, <2>z, ResultSound
  <2>11. CASE NormalizeWeak(d)
    BY <2>11, WeakenTracked
    DEF NormalizeWeak, IInv, TypeOK, MagnitudesTracked, CallsInContract, Tracked
  <2>12. CASE Inv(d, a)
    <3> DEFINE g == IF reg[a].mag # 0 THEN 1 ELSE 0
    <3>1. g \in 0..32 /\ g = IF reg[a].lib > 0 THEN 1 ELSE 0
      BY <2>0
    <3>2. Result(reg, d, g, g, TRUE) /\ legal' = TRUE
      BY <2>12, <3>1 DEF Inv, Called
    <3> HIDE DEF g
    <3> QED
      BY <3>1, <3>2, <2>z, ResultSound
  <2>13. CASE Sqrt(d, a)
    <3>1. Tracked(Limit(reg, a, 8)) /\ Limit(reg, a, 8)[a].mag =< 8
      BY LimitTracked
    <3>2. Limit(reg, a, 8)[a].lib =< 8
      BY <3>1 DEF Tracked
    <3> QED
      <4>1. Result(Limit(reg, a, 8), d, 1, 1, FALSE) /\ legal' = TRUE
        BY <2>13, <3>2 DEF Sqrt, Called
      <4> QED
        BY <4>1, <3>1, <2>z, ResultSound
  <2>14. CASE Cmov(d, a)
    <3> DEFINE g == Larger(reg[d].mag, reg[a].mag)
               n == reg[d].norm /\ reg[a].norm
    <3>1. g \in 0..32 /\ n \in BOOLEAN /\ g = Larger(reg[d].lib, reg[a].lib)
      BY <2>0 DEF Larger
    <3>2. Result(reg, d, g, g, n) /\ legal' = TRUE
      BY <2>14, <3>1 DEF Cmov, Called
    <3> HIDE DEF g, n
    <3> QED
      BY <3>1, <3>2, ResultSound
  <2>15. CASE Storage(d)
    <3>1. [reg[d] EXCEPT !.lib = 1, !.norm = TRUE].norm = TRUE
      BY DEF Tracked, Register
    <3>2. Result(reg, d, 1, 1, TRUE) /\ legal' = TRUE
      BY <2>15, <3>1 DEF Storage, Called
    <3> QED
      BY <3>2, <2>z, ResultSound
  <2>16. CASE Query(a, b)
    <3> DEFINE weak == Weaken(Weaken(reg, a), b)
               full == [x \in {a, b} |-> [weak[x] EXCEPT !.norm = TRUE]]
    <3>1. Tracked(Weaken(reg, a)) /\ Weaken(reg, a)[a].mag = 1
      BY WeakenTracked
    <3>2. /\ Tracked(weak) /\ weak[b].mag = 1
          /\ a # b => weak[a] = Weaken(reg, a)[a]
      BY <3>1, WeakenTracked
    <3>3. weak[a].lib = 1 /\ weak[b].lib = 1
      BY <3>1, <3>2 DEF Tracked
    <3>4. weak[a] \in Register /\ weak[b] \in Register
      BY <3>2 DEF Tracked
    <3>5. full[a].norm = TRUE /\ full[b].norm = TRUE
      BY <3>4 DEF Register
    <3>6. reg' = reg /\ Called(weak[a].lib =< 1 /\ weak[b].lib =< 31 /\ full[a].norm /\ full[b].norm)
      BY <2>16 DEF Query
    <3> HIDE DEF weak, full
    <3>7. weak[a].lib =< 1 /\ weak[b].lib =< 31
      BY <3>3
    <3>8. legal' = TRUE
      BY <3>5, <3>6, <3>7, Zenon DEF Called
    <3> QED
      BY <3>6, <3>8 DEF IInv, TypeOK, MagnitudesTracked, CallsInContract
  <2> QED
    BY <1>2, <2>1, <2>2, <2>3, <2>4, <2>5, <2>6, <2>7, <2>8, <2>9, <2>10, <2>11,
       <2>12, <2>13, <2>14, <2>15, <2>16
<1> QED
  BY <1>1, <1>2 DEF Next

(* The harness and the library agree on every magnitude, and no sequence of *)
(* operations breaks a contract, with any number of registers.              *)
THEOREM FieldSafe == Spec => [](TypeOK /\ MagnitudesTracked /\ CallsInContract)
<1>1. IInv => TypeOK /\ MagnitudesTracked /\ CallsInContract
  BY DEF IInv
<1> QED
  BY InitIInv, NextIInv, <1>1, PTL DEF Spec

(* The magnitude the harness tracks is the library's, in every register. *)
COROLLARY MagnitudesTrackedAlways == Spec => []MagnitudesTracked
BY FieldSafe, PTL

-----------------------------------------------------------------------------
(* EcdsaDer.  What each step may assume of the lengths; the loop's bound is   *)
(* per integer, the mutations' per insertion.                                 *)

DerStages ==
    /\ derPc \in {"head", "source", "ints"} => derShort = 0
    /\ derPc \in {"head", "source", "ints", "close"} => derLen = 0
    /\ derPc \in {"head", "source"} => derBody = 0 /\ derCount = 0
    /\ derPc = "ints" =>
           derCount \in 0..2 /\ 2 * derCount <= derBody /\ derBody <= derCount * DerIntMax
    /\ derPc = "close" => derBody \in 4..DerBodyMax /\ derCount = 0
    /\ derPc \in {"mutate", "tail", "done"} => derBody \in 0..DerBodyMax
    /\ derPc = "mutate" => derLen <= 4 + DerBodyMax + derCount
    /\ derPc = "tail" => derLen <= 4 + DerBodyMax + 7
    /\ derPc = "done" => derLen <= 4 + DerBodyMax + 7 + DerInputMax

DerIInv == DerTypeOK /\ DerStages

LEMMA DerInitIInv == DerInit => DerIInv
BY DerAssumption DEF DerInit, DerIInv, DerTypeOK, DerStages

(* reader_take leaves a part of what there was. *)
LEMMA DerTakenLeft ==
    ASSUME DerTypeOK, NEW n \in Nat PROVE DerTaken(n) \in 0..DerInputMax
BY DerAssumption DEF DerTypeOK, DerTaken

(* ecdsa_der_len writes one to three octets, three only from 256 on. *)
LEMMA DerOctets ==
    ASSUME NEW len \in Nat, NEW long \in BOOLEAN
    PROVE  DerLenOctets(len, long) \in 1..3 /\ (len < 256 => DerLenOctets(len, long) <= 2)
BY DEF DerLenOctets

(* An integer of ecdsa_der_build takes from 2 to DerIntMax bytes. *)
LEMMA DerIntStep == ASSUME DerIInv, DerInt PROVE DerIInv'
<1>1. PICK len \in DerIntLens, long \in BOOLEAN :
          /\ derBody' = derBody + 1 + DerLenOctets(len, long) + len
          /\ derLeft' = DerTaken(1 + len)
  BY DEF DerInt
<1>2. len \in 0..255
  BY DerAssumption
<1> DEFINE o == DerLenOctets(len, long)
<1>3. o \in 1..2
  BY <1>2, DerOctets
<1>4. derLeft' \in 0..DerInputMax
  BY <1>1, <1>2, DerTakenLeft DEF DerIInv
<1> HIDE DEF o
<1>5. derBody' = derBody + 1 + o + len
  BY <1>1 DEF o
<1> QED
  BY <1>2, <1>3, <1>4, <1>5 DEF DerInt, DerIInv, DerTypeOK, DerStages, DerIntsAre, DerIntMax, DerBodyMax

LEMMA DerStep == DerIInv /\ [DerNext]_derVars => DerIInv'
<1> SUFFICES ASSUME DerIInv, [DerNext]_derVars PROVE DerIInv'
  OBVIOUS
<1> USE DerAssumption DEF DerIInv
<1>1. CASE DerHead
  <2>1. derLeft' \in 0..DerInputMax
    BY <1>1, DerTakenLeft DEF DerHead
  <2> QED
    BY <1>1, <2>1 DEF DerHead, DerTypeOK, DerStages
<1>2. CASE DerNone
  BY <1>2 DEF DerNone, DerTypeOK, DerStages, DerBodyMax, DerIntMax
<1>3. CASE DerSerialize
  BY <1>3 DEF DerSerialize, DerSerialized, DerTypeOK, DerStages, DerBodyMax, DerIntMax
<1>4. CASE DerBuild
  <2>1. derLeft' \in 0..DerInputMax
    BY <1>4, DerTakenLeft DEF DerBuild
  <2> QED
    BY <1>4, <2>1 DEF DerBuild, DerTypeOK, DerStages, DerIntMax
<1>5. CASE DerInt
  BY <1>5, DerIntStep
<1>6. CASE DerShorten
  <2>1. PICK by \in 0..3 :
            \/ derShort' = by /\ UNCHANGED <<derBody, derLeft>>
            \/ derBody' = derBody + by /\ derLeft' = DerTaken(by) /\ UNCHANGED derShort
    BY <1>6 DEF DerShorten
  <2>2. derLeft' \in 0..DerInputMax
    BY <2>1, DerTakenLeft DEF DerTypeOK
  <2>3. derBody \in 4..(2 * DerIntMax) /\ derShort = 0 /\ derLen = 0
    BY <1>6 DEF DerShorten, DerTypeOK, DerStages, DerIntsAre, DerIntMax
  <2>4. derBody' \in 4..DerBodyMax /\ derShort' \in 0..3
    BY <2>1, <2>3 DEF DerIntMax, DerBodyMax
  <2> QED
    BY <1>6, <2>2, <2>3, <2>4 DEF DerShorten, DerTypeOK, DerStages, DerBodyMax, DerIntMax
<1>7. CASE DerClose
  <2>1. PICK long \in BOOLEAN : derLen' = 1 + DerLenOctets(derBody - derShort, long) + derBody
    BY <1>7 DEF DerClose
  <2>2. derBody \in 4..DerBodyMax /\ derShort \in 0..3
    BY <1>7 DEF DerClose, DerStages, DerTypeOK
  <2> DEFINE o == DerLenOctets(derBody - derShort, long)
  <2>3. o \in 1..3
    BY <2>2, DerOctets DEF DerBodyMax, DerIntMax
  <2> HIDE DEF o
  <2>4. derLen' = 1 + o + derBody
    BY <2>1 DEF o
  <2> QED
    BY <1>7, <2>2, <2>3, <2>4 DEF DerClose, DerTypeOK, DerStages, DerBodyMax, DerIntMax
<1>8. CASE DerInsert
  <2>1. derLeft' \in 0..DerInputMax
    BY <1>8, DerTakenLeft DEF DerInsert
  <2> QED
    BY <1>8, <2>1 DEF DerInsert, DerTypeOK, DerStages, DerBodyMax, DerIntMax
<1>9. CASE DerMutate
  <2>1. derLeft' \in 0..DerInputMax
    BY <1>9, DerTakenLeft DEF DerMutate
  <2> QED
    BY <1>9, <2>1 DEF DerMutate, DerTypeOK, DerStages, DerBodyMax, DerIntMax
<1>10. CASE DerMutationsEnd
  BY <1>10 DEF DerMutationsEnd, DerTypeOK, DerStages, DerBodyMax, DerIntMax
<1>11. CASE DerTail
  BY <1>11 DEF DerTail, DerTypeOK, DerStages, DerBodyMax, DerIntMax
<1>12. CASE UNCHANGED derVars
  BY <1>12 DEF derVars, DerTypeOK, DerStages
<1> QED
  BY <1>1, <1>2, <1>3, <1>4, <1>5, <1>6, <1>7, <1>8, <1>9, <1>10, <1>11, <1>12 DEF DerNext

(* Whatever the input's length and the built integers', the encoding, seven   *)
(* insertions and the rest of the input fit in der[].                         *)
THEOREM DerFitsAlways == DerSpec => []DerFits
<1>1. DerIInv => DerFits
  BY DerAssumption DEF DerIInv, DerTypeOK, DerStages, DerFits, DerMax, DerBodyMax, DerIntMax
<1> QED
  BY <1>1, DerInitIInv, DerStep, PTL DEF DerSpec

(* Both integers and what follows them fit in body[]. *)
THEOREM DerBodyFitsAlways == DerSpec => []DerBodyFits
<1>1. DerIInv => DerBodyFits
  BY DEF DerIInv, DerTypeOK, DerStages, DerBodyFits, DerBodyMax, DerIntMax
<1> QED
  BY <1>1, DerInitIInv, DerStep, PTL DEF DerSpec

(* The sequence's length never wraps round. *)
THEOREM DerShortFitsAlways == DerSpec => []DerShortFits
<1>1. DerIInv => DerShortFits
  BY DEF DerIInv, DerTypeOK, DerStages, DerShortFits
<1> QED
  BY <1>1, DerInitIInv, DerStep, PTL DEF DerSpec

(* So no input makes target_ecdsa write outside an array of DER bytes. *)
THEOREM DerInBoundsAlways == DerSpec => []DerInBounds
BY DerFitsAlways, DerBodyFitsAlways, DerShortFitsAlways, PTL DEF DerInBounds

-----------------------------------------------------------------------------
(* TranscriptBudget. *)

TrIInv == TrTypeOK /\ TrWithinOps /\ NeverOverflows

(* The bounds are numbers: expanded, a solver would spell out their ranges. *)
LEMMA TrBounds == TrCap \in Nat /\ TrInputMax \in Nat
BY DEF TrCap, TrInputMax

(* The bytes of MAX_OPS ops of the longest kind fit, for each target. *)
LEMMA TrShares ==
    ASSUME NEW target \in Targets, NEW ops \in Nat, ops < TrMaxOps[target],
           NEW len \in Nat, len <= ops * TrMost[target],
           NEW n \in Nat, n <= TrMost[target]
    PROVE  len + n <= (ops + 1) * TrMost[target] /\ len + n <= TrCap
<1> USE DEF TrMaxOps, TrMost, TrFieldOp, TrScalarOp, TrKeysOp, TrGroupOp, TrCap,
           TrEcdsa, TrRecovery, TrSchnorrsig, TrEllswift, TrMusig, TrSilentPayments, TrSig,
           TrChecks, TrScan, TrInt, TrKey, TrKeys, MUSIG_MAX_SIGNERS, SP_MAX_INPUTS,
           SP_MAX_RECIPIENTS
<1>1. CASE target = "field"
  BY <1>1
<1>2. CASE target = "scalar"
  BY <1>2
<1>3. CASE target = "keys"
  BY <1>3
<1>4. CASE target = "group"
  BY <1>4
<1>5. CASE target \in {"ecdsa", "recovery", "schnorrsig"}
  BY <1>5
<1>6. CASE target \in {"ellswift", "musig", "silentpayments"}
  BY <1>6
<1> QED
  BY <1>1, <1>2, <1>3, <1>4, <1>5, <1>6 DEF Targets, Machines, Passes

LEMMA TrStep == TrIInv /\ [TrOp]_trVars => TrIInv'
<1> SUFFICES ASSUME TrIInv, [TrOp]_trVars PROVE TrIInv'
  OBVIOUS
<1>1. CASE TrOp
  <2>1. PICK n \in TrPuts[trTarget] :
            IF n > TrCap - trLen
            THEN trAborted' = TRUE /\ UNCHANGED trLen
            ELSE trLen' = trLen + n /\ UNCHANGED trAborted
    BY <1>1 DEF TrOp
  <2>2. /\ trTarget \in Targets /\ trOps \in Nat /\ trLen \in Nat /\ trLeft \in 0..TrInputMax
        /\ n \in Nat /\ n <= TrMost[trTarget]
    BY TrAssumption, TrBounds DEF TrIInv, TrTypeOK
  <2>3. trOps < TrMaxOps[trTarget] /\ trLen <= trOps * TrMost[trTarget]
    BY <1>1 DEF TrOp, TrMore, TrIInv, TrWithinOps
  <2>4. trLen + n <= (trOps + 1) * TrMost[trTarget] /\ trLen + n <= TrCap
    BY <2>2, <2>3, TrShares
  <2>5. trLen' = trLen + n /\ UNCHANGED trAborted
    BY <2>1, <2>2, <2>4, TrBounds
  <2>6. trOps' = trOps + 1 /\ trTarget' = trTarget /\ trLeft' \in 0..TrInputMax
    BY <1>1, <2>2, TrBounds DEF TrOp, TrTaken
  <2>7. TrMaxOps[trTarget] \in Nat
    BY <2>2 DEF TrMaxOps, Targets, Machines, Passes
  <2>8. trOps + 1 <= TrMaxOps[trTarget]
    BY <2>2, <2>3, <2>7
  <2> QED
    BY <2>2, <2>4, <2>5, <2>6, <2>8, TrBounds DEF TrIInv, TrTypeOK, TrWithinOps, NeverOverflows
<1>2. CASE UNCHANGED trVars
  BY <1>2 DEF trVars, TrIInv, TrTypeOK, TrWithinOps, NeverOverflows
<1> QED
  BY <1>1, <1>2

(* No target overflows its transcript, for any input and any lengths of the   *)
(* records of an op, or of a pass, up to the longest.                         *)
THEOREM TranscriptFits == TrSpec => [](TrWithinOps /\ NeverOverflows)
<1>1. ASSUME TrInit PROVE TrIInv
  <2>1. trTarget \in Targets /\ trOps = 0 /\ trLen = 0 /\ ~trAborted
    BY <1>1 DEF TrInit
  <2>2. TrMost[trTarget] \in Nat /\ TrMaxOps[trTarget] \in Nat
    BY <2>1
    DEF Targets, Machines, Passes, TrMost, TrMaxOps, TrFieldOp, TrScalarOp, TrKeysOp, TrGroupOp,
        TrEcdsa, TrRecovery, TrSchnorrsig, TrEllswift, TrMusig, TrSilentPayments, TrSig, TrChecks,
        TrScan, TrInt, TrKey, TrKeys, MUSIG_MAX_SIGNERS, SP_MAX_INPUTS, SP_MAX_RECIPIENTS
  <2>3. TrWithinOps /\ NeverOverflows
    BY <2>1, <2>2 DEF TrWithinOps, NeverOverflows
  <2>4. trLeft \in 0..TrInputMax /\ trAborted \in BOOLEAN
    BY <1>1, TrAssumption DEF TrInit
  <2>5. 0 \in 0..TrCap
    BY TrBounds
  <2>6. TrTypeOK
    BY <2>1, <2>4, <2>5 DEF TrTypeOK
  <2> QED
    BY <2>3, <2>6 DEF TrIInv
<1>2. TrIInv => TrWithinOps /\ NeverOverflows
  BY DEF TrIInv
<1> QED
  BY <1>1, <1>2, TrStep, PTL DEF TrSpec

(* So transcript_put never aborts. *)
COROLLARY NeverOverflowsAlways == TrSpec => []NeverOverflows
BY TranscriptFits, PTL

-----------------------------------------------------------------------------
(* ScalarMachine.  Every op leaves both properties whatever was before it, so  *)
(* the invariant is what they say.                                             *)

ScaIInv == ScaTypeOK /\ ScalarInContract /\ OnlySplitLoses

(* What an op leaves: only a call that writes a register, which is no local,   *)
(* or locals that are no copies of sources, and a record of its results.       *)
LEMMA DoSafe ==
    ASSUME ScaTypeOK,
           NEW name \in ScaOps \ {"none", "split", "query"}, NEW ins \in SUBSET {"a", "y"},
           NEW outs, outs \in {{scaD'}, {"res"}},
           NEW flags \in SUBSET {"flag"},
           Do(name, outs, ins, {"res"} \cup flags, ResultIn(scaD'), flags),
           scaBits' \in [from : Nat, count : Nat, limb : Nat],
           name = "mul_shift" => scaBits'.from \in 256..512
    PROVE  ScaIInv'
<1>1. /\ scaOp' = name /\ scaD' \in ScaRegs /\ scaB' \in ScaRegs
      /\ scaReg' = [ScaOld EXCEPT ![scaD'] = "res"]
      /\ scaCall' = [outs |-> outs, ins |-> ins] /\ scaProduced' = {"res"} \cup flags
      /\ scaRecorded' = flags \cup {scaReg'[scaD']}
  BY DEF Do, ResultIn, Stored
<1>2. scaReg' \in [ScaRegs -> {"old", "res", "res2"}] /\ scaReg'[scaD'] = "res"
  BY <1>1 DEF ScaOld
<1>3. scaCall' \in [outs : SUBSET (ScaRegs \cup ScaLocals), ins : SUBSET (ScaRegs \cup ScaLocals)]
  BY <1>1 DEF ScaLocals
<1>4. outs \cap ins = {}
  <2>1. scaD' \notin {"a", "y"}
    BY <1>1, ScaRegsAssumption DEF ScaLocals
  <2> QED
    BY <2>1
<1>5. ScaTypeOK'
  BY <1>1, <1>2, <1>3 DEF ScaTypeOK, ScaResults
<1>6. ScalarInContract'
  BY <1>1, <1>4 DEF ScalarInContract
<1>7. OnlySplitLoses'
  BY <1>1, <1>2 DEF OnlySplitLoses
<1> QED
  BY <1>5, <1>6, <1>7 DEF ScaIInv

(* A split stores its first result where the second may overwrite it. *)
LEMMA SplitSafe == ASSUME ScaTypeOK, Split PROVE ScaIInv'
<1>1. /\ scaOp' = "split" /\ scaD' \in ScaRegs /\ scaB' \in ScaRegs
      /\ scaReg' = [[ScaOld EXCEPT ![scaD'] = "res"] EXCEPT ![scaB'] = "res2"]
      /\ scaCall' = [outs |-> {"res", "res2"}, ins |-> {"a"}] /\ scaProduced' = {"res", "res2"}
      /\ scaRecorded' = {"res2"} \cup {scaReg'[scaD']} /\ scaBits' = scaBits
  BY DEF Split, Do, ResultIn, Stored, Through
<1>2. /\ scaReg' \in [ScaRegs -> {"old", "res", "res2"}]
      /\ scaReg'[scaD'] = IF scaD' = scaB' THEN "res2" ELSE "res"
  BY <1>1 DEF ScaOld
<1>3. scaCall' \in [outs : SUBSET (ScaRegs \cup ScaLocals), ins : SUBSET (ScaRegs \cup ScaLocals)]
  BY <1>1 DEF ScaLocals
<1>4. ScaTypeOK'
  BY <1>1, <1>2, <1>3 DEF ScaTypeOK, ScaOps, ScaResults
<1>5. ScalarInContract'
  BY <1>1 DEF ScalarInContract
<1>6. OnlySplitLoses'
  BY <1>1, <1>2 DEF OnlySplitLoses
<1> QED
  BY <1>4, <1>5, <1>6 DEF ScaIInv

(* The bits a query asks for are all in the scalar, and in one limb if they    *)
(* have to be.                                                                 *)
LEMMA OffsetAsked ==
    ASSUME NEW count \in 1..32, NEW word \in Nat
    PROVE  VarOffset(word, count) \in Nat /\ VarOffset(word, count) + count <= 256
<1>1. 257 - count \in Nat \ {0}
  OBVIOUS
<1> QED
  BY <1>1 DEF VarOffset

LEMMA LimbAsked ==
    ASSUME NEW count \in 1..32, NEW l \in Nat, NEW byte \in Nat, NEW from,
           from = 32 * (l % 8) + (byte % (33 - count))
    PROVE  /\ from \in Nat /\ from + count <= 256
           /\ from \div 32 = (from + count - 1) \div 32
<1> DEFINE limb == l % 8
           at   == byte % (33 - count)
<1>1. limb \in 0..7
  OBVIOUS
<1>2. at \in 0..(32 - count)
  <2>1. 33 - count \in Nat \ {0}
    OBVIOUS
  <2> QED
    BY <2>1
<1>3. from = 32 * limb + at
  OBVIOUS
<1> HIDE DEF limb, at
<1>4. from \in Nat /\ from + count <= 256
  BY <1>1, <1>2, <1>3
<1>5. from \div 32 = limb /\ (from + count - 1) \div 32 = limb
  BY <1>1, <1>2, <1>3
<1> QED
  BY <1>4, <1>5

LEMMA QuerySafe == ASSUME ScaTypeOK, ScaQuery PROVE ScaIInv'
<1>1. /\ scaOp' = "query" /\ scaD' \in ScaRegs /\ scaB' \in ScaRegs /\ scaReg' = ScaOld
      /\ scaCall' = [outs |-> {}, ins |-> {"a", "y"}] /\ scaProduced' = {}
      /\ scaRecorded' = {scaReg'[scaD']}
  BY DEF ScaQuery, Do
<1>2. /\ scaBits' \in [from : Nat, count : Nat, limb : Nat]
      /\ scaBits'.count \in 1..32 /\ scaBits'.from + scaBits'.count <= 256
      /\ scaBits'.limb > 0 => scaBits'.from \div 32 = (scaBits'.from + scaBits'.count - 1) \div 32
  <2>1. PICK n \in InputBytes :
          LET count == 1 + (n % 32) IN
          \/ \E word \in InputWords :
              scaBits' = [from |-> VarOffset(word, count), count |-> count, limb |-> 0]
          \/ \E l, byte \in InputBytes :
              scaBits' = [from |-> 32 * (l % 8) + (byte % (33 - count)), count |-> count, limb |-> 32]
    BY DEF ScaQuery
  <2> DEFINE count == 1 + (n % 32)
  <2>2. n \in Nat /\ InputBytes \subseteq Nat /\ InputWords \subseteq Nat
    BY <2>1, InputAssumption
  <2>3. count \in 1..32
    BY <2>2
  <2> HIDE DEF count
  <2>4. CASE \E word \in InputWords :
               scaBits' = [from |-> VarOffset(word, count), count |-> count, limb |-> 0]
    <3>1. PICK word \in InputWords :
            scaBits' = [from |-> VarOffset(word, count), count |-> count, limb |-> 0]
      BY <2>4
    <3>2. VarOffset(word, count) \in Nat /\ VarOffset(word, count) + count <= 256
      BY <2>2, <2>3, <3>1, OffsetAsked
    <3> QED
      BY <2>3, <3>1, <3>2
  <2>5. CASE \E l, byte \in InputBytes :
               scaBits' = [from |-> 32 * (l % 8) + (byte % (33 - count)), count |-> count, limb |-> 32]
    <3>1. PICK l \in InputBytes, byte \in InputBytes :
            scaBits' = [from |-> 32 * (l % 8) + (byte % (33 - count)), count |-> count, limb |-> 32]
      BY <2>5
    <3> DEFINE from == 32 * (l % 8) + (byte % (33 - count))
    <3>2. /\ from \in Nat /\ from + count <= 256
          /\ from \div 32 = (from + count - 1) \div 32
      BY <2>2, <2>3, <3>1, LimbAsked
    <3> HIDE DEF from
    <3> QED
      BY <2>3, <3>1, <3>2 DEF from
  <2> QED
    BY <2>1, <2>4, <2>5 DEF count
<1>3. scaReg' \in [ScaRegs -> {"old", "res", "res2"}] /\ scaReg'[scaD'] = "old"
  BY <1>1 DEF ScaOld
<1>4. ScaTypeOK'
  BY <1>1, <1>2, <1>3 DEF ScaTypeOK, ScaOps, ScaLocals
<1>5. ScalarInContract'
  BY <1>1, <1>2 DEF ScalarInContract
<1>6. OnlySplitLoses'
  BY <1>1 DEF OnlySplitLoses
<1> QED
  BY <1>4, <1>5, <1>6 DEF ScaIInv

LEMMA ScaInitSafe == ScaInit => ScaIInv
BY
DEF ScaInit, ScaIInv, ScaTypeOK, ScalarInContract, OnlySplitLoses, ScaOps, ScaOld,
    NoBits

LEMMA ScaStep == ScaIInv /\ [ScaNext]_scaVars => ScaIInv'
<1> SUFFICES ASSUME ScaIInv, [ScaNext]_scaVars PROVE ScaIInv'
  OBVIOUS
<1>1. ScaTypeOK /\ scaBits \in [from : Nat, count : Nat, limb : Nat]
  BY DEF ScaIInv, ScaTypeOK
<1>2. CASE SetB32
  BY <1>1, <1>2, DoSafe DEF SetB32, ScaOps
<1>3. CASE Arithmetic
  BY <1>1, <1>3, DoSafe DEF Arithmetic, ScaOps, Through
<1>4. CASE InPlace
  BY <1>1, <1>4, DoSafe DEF InPlace, ScaOps
<1>5. CASE ScaCmov
  BY <1>1, <1>5, DoSafe DEF ScaCmov, ScaOps
<1>6. CASE MulShift
  <2>1. PICK byte \in InputBytes : scaBits' = [NoBits EXCEPT !.from = Shift(byte)]
    BY <1>6 DEF MulShift
  <2>2. byte \in 0..255
    BY <2>1, InputAssumption
  <2>3. scaBits' \in [from : Nat, count : Nat, limb : Nat] /\ scaBits'.from \in 256..512
    BY <2>1, <2>2 DEF NoBits, Shift
  <2> QED
    BY <1>1, <1>6, <2>3, DoSafe DEF MulShift, ScaOps, Through
<1>7. CASE UNCHANGED scaVars
  BY <1>7 DEF scaVars, ScaIInv, ScaTypeOK, ScalarInContract, OnlySplitLoses
<1> QED
  BY <1>1, <1>2, <1>3, <1>4, <1>5, <1>6, <1>7, SplitSafe, QuerySafe DEF ScaNext

LEMMA ScaAlways == ScaSpec => []ScaIInv
BY ScaInitSafe, ScaStep, PTL DEF ScaSpec

(* Whatever registers coincide and whatever the input's operands, no call of   *)
(* target_scalar reads what it writes or leaves its range.                     *)
THEOREM ScalarInContractAlways == ScaSpec => []ScalarInContract
<1>1. ScaIInv => ScalarInContract
  BY DEF ScaIInv
<1> QED
  BY <1>1, ScaAlways, PTL

(* Of every op all results are recorded, but for the first one of a split into *)
(* one register: what fails of ResultsRecorded, and all that does.             *)
THEOREM OnlySplitLosesAlways == ScaSpec => []OnlySplitLoses
<1>1. ScaIInv => OnlySplitLoses
  BY DEF ScaIInv
<1> QED
  BY <1>1, ScaAlways, PTL
=============================================================================
