----------------------- MODULE RegisterMachineProofs ------------------------
(***************************************************************************)
(* Proofs about the register machines on keys and on points: KeysMachine,  *)
(* for any number of registers and any prime group order, then             *)
(* GroupMachine, also for any builds.                                      *)
(***************************************************************************)
EXTENDS KeysMachine, GroupMachine, PrimeGroupProofs

-----------------------------------------------------------------------------
(* KeysMachine. *)

Safe == TypeOK /\ CallsLegal /\ TranscriptExact

(* Ranges: a valid key is defined and is not the wiped value. *)
LEMMA KeyRange ==
    /\ Keys \subseteq Bytes /\ Zeros \in Bytes /\ Zeros \notin Keys
    /\ Unspecified \notin Bytes /\ Unspecified \notin Keys
BY OrderAssumption DEF Keys, Bytes, Zeros, Unspecified

(* The end of an op keeps the machine safe if its result is a secret key of *)
(* any value and a public key that is valid when pk_ok says so, and if it   *)
(* passed and recorded only valid ones.                                     *)
LEMMA CommitSafe ==
    ASSUME Safe, NEW d \in Regs, NEW s \in Bytes, NEW p, NEW ok \in BOOLEAN, ok => p \in Keys,
           NEW ks \in SUBSET Keys, NEW vs \in SUBSET Keys,
           Commit(d, [sk |-> s, pk |-> p, ok |-> ok], ks, vs)
    PROVE  Safe'
<1> DEFINE new == [sk |-> s, pk |-> IF ok THEN p ELSE Zeros, ok |-> ok]
<1>1. Wiped([sk |-> s, pk |-> p, ok |-> ok]) = new
  BY DEF Wiped
<1>2. new \in Register /\ (new.ok <=> new.pk # Zeros) /\ (new.ok => new.pk \in Keys)
  BY KeyRange DEF Register
<1> HIDE DEF new
<1>3. /\ reg' = [reg EXCEPT ![d] = new]
      /\ Passed(ks \cup IF new.ok THEN {new.pk} ELSE {})
      /\ Recorded(vs \cup {new.sk} \cup IF new.ok THEN {new.pk} ELSE {})
  BY <1>1 DEF Commit
<1>4. ks \cup (IF new.ok THEN {new.pk} ELSE {}) \subseteq Keys
  BY <1>2
<1>5. Unspecified \notin vs \cup {new.sk} \cup IF new.ok THEN {new.pk} ELSE {}
  <2>1. new.sk \in Bytes
    BY <1>2 DEF Register
  <2> QED
    BY <1>2, <2>1, KeyRange
<1>6. legal' = legal /\ exact' = exact
  BY <1>3, <1>4, <1>5 DEF Passed, Recorded
<1>7. /\ reg' \in [Regs -> Register]
      /\ \A x \in Regs : reg'[x].ok <=> reg'[x].pk # Zeros
  BY <1>2, <1>3 DEF Safe, TypeOK
<1> QED
  BY <1>6, <1>7 DEF Safe, TypeOK, CallsLegal, TranscriptExact

(* A register's parts, and what an op may put in their place. *)
LEMMA RegParts ==
    ASSUME Safe, NEW x \in Regs
    PROVE  /\ reg[x].sk \in Bytes /\ reg[x].ok \in BOOLEAN
           /\ reg[x].ok => reg[x].pk \in Keys
           /\ reg[x] = [sk |-> reg[x].sk, pk |-> reg[x].pk, ok |-> reg[x].ok]
BY DEF Safe, TypeOK, Register

(* An op that does nothing is safe, *)
LEMMA SkippedSafe ==
    ASSUME Safe, NEW d \in Regs, NEW ks \in SUBSET Keys, NEW vs \in SUBSET Keys,
           Commit(d, reg[d], ks, vs)
    PROVE  Safe'
<1>1. Commit(d, [sk |-> reg[d].sk, pk |-> reg[d].pk, ok |-> reg[d].ok], ks, vs)
  BY RegParts
<1> QED
  BY <1>1, RegParts, CommitSafe

(* as is one that sets a secret key to any value of 32 bytes, *)
LEMMA WithSkSafe ==
    ASSUME Safe, NEW d \in Regs, NEW s \in Bytes, Commit(d, WithSk(d, s), {}, {})
    PROVE  Safe'
<1>1. Commit(d, [sk |-> s, pk |-> reg[d].pk, ok |-> reg[d].ok], {}, {})
  BY DEF WithSk
<1>2. {} \in SUBSET Keys /\ reg[d].ok \in BOOLEAN /\ (reg[d].ok => reg[d].pk \in Keys)
  BY RegParts
<1> QED
  BY <1>1, <1>2, CommitSafe

(* or a public key to one a call produced, or to none. *)
LEMMA WithPkSafe ==
    ASSUME Safe, NEW d \in Regs, NEW ok \in BOOLEAN, NEW p, ok => p \in Keys,
           NEW ks \in SUBSET Keys, Commit(d, WithPk(d, ok, p), ks, {})
    PROVE  Safe'
<1> DEFINE q == Output(ok, p)
<1>1. Commit(d, [sk |-> reg[d].sk, pk |-> q, ok |-> ok], ks, {})
  BY DEF WithPk
<1>2. (ok => q \in Keys) /\ {} \in SUBSET Keys /\ reg[d].sk \in Bytes
  BY RegParts DEF Output
<1> HIDE DEF q
<1> QED
  BY <1>1, <1>2, CommitSafe

(* The initial registers are wiped. *)
LEMMA InitSafe == Init => Safe
BY KeyRange DEF Init, Safe, TypeOK, CallsLegal, TranscriptExact, Register

(* Every op keeps the machine safe. *)
LEMMA StepSafe == Safe /\ [Next]_vars => Safe'
<1> SUFFICES ASSUME Safe, [Next]_vars PROVE Safe'
  OBVIOUS
<1>0. {} \in SUBSET Keys /\ \A x \in Keys : {x} \in SUBSET Keys
  OBVIOUS
<1>1. CASE UNCHANGED vars
  BY <1>1 DEF vars, Safe, TypeOK, CallsLegal, TranscriptExact
<1>2. ASSUME NEW d \in Regs, NEW a \in Regs, NEW b \in Regs
      PROVE  /\ SeckeyLoad(d) \/ SeckeyNegate(d, a) \/ SeckeyTweakAdd(d, a, b)
                 \/ SeckeyTweakMul(d, a) => Safe'
             /\ PubkeyCreate(d, a) \/ PubkeyParse(d) \/ PubkeyNegate(d, a)
                 \/ PubkeyTweakAdd(d, a, b) \/ PubkeyTweakMul(d, a) => Safe'
             /\ PubkeyCombine(d) \/ PubkeyCmp(d, a, b) \/ PubkeySort(d) => Safe'
             /\ KeypairTweak(d, a) \/ XOnly(d, a, b) \/ Ecdh(d, a, b) => Safe'
  <2> USE DEF Skipped
  <2>a. /\ reg[a].sk \in Bytes /\ (reg[a].ok => reg[a].pk \in Keys)
        /\ reg[b].sk \in Bytes /\ (reg[b].ok => reg[b].pk \in Keys)
    BY RegParts
  <2>1. ASSUME SeckeyLoad(d) PROVE Safe'
    BY <2>1, WithSkSafe DEF SeckeyLoad
  <2>b. ASSUME NEW ok \in BOOLEAN, NEW v, ok => v \in Keys
        PROVE  SeckeyResult(ok, v) \in Bytes
    BY <2>b, KeyRange DEF SeckeyResult, Output
  <2>2. ASSUME SeckeyNegate(d, a) PROVE Safe'
    <3> DEFINE ok == reg[a].sk \in Keys
    <3>1. ok \in BOOLEAN /\ (ok => Negated(reg[a].sk) \in Keys)
      BY NegatedKey
    <3>2. Commit(d, WithSk(d, SeckeyResult(ok, Negated(reg[a].sk))), {}, {})
      BY <2>2 DEF SeckeyNegate
    <3> HIDE DEF ok
    <3>3. SeckeyResult(ok, Negated(reg[a].sk)) \in Bytes
      BY <2>b, <3>1
    <3> QED
      BY <3>2, <3>3, WithSkSafe
  <2>3. ASSUME SeckeyTweakAdd(d, a, b) PROVE Safe'
    <3>1. PICK t : Commit(d, WithSk(d, SeckeyResult(AddOk(reg[a].sk, t), Sum(reg[a].sk, t))), {}, {})
      BY <2>3 DEF SeckeyTweakAdd
    <3>2. AddOk(reg[a].sk, t) \in BOOLEAN
      BY DEF AddOk
    <3>3. SeckeyResult(AddOk(reg[a].sk, t), Sum(reg[a].sk, t)) \in Bytes
      BY <2>b, <3>2, SumKey
    <3> QED
      BY <3>1, <3>3, WithSkSafe
  <2>4. ASSUME SeckeyTweakMul(d, a) PROVE Safe'
    <3>1. PICK t : Commit(d, WithSk(d, SeckeyResult(MulOk(reg[a].sk, t), Product(reg[a].sk, t))), {}, {})
      BY <2>4 DEF SeckeyTweakMul
    <3>2. MulOk(reg[a].sk, t) \in BOOLEAN
      BY DEF MulOk
    <3>3. SeckeyResult(MulOk(reg[a].sk, t), Product(reg[a].sk, t)) \in Bytes
      BY <2>b, <3>2, ProductKey
    <3> QED
      BY <3>1, <3>3, WithSkSafe
  <2>5. ASSUME PubkeyCreate(d, a) PROVE Safe'
    <3> DEFINE ok == reg[a].sk \in Keys
    <3>1. ok \in BOOLEAN /\ (ok => reg[a].sk \in Keys)
      OBVIOUS
    <3>2. Commit(d, WithPk(d, ok, reg[a].sk), {}, {})
      BY <2>5 DEF PubkeyCreate
    <3> HIDE DEF ok
    <3> QED
      BY <1>0, <3>1, <3>2, WithPkSafe
  <2>6. ASSUME PubkeyParse(d) PROVE Safe'
    BY <1>0, <2>6, WithPkSafe DEF PubkeyParse
  <2>7. ASSUME PubkeyNegate(d, a) PROVE Safe'
    <3>1. CASE reg[a].ok
      <4>1. Commit(d, WithPk(d, TRUE, Negated(reg[a].pk)), {reg[a].pk}, {})
        BY <2>7, <3>1 DEF PubkeyNegate
      <4>2. {reg[a].pk} \in SUBSET Keys /\ Negated(reg[a].pk) \in Keys
        BY <2>a, <3>1, NegatedKey
      <4> QED
        BY <4>1, <4>2, WithPkSafe
    <3>2. CASE ~reg[a].ok
      BY <1>0, <2>7, <3>2, SkippedSafe DEF PubkeyNegate
    <3> QED
      BY <3>1, <3>2
  <2>8. ASSUME PubkeyTweakAdd(d, a, b) PROVE Safe'
    <3>1. CASE reg[a].ok
      <4>1. PICK t : Commit(d, WithPk(d, AddOk(reg[a].pk, t), Sum(reg[a].pk, t)), {reg[a].pk}, {})
        BY <2>8, <3>1 DEF PubkeyTweakAdd
      <4>2. {reg[a].pk} \in SUBSET Keys /\ AddOk(reg[a].pk, t) \in BOOLEAN
        BY <2>a, <3>1 DEF AddOk
      <4> QED
        BY <4>1, <4>2, WithPkSafe, SumKey
    <3>2. CASE ~reg[a].ok
      BY <1>0, <2>8, <3>2, SkippedSafe DEF PubkeyTweakAdd
    <3> QED
      BY <3>1, <3>2
  <2>9. ASSUME PubkeyTweakMul(d, a) PROVE Safe'
    <3>1. CASE reg[a].ok
      <4>1. PICK t : Commit(d, WithPk(d, MulOk(reg[a].pk, t), Product(reg[a].pk, t)), {reg[a].pk}, {})
        BY <2>9, <3>1 DEF PubkeyTweakMul
      <4>2. {reg[a].pk} \in SUBSET Keys /\ MulOk(reg[a].pk, t) \in BOOLEAN
        BY <2>a, <3>1 DEF MulOk
      <4> QED
        BY <4>1, <4>2, WithPkSafe, ProductKey
    <3>2. CASE ~reg[a].ok
      BY <1>0, <2>9, <3>2, SkippedSafe DEF PubkeyTweakMul
    <3> QED
      BY <3>1, <3>2
  <2>10. ASSUME PubkeyCombine(d) PROVE Safe'
    <3>1. PICK mask \in SUBSET Regs :
            LET xs == {reg[x].pk : x \in {y \in mask : reg[y].ok}}
            IN  IF xs = {} THEN Skipped(d)
                ELSE \/ \E x \in Keys : Commit(d, WithPk(d, TRUE, x), xs, {})
                     \/ Commit(d, WithPk(d, FALSE, Zeros), xs, {})
      BY <2>10 DEF PubkeyCombine
    <3> DEFINE xs == {reg[x].pk : x \in {y \in mask : reg[y].ok}}
    <3>2. xs \in SUBSET Keys
      BY RegParts
    <3>3. \/ Skipped(d)
          \/ \E x \in Keys : Commit(d, WithPk(d, TRUE, x), xs, {})
          \/ Commit(d, WithPk(d, FALSE, Zeros), xs, {})
      BY <3>1
    <3> HIDE DEF xs
    <3> QED
      BY <1>0, <3>2, <3>3, WithPkSafe, SkippedSafe
  <2>11. ASSUME PubkeyCmp(d, a, b) PROVE Safe'
    <3>1. (IF reg[a].ok /\ reg[b].ok THEN {reg[a].pk, reg[b].pk} ELSE {}) \in SUBSET Keys
      BY <2>a
    <3> QED
      BY <1>0, <2>11, <3>1, SkippedSafe DEF PubkeyCmp
  <2>12. ASSUME PubkeySort(d) PROVE Safe'
    <3> DEFINE xs == {reg[x].pk : x \in {y \in Regs : reg[y].ok}}
    <3>1. xs \in SUBSET Keys
      BY RegParts
    <3>2. Commit(d, reg[d], xs, xs)
      BY <2>12 DEF PubkeySort
    <3> HIDE DEF xs
    <3> QED
      BY <3>1, <3>2, SkippedSafe
  <2>13. ASSUME KeypairTweak(d, a) PROVE Safe'
    <3> DEFINE s == reg[a].sk
               e == EvenY(s)
    <3>1. PICK t : IF s \notin Keys THEN Skipped(d)
                   ELSE IF AddOk(e, t)
                     THEN Commit(d, [sk |-> Sum(e, t), pk |-> Sum(e, t), ok |-> TRUE], {s}, {e})
                     ELSE Commit(d, reg[d], {s}, {e})
      BY <2>13 DEF KeypairTweak
    <3>2. s \in Keys => {s} \in SUBSET Keys /\ {e} \in SUBSET Keys
      BY EvenYKey
    <3>3. AddOk(e, t) => Sum(e, t) \in Keys /\ Sum(e, t) \in Bytes
      BY SumKey, KeyRange
    <3> HIDE DEF s, e
    <3>4. CASE s \notin Keys
      BY <1>0, <3>1, <3>4, SkippedSafe
    <3>5. CASE s \in Keys /\ AddOk(e, t)
      BY <3>1, <3>2, <3>3, <3>5, CommitSafe
    <3>6. CASE s \in Keys /\ ~AddOk(e, t)
      BY <3>1, <3>2, <3>6, SkippedSafe
    <3> QED
      BY <3>4, <3>5, <3>6
  <2>14. ASSUME XOnly(d, a, b) PROVE Safe'
    <3> DEFINE x == reg[a].pk
               e == EvenY(x)
               ks == {x} \cup IF reg[b].ok THEN {reg[b].pk} ELSE {}
    <3>1. PICK t : IF ~reg[a].ok THEN Skipped(d)
                   ELSE IF AddOk(e, t)
                     THEN Commit(d, [sk |-> reg[d].sk, pk |-> Sum(e, t), ok |-> TRUE], ks, {e})
                     ELSE Commit(d, reg[d], ks, {e})
      BY <2>14 DEF XOnly
    <3>2. reg[a].ok => ks \in SUBSET Keys /\ {e} \in SUBSET Keys
      BY <2>a, EvenYKey
    <3>3. AddOk(e, t) => Sum(e, t) \in Keys
      BY SumKey
    <3>d. reg[d].sk \in Bytes
      BY RegParts
    <3> HIDE DEF x, e, ks
    <3>4. CASE ~reg[a].ok
      BY <1>0, <3>1, <3>4, SkippedSafe
    <3>5. CASE reg[a].ok /\ AddOk(e, t)
      BY <3>1, <3>2, <3>3, <3>5, <3>d, CommitSafe
    <3>6. CASE reg[a].ok /\ ~AddOk(e, t)
      BY <3>1, <3>2, <3>6, SkippedSafe
    <3> QED
      BY <3>4, <3>5, <3>6
  <2>15. ASSUME Ecdh(d, a, b) PROVE Safe'
    <3> DEFINE x == reg[a].pk
               vs == Shared(MulOk(x, reg[b].sk), Product(x, reg[b].sk))
    <3>1. IF ~reg[a].ok THEN Skipped(d) ELSE Commit(d, reg[d], {x}, vs)
      BY <2>15 DEF Ecdh
    <3>2. vs \in SUBSET Keys
      BY ProductKey DEF Shared, Output
    <3>3. reg[a].ok => {x} \in SUBSET Keys
      BY <2>a
    <3> HIDE DEF x, vs
    <3> QED
      BY <1>0, <3>1, <3>2, <3>3, SkippedSafe
  <2> QED
    BY <2>1, <2>2, <2>3, <2>4, <2>5, <2>6, <2>7, <2>8, <2>9, <2>10, <2>11, <2>12,
       <2>13, <2>14, <2>15
<1> QED
  BY <1>1, <1>2 DEF Next

(* Whatever the ops and however their registers alias, no invalid public    *)
(* key is passed to the library and nothing unspecified is recorded.        *)
THEOREM KeysSafe == Spec => [](TypeOK /\ CallsLegal /\ TranscriptExact)
<1>1. Init => Safe
  BY InitSafe
<1>2. Safe /\ [Next]_vars => Safe'
  BY StepSafe
<1>3. Safe => TypeOK /\ CallsLegal /\ TranscriptExact
  BY DEF Safe
<1> QED
  BY <1>1, <1>2, <1>3, PTL DEF Spec

(* Nothing a failed call left unspecified is recorded. *)
COROLLARY TranscriptExactAlways == Spec => []TranscriptExact
BY KeysSafe, PTL

-----------------------------------------------------------------------------
(* GroupMachine. *)

(* Whatever its z, a register is at the same point in every build. *)
Same == \A y, w \in Builds, x \in GrpRegs : At(y, x) = At(w, x)

GrpIInv == GrpTypeOK /\ Same /\ BuildsAgree

LEMMA GroupInit == GrpInit => GrpIInv
<1> SUFFICES ASSUME GrpInit PROVE GrpIInv
  OBVIOUS
<1>1. [at |-> Infinity, z |-> 1] \in Point
  BY OrderAssumption, GroupAssumption DEF Point, Scalars, Infinity
<1>2. GrpTypeOK
  BY <1>1 DEF GrpInit, GrpTypeOK
<1>3. Same
  BY DEF GrpInit, Same, At
<1> QED
  BY <1>2, <1>3 DEF GrpInit, GrpIInv, BuildsAgree

(* A register of two builds, which may be infinity. *)
LEMMA Common ==
    ASSUME GrpIInv, NEW x \in GrpRegs, NEW y \in Builds, NEW w \in Builds
    PROVE  /\ At(y, x) = At(w, x) /\ At(y, x) \in Scalars
           /\ grpReg[y][x] \in Point /\ grpReg[y][x].at = At(y, x)
           /\ At(y, x) # Infinity => At(y, x) \in Keys
BY OrderAssumption DEF GrpIInv, Same, GrpTypeOK, Point, At, Infinity, Scalars, Keys

(* The end of an op that does the same in all builds but for z.             *)
LEMMA GrpCommitSafe ==
    ASSUME GrpIInv, NEW d \in GrpRegs, NEW out, GrpCommit(d, out), large' \in {FALSE, large},
           \A y \in Builds : out[y].p \in Point,
           \A y, w \in Builds : out[y].rec = out[w].rec /\ out[y].p.at = out[w].p.at
    PROVE  GrpIInv'
<1>1. grpReg' = [y \in Builds |-> [grpReg[y] EXCEPT ![d] = out[y].p]]
  BY DEF GrpCommit
<1>2. agree' = agree
  BY DEF GrpCommit
<1>3. GrpTypeOK'
  BY <1>1, <1>2 DEF GrpIInv, GrpTypeOK
<1>4. ASSUME NEW y \in Builds, NEW w \in Builds, NEW x \in GrpRegs
      PROVE  grpReg'[y][x].at = grpReg'[w][x].at
  <2>1. \A v \in Builds : grpReg'[v][x] = IF x = d THEN out[v].p ELSE grpReg[v][x]
    BY <1>1 DEF GrpIInv, GrpTypeOK
  <2> QED
    BY <2>1 DEF GrpIInv, Same, At
<1>5. Same'
  BY <1>4 DEF Same, At
<1> QED
  BY <1>2, <1>3, <1>5 DEF GrpIInv, BuildsAgree

-----------------------------------------------------------------------------
(* The parts of an outcome. *)
LEMMA NonzeroIs == ASSUME NEW f PROVE Nonzero(f) # 0
BY DEF Nonzero

LEMMA ScaledIs == ASSUME NEW y, NEW p, NEW f PROVE Scaled(y, p, Nonzero(f)) = p
BY NonzeroIs DEF Scaled

LEMMA RatioKept ==
    ASSUME NEW y, NEW a, NEW z, At(y, a) # Infinity
    PROVE  RecordRzr(y, a, z) = 1
BY DEF RecordRzr

(* Half the registers, or fewer, are registers. *)
LEMMA Halved ==
    ASSUME NEW h \in 0..3
    PROVE  0..((GrpNRegs \div 2^h) - 1) \subseteq 0..(GrpNRegs - 1)
<1>1. h = 0 \/ h = 1 \/ h = 2 \/ h = 3
  OBVIOUS
<1>2. 2^0 = 1 /\ 2^1 = 2 /\ 2^2 = 4 /\ 2^3 = 8
  OBVIOUS
<1>3. 2^h \in {1, 2, 4, 8}
  BY <1>1, <1>2
<1>4. \A m \in {1, 2, 4, 8} : (GrpNRegs \div m) \in Nat /\ GrpNRegs \div m <= GrpNRegs
  BY GroupAssumption
<1> QED
  BY <1>3, <1>4, GroupAssumption

LEMMA LambdaScalar == Lambda \in Scalars
BY GroupAssumption, OrderAssumption DEF Keys, Scalars

LEMMA GenSafe == ASSUME GrpIInv, NEW d \in GrpRegs, Gen(d) PROVE GrpIInv'
<1>1. PICK k \in Scalars, z \in AnyZ :
        GrpCommit(d, [y \in Builds |-> Outcome(k, z[y], << >>)])
  BY DEF Gen
<1> DEFINE out == [y \in Builds |-> Outcome(k, z[y], << >>)]
<1>2. \A y \in Builds : out[y].p \in Point
  BY DEF AnyZ, Outcome, Point
<1>3. \A y \in Builds : out[y].rec = << >> /\ out[y].p.at = k
  BY DEF Outcome
<1>4. GrpCommit(d, out) /\ large' \in {FALSE, large}
  BY <1>1 DEF Gen
<1> HIDE DEF out
<1>5. \A y, w \in Builds : out[y].rec = out[w].rec /\ out[y].p.at = out[w].p.at
  BY <1>3, Common
<1> QED
  BY <1>2, <1>4, <1>5, GrpCommitSafe

LEMMA SetInfinitySafe == ASSUME GrpIInv, NEW d \in GrpRegs, SetInfinity(d) PROVE GrpIInv'
<1> DEFINE out == [y \in Builds |-> Outcome(Infinity, 1, << >>)]
<1>2. \A y \in Builds : out[y].p \in Point
  BY OrderAssumption, GroupAssumption DEF Outcome, Point, Scalars, Infinity
<1>3. \A y \in Builds : out[y].rec = << >> /\ out[y].p.at = Infinity
  BY DEF Outcome
<1>4. GrpCommit(d, out) /\ large' \in {FALSE, large}
  BY DEF SetInfinity
<1> HIDE DEF out
<1>5. \A y, w \in Builds : out[y].rec = out[w].rec /\ out[y].p.at = out[w].p.at
  BY <1>3, Common
<1> QED
  BY <1>2, <1>4, <1>5, GrpCommitSafe

LEMMA AddVarSafe ==
    ASSUME GrpIInv, NEW d \in GrpRegs, NEW a \in GrpRegs, NEW b \in GrpRegs, AddVar(d, a, b)
    PROVE  GrpIInv'
<1>1. PICK z \in AnyZ :
        GrpCommit(d, [y \in Builds |->
            Outcome(Sum(At(y, a), At(y, b)), z[y],
                    IF At(y, a) = Infinity THEN << >> ELSE <<RecordRzr(y, a, z)>>)])
  BY DEF AddVar
<1> DEFINE out == [y \in Builds |->
            Outcome(Sum(At(y, a), At(y, b)), z[y],
                    IF At(y, a) = Infinity THEN << >> ELSE <<RecordRzr(y, a, z)>>)]
<1>2. \A y \in Builds : out[y].p \in Point
  BY Common, ScalarOps DEF AnyZ, Outcome, Point
<1>3. \A y \in Builds : out[y].p.at = Sum(At(y, a), At(y, b))
  BY DEF Outcome
<1>4. \A y \in Builds : out[y].rec = IF At(y, a) = Infinity THEN << >> ELSE <<1>>
  BY RatioKept DEF Outcome
<1>5. GrpCommit(d, out) /\ large' \in {FALSE, large}
  BY <1>1 DEF AddVar
<1> HIDE DEF out
<1>6. \A y, w \in Builds : out[y].rec = out[w].rec /\ out[y].p.at = out[w].p.at
  BY <1>3, <1>4, Common
<1> QED
  BY <1>2, <1>5, <1>6, GrpCommitSafe

LEMMA AddGeSafe ==
    ASSUME GrpIInv, NEW d \in GrpRegs, NEW a \in GrpRegs, NEW b \in GrpRegs, AddGe(d, a, b)
    PROVE  GrpIInv'
<1>1. PICK z \in AnyZ :
        GrpCommit(d, [y \in Builds |->
            IF At(y, b) = Infinity THEN Stays(y, d, << >>)
            ELSE Outcome(AddedGe(y, At(y, a), At(y, b)), z[y], << >>)])
  BY DEF AddGe
<1> DEFINE out == [y \in Builds |->
            IF At(y, b) = Infinity THEN Stays(y, d, << >>)
            ELSE Outcome(AddedGe(y, At(y, a), At(y, b)), z[y], << >>)]
<1>2. \A y \in Builds : out[y].p \in Point
  BY Common, ScalarOps DEF AnyZ, Outcome, Stays, Point, AddedGe
<1>3. \A y \in Builds :
        out[y].p.at = IF At(y, b) = Infinity THEN At(y, d) ELSE Sum(At(y, a), At(y, b))
  BY DEF Outcome, Stays, At, AddedGe
<1>4. \A y \in Builds : out[y].rec = << >>
  BY DEF Outcome, Stays
<1>5. GrpCommit(d, out) /\ large' \in {FALSE, large}
  BY <1>1 DEF AddGe
<1> HIDE DEF out
<1>6. \A y, w \in Builds : out[y].rec = out[w].rec /\ out[y].p.at = out[w].p.at
  BY <1>3, <1>4, Common
<1> QED
  BY <1>2, <1>5, <1>6, GrpCommitSafe

LEMMA AddZinvVarSafe ==
    ASSUME GrpIInv, NEW d \in GrpRegs, NEW a \in GrpRegs, NEW b \in GrpRegs, AddZinvVar(d, a, b)
    PROVE  GrpIInv'
<1>1. PICK f \in Elements, z \in AnyZ :
        GrpCommit(d, [y \in Builds |->
            Outcome(Scaled(y, Sum(At(y, a), At(y, b)), Nonzero(f)), z[y], << >>)])
  BY DEF AddZinvVar
<1> DEFINE out == [y \in Builds |->
            Outcome(Scaled(y, Sum(At(y, a), At(y, b)), Nonzero(f)), z[y], << >>)]
<1>2. \A y \in Builds : out[y].p \in Point
  <2>1. \A y : Scaled(y, Sum(At(y, a), At(y, b)), Nonzero(f)) = Sum(At(y, a), At(y, b))
    BY ScaledIs
  <2>2. \A y \in Builds : Sum(At(y, a), At(y, b)) \in Scalars
    BY Common, ScalarOps
  <2> QED
    BY <2>1, <2>2 DEF AnyZ, Outcome, Point
<1>3. \A y \in Builds : out[y].p.at = Sum(At(y, a), At(y, b))
  BY ScaledIs DEF Outcome
<1>4. \A y \in Builds : out[y].rec = << >>
  BY DEF Outcome
<1>5. GrpCommit(d, out) /\ large' \in {FALSE, large}
  BY <1>1 DEF AddZinvVar
<1> HIDE DEF out
<1>6. \A y, w \in Builds : out[y].rec = out[w].rec /\ out[y].p.at = out[w].p.at
  BY <1>3, <1>4, Common
<1> QED
  BY <1>2, <1>5, <1>6, GrpCommitSafe

LEMMA DoubleSafe ==
    ASSUME GrpIInv, NEW d \in GrpRegs, NEW a \in GrpRegs, Double(d, a)
    PROVE  GrpIInv'
<1>1. PICK var \in BOOLEAN, z \in AnyZ :
        GrpCommit(d, [y \in Builds |->
            Outcome(Sum(At(y, a), At(y, a)), z[y],
                    IF var /\ At(y, a) # Infinity THEN <<RecordRzr(y, a, z)>> ELSE << >>)])
  BY DEF Double
<1> DEFINE out == [y \in Builds |->
            Outcome(Sum(At(y, a), At(y, a)), z[y],
                    IF var /\ At(y, a) # Infinity THEN <<RecordRzr(y, a, z)>> ELSE << >>)]
<1>2. \A y \in Builds : out[y].p \in Point
  BY Common, ScalarOps DEF AnyZ, Outcome, Point
<1>3. \A y \in Builds : out[y].p.at = Sum(At(y, a), At(y, a))
  BY DEF Outcome
<1>4. \A y \in Builds : out[y].rec = IF var /\ At(y, a) # Infinity THEN <<1>> ELSE << >>
  BY RatioKept DEF Outcome
<1>5. GrpCommit(d, out) /\ large' \in {FALSE, large}
  BY <1>1 DEF Double
<1> HIDE DEF out
<1>6. \A y, w \in Builds : out[y].rec = out[w].rec /\ out[y].p.at = out[w].p.at
  BY <1>3, <1>4, Common
<1> QED
  BY <1>2, <1>5, <1>6, GrpCommitSafe

LEMMA NegSafe == ASSUME GrpIInv, NEW d \in GrpRegs, NEW a \in GrpRegs, Neg(d, a) PROVE GrpIInv'
<1> DEFINE out == [y \in Builds |-> Outcome(Negated(At(y, a)), grpReg[y][a].z, << >>)]
<1>2. \A y \in Builds : out[y].p \in Point
  BY Common, ScalarOps DEF Outcome, Point
<1>3. \A y \in Builds : out[y].rec = << >> /\ out[y].p.at = Negated(At(y, a))
  BY DEF Outcome
<1>4. GrpCommit(d, out) /\ large' \in {FALSE, large}
  BY DEF Neg
<1> HIDE DEF out
<1>5. \A y, w \in Builds : out[y].rec = out[w].rec /\ out[y].p.at = out[w].p.at
  BY <1>3, Common
<1> QED
  BY <1>2, <1>4, <1>5, GrpCommitSafe

LEMMA RescaleSafe == ASSUME GrpIInv, NEW d \in GrpRegs, Rescale(d) PROVE GrpIInv'
<1>1. PICK f \in Elements, z \in AnyZ :
        GrpCommit(d, [y \in Builds |->
            IF At(y, d) = Infinity THEN Stays(y, d, << >>)
            ELSE Outcome(Scaled(y, At(y, d), Nonzero(f)), z[y], << >>)])
  BY DEF Rescale
<1> DEFINE out == [y \in Builds |->
            IF At(y, d) = Infinity THEN Stays(y, d, << >>)
            ELSE Outcome(Scaled(y, At(y, d), Nonzero(f)), z[y], << >>)]
<1>2. \A y \in Builds : out[y].p \in Point
  BY Common, ScaledIs DEF AnyZ, Outcome, Stays, Point
<1>3. \A y \in Builds : out[y].p.at = At(y, d) /\ out[y].rec = << >>
  BY ScaledIs DEF Outcome, Stays, At
<1>4. GrpCommit(d, out) /\ large' \in {FALSE, large}
  BY <1>1 DEF Rescale
<1> HIDE DEF out
<1>5. \A y, w \in Builds : out[y].rec = out[w].rec /\ out[y].p.at = out[w].p.at
  BY <1>3, Common
<1> QED
  BY <1>2, <1>4, <1>5, GrpCommitSafe

LEMMA MulLambdaSafe ==
    ASSUME GrpIInv, NEW d \in GrpRegs, NEW a \in GrpRegs, MulLambda(d, a)
    PROVE  GrpIInv'
<1> DEFINE out == [y \in Builds |-> Outcome(Product(Lambda, At(y, a)), 1, << >>)]
<1>2. \A y \in Builds : out[y].p \in Point
  BY Common, LambdaScalar, ProductOps, GroupAssumption DEF Outcome, Point
<1>3. \A y \in Builds : out[y].rec = << >> /\ out[y].p.at = Product(Lambda, At(y, a))
  BY DEF Outcome
<1>4. GrpCommit(d, out) /\ large' \in {FALSE, large}
  BY DEF MulLambda
<1> HIDE DEF out
<1>5. \A y, w \in Builds : out[y].rec = out[w].rec /\ out[y].p.at = out[w].p.at
  BY <1>3, Common
<1> QED
  BY <1>2, <1>4, <1>5, GrpCommitSafe

LEMMA EcmultSafe ==
    ASSUME GrpIInv, NEW d \in GrpRegs, NEW a \in GrpRegs, Ecmult(d, a)
    PROVE  GrpIInv'
<1>1. PICK na \in Scalars, ng \in Scalars, z \in AnyZ :
        GrpCommit(d, [y \in Builds |->
            Outcome(Sum(Product(na, At(y, a)), ng), z[y], << >>)])
  BY DEF Ecmult
<1> DEFINE out == [y \in Builds |->
            Outcome(Sum(Product(na, At(y, a)), ng), z[y], << >>)]
<1>2. \A y \in Builds : out[y].p \in Point
  BY Common, ProductOps, ScalarOps DEF AnyZ, Outcome, Point
<1>3. \A y \in Builds : out[y].rec = << >> /\ out[y].p.at = Sum(Product(na, At(y, a)), ng)
  BY DEF Outcome
<1>4. GrpCommit(d, out) /\ large' \in {FALSE, large}
  BY <1>1 DEF Ecmult
<1> HIDE DEF out
<1>5. \A y, w \in Builds : out[y].rec = out[w].rec /\ out[y].p.at = out[w].p.at
  BY <1>3, Common
<1> QED
  BY <1>2, <1>4, <1>5, GrpCommitSafe

LEMMA SetXoSafe == ASSUME GrpIInv, NEW d \in GrpRegs, SetXo(d) PROVE GrpIInv'
<1>1. CASE \E p \in Keys :
        GrpCommit(d, [y \in Builds |-> Outcome(p, 1, <<TRUE>>)])
  <2>1. PICK p \in Keys : GrpCommit(d, [y \in Builds |-> Outcome(p, 1, <<TRUE>>)])
    BY <1>1
  <2> DEFINE out == [y \in Builds |-> Outcome(p, 1, <<TRUE>>)]
  <2>2. \A y \in Builds : out[y].p \in Point
    BY OrderAssumption, GroupAssumption DEF Outcome, Point, Keys, Scalars
  <2>3. \A y \in Builds : out[y].rec = <<TRUE>> /\ out[y].p.at = p
    BY DEF Outcome
  <2>4. GrpCommit(d, out) /\ large' \in {FALSE, large}
    BY <2>1 DEF SetXo
  <2> HIDE DEF out
  <2> QED
    BY <2>2, <2>3, <2>4, GrpCommitSafe
<1>2. CASE GrpCommit(d, [y \in Builds |-> Stays(y, d, <<FALSE>>)])
  <2> DEFINE out == [y \in Builds |-> Stays(y, d, <<FALSE>>)]
  <2>1. \A y \in Builds : out[y].p \in Point
    BY Common DEF Stays
  <2>2. \A y \in Builds : out[y].rec = <<FALSE>> /\ out[y].p.at = At(y, d)
    BY DEF Stays, At
  <2>3. GrpCommit(d, out) /\ large' \in {FALSE, large}
    BY <1>2 DEF SetXo
  <2> HIDE DEF out
  <2>4. \A y, w \in Builds : out[y].rec = out[w].rec /\ out[y].p.at = out[w].p.at
    BY <2>2, Common
  <2> QED
    BY <2>1, <2>3, <2>4, GrpCommitSafe
<1> QED
  BY <1>1, <1>2 DEF SetXo

LEMMA EcmultConstXonlySafe ==
    ASSUME GrpIInv, NEW d \in GrpRegs, NEW a \in GrpRegs, EcmultConstXonly(d, a) PROVE GrpIInv'
<1>1. PICK q \in Scalars, f \in Elements, raw \in BOOLEAN, onCurve \in BOOLEAN :
        GrpCommit(d, [y \in Builds |->
            Stays(y, d,
                  IF Known(y, a, raw)
                  THEN <<TRUE, Scaled(y, MultipliedX(y, NonzeroScalar(q), At(y, a)), Nonzero(f))>>
                  ELSE <<onCurve, Scaled(y, MultipliedX(y, NonzeroScalar(q), 1), Nonzero(f))>>)])
  BY DEF EcmultConstXonly
<1> DEFINE s == NonzeroScalar(q)
           Rec(y) == IF Known(y, a, raw)
                     THEN <<TRUE, Scaled(y, MultipliedX(y, s, At(y, a)), Nonzero(f))>>
                     ELSE <<onCurve, Scaled(y, MultipliedX(y, s, 1), Nonzero(f))>>
           out == [y \in Builds |-> Stays(y, d, Rec(y))]
<1>2. s # 0
  BY DEF NonzeroScalar
<1>3. GrpCommit(d, out) /\ large' \in {FALSE, large}
  BY <1>1 DEF EcmultConstXonly
<1> HIDE DEF s
<1>4. \A y : Scaled(y, MultipliedX(y, s, 1), Nonzero(f)) = EvenY(Product(s, 1))
  BY <1>2, ScaledIs DEF MultipliedX, Infinity
<1>5. ASSUME NEW y, At(y, a) # Infinity
      PROVE  Scaled(y, MultipliedX(y, s, At(y, a)), Nonzero(f)) = EvenY(Product(s, At(y, a)))
  BY <1>2, <1>5, ScaledIs DEF MultipliedX
<1>6. \A y \in Builds : Rec(y) = IF ~raw /\ At(y, a) # Infinity
                                THEN <<TRUE, EvenY(Product(s, At(y, a)))>>
                                ELSE <<onCurve, EvenY(Product(s, 1))>>
  BY <1>4, <1>5 DEF Known
<1> HIDE DEF Rec
<1>7. \A y \in Builds : out[y].p \in Point /\ out[y].p.at = At(y, d) /\ out[y].rec = Rec(y)
  BY Common DEF Stays
<1> HIDE DEF out
<1>8. ASSUME NEW y \in Builds, NEW w \in Builds
      PROVE  out[y].rec = out[w].rec /\ out[y].p.at = out[w].p.at
  <2>1. At(y, a) = At(w, a) /\ At(y, d) = At(w, d)
    BY Common
  <2>2. Rec(y) = Rec(w)
    BY <1>6, <2>1, Zenon
  <2> QED
    BY <1>7, <2>1, <2>2
<1> QED
  BY <1>3, <1>7, <1>8, GrpCommitSafe

LEMMA EcmultMultiSafe == ASSUME GrpIInv, NEW d \in GrpRegs, EcmultMulti(d) PROVE GrpIInv'
<1>1. CASE \E dropped \in BOOLEAN, p \in Scalars, z \in AnyZ :
            /\ \A y \in Builds : p \in Combinations(y, dropped)
            /\ GrpCommit(d, [y \in Builds |-> Outcome(p, z[y], <<TRUE>>)])
  <2>1. PICK p \in Scalars, z \in AnyZ :
            GrpCommit(d, [y \in Builds |-> Outcome(p, z[y], <<TRUE>>)])
    BY <1>1
  <2> DEFINE out == [y \in Builds |-> Outcome(p, z[y], <<TRUE>>)]
  <2>2. \A y \in Builds : out[y].p \in Point
    BY DEF AnyZ, Outcome, Point
  <2>3. \A y \in Builds : out[y].rec = <<TRUE>> /\ out[y].p.at = p
    BY DEF Outcome
  <2>4. GrpCommit(d, out) /\ large' \in {FALSE, large}
    BY <2>1 DEF EcmultMulti
  <2> HIDE DEF out
  <2> QED
    BY <2>2, <2>3, <2>4, GrpCommitSafe
<1>2. CASE \E sum \in [Builds -> Scalars] :
            GrpCommit(d, [y \in Builds |-> Outcome(Failed(sum[y]), 1, <<FALSE>>)])
  <2>1. PICK sum \in [Builds -> Scalars] :
            GrpCommit(d, [y \in Builds |-> Outcome(Failed(sum[y]), 1, <<FALSE>>)])
    BY <1>2
  <2> DEFINE out == [y \in Builds |-> Outcome(Failed(sum[y]), 1, <<FALSE>>)]
  <2>2. \A y \in Builds : out[y].p \in Point
    BY OrderAssumption, GroupAssumption DEF Outcome, Point, Failed, Scalars, Infinity
  <2>3. \A y \in Builds : out[y].rec = <<FALSE>> /\ out[y].p.at = Infinity
    BY DEF Outcome, Failed
  <2>4. GrpCommit(d, out) /\ large' \in {FALSE, large}
    BY <2>1 DEF EcmultMulti
  <2> HIDE DEF out
  <2> QED
    BY <2>2, <2>3, <2>4, GrpCommitSafe
<1> QED
  BY <1>1, <1>2 DEF EcmultMulti

LEMMA BatchAffineSafe == ASSUME GrpIInv, NEW d \in GrpRegs, BatchAffine(d) PROVE GrpIInv'
<1>1. PICK halvings \in 0..3 :
        LET batch == 0..((GrpNRegs \div 2^halvings) - 1)
            Affine(y) == [x \in batch |-> At(y, x)]
        IN  GrpCommit(d, [y \in Builds |->
                Stays(y, d,
                      IF ConstantTime(y, batch) THEN <<Affine(y), AllAffine(y, Affine(y))>>
                      ELSE <<Affine(y)>>)])
  BY DEF BatchAffine
<1> DEFINE batch == 0..((GrpNRegs \div 2^halvings) - 1)
           Affine(y) == [x \in batch |-> At(y, x)]
           Rec(y) == IF ConstantTime(y, batch) THEN <<Affine(y), AllAffine(y, Affine(y))>>
                     ELSE <<Affine(y)>>
           out == [y \in Builds |-> Stays(y, d, Rec(y))]
<1>2. batch \subseteq GrpRegs
  BY Halved DEF GrpRegs
<1>3. GrpCommit(d, out) /\ large' \in {FALSE, large}
  BY <1>1 DEF BatchAffine
<1> HIDE DEF batch
<1>4. ASSUME NEW y \in Builds, ConstantTime(y, batch)
      PROVE  AllAffine(y, Affine(y)) = Affine(y)
  BY <1>4 DEF ConstantTime, AllAffine
<1>5. ASSUME NEW y \in Builds, NEW w \in Builds
      PROVE  Affine(y) = Affine(w) /\ (ConstantTime(y, batch) <=> ConstantTime(w, batch))
  <2>1. \A x \in batch : At(y, x) = At(w, x)
    BY <1>2, Common
  <2>2. Affine(y) = Affine(w)
    BY <2>1
  <2>3. ConstantTime(y, batch) <=> ConstantTime(w, batch)
    BY <2>1, Zenon DEF ConstantTime
  <2> QED
    BY <2>2, <2>3
<1> HIDE DEF Affine
<1>6. \A y, w \in Builds : Rec(y) = Rec(w)
  BY <1>4, <1>5
<1> HIDE DEF Rec
<1>7. \A y \in Builds : out[y].p \in Point /\ out[y].p.at = At(y, d) /\ out[y].rec = Rec(y)
  BY Common DEF Stays
<1> HIDE DEF out
<1>8. \A y, w \in Builds : out[y].rec = out[w].rec /\ out[y].p.at = out[w].p.at
  BY <1>6, <1>7, Common
<1> QED
  BY <1>3, <1>7, <1>8, GrpCommitSafe

LEMMA QuerySafe ==
    ASSUME GrpIInv, NEW d \in GrpRegs, NEW a \in GrpRegs, NEW b \in GrpRegs, Query(d, a, b)
    PROVE  GrpIInv'
<1>1. PICK f \in Elements :
        GrpCommit(d, [y \in Builds |->
            Stays(y, d,
                  <<At(y, a) = Infinity, At(y, a) = At(y, b), Scaled(y, 1, Nonzero(f))>>
                    \o IF Comparable(y, a, b) THEN <<SameX(y, At(y, a), At(y, b))>> ELSE << >>)])
  BY DEF Query
<1> DEFINE Tells(y) == <<At(y, a) = Infinity, At(y, a) = At(y, b), Scaled(y, 1, Nonzero(f))>>
           Equal(y) == IF Comparable(y, a, b) THEN <<SameX(y, At(y, a), At(y, b))>> ELSE << >>
           out == [y \in Builds |-> Stays(y, d, Tells(y) \o Equal(y))]
<1>2. GrpCommit(d, out) /\ large' \in {FALSE, large}
  BY <1>1 DEF Query
<1>3. ASSUME NEW y \in Builds, NEW w \in Builds
      PROVE  Tells(y) = Tells(w) /\ Equal(y) = Equal(w)
  <2>1. At(y, a) = At(w, a) /\ At(y, b) = At(w, b)
    BY Common
  <2>2. Tells(y) = Tells(w)
    <3>1. Scaled(y, 1, Nonzero(f)) = 1 /\ Scaled(w, 1, Nonzero(f)) = 1
      BY ScaledIs
    <3> QED
      BY <2>1, <3>1, Zenon
  <2>3. ASSUME Comparable(y, a, b)
        PROVE  SameX(y, At(y, a), At(y, b)) = SameX(w, At(w, a), At(w, b))
    <3>1. Infinity \notin {At(y, a), At(y, b)} /\ Infinity \notin {At(w, a), At(w, b)}
      BY <2>1, <2>3 DEF Comparable
    <3> QED
      BY <2>1, <3>1, Zenon DEF SameX
  <2>4. Comparable(y, a, b) <=> Comparable(w, a, b)
    BY <2>1 DEF Comparable
  <2>5. Equal(y) = Equal(w)
    BY <2>3, <2>4, Zenon
  <2> QED
    BY <2>2, <2>5
<1> HIDE DEF Tells, Equal
<1>4. \A y \in Builds : out[y].p \in Point /\ out[y].p.at = At(y, d)
  BY Common DEF Stays
<1>5. \A y \in Builds : out[y].rec = Tells(y) \o Equal(y)
  BY DEF Stays
<1> HIDE DEF out
<1>6. \A y, w \in Builds : out[y].rec = out[w].rec /\ out[y].p.at = out[w].p.at
  BY <1>3, <1>4, <1>5, Common
<1> QED
  BY <1>2, <1>4, <1>6, GrpCommitSafe

-----------------------------------------------------------------------------
LEMMA GroupStep == GrpIInv /\ [GrpNext]_grpVars => GrpIInv'
<1> SUFFICES ASSUME GrpIInv, [GrpNext]_grpVars PROVE GrpIInv'
  OBVIOUS
<1>1. CASE GrpNext
  <2>1. PICK d \in GrpRegs :
        \/ Gen(d) \/ SetXo(d) \/ SetInfinity(d) \/ Rescale(d) \/ EcmultMulti(d)
        \/ BatchAffine(d)
        \/ \E a \in GrpRegs :
            \/ Double(d, a) \/ Neg(d, a) \/ MulLambda(d, a) \/ Ecmult(d, a)
            \/ EcmultConstXonly(d, a)
            \/ \E b \in GrpRegs :
                AddVar(d, a, b) \/ AddGe(d, a, b) \/ AddZinvVar(d, a, b) \/ Query(d, a, b)
    BY <1>1 DEF GrpNext
  <2> QED
    BY <2>1, GenSafe, SetXoSafe, SetInfinitySafe, RescaleSafe, EcmultMultiSafe, BatchAffineSafe,
       DoubleSafe, NegSafe, MulLambdaSafe, EcmultSafe, EcmultConstXonlySafe,
       AddVarSafe, AddGeSafe, AddZinvVarSafe, QuerySafe
<1>2. CASE UNCHANGED grpVars
  BY <1>2 DEF grpVars, GrpIInv, GrpTypeOK, Same, At, BuildsAgree
<1> QED
  BY <1>1, <1>2

(* Whatever sequence of ops an input holds, all builds record the same,     *)
(* because none ever gives infinity or zero to a call with no contract for  *)
(* it: for any builds, any number of registers, any z coordinates and any   *)
(* prime order.                                                             *)
THEOREM GroupSafe == GrpSpec => [](GrpTypeOK /\ BuildsAgree)
<1>1. GrpIInv => GrpTypeOK /\ BuildsAgree
  BY DEF GrpIInv
<1> QED
  BY GroupInit, GroupStep, <1>1, PTL DEF GrpSpec
=============================================================================
