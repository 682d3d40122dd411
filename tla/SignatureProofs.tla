-------------------------- MODULE SignatureProofs ---------------------------
(***************************************************************************)
(* Proofs about the targets that run once through: the ECDSA signatures of *)
(* EcdsaTarget and RecoveryTarget, the BIP340 ones of SchnorrTarget, and   *)
(* the key exchange of EllswiftTarget; in a group of any prime order.  At  *)
(* the end the inverse map of EllswiftInv, over any prime field.           *)
(***************************************************************************)
EXTENDS EcdsaTarget, RecoveryTarget, SchnorrTarget, EllswiftTarget, EllswiftInv, PrimeGroupProofs

-----------------------------------------------------------------------------
(* Division, and what verification and recovery compute. *)

LEMMA InverseLaw ==
    ASSUME NEW y \in Keys PROVE InverseOf[y] \in Keys /\ Product(y, InverseOf[y]) = 1
<1>1. y \in Scalars /\ y # 0
  BY DEF Keys, Scalars
<1>2. \E w \in Keys : Product(y, w) = 1
  BY OrderPrime, InverseExists DEF Keys, Product
<1>3. InverseOf[y] = CHOOSE w \in Keys : Product(y, w) = 1
  BY <1>1 DEF InverseOf
<1> QED
  BY <1>2, <1>3

LEMMA OverLaws ==
    ASSUME NEW x \in Scalars, NEW y \in Keys
    PROVE  /\ Over(x, y) \in Scalars
           /\ Product(y, Over(x, y)) = x
           /\ Over(Product(y, x), y) = x
           /\ Over(x, y) = 0 <=> x = 0
<1> DEFINE w == InverseOf[y]
<1>1. w \in Scalars /\ y \in Scalars /\ Product(y, w) = 1 /\ 0 \in Scalars
  BY InverseLaw, KeyScalars
<1>2. Over(x, y) = Product(x, w) /\ Over(Product(y, x), y) = Product(Product(y, x), w)
  BY DEF Over
<1> HIDE DEF w
<1>3. Product(x, w) \in Scalars /\ Product(y, x) \in Scalars
  BY <1>1, ProductOps
<1>4. Product(y, Product(x, w)) = x
  <2>1. Product(x, w) = Product(w, x)
    BY <1>1, ProductOps
  <2>2. Product(y, Product(w, x)) = Product(Product(y, w), x)
    BY <1>1, ProductAssociates
  <2>3. Product(1, x) = x
    <3>1. 1 \in Scalars
      BY <1>1, ProductOps
    <3> QED
      BY <3>1, ProductOps
  <2> QED
    BY <1>1, <2>1, <2>2, <2>3
<1>5. Product(Product(y, x), w) = x
  <2>1. Product(Product(y, x), w) = Product(y, Product(x, w))
    BY <1>1, ProductAssociates
  <2> QED
    BY <1>4, <2>1
<1>6. Product(x, w) = 0 <=> x = 0
  <2>1. Product(y, 0) = 0 /\ Product(w, 0) = 0 /\ Product(0, w) = Product(w, 0)
    BY <1>1, ProductOps
  <2> QED
    BY <1>4, <2>1
<1> QED
  BY <1>2, <1>3, <1>4, <1>5, <1>6

(* z + r*q = s*R: the signature's nonce point, or its x's, is R. *)
Relates(r, s, z, q, R) == Sum(z, Product(r, q)) = Product(s, R)

(* Then verification computes R, *)
LEMMA RelatedRecomputes ==
    ASSUME NEW r \in Scalars, NEW s \in Keys, NEW z \in Scalars, NEW q \in Scalars,
           NEW R \in Scalars, Relates(r, s, z, q, R)
    PROVE  Sum(Over(z, s), Product(Over(r, s), q)) = R
<1> DEFINE w == InverseOf[s]
<1>1. w \in Scalars /\ s \in Scalars
  BY InverseLaw, KeyScalars
<1>2. Over(z, s) = Product(z, w) /\ Over(r, s) = Product(r, w) /\ Over(Product(s, R), s) = R
      /\ Over(Product(s, R), s) = Product(Product(s, R), w)
  BY OverLaws DEF Over
<1> HIDE DEF w
<1>3. Product(Product(r, w), q) = Product(Product(r, q), w)
  BY <1>1, ProductAssociates, ProductOps
<1>4. Product(r, q) \in Scalars
  BY ProductOps
<1>5. Sum(Product(z, w), Product(Product(r, q), w)) = Product(Sum(z, Product(r, q)), w)
  BY <1>1, <1>4, ProductDistributes
<1> QED
  BY <1>2, <1>3, <1>5 DEF Relates

(* the key for R is the signer's, *)
LEMMA RelatedKey ==
    ASSUME NEW r \in Keys, NEW s \in Scalars, NEW z \in Scalars, NEW q \in Scalars,
           NEW R \in Scalars, Relates(r, s, z, q, R)
    PROVE  Over(Sum(Product(s, R), Negated(z)), r) = q
<1>1. r \in Scalars /\ Product(r, q) \in Scalars /\ Product(s, R) \in Scalars /\ Negated(z) \in Scalars
  BY KeyScalars, ProductOps, ScalarOps
<1>2. Sum(Sum(z, Product(r, q)), Negated(z)) = Product(r, q)
  <2>1. Sum(Sum(Product(r, q), z), Negated(z)) = Sum(Product(r, q), Sum(z, Negated(z)))
    BY <1>1, SumAssociates
  <2> QED
    BY <1>1, <2>1, ScalarOps
<1> QED
  BY <1>1, <1>2, OverLaws DEF Relates

(* and conversely the key recovered or constructed for R relates to it. *)
LEMMA KeyRelated ==
    ASSUME NEW r \in Keys, NEW s \in Scalars, NEW z \in Scalars, NEW R \in Scalars
    PROVE  LET q == Over(Sum(Product(s, R), Negated(z)), r)
           IN  q \in Scalars /\ Relates(r, s, z, q, R)
<1> DEFINE a == Sum(Product(s, R), Negated(z))
           q == Over(a, r)
<1>1. Product(s, R) \in Scalars /\ Negated(z) \in Scalars /\ r \in Scalars
  BY KeyScalars, ProductOps, ScalarOps
<1>2. a \in Scalars
  BY <1>1, ScalarOps
<1>3. q \in Scalars /\ Product(r, q) = a
  BY <1>2, OverLaws
<1>4. Sum(z, a) = Product(s, R)
  <2>1. Sum(a, z) = Sum(Product(s, R), Sum(Negated(z), z)) /\ Sum(a, z) = Sum(z, a)
    BY <1>1, <1>2, SumAssociates, ScalarOps
  <2>2. Sum(Negated(z), z) = 0
    BY <1>1, ScalarOps
  <2> QED
    BY <1>1, <2>1, <2>2, ScalarOps
<1> QED
  BY <1>3, <1>4 DEF Relates

(* Negating s negates R. *)
LEMMA RelatedNegated ==
    ASSUME NEW r \in Scalars, NEW s \in Scalars, NEW z \in Scalars, NEW q \in Scalars,
           NEW R \in Scalars, Relates(r, s, z, q, R)
    PROVE  Relates(r, Negated(s), z, q, Negated(R))
<1>1. Negated(s) \in Scalars /\ Negated(R) \in Scalars /\ Negated(Negated(s)) = s
  BY ScalarOps
<1>2. Product(Negated(s), Negated(R)) = Negated(Product(s, Negated(R)))
  BY <1>1, ProductNegated
<1>3. Product(s, Negated(R)) = Product(Negated(R), s) /\ Product(R, s) = Product(s, R)
  BY <1>1, ProductOps
<1>4. Product(Negated(R), s) = Negated(Product(R, s))
  BY ProductNegated
<1>5. Negated(Negated(Product(s, R))) = Product(s, R)
  BY ProductOps, ScalarOps
<1> QED
  BY <1>2, <1>3, <1>4, <1>5 DEF Relates

(* Signing relates its nonce. *)
LEMMA SignedRelated ==
    ASSUME NEW z \in Scalars, NEW d \in Scalars, NEW k \in Keys, NEW r \in Scalars
    PROVE  LET s == Over(Sum(z, Product(r, d)), k)
           IN  s \in Scalars /\ Relates(r, s, z, d, k)
<1>1. Product(r, d) \in Scalars /\ k \in Scalars
  BY KeyScalars, ProductOps
<1>2. Sum(z, Product(r, d)) \in Scalars
  BY <1>1, ScalarOps
<1> QED
  BY <1>1, <1>2, OverLaws, ProductOps DEF Relates

-----------------------------------------------------------------------------
(* Normalization. *)
LEMMA LowOrHigh ==
    ASSUME NEW s \in Scalars
    PROVE  /\ High(s) => s \in Keys /\ Negated(s) \in Keys /\ ~High(Negated(s))
           /\ ~High(s) /\ s # 0 => High(Negated(s))
           /\ ~High(0)
<1>1. s # 0 => EvenY(s) \in EvenKeys /\ (Even(s) => ~Even(Negated(s)))
  BY KeyScalars, EvenYEven
<1> QED
  BY <1>1, OrderPrime DEF High, EvenY, EvenKeys, Even, Negated, Scalars, Keys

(* What verification says of a signature R belongs to. *)
LEMMA RelatedVerifies ==
    ASSUME NEW sg \in Sigs, NEW z \in Scalars, NEW q \in Scalars, NEW R \in Scalars,
           sg.s # 0 => Relates(sg.r, sg.s, z, q, R),
           sg.r # 0, R # 0 => XMod[R] = sg.r
    PROVE  /\ Verify(sg, z, q) <=> R # 0 /\ sg.s # 0 /\ ~High(sg.s)
           /\ Verify(Normalized(sg), z, q) <=> R # 0 /\ sg.s # 0
<1>1. sg.r \in Scalars /\ sg.s \in Scalars
  BY DEF Sigs
<1>2. ASSUME NEW t \in Keys, NEW Q \in Scalars, Relates(sg.r, t, z, q, Q), Q # 0 => XMod[Q] = sg.r
      PROVE  Verify([r |-> sg.r, s |-> t], z, q) <=> Q # 0 /\ ~High(t)
  <2>1. Recomputed([r |-> sg.r, s |-> t], z, q) = Q
    BY <1>1, <1>2, RelatedRecomputes DEF Recomputed
  <2> QED
    BY <1>2, <2>1, KeyScalars DEF Verify
<1>3. CASE sg.s = 0
  BY <1>3, LowOrHigh, KeyScalars DEF Verify, Normalized
<1>4. CASE sg.s # 0
  <2>1. sg.s \in Keys /\ sg = [r |-> sg.r, s |-> sg.s]
    BY <1>1, <1>4, KeyScalars DEF Sigs
  <2>2. Verify(sg, z, q) <=> R # 0 /\ ~High(sg.s)
    BY <1>2, <1>4, <2>1
  <2>3. CASE ~High(sg.s)
    BY <1>4, <2>2, <2>3 DEF Normalized
  <2>4. CASE High(sg.s)
    <3>1. Negated(sg.s) \in Keys /\ ~High(Negated(sg.s)) /\ Negated(R) \in Scalars
      BY <1>1, <2>4, LowOrHigh, ScalarOps
    <3>2. Relates(sg.r, Negated(sg.s), z, q, Negated(R))
      BY <1>1, <1>4, RelatedNegated
    <3>3. Normalized(sg) = [r |-> sg.r, s |-> Negated(sg.s)]
      BY <2>1, <2>4 DEF Normalized
    <3>4. Negated(R) # 0 <=> R # 0
      BY ScalarOps DEF Negated
    <3>5. R # 0 => XMod[Negated(R)] = sg.r
      BY KeyScalars, NegatedKey, EcdsaAssumption
    <3>6. Verify([r |-> sg.r, s |-> Negated(sg.s)], z, q) <=> Negated(R) # 0 /\ ~High(Negated(sg.s))
      BY <1>2, <3>1, <3>2, <3>4, <3>5
    <3> QED
      BY <1>4, <2>2, <2>4, <3>1, <3>3, <3>4, <3>6
  <2> QED
    BY <2>3, <2>4
<1> QED
  BY <1>3, <1>4

-----------------------------------------------------------------------------
(* EcdsaTarget. *)

Signing == {"start", "nonce", "attempt"}

(* What is where before the mutations. *)
Begun ==
    /\ pc \in Signing \cup {"encode"} => mutated = {} /\ msg \in Scalars /\ der = NoDer
    /\ pc \in Signing => sig = ZeroSig /\ origin = Input
    /\ pc = "start" => seckey = 0
    /\ pc \in {"start", "nonce"} => nonces = NoNonces /\ counter = 0 /\ ~zeroed
    /\ pc \in {"nonce", "attempt"} => seckey \in Keys /\ pk = seckey
    /\ pc \notin Signing \cup {"encode"} => ~zeroed

(* The fixed nonces are offered first, and zero_s' message is not signed by   *)
(* the first of them.                                                         *)
Retrying ==
    /\ counter <= nonces.nFixed /\ counter <= nonces.failAt
    /\ pc = "attempt" /\ zeroed => nonces.first \in Keys /\ msg = ZeroSMsg(seckey, nonces.first)
    /\ zeroed /\ nonces.nFixed > 0 /\ origin.by = "signed" => counter > 0
    /\ pc = "encode" /\ seckey \in Keys /\ sig = ZeroSig => counter = nonces.failAt

(* A signature verifies, wherever its bytes are, until a mutation. *)
SignedMade ==
    origin.by = "signed" /\ Untouched({"msg", "pk"}) =>
        /\ msg \in Scalars /\ pk \in Keys
        /\ Untouched({"sig"}) => sig \in Sigs /\ Verify(sig, msg, pk)
        /\ der.form \in {"encoded", "tailed"} => Verify(der.sig, msg, pk)

ConstructedMade ==
    origin.by = "constructed" /\ mutated = {} =>
        /\ msg \in Scalars /\ pk \in Keys /\ sig \in Sigs
        /\ Verify(sig, msg, pk) <=> origin.R # 0 /\ sig.s # 0 /\ ~High(sig.s)
        /\ Verify(Normalized(sig), msg, pk) <=> origin.R # 0 /\ sig.s # 0

EcdsaIInv ==
    /\ TypeOK /\ Begun /\ Retrying /\ SignedMade /\ ConstructedMade
    /\ SignedVerifies /\ ConstructedVerifies

(* Until the first check nothing is promised of verdicts. *)
LEMMA NotSeen ==
    ASSUME pc' \notin {"strict", "lax", "done"} PROVE SignedVerifies' /\ ConstructedVerifies'
BY DEF SignedVerifies, ConstructedVerifies, Seen

LEMMA SigsFacts ==
    /\ ZeroSig \in Sigs /\ Sigs \subseteq SigBytes /\ FuzzedSig \notin SigBytes
    /\ \A s \in SigBytes : Parses(s) => s \in Sigs
    /\ \A s \in Sigs : Parses(s) /\ Normalized(s) \in Sigs
<1>1. Scalars \subseteq Bytes /\ Order \notin Scalars /\ 0 \in Scalars /\ -1 \notin Bytes
      /\ \A x \in Bytes : x # Order => x \in Scalars
  BY OrderPrime DEF Scalars, Bytes
<1>2. ZeroSig \in Sigs /\ Sigs \subseteq SigBytes /\ \A s \in Sigs : Parses(s)
  BY <1>1 DEF ZeroSig, Sigs, SigBytes, Parses
<1>3. FuzzedSig \notin SigBytes
  BY <1>1 DEF FuzzedSig, Fuzzed, SigBytes
<1>4. ASSUME NEW s \in SigBytes, Parses(s) PROVE s \in Sigs
  BY <1>1, <1>4 DEF Sigs, SigBytes, Parses
<1>5. ASSUME NEW s \in Sigs PROVE Normalized(s) \in Sigs
  BY ScalarOps DEF Normalized, Sigs
<1> QED
  BY <1>2, <1>3, <1>4, <1>5

LEMMA EcdsaInitInv == Init => EcdsaIInv
<1> SUFFICES ASSUME Init PROVE EcdsaIInv
  OBVIOUS
<1>1. TypeOK
  <2>1. 0 \in Scalars /\ 0 \in Bytes /\ ZeroSig \in Sigs /\ ZeroSig \in SigBytes
    BY KeyScalars, SigsFacts, OrderPrime DEF Bytes
  <2>2. /\ NoNonces \in [first : Bytes, nFixed : 0..2, failAt : 0..3]
        /\ NoDer \in [form : {"empty", "encoded", "tailed", "fuzzed"}, sig : Sigs]
        /\ Input \in [by : {"input", "signed", "constructed"}, R : Scalars]
    BY <2>1 DEF NoNonces, NoDer, Input
  <2>3. /\ pc \in Stages /\ mutated \subseteq {"sig", "msg", "pk", "der"}
        /\ verdict \in [Parsers -> SUBSET {"parsed", "sig", "low"}]
    BY DEF Init, Stages
  <2>4. /\ msg \in Scalars /\ seckey = 0 /\ nonces = NoNonces /\ counter = 0 /\ pk = 0
        /\ sig = ZeroSig /\ der = NoDer /\ origin = Input /\ zeroed = FALSE
    BY DEF Init
  <2>5. counter \in 0..3 /\ nonces \in [first : Bytes, nFixed : 0..2, failAt : 0..3]
        /\ der \in [form : {"empty", "encoded", "tailed", "fuzzed"}, sig : Sigs]
        /\ origin \in [by : {"input", "signed", "constructed"}, R : Scalars]
    BY <2>2, <2>4
  <2>6. sig \in SigBytes /\ pk \in Scalars /\ seckey \in Scalars /\ zeroed \in BOOLEAN
    BY <2>1, <2>4
  <2> QED
    BY <2>3, <2>4, <2>5, <2>6 DEF TypeOK
<1>2. Begun /\ Retrying
  BY DEF Init, Begun, Retrying, Signing, NoNonces
<1>3. SignedMade /\ ConstructedMade /\ SignedVerifies /\ ConstructedVerifies
  BY DEF Init, SignedMade, ConstructedMade, SignedVerifies, ConstructedVerifies, Input
<1> QED
  BY <1>1, <1>2, <1>3 DEF EcdsaIInv

(* A nonce that signs gives a signature that verifies. *)
LEMMA SignsVerifies ==
    ASSUME NEW z \in Scalars, NEW d \in Keys, NEW k, Signs(z, d, k)
    PROVE  SignWith(z, d, k) \in Sigs /\ Verify(SignWith(z, d, k), z, d)
<1> DEFINE r == XMod[k]
           s == RawS(z, d, k)
           g == [r |-> r, s |-> s]
<1>1. k \in Keys /\ k \in Scalars /\ r \in Scalars /\ r # 0 /\ s # 0 /\ d \in Scalars /\ k # 0
  BY EcdsaAssumption, KeyScalars DEF Signs
<1>2. s \in Scalars /\ Relates(r, s, z, d, k)
  BY <1>1, SignedRelated DEF RawS
<1> HIDE DEF r, s
<1>3. g \in Sigs /\ g.r = r /\ g.s = s
  BY <1>1, <1>2 DEF Sigs
<1>4. Verify(Normalized(g), z, d)
  BY <1>1, <1>2, <1>3, RelatedVerifies DEF r
<1> QED
  BY <1>3, <1>4, SigsFacts DEF SignWith, r, s

(* Signing to the end: the message that zero_s wrote is not signed by its nonce. *)
LEMMA ZeroSRetries ==
    ASSUME NEW d \in Keys, NEW k \in Keys PROVE ~Signs(ZeroSMsg(d, k), d, k)
<1>1. XMod[k] \in Scalars /\ d \in Scalars
  BY EcdsaAssumption, KeyScalars
<1>2. Product(XMod[k], d) \in Scalars
  BY <1>1, ProductOps
<1>3. Sum(Negated(Product(XMod[k], d)), Product(XMod[k], d)) = 0
  BY <1>2, ScalarOps
<1>4. RawS(ZeroSMsg(d, k), d, k) = 0
  BY <1>3, KeyScalars, OverLaws DEF RawS, ZeroSMsg
<1> QED
  BY <1>4 DEF Signs

(* Where the signature comes from. *)
LEMMA OriginSteps ==
    ASSUME EcdsaIInv, Raw \/ Construct \/ ConstructFails \/ CreateKey PROVE EcdsaIInv'
<1>1. pc = "start" /\ pc' \in {"encode", "nonce"} /\ Begun /\ TypeOK /\ Retrying
  BY DEF Raw, Construct, ConstructFails, CreateKey, EcdsaIInv
<1>2. SignedVerifies' /\ ConstructedVerifies'
  BY <1>1, NotSeen
<1>3. origin.by = "input" /\ mutated = {} /\ msg \in Scalars /\ der = NoDer /\ seckey = 0
  BY <1>1 DEF Begun, Signing, Input
<1> USE DEF Begun, Signing, TypeOK, Stages, Parsers, Retrying, SignedMade, ConstructedMade, Input
<1>4. CASE Raw \/ ConstructFails
  BY <1>1, <1>2, <1>3, <1>4, KeyScalars, SigsFacts DEF Raw, ConstructFails, EcdsaIInv, Untouched
<1>5. CASE CreateKey
  BY <1>1, <1>2, <1>3, <1>5, KeyScalars, SigsFacts DEF CreateKey, EcdsaIInv, Untouched
<1>6. CASE Construct
  <2>1. PICK R \in Scalars, r \in Scalars, s \in Scalars :
          /\ R # 0 => r = XMod[R]
          /\ ConstructedKey(R, r, s, msg) # 0
          /\ pk' = ConstructedKey(R, r, s, msg) /\ sig' = [r |-> r, s |-> s]
          /\ origin' = [by |-> "constructed", R |-> R]
    BY <1>6 DEF Construct
  <2> DEFINE q == ConstructedKey(R, r, s, msg)
             g == [r |-> r, s |-> s]
  <2>2. g \in Sigs /\ g.r = r /\ g.s = s
    BY DEF Sigs
  <2>3. r # 0
    <3>1. SUFFICES ASSUME r = 0 PROVE FALSE
      OBVIOUS
    <3>2. Product(s, R) \in Scalars /\ Negated(msg) \in Scalars
      BY <1>3, ProductOps, ScalarOps
    <3>3. Sum(Product(s, R), Negated(msg)) \in Scalars
      BY <3>2, ScalarOps
    <3>4. InverseOf[0] = 0
      BY KeyScalars DEF InverseOf
    <3>5. q = 0
      BY <3>1, <3>3, <3>4, ProductOps DEF ConstructedKey, Over
    <3> QED
      BY <2>1, <3>5
  <2>4. q \in Scalars /\ Relates(r, s, msg, q, R)
    BY <1>3, <2>3, KeyScalars, KeyRelated DEF ConstructedKey
  <2>5. q \in Keys
    BY <2>1, <2>4, KeyScalars
  <2> HIDE DEF q
  <2>6. /\ Verify(g, msg, q) <=> R # 0 /\ g.s # 0 /\ ~High(g.s)
        /\ Verify(Normalized(g), msg, q) <=> R # 0 /\ g.s # 0
    BY <1>3, <2>1, <2>2, <2>3, <2>4, RelatedVerifies
  <2>7. sig' = g /\ pk' = q /\ msg' = msg /\ origin' = [by |-> "constructed", R |-> R]
    BY <1>6, <2>1 DEF Construct, q
  <2>8. ConstructedMade'
    BY <1>3, <2>2, <2>5, <2>6, <2>7
  <2>9. TypeOK'
    BY <1>1, <1>6, <2>2, <2>5, <2>7, SigsFacts, KeyScalars DEF Construct
  <2>10. (Begun /\ Retrying /\ SignedMade)'
    BY <1>1, <1>3, <1>6, <2>7, KeyScalars DEF Construct
  <2> QED
    BY <1>2, <2>8, <2>9, <2>10 DEF EcdsaIInv
<1> QED
  BY <1>4, <1>5, <1>6

(* Signing. *)
LEMMA NonceSteps ==
    ASSUME EcdsaIInv, SignDefault \/ SignNonce PROVE EcdsaIInv'
<1>1. pc = "nonce" /\ pc' = "attempt" /\ Begun /\ TypeOK /\ Retrying
  BY DEF SignDefault, SignNonce, EcdsaIInv
<1>2. SignedVerifies' /\ ConstructedVerifies'
  BY <1>1, NotSeen
<1>3. /\ origin = Input /\ mutated = {} /\ msg \in Scalars /\ der = NoDer /\ sig = ZeroSig
      /\ seckey \in Keys /\ pk = seckey /\ nonces = NoNonces /\ counter = 0 /\ ~zeroed
  BY <1>1 DEF Begun, Signing
<1>4. CASE SignDefault
  BY <1>1, <1>2, <1>3, <1>4, KeyScalars
  DEF SignDefault, EcdsaIInv, TypeOK, Begun, Retrying, SignedMade, ConstructedMade, Signing, Input,
      NoNonces, Stages
<1>5. CASE SignNonce
  <2> PICK first \in Bytes, bits \in 0..3, failAt \in 0..3, zero \in BOOLEAN :
        /\ nonces' = [first |-> first, nFixed |-> FixedOf(bits), failAt |-> failAt]
        /\ ZeroS(first, zero)
    BY <1>5 DEF SignNonce
  <2>1. FixedOf(bits) \in 0..2
    BY DEF FixedOf
  <2>2. zeroed' \in BOOLEAN /\ (zeroed' => first \in Keys)
    BY DEF ZeroS
  <2>3. ZeroSMsg(seckey, first) \in Scalars \/ ~zeroed'
    BY <1>3, <2>2, KeyScalars, EcdsaAssumption, ProductOps, ScalarOps DEF ZeroSMsg
  <2>4. msg' \in Scalars /\ (zeroed' => msg' = ZeroSMsg(seckey, first))
    BY <1>3, <2>3 DEF ZeroS
  <2>5. TypeOK'
    BY <1>1, <1>5, <2>1, <2>2, <2>4 DEF SignNonce, TypeOK, Stages
  <2>6. Begun' /\ Retrying'
    BY <1>1, <1>3, <1>5, <2>1, <2>2, <2>4
    DEF SignNonce, Begun, Retrying, Signing, Input
  <2>7. SignedMade' /\ ConstructedMade'
    BY <1>3, <1>5 DEF SignNonce, SignedMade, ConstructedMade, Input
  <2> QED
    BY <1>2, <2>5, <2>6, <2>7 DEF EcdsaIInv
<1> QED
  BY <1>4, <1>5

LEMMA AttemptSteps ==
    ASSUME EcdsaIInv, Attempt \/ AttemptFails PROVE EcdsaIInv'
<1>1. pc = "attempt" /\ pc' \in {"attempt", "encode"} /\ Begun /\ TypeOK /\ Retrying
  BY DEF Attempt, AttemptFails, EcdsaIInv
<1>2. SignedVerifies' /\ ConstructedVerifies'
  BY <1>1, NotSeen
<1>3. /\ origin = Input /\ mutated = {} /\ msg \in Scalars /\ der = NoDer /\ sig = ZeroSig
      /\ seckey \in Keys /\ pk = seckey
      /\ counter \in 0..3 /\ nonces.nFixed \in 0..2 /\ nonces.failAt \in 0..3
      /\ counter <= nonces.nFixed /\ counter <= nonces.failAt
  BY <1>1 DEF Begun, Signing, TypeOK, Retrying
<1>4. CASE AttemptFails
  BY <1>1, <1>2, <1>3, <1>4, KeyScalars
  DEF AttemptFails, EcdsaIInv, TypeOK, Begun, Retrying, SignedMade, ConstructedMade, Signing, Input,
      Stages
<1>5. ASSUME Attempt, NEW k \in Offered, Signs(msg, seckey, k),
             sig' = SignWith(msg, seckey, k), origin' = [by |-> "signed", R |-> 0],
             pc' = "encode", UNCHANGED counter
      PROVE  EcdsaIInv'
  <2>1. sig' \in Sigs /\ Verify(sig', msg, pk)
    BY <1>3, <1>5, SignsVerifies
  <2>2. zeroed /\ nonces.nFixed > 0 => counter > 0
    <3>1. SUFFICES ASSUME zeroed, nonces.nFixed > 0, counter = 0 PROVE FALSE
      BY <1>3
    <3>2. k = nonces.first /\ nonces.first \in Keys /\ msg = ZeroSMsg(seckey, nonces.first)
      BY <1>1, <1>5, <3>1 DEF Offered, Retrying
    <3> QED
      BY <1>3, <1>5, <3>2, ZeroSRetries
  <2>3. sig' # ZeroSig
    BY <2>1 DEF Verify, ZeroSig
  <2>4. TypeOK'
    BY <1>1, <1>5, <2>1, SigsFacts, KeyScalars DEF Attempt, TypeOK, Stages
  <2>5. Begun' /\ Retrying'
    BY <1>1, <1>3, <1>5, <2>2, <2>3 DEF Attempt, Begun, Retrying, Signing
  <2>6. SignedMade' /\ ConstructedMade'
    BY <1>3, <1>5, <2>1 DEF Attempt, SignedMade, ConstructedMade, NoDer
  <2> QED
    BY <1>2, <2>4, <2>5, <2>6 DEF EcdsaIInv
<1>6. ASSUME Attempt, NEW k \in Offered, ~Signs(msg, seckey, k),
             counter' = counter + 1, UNCHANGED <<pc, sig, origin>>
      PROVE  EcdsaIInv'
  <2>1. counter < nonces.nFixed /\ counter < nonces.failAt
    BY <1>3, <1>6 DEF Offered, Attempt
  <2>2. TypeOK'
    BY <1>1, <1>3, <1>6, <2>1 DEF Attempt, TypeOK
  <2>3. Begun' /\ Retrying'
    BY <1>1, <1>3, <1>6, <2>1 DEF Attempt, Begun, Retrying, Signing, Input
  <2>4. SignedMade' /\ ConstructedMade'
    BY <1>3, <1>6 DEF Attempt, SignedMade, ConstructedMade, Input
  <2> QED
    BY <1>2, <2>2, <2>3, <2>4 DEF EcdsaIInv
<1> QED
  BY <1>4, <1>5, <1>6 DEF Attempt

(* The encoding, and what is done to the buffers. *)
LEMMA EncodeStep == ASSUME EcdsaIInv, Encode PROVE EcdsaIInv'
<1>1. /\ pc = "encode" /\ pc' = "mutate" /\ Begun /\ TypeOK /\ Retrying /\ SignedMade
      /\ ConstructedMade
  BY DEF Encode, EcdsaIInv
<1>2. SignedVerifies' /\ ConstructedVerifies'
  BY <1>1, NotSeen
<1>3. mutated = {} /\ der = NoDer
  BY <1>1 DEF Begun, Signing
<1>4. /\ der' \in [form : {"empty", "encoded", "tailed", "fuzzed"}, sig : Sigs]
      /\ der'.form \in {"encoded", "tailed"} => der'.form = "encoded" /\ der'.sig = sig
  BY <1>1, <1>3, SigsFacts DEF Encode, TypeOK, NoDer
<1>5. TypeOK'
  <2>1. NoNonces \in [first : Bytes, nFixed : 0..2, failAt : 0..3] /\ 0 \in Scalars
    BY KeyScalars, OrderPrime DEF NoNonces, Bytes
  <2>2. /\ seckey' = 0 /\ nonces' = NoNonces /\ counter' = 0 /\ zeroed' = FALSE /\ pc' = "mutate"
        /\ UNCHANGED <<msg, pk, sig, origin, mutated, verdict>>
    BY <1>1 DEF Encode
  <2>3. seckey' \in Scalars /\ counter' \in 0..3
    BY <2>1, <2>2
  <2>4. zeroed' \in BOOLEAN /\ pc' \in Stages
    BY <2>2 DEF Stages
  <2>5. nonces' \in [first : Bytes, nFixed : 0..2, failAt : 0..3]
    BY <2>1, <2>2
  <2> QED
    BY <1>1, <1>4, <2>2, <2>3, <2>4, <2>5 DEF TypeOK
<1>6. Begun' /\ Retrying'
  BY <1>1 DEF Encode, Begun, Retrying, Signing, NoNonces
<1>7. SignedMade' /\ ConstructedMade'
  BY <1>1, <1>3, <1>4 DEF Encode, SignedMade, ConstructedMade, Untouched
<1> QED
  BY <1>2, <1>5, <1>6, <1>7 DEF EcdsaIInv

LEMMA MutationSteps ==
    ASSUME EcdsaIInv, MutateSig \/ MutateMsg \/ MutatePk \/ MutateDer \/ MutationsEnd \/ AddTail
           \/ ParsePubkey
    PROVE  EcdsaIInv'
<1>1. /\ pc \in {"mutate", "tail", "pubkey"} /\ pc' \in {"mutate", "tail", "pubkey", "compact"}
      /\ Begun /\ TypeOK /\ Retrying /\ SignedMade /\ ConstructedMade
  BY DEF MutateSig, MutateMsg, MutatePk, MutateDer, MutationsEnd, AddTail, ParsePubkey, EcdsaIInv
<1>2. SignedVerifies' /\ ConstructedVerifies'
  BY <1>1, NotSeen
<1>3. Begun' /\ Retrying'
  BY <1>1 DEF Begun, Retrying, Signing, MutateSig, MutateMsg, MutatePk, MutateDer, MutationsEnd, AddTail,
     ParsePubkey
<1>4. CASE MutateSig
  BY <1>1, <1>2, <1>3, <1>4
  DEF MutateSig, Aimed, TypeOK, SignedMade, ConstructedMade, Untouched, EcdsaIInv
<1>5. CASE MutateMsg
  BY <1>1, <1>2, <1>3, <1>5
  DEF MutateMsg, Aimed, TypeOK, SignedMade, ConstructedMade, Untouched, EcdsaIInv
<1>6. CASE MutatePk
  BY <1>1, <1>2, <1>3, <1>6
  DEF MutatePk, Aimed, TypeOK, SignedMade, ConstructedMade, Untouched, EcdsaIInv
<1>7. CASE MutateDer
  <2>1. der' \in [form : {"empty", "encoded", "tailed", "fuzzed"}, sig : Sigs] /\ der'.form = "fuzzed"
    BY <1>7, SigsFacts DEF MutateDer
  <2>2. TypeOK'
    BY <1>1, <1>7, <2>1 DEF MutateDer, Aimed, TypeOK
  <2>3. SignedMade' /\ ConstructedMade'
    BY <1>1, <1>7, <2>1 DEF MutateDer, Aimed, SignedMade, ConstructedMade, Untouched
  <2> QED
    BY <1>2, <1>3, <2>2, <2>3 DEF EcdsaIInv
<1>8. CASE MutationsEnd
  BY <1>1, <1>2, <1>3, <1>8
  DEF MutationsEnd, TypeOK, Stages, SignedMade, ConstructedMade, Untouched, EcdsaIInv
<1>9. CASE AddTail
  <2>1. /\ der' \in [form : {"empty", "encoded", "tailed", "fuzzed"}, sig : Sigs]
        /\ der'.form \in {"encoded", "tailed"} => der.form \in {"encoded", "tailed"}
        /\ der'.sig = der.sig
    BY <1>1, <1>9 DEF AddTail, TypeOK
  <2>2. TypeOK'
    BY <1>1, <1>9, <2>1 DEF AddTail, TypeOK, Stages
  <2>3. SignedMade' /\ ConstructedMade'
    BY <1>1, <1>9, <2>1 DEF AddTail, SignedMade, ConstructedMade, Untouched
  <2> QED
    BY <1>2, <1>3, <2>2, <2>3 DEF EcdsaIInv
<1>10. CASE ParsePubkey
  <2>1. pk' \in Scalars /\ (pk \in Keys => pk' = pk)
    BY <1>1, <1>10, KeyScalars, OrderPrime DEF ParsePubkey, AnyOf, TypeOK, Fuzzed, Keys
  <2>2. TypeOK'
    BY <1>1, <1>10, <2>1 DEF ParsePubkey, TypeOK, Stages, Parsers
  <2>3. SignedMade' /\ ConstructedMade'
    BY <1>1, <1>10, <2>1 DEF ParsePubkey, SignedMade, ConstructedMade, Untouched
  <2> QED
    BY <1>2, <1>3, <2>2, <2>3 DEF EcdsaIInv
<1> QED
  BY <1>4, <1>5, <1>6, <1>7, <1>8, <1>9, <1>10

(* The checks. *)

(* What a check records of a signature s on z. *)
Recorded(s, z) ==
    IF ~Parses(s) THEN {}
    ELSE {"parsed"}
         \cup {f \in {"sig"} : pk # 0 /\ Verify(s, z, pk)}
         \cup {f \in {"low"} : pk # 0 /\ Verify(Normalized(s), z, pk)}

LEMMA LowVerifies ==
    ASSUME NEW s \in Sigs, NEW z, pk \in Keys, Verify(s, z, pk) PROVE {"sig", "low"} \subseteq Recorded(s, z)
<1>1. Parses(s) /\ pk # 0
  BY SigsFacts, KeyScalars
<1>2. Normalized(s) = s
  BY DEF Verify, Normalized
<1> QED
  BY <1>1, <1>2 DEF Recorded

(* A check of any buffer leaves all but msg and its verdict. *)
LEMMA CheckKeeps ==
    ASSUME EcdsaIInv, NEW parser \in Parsers, NEW next \in {"strict", "lax", "done"},
           Check(parser, next)
    PROVE  /\ (TypeOK /\ Begun /\ Retrying /\ SignedMade /\ ConstructedMade)'
           /\ \E s \in ParsedBy(parser), z \in Scalars :
                /\ verdict' = [verdict EXCEPT ![parser] = Recorded(s, z)]
                /\ msg \in Scalars => z = msg
<1>1. PICK s \in ParsedBy(parser), z \in AnyOf(msg, Scalars) :
        verdict' = [verdict EXCEPT ![parser] = Recorded(s, z)] /\ msg' = z
  BY DEF Check, Recorded
<1>2. /\ pc = parser /\ pc' = next
      /\ UNCHANGED <<seckey, nonces, counter, pk, sig, der, origin, zeroed, mutated>>
  BY DEF Check
<1>3. z \in Scalars /\ (msg \in Scalars => z = msg)
  BY OrderPrime DEF AnyOf, EcdsaIInv, TypeOK, Fuzzed, Scalars
<1>4. Recorded(s, z) \in SUBSET {"parsed", "sig", "low"}
  BY DEF Recorded
<1>5. TypeOK'
  BY <1>1, <1>2, <1>3, <1>4 DEF EcdsaIInv, TypeOK, Stages, Parsers
<1>6. Begun' /\ Retrying'
  BY <1>2 DEF EcdsaIInv, Begun, Retrying, Signing, Parsers
<1>7. SignedMade' /\ ConstructedMade'
  BY <1>1, <1>2, <1>3 DEF EcdsaIInv, SignedMade, ConstructedMade, Untouched
<1> QED
  BY <1>1, <1>3, <1>5, <1>6, <1>7

LEMMA CheckSteps ==
    ASSUME EcdsaIInv, CheckCompact \/ CheckStrict \/ CheckLax PROVE EcdsaIInv'
<1>1. TypeOK /\ SignedMade /\ ConstructedMade /\ SignedVerifies /\ ConstructedVerifies
  BY DEF EcdsaIInv
<1>2. FuzzedSig \notin Sigs
  BY SigsFacts
<1>3. CASE CheckCompact
  <2>1. PICK s \in ParsedBy("compact"), z \in Scalars :
          /\ verdict' = [verdict EXCEPT !["compact"] = Recorded(s, z)]
          /\ msg \in Scalars => z = msg
    BY <1>3, CheckKeeps DEF CheckCompact, Parsers
  <2>2. /\ pc' = "strict" /\ UNCHANGED <<pk, sig, der, origin, mutated>>
        /\ verdict'["compact"] = Recorded(s, z)
    BY <1>1, <1>3, <2>1 DEF CheckCompact, Check, TypeOK, Parsers
  <2>3. sig \in Sigs => s = sig
    BY <1>2 DEF ParsedBy
  <2>4. SignedVerifies'
    BY <1>1, <2>1, <2>2, <2>3, LowVerifies DEF SignedVerifies, SignedMade, Seen, Untouched
  <2>5. ConstructedVerifies'
    <3>1. SUFFICES ASSUME origin.by = "constructed", mutated = {}
                   PROVE  /\ "low" \in Recorded(s, z) <=> origin.R # 0 /\ sig.s # 0
                          /\ "sig" \in Recorded(s, z) <=> origin.R # 0 /\ sig.s # 0 /\ ~High(sig.s)
      BY <2>2 DEF ConstructedVerifies
    <3>2. s = sig /\ z = msg /\ Parses(s) /\ pk # 0
      BY <1>1, <2>1, <2>3, <3>1, SigsFacts, KeyScalars DEF ConstructedMade
    <3> QED
      BY <1>1, <3>1, <3>2 DEF ConstructedMade, Recorded
  <2>6. (TypeOK /\ Begun /\ Retrying /\ SignedMade /\ ConstructedMade)'
    BY <1>3, CheckKeeps DEF CheckCompact, Parsers
  <2> QED
    BY <2>4, <2>5, <2>6 DEF EcdsaIInv
<1>4. CASE CheckStrict
  <2>1. PICK s \in ParsedBy("strict"), z \in Scalars :
          /\ verdict' = [verdict EXCEPT !["strict"] = Recorded(s, z)]
          /\ msg \in Scalars => z = msg
    BY <1>4, CheckKeeps DEF CheckStrict, Parsers
  <2>2. /\ pc = "strict" /\ pc' = "lax" /\ UNCHANGED <<pk, sig, der, origin, mutated>>
        /\ verdict'["strict"] = Recorded(s, z) /\ verdict'["compact"] = verdict["compact"]
    BY <1>1, <1>4, <2>1 DEF CheckStrict, Check, TypeOK, Parsers
  <2>3. der.form = "encoded" => s = der.sig /\ s \in Sigs
    BY <1>1 DEF ParsedBy, TypeOK
  <2>4. SignedVerifies'
    BY <1>1, <2>1, <2>2, <2>3, LowVerifies DEF SignedVerifies, SignedMade, Seen, Untouched
  <2>5. ConstructedVerifies'
    BY <1>1, <2>2 DEF ConstructedVerifies, Seen
  <2>6. (TypeOK /\ Begun /\ Retrying /\ SignedMade /\ ConstructedMade)'
    BY <1>4, CheckKeeps DEF CheckStrict, Parsers
  <2> QED
    BY <2>4, <2>5, <2>6 DEF EcdsaIInv
<1>5. CASE CheckLax
  <2>1. PICK s \in ParsedBy("lax"), z \in Scalars :
          /\ verdict' = [verdict EXCEPT !["lax"] = Recorded(s, z)]
          /\ msg \in Scalars => z = msg
    BY <1>5, CheckKeeps DEF CheckLax, Parsers
  <2>2. /\ pc = "lax" /\ pc' = "done" /\ UNCHANGED <<pk, sig, der, origin, mutated>>
        /\ verdict'["lax"] = Recorded(s, z) /\ verdict'["compact"] = verdict["compact"]
        /\ verdict'["strict"] = verdict["strict"]
    BY <1>1, <1>5, <2>1 DEF CheckLax, Check, TypeOK, Parsers
  <2>3. der.form \in {"encoded", "tailed"} => s = der.sig /\ s \in Sigs
    BY <1>1 DEF ParsedBy, TypeOK
  <2>4. SignedVerifies'
    BY <1>1, <2>1, <2>2, <2>3, LowVerifies DEF SignedVerifies, SignedMade, Seen, Untouched
  <2>5. ConstructedVerifies'
    BY <1>1, <2>2 DEF ConstructedVerifies, Seen
  <2>6. (TypeOK /\ Begun /\ Retrying /\ SignedMade /\ ConstructedMade)'
    BY <1>5, CheckKeeps DEF CheckLax, Parsers
  <2> QED
    BY <2>4, <2>5, <2>6 DEF EcdsaIInv
<1> QED
  BY <1>3, <1>4, <1>5

LEMMA EcdsaStep == EcdsaIInv /\ [Next]_vars => EcdsaIInv'
<1> SUFFICES ASSUME EcdsaIInv, [Next]_vars PROVE EcdsaIInv'
  OBVIOUS
<1>1. CASE UNCHANGED vars
  BY <1>1 DEF vars, EcdsaIInv, TypeOK, Begun, Retrying, SignedMade, ConstructedMade, SignedVerifies,
     ConstructedVerifies, Untouched, Seen
<1> QED
  BY <1>1, OriginSteps, NonceSteps, AttemptSteps, EncodeStep, MutationSteps, CheckSteps DEF Next

LEMMA EcdsaInvAlways == Spec => []EcdsaIInv
BY EcdsaInitInv, EcdsaStep, PTL DEF Spec

(* Whatever is mutated, the buffers of target_ecdsa hold what they may. *)
THEOREM EcdsaTypes == Spec => []TypeOK
<1>1. EcdsaIInv => TypeOK
  BY DEF EcdsaIInv
<1> QED
  BY <1>1, EcdsaInvAlways, PTL

(* What target_ecdsa signs verifies in every encoding that no mutation was    *)
(* aimed at, for every prime order and every x coordinate of its points.      *)
THEOREM SignedVerifiesAlways == Spec => []SignedVerifies
<1>1. EcdsaIInv => SignedVerifies
  BY DEF EcdsaIInv
<1> QED
  BY <1>1, EcdsaInvAlways, PTL

(* A constructed signature recomputes the point it was constructed from. *)
THEOREM ConstructedVerifiesAlways == Spec => []ConstructedVerifies
<1>1. EcdsaIInv => ConstructedVerifies
  BY DEF EcdsaIInv
<1> QED
  BY <1>1, EcdsaInvAlways, PTL

(* Signing's retries read inside the array of fixed nonces, and end. *)
THEOREM RetriesEndAlways == Spec => []RetriesEnd
<1>1. EcdsaIInv => RetriesEnd
  BY DEF EcdsaIInv, TypeOK, Retrying, RetriesEnd
<1> QED
  BY <1>1, EcdsaInvAlways, PTL

-----------------------------------------------------------------------------
(* RecoveryTarget.  A signature with its id, as the signer made them. *)

RecSigned ==
    \E k \in Keys :
        /\ Signs(recMsg, recSigner, k)
        /\ recSig = SignWith(recMsg, recSigner, k) /\ recId = SignedId(recMsg, recSigner, k)

RecStages ==
    /\ recPc # "done" => recKey = 0 /\ recChecks = {}
    /\ recPc = "start" => recMsg \in Scalars /\ recSigner = 0 /\ recSig = ZeroSig /\ ~recMutated
    /\ recSig \in Sigs \cup {FuzzedSig}
    /\ recPc = "recover" => recSig \in Sigs
    /\ recSigner # 0 /\ ~recMutated => recMsg \in Scalars /\ recSigner \in Keys /\ RecSigned

RecIInv == RecTypeOK /\ RecStages /\ RecoveredVerifies

(* An id read back is the one written. *)
LEMMA IdMeant ==
    ASSUME NEW odd \in BOOLEAN, NEW above \in BOOLEAN
    PROVE  LET n == IdOf([above |-> above, odd |-> odd])
           IN  n \in 0..3 /\ Meant(n).odd = odd /\ Meant(n).above = above
<1> DEFINE n == IdOf([above |-> above, odd |-> odd])
<1>1. n = (IF odd THEN 1 ELSE 0) + (IF above THEN 2 ELSE 0)
  BY DEF IdOf
<1>2. n \in 0..3 /\ (n % 2 = 1 <=> odd) /\ ((n \div 2) % 2 = 1 <=> above)
  BY <1>1
<1>3. Meant(n).odd = (n % 2 = 1) /\ Meant(n).above = ((n \div 2) % 2 = 1)
  BY DEF Meant
<1> HIDE DEF n
<1>4. (n % 2 = 1) = odd /\ ((n \div 2) % 2 = 1) = above
  BY <1>2
<1> QED
  BY <1>2, <1>3, <1>4 DEF n

(* A signature's two verdicts under a key recovered from it, *)
LEMMA RecoveredForms ==
    ASSUME NEW sg \in Sigs, NEW id, NEW z \in Scalars, NEW q \in Recovered(sg, id, z)
    PROVE  q \in Keys /\ Verify(Normalized(sg), z, q) /\ (Verify(sg, z, q) <=> ~High(sg.s))
<1>1. PICK R \in Keys : sg.r # 0 /\ sg.s # 0 /\ XMod[R] = sg.r /\ q = KeyFor(sg, z, R) /\ q # 0
  BY DEF Recovered
<1>2. sg.r \in Keys /\ sg.s \in Scalars /\ R \in Scalars /\ R # 0
  BY <1>1, KeyScalars DEF Sigs
<1>3. q \in Scalars /\ Relates(sg.r, sg.s, z, q, R)
  BY <1>1, <1>2, KeyRelated DEF KeyFor
<1> QED
  BY <1>1, <1>2, <1>3, RelatedVerifies, KeyScalars

(* and what the signer's own id recovers: of the points of r's x the one that  *)
(* signing and normalizing ended with, so of the keys the signer's.            *)
LEMMA SignerRecovered ==
    ASSUME NEW z \in Scalars, NEW d \in Keys, NEW k \in Keys, Signs(z, d, k)
    PROVE  Recovered(SignWith(z, d, k), Meant(SignedId(z, d, k)), z) = {d}
<1> DEFINE r == XMod[k]
           s == RawS(z, d, k)
           R == IF High(s) THEN Negated(k) ELSE k
           t == IF High(s) THEN Negated(s) ELSE s
           id == Meant(SignedId(z, d, k))
<1>1. r \in Keys /\ s # 0 /\ d \in Scalars /\ k \in Scalars
  BY EcdsaAssumption, KeyScalars DEF Signs
<1>2. s \in Scalars /\ Relates(r, s, z, d, k)
  BY <1>1, SignedRelated, KeyScalars DEF RawS
<1>3. SignWith(z, d, k) = [r |-> r, s |-> t]
  BY DEF SignWith, Normalized
<1>4. id.above = Above[k] /\ id.odd = (Even(k) = High(s))
  <2>1. Above[k] \in BOOLEAN /\ (Even(k) = High(s)) \in BOOLEAN
    BY EcdsaAssumption
  <2> QED
    BY <2>1, IdMeant DEF SignedId, RecidOf
<1> HIDE DEF r, s, id
<1>5. t \in Scalars /\ t # 0 /\ R \in Keys /\ R \in Scalars /\ Relates(r, t, z, d, R)
  <2>1. CASE High(s)
    <3>1. Negated(s) \in Keys
      BY <1>2, <2>1, LowOrHigh
    <3> QED
      BY <1>1, <1>2, <2>1, <3>1, KeyScalars, NegatedKey, RelatedNegated
  <2>2. CASE ~High(s)
    BY <1>1, <1>2, <2>2
  <2> QED
    BY <2>1, <2>2
<1>6. Negated(k) \in Keys /\ XMod[R] = r /\ Above[R] = Above[k]
  <2>1. Negated(k) \in Keys
    BY NegatedKey
  <2>2. XMod[Negated(k)] = XMod[k] /\ Above[Negated(k)] = Above[k]
    BY <2>1, EcdsaAssumption
  <2> QED
    BY <2>1, <2>2 DEF r
<1>7. Even(k) # Even(Negated(k))
  <2>1. Even(k) => ~Even(Negated(k))
    BY EvenYEven
  <2>2. ~Even(k) => Even(Negated(k))
    BY EvenYEven DEF EvenY, EvenKeys
  <2> QED
    BY <2>1, <2>2
<1>8. ASSUME NEW p \in Keys
      PROVE  XMod[p] = r /\ Above[p] = id.above /\ Even(p) = ~id.odd <=> p = R
  <2> DEFINE e == Even(p)
             a == Even(k)
             b == Even(Negated(k))
             h == High(s)
  <2>a. /\ e \in BOOLEAN /\ a \in BOOLEAN /\ b \in BOOLEAN /\ h \in BOOLEAN /\ b = ~a
        /\ id.odd = (a = h) /\ R = IF h THEN Negated(k) ELSE k
        /\ (p = k => e = a) /\ (p = Negated(k) => e = b)
    BY <1>4, <1>7 DEF Even, High
  <2> HIDE DEF a, b, e, h, R
  <2>1. p = R => e = ~id.odd
    BY <2>a
  <2>2. XMod[p] = r /\ Above[p] = Above[k] => p \in {k, Negated(k)}
    BY EcdsaAssumption DEF r
  <2>3. p \in {k, Negated(k)} /\ e = ~id.odd => p = R
    BY <2>a
  <2> QED
    BY <1>4, <1>6, <2>1, <2>2, <2>3 DEF e
<1>9. KeyFor([r |-> r, s |-> t], z, R) = d
  BY <1>1, <1>5, RelatedKey DEF KeyFor
<1>10. d # 0 /\ r # 0
  BY <1>1, KeyScalars
<1> HIDE DEF R, t
<1>11. {p \in Keys : r # 0 /\ t # 0 /\ XMod[p] = r /\ Above[p] = id.above /\ Even(p) = ~id.odd} = {R}
  BY <1>5, <1>8, <1>10
<1>12. Recovered([r |-> r, s |-> t], id, z) = {d}
  BY <1>9, <1>10, <1>11 DEF Recovered
<1> QED
  BY <1>3, <1>12 DEF id

LEMMA RecInitInv == RecInit => RecIInv
<1> SUFFICES ASSUME RecInit PROVE RecIInv
  OBVIOUS
<1>1. 0 \in Scalars /\ ZeroSig \in SigBytes
  BY KeyScalars, SigsFacts
<1>2. RecTypeOK
  <2>1. /\ recPc = "start" /\ recMsg \in Scalars /\ recSigner = 0 /\ recSig = ZeroSig /\ recId = 0
        /\ recMutated = FALSE /\ recKey = 0 /\ recChecks = {}
    BY DEF RecInit
  <2>2. recSigner \in Scalars /\ recSig \in SigBytes /\ recKey \in Scalars
    BY <1>1, <2>1
  <2>3. recId \in 0..3
    BY <2>1
  <2>4. recMutated \in BOOLEAN /\ recChecks \subseteq {"sig", "low"}
    BY <2>1
  <2> QED
    BY <2>1, <2>2, <2>3, <2>4 DEF RecTypeOK
<1>3. RecStages /\ RecoveredVerifies
  BY SigsFacts DEF RecInit, RecStages, RecoveredVerifies
<1> QED
  BY <1>2, <1>3 DEF RecIInv

(* The steps before recovery: nothing is recovered yet. *)
LEMMA RecEarly ==
    ASSUME RecStages, recPc # "done", recPc' # "done", UNCHANGED <<recKey, recChecks>>
    PROVE  RecoveredVerifies'
BY DEF RecStages, RecoveredVerifies

LEMMA RecSignStep == ASSUME RecIInv, RecSign PROVE RecIInv'
<1>1. PICK d \in Keys, k \in Keys :
        /\ Signs(recMsg, d, k)
        /\ recSigner' = d /\ recSig' = SignWith(recMsg, d, k) /\ recId' = SignedId(recMsg, d, k)
  BY DEF RecSign
<1>2. /\ recPc = "start" /\ recPc' = "mutate" /\ UNCHANGED <<recMsg, recMutated, recKey, recChecks>>
      /\ RecTypeOK /\ RecStages /\ d \in Scalars /\ d # 0
  BY KeyScalars DEF RecSign, RecIInv
<1>3. RecoveredVerifies'
  BY <1>2, RecEarly
<1>4. recMsg \in Scalars
  BY <1>2 DEF RecStages
<1>5. recSig' \in Sigs /\ recSig' \in SigBytes
  BY <1>1, <1>4, SignsVerifies, SigsFacts
<1>6. recId' \in 0..3
  <2>1. Above[k] \in BOOLEAN /\ (Even(k) = High(RawS(recMsg, d, k))) \in BOOLEAN
    BY EcdsaAssumption
  <2> QED
    BY <1>1, <2>1, IdMeant DEF SignedId, RecidOf
<1>7. RecTypeOK'
  BY <1>1, <1>2, <1>5, <1>6 DEF RecTypeOK
<1>8. RecSigned'
  BY <1>1, <1>2 DEF RecSigned
<1>9. RecStages'
  BY <1>1, <1>2, <1>4, <1>5, <1>8 DEF RecStages
<1> QED
  BY <1>3, <1>7, <1>9 DEF RecIInv

LEMMA RecMutationSteps ==
    ASSUME RecIInv,
           RecSignFails \/ RecRaw \/ RecMutateSig \/ RecMutateMsg \/ RecMutateId \/ RecMutationsEnd
    PROVE  RecIInv'
<1>1. /\ recPc \in {"start", "mutate"} /\ recPc' \in {"mutate", "parse"} /\ RecTypeOK /\ RecStages
      /\ UNCHANGED <<recSigner, recKey, recChecks>>
  BY DEF RecIInv, RecSignFails, RecRaw, RecMutateSig, RecMutateMsg, RecMutateId, RecMutationsEnd
<1>2. RecoveredVerifies'
  BY <1>1, RecEarly
<1>3. recId' \in 0..3
  <2>1. recId \in 0..3 /\ recId \div 4 = 0
    BY <1>1 DEF RecTypeOK
  <2> QED
    BY <2>1 DEF RecSignFails, RecRaw, IdRead, RecMutateSig, RecMutateMsg, RecMutateId, RecMutationsEnd
<1>4. RecTypeOK'
  BY <1>1, <1>3
  DEF RecTypeOK, RecSignFails, RecRaw, RecMutateSig, RecMutateMsg, RecMutateId, RecMutationsEnd
<1>5. RecStages'
  <2>1. CASE RecSignFails \/ RecRaw
    BY <1>1, <2>1 DEF RecStages, RecSignFails, RecRaw
  <2>2. CASE RecMutateSig \/ RecMutateMsg \/ RecMutateId
    BY <1>1, <2>2 DEF RecStages, RecMutateSig, RecMutateMsg, RecMutateId
  <2>3. CASE RecMutationsEnd
    BY <1>1, <2>3 DEF RecStages, RecMutationsEnd, RecSigned
  <2> QED
    BY <2>1, <2>2, <2>3
<1> QED
  BY <1>2, <1>4, <1>5 DEF RecIInv

(* What was signed parses, so parsing leaves it as it was. *)
LEMMA RecParseStep == ASSUME RecIInv, RecParse PROVE RecIInv'
<1>1. /\ recPc = "parse" /\ RecTypeOK /\ RecStages /\ recKey = 0 /\ recChecks = {}
      /\ UNCHANGED <<recMsg, recSigner, recId, recMutated, recKey, recChecks>>
  BY DEF RecParse, RecIInv, RecStages
<1>2. recSigner # 0 /\ ~recMutated => recSig \in Sigs /\ recSig # FuzzedSig
  BY <1>1, SignsVerifies, SigsFacts DEF RecStages, RecSigned
<1>3. /\ recPc' \in {"recover", "done"}
      /\ recSig' \in Sigs \cup {FuzzedSig} /\ recSig' \in SigBytes \cup {FuzzedSig}
      /\ recPc' = "recover" => recSig' \in Sigs
      /\ recSig # FuzzedSig => recSig' = recSig /\ recPc' = "recover"
  BY <1>1, SigsFacts DEF RecParse, RecStages
<1>4. RecTypeOK'
  BY <1>1, <1>3 DEF RecTypeOK
<1>5. RecStages'
  BY <1>1, <1>2, <1>3 DEF RecStages, RecSigned
<1>6. RecoveredVerifies'
  BY <1>1, <1>2, <1>3 DEF RecoveredVerifies
<1> QED
  BY <1>4, <1>5, <1>6 DEF RecIInv

LEMMA RecoverStep == ASSUME RecIInv, Recover PROVE RecIInv'
<1>1. /\ recPc = "recover" /\ RecTypeOK /\ RecStages /\ recKey = 0 /\ recChecks = {}
      /\ recPc' = "done" /\ recSig \in Sigs /\ UNCHANGED <<recSigner, recSig, recId, recMutated>>
  BY DEF Recover, RecIInv, RecStages
<1>2. PICK z \in (IF recMsg = Fuzzed THEN Scalars ELSE {recMsg}) :
        /\ recMsg' = z
        /\ IF Recovered(recSig, Meant(recId), z) = {} THEN UNCHANGED <<recKey, recChecks>>
           ELSE \E q \in Recovered(recSig, Meant(recId), z) :
                  /\ recKey' = q
                  /\ recChecks' = {f \in {"sig"} : Verify(recSig, z, q)}
                                  \cup {f \in {"low"} : Verify(Normalized(recSig), z, q)}
  BY DEF Recover, Converted
<1>3. z \in Scalars /\ (recMsg \in Scalars => z = recMsg)
  BY <1>1, OrderPrime DEF RecTypeOK, Fuzzed, Scalars
<1>4. /\ recKey' \in Scalars /\ recChecks' \subseteq {"sig", "low"}
      /\ recKey' # 0 => "low" \in recChecks' /\ ("sig" \in recChecks' <=> ~High(recSig.s))
  <2>1. CASE UNCHANGED <<recKey, recChecks>>
    BY <1>1, <2>1, KeyScalars
  <2>2. ASSUME NEW q \in Recovered(recSig, Meant(recId), z), recKey' = q,
               recChecks' = {f \in {"sig"} : Verify(recSig, z, q)}
                            \cup {f \in {"low"} : Verify(Normalized(recSig), z, q)}
        PROVE  /\ recKey' \in Scalars /\ recChecks' \subseteq {"sig", "low"}
               /\ "low" \in recChecks' /\ ("sig" \in recChecks' <=> ~High(recSig.s))
    <3>1. q \in Keys /\ Verify(Normalized(recSig), z, q) /\ (Verify(recSig, z, q) <=> ~High(recSig.s))
      BY <1>1, <1>3, RecoveredForms
    <3> QED
      BY <2>2, <3>1, KeyScalars
  <2> QED
    BY <1>2, <2>1, <2>2
<1>5. RecTypeOK'
  BY <1>1, <1>2, <1>3, <1>4 DEF RecTypeOK
<1>6. RecStages'
  BY <1>1, <1>2, <1>3 DEF RecStages, RecSigned
<1>7. recSigner # 0 /\ ~recMutated => recKey' = recSigner
  <2>1. SUFFICES ASSUME recSigner # 0, ~recMutated PROVE recKey' = recSigner
    OBVIOUS
  <2>2. PICK k \in Keys :
          /\ Signs(recMsg, recSigner, k)
          /\ recSig = SignWith(recMsg, recSigner, k) /\ recId = SignedId(recMsg, recSigner, k)
    BY <1>1, <2>1 DEF RecStages, RecSigned
  <2>3. recMsg \in Scalars /\ recSigner \in Keys
    BY <1>1, <2>1 DEF RecStages
  <2>4. Recovered(recSig, Meant(recId), z) = {recSigner}
    BY <1>3, <2>2, <2>3, SignerRecovered
  <2> QED
    BY <1>2, <2>4
<1>8. RecoveredVerifies'
  BY <1>1, <1>4, <1>7 DEF RecoveredVerifies
<1> QED
  BY <1>5, <1>6, <1>8 DEF RecIInv

LEMMA RecStep == RecIInv /\ [RecNext]_recVars => RecIInv'
<1> SUFFICES ASSUME RecIInv, [RecNext]_recVars PROVE RecIInv'
  OBVIOUS
<1>1. CASE UNCHANGED recVars
  BY <1>1 DEF recVars, RecIInv, RecTypeOK, RecStages, RecSigned, RecoveredVerifies
<1> QED
  BY <1>1, RecSignStep, RecMutationSteps, RecParseStep, RecoverStep DEF RecNext

LEMMA RecInvAlways == RecSpec => []RecIInv
BY RecInitInv, RecStep, PTL DEF RecSpec

(* The recovery id stays one the library takes. *)
THEOREM RecTypes == RecSpec => []RecTypeOK
<1>1. RecIInv => RecTypeOK
  BY DEF RecIInv
<1> QED
  BY <1>1, RecInvAlways, PTL

(* A recovered key is one the normalized signature verifies under, and of an   *)
(* unmutated signature the signer's, for every prime order and every x         *)
(* coordinate of its points.                                                   *)
THEOREM RecoveredVerifiesAlways == RecSpec => []RecoveredVerifies
<1>1. RecIInv => RecoveredVerifies
  BY DEF RecIInv
<1> QED
  BY <1>1, RecInvAlways, PTL

-----------------------------------------------------------------------------
(* SchnorrTarget.  How each signature is made: with ed the challenge times the *)
(* even key and k an even nonce, s is k + ed, ed - k (which 2ed - s makes of   *)
(* it) or ed, so that s*G - e*P is k, -k or infinity.                          *)

SchEd == Product(schE, EvenY(schKey))

SchMade ==
    /\ schForm = "signed" => \E k \in EvenKeys : schSig = [r |-> k, s |-> Sum(k, SchEd)]
    /\ schForm = "odd" => \E k \in EvenKeys : schSig = [r |-> k, s |-> Sum(SchEd, Negated(k))]
    /\ schForm = "infinity" => schSig = [r |-> 0, s |-> SchEd]

(* How verifying them ends. *)
SchEndOf == [signed |-> "valid", odd |-> "odd", infinity |-> "infinity"]

SchStages ==
    /\ schPc = "start" => schForm = "raw"
    /\ schPc = "sign" => schKey \in Keys /\ schForm = "raw" /\ schPk = EvenY(schKey)
    /\ schPc = "turn" => schForm = "signed"
    /\ schPc = "cancel" => schForm # "raw"
    /\ schPc \in {"start", "sign", "turn", "cancel"} => schMutated = {}
    /\ schPc \in {"start", "sign", "turn", "cancel", "mutate", "parse"} => schVerdict = "none"
    /\ schPc \in {"start", "sign", "turn", "cancel", "mutate", "parse", "tweak"} => schTweak = NoTweak
    /\ schCancel => schForm # "raw"
    /\ schForm # "raw" => schKey \in Keys /\ ("pk" \notin schMutated => schPk = EvenY(schKey))
    /\ schForm # "raw" /\ "sig" \notin schMutated => SchMade
    /\ schForm # "raw" /\ schMutated = {} /\ schVerdict # "none" => schVerdict = SchEndOf[schForm]

SchIInv == SchTypeOK /\ SchStages /\ CancelTweakFails /\ CommitmentChecked /\ CustomVerifies

-----------------------------------------------------------------------------
(* The group. *)

(* Verifying each form under the key it was made with, where a is ed. *)
LEMMA FormsVerify ==
    ASSUME NEW e \in Scalars, NEW p \in Scalars, NEW k \in EvenKeys
    PROVE  /\ SchEnd([r |-> k, s |-> Sum(k, Product(e, p))], e, p) = "valid"
           /\ SchEnd([r |-> k, s |-> Sum(Product(e, p), Negated(k))], e, p) = "odd"
           /\ SchEnd([r |-> 0, s |-> Product(e, p)], e, p) = "infinity"
<1> DEFINE a == Product(e, p)
<1>1. a \in Scalars /\ Negated(a) \in Scalars /\ Sum(a, Negated(a)) = 0
  BY ProductOps, ScalarOps
<1>2. k \in Keys /\ k \in Scalars /\ k # 0 /\ Negated(k) \in Scalars /\ EvenY(k) = k
      /\ EvenY(Negated(k)) = k /\ Even(k) /\ ~Even(Negated(k)) /\ Negated(k) # 0
  <2>1. k \in Keys /\ Even(k)
    BY DEF EvenKeys
  <2>2. Negated(k) \in Keys /\ 0 \notin Keys
    BY <2>1, NegatedKey DEF Keys
  <2>3. ~Even(Negated(k)) /\ Keys \subseteq Scalars
    BY <2>1, EvenYEven, ScalarOps, OrderAssumption DEF Keys, Scalars
  <2> QED
    BY <2>1, <2>2, <2>3, EvenYNegated
<1>3. Order \notin Scalars
  BY OrderAssumption DEF Scalars
<1> HIDE DEF a
<1>4. Sum(Sum(k, a), Negated(a)) = k
  BY <1>1, <1>2, SumAssociates, ScalarOps
<1>5. Sum(Sum(a, Negated(k)), Negated(a)) = Negated(k)
  <2>1. Sum(a, Negated(k)) = Sum(Negated(k), a)
    BY <1>1, <1>2, ScalarOps
  <2> QED
    BY <1>1, <1>2, <2>1, SumAssociates, ScalarOps
<1>6. Sum(k, a) # Order /\ Sum(a, Negated(k)) # Order /\ a # Order
  BY <1>1, <1>2, <1>3, ScalarOps
<1>7. SchEnd([r |-> k, s |-> Sum(k, a)], e, p) = "valid"
  BY <1>2, <1>4, <1>6 DEF SchEnd, a
<1>8. SchEnd([r |-> k, s |-> Sum(a, Negated(k))], e, p) = "odd"
  BY <1>2, <1>5, <1>6 DEF SchEnd, a
<1>9. SchEnd([r |-> 0, s |-> a], e, p) = "infinity"
  BY <1>1, <1>6 DEF SchEnd, a
<1> QED
  BY <1>7, <1>8, <1>9 DEF a

(* 2ed - s, where s is k + ed, is ed - k. *)
LEMMA OddSIs ==
    ASSUME NEW a \in Scalars, NEW k \in Scalars
    PROVE  SchOddS(a, Sum(k, a)) = Sum(a, Negated(k))
<1>1. Negated(a) \in Scalars /\ Negated(k) \in Scalars /\ Sum(a, a) \in Scalars
  BY ScalarOps
<1>2. Negated(Sum(k, a)) = Sum(Negated(a), Negated(k))
  BY <1>1, NegatedSum, ScalarOps
<1>3. Sum(Sum(a, a), Negated(a)) = a
  BY <1>1, SumAssociates, ScalarOps
<1>4. Sum(Sum(a, a), Sum(Negated(a), Negated(k))) = Sum(Sum(Sum(a, a), Negated(a)), Negated(k))
  BY <1>1, SumAssociates
<1> QED
  BY <1>2, <1>3, <1>4 DEF SchOddS

(* schnorrsig_even_key is the x-only key's discrete logarithm. *)
LEMMA EvenKeyIs == SchEvenKey = EvenY(schKey)
BY DEF SchEvenKey, EvenY

(* What a signer's key and nonce make verifies under the x-only key. *)
LEMMA SignedIs ==
    ASSUME NEW d \in Keys, NEW e \in Scalars, NEW k \in Keys
    PROVE  /\ EvenY(d) \in Scalars /\ EvenY(k) \in EvenKeys
           /\ SchSigned(d, e, k) = [r |-> EvenY(k), s |-> Sum(EvenY(k), Product(e, EvenY(d)))]
           /\ SchEnd(SchSigned(d, e, k), e, EvenY(d)) = "valid"
<1>1. EvenY(d) \in Scalars /\ EvenY(k) \in EvenKeys
  BY EvenYKey, EvenYEven, ScalarOps, OrderAssumption DEF Keys, Scalars
<1> QED
  BY <1>1, FormsVerify DEF SchSigned

(* Verification ends in one of its ways. *)
LEMMA SchEndTyped == ASSUME NEW sg, NEW e, NEW p PROVE SchEnd(sg, e, p) \in SchEnds
BY DEF SchEnd, SchEnds

(* The values that signatures and keys are made of have their types. *)
LEMMA SigTyped ==
    ASSUME NEW r \in EvenKeys \cup {0}, NEW s \in Scalars
    PROVE  [r |-> r, s |-> s] \in [r : SchXOnly, s : Bytes] /\ [r |-> r, s |-> s] # SchAnySig
BY OrderAssumption DEF EvenKeys, SchXOnly, Scalars, Bytes, SchAnySig, SchFuzzed, Keys

(* A made signature is one. *)
LEMMA MadeTyped ==
    ASSUME SchTypeOK, schForm # "raw", schKey \in Keys, SchMade
    PROVE  /\ schSig # SchAnySig /\ SchEd \in Scalars /\ EvenY(schKey) \in EvenKeys
           /\ SchEnd(schSig, schE, EvenY(schKey)) = SchEndOf[schForm]
<1>1. EvenY(schKey) \in EvenKeys /\ EvenY(schKey) \in Scalars /\ schE \in Scalars
  BY SignedIs, EvenYEven DEF SchTypeOK
<1>2. SchEd \in Scalars
  BY <1>1, ProductOps DEF SchEd
<1>3. \A k \in EvenKeys : k \in Scalars /\ Negated(k) \in Scalars
  BY EvenYNegated, ScalarOps
<1>4. CASE schForm = "signed"
  <2>1. PICK k \in EvenKeys : schSig = [r |-> k, s |-> Sum(k, SchEd)]
    BY <1>4 DEF SchMade
  <2>2. Sum(k, SchEd) \in Scalars
    BY <1>2, <1>3, ScalarOps
  <2>3. schSig # SchAnySig
    BY <2>1, <2>2, SigTyped
  <2>4. SchEnd(schSig, schE, EvenY(schKey)) = "valid"
    BY <1>1, <2>1, FormsVerify DEF SchEd
  <2> QED
    BY <1>1, <1>2, <1>4, <2>3, <2>4 DEF SchEndOf
<1>5. CASE schForm = "odd"
  <2>1. PICK k \in EvenKeys : schSig = [r |-> k, s |-> Sum(SchEd, Negated(k))]
    BY <1>5 DEF SchMade
  <2>2. Sum(SchEd, Negated(k)) \in Scalars
    BY <1>2, <1>3, ScalarOps
  <2>3. schSig # SchAnySig
    BY <2>1, <2>2, SigTyped
  <2>4. SchEnd(schSig, schE, EvenY(schKey)) = "odd"
    BY <1>1, <2>1, FormsVerify DEF SchEd
  <2> QED
    BY <1>1, <1>2, <1>5, <2>3, <2>4 DEF SchEndOf
<1>6. CASE schForm = "infinity"
  <2>1. schSig = [r |-> 0, s |-> SchEd]
    BY <1>6 DEF SchMade
  <2> QED
    BY <1>1, <1>2, <1>6, <2>1, FormsVerify, SigTyped DEF SchEndOf, SchEd
<1> QED
  BY <1>4, <1>5, <1>6 DEF SchTypeOK

LEMMA SchInitIInv == SchInit => SchIInv
<1>1. SchZero \in [r : SchXOnly, s : Bytes] /\ 0 \in SchXOnly /\ 0 \in Scalars
  BY OrderAssumption DEF SchZero, SchXOnly, Bytes, Scalars
<1> SUFFICES ASSUME SchInit PROVE SchIInv
  OBVIOUS
<1>2. SchTypeOK
  BY <1>1 DEF SchInit, SchTypeOK, SchEnds, NoTweak
<1>3. SchStages
  BY DEF SchInit, SchStages
<1> QED
  BY <1>2, <1>3 DEF SchInit, SchIInv, NoTweak, CancelTweakFails, CommitmentChecked, CustomVerifies

(* The properties of the checks, which only the last three steps disturb. *)
SchChecksHold == CancelTweakFails /\ CommitmentChecked /\ CustomVerifies

(* The steps before them keep what the checks recorded, *)
LEMMA ChecksKept ==
    ASSUME SchIInv, UNCHANGED schChecks, schPc # "done",
           schTweak = NoTweak \/ UNCHANGED <<schCancel, schMutated>>
    PROVE  SchChecksHold'
BY DEF SchIInv, schChecks, SchChecksHold, CancelTweakFails, CommitmentChecked, CustomVerifies, NoTweak

(* and a signature that is left alone stays what it was. *)
LEMMA MadeKept ==
    ASSUME SchMade, UNCHANGED <<schKey, schE, schSig, schForm>> PROVE SchMade'
BY DEF SchMade, SchEd

(* The signer's key and nonce make a signature. *)
LEMMA SchSignStep == ASSUME SchIInv, SchSign PROVE SchIInv'
<1>1. schKey \in Keys /\ schPk = EvenY(schKey) /\ schForm = "raw"
  BY DEF SchIInv, SchSign, SchStages
<1>2. PICK k \in Keys, e \in Keys : schE' = e /\ schSig' = SchSigned(schKey, e, k)
  BY DEF SchSign
<1>3. e \in Scalars
  BY ScalarOps, OrderAssumption DEF Keys, Scalars
<1>4. EvenY(schKey) \in Scalars /\ EvenY(k) \in EvenKeys /\ EvenY(k) \in Scalars
      /\ schSig' = [r |-> EvenY(k), s |-> Sum(EvenY(k), Product(e, EvenY(schKey)))]
  BY <1>1, <1>2, <1>3, SignedIs, EvenYNegated
<1>5. schSig' \in [r : SchXOnly, s : Bytes]
  BY <1>3, <1>4, ProductOps, ScalarOps, SigTyped
<1>6. SchMade'
  BY <1>2, <1>4 DEF SchSign, SchMade, SchEd
<1>7. SchChecksHold'
  BY ChecksKept DEF SchSign, SchIInv, SchStages
<1> QED
  BY <1>1, <1>2, <1>3, <1>5, <1>6, <1>7
  DEF SchSign, SchIInv, SchTypeOK, SchStages, SchChecksHold, schChecks

(* schnorrsig_odd_r turns it, or leaves it. *)
LEMMA SchOddStep == ASSUME SchIInv, SchOdd PROVE SchIInv'
<1>1. schForm = "signed" /\ schKey \in Keys /\ schMutated = {} /\ SchMade
  BY DEF SchIInv, SchOdd, SchStages
<1>2. Product(schE, SchEvenKey) = SchEd /\ SchEd \in Scalars
  BY <1>1, EvenKeyIs, MadeTyped DEF SchEd, SchIInv
<1>3. PICK k \in EvenKeys : schSig = [r |-> k, s |-> Sum(k, SchEd)]
  BY <1>1 DEF SchMade
<1>4. k \in Scalars /\ Negated(k) \in Scalars
  BY EvenYNegated, ScalarOps
<1>5. SchChecksHold'
  BY ChecksKept DEF SchOdd, SchIInv, SchStages
<1>6. CASE SchOddOk(SchEd, schSig.s)
  <2>1. schSig' = [r |-> k, s |-> Sum(SchEd, Negated(k))] /\ schForm' = "odd"
    BY <1>2, <1>3, <1>4, <1>6, OddSIs DEF SchOdd
  <2>2. SchMade'
    BY <2>1 DEF SchOdd, SchMade, SchEd
  <2>3. schSig' \in [r : SchXOnly, s : Bytes]
    BY <1>2, <1>4, <2>1, SigTyped, ScalarOps
  <2> QED
    BY <1>1, <1>5, <2>1, <2>2, <2>3
    DEF SchOdd, SchIInv, SchTypeOK, SchStages, SchChecksHold, schChecks
<1>7. CASE ~SchOddOk(SchEd, schSig.s)
  <2>1. UNCHANGED <<schSig, schForm>>
    BY <1>2, <1>7 DEF SchOdd, SchNotOdd
  <2>2. SchMade'
    BY <1>1, <2>1, MadeKept DEF SchOdd
  <2> QED
    BY <1>1, <1>5, <2>1, <2>2
    DEF SchOdd, SchIInv, SchTypeOK, SchStages, SchChecksHold, schChecks
<1> QED
  BY <1>6, <1>7

(* schnorrsig_infinity_r makes another, with a challenge of its own. *)
LEMMA SchInfinityStep == ASSUME SchIInv, SchInfinity PROVE SchIInv'
<1>1. schForm = "signed" /\ schKey \in Keys /\ schMutated = {} /\ SchMade
  BY DEF SchIInv, SchInfinity, SchStages
<1>2. PICK e \in Keys : schE' = e /\ schSig' = [r |-> 0, s |-> Product(e, EvenY(schKey))]
  BY EvenKeyIs DEF SchInfinity, SchInfinityE
<1>3. e \in Scalars /\ EvenY(schKey) \in Scalars
  BY <1>1, EvenYKey, ScalarOps, OrderAssumption DEF Keys, Scalars
<1>4. schSig' \in [r : SchXOnly, s : Bytes]
  BY <1>2, <1>3, ProductOps, SigTyped
<1>5. SchMade'
  BY <1>2 DEF SchInfinity, SchMade, SchEd
<1>6. SchChecksHold'
  BY ChecksKept DEF SchInfinity, SchIInv, SchStages
<1> QED
  BY <1>1, <1>2, <1>3, <1>4, <1>5, <1>6
  DEF SchInfinity, SchIInv, SchTypeOK, SchStages, SchChecksHold, schChecks

(* Verification ends as the form says, if nothing was mutated. *)
LEMMA SchParseStep == ASSUME SchIInv, SchParse PROVE SchIInv'
<1>1. /\ schVerdict = "none" /\ schTweak = NoTweak
      /\ schForm # "raw" => schKey \in Keys /\ ("pk" \notin schMutated => schPk = EvenY(schKey))
      /\ schForm # "raw" /\ "sig" \notin schMutated => SchMade
  BY DEF SchIInv, SchParse, SchStages
<1>2. schPk' \in SchXOnly /\ (schPk # SchFuzzed => schPk' = schPk)
  BY DEF SchParse, SchIInv, SchTypeOK
<1>3. schVerdict' \in SchEnds /\ schPc' \in {"tweak", "custom"}
  BY SchEndTyped DEF SchParse, SchEnds
<1>4. ASSUME schForm # "raw", "pk" \notin schMutated
      PROVE  schPk' = schPk /\ schPk' # 0
  <2>1. schPk = EvenY(schKey) /\ EvenY(schKey) \in Keys
    BY <1>1, <1>4, EvenYKey
  <2> QED
    BY <1>2, <2>1 DEF SchFuzzed, Keys
<1>5. ASSUME schForm # "raw", schMutated = {}
      PROVE  schVerdict' = SchEndOf[schForm]
  <2>1. SchMade /\ schKey \in Keys /\ schPk = EvenY(schKey)
    BY <1>1, <1>5
  <2>2. schSig # SchAnySig /\ SchEnd(schSig, schE, EvenY(schKey)) = SchEndOf[schForm]
    BY <1>5, <2>1, MadeTyped DEF SchIInv
  <2> QED
    BY <1>4, <1>5, <2>1, <2>2 DEF SchParse
<1>6. schForm # "raw" /\ "sig" \notin schMutated => SchMade'
  BY <1>1, MadeKept DEF SchParse
<1>7. SchChecksHold'
  BY <1>1 DEF SchParse, SchChecksHold, SchIInv, CancelTweakFails, CommitmentChecked,
              CustomVerifies, NoTweak
<1> QED
  BY <1>1, <1>2, <1>3, <1>4, <1>5, <1>6, <1>7
  DEF SchParse, SchIInv, SchTypeOK, SchStages, SchChecksHold

(* The checks of the commitment find what was applied. *)
LEMMA SchTweakStep == ASSUME SchIInv, SchTweakAdd PROVE SchIInv'
<1>1. PICK t \in (IF schCancel THEN {Negated(SchEvenKey)} ELSE Bytes) :
        IF ~AddOk(schPk, t)
        THEN schTweak' = [NoTweak EXCEPT !.first = SchCommits(schPk, FALSE, schPk, t)]
        ELSE \E x \in SchXOnly, odd \in BOOLEAN :
                schTweak' =
                    [ok |-> TRUE,
                     first |-> SchCommits(EvenY(Sum(schPk, t)), SchParity(Sum(schPk, t)), schPk, t),
                     again |-> SchCommits(x, odd, schPk, t),
                     same  |-> x = EvenY(Sum(schPk, t)) /\ odd = SchParity(Sum(schPk, t))]
  BY DEF SchTweakAdd
<1>2. /\ schTweak' \in [ok : BOOLEAN, first : BOOLEAN, again : BOOLEAN, same : BOOLEAN]
      /\ CommitmentChecked' /\ (~AddOk(schPk, t) => ~schTweak'.ok)
  <2>1. CASE ~AddOk(schPk, t)
    <3>1. SchCommits(schPk, FALSE, schPk, t) = FALSE
      BY <2>1 DEF SchCommits
    <3>2. schTweak' = NoTweak
      BY <1>1, <2>1, <3>1 DEF NoTweak
    <3> QED
      BY <3>2 DEF NoTweak, CommitmentChecked
  <2>2. CASE AddOk(schPk, t)
    <3> DEFINE q == Sum(schPk, t)
    <3>1. PICK x \in SchXOnly, odd \in BOOLEAN :
            schTweak' = [ok |-> TRUE,
                         first |-> SchCommits(EvenY(q), SchParity(q), schPk, t),
                         again |-> SchCommits(x, odd, schPk, t),
                         same  |-> x = EvenY(q) /\ odd = SchParity(q)]
      BY <1>1, <2>2
    <3>2. Even(q) \in BOOLEAN /\ AddOk(schPk, t) = TRUE
      BY <2>2 DEF Even, AddOk
    <3>3. SchCommits(EvenY(q), SchParity(q), schPk, t) = TRUE
      BY <3>2 DEF SchCommits, SchParity
    <3>4. SchCommits(x, odd, schPk, t) = (x = EvenY(q) /\ odd = SchParity(q))
      <4>1. (Even(q) = ~odd) = (odd = ~Even(q))
        BY <3>2
      <4> QED
        BY <3>2, <4>1 DEF SchCommits, SchParity
    <3> DEFINE same == x = EvenY(q) /\ odd = SchParity(q)
    <3>5. same \in BOOLEAN
      OBVIOUS
    <3>6. schTweak' = [ok |-> TRUE, first |-> TRUE, again |-> same, same |-> same]
      BY <3>1, <3>3, <3>4
    <3> HIDE DEF same
    <3> QED
      BY <2>2, <3>5, <3>6 DEF CommitmentChecked
  <2> QED
    BY <2>1, <2>2
<1>3. CancelTweakFails'
  <2> SUFFICES ASSUME schCancel, "pk" \notin schMutated PROVE ~AddOk(schPk, t)
    BY <1>2 DEF SchTweakAdd, CancelTweakFails
  <2>1. schPk = EvenY(schKey) /\ schKey \in Keys
    BY DEF SchIInv, SchStages
  <2>2. t = Negated(schPk) /\ schPk \in Scalars
    BY <1>1, <2>1, EvenKeyIs, EvenYKey, ScalarOps, OrderAssumption DEF Keys, Scalars
  <2> QED
    BY <2>2, ScalarOps DEF AddOk
<1>4. schForm # "raw" /\ "sig" \notin schMutated => SchMade'
  BY MadeKept DEF SchTweakAdd, SchIInv, SchStages
<1> QED
  BY <1>2, <1>3, <1>4
  DEF SchTweakAdd, SchIInv, SchTypeOK, SchStages, CustomVerifies

(* What sign_custom signs verifies. *)
LEMMA SchCustomStep == ASSUME SchIInv, SchSignCustom PROVE SchIInv'
<1>1. schCustom' \in {"none", "valid"}
  <2>1. CASE schKey = 0
    BY <2>1 DEF SchSignCustom, SchHasKeypair, SchIInv, CustomVerifies
  <2>2. CASE schKey # 0
    <3>1. schKey \in Keys
      BY <2>2, OrderAssumption DEF SchIInv, SchTypeOK, Keys, Scalars
    <3>2. \A k \in Keys, e \in Keys : SchEnd(SchSigned(schKey, e, k), e, SchCustomKey) = "valid"
      BY <3>1, SignedIs, OrderAssumption DEF SchCustomKey, Keys, Scalars
    <3> QED
      BY <2>2, <3>2 DEF SchSignCustom, SchHasKeypair, SchIInv, CustomVerifies
  <2> QED
    BY <2>1, <2>2
<1>2. schForm # "raw" /\ "sig" \notin schMutated => SchMade'
  BY MadeKept DEF SchSignCustom, SchIInv, SchStages
<1> QED
  BY <1>1, <1>2
  DEF SchSignCustom, SchIInv, SchTypeOK, SchStages, SchEnds, CancelTweakFails, CommitmentChecked,
      CustomVerifies

(* A step that leaves the signature and its key as they are. *)
LEMMA SchPlainStep ==
    ASSUME SchIInv, UNCHANGED <<schKey, schE, schSig, schPk, schForm, schMutated, schCancel, schChecks>>,
           \/ schPc = "start" /\ schPc' = "mutate"
           \/ schPc = "turn" /\ schPc' = "cancel"
           \/ schPc = "mutate" /\ schPc' = "parse"
           \/ schPc' = schPc
    PROVE  SchIInv'
<1>1. schForm # "raw" /\ "sig" \notin schMutated => SchMade'
  BY MadeKept DEF SchIInv, SchStages
<1> QED
  BY <1>1 DEF SchIInv, SchTypeOK, SchStages, schChecks, CancelTweakFails, CommitmentChecked,
              CustomVerifies

LEMMA SchStep == SchIInv /\ [SchNext]_schVars => SchIInv'
<1> SUFFICES ASSUME SchIInv, [SchNext]_schVars PROVE SchIInv'
  OBVIOUS
<1>1. CASE SchRaw
  <2>1. SchChecksHold'
    BY <1>1, ChecksKept DEF SchRaw, SchIInv, SchStages
  <2> QED
    BY <1>1, <2>1 DEF SchRaw, SchIInv, SchTypeOK, SchStages, SchChecksHold, schChecks
<1>2. CASE SchKeypair
  <2>1. schKey' \in Keys /\ schPk' = EvenY(schKey') /\ schPk' \in SchXOnly /\ schKey' \in Scalars
    BY <1>2, EvenYEven, OrderAssumption DEF SchKeypair, EvenKeys, SchXOnly, Keys, Scalars
  <2>2. SchChecksHold'
    BY <1>2, ChecksKept DEF SchKeypair, SchIInv, SchStages
  <2> QED
    BY <1>2, <2>1, <2>2 DEF SchKeypair, SchIInv, SchTypeOK, SchStages, SchChecksHold, schChecks
<1>3. CASE SchKeypairFails
  BY <1>3, SchPlainStep DEF SchKeypairFails
<1>4. CASE SchSign
  BY <1>4, SchSignStep
<1>5. CASE SchKept
  BY <1>5, SchPlainStep DEF SchKept
<1>6. CASE SchOdd
  BY <1>6, SchOddStep
<1>7. CASE SchInfinity
  BY <1>7, SchInfinityStep
<1>8. CASE SchMakeCancel
  <2>1. schForm # "raw" /\ "sig" \notin schMutated => SchMade'
    BY <1>8, MadeKept DEF SchMakeCancel, SchIInv, SchStages
  <2>2. SchChecksHold'
    BY <1>8, ChecksKept DEF SchMakeCancel, SchIInv, SchStages
  <2> QED
    BY <1>8, <2>1, <2>2 DEF SchMakeCancel, SchIInv, SchTypeOK, SchStages, SchChecksHold, schChecks
<1>9. CASE SchMutateSig
  <2>1. SchChecksHold'
    BY <1>9, ChecksKept DEF SchMutateSig, SchIInv, SchStages
  <2> QED
    BY <1>9, <2>1 DEF SchMutateSig, SchAimed, SchIInv, SchTypeOK, SchStages, SchChecksHold, schChecks
<1>10. CASE SchMutateMsg
  <2>1. SchChecksHold'
    BY <1>10, ChecksKept DEF SchMutateMsg, SchIInv, SchStages
  <2>2. schForm # "raw" /\ "sig" \notin schMutated => SchMade'
    BY <1>10, MadeKept DEF SchMutateMsg, SchIInv, SchStages
  <2> QED
    BY <1>10, <2>1, <2>2
    DEF SchMutateMsg, SchAimed, SchIInv, SchTypeOK, SchStages, SchChecksHold, schChecks
<1>11. CASE SchMutatePk
  <2>1. SchChecksHold'
    BY <1>11, ChecksKept DEF SchMutatePk, SchIInv, SchStages
  <2>2. schForm # "raw" /\ "sig" \notin schMutated => SchMade'
    BY <1>11, MadeKept DEF SchMutatePk, SchIInv, SchStages
  <2> QED
    BY <1>11, <2>1, <2>2
    DEF SchMutatePk, SchAimed, SchIInv, SchTypeOK, SchStages, SchChecksHold, schChecks
<1>12. CASE SchMutationsEnd
  BY <1>12, SchPlainStep DEF SchMutationsEnd
<1>13. CASE SchParse
  BY <1>13, SchParseStep
<1>14. CASE SchTweakAdd
  BY <1>14, SchTweakStep
<1>15. CASE SchSignCustom
  BY <1>15, SchCustomStep
<1>16. CASE UNCHANGED schVars
  BY <1>16, SchPlainStep DEF schVars, schChecks
<1> QED
  BY <1>1, <1>2, <1>3, <1>4, <1>5, <1>6, <1>7, <1>8, <1>9, <1>10, <1>11, <1>12, <1>13,
     <1>14, <1>15, <1>16 DEF SchNext

LEMMA SchAlways == SchSpec => []SchIInv
BY SchInitIInv, SchStep, PTL DEF SchSpec

(* In a group of any prime order: an honest signature verifies, *)
THEOREM HonestVerifiesAlways == SchSpec => []HonestVerifies
<1>1. SchIInv => HonestVerifies
  BY DEF SchIInv, SchStages, HonestVerifies, SchChecked, SchEndOf
<1> QED
  BY <1>1, SchAlways, PTL

(* the one odd_r makes is rejected for the parity alone, *)
THEOREM OddRejectedAlways == SchSpec => []OddRejected
<1>1. SchIInv => OddRejected
  BY DEF SchIInv, SchStages, OddRejected, SchChecked, SchEndOf
<1> QED
  BY <1>1, SchAlways, PTL

(* the one infinity_r makes for the point at infinity, *)
THEOREM InfinityRejectedAlways == SchSpec => []InfinityRejected
<1>1. SchIInv => InfinityRejected
  BY DEF SchIInv, SchStages, InfinityRejected, SchChecked, SchEndOf
<1> QED
  BY <1>1, SchAlways, PTL

(* the tweak that cancels the key fails, *)
THEOREM CancelTweakFailsAlways == SchSpec => []CancelTweakFails
BY SchAlways, PTL DEF SchIInv

(* a commitment is accepted exactly as it was made, *)
THEOREM CommitmentCheckedAlways == SchSpec => []CommitmentChecked
BY SchAlways, PTL DEF SchIInv

(* and what sign_custom signs verifies under the signer's key. *)
THEOREM CustomVerifiesAlways == SchSpec => []CustomVerifies
BY SchAlways, PTL DEF SchIInv

(* What the target signs verifies, what it derives from that is rejected for  *)
(* the one reason it was derived for.                                         *)
THEOREM VerifiesAsMadeAlways == SchSpec => []VerifiesAsMade
BY HonestVerifiesAlways, OddRejectedAlways, InfinityRejectedAlways, CustomVerifiesAlways, PTL
DEF VerifiesAsMade

(* A tweak that cancels the key fails, and a commitment is accepted exactly   *)
(* as it was made.                                                            *)
THEOREM TweakCheckedAlways == SchSpec => []TweakChecked
BY CancelTweakFailsAlways, CommitmentCheckedAlways, PTL DEF TweakChecked

-----------------------------------------------------------------------------
(* EllswiftTarget.  What each step leaves: a party's own encoding, then the    *)
(* secret of what both hold by then, which no later step changes.              *)

EllOwnIs(p, by, fuzz) ==
    ellOurs[p] = IF ellSeckey[p] \in Keys /\ ~fuzz THEN [by |-> by, point |-> ellSeckey[p]] ELSE EllFuzz

EllSecretIs(p) == ellShared[p] = IF ellSeckey[p] \in Keys THEN EllHashed(p) ELSE EllNone

EllStages ==
    /\ ellPc \in {"encode", "own0", "own1"} => ~ellFuzzPeer
    /\ ellPc \notin {"encode", "own0"} => EllOwnIs(0, "party0", FALSE)
    /\ ellPc \in {"xdh0", "xdh1", "raw", "done"} => EllOwnIs(1, "party1", ellFuzzPeer)
    /\ ellPc \in {"xdh1", "raw", "done"} => EllSecretIs(0)
    /\ ellPc \in {"raw", "done"} => EllSecretIs(1)
    /\ ellPc # "done" => ellRaw = EllNone

EllIInv == EllTypeOK /\ EllStages /\ RawGivesSecret

(* The x two valid keys share is one, *)
LEMMA EllSharedKey ==
    ASSUME NEW x \in Keys, NEW y \in Keys PROVE EvenY(Product(x, y)) \in Keys
BY ProductKey, EvenYKey DEF MulOk

(* and so is what a party derives, once both encodings are points. *)
LEMMA EllXKey ==
    ASSUME NEW p \in Parties, ellSeckey[p] \in Keys, ellOurs[1 - p].point \in Keys
    PROVE  EllX(p) \in Keys
BY EllSharedKey DEF EllX

(* What a party hands the other is an encoding. *)
LEMMA EllOwnTyped ==
    ASSUME EllTypeOK, NEW p \in Parties, NEW by \in EllMakers
    PROVE  EllOwn(p, by) \in EllEncodings /\ EllFuzz \in EllEncodings
BY ScalarOps, OrderAssumption DEF EllOwn, EllFuzz, EllTypeOK, EllEncodings, EllMakers, Keys, Scalars

(* From there on both parties hold points. *)
LEMMA EllPoints ==
    ASSUME EllTypeOK, EllOwnIs(0, "party0", FALSE), EllOwnIs(1, "party1", ellFuzzPeer),
           NEW p \in Parties
    PROVE  ellOurs[p].point \in Keys
BY DEF EllTypeOK, EllOwnIs, EllFuzz, Parties

(* The secret a party derives then is of the types. *)
LEMMA EllHashedTyped ==
    ASSUME EllTypeOK, EllOwnIs(0, "party0", FALSE), EllOwnIs(1, "party1", ellFuzzPeer),
           NEW p \in Parties, ellSeckey[p] \in Keys
    PROVE  EllHashed(p) \in EllSecrets /\ EllHashed(p).x \in Keys
<1>1. 1 - p \in Parties
  BY DEF Parties
<1>2. EllX(p) \in Keys
  BY <1>1, EllPoints, EllXKey
<1>3. EllX(p) \in Scalars
  BY <1>2, OrderAssumption DEF Keys, Scalars
<1>4. ellOurs[0] \in EllEncodings /\ ellOurs[1] \in EllEncodings
  BY DEF EllTypeOK, Parties
<1> QED
  BY <1>2, <1>3, <1>4 DEF EllHashed, EllSecrets

LEMMA EllNoneTyped == EllNone \in EllSecrets /\ EllUnset \in EllEncodings
BY OrderAssumption DEF EllNone, EllUnset, EllSecrets, EllEncodings, EllMakers, Scalars

LEMMA EllInitIInv == EllInit => EllIInv
BY EllNoneTyped DEF EllInit, EllIInv, EllTypeOK, EllStages, RawGivesSecret, Parties

(* A step that derives party p's secret. *)
LEMMA EllXdhTyped ==
    ASSUME EllTypeOK, EllOwnIs(0, "party0", FALSE), EllOwnIs(1, "party1", ellFuzzPeer),
           NEW p \in Parties, EllXdh(p)
    PROVE  /\ ellShared' \in [Parties -> EllSecrets]
           /\ ellShared'[p] = IF ellSeckey[p] \in Keys THEN EllHashed(p) ELSE EllNone
           /\ \A q \in Parties : q # p => ellShared'[q] = ellShared[q]
BY EllHashedTyped, EllNoneTyped DEF EllXdh, EllTypeOK

LEMMA EllStep == EllIInv /\ [EllNext]_ellVars => EllIInv'
<1> SUFFICES ASSUME EllIInv, [EllNext]_ellVars PROVE EllIInv'
  OBVIOUS
<1> USE DEF EllIInv
<1>1. CASE EllNotEncoded
  BY <1>1 DEF EllNotEncoded, EllTypeOK, EllStages, RawGivesSecret
<1>2. CASE EllEncode
  <2>1. [by |-> "encoded", point |-> ellPk] \in EllEncodings
    BY OrderAssumption DEF EllTypeOK, EllEncodings, EllMakers, Keys, Scalars
  <2>2. ellOurs'[0].point = ellPk
    BY <1>2 DEF EllEncode, EllTypeOK, Parties
  <2> QED
    BY <1>2, <2>1, <2>2 DEF EllEncode, EllTypeOK, EllStages, RawGivesSecret
<1>3. CASE EllOwn0
  <2>1. EllOwn(0, "party0") \in EllEncodings
    BY EllOwnTyped DEF Parties, EllMakers
  <2>2. ellOurs'[0] = EllOwn(0, "party0") /\ ellOurs' \in [Parties -> EllEncodings]
    BY <1>3, <2>1 DEF EllOwn0, EllTypeOK, Parties
  <2>3. EllOwnIs(0, "party0", FALSE)'
    BY <1>3, <2>2 DEF EllOwn0, EllOwn, EllOwnIs, EllFuzz
  <2> QED
    BY <1>3, <2>2, <2>3 DEF EllOwn0, EllTypeOK, EllStages, RawGivesSecret
<1>4. CASE EllOwn1
  <2>1. EllOwn(1, "party1") \in EllEncodings /\ EllFuzz \in EllEncodings
    BY EllOwnTyped DEF Parties, EllMakers
  <2>2. /\ ellOurs' \in [Parties -> EllEncodings] /\ ellOurs'[0] = ellOurs[0]
        /\ ellFuzzPeer' \in BOOLEAN
        /\ EllOwnIs(1, "party1", ellFuzzPeer)'
    <3>1. CASE ellOurs' = [ellOurs EXCEPT ![1] = EllOwn(1, "party1")] /\ UNCHANGED ellFuzzPeer
      <4>1. ellFuzzPeer' = FALSE
        BY <1>4, <3>1 DEF EllOwn1, EllStages, EllTypeOK
      <4>2. /\ ellOurs' \in [Parties -> EllEncodings] /\ ellOurs'[0] = ellOurs[0]
            /\ ellOurs'[1] = EllOwn(1, "party1")
        BY <2>1, <3>1 DEF EllTypeOK, Parties
      <4> QED
        BY <1>4, <4>1, <4>2 DEF EllOwn1, EllOwn, EllOwnIs, EllFuzz
    <3>2. CASE ellOurs' = [ellOurs EXCEPT ![1] = EllFuzz] /\ ellFuzzPeer' = TRUE
      <4>1. /\ ellOurs' \in [Parties -> EllEncodings] /\ ellOurs'[0] = ellOurs[0]
            /\ ellOurs'[1] = EllFuzz
        BY <2>1, <3>2 DEF EllTypeOK, Parties
      <4> QED
        BY <1>4, <3>2, <4>1 DEF EllOwn1, EllOwnIs, EllFuzz
    <3> QED
      BY <1>4, <3>1, <3>2 DEF EllOwn1
  <2>3. EllOwnIs(0, "party0", FALSE)'
    BY <1>4, <2>2 DEF EllOwn1, EllOwnIs, EllFuzz, EllStages
  <2> QED
    BY <1>4, <2>2, <2>3 DEF EllOwn1, EllTypeOK, EllStages, RawGivesSecret
<1>5. CASE EllXdh0
  <2>1. EllOwnIs(0, "party0", FALSE) /\ EllOwnIs(1, "party1", ellFuzzPeer)
    BY <1>5 DEF EllXdh0, EllStages
  <2>2. ellShared' \in [Parties -> EllSecrets]
        /\ ellShared'[0] = IF ellSeckey[0] \in Keys THEN EllHashed(0) ELSE EllNone
    BY <1>5, <2>1, EllXdhTyped DEF EllXdh0, Parties
  <2>3. EllSecretIs(0)' /\ EllOwnIs(0, "party0", FALSE)' /\ EllOwnIs(1, "party1", ellFuzzPeer)'
    BY <1>5, <2>1, <2>2 DEF EllXdh0, EllSecretIs, EllHashed, EllX, EllOwnIs, EllFuzz
  <2> QED
    BY <1>5, <2>2, <2>3 DEF EllXdh0, EllTypeOK, EllStages, RawGivesSecret
<1>6. CASE EllXdh1
  <2>1. EllOwnIs(0, "party0", FALSE) /\ EllOwnIs(1, "party1", ellFuzzPeer) /\ EllSecretIs(0)
    BY <1>6 DEF EllXdh1, EllStages
  <2>2. ellShared' \in [Parties -> EllSecrets] /\ ellShared'[0] = ellShared[0]
        /\ ellShared'[1] = IF ellSeckey[1] \in Keys THEN EllHashed(1) ELSE EllNone
    BY <1>6, <2>1, EllXdhTyped DEF EllXdh1, Parties
  <2>3. /\ EllSecretIs(0)' /\ EllSecretIs(1)'
        /\ EllOwnIs(0, "party0", FALSE)' /\ EllOwnIs(1, "party1", ellFuzzPeer)'
    BY <1>6, <2>1, <2>2 DEF EllXdh1, EllSecretIs, EllHashed, EllX, EllOwnIs, EllFuzz
  <2> QED
    BY <1>6, <2>2, <2>3 DEF EllXdh1, EllTypeOK, EllStages, RawGivesSecret
<1>7. CASE EllRawX
  <2>1. /\ EllOwnIs(0, "party0", FALSE) /\ EllOwnIs(1, "party1", ellFuzzPeer)
        /\ EllSecretIs(0) /\ EllSecretIs(1)
    BY <1>7 DEF EllRawX, EllStages
  <2>2. ellRaw' = ellShared[0]
    BY <1>7, <2>1 DEF EllRawX, EllRawParty, EllSecretIs, EllHashed
  <2>3. ellRaw' \in EllSecrets
    BY <2>2 DEF EllTypeOK, Parties
  <2>4. /\ EllSecretIs(0)' /\ EllSecretIs(1)'
        /\ EllOwnIs(0, "party0", FALSE)' /\ EllOwnIs(1, "party1", ellFuzzPeer)'
    BY <1>7, <2>1 DEF EllRawX, EllSecretIs, EllHashed, EllX, EllOwnIs, EllFuzz
  <2> QED
    BY <1>7, <2>2, <2>3, <2>4 DEF EllRawX, EllTypeOK, EllStages, RawGivesSecret
<1>8. CASE EllNoRaw
  <2>1. /\ EllSecretIs(0)' /\ EllSecretIs(1)'
        /\ EllOwnIs(0, "party0", FALSE)' /\ EllOwnIs(1, "party1", ellFuzzPeer)'
    BY <1>8 DEF EllNoRaw, EllStages, EllSecretIs, EllHashed, EllX, EllOwnIs, EllFuzz
  <2> QED
    BY <1>8, <2>1 DEF EllNoRaw, EllTypeOK, EllStages, RawGivesSecret
<1>9. CASE UNCHANGED ellVars
  <2>1. /\ EllSecretIs(0)' = EllSecretIs(0) /\ EllSecretIs(1)' = EllSecretIs(1)
        /\ EllOwnIs(0, "party0", FALSE)' = EllOwnIs(0, "party0", FALSE)
        /\ EllOwnIs(1, "party1", ellFuzzPeer)' = EllOwnIs(1, "party1", ellFuzzPeer)
    BY <1>9 DEF ellVars, EllSecretIs, EllHashed, EllX, EllOwnIs, EllFuzz
  <2> QED
    BY <1>9, <2>1 DEF ellVars, EllTypeOK, EllStages, RawGivesSecret
<1> QED
  BY <1>1, <1>2, <1>3, <1>4, <1>5, <1>6, <1>7, <1>8, <1>9 DEF EllNext

LEMMA EllAlways == EllSpec => []EllIInv
BY EllInitIInv, EllStep, PTL DEF EllSpec

(* Two honest parties agree, in a group of any prime order: the x of one's     *)
(* key times the other's is the other's times its own.                        *)
THEOREM SecretsAgreeAlways == EllSpec => []SecretsAgree
<1>1. EllIInv => SecretsAgree
  <2> SUFFICES ASSUME EllIInv, ellPc \in {"raw", "done"}, ~ellFuzzPeer,
                      \A p \in Parties : ellSeckey[p] \in Keys
               PROVE  ellShared[0] # EllNone /\ ellShared[0] = ellShared[1]
    BY DEF SecretsAgree
  <2>1. ellSeckey[0] \in Keys /\ ellSeckey[1] \in Keys
    BY DEF Parties
  <2>2. EllOwnIs(0, "party0", FALSE) /\ EllOwnIs(1, "party1", ellFuzzPeer)
    BY DEF EllIInv, EllStages
  <2>3. ellShared[0] = EllHashed(0) /\ ellShared[1] = EllHashed(1)
    BY <2>1 DEF EllIInv, EllStages, EllSecretIs
  <2>4. ellOurs[0].point = ellSeckey[0] /\ ellOurs[1].point = ellSeckey[1]
    BY <2>1, <2>2 DEF EllOwnIs
  <2>5. EllX(0) = EllX(1)
    <3>1. EllX(0) = EvenY(Product(ellSeckey[1], ellSeckey[0]))
      BY <2>1, <2>4 DEF EllX
    <3>2. EllX(1) = EvenY(Product(ellSeckey[0], ellSeckey[1]))
      BY <2>1, <2>4 DEF EllX
    <3> QED
      BY <2>1, <3>1, <3>2, KeyScalars, ProductOps
  <2>6. EllHashed(0).x # EllNone.x
    BY <2>1, <2>2, EllHashedTyped, OrderAssumption DEF EllIInv, EllNone, Keys, Parties
  <2> QED
    BY <2>3, <2>5, <2>6 DEF EllHashed
<1> QED
  BY <1>1, EllAlways, PTL

(* A party whose peer's key is invalid shares its secret with the input's      *)
(* point, and hashes nothing of the re-encoding.                              *)
THEOREM FallbackHandedAlways == EllSpec => []FallbackHanded
<1>1. EllIInv => FallbackHanded
  <2> SUFFICES ASSUME EllIInv, ellPc \in {"raw", "done"}, NEW p \in Parties,
                      ellSeckey[p] \in Keys, ellSeckey[1 - p] \notin Keys
               PROVE  /\ ellShared[p].x = EvenY(Product(ellFuzzed, ellSeckey[p]))
                      /\ "encoded" \notin {ellShared[p].a.by, ellShared[p].b.by}
    BY DEF FallbackHanded
  <2>1. EllOwnIs(0, "party0", FALSE) /\ EllOwnIs(1, "party1", ellFuzzPeer)
    BY DEF EllIInv, EllStages
  <2>2. ellShared[p] = EllHashed(p)
    BY DEF EllIInv, EllStages, EllSecretIs, Parties
  <2>3. ellOurs[1 - p] = EllFuzz
    BY <2>1 DEF EllOwnIs, Parties
  <2>4. ellOurs[0].by # "encoded" /\ ellOurs[1].by # "encoded"
    BY <2>1 DEF EllOwnIs, EllFuzz
  <2> QED
    BY <2>2, <2>3, <2>4 DEF EllHashed, EllX, EllFuzz
<1> QED
  BY <1>1, EllAlways, PTL

(* The hash of the bare x gives party 0's secret, whatever was exchanged. *)
THEOREM RawGivesSecretAlways == EllSpec => []RawGivesSecret
<1>1. EllIInv => RawGivesSecret
  BY DEF EllIInv
<1> QED
  BY <1>1, EllAlways, PTL

(* Every way to the session secret leads to the same one, in a group of any   *)
(* prime order and whatever the two keys and the input's encoding.            *)
THEOREM SessionSecretsAlways == EllSpec => []SessionSecrets
BY SecretsAgreeAlways, FallbackHandedAlways, RawGivesSecretAlways, PTL DEF SessionSecrets

-----------------------------------------------------------------------------
(* EllswiftInv.  Residues that mean the same number. *)

LEMMA FieldPPrime == Prime(FieldP) /\ FieldP \in Nat \ {0} /\ FieldP > 7
BY FieldPAssumption DEF Prime

(* What the library's field functions return is a residue. *)
LEMMA ResidueOf == ASSUME NEW a \in Int PROVE a % FieldP \in Residues
BY FieldPPrime, Division DEF Residues

LEMMA ResidueKept == ASSUME NEW a \in Residues PROVE a % FieldP = a /\ a \in Int
BY FieldPPrime DEF Residues

(* A product of residues that are not zero is not, *)
LEMMA NonzeroProduct ==
    ASSUME NEW a \in Residues, NEW b \in Residues, a # 0, b # 0 PROVE (a * b) % FieldP # 0
BY FieldPPrime DEF Residues, Prime

(* so each of them has an inverse. *)
LEMMA InverseInField ==
    ASSUME NEW t \in Residues, t # 0
    PROVE  InverseIn[t] \in Residues /\ (t * InverseIn[t]) % FieldP = 1
<1>1. t \in 1..(FieldP - 1)
  BY FieldPPrime DEF Residues
<1>2. PICK w \in 1..(FieldP - 1) : (t * w) % FieldP = 1
  BY <1>1, FieldPPrime, InverseExists
<1>3. w \in Residues
  BY FieldPPrime DEF Residues
<1>4. InverseIn[t] = CHOOSE v \in Residues : (t * v) % FieldP = 1
  BY DEF InverseIn
<1> QED
  BY <1>2, <1>3, <1>4

(* A sum is zero if its summands are each other's negation. *)
LEMMA NegationCancels ==
    ASSUME NEW a \in Int, NEW b \in Int, a % FieldP = (-b) % FieldP PROVE (b + a) % FieldP = 0
<1>1. PICK c \in Int : c = -b
  OBVIOUS
<1>2. (a + b) % FieldP = ((a % FieldP) + b) % FieldP /\ ((c % FieldP) + b) % FieldP = (c + b) % FieldP
  BY FieldPPrime, ModSum
<1>3. c + b = 0 /\ 0 % FieldP = 0 /\ a + b = b + a
  BY <1>1, FieldPPrime
<1> QED
  BY <1>1, <1>2, <1>3

LEMMA NegatedResidue ==
    ASSUME NEW a \in Int, NEW b \in Int, a % FieldP = b % FieldP PROVE (-a) % FieldP = (-b) % FieldP
<1>1. PICK c \in Int : c = -1
  OBVIOUS
<1>2. /\ ((a % FieldP) * c) % FieldP = (a * c) % FieldP
      /\ ((b % FieldP) * c) % FieldP = (b * c) % FieldP
  BY FieldPPrime, ModProduct
<1>3. a * c = -a /\ b * c = -b
  BY <1>1
<1> QED
  BY <1>2, <1>3

(* What u - 4 (u^3 + 7) / (3 u^2) is for a u that is not zero: with s its      *)
(* difference from u, 4 (u^3 + 7) + 3 u^2 s is zero, and s is not, since 4 and *)
(* u^3 + 7 are not.                                                            *)
LEMMA RZeroSolves ==
    ASSUME NEW u \in Residues, u # 0, NEW i \in Residues,
           (((((u * u) % FieldP) * 3) % FieldP) * i) % FieldP = 1,
           NEW v, v = (((Cubic(u) * 4) % FieldP) * i) % FieldP,
           NEW s, s = (-v) % FieldP
    PROVE  s # 0 /\ (4 * Cubic(u) + 3 * u * u * s) % FieldP = 0
<1> DEFINE c == Cubic(u)
           m == (c * 4) % FieldP
           t == (((u * u) % FieldP) * 3) % FieldP
           k == 3 * u * u
<1>1. u \in Int /\ i \in Int /\ u * u \in Int /\ u * u * u + CurveB \in Int /\ k \in Int /\ k = (u * u) * 3
  BY FieldPPrime DEF Residues, CurveB
<1>2. c \in Residues /\ c # 0 /\ c \in Int
  <2>1. c \in Residues
    BY <1>1, ResidueOf DEF Cubic
  <2>2. c # 0
    BY FieldPAssumption DEF Cubic, Residues
  <2> QED
    BY <2>1, <2>2, ResidueKept
<1>3. m \in Residues /\ m \in Int /\ m # 0 /\ (4 * c) % FieldP = m
  <2>1. 4 \in Residues
    BY FieldPPrime DEF Residues
  <2>2. m # 0
    BY <1>2, <2>1, NonzeroProduct
  <2>3. c * 4 \in Int /\ c * 4 = 4 * c
    BY <1>2
  <2> QED
    BY <2>2, <2>3, ResidueOf, ResidueKept
<1>4. t = k % FieldP /\ t \in Int /\ (t * i) % FieldP = 1
  <2>1. PICK w \in Int : w = u * u
    BY <1>1
  <2>0. PICK e \in Int : e = 3
    OBVIOUS
  <2>2. ((w % FieldP) * e) % FieldP = (w * e) % FieldP
    BY FieldPPrime, ModProduct
  <2>3. t = k % FieldP
    BY <1>1, <2>0, <2>1, <2>2
  <2> HIDE DEF t, k
  <2>4. t \in Int
    BY <1>1, <2>3, ResidueOf, ResidueKept
  <2>5. (t * i) % FieldP = 1
    BY DEF t
  <2> QED
    BY <2>3, <2>4, <2>5
<1> HIDE DEF c, m, t, k
<1>5. v \in Int /\ s \in Int /\ v = (m * i) % FieldP
  <2>1. v = (m * i) % FieldP
    BY DEF m, c
  <2>2. m * i \in Int
    BY <1>1, <1>3
  <2>3. v \in Residues
    BY <2>1, <2>2, ResidueOf
  <2>4. -v \in Int /\ v \in Int
    BY <2>3, ResidueKept
  <2> QED
    BY <2>1, <2>4, ResidueOf, ResidueKept
<1>6. (v * t) % FieldP = m
  <2>1. PICK w \in Int, j \in Int : w = m * i /\ j = t * i
    BY <1>1, <1>3, <1>4
  <2>2. /\ ((w % FieldP) * t) % FieldP = (w * t) % FieldP
        /\ ((j % FieldP) * m) % FieldP = (j * m) % FieldP
    BY <1>3, <1>4, FieldPPrime, ModProduct
  <2>3. w * t = j * m /\ 1 * m = m
    BY <1>1, <1>3, <1>4, <2>1
  <2>4. m % FieldP = m /\ w % FieldP = v /\ j % FieldP = 1
    BY <1>3, <1>4, <1>5, <2>1, ResidueKept
  <2> QED
    BY <2>2, <2>3, <2>4
<1>7. (k * s) % FieldP = (-m) % FieldP
  <2>1. (k * s) % FieldP = (t * s) % FieldP
    BY <1>1, <1>4, <1>5, FieldPPrime, ModProduct
  <2>0. PICK w \in Int : w = -v
    BY <1>5
  <2>2. ((w % FieldP) * t) % FieldP = (w * t) % FieldP /\ w % FieldP = s
    BY <1>4, <2>0, FieldPPrime, ModProduct
  <2>3. t * s = s * t /\ w * t = -(v * t) /\ v * t \in Int
    BY <1>4, <1>5, <2>0
  <2>4. m % FieldP = m
    BY <1>3, ResidueKept
  <2>5. (-(v * t)) % FieldP = (-m) % FieldP
    BY <1>3, <1>6, <2>3, <2>4, NegatedResidue
  <2> QED
    BY <2>1, <2>2, <2>3, <2>5
<1>8. (4 * c + k * s) % FieldP = 0
  <2>1. 4 * c \in Int /\ k * s \in Int
    BY <1>1, <1>2, <1>5
  <2>2. m % FieldP = m
    BY <1>3, ResidueKept
  <2>3. (-(4 * c)) % FieldP = (-m) % FieldP
    BY <1>3, <2>1, <2>2, NegatedResidue
  <2> QED
    BY <1>7, <2>1, <2>3, NegationCancels
<1>9. s # 0
  <2>1. SUFFICES ASSUME s = 0 PROVE FALSE
    OBVIOUS
  <2>2. 4 * c + k * s = 4 * c
    BY <1>1, <1>2, <2>1
  <2> QED
    BY <1>3, <1>8, <2>2
<1> QED
  BY <1>8, <1>9 DEF c, k

(* No curve point has the x 0. *)
LEMMA CurveXNonzero == ASSUME NEW x \in CurveXs PROVE x \in Residues /\ x # 0
<1>1. x \in Residues /\ Cubic(x) \in Squares
  BY DEF CurveXs
<1>2. ASSUME x = 0 PROVE FALSE
  <2>1. PICK y \in Residues : Cubic(x) = (y * y) % FieldP
    BY <1>1 DEF Squares
  <2>2. Cubic(x) = 7
    BY <1>2, FieldPPrime DEF Cubic, CurveB
  <2>3. PICK w \in Int, c \in Int : w = y * y /\ c = -7
    BY <2>1, FieldPPrime DEF Residues
  <2>4. ((w % FieldP) + c) % FieldP = (w + c) % FieldP
    BY FieldPPrime, ModSum
  <2>5. (w % FieldP) + c = 0 /\ 0 % FieldP = 0 /\ w + c = y * y - 7
    BY <2>1, <2>2, <2>3, FieldPPrime
  <2> QED
    BY <2>4, <2>5, FieldPAssumption DEF Residues, CurveB
<1> QED
  BY <1>1, <1>2

LEMMA CubicResidue == ASSUME NEW u \in Residues PROVE Cubic(u) \in Residues /\ Cubic(u) \in Int
<1>1. u * u * u + CurveB \in Int
  BY FieldPPrime DEF Residues, CurveB
<1> QED
  BY <1>1, ResidueOf, ResidueKept DEF Cubic

(* What a call returns whose arguments are within its magnitudes. *)
LEMMA FePairs ==
    ASSUME NEW a, NEW b, a.legal, b.legal
    PROVE  /\ a.mag <= 8 /\ b.mag <= 8 =>
                FeMul(a, b).v = (a.v * b.v) % FieldP /\ FeMul(a, b).mag = 1 /\ FeMul(a, b).legal
           /\ a.mag + b.mag <= 32 => FeAdd(a, b).v = (a.v + b.v) % FieldP /\ FeAdd(a, b).legal
BY DEF FeMul, FeAdd, Fe

LEMMA FeInts ==
    ASSUME NEW a, NEW n, a.legal
    PROVE  /\ a.mag < 32 =>
                /\ FeAddInt(a, n).v = (a.v + n) % FieldP
                /\ FeAddInt(a, n).mag = a.mag + 1 /\ FeAddInt(a, n).legal
           /\ a.mag * n <= 32 =>
                /\ FeMulInt(a, n).v = (a.v * n) % FieldP
                /\ FeMulInt(a, n).mag = a.mag * n /\ FeMulInt(a, n).legal
           /\ a.mag <= n /\ n <= 31 =>
                /\ FeNegate(a, n).v = (-a.v) % FieldP
                /\ FeNegate(a, n).mag = n + 1 /\ FeNegate(a, n).legal
BY DEF FeAddInt, FeMulInt, FeNegate, Fe

LEMMA FeInverts ==
    ASSUME NEW a, a.legal
    PROVE  FeInv(a).v = InverseIn[a.v] % FieldP /\ FeInv(a).mag = 1 /\ FeInv(a).legal
BY DEF FeInv, Fe

(* The value that the calls of ellswift_x_r_zero compute is the one that      *)
(* RZeroSolves is about, and each call is within the library's magnitudes.    *)
LEMMA XRZeroIs ==
    ASSUME NEW w \in FeNormals, w.legal, w.v # 0
    PROVE  \E s \in Residues :
              /\ s # 0 /\ (4 * Cubic(w.v) + 3 * w.v * w.v * s) % FieldP = 0
              /\ XRZero(w).v = (s + w.v) % FieldP /\ XRZero(w) \in FeNormals /\ XRZero(w).legal
<1> DEFINE u   == w.v
           t   == (((u * u) % FieldP) * 3) % FieldP
           i   == InverseIn[t]
           v   == (((Cubic(u) * 4) % FieldP) * i) % FieldP
           s   == (-v) % FieldP
<1>1. w.mag = 1 /\ w.legal /\ u \in Residues /\ u \in Int
  BY ResidueKept DEF FeNormals
<1>2. u * u \in Int /\ (u * u) % FieldP \in Residues /\ (u * u) % FieldP # 0
  BY <1>1, ResidueOf, NonzeroProduct
<1>3. t \in Residues /\ t # 0
  <2>1. 3 \in Residues
    BY FieldPPrime DEF Residues
  <2>2. t # 0
    BY <1>2, <2>1, NonzeroProduct
  <2>3. ((u * u) % FieldP) * 3 \in Int
    BY <1>2, ResidueKept
  <2> QED
    BY <2>2, <2>3, ResidueOf
<1>4. i \in Residues /\ (t * i) % FieldP = 1 /\ i \in Int
  BY <1>3, InverseInField, ResidueKept
<1>5. v \in Residues /\ v \in Int /\ s \in Residues /\ s \in Int
  <2>1. (Cubic(u) * 4) % FieldP \in Int
    <3>1. Cubic(u) * 4 \in Int
      BY <1>1, CubicResidue
    <3> QED
      BY <3>1, ResidueOf, ResidueKept
  <2>2. ((Cubic(u) * 4) % FieldP) * i \in Int
    BY <1>4, <2>1
  <2>3. v \in Residues /\ v \in Int
    BY <2>2, ResidueOf, ResidueKept
  <2>4. -v \in Int
    BY <2>3
  <2> QED
    BY <2>3, <2>4, ResidueOf, ResidueKept
<1>6. s # 0 /\ (4 * Cubic(u) + 3 * u * u * s) % FieldP = 0
  BY <1>1, <1>3, <1>4, <1>5, RZeroSolves
<1>7. (((((u * u) % FieldP) * u) % FieldP) + CurveB) % FieldP = Cubic(u)
  <2>1. PICK a \in Int, b \in Int : a = u * u /\ b = CurveB
    BY <1>2 DEF CurveB
  <2>2. ((a % FieldP) * u) % FieldP = (a * u) % FieldP
    BY <1>1, FieldPPrime, ModProduct
  <2>3. PICK c \in Int, d \in Int : c = (a % FieldP) * u /\ d = a * u
    BY <1>1, <1>2, <2>1, ResidueKept
  <2>4. ((d % FieldP) + b) % FieldP = (d + b) % FieldP
    BY FieldPPrime, ModSum
  <2> QED
    BY <2>1, <2>2, <2>3, <2>4 DEF Cubic
<1> DEFINE u2  == FeMul(w, w)
           u3  == FeMul(u2, w)
           num == FeMulInt(FeAddInt(FeMul(u2, w), CurveB), 4)
           den == FeInv(FeMulInt(u2, 3))
           q   == FeMul(num, den)
           n   == FeNegate(q, 1)
           a   == FeAdd(n, w)
<1>8. XRZero(w) = FeNormalize(a)
  BY DEF XRZero
<1> HIDE DEF t, i, v, s, u2, num, den, u
<1>9. u2.v = (u * u) % FieldP /\ u2.mag = 1 /\ u2.legal
  BY <1>1, FePairs DEF u2, u
<1>10. u3.v = (((u * u) % FieldP) * u) % FieldP /\ u3.mag = 1 /\ u3.legal
  BY <1>1, <1>9, FePairs DEF u
<1> HIDE DEF u3
<1>11. num.v = (Cubic(u) * 4) % FieldP /\ num.mag = 8 /\ num.legal
  <2> DEFINE c == FeAddInt(u3, CurveB)
  <2>1. c.v = (u3.v + CurveB) % FieldP /\ c.mag = 2 /\ c.legal
    BY <1>10, FeInts
  <2>2. c.v = Cubic(u)
    BY <1>7, <1>10, <2>1
  <2> HIDE DEF c
  <2>3. num = FeMulInt(c, 4)
    BY DEF num, c, u3
  <2> QED
    BY <2>1, <2>2, <2>3, FeInts
<1>12. den.v = i /\ den.mag = 1 /\ den.legal
  <2> DEFINE d == FeMulInt(u2, 3)
  <2>1. d.v = t /\ d.legal
    BY <1>9, FeInts DEF t
  <2>2. den = FeInv(d)
    BY DEF den
  <2>3. i % FieldP = i
    BY <1>4, ResidueKept
  <2> HIDE DEF d
  <2> QED
    BY <2>1, <2>2, <2>3, FeInverts DEF i
<1>13. q.v = v /\ q.mag = 1 /\ q.legal
  BY <1>11, <1>12, FePairs DEF v
<1> HIDE DEF q
<1>14. n.v = s /\ n.mag = 2 /\ n.legal
  BY <1>13, FeInts DEF s
<1> HIDE DEF n
<1>15. a.v = (s + u) % FieldP /\ a.legal
  BY <1>1, <1>14, FePairs DEF u
<1>16. XRZero(w) = [v |-> a.v % FieldP, mag |-> 1, legal |-> a.legal] /\ a.legal \in BOOLEAN
  BY <1>8 DEF FeNormalize, Fe, a, FeAdd
<1>17. (s + u) % FieldP \in Residues /\ ((s + u) % FieldP) % FieldP = (s + u) % FieldP
  <2>1. s + u \in Int
    BY <1>1, <1>5
  <2> QED
    BY <2>1, ResidueOf, ResidueKept
<1> HIDE DEF a
<1>18. /\ XRZero(w).v = (s + u) % FieldP
       /\ XRZero(w) \in FeNormals /\ XRZero(w).legal
  BY <1>15, <1>16, <1>17 DEF FeNormals
<1> QED
  BY <1>5, <1>6, <1>18 DEF u

(* s is the difference of the two. *)
LEMMA Difference ==
    ASSUME NEW s \in Residues, NEW u \in Residues
    PROVE  (((s + u) % FieldP) - u) % FieldP = s
<1>1. PICK a \in Int, c \in Int : a = s + u /\ c = -u
  BY ResidueKept
<1>2. ((a % FieldP) + c) % FieldP = (a + c) % FieldP
  BY FieldPPrime, ModSum
<1>3. a + c = s /\ (a % FieldP) + c = ((s + u) % FieldP) - u
  BY <1>1, ResidueKept, ResidueOf
<1> QED
  BY <1>2, <1>3, ResidueKept

(* A factor that is zero makes a product zero. *)
LEMMA ZeroProduct ==
    ASSUME NEW a \in Int, NEW k \in Int, a = 0 \/ k % FieldP = 0 PROVE (-(a * k)) % FieldP = 0
<1>1. PICK c \in Int : c = -a
  OBVIOUS
<1>2. ((k % FieldP) * c) % FieldP = (k * c) % FieldP
  BY FieldPPrime, ModProduct
<1>3. k * c = -(a * k) /\ 0 * c = 0 /\ 0 % FieldP = 0
  BY <1>1, FieldPPrime
<1>4. CASE a = 0
  BY <1>3, <1>4
<1> QED
  BY <1>2, <1>3, <1>4

(* The branches' conditions hold from the choice of u and x on, u is nonzero   *)
(* before, and x on the curve until the choice and after the check.            *)
InvBranches ==
    /\ invKind = "u_is_x" => InvS = 0 /\ InvR2 = 0
    /\ invKind = "r_zero" => InvS # 0 /\ InvR2 = 0

InvIInv ==
    /\ InvTypeOK /\ invU.legal /\ invX.legal
    /\ invPc # "nonzero" => invU.v # 0
    /\ invPc \in {"nonzero", "kind", "invert"} => invX.v \in CurveXs
    /\ invPc \in {"on_curve", "invert"} => InvBranches

LEMMA NormalOf ==
    ASSUME NEW v \in Residues
    PROVE  Normal(v) = [v |-> v, mag |-> 1, legal |-> TRUE] /\ Normal(v) \in FeNormals
BY ResidueKept DEF Normal, Fe, FeNormals

LEMMA InvInitSafe == InvInit => InvIInv
<1> SUFFICES ASSUME InvInit PROVE InvIInv
  OBVIOUS
<1>1. PICK u \in Residues : invU = Normal(u)
  BY DEF InvInit
<1>2. PICK x \in CurveXs : invX = Normal(x)
  BY DEF InvInit
<1>3. x \in Residues
  BY CurveXNonzero
<1> QED
  BY <1>1, <1>2, <1>3, NormalOf DEF InvInit, InvIInv, InvTypeOK

LEMMA MakeNonZeroSafe == InvIInv /\ MakeNonZero => InvIInv'
<1> SUFFICES ASSUME InvIInv, MakeNonZero PROVE InvIInv'
  OBVIOUS
<1>1. 1 \in Residues /\ 1 # 0
  BY FieldPPrime DEF Residues
<1>2. Normal(1) = [v |-> 1, mag |-> 1, legal |-> TRUE] /\ Normal(1) \in FeNormals
  BY <1>1, NormalOf
<1>3. invU' \in FeNormals /\ invU'.legal /\ invU'.v # 0
  BY <1>2 DEF MakeNonZero, NonZero, InvIInv, InvTypeOK
<1> QED
  BY <1>3 DEF MakeNonZero, InvIInv, InvTypeOK

LEMMA ChooseKindSafe == InvIInv /\ ChooseKind => InvIInv'
<1> SUFFICES ASSUME InvIInv, ChooseKind PROVE InvIInv'
  OBVIOUS
<1> DEFINE Set == /\ invU' \in FeNormals /\ invX' \in FeNormals /\ invU'.legal /\ invX'.legal
                  /\ invU'.v # 0
<1>1. /\ invU \in FeNormals /\ invX \in FeNormals /\ invU.legal /\ invX.legal
      /\ invU.v # 0 /\ invX.v \in CurveXs
      /\ invPc' = "on_curve" /\ invKind' = invKind /\ invKind \in InvKinds
  BY DEF ChooseKind, InvIInv, InvTypeOK
<1>2. Set /\ InvBranches'
  <2>1. CASE invKind = "fuzzed" /\ UNCHANGED <<invU, invX>>
    BY <1>1, <2>1 DEF InvBranches
  <2>2. CASE invKind = "u_is_x" /\ invU' = invX /\ UNCHANGED invX
    <3>1. invX.v \in Residues /\ invX.v # 0 /\ invX.v \in Int
      BY <1>1, CurveXNonzero, ResidueKept
    <3>2. InvS' = 0
      BY <2>2, <3>1, FieldPPrime DEF InvS
    <3>3. PICK k \in Int : k = (4 * Cubic(invU.v) + 3 * invU.v * invU.v * InvS)'
      BY <2>2, <3>1, <3>2, CubicResidue
    <3>4. InvR2' = 0
      BY <3>2, <3>3, ZeroProduct DEF InvR2
    <3> QED
      BY <1>1, <2>2, <3>1, <3>2, <3>4 DEF InvBranches
  <2>3. CASE invKind = "r_zero" /\ invX' = XRZero(invU) /\ UNCHANGED invU
    <3>1. PICK s \in Residues :
             /\ s # 0 /\ (4 * Cubic(invU.v) + 3 * invU.v * invU.v * s) % FieldP = 0
             /\ XRZero(invU).v = (s + invU.v) % FieldP
             /\ XRZero(invU) \in FeNormals /\ XRZero(invU).legal
      BY <1>1, XRZeroIs
    <3>2. invU.v \in Residues /\ invU.v \in Int /\ s \in Int /\ Cubic(invU.v) \in Int
      BY <1>1, ResidueKept, CubicResidue DEF FeNormals
    <3>3. InvS' = s
      BY <2>3, <3>1, <3>2, Difference DEF InvS
    <3>4. PICK k \in Int : k = 4 * Cubic(invU.v) + 3 * invU.v * invU.v * s
      BY <3>2
    <3>5. InvR2' = 0
      BY <2>3, <3>1, <3>2, <3>3, <3>4, ZeroProduct DEF InvR2
    <3>6. (s + invU.v) % FieldP \in Residues
      BY <3>2, ResidueOf
    <3>7. invX' \in FeNormals /\ invX'.legal
      BY <2>3, <3>1, <3>6 DEF FeNormals
    <3> QED
      BY <1>1, <2>3, <3>1, <3>3, <3>5, <3>7 DEF InvBranches
  <2> QED
    BY <2>1, <2>2, <2>3 DEF ChooseKind
<1> QED
  BY <1>1, <1>2 DEF InvIInv, InvTypeOK

LEMMA InvStaysSafe == InvIInv /\ [InvNext]_invVars => InvIInv'
<1> SUFFICES ASSUME InvIInv, [InvNext]_invVars PROVE InvIInv'
  OBVIOUS
<1>1. CASE MakeNonZero
  BY <1>1, MakeNonZeroSafe
<1>2. CASE ChooseKind
  BY <1>2, ChooseKindSafe
<1>3. CASE CheckCurve
  BY <1>3 DEF CheckCurve, OnCurve, InvIInv, InvTypeOK, InvBranches, InvS, InvR2
<1>4. CASE Invert
  BY <1>4 DEF Invert, InvIInv, InvTypeOK, InvBranches, InvS, InvR2
<1>5. CASE UNCHANGED invVars
  BY <1>5 DEF invVars, InvIInv, InvTypeOK, InvBranches, InvS, InvR2
<1> QED
  BY <1>1, <1>2, <1>3, <1>4, <1>5 DEF InvNext

(* ellswift_inv and ellswift_x_r_zero, for any prime in place of the field's:  *)
(* "u = x" reaches the branch whose s is zero, "r zero" the one whose s is not *)
(* and whose r is, within the magnitudes and with a nonzero u and an x on the  *)
(* curve when the library's inverse map is called.                             *)
THEOREM BranchReachedAlways == InvSpec => []BranchReached
<1>1. InvIInv => BranchReached
  BY DEF InvIInv, InvBranches, BranchReached
<1> QED
  BY <1>1, InvInitSafe, InvStaysSafe, PTL DEF InvSpec
=============================================================================
