---------------------------- MODULE MusigProofs ----------------------------
(***************************************************************************)
(* Proofs about MusigSession, for any number of signers and any prime      *)
(* group order.                                                            *)
(***************************************************************************)
EXTENDS MusigSession, PrimeGroupProofs

(* Objects of this kind have been made for the signers in S. *)
Have(kind, S) == \A s \in S : <<kind, s>> \in made

Before == 0..(i - 1)            \* the signers this loop is done with

(* What each stage may rely on. *)
Objects ==
    /\ pc \notin {"keypairs", "nonces", "sign", "done"} => i = 0
    /\ pc = "keypairs" => Have("keypair", Before) /\ Have("pubkey", Before)
    /\ pc \notin {"keypairs", "done"} => Have("keypair", Signers) /\ Have("pubkey", Signers)
    /\ pc \notin {"keypairs", "key_agg", "done"} => Have("cache", {0})
    /\ pc = "nonces" => Have("secnonce", Before) /\ Have("pubnonce", Before)
    /\ pc \in {"nonce_agg", "process"} => Have("secnonce", Signers)
    /\ pc = "sign" => Have("secnonce", Signers \ Before) /\ Have("psig", Before)
    /\ pc \in {"nonce_agg", "process", "sign", "verify"} => Have("pubnonce", Signers)
    /\ pc = "process" => Have("aggnonce", {0})
    /\ pc \in {"sign", "verify", "sig_agg"} => Have("session", {0})
    /\ pc \in {"verify", "sig_agg"} => Have("psig", Signers)

(* The cache's key is the aggregate secret, negated and tweaked as the      *)
(* cache records.                                                           *)
Key == pc \notin {"keypairs", "key_agg", "done"} =>
    LET s == AggSecret(coef, seckey) IN
        /\ s \in Keys /\ cache.pk \in Keys /\ agg = cache.pk
        /\ cache.pk = Sum(IF cache.parity THEN Negated(s) ELSE s, cache.tweak)

IInv == TypeOK /\ Objects /\ Key /\ CallsLegal /\ CancelRejected /\ HonestVerifies

Cache == [pk : Scalars, tweak : Scalars, parity : BOOLEAN]

(* What cache c records of the aggregate secret s. *)
Recorded(c, s) == c.pk = Sum(IF c.parity THEN Negated(s) ELSE s, c.tweak)

-----------------------------------------------------------------------------
(* Making the key even negates what the cache records with it. *)
LEMMA LiftedRecorded ==
    ASSUME NEW s \in Scalars, NEW xonly \in BOOLEAN, cache \in Cache, Recorded(cache, s)
    PROVE  Lifted(xonly) \in Cache /\ Recorded(Lifted(xonly), s)
<1>1. CASE ~(xonly /\ ~Even(cache.pk))
  BY <1>1 DEF Lifted
<1>2. CASE xonly /\ ~Even(cache.pk)
  <2> DEFINE p == IF cache.parity THEN Negated(s) ELSE s
             c == [pk |-> Negated(cache.pk), tweak |-> Negated(cache.tweak), parity |-> ~cache.parity]
  <2>1. Lifted(xonly) = c
    BY <1>2 DEF Lifted
  <2>2. cache.pk \in Scalars /\ cache.tweak \in Scalars /\ cache.parity \in BOOLEAN
    BY DEF Cache
  <2>3. p \in Scalars /\ Negated(p) = IF c.parity THEN Negated(s) ELSE s
    BY <2>2, ScalarOps
  <2>4. cache.pk = Sum(p, cache.tweak)
    BY DEF Recorded
  <2>5. c.pk = Sum(Negated(p), c.tweak)
    BY <2>2, <2>3, <2>4, NegatedSum
  <2>6. c \in Cache
    BY <2>2, ScalarOps DEF Cache
  <2> QED
    BY <2>1, <2>3, <2>5, <2>6 DEF Recorded
<1> QED
  BY <1>1, <1>2

(* A tweak moves the key and the tweak recorded by the same amount. *)
LEMMA TweakedRecorded ==
    ASSUME NEW s \in Scalars, NEW c \in Cache, Recorded(c, s), NEW t, AddOk(c.pk, t)
    PROVE  /\ TweakedBy(c, t) \in Cache /\ TweakedBy(c, t).pk \in Keys
           /\ Recorded(TweakedBy(c, t), s)
<1> DEFINE p == IF c.parity THEN Negated(s) ELSE s
<1>1. t \in Scalars /\ c.pk \in Scalars /\ c.tweak \in Scalars /\ c.parity \in BOOLEAN
  BY DEF AddOk, Cache
<1>2. TweakedBy(c, t) = [pk |-> Sum(c.pk, t), tweak |-> Sum(c.tweak, t), parity |-> c.parity]
  BY DEF TweakedBy
<1>3. p \in Scalars
  BY ScalarOps
<1>4. Sum(c.pk, t) = Sum(p, Sum(c.tweak, t))
  BY <1>1, <1>3, SumAssociates DEF Recorded
<1>5. Sum(c.pk, t) \in Keys /\ Sum(c.pk, t) \in Scalars /\ Sum(c.tweak, t) \in Scalars
  BY <1>1, SumKey, ScalarOps
<1> QED
  BY <1>1, <1>2, <1>4, <1>5 DEF Cache, Recorded

(* The tweak musig_cancel_tweak computes is rejected. *)
LEMMA CancelFails ==
    ASSUME NEW xonly \in BOOLEAN, cache \in Cache,
           AggSecret(coef, seckey) \in Scalars, Recorded(cache, AggSecret(coef, seckey))
    PROVE  ~AddOk(Lifted(xonly).pk, CancelTweak(xonly))
<1>1. CancelTweak(xonly) = IF ~xonly \/ Even(cache.pk) THEN Negated(cache.pk) ELSE cache.pk
  BY DEF CancelTweak, Recorded
<1>2. cache.pk \in Scalars
  BY DEF Cache
<1>3. Lifted(xonly).pk = IF xonly /\ ~Even(cache.pk) THEN Negated(cache.pk) ELSE cache.pk
  BY DEF Lifted
<1>4. Sum(cache.pk, Negated(cache.pk)) = 0 /\ Sum(Negated(cache.pk), cache.pk) = 0
  BY <1>2, ScalarOps
<1> QED
  BY <1>1, <1>3, <1>4 DEF AddOk

-----------------------------------------------------------------------------
(* The invariant holds when the input has been read. *)
LEMMA MusigInit == Init => IInv
<1> SUFFICES ASSUME Init PROVE IInv
  OBVIOUS
<1>1. 0 \in Scalars /\ n \in Nat /\ n >= 1
  BY OrderAssumption, MusigAssumption DEF Init, Scalars
<1>2. TypeOK
  <2>1. Signers = 0..(n - 1) /\ i \in Signers
    BY <1>1 DEF Init, Signers
  <2>2. seckey \in [Signers -> Bytes] /\ coef \in [Signers -> Scalars]
    BY <1>1, <2>1 DEF Init
  <2>3. cache \in [pk : Scalars, tweak : Scalars, parity : BOOLEAN] /\ agg \in Scalars
    BY <1>1 DEF Init
  <2> QED
    BY <2>1, <2>2, <2>3 DEF Init, TypeOK, Stages
<1>3. Objects
  BY <1>1 DEF Init, Objects, Have, Before
<1> QED
  BY <1>2, <1>3 DEF Init, IInv, Key, CallsLegal, CancelRejected, HonestVerifies

(* Signers and what their loops are given. *)
LEMMA Ranges ==
    ASSUME TypeOK
    PROVE  /\ n \in Nat \ {0} /\ i \in Nat /\ i < n /\ i \in Signers /\ 0 \in Signers
           /\ \A s : s \in Signers <=> s \in Nat /\ s < n
           /\ \A s : s \in Before <=> s \in Nat /\ s < i
BY MusigAssumption DEF TypeOK, Signers, Before

(* A loop goes on with the next signer, or ends when all are done. *)
LEMMA LoopStep ==
    ASSUME TypeOK, NEW stage, NEW then, Loop(stage, then), UNCHANGED n
    PROVE  /\ i' \in Signers' /\ Signers' = Signers /\ pc' \in {stage, then}
           /\ \/ pc' = stage /\ Before' = Before \cup {i}
              \/ pc' = then /\ i' = 0 /\ Before' = {} /\ Signers = Before \cup {i}
<1>1. Signers' = Signers
  BY DEF Signers
<1>2. CASE i + 1 < n
  BY <1>1, <1>2, Ranges DEF Loop, Before
<1>3. CASE ~(i + 1 < n)
  BY <1>1, <1>3, Ranges DEF Loop, Before
<1> QED
  BY <1>2, <1>3

(* A call given objects that were made is legal. *)
LEMMA PassedLegal ==
    ASSUME IInv, NEW os, os \subseteq made, Passed(os) PROVE legal' = legal
BY DEF Passed

(* A target that returns needs nothing more. *)
LEMMA ReturnSafe ==
    ASSUME IInv, Return, legal' = legal, pc # "done" PROVE IInv'
<1>1. TypeOK'
  BY DEF IInv, Return, TypeOK, Stages, Signers, input
<1>2. Objects'
  BY DEF Return, Objects
<1> QED
  BY <1>1, <1>2 DEF IInv, Return, Key, CallsLegal, CancelRejected, HonestVerifies

(* The cache and what it records stay as they are. *)
LEMMA KeyStays ==
    ASSUME Key, UNCHANGED <<cache, agg, coef, seckey>>, pc \notin {"keypairs", "key_agg", "done"}
    PROVE  Key'
BY DEF Key

(* The rest of the invariant stays when nothing is cancelled or verified. *)
LEMMA RestStays ==
    ASSUME IInv, legal' = legal, cancelled' = cancelled, verified' = verified, pc # "done",
           tampered' \in {tampered, TRUE}
    PROVE  CallsLegal' /\ CancelRejected' /\ HonestVerifies'
BY DEF IInv, TypeOK, CallsLegal, CancelRejected, HonestVerifies

-----------------------------------------------------------------------------
(* The keypairs. *)
LEMMA KeypairSafe == ASSUME IInv, Keypair PROVE IInv'
<1> USE DEF Keypair, input
<1>1. TypeOK
  BY DEF IInv
<1>2. n' = n
  OBVIOUS
<1>3. /\ i' \in Signers' /\ Signers' = Signers /\ pc' \in {"keypairs", "key_agg"}
      /\ \/ pc' = "keypairs" /\ Before' = Before \cup {i}
         \/ pc' = "key_agg" /\ i' = 0 /\ Before' = {} /\ Signers = Before \cup {i}
  BY <1>1, <1>2, LoopStep
<1>4. TypeOK'
  BY <1>1, <1>3, Ranges DEF TypeOK, Stages, Kinds
<1>5. Objects'
  BY <1>3 DEF IInv, Objects, Have
<1>6. Key'
  BY <1>3 DEF Key
<1> QED
  BY <1>4, <1>5, <1>6, RestStays DEF IInv

(* Key aggregation. *)
LEMMA KeyAggSafe == ASSUME IInv, KeyAgg PROVE IInv'
<1> USE DEF KeyAgg, input
<1>1. TypeOK /\ Objects
  BY DEF IInv
<1>2. Signers' = Signers
  BY DEF Signers
<1>3. PICK a \in [Signers -> Scalars] :
        /\ AggSecret(a, seckey) \in Keys
        /\ coef' = a
        /\ cache' = [pk |-> AggSecret(a, seckey), tweak |-> 0, parity |-> FALSE]
        /\ agg' = cache'.pk
  OBVIOUS
<1>4. legal' = legal
  <2>1. Each("pubkey") \subseteq made
    BY <1>1 DEF Objects, Have, Each
  <2> QED
    BY <2>1, PassedLegal
<1>5. AggSecret(a, seckey) \in Scalars /\ 0 \in Scalars
  BY <1>3, OrderAssumption DEF Keys, Scalars
<1>6. TypeOK'
  BY <1>1, <1>2, <1>3, <1>4, <1>5, Ranges DEF TypeOK, Stages, Kinds, The
<1>7. Objects'
  BY <1>1, <1>2 DEF Objects, Have, The
<1>8. Key'
  <2>1. AggSecret(a, seckey) = Sum(AggSecret(a, seckey), 0)
    BY <1>5, ScalarOps
  <2>2. seckey' = seckey
    OBVIOUS
  <2>3. AggSecret(coef', seckey') = AggSecret(a, seckey)
    BY <1>3, <2>2
  <2> QED
    BY <1>3, <2>1, <2>3 DEF Key
<1> QED
  BY <1>4, <1>6, <1>7, <1>8, RestStays DEF IInv

(* A tweak, one the input chose or one that cancels. *)
LEMMA TweakSafe ==
    ASSUME IInv, NEW xonly \in BOOLEAN, NEW cancel \in BOOLEAN, NEW t, NEW then,
           cancel => t = CancelTweak(xonly), Tweak(xonly, cancel, t, then),
           pc \in {"ec_tweak", "xonly_tweak"}, then \in {"xonly_tweak", "nonces"},
           then = "nonces" => pc = "xonly_tweak"
    PROVE  IInv'
<1> DEFINE s == AggSecret(coef, seckey)
           c == Lifted(xonly)
           new == TweakedBy(c, t)
<1>1. TypeOK /\ Objects /\ Signers' = Signers
  BY DEF IInv, Tweak, input, Signers
<1>2. s \in Keys /\ s \in Scalars /\ Recorded(cache, s) /\ cache \in Cache
  BY <1>1, ScalarOps DEF IInv, Key, Recorded, TypeOK, Cache
<1> HIDE DEF s
<1>3. c \in Cache /\ Recorded(c, s)
  BY <1>2, LiftedRecorded
<1>4. cancel => ~AddOk(c.pk, t)
  BY <1>2, CancelFails DEF s
<1> HIDE DEF c, new
<1>5. legal' = legal
  <2>1. {The("cache")} \cup (IF cancel THEN Each("pubkey") ELSE {}) \subseteq made
    BY <1>1 DEF Objects, Have, Each, The
  <2>2. Passed({The("cache")} \cup IF cancel THEN Each("pubkey") ELSE {})
    BY DEF Tweak
  <2> QED
    BY <2>1, <2>2, PassedLegal
<1>6. /\ UNCHANGED <<i, n, seckey, noOut, coef, made, tampered, verified>> /\ cancelled' = cancel
      /\ IF AddOk(c.pk, t)
         THEN pc' = then /\ cache' = new /\ agg' = new.pk
         ELSE pc' = "done" /\ UNCHANGED <<cache, agg>>
  BY DEF Tweak, input, RecordTweaked, c, new
<1>7. AddOk(c.pk, t) => new \in Cache /\ new.pk \in Keys /\ Recorded(new, s)
  BY <1>2, <1>3, TweakedRecorded DEF new
<1>8. TypeOK'
  BY <1>1, <1>5, <1>6, <1>7, ScalarOps DEF TypeOK, Stages, Cache
<1>9. Objects'
  BY <1>1, <1>6, Ranges DEF Objects, Have, Before
<1>10. Key'
  <2>1. AggSecret(coef', seckey') = s
    BY <1>6 DEF s
  <2> QED
    BY <1>2, <1>6, <1>7, <2>1 DEF Key, Recorded
<1>11. CallsLegal' /\ CancelRejected' /\ HonestVerifies'
  BY <1>4, <1>5, <1>6 DEF IInv, TypeOK, CallsLegal, CancelRejected, HonestVerifies
<1> QED
  BY <1>8, <1>9, <1>10, <1>11 DEF IInv

(* A tweak that the flags leave out. *)
LEMMA NoTweakSafe ==
    ASSUME IInv, NEW then, NoTweak(then),
           pc \in {"ec_tweak", "xonly_tweak"}, then \in {"xonly_tweak", "nonces"},
           then = "nonces" => pc = "xonly_tweak"
    PROVE  IInv'
<1>1. TypeOK'
  BY DEF IInv, NoTweak, TypeOK, Stages, Signers, input
<1>2. Objects'
  <2>1. Signers' = Signers /\ Before' = Before /\ made' = made /\ pc' = then /\ i' = i
    BY DEF NoTweak, input, Signers, Before
  <2>2. Objects
    BY DEF IInv
  <2>3. Before = {}
    BY <2>2 DEF Objects, Before
  <2> QED
    BY <2>1, <2>2, <2>3 DEF Objects, Have
<1>3. Key'
  BY KeyStays DEF IInv, NoTweak, input
<1> QED
  BY <1>1, <1>2, <1>3, RestStays DEF IInv, NoTweak

-----------------------------------------------------------------------------
(* A signer's nonces. *)
LEMMA NonceGenSafe == ASSUME IInv, NonceGen PROVE IInv'
<1> USE DEF NonceGen, input
<1>1. TypeOK /\ Objects /\ n' = n
  BY DEF IInv
<1>2. /\ i' \in Signers' /\ Signers' = Signers /\ pc' \in {"nonces", "nonce_agg"}
      /\ \/ pc' = "nonces" /\ Before' = Before \cup {i}
         \/ pc' = "nonce_agg" /\ i' = 0 /\ Before' = {} /\ Signers = Before \cup {i}
  BY <1>1, LoopStep
<1>3. legal' = legal
  <2>1. NonceInputs \subseteq made
    BY <1>1, Ranges DEF Objects, Have, NonceInputs, The
  <2> QED
    BY <2>1, PassedLegal
<1>4. TypeOK'
  BY <1>1, <1>2, <1>3, Ranges DEF TypeOK, Stages, Kinds
<1>5. Objects'
  BY <1>1, <1>2 DEF Objects, Have
<1>6. Key'
  BY <1>2, KeyStays DEF IInv
<1> QED
  BY <1>3, <1>4, <1>5, <1>6, RestStays DEF IInv

(* The aggregate nonce. *)
LEMMA NonceAggSafe == ASSUME IInv, NonceAgg PROVE IInv'
<1> USE DEF NonceAgg, input
<1>1. TypeOK /\ Objects /\ Signers' = Signers /\ Before' = Before
  BY DEF IInv, Signers, Before
<1>2. legal' = legal
  <2>1. Each("pubnonce") \subseteq made
    BY <1>1 DEF Objects, Have, Each
  <2>2. \A victim : Each("pubnonce") \ {<<"pubnonce", victim>>} \subseteq made
    BY <2>1
  <2> QED
    BY <2>1, <2>2, PassedLegal
<1>3. tampered' \in {tampered, TRUE} /\ tampered' \in BOOLEAN
  BY <1>1 DEF TypeOK
<1>4. TypeOK'
  BY <1>1, <1>2, <1>3, Ranges DEF TypeOK, Stages, Kinds, The
<1>5. Objects'
  BY <1>1 DEF Objects, Have, The
<1>6. Key'
  BY KeyStays DEF IInv
<1> QED
  BY <1>2, <1>3, <1>4, <1>5, <1>6, RestStays DEF IInv

(* The session. *)
LEMMA NonceProcessSafe == ASSUME IInv, NonceProcess PROVE IInv'
<1> USE DEF NonceProcess, input
<1>1. TypeOK /\ Objects /\ Signers' = Signers /\ i' = i
  BY DEF IInv, Signers
<1>2. legal' = legal
  <2>1. {The("aggnonce"), The("cache")} \subseteq made
    BY <1>1 DEF Objects, Have, The
  <2> QED
    BY <2>1, PassedLegal
<1>3. tampered' \in {tampered, TRUE} /\ tampered' \in BOOLEAN
  BY <1>1 DEF TypeOK
<1>4. TypeOK'
  BY <1>1, <1>2, <1>3, Ranges DEF TypeOK, Stages, Kinds, The
<1>5. Objects'
  <2>1. Before' = {} /\ Before = {}
    BY <1>1 DEF Objects, Before
  <2> QED
    BY <1>1, <2>1 DEF Objects, Have, The
<1>6. Key'
  BY KeyStays DEF IInv
<1> QED
  BY <1>2, <1>3, <1>4, <1>5, <1>6, RestStays DEF IInv

(* A partial signature, which spends the signer's secnonce and no other. *)
LEMMA PartialSignSafe == ASSUME IInv, PartialSign PROVE IInv'
<1> USE DEF PartialSign, input
<1>1. TypeOK /\ Objects /\ n' = n
  BY DEF IInv
<1>2. /\ i' \in Signers' /\ Signers' = Signers /\ pc' \in {"sign", "verify"}
      /\ \/ pc' = "sign" /\ Before' = Before \cup {i}
         \/ pc' = "verify" /\ i' = 0 /\ Before' = {} /\ Signers = Before \cup {i}
  BY <1>1, LoopStep
<1>3. i \in Signers \ Before
  BY <1>1, Ranges
<1>4. legal' = legal
  <2>1. SignInputs \subseteq made
    BY <1>1, <1>3 DEF Objects, Have, SignInputs, The
  <2> QED
    BY <2>1, PassedLegal
<1>5. TypeOK'
  BY <1>1, <1>2, <1>4, Ranges DEF TypeOK, Stages, Kinds
<1>6. Objects'
  <2>1. \A kind, s : kind # "secnonce" /\ <<kind, s>> \in made => <<kind, s>> \in made'
    OBVIOUS
  <2>2. \A s : s # i /\ <<"secnonce", s>> \in made => <<"secnonce", s>> \in made'
    OBVIOUS
  <2>3. <<"psig", i>> \in made'
    OBVIOUS
  <2> QED
    BY <1>1, <1>2, <2>1, <2>2, <2>3 DEF Objects, Have
<1>7. Key'
  BY <1>2, KeyStays DEF IInv
<1> QED
  BY <1>4, <1>5, <1>6, <1>7, RestStays DEF IInv

(* The partial verifications. *)
LEMMA PartialVerifySafe == ASSUME IInv, PartialVerify PROVE IInv'
<1> USE DEF PartialVerify, input
<1>1. TypeOK /\ Objects /\ Signers' = Signers /\ Before' = Before
  BY DEF IInv, Signers, Before
<1>2. legal' = legal
  <2>1. Each("psig") \cup Each("pubnonce") \cup Each("pubkey") \cup {The("cache"), The("session")}
          \subseteq made
    BY <1>1 DEF Objects, Have, Each, The
  <2> QED
    BY <2>1, PassedLegal
<1>3. tampered' \in {tampered, TRUE} /\ tampered' \in BOOLEAN
  BY <1>1 DEF TypeOK
<1>4. TypeOK'
  BY <1>1, <1>2, <1>3 DEF TypeOK, Stages
<1>5. Objects'
  BY <1>1 DEF Objects, Have
<1>6. Key'
  BY KeyStays DEF IInv
<1> QED
  BY <1>2, <1>3, <1>4, <1>5, <1>6, RestStays DEF IInv

(* The final signature is one of the key in agg. *)
LEMMA SigAggSafe == ASSUME IInv, SigAgg PROVE IInv'
<1> USE DEF SigAgg, input
<1>1. TypeOK /\ Objects /\ Signers' = Signers
  BY DEF IInv, Signers
<1>2. legal' = legal
  <2>1. Each("psig") \cup {The("session")} \subseteq made
    BY <1>1 DEF Objects, Have, Each, The
  <2> QED
    BY <2>1, PassedLegal
<1>3. agg = cache.pk
  BY DEF IInv, Key
<1>4. TypeOK'
  BY <1>1, <1>2 DEF TypeOK, Stages
<1>5. Objects' /\ Key'
  BY DEF Objects, Key
<1>6. HonestVerifies'
  BY <1>3 DEF HonestVerifies
<1> QED
  BY <1>2, <1>4, <1>5, <1>6 DEF IInv, CallsLegal, CancelRejected

(* A call that fails was given objects that were made, too. *)
LEMMA FailsSafe ==
    ASSUME IInv,
           \/ KeypairFails \/ KeyAggFails \/ NonceGenFails \/ NonceAggFails
           \/ NonceProcessFails \/ PartialSignFails \/ SigAggFails
    PROVE  IInv'
<1>1. TypeOK /\ Objects
  BY DEF IInv
<1>2. CASE KeypairFails
  BY <1>2, ReturnSafe DEF KeypairFails
<1>3. CASE KeyAggFails
  <2>1. pc = "key_agg" => Each("pubkey") \subseteq made
    BY <1>1 DEF Objects, Have, Each
  <2> QED
    BY <1>3, <2>1, PassedLegal, ReturnSafe DEF KeyAggFails
<1>4. CASE NonceGenFails
  <2>1. pc = "nonces" => NonceInputs \subseteq made
    BY <1>1, Ranges DEF Objects, Have, NonceInputs, The
  <2> QED
    BY <1>4, <2>1, PassedLegal, ReturnSafe DEF NonceGenFails
<1>5. CASE NonceAggFails
  <2>1. pc = "nonce_agg" => Each("pubnonce") \subseteq made
    BY <1>1 DEF Objects, Have, Each
  <2> QED
    BY <1>5, <2>1, PassedLegal, ReturnSafe DEF NonceAggFails
<1>6. CASE NonceProcessFails
  <2>1. pc = "process" => {The("aggnonce"), The("cache")} \subseteq made
    BY <1>1 DEF Objects, Have, The
  <2> QED
    BY <1>6, <2>1, PassedLegal, ReturnSafe DEF NonceProcessFails
<1>7. CASE PartialSignFails
  <2>1. i \in Signers \ Before
    BY <1>1, Ranges
  <2>2. pc = "sign" => SignInputs \subseteq made
    BY <1>1, <2>1 DEF Objects, Have, SignInputs, The
  <2> QED
    BY <1>7, <2>2, PassedLegal, ReturnSafe DEF PartialSignFails
<1>8. CASE SigAggFails
  <2>1. pc = "sig_agg" => Each("psig") \cup {The("session")} \subseteq made
    BY <1>1 DEF Objects, Have, Each, The
  <2> QED
    BY <1>8, <2>1, PassedLegal, ReturnSafe DEF SigAggFails
<1> QED
  BY <1>2, <1>3, <1>4, <1>5, <1>6, <1>7, <1>8

-----------------------------------------------------------------------------
(* Every step keeps the invariant. *)
LEMMA MusigStep == IInv /\ [Next]_vars => IInv'
<1> SUFFICES ASSUME IInv, [Next]_vars PROVE IInv'
  OBVIOUS
<1>1. CASE EcTweak
  <2>1. CASE \E t \in Bytes : Tweak(FALSE, FALSE, t, "xonly_tweak")
    BY <1>1, <2>1, TweakSafe DEF EcTweak
  <2>2. CASE Tweak(FALSE, TRUE, CancelTweak(FALSE), "xonly_tweak")
    BY <1>1, <2>2, TweakSafe DEF EcTweak
  <2>3. CASE NoTweak("xonly_tweak")
    BY <1>1, <2>3, NoTweakSafe DEF EcTweak
  <2> QED
    BY <1>1, <2>1, <2>2, <2>3 DEF EcTweak
<1>2. CASE XonlyTweak
  <2>1. CASE \E t \in Bytes : Tweak(TRUE, FALSE, t, "nonces")
    BY <1>2, <2>1, TweakSafe DEF XonlyTweak
  <2>2. CASE Tweak(TRUE, TRUE, CancelTweak(TRUE), "nonces")
    BY <1>2, <2>2, TweakSafe DEF XonlyTweak
  <2>3. CASE NoTweak("nonces")
    BY <1>2, <2>3, NoTweakSafe DEF XonlyTweak
  <2> QED
    BY <1>2, <2>1, <2>2, <2>3 DEF XonlyTweak
<1>3. CASE Returned \/ UNCHANGED vars
  <2>1. UNCHANGED vars
    BY <1>3 DEF Returned
  <2>2. TypeOK' /\ Objects'
    BY <2>1 DEF vars, IInv, TypeOK, Objects, Have, Before, Signers
  <2>3. Key'
    BY <2>1 DEF vars, IInv, Key
  <2> QED
    BY <2>1, <2>2, <2>3 DEF vars, IInv, CallsLegal, CancelRejected, HonestVerifies
<1> QED
  BY <1>1, <1>2, <1>3, KeypairSafe, KeyAggSafe, NonceGenSafe, NonceAggSafe, NonceProcessSafe,
     PartialSignSafe, PartialVerifySafe, SigAggSafe, FailsSafe DEF Next

(* With any number of signers and any prime order: whatever fails and       *)
(* whatever is fuzzed no call is given an object that no call made or a     *)
(* secnonce spent, a cancelling tweak is rejected, and an honest session's  *)
(* signature verifies under agg, tweaked or not, with outputs or without.   *)
THEOREM MusigSafe == Spec => [](TypeOK /\ CallsLegal /\ CancelRejected /\ HonestVerifies)
<1>1. IInv => TypeOK /\ CallsLegal /\ CancelRejected /\ HonestVerifies
  BY DEF IInv
<1> QED
  BY <1>1, MusigInit, MusigStep, PTL DEF Spec

(* No call is given an object no call made, or a secnonce spent. *)
COROLLARY MusigCallsLegal == Spec => []CallsLegal
BY MusigSafe, PTL

(* A tweak that cancels the key is rejected. *)
COROLLARY CancelRejectedAlways == Spec => []CancelRejected
BY MusigSafe, PTL
=============================================================================
