---------------------------- MODULE MusigSession ----------------------------
(***************************************************************************)
(* src/targets/musig.c: target_musig, one MuSig2 session end to end.  The  *)
(* bits of the input's two flag bytes are chosen where they are looked at. *)
(*                                                                         *)
(* The library is external (PrimeGroup): of its objects the model keeps    *)
(* which ones a successful call has made and not yet spent, and the key    *)
(* aggregation cache by what it records.                                   *)
(***************************************************************************)
EXTENDS PrimeGroup, Functions

CONSTANT MaxSigners     \* MUSIG_MAX_SIGNERS

ASSUME MusigAssumption == MaxSigners \in Nat \ {0}

VARIABLES
    pc,         \* the call that comes next
    i,          \* the loop's signer
    n,          \* mi.n
    seckey,     \* mi.seckey
    noOut,      \* MUSIG_TWEAK_NO_OUTPUT
    coef,       \* the key aggregation coefficient of each signer
    cache,      \* its key, and the tweak and parity accumulated
    agg,        \* the key the final signature is verified under
    made,       \* the objects that may be passed to the library
    cancelled,  \* a tweak was computed to send the key to infinity
    tampered,   \* a fuzzed object replaced an honest one
    verified,   \* the verdict on the final signature
    legal       \* no call was given an object no call had made

input == <<n, seckey, noOut>>
vars  == <<pc, i, n, seckey, noOut, coef, cache, agg, made, cancelled, tampered,
           verified, legal>>

Signers == 0..(n - 1)
Each(kind) == {<<kind, s>> : s \in Signers}
The(kind)  == <<kind, 0>>

Kinds == {"keypair", "pubkey", "cache", "secnonce", "pubnonce", "aggnonce", "session", "psig"}
Stages == {"keypairs", "key_agg", "ec_tweak", "xonly_tweak", "nonces", "nonce_agg",
           "process", "sign", "verify", "sig_agg", "done"}

TypeOK ==
    /\ pc \in Stages /\ n \in 1..MaxSigners /\ i \in Signers
    /\ seckey \in [Signers -> Bytes] /\ coef \in [Signers -> Scalars]
    /\ cache \in [pk : Scalars, tweak : Scalars, parity : BOOLEAN] /\ agg \in Scalars
    /\ made \subseteq Kinds \X Signers
    /\ verified \in {"none", "yes", "no"}
    /\ {noOut, cancelled, tampered, legal} \subseteq BOOLEAN

(* musig_read *)
Init ==
    /\ n \in 1..MaxSigners /\ seckey \in [0..(n - 1) -> Bytes] /\ noOut \in BOOLEAN
    /\ pc = "keypairs" /\ i = 0
    /\ coef = [s \in 0..(n - 1) |-> 0]
    /\ cache = [pk |-> 0, tweak |-> 0, parity |-> FALSE] /\ agg = 0
    /\ made = {} /\ verified = "none"
    /\ cancelled = FALSE /\ tampered = FALSE /\ legal = TRUE

-----------------------------------------------------------------------------
(* Objects. *)

Passed(objects) == IF objects \subseteq made THEN UNCHANGED legal ELSE legal' = FALSE

(* The loop over the signers: the next one, or the stage that follows. *)
Loop(stage, then) ==
    IF i + 1 < n THEN pc' = stage /\ i' = i + 1 ELSE pc' = then /\ i' = 0

(* A failed call ends the target: "the protocol stops at the first failure". *)
Return ==
    /\ pc' = "done"
    /\ UNCHANGED <<i, input, coef, cache, agg, made, cancelled, tampered, verified>>

(* The aggregate secret: sum a_i*x_i over coefficients a and secret keys x. *)
AggSecret(a, x) == FoldFunction(Sum, 0, [s \in DOMAIN x |-> Product(a[s], x[s])])

-----------------------------------------------------------------------------
(* Key aggregation. *)

Keypair ==
    /\ pc = "keypairs" /\ seckey[i] \in Keys
    /\ made' = made \cup {<<"keypair", i>>, <<"pubkey", i>>}
    /\ Loop("keypairs", "key_agg")
    /\ UNCHANGED <<input, coef, cache, agg, cancelled, tampered, verified, legal>>

KeypairFails == pc = "keypairs" /\ seckey[i] \notin Keys /\ Return /\ UNCHANGED legal

(* Sorting permutes the pointers only.  The coefficients are a hash of the  *)
(* keys, so any; the key is read back into agg, then aggregated once more   *)
(* with no outputs.                                                         *)
KeyAgg ==
    /\ pc = "key_agg" /\ Passed(Each("pubkey"))
    /\ \E a \in [Signers -> Scalars] :
        /\ AggSecret(a, seckey) \in Keys
        /\ coef' = a
        /\ cache' = [pk |-> AggSecret(a, seckey), tweak |-> 0, parity |-> FALSE]
        /\ agg' = cache'.pk
    /\ made' = made \cup {The("cache")}
    /\ pc' = "ec_tweak"
    /\ UNCHANGED <<i, input, cancelled, tampered, verified>>

KeyAggFails == pc = "key_agg" /\ Passed(Each("pubkey")) /\ Return

-----------------------------------------------------------------------------
(* Tweaks. *)

(* Mutated CancelTweak: the tweak accumulated so far is left out. *)
CancelTweakFirst(xonly) ==
    LET s == AggSecret(coef, seckey)
        d == IF cache.parity THEN Negated(s) ELSE s
    IN  IF ~xonly \/ Even(cache.pk) THEN Negated(d) ELSE d

(* musig_cancel_tweak.  Only an x-only tweak sets the parity, and the target *)
(* applies none before a cancelling one: the negation is there but unused.   *)
CancelTweak(xonly) ==
    LET s == AggSecret(coef, seckey)
        d == Sum(IF cache.parity THEN Negated(s) ELSE s, cache.tweak)
    IN  IF ~xonly \/ Even(cache.pk) THEN Negated(d) ELSE d

(* External: the cache an x-only tweak applies to has an even key.  *)
Lifted(xonly) ==
    IF xonly /\ ~Even(cache.pk)
    THEN [pk |-> Negated(cache.pk), tweak |-> Negated(cache.tweak), parity |-> ~cache.parity]
    ELSE cache

(* External: cache c with its key and the accumulated tweak moved by t. *)
TweakedBy(c, t) == [pk |-> Sum(c.pk, t), tweak |-> Sum(c.tweak, t), parity |-> c.parity]

(* Mutated RecordTweaked: agg is not read back, a tweak without an output   *)
(* leaves it as it was.                                                     *)
RecordTweakedOutput(c) == IF noOut THEN agg ELSE c.pk

(* musig_record_tweaked: what agg holds after it, with or without tweak_out. *)
RecordTweaked(c) == c.pk

Tweak(xonly, cancel, t, then) ==
    LET c == Lifted(xonly)
        new == TweakedBy(c, t)
    IN  /\ Passed({The("cache")} \cup IF cancel THEN Each("pubkey") ELSE {})
        /\ cancelled' = cancel
        /\ IF AddOk(c.pk, t)
           THEN pc' = then /\ cache' = new /\ agg' = RecordTweaked(new)
           ELSE pc' = "done" /\ UNCHANGED <<cache, agg>>
        /\ UNCHANGED <<i, input, coef, made, tampered, verified>>

NoTweak(then) ==
    /\ pc' = then
    /\ UNCHANGED <<i, input, coef, cache, agg, made, cancelled, tampered, verified, legal>>

(* MUSIG_EC_TWEAK, with a tweak of the input or MUSIG_CANCEL_EC. *)
EcTweak ==
    /\ pc = "ec_tweak"
    /\ \/ \E t \in Bytes : Tweak(FALSE, FALSE, t, "xonly_tweak")
       \/ Tweak(FALSE, TRUE, CancelTweak(FALSE), "xonly_tweak")
       \/ NoTweak("xonly_tweak")

(* MUSIG_XONLY_TWEAK, MUSIG_CANCEL_XONLY *)
XonlyTweak ==
    /\ pc = "xonly_tweak"
    /\ \/ \E t \in Bytes : Tweak(TRUE, FALSE, t, "nonces")
       \/ Tweak(TRUE, TRUE, CancelTweak(TRUE), "nonces")
       \/ NoTweak("nonces")

-----------------------------------------------------------------------------
(* Nonces. *)

(* With a counter or without, the calls differ in which of these they take. *)
NonceInputs == {<<"keypair", i>>, <<"pubkey", i>>, The("cache")}

NonceGen ==
    /\ pc = "nonces" /\ Passed(NonceInputs)
    /\ made' = made \cup {<<"secnonce", i>>, <<"pubnonce", i>>}
    /\ Loop("nonces", "nonce_agg")
    /\ UNCHANGED <<input, coef, cache, agg, cancelled, tampered, verified>>

(* Mutated NonceGenFails: the target goes on. *)
NonceGenFailsOn ==
    /\ pc = "nonces" /\ Passed(NonceInputs) /\ Loop("nonces", "nonce_agg")
    /\ UNCHANGED <<input, coef, cache, agg, made, cancelled, tampered, verified>>

(* A zero secrand. *)
NonceGenFails == pc = "nonces" /\ Passed(NonceInputs) /\ Return

(* MUSIG_FUZZ_PUBNONCE: one that parses takes the victim's place among the  *)
(* pointers, and stands for an object of its own.                           *)
NonceAgg ==
    /\ pc = "nonce_agg"
    /\ \/ Passed(Each("pubnonce")) /\ UNCHANGED tampered
       \/ \E victim \in Signers :
            Passed(Each("pubnonce") \ {<<"pubnonce", victim>>}) /\ tampered' = TRUE
    /\ made' = made \cup {The("aggnonce")}
    /\ pc' = "process"
    /\ UNCHANGED <<i, input, coef, cache, agg, cancelled, verified>>

NonceAggFails == pc = "nonce_agg" /\ Passed(Each("pubnonce")) /\ Return

(* MUSIG_FUZZ_AGGNONCE, then the session from the aggregate nonce. *)
NonceProcess ==
    /\ pc = "process" /\ Passed({The("aggnonce"), The("cache")})
    /\ tampered' \in {tampered, TRUE}
    /\ made' = made \cup {The("session")}
    /\ pc' = "sign"
    /\ UNCHANGED <<i, input, coef, cache, agg, cancelled, verified>>

NonceProcessFails == pc = "process" /\ Passed({The("aggnonce"), The("cache")}) /\ Return

-----------------------------------------------------------------------------
(* Signatures. *)

SignInputs == {<<"secnonce", i>>, <<"keypair", i>>, The("cache"), The("session")}

(* Mutated PartialSign: every signer signs with the first one's secnonce. *)
PartialSignFirst ==
    /\ pc = "sign" /\ Passed({The("secnonce")} \cup (SignInputs \ {<<"secnonce", i>>}))
    /\ made' = (made \ {The("secnonce")}) \cup {<<"psig", i>>}
    /\ Loop("sign", "verify")
    /\ UNCHANGED <<input, coef, cache, agg, cancelled, tampered, verified>>

(* Signing zeroes the secnonce. *)
PartialSign ==
    /\ pc = "sign" /\ Passed(SignInputs)
    /\ made' = (made \ {<<"secnonce", i>>}) \cup {<<"psig", i>>}
    /\ Loop("sign", "verify")
    /\ UNCHANGED <<input, coef, cache, agg, cancelled, tampered, verified>>

PartialSignFails == pc = "sign" /\ Passed(SignInputs) /\ Return

(* Every partial signature is verified; then MUSIG_FUZZ_PARTIAL_SIG.  *)
PartialVerify ==
    /\ pc = "verify"
    /\ Passed(Each("psig") \cup Each("pubnonce") \cup Each("pubkey")
              \cup {The("cache"), The("session")})
    /\ tampered' \in {tampered, TRUE}
    /\ pc' = "sig_agg"
    /\ UNCHANGED <<i, input, coef, cache, agg, made, cancelled, verified>>

(* The aggregate signature is one of the cache's x-only key, if every       *)
(* object it comes from is honest, and is verified under agg's.             *)
SigAgg ==
    /\ pc = "sig_agg" /\ Passed(Each("psig") \cup {The("session")})
    /\ verified' \in IF tampered THEN {"yes", "no"}
                     ELSE IF EvenY(agg) = EvenY(cache.pk) THEN {"yes"} ELSE {"no"}
    /\ pc' = "done"
    /\ UNCHANGED <<i, input, coef, cache, agg, made, cancelled, tampered>>

SigAggFails == pc = "sig_agg" /\ Passed(Each("psig") \cup {The("session")}) /\ Return

Returned == pc = "done" /\ UNCHANGED vars

Next ==
    \/ Keypair \/ KeypairFails \/ KeyAgg \/ KeyAggFails \/ EcTweak \/ XonlyTweak
    \/ NonceGen \/ NonceGenFails \/ NonceAgg \/ NonceAggFails
    \/ NonceProcess \/ NonceProcessFails \/ PartialSign \/ PartialSignFails
    \/ PartialVerify \/ SigAgg \/ SigAggFails \/ Returned

Spec == Init /\ [][Next]_vars
-----------------------------------------------------------------------------
(* Properties. *)

(* "Every object handed back to the library must come from a successful     *)
(* call", and a secnonce is spent by signing (musig.c:7-9): whatever fails, *)
(* and whatever is fuzzed, no call is given anything else.                  *)
CallsLegal == legal

(* A tweak musig_cancel_tweak computed is "minus the discrete log of the    *)
(* key the next tweak applies to, which tweaking must reject", whatever     *)
(* tweak came before and whichever of the two keys is even: the target ends. *)
CancelRejected == cancelled => pc = "done"

(* "agg holds the tweaked key when tweaks were applied" (musig.c:261), also *)
(* when they went without an output: an honest session's signature verifies *)
(* under it, so a "no" comes from a fuzzed object.                          *)
HonestVerifies == verified = "no" => tampered
=============================================================================
