--------------------------- MODULE SchnorrTarget ---------------------------
(***************************************************************************)
(* src/targets/schnorrsig.c: target_schnorrsig.  An x-only key or r is the *)
(* point with an even y that it lifts to, 0 for the 32 zero bytes and for  *)
(* any others that are no point's x; the challenge, a hash, is chosen for  *)
(* each r, key and message.  A buffer the input wrote is Fuzzed until it   *)
(* is parsed.  Names carry the prefix sch so that KeysMachineProofs can    *)
(* extend this module beside KeysMachine.                                  *)
(***************************************************************************)
EXTENDS PrimeGroup

VARIABLES
    schPc,          \* the step that comes next
    schKey,         \* the signer's secret key, 0 for none
    schE,           \* the challenge of schSig.r, the signer and msg
    schSig,         \* sig64
    schPk,          \* pk32
    schForm,        \* how sig64 was made
    schMutated,     \* the buffers mutations were aimed at
    schCancel,      \* cancel_ok
    schVerdict,     \* how verification of sig64 under pk32 ended
    schTweak,       \* whether the tweak was applied, and what the checks found
    schCustom       \* how verification of the custom signature ended

schVars == <<schPc, schKey, schE, schSig, schPk, schForm, schMutated, schCancel,
             schVerdict, schTweak, schCustom>>

SchFuzzed  == -1
SchXOnly   == {p \in Keys : Even(p)} \cup {0}
SchZero    == [r |-> 0, s |-> 0]
SchAnySig  == [r |-> SchFuzzed, s |-> SchFuzzed]
SchEnds    == {"none", "unparsed", "s", "infinity", "x", "odd", "valid"}
NoTweak    == [ok |-> FALSE, first |-> FALSE, again |-> FALSE, same |-> FALSE]

SchTypeOK ==
    /\ schPc \in {"start", "sign", "turn", "cancel", "mutate", "parse", "tweak", "custom", "done"}
    /\ schKey \in Scalars /\ schE \in Scalars
    /\ schSig \in [r : SchXOnly, s : Bytes] \cup {SchAnySig}
    /\ schPk \in SchXOnly \cup {SchFuzzed}
    /\ schForm \in {"raw", "signed", "odd", "infinity"}
    /\ schMutated \subseteq {"sig", "msg", "pk"}
    /\ schTweak \in [ok : BOOLEAN, first : BOOLEAN, again : BOOLEAN, same : BOOLEAN]
    /\ schVerdict \in SchEnds /\ schCustom \in SchEnds
    /\ schCancel \in BOOLEAN

SchInit ==
    /\ schPc = "start" /\ schKey = 0 /\ schE = 0 /\ schSig = SchZero /\ schPk = 0
    /\ schForm = "raw" /\ schMutated = {} /\ schCancel = FALSE
    /\ schVerdict = "none" /\ schTweak = NoTweak /\ schCustom = "none"

schChecks == <<schVerdict, schTweak, schCustom>>

-----------------------------------------------------------------------------
(* BIP340. *)

(* How verifying sig under p with challenge e ends: s out of range, or the    *)
(* point s*G - e*P is infinity, has another x or an odd y; or it is the one.  *)
SchEnd(sig, e, p) ==
    LET R == Sum(sig.s, Negated(Product(e, p))) IN
    CASE sig.s = Order                          -> "s"
      [] sig.s # Order /\ R = 0                 -> "infinity"
      [] sig.s # Order /\ R # 0 /\ EvenY(R) # sig.r             -> "x"
      [] sig.s # Order /\ R # 0 /\ EvenY(R) = sig.r /\ ~Even(R) -> "odd"
      [] OTHER                                  -> "valid"

SchSigned(d, e, k) == [r |-> EvenY(k), s |-> Sum(EvenY(k), Product(e, EvenY(d)))]

(* secp256k1_xonly_pubkey_tweak_add_check: whether p and t make the point of  *)
(* this x and parity.                                                         *)
SchCommits(x, odd, p, t) ==
    AddOk(p, t) /\ EvenY(Sum(p, t)) = x /\ Even(Sum(p, t)) = ~odd

-----------------------------------------------------------------------------
(* Where the signature comes from. *)

SchRaw ==
    /\ schPc = "start" /\ schPc' = "mutate"
    /\ schPk' = SchFuzzed /\ schSig' = SchAnySig
    /\ UNCHANGED <<schKey, schE, schForm, schMutated, schCancel, schChecks>>

SchKeypair ==
    /\ schPc = "start" /\ schPc' = "sign"
    /\ schKey' \in Keys /\ schPk' = EvenY(schKey')
    /\ UNCHANGED <<schE, schSig, schForm, schMutated, schCancel, schChecks>>

(* The secret key is not valid: pk32 and sig64 stay zeros. *)
SchKeypairFails ==
    /\ schPc = "start" /\ schPc' = "mutate"
    /\ UNCHANGED <<schKey, schE, schSig, schPk, schForm, schMutated, schCancel, schChecks>>

(* The nonce and the challenge are hashes, taken not to be zero. *)
SchSign ==
    /\ schPc = "sign" /\ schPc' = "turn"
    /\ \E k \in Keys, e \in Keys : schE' = e /\ schSig' = SchSigned(schKey, e, k)
    /\ schForm' = "signed"
    /\ UNCHANGED <<schKey, schPk, schMutated, schCancel, schChecks>>

(* Neither SCHNORRSIG_ODD_R nor SCHNORRSIG_INFINITY_R. *)
SchKept ==
    /\ schPc = "turn" /\ schPc' = "cancel"
    /\ UNCHANGED <<schKey, schE, schSig, schPk, schForm, schMutated, schCancel, schChecks>>

(* Mutated SchEvenKey: the parity is not looked at. *)
SchSecretKey == schKey

(* schnorrsig_even_key: the signer's key, or its negation if y is odd. *)
SchEvenKey == IF Even(schKey) THEN schKey ELSE Negated(schKey)

(* schnorrsig_odd_r: 2ed - s, by three calls on secret keys. *)
SchOddS(ed, s) == Sum(Sum(ed, ed), Negated(s))

SchOddOk(ed, s) == AddOk(ed, ed) /\ s \in Keys /\ AddOk(Sum(ed, ed), Negated(s))

(* Mutated SchNotOdd: s was negated in place before the last call failed. *)
SchHalfOdd == [schSig EXCEPT !.s = Negated(@)]

(* A failing call leaves sig64 as it was. *)
SchNotOdd == schSig

SchOdd ==
    LET ed == Product(schE, SchEvenKey) IN
    /\ schPc = "turn" /\ schPc' = "cancel"
    /\ IF SchOddOk(ed, schSig.s)
       THEN schSig' = [schSig EXCEPT !.s = SchOddS(ed, @)] /\ schForm' = "odd"
       ELSE schSig' = SchNotOdd /\ UNCHANGED schForm
    /\ UNCHANGED <<schKey, schE, schPk, schMutated, schCancel, schChecks>>

(* The challenge that ed is made with is the one of r = 0. *)
SchInfinityE(e) == e

(* schnorrsig_infinity_r *)
SchInfinity ==
    /\ schPc = "turn" /\ schPc' = "cancel"
    /\ \E e \in Keys : schE' = e /\ schSig' = [r |-> 0, s |-> Product(SchInfinityE(e), SchEvenKey)]
    /\ schForm' = "infinity"
    /\ UNCHANGED <<schKey, schPk, schMutated, schCancel, schChecks>>

SchMakeCancel ==
    /\ schPc = "cancel" /\ schPc' = "mutate"
    /\ schCancel' \in BOOLEAN
    /\ UNCHANGED <<schKey, schE, schSig, schPk, schForm, schMutated, schChecks>>

-----------------------------------------------------------------------------
(* Mutations, then the checks. *)

SchAimed(buffer) == schMutated' = schMutated \cup {buffer}

SchMutateSig == schPc = "mutate" /\ schSig' = SchAnySig /\ SchAimed("sig")
    /\ UNCHANGED <<schPc, schKey, schE, schPk, schForm, schCancel, schChecks>>
SchMutateMsg == schPc = "mutate" /\ SchAimed("msg")
    /\ UNCHANGED <<schPc, schKey, schE, schSig, schPk, schForm, schCancel, schChecks>>
SchMutatePk == schPc = "mutate" /\ schPk' = SchFuzzed /\ SchAimed("pk")
    /\ UNCHANGED <<schPc, schKey, schE, schSig, schForm, schCancel, schChecks>>

SchMutationsEnd == schPc = "mutate" /\ schPc' = "parse"
    /\ UNCHANGED <<schKey, schE, schSig, schPk, schForm, schMutated, schCancel, schChecks>>

(* Parse the key and verify; a signature of other bytes has another challenge. *)
SchParse ==
    /\ schPc = "parse"
    /\ \E p \in (IF schPk = SchFuzzed THEN SchXOnly ELSE {schPk}) : schPk' = p
    /\ IF schPk' = 0 THEN schVerdict' = "unparsed" /\ schPc' = "custom" ELSE
       /\ schPc' = "tweak"
       /\ \E sig \in (IF schSig = SchAnySig THEN [r : SchXOnly, s : Bytes] ELSE {schSig}),
             e \in (IF schSig = SchAnySig \/ schMutated # {} \/ schForm = "raw"
                    THEN Scalars ELSE {schE}) :
            schVerdict' = SchEnd(sig, e, schPk')
    /\ UNCHANGED <<schKey, schE, schSig, schForm, schMutated, schCancel, schTweak, schCustom>>

(* The parity of the tweaked key (from_pubkey). *)
SchParity(q) == ~Even(q)

(* schnorrsig_record_tweak: apply, check, change the commitment, check. *)
SchTweakAdd ==
    /\ schPc = "tweak" /\ schPc' = "custom"
    /\ \E t \in (IF schCancel THEN {Negated(SchEvenKey)} ELSE Bytes) :
        IF ~AddOk(schPk, t)
        THEN schTweak' = [NoTweak EXCEPT !.first = SchCommits(schPk, FALSE, schPk, t)]
        ELSE LET q == Sum(schPk, t) IN
             \E x \in SchXOnly, odd \in BOOLEAN :
                schTweak' = [ok |-> TRUE,
                             first |-> SchCommits(EvenY(q), SchParity(q), schPk, t),
                             again |-> SchCommits(x, odd, schPk, t),
                             same  |-> x = EvenY(q) /\ odd = SchParity(q)]
    /\ UNCHANGED <<schKey, schE, schSig, schPk, schForm, schMutated, schCancel,
                   schVerdict, schCustom>>

(* The key the custom signature is verified under: signer. *)
SchCustomKey == EvenY(schKey)

(* keypair is NULL unless the input signed. *)
SchHasKeypair == schKey # 0

(* schnorrsig_record_custom.  How sig64 verifies on the other message is only *)
(* recorded.  sign_custom fails on a zero nonce, which only a fixed one is,   *)
(* and on an empty name; else its signature is verified, with one byte        *)
(* mutated or as it is.                                                       *)
SchSignCustom ==
    /\ schPc = "custom" /\ schPc' = "done"
    /\ \/ UNCHANGED schCustom              \* no keypair, failed, or mutated
       \/ /\ SchHasKeypair
          /\ \E k \in Keys, e \in Keys :
                schCustom' = SchEnd(SchSigned(schKey, e, k), e, SchCustomKey)
    /\ UNCHANGED <<schKey, schE, schSig, schPk, schForm, schMutated, schCancel, schVerdict, schTweak>>

SchNext ==
    \/ SchRaw \/ SchKeypair \/ SchKeypairFails \/ SchSign
    \/ SchKept \/ SchOdd \/ SchInfinity \/ SchMakeCancel
    \/ SchMutateSig \/ SchMutateMsg \/ SchMutatePk \/ SchMutationsEnd
    \/ SchParse \/ SchTweakAdd \/ SchSignCustom

SchSpec == SchInit /\ [][SchNext]_schVars

-----------------------------------------------------------------------------
(* Properties. *)

SchChecked(form) == schForm = form /\ schMutated = {} /\ schVerdict # "none"

(* "valid signatures are produced first and then mutated" (head of            *)
(* schnorrsig.c): without a mutation the signature is valid under the key.    *)
HonestVerifies == SchChecked("signed") => schVerdict = "valid"

(* "(r, 2ed - s), which verification computes as -R: the right x with an odd  *)
(* y, which BIP340 rejects" (schnorrsig_odd_r): rejected for that alone.      *)
OddRejected == SchChecked("odd") => schVerdict = "odd"

(* "(0, ed), which verification computes as ... infinity, which BIP340        *)
(* rejects" (schnorrsig_infinity_r).                                          *)
InfinityRejected == SchChecked("infinity") => schVerdict = "infinity"

(* "the negated key of internal, so the sum is infinity"                      *)
(* (schnorrsig_record_tweak): the tweak fails, unless pk32 became another key. *)
CancelTweakFails == schCancel /\ "pk" \notin schMutated => ~schTweak.ok

(* The commitment of a tweak that was applied is accepted, and is not once it *)
(* was changed; "one at least the order, or one summing to infinity, commits  *)
(* to no key" (schnorrsig_record_tweak).                                      *)
CommitmentChecked ==
    /\ schTweak.first = schTweak.ok
    /\ schTweak.ok => (schTweak.again <=> schTweak.same)

(* What sign_custom signs under any of its nonce functions verifies under the *)
(* signer's key, whatever became of pk32 (schnorrsig_record_custom).          *)
CustomVerifies == schCustom \in {"none", "valid"}

(* What the target signs verifies, and what it derives from that is rejected  *)
(* for the one reason it was derived for.                                     *)
VerifiesAsMade == HonestVerifies /\ OddRejected /\ InfinityRejected /\ CustomVerifies

(* schnorrsig_record_tweak: a tweak that cancels the key fails, and the       *)
(* commitment check accepts what a tweak gave, unchanged, and nothing else.   *)
TweakChecked == CancelTweakFails /\ CommitmentChecked
=============================================================================
