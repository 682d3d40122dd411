---------------------------- MODULE EcdsaTarget ----------------------------
(***************************************************************************)
(* src/targets/ecdsa.c: target_ecdsa.  A signature is signed, constructed  *)
(* or taken from the input, then encoded, mutated, parsed three ways and   *)
(* verified.  A buffer whose bytes are the input's is Fuzzed until the     *)
(* library looks at it.  EcdsaDer has the lengths of the DER buffer.       *)
(***************************************************************************)
EXTENDS Ecdsa

VARIABLES
    pc,         \* the step that comes next
    msg,        \* as a scalar, or Fuzzed
    seckey,     \* ECDSA_SIGN's
    nonces,     \* struct ecdsa_nonce: the first fixed nonce, n_fixed, fail_at
    counter,    \* the attempt
    pk,         \* pkser: the key it parses to, 0 when it does not parse, or Fuzzed
    sig,        \* sig64
    der,        \* the DER buffer, and the signature it encodes
    origin,     \* how sig64 was made, and the point R it was constructed from
    zeroed,     \* msg was chosen to make the first fixed nonce give s = 0
    mutated,    \* the buffers mutations were aimed at
    verdict     \* per parser, whether it parsed, and what verified

vars == <<pc, msg, seckey, nonces, counter, pk, sig, der, origin, zeroed, mutated, verdict>>

Parsers == {"compact", "strict", "lax"}
Stages  == {"start", "nonce", "attempt", "encode", "mutate", "tail", "pubkey", "done"} \cup Parsers
NoNonces == [first |-> 0, nFixed |-> 0, failAt |-> 3]
NoDer    == [form |-> "empty", sig |-> ZeroSig]
Input    == [by |-> "input", R |-> 0]

AnyOf(x, S) == IF x = Fuzzed THEN S ELSE {x}

TypeOK ==
    /\ pc \in Stages /\ msg \in Scalars \cup {Fuzzed} /\ seckey \in Scalars
    /\ nonces \in [first : Bytes, nFixed : 0..2, failAt : 0..3] /\ counter \in 0..3
    /\ pk \in Scalars \cup {Fuzzed} /\ sig \in SigBytes \cup {FuzzedSig}
    /\ der \in [form : {"empty", "encoded", "tailed", "fuzzed"}, sig : Sigs]
    /\ origin \in [by : {"input", "signed", "constructed"}, R : Scalars]
    /\ mutated \subseteq {"sig", "msg", "pk", "der"}
    /\ verdict \in [Parsers -> SUBSET {"parsed", "sig", "low"}]
    /\ zeroed \in BOOLEAN

Init ==
    /\ pc = "start" /\ msg \in Scalars /\ seckey = 0
    /\ nonces = NoNonces /\ counter = 0
    /\ pk = 0 /\ sig = ZeroSig /\ der = NoDer
    /\ origin = Input /\ zeroed = FALSE /\ mutated = {}
    /\ verdict = [p \in Parsers |-> {}]

-----------------------------------------------------------------------------
(* Where the signature comes from. *)

Raw ==
    /\ pc = "start" /\ pc' = "encode"
    /\ pk' = Fuzzed /\ sig' = FuzzedSig
    /\ UNCHANGED <<msg, seckey, nonces, counter, der, origin, zeroed, mutated, verdict>>

(* Mutated ConstructedKey: z*G is added. *)
UnsubtractedKey(R, r, s, z) == Over(Sum(Product(s, R), z), r)

(* P = r^-1 (s*R - z*G), infinity when r has no inverse. *)
ConstructedKey(R, r, s, z) == Over(Sum(Product(s, R), Negated(z)), r)

(* ecdsa_construct.  R is a point of the curve with x mod n as r, or infinity *)
(* with the input's r; the input's scalars are reduced, so they are any.      *)
Construct ==
    /\ pc = "start" /\ pc' = "encode"
    /\ \E R \in Scalars, r \in Scalars, s \in Scalars :
        LET P == ConstructedKey(R, r, s, msg) IN
        /\ R # 0 => r = XMod[R]
        /\ P # 0
        /\ pk' = P /\ sig' = [r |-> r, s |-> s]
        /\ origin' = [by |-> "constructed", R |-> R]
    /\ UNCHANGED <<msg, seckey, nonces, counter, der, zeroed, mutated, verdict>>

(* R or P is not a point: pkser stays zeros, sig64 the input's. *)
ConstructFails ==
    /\ pc = "start" /\ pc' = "encode" /\ sig' = FuzzedSig
    /\ UNCHANGED <<msg, seckey, nonces, counter, pk, der, origin, zeroed, mutated, verdict>>

(* ECDSA_SIGN: the public key; without one nothing is signed. *)
CreateKey ==
    /\ pc = "start"
    /\ seckey' \in Scalars /\ pk' = seckey'
    /\ pc' = IF seckey' \in Keys THEN "nonce" ELSE "encode"
    /\ UNCHANGED <<msg, nonces, counter, sig, der, origin, zeroed, mutated, verdict>>

(* Mutated ZeroSMsg: r*d is not negated. *)
PositiveSMsg(d, k) == Product(XMod[k], d)

(* ecdsa_zero_s: the message -r*d that nonce k signs with s = 0. *)
ZeroSMsg(d, k) == Negated(Product(XMod[k], d))

(* n_fixed, of the flags' low bits. *)
FixedOf(bits) == bits % 3

(* Signing by the library's own nonces: none fixed, none failing. *)
SignDefault ==
    /\ pc = "nonce" /\ pc' = "attempt"
    /\ UNCHANGED <<msg, seckey, nonces, counter, pk, sig, der, origin, zeroed, mutated, verdict>>

(* Writing the message is what ECDSA_NONCE_ZERO_S asks, if the nonce is one. *)
ZeroS(first, zero) ==
    /\ zeroed' = (zero /\ first \in Keys)
    /\ msg' = IF zeroed' THEN ZeroSMsg(seckey, first) ELSE msg

(* ecdsa_sign_nonce *)
SignNonce ==
    /\ pc = "nonce" /\ pc' = "attempt"
    /\ \E first \in Bytes, bits \in 0..3, failAt \in 0..3, zero \in BOOLEAN :
        /\ nonces' = [first |-> first, nFixed |-> FixedOf(bits), failAt |-> failAt]
        /\ ZeroS(first, zero)
    /\ UNCHANGED <<seckey, counter, pk, sig, der, origin, mutated, verdict>>

(* ecdsa_nonce: a fixed nonce is any but the first; RFC6979's are taken to *)
(* sign, as all but a negligible share of its outputs do.                  *)
Offered ==
    IF counter < nonces.nFixed
    THEN IF counter = 0 THEN {nonces.first} ELSE Bytes
    ELSE {k \in Keys : Signs(msg, seckey, k)}

Attempt ==
    /\ pc = "attempt" /\ counter # nonces.failAt
    /\ \E k \in Offered :
        IF Signs(msg, seckey, k)
        THEN /\ sig' = SignWith(msg, seckey, k)
             /\ origin' = [by |-> "signed", R |-> 0]
             /\ pc' = "encode" /\ UNCHANGED counter
        ELSE counter' = counter + 1 /\ UNCHANGED <<pc, sig, origin>>
    /\ UNCHANGED <<msg, seckey, nonces, pk, der, zeroed, mutated, verdict>>

(* The nonce function fails, so signing does, and sig64 stays zeros. *)
AttemptFails ==
    /\ pc = "attempt" /\ counter = nonces.failAt /\ pc' = "encode"
    /\ UNCHANGED <<msg, seckey, nonces, counter, pk, sig, der, origin, zeroed, mutated, verdict>>

-----------------------------------------------------------------------------
(* The encoding and the mutations. *)

Parses(bytes) == bytes.r # Order /\ bytes.s # Order

(* Signing is over: seckey, its nonces and msg's past are not looked at again. *)
Encode ==
    /\ pc = "encode" /\ pc' = "mutate"
    /\ seckey' = 0 /\ nonces' = NoNonces /\ counter' = 0 /\ zeroed' = FALSE
    /\ \/ UNCHANGED der
       \/ der' = [form |-> "fuzzed", sig |-> ZeroSig]           \* ECDSA_DER_BUILD, or of fuzzed bytes
       \/ sig # FuzzedSig /\ Parses(sig) /\ der' = [form |-> "encoded", sig |-> sig]
    /\ UNCHANGED <<msg, pk, sig, origin, mutated, verdict>>

Aimed(buffer) == mutated' = mutated \cup {buffer}

(* Mutated MutateSig: without its break. *)
MutateSigAndMsg ==
    /\ pc = "mutate" /\ sig' = FuzzedSig /\ msg' = Fuzzed /\ Aimed("sig")
    /\ UNCHANGED <<pc, seckey, nonces, counter, pk, der, origin, zeroed, verdict>>

MutateSig ==
    /\ pc = "mutate" /\ sig' = FuzzedSig /\ Aimed("sig")
    /\ UNCHANGED <<pc, msg, seckey, nonces, counter, pk, der, origin, zeroed, verdict>>

MutateMsg ==
    /\ pc = "mutate" /\ msg' = Fuzzed /\ Aimed("msg")
    /\ UNCHANGED <<pc, seckey, nonces, counter, pk, sig, der, origin, zeroed, verdict>>

MutatePk ==
    /\ pc = "mutate" /\ pk' = Fuzzed /\ Aimed("pk")
    /\ UNCHANGED <<pc, msg, seckey, nonces, counter, sig, der, origin, zeroed, verdict>>

(* An XOR, which an empty buffer does not have, or an insertion. *)
MutateDer ==
    /\ pc = "mutate" /\ der' = [form |-> "fuzzed", sig |-> ZeroSig] /\ Aimed("der")
    /\ UNCHANGED <<pc, msg, seckey, nonces, counter, pk, sig, origin, zeroed, verdict>>

MutationsEnd == pc = "mutate" /\ pc' = "tail" /\ UNCHANGED
    <<msg, seckey, nonces, counter, pk, sig, der, origin, zeroed, mutated, verdict>>

(* The rest of the input, if there is any, goes behind the encoding. *)
AddTail ==
    /\ pc = "tail" /\ pc' = "pubkey"
    /\ \/ UNCHANGED der
       \/ der' = [der EXCEPT !.form = IF @ \in {"encoded", "tailed"} THEN "tailed" ELSE "fuzzed"]
    /\ UNCHANGED <<msg, seckey, nonces, counter, pk, sig, origin, zeroed, mutated, verdict>>

-----------------------------------------------------------------------------
(* The checks. *)

ParsePubkey ==
    /\ pc = "pubkey" /\ pc' = "compact"
    /\ pk' \in AnyOf(pk, Scalars)
    /\ UNCHANGED <<msg, seckey, nonces, counter, sig, der, origin, zeroed, mutated, verdict>>

(* What a parser may make of its buffer; no member of Sigs if it fails.  Only *)
(* the strict parser minds what follows the encoding.                         *)
Failed == [r |-> Order, s |-> Order]
ParsedBy(parser) ==
    CASE parser = "compact" -> IF sig = FuzzedSig THEN Sigs \cup {Failed} ELSE {sig}
      [] parser # "compact" /\ der.form = "encoded" -> {der.sig}
      [] parser # "compact" /\ der.form = "tailed"  -> {IF parser = "lax" THEN der.sig ELSE Failed}
      [] parser # "compact" /\ der.form = "fuzzed"  -> Sigs \cup {Failed}
      [] parser # "compact" /\ der.form = "empty"   -> {Failed}

(* Parse, normalize, and with a key that parsed verify both forms             *)
(* (ecdsa_record_checks).                                                     *)
Check(parser, next) ==
    /\ pc = parser /\ pc' = next
    /\ \E s \in ParsedBy(parser), z \in AnyOf(msg, Scalars) :
        /\ verdict' = [verdict EXCEPT ![parser] =
              IF ~Parses(s) THEN {}
              ELSE {"parsed"}
                   \cup {f \in {"sig"} : pk # 0 /\ Verify(s, z, pk)}
                   \cup {f \in {"low"} : pk # 0 /\ Verify(Normalized(s), z, pk)}]
        /\ msg' = z
    /\ UNCHANGED <<seckey, nonces, counter, pk, sig, der, origin, zeroed, mutated>>

CheckCompact == Check("compact", "strict")
CheckStrict  == Check("strict", "lax")
CheckLax     == Check("lax", "done")

Next ==
    \/ Raw \/ Construct \/ ConstructFails \/ CreateKey
    \/ SignDefault \/ SignNonce \/ Attempt \/ AttemptFails
    \/ Encode \/ MutateSig \/ MutateMsg \/ MutatePk \/ MutateDer \/ MutationsEnd \/ AddTail
    \/ ParsePubkey \/ CheckCompact \/ CheckStrict \/ CheckLax

Spec == Init /\ [][Next]_vars

-----------------------------------------------------------------------------
(* Properties. *)

Untouched(buffers) == mutated \cap buffers = {}
Seen(parser) ==
    \/ pc = "done"
    \/ pc = "lax" /\ parser # "lax"
    \/ pc = "strict" /\ parser = "compact"

(* "Signing yields valid signatures that the mutations then perturb" (head of *)
(* ecdsa.c): what no mutation was aimed at verifies as it was signed, through *)
(* retries, a message rewritten by ecdsa_zero_s and either way of parsing.    *)
SignedVerifies ==
    origin.by = "signed" /\ Untouched({"msg", "pk"}) =>
        /\ Untouched({"sig"}) /\ Seen("compact") =>
               {"sig", "low"} \subseteq verdict["compact"]
        /\ der.form = "encoded" /\ Untouched({"der"}) /\ Seen("strict") =>
               {"sig", "low"} \subseteq verdict["strict"]
        /\ der.form \in {"encoded", "tailed"} /\ Untouched({"der"}) /\ Seen("lax") =>
               {"sig", "low"} \subseteq verdict["lax"]

(* "verifying sig64 on msg against P recomputes exactly R" (ecdsa_construct): *)
(* so it verifies unless R is infinity or s is zero, once s is low.           *)
ConstructedVerifies ==
    origin.by = "constructed" /\ mutated = {} /\ Seen("compact") =>
        /\ "low" \in verdict["compact"] <=> origin.R # 0 /\ sig.s # 0
        /\ "sig" \in verdict["compact"] <=> origin.R # 0 /\ sig.s # 0 /\ ~High(sig.s)

(* Signing "retries until the nonce function gives a nonce that signs"        *)
(* (struct ecdsa_nonce).  The first fixed nonce signs nothing under the       *)
(* message ecdsa_zero_s chose for it ("must retry"), the second may; fixed[]  *)
(* has two, fail_at "3 is never reached" whatever nonces are bad, and a       *)
(* signing that fails does so at fail_at.                                     *)
RetriesEnd ==
    /\ zeroed /\ nonces.nFixed > 0 /\ origin.by = "signed" => counter > 0
    /\ counter < nonces.nFixed => counter < 2
    /\ nonces.failAt = 3 => counter < nonces.failAt
    /\ pc = "encode" /\ seckey \in Keys /\ sig = ZeroSig => counter = nonces.failAt
=============================================================================
