---------------------------- MODULE KeysMachine ----------------------------
(***************************************************************************)
(* src/targets/keys.c: the public key API as a register machine.  A        *)
(* register holds a secret key, which may be any value, and a public key,  *)
(* which may be used only while its pk_ok says that a call produced it.    *)
(*                                                                         *)
(* The library is external (PrimeGroup).  What a call that fails leaves in *)
(* its output is Unspecified.                                              *)
(***************************************************************************)
EXTENDS PrimeGroup

CONSTANT NRegs          \* KEYS_REGS

ASSUME KeysAssumption == NRegs \in Nat \ {0}

VARIABLES
    reg,        \* reg[x]: sk, pk and pk_ok
    legal,      \* no call was given an invalid public key or keypair
    exact       \* the transcript holds nothing unspecified

vars == <<reg, legal, exact>>

Regs     == 0..(NRegs - 1)
Unspecified == -1
Zeros    == 0                   \* a secret or public key wiped by memset

Register == [sk : Bytes, pk : {Zeros} \cup Keys, ok : BOOLEAN]

TypeOK ==
    /\ reg \in [Regs -> Register] /\ legal \in BOOLEAN /\ exact \in BOOLEAN
    /\ \A x \in Regs : reg[x].ok <=> reg[x].pk # Zeros

Init ==
    /\ reg = [x \in Regs |-> [sk |-> Zeros, pk |-> Zeros, ok |-> FALSE]]
    /\ legal = TRUE /\ exact = TRUE

-----------------------------------------------------------------------------
(* The harness. *)

(* The output of a library call. *)
Output(ok, v) == IF ok THEN v ELSE Unspecified

(* Public keys ks were passed to the library, values vs were recorded. *)
Passed(ks)   == IF ks \subseteq Keys THEN UNCHANGED legal ELSE legal' = FALSE
Recorded(vs) == IF Unspecified \in vs THEN exact' = FALSE ELSE UNCHANGED exact

(* Mutated SeckeyResult: the output of a failed call is kept. *)
SeckeyResultKept(ok, v) == Output(ok, v)

(* keys_seckey_result *)
SeckeyResult(ok, v) == IF ok THEN Output(ok, v) ELSE Zeros

(* Failed ops leave the object invalid, so it is wiped. *)
Wiped(res) == IF res.ok THEN res ELSE [res EXCEPT !.pk = Zeros]

(* The end of every op: the result lands in d and is recorded, with the     *)
(* values vs the op recorded itself, public keys ks having been passed.     *)
Commit(d, res, ks, vs) ==
    LET new == Wiped(res) IN
        /\ reg' = [reg EXCEPT ![d] = new]
        /\ Passed(ks \cup IF new.ok THEN {new.pk} ELSE {})
        /\ Recorded(vs \cup {new.sk} \cup IF new.ok THEN {new.pk} ELSE {})

WithSk(d, sk)    == [sk |-> sk, pk |-> reg[d].pk, ok |-> reg[d].ok]
WithPk(d, ok, x) == [sk |-> reg[d].sk, pk |-> Output(ok, x), ok |-> ok]

(* keys_take_tweak: input bytes, or b's secret key. *)
Tweaks(b) == Bytes \cup {reg[b].sk}

SeckeyLoad(d) == \E s \in Bytes : Commit(d, WithSk(d, s), {}, {})

SeckeyNegate(d, a) ==
    LET s == reg[a].sk
    IN  Commit(d, WithSk(d, SeckeyResult(s \in Keys, Negated(s))), {}, {})

SeckeyTweakAdd(d, a, b) == \E t \in Tweaks(b) :
    LET s == reg[a].sk
    IN  Commit(d, WithSk(d, SeckeyResult(AddOk(s, t), Sum(s, t))), {}, {})

SeckeyTweakMul(d, a) == \E t \in Bytes :
    LET s == reg[a].sk
    IN  Commit(d, WithSk(d, SeckeyResult(MulOk(s, t), Product(s, t))), {}, {})

PubkeyCreate(d, a) ==
    LET s == reg[a].sk IN Commit(d, WithPk(d, s \in Keys, s), {}, {})

PubkeyParse(d) ==
    \/ \E x \in Keys : Commit(d, WithPk(d, TRUE, x), {}, {})
    \/ Commit(d, WithPk(d, FALSE, Zeros), {}, {})

(* An op that reads a's public key leaves d as it was when a has none. *)
Skipped(d) == Commit(d, reg[d], {}, {})

(* Mutated PubkeyNegate: a's pk_ok is not looked at. *)
PubkeyNegateAny(d, a) ==
    LET x == reg[a].pk IN Commit(d, WithPk(d, x \in Keys, Negated(x)), {x}, {})

PubkeyNegate(d, a) ==
    LET x == reg[a].pk
    IN  IF reg[a].ok THEN Commit(d, WithPk(d, TRUE, Negated(x)), {x}, {}) ELSE Skipped(d)

PubkeyTweakAdd(d, a, b) == \E t \in Tweaks(b) :
    LET x == reg[a].pk
    IN  IF reg[a].ok THEN Commit(d, WithPk(d, AddOk(x, t), Sum(x, t)), {x}, {})
                     ELSE Skipped(d)

PubkeyTweakMul(d, a) == \E t \in Bytes :
    LET x == reg[a].pk
    IN  IF reg[a].ok THEN Commit(d, WithPk(d, MulOk(x, t), Product(x, t)), {x}, {})
                     ELSE Skipped(d)

(* The sum of the valid registers a mask picks: which sums can come out is  *)
(* the library's, so any, or the failure of a sum of zero.                  *)
PubkeyCombine(d) == \E mask \in SUBSET Regs :
    LET xs == {reg[x].pk : x \in {y \in mask : reg[y].ok}}
    IN  IF xs = {} THEN Skipped(d)
        ELSE \/ \E x \in Keys : Commit(d, WithPk(d, TRUE, x), xs, {})
             \/ Commit(d, WithPk(d, FALSE, Zeros), xs, {})

PubkeyCmp(d, a, b) ==
    Commit(d, reg[d], IF reg[a].ok /\ reg[b].ok THEN {reg[a].pk, reg[b].pk} ELSE {}, {})

(* keys_sort: the valid registers' keys, sorted and recorded. *)
PubkeySort(d) ==
    LET xs == {reg[x].pk : x \in {y \in Regs : reg[y].ok}} IN Commit(d, reg[d], xs, xs)

(* keys_keypair_tweak: a's keypair, its x-only key recorded, then tweaked;  *)
(* the tweak applies to the secret key of the even public key.              *)
KeypairTweak(d, a) == \E t \in Bytes :
    LET s == reg[a].sk
        e == EvenY(s)
        sum == Sum(e, t)
    IN  IF s \notin Keys THEN Skipped(d)
        ELSE IF AddOk(e, t)
          THEN Commit(d, [sk |-> sum, pk |-> sum, ok |-> TRUE], {s}, {e})
          ELSE Commit(d, reg[d], {s}, {e})

(* keys_xonly: x-only views of a and b, and a's tweaked into d. *)
XOnly(d, a, b) == \E t \in Bytes :
    LET x == reg[a].pk
        e == EvenY(x)
        ks == {x} \cup IF reg[b].ok THEN {reg[b].pk} ELSE {}
        sum == Sum(e, t)
    IN  IF ~reg[a].ok THEN Skipped(d)
        ELSE IF AddOk(e, t)
          THEN Commit(d, [sk |-> reg[d].sk, pk |-> sum, ok |-> TRUE], ks, {e})
          ELSE Commit(d, reg[d], ks, {e})

(* keys_ecdh records a hash or a point only if the call returned one. *)
Shared(ok, v) == IF ok THEN {Output(ok, v)} ELSE {}

Ecdh(d, a, b) ==
    LET x == reg[a].pk
        s == reg[b].sk
    IN  IF ~reg[a].ok THEN Skipped(d)
        ELSE Commit(d, reg[d], {x}, Shared(MulOk(x, s), Product(x, s)))

Next ==
    \E d, a, b \in Regs :
        \/ SeckeyLoad(d) \/ SeckeyNegate(d, a) \/ SeckeyTweakAdd(d, a, b)
        \/ SeckeyTweakMul(d, a) \/ PubkeyCreate(d, a) \/ PubkeyParse(d)
        \/ PubkeyNegate(d, a) \/ PubkeyTweakAdd(d, a, b) \/ PubkeyTweakMul(d, a)
        \/ PubkeyCombine(d) \/ PubkeyCmp(d, a, b) \/ PubkeySort(d)
        \/ KeypairTweak(d, a) \/ XOnly(d, a, b) \/ Ecdh(d, a, b)

Spec == Init /\ [][Next]_vars
-----------------------------------------------------------------------------
(* Properties. *)

(* Through any sequence of ops and any aliasing of their registers, the     *)
(* library is never passed a public key that no call produced: it would be  *)
(* an illegal argument ("never pass it on", keys.c).                        *)
CallsLegal == legal

(* Nothing a failed call left in its output is recorded: builds may differ  *)
(* in it, which would be reported as a divergence.                          *)
TranscriptExact == exact
=============================================================================
