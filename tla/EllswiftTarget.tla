--------------------------- MODULE EllswiftTarget ---------------------------
(***************************************************************************)
(* src/targets/ellswift.c: target_ellswift, the key exchange of two        *)
(* parties.  An encoding is kept as what made it and the point it decodes  *)
(* to.  ellswift_inv, on field elements, is in EllswiftInv.  Names carry   *)
(* the prefix ell so that KeysMachineProofs can extend this module beside  *)
(* KeysMachine.                                                            *)
(***************************************************************************)
EXTENDS PrimeGroup

VARIABLES
    ellPc,          \* the step that comes next
    ellSeckey,      \* seckey[2]
    ellFuzzed,      \* the point the input's encoding decodes to
    ellPk,          \* pk, decoded last
    ellFuzzPeer,    \* ELLSWIFT_FUZZ_PEER was taken
    ellOurs,        \* ours[2]
    ellShared,      \* the session secret each party derived
    ellRaw          \* the secret hashed from party 0's bare x

ellVars == <<ellPc, ellSeckey, ellFuzzed, ellPk, ellFuzzPeer, ellOurs, ellShared, ellRaw>>

Parties == 0..1
EllMakers == {"unset", "fuzzed", "encoded", "party0", "party1"}
EllEncodings == [by : EllMakers, point : Scalars]
EllUnset == [by |-> "unset", point |-> 0]
EllFuzz  == [by |-> "fuzzed", point |-> ellFuzzed]

(* A secret: a hash of the shared x and both encodings; x = 0 for none. *)
EllSecrets == [x : Scalars, a : EllEncodings, b : EllEncodings]
EllNone == [x |-> 0, a |-> EllUnset, b |-> EllUnset]

EllTypeOK ==
    /\ ellPc \in {"encode", "own0", "own1", "xdh0", "xdh1", "raw", "done"}
    /\ ellSeckey \in [Parties -> Bytes] /\ ellFuzzed \in Keys /\ ellPk \in Keys
    /\ ellFuzzPeer \in BOOLEAN
    /\ ellOurs \in [Parties -> EllEncodings]
    /\ ellShared \in [Parties -> EllSecrets] /\ ellRaw \in EllSecrets

(* "Every 64-byte string decodes to a point." *)
EllInit ==
    /\ ellPc = "encode" /\ ellSeckey \in [Parties -> Bytes]
    /\ ellFuzzed \in Keys /\ ellPk = ellFuzzed
    /\ ellFuzzPeer = FALSE
    /\ ellOurs = [p \in Parties |-> EllUnset]
    /\ ellShared = [p \in Parties |-> EllNone] /\ ellRaw = EllNone

EllNotEncoded ==
    /\ ellPc = "encode" /\ ellPc' = "own0"
    /\ UNCHANGED <<ellSeckey, ellFuzzed, ellPk, ellFuzzPeer, ellOurs, ellShared, ellRaw>>

(* ELLSWIFT_ENCODE: ours[0] is the scratch that holds the new encoding. *)
EllEncode ==
    /\ ellPc = "encode" /\ ellPc' = "own0"
    /\ ellOurs' = [ellOurs EXCEPT ![0] = [by |-> "encoded", point |-> ellPk]]
    /\ ellPk' = ellOurs'[0].point
    /\ UNCHANGED <<ellSeckey, ellFuzzed, ellFuzzPeer, ellShared, ellRaw>>

(* Mutated EllOwn: without the fallback. *)
EllOwnOrOld(p, by) ==
    IF ellSeckey[p] \in Keys THEN [by |-> by, point |-> ellSeckey[p]] ELSE ellOurs[p]

(* ellswift_own_encoding *)
EllOwn(p, by) ==
    IF ellSeckey[p] \in Keys THEN [by |-> by, point |-> ellSeckey[p]] ELSE EllFuzz

EllOwn0 ==
    /\ ellPc = "own0" /\ ellPc' = "own1"
    /\ ellOurs' = [ellOurs EXCEPT ![0] = EllOwn(0, "party0")]
    /\ UNCHANGED <<ellSeckey, ellFuzzed, ellPk, ellFuzzPeer, ellShared, ellRaw>>

EllOwn1 ==
    /\ ellPc = "own1" /\ ellPc' = "xdh0"
    /\ \/ ellOurs' = [ellOurs EXCEPT ![1] = EllOwn(1, "party1")] /\ UNCHANGED ellFuzzPeer
       \/ ellOurs' = [ellOurs EXCEPT ![1] = EllFuzz] /\ ellFuzzPeer' = TRUE
    /\ UNCHANGED <<ellSeckey, ellFuzzed, ellPk, ellShared, ellRaw>>

(* The x both keys share, of the other's encoding and one's own secret key. *)
EllX(p) ==
    IF ellSeckey[p] \in Keys
    THEN EvenY(Product(ellOurs[1 - p].point, ellSeckey[p])) ELSE 0

(* Both hash ours[0], then ours[1]. *)
EllHashed(p) == [x |-> EllX(p), a |-> ellOurs[0], b |-> ellOurs[1]]

EllXdh(p) ==
    ellShared' = [ellShared EXCEPT ![p] =
        IF ellSeckey[p] \in Keys THEN EllHashed(p) ELSE EllNone]

EllXdh0 == ellPc = "xdh0" /\ ellPc' = "xdh1" /\ EllXdh(0)
    /\ UNCHANGED <<ellSeckey, ellFuzzed, ellPk, ellFuzzPeer, ellOurs, ellRaw>>
EllXdh1 == ellPc = "xdh1" /\ ellPc' = "raw" /\ EllXdh(1)
    /\ UNCHANGED <<ellSeckey, ellFuzzed, ellPk, ellFuzzPeer, ellOurs, ellRaw>>

(* ellswift_raw_x derives party 0's x. *)
EllRawParty == 0

EllRawX ==
    /\ ellPc = "raw" /\ ellPc' = "done"
    /\ ellRaw' = IF ellSeckey[EllRawParty] \in Keys
                 THEN [x |-> EllX(EllRawParty), a |-> ellOurs[0], b |-> ellOurs[1]]
                 ELSE EllNone
    /\ UNCHANGED <<ellSeckey, ellFuzzed, ellPk, ellFuzzPeer, ellOurs, ellShared>>

EllNoRaw == ellPc = "raw" /\ ellPc' = "done"
    /\ UNCHANGED <<ellSeckey, ellFuzzed, ellPk, ellFuzzPeer, ellOurs, ellShared, ellRaw>>

EllNext ==
    \/ EllNotEncoded \/ EllEncode \/ EllOwn0 \/ EllOwn1
    \/ EllXdh0 \/ EllXdh1 \/ EllRawX \/ EllNoRaw

EllSpec == EllInit /\ [][EllNext]_ellVars

-----------------------------------------------------------------------------
(* Properties. *)

(* "Both peers derive the session secret; with honest encodings they agree."  *)
(* (target_ellswift)                                                          *)
SecretsAgree ==
    ellPc \in {"raw", "done"} /\ (\A p \in Parties : ellSeckey[p] \in Keys) /\ ~ellFuzzPeer =>
        ellShared[0] # EllNone /\ ellShared[0] = ellShared[1]

(* "any 64 bytes are a valid encoding to hand the peer"                       *)
(* (ellswift_own_encoding): a party whose peer's key is invalid derives the   *)
(* secret it shares with the input's point, and never with what the re-encode *)
(* step left in ours[0].                                                      *)
FallbackHanded ==
    ellPc \in {"raw", "done"} => \A p \in Parties :
        ellSeckey[p] \in Keys /\ ellSeckey[1 - p] \notin Keys =>
            /\ ellShared[p].x = EvenY(Product(ellFuzzed, ellSeckey[p]))
            /\ "encoded" \notin {ellShared[p].a.by, ellShared[p].b.by}

(* "hashed by the exported hashfp outside any context, which must give the    *)
(* session secret" (ellswift_raw_x), of whatever encodings were exchanged.    *)
RawGivesSecret == ellRaw # EllNone => ellRaw = ellShared[0]

(* Every way to the session secret leads to the same one, from encodings a    *)
(* party made or the input's, and from no others.                             *)
SessionSecrets == SecretsAgree /\ FallbackHanded /\ RawGivesSecret
=============================================================================
