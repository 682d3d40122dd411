--------------------------- MODULE RecoveryTarget ---------------------------
(***************************************************************************)
(* src/targets/recovery.c: target_recovery.  A recoverable signature is    *)
(* signed or taken from the input, mutated, parsed and recovered from.  As *)
(* in EcdsaTarget a buffer the input wrote is Fuzzed until it is parsed.   *)
(***************************************************************************)
EXTENDS Ecdsa

VARIABLES
    recPc, recMsg,
    recSigner,     \* the key that signed, 0 for none
    recSig, recId, \* sig64, and the id as its four bits' integer
    recMutated,    \* whether a mutation happened
    recKey,        \* the recovered key, 0 when recovery failed
    recChecks      \* what verified under it

recVars == <<recPc, recMsg, recSigner, recSig, recId, recMutated, recKey, recChecks>>

(* An id's bit 0 is the oddness of R's y, bit 1 whether its x is at least n. *)
IdOf(r)  == (IF r.odd THEN 1 ELSE 0) + (IF r.above THEN 2 ELSE 0)
Meant(n) == [odd |-> n % 2 = 1, above |-> (n \div 2) % 2 = 1]

(* "recid outside 0..3 is an illegal argument, and the mutations keep it      *)
(* inside" (target_recovery).                                                 *)
RecTypeOK ==
    /\ recPc \in {"start", "mutate", "parse", "recover", "done"}
    /\ recMsg \in Scalars \cup {Fuzzed} /\ recSigner \in Scalars
    /\ recSig \in SigBytes \cup {FuzzedSig} /\ recId \in 0..3
    /\ recKey \in Scalars /\ recChecks \subseteq {"sig", "low"}
    /\ recMutated \in BOOLEAN

RecInit ==
    /\ recPc = "start" /\ recMsg \in Scalars /\ recSigner = 0 /\ recSig = ZeroSig /\ recId = 0
    /\ recMutated = FALSE /\ recKey = 0 /\ recChecks = {}

(* The id serialize_compact returns with a signature. *)
SignedId(z, d, k) == IdOf(RecidOf(z, d, k))

(* The library's nonce is RFC6979's, taken to sign. *)
RecSign ==
    /\ recPc = "start" /\ recPc' = "mutate"
    /\ \E d \in Keys, k \in Keys :
        /\ Signs(recMsg, d, k)
        /\ recSigner' = d /\ recSig' = SignWith(recMsg, d, k) /\ recId' = SignedId(recMsg, d, k)
    /\ UNCHANGED <<recMsg, recMutated, recKey, recChecks>>

(* The secret key is invalid: sig64 and recid stay zero. *)
RecSignFails ==
    /\ recPc = "start" /\ recPc' = "mutate"
    /\ UNCHANGED <<recMsg, recSigner, recSig, recId, recMutated, recKey, recChecks>>

(* Mutated IdRead: the byte as it is, in one more bit. *)
IdUnmasked == 0..7

IdRead == 0..3

RecRaw ==
    /\ recPc = "start" /\ recPc' = "mutate"
    /\ recSig' = FuzzedSig /\ recId' \in IdRead
    /\ UNCHANGED <<recMsg, recSigner, recMutated, recKey, recChecks>>

RecMutateSig ==
    /\ recPc = "mutate" /\ recSig' = FuzzedSig /\ recMutated' = TRUE
    /\ UNCHANGED <<recPc, recMsg, recSigner, recId, recKey, recChecks>>
RecMutateMsg ==
    /\ recPc = "mutate" /\ recMsg' = Fuzzed /\ recMutated' = TRUE
    /\ UNCHANGED <<recPc, recSigner, recSig, recId, recKey, recChecks>>

(* An XOR by mask & 3. *)
RecMutateId ==
    /\ recPc = "mutate" /\ recMutated' = TRUE
    /\ recId' \in {4 * (recId \div 4) + n : n \in 0..3}
    /\ UNCHANGED <<recPc, recMsg, recSigner, recSig, recKey, recChecks>>

RecMutationsEnd ==
    /\ recPc = "mutate" /\ recPc' = "parse"
    /\ UNCHANGED <<recMsg, recSigner, recSig, recId, recMutated, recKey, recChecks>>

(* A sig64 that does not parse ends the target. *)
RecParse ==
    /\ recPc = "parse"
    /\ \/ /\ recSig' \in (IF recSig = FuzzedSig THEN Sigs ELSE {recSig}) /\ recPc' = "recover"
       \/ recSig = FuzzedSig /\ UNCHANGED recSig /\ recPc' = "done"
    /\ UNCHANGED <<recMsg, recSigner, recId, recMutated, recKey, recChecks>>

(* Mutated Converted: normalized on the way. *)
ConvertedLow(s) == Normalized(s)

(* The plain signature a recoverable one is converted to. *)
Converted(s) == s

(* Recover, then verify what it recovered, as it is and with s low *)
(* (recovery_record_checks).                                       *)
Recover ==
    /\ recPc = "recover" /\ recPc' = "done"
    /\ \E z \in (IF recMsg = Fuzzed THEN Scalars ELSE {recMsg}) :
        LET keys == Recovered(recSig, Meant(recId), z)
            Forms(q) == {f \in {"sig"} : Verify(Converted(recSig), z, q)}
                        \cup {f \in {"low"} : Verify(Normalized(Converted(recSig)), z, q)}
        IN  /\ recMsg' = z
            /\ IF keys = {} THEN UNCHANGED <<recKey, recChecks>>
               ELSE \E q \in keys : recKey' = q /\ recChecks' = Forms(q)
    /\ UNCHANGED <<recSigner, recSig, recId, recMutated>>

RecNext ==
    \/ RecSign \/ RecSignFails \/ RecRaw
    \/ RecMutateSig \/ RecMutateMsg \/ RecMutateId \/ RecMutationsEnd
    \/ RecParse \/ Recover

RecSpec == RecInit /\ [][RecNext]_recVars

-----------------------------------------------------------------------------
(* Properties. *)

(* "Verify rejects high S, so check the normalized form too"                  *)
(* (recovery_record_checks): whatever was mutated, a key that is recovered is *)
(* one the normalized signature verifies under, and the signature itself      *)
(* exactly when its s is not high already.  "valid signatures are produced    *)
(* first" (head of recovery.c): without a mutation it is the signer's own,    *)
(* of the up to four that the r stands for.                                   *)
RecoveredVerifies ==
    /\ recKey # 0 => "low" \in recChecks /\ ("sig" \in recChecks <=> ~High(recSig.s))
    /\ recPc = "done" /\ recSigner # 0 /\ ~recMutated => recKey = recSigner
=============================================================================
