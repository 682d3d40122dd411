-------------------------- MODULE TranscriptBudget --------------------------
(***************************************************************************)
(* src/transcript.h, and every target of src/targets as the bytes it puts  *)
(* into the transcript: the loops of the register machines (field.c,       *)
(* scalar.c, keys.c, group.c) with what they take from the input           *)
(* (reader.h), the other targets as one pass.  Names carry the prefix tr   *)
(* so that FieldMachineProofs can extend this module beside FieldMachine.  *)
(***************************************************************************)
EXTENDS Integers

CONSTANTS
    TrInputs,   \* lengths of the input
    TrPuts      \* per target, the bytes an op, or its pass, may record

Machines == {"field", "scalar", "keys", "group"}
Passes   == {"ecdsa", "recovery", "schnorrsig", "ellswift", "musig", "silentpayments"}
Targets  == Machines \cup Passes

TrInputMax == 4096                  \* DIFFSECP_INPUT_MAX
TrCap      == 262144                \* DIFFSECP_TRANSCRIPT_MAX, 1 << 18

(* FIELD_MAX_OPS, SCALAR_MAX_OPS, KEYS_MAX_OPS, GROUP_MAX_OPS *)
TrMaxOps == [field |-> 1024, scalar |-> 1024, keys |-> 64, group |-> 32,
             ecdsa |-> 1, recovery |-> 1, schnorrsig |-> 1, ellswift |-> 1, musig |-> 1,
             silentpayments |-> 1]

(* The bytes of an op: its number, what the longest op records beside its     *)
(* destination, and the destination.                                          *)
TrFieldOp  == 1 + 7 * 4 + 32                                    \* FIELD_QUERY
TrScalarOp == 1 + 32 + 32                                       \* SCALAR_SPLIT_128
TrKeysOp   == 1 + (4 + 32 + 4 + 64 + 4 + 32 + 4) + (32 + 4 + 33)  \* KEYS_ECDH
TrGroupOp  == 1 + 2 * 4 * (1 + 2 * 32) + (1 + 2 * 32)           \* GROUP_BATCH_AFFINE

(* The bytes of a pass that nothing ends early, in the order of its steps:    *)
(* a result, a compressed public key, a key in both forms.                    *)
TrInt  == 4
TrKey  == 33
TrKeys == 33 + 65

(* A signature, then the checks on it and on its normalized form. *)
TrSig    == TrInt + 72 + 2 * TrInt + 64
TrChecks == TrSig + 2 * TrInt + TrSig + 2 * TrInt

(* Signing through ecdsa_nonce, the key, then the three parsers. *)
TrEcdsa == (3 * TrInt + 64) + TrInt + (TrInt + TrKeys) + 3 * (TrInt + TrChecks)

TrRecovery == (TrInt + 64 + TrInt) + TrInt + (64 + TrInt + 64 + TrInt + TrKeys + 3 * TrInt)

(* Signing, odd_r or infinity_r, the tweak that cancels; verification, then   *)
(* record_tweak and record_custom.                                            *)
TrSchnorrsig ==
    (2 * TrInt + 32 + TrInt + 64) + (TrInt + 64) + TrInt + 2 * TrInt
      + (3 * TrInt + 32 + 2 * TrInt) + (2 * TrInt + 64 + TrInt)

(* Decoding, the inverse, encoding, two parties, two secrets, the raw x. *)
TrEllswift ==
    (TrInt + TrKey) + (2 * TrInt + 32) + (TrInt + 64 + TrInt + TrKey)
      + 2 * (TrInt + 64) + 2 * (TrInt + 32) + 2 * (TrInt + 32)

MUSIG_MAX_SIGNERS == 3

(* Keys and their aggregation, two tweaks; nonces and theirs; partial         *)
(* signatures, the fuzzed one, the final one.                                 *)
TrMusig ==
    MUSIG_MAX_SIGNERS * TrInt + 2 * TrInt + 32 + TrInt + TrKey + TrInt
      + 2 * (TrInt + TrInt + TrKey)
      + MUSIG_MAX_SIGNERS * (TrInt + 66) + 3 * TrInt + 66 + TrInt
      + MUSIG_MAX_SIGNERS * (TrInt + 32 + TrInt) + 2 * TrInt + (TrInt + 64 + 2 * TrInt)

SP_MAX_INPUTS     == 3
SP_MAX_RECIPIENTS == 3

(* What a scan records; it finds no more than was sent (FoundBound in         *)
(* SilentPaymentsProofs), however long the transaction.                       *)
TrScan == 2 * TrInt + SP_MAX_RECIPIENTS * (32 + 32 + TrInt + TrKey)

(* The raw label, inputs, scan and spend keys; the label, the one that        *)
(* cancels, the foreign key; the outputs and the twin; the summary, the scan, *)
(* the limit.                                                                 *)
TrSilentPayments ==
    (TrInt + TrKey) + SP_MAX_INPUTS * TrInt + 2 * TrInt
      + (TrInt + TrKey + 32 + TrInt + TrKey) + 2 * TrInt + TrInt
      + (TrInt + SP_MAX_RECIPIENTS * 32) + (TrInt + 32) + TrInt + TrScan + (TrInt + TrScan)

TrMost == [field |-> TrFieldOp, scalar |-> TrScalarOp, keys |-> TrKeysOp, group |-> TrGroupOp,
           ecdsa |-> TrEcdsa, recovery |-> TrRecovery, schnorrsig |-> TrSchnorrsig,
           ellswift |-> TrEllswift, musig |-> TrMusig, silentpayments |-> TrSilentPayments]

ASSUME TrAssumption ==
    /\ TrInputs \subseteq 0..TrInputMax
    /\ TrPuts \in [Targets -> SUBSET Nat]
    /\ \A m \in Targets : \A n \in TrPuts[m] : n <= TrMost[m]

VARIABLES
    trTarget,
    trLeft,     \* bytes of the input not taken
    trOps,      \* i, the ops done, or whether the pass is
    trLen,      \* bytes in the transcript
    trAborted   \* transcript_put did not have the room

trVars == <<trTarget, trLeft, trOps, trLen, trAborted>>

TrTypeOK ==
    /\ trTarget \in Targets /\ trLeft \in 0..TrInputMax /\ trOps \in Nat
    /\ trLen \in 0..TrCap /\ trAborted \in BOOLEAN

TrInit ==
    /\ trTarget \in Targets /\ trLeft \in TrInputs
    /\ trOps = 0 /\ trLen = 0 /\ trAborted = FALSE

(* Mutated TrMore: without its first half. *)
TrMoreInput == trLeft > 0

(* The loops' condition, i < MAX_OPS && !reader_empty(&r); a pass needs no    *)
(* input.                                                                     *)
TrMore == trOps < TrMaxOps[trTarget] /\ (trLeft > 0 \/ trTarget \in Passes)

(* What two calls of reader_u8 leave. *)
TrTaken == IF trLeft > 2 THEN trLeft - 2 ELSE 0

(* An op takes its number and its selector, and more the longer it is; taking *)
(* the fewest does the most ops.  transcript_put aborts when it does not fit. *)
(* Of a pass this is all, and what it leaves of the input is never looked at. *)
TrOp ==
    /\ ~trAborted /\ TrMore
    /\ trLeft' = TrTaken
    /\ \E n \in TrPuts[trTarget] :
        IF n > TrCap - trLen
        THEN trAborted' = TRUE /\ UNCHANGED trLen
        ELSE trLen' = trLen + n /\ UNCHANGED trAborted
    /\ trOps' = trOps + 1
    /\ UNCHANGED trTarget

TrSpec == TrInit /\ [][TrOp]_trVars

-----------------------------------------------------------------------------
(* "Targets bound their output by DIFFSECP_INPUT_MAX; overflowing is a        *)
(* harness bug" (transcript_put): it never does, for any input the fuzzer     *)
(* accepts.                                                                   *)
NeverOverflows == ~trAborted

(* Why it does not: no op records more than its share of the transcript.      *)
TrWithinOps == trLen <= trOps * TrMost[trTarget] /\ trOps <= TrMaxOps[trTarget]
=============================================================================
