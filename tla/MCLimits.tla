------------------------------ MODULE MCLimits ------------------------------
(* For TLC: the targets whose code is about numeric limits, of which the      *)
(* fuzzer is built for one (DIFFSECP_TARGET).  The others stay where their    *)
(* Init puts them, and there in one state.                                    *)
EXTENDS FieldMachine, EcdsaDer, TranscriptBudget, ScalarMachine, EllswiftInv

(* With two registers every operand of field can be aliased, and every pair   *)
(* of magnitudes from 0 to 32 is reached.                                     *)
MCNRegs == 2

(* The real limits; lengths at the boundaries of the length octets and of the *)
(* input, and the heads of a raw and of a signed input.                       *)
MCInputMax == 4096
MCIntLens  == {0, 1, 127, 128, 255}
MCHeads    == {98, 130}
MCDerInputs == {0, 100, 4096}

(* The real limits.  Every op or pass records the least or the most that one  *)
(* of its target can; the input is as long as it may be, or too short for     *)
(* MAX_OPS.                                                                   *)
MCTrInputs == {63, 4096}
MCPuts == [field |-> {33, TrFieldOp}, scalar |-> {33, TrScalarOp},
           keys |-> {37, TrKeysOp}, group |-> {2, TrGroupOp},
           ecdsa |-> {16, TrEcdsa}, recovery |-> {4, TrRecovery},
           schnorrsig |-> {4, TrSchnorrsig}, ellswift |-> {49, TrEllswift},
           musig |-> {4, TrMusig}, silentpayments |-> {12, TrSilentPayments}]

(* Whether d and b coincide is all that matters; counts, limbs and offsets at *)
(* both ends of their ranges.                                                 *)
MCRegs  == {"r0", "r1"}
MCBytes == {0, 1, 7, 30, 31, 32, 255}
MCWords == {0, 224, 225, 255, 256, 257, 65535}

(* The smallest prime that, like the field's, has cube roots of one, no square *)
(* root of -1 and no point with a zero coordinate; the curve has 31 points.    *)
MCP == 43

VARIABLE target

allVars == <<target, vars, derVars, trVars, scaVars, invVars>>

MCInit ==
    /\ target \in {"field", "ecdsa", "transcript", "scalar", "ellswift"}
    /\ Init
    /\ DerInit /\ (target # "ecdsa" => derLeft = 0)
    /\ TrInit /\ (target # "transcript" => trTarget = "field" /\ trLeft = 63)
    /\ ScaInit /\ (target # "scalar" => scaD = "r0" /\ scaB = "r0")
    /\ InvInit /\ (target # "ellswift" => invKind = "fuzzed" /\ invU.v = 0 /\ invX.v = 2)

Returned ==
    /\ \/ derPc = "done" \/ invPc = "done"
       \/ target = "transcript" /\ (trAborted \/ ~TrMore)
    /\ UNCHANGED allVars

MCNext ==
    \/ target = "field"      /\ Next     /\ UNCHANGED <<target, derVars, trVars, scaVars, invVars>>
    \/ target = "ecdsa"      /\ DerNext  /\ UNCHANGED <<target, vars, trVars, scaVars, invVars>>
    \/ target = "transcript" /\ TrOp     /\ UNCHANGED <<target, vars, derVars, scaVars, invVars>>
    \/ target = "scalar"     /\ ScaNext  /\ UNCHANGED <<target, vars, derVars, trVars, invVars>>
    \/ target = "ellswift"   /\ InvNext  /\ UNCHANGED <<target, vars, derVars, trVars, scaVars>>
    \/ Returned

MCSpec == MCInit /\ [][MCNext]_allVars
=============================================================================
