------------------------------ MODULE EcdsaDer ------------------------------
(***************************************************************************)
(* src/targets/ecdsa.c: the lengths in its DER buffer, der[ECDSA_DER_MAX], *)
(* and in ecdsa_der_build's body[], and the input they are filled from     *)
(* (reader.h).  Names carry the prefix Der so that FieldMachineProofs can  *)
(* extend this module beside FieldMachine.                                 *)
(***************************************************************************)
EXTENDS Integers

CONSTANTS
    DerInputMax,    \* DIFFSECP_INPUT_MAX
    DerIntLens,     \* lengths a built integer may have, at most 255
    DerHeads,       \* bytes of input before the encoding
    DerInputs       \* lengths of the input

ASSUME DerAssumption ==
    /\ DerInputMax \in Nat /\ DerInputs \subseteq 0..DerInputMax
    /\ DerIntLens \subseteq 0..255 /\ DerHeads \subseteq Nat

DerIntMax == 1 + 2 + 255                        \* 02 81 L and 255 bytes
DerBodyMax == 2 * DerIntMax + 3                 \* sizeof body
DerMax == 4 + DerBodyMax + 8 + DerInputMax      \* ECDSA_DER_MAX

VARIABLES
    derPc,      \* the step that comes next
    derLeft,    \* bytes of the input not taken
    derBody,    \* n: bytes in body[]
    derCount,   \* integers built, then insertions made
    derShort,   \* short_by
    derLen      \* derlen

derVars == <<derPc, derLeft, derBody, derCount, derShort, derLen>>

DerTypeOK ==
    /\ derPc \in {"head", "source", "ints", "close", "mutate", "tail", "done"}
    /\ derLeft \in 0..DerInputMax /\ derBody \in Nat /\ derCount \in 0..7
    /\ derShort \in 0..3 /\ derLen \in Nat

DerInit ==
    /\ derPc = "head" /\ derLeft \in DerInputs
    /\ derBody = 0 /\ derCount = 0 /\ derShort = 0 /\ derLen = 0

(* What reader_take leaves; past the end it takes zeros. *)
DerTaken(n) == IF n < derLeft THEN derLeft - n ELSE 0

(* Mutated DerLenOctets: 0x82 already from 128 on. *)
DerLenOctetsWide(len, long) == IF len < 128 /\ ~long THEN 1 ELSE 3

(* ecdsa_der_len *)
DerLenOctets(len, long) ==
    IF len < 128 /\ ~long THEN 1 ELSE IF len < 256 THEN 2 ELSE 3

DerHead ==
    /\ derPc = "head" /\ derPc' = "source"
    /\ \E n \in DerHeads : derLeft' = DerTaken(n)
    /\ UNCHANGED <<derBody, derCount, derShort, derLen>>

(* No encoding: derlen = 0. *)
DerNone ==
    /\ derPc = "source" /\ derPc' = "mutate"
    /\ UNCHANGED <<derLeft, derBody, derCount, derShort, derLen>>

(* What serialize_der sets derlen to: two integers of 1 to 33 bytes. *)
DerSerialized(r, s) == 6 + r + s

DerSerialize ==
    /\ derPc = "source" /\ derPc' = "mutate"
    /\ \E r, s \in 1..33 : derLen' = DerSerialized(r, s)
    /\ UNCHANGED <<derLeft, derBody, derCount, derShort>>

(* ecdsa_der_build: the flags byte. *)
DerBuild ==
    /\ derPc = "source" /\ derPc' = "ints"
    /\ derLeft' = DerTaken(1)
    /\ UNCHANGED <<derBody, derCount, derShort, derLen>>

DerIntsAre == 2

(* One round of its loop. *)
DerInt ==
    /\ derPc = "ints" /\ derCount < DerIntsAre
    /\ \E len \in DerIntLens, long \in BOOLEAN :
        /\ derBody' = derBody + 1 + DerLenOctets(len, long) + len
        /\ derLeft' = DerTaken(1 + len)
    /\ derCount' = derCount + 1
    /\ UNCHANGED <<derPc, derShort, derLen>>

(* The sequence's length is short by short_by, or the body has that many more. *)
DerShorten ==
    /\ derPc = "ints" /\ derCount = DerIntsAre /\ derPc' = "close" /\ derCount' = 0
    /\ \E by \in 0..3 :
        \/ derShort' = by /\ UNCHANGED <<derBody, derLeft>>
        \/ derBody' = derBody + by /\ derLeft' = DerTaken(by) /\ UNCHANGED derShort
    /\ UNCHANGED derLen

DerClose ==
    /\ derPc = "close" /\ derPc' = "mutate"
    /\ \E long \in BOOLEAN : derLen' = 1 + DerLenOctets(derBody - derShort, long) + derBody
    /\ UNCHANGED <<derLeft, derBody, derCount, derShort>>

(* A mutation takes three bytes; an insertion adds one. *)
DerInsert ==
    /\ derPc = "mutate" /\ derCount < 7
    /\ derCount' = derCount + 1 /\ derLeft' = DerTaken(3) /\ derLen' = derLen + 1
    /\ UNCHANGED <<derPc, derBody, derShort>>

DerMutate ==
    /\ derPc = "mutate" /\ derCount < 7
    /\ derCount' = derCount + 1 /\ derLeft' = DerTaken(3)
    /\ UNCHANGED <<derPc, derBody, derShort, derLen>>

DerMutationsEnd == derPc = "mutate" /\ derPc' = "tail"
    /\ UNCHANGED <<derLeft, derBody, derCount, derShort, derLen>>

DerTail ==
    /\ derPc = "tail" /\ derPc' = "done"
    /\ derLen' = derLen + derLeft /\ derLeft' = 0
    /\ UNCHANGED <<derBody, derCount, derShort>>

DerNext ==
    \/ DerHead \/ DerNone \/ DerSerialize \/ DerBuild \/ DerInt \/ DerShorten
    \/ DerClose \/ DerInsert \/ DerMutate \/ DerMutationsEnd \/ DerTail

DerSpec == DerInit /\ [][DerNext]_derVars

-----------------------------------------------------------------------------
(* Properties. *)

(* The comment at ECDSA_DER_MAX: the longest encoding, an insertion per       *)
(* mutation and the rest of the input fit in der[].                           *)
DerFits == derLen <= DerMax

(* unsigned char body[2 * (3 + 255) + 3] holds both integers and what follows *)
(* them, whichever of their lengths take the long form.                       *)
DerBodyFits == derBody <= DerBodyMax

(* n - short_by, of type size_t, does not wrap round.                         *)
DerShortFits == derPc = "close" => derShort <= derBody

(* All three: no input makes ecdsa_der_build, the mutations or the tail of    *)
(* target_ecdsa write outside an array.                                       *)
DerInBounds == DerFits /\ DerBodyFits /\ DerShortFits
=============================================================================
