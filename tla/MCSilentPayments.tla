-------------------------- MODULE MCSilentPayments --------------------------
(* SilentPayments for TLC: two inputs, of either kind each; three           *)
(* recipients, so that a group of two can be next to a foreign one; three   *)
(* secrets, so that scan, spend and foreign keys can differ or coincide;    *)
(* the least group limit the transaction fits.                              *)
EXTENDS SilentPayments

CONSTANTS s1, s2, s3, none

MCSecrets == {s1, s2, s3}
MCInvalid == none
MCMaxInputs == 2
MCMaxRecipients == 3
MCLabelBatch == 2
MCGroupLimit == 5
=============================================================================
