--------------------------- MODULE MCMusigSession ---------------------------
(* MusigSession for TLC: up to two signers, so that each loop continues and *)
(* ends and secrets can cancel, over the group of order 5.                  *)
EXTENDS MusigSession

MCMaxSigners == 2
MCOrder == 5
=============================================================================
