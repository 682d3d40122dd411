---------------------------- MODULE MCCiPipeline ----------------------------
(* CiPipeline for TLC: two runs of one workflow and one of the other, with  *)
(* room for each to commit and for a developer between them.                *)
EXTENDS CiPipeline

CONSTANTS b1, b2, f1, bump, fuzz

MCWorkflowOf == [r \in Runs |-> IF r = f1 THEN fuzz ELSE bump]
=============================================================================
