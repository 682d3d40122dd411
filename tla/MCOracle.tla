------------------------------ MODULE MCOracle ------------------------------
(***************************************************************************)
(* Oracle for TLC: two oracles, so that one can be ahead of, behind or     *)
(* dead before the other; two inputs, so that a stale file or answer shows; *)
(* a request of two bytes over pipes of one, so that every write can block *)
(* half way.                                                               *)
(***************************************************************************)
EXTENDS OracleInv

MCReqLen == 2
MCPipeCap == 1
=============================================================================
