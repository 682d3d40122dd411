------------------------------ MODULE MCEcdsa ------------------------------
(* For TLC: the two targets on ECDSA signatures, of which the fuzzer is built *)
(* for one (DIFFSECP_TARGET).                                                 *)
EXTENDS EcdsaTarget, RecoveryTarget

MCOrder == 7

(* The pairs of a point and its negation have an x of 2, 2 + 7 and 5. *)
MCPair(p)  == IF 2 * p < MCOrder THEN p ELSE MCOrder - p
MCXMod     == [p \in 1..(MCOrder - 1) |-> <<2, 2, 5>>[MCPair(p)]]
MCAbove    == [p \in 1..(MCOrder - 1) |-> MCPair(p) = 2]

VARIABLE target

allVars == <<target, vars, recVars>>

MCInit ==
    /\ target \in {"ecdsa", "recovery"}
    /\ Init    /\ (target = "recovery" => msg = 0)
    /\ RecInit /\ (target = "ecdsa" => recMsg = 0)

Returned == (pc = "done" \/ recPc = "done") /\ UNCHANGED allVars

MCNext ==
    \/ target = "ecdsa"    /\ Next    /\ UNCHANGED <<target, recVars>>
    \/ target = "recovery" /\ RecNext /\ UNCHANGED <<target, vars>>
    \/ Returned

MCSpec == MCInit /\ [][MCNext]_allVars
=============================================================================
