---------------------------- MODULE MCKeyTargets ----------------------------
(* For TLC: the targets that work on keys, on points and on signatures made   *)
(* of them, of which the fuzzer is built for one (DIFFSECP_TARGET).           *)
EXTENDS KeysMachine, SchnorrTarget, EllswiftTarget, GroupMachine

(* Two registers, so that each source can be the destination, the other       *)
(* source or neither.  The group of order 7 has keys that cancel, keys that   *)
(* do not and both parities, and 2 is a cube root of one in it, as lambda is  *)
(* on the curve.  Points are computed by two builds, whose z can differ.      *)
MCNRegs == 2
MCOrder == 7
MCBuilds == {1, 2}
MCZs == {1, 2}
MCLambda == 2

VARIABLE target

allVars == <<target, vars, schVars, ellVars, grpVars>>

(* What is chosen for a target that is not built is of no interest. *)
MCInit ==
    /\ target \in {"keys", "schnorrsig", "ellswift", "group"}
    /\ Init /\ SchInit /\ EllInit /\ GrpInit
    /\ target # "ellswift" => ellSeckey = [p \in Parties |-> 0] /\ ellFuzzed = 1
    /\ target # "group" => ~large

MCReturned == (schPc = "done" \/ ellPc = "done") /\ UNCHANGED allVars

MCNext ==
    \/ target = "keys"       /\ Next    /\ UNCHANGED <<target, schVars, ellVars, grpVars>>
    \/ target = "schnorrsig" /\ SchNext /\ UNCHANGED <<target, vars, ellVars, grpVars>>
    \/ target = "ellswift"   /\ EllNext /\ UNCHANGED <<target, vars, schVars, grpVars>>
    \/ target = "group"      /\ GrpNext /\ UNCHANGED <<target, vars, schVars, ellVars>>
    \/ MCReturned

MCSpec == MCInit /\ [][MCNext]_allVars
=============================================================================
