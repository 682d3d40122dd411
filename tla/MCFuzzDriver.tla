---------------------------- MODULE MCFuzzDriver ----------------------------
(***************************************************************************)
(* FuzzDriver for TLC: one variant beside the reference, two schemata      *)
(* builds and two mutants, so that a mutant can be masked in one build and *)
(* exposed in the other, or a flag of one mutant taken for the next one's. *)
(***************************************************************************)
EXTENDS FuzzDriver

CONSTANTS i0, i1, big

(* Mutant 0 can only be exposed by an illegal call and mutant 1 only by the *)
(* transcript; input i1 exposes what it triggers; big never runs.           *)
Possible(i, x) ==
    CASE i = i0  -> {"none", "masked", IF x = 0 THEN "illegal" ELSE "differs"}
      [] i = i1  -> {"none", IF x = 0 THEN "illegal" ELSE "differs"}
      [] i = big -> {"none"}

Rows(x) == {r \in [Inputs -> Effects] : \A i \in Inputs : r[i] \in Possible(i, x)}

MCInit ==
    /\ phase = "ready" /\ mode \in {"off", "report"}
    /\ input = i0 /\ b = 0 /\ m = 0 /\ illegal = FALSE
    /\ infected = {} /\ killed = {} /\ seen = {}
    /\ everInfected = {} /\ everKilled = {}
    /\ todo = {} /\ features = {} /\ corpus = {} /\ ran = {}
    /\ odd \in SUBSET {<<<<"variant", 1>>, i1>>, <<<<"schemata", 1>>, i1>>}
    /\ \E e0, e1 \in Rows(0), f0, f1 \in Rows(1) :
         effect = [y \in Builds |-> [x \in Mutants |->
            CASE mode = "off" -> [i \in Inputs |-> "none"]
              [] OTHER -> IF y = 0 THEN IF x = 0 THEN e0 ELSE f0
                                   ELSE IF x = 0 THEN e1 ELSE f1]]

MCSpec == MCInit /\ [][Next]_vars
=============================================================================
