----------------------------- MODULE Comparison -----------------------------
(***************************************************************************)
(* What src/oracle.h promises its callers in src/fuzz.c, with no pipes, no *)
(* file and no loops: a check of an input ends in agreement only if every  *)
(* oracle's build agrees on it, and in an abort that names an oracle only  *)
(* if that one disagrees or has ended and no earlier one disagrees.        *)
(***************************************************************************)
EXTENDS Naturals

CONSTANTS N, Inputs, Empty

VARIABLES
    phase,      \* "checking", "idle", "aborted" or "exited"
    startup,    \* the check is the one of the empty input
    input,      \* the input checked
    ended,      \* oracles whose process ended
    reported,   \* the oracle an abort names, 0 for none
    bad         \* <<o, i>>: o's build disagrees on i

cvars == <<phase, startup, input, ended, reported, bad>>

Disagrees(o) == <<o, input>> \in bad

Init ==
    /\ phase = "checking" /\ startup = TRUE /\ input = Empty
    /\ ended = {} /\ reported = 0
    /\ bad \in SUBSET ((1..N) \X Inputs)

Begin ==
    /\ phase = "idle" /\ phase' = "checking"
    /\ \E i \in Inputs : input' = i
    /\ UNCHANGED <<startup, ended, reported, bad>>

(* NULL: nobody disagrees, whatever ended meanwhile. *)
Agree ==
    /\ phase = "checking" /\ phase' = "idle" /\ startup' = FALSE
    /\ \A o \in 1..N : ~Disagrees(o)
    /\ UNCHANGED <<input, ended, reported, bad>>

(* An oracle's name: the reproducer libFuzzer saves is a real divergence. *)
Report ==
    /\ phase = "checking" /\ ~startup /\ phase' = "aborted"
    /\ \E o \in 1..N :
        /\ Disagrees(o) \/ o \in ended
        /\ \A p \in 1..(o - 1) : ~Disagrees(p)
        /\ reported' = o
    /\ UNCHANGED <<startup, input, ended, bad>>

(* A failed start, an I/O error, a timeout or the end of the run. *)
Quit ==
    /\ phase \in {"checking", "idle"} /\ phase' = "exited"
    /\ UNCHANGED <<startup, input, ended, reported, bad>>

End ==
    /\ \E o \in (1..N) \ ended : ended' = ended \cup {o}
    /\ UNCHANGED <<phase, startup, input, reported, bad>>

Next == Begin \/ Agree \/ Report \/ Quit \/ End

Spec == Init /\ [][Next]_cvars
=============================================================================
