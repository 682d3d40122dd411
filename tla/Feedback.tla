------------------------------ MODULE Feedback ------------------------------
(***************************************************************************)
(* What src/fuzz.c promises libFuzzer and its user, with no builds, no     *)
(* counters and no loops over them: an input is judged in one step.  Either*)
(* the process ends in it, or the builds that ran agree on it and libFuzzer*)
(* is shown which mutants it triggers and which it is the first of the     *)
(* process to expose; a process that exits reports on all inputs it ran.   *)
(***************************************************************************)
EXTENDS Naturals

CONSTANTS Inputs, Oversize, Mutants

VARIABLES
    at,         \* "ready" for an input, "running" one, or "ended"
    input,      \* the input running
    ran,        \* inputs the process ran to the end
    features,   \* what libFuzzer has been shown in the process
    corpus,     \* the inputs kept on disk
    report,     \* what the process reported at its exit
    scoring,    \* whether the mutants run
    triggers, exposes,      \* the mutants an input does this to, in any build
    agreed      \* the inputs on which no two builds that run differ

tests == <<scoring, triggers, exposes, agreed>>
fvars == <<at, input, ran, features, corpus, report, tests>>

NoReport == [killed |-> {}, masked |-> {}]

Triggered(i) == IF scoring THEN triggers[i] ELSE {}
Exposed(i)   == IF scoring THEN exposes[i] ELSE {}

Init ==
    /\ at = "ready" /\ input \in Inputs
    /\ ran = {} /\ features = {} /\ corpus = {} /\ report = NoReport
    /\ scoring \in BOOLEAN
    /\ triggers \in [Inputs -> SUBSET Mutants] /\ exposes \in [Inputs -> SUBSET Mutants]
    /\ agreed \in SUBSET Inputs

Take ==
    /\ at = "ready" /\ at' = "running" /\ input' \in Inputs
    /\ UNCHANGED <<ran, features, corpus, report, tests>>

(* Too long. *)
Drop ==
    /\ at = "running" /\ at' = "ready" /\ input \in Oversize
    /\ UNCHANGED <<input, ran, features, corpus, report, tests>>

(* What raises no counter may still be kept, for the target's own coverage.  *)
Show ==
    /\ at = "running" /\ at' = "ready" /\ input \in agreed \ Oversize
    /\ LET new   == Exposed(input) \ (UNION {Exposed(i) : i \in ran})
           shown == ({"infected"} \X Triggered(input)) \cup ({"killed"} \X new)
       IN  /\ features' = features \cup shown
           /\ corpus' \in {corpus \cup {input}}
                          \cup (IF shown \subseteq features THEN {corpus} ELSE {})
    /\ ran' = ran \cup {input}
    /\ UNCHANGED <<input, report, tests>>

(* A divergence, a hang, an oracle that ends. *)
Fail ==
    /\ at = "running" /\ at' = "ended"
    /\ UNCHANGED <<input, ran, features, corpus, report, tests>>

(* The report is about every kept input. *)
Exit ==
    /\ at = "ready" /\ at' = "ended" /\ corpus \subseteq ran
    /\ LET killed == UNION {Exposed(i) : i \in ran}
       IN  report' = [killed |-> killed, masked |-> (UNION {Triggered(i) : i \in ran}) \ killed]
    /\ UNCHANGED <<input, ran, features, corpus, tests>>

Restart ==
    /\ at = "ended" /\ at' = "ready" /\ ran' = {} /\ features' = {} /\ report' = NoReport
    /\ UNCHANGED <<input, corpus, tests>>

Next == Take \/ Drop \/ Show \/ Fail \/ Exit \/ Restart

Spec == Init /\ [][Next]_fvars
=============================================================================
