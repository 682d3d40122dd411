----------------------------- MODULE FuzzDriver -----------------------------
(***************************************************************************)
(* The fuzz driver of one target, src/fuzz.c: the builds compared on each  *)
(* input, then the mutant schemata, whose counters libFuzzer reads as      *)
(* coverage.  libFuzzer itself is external: it clears the extra counters   *)
(* before an input, keeps an input that shows a counter not seen before,   *)
(* and reruns the kept ones in every new process.                          *)
(*                                                                         *)
(* A run of a build on an input is deterministic.  `odd' holds the builds  *)
(* that disagree with the reference on an input (all mutants off), and     *)
(* effect[b][m][i] is what mutant m does in schemata build b on input i:   *)
(* "none" (its site never computes another value), "masked" (it does, but  *)
(* the transcript is the reference's), "differs" or "illegal" (an API call *)
(* rejects its arguments).                                                 *)
(***************************************************************************)
EXTENDS Integers, FiniteSets

CONSTANTS
    NVariants,      \* normal builds; number 0 is the reference
    NBuilds,        \* schemata builds
    NMutants,       \* DIFFSECP_MUTANT_COUNT
    Inputs,
    Oversize        \* inputs longer than DIFFSECP_INPUT_MAX

ASSUME DriverAssumption ==
    /\ NVariants \in Nat \ {0}
    /\ NBuilds \in Nat \ {0}
    /\ NMutants \in Nat \ {0}
    /\ Oversize \subseteq Inputs

VARIABLES
    phase,      \* where the process is
    mode,       \* DIFFSECP_MUTANTS: "off" or "report"
    input,      \* the input running
    b,          \* schemata build of run_mutants' outer loop
    m,          \* mutant of its inner loop
    illegal,    \* diffsecp_mutant_illegal
    infected,   \* mutants flagged in the first extra counters
    killed,     \* mutants flagged in the second
    seen,       \* run_mutants' local union of the builds' flags
    everInfected, everKilled,
    todo,       \* kept inputs this process has still to rerun
    features,   \* counters libFuzzer has seen in this process
    corpus,     \* the inputs kept on disk
    ran,        \* history: inputs this process ran to the end
    odd, effect

counters == <<infected, killed>>
evers    == <<everInfected, everKilled>>
fuzzer   == <<todo, features, corpus, ran>>
world    == <<mode, odd, effect>>
vars == <<phase, input, b, m, illegal, counters, seen, evers, fuzzer, world>>

Mutants  == 0..(NMutants - 1)
Builds   == 0..(NBuilds - 1)
AllBuilds == ({"variant"} \X (0..(NVariants - 1))) \cup ({"schemata"} \X Builds)
Effects  == {"none", "masked", "differs", "illegal"}
Phases   == {"ready", "start", "detect", "mutants", "oracle", "observe", "aborted", "timedout", "exited"}

Agrees(build, i) == <<build, i>> \notin odd

(* Some schemata build shows mutant x on i; some build's flags x on i. *)
Exposes(i, x)  == \E y \in Builds : effect[y][x][i] \in {"differs", "illegal"}
Triggers(i, x) == \E y \in Builds : effect[y][x][i] # "none"

TypeOK ==
    /\ phase \in Phases /\ mode \in {"off", "report"}
    /\ input \in Inputs /\ b \in Builds /\ m \in 0..NMutants
    /\ illegal \in BOOLEAN
    /\ infected \subseteq Mutants /\ killed \subseteq Mutants /\ seen \subseteq Mutants
    /\ everInfected \subseteq Mutants /\ everKilled \subseteq Mutants
    /\ todo \subseteq corpus /\ corpus \subseteq Inputs /\ ran \subseteq Inputs
    /\ features \subseteq {"infected", "killed"} \X Mutants
    /\ odd \subseteq AllBuilds \X Inputs
    /\ effect \in [Builds -> [Mutants -> [Inputs -> Effects]]]

Init ==
    /\ phase = "ready" /\ mode \in {"off", "report"}
    /\ input \in Inputs /\ b = 0 /\ m = 0 /\ illegal = FALSE
    /\ infected = {} /\ killed = {} /\ seen = {}
    /\ everInfected = {} /\ everKilled = {}
    /\ todo = {} /\ features = {} /\ corpus = {} /\ ran = {}
    /\ odd \in SUBSET ((AllBuilds \ {<<"variant", 0>>}) \X Inputs)
    /\ effect \in [Builds -> [Mutants -> [Inputs -> Effects]]]

-----------------------------------------------------------------------------
(* libFuzzer picks a kept input not yet rerun, or else any input, and       *)
(* clears the extra counters.                                               *)
NextInput ==
    /\ phase = "ready" /\ phase' = "start"
    /\ \E i \in Inputs : (todo = {} \/ i \in todo) /\ input' = i /\ todo' = todo \ {i}
    /\ infected' = {} /\ killed' = {}
    /\ UNCHANGED <<b, m, illegal, seen, evers, features, corpus, ran, world>>

(* Too long: -1, which keeps the input out of the corpus. *)
Reject ==
    /\ phase = "start" /\ input \in Oversize
    /\ phase' = "ready"
    /\ UNCHANGED <<input, b, m, illegal, counters, seen, evers, fuzzer, world>>

(* Mutated RunVariants: the last variant is never compared. *)
RunVariantsButLast ==
    /\ phase = "start" /\ input \notin Oversize
    /\ phase' = IF \E v \in 1..(NVariants - 2) : ~Agrees(<<"variant", v>>, input)
                  THEN "aborted"
                  ELSE IF mode = "off" THEN "oracle" ELSE "detect"
    /\ b' = 0 /\ m' = 0 /\ seen' = {}
    /\ UNCHANGED <<input, illegal, counters, evers, fuzzer, world>>

(* Every variant runs, then each is compared with the reference. *)
RunVariants ==
    /\ phase = "start" /\ input \notin Oversize
    /\ phase' = IF \E v \in 1..(NVariants - 1) : ~Agrees(<<"variant", v>>, input)
                  THEN "aborted"
                  ELSE IF mode = "off" THEN "oracle" ELSE "detect"
    /\ b' = 0 /\ m' = 0 /\ seen' = {}
    /\ UNCHANGED <<input, illegal, counters, evers, fuzzer, world>>

(* run_mutants with no mutant on: the flags of the last build are cleared,  *)
(* and this one must agree with the reference and call the API legally.     *)
Detect ==
    /\ phase = "detect"
    /\ illegal' = FALSE
    /\ infected' = {x \in Mutants : effect[b][x][input] # "none"}
    /\ phase' = IF Agrees(<<"schemata", b>>, input) THEN "mutants" ELSE "aborted"
    /\ m' = 0
    /\ UNCHANGED <<input, b, killed, seen, evers, fuzzer, world>>

(* A mutant this build did not flag. *)
SkipMutant ==
    /\ phase = "mutants" /\ m < NMutants /\ m \notin infected
    /\ m' = m + 1
    /\ UNCHANGED <<phase, input, b, illegal, counters, seen, evers, fuzzer, world>>

(* Mutated IllegalRun: the flag is not reset before the run. *)
IllegalSinceDetect == illegal \/ effect[b][m][input] = "illegal"

(* run_schemata with mutant m on: what diffsecp_mutant_illegal is after it. *)
IllegalRun == effect[b][m][input] = "illegal"

(* Mutated RunMutant: a kill is counted but not shown to libFuzzer. *)
RunMutantUnseen ==
    /\ phase = "mutants" /\ m < NMutants /\ m \in infected
    /\ seen' = seen \cup {m}
    /\ everInfected' = everInfected \cup {m}
    /\ illegal' = IF m \in everKilled THEN illegal ELSE IllegalRun
    /\ everKilled' = everKilled \cup
            (IF effect[b][m][input] \in {"differs", "illegal"} THEN {m} ELSE {})
    /\ m' = m + 1
    /\ UNCHANGED <<phase, input, b, infected, killed, fuzzer, world>>

(* A flagged mutant: run unless already killed, by this input or another. *)
RunMutant ==
    /\ phase = "mutants" /\ m < NMutants /\ m \in infected
    /\ seen' = seen \cup {m}
    /\ everInfected' = everInfected \cup {m}
    /\ IF m \in everKilled THEN UNCHANGED <<illegal, killed, everKilled>>
       ELSE /\ illegal' = IllegalRun
            /\ IF illegal' \/ effect[b][m][input] = "differs"
                 THEN killed' = killed \cup {m} /\ everKilled' = everKilled \cup {m}
                 ELSE UNCHANGED <<killed, everKilled>>
    /\ m' = m + 1
    /\ UNCHANGED <<phase, input, b, infected, fuzzer, world>>

(* Mutated NextBuild: libFuzzer is left with the last build's flags. *)
NextBuildLastOnly ==
    /\ phase = "mutants" /\ m = NMutants
    /\ IF b < NBuilds - 1 THEN b' = b + 1 /\ phase' = "detect" ELSE b' = b /\ phase' = "oracle"
    /\ UNCHANGED <<input, m, illegal, counters, seen, evers, fuzzer, world>>

(* The next build, or after the last the union is what libFuzzer reads. *)
NextBuild ==
    /\ phase = "mutants" /\ m = NMutants
    /\ IF b < NBuilds - 1
         THEN b' = b + 1 /\ phase' = "detect" /\ UNCHANGED infected
         ELSE b' = b /\ phase' = "oracle" /\ infected' = seen
    /\ UNCHANGED <<input, m, illegal, killed, seen, evers, fuzzer, world>>

(* check_oracle: not due or in agreement, or a divergence (Oracle). *)
CheckOracle ==
    /\ phase = "oracle"
    /\ phase' \in {"observe", "aborted"}
    /\ UNCHANGED <<input, b, m, illegal, counters, seen, evers, fuzzer, world>>

(* libFuzzer collects the counters and keeps the input if one is new; the   *)
(* coverage of the target's code may keep it too.                           *)
Observe ==
    /\ phase = "observe" /\ phase' = "ready"
    /\ LET set == ({"infected"} \X infected) \cup ({"killed"} \X killed) IN
        /\ features' = features \cup set
        /\ corpus' \in {corpus \cup {input}} \cup (IF set \subseteq features THEN {corpus} ELSE {})
    /\ ran' = ran \cup {input}
    /\ UNCHANGED <<input, b, m, illegal, counters, seen, evers, todo, world>>

(* The run ends normally, which is when report_mutants prints. *)
Exit ==
    /\ phase = "ready" /\ todo = {} /\ phase' = "exited"
    /\ UNCHANGED <<input, b, m, illegal, counters, seen, evers, fuzzer, world>>

(* libFuzzer's timer ends the process inside an input: a mutant may hang. *)
Timeout ==
    /\ phase \in {"start", "detect", "mutants", "oracle"} /\ phase' = "timedout"
    /\ UNCHANGED <<input, b, m, illegal, counters, seen, evers, fuzzer, world>>

(* A new process starts from the inputs kept. *)
Restart ==
    /\ phase \in {"aborted", "timedout", "exited"} /\ phase' = "ready"
    /\ todo' = corpus
    /\ b' = 0 /\ m' = 0 /\ illegal' = FALSE /\ infected' = {} /\ killed' = {} /\ seen' = {}
    /\ everInfected' = {} /\ everKilled' = {} /\ features' = {} /\ ran' = {}
    /\ UNCHANGED <<input, corpus, world>>

Next ==
    \/ NextInput \/ Reject \/ RunVariants \/ Detect \/ SkipMutant \/ RunMutant
    \/ NextBuild \/ CheckOracle \/ Observe \/ Exit \/ Timeout \/ Restart

Spec == Init /\ [][Next]_vars
-----------------------------------------------------------------------------
(* Properties. *)

(* What libFuzzer reads after an input: every mutant some build flagged,    *)
(* though each build clears the flags of the one before, and as killed the  *)
(* mutants it is the first of this process to expose.                       *)
FeedbackExact ==
    phase = "observe" /\ mode = "report" =>
        /\ infected = {x \in Mutants : Triggers(input, x)}
        /\ killed = {x \in Mutants : Exposes(input, x) /\ \A i \in ran : ~Exposes(i, x)}

(* A mutant is never run again once killed, yet the corpus keeps an input   *)
(* that exposes it ("so the corpus keeps those inputs", README.md).         *)
CorpusExposes ==
    phase = "ready" => \A x \in everKilled : \E i \in corpus : Exposes(i, x)

(* The report is right about the inputs of the run, every kept one among    *)
(* them: killed if one exposes the mutant, else masked if one triggers it,  *)
(* else missed.                                                             *)
ReportExact ==
    phase = "exited" /\ mode = "report" =>
        /\ corpus \subseteq ran
        /\ everKilled = {x \in Mutants : \E i \in ran : Exposes(i, x)}
        /\ everInfected = {x \in Mutants : \E i \in ran : Triggers(i, x)}

(* "so a divergence never lands in the corpus" (Makefile): no kept input    *)
(* makes two builds that ran on it disagree.                                *)
DivergenceNeverKept ==
    \A i \in corpus :
        /\ \A v \in 1..(NVariants - 1) : Agrees(<<"variant", v>>, i)
        /\ mode = "report" => \A y \in Builds : Agrees(<<"schemata", y>>, i)

(* Feedback, of the driver's loops over builds and mutants.                    *)
Promise == INSTANCE Feedback WITH
    at       <- IF phase = "ready" THEN "ready"
                ELSE IF phase \in {"aborted", "timedout", "exited"} THEN "ended" ELSE "running",
    report   <- [killed |-> IF phase = "exited" THEN everKilled ELSE {},
                 masked |-> IF phase = "exited" THEN everInfected \ everKilled ELSE {}],
    scoring  <- mode = "report",
    triggers <- [i \in Inputs |-> {x \in Mutants : Triggers(i, x)}],
    exposes  <- [i \in Inputs |-> {x \in Mutants : Exposes(i, x)}],
    agreed   <- {i \in Inputs :
                    /\ \A v \in 1..(NVariants - 1) : Agrees(<<"variant", v>>, i)
                    /\ mode = "report" => \A y \in Builds : Agrees(<<"schemata", y>>, i)}

(* The driver, with its loops over builds and mutants and counters that each   *)
(* build clears, promises what Feedback does: to libFuzzer, that it sees the   *)
(* same of an input whichever build showed it, and to whoever reads the report *)
(* that it is about the whole corpus.                                          *)
FeedbackKept == Promise!Spec
=============================================================================
