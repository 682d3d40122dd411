-------------------------- MODULE FuzzDriverProofs --------------------------
(***************************************************************************)
(* Proofs about what a fuzzer finds and where it goes: FuzzDriver, for any *)
(* numbers of variants, schemata builds and mutants, any inputs and any    *)
(* behaviour of the builds on them; CorpusFiles, for any inputs, features  *)
(* and versions; CiPipeline, for any workflows, runs and jobs.             *)
(***************************************************************************)
EXTENDS FuzzDriver, CorpusFiles, CiPipeline, TLAPS

(* The input was taken, and is compared or done. *)
Running  == {"detect", "mutants", "oracle", "observe"}
Over     == {"oracle", "observe"}

(* Build y has done mutant x on the input, flags it there, exposes it. *)
Done(y, x)  == phase \in Over \/ y < b \/ (phase = "mutants" /\ y = b /\ x < m)
Flags(y, x) == effect[y][x][input] # "none"
Shows(y, x) == effect[y][x][input] \in {"differs", "illegal"}

(* An input this process ran exposes x, triggers it. *)
RanShows(x) == \E i \in ran : Exposes(i, x)
RanFlags(x) == \E i \in ran : Triggers(i, x)

(* Who was compared: the kept inputs with all, the running one so far. *)
Compared ==
    /\ \A i \in corpus : i \notin Oversize
    /\ phase \in Running => input \notin Oversize
    /\ phase \in Running => \A v \in 1..(NVariants - 1) : Agrees(<<"variant", v>>, input)
    /\ mode = "report" /\ phase \in Running => \A y \in Builds :
           phase \in Over \/ y < b \/ (phase = "mutants" /\ y = b) => Agrees(<<"schemata", y>>, input)

(* Without DIFFSECP_MUTANTS nothing is flagged. *)
Off == mode = "off" =>
    /\ phase \notin {"detect", "mutants"}
    /\ infected = {} /\ killed = {} /\ everInfected = {} /\ everKilled = {}

(* The counters of the running input, *)
InputExact == mode = "report" /\ phase \in Running => \A x \in Mutants :
    /\ x \in seen <=> \E y \in Builds : Done(y, x) /\ Flags(y, x)
    /\ x \in killed <=> ~RanShows(x) /\ \E y \in Builds : Done(y, x) /\ Shows(y, x)
    /\ x \in everKilled <=> RanShows(x) \/ x \in killed
    /\ x \in everInfected <=> RanFlags(x) \/ x \in seen

(* the flags of one build, later of all, *)
FlagsExact == mode = "report" =>
    /\ phase = "mutants" => \A x \in Mutants : x \in infected <=> Flags(b, x)
    /\ phase \in Over => infected = seen

(* and the counts between inputs. *)
CountsExact == mode = "report" =>
    /\ phase \in {"ready", "start", "exited"} => \A x \in Mutants :
           (x \in everKilled <=> RanShows(x)) /\ (x \in everInfected <=> RanFlags(x))
    /\ phase = "start" => killed = {}

(* What was exposed is exposed by a kept input, and libFuzzer has seen the    *)
(* kill of no other mutant.                                                   *)
Kept == mode = "report" => \A x \in Mutants :
    /\ RanShows(x) => \E i \in corpus : Exposes(i, x)
    /\ <<"killed", x>> \in features => RanShows(x)

(* Every kept input was run, is to be, or is running. *)
Rerun ==
    /\ phase \notin {"aborted", "timedout"} => \A i \in corpus :
           i \in ran \/ i \in todo \/ (i = input /\ phase \notin {"ready", "exited"})
    /\ phase = "exited" => todo = {}

IInv ==
    /\ TypeOK /\ DivergenceNeverKept /\ Compared /\ Off
    /\ InputExact /\ FlagsExact /\ CountsExact /\ Kept /\ Rerun

LEMMA InitIInv == Init => IInv
<1> SUFFICES ASSUME Init PROVE IInv
  OBVIOUS
<1>1. TypeOK
  <2>1. odd \subseteq AllBuilds \X Inputs
    <3> DEFINE A == AllBuilds
    <3> HIDE DEF A
    <3>1. odd \subseteq (A \ {<<"variant", 0>>}) \X Inputs
      BY DEF Init, A
    <3>2. odd \subseteq A \X Inputs
      BY <3>1
    <3> QED
      BY <3>2 DEF A
  <2>2. /\ 0 \in Builds /\ 0 \in 0..NMutants
        /\ effect \in [Builds -> [Mutants -> [Inputs -> Effects]]]
    BY DriverAssumption DEF Init, Builds
  <2> QED
    BY <2>1, <2>2 DEF Init, TypeOK, Phases
<1>2. DivergenceNeverKept /\ Compared /\ Off
  BY DEF Init, DivergenceNeverKept, Compared, Off, Running
<1>3. InputExact /\ FlagsExact /\ CountsExact /\ Kept /\ Rerun
  BY DEF Init, InputExact, FlagsExact, CountsExact, Kept, Rerun, Running, Over, RanShows, RanFlags
<1> QED
  BY <1>1, <1>2, <1>3 DEF IInv

-----------------------------------------------------------------------------
(* The actions. *)

LEMMA NextInputStep == ASSUME IInv, NextInput PROVE IInv'
<1> USE DEF IInv, NextInput
<1>1. UNCHANGED <<b, m, illegal, seen, everInfected, everKilled, features, corpus, ran, mode, odd, effect>>
  BY DEF evers, world
<1>2. phase' = "start" /\ infected' = {} /\ killed' = {}
  OBVIOUS
<1>3. TypeOK'
  BY <1>1, <1>2 DEF TypeOK, Phases
<1>4. (DivergenceNeverKept /\ Compared /\ Off)'
  BY <1>1, <1>2 DEF DivergenceNeverKept, Agrees, Compared, Off, Running
<1>5. (InputExact /\ FlagsExact)'
  BY <1>2 DEF InputExact, FlagsExact, Running, Over
<1>6. (CountsExact /\ Kept)'
  BY <1>1, <1>2 DEF CountsExact, Kept, RanShows, RanFlags, Exposes, Triggers
<1>7. Rerun'
  BY <1>1, <1>2 DEF Rerun
<1> QED
  BY <1>3, <1>4, <1>5, <1>6, <1>7

(* Steps between inputs, or that end the process. *)
LEMMA RejectStep == ASSUME IInv, Reject PROVE IInv'
<1>1. /\ phase = "start" /\ phase' = "ready" /\ input \in Oversize
      /\ UNCHANGED <<input, b, m, illegal, infected, killed, seen, everInfected, everKilled,
                     todo, features, corpus, ran, mode, odd, effect>>
  BY DEF Reject, counters, evers, fuzzer, world
<1>2. TypeOK'
  BY <1>1 DEF IInv, TypeOK, Phases
<1>3. (DivergenceNeverKept /\ Compared /\ Off)'
  BY <1>1 DEF IInv, DivergenceNeverKept, Agrees, Compared, Off, Running
<1>4. (InputExact /\ FlagsExact)'
  BY <1>1 DEF InputExact, FlagsExact, Running, Over
<1>5. (CountsExact /\ Kept)'
  BY <1>1 DEF IInv, CountsExact, Kept, RanShows, RanFlags, Exposes, Triggers
<1>6. Rerun'
  BY <1>1 DEF IInv, Rerun, Compared
<1> QED
  BY <1>2, <1>3, <1>4, <1>5, <1>6 DEF IInv

LEMMA ExitStep == ASSUME IInv, Exit PROVE IInv'
<1>1. /\ phase = "ready" /\ phase' = "exited" /\ todo = {}
      /\ UNCHANGED <<input, b, m, illegal, infected, killed, seen, everInfected, everKilled,
                     todo, features, corpus, ran, mode, odd, effect>>
  BY DEF Exit, counters, evers, fuzzer, world
<1>2. TypeOK'
  BY <1>1 DEF IInv, TypeOK, Phases
<1>3. (DivergenceNeverKept /\ Compared /\ Off)'
  BY <1>1 DEF IInv, DivergenceNeverKept, Agrees, Compared, Off, Running
<1>4. (InputExact /\ FlagsExact)'
  BY <1>1 DEF InputExact, FlagsExact, Running, Over
<1>5. (CountsExact /\ Kept)'
  BY <1>1 DEF IInv, CountsExact, Kept, RanShows, RanFlags, Exposes, Triggers
<1>6. Rerun'
  BY <1>1 DEF IInv, Rerun
<1> QED
  BY <1>2, <1>3, <1>4, <1>5, <1>6 DEF IInv

(* A process that ended abnormally keeps only what is on disk. *)
LEMMA EndedStep ==
    ASSUME IInv, phase' \in {"aborted", "timedout"}, TypeOK', Off',
           UNCHANGED <<features, corpus, ran, mode, odd, effect>>
    PROVE  IInv'
<1>1. (DivergenceNeverKept /\ Compared)'
  BY DEF IInv, DivergenceNeverKept, Agrees, Compared, Running
<1>2. (InputExact /\ FlagsExact /\ CountsExact /\ Rerun)'
  BY DEF InputExact, FlagsExact, CountsExact, Rerun, Running, Over
<1>3. Kept'
  BY DEF IInv, Kept, RanShows, Exposes
<1> QED
  BY <1>1, <1>2, <1>3 DEF IInv

LEMMA TimeoutStep == ASSUME IInv, Timeout PROVE IInv'
<1>1. /\ phase' = "timedout"
      /\ UNCHANGED <<input, b, m, illegal, infected, killed, seen, everInfected, everKilled,
                     todo, features, corpus, ran, mode, odd, effect>>
  BY DEF Timeout, counters, evers, fuzzer, world
<1>2. TypeOK' /\ Off'
  BY <1>1 DEF IInv, TypeOK, Phases, Off
<1> QED
  BY <1>1, <1>2, EndedStep

LEMMA RestartStep == ASSUME IInv, Restart PROVE IInv'
<1>1. /\ phase' = "ready" /\ todo' = corpus /\ b' = 0 /\ m' = 0 /\ illegal' = FALSE
      /\ infected' = {} /\ killed' = {} /\ seen' = {} /\ everInfected' = {} /\ everKilled' = {}
      /\ features' = {} /\ ran' = {}
      /\ UNCHANGED <<input, corpus, mode, odd, effect>>
  BY DEF Restart, world
<1>2. TypeOK'
  <2>1. 0 \in Builds /\ 0 \in 0..NMutants
    BY DriverAssumption DEF Builds
  <2>2. features' \subseteq {"infected", "killed"} \X Mutants
    BY <1>1
  <2> QED
    BY <1>1, <2>1, <2>2 DEF IInv, TypeOK, Phases
<1>3. (DivergenceNeverKept /\ Compared /\ Off)'
  BY <1>1 DEF IInv, DivergenceNeverKept, Agrees, Compared, Off, Running
<1>4. (InputExact /\ FlagsExact /\ CountsExact /\ Kept /\ Rerun)'
  BY <1>1 DEF InputExact, FlagsExact, CountsExact, Kept, Rerun, RanShows, RanFlags, Running, Over
<1> QED
  BY <1>2, <1>3, <1>4 DEF IInv

-----------------------------------------------------------------------------
(* The actions on the running input. *)

LEMMA RunVariantsStep == ASSUME IInv, RunVariants PROVE IInv'
<1>1. /\ phase = "start" /\ input \notin Oversize
      /\ phase' = IF \E v \in 1..(NVariants - 1) : ~Agrees(<<"variant", v>>, input)
                  THEN "aborted"
                  ELSE IF mode = "off" THEN "oracle" ELSE "detect"
      /\ b' = 0 /\ m' = 0 /\ seen' = {}
      /\ UNCHANGED <<input, illegal, infected, killed, everInfected, everKilled,
                     todo, features, corpus, ran, mode, odd, effect>>
  BY DEF RunVariants, counters, evers, fuzzer, world
<1>2. TypeOK'
  <2>1. 0 \in Builds /\ 0 \in 0..NMutants
    BY DriverAssumption DEF Builds
  <2> QED
    BY <1>1, <2>1 DEF IInv, TypeOK, Phases
<1>3. Off'
  BY <1>1 DEF IInv, Off
<1>4. CASE phase' = "aborted"
  BY <1>1, <1>2, <1>3, <1>4, EndedStep
<1>5. CASE phase' # "aborted"
  <2>1. /\ \A v \in 1..(NVariants - 1) : Agrees(<<"variant", v>>, input)
        /\ phase' = IF mode = "off" THEN "oracle" ELSE "detect"
    BY <1>1, <1>5
  <2>2. \A y \in Builds : ~(y < 0)
    BY DEF Builds
  <2>3. (DivergenceNeverKept /\ Compared)'
    BY <1>1, <2>1, <2>2 DEF IInv, DivergenceNeverKept, Agrees, Compared, Over
  <2>4. mode = "report" => phase' = "detect" /\ \A y \in Builds, x \in Mutants : ~Done(y, x)'
    BY <1>1, <2>1, <2>2 DEF Done, Over
  <2>5. InputExact'
    BY <1>1, <2>4 DEF IInv, InputExact, CountsExact, RanShows, RanFlags, Exposes, Triggers
  <2>6. (FlagsExact /\ CountsExact /\ Kept /\ Rerun)'
    BY <1>1, <2>1, <2>4 DEF IInv, FlagsExact, CountsExact, Kept, Rerun, Over, RanShows, Exposes
  <2> QED
    BY <1>2, <1>3, <2>3, <2>5, <2>6 DEF IInv
<1> QED
  BY <1>4, <1>5

(* Of the report's state only the running input's counters change. *)
LEMMA InputStep ==
    ASSUME IInv, phase \in Running, phase' \in Running,
           TypeOK', Off', InputExact', FlagsExact',
           mode' = "report" => \A y \in Builds :
               phase' \in Over \/ y < b' \/ (phase' = "mutants" /\ y = b')
                   => Agrees(<<"schemata", y>>, input),
           UNCHANGED <<input, todo, features, corpus, ran, mode, odd, effect>>
    PROVE  IInv'
<1>1. (DivergenceNeverKept /\ Compared)'
  BY DEF IInv, DivergenceNeverKept, Agrees, Compared
<1>2. CountsExact'
  BY DEF CountsExact, Running
<1>3. Kept'
  BY DEF IInv, Kept, RanShows, Exposes
<1>4. Rerun'
  BY DEF IInv, Rerun, Running
<1> QED
  BY <1>1, <1>2, <1>3, <1>4 DEF IInv

LEMMA DetectStep == ASSUME IInv, Detect PROVE IInv'
<1>1. /\ phase = "detect" /\ illegal' = FALSE
      /\ infected' = {x \in Mutants : effect[b][x][input] # "none"}
      /\ phase' = IF Agrees(<<"schemata", b>>, input) THEN "mutants" ELSE "aborted"
      /\ m' = 0
      /\ UNCHANGED <<input, b, killed, seen, everInfected, everKilled,
                     todo, features, corpus, ran, mode, odd, effect>>
  BY DEF Detect, evers, fuzzer, world
<1>2. mode = "report"
  BY <1>1 DEF IInv, Off, TypeOK
<1>3. TypeOK'
  <2>1. 0 \in 0..NMutants
    BY DriverAssumption
  <2>2. infected' \subseteq Mutants
    BY <1>1
  <2> QED
    BY <1>1, <2>1, <2>2 DEF IInv, TypeOK, Phases
<1>4. Off'
  BY <1>1, <1>2 DEF Off
<1>5. CASE phase' = "aborted"
  BY <1>1, <1>3, <1>4, <1>5, EndedStep
<1>6. CASE phase' # "aborted"
  <2>1. phase' = "mutants" /\ Agrees(<<"schemata", b>>, input)
    BY <1>1, <1>6
  <2>2. \A y \in Builds, x \in Mutants : Done(y, x)' <=> Done(y, x)
    BY <1>1, <2>1 DEF Done, Over, Mutants
  <2>3. InputExact'
    BY <1>1, <2>1, <2>2 DEF IInv, InputExact, Running, RanShows, RanFlags, Exposes, Triggers, Flags, Shows
  <2>4. FlagsExact'
    BY <1>1, <2>1 DEF FlagsExact, Over, Flags
  <2>5. \A y \in Builds : y < b \/ y = b => Agrees(<<"schemata", y>>, input)
    BY <1>1, <1>2, <2>1 DEF IInv, Compared, Running
  <2> QED
    BY <1>1, <1>3, <1>4, <2>1, <2>3, <2>4, <2>5, InputStep DEF Running, Over
<1> QED
  BY <1>5, <1>6

(* One more mutant of this build is done. *)
LEMMA MutantDone ==
    ASSUME IInv, phase = "mutants", m < NMutants, m' = m + 1, UNCHANGED <<phase, b>>
    PROVE  /\ m \in Mutants /\ m' \in 0..NMutants
           /\ \A y \in Builds, x \in Mutants : Done(y, x)' <=> Done(y, x) \/ (y = b /\ x = m)
<1>1. m \in 0..NMutants /\ NMutants \in Nat
  BY DriverAssumption DEF IInv, TypeOK
<1>2. m \in Mutants /\ m' \in 0..NMutants
  BY <1>1 DEF Mutants
<1>3. \A x \in Mutants : x < m' <=> x < m \/ x = m
  BY <1>1 DEF Mutants
<1> QED
  BY <1>2, <1>3 DEF Done, Over

LEMMA SkipMutantStep == ASSUME IInv, SkipMutant PROVE IInv'
<1>1. /\ phase = "mutants" /\ m < NMutants /\ m \notin infected /\ m' = m + 1
      /\ UNCHANGED <<phase, input, b, illegal, infected, killed, seen, everInfected, everKilled,
                     todo, features, corpus, ran, mode, odd, effect>>
  BY DEF SkipMutant, counters, evers, fuzzer, world
<1>2. mode = "report"
  BY <1>1 DEF IInv, Off, TypeOK
<1>3. /\ m \in Mutants /\ m' \in 0..NMutants
      /\ \A y \in Builds, x \in Mutants : Done(y, x)' <=> Done(y, x) \/ (y = b /\ x = m)
  BY <1>1, MutantDone
<1>4. TypeOK' /\ Off'
  BY <1>1, <1>3 DEF IInv, TypeOK, Off
<1>5. ~Flags(b, m) /\ ~Shows(b, m)
  BY <1>1, <1>2, <1>3 DEF IInv, FlagsExact, Flags, Shows
<1>6. InputExact'
  BY <1>1, <1>3, <1>5 DEF IInv, InputExact, RanShows, RanFlags, Exposes, Triggers, Flags, Shows
<1>7. FlagsExact'
  BY <1>1 DEF IInv, FlagsExact, Flags
<1>8. \A y \in Builds : phase' \in Over \/ y < b' \/ (phase' = "mutants" /\ y = b')
          => Agrees(<<"schemata", y>>, input)
  BY <1>1, <1>2 DEF IInv, Compared, Running
<1> QED
  BY <1>1, <1>4, <1>6, <1>7, <1>8, InputStep DEF Running

LEMMA RunMutantStep == ASSUME IInv, RunMutant PROVE IInv'
<1>1. /\ phase = "mutants" /\ m < NMutants /\ m \in infected /\ m' = m + 1
      /\ seen' = seen \cup {m} /\ everInfected' = everInfected \cup {m}
      /\ UNCHANGED <<phase, input, b, infected, todo, features, corpus, ran, mode, odd, effect>>
  BY DEF RunMutant, fuzzer, world
<1>2. mode = "report"
  BY <1>1 DEF IInv, Off, TypeOK
<1>3. /\ m \in Mutants /\ m' \in 0..NMutants
      /\ \A y \in Builds, x \in Mutants : Done(y, x)' <=> Done(y, x) \/ (y = b /\ x = m)
  BY <1>1, MutantDone
<1>4. Flags(b, m) /\ b \in Builds
  BY <1>1, <1>2, <1>3 DEF IInv, FlagsExact, TypeOK
<1>5. \/ m \in everKilled /\ UNCHANGED <<illegal, killed, everKilled>>
      \/ /\ m \notin everKilled /\ Shows(b, m) /\ illegal' \in BOOLEAN
         /\ killed' = killed \cup {m} /\ everKilled' = everKilled \cup {m}
      \/ /\ m \notin everKilled /\ ~Shows(b, m) /\ illegal' \in BOOLEAN
         /\ UNCHANGED <<killed, everKilled>>
  BY DEF RunMutant, IllegalRun, Shows
<1>6. TypeOK' /\ Off'
  <2>1. /\ killed' \subseteq Mutants /\ everKilled' \subseteq Mutants /\ illegal' \in BOOLEAN
        /\ seen' \subseteq Mutants /\ everInfected' \subseteq Mutants
    BY <1>1, <1>3, <1>5 DEF IInv, TypeOK
  <2> QED
    BY <1>1, <1>2, <1>3, <2>1 DEF IInv, TypeOK, Off
<1>7. InputExact'
  <2> SUFFICES ASSUME NEW x \in Mutants
               PROVE  /\ x \in seen' <=> \E y \in Builds : Done(y, x)' /\ Flags(y, x)
                      /\ x \in killed' <=> ~RanShows(x) /\ \E y \in Builds : Done(y, x)' /\ Shows(y, x)
                      /\ x \in everKilled' <=> RanShows(x) \/ x \in killed'
                      /\ x \in everInfected' <=> RanFlags(x) \/ x \in seen'
    BY <1>1 DEF InputExact, RanShows, RanFlags, Exposes, Triggers, Flags, Shows
  <2>1. /\ x \in seen <=> \E y \in Builds : Done(y, x) /\ Flags(y, x)
        /\ x \in killed <=> ~RanShows(x) /\ \E y \in Builds : Done(y, x) /\ Shows(y, x)
        /\ x \in everKilled <=> RanShows(x) \/ x \in killed
        /\ x \in everInfected <=> RanFlags(x) \/ x \in seen
    BY <1>1, <1>2 DEF IInv, InputExact, Running
  <2>2. CASE x # m
    <3>1. \A y \in Builds : Done(y, x)' <=> Done(y, x)
      BY <1>3, <2>2
    <3>2. /\ x \in seen' <=> x \in seen
          /\ x \in everInfected' <=> x \in everInfected
          /\ x \in killed' <=> x \in killed
          /\ x \in everKilled' <=> x \in everKilled
      BY <1>1, <1>5, <2>2
    <3> QED
      BY <2>1, <3>1, <3>2
  <2>3. CASE x = m
    <3>1. \A y \in Builds : Done(y, x)' <=> Done(y, x) \/ y = b
      BY <1>3, <2>3
    <3>2. x \in seen' /\ x \in everInfected'
      BY <1>1, <2>3
    <3>3. \E y \in Builds : Done(y, x)' /\ Flags(y, x)
      BY <1>4, <2>3, <3>1
    <3>4. /\ x \in killed' <=> ~RanShows(x) /\ \E y \in Builds : Done(y, x)' /\ Shows(y, x)
          /\ x \in everKilled' <=> RanShows(x) \/ x \in killed'
      BY <1>4, <1>5, <2>1, <2>3, <3>1
    <3> QED
      BY <3>2, <3>3, <3>4
  <2> QED
    BY <2>2, <2>3
<1>8. FlagsExact'
  BY <1>1 DEF IInv, FlagsExact, Flags, Over
<1>9. \A y \in Builds : phase' \in Over \/ y < b' \/ (phase' = "mutants" /\ y = b')
          => Agrees(<<"schemata", y>>, input)
  BY <1>1, <1>2 DEF IInv, Compared, Running
<1> QED
  BY <1>1, <1>6, <1>7, <1>8, <1>9, InputStep DEF Running

LEMMA NextBuildStep == ASSUME IInv, NextBuild PROVE IInv'
<1>1. /\ phase = "mutants" /\ m = NMutants
      /\ IF b < NBuilds - 1
         THEN b' = b + 1 /\ phase' = "detect" /\ UNCHANGED infected
         ELSE b' = b /\ phase' = "oracle" /\ infected' = seen
      /\ UNCHANGED <<input, m, illegal, killed, seen, everInfected, everKilled,
                     todo, features, corpus, ran, mode, odd, effect>>
  BY DEF NextBuild, evers, fuzzer, world
<1>2. mode = "report"
  BY <1>1 DEF IInv, Off, TypeOK
<1>3. b \in 0..(NBuilds - 1) /\ NBuilds \in Nat /\ NMutants \in Nat
  BY DriverAssumption DEF IInv, TypeOK, Builds
<1>4. TypeOK' /\ Off'
  <2>1. b' \in Builds
    BY <1>1, <1>3 DEF Builds
  <2>2. phase' \in Phases /\ infected' \subseteq Mutants
    BY <1>1 DEF IInv, TypeOK, Phases
  <2> QED
    BY <1>1, <1>2, <2>1, <2>2 DEF IInv, TypeOK, Off
<1>5. \A y \in Builds : phase' = "oracle" \/ y < b' <=> y < b \/ y = b
  BY <1>1, <1>3 DEF Builds
<1>6. \A y \in Builds, x \in Mutants : Done(y, x)' <=> Done(y, x)
  <2>1. \A x \in Mutants : x < m
    BY <1>1, <1>3 DEF Mutants
  <2> QED
    BY <1>1, <1>5, <2>1 DEF Done, Over
<1>7. InputExact'
  BY <1>1, <1>6 DEF IInv, InputExact, Running, RanShows, RanFlags, Exposes, Triggers, Flags, Shows
<1>8. FlagsExact'
  BY <1>1 DEF FlagsExact, Over
<1>9. \A y \in Builds : phase' \in Over \/ y < b' \/ (phase' = "mutants" /\ y = b')
          => Agrees(<<"schemata", y>>, input)
  BY <1>1, <1>2, <1>5 DEF IInv, Compared, Running, Over
<1> QED
  BY <1>1, <1>4, <1>7, <1>8, <1>9, InputStep DEF Running

LEMMA CheckOracleStep == ASSUME IInv, CheckOracle PROVE IInv'
<1>1. /\ phase = "oracle" /\ phase' \in {"observe", "aborted"}
      /\ UNCHANGED <<input, b, m, illegal, infected, killed, seen, everInfected, everKilled,
                     todo, features, corpus, ran, mode, odd, effect>>
  BY DEF CheckOracle, counters, evers, fuzzer, world
<1>2. TypeOK' /\ Off'
  BY <1>1 DEF IInv, TypeOK, Phases, Off
<1>3. CASE phase' = "aborted"
  BY <1>1, <1>2, <1>3, EndedStep
<1>4. CASE phase' = "observe"
  <2>1. \A y \in Builds, x \in Mutants : Done(y, x)' /\ Done(y, x)
    BY <1>1, <1>4 DEF Done, Over
  <2>2. InputExact'
    BY <1>1, <2>1 DEF IInv, InputExact, Running, RanShows, RanFlags, Exposes, Triggers, Flags, Shows
  <2>3. FlagsExact'
    BY <1>1, <1>4 DEF IInv, FlagsExact, Over
  <2>4. mode = "report" => \A y \in Builds : Agrees(<<"schemata", y>>, input)
    BY <1>1 DEF IInv, Compared, Running, Over
  <2> QED
    BY <1>1, <1>2, <1>4, <2>2, <2>3, <2>4, InputStep DEF Running
<1> QED
  BY <1>1, <1>3, <1>4

(* What libFuzzer is shown is exact at the end of an input. *)
LEMMA Observed == IInv => FeedbackExact
<1> SUFFICES ASSUME IInv, phase = "observe", mode = "report"
             PROVE  /\ infected = {x \in Mutants : Triggers(input, x)}
                    /\ killed = {x \in Mutants : Exposes(input, x) /\ \A i \in ran : ~Exposes(i, x)}
  BY DEF FeedbackExact
<1>1. infected = seen /\ seen \subseteq Mutants /\ killed \subseteq Mutants
  BY DEF IInv, FlagsExact, Over, TypeOK
<1>2. \A y \in Builds, x \in Mutants : Done(y, x)
  BY DEF Done, Over
<1>3. \A x \in Mutants : /\ x \in seen <=> Triggers(input, x)
                         /\ x \in killed <=> ~RanShows(x) /\ Exposes(input, x)
  BY <1>2 DEF IInv, InputExact, Running, Flags, Shows, Triggers, Exposes
<1> QED
  BY <1>1, <1>3 DEF RanShows

LEMMA ObserveStep == ASSUME IInv, Observe PROVE IInv'
<1> DEFINE set == ({"infected"} \X infected) \cup ({"killed"} \X killed)
<1>1. /\ phase = "observe" /\ phase' = "ready"
      /\ features' = features \cup set
      /\ corpus' \in {corpus \cup {input}} \cup (IF set \subseteq features THEN {corpus} ELSE {})
      /\ ran' = ran \cup {input}
      /\ UNCHANGED <<input, b, m, illegal, infected, killed, seen, everInfected, everKilled,
                     todo, mode, odd, effect>>
  BY DEF Observe, counters, evers, world
<1>2. \A x \in Mutants : <<"killed", x>> \in set <=> x \in killed
  OBVIOUS
<1>3. set \subseteq {"infected", "killed"} \X Mutants
  BY DEF IInv, TypeOK
<1>4. corpus' = corpus \cup {input} \/ (corpus' = corpus /\ set \subseteq features)
  BY <1>1
<1> HIDE DEF set
<1>5. TypeOK'
  <2>1. /\ features' \subseteq {"infected", "killed"} \X Mutants
        /\ corpus' \subseteq Inputs /\ todo \subseteq corpus' /\ ran' \subseteq Inputs
    BY <1>1, <1>3, <1>4 DEF IInv, TypeOK
  <2> QED
    BY <1>1, <2>1 DEF IInv, TypeOK, Phases
<1>6. (DivergenceNeverKept /\ Compared /\ Off)'
  BY <1>1, <1>4 DEF IInv, DivergenceNeverKept, Agrees, Compared, Off, Running, Over
<1>7. (InputExact /\ FlagsExact)'
  BY <1>1 DEF InputExact, FlagsExact, Running, Over
<1>8. mode = "report" => \A x \in Mutants :
          /\ x \in killed <=> ~RanShows(x) /\ Exposes(input, x)
          /\ x \in seen <=> Triggers(input, x)
          /\ x \in everKilled <=> RanShows(x) \/ x \in killed
          /\ x \in everInfected <=> RanFlags(x) \/ x \in seen
  <2>1. \A y \in Builds, x \in Mutants : Done(y, x)
    BY <1>1 DEF Done, Over
  <2> QED
    BY <1>1, <2>1 DEF IInv, InputExact, Running, Flags, Shows, Exposes, Triggers
<1>9. \A x : /\ RanShows(x)' <=> RanShows(x) \/ Exposes(input, x)
             /\ RanFlags(x)' <=> RanFlags(x) \/ Triggers(input, x)
  BY <1>1 DEF RanShows, RanFlags, Exposes, Triggers
<1>10. CountsExact'
  BY <1>1, <1>8, <1>9 DEF CountsExact
<1>11. Kept'
  <2> SUFFICES ASSUME mode = "report", NEW x \in Mutants
               PROVE  /\ RanShows(x)' => \E i \in corpus' : Exposes(i, x)
                      /\ <<"killed", x>> \in features' => RanShows(x)'
    BY <1>1 DEF Kept, Exposes
  <2>1. /\ RanShows(x) => \E i \in corpus : Exposes(i, x)
        /\ <<"killed", x>> \in features => RanShows(x)
    BY DEF IInv, Kept
  <2>2. x \in killed => corpus' = corpus \cup {input}
    BY <1>2, <1>4, <1>8, <2>1
  <2> QED
    BY <1>1, <1>2, <1>4, <1>8, <1>9, <2>1, <2>2
<1>12. Rerun'
  BY <1>1, <1>4 DEF IInv, Rerun
<1> QED
  BY <1>5, <1>6, <1>7, <1>10, <1>11, <1>12 DEF IInv

-----------------------------------------------------------------------------
(* The invariant, and what follows from it. *)

LEMMA StepIInv == IInv /\ [Next]_vars => IInv'
<1> SUFFICES ASSUME IInv, [Next]_vars PROVE IInv'
  OBVIOUS
<1>1. CASE UNCHANGED vars
  <2>1. UNCHANGED <<phase, input, b, m, illegal, infected, killed, seen, everInfected, everKilled,
                    todo, features, corpus, ran, mode, odd, effect>>
    BY <1>1 DEF vars, counters, evers, fuzzer, world
  <2>2. (TypeOK /\ DivergenceNeverKept /\ Compared /\ Off)'
    BY <2>1 DEF IInv, TypeOK, DivergenceNeverKept, Agrees, Compared, Off
  <2>3. (InputExact /\ FlagsExact)'
    BY <2>1 DEF IInv, InputExact, FlagsExact, Done, Flags, Shows, RanShows, RanFlags, Exposes, Triggers
  <2>4. (CountsExact /\ Kept /\ Rerun)'
    BY <2>1 DEF IInv, CountsExact, Kept, Rerun, RanShows, RanFlags, Exposes, Triggers
  <2> QED
    BY <2>2, <2>3, <2>4 DEF IInv
<1>2. CASE Next
  BY <1>2, NextInputStep, RejectStep, RunVariantsStep, DetectStep, SkipMutantStep, RunMutantStep,
     NextBuildStep, CheckOracleStep, ObserveStep, ExitStep, TimeoutStep, RestartStep DEF Next
<1> QED
  BY <1>1, <1>2

LEMMA Always == Spec => []IInv
BY InitIInv, StepIInv, PTL DEF Spec

(* Whatever crashes, hangs or is rerun, libFuzzer sees after an input every   *)
(* mutant some build flagged, and the kill of each mutant just once.          *)
THEOREM FeedbackAlways == Spec => []FeedbackExact
BY Always, Observed, PTL

(* Between inputs the corpus exposes every mutant counted as killed, although *)
(* none is run again once killed and any process may end at any step.         *)
THEOREM CorpusAlways == Spec => []CorpusExposes
<1>1. IInv => CorpusExposes
  <2> SUFFICES ASSUME IInv, phase = "ready", NEW x \in everKilled
               PROVE  \E i \in corpus : Exposes(i, x)
    BY DEF CorpusExposes
  <2>1. mode = "report" /\ x \in Mutants
    BY DEF IInv, Off, TypeOK
  <2> QED
    BY <2>1 DEF IInv, CountsExact, Kept
<1> QED
  BY <1>1, Always, PTL

(* A report that is printed is right about every input of the run, the whole  *)
(* corpus among them.                                                         *)
THEOREM ReportAlways == Spec => []ReportExact
<1>1. IInv => ReportExact
  <2> SUFFICES ASSUME IInv, phase = "exited", mode = "report"
               PROVE  /\ corpus \subseteq ran
                      /\ everKilled = {x \in Mutants : \E i \in ran : Exposes(i, x)}
                      /\ everInfected = {x \in Mutants : \E i \in ran : Triggers(i, x)}
    BY DEF ReportExact
  <2>1. corpus \subseteq ran
    BY DEF IInv, Rerun
  <2>2. everKilled \subseteq Mutants /\ everInfected \subseteq Mutants
    BY DEF IInv, TypeOK
  <2>3. \A x \in Mutants : (x \in everKilled <=> RanShows(x)) /\ (x \in everInfected <=> RanFlags(x))
    BY DEF IInv, CountsExact
  <2> QED
    BY <2>1, <2>2, <2>3 DEF RanShows, RanFlags
<1> QED
  BY <1>1, Always, PTL

(* No input is ever kept on which two builds disagree that ran on it.         *)
THEOREM DivergenceNeverKeptAlways == Spec => []DivergenceNeverKept
<1>1. IInv => DivergenceNeverKept
  BY DEF IInv
<1> QED
  BY <1>1, Always, PTL

(* The driver's variables keep their types. *)
THEOREM DriverTypes == Spec => []TypeOK
<1>1. IInv => TypeOK
  BY DEF IInv
<1> QED
  BY <1>1, Always, PTL

-----------------------------------------------------------------------------
(* Feedback.  What the mapping of Promise sees of a state, *)

Stage      == IF phase = "ready" THEN "ready"
              ELSE IF phase \in {"aborted", "timedout", "exited"} THEN "ended" ELSE "running"
Report     == [killed |-> IF phase = "exited" THEN everKilled ELSE {},
               masked |-> IF phase = "exited" THEN everInfected \ everKilled ELSE {}]
Triggering == [i \in Inputs |-> {x \in Mutants : Triggers(i, x)}]
Exposing   == [i \in Inputs |-> {x \in Mutants : Exposes(i, x)}]
Agreed     == {i \in Inputs :
                  /\ \A v \in 1..(NVariants - 1) : Agrees(<<"variant", v>>, i)
                  /\ mode = "report" => \A y \in Builds : Agrees(<<"schemata", y>>, i)}

(* of which no step changes what the builds do, *)
LEMMA WorldStays ==
    ASSUME UNCHANGED <<mode, odd, effect>>
    PROVE  UNCHANGED <<mode = "report", Triggering, Exposing, Agreed>>
BY DEF Triggering, Exposing, Agreed, Triggers, Exposes, Agrees

(* and no step inside an input changes anything. *)
LEMMA InsideStutters ==
    ASSUME Stage' = Stage, Report' = Report, UNCHANGED <<input, ran, features, corpus, mode, odd, effect>>
    PROVE  UNCHANGED Promise!fvars
BY WorldStays DEF Stage, Report, Triggering, Exposing, Agreed, Promise!fvars, Promise!tests

LEMMA PromiseInit == Init => Promise!Init
<1> SUFFICES ASSUME Init PROVE Promise!Init
  OBVIOUS
<1>1. Stage = "ready" /\ Report = Promise!NoReport
  BY DEF Init, Stage, Report, Promise!NoReport
<1>2. Triggering \in [Inputs -> SUBSET Mutants] /\ Exposing \in [Inputs -> SUBSET Mutants]
  BY DEF Triggering, Exposing
<1>3. Agreed \in SUBSET Inputs
  BY DEF Agreed
<1>4. /\ input \in Inputs /\ ran = {} /\ features = {} /\ corpus = {}
      /\ (mode = "report") \in BOOLEAN
  BY DEF Init
<1> QED
  BY <1>1, <1>2, <1>3, <1>4
  DEF Promise!Init, Promise!NoReport, Stage, Report, Triggering, Exposing, Agreed

(* What libFuzzer is shown of the inputs the process ran. *)
LEMMA Exposures ==
    ASSUME IInv
    PROVE  /\ UNION {Promise!Exposed(i) : i \in ran}
                  = {x \in Mutants : mode = "report" /\ RanShows(x)}
           /\ UNION {Promise!Triggered(i) : i \in ran}
                  = {x \in Mutants : mode = "report" /\ RanFlags(x)}
<1>1. ran \subseteq Inputs
  BY DEF IInv, TypeOK
<1>2. \A i \in ran :
        /\ Promise!Exposed(i) = {x \in Mutants : mode = "report" /\ Exposes(i, x)}
        /\ Promise!Triggered(i) = {x \in Mutants : mode = "report" /\ Triggers(i, x)}
  BY <1>1 DEF Promise!Exposed, Promise!Triggered
<1> QED
  BY <1>2 DEF RanShows, RanFlags

LEMMA ShowStep == ASSUME IInv, Observe PROVE Promise!Show
<1> DEFINE fresh   == Promise!Exposed(input) \ UNION {Promise!Exposed(i) : i \in ran}
           shown == ({"infected"} \X Promise!Triggered(input)) \cup ({"killed"} \X fresh)
<1>1. /\ phase = "observe" /\ phase' = "ready" /\ input \in Inputs
      /\ UNCHANGED <<input, mode, odd, effect>>
  BY DEF Observe, world, IInv, TypeOK
<1>2. Stage = "running" /\ Stage' = "ready" /\ Report' = Report
  BY <1>1 DEF Stage, Report
<1>3. input \in Agreed \ Oversize
  BY <1>1 DEF IInv, Compared, Running, Over, Agreed
<1>4. fresh = killed /\ Promise!Triggered(input) = infected
  <2>1. CASE mode = "report"
    <3>1. /\ infected = {x \in Mutants : Triggers(input, x)}
          /\ killed = {x \in Mutants : Exposes(input, x) /\ \A i \in ran : ~Exposes(i, x)}
      BY <1>1, <2>1, Observed DEF FeedbackExact
    <3>2. /\ Promise!Triggered(input) = {x \in Mutants : Triggers(input, x)}
          /\ Promise!Exposed(input) = {x \in Mutants : Exposes(input, x)}
      BY <1>1, <2>1 DEF Promise!Triggered, Promise!Exposed
    <3> QED
      BY <2>1, <3>1, <3>2, Exposures DEF RanShows
  <2>2. CASE mode # "report"
    <3>1. infected = {} /\ killed = {}
      BY <2>2 DEF IInv, Off, TypeOK
    <3> QED
      BY <2>2, <3>1 DEF Promise!Triggered, Promise!Exposed
  <2> QED
    BY <2>1, <2>2
<1>5. shown = ({"infected"} \X infected) \cup ({"killed"} \X killed)
  BY <1>4
<1> HIDE DEF fresh
<1>6. /\ features' = features \cup shown
      /\ corpus' \in {corpus \cup {input}} \cup (IF shown \subseteq features THEN {corpus} ELSE {})
      /\ ran' = ran \cup {input}
  BY <1>5 DEF Observe
<1>7. UNCHANGED <<mode = "report", Triggering, Exposing, Agreed>>
  BY <1>1, WorldStays
<1> HIDE DEF shown
<1> QED
  BY <1>1, <1>2, <1>3, <1>6, <1>7
  DEF Promise!Show, Promise!tests, Stage, Report, Triggering, Exposing, Agreed, shown, fresh

LEMMA ReportStep == ASSUME IInv, Exit PROVE Promise!Exit
<1>1. /\ phase = "ready" /\ todo = {} /\ phase' = "exited"
      /\ UNCHANGED <<input, everInfected, everKilled, features, corpus, ran, mode, odd, effect>>
  BY DEF Exit, evers, fuzzer, world
<1>2. Stage = "ready" /\ Stage' = "ended"
  BY <1>1 DEF Stage
<1>3. corpus \subseteq ran
  BY <1>1 DEF IInv, Rerun
<1>4. /\ UNION {Promise!Exposed(i) : i \in ran} = everKilled
      /\ UNION {Promise!Triggered(i) : i \in ran} = everInfected
  BY <1>1, Exposures DEF IInv, CountsExact, Off, TypeOK
<1>5. Report' = [killed |-> everKilled, masked |-> everInfected \ everKilled]
  BY <1>1 DEF Report
<1>6. UNCHANGED <<mode = "report", Triggering, Exposing, Agreed>>
  BY <1>1, WorldStays
<1> QED
  BY <1>1, <1>2, <1>3, <1>4, <1>5, <1>6
  DEF Promise!Exit, Promise!tests, Stage, Report, Triggering, Exposing, Agreed

(* The steps between inputs. *)
LEMMA TakeStep == ASSUME IInv, NextInput PROVE Promise!Take
<1>1. /\ phase = "ready" /\ phase' = "start" /\ input' \in Inputs
      /\ UNCHANGED <<features, corpus, ran, mode, odd, effect>>
  BY DEF NextInput, world
<1>2. UNCHANGED <<mode = "report", Triggering, Exposing, Agreed>>
  BY <1>1, WorldStays
<1>3. Stage = "ready" /\ Stage' = "running" /\ Report' = Report
  BY <1>1 DEF Stage, Report
<1> QED
  BY <1>1, <1>2, <1>3
  DEF Promise!Take, Promise!tests, Stage, Report, Triggering, Exposing, Agreed

LEMMA DropStep == ASSUME IInv, Reject PROVE Promise!Drop
<1>1. /\ phase = "start" /\ phase' = "ready" /\ input \in Oversize
      /\ UNCHANGED <<input, features, corpus, ran, mode, odd, effect>>
  BY DEF Reject, fuzzer, world
<1>2. UNCHANGED <<mode = "report", Triggering, Exposing, Agreed>>
  BY <1>1, WorldStays
<1>3. Stage = "running" /\ Stage' = "ready" /\ Report' = Report
  BY <1>1 DEF Stage, Report
<1> QED
  BY <1>1, <1>2, <1>3
  DEF Promise!Drop, Promise!tests, Stage, Report, Triggering, Exposing, Agreed

LEMMA AgainStep == ASSUME IInv, Restart PROVE Promise!Restart
<1>1. /\ phase \in {"aborted", "timedout", "exited"} /\ phase' = "ready"
      /\ features' = {} /\ ran' = {} /\ UNCHANGED <<input, corpus, mode, odd, effect>>
  BY DEF Restart, world
<1>2. UNCHANGED <<mode = "report", Triggering, Exposing, Agreed>>
  BY <1>1, WorldStays
<1>3. Stage = "ended" /\ Stage' = "ready" /\ Report' = Promise!NoReport
  BY <1>1 DEF Stage, Report, Promise!NoReport
<1> QED
  BY <1>1, <1>2, <1>3
  DEF Promise!Restart, Promise!tests, Promise!NoReport, Stage, Report, Triggering, Exposing, Agreed

(* Those inside an input end the process or are not seen. *)
LEMMA InsideStep ==
    ASSUME phase \in {"start", "detect", "mutants", "oracle"},
           phase' \in {"detect", "mutants", "oracle", "observe", "aborted", "timedout"},
           UNCHANGED <<input, ran, features, corpus, mode, odd, effect>>
    PROVE  Promise!Fail \/ UNCHANGED Promise!fvars
<1>1. Report' = Report /\ Stage = "running"
  BY DEF Report, Stage
<1>2. CASE phase' \in {"aborted", "timedout"}
  <2>1. Stage' = "ended"
    BY <1>2 DEF Stage
  <2>2. UNCHANGED <<mode = "report", Triggering, Exposing, Agreed>>
    BY WorldStays
  <2> QED
    BY <1>1, <2>1, <2>2
    DEF Promise!Fail, Promise!tests, Stage, Report, Triggering, Exposing, Agreed
<1>3. CASE phase' \notin {"aborted", "timedout"}
  <2>1. Stage' = "running"
    BY <1>3 DEF Stage
  <2> QED
    BY <1>1, <2>1, InsideStutters
<1> QED
  BY <1>2, <1>3

LEMMA PromiseStep == IInv /\ [Next]_vars => [Promise!Next]_(Promise!fvars)
<1> SUFFICES ASSUME IInv, [Next]_vars PROVE Promise!Next \/ UNCHANGED Promise!fvars
  OBVIOUS
<1>1. CASE UNCHANGED vars
  <2>1. UNCHANGED <<phase, input, everInfected, everKilled, features, corpus, ran, mode, odd, effect>>
    BY <1>1 DEF vars, evers, fuzzer, world
  <2>2. Stage' = Stage /\ Report' = Report
    BY <2>1 DEF Stage, Report
  <2> QED
    BY <2>1, <2>2, InsideStutters
<1>2. CASE RunVariants \/ Detect \/ CheckOracle \/ Timeout \/ NextBuild
  <2>1. /\ phase \in {"start", "detect", "mutants", "oracle"}
        /\ phase' \in {"detect", "mutants", "oracle", "observe", "aborted", "timedout"}
        /\ UNCHANGED <<input, ran, features, corpus, mode, odd, effect>>
    BY <1>2 DEF RunVariants, Detect, CheckOracle, Timeout, NextBuild, fuzzer, world
  <2> QED
    BY <2>1, InsideStep DEF Promise!Next
<1>3. CASE SkipMutant \/ RunMutant
  <2>1. /\ phase = "mutants" /\ phase' = "mutants"
        /\ UNCHANGED <<input, ran, features, corpus, mode, odd, effect>>
    BY <1>3 DEF SkipMutant, RunMutant, fuzzer, world
  <2> QED
    BY <2>1, InsideStep DEF Promise!Next
<1>4. CASE NextInput
  BY <1>4, TakeStep DEF Promise!Next
<1>5. CASE Reject
  BY <1>5, DropStep DEF Promise!Next
<1>6. CASE Observe
  BY <1>6, ShowStep DEF Promise!Next
<1>7. CASE Exit
  BY <1>7, ReportStep DEF Promise!Next
<1>8. CASE Restart
  BY <1>8, AgainStep DEF Promise!Next
<1> QED
  BY <1>1, <1>2, <1>3, <1>4, <1>5, <1>6, <1>7, <1>8 DEF Next

(* The driver keeps its promise, for any builds, mutants and inputs: whatever  *)
(* its loops do in between, an input is shown, kept and reported as one that   *)
(* all builds were run on at once.                                             *)
THEOREM FeedbackKeptAlways == Spec => FeedbackKept
<1>1. Init => IInv /\ Promise!Init
  BY InitIInv, PromiseInit
<1>2. IInv /\ [Next]_vars => IInv' /\ [Promise!Next]_(Promise!fvars)
  BY StepIInv, PromiseStep
<1> QED
  BY <1>1, <1>2, PTL DEF Spec, FeedbackKept, Promise!Spec

-----------------------------------------------------------------------------
(* CorpusFiles. *)

Spotless(s) == s \cap Bad = {}

(* What a minimize has to keep, and where it is. *)
Minimizing ==
    /\ goal = "minimize" => before = dir
    /\ goal \in {"remove", "move"} => Reach(before) \subseteq Reach(tmp)

(* Only between goals, and between rm and mv, is there no directory. *)
Present == missing => goal \in {"idle", "move", "minimized"}

(* What a process that runs inputs has survived. *)
Survived ==
    /\ goal \in {"seed", "fuzz"} => Spotless(tried)
    /\ goal \in {"minimize", "remove", "move"} => Spotless(tmp)

(* What fuzz.yml's job knows at each of its steps: the fuzzer ran all it       *)
(* began with, and nothing that was added since diverges.                     *)
Chained ==
    /\ goal \in {"fuzzed", "merged", "minimized"} => chained
    /\ chained =>
        /\ goal # "idle"
        /\ goal = "fuzz" => dir = committed
        /\ goal # "fuzz" => Spotless(committed) /\ Spotless(new) /\ Spotless(dir)
        /\ goal \in {"minimize", "remove", "move", "minimized", "seed"} => Spotless(before)

CorpusGoals == CorpusTypeOK /\ Present /\ Minimizing /\ Survived /\ Chained

CorpusIInv == CorpusGoals /\ CoverageOnDisk

LEMMA CorpusInitIInv == CorpusInit => CorpusIInv
<1> SUFFICES ASSUME CorpusInit PROVE CorpusIInv
  OBVIOUS
<1>1. version \in Versions /\ committed \subseteq CorpusInputs
  BY DEF CorpusInit
<1> QED
  BY <1>1
  DEF CorpusInit, CorpusIInv, CorpusGoals, CorpusTypeOK, Goals, Present, Minimizing, Survived,
      Chained, Spotless, CoverageOnDisk, Reach

(* The code changes between goals, when the invariant says nothing of them. *)
LEMMA BumpKeeps == ASSUME CorpusGoals, Bump PROVE CorpusGoals'
BY DEF Bump, files, CorpusGoals, CorpusTypeOK, Present, Minimizing, Survived, Chained

(* A step that leaves version leaves what diverges and what inputs reach. *)
LEMMA SameVersion ==
    ASSUME version' = version PROVE Bad' = Bad /\ \A s : Reach(s)' = Reach(s)
BY DEF Bad, Reach, Survives

(* A step that takes no file away keeps what was reached. *)
LEMMA FilesKept ==
    ASSUME CoverageOnDisk, version' = version, before' = before, dir \cup tmp \subseteq dir' \cup tmp'
    PROVE  CoverageOnDisk'
BY DEF CoverageOnDisk, Reach, Survives, Bad

(* One that takes files of the corpus away does so once tmp replaces them. *)
LEMMA Replaced ==
    ASSUME version' = version, before' = before, Reach(before) \subseteq Reach(tmp),
           tmp \subseteq dir' \cup tmp'
    PROVE  CoverageOnDisk'
BY DEF CoverageOnDisk, Reach, Survives, Bad

LEMMA CoverageStep == CorpusIInv /\ [CorpusNext]_corpusVars => CoverageOnDisk'
<1> SUFFICES ASSUME CorpusIInv, [CorpusNext]_corpusVars PROVE CoverageOnDisk'
  OBVIOUS
<1>1. CASE before' = {}
  BY <1>1 DEF CoverageOnDisk, Reach
<1>2. CASE StartMinimize
  BY <1>2 DEF StartMinimize, CoverageOnDisk, Reach
<1>3. CASE RemoveFile \/ Move
  BY <1>3, Replaced DEF RemoveFile, Move, CorpusIInv, CorpusGoals, Minimizing
<1>4. CASE StartSeed \/ SeedRun \/ MergeCopy \/ MinimizeCopy
  <2>1. version' = version /\ before' = before /\ dir \cup tmp \subseteq dir' \cup tmp'
    BY <1>4 DEF StartSeed, SeedRun, MergeCopy, MinimizeCopy, CorpusIInv, CorpusGoals, CorpusTypeOK
  <2> QED
    BY <2>1, FilesKept DEF CorpusIInv
<1>5. CASE UNCHANGED <<version, dir, tmp, before>>
  BY <1>5, FilesKept DEF CorpusIInv
<1> QED
  BY <1>1, <1>2, <1>3, <1>4, <1>5
  DEF CorpusNext, corpusVars, files, Bump, Interrupt, SeedEnd, StartFuzz, FuzzRun, FuzzEnd,
      StartMerge, MergeEnd, MinimizeEnd, RemoveDirectory, Swallowed, CommitCorpus

LEMMA CorpusStep == CorpusGoals /\ [CorpusNext]_corpusVars => CorpusGoals'
<1> SUFFICES ASSUME CorpusGoals, [CorpusNext]_corpusVars PROVE CorpusGoals'
  OBVIOUS
<1> USE DEF CorpusGoals, CorpusTypeOK, Goals, Present, Minimizing, Survived, Chained, Spotless, files
<1>1. CASE Bump
  BY <1>1, BumpKeeps
<1>2. CASE Interrupt
  BY <1>2, SameVersion DEF Interrupt
<1>3. CASE StartSeed
  BY <1>3, SameVersion DEF StartSeed
<1>4. CASE SeedRun
  <2> PICK i \in CorpusInputs \ tried :
        /\ Survives(i) /\ tried' = tried \cup {i}
        /\ dir' = dir \/ dir' = dir \cup {i}
    BY <1>4 DEF SeedRun
  <2>1. CorpusTypeOK' /\ Present'
    BY <1>4 DEF SeedRun
  <2>2. Minimizing' /\ Survived' /\ Chained'
    BY <1>4, SameVersion DEF SeedRun, Survives
  <2> QED
    BY <2>1, <2>2
<1>5. CASE SeedEnd
  BY <1>5, SameVersion DEF SeedEnd
<1>6. CASE StartFuzz
  <2>1. CorpusTypeOK' /\ Present'
    <3>1. CASE UNCHANGED files
      BY <1>6, <3>1 DEF StartFuzz
    <3>2. CASE missing' = FALSE /\ dir' = committed /\ new' = {} /\ tmp' = {}
      BY <1>6, <3>2 DEF StartFuzz
    <3> QED
      BY <1>6, <3>1, <3>2 DEF StartFuzz
  <2>2. Minimizing' /\ Survived' /\ Chained'
    BY <1>6, SameVersion DEF StartFuzz
  <2> QED
    BY <2>1, <2>2
<1>7. CASE FuzzRun
  BY <1>7, SameVersion DEF FuzzRun, Survives
<1>8. CASE FuzzEnd
  BY <1>8, SameVersion DEF FuzzEnd, FuzzPassed
<1>9. CASE StartMerge
  BY <1>9, SameVersion DEF StartMerge
<1>10. CASE MergeCopy
  <2>1. CorpusTypeOK' /\ Present'
    BY <1>10 DEF MergeCopy, Survives
  <2>2. Minimizing' /\ Survived'
    BY <1>10, SameVersion DEF MergeCopy, Survives
  <2>3. Chained'
    BY <1>10, SameVersion DEF MergeCopy, Survives
  <2> QED
    BY <2>1, <2>2, <2>3
<1>11. CASE MergeEnd
  BY <1>11, SameVersion DEF MergeEnd
<1>12. CASE StartMinimize
  BY <1>12, SameVersion DEF StartMinimize
<1>13. CASE MinimizeCopy
  BY <1>13, SameVersion DEF MinimizeCopy, Survives
<1>14. CASE MinimizeEnd
  BY <1>14, SameVersion DEF MinimizeEnd, MergedInto
<1>15. CASE RemoveFile
  BY <1>15, SameVersion DEF RemoveFile
<1>16. CASE RemoveDirectory
  BY <1>16, SameVersion DEF RemoveDirectory
<1>17. CASE Move
  BY <1>17, SameVersion DEF Move
<1>18. CASE Swallowed
  BY <1>18, SameVersion DEF Swallowed
<1>19. CASE CommitCorpus
  BY <1>19, SameVersion DEF CommitCorpus
<1>20. CASE UNCHANGED corpusVars
  BY <1>20, SameVersion DEF corpusVars
<1> QED
  BY <1>1, <1>2, <1>3, <1>4, <1>5, <1>6, <1>7, <1>8, <1>9, <1>10, <1>11, <1>12, <1>13,
     <1>14, <1>15, <1>16, <1>17, <1>18, <1>19, <1>20 DEF CorpusNext

LEMMA CorpusInvAlways == CorpusSpec => []CorpusIInv
<1>1. CorpusIInv /\ [CorpusNext]_corpusVars => CorpusIInv'
  BY CorpusStep, CoverageStep DEF CorpusIInv
<1> QED
  BY <1>1, CorpusInitIInv, PTL DEF CorpusSpec

(* Whatever goals are interrupted, the directories hold inputs, and a corpus   *)
(* that is missing on disk holds none.                                         *)
THEOREM CorpusTypes == CorpusSpec => []CorpusTypeOK
<1>1. CorpusIInv => CorpusTypeOK
  BY DEF CorpusIInv, CorpusGoals
<1> QED
  BY <1>1, CorpusInvAlways, PTL

(* Once a minimize has begun, what the corpus reached is reached by what is   *)
(* on disk, wherever that run was interrupted or failed, and whatever goals   *)
(* were run since.                                                            *)
THEOREM CoverageAlways == CorpusSpec => []CoverageOnDisk
<1>1. CorpusIInv => CoverageOnDisk
  BY DEF CorpusIInv
<1> QED
  BY <1>1, CorpusInvAlways, PTL

(* fuzz.yml's job only reaches its commit when nothing it began with, found   *)
(* or is about to commit diverges.                                            *)
THEOREM CommittedCleanAlways == CorpusSpec => []CommittedClean
<1>1. CorpusIInv => CommittedClean
  BY DEF CorpusIInv, CorpusGoals, Chained, CommittedClean, Spotless
<1> QED
  BY <1>1, CorpusInvAlways, PTL

(* No goal ever adds a diverging input to the corpus. *)
THEOREM NeverLandsAlways == CorpusSpec => DivergenceNeverLands
<1>1. ASSUME CorpusIInv, [CorpusNext]_corpusVars
      PROVE  [goal # "idle" => (dir' \ dir) \cap Bad = {}]_corpusVars
  <2>1. dir' = dir \/ goal = "idle" \/ SeedRun \/ MergeCopy \/ RemoveFile \/ Move
    BY <1>1 DEF CorpusNext, corpusVars, files, Bump, Interrupt, StartSeed, SeedEnd, StartFuzz,
                FuzzRun, FuzzEnd, StartMerge, MergeEnd, StartMinimize, MinimizeCopy, MinimizeEnd,
                RemoveDirectory, Swallowed, CommitCorpus, CorpusIInv, CorpusGoals, CorpusTypeOK
  <2>2. CASE SeedRun
    BY <2>2 DEF SeedRun, Survives
  <2>3. CASE MergeCopy
    BY <2>3 DEF MergeCopy, Survives
  <2>4. CASE RemoveFile
    BY <2>4 DEF RemoveFile
  <2>5. CASE Move
    BY <1>1, <2>5 DEF Move, CorpusIInv, CorpusGoals, Survived, Spotless
  <2> QED
    BY <2>1, <2>2, <2>3, <2>4, <2>5
<1> QED
  BY <1>1, CorpusInvAlways, PTL DEF CorpusSpec, DivergenceNeverLands

-----------------------------------------------------------------------------
(* CiPipeline. *)

CommitRecs == [past : SUBSET Nat, broken : SUBSET Jobs, by : Runs \cup {"developer"}]

(* Every commit is its own ancestor. *)
Lineage ==
    /\ commits \in Seq(CommitRecs)
    /\ \A c \in Commits : c \in commits[c].past

(* A run has what it works from. *)
Started == \A r \in Runs :
    /\ stage[r] # "waiting" => start[r] \in Commits
    /\ stage[r] = "push" => fetched[r] \in Commits

Active == {"work", "ci", "merge", "push"}

(* What runs made among the ancestors of c passed ci.yml. *)
Vetted(c) == \A a \in commits[c].past : commits[a].by \in Runs => a \in passed

Based ==
    /\ Vetted(master)
    /\ \A r \in Runs : stage[r] # "waiting" => Vetted(start[r])

OneEach == \A r, s \in Runs :
    r # s /\ WorkflowOf[r] = WorkflowOf[s] /\ stage[r] \in Active => stage[s] \notin Active

(* The branch of a run's workflow is at the commit the run made, which is     *)
(* what its jobs check out, and what they passed before it is merged.         *)
Underway(r) ==
    /\ stage[r] \in {"waiting", "work"} => \A j \in Jobs : tested[r][j] = 0
    /\ stage[r] \in {"ci", "merge", "push"} =>
        /\ made[r] \in Commits /\ branch[WorkflowOf[r]] = made[r]
        /\ commits[made[r]].past = commits[start[r]].past \cup {made[r]}
    /\ stage[r] = "ci" => \A j \in Jobs : tested[r][j] \in {0, made[r]}
    /\ stage[r] \in {"merge", "push"} => made[r] \in passed
    /\ stage[r] = "push" => fetched[r] = made[r]

CiKeeps == CiTypeOK /\ Lineage /\ Started
CiIInv == CiKeeps /\ Based /\ OneEach /\ \A r \in Runs : Underway(r)

(* Commits are only added, and a commit that passed has passed. *)
Grown ==
    /\ Commits \subseteq Commits'
    /\ \A c \in Commits : commits'[c] = commits[c]
    /\ passed \subseteq passed'

LEMMA CommitAdds ==
    ASSUME CiKeeps, NEW p \in Commits, NEW who \in Runs \cup {"developer"}, Commit(p, who)
    PROVE  /\ Len(commits') = New /\ Len(commits') \in 1..MaxCommits
           /\ \A c \in Commits : commits'[c] = commits[c]
           /\ commits'[New].past = commits[p].past \cup {New}
           /\ commits'[New].by = who /\ commits'[New].broken \in SUBSET Jobs
           /\ commits' \in Seq(CommitRecs)
<1> PICK x \in SUBSET Jobs :
        commits' = Append(commits, [past |-> commits[p].past \cup {New}, broken |-> x, by |-> who])
  BY DEF Commit
<1> DEFINE rec == [past |-> commits[p].past \cup {New}, broken |-> x, by |-> who]
<1>1. commits \in Seq(CommitRecs) /\ Len(commits) \in Nat /\ New \in Nat
  BY DEF CiKeeps, Lineage, New
<1>2. commits[p] \in CommitRecs
  BY <1>1 DEF Commits
<1>3. rec \in CommitRecs
  BY <1>1, <1>2 DEF CommitRecs
<1>4. /\ commits' = Append(commits, rec) /\ Len(commits') = Len(commits) + 1
      /\ commits' \in Seq(CommitRecs) /\ commits'[Len(commits) + 1] = rec
      /\ \A c \in 1..Len(commits) : commits'[c] = commits[c]
  BY <1>1, <1>3
<1>5. Len(commits) + 1 \in 1..MaxCommits
  BY <1>1, PipelineAssumption DEF Commit
<1> QED
  BY <1>1, <1>4, <1>5 DEF New, Commits

LEMMA CiInitKeeps == CiInit => CiKeeps
<1> SUFFICES ASSUME CiInit PROVE CiKeeps
  OBVIOUS
<1> DEFINE rec == [past |-> {1}, broken |-> {}, by |-> "developer"]
<1>1. rec \in CommitRecs
  BY DEF CommitRecs
<1>2. commits = <<rec>> /\ commits \in Seq(CommitRecs) /\ Len(commits) = 1 /\ commits[1] = rec
  BY <1>1 DEF CiInit
<1>3. Commits = {1}
  BY <1>2 DEF Commits
<1>4. Lineage
  BY <1>2, <1>3 DEF Lineage
<1>5. CiTypeOK
  BY <1>2, <1>3, PipelineAssumption DEF CiInit, CiTypeOK, Stages
<1>6. Started
  BY DEF CiInit, Started
<1> QED
  BY <1>4, <1>5, <1>6 DEF CiKeeps

(* A commit added on p leaves types and lineage. *)
LEMMA AddKeeps ==
    ASSUME CiKeeps, NEW p \in Commits, NEW who \in Runs \cup {"developer"}, Commit(p, who)
    PROVE  /\ Commits' = Commits \cup {New} /\ New \in Commits'
           /\ \A c \in Commits' : /\ commits'[c].past \subseteq 1..c
                                  /\ commits'[c].broken \subseteq Jobs
                                  /\ commits'[c].by \in Runs \cup {"developer"}
           /\ Lineage'
<1>1. Len(commits) \in Nat
  BY DEF CiKeeps, Lineage
<1>2. Commits' = Commits \cup {New} /\ New \in Commits'
  BY <1>1, CommitAdds DEF Commits, New
<1>3. ASSUME NEW c \in Commits
      PROVE  /\ commits'[c].past \subseteq 1..c /\ commits'[c].broken \subseteq Jobs
             /\ commits'[c].by \in Runs \cup {"developer"} /\ c \in commits'[c].past
  BY CommitAdds DEF CiKeeps, CiTypeOK, Lineage
<1>4. /\ commits'[New].past \subseteq 1..New /\ commits'[New].broken \subseteq Jobs
      /\ commits'[New].by \in Runs \cup {"developer"} /\ New \in commits'[New].past
  <2>1. commits[p].past \subseteq 1..p /\ 1..p \subseteq 1..New /\ New \in 1..New
    BY <1>1 DEF CiKeeps, CiTypeOK, Commits, New
  <2> QED
    BY <2>1, CommitAdds
<1>5. Lineage'
  BY <1>2, <1>3, <1>4, CommitAdds DEF Lineage
<1> QED
  BY <1>2, <1>3, <1>4, <1>5

LEMMA CiStepKeeps == CiKeeps /\ [CiNext]_ciVars => CiKeeps' /\ Grown
<1> SUFFICES ASSUME CiKeeps, [CiNext]_ciVars PROVE CiKeeps' /\ Grown
  OBVIOUS
<1>1. CASE DeveloperPush
  <2>1. Commit(master, "developer") /\ master \in Commits
    BY <1>1 DEF DeveloperPush, CiKeeps, CiTypeOK
  <2>2. CiTypeOK'
    BY <1>1, <2>1, AddKeeps, CommitAdds DEF DeveloperPush, CiKeeps, CiTypeOK, runVars
  <2>3. Grown /\ Started'
    BY <1>1, <2>1, AddKeeps, CommitAdds DEF DeveloperPush, Grown, CiKeeps, Started, runVars
  <2> QED
    BY <2>1, <2>2, <2>3, AddKeeps DEF CiKeeps
<1>2. CASE \E r \in Runs : PushBranch(r)
  <2> PICK r \in Runs : PushBranch(r)
    BY <1>2
  <2>1. Commit(start[r], r) /\ start[r] \in Commits
    BY DEF PushBranch, CiKeeps, Started
  <2>2. /\ branch \in [Workflows -> {0} \cup Commits'] /\ newest \in [Workflows -> {0} \cup Commits']
        /\ made \in [Runs -> {0} \cup Commits'] /\ start \in [Runs -> {0} \cup Commits']
        /\ fetched \in [Runs -> {0} \cup Commits'] /\ master \in Commits' /\ passed \subseteq Commits'
        /\ tested \in [Runs -> [Jobs -> {0} \cup Commits']]
    BY <2>1, AddKeeps DEF CiKeeps, CiTypeOK
  <2>3. /\ branch' \in [Workflows -> {0} \cup Commits'] /\ newest' \in [Workflows -> {0} \cup Commits']
        /\ made' \in [Runs -> {0} \cup Commits'] /\ stage' \in [Runs -> Stages]
    BY <2>1, <2>2, AddKeeps DEF PushBranch, CiKeeps, CiTypeOK, Stages
  <2>4. CiTypeOK'
    BY <2>1, <2>2, <2>3, AddKeeps, CommitAdds DEF PushBranch, CiTypeOK
  <2>5. Grown /\ Started'
    BY <2>1, AddKeeps, CommitAdds DEF PushBranch, Grown, CiKeeps, Started, CiTypeOK
  <2> QED
    BY <2>1, <2>4, <2>5, AddKeeps DEF CiKeeps
<1>3. CASE UNCHANGED commits
  <2>1. Commits' = Commits
    BY <1>3 DEF Commits
  <2>2. Lineage'
    BY <1>3, <2>1 DEF CiKeeps, Lineage
  <2> USE <1>3, <2>1 DEF CiKeeps, CiTypeOK, Started, Grown
  <2>3. CASE UNCHANGED ciVars
    BY <2>2, <2>3 DEF ciVars, runVars
  <2>4. ASSUME NEW r \in Runs, Trigger(r)
        PROVE  CiKeeps' /\ Grown
    BY <2>2, <2>4 DEF Trigger, Stages
  <2>5. ASSUME NEW r \in Runs, Unchanged(r) \/ WorkFails(r)
        PROVE  CiKeeps' /\ Grown
    BY <2>2, <2>5 DEF Unchanged, WorkFails, Stages
  <2>6. ASSUME NEW r \in Runs, NEW j \in Jobs, CiCheckout(r, j)
        PROVE  CiKeeps' /\ Grown
    <3>1. branch[WorkflowOf[r]] \in {0} \cup Commits
      BY PipelineAssumption
    <3>2. stage' \in [Runs -> Stages]
      BY <2>6 DEF CiCheckout, Stages
    <3>3. Started'
      BY <2>6 DEF CiCheckout
    <3> DEFINE one == [tested[r] EXCEPT ![j] = branch[WorkflowOf[r]]]
    <3>4. tested' = tested \/ tested' = [tested EXCEPT ![r] = one]
      BY <2>6 DEF CiCheckout
    <3>5. tested \in [Runs -> [Jobs -> {0} \cup Commits]] /\ one \in [Jobs -> {0} \cup Commits]
      BY <3>1
    <3>6. tested' \in [Runs -> [Jobs -> {0} \cup Commits]]
      <4> HIDE DEF one
      <4> QED
        BY <3>4, <3>5
    <3> QED
      BY <2>2, <2>6, <3>2, <3>3, <3>6 DEF CiCheckout
  <2>7. ASSUME NEW r \in Runs, CiEnds(r)
        PROVE  CiKeeps' /\ Grown
    BY <2>2, <2>7 DEF CiEnds, Stages
  <2>8. ASSUME NEW r \in Runs, Fetch(r)
        PROVE  CiKeeps' /\ Grown
    <3>1. branch[WorkflowOf[r]] \in {0} \cup Commits
      BY PipelineAssumption
    <3>2. fetched' \in [Runs -> {0} \cup Commits] /\ stage' \in [Runs -> Stages]
      BY <2>8, <3>1 DEF Fetch, Stages
    <3>3. Started'
      BY <2>8, <3>1 DEF Fetch
    <3> QED
      BY <2>2, <2>8, <3>2, <3>3 DEF Fetch
  <2>9. ASSUME NEW r \in Runs, PushMaster(r)
        PROVE  CiKeeps' /\ Grown
    <3>1. master' \in Commits
      BY <2>9 DEF PushMaster, Before
    <3>2. branch' \in [Workflows -> {0} \cup Commits] /\ stage' \in [Runs -> Stages]
      BY <2>9 DEF PushMaster, Stages
    <3>3. Started'
      BY <2>9 DEF PushMaster
    <3> QED
      BY <2>2, <2>9, <3>1, <3>2, <3>3 DEF PushMaster
  <2>10. CASE DeveloperPush
    BY <1>1, <2>10
  <2>11. CASE \E r \in Runs : PushBranch(r)
    BY <1>2, <2>11
  <2>12. CASE AllEnded
    BY <2>3, <2>12 DEF AllEnded
  <2> QED
    BY <2>3, <2>4, <2>5, <2>6, <2>7, <2>8, <2>9, <2>10, <2>11, <2>12 DEF CiNext, RunStep
<1> QED
  BY <1>1, <1>2, <1>3 DEF CiNext, RunStep, Trigger, Unchanged, WorkFails, CiCheckout, CiEnds,
                          Fetch, PushMaster, AllEnded, ciVars

LEMMA CiKeepsAlways == CiSpec => []CiKeeps
<1>1. CiKeeps /\ [CiNext]_ciVars => CiKeeps'
  BY CiStepKeeps
<1> QED
  BY CiInitKeeps, <1>1, PTL DEF CiSpec

(* Whatever runs overlap, master, the branches and what every run checked out, *)
(* made, tested or fetched are commits that exist, within the bound on them.   *)
THEOREM CiTypes == CiSpec => []CiTypeOK
<1>1. CiKeeps => CiTypeOK
  BY DEF CiKeeps
<1> QED
  BY <1>1, CiKeepsAlways, PTL

(* Whatever runs overlap, master only moves to what contains it: a developer  *)
(* commits on it, and a push that is no fast-forward is refused.              *)
THEOREM MasterKeepsAlways == CiSpec => MasterKeeps
<1>1. ASSUME CiKeeps, [CiNext]_ciVars
      PROVE  [(master \in (commits[master].past)')]_ciVars
  <2>1. master \in Commits /\ Grown /\ master \in commits[master].past
    BY <1>1, CiStepKeeps DEF CiKeeps, CiTypeOK, Lineage
  <2>2. master \in commits'[master].past
    BY <2>1 DEF Grown
  <2>3. CASE DeveloperPush
    <3>1. Commit(master, "developer")
      BY <2>3 DEF DeveloperPush
    <3> QED
      BY <1>1, <2>1, <2>3, <3>1, CommitAdds DEF DeveloperPush
  <2>4. ASSUME NEW r \in Runs, PushMaster(r)
        PROVE  master \in commits'[master'].past
    BY <2>1, <2>4 DEF PushMaster, Before
  <2>5. CASE master' = master
    BY <2>2, <2>5
  <2> QED
    BY <1>1, <2>3, <2>4, <2>5
    DEF CiNext, RunStep, Trigger, Unchanged, WorkFails, PushBranch, CiCheckout, CiEnds, Fetch,
        AllEnded, ciVars
<1> QED
  BY <1>1, CiKeepsAlways, PTL DEF CiSpec, MasterKeeps

-----------------------------------------------------------------------------
(* When no two runs of a workflow overlap. *)

LEMMA VettedStays ==
    ASSUME CiKeeps, Grown, NEW c \in Commits, Vetted(c) PROVE Vetted(c)'
<1>1. commits'[c].past = commits[c].past /\ commits[c].past \subseteq Commits
  BY DEF Grown, CiKeeps, Lineage, CiTypeOK, Commits
<1> QED
  BY <1>1 DEF Grown, Vetted

LEMMA BasedStays ==
    ASSUME CiKeeps, Grown, Based, master' = master, start' = start,
           \A s \in Runs : stage'[s] # "waiting" => stage[s] # "waiting"
    PROVE  Based'
BY VettedStays DEF Based, CiKeeps, CiTypeOK, Started

LEMMA UnderwayStays ==
    ASSUME CiKeeps, Grown, NEW s \in Runs, Underway(s),
           stage'[s] = stage[s], start'[s] = start[s], made'[s] = made[s],
           tested'[s] = tested[s], fetched'[s] = fetched[s],
           branch'[WorkflowOf[s]] = branch[WorkflowOf[s]] \/ stage[s] \notin Active
    PROVE  Underway(s)'
<1>1. stage[s] \in {"ci", "merge", "push"} =>
        commits'[made[s]] = commits[made[s]] /\ commits'[start[s]] = commits[start[s]]
  BY DEF Underway, Grown, CiKeeps, Started
<1> QED
  BY <1>1 DEF Underway, Grown, Active

(* Another run's step. *)
LEMMA OneEachStays ==
    ASSUME CiKeeps, OneEach, NEW r \in Runs, NEW t, stage' = [stage EXCEPT ![r] = t],
           t \notin Active \/ stage[r] \in Active
    PROVE  OneEach'
BY DEF CiKeeps, CiTypeOK, OneEach

LEMMA CiStep ==
    ASSUME ~MayOverlap PROVE CiIInv /\ [CiNext]_ciVars => CiIInv'
<1> SUFFICES ASSUME CiIInv, [CiNext]_ciVars PROVE CiIInv'
  OBVIOUS
<1>1. CiKeeps /\ Based /\ OneEach /\ (\A s \in Runs : Underway(s)) /\ CiKeeps' /\ Grown
  BY CiStepKeeps DEF CiIInv
<1>2. CASE UNCHANGED <<master, branch, runVars>>
  <2>1. Based'
    BY <1>1, <1>2, BasedStays DEF runVars
  <2>2. \A s \in Runs : Underway(s)'
    BY <1>1, <1>2, UnderwayStays DEF runVars
  <2> QED
    BY <1>1, <1>2, <2>1, <2>2 DEF CiIInv, OneEach, runVars
<1>3. CASE DeveloperPush
  <2>1. master \in Commits /\ Commit(master, "developer")
    BY <1>1, <1>3 DEF DeveloperPush, CiKeeps, CiTypeOK
  <2>2. Vetted(master)'
    <3>1. Vetted(master)' <=>
            \A a \in commits'[New].past : commits'[a].by \in Runs => a \in passed'
      BY <1>3 DEF Vetted, DeveloperPush
    <3>2. commits[master].past \subseteq Commits
      BY <1>1, <2>1 DEF CiKeeps, CiTypeOK, Lineage, Commits
    <3>3. ASSUME NEW a \in commits[master].past, commits'[a].by \in Runs PROVE a \in passed'
      BY <1>1, <3>2, <3>3 DEF Based, Vetted, Grown
    <3>4. commits'[New].by \notin Runs
      BY <1>1, <2>1, CommitAdds, PipelineAssumption
    <3> QED
      BY <1>1, <2>1, <3>1, <3>3, <3>4, CommitAdds
  <2>3. Based'
    BY <1>1, <1>3, <2>2, VettedStays DEF Based, DeveloperPush, runVars, CiKeeps, Started
  <2>4. \A s \in Runs : Underway(s)'
    BY <1>1, <1>3, UnderwayStays DEF DeveloperPush, runVars
  <2> QED
    BY <1>1, <1>3, <2>3, <2>4 DEF CiIInv, OneEach, DeveloperPush, runVars
<1>4. ASSUME NEW r \in Runs, Trigger(r) PROVE CiIInv'
  <2>1. Alone(r) /\ stage[r] = "waiting" /\ stage' = [stage EXCEPT ![r] = "work"]
    BY <1>4 DEF Trigger
  <2>2. OneEach'
    BY <1>1, <2>1 DEF OneEach, Alone, Active, Ended, CiKeeps, CiTypeOK
  <2>3. Based'
    BY <1>1, <1>4, VettedStays DEF Based, Trigger, CiKeeps, CiTypeOK, Started
  <2>4. ASSUME NEW s \in Runs PROVE Underway(s)'
    <3>1. CASE s = r
      BY <1>1, <1>4, <3>1 DEF Trigger, Underway, CiKeeps, CiTypeOK
    <3>2. CASE s # r
      BY <1>1, <1>4, <3>2, UnderwayStays DEF Trigger, CiKeeps, CiTypeOK
    <3> QED
      BY <3>1, <3>2
  <2> QED
    BY <1>1, <2>2, <2>3, <2>4 DEF CiIInv
<1>5. ASSUME NEW r \in Runs, Unchanged(r) \/ WorkFails(r) PROVE CiIInv'
  <2>1. Based' /\ OneEach'
    BY <1>1, <1>5, BasedStays, OneEachStays DEF Unchanged, WorkFails, Active, CiKeeps, CiTypeOK
  <2>2. ASSUME NEW s \in Runs PROVE Underway(s)'
    <3>1. CASE s = r
      BY <1>5, <3>1 DEF Unchanged, WorkFails, Underway, CiKeeps, CiTypeOK, CiIInv
    <3>2. CASE s # r
      BY <1>1, <1>5, <3>2, UnderwayStays DEF Unchanged, WorkFails, CiKeeps, CiTypeOK
    <3> QED
      BY <3>1, <3>2
  <2> QED
    BY <1>1, <2>1, <2>2 DEF CiIInv
<1>6. ASSUME NEW r \in Runs, PushBranch(r) PROVE CiIInv'
  <2>1. start[r] \in Commits /\ Commit(start[r], r)
    BY <1>1, <1>6 DEF PushBranch, CiKeeps, Started
  <2>2. Based' /\ OneEach'
    BY <1>1, <1>6, BasedStays, OneEachStays DEF PushBranch, Active, CiKeeps, CiTypeOK
  <2>3. ASSUME NEW s \in Runs PROVE Underway(s)'
    <3>1. CASE s = r
      <4>1. stage'[r] = "ci" /\ made'[r] = New /\ start' = start /\ tested' = tested
        BY <1>1, <1>6 DEF PushBranch, CiKeeps, CiTypeOK
      <4>2. branch'[WorkflowOf[r]] = New
        BY <1>1, <1>6, PipelineAssumption DEF PushBranch, CiKeeps, CiTypeOK
      <4>3. commits'[New].past = commits'[start[r]].past \cup {New} /\ New \in Commits'
        BY <1>1, <2>1, CommitAdds, AddKeeps
      <4>4. \A j \in Jobs : tested[r][j] = 0
        BY <1>1, <1>6 DEF PushBranch, Underway
      <4> QED
        BY <3>1, <4>1, <4>2, <4>3, <4>4 DEF Underway
    <3>2. CASE s # r
      <4>1. WorkflowOf[s] # WorkflowOf[r] \/ stage[s] \notin Active
        BY <1>1, <1>6, <3>2 DEF OneEach, PushBranch, Active
      <4>2. branch'[WorkflowOf[s]] = branch[WorkflowOf[s]] \/ stage[s] \notin Active
        BY <1>1, <1>6, <4>1, PipelineAssumption DEF PushBranch, CiKeeps, CiTypeOK
      <4> QED
        BY <1>1, <1>6, <3>2, <4>2, UnderwayStays DEF PushBranch, CiKeeps, CiTypeOK
    <3> QED
      BY <3>1, <3>2
  <2> QED
    BY <1>1, <2>2, <2>3 DEF CiIInv
<1>7. ASSUME NEW r \in Runs, NEW j \in Jobs, CiCheckout(r, j) PROVE CiIInv'
  <2>1. /\ made[r] \in Commits /\ branch[WorkflowOf[r]] = made[r] /\ made[r] # 0
    BY <1>1, <1>7 DEF CiCheckout, Underway, Commits
  <2>2. UNCHANGED stage /\ tested' = [tested EXCEPT ![r][j] = made[r]]
    BY <1>7, <2>1 DEF CiCheckout
  <2>3. Based' /\ OneEach'
    BY <1>1, <1>7, <2>2, BasedStays DEF CiCheckout, OneEach
  <2>4. ASSUME NEW s \in Runs PROVE Underway(s)'
    <3>1. CASE s = r
      <4>1. \A k \in Jobs : tested'[r][k] \in {0, made[r]}
        BY <1>1, <1>7, <2>2 DEF CiCheckout, Underway, CiKeeps, CiTypeOK
      <4> QED
        BY <1>1, <1>7, <2>2, <3>1, <4>1 DEF CiCheckout, Underway, Commits
    <3>2. CASE s # r
      BY <1>1, <1>7, <2>2, <3>2, UnderwayStays DEF CiCheckout, CiKeeps, CiTypeOK
    <3> QED
      BY <3>1, <3>2
  <2> QED
    BY <1>1, <2>3, <2>4 DEF CiIInv
<1>8. ASSUME NEW r \in Runs, CiEnds(r) PROVE CiIInv'
  <2>1. Based' /\ OneEach'
    BY <1>1, <1>8, BasedStays, OneEachStays DEF CiEnds, Active, CiKeeps, CiTypeOK
  <2>2. ASSUME NEW s \in Runs PROVE Underway(s)'
    <3>1. CASE s = r
      <4>1. made[r] \in Commits /\ \A j \in Jobs : tested[r][j] = made[r]
        BY <1>1, <1>8 DEF CiEnds, Underway
      <4>2. stage'[r] \in {"merge", "failed"} /\ (stage'[r] = "merge" => made[r] \in passed')
        BY <1>1, <1>8, <4>1 DEF CiEnds, CiKeeps, CiTypeOK
      <4> QED
        BY <1>1, <1>8, <3>1, <4>1, <4>2 DEF CiEnds, Underway, Commits
    <3>2. CASE s # r
      BY <1>1, <1>8, <3>2, UnderwayStays DEF CiEnds, CiKeeps, CiTypeOK
    <3> QED
      BY <3>1, <3>2
  <2> QED
    BY <1>1, <2>1, <2>2 DEF CiIInv
<1>9. ASSUME NEW r \in Runs, Fetch(r) PROVE CiIInv'
  <2>1. Based' /\ OneEach'
    BY <1>1, <1>9, BasedStays, OneEachStays DEF Fetch, Active, CiKeeps, CiTypeOK
  <2>2. ASSUME NEW s \in Runs PROVE Underway(s)'
    <3>1. CASE s = r
      BY <1>1, <1>9, <3>1 DEF Fetch, Underway, CiKeeps, CiTypeOK, Commits
    <3>2. CASE s # r
      BY <1>1, <1>9, <3>2, UnderwayStays DEF Fetch, CiKeeps, CiTypeOK
    <3> QED
      BY <3>1, <3>2
  <2> QED
    BY <1>1, <2>1, <2>2 DEF CiIInv
<1>10. ASSUME NEW r \in Runs, PushMaster(r) PROVE CiIInv'
  <2>1. /\ fetched[r] = made[r] /\ made[r] \in passed /\ made[r] \in Commits
        /\ commits[made[r]].past = commits[start[r]].past \cup {made[r]}
        /\ Vetted(start[r])
    BY <1>1, <1>10 DEF PushMaster, Underway, Based
  <2>2. Vetted(made[r])
    BY <2>1 DEF Vetted
  <2>3. Vetted(master)'
    <3>1. master \in Commits /\ Vetted(master) /\ master' \in {master, made[r]}
      BY <1>1, <1>10, <2>1 DEF PushMaster, Based, CiKeeps, CiTypeOK
    <3>2. commits' = commits /\ passed' = passed
      BY <1>10 DEF PushMaster
    <3> QED
      BY <2>2, <3>1, <3>2 DEF Vetted
  <2>4. Based'
    BY <1>1, <1>10, <2>3, VettedStays DEF Based, PushMaster, CiKeeps, CiTypeOK, Started
  <2>5. OneEach'
    BY <1>1, <1>10, OneEachStays DEF PushMaster, Active
  <2>6. ASSUME NEW s \in Runs PROVE Underway(s)'
    <3>1. CASE s = r
      BY <1>1, <1>10, <3>1 DEF PushMaster, Underway, CiKeeps, CiTypeOK
    <3>2. CASE s # r
      <4>1. WorkflowOf[s] # WorkflowOf[r] \/ stage[s] \notin Active
        BY <1>1, <1>10, <3>2 DEF OneEach, PushMaster, Active
      <4>2. branch'[WorkflowOf[s]] = branch[WorkflowOf[s]] \/ stage[s] \notin Active
        BY <1>1, <1>10, <4>1, PipelineAssumption DEF PushMaster, CiKeeps, CiTypeOK
      <4> QED
        BY <1>1, <1>10, <3>2, <4>2, UnderwayStays DEF PushMaster, CiKeeps, CiTypeOK
    <3> QED
      BY <3>1, <3>2
  <2> QED
    BY <1>1, <2>4, <2>5, <2>6 DEF CiIInv
<1> QED
  BY <1>2, <1>3, <1>4, <1>5, <1>6, <1>7, <1>8, <1>9, <1>10
  DEF CiNext, RunStep, AllEnded, ciVars

(* When no two runs of a workflow overlap, every commit a run brought to      *)
(* master passed the whole of ci.yml.                                         *)
THEOREM MasterTestedSerial == ASSUME ~MayOverlap PROVE CiSpec => []MasterTested
<1>1. CiInit => CiIInv
  <2> SUFFICES ASSUME CiInit PROVE CiIInv
    OBVIOUS
  <2>1. commits[1].past = {1} /\ commits[1].by \notin Runs /\ master = 1
    BY PipelineAssumption DEF CiInit
  <2>2. Based /\ OneEach /\ \A r \in Runs : Underway(r)
    BY <2>1 DEF CiInit, Based, Vetted, OneEach, Active, Underway
  <2> QED
    BY <2>2, CiInitKeeps DEF CiIInv
<1>2. CiIInv => MasterTested
  BY DEF CiIInv, Based, Vetted, MasterTested
<1> QED
  BY <1>1, <1>2, CiStep, PTL DEF CiSpec
=============================================================================
