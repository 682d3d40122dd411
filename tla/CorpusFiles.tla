---------------------------- MODULE CorpusFiles ----------------------------
(***************************************************************************)
(* src/Makefile: the corpus directory of one target under the goals that   *)
(* write it, seeding (MISSING_CORPORA), fuzz, merge and minimize, in any   *)
(* order, each interrupted anywhere; and the run of fuzz.yml that chains   *)
(* the last three and commits.  libFuzzer is external: an input covers     *)
(* features, and one that diverges aborts the process that runs it.        *)
(***************************************************************************)
EXTENDS Integers

CONSTANTS
    CorpusInputs,
    Features,
    Versions,   \* of the code under test: 0..n, as it is changed
    Covers,     \* [Versions -> [CorpusInputs -> SUBSET Features]]
    Diverging   \* [Versions -> SUBSET CorpusInputs]

ASSUME CorpusAssumption ==
    /\ Versions # {} /\ Versions \subseteq Nat
    /\ Covers \in [Versions -> [CorpusInputs -> SUBSET Features]]
    /\ Diverging \in [Versions -> SUBSET CorpusInputs]

VARIABLES
    goal,       \* what make is doing
    chained,    \* the goal is a step of fuzz.yml's job
    version,
    missing,    \* there is no corpus directory
    dir,        \* the inputs in it
    new,        \* build/new/<target>
    tmp,        \* build/minimize/<target>
    tried,      \* the inputs the running fuzzer has run
    before,     \* the corpus when the last minimize of this code and tree began
    committed   \* the corpus of the last commit

corpusVars == <<goal, chained, version, missing, dir, new, tmp, tried, before, committed>>
files == <<missing, dir, new, tmp>>

Goals == {"idle", "seed", "fuzz", "fuzzed", "merge", "merged", "minimize", "remove",
          "move", "minimized"}

CorpusTypeOK ==
    /\ goal \in Goals /\ version \in Versions
    /\ chained \in BOOLEAN /\ missing \in BOOLEAN /\ (missing => dir = {})
    /\ dir \subseteq CorpusInputs /\ new \subseteq CorpusInputs /\ tmp \subseteq CorpusInputs
    /\ tried \subseteq CorpusInputs /\ before \subseteq CorpusInputs
    /\ committed \subseteq CorpusInputs

Bad == Diverging[version]

(* Mutated Survives: kept before it is compared. *)
SurvivesAny(i) == TRUE

(* The process lives past running i. *)
Survives(i) == i \notin Bad

(* What the inputs of s cover that do not abort. *)
Reach(s) == UNION {Covers[version][i] : i \in {j \in s : Survives(j)}}

CorpusInit ==
    /\ goal = "idle" /\ chained = FALSE
    /\ version \in {v \in Versions : \A w \in Versions : v <= w}
    /\ missing = TRUE /\ dir = {} /\ new = {} /\ tmp = {} /\ tried = {} /\ before = {}
    /\ committed \in SUBSET (CorpusInputs \ Diverging[version])

(* A bump, or a change of a target. *)
Bump ==
    /\ goal = "idle" /\ ~chained
    /\ version' \in {v \in Versions : v > version} /\ before' = {}
    /\ UNCHANGED <<goal, chained, files, tried, committed>>

(* Any goal can end here: it fails, or it is interrupted. *)
Interrupt ==
    /\ goal # "idle" /\ goal' = "idle" /\ chained' = FALSE /\ tried' = {}
    /\ UNCHANGED <<version, files, before, committed>>

-----------------------------------------------------------------------------
(* A missing corpus is made, then seeded by a short run into it, before any   *)
(* goal that needs one; in fuzz.yml's job that is make readme-coverage.       *)

StartSeed ==
    /\ goal \in {"idle", "minimized"} /\ missing
    /\ goal' = "seed" /\ missing' = FALSE /\ dir' = {} /\ tried' = {}
    /\ UNCHANGED <<chained, version, new, tmp, before, committed>>

(* libFuzzer runs an input and keeps it in the first directory for what it    *)
(* covers; a divergence aborts first.                                         *)
SeedRun ==
    /\ goal = "seed"
    /\ \E i \in CorpusInputs \ tried :
        /\ Survives(i) /\ tried' = tried \cup {i}
        /\ dir' = IF Reach({i}) \subseteq Reach(dir) THEN dir ELSE dir \cup {i}
    /\ UNCHANGED <<goal, chained, version, missing, new, tmp, before, committed>>

SeedEnd ==
    /\ goal = "seed" /\ goal' = IF chained THEN "minimized" ELSE "idle"
    /\ UNCHANGED <<chained, version, files, tried, before, committed>>

(* make fuzz, alone or as the first step of fuzz.yml on a fresh checkout.     *)
StartFuzz ==
    /\ goal = "idle" /\ goal' = "fuzz" /\ tried' = {}
    /\ \/ /\ chained' = TRUE /\ missing' = FALSE
          /\ committed # {} /\ dir' = committed /\ new' = {} /\ tmp' = {} /\ before' = {}
       \/ chained' = FALSE /\ ~missing /\ UNCHANGED <<files, before>>
    /\ UNCHANGED <<version, committed>>

FuzzRun ==
    /\ goal = "fuzz"
    /\ \E i \in CorpusInputs \ tried :
        /\ Survives(i) /\ tried' = tried \cup {i}
        /\ new' = IF Reach({i}) \subseteq Reach(dir \cup new) THEN new ELSE new \cup {i}
    /\ UNCHANGED <<goal, chained, version, missing, dir, tmp, before, committed>>

(* Mutated FuzzPassed: its exit status is not looked at. *)
FuzzEnded == TRUE

(* The fuzzer loads both directories before it mutates anything, so it only   *)
(* ends well once it has run them.                                            *)
FuzzPassed == dir \cup new \subseteq tried

FuzzEnd ==
    /\ goal = "fuzz" /\ FuzzPassed
    /\ goal' = (IF chained THEN "fuzzed" ELSE "idle") /\ tried' = {}
    /\ UNCHANGED <<chained, version, files, before, committed>>

-----------------------------------------------------------------------------
(* make merge *)

StartMerge ==
    /\ ~missing
    /\ \/ goal = "idle" /\ ~chained
       \/ goal = "fuzzed"
    /\ goal' = "merge"
    /\ UNCHANGED <<chained, version, files, tried, before, committed>>

(* The merge writes one input that survives and adds to what is covered. *)
MergeCopy ==
    /\ goal = "merge"
    /\ \E i \in new :
        /\ Survives(i) /\ ~(Reach({i}) \subseteq Reach(dir))
        /\ dir' = dir \cup {i}
    /\ UNCHANGED <<goal, chained, version, missing, new, tmp, tried, before, committed>>

MergeEnd ==
    /\ goal = "merge" /\ Reach(new) \subseteq Reach(dir)
    /\ goal' = (IF chained THEN "merged" ELSE "idle")
    /\ UNCHANGED <<chained, version, files, tried, before, committed>>

-----------------------------------------------------------------------------
(* make minimize *)

StartMinimize ==
    /\ ~missing
    /\ \/ goal = "idle" /\ ~chained
       \/ goal = "merged"
    /\ goal' = "minimize" /\ tmp' = {} /\ before' = dir
    /\ UNCHANGED <<chained, version, missing, dir, new, tried, committed>>

MinimizeCopy ==
    /\ goal = "minimize"
    /\ \E i \in dir :
        /\ Survives(i) /\ ~(Reach({i}) \subseteq Reach(tmp))
        /\ tmp' = tmp \cup {i}
    /\ UNCHANGED <<goal, chained, version, missing, dir, new, tried, before, committed>>

(* Mutated MergedInto: the exit status of the merge is not looked at. *)
MergedAnyway == TRUE

(* The merge into tmp succeeded. *)
MergedInto == Reach(dir) \subseteq Reach(tmp)

MinimizeEnd ==
    /\ goal = "minimize" /\ MergedInto /\ goal' = "remove"
    /\ UNCHANGED <<chained, version, files, tried, before, committed>>

(* rm -rf takes the files one by one, the directory last. *)
RemoveFile ==
    /\ goal = "remove"
    /\ \E i \in dir : dir' = dir \ {i}
    /\ UNCHANGED <<goal, chained, version, missing, new, tmp, tried, before, committed>>

RemoveDirectory ==
    /\ goal = "remove" /\ dir = {} /\ missing' = TRUE /\ goal' = "move"
    /\ UNCHANGED <<chained, version, dir, new, tmp, tried, before, committed>>

(* mv within a file system: a rename. *)
Move ==
    /\ goal = "move" /\ missing' = FALSE /\ dir' = tmp /\ tmp' = {}
    /\ goal' = IF chained THEN "minimized" ELSE "idle"
    /\ UNCHANGED <<chained, version, new, tried, before, committed>>

(* rm && mv; echo: when rm or mv fails, the recipe is done and says ok. *)
Swallowed ==
    /\ goal \in {"remove", "move"}
    /\ goal' = IF chained THEN "minimized" ELSE "idle"
    /\ UNCHANGED <<chained, version, files, tried, before, committed>>

(* fuzz.yml pushes what it has; the file system goes with its runner. *)
CommitCorpus ==
    /\ goal = "minimized" /\ ~missing /\ goal' = "idle" /\ chained' = FALSE
    /\ committed' = dir
    /\ UNCHANGED <<version, files, tried, before>>

CorpusNext ==
    \/ Bump \/ Interrupt \/ StartSeed \/ SeedRun \/ SeedEnd
    \/ StartFuzz \/ FuzzRun \/ FuzzEnd \/ StartMerge \/ MergeCopy \/ MergeEnd
    \/ StartMinimize \/ MinimizeCopy \/ MinimizeEnd \/ RemoveFile \/ RemoveDirectory \/ Move
    \/ Swallowed \/ CommitCorpus

CorpusSpec == CorpusInit /\ [][CorpusNext]_corpusVars

-----------------------------------------------------------------------------
(* Properties. *)

(* "skips any that crash, so a divergence never lands in the corpus" (merge): *)
(* no step of any goal adds one.  A bump may make an old input diverge.       *)
DivergenceNeverLands == [][goal # "idle" => (dir' \ dir) \cap Bad = {}]_corpusVars

(* "Rebuilds each corpus from scratch with only the inputs its coverage       *)
(* needs" (minimize): what the corpus reached when a minimize began is        *)
(* reached by what is on disk, while it runs and after it was interrupted or  *)
(* its rm or mv failed, whatever goals are run then, until the next minimize  *)
(* clears build/minimize or the code changes.                                 *)
CoverageOnDisk == Reach(before) \subseteq Reach(dir \cup tmp)

(* "Drop the inputs the rest of the corpus covers" (fuzz.yml): what the job   *)
(* commits reaches what its corpus did before it was minimized.  It does not  *)
(* hold: see Swallowed.                                                       *)
OnlyCoveredDropped == goal = "minimized" => Reach(before) \subseteq Reach(dir)

(* "Skipped after a failure" (fuzz.yml): a minimize drops a diverging input   *)
(* without a word, so the job only gets to its commit when nothing it began   *)
(* with or found diverges; and then nothing it commits does.                  *)
CommittedClean ==
    goal = "minimized" => (committed \cup before \cup new \cup dir) \cap Bad = {}
=============================================================================
