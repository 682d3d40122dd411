----------------------------- MODULE CiPipeline -----------------------------
(***************************************************************************)
(* The two workflows that move master on their own, bump-secp256k1.yml and *)
(* fuzz.yml: each commits to a branch of its own, has ci.yml test it, and  *)
(* fast-forwards master to it.  They share the repository with each other, *)
(* with other runs of themselves (a schedule and workflow_dispatch start   *)
(* them, and nothing stops two runs at once) and with developers.          *)
(*                                                                         *)
(* External: actions/checkout takes the commit that triggered the run      *)
(* unless given a ref; git push updates each ref it is given on its own,   *)
(* and does nothing when one to delete is not there.                       *)
(***************************************************************************)
EXTENDS Naturals, Sequences, FiniteSets

CONSTANTS
    Workflows,
    Runs,           \* runs of workflows
    WorkflowOf,     \* WorkflowOf[r]: the workflow r is a run of
    MayOverlap,     \* whether a run may start during another of its workflow
    Jobs,           \* jobs of ci.yml that check out the branch: check and cross
    MaxCommits      \* bound: commits made in all

ASSUME PipelineAssumption ==
    /\ WorkflowOf \in [Runs -> Workflows] /\ "developer" \notin Runs
    /\ MayOverlap \in BOOLEAN
    /\ IsFiniteSet(Jobs) /\ Jobs # {}
    /\ MaxCommits \in Nat \ {0}

VARIABLES
    commits,    \* commits[c]: c and its ancestors, whether it is broken, whose it is
    master,     \* the commit of master
    branch,     \* branch[w]: the commit of workflow w's branch, 0 when it is not there
    newest,     \* history: the last commit pushed to it
    stage,      \* stage[r]: the job run r is in
    start,      \* start[r]: master when r was triggered
    made,       \* made[r]: the commit r pushed to its branch, 0 for none
    tested,     \* tested[r][j]: the commit job j of r's ci checked out, 0 before
    fetched,    \* fetched[r]: the commit r's merge job fetched, 0 before
    passed      \* history: commits on which every job of one ci passed

runVars == <<stage, start, made, tested, fetched>>
ciVars == <<commits, master, branch, newest, runVars, passed>>

Commits == 1..Len(commits)
Stages  == {"waiting", "work", "ci", "merge", "push", "merged", "unchanged", "failed"}
Ended   == {"merged", "unchanged", "failed"}

(* a is an ancestor of c, or c. *)
Before(a, c) == a \in commits[c].past

CiTypeOK ==
    /\ Len(commits) \in 1..MaxCommits
    /\ \A c \in Commits : /\ commits[c].past \subseteq 1..c
                          /\ commits[c].broken \subseteq Jobs
                          /\ commits[c].by \in Runs \cup {"developer"}
    /\ master \in Commits
    /\ branch \in [Workflows -> {0} \cup Commits]
    /\ newest \in [Workflows -> {0} \cup Commits]
    /\ stage \in [Runs -> Stages]
    /\ start \in [Runs -> {0} \cup Commits]
    /\ made \in [Runs -> {0} \cup Commits]
    /\ tested \in [Runs -> [Jobs -> {0} \cup Commits]]
    /\ fetched \in [Runs -> {0} \cup Commits]
    /\ passed \subseteq Commits

CiInit ==
    /\ commits = <<[past |-> {1}, broken |-> {}, by |-> "developer"]>>
    /\ master = 1
    /\ branch = [w \in Workflows |-> 0]
    /\ newest = [w \in Workflows |-> 0]
    /\ stage = [r \in Runs |-> "waiting"]
    /\ start = [r \in Runs |-> 0]
    /\ made = [r \in Runs |-> 0]
    /\ tested = [r \in Runs |-> [j \in Jobs |-> 0]]
    /\ fetched = [r \in Runs |-> 0]
    /\ passed = {}

-----------------------------------------------------------------------------
(* A new commit on parent p: some jobs of ci.yml may fail on it. *)
New == Len(commits) + 1
Commit(p, who) ==
    /\ Len(commits) < MaxCommits
    /\ \E x \in SUBSET Jobs :
         commits' = Append(commits, [past |-> commits[p].past \cup {New}, broken |-> x, by |-> who])

(* A developer pushes to master. *)
DeveloperPush ==
    /\ Commit(master, "developer")
    /\ master' = New
    /\ UNCHANGED <<branch, newest, runVars, passed>>

(* The schedule or workflow_dispatch.  The schedule alone starts no two     *)
(* runs of a workflow at once; the workflow files do not rule it out.       *)
Alone(r) == \A s \in Runs \ {r} :
    WorkflowOf[s] = WorkflowOf[r] => stage[s] \in Ended \cup {"waiting"}

Trigger(r) ==
    /\ stage[r] = "waiting"
    /\ MayOverlap \/ Alone(r)
    /\ stage' = [stage EXCEPT ![r] = "work"]
    /\ start' = [start EXCEPT ![r] = master]
    /\ UNCHANGED <<commits, master, branch, newest, made, tested, fetched, passed>>

(* Nothing to commit: changed=false, and the jobs that need it are skipped. *)
Unchanged(r) ==
    /\ stage[r] = "work"
    /\ stage' = [stage EXCEPT ![r] = "unchanged"]
    /\ UNCHANGED <<commits, master, branch, newest, start, made, tested, fetched, passed>>

(* A step before the push fails: no commit is made. *)
WorkFails(r) ==
    /\ stage[r] = "work"
    /\ stage' = [stage EXCEPT ![r] = "failed"]
    /\ UNCHANGED <<commits, master, branch, newest, start, made, tested, fetched, passed>>

(* git commit on the commit checked out and git push -f to the branch. *)
PushBranch(r) ==
    /\ stage[r] = "work"
    /\ Commit(start[r], r)
    /\ branch' = [branch EXCEPT ![WorkflowOf[r]] = New]
    /\ newest' = [newest EXCEPT ![WorkflowOf[r]] = New]
    /\ made' = [made EXCEPT ![r] = New]
    /\ stage' = [stage EXCEPT ![r] = "ci"]
    /\ UNCHANGED <<master, start, tested, fetched, passed>>

(* A job of ci.yml checks out the branch by name; when its branch is gone,  *)
(* the job and with it the run fails.                                       *)
CiCheckout(r, j) ==
    /\ stage[r] = "ci" /\ tested[r][j] = 0
    /\ LET c == branch[WorkflowOf[r]] IN
         IF c = 0 THEN stage' = [stage EXCEPT ![r] = "failed"] /\ UNCHANGED tested
                  ELSE tested' = [tested EXCEPT ![r][j] = c] /\ UNCHANGED stage
    /\ UNCHANGED <<commits, master, branch, newest, start, made, fetched, passed>>

(* Mutated CiEnds: the merge job needs one job of ci.yml, not all. *)
CiEndsOnAny(r) ==
    /\ stage[r] = "ci" /\ \A j \in Jobs : tested[r][j] # 0
    /\ IF \E j \in Jobs : j \notin commits[tested[r][j]].broken
         THEN stage' = [stage EXCEPT ![r] = "merge"]
         ELSE stage' = [stage EXCEPT ![r] = "failed"]
    /\ passed' = passed \cup
         {c \in Commits : \A j \in Jobs : tested[r][j] = c /\ j \notin commits[c].broken}
    /\ UNCHANGED <<commits, master, branch, newest, start, made, tested, fetched>>

(* Every job has run; the merge job needs them all to pass. *)
CiEnds(r) ==
    /\ stage[r] = "ci" /\ \A j \in Jobs : tested[r][j] # 0
    /\ IF \A j \in Jobs : j \notin commits[tested[r][j]].broken
         THEN stage' = [stage EXCEPT ![r] = "merge"]
         ELSE stage' = [stage EXCEPT ![r] = "failed"]
    /\ passed' = passed \cup
         {c \in Commits : \A j \in Jobs : tested[r][j] = c /\ j \notin commits[c].broken}
    /\ UNCHANGED <<commits, master, branch, newest, start, made, tested, fetched>>

(* git fetch origin BRANCH; git merge --ff-only FETCH_HEAD, on the commit   *)
(* that triggered the run.                                                  *)
Fetch(r) ==
    /\ stage[r] = "merge"
    /\ LET c == branch[WorkflowOf[r]] IN
         IF c # 0 /\ Before(start[r], c)
           THEN fetched' = [fetched EXCEPT ![r] = c] /\ stage' = [stage EXCEPT ![r] = "push"]
           ELSE stage' = [stage EXCEPT ![r] = "failed"] /\ UNCHANGED fetched
    /\ UNCHANGED <<commits, master, branch, newest, start, made, tested, passed>>

(* Mutated PushMaster: git push -f. *)
PushMasterForced(r) ==
    /\ stage[r] = "push"
    /\ LET w == WorkflowOf[r]
           there == branch[w] # 0
       IN  /\ master' = IF there THEN fetched[r] ELSE master
           /\ branch' = [branch EXCEPT ![w] = 0]
           /\ stage' = [stage EXCEPT ![r] = IF there THEN "merged" ELSE "failed"]
    /\ UNCHANGED <<commits, newest, start, made, tested, fetched, passed>>

(* git push origin HEAD:master :BRANCH. *)
PushMaster(r) ==
    /\ stage[r] = "push"
    /\ LET w == WorkflowOf[r]
           there == branch[w] # 0
           ff == Before(master, fetched[r])
       IN  /\ master' = IF there /\ ff THEN fetched[r] ELSE master
           /\ branch' = [branch EXCEPT ![w] = 0]
           /\ stage' = [stage EXCEPT ![r] = IF there /\ ff THEN "merged" ELSE "failed"]
    /\ UNCHANGED <<commits, newest, start, made, tested, fetched, passed>>

(* Every run ended, and the bound on commits stops the developers. *)
AllEnded ==
    /\ \A r \in Runs : stage[r] \in Ended
    /\ Len(commits) = MaxCommits
    /\ UNCHANGED ciVars

RunStep(r) ==
    \/ Unchanged(r) \/ WorkFails(r) \/ PushBranch(r)
    \/ \E j \in Jobs : CiCheckout(r, j)
    \/ CiEnds(r) \/ Fetch(r) \/ PushMaster(r)

CiNext ==
    \/ DeveloperPush
    \/ \E r \in Runs : Trigger(r) \/ RunStep(r)
    \/ AllEnded

CiSpec == CiInit /\ [][CiNext]_ciVars
-----------------------------------------------------------------------------
(* Properties. *)

(* Every commit of master that a run made has passed the whole of ci.yml    *)
(* ("fast-forwards master to it only if CI passes", bump-secp256k1.yml).    *)
MasterTested == \A c \in commits[master].past : commits[c].by \in Runs => c \in passed

(* Whatever runs and developers race, no commit ever leaves master. *)
MasterKeeps == [][(master \in (commits[master].past)')]_ciVars

(* "A failed run leaves the bump on the bump-secp256k1 branch"              *)
(* (bump-secp256k1.yml).                                                    *)
FailedKept == \A r \in Runs :
    stage[r] = "failed" /\ made[r] # 0 /\ made[r] = newest[WorkflowOf[r]]
        => branch[WorkflowOf[r]] = made[r]
=============================================================================
