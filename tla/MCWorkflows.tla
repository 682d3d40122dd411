---------------------------- MODULE MCWorkflows -----------------------------
(* For TLC: what the workflows do to the branches, CiPipeline, and what the   *)
(* goals that one of them runs do to a corpus, CorpusFiles.  The job that     *)
(* ends in the commit of a corpus is one step of the first, and the second    *)
(* knows no branches: a behavior is of one of them.                           *)
EXTENDS MCCiPipeline, MCCorpusFiles

VARIABLE side

workflowVars == <<side, ciVars, corpusVars>>

MCInit ==
    /\ side \in {"branches", "corpus"}
    /\ CiInit /\ CorpusInit
    /\ side = "branches" => committed = {}

MCNext ==
    \/ side = "branches" /\ CiNext     /\ UNCHANGED <<side, corpusVars>>
    \/ side = "corpus"   /\ CorpusNext /\ UNCHANGED <<side, ciVars>>

MCSpec == MCInit /\ [][MCNext]_workflowVars
=============================================================================
