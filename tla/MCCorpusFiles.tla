--------------------------- MODULE MCCorpusFiles ---------------------------
EXTENDS CorpusFiles

(* Features f1 and f2 are covered by one input each and by one that covers    *)
(* both; the bump moves a feature and makes an input diverge.                 *)
MCInputs   == {"a", "b", "ab"}
MCFeatures == {"f1", "f2"}
MCVersions == 0..1
MCCovers ==
    [v \in MCVersions |-> [a  |-> IF v = 0 THEN {"f1"} ELSE {"f2"},
                           b  |-> {"f2"},
                           ab |-> {"f1", "f2"}]]
MCDiverging == [v \in MCVersions |-> IF v = 0 THEN {"ab"} ELSE {"b"}]
=============================================================================
