--------------------------- MODULE MCTaskBilling ---------------------------
(* Instances of TaskBilling for TLC.                                        *)
EXTENDS TaskBilling, TLC

CONSTANTS t1, t2, p1, p2, f1

Video == [t \in Tasks |-> "video"]
Gemini == [t \in Tasks |-> "gemini"]
GeminiAndSuno == (t1 :> "gemini") @@ (t2 :> "suno")

\* one submission before the cut-off and one after it
OldAndNew == {LegacyTaskCutoff - 1, 1771718400}
New == {1771718400}

\* the nodes are interchangeable
Symmetry == Permutations(Pollers)
=============================================================================
