------------------------- MODULE MCTaskCompletion -------------------------
(***************************************************************************)
(* TaskCompletion for TLC: the versions of observations, the one code that *)
(* handlers report, and which constants are interchangeable.               *)
(***************************************************************************)
EXTENDS TaskCompletion, TLC

\* Every observation names the same model version.
OneVersion == [a \in Answers |-> "v1"]

ServerCode == {PersistenceFailed}

Alike == Permutations(Requests) \cup Permutations(Artifacts)
           \cup Permutations(Answers)
=============================================================================
