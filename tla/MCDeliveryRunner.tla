-------------------------- MODULE MCDeliveryRunner --------------------------
(***************************************************************************)
(* DeliveryRunner for TLC: which constants are interchangeable, and the    *)
(* sets of failure codes the runs choose from.                             *)
(***************************************************************************)
EXTENDS DeliveryRunner, TLC

\* One retryable code and one that always goes to a human.
BasicCodes == {"network_transient", "page_drift"}

OneCode == {"page_drift"}

\* The two codes the operator recoveries repair; neither is retried.
TwoTaskCodes == {SafeTransportRecoveryCode, DedicatedProfileBusyCode}

Interchangeable ==
  Permutations(Tasks) \cup Permutations(Runners) \cup Permutations(Users)
    \cup Permutations(Sessions)
=============================================================================
