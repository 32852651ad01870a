------------------------------- MODULE MCSystem -------------------------------
(* Instances of System for TLC.                                            *)
EXTENDS SystemRefinement, TLC

(* The least failure threshold Validate admits.                            *)
Thresholds(recoveries, alerts, degraded) ==
    [MonitoringOn |-> TRUE, FailureThreshold |-> 2,
     RecoveryThreshold |-> recoveries, DegradedEnabled |-> degraded,
     AutoOutageNotify |-> alerts, AutoRecoveryNotify |-> alerts]
Balanced == Thresholds(2, TRUE, TRUE)
Quick == Thresholds(1, TRUE, FALSE)

Symmetry == Permutations(IncidentID) \cup Permutations(MaintenanceID)
            \cup Permutations(Request)
===============================================================================
