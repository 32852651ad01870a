------------------------------- MODULE MCHistory ------------------------------
(* Instances of MonitorHistory for TLC.                                    *)
EXTENDS MonitorHistory, TLC

Settings(on, failures, recoveries, degraded, outage, recovery) ==
    [MonitoringOn : on, FailureThreshold : failures,
     RecoveryThreshold : recoveries, DegradedEnabled : degraded,
     AutoOutageNotify : outage, AutoRecoveryNotify : recovery]

(* The least failure threshold Validate admits, and both sides of a        *)
(* recovery that is confirmed at once; the recovery threshold, monitoring  *)
(* and the recovery alert change while incidents and windows go on.        *)
ChangingConfigs ==
    Settings(BOOLEAN, {2}, {1}, {FALSE}, {TRUE}, {TRUE})
    \cup Settings({TRUE}, {2}, {2}, {FALSE}, {TRUE}, BOOLEAN)

(* The default preset, whose cooldown of 300 s is 15 checks of 20 s.       *)
Balanced == Settings({TRUE}, {3}, {2}, {FALSE}, {TRUE}, {TRUE})

TwoIncidents == 1..2
Symmetry == Permutations(MaintenanceID)
===============================================================================
