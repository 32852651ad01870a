-------------------------------- MODULE Engine --------------------------------
(***************************************************************************)
(* internal/monitoring/engine.go, as operators on the persisted records.   *)
(*                                                                         *)
(* Engine.Step loads the MonitorState, changes a copy of it, writes        *)
(* incident and maintenance records on the way and saves the copy at the   *)
(* end.  Each operator below is the change one branch of it makes to one   *)
(* record, or the condition under which that branch is taken, so that the  *)
(* modules above can put the reads and the writes where the code has them. *)
(* The two writes to the same record made by the web handlers (enter- and  *)
(* exitMaintenance in internal/web/actions.go) and by the worker           *)
(* (setDisabled in internal/monitoring/worker.go) are here as well.        *)
(*                                                                         *)
(* Field names are the Go ones.  The display fields of the records         *)
(* (classification, detail, latency, stream count, titles) are left out.   *)
(*                                                                         *)
(* An operator marked "Mutant" is wrong on purpose and used by nothing: it *)
(* is a plausible bug that one of the properties must find.                *)
(***************************************************************************)
EXTENDS Integers

CONSTANTS
    IncidentID,      \* the values model.NewID can return for an incident
    MaintenanceID,   \* the values model.NewID can return for a maintenance
    None,            \* the empty ID: no active incident, no active maintenance
    LatencyBreaches, \* cfg.Monitoring.LatencyBreaches: no form changes it
    MaxCount         \* where the check counters stop counting

ASSUME NoneAssumption == None \notin IncidentID /\ None \notin MaintenanceID
ASSUME CountAssumption == MaxCount \in Nat /\ LatencyBreaches \in 1..MaxCount

State == {"disabled", "initializing", "online", "suspect", "offline",
          "recovering", "degraded", "maintenance-online",
          "maintenance-offline"}

(* Mutant: the count has no bound.                                         *)
BumpUncapped(n) == n + 1

(* A counter is compared with thresholds only, and every threshold is at   *)
(* most MaxCount: a counter that stays at MaxCount takes the same branches *)
(* as the unbounded one.                                                   *)
Count == 0..MaxCount
Bump(n) == IF n < MaxCount THEN n + 1 ELSE n

(* FirstFailureAt, relative to LastSuccessAt: not set, later than the last *)
(* success, or from before it.                                             *)
FirstFailure == {"zero", "current", "stale"}

MonitorState ==
    [State                 : State,
     ConsecutiveFailures   : Count,
     ConsecutiveSuccesses  : Count,
     FirstFailureAt        : FirstFailure,
     ActiveIncidentID      : IncidentID \cup {None},
     ActiveMaintenanceID   : MaintenanceID \cup {None},
     MaintenanceSawOffline : BOOLEAN,
     LatencyBreachCount    : Count]

(* LoadState's default: nothing has been stored yet.                       *)
FreshState ==
    [State |-> "initializing", ConsecutiveFailures |-> 0,
     ConsecutiveSuccesses |-> 0, FirstFailureAt |-> "zero",
     ActiveIncidentID |-> None, ActiveMaintenanceID |-> None,
     MaintenanceSawOffline |-> FALSE, LatencyBreachCount |-> 0]

(* RecoveredAt is set exactly when Open is cleared, so Open stands for     *)
(* both.  Stored is whether GetIncident finds the record.                  *)
Incident == [Stored : BOOLEAN, Open : BOOLEAN,
             OutageNotified : BOOLEAN, RecoveryNotified : BOOLEAN]
NoIncident == [Stored |-> FALSE, Open |-> FALSE,
               OutageNotified |-> FALSE, RecoveryNotified |-> FALSE]

(* "none": GetMaintenance finds no record.  "cancelled" is in model.go but *)
(* no code assigns it.                                                     *)
Maintenance == [State : {"none", "scheduled", "active", "ended"},
                AutoRecovery : BOOLEAN]
NoMaintenance == [State |-> "none", AutoRecovery |-> FALSE]

(* What the engine reads of the configuration.  Validate asks for a        *)
(* failure threshold of at least two.                                      *)
Config == [MonitoringOn       : BOOLEAN,
           FailureThreshold   : {n \in Count : n >= 2},
           RecoveryThreshold  : {n \in Count : n >= 1},
           DegradedEnabled    : BOOLEAN,
           AutoOutageNotify   : BOOLEAN,
           AutoRecoveryNotify : BOOLEAN]

(* A check fails, succeeds, or succeeds above the latency warning.         *)
Result == {"fail", "ok", "slow"}
Succeeds(res) == res # "fail"

-------------------------------------------------------------------------------
(* stepSuccess                                                             *)

(* Mutant: the failures before the success still count.                    *)
SucceededKeepingFailures(s, c, res) ==
    [s EXCEPT !.FirstFailureAt = IF @ = "zero" THEN "zero" ELSE "stale",
              !.LatencyBreachCount =
                  IF c.DegradedEnabled /\ res = "slow" THEN Bump(@) ELSE 0]

(* What every successful check does.  LastSuccessAt moves to now, so a     *)
(* first failure that was current is from before the last success.         *)
Succeeded(s, c, res) ==
    [s EXCEPT !.ConsecutiveFailures = 0,
              !.FirstFailureAt = IF @ = "zero" THEN "zero" ELSE "stale",
              !.LatencyBreachCount =
                  IF c.DegradedEnabled /\ res = "slow" THEN Bump(@) ELSE 0]

(* Without an open incident the check settles the state at once.           *)
Healthy(s, c, res) ==
    LET t == Succeeded(s, c, res)
    IN  [t EXCEPT !.State = IF t.LatencyBreachCount >= LatencyBreaches
                            THEN "degraded" ELSE "online",
                  !.ConsecutiveSuccesses = 0,
                  !.FirstFailureAt = "zero"]

(* With one, the success is counted towards the recovery threshold.        *)
Recovering(s, c, res) ==
    [Succeeded(s, c, res) EXCEPT !.ConsecutiveSuccesses = Bump(@),
                                 !.State = "recovering"]

(* Mutant: one success too early.                                          *)
ConfirmsRecoveryEarly(s, c, stabilizing) ==
    ~stabilizing /\ s.ConsecutiveSuccesses + 1 >= c.RecoveryThreshold

ConfirmsRecovery(s, c, stabilizing) ==
    ~stabilizing /\ s.ConsecutiveSuccesses >= c.RecoveryThreshold

(* Mutant: the incident that was closed stays the active one.              *)
RecoveredKeepingIncident(s) ==
    [s EXCEPT !.State = "online",
              !.ConsecutiveSuccesses = 0, !.FirstFailureAt = "zero"]

Recovered(s) ==
    [s EXCEPT !.State = "online", !.ActiveIncidentID = None,
              !.ConsecutiveSuccesses = 0, !.FirstFailureAt = "zero"]

Closed(inc) == [inc EXCEPT !.Open = FALSE]

-------------------------------------------------------------------------------
(* stepFailure                                                             *)

(* Mutant: the successes before the failure still count.                   *)
FailedKeepingSuccesses(s) ==
    [s EXCEPT !.LatencyBreachCount = 0, !.ConsecutiveFailures = Bump(@)]

(* Mutant: failures after the first one are not counted.                   *)
FailedOnce(s) ==
    [s EXCEPT !.ConsecutiveSuccesses = 0, !.LatencyBreachCount = 0,
              !.ConsecutiveFailures = 1]

(* What every failed check does outside maintenance.                       *)
Failed(s) ==
    [s EXCEPT !.ConsecutiveSuccesses = 0, !.LatencyBreachCount = 0,
              !.ConsecutiveFailures = Bump(@)]

(* The outage is confirmed already: the same incident goes on.             *)
StillOffline(s) == [Failed(s) EXCEPT !.State = "offline"]
Reopened(inc) == [inc EXCEPT !.Open = TRUE]

Suspect(s) ==
    [Failed(s) EXCEPT !.State = "suspect",
                      !.FirstFailureAt = IF @ = "zero" THEN "current" ELSE @]

(* Mutant: the stabilization window after a start is forgotten.            *)
ConfirmsOutageAtOnce(s, c, stabilizing) ==
    s.ConsecutiveFailures >= c.FailureThreshold

ConfirmsOutage(s, c, stabilizing) ==
    ~stabilizing /\ s.ConsecutiveFailures >= c.FailureThreshold

Offline(s, id) == [s EXCEPT !.State = "offline", !.ActiveIncidentID = id]
NewIncident == [Stored |-> TRUE, Open |-> TRUE,
                OutageNotified |-> FALSE, RecoveryNotified |-> FALSE]

-------------------------------------------------------------------------------
(* stepMaintenance                                                         *)

(* Mutant: successes are not counted in a window.                          *)
MaintenanceUpUncounted(s) ==
    [s EXCEPT !.MaintenanceSawOffline = @ \/ s.State = "maintenance-offline",
              !.State = "maintenance-online",
              !.FirstFailureAt = IF @ = "zero" THEN "zero" ELSE "stale",
              !.ConsecutiveFailures = 0]

MaintenanceUp(s) ==
    [s EXCEPT !.MaintenanceSawOffline = @ \/ s.State = "maintenance-offline",
              !.State = "maintenance-online",
              !.FirstFailureAt = IF @ = "zero" THEN "zero" ELSE "stale",
              !.ConsecutiveFailures = 0,
              !.ConsecutiveSuccesses = Bump(@)]

MaintenanceDown(s) ==
    [s EXCEPT !.State = "maintenance-offline", !.ConsecutiveSuccesses = 0,
              !.MaintenanceSawOffline = TRUE]

FinishesMaintenance(s, m, c) ==
    /\ m.State # "none"
    /\ m.AutoRecovery
    /\ s.MaintenanceSawOffline
    /\ s.ConsecutiveSuccesses >= c.RecoveryThreshold

(* Mutant: the incident that ends with the window stays the active one.    *)
MaintenanceFinishedKeepingIncident(s) ==
    [s EXCEPT !.State = "online", !.ActiveMaintenanceID = None,
              !.MaintenanceSawOffline = FALSE, !.ConsecutiveSuccesses = 0]

MaintenanceFinished(s) ==
    [s EXCEPT !.State = "online", !.ActiveIncidentID = None,
              !.ActiveMaintenanceID = None, !.MaintenanceSawOffline = FALSE,
              !.ConsecutiveSuccesses = 0]

Ended(m) == [m EXCEPT !.State = "ended"]

(* The incident that was open is closed and marked as announced.           *)
ClosedQuietly(inc) == [inc EXCEPT !.Open = FALSE, !.RecoveryNotified = TRUE]

-------------------------------------------------------------------------------
(* The other writers of the MonitorState                                   *)

Disabled(s) == [s EXCEPT !.State = "disabled"]

(* ok is worker.LastResult().OK: FALSE also before the first check of a    *)
(* process.                                                                *)
EnterMaintenance(s, id, ok) ==
    [s EXCEPT !.ActiveMaintenanceID = id, !.ConsecutiveSuccesses = 0,
              !.State = IF ok THEN "maintenance-online"
                              ELSE "maintenance-offline",
              !.MaintenanceSawOffline = ~ok]

ExitMaintenance(s, ok) ==
    [s EXCEPT !.ActiveMaintenanceID = None, !.MaintenanceSawOffline = FALSE,
              !.ConsecutiveSuccesses = 0,
              !.State = IF ok THEN "online" ELSE "suspect"]
===============================================================================
