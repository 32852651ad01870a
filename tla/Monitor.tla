------------------------------- MODULE Monitor --------------------------------
(***************************************************************************)
(* The monitoring worker, the administrator's handlers and the restarts of *)
(* the process, each of them one atomic step on the stored records: what   *)
(* the code does when no two of them overlap and no step is cut short.     *)
(* Module System splits the same steps at the store's transactions.        *)
(*                                                                         *)
(* The worker (worker.go) alternates between a check and the delivery of   *)
(* the effect the check produced; a handler can come between the two,      *)
(* because a delivery may take minutes (retries).                          *)
(*                                                                         *)
(* A check is the worker's whole round up to there: it reads the           *)
(* configuration (worker.go:90), asks Plex for seconds, and takes its step *)
(* on what it read at first.  A setting saved in those seconds counts one  *)
(* round later in the code; here the save comes after the check.  In       *)
(* System the worker holds that copy while requests go on.                 *)
(*                                                                         *)
(* An operator marked "Mutant" is wrong on purpose and used by nothing: it *)
(* is a plausible bug that one of the properties must find.                *)
(***************************************************************************)
EXTENDS Engine

CONSTANTS
    Configs,       \* the configurations the settings forms can reach
    MaxRestarts    \* bound on the number of restarts of the process

ASSUME ConfigsAssumption == Configs # {} /\ Configs \subseteq Config
ASSUME RestartsAssumption == MaxRestarts \in Nat

VARIABLES
    cfg,           \* the stored configuration
    st,            \* the stored MonitorState
    incidents,     \* the incidents bucket
    maintenances,  \* the maintenance bucket
    lastOK,        \* Worker.lastResult.OK: in memory
    stabilizing,   \* now is before Worker.stabilizeUntil: in memory
    pending        \* the effect tick has not delivered yet: in memory

(* What was observed so far.  No code reads these.                         *)
VARIABLES
    issued,        \* the incident IDs NewID has returned
    failureRun,    \* failed checks since the last successful one
    successRun,    \* successful checks since the last failed one
    sent,          \* per incident and phase, the alerts delivered
    restarts       \* restarts so far

store == <<cfg, st, incidents, maintenances>>
memory == <<lastOK, stabilizing, pending>>
ghosts == <<issued, failureRun, successRun, sent, restarts>>
vars == <<store, memory, ghosts>>

Phase == {"outage", "recovery"}
Effect == [kind : Phase, id : IncidentID]
          \cup {[kind |-> "maintenance_recovery", id |-> None]}
NoEffect == [kind |-> "none", id |-> None]

TypeOK ==
    /\ cfg \in Configs
    /\ st \in MonitorState
    /\ incidents \in [IncidentID -> Incident]
    /\ maintenances \in [MaintenanceID -> Maintenance]
    /\ lastOK \in BOOLEAN
    /\ stabilizing \in BOOLEAN
    /\ pending \in Effect \cup {NoEffect}
    /\ issued \subseteq IncidentID
    /\ failureRun \in Count
    /\ successRun \in Count
    /\ sent \in [Phase -> [IncidentID -> 0..2]]
    /\ restarts \in 0..MaxRestarts

(* Setup is complete and nothing was checked yet.                          *)
Init ==
    /\ cfg \in Configs
    /\ st = FreshState
    /\ incidents = [i \in IncidentID |-> NoIncident]
    /\ maintenances = [m \in MaintenanceID |-> NoMaintenance]
    /\ lastOK = FALSE
    /\ stabilizing = TRUE
    /\ pending = NoEffect
    /\ issued = {}
    /\ failureRun = 0
    /\ successRun = 0
    /\ sent = [p \in Phase |-> [i \in IncidentID |-> 0]]
    /\ restarts = 0

-------------------------------------------------------------------------------
(* The worker's tick: a check, then Engine.Step on its result.  Every      *)
(* branch of Step is an action.                                            *)

(* What every check does, and the worker is idle and monitoring is on.     *)
Check(res) ==
    /\ pending = NoEffect
    /\ cfg.MonitoringOn
    /\ lastOK' = Succeeds(res)
    /\ failureRun' = IF Succeeds(res) THEN 0 ELSE Bump(failureRun)
    /\ successRun' = IF Succeeds(res) THEN Bump(successRun) ELSE 0
    /\ UNCHANGED <<cfg, stabilizing, sent, restarts>>

InMaintenance == st.ActiveMaintenanceID # None
HasIncident == st.ActiveIncidentID # None
Active == st.ActiveIncidentID
Window == st.ActiveMaintenanceID

CheckUp(res) ==
    /\ Check(res)
    /\ Succeeds(res) /\ ~InMaintenance /\ ~HasIncident
    /\ st' = Healthy(st, cfg, res)
    /\ UNCHANGED <<incidents, maintenances, pending, issued>>

CheckRecovering(res) ==
    /\ Check(res)
    /\ Succeeds(res) /\ ~InMaintenance /\ HasIncident
    /\ st' = Recovering(st, cfg, res)
    /\ ~ConfirmsRecovery(st', cfg, stabilizing)
    /\ UNCHANGED <<incidents, maintenances, pending, issued>>

(* Mutant: the recovery is announced whether or not the outage was.        *)
CloseIncidentAnnouncing(res) ==
    /\ Check(res)
    /\ Succeeds(res) /\ ~InMaintenance /\ HasIncident
    /\ ConfirmsRecovery(Recovering(st, cfg, res), cfg, stabilizing)
    /\ incidents[Active].Stored
    /\ incidents' = [incidents EXCEPT ![Active] = Closed(@)]
    /\ st' = Recovered(Recovering(st, cfg, res))
    /\ pending' = IF cfg.AutoRecoveryNotify
                  THEN [kind |-> "recovery", id |-> Active] ELSE NoEffect
    /\ UNCHANGED <<maintenances, issued>>

(* The recovery is confirmed: the incident is closed, and announced only   *)
(* when its outage was.                                                    *)
CloseIncident(res) ==
    /\ Check(res)
    /\ Succeeds(res) /\ ~InMaintenance /\ HasIncident
    /\ ConfirmsRecovery(Recovering(st, cfg, res), cfg, stabilizing)
    /\ incidents[Active].Stored
    /\ incidents' = [incidents EXCEPT ![Active] = Closed(@)]
    /\ st' = Recovered(Recovering(st, cfg, res))
    /\ pending' = IF cfg.AutoRecoveryNotify /\ incidents[Active].OutageNotified
                  THEN [kind |-> "recovery", id |-> Active] ELSE NoEffect
    /\ UNCHANGED <<maintenances, issued>>

(* The same, when the incident's record was cleared from the history.      *)
DropIncident(res) ==
    /\ Check(res)
    /\ Succeeds(res) /\ ~InMaintenance /\ HasIncident
    /\ ConfirmsRecovery(Recovering(st, cfg, res), cfg, stabilizing)
    /\ ~incidents[Active].Stored
    /\ st' = Recovered(Recovering(st, cfg, res))
    /\ UNCHANGED <<incidents, maintenances, pending, issued>>

(* Mutant: every failed check of an outage announces it.                   *)
CheckStillOfflineAnnouncing ==
    /\ Check("fail")
    /\ ~InMaintenance /\ HasIncident
    /\ st' = StillOffline(st)
    /\ incidents' = IF incidents[Active].Stored
                    THEN [incidents EXCEPT ![Active] = Reopened(@)]
                    ELSE incidents
    /\ pending' = IF cfg.AutoOutageNotify
                  THEN [kind |-> "outage", id |-> Active] ELSE NoEffect
    /\ UNCHANGED <<maintenances, issued>>

CheckStillOffline ==
    /\ Check("fail")
    /\ ~InMaintenance /\ HasIncident
    /\ st' = StillOffline(st)
    /\ incidents' = IF incidents[Active].Stored
                    THEN [incidents EXCEPT ![Active] = Reopened(@)]
                    ELSE incidents
    /\ UNCHANGED <<maintenances, pending, issued>>

CheckSuspect ==
    /\ Check("fail")
    /\ ~InMaintenance /\ ~HasIncident
    /\ st' = Suspect(st)
    /\ ~ConfirmsOutage(st', cfg, stabilizing)
    /\ UNCHANGED <<incidents, maintenances, pending, issued>>

(* Mutant: NewID repeats itself.                                           *)
OpenIncidentReusing(i) ==
    /\ Check("fail")
    /\ ~InMaintenance /\ ~HasIncident
    /\ ConfirmsOutage(Suspect(st), cfg, stabilizing)
    /\ issued' = issued \cup {i}
    /\ incidents' = [incidents EXCEPT ![i] = NewIncident]
    /\ st' = Offline(Suspect(st), i)
    /\ pending' = IF cfg.AutoOutageNotify
                  THEN [kind |-> "outage", id |-> i] ELSE NoEffect
    /\ UNCHANGED maintenances

(* The outage is confirmed: one incident is opened under a new ID.         *)
OpenIncident(i) ==
    /\ Check("fail")
    /\ ~InMaintenance /\ ~HasIncident
    /\ ConfirmsOutage(Suspect(st), cfg, stabilizing)
    /\ i \notin issued
    /\ issued' = issued \cup {i}
    /\ incidents' = [incidents EXCEPT ![i] = NewIncident]
    /\ st' = Offline(Suspect(st), i)
    /\ pending' = IF cfg.AutoOutageNotify
                  THEN [kind |-> "outage", id |-> i] ELSE NoEffect
    /\ UNCHANGED maintenances

CheckUpInMaintenance(res) ==
    /\ Check(res)
    /\ Succeeds(res) /\ InMaintenance
    /\ st' = MaintenanceUp(st)
    /\ ~FinishesMaintenance(st', maintenances[Window], cfg)
    /\ UNCHANGED <<incidents, maintenances, pending, issued>>

(* The window asked to end by itself and Plex came back: the window and    *)
(* the incident, if there is one, end together.                            *)
FinishMaintenance(res) ==
    /\ Check(res)
    /\ Succeeds(res) /\ InMaintenance
    /\ FinishesMaintenance(MaintenanceUp(st), maintenances[Window], cfg)
    /\ st' = MaintenanceFinished(MaintenanceUp(st))
    /\ maintenances' = [maintenances EXCEPT ![Window] = Ended(@)]
    /\ incidents' = IF HasIncident /\ incidents[Active].Stored
                    THEN [incidents EXCEPT ![Active] = ClosedQuietly(@)]
                    ELSE incidents
    /\ pending' = [kind |-> "maintenance_recovery", id |-> None]
    /\ UNCHANGED issued

CheckDownInMaintenance ==
    /\ Check("fail")
    /\ InMaintenance
    /\ st' = MaintenanceDown(st)
    /\ UNCHANGED <<incidents, maintenances, pending, issued>>

Tick ==
    \/ \E res \in Result :
        \/ CheckUp(res) \/ CheckRecovering(res) \/ CloseIncident(res)
        \/ DropIncident(res) \/ CheckUpInMaintenance(res)
        \/ FinishMaintenance(res)
    \/ CheckStillOffline \/ CheckSuspect \/ CheckDownInMaintenance
    \/ \E i \in IncidentID : OpenIncident(i)

(* Mutant: also inside a window.                                           *)
TickDisabledInWindow ==
    /\ pending = NoEffect
    /\ ~cfg.MonitoringOn
    /\ st' = Disabled(st)
    /\ UNCHANGED <<cfg, incidents, maintenances, memory, ghosts>>

(* Monitoring is off: the state says so, unless there is a window.         *)
TickDisabled ==
    /\ pending = NoEffect
    /\ ~cfg.MonitoringOn
    /\ ~InMaintenance
    /\ st' = Disabled(st)
    /\ UNCHANGED <<cfg, incidents, maintenances, memory, ghosts>>

-------------------------------------------------------------------------------
(* The worker's deliver.  success is what Sender.Deliver returns: FALSE    *)
(* when it failed, was suppressed by the quiet hours or has no             *)
(* destination.                                                            *)

(* An outage or recovery alert of an incident whose record is there.       *)
DeliverAlert(success) ==
    /\ pending.kind \in Phase
    /\ incidents[pending.id].Stored
    /\ incidents' =
         [incidents EXCEPT ![pending.id] =
            IF pending.kind = "outage"
            THEN [@ EXCEPT !.OutageNotified = success]
            ELSE [@ EXCEPT !.RecoveryNotified = success]]
    /\ sent' = IF success
               THEN [sent EXCEPT ![pending.kind][pending.id] =
                        IF @ < 2 THEN @ + 1 ELSE @]
               ELSE sent
    /\ pending' = NoEffect
    /\ UNCHANGED <<cfg, st, maintenances, lastOK, stabilizing,
                   issued, failureRun, successRun, restarts>>

(* The alert of an incident that was cleared is dropped; the maintenance   *)
(* announcement changes no record.                                         *)
DeliverNothing ==
    /\ \/ pending.kind \in Phase /\ ~incidents[pending.id].Stored
       \/ pending.kind = "maintenance_recovery"
    /\ pending' = NoEffect
    /\ UNCHANGED <<store, lastOK, stabilizing, ghosts>>

Deliver == DeliverNothing \/ \E success \in BOOLEAN : DeliverAlert(success)

-------------------------------------------------------------------------------
(* The administrator's handlers (web/actions.go, web/settings_actions.go)  *)

(* handleMaintenanceStart, handleGoingOffline.                             *)
StartMaintenance(m, auto) ==
    /\ maintenances[m].State = "none"
    /\ maintenances' = [maintenances EXCEPT
                          ![m] = [State |-> "active", AutoRecovery |-> auto]]
    /\ st' = EnterMaintenance(st, m, lastOK)
    /\ UNCHANGED <<cfg, incidents, memory, ghosts>>

ScheduleMaintenance(m, auto) ==
    /\ maintenances[m].State = "none"
    /\ maintenances' = [maintenances EXCEPT
                          ![m] = [State |-> "scheduled", AutoRecovery |-> auto]]
    /\ UNCHANGED <<cfg, st, incidents, memory, ghosts>>

EndMaintenance ==
    /\ InMaintenance
    /\ maintenances[Window].State # "none"
    /\ maintenances' = [maintenances EXCEPT ![Window] = Ended(@)]
    /\ st' = ExitMaintenance(st, lastOK)
    /\ UNCHANGED <<cfg, incidents, memory, ghosts>>

(* Refused while the last check failed, unless the administrator insists.  *)
ServiceRestored(override) ==
    /\ lastOK \/ override
    /\ EndMaintenance

ToggleMonitoring ==
    /\ cfg' = [cfg EXCEPT !.MonitoringOn = ~@]
    /\ cfg' \in Configs
    /\ UNCHANGED <<st, incidents, maintenances, memory, ghosts>>

(* handleSaveMonitoring: the thresholds and the degraded switch.           *)
SaveMonitoring ==
    /\ cfg' \in {c \in Configs :
                    c = [cfg EXCEPT !.FailureThreshold = c.FailureThreshold,
                                    !.RecoveryThreshold = c.RecoveryThreshold,
                                    !.DegradedEnabled = c.DegradedEnabled]}
    /\ cfg' # cfg
    /\ UNCHANGED <<st, incidents, maintenances, memory, ghosts>>

(* handleSaveDiscord: what is announced automatically.                     *)
SaveDiscord ==
    /\ cfg' \in {c \in Configs :
                    c = [cfg EXCEPT !.AutoOutageNotify = c.AutoOutageNotify,
                                    !.AutoRecoveryNotify = c.AutoRecoveryNotify]}
    /\ cfg' # cfg
    /\ UNCHANGED <<st, incidents, maintenances, memory, ghosts>>

(* handleClearHistory on the incidents: open ones go as well.              *)
ClearIncidents ==
    /\ \E i \in IncidentID : incidents[i].Stored
    /\ incidents' = [i \in IncidentID |-> NoIncident]
    /\ UNCHANGED <<cfg, st, maintenances, memory, ghosts>>

Admin ==
    \/ \E m \in MaintenanceID, auto \in BOOLEAN :
          StartMaintenance(m, auto) \/ ScheduleMaintenance(m, auto)
    \/ EndMaintenance
    \/ \E override \in BOOLEAN : ServiceRestored(override)
    \/ ToggleMonitoring \/ SaveMonitoring \/ SaveDiscord
    \/ ClearIncidents

-------------------------------------------------------------------------------
(* Time and the process                                                    *)

StabilizationEnds ==
    /\ stabilizing
    /\ stabilizing' = FALSE
    /\ UNCHANGED <<store, lastOK, pending, ghosts>>

(* The store survives; the last result, the pending effect and the         *)
(* stabilization deadline do not.                                          *)
Restart ==
    /\ restarts < MaxRestarts
    /\ restarts' = restarts + 1
    /\ lastOK' = FALSE
    /\ stabilizing' = TRUE
    /\ pending' = NoEffect
    /\ UNCHANGED <<store, issued, failureRun, successRun, sent>>

Next == Tick \/ TickDisabled \/ Deliver \/ Admin \/ StabilizationEnds \/ Restart

Spec == Init /\ [][Next]_vars
-------------------------------------------------------------------------------
(* Safety                                                                  *)

(* The open incident is the one the machine works on: no step leaves an    *)
(* open incident behind that nothing will ever close, and none closes the  *)
(* record of the incident that goes on ("open exactly one incident",       *)
(* engine.go:179).                                                         *)
SoleOpenIncident ==
    \A i \in IncidentID :
        incidents[i].Open <=> incidents[i].Stored /\ Active = i

(* The states that report an outage have an incident.                      *)
OutageStatesHaveIncident ==
    st.State \in {"offline", "recovering"} => HasIncident

(* The window the machine is in is an active record: a window that ended,  *)
(* or was only scheduled, suppresses nothing (engine.go:60).               *)
WindowIsActive ==
    InMaintenance => maintenances[Window].State = "active"

(* The maintenance states are shown exactly while there is a window.       *)
MaintenanceStatesHaveWindow ==
    st.State \in {"maintenance-online", "maintenance-offline"}
        <=> InMaintenance

(* The three together: what the state shows is what the records hold.      *)
StatesFitRecords ==
    OutageStatesHaveIncident /\ WindowIsActive /\ MaintenanceStatesHaveWindow

(* The failure counter never counts a check that did not fail, nor failed  *)
(* checks with a success in between, across maintenance, disabling and     *)
(* restarts.                                                               *)
CountersAreHonest ==
    /\ st.ConsecutiveFailures <= failureRun
    /\ st.ConsecutiveSuccesses <= successRun

(* Whatever is cleared, toggled, restarted or put into maintenance: one    *)
(* outage alert and one recovery alert per incident, and a recovery alert  *)
(* only after the outage alert and with the incident over.                 *)
AlertsAtMostOnce ==
    \A i \in IncidentID :
        /\ sent["outage"][i] <= 1
        /\ sent["recovery"][i] <= 1
        /\ sent["recovery"][i] = 1 => sent["outage"][i] = 1
        /\ sent["recovery"][i] = 1 => Active # i /\ ~incidents[i].Open

(* The records never claim an alert that was not delivered: the recovery   *)
(* alert depends on OutageNotified (engine.go:143).                        *)
NotifiedMeansSent ==
    \A i \in IncidentID :
        incidents[i].OutageNotified => sent["outage"][i] = 1

(* An alert that waits for its delivery was not delivered before, and a    *)
(* recovery alert waits only for an incident that is over and whose outage *)
(* was announced; IDs in use were issued.                                  *)
PendingIsDue ==
    /\ HasIncident => Active \in issued
    /\ \A i \in IncidentID : sent["outage"][i] > 0 => i \in issued
    /\ pending.kind \in Phase =>
          pending.id \in issued /\ sent[pending.kind][pending.id] = 0
    /\ pending.kind = "recovery" =>
          sent["outage"][pending.id] = 1 /\ Active # pending.id

(* The two together: what the records and the effect in memory say of the  *)
(* alerts is what was delivered.                                           *)
AlertsFitRecords == NotifiedMeansSent /\ PendingIsDue

(* An incident opens only on enough failed checks in a row, outside        *)
(* maintenance and outside the stabilization window ("Outages are only     *)
(* confirmed after N consecutive failures", INCIDENT-STATE-MACHINE.md:5).  *)
OpensOnlyWhenConfirmed ==
    [][\A i \in IncidentID : ~incidents[i].Open /\ incidents'[i].Open =>
          /\ failureRun' >= cfg.FailureThreshold
          /\ ~InMaintenance /\ ~stabilizing]_vars

(* An incident closes only on enough successful checks in a row, whether   *)
(* the engine or the end of a maintenance window closes it.                *)
ClosesOnlyWhenConfirmed ==
    [][\A i \in IncidentID :
          incidents[i].Open /\ incidents'[i].Stored /\ ~incidents'[i].Open
              => successRun' >= cfg.RecoveryThreshold]_vars

(* An incident that is over stays over: its ID never becomes active again  *)
(* and its record never opens again.                                       *)
OverStaysOver ==
    [][\A i \in issued : st.ActiveIncidentID # i =>
          st'.ActiveIncidentID # i /\ ~incidents'[i].Open]_vars
-------------------------------------------------------------------------------
(* What the documentation says and the code does not                       *)

(* "suspect --> online: check succeeds (reset counters)"                   *)
(* (INCIDENT-STATE-MACHINE.md:41): the first failure a new incident        *)
(* reports came after the last success (engine.go:170).                    *)
FirstFailureIsOfTheOutage ==
    [][\A i \in IncidentID : i \notin issued /\ i \in issued' =>
          st'.FirstFailureAt = "current"]_vars
===============================================================================
