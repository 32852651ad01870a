-------------------------------- MODULE System --------------------------------
(***************************************************************************)
(* The worker and the administrators' handlers at the grain of the store:  *)
(* every bbolt transaction and every delivery is a step of its own, and    *)
(* what a goroutine read earlier stays in its local copy.                  *)
(*                                                                         *)
(* The MonitorState has four writers that load it, change the copy and     *)
(* save it in a second transaction: Engine.Step, setDisabled,              *)
(* markNotified (all three in the worker's goroutine) and the handlers'    *)
(* enterMaintenance and exitMaintenance.  Nothing in the code orders       *)
(* them.  docs/ARCHITECTURE.md:98-104 says that they are "serialised       *)
(* through the monitor/storage layer" and that every multi-step update is  *)
(* a single transaction.  Serialised = TRUE is a discipline the code does  *)
(* not have, made of what those sentences would take: one update of the    *)
(* MonitorState at a time, from its first read or write to its last; and   *)
(* the two copies the worker holds over something slow are protected from  *)
(* the one writer each has, the configuration of a check from the switch,  *)
(* the incident of a delivery from the clearing of the history.  Nothing   *)
(* else waits for a check or a delivery.  It is enough to implement        *)
(* Monitor (property Refines).                                             *)
(*                                                                         *)
(* The configuration a round of the worker uses is read before its check,  *)
(* which takes seconds (worker.go:90); only the switch changes here.       *)
(*                                                                         *)
(* Two reads are made in one step with the load before them: GetIncident   *)
(* and GetMaintenance in Engine.Step.  What they read (Stored, the alert   *)
(* flags, AutoRecovery) no one changes together with the MonitorState, so  *)
(* reading it a little earlier is the same as the other step coming later. *)
(*                                                                         *)
(* An operator marked "Mutant" is wrong on purpose and used by nothing: it *)
(* is a plausible bug that one of the properties must find.                *)
(***************************************************************************)
EXTENDS Engine

CONSTANTS
    Request,        \* the administrator's concurrent requests
    Settings,     \* the settings in force; MonitoringOn is switched below
    Serialised,   \* TRUE: the discipline described above
    RequestKinds, \* what the administrators ask for
    FaultKinds,   \* what may fail
    MaxFaults     \* bound on crashes and failed saves

ASSUME SettingsAssumption == Settings \in Config
ASSUME SerialisedAssumption == Serialised \in BOOLEAN /\ MaxFaults \in Nat
ASSUME KindsAssumption ==
    /\ RequestKinds \subseteq {"window", "automatic window", "switch", "clear"}
    /\ FaultKinds \subseteq {"crash", "failed save", "failed delivery"}

VARIABLES
    on,            \* stored: cfg.General.MonitoringOn
    st, incidents, maintenances,     \* stored, as in Monitor
    lastOK, stabilizing,             \* the worker's memory, as in Monitor
    worker,        \* the goroutine of Worker.Run
    handler,       \* per request: where the handler is and what it read
    issued, failureRun, successRun, sent, faults   \* observations

store == <<on, st, incidents, maintenances>>
memory == <<lastOK, stabilizing>>
ghosts == <<issued, failureRun, successRun, sent, faults>>
vars == <<store, memory, worker, handler, ghosts>>

Phase == {"outage", "recovery"}

(* worker.st and worker.inc are the local copies; worker.id is the         *)
(* incident worker.inc belongs to; worker.window is the window that ends;  *)
(* worker.effect is what Step returned; worker.was is the previous lastOK, *)
(* which no code reads.                                                    *)
WorkerIdle ==
    [pc |-> "idle", res |-> "fail", was |-> FALSE, st |-> FreshState,
     id |-> None, inc |-> NoIncident, window |-> None, effect |-> "none"]

WorkerStates ==
    [pc : {"idle", "checking", "checked", "window", "put", "save", "deliver",
           "sent", "mark", "marking", "off", "disabling"},
     res : Result, was : BOOLEAN, st : MonitorState,
     id : IncidentID \cup {None}, inc : Incident,
     window : MaintenanceID \cup {None},
     effect : {"none", "maintenance_recovery"} \cup Phase]

HandlerIdle == [pc |-> "idle", id |-> None, rec |-> NoMaintenance,
                st |-> FreshState]

HandlerStates ==
    [pc : {"idle", "enter", "end", "exit", "delay", "save"},
     id : MaintenanceID \cup {None}, rec : Maintenance, st : MonitorState]

TypeOK ==
    /\ on \in BOOLEAN
    /\ st \in MonitorState
    /\ incidents \in [IncidentID -> Incident]
    /\ maintenances \in [MaintenanceID -> Maintenance]
    /\ lastOK \in BOOLEAN /\ stabilizing \in BOOLEAN
    /\ worker \in WorkerStates
    /\ handler \in [Request -> HandlerStates]
    /\ issued \subseteq IncidentID
    /\ failureRun \in Count /\ successRun \in Count
    /\ sent \in [Phase -> [IncidentID -> 0..2]]
    /\ faults \in 0..MaxFaults

Init ==
    /\ on = TRUE
    /\ st = FreshState
    /\ incidents = [i \in IncidentID |-> NoIncident]
    /\ maintenances = [m \in MaintenanceID |-> NoMaintenance]
    /\ lastOK = FALSE /\ stabilizing = TRUE
    /\ worker = WorkerIdle
    /\ handler = [a \in Request |-> HandlerIdle]
    /\ issued = {} /\ failureRun = 0 /\ successRun = 0
    /\ sent = [p \in Phase |-> [i \in IncidentID |-> 0]]
    /\ faults = 0

(* No update is under way: the worker is between two of its updates, in a  *)
(* check or in a delivery, and no request is under way.  Whoever starts an *)
(* update asks for it when the updates are serialised.                     *)
Quiet == /\ worker.pc \in {"idle", "checking", "off", "deliver", "sent", "mark"}
         /\ \A a \in Request : handler[a].pc = "idle"
MayStart == Serialised => Quiet

-------------------------------------------------------------------------------
(* The worker: tick up to Engine.Step                                      *)

(* The bound on the instance: when every ID was used no check is made that *)
(* would open an incident, even if the stabilization window passed first.  *)
MoreIncidents == issued # IncidentID
WithinBound(res) ==
    MoreIncidents \/ Succeeds(res) \/ st.ActiveIncidentID # None
    \/ st.ActiveMaintenanceID # None
    \/ ~ConfirmsOutage(Suspect(st), Settings, FALSE)

(* Latency changes nothing while the degraded state is disabled.           *)
Outcome == IF Settings.DegradedEnabled THEN Result ELSE {"fail", "ok"}

(* The round begins with GetConfig.  The check and all that follows go by  *)
(* what it read, whatever the switch says by then.                         *)
ReadConfig ==
    /\ worker.pc = "idle"
    /\ worker' = [WorkerIdle EXCEPT !.pc = IF on THEN "checking" ELSE "off"]
    /\ UNCHANGED <<store, memory, handler, ghosts>>

FinishCheck(res) ==
    /\ worker.pc = "checking" /\ MayStart
    /\ WithinBound(res)
    /\ lastOK' = Succeeds(res)
    /\ worker' = [WorkerIdle EXCEPT !.pc = "checked", !.res = res,
                                    !.was = lastOK]
    /\ UNCHANGED <<store, stabilizing, handler, ghosts>>

(* Step has read everything and knows what it will write: the state t, and *)
(* before it, when the branch has one, the record inc of an incident.      *)
StateOnly(t) == worker' = [WorkerIdle EXCEPT !.pc = "save", !.st = t]
WithIncident(t, id, inc, effect) ==
    worker' = [WorkerIdle EXCEPT !.pc = "put", !.st = t, !.id = id,
                                 !.inc = inc, !.effect = effect]

(* The runs are observed for Monitor, which only serialised updates        *)
(* implement: others do not count them.                                    *)
Step ==
    /\ worker.pc = "checked"
    /\ failureRun' = IF Serialised /\ ~Succeeds(worker.res)
                     THEN Bump(failureRun) ELSE 0
    /\ successRun' = IF Serialised /\ Succeeds(worker.res)
                     THEN Bump(successRun) ELSE 0
    /\ UNCHANGED <<store, memory, handler, sent, faults>>

Found == st.ActiveIncidentID # None
Record == incidents[st.ActiveIncidentID]

StepUp ==
    /\ Step /\ Succeeds(worker.res) /\ st.ActiveMaintenanceID = None
    /\ ~Found
    /\ StateOnly(Healthy(st, Settings, worker.res))
    /\ UNCHANGED issued

StepRecovering ==
    /\ Step /\ Succeeds(worker.res) /\ st.ActiveMaintenanceID = None
    /\ Found
    /\ LET t == Recovering(st, Settings, worker.res)
       IN  IF ~ConfirmsRecovery(t, Settings, stabilizing) THEN StateOnly(t)
           ELSE IF ~Record.Stored THEN StateOnly(Recovered(t))
           ELSE WithIncident(Recovered(t), st.ActiveIncidentID, Closed(Record),
                    IF Settings.AutoRecoveryNotify /\ Record.OutageNotified
                    THEN "recovery" ELSE "none")
    /\ UNCHANGED issued

(* Mutant: every failed check of an outage announces it.                   *)
StepStillOfflineAnnouncing ==
    /\ Step /\ ~Succeeds(worker.res) /\ st.ActiveMaintenanceID = None
    /\ Found
    /\ IF Record.Stored
       THEN WithIncident(StillOffline(st), st.ActiveIncidentID,
                         Reopened(Record), "outage")
       ELSE StateOnly(StillOffline(st))
    /\ UNCHANGED issued

StepStillOffline ==
    /\ Step /\ ~Succeeds(worker.res) /\ st.ActiveMaintenanceID = None
    /\ Found
    /\ IF Record.Stored
       THEN WithIncident(StillOffline(st), st.ActiveIncidentID,
                         Reopened(Record), "none")
       ELSE StateOnly(StillOffline(st))
    /\ UNCHANGED issued

StepSuspect ==
    /\ Step /\ ~Succeeds(worker.res) /\ st.ActiveMaintenanceID = None
    /\ ~Found
    /\ ~ConfirmsOutage(Suspect(st), Settings, stabilizing)
    /\ StateOnly(Suspect(st))
    /\ UNCHANGED issued

(* Mutant: NewID repeats itself.                                           *)
StepOpenReusing(i) ==
    /\ Step /\ ~Succeeds(worker.res) /\ st.ActiveMaintenanceID = None
    /\ ~Found
    /\ ConfirmsOutage(Suspect(st), Settings, stabilizing)
    /\ issued' = issued \cup {i}
    /\ WithIncident(Offline(Suspect(st), i), i, NewIncident,
                    IF Settings.AutoOutageNotify THEN "outage" ELSE "none")

(* NewID.  The IDs are taken in one order: their names mean nothing here.  *)
IsNewID(i) == i \notin issued /\ i = CHOOSE j \in IncidentID : j \notin issued

StepOpen(i) ==
    /\ Step /\ ~Succeeds(worker.res) /\ st.ActiveMaintenanceID = None
    /\ ~Found
    /\ ConfirmsOutage(Suspect(st), Settings, stabilizing)
    /\ IsNewID(i) /\ issued' = issued \cup {i}
    /\ WithIncident(Offline(Suspect(st), i), i, NewIncident,
                    IF Settings.AutoOutageNotify THEN "outage" ELSE "none")

StepInMaintenance ==
    /\ Step /\ st.ActiveMaintenanceID # None
    /\ LET up == MaintenanceUp(st)
           m == st.ActiveMaintenanceID
       IN  IF ~Succeeds(worker.res) THEN StateOnly(MaintenanceDown(st))
           ELSE IF ~FinishesMaintenance(up, maintenances[m], Settings)
           THEN StateOnly(up)
           ELSE worker' =
                  [WorkerIdle EXCEPT
                     !.pc = "window", !.st = MaintenanceFinished(up),
                     !.window = m, !.effect = "maintenance_recovery",
                     !.id = IF Found /\ Record.Stored
                            THEN st.ActiveIncidentID ELSE None,
                     !.inc = IF Found /\ Record.Stored
                             THEN ClosedQuietly(Record) ELSE NoIncident]
    /\ UNCHANGED issued

-------------------------------------------------------------------------------
(* The worker: Step's writes                                               *)

PutWindow ==
    /\ worker.pc = "window"
    /\ maintenances' = [maintenances EXCEPT ![worker.window] = Ended(@)]
    /\ worker' = [worker EXCEPT !.pc = IF worker.id = None THEN "save"
                                                           ELSE "put"]
    /\ UNCHANGED <<on, st, incidents, memory, handler, ghosts>>

PutIncident ==
    /\ worker.pc = "put"
    /\ incidents' = [incidents EXCEPT ![worker.id] = worker.inc]
    /\ worker' = [worker EXCEPT !.pc = "save"]
    /\ UNCHANGED <<on, st, maintenances, memory, handler, ghosts>>

SaveState ==
    /\ worker.pc = "save"
    /\ st' = worker.st
    /\ worker' = IF worker.effect = "none" THEN WorkerIdle
                 ELSE [WorkerIdle EXCEPT !.pc = "deliver", !.id = worker.id,
                                         !.effect = worker.effect]
    /\ UNCHANGED <<on, incidents, maintenances, memory, handler, ghosts>>

-------------------------------------------------------------------------------
(* The worker: deliver, markNotified, setDisabled                          *)

(* GetIncident and the delivery itself, which may take minutes and which   *)
(* nothing waits for but the record that is written back after it; success *)
(* is what it returned.                                                    *)
DeliverAlert(success) ==
    /\ worker.pc = "deliver" /\ worker.effect \in Phase
    /\ success \/ "failed delivery" \in FaultKinds
    /\ incidents[worker.id].Stored
    /\ worker' =
         [worker EXCEPT
            !.pc = "sent",
            !.inc = IF worker.effect = "outage"
                    THEN [incidents[worker.id] EXCEPT !.OutageNotified = success]
                    ELSE [incidents[worker.id] EXCEPT !.RecoveryNotified = success]]
    /\ sent' = IF success
               THEN [sent EXCEPT ![worker.effect][worker.id] =
                        IF @ < 2 THEN @ + 1 ELSE @]
               ELSE sent
    /\ UNCHANGED <<store, memory, handler, issued, failureRun, successRun,
                   faults>>

DeliverNothing ==
    /\ worker.pc = "deliver"
    /\ worker.effect \in Phase => ~incidents[worker.id].Stored
    /\ \/ worker' = WorkerIdle
       \/ /\ worker.effect = "maintenance_recovery"
          /\ worker' = [WorkerIdle EXCEPT !.pc = "mark"]
    /\ UNCHANGED <<store, memory, handler, ghosts>>

(* The record is written back as it was read before the delivery.          *)
PutNotified ==
    /\ worker.pc = "sent"
    /\ incidents' = [incidents EXCEPT ![worker.id] = worker.inc]
    /\ worker' = IF \/ worker.effect = "outage" /\ worker.inc.OutageNotified
                    \/ worker.effect = "recovery" /\ worker.inc.RecoveryNotified
                 THEN [WorkerIdle EXCEPT !.pc = "mark"] ELSE WorkerIdle
    /\ UNCHANGED <<on, st, maintenances, memory, handler, ghosts>>

(* Mutant: the one update of the worker that does not wait for its turn.   *)
LoadToMarkAtOnce ==
    /\ worker.pc = "mark"
    /\ worker' = [WorkerIdle EXCEPT !.pc = "marking", !.st = st]
    /\ UNCHANGED <<store, memory, handler, ghosts>>

(* LastNotificationAt is not modelled: what matters is that the whole      *)
(* state is loaded and saved.                                              *)
LoadToMark ==
    /\ worker.pc = "mark" /\ MayStart
    /\ worker' = [WorkerIdle EXCEPT !.pc = "marking", !.st = st]
    /\ UNCHANGED <<store, memory, handler, ghosts>>

(* setDisabled leaves a window as it is.                                   *)
LoadToDisable ==
    /\ worker.pc = "off" /\ MayStart
    /\ worker' = IF st.ActiveMaintenanceID # None THEN WorkerIdle
                 ELSE [WorkerIdle EXCEPT !.pc = "disabling",
                                         !.st = Disabled(st)]
    /\ UNCHANGED <<store, memory, handler, ghosts>>

SaveCopy ==
    /\ worker.pc \in {"marking", "disabling"}
    /\ st' = worker.st
    /\ worker' = WorkerIdle
    /\ UNCHANGED <<on, incidents, maintenances, memory, handler, ghosts>>

Worker ==
    \/ ReadConfig
    \/ \E res \in Outcome : FinishCheck(res)
    \/ StepUp \/ StepRecovering \/ StepStillOffline \/ StepSuspect
    \/ \E i \in IncidentID : StepOpen(i)
    \/ StepInMaintenance
    \/ PutWindow \/ PutIncident \/ SaveState
    \/ \E success \in BOOLEAN : DeliverAlert(success)
    \/ DeliverNothing \/ PutNotified \/ LoadToMark \/ LoadToDisable \/ SaveCopy

-------------------------------------------------------------------------------
(* The handlers                                                            *)

At(a, pc) == handler[a].pc = pc
Starts(a) == At(a, "idle") /\ MayStart

(* handleMaintenanceStart, handleGoingOffline: the record first.           *)
StartMaintenance(a, m, auto) ==
    /\ Starts(a)
    /\ (IF auto THEN "automatic window" ELSE "window") \in RequestKinds
    /\ maintenances[m].State = "none"
    /\ maintenances' = [maintenances EXCEPT
                          ![m] = [State |-> "active", AutoRecovery |-> auto]]
    /\ handler' = [handler EXCEPT ![a].pc = "enter", ![a].id = m]
    /\ UNCHANGED <<on, st, incidents, memory, worker, ghosts>>

LoadToEnter(a) ==
    /\ At(a, "enter")
    /\ handler' = [handler EXCEPT
                     ![a].pc = "save",
                     ![a].st = EnterMaintenance(st, handler[a].id, lastOK)]
    /\ UNCHANGED <<store, memory, worker, ghosts>>

(* Mutant: a handler reads the window without waiting for its turn.        *)
ReadWindowAtOnce(a, pc) ==
    /\ At(a, "idle")
    /\ st.ActiveMaintenanceID # None
    /\ maintenances[st.ActiveMaintenanceID].State # "none"
    /\ handler' = [handler EXCEPT
                     ![a].pc = pc, ![a].id = st.ActiveMaintenanceID,
                     ![a].rec = maintenances[st.ActiveMaintenanceID]]
    /\ UNCHANGED <<store, memory, worker, ghosts>>

(* activeMaintenance, at the start of handleMaintenanceEnd, of             *)
(* handleServiceRestored and of handleMaintenanceDelay.                    *)
ReadWindow(a, pc) ==
    /\ Starts(a)
    /\ st.ActiveMaintenanceID # None
    /\ maintenances[st.ActiveMaintenanceID].State # "none"
    /\ handler' = [handler EXCEPT
                     ![a].pc = pc, ![a].id = st.ActiveMaintenanceID,
                     ![a].rec = maintenances[st.ActiveMaintenanceID]]
    /\ UNCHANGED <<store, memory, worker, ghosts>>

EndMaintenance(a) ==
    /\ At(a, "end")
    /\ maintenances' = [maintenances EXCEPT
                          ![handler[a].id] = Ended(handler[a].rec)]
    /\ handler' = [handler EXCEPT ![a].pc = "exit"]
    /\ UNCHANGED <<on, st, incidents, memory, worker, ghosts>>

LoadToExit(a) ==
    /\ At(a, "exit")
    /\ handler' = [handler EXCEPT ![a].pc = "save",
                                  ![a].st = ExitMaintenance(st, lastOK)]
    /\ UNCHANGED <<store, memory, worker, ghosts>>

SaveHandlerCopy(a) ==
    /\ At(a, "save")
    /\ st' = handler[a].st
    /\ handler' = [handler EXCEPT ![a] = HandlerIdle]
    /\ UNCHANGED <<on, incidents, maintenances, memory, worker, ghosts>>

(* handleMaintenanceDelay writes the record back with a new estimate.      *)
DelayMaintenance(a) ==
    /\ At(a, "delay")
    /\ maintenances' = [maintenances EXCEPT ![handler[a].id] = handler[a].rec]
    /\ handler' = [handler EXCEPT ![a] = HandlerIdle]
    /\ UNCHANGED <<on, st, incidents, memory, worker, ghosts>>

ToggleMonitoring(a) ==
    /\ Starts(a) /\ "switch" \in RequestKinds
    /\ Serialised => worker.pc \notin {"checking", "off"}
    /\ on' = ~on
    /\ UNCHANGED <<st, incidents, maintenances, memory, worker, handler, ghosts>>

ClearIncidents(a) ==
    /\ Starts(a) /\ "clear" \in RequestKinds
    /\ Serialised => worker.pc # "sent"
    /\ \E i \in IncidentID : incidents[i].Stored
    /\ incidents' = [i \in IncidentID |-> NoIncident]
    /\ UNCHANGED <<on, st, maintenances, memory, worker, handler, ghosts>>

Handler(a) ==
    \/ \E m \in MaintenanceID, auto \in BOOLEAN : StartMaintenance(a, m, auto)
    \/ LoadToEnter(a) \/ ReadWindow(a, "end") \/ ReadWindow(a, "delay")
    \/ EndMaintenance(a) \/ LoadToExit(a) \/ SaveHandlerCopy(a)
    \/ DelayMaintenance(a) \/ ToggleMonitoring(a) \/ ClearIncidents(a)

-------------------------------------------------------------------------------
(* Time, crashes and failed writes                                         *)

StabilizationEnds ==
    /\ stabilizing
    /\ stabilizing' = FALSE
    /\ UNCHANGED <<store, lastOK, worker, handler, ghosts>>

(* The process stops between any two transactions and starts again.        *)
Crash ==
    /\ "crash" \in FaultKinds
    /\ faults < MaxFaults /\ faults' = faults + 1
    /\ lastOK' = FALSE /\ stabilizing' = TRUE
    /\ worker' = WorkerIdle
    /\ handler' = [a \in Request |-> HandlerIdle]
    /\ UNCHANGED <<store, issued, failureRun, successRun, sent>>

(* SaveMonitorState fails: Step returns the error and tick drops the       *)
(* effects.                                                                *)
SaveFails ==
    /\ worker.pc = "save" /\ "failed save" \in FaultKinds
    /\ faults < MaxFaults /\ faults' = faults + 1
    /\ worker' = WorkerIdle
    /\ UNCHANGED <<store, memory, handler, issued, failureRun, successRun,
                   sent>>

Next == \/ Worker \/ \E a \in Request : Handler(a)
        \/ StabilizationEnds \/ Crash \/ SaveFails

(* The goroutines go on: the worker's timer fires again, a handler that    *)
(* started runs to its end, the stabilization deadline passes.             *)
Running(a) == handler[a].pc # "idle" /\ Handler(a)
Fairness == /\ WF_vars(Worker) /\ WF_vars(StabilizationEnds)
            /\ \A a \in Request : WF_vars(Running(a))

Spec == Init /\ [][Next]_vars
FairSpec == Spec /\ Fairness
-------------------------------------------------------------------------------
(* What survives every interleaving, crash and failed save                 *)

(* Whatever the copies overwrite, an incident's outage is announced at     *)
(* most once (its effect is made with its ID), and its recovery only after *)
(* its outage was.                                                         *)
OutageAlertOnce ==
    \A i \in IncidentID :
        /\ sent["outage"][i] <= 1
        /\ sent["recovery"][i] > 0 => sent["outage"][i] = 1

(* An incident that is over, and of which no goroutine holds a copy of the *)
(* state that still names it, never becomes active again.                  *)
Held(i) ==
    \/ st.ActiveIncidentID = i \/ worker.st.ActiveIncidentID = i
    \/ \E a \in Request : handler[a].st.ActiveIncidentID = i
OverStaysOver == [][\A i \in issued : ~Held(i) => ~Held(i)']_vars

Undisturbed == on /\ st.ActiveMaintenanceID = None
                  /\ \A a \in Request : handler[a].pc = "idle"

(* The instance has no ID left for the incident that Step is about to open *)
(* (an incident was forgotten after the check had begun).                  *)
OutOfIDs ==
    /\ worker.pc = "checked" /\ ~Succeeds(worker.res) /\ ~MoreIncidents
    /\ st.ActiveIncidentID = None

(* Whatever a race, a stop or a failed save has left in the store, it does *)
(* not last: once requests stop, a lasting outage ends with an active      *)
(* incident, be it the first, one that goes on or a new one after one was  *)
(* lost, and a lasting recovery with none.                                 *)
HealsToOffline ==
    <>[](Undisturbed /\ ~lastOK /\ ~OutOfIDs)
        => <>[](st.ActiveIncidentID # None)
HealsToOnline ==
    <>[](Undisturbed /\ lastOK)
        => <>[](st.ActiveIncidentID = None /\ st.State \in {"online", "degraded"})

(* Nor does a window: once Plex was seen down in one that was to end by    *)
(* itself, it ends if Plex stays up, monitoring is on and no request is    *)
(* under way (engine.go:221).                                              *)
MaintenanceFinishes ==
    ~ <>[](/\ on /\ lastOK /\ st.ActiveMaintenanceID # None
           /\ maintenances[st.ActiveMaintenanceID].AutoRecovery
           /\ st.MaintenanceSawOffline
           /\ \A a \in Request : handler[a].pc = "idle")

-------------------------------------------------------------------------------
(* What the documentation says and interleavings or crashes break          *)

(* "While in maintenance, an unreachable Plex is expected and does not     *)
(* raise an unexpected-outage alert" (INCIDENT-STATE-MACHINE.md:72-74): no *)
(* incident opens while a window is active whose start was completed.      *)
OpensOutsideMaintenance ==
    [][\A i \in IncidentID : i \notin issued /\ i \in issued' =>
          \A m \in MaintenanceID : maintenances[m].State = "active" =>
              \E a \in Request : handler[a].id = m]_vars

(* "A retry after recovery can never double-send"                          *)
(* (INCIDENT-STATE-MACHINE.md:119-121).  It holds when the updates are     *)
(* serialised, crashes and failed saves included.                          *)
RecoveryAlertOnce == \A i \in IncidentID : sent["recovery"][i] <= 1

(* "Does not open a duplicate incident - if an incident was already open,  *)
(* it continues that same incident" (INCIDENT-STATE-MACHINE.md:100-101).   *)
NoDuplicateIncident ==
    \A i, j \in IncidentID : incidents[i].Open /\ incidents[j].Open => i = j

(* "All multi-step updates happen in a single Update transaction"          *)
(* (ARCHITECTURE.md:103-104): delaying a window never takes back its end.  *)
(* With the updates serialised it does not, crashes included.              *)
EndedStaysEnded ==
    [][\A m \in MaintenanceID : maintenances[m].State = "ended"
           => maintenances'[m].State = "ended"]_vars
===============================================================================
