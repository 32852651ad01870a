------------------------------ MODULE SystemProofs -----------------------------
(***************************************************************************)
(* Theorems about System, for every set of incidents and windows, every    *)
(* number of requests and every setting; and the refinement of Monitor.    *)
(*                                                                         *)
(* Of every interleaving, crash and failing save: the types and what the   *)
(* worker holds where it is (Types); that an incident that nobody holds a  *)
(* copy of stays over (OverIsOver); that an outage is announced once       *)
(* (AlertsFit).                                                            *)
(*                                                                         *)
(* Of updates that are serialised: that a copy is what is stored as long   *)
(* as its update runs (OneUpdate), from which follows that the end of a    *)
(* window is final and that a recovery is announced once, crashes and      *)
(* failing saves included; without those, that every step is a step of     *)
(* Monitor or changes nothing Monitor sees, and that one incident is open  *)
(* at a time (OpenFits).                                                   *)
(***************************************************************************)
EXTENDS SystemRefinement, TLAPS

-------------------------------------------------------------------------------
(* The operators of Engine, as far as these proofs need them.              *)

(* A counter of the monitoring state stays one when a check bumps it.      *)
LEMMA CountFacts == 0 \in Count /\ \A n \in Count : Bump(n) \in Count
BY CountAssumption DEF Count, Bump

(* Every branch of Step and every other update of the state makes a        *)
(* MonitorState of a MonitorState.                                         *)
LEMMA StateTypes ==
    ASSUME NEW s \in MonitorState
    PROVE  /\ \A res \in Result : /\ Healthy(s, Settings, res) \in MonitorState
                                  /\ Recovering(s, Settings, res) \in MonitorState
           /\ Recovered(s) \in MonitorState
           /\ StillOffline(s) \in MonitorState
           /\ Suspect(s) \in MonitorState
           /\ \A i \in IncidentID : Offline(s, i) \in MonitorState
           /\ MaintenanceUp(s) \in MonitorState
           /\ MaintenanceDown(s) \in MonitorState
           /\ MaintenanceFinished(s) \in MonitorState
           /\ Disabled(s) \in MonitorState
           /\ \A ok \in BOOLEAN : ExitMaintenance(s, ok) \in MonitorState
           /\ \A m \in MaintenanceID \cup {None}, ok \in BOOLEAN :
                 EnterMaintenance(s, m, ok) \in MonitorState
<1> USE CountFacts DEF MonitorState, State, FirstFailure
<1>1. \A res \in Result : /\ Healthy(s, Settings, res) \in MonitorState
                          /\ Recovering(s, Settings, res) \in MonitorState
  <2>1. \A res \in Result : Succeeded(s, Settings, res) \in MonitorState
    BY DEF Succeeded
  <2>2. \A res \in Result : Healthy(s, Settings, res) \in MonitorState
    BY <2>1 DEF Healthy
  <2>3. \A res \in Result : Recovering(s, Settings, res) \in MonitorState
    BY <2>1 DEF Recovering
  <2> QED
    BY <2>2, <2>3
<1>2. Failed(s) \in MonitorState
  BY DEF Failed
<1>3. StillOffline(s) \in MonitorState /\ Suspect(s) \in MonitorState
  <2>1. StillOffline(s) \in MonitorState
    BY <1>2 DEF StillOffline
  <2>2. Suspect(s) \in MonitorState
    BY <1>2 DEF Suspect
  <2> QED
    BY <2>1, <2>2
<1>4. /\ Recovered(s) \in MonitorState /\ Disabled(s) \in MonitorState
      /\ \A i \in IncidentID : Offline(s, i) \in MonitorState
  BY DEF Recovered, Offline, Disabled
<1>5. /\ MaintenanceUp(s) \in MonitorState
      /\ MaintenanceDown(s) \in MonitorState
      /\ MaintenanceFinished(s) \in MonitorState
  BY DEF MaintenanceUp, MaintenanceDown, MaintenanceFinished
<1>6. \A ok \in BOOLEAN : ExitMaintenance(s, ok) \in MonitorState
  BY DEF ExitMaintenance
<1>7. \A m \in MaintenanceID \cup {None}, ok \in BOOLEAN :
        EnterMaintenance(s, m, ok) \in MonitorState
  BY DEF EnterMaintenance
<1> QED
  BY <1>1, <1>3, <1>4, <1>5, <1>6, <1>7

(* Which incident an update leaves active: the one that was, none, or, when *)
(* the outage is confirmed, the new one.                                   *)
LEMMA ActiveIs ==
    ASSUME NEW s \in MonitorState
    PROVE  /\ \A res \in Result :
                 /\ Healthy(s, Settings, res).ActiveIncidentID = s.ActiveIncidentID
                 /\ Recovering(s, Settings, res).ActiveIncidentID
                      = s.ActiveIncidentID
           /\ Recovered(s).ActiveIncidentID = None
           /\ StillOffline(s).ActiveIncidentID = s.ActiveIncidentID
           /\ Suspect(s).ActiveIncidentID = s.ActiveIncidentID
           /\ \A i : Offline(s, i).ActiveIncidentID = i
           /\ MaintenanceUp(s).ActiveIncidentID = s.ActiveIncidentID
           /\ MaintenanceDown(s).ActiveIncidentID = s.ActiveIncidentID
           /\ MaintenanceFinished(s).ActiveIncidentID = None
           /\ Disabled(s).ActiveIncidentID = s.ActiveIncidentID
           /\ \A ok : ExitMaintenance(s, ok).ActiveIncidentID = s.ActiveIncidentID
           /\ \A m, ok :
                 EnterMaintenance(s, m, ok).ActiveIncidentID = s.ActiveIncidentID
<1> USE DEF MonitorState
<1>1. \A res \in Result :
        /\ Healthy(s, Settings, res).ActiveIncidentID = s.ActiveIncidentID
        /\ Recovering(s, Settings, res).ActiveIncidentID = s.ActiveIncidentID
  BY DEF Healthy, Recovering, Succeeded
<1>2. /\ StillOffline(s).ActiveIncidentID = s.ActiveIncidentID
      /\ Suspect(s).ActiveIncidentID = s.ActiveIncidentID
  BY DEF StillOffline, Suspect, Failed
<1>3. /\ Recovered(s).ActiveIncidentID = None
      /\ \A i : Offline(s, i).ActiveIncidentID = i
      /\ Disabled(s).ActiveIncidentID = s.ActiveIncidentID
  BY DEF Recovered, Offline, Disabled
<1>4. /\ MaintenanceUp(s).ActiveIncidentID = s.ActiveIncidentID
      /\ MaintenanceDown(s).ActiveIncidentID = s.ActiveIncidentID
      /\ MaintenanceFinished(s).ActiveIncidentID = None
  BY DEF MaintenanceUp, MaintenanceDown, MaintenanceFinished
<1>5. /\ \A ok : ExitMaintenance(s, ok).ActiveIncidentID = s.ActiveIncidentID
      /\ \A m, ok :
            EnterMaintenance(s, m, ok).ActiveIncidentID = s.ActiveIncidentID
  BY DEF ExitMaintenance, EnterMaintenance
<1> QED
  BY <1>1, <1>2, <1>3, <1>4, <1>5

(* Closing, reopening and opening an incident make a record of one, and    *)
(* only the delivery of its outage alert marks it as announced.            *)
LEMMA IncidentIs ==
    ASSUME NEW inc \in Incident
    PROVE  /\ Closed(inc) \in Incident /\ Reopened(inc) \in Incident
           /\ ClosedQuietly(inc) \in Incident
           /\ NewIncident \in Incident /\ NoIncident \in Incident
           /\ Closed(inc).OutageNotified = inc.OutageNotified
           /\ Reopened(inc).OutageNotified = inc.OutageNotified
           /\ ClosedQuietly(inc).OutageNotified = inc.OutageNotified
           /\ ~NewIncident.OutageNotified /\ ~NoIncident.OutageNotified
BY DEF Incident, Closed, Reopened, ClosedQuietly, NewIncident, NoIncident

(* What a goroutine and a request start from.                              *)
LEMMA IdleIs ==
    /\ FreshState \in MonitorState /\ FreshState.ActiveIncidentID = None
    /\ NoIncident \in Incident /\ NoMaintenance \in Maintenance
    /\ WorkerIdle \in WorkerStates /\ HandlerIdle \in HandlerStates
<1>1. FreshState \in MonitorState /\ FreshState.ActiveIncidentID = None
  BY CountFacts DEF FreshState, MonitorState, State, FirstFailure
<1>2. NoIncident \in Incident /\ NoMaintenance \in Maintenance
  BY DEF NoIncident, Incident, NoMaintenance, Maintenance
<1>3. WorkerIdle \in WorkerStates
  BY <1>1, <1>2 DEF WorkerIdle, WorkerStates, Result
<1>4. HandlerIdle \in HandlerStates
  BY <1>1, <1>2 DEF HandlerIdle, HandlerStates
<1> QED
  BY <1>1, <1>2, <1>3, <1>4

-------------------------------------------------------------------------------
(* Types, and where the worker is with what it holds                       *)

(* What Step returned is kept until the worker has dealt with it; an alert *)
(* is of an incident, and so is the record that is about to be written.    *)
WorkerFits ==
    /\ worker.pc \in {"deliver", "sent"} => worker.effect # "none"
    /\ worker.pc = "sent" => worker.effect \in Phase
    /\ worker.effect # "none"
         => worker.pc \in {"window", "put", "save", "deliver", "sent"}
    /\ worker.effect \in Phase
         => worker.id \in IncidentID /\ worker.pc # "window"
    /\ worker.pc = "put" => worker.id \in IncidentID
    /\ worker.pc = "window" => worker.window \in MaintenanceID

Types == TypeOK /\ WorkerFits

(* The new record of the worker when only its place is kept: an alert was  *)
(* recorded as delivered, or the configuration was read.                   *)
BarePlaces == {"mark", "checking", "off"}
LEMMA BareHolds ==
    ASSUME NEW pc \in BarePlaces, worker' = [WorkerIdle EXCEPT !.pc = pc]
    PROVE  /\ worker' \in WorkerStates /\ worker'.pc = pc /\ worker'.st = FreshState
           /\ worker'.id = None /\ worker'.inc = NoIncident /\ worker'.effect = "none"
           /\ worker'.window = None
BY IdleIs DEF WorkerIdle, WorkerStates, BarePlaces

(* When the round has read the configuration.                              *)
LEMMA ConfigHolds ==
    ASSUME ReadConfig
    PROVE  /\ worker' \in WorkerStates /\ worker'.pc \in {"checking", "off"}
           /\ worker'.pc = "checking" => on
           /\ worker'.pc = "off" => ~on
           /\ worker'.st = FreshState /\ worker'.id = None
           /\ worker'.inc = NoIncident /\ worker'.effect = "none"
           /\ worker'.window = None
<1>1. PICK pc \in BarePlaces :
        /\ worker' = [WorkerIdle EXCEPT !.pc = pc]
        /\ pc \in {"checking", "off"}
        /\ pc = "checking" => on
        /\ pc = "off" => ~on
  BY DEF ReadConfig, BarePlaces
<1> QED
  BY <1>1, BareHolds

(* When it holds a copy of the state.                                      *)
LEMMA HoldsState ==
    ASSUME NEW pc \in {"save", "marking", "disabling"}, NEW t \in MonitorState,
           worker' = [WorkerIdle EXCEPT !.pc = pc, !.st = t]
    PROVE  /\ worker' \in WorkerStates /\ worker'.pc = pc /\ worker'.st = t
           /\ worker'.id = None /\ worker'.inc = NoIncident /\ worker'.effect = "none"
           /\ worker'.window = None
BY IdleIs DEF WorkerIdle, WorkerStates

(* When it has loaded the state to change it, or has found a window that   *)
(* setDisabled leaves as it is.                                            *)
LEMMA LoadHolds ==
    ASSUME Types, LoadToMark \/ LoadToDisable
    PROVE  /\ worker' \in WorkerStates
           /\ worker'.pc \in {"idle", "marking", "disabling"}
           /\ worker'.id = None /\ worker'.inc = NoIncident
           /\ worker'.effect = "none" /\ worker'.window = None
           /\ worker'.pc = "idle" => worker' = WorkerIdle
           /\ worker'.pc = "marking" => worker.pc = "mark" /\ worker'.st = st
           /\ worker'.pc = "disabling" =>
                 /\ worker.pc = "off" /\ worker'.st = Disabled(st)
                 /\ st.ActiveMaintenanceID = None
<1>1. /\ st \in MonitorState /\ Disabled(st) \in MonitorState
      /\ WorkerIdle \in WorkerStates /\ WorkerIdle.pc = "idle"
      /\ WorkerIdle.id = None /\ WorkerIdle.inc = NoIncident
      /\ WorkerIdle.effect = "none" /\ WorkerIdle.window = None
  BY IdleIs, StateTypes DEF Types, TypeOK, WorkerIdle
<1>2. CASE LoadToMark
  BY <1>1, <1>2, HoldsState DEF LoadToMark
<1>3. CASE LoadToDisable /\ worker' = WorkerIdle
  BY <1>1, <1>3
<1>4. CASE LoadToDisable /\ worker' # WorkerIdle
  BY <1>1, <1>4, HoldsState DEF LoadToDisable
<1> QED
  BY <1>2, <1>3, <1>4

(* When it holds the record of an incident as well.                        *)
LEMMA HoldsIncident ==
    ASSUME NEW t \in MonitorState, NEW id \in IncidentID, NEW inc \in Incident,
           NEW effect \in {"none"} \cup Phase, WithIncident(t, id, inc, effect)
    PROVE  /\ worker' \in WorkerStates /\ worker'.pc = "put" /\ worker'.st = t
           /\ worker'.id = id /\ worker'.inc = inc /\ worker'.effect = effect
           /\ worker'.window = None
BY IdleIs DEF WithIncident, WorkerIdle, WorkerStates

(* When all is stored and only what Step returned is left.                 *)
LEMMA HoldsEffect ==
    ASSUME NEW id \in IncidentID \cup {None},
           NEW effect \in {"maintenance_recovery"} \cup Phase,
           worker' = [WorkerIdle EXCEPT !.pc = "deliver", !.id = id,
                                        !.effect = effect]
    PROVE  /\ worker' \in WorkerStates /\ worker'.pc = "deliver" /\ worker'.st = FreshState
           /\ worker'.id = id /\ worker'.inc = NoIncident /\ worker'.effect = effect
           /\ worker'.window = None
BY IdleIs DEF WorkerIdle, WorkerStates

(* When it goes on to its next place and keeps what it holds.              *)
LEMMA HoldsOn ==
    ASSUME Types, NEW pc \in {"save", "put"},
           worker' = [worker EXCEPT !.pc = pc]
    PROVE  /\ worker' \in WorkerStates /\ worker'.pc = pc
           /\ worker'.st = worker.st /\ worker'.id = worker.id
           /\ worker'.inc = worker.inc /\ worker'.effect = worker.effect
           /\ worker'.window = worker.window
BY DEF Types, TypeOK, WorkerStates

(* What every branch of Step does besides.                                 *)
LEMMA StepKeeps ==
    ASSUME Types, Step
    PROVE  /\ failureRun' \in Count /\ successRun' \in Count
           /\ worker.pc = "checked" /\ worker.res \in Result
           /\ on' = on /\ st' = st /\ incidents' = incidents
           /\ maintenances' = maintenances /\ lastOK' = lastOK
           /\ stabilizing' = stabilizing /\ handler' = handler
           /\ sent' = sent /\ faults' = faults
BY CountFacts DEF Step, Types, TypeOK, WorkerStates, store, memory

(* A branch of Step without a new incident goes on with the incident that  *)
(* is active, or ends it; what it will announce is a recovery whose outage *)
(* was announced, according to the record it has read.                     *)
StepHeld ==
    /\ worker' \in WorkerStates /\ worker'.pc \in {"window", "put", "save"}
    /\ worker'.st.ActiveIncidentID \in {st.ActiveIncidentID, None}
    /\ worker'.id \in {st.ActiveIncidentID, None}
    /\ worker'.pc = "put" => worker'.id # None
    /\ worker'.pc = "window" => worker'.window \in MaintenanceID
    /\ worker'.inc.OutageNotified
         => worker'.id # None /\ incidents[worker'.id].OutageNotified
    /\ worker'.effect \in {"none", "maintenance_recovery", "recovery"}
    /\ worker'.effect = "recovery" =>
          /\ worker'.pc = "put"
          /\ worker'.id # None /\ incidents[worker'.id].OutageNotified
          /\ worker'.st.ActiveIncidentID = None
    /\ issued' = issued

(* It is so when Step writes the state alone ...                           *)
LEMMA StateOnlyHeld ==
    ASSUME NEW t \in MonitorState, StateOnly(t), issued' = issued,
           t.ActiveIncidentID \in {st.ActiveIncidentID, None}
    PROVE  StepHeld
<1>1. /\ worker' \in WorkerStates /\ worker'.pc = "save" /\ worker'.st = t
      /\ worker'.id = None /\ worker'.inc = NoIncident
      /\ worker'.effect = "none" /\ worker'.window = None
  BY IdleIs DEF StateOnly, WorkerIdle, WorkerStates
<1> QED
  BY <1>1, IdleIs, IncidentIs DEF StepHeld

(* ... and when it writes the record of the active incident first.         *)
LEMMA WithIncidentHeld ==
    ASSUME Types, Found, NEW t \in MonitorState, NEW inc \in Incident,
           NEW effect \in {"none", "recovery"},
           WithIncident(t, st.ActiveIncidentID, inc, effect), issued' = issued,
           t.ActiveIncidentID \in {st.ActiveIncidentID, None},
           inc.OutageNotified = Record.OutageNotified,
           effect = "recovery" =>
              Record.OutageNotified /\ t.ActiveIncidentID = None
    PROVE  StepHeld
<1>1. st.ActiveIncidentID \in IncidentID
  BY DEF Types, TypeOK, MonitorState, Found
<1>2. /\ worker' \in WorkerStates /\ worker'.pc = "put" /\ worker'.st = t
      /\ worker'.id = st.ActiveIncidentID /\ worker'.inc = inc
      /\ worker'.effect = effect
  BY <1>1, HoldsIncident DEF Phase
<1> QED
  BY <1>1, <1>2 DEF StepHeld, Found, Record

(* Each of the branches (stepSuccess, stepFailure, stepMaintenance).       *)
LEMMA StepHolds ==
    ASSUME Types, StepUp \/ StepRecovering \/ StepStillOffline \/ StepSuspect
                  \/ StepInMaintenance
    PROVE  StepHeld
<1>1. /\ st \in MonitorState /\ worker.res \in Result
      /\ Found => Record \in Incident /\ st.ActiveIncidentID \in IncidentID
  BY DEF Types, TypeOK, WorkerStates, Found, Record, MonitorState
<1>2. CASE StepUp
  BY <1>1, <1>2, StateTypes, ActiveIs, StateOnlyHeld DEF StepUp
<1>3. CASE StepSuspect
  BY <1>1, <1>3, StateTypes, ActiveIs, StateOnlyHeld DEF StepSuspect
<1>4. CASE StepStillOffline
  <2>1. /\ StillOffline(st) \in MonitorState
        /\ StillOffline(st).ActiveIncidentID = st.ActiveIncidentID
    BY <1>1, StateTypes, ActiveIs
  <2>2. CASE Record.Stored
    BY <1>1, <1>4, <2>1, <2>2, IncidentIs, WithIncidentHeld
    DEF StepStillOffline
  <2>3. CASE ~Record.Stored
    BY <1>4, <2>1, <2>3, StateOnlyHeld DEF StepStillOffline
  <2> QED
    BY <2>2, <2>3
<1>5. CASE StepRecovering
  <2> DEFINE t == Recovering(st, Settings, worker.res)
             told == Settings.AutoRecoveryNotify /\ Record.OutageNotified
  <2>1. /\ t \in MonitorState /\ t.ActiveIncidentID = st.ActiveIncidentID
        /\ Recovered(t) \in MonitorState
        /\ Recovered(t).ActiveIncidentID = None
    BY <1>1, StateTypes, ActiveIs
  <2>2. CASE StateOnly(t)
    BY <1>5, <2>1, <2>2, StateOnlyHeld DEF StepRecovering
  <2>3. CASE StateOnly(Recovered(t))
    BY <1>5, <2>1, <2>3, StateOnlyHeld DEF StepRecovering
  <2>4. CASE WithIncident(Recovered(t), st.ActiveIncidentID, Closed(Record),
                          IF told THEN "recovery" ELSE "none")
    BY <1>1, <1>5, <2>1, <2>4, IncidentIs, WithIncidentHeld DEF StepRecovering
  <2> QED
    BY <1>5, <2>2, <2>3, <2>4 DEF StepRecovering
<1>6. CASE StepInMaintenance
  <2> DEFINE up == MaintenanceUp(st)
             m == st.ActiveMaintenanceID
             id == IF Found /\ Record.Stored THEN st.ActiveIncidentID ELSE None
             inc == IF Found /\ Record.Stored THEN ClosedQuietly(Record)
                    ELSE NoIncident
  <2>1. /\ up \in MonitorState /\ up.ActiveIncidentID = st.ActiveIncidentID
        /\ MaintenanceDown(st) \in MonitorState
        /\ MaintenanceDown(st).ActiveIncidentID = st.ActiveIncidentID
        /\ MaintenanceFinished(up) \in MonitorState
        /\ MaintenanceFinished(up).ActiveIncidentID = None
        /\ m \in MaintenanceID
    BY <1>1, <1>6, StateTypes, ActiveIs DEF StepInMaintenance, MonitorState
  <2>2. CASE StateOnly(MaintenanceDown(st)) \/ StateOnly(up)
    BY <1>6, <2>1, <2>2, StateOnlyHeld DEF StepInMaintenance
  <2>3. CASE worker' = [WorkerIdle EXCEPT
                          !.pc = "window", !.st = MaintenanceFinished(up),
                          !.window = m, !.effect = "maintenance_recovery",
                          !.id = id, !.inc = inc]
    <3>1. /\ id \in {st.ActiveIncidentID, None} \cap (IncidentID \cup {None})
          /\ inc \in Incident
          /\ inc.OutageNotified => id # None /\ Record.OutageNotified
                                   /\ id = st.ActiveIncidentID
      BY <1>1, IdleIs, IncidentIs DEF Found
    <3> HIDE DEF id, inc, up, m
    <3>2. /\ worker' \in WorkerStates /\ worker'.pc = "window"
          /\ worker'.st = MaintenanceFinished(up) /\ worker'.id = id
          /\ worker'.inc = inc /\ worker'.effect = "maintenance_recovery"
          /\ worker'.window = m
      BY <2>1, <2>3, <3>1, IdleIs DEF WorkerIdle, WorkerStates
    <3> QED
      BY <1>6, <2>1, <3>1, <3>2 DEF StepHeld, StepInMaintenance, Record
  <2> QED
    BY <1>6, <2>2, <2>3 DEF StepInMaintenance
<1> QED
  BY <1>2, <1>3, <1>4, <1>5, <1>6

(* The branch that opens an incident: its record is new, the state names   *)
(* it, and what Step returns announces it.                                 *)
LEMMA OpenHolds ==
    ASSUME Types, NEW i \in IncidentID, StepOpen(i)
    PROVE  /\ worker' \in WorkerStates /\ worker'.pc = "put"
           /\ worker'.st.ActiveIncidentID = i /\ worker'.id = i
           /\ ~worker'.inc.OutageNotified
           /\ worker'.effect \in {"none", "outage"}
           /\ worker'.window = None
           /\ i \notin issued /\ issued' = issued \cup {i}
<1> DEFINE t == Offline(Suspect(st), i)
           effect == IF Settings.AutoOutageNotify THEN "outage" ELSE "none"
<1>1. t \in MonitorState /\ t.ActiveIncidentID = i
  <2>1. Suspect(st) \in MonitorState
    BY StateTypes DEF Types, TypeOK
  <2> QED
    BY ONLY <2>1, StateTypes, ActiveIs, CountAssumption, i \in IncidentID
<1>2. effect \in {"none"} \cup Phase /\ effect \in {"none", "outage"}
  BY DEF Phase
<1>3. /\ WithIncident(t, i, NewIncident, effect)
      /\ i \notin issued /\ issued' = issued \cup {i}
  BY DEF StepOpen, IsNewID
<1>4. NewIncident \in Incident /\ ~NewIncident.OutageNotified
  BY IdleIs, IncidentIs
<1> HIDE DEF t, effect
<1> QED
  BY <1>1, <1>2, <1>3, <1>4, HoldsIncident

(* What a check leaves in the worker before Step.                          *)
LEMMA CheckedHolds ==
    ASSUME Types, NEW res \in Outcome, FinishCheck(res)
    PROVE  /\ worker' \in WorkerStates /\ worker'.pc = "checked"
           /\ worker'.res = res /\ worker'.was = lastOK
           /\ worker'.st = FreshState /\ worker'.id = None
           /\ worker'.inc = NoIncident /\ worker'.effect = "none"
           /\ worker'.window = None
<1>1. res \in Result /\ lastOK \in BOOLEAN
  BY DEF Outcome, Result, Types, TypeOK
<1> QED
  BY <1>1, IdleIs DEF FinishCheck, WorkerIdle, WorkerStates

(* A delivery changes the one flag it answers for.                         *)
LEMMA DeliveryHolds ==
    ASSUME Types, NEW success \in BOOLEAN, DeliverAlert(success)
    PROVE  /\ worker.pc = "deliver" /\ worker.effect \in Phase
           /\ worker.id \in IncidentID
           /\ worker' \in WorkerStates /\ worker'.pc = "sent"
           /\ worker'.st = worker.st /\ worker'.id = worker.id
           /\ worker'.effect = worker.effect
           /\ worker'.inc \in Incident
           /\ worker.effect = "outage" => worker'.inc.OutageNotified = success
           /\ worker.effect = "recovery" =>
                 worker'.inc.OutageNotified
                   = incidents[worker.id].OutageNotified
<1>1. /\ worker.pc = "deliver" /\ worker.effect \in Phase
      /\ worker.id \in IncidentID /\ incidents[worker.id] \in Incident
      /\ worker \in WorkerStates
  BY DEF DeliverAlert, Types, TypeOK, WorkerFits
<1> DEFINE inc == IF worker.effect = "outage"
                  THEN [incidents[worker.id] EXCEPT !.OutageNotified = success]
                  ELSE [incidents[worker.id] EXCEPT !.RecoveryNotified = success]
<1>2. /\ inc \in Incident
      /\ worker.effect = "outage" => inc.OutageNotified = success
      /\ worker.effect # "outage" =>
            inc.OutageNotified = incidents[worker.id].OutageNotified
  BY <1>1 DEF Incident
<1>3. worker' = [worker EXCEPT !.pc = "sent", !.inc = inc]
  BY DEF DeliverAlert
<1> HIDE DEF inc
<1>4. /\ worker' \in WorkerStates /\ worker'.pc = "sent"
      /\ worker'.st = worker.st /\ worker'.id = worker.id
      /\ worker'.effect = worker.effect /\ worker'.inc = inc
  BY <1>1, <1>2, <1>3 DEF WorkerStates
<1> QED
  BY <1>1, <1>2, <1>4

(* The worker's tick keeps the types.                                      *)
LEMMA StepTypes ==
    ASSUME Types, Step, StepHeld \/ \E i \in IncidentID : StepOpen(i)
    PROVE  Types'
<1>1. /\ worker' \in WorkerStates /\ issued' \subseteq IncidentID
      /\ WorkerFits'
  <2>1. CASE StepHeld
    BY <2>1 DEF StepHeld, WorkerFits, Phase, Types, TypeOK, MonitorState
  <2>2. ASSUME NEW i \in IncidentID, StepOpen(i)
        PROVE  /\ worker' \in WorkerStates /\ issued' \subseteq IncidentID
               /\ WorkerFits'
    BY <2>2, OpenHolds DEF WorkerFits, Phase, Types, TypeOK
  <2> QED
    BY <2>1, <2>2
<1>2. TypeOK'
  BY <1>1, StepKeeps DEF Types, TypeOK
<1> QED
  BY <1>1, <1>2 DEF Types

LEMMA WorkerTypes == ASSUME Types, Worker PROVE Types'
<1> USE DEF Types, store, memory, ghosts
<1>1. ASSUME NEW res \in Outcome, FinishCheck(res) PROVE Types'
  BY <1>1, CheckedHolds DEF FinishCheck, TypeOK, WorkerFits, Phase, Succeeds
<1>2. CASE StepUp \/ StepRecovering \/ StepStillOffline \/ StepSuspect
           \/ StepInMaintenance
  <2>1. Step
    BY <1>2 DEF StepUp, StepRecovering, StepStillOffline, StepSuspect,
                StepInMaintenance
  <2> QED
    BY <1>2, <2>1, StepHolds, StepTypes
<1>3. ASSUME NEW i \in IncidentID, StepOpen(i) PROVE Types'
  BY <1>3, StepTypes DEF StepOpen
<1>4. CASE PutWindow
  <2>1. worker' \in WorkerStates /\ WorkerFits'
    <3>1. PICK pc \in {"save", "put"} :
             /\ worker' = [worker EXCEPT !.pc = pc]
             /\ pc = "put" => worker.id # None
      BY <1>4 DEF PutWindow
    <3>2. worker.id \in IncidentID \cup {None} /\ worker.pc = "window"
      BY <1>4 DEF PutWindow, TypeOK, WorkerStates
    <3> QED
      BY <3>1, <3>2, HoldsOn DEF WorkerFits
  <2>2. maintenances' \in [MaintenanceID -> Maintenance]
    BY <1>4 DEF PutWindow, TypeOK, Maintenance, Ended
  <2> QED
    BY <1>4, <2>1, <2>2 DEF PutWindow, TypeOK
<1>5. CASE PutIncident
  <2>1. worker' \in WorkerStates /\ WorkerFits'
    BY <1>5, HoldsOn DEF PutIncident, WorkerFits
  <2>2. incidents' \in [IncidentID -> Incident]
    BY <1>5 DEF PutIncident, TypeOK, WorkerStates
  <2> QED
    BY <1>5, <2>1, <2>2 DEF PutIncident, TypeOK
<1>6. CASE SaveState
  <2>1. st' \in MonitorState
    BY <1>6 DEF SaveState, TypeOK, WorkerStates
  <2>2. worker' \in WorkerStates /\ WorkerFits'
    <3>1. CASE worker.effect = "none"
      <4>1. worker' = WorkerIdle
        BY <1>6, <3>1 DEF SaveState
      <4> QED
        BY <4>1, IdleIs DEF WorkerFits, WorkerIdle, Phase
    <3>2. CASE worker.effect # "none"
      <4>1. /\ worker' = [WorkerIdle EXCEPT !.pc = "deliver", !.id = worker.id,
                                            !.effect = worker.effect]
            /\ worker.id \in IncidentID \cup {None}
            /\ worker.effect \in {"maintenance_recovery"} \cup Phase
        BY <1>6, <3>2 DEF SaveState, TypeOK, WorkerStates
      <4> QED
        BY <3>2, <4>1, HoldsEffect DEF WorkerFits
    <3> QED
      BY <3>1, <3>2
  <2> QED
    BY <1>6, <2>1, <2>2 DEF SaveState, TypeOK
<1>7. ASSUME NEW success \in BOOLEAN, DeliverAlert(success) PROVE Types'
  <2>1. sent' \in [Phase -> [IncidentID -> 0..2]]
    <3>1. worker.effect \in Phase /\ worker.id \in IncidentID
      BY <1>7, DeliveryHolds
    <3>2. sent \in [Phase -> [IncidentID -> 0..2]]
      BY DEF TypeOK
    <3>3. \A n \in 0..2 : (IF n < 2 THEN n + 1 ELSE n) \in 0..2
      OBVIOUS
    <3> QED
      BY <1>7, <3>1, <3>2, <3>3 DEF DeliverAlert
  <2>2. worker' \in WorkerStates /\ WorkerFits'
    BY <1>7, DeliveryHolds DEF WorkerFits, Phase
  <2> QED
    BY <1>7, <2>1, <2>2 DEF DeliverAlert, TypeOK
<1>8. ASSUME worker' = WorkerIdle \/ worker' = [WorkerIdle EXCEPT !.pc = "mark"]
      PROVE  worker' \in WorkerStates /\ WorkerFits'
  <2>1. CASE worker' = WorkerIdle
    BY <2>1, IdleIs DEF WorkerIdle, WorkerFits, Phase
  <2>2. CASE worker' = [WorkerIdle EXCEPT !.pc = "mark"]
    BY <2>2, BareHolds DEF BarePlaces, WorkerFits, Phase
  <2> QED
    BY <1>8, <2>1, <2>2
<1>9. CASE DeliverNothing
  BY <1>8, <1>9 DEF DeliverNothing, TypeOK
<1>10. CASE PutNotified
  <2>1. incidents' \in [IncidentID -> Incident]
    BY <1>10 DEF PutNotified, TypeOK, WorkerStates
  <2> QED
    BY <1>8, <1>10, <2>1 DEF PutNotified, TypeOK
<1>11. CASE LoadToMark \/ LoadToDisable
  <2>1. worker' \in WorkerStates /\ WorkerFits'
    BY <1>11, LoadHolds DEF WorkerFits, Phase
  <2> QED
    BY <1>11, <2>1 DEF LoadToMark, LoadToDisable, TypeOK
<1>12. CASE ReadConfig
  <2>1. worker' \in WorkerStates /\ WorkerFits'
    BY <1>12, ConfigHolds DEF WorkerFits, Phase
  <2> QED
    BY <1>12, <2>1 DEF ReadConfig, TypeOK
<1>13. CASE SaveCopy
  <2>1. st' \in MonitorState
    BY <1>13 DEF SaveCopy, TypeOK, WorkerStates
  <2> QED
    BY <1>8, <1>13, <2>1 DEF SaveCopy, TypeOK
<1> QED
  BY <1>1, <1>2, <1>3, <1>4, <1>5, <1>6, <1>7, <1>9, <1>10, <1>11, <1>12, <1>13
  DEF Worker

(* What a request's next step leaves alone, and where it leaves itself.    *)
LEMMA HandlerMoves ==
    ASSUME Types, NEW a \in Request, NEW h \in HandlerStates,
           handler' = [handler EXCEPT ![a] = h]
    PROVE  /\ handler' \in [Request -> HandlerStates]
           /\ handler'[a] = h
           /\ \A b \in Request : b # a => handler'[b] = handler[b]
BY DEF Types, TypeOK

HandlerPlaces == {"idle", "enter", "end", "exit", "delay", "save"}

(* When it goes on to its next place and keeps what it read.               *)
LEMMA HandlerGoesOn ==
    ASSUME Types, NEW a \in Request, NEW pc \in HandlerPlaces,
           handler' = [handler EXCEPT ![a].pc = pc]
    PROVE  /\ handler' \in [Request -> HandlerStates]
           /\ handler'[a].pc = pc /\ handler'[a].id = handler[a].id
           /\ handler'[a].rec = handler[a].rec /\ handler'[a].st = handler[a].st
           /\ \A b \in Request : b # a => handler'[b] = handler[b]
BY DEF Types, TypeOK, HandlerStates, HandlerPlaces

(* When it holds a copy of the state that it will save.                    *)
LEMMA HandlerCopies ==
    ASSUME Types, NEW a \in Request, NEW t \in MonitorState,
           handler' = [handler EXCEPT ![a].pc = "save", ![a].st = t]
    PROVE  /\ handler' \in [Request -> HandlerStates]
           /\ handler'[a].pc = "save" /\ handler'[a].id = handler[a].id
           /\ handler'[a].rec = handler[a].rec /\ handler'[a].st = t
           /\ \A b \in Request : b # a => handler'[b] = handler[b]
BY DEF Types, TypeOK, HandlerStates

(* When it has read the active window.                                     *)
LEMMA ReadHolds ==
    ASSUME Types, NEW a \in Request, NEW pc \in {"end", "delay"},
           ReadWindow(a, pc)
    PROVE  /\ handler' \in [Request -> HandlerStates]
           /\ st.ActiveMaintenanceID \in MaintenanceID
           /\ handler'[a].pc = pc
           /\ handler'[a].id = st.ActiveMaintenanceID
           /\ handler'[a].rec = maintenances[st.ActiveMaintenanceID]
           /\ handler'[a].st = handler[a].st
           /\ \A b \in Request : b # a => handler'[b] = handler[b]
<1>1. /\ st.ActiveMaintenanceID \in MaintenanceID
      /\ maintenances[st.ActiveMaintenanceID] \in Maintenance
  BY DEF ReadWindow, Types, TypeOK, MonitorState
<1> QED
  BY <1>1 DEF ReadWindow, Types, TypeOK, HandlerStates

(* When it has stored the record of a new window.                          *)
LEMMA StartHolds ==
    ASSUME Types, NEW a \in Request, NEW m \in MaintenanceID,
           NEW auto \in BOOLEAN, StartMaintenance(a, m, auto)
    PROVE  /\ handler' \in [Request -> HandlerStates]
           /\ handler'[a].pc = "enter" /\ handler'[a].id = m
           /\ handler'[a].rec = handler[a].rec /\ handler'[a].st = handler[a].st
           /\ \A b \in Request : b # a => handler'[b] = handler[b]
           /\ maintenances' \in [MaintenanceID -> Maintenance]
           /\ maintenances'[m].State = "active"
           /\ \A n \in MaintenanceID \ {m} : maintenances'[n] = maintenances[n]
<1>1. [State |-> "active", AutoRecovery |-> auto] \in Maintenance
  BY DEF Maintenance
<1>2. /\ maintenances' \in [MaintenanceID -> Maintenance]
      /\ maintenances'[m].State = "active"
      /\ \A n \in MaintenanceID \ {m} : maintenances'[n] = maintenances[n]
  BY <1>1 DEF StartMaintenance, Types, TypeOK
<1>3. handler' = [handler EXCEPT ![a].pc = "enter", ![a].id = m]
  BY DEF StartMaintenance
<1> QED
  BY <1>2, <1>3 DEF Types, TypeOK, HandlerStates

(* No request moves another.                                               *)
LEMMA HandlerOthers ==
    ASSUME Types, NEW a \in Request, Handler(a), NEW b \in Request, b # a
    PROVE  handler'[b] = handler[b]
<1> USE DEF Types, TypeOK
<1>1. CASE ToggleMonitoring(a) \/ ClearIncidents(a)
  BY <1>1 DEF ToggleMonitoring, ClearIncidents
<1>2. CASE LoadToEnter(a) \/ LoadToExit(a) \/ EndMaintenance(a)
  BY <1>2 DEF LoadToEnter, LoadToExit, EndMaintenance
<1>3. CASE SaveHandlerCopy(a) \/ DelayMaintenance(a)
  BY <1>3 DEF SaveHandlerCopy, DelayMaintenance
<1>4. CASE ReadWindow(a, "end") \/ ReadWindow(a, "delay")
  BY <1>4 DEF ReadWindow
<1>5. ASSUME NEW m \in MaintenanceID, NEW auto \in BOOLEAN,
             StartMaintenance(a, m, auto)
      PROVE  handler'[b] = handler[b]
  BY <1>5 DEF StartMaintenance
<1> QED
  BY <1>1, <1>2, <1>3, <1>4, <1>5 DEF Handler

(* Every handler keeps the types.                                          *)
LEMMA HandlerTypes == ASSUME Types, NEW a \in Request, Handler(a) PROVE Types'
<1> USE DEF Types, store, memory, ghosts, At, Starts
<1>1. ASSUME handler' \in [Request -> HandlerStates],
             maintenances' \in [MaintenanceID -> Maintenance],
             st' \in MonitorState, UNCHANGED <<on, incidents, memory, worker,
                                               ghosts>>
      PROVE  Types'
  BY <1>1 DEF TypeOK, WorkerFits
<1>2. ASSUME NEW m \in MaintenanceID, NEW auto \in BOOLEAN,
             StartMaintenance(a, m, auto)
      PROVE  Types'
  BY <1>1, <1>2, StartHolds DEF StartMaintenance, TypeOK
<1>3. CASE LoadToEnter(a)
  <2>1. EnterMaintenance(st, handler[a].id, lastOK) \in MonitorState
    BY StateTypes DEF TypeOK, HandlerStates
  <2> QED
    BY <1>1, <1>3, <2>1, HandlerCopies DEF LoadToEnter, TypeOK
<1>4. ASSUME NEW pc \in {"end", "delay"}, ReadWindow(a, pc) PROVE Types'
  BY <1>1, <1>4, ReadHolds DEF ReadWindow, TypeOK
<1>5. CASE EndMaintenance(a)
  <2>1. Ended(handler[a].rec) \in Maintenance
    BY DEF TypeOK, HandlerStates, Maintenance, Ended
  <2>2. maintenances' \in [MaintenanceID -> Maintenance]
    BY <1>5, <2>1 DEF EndMaintenance, TypeOK
  <2>3. handler' \in [Request -> HandlerStates]
    BY <1>5, HandlerGoesOn DEF EndMaintenance, HandlerPlaces
  <2> QED
    BY <1>1, <1>5, <2>2, <2>3 DEF EndMaintenance, TypeOK
<1>6. CASE LoadToExit(a)
  <2>1. ExitMaintenance(st, lastOK) \in MonitorState
    BY StateTypes DEF TypeOK
  <2> QED
    BY <1>1, <1>6, <2>1, HandlerCopies DEF LoadToExit, TypeOK
<1>7. CASE SaveHandlerCopy(a)
  <2>1. st' \in MonitorState
    BY <1>7 DEF SaveHandlerCopy, TypeOK, HandlerStates
  <2> QED
    BY <1>1, <1>7, <2>1, HandlerMoves, IdleIs DEF SaveHandlerCopy, TypeOK
<1>8. CASE DelayMaintenance(a)
  <2>1. maintenances' \in [MaintenanceID -> Maintenance]
    BY <1>8 DEF DelayMaintenance, TypeOK, HandlerStates
  <2> QED
    BY <1>1, <1>8, <2>1, HandlerMoves, IdleIs DEF DelayMaintenance, TypeOK
<1>9. CASE ToggleMonitoring(a)
  BY <1>9 DEF ToggleMonitoring, TypeOK, WorkerFits
<1>10. CASE ClearIncidents(a)
  <2>1. incidents' \in [IncidentID -> Incident]
    BY <1>10, IdleIs DEF ClearIncidents
  <2> QED
    BY <1>10, <2>1 DEF ClearIncidents, TypeOK, WorkerFits
<1> QED
  BY <1>2, <1>3, <1>4, <1>5, <1>6, <1>7, <1>8, <1>9, <1>10 DEF Handler

(* The state after the setup is well typed.                                *)
LEMMA InitTypes == Init => Types
<1> SUFFICES ASSUME Init PROVE Types
  OBVIOUS
<1>1. TypeOK
  <2>1. sent \in [Phase -> [IncidentID -> 0..2]]
    BY DEF Init
  <2>2. faults \in 0..MaxFaults
    BY SerialisedAssumption DEF Init
  <2> QED
    BY <2>1, <2>2, IdleIs, CountFacts DEF Init, TypeOK
<1>2. WorkerFits
  BY DEF Init, WorkerFits, WorkerIdle, Phase
<1> QED
  BY <1>1, <1>2 DEF Types

(* TypeOK (engine.go, worker.go, actions.go): every stored record and      *)
(* every copy a goroutine holds stay in their ranges, whatever overlaps,   *)
(* crashes or fails.                                                       *)
THEOREM SystemTypes == Spec => []Types
<1>1. Types /\ [Next]_vars => Types'
  <2> SUFFICES ASSUME Types, [Next]_vars PROVE Types'
    OBVIOUS
  <2> USE DEF store, memory, ghosts
  <2>1. CASE StabilizationEnds
    BY <2>1 DEF StabilizationEnds, Types, TypeOK, WorkerFits
  <2>2. CASE Crash
    <3>1. faults' \in 0..MaxFaults
      BY <2>2, SerialisedAssumption DEF Crash, Types, TypeOK
    <3>2. WorkerFits'
      BY <2>2 DEF Crash, WorkerFits, WorkerIdle, Phase
    <3> QED
      BY <2>2, <3>1, <3>2, IdleIs DEF Crash, Types, TypeOK
  <2>3. CASE SaveFails
    <3>1. faults' \in 0..MaxFaults
      <4>1. faults \in 0..MaxFaults /\ MaxFaults \in Nat
        BY SerialisedAssumption DEF Types, TypeOK
      <4>2. faults < MaxFaults /\ faults' = faults + 1
        BY <2>3 DEF SaveFails
      <4> QED
        BY <4>1, <4>2
    <3>2. WorkerFits'
      BY <2>3 DEF SaveFails, WorkerFits, WorkerIdle, Phase
    <3> QED
      BY <2>3, <3>1, <3>2, IdleIs DEF SaveFails, Types, TypeOK
  <2>4. CASE UNCHANGED vars
    BY <2>4 DEF vars, Types, TypeOK, WorkerFits
  <2> QED
    BY <2>1, <2>2, <2>3, <2>4, WorkerTypes, HandlerTypes DEF Next
<1>2. QED
  BY <1>1, InitTypes, PTL DEF Spec

-------------------------------------------------------------------------------
(* An incident that is over                                                *)

(* The worker takes its copies from the store, and stores its copies: none *)
(* names an incident that was over, except the new one.                    *)
LEMMA WorkerForgets ==
    ASSUME Types, Worker, NEW i \in issued, ~Held(i)
    PROVE  /\ st'.ActiveIncidentID # i
           /\ worker'.st.ActiveIncidentID # i
           /\ handler' = handler
<1> USE DEF store, memory, ghosts
<1>1. /\ st \in MonitorState /\ worker.st \in MonitorState
      /\ st.ActiveIncidentID # i /\ worker.st.ActiveIncidentID # i
      /\ i \in IncidentID /\ i # None
  BY NoneAssumption DEF Held, Types, TypeOK, WorkerStates
<1>2. FreshState.ActiveIncidentID # i /\ WorkerIdle.st = FreshState
  BY <1>1, IdleIs DEF WorkerIdle
<1>3. ASSUME NEW res \in Outcome, FinishCheck(res)
      PROVE  st' = st /\ handler' = handler /\ worker'.st.ActiveIncidentID # i
  BY <1>2, <1>3, CheckedHolds DEF FinishCheck
<1>4. ASSUME StepUp \/ StepRecovering \/ StepStillOffline \/ StepSuspect
             \/ StepInMaintenance
      PROVE  st' = st /\ handler' = handler /\ worker'.st.ActiveIncidentID # i
  <2>1. Step
    BY <1>4 DEF StepUp, StepRecovering, StepStillOffline, StepSuspect,
                StepInMaintenance
  <2> QED
    BY <1>1, <1>4, <2>1, StepHolds, StepKeeps DEF StepHeld
<1>5. ASSUME NEW j \in IncidentID, StepOpen(j)
      PROVE  st' = st /\ handler' = handler /\ worker'.st.ActiveIncidentID # i
  BY <1>1, <1>5, OpenHolds, StepKeeps DEF StepOpen
<1>6. ASSUME PutWindow \/ PutIncident
      PROVE  st' = st /\ handler' = handler /\ worker'.st.ActiveIncidentID # i
  <2>1. PICK pc \in {"save", "put"} : worker' = [worker EXCEPT !.pc = pc]
    BY <1>6 DEF PutWindow, PutIncident
  <2> QED
    BY <1>1, <1>6, <2>1, HoldsOn DEF PutWindow, PutIncident
<1>7. ASSUME SaveState \/ SaveCopy
      PROVE  /\ st' = worker.st /\ handler' = handler
             /\ worker'.st.ActiveIncidentID # i
  <2>1. worker'.st = FreshState
    <3>1. CASE worker' = WorkerIdle
      BY <1>2, <3>1
    <3>2. CASE /\ worker.effect # "none"
               /\ worker' = [WorkerIdle EXCEPT !.pc = "deliver",
                                 !.id = worker.id, !.effect = worker.effect]
      <4>1. worker.id \in IncidentID \cup {None}
            /\ worker.effect \in {"maintenance_recovery"} \cup Phase
        BY <3>2 DEF Types, TypeOK, WorkerStates
      <4> QED
        BY <3>2, <4>1, HoldsEffect
    <3> QED
      BY <1>7, <3>1, <3>2 DEF SaveState, SaveCopy
  <2> QED
    BY <1>2, <1>7, <2>1 DEF SaveState, SaveCopy
<1>8. ASSUME NEW success \in BOOLEAN, DeliverAlert(success)
      PROVE  st' = st /\ handler' = handler /\ worker'.st.ActiveIncidentID # i
  BY <1>1, <1>8, DeliveryHolds DEF DeliverAlert
<1>9. ASSUME DeliverNothing \/ PutNotified \/ ReadConfig
      PROVE  st' = st /\ handler' = handler /\ worker'.st.ActiveIncidentID # i
  BY <1>2, <1>9, BareHolds, ConfigHolds
  DEF DeliverNothing, PutNotified, ReadConfig, BarePlaces
<1>10. ASSUME LoadToMark \/ LoadToDisable
      PROVE  st' = st /\ handler' = handler /\ worker'.st.ActiveIncidentID # i
  <2>1. /\ Disabled(st) \in MonitorState
        /\ Disabled(st).ActiveIncidentID = st.ActiveIncidentID
    BY <1>1, StateTypes, ActiveIs
  <2>2. worker'.st \in {st, Disabled(st), FreshState}
    BY <1>2, <1>10, LoadHolds
  <2> QED
    BY <1>1, <1>2, <1>10, <2>1, <2>2 DEF LoadToMark, LoadToDisable
<1> QED
  BY <1>1, <1>3, <1>4, <1>5, <1>6, <1>7, <1>8, <1>9, <1>10 DEF Worker

(* Nor does a request: it copies the stored state and stores its copy.     *)
LEMMA HandlerForgets ==
    ASSUME Types, NEW a \in Request, Handler(a), NEW i \in issued, ~Held(i)
    PROVE  /\ st'.ActiveIncidentID # i
           /\ worker' = worker
           /\ \A b \in Request : handler'[b].st.ActiveIncidentID # i
<1> USE DEF store, memory, ghosts, At, Starts
<1>1. /\ st \in MonitorState /\ st.ActiveIncidentID # i /\ i # None
      /\ \A b \in Request : handler[b].st.ActiveIncidentID # i
      /\ HandlerIdle.st.ActiveIncidentID # i
  BY NoneAssumption, IdleIs DEF Held, Types, TypeOK, HandlerIdle
<1>2. ASSUME NEW m \in MaintenanceID, NEW auto \in BOOLEAN,
             StartMaintenance(a, m, auto)
      PROVE  /\ st' = st /\ worker' = worker
             /\ \A b \in Request : handler'[b].st = handler[b].st
  BY <1>2, StartHolds DEF StartMaintenance
<1>3. ASSUME NEW pc \in {"end", "delay"}, ReadWindow(a, pc)
      PROVE  /\ st' = st /\ worker' = worker
             /\ \A b \in Request : handler'[b].st = handler[b].st
  BY <1>3, ReadHolds DEF ReadWindow
<1>4. ASSUME EndMaintenance(a)
      PROVE  /\ st' = st /\ worker' = worker
             /\ \A b \in Request : handler'[b].st = handler[b].st
  BY <1>4, HandlerGoesOn DEF EndMaintenance, HandlerPlaces
<1>5. ASSUME LoadToEnter(a) \/ LoadToExit(a)
      PROVE  /\ st' = st /\ worker' = worker
             /\ handler'[a].st.ActiveIncidentID = st.ActiveIncidentID
             /\ \A b \in Request : b # a => handler'[b] = handler[b]
  <2>1. PICK t \in MonitorState :
          /\ handler' = [handler EXCEPT ![a].pc = "save", ![a].st = t]
          /\ t.ActiveIncidentID = st.ActiveIncidentID
    <3>1. /\ EnterMaintenance(st, handler[a].id, lastOK) \in MonitorState
          /\ ExitMaintenance(st, lastOK) \in MonitorState
      BY <1>1, StateTypes DEF Types, TypeOK, HandlerStates
    <3> QED
      BY <1>1, <1>5, <3>1, ActiveIs DEF LoadToEnter, LoadToExit
  <2> QED
    BY <1>5, <2>1, HandlerCopies DEF LoadToEnter, LoadToExit
<1>6. ASSUME SaveHandlerCopy(a) \/ DelayMaintenance(a)
      PROVE  /\ st' \in {st, handler[a].st} /\ worker' = worker
             /\ handler'[a] = HandlerIdle
             /\ \A b \in Request : b # a => handler'[b] = handler[b]
  BY <1>6, IdleIs, HandlerMoves DEF SaveHandlerCopy, DelayMaintenance
<1>7. ASSUME ToggleMonitoring(a) \/ ClearIncidents(a)
      PROVE  st' = st /\ worker' = worker /\ handler' = handler
  BY <1>7 DEF ToggleMonitoring, ClearIncidents
<1> QED
  BY <1>1, <1>2, <1>3, <1>4, <1>5, <1>6, <1>7 DEF Handler

(* OverStaysOver (engine.go:105, actions.go): whatever the copies          *)
(* overwrite and wherever the process stops, an incident that neither the  *)
(* store nor any copy names is never active again.                         *)
THEOREM OverIsOver == Spec => OverStaysOver
<1>1. ASSUME Types, [Next]_vars, NEW i \in issued, ~Held(i)
      PROVE  ~Held(i)'
  <2> USE <1>1 DEF Held
  <2>1. CASE Worker
    BY <2>1, WorkerForgets
  <2>2. ASSUME NEW a \in Request, Handler(a) PROVE ~Held(i)'
    BY <2>2, HandlerForgets
  <2>3. CASE StabilizationEnds \/ UNCHANGED vars
    BY <2>3 DEF StabilizationEnds, vars, store
  <2>4. CASE Crash \/ SaveFails
    <3>1. /\ FreshState.ActiveIncidentID # i
          /\ WorkerIdle.st = FreshState /\ HandlerIdle.st = FreshState
      BY NoneAssumption, IdleIs DEF WorkerIdle, HandlerIdle, Types, TypeOK
    <3> QED
      BY <2>4, <3>1 DEF Crash, SaveFails, store
  <2> QED
    BY <2>1, <2>2, <2>3, <2>4 DEF Next
<1>2. Types /\ [Next]_vars
        => [\A i \in issued : ~Held(i) => ~Held(i)']_vars
  BY <1>1
<1> QED
  BY <1>2, SystemTypes, PTL DEF Spec, OverStaysOver

-------------------------------------------------------------------------------
(* The alerts                                                              *)

(* What the records, the worker's copy and the effect in its hands say of  *)
(* the alerts is what was delivered: a flag was earned, an outage alert    *)
(* that waits was not delivered before, and a recovery alert waits only    *)
(* for an incident whose outage was announced.  OutageAlertOnce depends on *)
(* all of it: the second alert of an incident comes from a flag read long  *)
(* before.                                                                 *)
RecordsEarned ==
    \A i \in IncidentID : incidents[i].OutageNotified => sent["outage"][i] = 1
CopyEarned ==
    worker.inc.OutageNotified
        => worker.id \in IncidentID /\ sent["outage"][worker.id] = 1
EffectDue ==
    /\ worker.effect = "outage" =>
          /\ worker.id \in issued
          /\ worker.pc # "sent" => sent["outage"][worker.id] = 0
    /\ worker.effect = "recovery" => sent["outage"][worker.id] = 1
SentIssued == \A i \in IncidentID : sent["outage"][i] > 0 => i \in issued

AlertsFit == RecordsEarned /\ CopyEarned /\ EffectDue /\ SentIssued
             /\ OutageAlertOnce

(* Nothing is sent and no record changes: what the worker takes into its   *)
(* hands decides.                                                          *)
LEMMA AlertsKept ==
    ASSUME AlertsFit, sent' = sent, incidents' = incidents,
           issued \subseteq issued', CopyEarned', EffectDue'
    PROVE  AlertsFit'
BY DEF AlertsFit, RecordsEarned, SentIssued, OutageAlertOnce

(* The worker has nothing in its hands.                                    *)
LEMMA EmptyHands ==
    ASSUME worker'.inc = NoIncident, worker'.effect = "none"
    PROVE  CopyEarned' /\ EffectDue'
BY IdleIs, IncidentIs DEF CopyEarned, EffectDue

(* It keeps what it has, before the delivery.                              *)
LEMMA SameHands ==
    ASSUME AlertsFit, sent' = sent, issued' = issued, worker'.inc = worker.inc,
           worker'.id = worker.id, worker'.effect = worker.effect,
           worker.pc # "sent"
    PROVE  CopyEarned' /\ EffectDue'
BY DEF AlertsFit, CopyEarned, EffectDue

(* An idle worker holds nothing.                                           *)
LEMMA IdleHands ==
    ASSUME worker' = WorkerIdle \/ worker' = [WorkerIdle EXCEPT !.pc = "mark"]
    PROVE  worker'.inc = NoIncident /\ worker'.effect = "none"
<1>1. WorkerIdle.inc = NoIncident /\ WorkerIdle.effect = "none"
  BY DEF WorkerIdle
<1> QED
  BY <1>1, BareHolds DEF BarePlaces

(* Each step of the worker keeps the alerts in agreement.                  *)
LEMMA WorkerAlerts ==
    ASSUME Types, AlertsFit, Worker
    PROVE  AlertsFit'
<1> USE DEF store, memory, ghosts
<1>1. ASSUME NEW res \in Outcome, FinishCheck(res) PROVE AlertsFit'
  BY <1>1, CheckedHolds, EmptyHands, AlertsKept DEF FinishCheck
<1>2. ASSUME StepUp \/ StepRecovering \/ StepStillOffline \/ StepSuspect
             \/ StepInMaintenance
      PROVE  AlertsFit'
  <2>1. Step /\ StepHeld
    BY <1>2, StepHolds DEF StepUp, StepRecovering, StepStillOffline,
                           StepSuspect, StepInMaintenance
  <2>2. worker'.id \in IncidentID \cup {None}
    BY <2>1 DEF StepHeld, Types, TypeOK, MonitorState
  <2>3. CopyEarned' /\ EffectDue'
    BY <2>1, <2>2, StepKeeps
    DEF StepHeld, CopyEarned, EffectDue, AlertsFit, RecordsEarned
  <2> QED
    BY <2>1, <2>3, StepKeeps, AlertsKept DEF StepHeld
<1>3. ASSUME NEW i \in IncidentID, StepOpen(i) PROVE AlertsFit'
  <2>1. Step
    BY <1>3 DEF StepOpen
  <2>2. sent["outage"][i] = 0
    BY <1>3, OpenHolds DEF AlertsFit, SentIssued, Types, TypeOK, Phase
  <2>3. CopyEarned' /\ EffectDue'
    BY <1>3, <2>1, <2>2, OpenHolds, StepKeeps DEF CopyEarned, EffectDue
  <2> QED
    BY <1>3, <2>1, <2>3, OpenHolds, StepKeeps, AlertsKept
<1>4. CASE PutWindow
  <2>1. PICK pc \in {"save", "put"} : worker' = [worker EXCEPT !.pc = pc]
    BY <1>4 DEF PutWindow
  <2> QED
    BY <1>4, <2>1, HoldsOn, SameHands, AlertsKept DEF PutWindow
<1>5. ASSUME incidents' = [incidents EXCEPT ![worker.id] = worker.inc]
      PROVE  RecordsEarned' \/ sent' # sent
  BY <1>5 DEF RecordsEarned, CopyEarned, AlertsFit, Types, TypeOK
<1>6. CASE PutIncident
  <2>1. CopyEarned' /\ EffectDue' /\ RecordsEarned'
    BY <1>5, <1>6, HoldsOn, SameHands DEF PutIncident
  <2> QED
    BY <1>6, <2>1 DEF PutIncident, AlertsFit, SentIssued, OutageAlertOnce
<1>7. CASE SaveState
  <2>1. CASE worker.effect = "none"
    BY <1>7, <2>1, IdleHands, EmptyHands, AlertsKept DEF SaveState
  <2>2. CASE worker.effect # "none"
    <3>1. worker.id \in IncidentID \cup {None}
          /\ worker.effect \in {"maintenance_recovery"} \cup Phase
      BY <2>2 DEF Types, TypeOK, WorkerStates
    <3>2. worker'.inc = NoIncident /\ worker'.id = worker.id
          /\ worker'.effect = worker.effect
      BY <1>7, <2>2, <3>1, HoldsEffect DEF SaveState
    <3>3. CopyEarned'
      BY <3>2, IdleIs, IncidentIs DEF CopyEarned
    <3>4. EffectDue'
      BY <1>7, <3>2 DEF SaveState, EffectDue, AlertsFit
    <3> QED
      BY <1>7, <3>3, <3>4, AlertsKept DEF SaveState
  <2> QED
    BY <2>1, <2>2
<1>8. ASSUME NEW success \in BOOLEAN, DeliverAlert(success) PROVE AlertsFit'
  <2>1. /\ worker.effect \in Phase /\ worker.id \in IncidentID
        /\ worker'.pc = "sent" /\ worker'.id = worker.id
        /\ worker'.effect = worker.effect
        /\ worker.effect = "outage" => worker'.inc.OutageNotified = success
        /\ worker.effect = "recovery" =>
              worker'.inc.OutageNotified = incidents[worker.id].OutageNotified
        /\ worker.pc # "sent" /\ incidents' = incidents /\ issued' = issued
    BY <1>8, DeliveryHolds DEF DeliverAlert
  <2>2. \A i \in IncidentID :
          /\ sent["outage"][i] \in 0..2 /\ sent'["outage"][i] \in 0..2
          /\ sent["outage"][i] > 0 => sent'["outage"][i] = sent["outage"][i]
          /\ sent'["outage"][i] # sent["outage"][i] =>
                /\ worker.effect = "outage" /\ i = worker.id
                /\ sent'["outage"][i] = 1
          /\ worker.effect = "outage" /\ success /\ i = worker.id
                => sent'["outage"][i] = 1
          /\ sent'["recovery"][i] # sent["recovery"][i] =>
                worker.effect = "recovery" /\ i = worker.id
    <3>1. sent \in [Phase -> [IncidentID -> 0..2]] /\ "outage" # "recovery"
      BY DEF Types, TypeOK
    <3>2. CASE success /\ worker.effect = "outage"
      <4>1. /\ \A i \in IncidentID : i # worker.id =>
                  sent'["outage"][i] = sent["outage"][i]
            /\ sent["outage"][worker.id] = 0
            /\ sent'["outage"][worker.id] = 1
            /\ sent'["recovery"] = sent["recovery"]
        BY <1>8, <2>1, <3>1, <3>2
        DEF DeliverAlert, AlertsFit, EffectDue, Phase
      <4> QED
        BY <2>1, <3>1, <3>2, <4>1 DEF Phase
    <3>3. CASE success /\ worker.effect = "recovery"
      <4>1. /\ sent'["outage"] = sent["outage"]
            /\ \A i \in IncidentID : i # worker.id =>
                  sent'["recovery"][i] = sent["recovery"][i]
        BY <1>8, <2>1, <3>1, <3>3 DEF DeliverAlert, Phase
      <4> QED
        BY <2>1, <3>1, <3>3, <4>1 DEF Phase
    <3>4. CASE ~success
      BY <1>8, <3>1, <3>4 DEF DeliverAlert, Phase
    <3> QED
      BY <2>1, <3>2, <3>3, <3>4 DEF Phase
  <2>3. RecordsEarned' /\ SentIssued'
    BY <2>1, <2>2 DEF AlertsFit, RecordsEarned, SentIssued, EffectDue
  <2>4. EffectDue'
    BY <2>1, <2>2 DEF AlertsFit, EffectDue
  <2>5. CopyEarned'
    <3>1. CASE worker.effect = "outage"
      BY <2>1, <2>2, <3>1 DEF CopyEarned
    <3>2. CASE worker.effect = "recovery"
      BY <2>1, <2>2, <3>2 DEF CopyEarned, AlertsFit, RecordsEarned
    <3> QED
      BY <2>1, <3>1, <3>2 DEF Phase
  <2>6. OutageAlertOnce'
    BY <2>1, <2>2 DEF OutageAlertOnce, AlertsFit, EffectDue
  <2> QED
    BY <2>3, <2>4, <2>5, <2>6 DEF AlertsFit
<1>9. CASE DeliverNothing \/ ReadConfig
  BY <1>9, IdleHands, ConfigHolds, EmptyHands, AlertsKept
  DEF DeliverNothing, ReadConfig
<1>10. CASE PutNotified
  <2>1. CopyEarned' /\ EffectDue' /\ RecordsEarned'
    BY <1>5, <1>10, IdleHands, EmptyHands DEF PutNotified
  <2> QED
    BY <1>10, <2>1 DEF PutNotified, AlertsFit, SentIssued, OutageAlertOnce
<1>11. CASE LoadToMark \/ LoadToDisable
  <2>1. worker'.inc = NoIncident /\ worker'.effect = "none"
    BY <1>11, LoadHolds
  <2> QED
    BY <1>11, <2>1, EmptyHands, AlertsKept DEF LoadToMark, LoadToDisable
<1>12. CASE SaveCopy
  BY <1>12, IdleHands, EmptyHands, AlertsKept DEF SaveCopy
<1> QED
  BY <1>1, <1>2, <1>3, <1>4, <1>6, <1>7, <1>8, <1>9, <1>10, <1>11, <1>12
  DEF Worker

(* A request touches no alert; the records it clears claim none.           *)
LEMMA HandlerAlerts ==
    ASSUME Types, AlertsFit, NEW a \in Request, Handler(a)
    PROVE  AlertsFit'
<1> USE DEF store, memory, ghosts
<1>1. /\ worker' = worker /\ sent' = sent /\ issued' = issued
      /\ \/ incidents' = incidents
         \/ incidents' = [i \in IncidentID |-> NoIncident]
  BY DEF Handler, StartMaintenance, LoadToEnter, ReadWindow, EndMaintenance,
         LoadToExit, SaveHandlerCopy, DelayMaintenance, ToggleMonitoring,
         ClearIncidents
<1>2. RecordsEarned'
  BY <1>1, IdleIs, IncidentIs DEF RecordsEarned, AlertsFit
<1> QED
  BY <1>1, <1>2
  DEF AlertsFit, CopyEarned, EffectDue, SentIssued, OutageAlertOnce

(* They agree from the start on and throughout.                            *)
LEMMA AlertsAgree == Spec => []AlertsFit
<1>1. Init => AlertsFit
  BY IdleIs, IncidentIs
  DEF Init, AlertsFit, RecordsEarned, CopyEarned, EffectDue, SentIssued,
      OutageAlertOnce, WorkerIdle, Phase
<1>2. Types /\ AlertsFit /\ [Next]_vars => AlertsFit'
  <2> SUFFICES ASSUME Types, AlertsFit, [Next]_vars PROVE AlertsFit'
    OBVIOUS
  <2>1. CASE StabilizationEnds \/ UNCHANGED vars
    BY <2>1
    DEF StabilizationEnds, vars, store, ghosts, AlertsFit, RecordsEarned,
        CopyEarned, EffectDue, SentIssued, OutageAlertOnce
  <2>2. CASE Crash \/ SaveFails
    BY <2>2, IdleHands, EmptyHands, AlertsKept DEF Crash, SaveFails, store
  <2> QED
    BY <2>1, <2>2, WorkerAlerts, HandlerAlerts DEF Next
<1> QED
  BY <1>1, <1>2, SystemTypes, PTL DEF Spec

(* OutageAlertOnce (engine.go:183, worker.go:146): at most one outage      *)
(* alert per incident, and no recovery alert without it, for every         *)
(* interleaving of the worker and the requests, every crash and every      *)
(* failed save.                                                            *)
THEOREM OutageOnce == Spec => []OutageAlertOnce
<1>1. AlertsFit => OutageAlertOnce
  BY DEF AlertsFit
<1> QED
  BY <1>1, AlertsAgree, PTL

-------------------------------------------------------------------------------
(* One update at a time.  From here on Serialised holds, the discipline    *)
(* described in System that the code does not have: updates take turns,    *)
(* checks and deliveries wait for no one.  Crashes and failed saves are    *)
(* not ruled out before the last section.                                  *)

Rests == worker.pc \in {"idle", "checking", "off", "deliver", "sent", "mark"}

(* At most one update is under way, the worker's or a request's.           *)
OneAtATime ==
    /\ \A a, b \in Request :
          handler[a].pc # "idle" /\ handler[b].pc # "idle" => a = b
    /\ ~Rests => \A a \in Request : handler[a].pc = "idle"

(* What the worker took from the store and from the check is still true.   *)
WorkerCopy ==
    /\ worker.pc \notin {"window", "put", "save", "marking", "disabling"}
         => worker.st = FreshState
    /\ worker.pc = "checking" => on
    /\ worker.pc = "checked" => on /\ lastOK = Succeeds(worker.res)
    /\ worker.pc = "off" => ~on
    /\ worker.pc = "marking" => worker.st = st
    /\ worker.pc = "disabling" =>
          worker.st = Disabled(st) /\ ~on /\ st.ActiveMaintenanceID = None
    /\ worker.pc = "idle" => worker = WorkerIdle

(* What a request took from the store is still true, up to its own writes. *)
Entering(a) ==
    /\ handler[a].id \in MaintenanceID /\ handler[a].rec = NoMaintenance
    /\ maintenances[handler[a].id].State = "active"
Reading(a) ==
    /\ handler[a].id \in MaintenanceID
    /\ handler[a].id = st.ActiveMaintenanceID
    /\ handler[a].rec.State # "none"
HandlerCopy(a) ==
    /\ handler[a].pc = "idle" => handler[a] = HandlerIdle
    /\ handler[a].pc = "enter" => Entering(a)
    /\ handler[a].pc \in {"end", "delay"} =>
          Reading(a) /\ handler[a].rec = maintenances[handler[a].id]
    /\ handler[a].pc = "exit" =>
          Reading(a) /\ maintenances[handler[a].id] = Ended(handler[a].rec)
    /\ handler[a].pc = "save" =>
          \/ /\ Entering(a)
             /\ handler[a].st = EnterMaintenance(st, handler[a].id, lastOK)
          \/ /\ Reading(a)
             /\ maintenances[handler[a].id] = Ended(handler[a].rec)
             /\ handler[a].st = ExitMaintenance(st, lastOK)

(* A window without a record has nothing to remember.                      *)
NoneIsBlank ==
    \A m \in MaintenanceID :
        maintenances[m].State = "none" => maintenances[m] = NoMaintenance

OneUpdate == /\ OneAtATime /\ WorkerCopy /\ NoneIsBlank
             /\ \A a \in Request : HandlerCopy(a)

(* Whenever the worker acts, no request is under way, or the worker does   *)
(* what waits for none: it reads the configuration, delivers, or records   *)
(* the delivery.                                                           *)
Waits == \A a \in Request : handler[a].pc = "idle"
LEMMA WorkerAlone ==
    ASSUME Serialised, Types, OneUpdate, Worker
    PROVE  /\ handler' = handler
           /\ Waits \/ /\ Rests' /\ UNCHANGED <<st, maintenances, lastOK>>
<1>1. \/ ~Rests \/ Quiet
      \/ ReadConfig \/ PutNotified \/ DeliverNothing
      \/ \E success \in BOOLEAN : DeliverAlert(success)
  BY DEF Worker, FinishCheck, StepUp, StepRecovering, StepStillOffline,
         StepSuspect, StepOpen, StepInMaintenance, Step, PutWindow,
         PutIncident, SaveState, LoadToMark, LoadToDisable, SaveCopy,
         MayStart, Rests
<1>2. handler' = handler
  BY DEF Worker, ReadConfig, FinishCheck, StepUp, StepRecovering,
         StepStillOffline, StepSuspect, StepOpen, StepInMaintenance, Step,
         PutWindow, PutIncident, SaveState, DeliverAlert, DeliverNothing,
         PutNotified, LoadToMark, LoadToDisable, SaveCopy
<1>3. CASE ~Rests \/ Quiet
  BY <1>2, <1>3 DEF Waits, OneUpdate, OneAtATime, Quiet
<1>4. CASE ReadConfig
  BY <1>2, <1>4, ConfigHolds DEF ReadConfig, Rests, store, memory
<1>5. CASE PutNotified \/ DeliverNothing
  BY <1>2, <1>5, BareHolds
  DEF PutNotified, DeliverNothing, Rests, WorkerIdle, BarePlaces, store, memory
<1>6. ASSUME NEW success \in BOOLEAN, DeliverAlert(success)
      PROVE  Rests' /\ UNCHANGED <<st, maintenances, lastOK>>
  BY <1>6, DeliveryHolds DEF DeliverAlert, Rests, store, memory, OneUpdate
<1> QED
  BY <1>1, <1>2, <1>3, <1>4, <1>5, <1>6

(* ... and whenever a request acts, it is the only one, and the worker is  *)
(* between two of its updates.                                             *)
LEMMA HandlerAlone ==
    ASSUME Serialised, OneUpdate, NEW a \in Request, Handler(a)
    PROVE  /\ \A b \in Request : b # a => handler[b].pc = "idle"
           /\ Rests /\ worker' = worker
<1>1. handler[a].pc # "idle" \/ Quiet
  BY DEF Handler, StartMaintenance, LoadToEnter, ReadWindow, EndMaintenance,
         LoadToExit, SaveHandlerCopy, DelayMaintenance, ToggleMonitoring,
         ClearIncidents, Starts, At, MayStart
<1>2. worker' = worker
  BY DEF Handler, StartMaintenance, LoadToEnter, ReadWindow, EndMaintenance,
         LoadToExit, SaveHandlerCopy, DelayMaintenance, ToggleMonitoring,
         ClearIncidents
<1> QED
  BY <1>1, <1>2 DEF OneUpdate, OneAtATime, Quiet, Rests

(* What the worker copies is true when it has copied it, and it copies     *)
(* nothing while it writes.                                                *)
LEMMA WorkerCopyKept ==
    ASSUME Serialised, Types, OneUpdate, Worker
    PROVE  WorkerCopy'
<1> USE DEF store, memory, ghosts
<1>1. WorkerIdle.st = FreshState /\ WorkerIdle.pc = "idle"
  BY DEF WorkerIdle
<1>2. ASSUME NEW res \in Outcome, FinishCheck(res) PROVE WorkerCopy'
  BY <1>2, CheckedHolds DEF FinishCheck, WorkerCopy, OneUpdate
<1>3. ASSUME StepUp \/ StepRecovering \/ StepStillOffline \/ StepSuspect
             \/ StepInMaintenance
      PROVE  WorkerCopy'
  BY <1>3, StepHolds DEF StepHeld, WorkerCopy
<1>4. ASSUME NEW i \in IncidentID, StepOpen(i) PROVE WorkerCopy'
  BY <1>4, OpenHolds DEF WorkerCopy
<1>5. CASE PutWindow \/ PutIncident
  <2>1. PICK pc \in {"save", "put"} : worker' = [worker EXCEPT !.pc = pc]
    BY <1>5 DEF PutWindow, PutIncident
  <2> QED
    BY <1>5, <2>1, HoldsOn DEF WorkerCopy
<1>6. ASSUME worker' = WorkerIdle \/ worker' = [WorkerIdle EXCEPT !.pc = "mark"]
      PROVE  WorkerCopy'
  BY <1>1, <1>6, BareHolds DEF WorkerCopy, BarePlaces
<1>7. CASE SaveState
  <2>1. CASE worker.effect # "none"
    <3>1. worker.id \in IncidentID \cup {None}
          /\ worker.effect \in {"maintenance_recovery"} \cup Phase
      BY <2>1 DEF Types, TypeOK, WorkerStates
    <3>2. worker'.pc = "deliver" /\ worker'.st = FreshState
      BY <1>7, <2>1, <3>1, HoldsEffect DEF SaveState
    <3> QED
      BY <3>2 DEF WorkerCopy
  <2> QED
    BY <1>6, <1>7, <2>1 DEF SaveState
<1>8. ASSUME NEW success \in BOOLEAN, DeliverAlert(success) PROVE WorkerCopy'
  BY <1>8, DeliveryHolds DEF OneUpdate, WorkerCopy
<1>9. CASE DeliverNothing \/ PutNotified \/ SaveCopy
  BY <1>6, <1>9 DEF DeliverNothing, PutNotified, SaveCopy
<1>10. CASE LoadToMark \/ LoadToDisable
  <2>1. on' = on /\ st' = st
    BY <1>10 DEF LoadToMark, LoadToDisable
  <2> QED
    BY <1>1, <1>10, <2>1, LoadHolds DEF WorkerCopy, OneUpdate
<1>11. CASE ReadConfig
  BY <1>11, ConfigHolds DEF ReadConfig, WorkerCopy
<1> QED
  BY <1>2, <1>3, <1>4, <1>5, <1>7, <1>8, <1>9, <1>10, <1>11 DEF Worker

(* What a request copies is true until it saves it: nothing else changes   *)
(* the state, the records or the last result meanwhile.                    *)
LEMMA HandlerCopyKept ==
    ASSUME Serialised, Types, OneUpdate, NEW a \in Request, Handler(a)
    PROVE  HandlerCopy(a)' /\ NoneIsBlank'
<1> USE DEF store, memory, ghosts, At, Starts
<1>1. HandlerCopy(a) /\ NoneIsBlank /\ handler[a] \in HandlerStates
      /\ maintenances \in [MaintenanceID -> Maintenance]
  BY DEF OneUpdate, Types, TypeOK
<1>2. HandlerIdle.pc = "idle" /\ HandlerIdle.rec = NoMaintenance
  BY DEF HandlerIdle
<1>3. ASSUME NEW m \in MaintenanceID, NEW auto \in BOOLEAN,
             StartMaintenance(a, m, auto)
      PROVE  HandlerCopy(a)' /\ NoneIsBlank'
  <2>1. handler[a] = HandlerIdle
    BY <1>1, <1>3 DEF StartMaintenance, HandlerCopy
  <2>2. HandlerCopy(a)'
    BY <1>2, <1>3, <2>1, StartHolds DEF HandlerCopy, Entering
  <2>3. NoneIsBlank'
    BY <1>1, <1>3, StartHolds DEF NoneIsBlank
  <2> QED
    BY <2>2, <2>3
<1>4. CASE LoadToEnter(a)
  <2>1. EnterMaintenance(st, handler[a].id, lastOK) \in MonitorState
    BY StateTypes DEF Types, TypeOK, HandlerStates
  <2>2. /\ handler'[a].pc = "save" /\ handler'[a].id = handler[a].id
        /\ handler'[a].rec = handler[a].rec
        /\ handler'[a].st = EnterMaintenance(st, handler[a].id, lastOK)
    BY <1>4, <2>1, HandlerCopies DEF LoadToEnter
  <2> QED
    BY <1>1, <1>4, <2>2 DEF LoadToEnter, HandlerCopy, Entering, NoneIsBlank
<1>5. ASSUME NEW pc \in {"end", "delay"}, ReadWindow(a, pc)
      PROVE  HandlerCopy(a)' /\ NoneIsBlank'
  BY <1>1, <1>5, ReadHolds DEF ReadWindow, HandlerCopy, Reading, NoneIsBlank
<1>6. CASE EndMaintenance(a)
  <2>1. /\ handler'[a].pc = "exit" /\ handler'[a].id = handler[a].id
        /\ handler'[a].rec = handler[a].rec
    BY <1>6, HandlerGoesOn DEF EndMaintenance, HandlerPlaces
  <2>2. /\ Reading(a) /\ Ended(handler[a].rec).State = "ended"
    BY <1>1, <1>6
    DEF EndMaintenance, HandlerCopy, HandlerStates, Ended, Maintenance
  <2>3. /\ maintenances'[handler[a].id] = Ended(handler[a].rec)
        /\ \A n \in MaintenanceID \ {handler[a].id} :
              maintenances'[n] = maintenances[n]
    BY <1>1, <1>6, <2>2 DEF EndMaintenance, Reading
  <2> QED
    BY <1>1, <1>6, <2>1, <2>2, <2>3
    DEF EndMaintenance, HandlerCopy, Reading, NoneIsBlank
<1>7. CASE LoadToExit(a)
  <2>1. ExitMaintenance(st, lastOK) \in MonitorState
    BY StateTypes DEF Types, TypeOK
  <2>2. /\ handler'[a].pc = "save" /\ handler'[a].id = handler[a].id
        /\ handler'[a].rec = handler[a].rec
        /\ handler'[a].st = ExitMaintenance(st, lastOK)
    BY <1>7, <2>1, HandlerCopies DEF LoadToExit
  <2> QED
    BY <1>1, <1>7, <2>2 DEF LoadToExit, HandlerCopy, Reading, NoneIsBlank
<1>8. CASE SaveHandlerCopy(a)
  BY <1>1, <1>2, <1>8, IdleIs, HandlerMoves
  DEF SaveHandlerCopy, HandlerCopy, NoneIsBlank
<1>9. CASE DelayMaintenance(a)
  <2>1. maintenances' = maintenances
    BY <1>1, <1>9 DEF DelayMaintenance, HandlerCopy, Reading
  <2> QED
    BY <1>1, <1>2, <1>9, <2>1, IdleIs, HandlerMoves
    DEF DelayMaintenance, HandlerCopy, NoneIsBlank
<1>10. CASE ToggleMonitoring(a) \/ ClearIncidents(a)
  BY <1>1, <1>10
  DEF ToggleMonitoring, ClearIncidents, HandlerCopy, NoneIsBlank
<1> QED
  BY <1>3, <1>4, <1>5, <1>6, <1>7, <1>8, <1>9, <1>10 DEF Handler

(* The updates do not mix, and no copy grows stale.                        *)
LEMMA OneUpdateStep ==
    ASSUME Serialised, Types, OneUpdate, [Next]_vars
    PROVE  OneUpdate'
<1> USE DEF store, memory, ghosts
<1>1. CASE Worker
  <2>1. handler' = handler /\ WorkerCopy'
    BY <1>1, WorkerAlone, WorkerCopyKept
  <2>2. OneAtATime' /\ \A a \in Request : HandlerCopy(a)'
    <3>1. CASE Waits
      BY <2>1, <3>1 DEF Waits, OneAtATime, HandlerCopy, OneUpdate
    <3>2. CASE Rests' /\ UNCHANGED <<st, maintenances, lastOK>>
      BY <2>1, <3>2
      DEF OneAtATime, HandlerCopy, Entering, Reading, OneUpdate
    <3> QED
      BY <1>1, <3>1, <3>2, WorkerAlone
  <2>3. NoneIsBlank'
    <3>1. \/ maintenances' = maintenances
          \/ PutWindow
      BY <1>1
      DEF Worker, ReadConfig, FinishCheck, StepUp, StepRecovering,
          StepStillOffline, StepSuspect, StepOpen, StepInMaintenance, Step,
          PutIncident,
          SaveState, DeliverAlert, DeliverNothing, PutNotified, LoadToMark,
          LoadToDisable, SaveCopy
    <3>2. ASSUME PutWindow PROVE NoneIsBlank'
      BY <3>2
      DEF PutWindow, NoneIsBlank, OneUpdate, Types, TypeOK, Ended, Maintenance
    <3> QED
      BY <3>1, <3>2 DEF NoneIsBlank, OneUpdate
  <2> QED
    BY <2>1, <2>2, <2>3 DEF OneUpdate
<1>2. ASSUME NEW a \in Request, Handler(a) PROVE OneUpdate'
  <2>1. /\ \A b \in Request : b # a =>
              handler[b].pc = "idle" /\ handler'[b] = handler[b]
        /\ Rests /\ worker' = worker
    BY <1>2, HandlerAlone, HandlerOthers
  <2>2. OneAtATime' /\ \A b \in Request : b # a => HandlerCopy(b)'
    BY <2>1 DEF OneAtATime, HandlerCopy, OneUpdate, Rests
  <2>3. WorkerCopy'
    <3>1. worker.pc \in {"checking", "off"} => on' = on
      BY <1>2
      DEF Handler, StartMaintenance, LoadToEnter, ReadWindow, EndMaintenance,
          LoadToExit, SaveHandlerCopy, DelayMaintenance, ToggleMonitoring,
          ClearIncidents
    <3> QED
      BY <2>1, <3>1 DEF WorkerCopy, OneUpdate, Rests
  <2> QED
    BY <1>2, <2>2, <2>3, HandlerCopyKept DEF OneUpdate
<1>3. CASE StabilizationEnds \/ UNCHANGED vars
  BY <1>3 DEF StabilizationEnds, vars, OneUpdate, OneAtATime, WorkerCopy,
              NoneIsBlank, HandlerCopy, Entering, Reading, Rests
<1>4. CASE Crash \/ SaveFails
  <2>1. /\ worker' = WorkerIdle /\ maintenances' = maintenances
        /\ \A a \in Request : \/ handler'[a] = HandlerIdle
                              \/ worker.pc = "save" /\ handler'[a] = handler[a]
    BY <1>4 DEF Crash, SaveFails
  <2>2. /\ WorkerIdle.pc = "idle" /\ HandlerIdle.pc = "idle"
        /\ WorkerIdle.st = FreshState
    BY DEF WorkerIdle, HandlerIdle
  <2>3. \A a \in Request : handler'[a] = HandlerIdle
    BY <2>1 DEF OneUpdate, OneAtATime, Rests, HandlerCopy
  <2> QED
    BY <2>1, <2>2, <2>3
    DEF OneUpdate, OneAtATime, WorkerCopy, NoneIsBlank, HandlerCopy, Rests
<1> QED
  BY <1>1, <1>2, <1>3, <1>4 DEF Next

(* OneUpdate (docs/ARCHITECTURE.md:101): serialised, an update works on    *)
(* what is stored while it runs.                                           *)
THEOREM CopiesAreCurrent ==
    ASSUME Serialised
    PROVE  Spec => []OneUpdate
<1>1. Init => OneUpdate
  BY DEF Init, OneUpdate, OneAtATime, WorkerCopy, NoneIsBlank, HandlerCopy,
         Rests, WorkerIdle, HandlerIdle
<1>2. Types /\ OneUpdate /\ [Next]_vars => OneUpdate'
  BY OneUpdateStep
<1> QED
  BY <1>1, <1>2, SystemTypes, PTL DEF Spec

-------------------------------------------------------------------------------
(* What serialised updates give, crashes and failed saves included         *)

(* EndedStaysEnded (actions.go, handleMaintenanceDelay): the record of a   *)
(* window that a request writes back is the one that is stored, so none    *)
(* takes back an end.                                                      *)
THEOREM EndsAreFinal ==
    ASSUME Serialised
    PROVE  Spec => EndedStaysEnded
<1>1. ASSUME Types, OneUpdate, [Next]_vars, NEW m \in MaintenanceID,
             maintenances[m].State = "ended"
      PROVE  maintenances'[m].State = "ended"
  <2> USE <1>1 DEF store
  <2>1. /\ maintenances \in [MaintenanceID -> Maintenance]
        /\ handler \in [Request -> HandlerStates]
        /\ \A x \in Maintenance : Ended(x).State = "ended"
    BY DEF Types, TypeOK, Ended, Maintenance
  <2>2. CASE Worker
    <3>1. maintenances' = maintenances \/ PutWindow
      BY <2>2
      DEF Worker, ReadConfig, FinishCheck, StepUp, StepRecovering,
          StepStillOffline, StepSuspect, StepOpen, StepInMaintenance, Step,
          PutIncident,
          SaveState, DeliverAlert, DeliverNothing, PutNotified, LoadToMark,
          LoadToDisable, SaveCopy
    <3>2. CASE PutWindow
      BY <2>1, <3>2 DEF PutWindow
    <3> QED
      BY <1>1, <3>1, <3>2
  <2>3. ASSUME NEW a \in Request, Handler(a)
        PROVE  maintenances'[m].State = "ended"
    <3>1. ASSUME NEW n \in MaintenanceID, NEW auto \in BOOLEAN,
                 StartMaintenance(a, n, auto)
          PROVE  maintenances'[m].State = "ended"
      BY <2>1, <3>1 DEF StartMaintenance
    <3>2. CASE EndMaintenance(a)
      BY <2>1, <3>2 DEF EndMaintenance, HandlerStates
    <3>3. CASE DelayMaintenance(a)
      BY <2>1, <3>3 DEF DelayMaintenance, OneUpdate, HandlerCopy, At
    <3> QED
      BY <2>3, <3>1, <3>2, <3>3
      DEF Handler, LoadToEnter, ReadWindow, LoadToExit, SaveHandlerCopy,
          ToggleMonitoring, ClearIncidents
  <2>4. CASE StabilizationEnds \/ Crash \/ SaveFails \/ UNCHANGED vars
    BY <2>4 DEF StabilizationEnds, Crash, SaveFails, vars
  <2> QED
    BY <2>2, <2>3, <2>4 DEF Next
<1>2. Types /\ OneUpdate /\ [Next]_vars
        => [\A m \in MaintenanceID : maintenances[m].State = "ended"
               => maintenances'[m].State = "ended"]_vars
  BY <1>1
<1> QED
  BY <1>2, SystemTypes, CopiesAreCurrent, PTL DEF Spec, EndedStaysEnded

(* An incident whose recovery was announced is named by no state, stored   *)
(* or about to be; one whose recovery alert waits was not announced and is *)
(* named by none from the moment Step's copy is stored.                    *)
AnnouncedIsOver ==
    \A i \in IncidentID : sent["recovery"][i] > 0 =>
        st.ActiveIncidentID # i /\ worker.st.ActiveIncidentID # i
RecoveryDue ==
    worker.effect = "recovery" =>
        /\ worker.st.ActiveIncidentID # worker.id
        /\ worker.pc # "sent" => sent["recovery"][worker.id] = 0
        /\ worker.pc \in {"deliver", "sent"} => st.ActiveIncidentID # worker.id

RecoveryFits == RecoveryAlertOnce /\ AnnouncedIsOver /\ RecoveryDue

(* Nothing is sent, and nothing is taken into the hands but what is        *)
(* active or new.                                                          *)
LEMMA RecoveryKept ==
    ASSUME RecoveryFits, sent' = sent, RecoveryDue',
           \A i \in IncidentID : sent["recovery"][i] > 0 =>
              st'.ActiveIncidentID # i /\ worker'.st.ActiveIncidentID # i
    PROVE  RecoveryFits'
BY DEF RecoveryFits, RecoveryAlertOnce, AnnouncedIsOver

(* What was announced was issued: its outage had been announced before.    *)
LEMMA AnnouncedWasIssued ==
    ASSUME Types, AlertsFit, NEW i \in IncidentID, sent["recovery"][i] > 0
    PROVE  i \in issued
BY DEF AlertsFit, OutageAlertOnce, SentIssued

(* Each step of the worker.                                                *)
LEMMA WorkerRecovery ==
    ASSUME Serialised, Types, AlertsFit, OneUpdate, RecoveryFits, Worker
    PROVE  RecoveryFits'
<1> USE DEF store, memory, ghosts
<1>1. /\ \A i \in IncidentID : /\ FreshState.ActiveIncidentID # i
                               /\ sent["recovery"][i] \in 0..2
      /\ WorkerIdle.st = FreshState
      /\ st \in MonitorState /\ worker.st \in MonitorState
  BY NoneAssumption, IdleIs DEF WorkerIdle, Types, TypeOK, Phase, WorkerStates
<1>2. ASSUME worker'.effect = "none" PROVE RecoveryDue'
  BY <1>2 DEF RecoveryDue
<1>3. ASSUME NEW res \in Outcome, FinishCheck(res) PROVE RecoveryFits'
  BY <1>1, <1>2, <1>3, CheckedHolds, RecoveryKept
  DEF FinishCheck, RecoveryFits, AnnouncedIsOver
<1>4. ASSUME StepUp \/ StepRecovering \/ StepStillOffline \/ StepSuspect
             \/ StepInMaintenance
      PROVE  RecoveryFits'
  <2>1. Step /\ StepHeld
    BY <1>4, StepHolds DEF StepUp, StepRecovering, StepStillOffline,
                           StepSuspect, StepInMaintenance
  <2>2. RecoveryDue'
    <3>1. CASE worker'.effect = "recovery"
      <4>1. /\ worker'.id = st.ActiveIncidentID /\ worker'.id \in IncidentID
            /\ worker'.st.ActiveIncidentID = None /\ worker'.pc = "put"
            /\ sent' = sent
        BY <1>1, <2>1, <3>1, StepKeeps DEF StepHeld, MonitorState
      <4>2. sent["recovery"][worker'.id] = 0
        BY <1>1, <4>1 DEF RecoveryFits, AnnouncedIsOver
      <4> QED
        BY <4>1, <4>2, NoneAssumption DEF RecoveryDue
    <3> QED
      BY <3>1 DEF RecoveryDue
  <2>3. \A i \in IncidentID : sent["recovery"][i] > 0 =>
          st'.ActiveIncidentID # i /\ worker'.st.ActiveIncidentID # i
    BY <2>1, StepKeeps, NoneAssumption
    DEF StepHeld, RecoveryFits, AnnouncedIsOver
  <2> QED
    BY <2>1, <2>2, <2>3, StepKeeps, RecoveryKept
<1>5. ASSUME NEW i \in IncidentID, StepOpen(i) PROVE RecoveryFits'
  <2>1. Step
    BY <1>5 DEF StepOpen
  <2>2. \A j \in IncidentID : sent["recovery"][j] > 0 =>
          st'.ActiveIncidentID # j /\ worker'.st.ActiveIncidentID # j
    BY <1>5, <2>1, OpenHolds, StepKeeps, AnnouncedWasIssued
    DEF RecoveryFits, AnnouncedIsOver
  <2>3. RecoveryDue'
    BY <1>5, OpenHolds DEF RecoveryDue
  <2> QED
    BY <2>1, <2>2, <2>3, StepKeeps, RecoveryKept
<1>6. CASE PutWindow \/ PutIncident
  <2>1. PICK pc \in {"save", "put"} : worker' = [worker EXCEPT !.pc = pc]
    BY <1>6 DEF PutWindow, PutIncident
  <2>2. /\ worker'.pc = pc /\ worker'.st = worker.st /\ worker'.id = worker.id
        /\ worker'.effect = worker.effect /\ st' = st /\ sent' = sent
        /\ worker.pc # "sent" /\ pc \notin {"deliver", "sent"}
    BY <1>6, <2>1, HoldsOn DEF PutWindow, PutIncident
  <2>3. RecoveryFits'
    <3>1. RecoveryDue'
      BY <2>2 DEF RecoveryFits, RecoveryDue
    <3> QED
      BY <2>2, <3>1, RecoveryKept DEF RecoveryFits, AnnouncedIsOver
  <2> QED
    BY <2>3
<1>7. CASE SaveState
  <2>1. CASE worker.effect = "none"
    BY <1>1, <1>2, <1>7, <2>1, IdleHands, RecoveryKept
    DEF SaveState, RecoveryFits, AnnouncedIsOver
  <2>2. CASE worker.effect # "none"
    <3>1. worker.id \in IncidentID \cup {None}
          /\ worker.effect \in {"maintenance_recovery"} \cup Phase
      BY <2>2 DEF Types, TypeOK, WorkerStates
    <3>2. /\ worker'.pc = "deliver" /\ worker'.st = FreshState
          /\ worker'.id = worker.id /\ worker'.effect = worker.effect
      BY <1>7, <2>2, <3>1, HoldsEffect DEF SaveState
    <3>3. worker.effect = "recovery" => worker.id \in IncidentID
      BY DEF Types, WorkerFits, Phase
    <3>4. RecoveryDue'
      BY <1>1, <1>7, <3>2, <3>3 DEF SaveState, RecoveryFits, RecoveryDue
    <3> QED
      BY <1>1, <1>7, <3>2, <3>4, RecoveryKept
      DEF SaveState, RecoveryFits, AnnouncedIsOver
  <2> QED
    BY <2>1, <2>2
<1>8. ASSUME NEW success \in BOOLEAN, DeliverAlert(success) PROVE RecoveryFits'
  <2>1. /\ worker.pc = "deliver" /\ worker.effect \in Phase
        /\ worker.id \in IncidentID
        /\ worker'.pc = "sent" /\ worker'.st = worker.st
        /\ worker'.id = worker.id /\ worker'.effect = worker.effect
        /\ worker.st = FreshState /\ st' = st
    BY <1>8, DeliveryHolds DEF DeliverAlert, OneUpdate, WorkerCopy
  <2>2. \A i \in IncidentID :
          \/ sent'["recovery"][i] = sent["recovery"][i]
          \/ /\ worker.effect = "recovery" /\ i = worker.id
             /\ sent'["recovery"][i] = 1
    <3>1. sent \in [Phase -> [IncidentID -> 0..2]] /\ "outage" # "recovery"
      BY DEF Types, TypeOK
    <3>2. CASE success /\ worker.effect = "recovery"
      BY <1>8, <2>1, <3>1, <3>2
      DEF DeliverAlert, RecoveryFits, RecoveryDue, Phase
    <3>3. CASE success /\ worker.effect = "outage"
      BY <1>8, <2>1, <3>1, <3>3 DEF DeliverAlert, Phase
    <3>4. CASE ~success
      BY <1>8, <3>4 DEF DeliverAlert
    <3> QED
      BY <2>1, <3>2, <3>3, <3>4 DEF Phase
  <2>3. AnnouncedIsOver'
    BY <1>1, <2>1, <2>2 DEF RecoveryFits, RecoveryDue, AnnouncedIsOver
  <2>4. RecoveryDue'
    BY <2>1 DEF RecoveryFits, RecoveryDue
  <2>5. RecoveryAlertOnce'
    BY <1>1, <2>2 DEF RecoveryFits, RecoveryAlertOnce
  <2> QED
    BY <2>3, <2>4, <2>5 DEF RecoveryFits
<1>9. CASE DeliverNothing \/ PutNotified \/ SaveCopy \/ ReadConfig
  <2>1. /\ worker'.st = FreshState /\ worker'.effect = "none" /\ sent' = sent
        /\ st' \in {st, worker.st}
    BY <1>1, <1>9, IdleHands, BareHolds, ConfigHolds
    DEF DeliverNothing, PutNotified, SaveCopy, ReadConfig, BarePlaces
  <2> QED
    BY <1>1, <1>2, <2>1, RecoveryKept DEF RecoveryFits, AnnouncedIsOver
<1>10. CASE LoadToMark \/ LoadToDisable
  <2>1. /\ Disabled(st) \in MonitorState
        /\ Disabled(st).ActiveIncidentID = st.ActiveIncidentID
    BY <1>1, StateTypes, ActiveIs
  <2>2. /\ worker'.st \in {st, Disabled(st), FreshState}
        /\ worker'.effect = "none" /\ sent' = sent /\ st' = st
    BY <1>1, <1>10, LoadHolds DEF LoadToMark, LoadToDisable
  <2> QED
    BY <1>1, <1>2, <2>1, <2>2, RecoveryKept DEF RecoveryFits, AnnouncedIsOver
<1> QED
  BY <1>3, <1>4, <1>5, <1>6, <1>7, <1>8, <1>9, <1>10 DEF Worker

(* A request's copy names the incident that is active, so saving it brings *)
(* back none.                                                              *)
LEMMA HandlerRecovery ==
    ASSUME Serialised, Types, OneUpdate, RecoveryFits, NEW a \in Request,
           Handler(a)
    PROVE  RecoveryFits'
<1>1. worker' = worker /\ sent' = sent
  BY DEF Handler, StartMaintenance, LoadToEnter, ReadWindow, EndMaintenance,
         LoadToExit, SaveHandlerCopy, DelayMaintenance, ToggleMonitoring,
         ClearIncidents, store, ghosts
<1>2. st'.ActiveIncidentID = st.ActiveIncidentID
  <2>1. CASE SaveHandlerCopy(a)
    <3>1. st' \in {EnterMaintenance(st, handler[a].id, lastOK),
                   ExitMaintenance(st, lastOK)}
      BY <2>1 DEF SaveHandlerCopy, At, OneUpdate, HandlerCopy
    <3> QED
      BY <3>1, ActiveIs DEF Types, TypeOK
  <2> QED
    BY <2>1
    DEF Handler, StartMaintenance, LoadToEnter, ReadWindow, EndMaintenance,
        LoadToExit, DelayMaintenance, ToggleMonitoring, ClearIncidents, store
<1> QED
  BY <1>1, <1>2
  DEF RecoveryFits, RecoveryAlertOnce, AnnouncedIsOver, RecoveryDue

(* RecoveryAlertOnce (engine.go:143, INCIDENT-STATE-MACHINE.md:119): with  *)
(* the updates serialised a recovery is announced at most once per         *)
(* incident, wherever the process stops and whatever save fails.           *)
THEOREM RecoveryOnce ==
    ASSUME Serialised
    PROVE  Spec => []RecoveryAlertOnce
<1>1. Init => RecoveryFits
  BY DEF Init, RecoveryFits, RecoveryAlertOnce, AnnouncedIsOver, RecoveryDue,
         WorkerIdle, Phase
<1>2. Types /\ AlertsFit /\ OneUpdate /\ RecoveryFits /\ [Next]_vars
        => RecoveryFits'
  <2> SUFFICES ASSUME Types, AlertsFit, OneUpdate, RecoveryFits, [Next]_vars
               PROVE  RecoveryFits'
    OBVIOUS
  <2>1. CASE StabilizationEnds \/ UNCHANGED vars
    BY <2>1 DEF StabilizationEnds, vars, store, ghosts, RecoveryFits,
                RecoveryAlertOnce, AnnouncedIsOver, RecoveryDue
  <2>2. CASE Crash \/ SaveFails
    <3>1. worker' = WorkerIdle /\ st' = st /\ sent' = sent
      BY <2>2 DEF Crash, SaveFails, store
    <3>2. /\ worker'.effect = "none" /\ worker'.st = FreshState
          /\ \A i \in IncidentID : FreshState.ActiveIncidentID # i
      BY <3>1, NoneAssumption, IdleIs DEF WorkerIdle
    <3> QED
      BY <3>1, <3>2, RecoveryKept DEF RecoveryFits, AnnouncedIsOver, RecoveryDue
  <2> QED
    BY <2>1, <2>2, WorkerRecovery, HandlerRecovery DEF Next
<1>3. RecoveryFits => RecoveryAlertOnce
  BY DEF RecoveryFits
<1> QED
  BY <1>1, <1>2, <1>3, SystemTypes, AlertsAgree, CopiesAreCurrent, PTL DEF Spec
-------------------------------------------------------------------------------
(* Serialised and without faults, System implements Monitor: every step is *)
(* a step of Monitor on what it sees (SystemRefinement), or changes        *)
(* nothing that it sees.                                                   *)

(* The engine is the same in both, and of the settings it reads none that  *)
(* the switch changes.                                                     *)
LEMMA SameEngine ==
    ASSUME Types
    PROVE  /\ \A n : Mon!Bump(n) = Bump(n)
           /\ \A res : Mon!Succeeds(res) <=> Succeeds(res)
           /\ Mon!Result = Result /\ Mon!Phase = Phase
           /\ MonCfg.MonitoringOn = on
           /\ MonCfg.AutoOutageNotify = Settings.AutoOutageNotify
           /\ MonCfg.AutoRecoveryNotify = Settings.AutoRecoveryNotify
<1>1. Settings \in Config /\ on \in BOOLEAN
  BY SettingsAssumption DEF Types, TypeOK
<1>2. /\ MonCfg.MonitoringOn = on
      /\ MonCfg.AutoOutageNotify = Settings.AutoOutageNotify
      /\ MonCfg.AutoRecoveryNotify = Settings.AutoRecoveryNotify
  BY <1>1 DEF MonCfg, Config
<1> QED
  BY <1>2 DEF Mon!Bump, Bump, Mon!Succeeds, Succeeds, Mon!Result, Result,
              Mon!Phase, Phase

(* What the branches of Step make of the state.                            *)
LEMMA SameUpdates ==
    ASSUME Types
    PROVE  /\ \A s, res : /\ Mon!Healthy(s, MonCfg, res)
                               = Healthy(s, Settings, res)
                          /\ Mon!Recovering(s, MonCfg, res)
                               = Recovering(s, Settings, res)
           /\ \A s : /\ Mon!Recovered(s) = Recovered(s)
                     /\ Mon!StillOffline(s) = StillOffline(s)
                     /\ Mon!Suspect(s) = Suspect(s)
                     /\ Mon!MaintenanceUp(s) = MaintenanceUp(s)
                     /\ Mon!MaintenanceDown(s) = MaintenanceDown(s)
                     /\ Mon!MaintenanceFinished(s) = MaintenanceFinished(s)
                     /\ Mon!Disabled(s) = Disabled(s)
           /\ \A s, x : Mon!Offline(s, x) = Offline(s, x)
           /\ \A s, m, ok : Mon!EnterMaintenance(s, m, ok)
                              = EnterMaintenance(s, m, ok)
           /\ \A s, ok : Mon!ExitMaintenance(s, ok) = ExitMaintenance(s, ok)
<1>1. MonCfg.DegradedEnabled = Settings.DegradedEnabled
  BY SettingsAssumption DEF MonCfg, Config
<1>2. /\ \A s, res : Mon!Succeeded(s, MonCfg, res) = Succeeded(s, Settings, res)
      /\ \A s : Mon!Failed(s) = Failed(s)
  BY <1>1, SameEngine DEF Mon!Succeeded, Succeeded, Mon!Failed, Failed
<1>3. \A s, res : /\ Mon!Healthy(s, MonCfg, res) = Healthy(s, Settings, res)
                  /\ Mon!Recovering(s, MonCfg, res) = Recovering(s, Settings, res)
  BY <1>2, SameEngine DEF Mon!Healthy, Healthy, Mon!Recovering, Recovering
<1>4. \A s : /\ Mon!Recovered(s) = Recovered(s)
             /\ Mon!StillOffline(s) = StillOffline(s)
             /\ Mon!Suspect(s) = Suspect(s)
             /\ Mon!Disabled(s) = Disabled(s)
  BY <1>2 DEF Mon!Recovered, Recovered, Mon!StillOffline, StillOffline,
              Mon!Suspect, Suspect, Mon!Disabled, Disabled
<1>5. \A s : /\ Mon!MaintenanceUp(s) = MaintenanceUp(s)
             /\ Mon!MaintenanceDown(s) = MaintenanceDown(s)
             /\ Mon!MaintenanceFinished(s) = MaintenanceFinished(s)
  BY SameEngine
  DEF Mon!MaintenanceUp, MaintenanceUp, Mon!MaintenanceDown, MaintenanceDown,
      Mon!MaintenanceFinished, MaintenanceFinished
<1>6. /\ \A s, x : Mon!Offline(s, x) = Offline(s, x)
      /\ \A s, m, ok : Mon!EnterMaintenance(s, m, ok) = EnterMaintenance(s, m, ok)
      /\ \A s, ok : Mon!ExitMaintenance(s, ok) = ExitMaintenance(s, ok)
  BY DEF Mon!Offline, Offline, Mon!EnterMaintenance, EnterMaintenance,
         Mon!ExitMaintenance, ExitMaintenance
<1> QED
  BY <1>3, <1>4, <1>5, <1>6

(* What they decide, and what they make of the records.                    *)
LEMMA SameDecisions ==
    ASSUME Types
    PROVE  /\ \A s, still : /\ Mon!ConfirmsRecovery(s, MonCfg, still)
                                  <=> ConfirmsRecovery(s, Settings, still)
                            /\ Mon!ConfirmsOutage(s, MonCfg, still)
                                  <=> ConfirmsOutage(s, Settings, still)
           /\ \A s, m : Mon!FinishesMaintenance(s, m, MonCfg)
                          <=> FinishesMaintenance(s, m, Settings)
           /\ \A inc : /\ Mon!Closed(inc) = Closed(inc)
                       /\ Mon!Reopened(inc) = Reopened(inc)
                       /\ Mon!ClosedQuietly(inc) = ClosedQuietly(inc)
           /\ \A m : Mon!Ended(m) = Ended(m)
           /\ Mon!NewIncident = NewIncident /\ Mon!NoIncident = NoIncident
           /\ Mon!NoMaintenance = NoMaintenance
<1>1. /\ MonCfg.FailureThreshold = Settings.FailureThreshold
      /\ MonCfg.RecoveryThreshold = Settings.RecoveryThreshold
  BY SettingsAssumption DEF MonCfg, Config
<1> QED
  BY <1>1
  DEF Mon!ConfirmsRecovery, ConfirmsRecovery, Mon!ConfirmsOutage,
      ConfirmsOutage, Mon!FinishesMaintenance, FinishesMaintenance,
      Mon!Closed, Closed, Mon!Reopened, Reopened, Mon!ClosedQuietly,
      ClosedQuietly, Mon!Ended, Ended, Mon!NewIncident, NewIncident,
      Mon!NoIncident, NoIncident, Mon!NoMaintenance, NoMaintenance

(* What a step that changes nothing Monitor sees leaves as it was.         *)
Unseen ==
    UNCHANGED <<MonCfg, MonState, MonIncidents, MonMaintenances, MonLastOK,
                stabilizing, MonPending, issued, failureRun, successRun, sent>>

(* Nothing that Monitor sees changes in its stuttering steps.              *)
LEMMA UnseenIsStutter == Unseen => UNCHANGED Mon!vars
BY DEF Unseen, Mon!vars, Mon!store, Mon!memory, Mon!ghosts

(* What an invariant of System gives before a step and after it.           *)
Calm == Types /\ OneUpdate
Steps == Serialised /\ Calm /\ Calm'

(* Between two updates, and while the worker looks at a result, delivers   *)
(* or copies the state, Monitor sees the state that is stored.             *)
SeesStored ==
    /\ worker.pc \notin {"window", "put", "save"} => MonState = st
    /\ worker.pc \notin {"window", "put", "save", "deliver"}
         => MonPending = [kind |-> "none", id |-> None]
    /\ worker.pc \notin {"window", "put", "sent"} => MonIncidents = incidents
    /\ worker.pc # "checked" => MonLastOK = lastOK

(* While Step writes, it sees what Step will have written.                 *)
SeesWritten ==
    /\ worker.pc \in {"window", "put", "save"} => MonState = worker.st
    /\ worker.pc \in {"window", "put", "save", "deliver"} =>
         MonPending = [kind |-> worker.effect,
                       id |-> IF worker.effect \in Phase THEN worker.id ELSE None]
    /\ worker.pc \in {"window", "put", "sent"} =>
         MonIncidents = IF worker.id # None
                        THEN [incidents EXCEPT ![worker.id] = worker.inc]
                        ELSE incidents

(* Before a step as after it.                                              *)
LEMMA Sees == SeesStored /\ SeesStored' /\ SeesWritten /\ SeesWritten'
BY DEF SeesStored, SeesWritten, MonState, MonPending, MonIncidents, MonLastOK,
       Writing

(* The windows, as long as no request has started to write one ...         *)
SeesWindows ==
    (\A a \in Request : handler[a].pc \notin {"enter", "exit", "save"}) =>
        /\ worker.pc # "window" => MonMaintenances = maintenances
        /\ worker.pc = "window" =>
              MonMaintenances
                = [maintenances EXCEPT ![worker.window] = Ended(@)]

(* ... and while one writes, the window it writes is seen as it was        *)
(* before.                                                                 *)
SeesBefore ==
    \A a \in Request : handler[a].pc \in {"enter", "exit", "save"} =>
        MonMaintenances
          = [maintenances EXCEPT ![handler[a].id] = handler[a].rec]

(* It is the only request that has this window.                            *)
LEMMA WindowsSeen == Calm => SeesWindows /\ SeesBefore
<1> SUFFICES ASSUME Calm PROVE SeesWindows /\ SeesBefore
  OBVIOUS
<1>1. maintenances \in [MaintenanceID -> Maintenance]
  BY DEF Calm, Types, TypeOK
<1>2. SeesWindows
  BY <1>1 DEF SeesWindows, MonMaintenances
<1>3. ASSUME NEW a \in Request, handler[a].pc \in {"enter", "exit", "save"}
      PROVE  MonMaintenances
               = [maintenances EXCEPT ![handler[a].id] = handler[a].rec]
  <2>1. HandlerIdle.id = None
    BY DEF HandlerIdle
  <2>2. /\ handler[a].id \in MaintenanceID /\ worker.pc # "window"
        /\ \A b \in Request : handler[b].id = handler[a].id => b = a
    BY <1>3, <2>1, NoneAssumption
    DEF Calm, OneUpdate, OneAtATime, HandlerCopy, Entering, Reading, Rests
  <2>3. (CHOOSE b \in Request : handler[b].id = handler[a].id) = a
    BY <2>2
  <2>4. \A m \in MaintenanceID :
          MonMaintenances[m] = IF m = handler[a].id THEN handler[a].rec
                               ELSE maintenances[m]
    <3> TAKE m \in MaintenanceID
    <3>1. CASE m = handler[a].id
      BY <1>3, <2>3, <3>1 DEF MonMaintenances
    <3>2. CASE m # handler[a].id
      <4>1. \A b \in Request :
              handler[b].pc \in {"enter", "exit", "save"} => handler[b].id # m
        BY <1>3, <3>2 DEF Calm, OneUpdate, OneAtATime
      <4> QED
        BY <2>2, <3>2, <4>1 DEF MonMaintenances
    <3> QED
      BY <3>1, <3>2
  <2>5. MonMaintenances = [m \in MaintenanceID |-> MonMaintenances[m]]
    BY DEF MonMaintenances
  <2> QED
    BY <1>1, <2>2, <2>4, <2>5
<1> QED
  BY <1>2, <1>3 DEF SeesBefore

(* The same after a step.                                                  *)
LEMMA WindowsSeenNext == Calm' => SeesWindows' /\ SeesBefore'
BY WindowsSeen, PTL

(* A branch of Step is a check, in Monitor's view: it counts the result    *)
(* that is in force from now on.                                           *)
LEMMA StepChecks ==
    ASSUME Steps, Step, worker'.pc \in {"window", "put", "save"}
    PROVE  /\ Mon!Check(worker.res)
           /\ worker.res \in Result /\ st \in MonitorState
           /\ ~Succeeds(worker.res) => worker.res = "fail"
           /\ MonState = st /\ MonState' = worker'.st
           /\ MonIncidents = incidents /\ MonMaintenances = maintenances
           /\ MonPending = Mon!NoEffect
           /\ maintenances \in [MaintenanceID -> Maintenance]
           /\ incidents \in [IncidentID -> Incident]
<1>1. /\ worker.pc = "checked" /\ on /\ lastOK = Succeeds(worker.res)
      /\ Types /\ Types' /\ Calm
      /\ on' = on /\ lastOK' = lastOK /\ stabilizing' = stabilizing
      /\ handler' = handler
      /\ sent' = sent /\ maintenances' = maintenances
      /\ failureRun' = IF Succeeds(worker.res) THEN 0 ELSE Bump(failureRun)
      /\ successRun' = IF Succeeds(worker.res) THEN Bump(successRun) ELSE 0
  BY DEF Steps, Calm, OneUpdate, WorkerCopy, Step, store, memory
<1>2. \A a \in Request : handler[a].pc = "idle"
  BY <1>1 DEF Calm, OneUpdate, OneAtATime, Rests
<1>3. /\ MonPending = Mon!NoEffect /\ MonLastOK' = Succeeds(worker.res)
      /\ MonState = st /\ MonState' = worker'.st
      /\ MonIncidents = incidents
  BY <1>1, Sees DEF SeesStored, SeesWritten, Mon!NoEffect
<1>4. MonMaintenances = maintenances
  BY <1>1, <1>2, WindowsSeen DEF SeesWindows
<1>5. Mon!Check(worker.res)
  <2>1. MonCfg' = MonCfg
    BY <1>1 DEF MonCfg
  <2>2. MonLastOK' = Mon!Succeeds(worker.res)
    BY <1>3 DEF Mon!Succeeds, Succeeds
  <2>3. /\ MonCfg.MonitoringOn
        /\ failureRun' = IF Mon!Succeeds(worker.res) THEN 0
                         ELSE Mon!Bump(failureRun)
        /\ successRun' = IF Mon!Succeeds(worker.res)
                         THEN Mon!Bump(successRun) ELSE 0
    BY <1>1, SameEngine
  <2> QED
    BY <1>1, <1>3, <2>1, <2>2, <2>3 DEF Mon!Check
<1> QED
  BY <1>1, <1>3, <1>4, <1>5 DEF Types, TypeOK, WorkerStates, Result, Succeeds

(* When it writes no window, Monitor sees the windows that are stored.     *)
LEMMA WindowsStay ==
    ASSUME Steps, Step, worker'.pc \in {"put", "save"}
    PROVE  MonMaintenances' = MonMaintenances
<1>1. /\ worker.pc = "checked" /\ handler' = handler
      /\ maintenances' = maintenances /\ Calm /\ Calm'
  BY DEF Steps, Step, store
<1>2. \A a \in Request : handler[a].pc = "idle"
  BY <1>1 DEF Calm, OneUpdate, OneAtATime, Rests
<1> QED
  BY <1>1, <1>2, WindowsSeen, WindowsSeenNext DEF SeesWindows

(* It sees the state alone change ...                                      *)
LEMMA StateOnlySeen ==
    ASSUME Steps, Step, NEW t \in MonitorState, StateOnly(t)
    PROVE  /\ worker'.pc = "save" /\ MonState' = t
           /\ MonIncidents' = MonIncidents
           /\ MonMaintenances' = MonMaintenances /\ MonPending' = MonPending
<1>1. /\ worker'.pc = "save" /\ worker'.st = t /\ worker'.id = None
      /\ worker'.effect = "none"
  BY HoldsState DEF StateOnly
<1>2. worker.pc = "checked" /\ incidents' = incidents
  BY DEF Step, store
<1>3. "none" \notin Phase
  BY DEF Phase
<1> QED
  BY <1>1, <1>2, <1>3, Sees, WindowsStay DEF SeesStored, SeesWritten

(* ... or the state and the record of an incident.                         *)
LEMMA WithIncidentSeen ==
    ASSUME Steps, Step, NEW t \in MonitorState, NEW id \in IncidentID,
           NEW inc \in Incident, NEW effect \in {"none"} \cup Phase,
           WithIncident(t, id, inc, effect)
    PROVE  /\ worker'.pc = "put" /\ MonState' = t
           /\ MonIncidents' = [incidents EXCEPT ![id] = inc]
           /\ MonMaintenances' = MonMaintenances
           /\ MonPending' = IF effect = "none" THEN Mon!NoEffect
                            ELSE [kind |-> effect, id |-> id]
<1>1. /\ worker'.pc = "put" /\ worker'.st = t /\ worker'.id = id
      /\ worker'.inc = inc /\ worker'.effect = effect
  BY HoldsIncident
<1>2. incidents' = incidents /\ id # None
  BY NoneAssumption DEF Step, store
<1>3. "none" \notin Phase
  BY DEF Phase
<1> QED
  BY <1>1, <1>2, <1>3, Sees, WindowsStay DEF SeesWritten, Mon!NoEffect

(* Each branch is the action of Monitor of its own.                        *)
LEMMA StepUpIs ==
    ASSUME Steps, StepUp
    PROVE  Mon!Next
<1>1. Step /\ st \in MonitorState /\ worker.res \in Result
  BY DEF StepUp, Steps, Calm, Types, TypeOK, WorkerStates
<1>2. Healthy(st, Settings, worker.res) \in MonitorState
  BY <1>1, StateTypes
<1>3. Mon!CheckUp(worker.res)
  BY <1>1, <1>2, StepChecks, StateOnlySeen, SameEngine, SameUpdates
  DEF StepUp, Found, Steps, Calm, Mon!CheckUp, Mon!InMaintenance, Mon!HasIncident
<1> QED
  BY <1>1, <1>3, SameEngine DEF Mon!Next, Mon!Tick, Steps, Calm

(* A success of an incident that goes on, that ends, or whose record was   *)
(* cleared.                                                                *)
LEMMA StepRecoveringIs ==
    ASSUME Steps, StepRecovering
    PROVE  Mon!Next
<1>1. /\ Step /\ st \in MonitorState /\ worker.res \in Result /\ Types
      /\ Succeeds(worker.res) /\ st.ActiveMaintenanceID = None
      /\ st.ActiveIncidentID # None /\ st.ActiveIncidentID \in IncidentID
      /\ incidents \in [IncidentID -> Incident] /\ issued' = issued
  BY DEF StepRecovering, Found, Steps, Calm, Types, TypeOK, WorkerStates,
         MonitorState
<1> DEFINE t == Recovering(st, Settings, worker.res)
<1>2. /\ t \in MonitorState /\ Recovered(t) \in MonitorState
      /\ Mon!Recovering(st, MonCfg, worker.res) = t
      /\ Mon!Recovered(t) = Recovered(t)
  BY <1>1, StateTypes, SameUpdates
<1>3. \/ ~ConfirmsRecovery(t, Settings, stabilizing) /\ StateOnly(t)
      \/ /\ ConfirmsRecovery(t, Settings, stabilizing)
         /\ ~Record.Stored /\ StateOnly(Recovered(t))
      \/ /\ ConfirmsRecovery(t, Settings, stabilizing) /\ Record.Stored
         /\ WithIncident(Recovered(t), st.ActiveIncidentID, Closed(Record),
                IF Settings.AutoRecoveryNotify /\ Record.OutageNotified
                THEN "recovery" ELSE "none")
  BY DEF StepRecovering
<1> HIDE DEF t
<1> USE <1>1, <1>2 DEF Mon!InMaintenance, Mon!HasIncident, Mon!Active, Record
<1>4. CASE ~ConfirmsRecovery(t, Settings, stabilizing) /\ StateOnly(t)
  <2>1. Mon!CheckRecovering(worker.res)
    BY <1>4, StepChecks, StateOnlySeen, SameEngine, SameDecisions
    DEF Mon!CheckRecovering
  <2> QED
    BY <2>1, SameEngine DEF Mon!Next, Mon!Tick
<1>5. CASE /\ ConfirmsRecovery(t, Settings, stabilizing)
           /\ ~Record.Stored /\ StateOnly(Recovered(t))
  <2>1. Mon!DropIncident(worker.res)
    BY <1>5, StepChecks, StateOnlySeen, SameEngine, SameDecisions
    DEF Mon!DropIncident
  <2> QED
    BY <2>1, SameEngine DEF Mon!Next, Mon!Tick
<1>6. CASE /\ ConfirmsRecovery(t, Settings, stabilizing) /\ Record.Stored
           /\ WithIncident(Recovered(t), st.ActiveIncidentID, Closed(Record),
                  IF Settings.AutoRecoveryNotify /\ Record.OutageNotified
                  THEN "recovery" ELSE "none")
  <2> DEFINE told == Settings.AutoRecoveryNotify /\ Record.OutageNotified
             effect == IF told THEN "recovery" ELSE "none"
  <2>1. Closed(Record) \in Incident /\ effect \in {"none"} \cup Phase
        /\ WithIncident(Recovered(t), st.ActiveIncidentID, Closed(Record), effect)
    BY <1>6, IncidentIs DEF Phase
  <2> HIDE DEF effect
  <2>2. /\ worker'.pc = "put" /\ MonState' = Recovered(t)
        /\ MonIncidents' = [incidents EXCEPT ![st.ActiveIncidentID] = Closed(Record)]
        /\ MonMaintenances' = MonMaintenances
        /\ MonPending' = IF effect = "none" THEN Mon!NoEffect
                         ELSE [kind |-> effect, id |-> st.ActiveIncidentID]
    BY <2>1, WithIncidentSeen
  <2>3. MonPending' = IF told THEN [kind |-> "recovery", id |-> st.ActiveIncidentID]
                      ELSE Mon!NoEffect
    BY <2>2 DEF effect
  <2>4. Mon!CloseIncident(worker.res)
    BY <1>6, <2>2, <2>3, StepChecks, SameEngine, SameDecisions
    DEF Mon!CloseIncident
  <2> QED
    BY <2>4, SameEngine DEF Mon!Next, Mon!Tick
<1> QED
  BY <1>3, <1>4, <1>5, <1>6

(* A failure of an outage that is confirmed, or of one that is not yet.    *)
LEMMA StepFailingIs ==
    ASSUME Steps, StepStillOffline \/ StepSuspect
    PROVE  Mon!Next
<1>1. /\ Step /\ st \in MonitorState /\ Types /\ worker.res \in Result
      /\ ~Succeeds(worker.res) /\ st.ActiveMaintenanceID = None
      /\ st.ActiveIncidentID \in IncidentID \cup {None}
      /\ incidents \in [IncidentID -> Incident] /\ issued' = issued
  BY DEF StepStillOffline, StepSuspect, Steps, Calm, Types, TypeOK,
         WorkerStates, MonitorState
<1>2. /\ StillOffline(st) \in MonitorState /\ Suspect(st) \in MonitorState
      /\ Mon!StillOffline(st) = StillOffline(st)
      /\ Mon!Suspect(st) = Suspect(st)
  BY <1>1, StateTypes, SameUpdates
<1> USE <1>1, <1>2 DEF Mon!InMaintenance, Mon!HasIncident, Mon!Active, Record,
                       Found
<1>3. CASE StepSuspect
  <2>1. Mon!CheckSuspect
    BY <1>3, StepChecks, StateOnlySeen, SameEngine, SameDecisions
    DEF Mon!CheckSuspect, StepSuspect
  <2> QED
    BY <2>1 DEF Mon!Next, Mon!Tick
<1>4. CASE StepStillOffline
  <2>1. CASE Record.Stored
    <3>1. /\ Reopened(Record) \in Incident /\ st.ActiveIncidentID \in IncidentID
          /\ WithIncident(StillOffline(st), st.ActiveIncidentID,
                          Reopened(Record), "none")
      BY <1>4, <2>1, IncidentIs DEF StepStillOffline
    <3>2. /\ worker'.pc = "put" /\ MonState' = StillOffline(st)
          /\ MonIncidents' = [incidents EXCEPT ![st.ActiveIncidentID]
                                                  = Reopened(Record)]
          /\ MonMaintenances' = MonMaintenances
          /\ MonPending' = Mon!NoEffect
      BY <3>1, WithIncidentSeen
    <3>3. Mon!CheckStillOffline
      BY <1>4, <2>1, <3>2, StepChecks, SameEngine, SameDecisions
      DEF Mon!CheckStillOffline, StepStillOffline
    <3> QED
      BY <3>3 DEF Mon!Next, Mon!Tick
  <2>2. CASE ~Record.Stored
    <3>1. Mon!CheckStillOffline
      BY <1>4, <2>2, StepChecks, StateOnlySeen, SameEngine, SameDecisions
      DEF Mon!CheckStillOffline, StepStillOffline
    <3> QED
      BY <3>1 DEF Mon!Next, Mon!Tick
  <2> QED
    BY <2>1, <2>2
<1> QED
  BY <1>3, <1>4

(* The failure that confirms the outage.                                   *)
LEMMA StepOpenIs ==
    ASSUME Steps, NEW i \in IncidentID, StepOpen(i)
    PROVE  Mon!Next
<1>1. /\ Step /\ st \in MonitorState /\ Types /\ worker.res \in Result
      /\ ~Succeeds(worker.res) /\ st.ActiveMaintenanceID = None
      /\ st.ActiveIncidentID = None
      /\ ConfirmsOutage(Suspect(st), Settings, stabilizing)
      /\ i \notin issued /\ issued' = issued \cup {i}
  BY DEF StepOpen, IsNewID, Found, Steps, Calm, Types, TypeOK, WorkerStates
<1>2. /\ Suspect(st) \in MonitorState
      /\ Mon!Suspect(st) = Suspect(st)
      /\ Mon!Offline(Suspect(st), i) = Offline(Suspect(st), i)
  BY <1>1, StateTypes, SameUpdates
<1> DEFINE effect == IF Settings.AutoOutageNotify THEN "outage" ELSE "none"
<1>3. /\ Offline(Suspect(st), i) \in MonitorState /\ NewIncident \in Incident
      /\ effect \in {"none"} \cup Phase
      /\ WithIncident(Offline(Suspect(st), i), i, NewIncident, effect)
  BY <1>2, StateTypes, IncidentIs DEF StepOpen, Phase, NewIncident, Incident
<1> HIDE DEF effect
<1>4. /\ worker'.pc = "put" /\ MonState' = Offline(Suspect(st), i)
      /\ MonIncidents' = [incidents EXCEPT ![i] = NewIncident]
      /\ MonMaintenances' = MonMaintenances
      /\ MonPending' = IF effect = "none" THEN Mon!NoEffect
                       ELSE [kind |-> effect, id |-> i]
  BY <1>1, <1>3, WithIncidentSeen
<1>5. MonPending' = IF Settings.AutoOutageNotify
                    THEN [kind |-> "outage", id |-> i] ELSE Mon!NoEffect
  BY <1>4 DEF effect
<1>6. Mon!OpenIncident(i)
  BY <1>1, <1>2, <1>4, <1>5, StepChecks, SameEngine, SameDecisions
  DEF Mon!OpenIncident, Mon!InMaintenance, Mon!HasIncident
<1> QED
  BY <1>6 DEF Mon!Next, Mon!Tick

(* A check inside a window, the one that ends it included.                 *)
LEMMA StepInMaintenanceIs ==
    ASSUME Steps, StepInMaintenance
    PROVE  Mon!Next
<1> DEFINE up == MaintenanceUp(st)
           m == st.ActiveMaintenanceID
           id == IF Found /\ Record.Stored THEN st.ActiveIncidentID ELSE None
           inc == IF Found /\ Record.Stored THEN ClosedQuietly(Record)
                  ELSE NoIncident
<1>1. /\ Step /\ st \in MonitorState /\ Types /\ worker.res \in Result
      /\ m \in MaintenanceID /\ m # None /\ issued' = issued
      /\ st.ActiveIncidentID \in IncidentID \cup {None}
      /\ incidents \in [IncidentID -> Incident]
      /\ maintenances \in [MaintenanceID -> Maintenance]
  BY NoneAssumption DEF StepInMaintenance, Steps, Calm, Types, TypeOK,
                        WorkerStates, MonitorState
<1>2. /\ up \in MonitorState /\ MaintenanceDown(st) \in MonitorState
      /\ MaintenanceFinished(up) \in MonitorState
      /\ Mon!MaintenanceUp(st) = up
      /\ Mon!MaintenanceDown(st) = MaintenanceDown(st)
      /\ Mon!MaintenanceFinished(up) = MaintenanceFinished(up)
  BY <1>1, StateTypes, SameUpdates
<1> DEFINE finishes == FinishesMaintenance(up, maintenances[m], Settings)
<1>3. \/ ~Succeeds(worker.res) /\ StateOnly(MaintenanceDown(st))
      \/ Succeeds(worker.res) /\ ~finishes /\ StateOnly(up)
      \/ /\ Succeeds(worker.res) /\ finishes
         /\ worker' = [WorkerIdle EXCEPT
                         !.pc = "window", !.st = MaintenanceFinished(up),
                         !.window = m, !.effect = "maintenance_recovery",
                         !.id = id, !.inc = inc]
  BY DEF StepInMaintenance
<1>4. id \in IncidentID \cup {None} /\ inc \in Incident
  BY <1>1, IncidentIs, IdleIs DEF Found, Record
<1>5. finishes <=> Mon!FinishesMaintenance(up, maintenances[m], MonCfg)
  BY <1>1, SameDecisions
<1> HIDE DEF up, finishes, id, inc
<1> USE <1>1, <1>2, <1>5 DEF Mon!InMaintenance, Mon!Window
<1>6. CASE ~Succeeds(worker.res) /\ StateOnly(MaintenanceDown(st))
  <2>1. Mon!CheckDownInMaintenance
    BY <1>6, StepChecks, StateOnlySeen DEF Mon!CheckDownInMaintenance
  <2> QED
    BY <2>1 DEF Mon!Next, Mon!Tick
<1>7. CASE Succeeds(worker.res) /\ ~finishes /\ StateOnly(up)
  <2>1. Mon!CheckUpInMaintenance(worker.res)
    BY <1>7, StepChecks, StateOnlySeen, SameEngine DEF Mon!CheckUpInMaintenance
  <2> QED
    BY <2>1, SameEngine DEF Mon!Next, Mon!Tick
<1>8. CASE /\ Succeeds(worker.res) /\ finishes
           /\ worker' = [WorkerIdle EXCEPT
                           !.pc = "window", !.st = MaintenanceFinished(up),
                           !.window = m, !.effect = "maintenance_recovery",
                           !.id = id, !.inc = inc]
  <2>1. /\ worker'.pc = "window" /\ worker'.st = MaintenanceFinished(up)
        /\ worker'.window = m /\ worker'.effect = "maintenance_recovery"
        /\ worker'.id = id /\ worker'.inc = inc
    BY <1>4, <1>8 DEF WorkerIdle
  <2>2. /\ worker.pc = "checked" /\ handler' = handler
        /\ incidents' = incidents /\ maintenances' = maintenances
        /\ \A a \in Request : handler[a].pc = "idle"
        /\ Calm /\ Calm'
    BY DEF Step, store, Steps, Calm, OneUpdate, OneAtATime, Rests
  <2>3. MonMaintenances' = [maintenances EXCEPT ![m] = Mon!Ended(@)]
    <3>1. MonMaintenances' = [maintenances EXCEPT ![m].State = "ended"]
      BY <2>1, <2>2, WindowsSeenNext DEF SeesWindows, Ended
    <3> QED
      BY <3>1 DEF Mon!Ended
  <2>4. MonPending' = [kind |-> "maintenance_recovery", id |-> None]
    BY <2>1, Sees DEF SeesWritten, Phase
  <2>5. MonIncidents' = IF id # None THEN [incidents EXCEPT ![id] = inc]
                        ELSE incidents
    BY <2>1, <2>2, Sees DEF SeesWritten
  <2>6. MonIncidents' = IF st.ActiveIncidentID # None
                           /\ incidents[st.ActiveIncidentID].Stored
                        THEN [incidents EXCEPT ![st.ActiveIncidentID]
                                                  = Mon!ClosedQuietly(@)]
                        ELSE incidents
    BY <2>5, SameDecisions DEF id, inc, Found, Record
  <2>7. Mon!FinishMaintenance(worker.res)
    BY <1>8, <2>1, <2>3, <2>4, <2>6, StepChecks, SameEngine
    DEF Mon!FinishMaintenance, Mon!HasIncident, Mon!Active
  <2> QED
    BY <2>7, SameEngine DEF Mon!Next, Mon!Tick
<1> QED
  BY <1>3, <1>6, <1>7, <1>8

(* What is not a window or a request leaves the windows as they are seen.  *)
LEMMA SameWindows ==
    ASSUME handler' = handler, maintenances' = maintenances,
           worker.pc # "window", worker'.pc # "window"
    PROVE  MonMaintenances' = MonMaintenances
BY DEF MonMaintenances

(* The result that is in force until Step has run, the copy of the state   *)
(* that is about to be changed: nothing is seen of them.                   *)
LEMMA LoadsUnseen ==
    ASSUME Steps, \/ ReadConfig \/ \E res \in Outcome : FinishCheck(res)
                  \/ LoadToMark \/ LoadToDisable
    PROVE  Unseen
<1> USE DEF store, memory, ghosts
<1>1. /\ UNCHANGED <<on, st, incidents, maintenances, stabilizing, handler,
                     issued, failureRun, successRun, sent>>
      /\ worker.pc \in {"idle", "checking", "off", "mark"}
  BY DEF ReadConfig, FinishCheck, LoadToMark, LoadToDisable
<1>2. /\ worker'.pc \in {"idle", "checking", "off", "checked", "marking",
                         "disabling"}
      /\ IF worker'.pc = "checked" THEN worker'.was = lastOK
         ELSE lastOK' = lastOK
  <2>1. CASE \E res \in Outcome : FinishCheck(res)
    BY <2>1 DEF FinishCheck, WorkerIdle
  <2>2. CASE LoadToMark \/ LoadToDisable
    BY <2>2, LoadHolds DEF LoadToMark, LoadToDisable, Steps, Calm
  <2>3. CASE ReadConfig
    BY <2>3, ConfigHolds DEF ReadConfig
  <2> QED
    BY <2>1, <2>2, <2>3
<1>3. MonLastOK' = MonLastOK /\ MonCfg' = MonCfg
  BY <1>1, <1>2 DEF MonLastOK, MonCfg
<1>4. MonMaintenances' = MonMaintenances
  BY <1>1, <1>2, SameWindows
<1>5. /\ MonState' = MonState /\ MonIncidents' = MonIncidents
      /\ MonPending' = MonPending
  BY <1>1, <1>2, Sees DEF SeesStored
<1> QED
  BY <1>1, <1>3, <1>4, <1>5 DEF Unseen

(* Monitor has seen Step's writes already when they are made.              *)
LEMMA PutWindowUnseen ==
    ASSUME Steps, PutWindow
    PROVE  Unseen
<1>1. PICK pc \in {"save", "put"} :
        /\ worker' = [worker EXCEPT !.pc = pc]
        /\ pc = IF worker.id = None THEN "save" ELSE "put"
  BY DEF PutWindow
<1>2. /\ UNCHANGED <<on, st, incidents, lastOK, stabilizing, handler, issued,
                     failureRun, successRun, sent>>
      /\ worker.pc = "window" /\ Types /\ Calm /\ Calm'
      /\ maintenances' = [maintenances EXCEPT ![worker.window] = Ended(@)]
      /\ \A a \in Request : handler[a].pc = "idle"
  BY DEF PutWindow, memory, ghosts, Steps, Calm, OneUpdate, OneAtATime, Rests
<1>3. /\ worker'.pc = pc /\ worker'.st = worker.st /\ worker'.id = worker.id
      /\ worker'.inc = worker.inc /\ worker'.effect = worker.effect
  BY <1>1, <1>2, HoldsOn
<1>4. /\ MonState' = MonState /\ MonIncidents' = MonIncidents
      /\ MonPending' = MonPending /\ MonLastOK' = MonLastOK
  BY <1>1, <1>2, <1>3, Sees DEF SeesStored, SeesWritten
<1>5. MonMaintenances' = MonMaintenances
  BY <1>1, <1>2, <1>3, WindowsSeen, WindowsSeenNext DEF SeesWindows
<1> QED
  BY <1>2, <1>4, <1>5 DEF Unseen, MonCfg

(* The record of the incident.                                             *)
LEMMA PutIncidentUnseen ==
    ASSUME Steps, PutIncident
    PROVE  Unseen
<1>1. /\ UNCHANGED <<on, st, maintenances, lastOK, stabilizing, handler, issued,
                     failureRun, successRun, sent>>
      /\ worker.pc = "put" /\ Types /\ worker.id # None
      /\ worker' = [worker EXCEPT !.pc = "save"]
      /\ incidents' = [incidents EXCEPT ![worker.id] = worker.inc]
  BY NoneAssumption
  DEF PutIncident, memory, ghosts, Steps, Calm, Types, WorkerFits
<1>2. /\ worker'.pc = "save" /\ worker'.st = worker.st
      /\ worker'.id = worker.id /\ worker'.effect = worker.effect
  BY <1>1, HoldsOn
<1>3. /\ MonState' = MonState /\ MonIncidents' = MonIncidents
      /\ MonPending' = MonPending /\ MonLastOK' = MonLastOK
  BY <1>1, <1>2, Sees DEF SeesStored, SeesWritten
<1> QED
  BY <1>1, <1>2, <1>3, SameWindows DEF Unseen, MonCfg

(* The state.                                                              *)
LEMMA SaveStateUnseen ==
    ASSUME Steps, SaveState
    PROVE  Unseen
<1>1. /\ UNCHANGED <<on, incidents, maintenances, lastOK, stabilizing, handler,
                     issued, failureRun, successRun, sent>>
      /\ worker.pc = "save" /\ st' = worker.st
      /\ worker.id \in IncidentID \cup {None}
      /\ worker.effect \in {"none", "maintenance_recovery"} \cup Phase
  BY DEF SaveState, memory, ghosts, Steps, Calm, Types, TypeOK, WorkerStates
<1>2. \/ worker'.pc = "idle" /\ worker.effect = "none"
      \/ /\ worker'.pc = "deliver" /\ worker'.id = worker.id
         /\ worker'.effect = worker.effect
  BY <1>1, HoldsEffect DEF SaveState, WorkerIdle
<1>3. "none" \notin Phase
  BY DEF Phase
<1>4. /\ MonState' = MonState /\ MonIncidents' = MonIncidents
      /\ MonPending' = MonPending /\ MonLastOK' = MonLastOK
  BY <1>1, <1>2, <1>3, Sees DEF SeesStored, SeesWritten
<1> QED
  BY <1>1, <1>2, <1>4, SameWindows DEF Unseen, MonCfg

(* And the delivery's.                                                     *)
LEMMA PutNotifiedUnseen ==
    ASSUME Steps, PutNotified
    PROVE  Unseen
<1>1. /\ UNCHANGED <<on, st, maintenances, lastOK, stabilizing, handler,
                     issued, failureRun, successRun, sent>>
      /\ worker.pc = "sent" /\ worker.id # None
      /\ incidents' = [incidents EXCEPT ![worker.id] = worker.inc]
  BY NoneAssumption
  DEF PutNotified, memory, ghosts, Steps, Calm, Types, WorkerFits
<1>2. worker'.pc \in {"idle", "mark"}
  BY BareHolds DEF PutNotified, WorkerIdle, BarePlaces
<1>3. /\ MonState' = MonState /\ MonIncidents' = MonIncidents
      /\ MonPending' = MonPending /\ MonLastOK' = MonLastOK
  BY <1>1, <1>2, Sees DEF SeesStored, SeesWritten
<1> QED
  BY <1>1, <1>2, <1>3, SameWindows DEF Unseen, MonCfg

(* A copy that was marked is the state itself; the one that was disabled   *)
(* is Monitor's TickDisabled.                                              *)
LEMMA SaveCopyIs ==
    ASSUME Steps, SaveCopy
    PROVE  Unseen \/ Mon!Next
<1>1. /\ UNCHANGED <<on, incidents, maintenances, lastOK, stabilizing, handler,
                     issued, failureRun, successRun, sent>>
      /\ worker.pc \in {"marking", "disabling"} /\ st' = worker.st
      /\ worker' = WorkerIdle /\ Types
      /\ worker.pc = "marking" => worker.st = st
      /\ worker.pc = "disabling" =>
            worker.st = Disabled(st) /\ ~on /\ st.ActiveMaintenanceID = None
  BY DEF SaveCopy, memory, ghosts, Steps, Calm, OneUpdate, WorkerCopy
<1>2. worker'.pc = "idle"
  BY <1>1 DEF WorkerIdle
<1>3. /\ MonState = st /\ MonState' = worker.st
      /\ MonIncidents' = MonIncidents
      /\ MonPending' = MonPending /\ MonPending = Mon!NoEffect
      /\ MonLastOK' = MonLastOK
  BY <1>1, <1>2, Sees DEF SeesStored, Mon!NoEffect
<1>4. MonCfg' = MonCfg /\ MonMaintenances' = MonMaintenances
  BY <1>1, <1>2, SameWindows DEF MonCfg
<1>5. CASE worker.pc = "marking"
  BY <1>1, <1>3, <1>4, <1>5 DEF Unseen
<1>6. CASE worker.pc = "disabling"
  <2>1. Mon!TickDisabled
    BY <1>1, <1>3, <1>4, <1>6, SameEngine, SameUpdates
    DEF Mon!TickDisabled, Mon!InMaintenance, Mon!memory, Mon!ghosts
  <2> QED
    BY <2>1 DEF Mon!Next
<1> QED
  BY <1>1, <1>5, <1>6

(* A delivery is one of Monitor, which records it at once.                 *)
LEMMA DeliverAlertIs ==
    ASSUME Steps, NEW success \in BOOLEAN, DeliverAlert(success)
    PROVE  Mon!Next
<1>1. /\ UNCHANGED <<on, st, incidents, maintenances, lastOK, stabilizing,
                     handler, issued, failureRun, successRun>>
      /\ worker.pc = "deliver" /\ worker.effect \in Phase /\ Types
      /\ worker.id \in IncidentID /\ worker.id # None
      /\ incidents[worker.id].Stored
      /\ incidents \in [IncidentID -> Incident]
  BY NoneAssumption
  DEF DeliverAlert, store, memory, Steps, Calm, Types, TypeOK, WorkerFits
<1> DEFINE inc == IF worker.effect = "outage"
                  THEN [incidents[worker.id] EXCEPT !.OutageNotified = success]
                  ELSE [incidents[worker.id] EXCEPT !.RecoveryNotified = success]
<1>2. worker'.pc = "sent" /\ worker'.id = worker.id /\ worker'.inc = inc
  BY <1>1 DEF DeliverAlert, Types, TypeOK, WorkerStates
<1>3. /\ MonState' = MonState /\ MonLastOK' = MonLastOK
      /\ MonIncidents = incidents
      /\ MonIncidents' = [incidents EXCEPT ![worker.id] = inc]
      /\ MonPending = [kind |-> worker.effect, id |-> worker.id]
      /\ MonPending' = Mon!NoEffect
  BY <1>1, <1>2, Sees DEF SeesStored, SeesWritten, Mon!NoEffect
<1>4. MonCfg' = MonCfg /\ MonMaintenances' = MonMaintenances
  BY <1>1, <1>2, SameWindows DEF MonCfg
<1>5. MonIncidents' =
        [MonIncidents EXCEPT ![worker.id] =
            IF worker.effect = "outage"
            THEN [@ EXCEPT !.OutageNotified = success]
            ELSE [@ EXCEPT !.RecoveryNotified = success]]
  BY <1>3
<1>6. MonPending.kind = worker.effect /\ MonPending.id = worker.id
  BY <1>3
<1>7. Mon!DeliverAlert(success)
  BY <1>1, <1>3, <1>4, <1>5, <1>6, SameEngine DEF Mon!DeliverAlert, DeliverAlert
<1> QED
  BY <1>7 DEF Mon!Next, Mon!Deliver

(* So is one that delivers nothing or changes no record.                   *)
LEMMA DeliverNothingIs ==
    ASSUME Steps, DeliverNothing
    PROVE  Mon!Next
<1>1. /\ UNCHANGED <<on, st, incidents, maintenances, lastOK, stabilizing,
                     handler, issued, failureRun, successRun, sent>>
      /\ worker.pc = "deliver" /\ Types
      /\ worker.effect \in {"maintenance_recovery"} \cup Phase
      /\ worker.effect \in Phase => ~incidents[worker.id].Stored
  BY DEF DeliverNothing, store, memory, ghosts, Steps, Calm, Types, TypeOK,
         WorkerFits, WorkerStates
<1>2. worker'.pc \in {"idle", "mark"}
  BY BareHolds DEF DeliverNothing, WorkerIdle, BarePlaces
<1>3. /\ MonState' = MonState /\ MonLastOK' = MonLastOK
      /\ MonIncidents = incidents /\ MonIncidents' = incidents
      /\ MonPending.kind = worker.effect
      /\ worker.effect \in Phase => MonPending.id = worker.id
      /\ MonPending' = Mon!NoEffect
  BY <1>1, <1>2, Sees DEF SeesStored, SeesWritten, Mon!NoEffect
<1>4. MonCfg' = MonCfg /\ MonMaintenances' = MonMaintenances
  BY <1>1, <1>2, SameWindows DEF MonCfg
<1>5. Mon!DeliverNothing
  BY <1>1, <1>3, <1>4, SameEngine DEF Mon!DeliverNothing, Mon!store, Mon!ghosts
<1> QED
  BY <1>5 DEF Mon!Next, Mon!Deliver

(* While a request acts, Monitor sees the state that is stored, and what   *)
(* the worker keeps in memory stays as it is; of the incidents it may see  *)
(* one already as the worker will record its delivery.                     *)
LEMMA HandlerSees ==
    ASSUME Steps, NEW a \in Request, Handler(a)
    PROVE  /\ UNCHANGED <<MonLastOK, stabilizing, MonPending, issued,
                          failureRun, successRun, sent, lastOK>>
           /\ MonState = st /\ MonState' = st' /\ MonLastOK = lastOK
           /\ incidents' = incidents => MonIncidents' = MonIncidents
           /\ worker.pc # "sent" =>
                 MonIncidents = incidents /\ MonIncidents' = incidents'
           /\ \A b \in Request : b # a =>
                 handler[b].pc = "idle" /\ handler'[b].pc = "idle"
           /\ worker.pc # "window" /\ worker'.pc # "window"
           /\ Calm /\ Calm'
<1>1. /\ UNCHANGED <<lastOK, stabilizing, issued, failureRun, successRun, sent>>
  BY DEF Handler, StartMaintenance, LoadToEnter, ReadWindow, EndMaintenance,
         LoadToExit, SaveHandlerCopy, DelayMaintenance, ToggleMonitoring,
         ClearIncidents, memory, ghosts
<1>2. /\ worker' = worker /\ Rests
      /\ \A b \in Request : b # a => handler[b].pc = "idle"
      /\ \A b \in Request : b # a => handler'[b] = handler[b]
      /\ Calm /\ Calm'
  BY HandlerAlone, HandlerOthers DEF Steps, Calm
<1>3. MonLastOK' = MonLastOK /\ MonPending' = MonPending
  BY <1>1, <1>2 DEF MonLastOK, MonPending
<1>4. incidents' = incidents => MonIncidents' = MonIncidents
  BY <1>2 DEF MonIncidents
<1> QED
  BY <1>1, <1>2, <1>3, <1>4, Sees DEF SeesStored, Rests

(* Until it saves its copy of the state, a request is not seen.            *)
LEMMA HandlerUnseen ==
    ASSUME Steps, NEW a \in Request, Handler(a),
           UNCHANGED <<on, st, incidents>>,
           MonMaintenances' = MonMaintenances
    PROVE  Unseen
BY HandlerSees DEF Unseen, MonCfg

(* The start of a window, which stores its record first ...                *)
LEMMA StartUnseen ==
    ASSUME Steps, NEW a \in Request, NEW m \in MaintenanceID,
           NEW auto \in BOOLEAN, StartMaintenance(a, m, auto)
    PROVE  Unseen
<1>1. Handler(a) /\ Types /\ handler[a] = HandlerIdle
  BY DEF Handler, StartMaintenance, Starts, At, Steps, Calm, OneUpdate,
         HandlerCopy
<1>2. /\ handler'[a].pc = "enter" /\ handler'[a].id = m
      /\ handler'[a].rec = NoMaintenance
      /\ handler[a].pc = "idle"
  <2>1. HandlerIdle.pc = "idle" /\ HandlerIdle.rec = NoMaintenance
    BY DEF HandlerIdle
  <2> QED
    BY <1>1, <2>1, StartHolds
<1>3. /\ maintenances \in [MaintenanceID -> Maintenance]
      /\ maintenances[m] = NoMaintenance
      /\ maintenances' = [maintenances EXCEPT
                            ![m] = [State |-> "active", AutoRecovery |-> auto]]
  BY <1>1 DEF StartMaintenance, Steps, Calm, OneUpdate, NoneIsBlank, Types,
              TypeOK
<1>4. MonMaintenances = maintenances
  BY <1>1, <1>2, HandlerSees, WindowsSeen DEF SeesWindows
<1>5. MonMaintenances' = [maintenances' EXCEPT ![m] = NoMaintenance]
  BY <1>1, <1>2, HandlerSees, WindowsSeenNext DEF SeesBefore
<1> QED
  BY <1>1, <1>3, <1>4, <1>5, HandlerUnseen DEF StartMaintenance

(* ... and the state it loads, as does the end of one.                     *)
LEMMA LoadUnseen ==
    ASSUME Steps, NEW a \in Request, LoadToEnter(a) \/ LoadToExit(a)
    PROVE  Unseen
<1>1. /\ Handler(a) /\ Types /\ handler[a].pc \in {"enter", "exit"}
      /\ UNCHANGED <<on, st, incidents, maintenances>>
  BY DEF Handler, LoadToEnter, LoadToExit, At, Steps, Calm, store
<1>2. /\ EnterMaintenance(st, handler[a].id, lastOK) \in MonitorState
      /\ ExitMaintenance(st, lastOK) \in MonitorState
  BY <1>1, StateTypes DEF Types, TypeOK, HandlerStates
<1>3. /\ handler'[a].pc = "save" /\ handler'[a].id = handler[a].id
      /\ handler'[a].rec = handler[a].rec
  BY <1>1, <1>2, HandlerCopies DEF LoadToEnter, LoadToExit
<1>4. MonMaintenances' = MonMaintenances
  BY <1>1, <1>3, HandlerSees, WindowsSeen, WindowsSeenNext DEF SeesBefore
<1> QED
  BY <1>1, <1>4, HandlerUnseen

(* A window that is read, and one that is written back as it was read.     *)
LEMMA ReadUnseen ==
    ASSUME Steps, NEW a \in Request,
           \/ ReadWindow(a, "end") \/ ReadWindow(a, "delay")
           \/ DelayMaintenance(a)
    PROVE  Unseen
<1>1. /\ Handler(a) /\ Types /\ handler[a].pc \in {"idle", "delay"}
      /\ UNCHANGED <<on, st, incidents>>
  BY DEF Handler, ReadWindow, DelayMaintenance, Starts, At, Steps, Calm, store
<1>2. maintenances' = maintenances
  BY <1>1 DEF ReadWindow, DelayMaintenance, At, store, Steps, Calm, OneUpdate,
              HandlerCopy, Reading, Types, TypeOK
<1>3. handler'[a].pc \in {"idle", "end", "delay"}
  <2>1. CASE DelayMaintenance(a)
    BY <1>1, <2>1 DEF DelayMaintenance, HandlerIdle, Types, TypeOK
  <2>2. ASSUME NEW pc \in {"end", "delay"}, ReadWindow(a, pc)
        PROVE  handler'[a].pc = pc
    BY <1>1, <2>2, ReadHolds DEF ReadWindow
  <2> QED
    BY <2>1, <2>2
<1>4. MonMaintenances' = MonMaintenances
  BY <1>1, <1>2, <1>3, HandlerSees, WindowsSeen, WindowsSeenNext
  DEF SeesWindows
<1> QED
  BY <1>1, <1>4, HandlerUnseen

(* The end of a window, as long as its record alone is stored.             *)
LEMMA EndUnseen ==
    ASSUME Steps, NEW a \in Request, EndMaintenance(a)
    PROVE  Unseen
<1>1. /\ Handler(a) /\ Types /\ handler[a].pc = "end"
      /\ UNCHANGED <<on, st, incidents>>
      /\ maintenances' = [maintenances EXCEPT
                            ![handler[a].id] = Ended(handler[a].rec)]
      /\ maintenances \in [MaintenanceID -> Maintenance]
      /\ handler[a].id \in MaintenanceID
      /\ handler[a].rec = maintenances[handler[a].id]
  BY DEF Handler, EndMaintenance, At, Steps, Calm, OneUpdate, HandlerCopy,
         Reading, Types, TypeOK
<1>2. /\ handler'[a].pc = "exit" /\ handler'[a].id = handler[a].id
      /\ handler'[a].rec = handler[a].rec
  BY <1>1, HandlerGoesOn DEF EndMaintenance, HandlerPlaces
<1>3. MonMaintenances = maintenances
  BY <1>1, HandlerSees, WindowsSeen DEF SeesWindows
<1>4. MonMaintenances' = [maintenances' EXCEPT ![handler[a].id] = handler[a].rec]
  BY <1>1, <1>2, HandlerSees, WindowsSeenNext DEF SeesBefore
<1> QED
  BY <1>1, <1>3, <1>4, HandlerUnseen

(* With the copy of the state that it saves a request takes effect: the    *)
(* window starts or ends.                                                  *)
LEMMA SaveHandlerCopyIs ==
    ASSUME Steps, NEW a \in Request, SaveHandlerCopy(a)
    PROVE  Mon!Next
<1> DEFINE m == handler[a].id
<1>1. /\ Handler(a) /\ Types /\ handler[a].pc = "save"
      /\ UNCHANGED <<on, incidents, maintenances>> /\ st' = handler[a].st
      /\ maintenances \in [MaintenanceID -> Maintenance]
      /\ m \in MaintenanceID /\ m # None
      /\ \/ Entering(a) /\ st' = EnterMaintenance(st, m, lastOK)
         \/ /\ Reading(a) /\ maintenances[m] = Ended(handler[a].rec)
            /\ st' = ExitMaintenance(st, lastOK)
      /\ handler'[a].pc = "idle"
  BY NoneAssumption
  DEF Handler, SaveHandlerCopy, At, Steps, Calm, OneUpdate, HandlerCopy,
      Entering, Reading, Types, TypeOK, HandlerIdle
<1>2. MonMaintenances = [maintenances EXCEPT ![m] = handler[a].rec]
  BY <1>1, HandlerSees, WindowsSeen DEF SeesBefore
<1>3. MonMaintenances' = maintenances
  BY <1>1, HandlerSees, WindowsSeenNext DEF SeesWindows
<1>4. MonMaintenances' = [MonMaintenances EXCEPT ![m] = maintenances[m]]
      /\ MonMaintenances[m] = handler[a].rec /\ MonCfg' = MonCfg
  BY <1>1, <1>2, <1>3 DEF MonCfg
<1> HIDE DEF m
<1>5. CASE Entering(a) /\ st' = EnterMaintenance(st, m, lastOK)
  <2> DEFINE auto == maintenances[m].AutoRecovery
  <2>1. /\ auto \in BOOLEAN
        /\ maintenances[m] = [State |-> "active", AutoRecovery |-> auto]
        /\ MonMaintenances[m].State = "none"
    BY <1>1, <1>4, <1>5 DEF Entering, Maintenance, NoMaintenance, m
  <2> HIDE DEF auto
  <2>2. Mon!StartMaintenance(m, auto)
    BY <1>1, <1>4, <1>5, <2>1, HandlerSees, SameUpdates
    DEF Mon!StartMaintenance, Mon!memory, Mon!ghosts
  <2> QED
    BY <1>1, <2>1, <2>2 DEF Mon!Next, Mon!Admin
<1>6. CASE /\ Reading(a) /\ maintenances[m] = Ended(handler[a].rec)
           /\ st' = ExitMaintenance(st, lastOK)
  <2>1. /\ MonMaintenances' = [MonMaintenances EXCEPT ![m] = Mon!Ended(@)]
        /\ MonMaintenances[m].State # "none" /\ st.ActiveMaintenanceID = m
    <3>1. Mon!Ended(MonMaintenances[m]) = maintenances[m]
      BY <1>1, <1>4, <1>6, SameDecisions
    <3>2. handler[a].rec.State # "none" /\ st.ActiveMaintenanceID = m
      BY <1>6 DEF Reading, m
    <3> QED
      BY <1>4, <3>1, <3>2
  <2>2. Mon!Window = m /\ Mon!InMaintenance
        /\ MonState' = Mon!ExitMaintenance(MonState, MonLastOK)
    BY <1>1, <1>6, <2>1, HandlerSees, SameUpdates
    DEF Mon!InMaintenance, Mon!Window
  <2>3. UNCHANGED <<MonCfg, MonIncidents, MonLastOK, stabilizing, MonPending,
                    issued, failureRun, successRun, sent>>
    BY <1>1, <1>4, HandlerSees
  <2>4. Mon!EndMaintenance
    BY <2>1, <2>2, <2>3 DEF Mon!EndMaintenance, Mon!memory, Mon!ghosts
  <2> QED
    BY <2>4 DEF Mon!Next, Mon!Admin
<1> QED
  BY <1>1, <1>5, <1>6

(* What a request does in a single step is that step of Monitor.           *)
LEMMA AtOnceIs ==
    ASSUME Steps, NEW a \in Request, ToggleMonitoring(a) \/ ClearIncidents(a)
    PROVE  Mon!Next
<1>1. /\ Handler(a) /\ Types /\ handler[a].pc = "idle" /\ handler' = handler
      /\ UNCHANGED <<st, maintenances>>
  BY DEF Handler, ToggleMonitoring, ClearIncidents, Starts, At, Steps, Calm
<1>2. MonMaintenances' = MonMaintenances
  BY <1>1, HandlerSees, SameWindows
<1>3. CASE ToggleMonitoring(a)
  <2>1. on \in BOOLEAN /\ on' = ~on /\ Settings \in Config
    BY <1>1, <1>3, SettingsAssumption DEF ToggleMonitoring, Types, TypeOK
  <2>2. /\ MonCfg' = [MonCfg EXCEPT !.MonitoringOn = ~@]
        /\ MonCfg' \in {[Settings EXCEPT !.MonitoringOn = b] : b \in BOOLEAN}
    BY <2>1 DEF MonCfg, Config
  <2>3. Mon!ToggleMonitoring
    BY <1>1, <1>2, <1>3, <2>2, HandlerSees
    DEF Mon!ToggleMonitoring, Mon!memory, Mon!ghosts, ToggleMonitoring
  <2> QED
    BY <2>3 DEF Mon!Next, Mon!Admin
<1>4. CASE ClearIncidents(a)
  <2>0. worker.pc # "sent"
    BY <1>4 DEF ClearIncidents, Steps
  <2>1. Mon!ClearIncidents
    BY <2>0, <1>1, <1>2, <1>4, HandlerSees, SameDecisions
    DEF Mon!ClearIncidents, Mon!memory, Mon!ghosts, ClearIncidents, MonCfg
  <2> QED
    BY <2>1 DEF Mon!Next, Mon!Admin
<1> QED
  BY <1>3, <1>4

(* Every step of System is one of Monitor, or one that it does not see.    *)
LEMMA StepIsMonitors ==
    ASSUME MaxFaults = 0, Steps, [Next]_vars
    PROVE  [Mon!Next]_(Mon!vars)
<1>1. ASSUME Worker PROVE Unseen \/ Mon!Next
  BY <1>1, StepUpIs, StepRecoveringIs, StepFailingIs, StepOpenIs,
     StepInMaintenanceIs, LoadsUnseen, PutWindowUnseen, PutIncidentUnseen,
     SaveStateUnseen, PutNotifiedUnseen, SaveCopyIs, DeliverAlertIs,
     DeliverNothingIs
  DEF Worker
<1>2. ASSUME NEW a \in Request, Handler(a) PROVE Unseen \/ Mon!Next
  BY <1>2, StartUnseen, LoadUnseen, ReadUnseen, EndUnseen, SaveHandlerCopyIs,
     AtOnceIs
  DEF Handler
<1>3. CASE StabilizationEnds
  <2>1. /\ UNCHANGED <<MonCfg, MonState, MonIncidents, MonMaintenances,
                       MonLastOK, MonPending, issued, failureRun, successRun,
                       sent>>
        /\ stabilizing /\ stabilizing' = FALSE
    BY <1>3
    DEF StabilizationEnds, store, ghosts, MonCfg, MonState, Writing,
        MonIncidents, MonMaintenances, MonLastOK, MonPending, Ended
  <2>2. Mon!StabilizationEnds
    BY <2>1 DEF Mon!StabilizationEnds, Mon!store, Mon!ghosts
  <2> QED
    BY <2>2 DEF Mon!Next
<1>4. ~Crash /\ ~SaveFails
  <2>1. faults \in 0..MaxFaults
    BY DEF Steps, Calm, Types, TypeOK
  <2> QED
    BY <2>1 DEF Crash, SaveFails
<1>5. ASSUME UNCHANGED vars PROVE Unseen
  BY <1>5
  DEF vars, store, memory, ghosts, MonCfg, MonState, Writing, MonIncidents,
      MonMaintenances, MonLastOK, MonPending, Ended, Unseen
<1> QED
  BY <1>1, <1>2, <1>3, <1>4, <1>5, UnseenIsStutter DEF Next

(* Refines (docs/ARCHITECTURE.md:101): if the updates are serialised and   *)
(* nothing fails, every behaviour of the split steps is one of the atomic  *)
(* steps of Monitor, for any number of requests, incidents and windows.    *)
THEOREM SerialisedRefines ==
    ASSUME Serialised, MaxFaults = 0
    PROVE  Spec => Refines
<1>1. Init => Mon!Init
  <2> SUFFICES ASSUME Init PROVE Mon!Init
    OBVIOUS
  <2>1. /\ worker.pc = "idle" /\ worker.id = None /\ on = TRUE
        /\ \A a \in Request : handler[a].pc = "idle"
    BY DEF Init, WorkerIdle, HandlerIdle
  <2>2. /\ MonState = st /\ MonIncidents = incidents /\ MonLastOK = lastOK
        /\ MonPending = [kind |-> "none", id |-> None]
    BY <2>1, Sees DEF SeesStored
  <2>3. MonMaintenances = maintenances
    BY <2>1 DEF MonMaintenances, Init
  <2>4. MonCfg \in {[Settings EXCEPT !.MonitoringOn = b] : b \in BOOLEAN}
    BY <2>1 DEF MonCfg
  <2> QED
    BY <2>2, <2>3, <2>4
    DEF Init, Mon!Init, Mon!NoEffect, Mon!FreshState, FreshState,
        Mon!NoIncident, NoIncident, Mon!NoMaintenance, NoMaintenance,
        Mon!Phase, Phase
<1>2. Types /\ OneUpdate /\ (Types /\ OneUpdate)' /\ [Next]_vars
        => [Mon!Next]_(Mon!vars)
  BY StepIsMonitors DEF Steps, Calm
<1> QED
  BY <1>1, <1>2, SystemTypes, CopiesAreCurrent, PTL
  DEF Spec, Refines, Mon!Spec

-------------------------------------------------------------------------------
(* One incident at a time                                                  *)

Storing == worker.pc \in {"window", "put", "save"}

(* The record of an incident once the worker's is stored.                  *)
Becomes(i) == IF worker.pc \in {"window", "put"} /\ worker.id = i
              THEN worker.inc ELSE incidents[i]

(* What is open is what the state names: the stored one until Step's       *)
(* writes begin with the incident, and from there on the one they end      *)
(* with.  A delivery writes back what it has read.                         *)
OpenIsActive ==
    worker.pc # "save" =>
        \A i \in IncidentID : incidents[i].Open => st.ActiveIncidentID = i
OpenBecomesActive ==
    Storing => \A i \in IncidentID :
                  Becomes(i).Open => worker.st.ActiveIncidentID = i
ReadsWhatIsOpen ==
    worker.pc = "sent" => worker.inc.Open = incidents[worker.id].Open
OpenIsStored ==
    /\ worker.inc.Open => worker.inc.Stored
    /\ \A i \in IncidentID : incidents[i].Open => incidents[i].Stored

OpenFits == /\ OpenIsActive /\ OpenBecomesActive /\ ReadsWhatIsOpen
            /\ OpenIsStored

(* What the updates of a record do to an open one.                         *)
LEMMA OpenIs ==
    ASSUME NEW inc \in Incident
    PROVE  /\ ~Closed(inc).Open /\ ~ClosedQuietly(inc).Open
           /\ ~NoIncident.Open /\ NewIncident.Stored
           /\ Reopened(inc).Stored = inc.Stored
BY DEF Incident, Closed, ClosedQuietly, NoIncident, NewIncident, Reopened

(* Step leaves the records as they are and is about to write the state     *)
(* alone, ...                                                              *)
LEMMA StateOnlyOpen ==
    ASSUME Types, OpenFits, worker.pc = "checked", incidents' = incidents,
           st' = st, NEW t \in MonitorState, StateOnly(t),
           \/ t.ActiveIncidentID = st.ActiveIncidentID
           \/ Found /\ ~Record.Stored
    PROVE  OpenFits'
<1>1. /\ worker'.pc = "save" /\ worker'.st = t /\ worker'.inc = NoIncident
  BY HoldsState DEF StateOnly
<1>2. \A i \in IncidentID : incidents[i].Open => t.ActiveIncidentID = i
  BY DEF OpenFits, OpenIsActive, OpenIsStored, Record
<1>3. OpenIsStored'
  BY <1>1, IdleIs, OpenIs DEF OpenFits, OpenIsStored
<1> QED
  BY <1>1, <1>2, <1>3
  DEF OpenFits, OpenIsActive, OpenBecomesActive, Becomes, ReadsWhatIsOpen

(* ... or the record of an incident before it, when no other one is open.  *)
LEMMA WithIncidentOpen ==
    ASSUME Types, OpenFits, worker.pc = "checked", incidents' = incidents,
           st' = st, NEW t \in MonitorState, NEW id \in IncidentID,
           NEW inc \in Incident, NEW effect \in {"none"} \cup Phase,
           WithIncident(t, id, inc, effect),
           st.ActiveIncidentID \in {id, None},
           inc.Open => inc.Stored /\ t.ActiveIncidentID = id
    PROVE  OpenFits'
<1>1. /\ worker'.pc = "put" /\ worker'.st = t /\ worker'.id = id
      /\ worker'.inc = inc
  BY HoldsIncident
<1>2. \A i \in IncidentID : incidents[i].Open => st.ActiveIncidentID = i
  BY DEF OpenFits, OpenIsActive
<1>3. \A i \in IncidentID : Becomes(i)'.Open => t.ActiveIncidentID = i
  <2> SUFFICES ASSUME NEW i \in IncidentID, Becomes(i)'.Open
               PROVE  t.ActiveIncidentID = i
    OBVIOUS
  <2>1. CASE i = id
    BY <1>1, <2>1 DEF Becomes
  <2>2. CASE i # id
    BY <1>1, <1>2, <2>2, NoneAssumption DEF Becomes
  <2> QED
    BY <2>1, <2>2
<1> QED
  BY <1>1, <1>2, <1>3
  DEF OpenFits, OpenIsActive, OpenBecomesActive, ReadsWhatIsOpen, OpenIsStored

(* Each branch of Step: what it leaves active is what it leaves open.      *)
LEMMA StepOpenFits ==
    ASSUME Types, OpenFits,
           \/ StepUp \/ StepRecovering \/ StepStillOffline \/ StepSuspect
           \/ StepInMaintenance \/ \E i \in IncidentID : StepOpen(i)
    PROVE  OpenFits'
<1>0. Step
  BY DEF StepUp, StepRecovering, StepStillOffline, StepSuspect,
         StepInMaintenance, StepOpen
<1>1. /\ worker.pc = "checked" /\ incidents' = incidents /\ st' = st
      /\ st \in MonitorState /\ worker.res \in Result
      /\ Found => Record \in Incident /\ st.ActiveIncidentID \in IncidentID
  BY <1>0, StepKeeps DEF Types, TypeOK, Found, Record, MonitorState
<1>2. CASE StepUp
  BY <1>1, <1>2, StateTypes, ActiveIs, StateOnlyOpen DEF StepUp
<1>3. CASE StepSuspect
  BY <1>1, <1>3, StateTypes, ActiveIs, StateOnlyOpen DEF StepSuspect
<1>4. CASE StepStillOffline
  <2>1. /\ StillOffline(st) \in MonitorState
        /\ StillOffline(st).ActiveIncidentID = st.ActiveIncidentID
    BY <1>1, StateTypes, ActiveIs
  <2>2. CASE Record.Stored
    <3>1. /\ Reopened(Record) \in Incident /\ Reopened(Record).Stored
          /\ st.ActiveIncidentID \in IncidentID
          /\ WithIncident(StillOffline(st), st.ActiveIncidentID,
                          Reopened(Record), "none")
      BY <1>1, <1>4, <2>2, IncidentIs, OpenIs DEF StepStillOffline
    <3> QED
      BY <1>1, <2>1, <3>1, WithIncidentOpen
  <2>3. CASE ~Record.Stored
    BY <1>1, <1>4, <2>1, <2>3, StateOnlyOpen DEF StepStillOffline
  <2> QED
    BY <2>2, <2>3
<1>5. CASE StepRecovering
  <2> DEFINE t == Recovering(st, Settings, worker.res)
             told == Settings.AutoRecoveryNotify /\ Record.OutageNotified
             effect == IF told THEN "recovery" ELSE "none"
  <2>1. /\ t \in MonitorState /\ t.ActiveIncidentID = st.ActiveIncidentID
        /\ Recovered(t) \in MonitorState
        /\ effect \in {"none"} \cup Phase
    BY <1>1, StateTypes, ActiveIs DEF Phase
  <2>2. CASE StateOnly(t)
    BY <1>1, <2>1, <2>2, StateOnlyOpen
  <2>3. CASE StateOnly(Recovered(t)) /\ ~Record.Stored
    BY <1>1, <1>5, <2>1, <2>3, StateOnlyOpen DEF StepRecovering
  <2>4. CASE WithIncident(Recovered(t), st.ActiveIncidentID, Closed(Record),
                          effect)
    <3>1. /\ Closed(Record) \in Incident /\ ~Closed(Record).Open
          /\ st.ActiveIncidentID \in IncidentID
      BY <1>1, <1>5, IncidentIs, OpenIs DEF StepRecovering
    <3> HIDE DEF t, effect
    <3> QED
      BY <1>1, <2>1, <2>4, <3>1, WithIncidentOpen
  <2> QED
    BY <1>5, <2>2, <2>3, <2>4 DEF StepRecovering
<1>6. ASSUME NEW i \in IncidentID, StepOpen(i) PROVE OpenFits'
  <2> DEFINE t == Offline(Suspect(st), i)
             effect == IF Settings.AutoOutageNotify THEN "outage" ELSE "none"
  <2>1. t \in MonitorState /\ t.ActiveIncidentID = i
    <3>1. Suspect(st) \in MonitorState
      BY <1>1, StateTypes
    <3> QED
      BY <3>1, StateTypes, ActiveIs
  <2>3. effect \in {"none"} \cup Phase
    BY DEF Phase
  <2>2. /\ WithIncident(t, i, NewIncident, effect)
        /\ st.ActiveIncidentID = None
        /\ NewIncident \in Incident /\ NewIncident.Stored
    BY <1>6, IdleIs, IncidentIs, OpenIs DEF StepOpen, Found
  <2> HIDE DEF t, effect
  <2> QED
    BY <1>1, <2>1, <2>3, <2>2, WithIncidentOpen
<1>7. CASE StepInMaintenance
  <2> DEFINE up == MaintenanceUp(st)
             m == st.ActiveMaintenanceID
             id == IF Found /\ Record.Stored THEN st.ActiveIncidentID ELSE None
             inc == IF Found /\ Record.Stored THEN ClosedQuietly(Record)
                    ELSE NoIncident
  <2>1. /\ up \in MonitorState /\ up.ActiveIncidentID = st.ActiveIncidentID
        /\ MaintenanceDown(st) \in MonitorState
        /\ MaintenanceDown(st).ActiveIncidentID = st.ActiveIncidentID
        /\ MaintenanceFinished(up) \in MonitorState
        /\ m \in MaintenanceID
    BY <1>1, <1>7, StateTypes, ActiveIs DEF StepInMaintenance, MonitorState
  <2>2. CASE StateOnly(MaintenanceDown(st)) \/ StateOnly(up)
    BY <1>1, <2>1, <2>2, StateOnlyOpen
  <2>3. CASE worker' = [WorkerIdle EXCEPT
                          !.pc = "window", !.st = MaintenanceFinished(up),
                          !.window = m, !.effect = "maintenance_recovery",
                          !.id = id, !.inc = inc]
    <3>1. /\ id \in IncidentID \cup {None} /\ inc \in Incident /\ ~inc.Open
      BY <1>1, IdleIs, IncidentIs, OpenIs
    <3>2. \A i \in IncidentID : i # id => ~incidents[i].Open
      BY <1>1 DEF OpenFits, OpenIsActive, OpenIsStored, Found, Record
    <3> HIDE DEF id, inc, up, m
    <3>3. /\ worker'.pc = "window" /\ worker'.id = id /\ worker'.inc = inc
      BY <2>1, <2>3, <3>1, IdleIs DEF WorkerIdle, WorkerStates
    <3>4. OpenBecomesActive'
      BY <1>1, <3>1, <3>2, <3>3 DEF OpenBecomesActive, Becomes
    <3> QED
      BY <1>1, <3>1, <3>3, <3>4
      DEF OpenFits, OpenIsActive, ReadsWhatIsOpen, OpenIsStored
  <2> QED
    BY <1>7, <2>2, <2>3 DEF StepInMaintenance
<1> QED
  BY <1>2, <1>3, <1>4, <1>5, <1>6, <1>7

(* The worker is not storing and holds no record: what is open is what the *)
(* state names.                                                            *)
LEMMA OpenAtRest ==
    ASSUME worker'.pc \notin {"window", "put", "save", "sent"},
           worker'.inc = NoIncident,
           \A i \in IncidentID :
              incidents'[i].Open => /\ st'.ActiveIncidentID = i
                                    /\ incidents'[i].Stored
    PROVE  OpenFits'
BY IdleIs, OpenIs
DEF OpenFits, OpenIsActive, OpenBecomesActive, Storing, ReadsWhatIsOpen,
    OpenIsStored

(* Each step of the worker.                                                *)
LEMMA WorkerOpen ==
    ASSUME Types, OneUpdate, OpenFits, Worker
    PROVE  OpenFits'
<1> USE DEF store, memory, ghosts
<1>1. /\ WorkerIdle.pc = "idle" /\ WorkerIdle.inc = NoIncident
      /\ incidents \in [IncidentID -> Incident] /\ st \in MonitorState
      /\ worker.inc \in Incident /\ worker.st \in MonitorState
  BY DEF WorkerIdle, Types, TypeOK, WorkerStates
<1>2. ASSUME NEW res \in Outcome, FinishCheck(res) PROVE OpenFits'
  BY <1>2, CheckedHolds, OpenAtRest
  DEF FinishCheck, OpenFits, OpenIsActive, OpenIsStored
<1>3. CASE PutWindow
  <2>1. PICK pc \in {"save", "put"} :
           /\ worker' = [worker EXCEPT !.pc = pc]
           /\ pc = "save" <=> worker.id = None
    BY <1>3 DEF PutWindow
  <2>2. /\ worker'.pc = pc /\ worker'.st = worker.st /\ worker'.id = worker.id
        /\ worker'.inc = worker.inc /\ worker.pc = "window"
        /\ incidents' = incidents /\ st' = st
    BY <1>3, <2>1, HoldsOn DEF PutWindow
  <2>3. \A i \in IncidentID : Becomes(i)' = Becomes(i)
    BY <2>1, <2>2, NoneAssumption DEF Becomes
  <2>4. OpenBecomesActive'
    BY <2>2, <2>3 DEF OpenFits, OpenBecomesActive, Storing
  <2> QED
    BY <2>1, <2>2, <2>4
    DEF OpenFits, OpenIsActive, ReadsWhatIsOpen, OpenIsStored
<1>4. CASE PutIncident
  <2>1. /\ worker'.pc = "save" /\ worker'.st = worker.st
        /\ worker'.id = worker.id /\ worker'.inc = worker.inc
        /\ worker.pc = "put" /\ worker.id \in IncidentID
    BY <1>4, HoldsOn DEF PutIncident, Types, WorkerFits
  <2>2. incidents' = [incidents EXCEPT ![worker.id] = worker.inc]
    BY <1>4 DEF PutIncident
  <2>3. \A i \in IncidentID : Becomes(i)' = Becomes(i)
    BY <1>1, <2>1, <2>2 DEF Becomes
  <2>4. OpenBecomesActive'
    BY <2>1, <2>3 DEF OpenFits, OpenBecomesActive, Storing
  <2>5. OpenIsStored'
    BY <1>1, <2>1, <2>2 DEF OpenFits, OpenIsStored
  <2> QED
    BY <2>1, <2>4, <2>5 DEF OpenFits, OpenIsActive, ReadsWhatIsOpen
<1>5. CASE SaveState
  <2>1. \A i \in IncidentID :
           incidents[i].Open => /\ worker.st.ActiveIncidentID = i
                                /\ incidents[i].Stored
    BY <1>5
    DEF SaveState, OpenFits, OpenBecomesActive, OpenIsStored, Storing, Becomes
  <2>2. /\ worker'.pc \in {"idle", "deliver"} /\ worker'.inc = NoIncident
    <3>1. CASE worker.effect = "none"
      BY <1>1, <1>5, <3>1 DEF SaveState
    <3>2. CASE worker.effect # "none"
      <4>1. /\ worker.id \in IncidentID \cup {None}
            /\ worker.effect \in {"maintenance_recovery"} \cup Phase
        BY <3>2 DEF Types, TypeOK, WorkerStates
      <4> QED
        BY <1>5, <3>2, <4>1, HoldsEffect DEF SaveState
    <3> QED
      BY <3>1, <3>2
  <2> QED
    BY <1>5, <2>1, <2>2, OpenAtRest DEF SaveState
<1>6. ASSUME NEW success \in BOOLEAN, DeliverAlert(success) PROVE OpenFits'
  <2> DEFINE inc == IF worker.effect = "outage"
                    THEN [incidents[worker.id] EXCEPT !.OutageNotified = success]
                    ELSE [incidents[worker.id] EXCEPT !.RecoveryNotified = success]
  <2>1. /\ worker.pc = "deliver" /\ worker'.pc = "sent"
        /\ worker'.id = worker.id /\ incidents[worker.id] \in Incident
        /\ incidents[worker.id].Stored
    BY <1>1, <1>6, DeliveryHolds DEF DeliverAlert
  <2>2. inc.Open = incidents[worker.id].Open /\ inc.Stored
    BY <2>1 DEF Incident
  <2>3. worker'.inc = inc
    <3>1. worker' = [worker EXCEPT !.pc = "sent", !.inc = inc]
      BY <1>6 DEF DeliverAlert
    <3> HIDE DEF inc
    <3> QED
      BY <3>1 DEF Types, TypeOK, WorkerStates
  <2> HIDE DEF inc
  <2> QED
    BY <1>6, <2>1, <2>2, <2>3
    DEF DeliverAlert, OpenFits, OpenIsActive, OpenBecomesActive, Storing,
        ReadsWhatIsOpen, OpenIsStored
<1>7. CASE PutNotified
  <2>1. /\ worker'.pc \in {"idle", "mark"} /\ worker'.inc = NoIncident
    BY <1>1, <1>7, BareHolds DEF PutNotified, BarePlaces
  <2>2. /\ worker.pc = "sent" /\ st' = st
        /\ incidents' = [incidents EXCEPT ![worker.id] = worker.inc]
    BY <1>7 DEF PutNotified
  <2>3. \A i \in IncidentID :
           incidents'[i].Open => /\ st.ActiveIncidentID = i
                                 /\ incidents'[i].Stored
    BY <1>1, <2>2 DEF OpenFits, OpenIsActive, ReadsWhatIsOpen, OpenIsStored
  <2> QED
    BY <2>1, <2>2, <2>3, OpenAtRest
<1>8. CASE DeliverNothing \/ ReadConfig
  <2>1. /\ worker'.pc \in {"idle", "mark", "checking", "off"}
        /\ worker'.inc = NoIncident
    BY <1>1, <1>8, BareHolds, ConfigHolds DEF DeliverNothing, BarePlaces
  <2> QED
    BY <1>8, <2>1, OpenAtRest
    DEF DeliverNothing, ReadConfig, OpenFits, OpenIsActive, OpenIsStored
<1>9. CASE LoadToMark \/ LoadToDisable
  <2>1. /\ worker'.pc \in {"idle", "marking", "disabling"}
        /\ worker'.inc = NoIncident
    BY <1>9, LoadHolds
  <2> QED
    BY <1>9, <2>1, OpenAtRest
    DEF LoadToMark, LoadToDisable, OpenFits, OpenIsActive, OpenIsStored
<1>10. CASE SaveCopy
  <2>1. st'.ActiveIncidentID = st.ActiveIncidentID
    BY <1>1, <1>10, ActiveIs DEF SaveCopy, OneUpdate, WorkerCopy
  <2> QED
    BY <1>1, <1>10, <2>1, OpenAtRest
    DEF SaveCopy, OpenFits, OpenIsActive, OpenIsStored
<1> QED
  BY <1>2, <1>3, <1>4, <1>5, <1>6, <1>7, <1>8, <1>9, <1>10, StepOpenFits
  DEF Worker

(* A request acts between two updates of the worker and keeps what is      *)
(* active; clearing the history leaves nothing open.                       *)
LEMMA HandlerOpen ==
    ASSUME Serialised, Types, OneUpdate, OpenFits, NEW a \in Request,
           Handler(a)
    PROVE  OpenFits'
<1>1. worker' = worker /\ Rests
  BY HandlerAlone
<1>2. \/ incidents' = incidents
      \/ /\ \A i \in IncidentID : incidents'[i] = NoIncident
         /\ worker.pc # "sent"
  BY DEF Handler, StartMaintenance, LoadToEnter, ReadWindow, EndMaintenance,
         LoadToExit, SaveHandlerCopy, DelayMaintenance, ToggleMonitoring,
         ClearIncidents, store
<1>3. st'.ActiveIncidentID = st.ActiveIncidentID
  <2>1. CASE SaveHandlerCopy(a)
    <3>1. st' \in {EnterMaintenance(st, handler[a].id, lastOK),
                   ExitMaintenance(st, lastOK)}
      BY <2>1 DEF SaveHandlerCopy, At, OneUpdate, HandlerCopy
    <3> QED
      BY <3>1, ActiveIs DEF Types, TypeOK
  <2> QED
    BY <2>1
    DEF Handler, StartMaintenance, LoadToEnter, ReadWindow, EndMaintenance,
        LoadToExit, DelayMaintenance, ToggleMonitoring, ClearIncidents, store
<1>4. ~NoIncident.Open
  BY IdleIs, OpenIs
<1> QED
  BY <1>1, <1>2, <1>3, <1>4
  DEF Rests, Storing, OpenFits, OpenIsActive, OpenBecomesActive,
      ReadsWhatIsOpen, OpenIsStored

(* NoDuplicateIncident (engine.go:179, "open exactly one incident"): with  *)
(* the updates serialised, and as long as the process does not stop and no *)
(* save fails, no two incidents are open.  Without the second condition it *)
(* does not hold: the run system_crash.                                    *)
THEOREM OneIncident ==
    ASSUME Serialised, MaxFaults = 0
    PROVE  Spec => []NoDuplicateIncident
<1>1. Init => OpenFits
  BY OpenAtRest, IdleIs, OpenIs
  DEF Init, OpenFits, OpenIsActive, OpenBecomesActive, Storing,
      ReadsWhatIsOpen, OpenIsStored, WorkerIdle
<1>2. Types /\ OneUpdate /\ OpenFits /\ [Next]_vars => OpenFits'
  <2> SUFFICES ASSUME Types, OneUpdate, OpenFits, [Next]_vars PROVE OpenFits'
    OBVIOUS
  <2>1. CASE StabilizationEnds \/ UNCHANGED vars
    BY <2>1
    DEF StabilizationEnds, vars, store, OpenFits, OpenIsActive,
        OpenBecomesActive, Storing, Becomes, ReadsWhatIsOpen, OpenIsStored
  <2>2. ~Crash /\ ~SaveFails
    <3>1. faults \in 0..MaxFaults
      BY DEF Types, TypeOK
    <3> QED
      BY <3>1 DEF Crash, SaveFails
  <2> QED
    BY <2>1, <2>2, WorkerOpen, HandlerOpen DEF Next
<1>3. Types /\ OpenFits => NoDuplicateIncident
  <2> SUFFICES ASSUME Types, OpenFits, NEW i \in IncidentID, NEW j \in IncidentID,
                      incidents[i].Open, incidents[j].Open
               PROVE  i = j
    BY DEF NoDuplicateIncident
  <2>1. CASE worker.pc = "save"
    BY <2>1 DEF OpenFits, OpenBecomesActive, Storing, Becomes
  <2>2. CASE worker.pc # "save"
    BY <2>2 DEF OpenFits, OpenIsActive
  <2> QED
    BY <2>1, <2>2
<1> QED
  BY <1>1, <1>2, <1>3, SystemTypes, CopiesAreCurrent, PTL DEF Spec
===============================================================================
