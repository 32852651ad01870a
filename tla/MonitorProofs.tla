----------------------------- MODULE MonitorProofs ----------------------------
(***************************************************************************)
(* Theorems about Monitor, and about MonitorHistory with its cap on the    *)
(* number of incidents, for every set of incidents and windows, every set  *)
(* of configurations, every number of restarts and every cap.              *)
(*                                                                         *)
(* TypeOK is inductive by itself; CountersAreHonest, WindowIsActive and    *)
(* Shown (the displayed state) are, given TypeOK; the alerts need four     *)
(* properties at once (AlertInv).  First the operators of Engine are       *)
(* reduced to what they do to the types and to the fields, so that the     *)
(* steps of the invariance proofs do not expand them again.                *)
(*                                                                         *)
(* All of it holds with the cap (HistoryInv).  That the cap spares the     *)
(* incident that goes on rests on the order of the IDs (Ordered), and that *)
(* outage alerts lie apart on what the counters count (Apart).             *)
(***************************************************************************)
EXTENDS MonitorHistory, TLAPS, FiniteSetTheorems, WellFoundedInduction

(* A counter of the monitoring state stays one when a check bumps it.      *)
LEMMA CountFacts == 0 \in Count /\ \A n \in Count : Bump(n) \in Count
BY CountAssumption DEF Count, Bump

(* A successful check outside maintenance makes a MonitorState of a        *)
(* MonitorState (stepSuccess).                                             *)
LEMMA CheckedTypes ==
    ASSUME NEW s \in MonitorState, NEW c \in Config, NEW res \in Result
    PROVE  /\ Healthy(s, c, res) \in MonitorState
           /\ Recovering(s, c, res) \in MonitorState
<1> USE CountFacts DEF MonitorState, State, FirstFailure
<1>1. Succeeded(s, c, res) \in MonitorState
  BY DEF Succeeded
<1>2. QED
  BY <1>1 DEF Healthy, Recovering

(* So does every other branch of Step, and the handlers' and the worker's  *)
(* other updates of the state.                                             *)
LEMMA StateTypes ==
    ASSUME NEW s \in MonitorState
    PROVE  /\ Recovered(s) \in MonitorState
           /\ StillOffline(s) \in MonitorState
           /\ Suspect(s) \in MonitorState
           /\ MaintenanceUp(s) \in MonitorState
           /\ MaintenanceDown(s) \in MonitorState
           /\ MaintenanceFinished(s) \in MonitorState
           /\ Disabled(s) \in MonitorState
           /\ \A i \in IncidentID : Offline(s, i) \in MonitorState
           /\ \A ok \in BOOLEAN : ExitMaintenance(s, ok) \in MonitorState
           /\ \A m \in MaintenanceID, ok \in BOOLEAN :
                 EnterMaintenance(s, m, ok) \in MonitorState
<1> USE CountFacts DEF MonitorState, State, FirstFailure
<1>1. Failed(s) \in MonitorState
  BY DEF Failed
<1>2. StillOffline(s) \in MonitorState /\ Suspect(s) \in MonitorState
  BY <1>1 DEF StillOffline, Suspect
<1>3. /\ Recovered(s) \in MonitorState
      /\ Disabled(s) \in MonitorState
      /\ \A i \in IncidentID : Offline(s, i) \in MonitorState
  BY DEF Recovered, Offline, Disabled
<1>4. /\ MaintenanceUp(s) \in MonitorState
      /\ MaintenanceDown(s) \in MonitorState
      /\ MaintenanceFinished(s) \in MonitorState
  BY DEF MaintenanceUp, MaintenanceDown, MaintenanceFinished
<1>5. \A ok \in BOOLEAN : ExitMaintenance(s, ok) \in MonitorState
  BY DEF ExitMaintenance
<1>6. \A m \in MaintenanceID, ok \in BOOLEAN :
        EnterMaintenance(s, m, ok) \in MonitorState
  BY DEF EnterMaintenance
<1>7. QED
  BY <1>2, <1>3, <1>4, <1>5, <1>6

(* Closing, reopening and opening an incident make a record of an          *)
(* incident.                                                               *)
LEMMA IncidentTypes ==
    ASSUME NEW inc \in Incident
    PROVE  /\ Closed(inc) \in Incident
           /\ Reopened(inc) \in Incident
           /\ ClosedQuietly(inc) \in Incident
           /\ NewIncident \in Incident
           /\ NoIncident \in Incident
BY DEF Incident, Closed, Reopened, ClosedQuietly, NewIncident, NoIncident

(* The state after the setup is well typed.                                *)
LEMMA InitTypeOK == Init => TypeOK
<1> SUFFICES ASSUME Init PROVE TypeOK
  OBVIOUS
<1>1. FreshState \in MonitorState
  BY CountFacts DEF FreshState, MonitorState, State, FirstFailure
<1>2. NoIncident \in Incident /\ NoMaintenance \in Maintenance
  BY DEF NoIncident, Incident, NoMaintenance, Maintenance
<1>3. sent \in [Phase -> [IncidentID -> 0..2]]
  BY DEF Init
<1>4. restarts \in 0..MaxRestarts
  BY RestartsAssumption DEF Init
<1>5. QED
  BY <1>1, <1>2, <1>3, <1>4, CountFacts DEF Init, TypeOK

(* What every check does to the worker's memory and to the observations is *)
(* well typed.                                                             *)
LEMMA CheckTypes ==
    ASSUME TypeOK, NEW res \in Result, Check(res)
    PROVE  /\ cfg \in Config
           /\ cfg' \in Configs /\ lastOK' \in BOOLEAN
           /\ stabilizing' \in BOOLEAN
           /\ failureRun' \in Count /\ successRun' \in Count
           /\ sent' \in [Phase -> [IncidentID -> 0..2]]
           /\ restarts' \in 0..MaxRestarts
<1>1. cfg \in Config
  BY ConfigsAssumption DEF TypeOK
<1>2. lastOK' \in BOOLEAN
  BY DEF Check, Succeeds
<1>3. failureRun' \in Count /\ successRun' \in Count
  BY CountFacts DEF Check, TypeOK
<1>4. QED
  BY <1>1, <1>2, <1>3 DEF Check, TypeOK

(* A check with its Step, whichever branch it takes, preserves the types.  *)
LEMMA TickTypeOK == TypeOK /\ Tick => TypeOK'
<1> SUFFICES ASSUME TypeOK, Tick PROVE TypeOK'
  OBVIOUS
<1> USE DEF HasIncident, InMaintenance, Active, Window
<1>a. "fail" \in Result
  BY DEF Result
<1>1. ASSUME NEW res \in Result, CheckUp(res) PROVE TypeOK'
  BY <1>1, CheckTypes, CheckedTypes, StateTypes DEF CheckUp, TypeOK
<1>2. ASSUME NEW res \in Result, CheckRecovering(res) PROVE TypeOK'
  BY <1>2, CheckTypes, CheckedTypes, StateTypes DEF CheckRecovering, TypeOK
<1>3. ASSUME NEW res \in Result, CloseIncident(res) PROVE TypeOK'
  <2>1. Recovered(Recovering(st, cfg, res)) \in MonitorState
    BY <1>3, CheckTypes, CheckedTypes, StateTypes DEF CloseIncident, TypeOK
  <2>2. st.ActiveIncidentID \in IncidentID
    BY <1>3 DEF CloseIncident, TypeOK, MonitorState
  <2>3. incidents' \in [IncidentID -> Incident]
    BY <1>3, <2>2, IncidentTypes DEF CloseIncident, TypeOK
  <2>4. pending' \in Effect \cup {NoEffect}
    BY <1>3, <2>2 DEF CloseIncident, Effect, Phase
  <2>5. QED
    BY <1>3, <2>1, <2>3, <2>4, CheckTypes DEF CloseIncident, TypeOK
<1>4. ASSUME NEW res \in Result, DropIncident(res) PROVE TypeOK'
  <2>1. Recovered(Recovering(st, cfg, res)) \in MonitorState
    BY <1>4, CheckTypes, CheckedTypes, StateTypes DEF DropIncident, TypeOK
  <2>2. QED
    BY <1>4, <2>1, CheckTypes DEF DropIncident, TypeOK
<1>5. ASSUME NEW res \in Result, CheckUpInMaintenance(res) PROVE TypeOK'
  BY <1>5, CheckTypes, CheckedTypes, StateTypes DEF CheckUpInMaintenance, TypeOK
<1>6. ASSUME NEW res \in Result, FinishMaintenance(res) PROVE TypeOK'
  <2>1. MaintenanceFinished(MaintenanceUp(st)) \in MonitorState
    BY <1>6, CheckedTypes, StateTypes DEF TypeOK
  <2>2. maintenances' \in [MaintenanceID -> Maintenance]
    BY <1>6 DEF FinishMaintenance, TypeOK, MonitorState, Maintenance, Ended
  <2>3. incidents' \in [IncidentID -> Incident]
    BY <1>6, IncidentTypes DEF FinishMaintenance, TypeOK, MonitorState
  <2>4. pending' \in Effect
    BY <1>6 DEF FinishMaintenance, Effect
  <2>5. QED
    BY <1>6, <2>1, <2>2, <2>3, <2>4, CheckTypes DEF FinishMaintenance, TypeOK
<1>7. CASE CheckStillOffline
  <2>1. StillOffline(st) \in MonitorState
    BY CheckedTypes, StateTypes DEF TypeOK
  <2>2. incidents' \in [IncidentID -> Incident]
    BY <1>7, IncidentTypes DEF CheckStillOffline, TypeOK, MonitorState
  <2>3. QED
    BY <1>7, <1>a, <2>1, <2>2, CheckTypes DEF CheckStillOffline, TypeOK
<1>8. CASE CheckSuspect
  BY <1>8, <1>a, CheckTypes, CheckedTypes, StateTypes DEF CheckSuspect, TypeOK
<1>9. CASE CheckDownInMaintenance
  BY <1>9, <1>a, CheckTypes, CheckedTypes, StateTypes DEF CheckDownInMaintenance, TypeOK
<1>10. ASSUME NEW i \in IncidentID, OpenIncident(i) PROVE TypeOK'
  <2>1. Offline(Suspect(st), i) \in MonitorState
    BY CheckedTypes, StateTypes DEF TypeOK
  <2>2. incidents' \in [IncidentID -> Incident]
    BY <1>10 DEF OpenIncident, TypeOK, NewIncident, Incident
  <2>3. pending' \in Effect \cup {NoEffect}
    BY <1>10 DEF OpenIncident, Effect, Phase
  <2>4. QED
    BY <1>10, <1>a, <2>1, <2>2, <2>3, CheckTypes DEF OpenIncident, TypeOK
<1>11. QED
  BY <1>1, <1>2, <1>3, <1>4, <1>5, <1>6, <1>7, <1>8, <1>9, <1>10 DEF Tick

(* So does every step: every field of every stored record, and the         *)
(* worker's memory, stay in their ranges through checks, deliveries,       *)
(* handlers and restarts.                                                  *)
LEMMA TypeStep == TypeOK /\ [Next]_vars => TypeOK'
<1> SUFFICES ASSUME TypeOK, [Next]_vars PROVE TypeOK'
  OBVIOUS
<1> USE DEF store, memory, ghosts, HasIncident, InMaintenance, Window
<1>1. CASE Tick
  BY <1>1, TickTypeOK
<1>2. CASE TickDisabled
  BY <1>2, CheckedTypes, StateTypes DEF TickDisabled, TypeOK
<1>3. CASE Deliver
  <2>1. CASE DeliverNothing
    BY <2>1 DEF DeliverNothing, TypeOK
  <2>2. ASSUME NEW success \in BOOLEAN, DeliverAlert(success) PROVE TypeOK'
    <3>1. pending.kind \in Phase /\ pending.id \in IncidentID
      BY <2>2 DEF DeliverAlert, TypeOK, Effect, NoEffect, Phase
    <3>2. incidents' \in [IncidentID -> Incident]
      <4>1. /\ incidents \in [IncidentID -> Incident]
            /\ incidents[pending.id] \in Incident
        BY <3>1 DEF TypeOK
      <4>2. \A inc \in Incident :
               /\ [inc EXCEPT !.OutageNotified = success] \in Incident
               /\ [inc EXCEPT !.RecoveryNotified = success] \in Incident
        BY DEF Incident
      <4>3. incidents' =
              [incidents EXCEPT ![pending.id] =
                 IF pending.kind = "outage"
                 THEN [@ EXCEPT !.OutageNotified = success]
                 ELSE [@ EXCEPT !.RecoveryNotified = success]]
        BY <2>2 DEF DeliverAlert
      <4> QED
        BY ONLY <3>1, <4>1, <4>2, <4>3
    <3>3. sent' \in [Phase -> [IncidentID -> 0..2]]
      <4>1. /\ sent \in [Phase -> [IncidentID -> 0..2]]
            /\ sent[pending.kind][pending.id] \in 0..2
        BY <3>1 DEF TypeOK
      <4>2. [sent EXCEPT ![pending.kind][pending.id] =
                IF @ < 2 THEN @ + 1 ELSE @] \in [Phase -> [IncidentID -> 0..2]]
        BY ONLY <3>1, <4>1
      <4> QED
        BY <2>2, <4>1, <4>2 DEF DeliverAlert
    <3>4. QED
      BY <2>2, <3>2, <3>3 DEF DeliverAlert, TypeOK
  <2>3. QED
    BY <1>3, <2>1, <2>2 DEF Deliver
<1>4. CASE Admin
  <2>1. ASSUME NEW m \in MaintenanceID, NEW auto \in BOOLEAN,
               StartMaintenance(m, auto) \/ ScheduleMaintenance(m, auto)
        PROVE  TypeOK'
    <3>1. maintenances' \in [MaintenanceID -> Maintenance]
      <4>1. /\ [State |-> "active", AutoRecovery |-> auto] \in Maintenance
            /\ [State |-> "scheduled", AutoRecovery |-> auto] \in Maintenance
        BY DEF Maintenance
      <4>2. QED
        BY <2>1, <4>1, SMTT(30)
           DEF StartMaintenance, ScheduleMaintenance, TypeOK
    <3>2. st' \in MonitorState
      <4>1. EnterMaintenance(st, m, lastOK) \in MonitorState
        BY StateTypes DEF TypeOK
      <4>2. QED
        BY <2>1, <4>1 DEF StartMaintenance, ScheduleMaintenance, TypeOK
    <3>3. QED
      BY <2>1, <3>1, <3>2 DEF StartMaintenance, ScheduleMaintenance, TypeOK
  <2>2. CASE EndMaintenance
    <3>1. ExitMaintenance(st, lastOK) \in MonitorState
      BY <2>2, CheckedTypes, StateTypes DEF TypeOK
    <3>2. maintenances' \in [MaintenanceID -> Maintenance]
      BY <2>2 DEF EndMaintenance, TypeOK, Maintenance, Ended
    <3>3. QED
      BY <2>2, <3>1, <3>2 DEF EndMaintenance, TypeOK
  <2>3. CASE ToggleMonitoring \/ SaveMonitoring \/ SaveDiscord
    BY <2>3 DEF ToggleMonitoring, SaveMonitoring, SaveDiscord, TypeOK
  <2>4. CASE ClearIncidents
    BY <2>4, IncidentTypes DEF ClearIncidents, TypeOK, NoIncident, Incident
  <2>5. QED
    BY <1>4, <2>1, <2>2, <2>3, <2>4 DEF Admin, ServiceRestored
<1>5. CASE StabilizationEnds
  BY <1>5 DEF StabilizationEnds, TypeOK
<1>6. CASE Restart
  <2>1. restarts' \in 0..MaxRestarts
    BY <1>6, RestartsAssumption DEF Restart, TypeOK
  <2>2. QED
    BY <1>6, <2>1 DEF Restart, TypeOK
<1>7. CASE UNCHANGED vars
  BY <1>7 DEF vars, TypeOK
<1>8. QED
  BY <1>1, <1>2, <1>3, <1>4, <1>5, <1>6, <1>7 DEF Next

(* Type correctness of every reachable state.                              *)
THEOREM TypeCorrect == Spec => []TypeOK
BY TypeStep, InitTypeOK, PTL DEF Spec

-------------------------------------------------------------------------------
(* What each branch does to the fields the invariants speak of.            *)

(* A successful check outside maintenance keeps the incident and the       *)
(* window, resets the failures and counts itself or starts over.           *)
LEMMA CheckedFields ==
    ASSUME NEW s \in MonitorState, NEW c \in Config, NEW res \in Result
    PROVE  /\ Healthy(s, c, res).ActiveIncidentID = s.ActiveIncidentID
           /\ Healthy(s, c, res).ActiveMaintenanceID = s.ActiveMaintenanceID
           /\ Healthy(s, c, res).ConsecutiveFailures = 0
           /\ Healthy(s, c, res).ConsecutiveSuccesses = 0
           /\ Recovering(s, c, res).ActiveIncidentID = s.ActiveIncidentID
           /\ Recovering(s, c, res).ActiveMaintenanceID = s.ActiveMaintenanceID
           /\ Recovering(s, c, res).ConsecutiveFailures = 0
           /\ Recovering(s, c, res).ConsecutiveSuccesses
                = Bump(s.ConsecutiveSuccesses)
BY DEF Healthy, Recovering, Succeeded, MonitorState

(* A failed check outside maintenance keeps both as well, counts itself    *)
(* and resets the successes.                                               *)
LEMMA FailureFields ==
    ASSUME NEW s \in MonitorState
    PROVE  /\ StillOffline(s).ActiveIncidentID = s.ActiveIncidentID
           /\ StillOffline(s).ActiveMaintenanceID = s.ActiveMaintenanceID
           /\ StillOffline(s).ConsecutiveFailures = Bump(s.ConsecutiveFailures)
           /\ StillOffline(s).ConsecutiveSuccesses = 0
           /\ Suspect(s).ActiveIncidentID = s.ActiveIncidentID
           /\ Suspect(s).ActiveMaintenanceID = s.ActiveMaintenanceID
           /\ Suspect(s).ConsecutiveFailures = Bump(s.ConsecutiveFailures)
           /\ Suspect(s).ConsecutiveSuccesses = 0
BY DEF StillOffline, Suspect, Failed, MonitorState

(* Closing an incident forgets it and opening one names it; the window     *)
(* stays.                                                                  *)
LEMMA IncidentFields ==
    ASSUME NEW s \in MonitorState
    PROVE  /\ Recovered(s).ActiveIncidentID = None
           /\ Recovered(s).ActiveMaintenanceID = s.ActiveMaintenanceID
           /\ Recovered(s).ConsecutiveFailures = s.ConsecutiveFailures
           /\ Recovered(s).ConsecutiveSuccesses = 0
           /\ \A i : /\ Offline(s, i).ActiveIncidentID = i
                     /\ Offline(s, i).ActiveMaintenanceID = s.ActiveMaintenanceID
                     /\ Offline(s, i).ConsecutiveFailures
                          = s.ConsecutiveFailures
                     /\ Offline(s, i).ConsecutiveSuccesses
                          = s.ConsecutiveSuccesses
BY DEF Recovered, Offline, MonitorState

(* Inside a window the incident stays, except when the window finishes,    *)
(* which forgets both.                                                     *)
LEMMA MaintenanceFields ==
    ASSUME NEW s \in MonitorState
    PROVE  /\ MaintenanceUp(s).ActiveIncidentID = s.ActiveIncidentID
           /\ MaintenanceUp(s).ActiveMaintenanceID = s.ActiveMaintenanceID
           /\ MaintenanceUp(s).ConsecutiveFailures = 0
           /\ MaintenanceUp(s).ConsecutiveSuccesses
                = Bump(s.ConsecutiveSuccesses)
           /\ MaintenanceDown(s).ActiveIncidentID = s.ActiveIncidentID
           /\ MaintenanceDown(s).ActiveMaintenanceID = s.ActiveMaintenanceID
           /\ MaintenanceDown(s).ConsecutiveFailures = s.ConsecutiveFailures
           /\ MaintenanceDown(s).ConsecutiveSuccesses = 0
           /\ MaintenanceFinished(s).ActiveIncidentID = None
           /\ MaintenanceFinished(s).ActiveMaintenanceID = None
           /\ MaintenanceFinished(s).ConsecutiveFailures = s.ConsecutiveFailures
           /\ MaintenanceFinished(s).ConsecutiveSuccesses = 0
BY DEF MaintenanceUp, MaintenanceDown, MaintenanceFinished, MonitorState

(* Disabling changes the displayed state alone; entering and leaving a     *)
(* window touch the window and restart the count of successes.             *)
LEMMA OtherFields ==
    ASSUME NEW s \in MonitorState, NEW ok \in BOOLEAN
    PROVE  /\ Disabled(s).ActiveIncidentID = s.ActiveIncidentID
           /\ Disabled(s).ActiveMaintenanceID = s.ActiveMaintenanceID
           /\ Disabled(s).ConsecutiveFailures = s.ConsecutiveFailures
           /\ Disabled(s).ConsecutiveSuccesses = s.ConsecutiveSuccesses
           /\ ExitMaintenance(s, ok).ActiveIncidentID = s.ActiveIncidentID
           /\ ExitMaintenance(s, ok).ActiveMaintenanceID = None
           /\ ExitMaintenance(s, ok).ConsecutiveFailures
                = s.ConsecutiveFailures
           /\ ExitMaintenance(s, ok).ConsecutiveSuccesses = 0
           /\ \A m :
                /\ EnterMaintenance(s, m, ok).ActiveIncidentID
                     = s.ActiveIncidentID
                /\ EnterMaintenance(s, m, ok).ActiveMaintenanceID = m
                /\ EnterMaintenance(s, m, ok).ConsecutiveFailures
                     = s.ConsecutiveFailures
                /\ EnterMaintenance(s, m, ok).ConsecutiveSuccesses = 0
BY DEF Disabled, ExitMaintenance, EnterMaintenance, MonitorState

-------------------------------------------------------------------------------
(* The counters                                                            *)

(* Counting one more keeps the order of two counters.                      *)
LEMMA BumpMonotone ==
    \A n, k \in Count : /\ n <= k => Bump(n) <= Bump(k)
                        /\ 0 <= n
BY CountAssumption DEF Count, Bump

(* Every step keeps the counters within what was observed: a check adds to *)
(* both or resets both, and everything else leaves them or resets the      *)
(* stored one.                                                             *)
LEMMA CountersInductive ==
    TypeOK /\ CountersAreHonest /\ [Next]_vars => CountersAreHonest'
<1> SUFFICES ASSUME TypeOK, CountersAreHonest, [Next]_vars
             PROVE  CountersAreHonest'
  OBVIOUS
<1> USE BumpMonotone, CountFacts DEF CountersAreHonest
<1>a. /\ st.ConsecutiveFailures \in Count /\ st.ConsecutiveSuccesses \in Count
      /\ failureRun \in Count /\ successRun \in Count
      /\ st \in MonitorState /\ cfg \in Config /\ lastOK \in BOOLEAN
  BY ConfigsAssumption DEF TypeOK, MonitorState
<1>b. "fail" \in Result
  BY DEF Result
<1>1. CASE Tick
  <2>1. ASSUME NEW res \in Result, CheckUp(res) PROVE CountersAreHonest'
    BY <2>1, <1>a, CheckedFields DEF CheckUp, Check
  <2>2. ASSUME NEW res \in Result, CheckRecovering(res)
        PROVE  CountersAreHonest'
    BY <2>2, <1>a, CheckedFields DEF CheckRecovering, Check
  <2>3. ASSUME NEW res \in Result, CloseIncident(res) \/ DropIncident(res)
        PROVE  CountersAreHonest'
    BY <2>3, <1>a, CheckedFields, CheckedTypes, IncidentFields
       DEF CloseIncident, DropIncident, Check
  <2>4. ASSUME NEW res \in Result, CheckUpInMaintenance(res)
        PROVE  CountersAreHonest'
    BY <2>4, <1>a, MaintenanceFields DEF CheckUpInMaintenance, Check
  <2>5. ASSUME NEW res \in Result, FinishMaintenance(res)
        PROVE  CountersAreHonest'
    <3>1. MaintenanceUp(st) \in MonitorState
      BY <1>a, StateTypes
    <3>2. /\ MaintenanceFinished(MaintenanceUp(st)).ConsecutiveFailures = 0
          /\ MaintenanceFinished(MaintenanceUp(st)).ConsecutiveSuccesses = 0
      BY <3>1, <1>a, MaintenanceFields
    <3>3. QED
      BY <2>5, <3>2, <1>a DEF FinishMaintenance, Check
  <2>6. CASE CheckStillOffline
    <3>1. /\ st'.ConsecutiveFailures = Bump(st.ConsecutiveFailures)
          /\ st'.ConsecutiveSuccesses = 0
      BY <2>6, <1>a, FailureFields DEF CheckStillOffline
    <3>2. failureRun' = Bump(failureRun) /\ successRun' = 0
      BY <2>6 DEF CheckStillOffline, Check, Succeeds
    <3>3. QED
      BY <3>1, <3>2, <1>a DEF Count
  <2>7. CASE CheckSuspect
    BY <2>7, <1>a, FailureFields DEF CheckSuspect, Check, Succeeds
  <2>8. CASE CheckDownInMaintenance
    <3>1. failureRun <= Bump(failureRun) /\ Bump(failureRun) \in Count
      BY <1>a, CountAssumption DEF Bump, Count
    <3>2. failureRun' = Bump(failureRun) /\ successRun' = 0
      BY <2>8 DEF CheckDownInMaintenance, Check, Succeeds
    <3>3. st'.ConsecutiveFailures = st.ConsecutiveFailures
          /\ st'.ConsecutiveSuccesses = 0
      BY <2>8, <1>a, MaintenanceFields DEF CheckDownInMaintenance
    <3>4. QED
      BY <3>1, <3>2, <3>3, <1>a DEF Count
  <2>9. ASSUME NEW i \in IncidentID, OpenIncident(i) PROVE CountersAreHonest'
    <3>1. /\ st'.ConsecutiveFailures = Bump(st.ConsecutiveFailures)
          /\ st'.ConsecutiveSuccesses = 0
      <4>1. Suspect(st) \in MonitorState
        BY <1>a, StateTypes
      <4>2. st' = Offline(Suspect(st), i)
        BY <2>9 DEF OpenIncident
      <4>3. QED
        BY <4>1, <4>2, <1>a, FailureFields, IncidentFields
    <3>2. failureRun' = Bump(failureRun) /\ successRun' = 0
      BY <2>9 DEF OpenIncident, Check, Succeeds
    <3>3. QED
      BY <3>1, <3>2, <1>a DEF Count
  <2>10. QED
    BY <1>1, <2>1, <2>2, <2>3, <2>4, <2>5, <2>6, <2>7, <2>8, <2>9 DEF Tick
<1>2. CASE TickDisabled
  BY <1>2, <1>a, OtherFields DEF TickDisabled, ghosts
<1>3. CASE Deliver
  BY <1>3 DEF Deliver, DeliverNothing, DeliverAlert, store, ghosts
<1>4. CASE Admin
  <2>1. ASSUME NEW m \in MaintenanceID, NEW auto \in BOOLEAN,
               StartMaintenance(m, auto) \/ ScheduleMaintenance(m, auto)
        PROVE  CountersAreHonest'
    BY <2>1, <1>a, OtherFields
       DEF StartMaintenance, ScheduleMaintenance, ghosts
  <2>2. CASE EndMaintenance
    BY <2>2, <1>a, OtherFields DEF EndMaintenance, ghosts
  <2>3. CASE ToggleMonitoring \/ SaveMonitoring \/ SaveDiscord \/ ClearIncidents
    BY <2>3 DEF ToggleMonitoring, SaveMonitoring, SaveDiscord, ClearIncidents,
                ghosts
  <2>4. QED
    BY <1>4, <2>1, <2>2, <2>3 DEF Admin, ServiceRestored
<1>5. CASE StabilizationEnds \/ Restart \/ UNCHANGED vars
  BY <1>5 DEF StabilizationEnds, Restart, vars, store, ghosts
<1>6. QED
  BY <1>1, <1>2, <1>3, <1>4, <1>5 DEF Next

(* The failure and success counters never count more than the checks that  *)
(* really failed, or succeeded, in a row: an outage or a recovery is never *)
(* confirmed on less evidence than the threshold asks for, however         *)
(* maintenance, disabling and restarts come in between.                    *)
THEOREM HonestCounters == Spec => []CountersAreHonest
<1>1. Init => CountersAreHonest
  BY CountFacts, CountAssumption DEF Init, CountersAreHonest, FreshState, Count
<1>2. QED
  BY <1>1, TypeCorrect, CountersInductive, PTL DEF Spec

-------------------------------------------------------------------------------
(* The maintenance window                                                  *)

(* Every step that ends a window's record also takes it out of the state,  *)
(* and every step that puts one into the state activates its record first. *)
LEMMA WindowInductive ==
    TypeOK /\ WindowIsActive /\ [Next]_vars => WindowIsActive'
<1> SUFFICES ASSUME TypeOK, WindowIsActive, [Next]_vars PROVE WindowIsActive'
  OBVIOUS
<1> USE DEF WindowIsActive, InMaintenance, Window
<1>a. /\ st \in MonitorState /\ cfg \in Config /\ lastOK \in BOOLEAN
      /\ st.ActiveMaintenanceID \in MaintenanceID \cup {None}
      /\ maintenances \in [MaintenanceID -> Maintenance]
  BY ConfigsAssumption DEF TypeOK, MonitorState
<1>1. CASE Tick
  <2>1. ASSUME NEW res \in Result,
               CheckUp(res) \/ CheckRecovering(res)
        PROVE  WindowIsActive'
    BY <2>1, <1>a, CheckedFields DEF CheckUp, CheckRecovering
  <2>2. ASSUME NEW res \in Result, CloseIncident(res) \/ DropIncident(res)
        PROVE  WindowIsActive'
    <3>1. Recovering(st, cfg, res) \in MonitorState
      BY <1>a, CheckedTypes
    <3>2. Recovered(Recovering(st, cfg, res)).ActiveMaintenanceID
            = st.ActiveMaintenanceID
      BY <3>1, <1>a, CheckedFields, IncidentFields
    <3>3. QED
      BY <2>2, <3>2 DEF CloseIncident, DropIncident
  <2>3. ASSUME NEW res \in Result, CheckUpInMaintenance(res)
        PROVE  WindowIsActive'
    BY <2>3, <1>a, MaintenanceFields DEF CheckUpInMaintenance
  <2>4. ASSUME NEW res \in Result, FinishMaintenance(res)
        PROVE  WindowIsActive'
    <3>1. MaintenanceUp(st) \in MonitorState
      BY <1>a, StateTypes
    <3>2. st'.ActiveMaintenanceID = None
      BY <2>4, <3>1, MaintenanceFields DEF FinishMaintenance
    <3>3. QED
      BY <3>2
  <2>5. CASE CheckStillOffline \/ CheckSuspect
    BY <2>5, <1>a, FailureFields DEF CheckStillOffline, CheckSuspect
  <2>6. CASE CheckDownInMaintenance
    BY <2>6, <1>a, MaintenanceFields DEF CheckDownInMaintenance
  <2>7. ASSUME NEW i \in IncidentID, OpenIncident(i) PROVE WindowIsActive'
    <3>1. Suspect(st) \in MonitorState
      BY <1>a, StateTypes
    <3>2. Offline(Suspect(st), i).ActiveMaintenanceID = st.ActiveMaintenanceID
      BY <3>1, <1>a, FailureFields, IncidentFields
    <3>3. QED
      BY <2>7, <3>2 DEF OpenIncident
  <2>8. QED
    BY <1>1, <2>1, <2>2, <2>3, <2>4, <2>5, <2>6, <2>7 DEF Tick
<1>2. CASE TickDisabled
  BY <1>2, <1>a, OtherFields DEF TickDisabled
<1>3. CASE Deliver
  BY <1>3 DEF Deliver, DeliverNothing, DeliverAlert, store
<1>4. CASE Admin
  <2>1. ASSUME NEW m \in MaintenanceID, NEW auto \in BOOLEAN,
               StartMaintenance(m, auto)
        PROVE  WindowIsActive'
    <3>1. st'.ActiveMaintenanceID = m
      BY <2>1, <1>a, OtherFields DEF StartMaintenance
    <3>2. maintenances'[m].State = "active"
      BY <2>1, <1>a DEF StartMaintenance
    <3>3. QED
      BY <3>1, <3>2
  <2>2. ASSUME NEW m \in MaintenanceID, NEW auto \in BOOLEAN,
               ScheduleMaintenance(m, auto)
        PROVE  WindowIsActive'
    BY <2>2, <1>a DEF ScheduleMaintenance
  <2>3. CASE EndMaintenance
    BY <2>3, <1>a, OtherFields DEF EndMaintenance
  <2>4. CASE ToggleMonitoring \/ SaveMonitoring \/ SaveDiscord \/ ClearIncidents
    BY <2>4 DEF ToggleMonitoring, SaveMonitoring, SaveDiscord, ClearIncidents
  <2>5. QED
    BY <1>4, <2>1, <2>2, <2>3, <2>4 DEF Admin, ServiceRestored
<1>5. CASE StabilizationEnds \/ Restart \/ UNCHANGED vars
  BY <1>5 DEF StabilizationEnds, Restart, vars, store
<1>6. QED
  BY <1>1, <1>2, <1>3, <1>4, <1>5 DEF Next

(* Whenever the machine suppresses outages, it is because of a window that *)
(* an administrator started and nobody ended.                              *)
THEOREM SuppressionHasWindow == Spec => []WindowIsActive
<1>1. Init => WindowIsActive
  BY DEF Init, WindowIsActive, InMaintenance, FreshState
<1>2. QED
  BY <1>1, TypeCorrect, WindowInductive, PTL DEF Spec

-------------------------------------------------------------------------------
(* The displayed state                                                     *)

(* The states of a window.                                                 *)
Maintaining == {"maintenance-online", "maintenance-offline"}

(* The state each branch shows.                                            *)
LEMMA ShownStates ==
    ASSUME NEW s \in MonitorState, NEW c \in Config, NEW res \in Result,
           NEW ok \in BOOLEAN
    PROVE  /\ Healthy(s, c, res).State \in {"online", "degraded"}
           /\ Recovering(s, c, res).State = "recovering"
           /\ Recovered(s).State = "online"
           /\ StillOffline(s).State = "offline"
           /\ Suspect(s).State = "suspect"
           /\ \A i : Offline(s, i).State = "offline"
           /\ MaintenanceUp(s).State \in Maintaining
           /\ MaintenanceDown(s).State \in Maintaining
           /\ MaintenanceFinished(s).State = "online"
           /\ Disabled(s).State = "disabled"
           /\ \A m : EnterMaintenance(s, m, ok).State \in Maintaining
           /\ ExitMaintenance(s, ok).State \in {"online", "suspect"}
<1> USE DEF MonitorState, Maintaining
<1>1. Succeeded(s, c, res) \in MonitorState
  BY CountFacts DEF Succeeded, FirstFailure
<1>2. Failed(s) \in MonitorState
  BY CountFacts DEF Failed
<1>3. /\ Healthy(s, c, res).State \in {"online", "degraded"}
      /\ Recovering(s, c, res).State = "recovering"
  BY <1>1 DEF Healthy, Recovering
<1>4. StillOffline(s).State = "offline" /\ Suspect(s).State = "suspect"
  BY <1>2 DEF StillOffline, Suspect
<1>5. /\ Recovered(s).State = "online" /\ Disabled(s).State = "disabled"
      /\ \A i : Offline(s, i).State = "offline"
  BY DEF Recovered, Disabled, Offline
<1>6. /\ MaintenanceUp(s).State \in Maintaining
      /\ MaintenanceDown(s).State \in Maintaining
      /\ MaintenanceFinished(s).State = "online"
  BY DEF MaintenanceUp, MaintenanceDown, MaintenanceFinished
<1>7. /\ \A m : EnterMaintenance(s, m, ok).State \in Maintaining
      /\ ExitMaintenance(s, ok).State \in {"online", "suspect"}
  BY DEF EnterMaintenance, ExitMaintenance
<1>8. QED
  BY <1>3, <1>4, <1>5, <1>6, <1>7

(* The two properties of the displayed state, as one invariant.            *)
Shown == OutageStatesHaveIncident /\ MaintenanceStatesHaveWindow

(* A branch that shows an outage has found or opened an incident; one that *)
(* shows maintenance has found or entered a window.                        *)
LEMMA ShownInductive == TypeOK /\ Shown /\ [Next]_vars => Shown'
<1> SUFFICES ASSUME TypeOK, Shown, [Next]_vars PROVE Shown'
  OBVIOUS
<1> USE DEF Shown, OutageStatesHaveIncident, MaintenanceStatesHaveWindow,
            InMaintenance, HasIncident, Maintaining
<1>a. /\ st \in MonitorState /\ cfg \in Config /\ lastOK \in BOOLEAN
  BY ConfigsAssumption DEF TypeOK
<1>1. CASE Tick
  <2>1. ASSUME NEW res \in Result, CheckUp(res) \/ CheckRecovering(res)
        PROVE  Shown'
    BY <2>1, <1>a, CheckedFields, ShownStates DEF CheckUp, CheckRecovering
  <2>2. ASSUME NEW res \in Result, CloseIncident(res) \/ DropIncident(res)
        PROVE  Shown'
    <3>1. Recovering(st, cfg, res) \in MonitorState
      BY <1>a, CheckedTypes
    <3>2. /\ Recovered(Recovering(st, cfg, res)).ActiveMaintenanceID
               = st.ActiveMaintenanceID
          /\ Recovered(Recovering(st, cfg, res)).State = "online"
      BY <3>1, <1>a, CheckedFields, IncidentFields DEF Recovered, MonitorState
    <3>3. QED
      BY <2>2, <3>2 DEF CloseIncident, DropIncident
  <2>3. ASSUME NEW res \in Result, CheckUpInMaintenance(res) PROVE Shown'
    BY <2>3, <1>a, MaintenanceFields, ShownStates DEF CheckUpInMaintenance
  <2>4. ASSUME NEW res \in Result, FinishMaintenance(res) PROVE Shown'
    <3>1. MaintenanceUp(st) \in MonitorState
      BY <1>a, StateTypes
    <3>2. st'.ActiveMaintenanceID = None /\ st'.State = "online"
      BY <2>4, <3>1, <1>a, MaintenanceFields, ShownStates DEF FinishMaintenance
    <3>3. QED
      BY <3>2
  <2>5. CASE CheckStillOffline
    BY <2>5, <1>a, FailureFields DEF CheckStillOffline, StillOffline, Failed,
       MonitorState
  <2>6. CASE CheckSuspect
    BY <2>6, <1>a, FailureFields DEF CheckSuspect, Suspect, Failed, MonitorState
  <2>7. CASE CheckDownInMaintenance
    BY <2>7, <1>a, MaintenanceFields DEF CheckDownInMaintenance,
       MaintenanceDown, MonitorState
  <2>8. ASSUME NEW i \in IncidentID, OpenIncident(i) PROVE Shown'
    <3>1. Suspect(st) \in MonitorState
      BY <1>a, StateTypes
    <3>2. /\ Offline(Suspect(st), i).ActiveMaintenanceID
               = st.ActiveMaintenanceID
          /\ Offline(Suspect(st), i).ActiveIncidentID = i
          /\ Offline(Suspect(st), i).State = "offline"
      BY <3>1, <1>a, FailureFields, IncidentFields DEF Offline, MonitorState
    <3>3. QED
      BY <2>8, <3>2, NoneAssumption DEF OpenIncident
  <2>9. QED
    BY <1>1, <2>1, <2>2, <2>3, <2>4, <2>5, <2>6, <2>7, <2>8 DEF Tick
<1>2. CASE TickDisabled
  BY <1>2, <1>a, OtherFields DEF TickDisabled, Disabled, MonitorState
<1>3. CASE Deliver
  BY <1>3 DEF Deliver, DeliverNothing, DeliverAlert, store
<1>4. CASE Admin
  <2>1. ASSUME NEW m \in MaintenanceID, NEW auto \in BOOLEAN,
               StartMaintenance(m, auto)
        PROVE  Shown'
    <3>1. /\ st'.ActiveMaintenanceID = m
          /\ st'.ActiveIncidentID = st.ActiveIncidentID
          /\ st'.State \in Maintaining
      BY <2>1, <1>a, OtherFields DEF StartMaintenance, EnterMaintenance,
         MonitorState
    <3>2. QED
      BY <3>1, NoneAssumption
  <2>2. ASSUME NEW m \in MaintenanceID, NEW auto \in BOOLEAN,
               ScheduleMaintenance(m, auto)
        PROVE  Shown'
    BY <2>2 DEF ScheduleMaintenance
  <2>3. CASE EndMaintenance
    <3>1. /\ st'.ActiveMaintenanceID = None
          /\ st'.State \in {"online", "suspect"}
      BY <2>3, <1>a, OtherFields DEF EndMaintenance, ExitMaintenance,
         MonitorState
    <3>2. QED
      BY <3>1
  <2>4. CASE ToggleMonitoring \/ SaveMonitoring \/ SaveDiscord \/ ClearIncidents
    BY <2>4 DEF ToggleMonitoring, SaveMonitoring, SaveDiscord, ClearIncidents
  <2>5. QED
    BY <1>4, <2>1, <2>2, <2>3, <2>4 DEF Admin, ServiceRestored
<1>5. CASE StabilizationEnds \/ Restart \/ UNCHANGED vars
  BY <1>5 DEF StabilizationEnds, Restart, vars, store
<1>6. QED
  BY <1>1, <1>2, <1>3, <1>4, <1>5 DEF Next

(* What the displayed state says holds in every reachable state.           *)
LEMMA ShownInvariant == Spec => []Shown
<1>1. Init => Shown
  BY DEF Init, Shown, OutageStatesHaveIncident, MaintenanceStatesHaveWindow,
         InMaintenance, HasIncident, FreshState
<1>2. QED
  BY <1>1, TypeCorrect, ShownInductive, PTL DEF Spec

(* What the dashboard reports has a record behind it: an outage an         *)
(* incident, maintenance an open window and the other way round, whatever  *)
(* windows, toggles and restarts come in between.                          *)
THEOREM RecordsBackStates == Spec => []StatesFitRecords
<1>1. Shown /\ WindowIsActive => StatesFitRecords
  BY DEF Shown, StatesFitRecords
<1>2. QED
  BY <1>1, ShownInvariant, SuppressionHasWindow, PTL

-------------------------------------------------------------------------------
(* Incidents and alerts                                                    *)

(* What the alerts need to be inductive.                                   *)
AlertInv ==
    /\ SoleOpenIncident
    /\ AlertsAtMostOnce
    /\ NotifiedMeansSent
    /\ PendingIsDue

(* Every step preserves the four parts of AlertInv together. None is       *)
(* inductive alone: an alert is sent once because the effect that waits is *)
(* due, it is due because an incident's ID is new when it opens and leaves *)
(* the state when it closes, and a recovery alert is due only because the  *)
(* record does not claim an outage alert that was not sent.                *)
LEMMA AlertsInductive ==
    TypeOK /\ AlertInv /\ [Next]_vars => AlertInv'
<1> SUFFICES ASSUME TypeOK, AlertInv, [Next]_vars PROVE AlertInv'
  OBVIOUS
<1> USE DEF HasIncident, InMaintenance, Active, Window
<1>a. /\ st \in MonitorState /\ cfg \in Config /\ lastOK \in BOOLEAN
      /\ st.ActiveIncidentID \in IncidentID \cup {None}
      /\ incidents \in [IncidentID -> Incident]
      /\ sent \in [Phase -> [IncidentID -> 0..2]]
      /\ "outage" \in Phase /\ "recovery" \in Phase /\ "none" \notin Phase
      /\ "maintenance_recovery" \notin Phase
      /\ \A p \in Phase, i \in IncidentID : sent[p][i] \in 0..2
  BY ConfigsAssumption DEF TypeOK, MonitorState, Phase
<1>b. \A inc \in Incident :
        /\ ~Closed(inc).Open /\ Closed(inc).Stored = inc.Stored
        /\ Closed(inc).OutageNotified = inc.OutageNotified
        /\ ~ClosedQuietly(inc).Open /\ ClosedQuietly(inc).Stored = inc.Stored
        /\ ClosedQuietly(inc).OutageNotified = inc.OutageNotified
        /\ Reopened(inc).Open /\ Reopened(inc).Stored = inc.Stored
        /\ Reopened(inc).OutageNotified = inc.OutageNotified
  BY DEF Closed, ClosedQuietly, Reopened, Incident
<1>c. ASSUME st'.ActiveIncidentID = st.ActiveIncidentID,
             UNCHANGED <<incidents, pending, issued, sent>>
      PROVE  AlertInv'
  BY <1>c DEF AlertInv, SoleOpenIncident, AlertsAtMostOnce,
              NotifiedMeansSent, PendingIsDue
<1>1. CASE Tick
  <2>1. ASSUME NEW res \in Result,
               \/ CheckUp(res) \/ CheckRecovering(res)
               \/ CheckUpInMaintenance(res)
        PROVE  AlertInv'
    BY <2>1, <1>a, <1>c, CheckedFields, MaintenanceFields
       DEF CheckUp, CheckRecovering, CheckUpInMaintenance, Check
  <2>2. ASSUME NEW res \in Result, CloseIncident(res) PROVE AlertInv'
    <3>1. Recovering(st, cfg, res) \in MonitorState
      BY <1>a, CheckedTypes
    <3>2. st'.ActiveIncidentID = None
      BY <2>2, <3>1, IncidentFields DEF CloseIncident
    <3>3. /\ Active \in IncidentID
          /\ incidents' = [incidents EXCEPT ![Active] = Closed(@)]
          /\ UNCHANGED <<issued, sent>>
          /\ \/ pending' = NoEffect
             \/ /\ pending' = [kind |-> "recovery", id |-> Active]
                /\ incidents[Active].OutageNotified
      BY <2>2, <1>a DEF CloseIncident, Check
    <3>4. SoleOpenIncident'
      BY <3>2, <3>3, <1>a, <1>b, NoneAssumption DEF AlertInv, SoleOpenIncident
    <3>5. AlertsAtMostOnce'
      BY <3>2, <3>3, <1>a, <1>b, NoneAssumption
         DEF AlertInv, AlertsAtMostOnce, SoleOpenIncident
    <3>6. NotifiedMeansSent'
      BY <3>3, <1>a, <1>b DEF AlertInv, NotifiedMeansSent
    <3>7. PendingIsDue'
      <4>1. sent["recovery"][Active] = 0 /\ Active \in issued
        BY <3>3, <1>a, NoneAssumption
           DEF AlertInv, AlertsAtMostOnce, PendingIsDue
      <4>2. QED
        BY <3>2, <3>3, <4>1, <1>a, NoneAssumption
           DEF AlertInv, PendingIsDue, NotifiedMeansSent, NoEffect
    <3>8. QED
      BY <3>4, <3>5, <3>6, <3>7 DEF AlertInv
  <2>3. ASSUME NEW res \in Result, DropIncident(res) PROVE AlertInv'
    <3>1. Recovering(st, cfg, res) \in MonitorState
      BY <1>a, CheckedTypes
    <3>2. st'.ActiveIncidentID = None
      BY <2>3, <3>1, IncidentFields DEF DropIncident
    <3>3. /\ Active \in IncidentID /\ ~incidents[Active].Stored
          /\ pending = NoEffect
          /\ UNCHANGED <<incidents, pending, issued, sent>>
      BY <2>3, <1>a DEF DropIncident, Check
    <3>4. QED
      BY <3>2, <3>3, <1>a, NoneAssumption
         DEF AlertInv, SoleOpenIncident, AlertsAtMostOnce,
             NotifiedMeansSent, PendingIsDue, NoEffect
  <2>4. ASSUME NEW res \in Result, FinishMaintenance(res) PROVE AlertInv'
    <3>1. MaintenanceUp(st) \in MonitorState
      BY <1>a, StateTypes
    <3>2. st'.ActiveIncidentID = None
      BY <2>4, <3>1, MaintenanceFields DEF FinishMaintenance
    <3>3. /\ UNCHANGED <<issued, sent>>
          /\ pending'.kind = "maintenance_recovery"
          /\ incidents' = IF HasIncident /\ incidents[Active].Stored
                          THEN [incidents EXCEPT ![Active] = ClosedQuietly(@)]
                          ELSE incidents
      BY <2>4, <1>a DEF FinishMaintenance, Check
    <3>4. SoleOpenIncident'
      BY <3>2, <3>3, <1>a, <1>b, NoneAssumption DEF AlertInv, SoleOpenIncident
    <3>5. AlertsAtMostOnce'
      BY <3>2, <3>3, <3>4, <1>a, NoneAssumption
         DEF AlertInv, AlertsAtMostOnce, SoleOpenIncident
    <3>6. NotifiedMeansSent'
      BY <3>3, <1>a, <1>b DEF AlertInv, NotifiedMeansSent
    <3>7. PendingIsDue'
      BY <3>2, <3>3, <1>a DEF AlertInv, PendingIsDue
    <3>8. QED
      BY <3>4, <3>5, <3>6, <3>7 DEF AlertInv
  <2>5. CASE CheckStillOffline
    <3>1. st'.ActiveIncidentID = st.ActiveIncidentID
      BY <2>5, <1>a, FailureFields DEF CheckStillOffline
    <3>2. /\ Active \in IncidentID
          /\ UNCHANGED <<issued, sent, pending>>
          /\ incidents' = IF incidents[Active].Stored
                          THEN [incidents EXCEPT ![Active] = Reopened(@)]
                          ELSE incidents
      BY <2>5, <1>a DEF CheckStillOffline, Check
    <3>3. QED
      BY <3>1, <3>2, <1>a, <1>b
         DEF AlertInv, SoleOpenIncident, AlertsAtMostOnce,
             NotifiedMeansSent, PendingIsDue
  <2>6. CASE CheckSuspect \/ CheckDownInMaintenance
    BY <2>6, <1>a, <1>c, FailureFields, MaintenanceFields
       DEF CheckSuspect, CheckDownInMaintenance, Check
  <2>7. ASSUME NEW i \in IncidentID, OpenIncident(i) PROVE AlertInv'
    <3>1. Suspect(st) \in MonitorState
      BY <1>a, StateTypes
    <3>2. st'.ActiveIncidentID = i /\ st.ActiveIncidentID = None
      BY <2>7, <3>1, IncidentFields DEF OpenIncident
    <3>3. /\ i \notin issued /\ issued' = issued \cup {i}
          /\ incidents' = [incidents EXCEPT ![i] = NewIncident]
          /\ UNCHANGED sent
          /\ \/ pending' = NoEffect
             \/ pending' = [kind |-> "outage", id |-> i]
      BY <2>7 DEF OpenIncident, Check
    <3>4. sent["outage"][i] = 0 /\ sent["recovery"][i] = 0
      BY <3>3, <1>a DEF AlertInv, PendingIsDue, AlertsAtMostOnce
    <3>5. SoleOpenIncident'
      BY <3>2, <3>3, <1>a, NoneAssumption
         DEF AlertInv, SoleOpenIncident, NewIncident
    <3>6. AlertsAtMostOnce'
      BY <3>2, <3>3, <3>4, <1>a, NoneAssumption
         DEF AlertInv, AlertsAtMostOnce, SoleOpenIncident
    <3>7. NotifiedMeansSent'
      BY <3>3, <1>a DEF AlertInv, NotifiedMeansSent, NewIncident
    <3>8. PendingIsDue'
      BY <3>2, <3>3, <3>4, <1>a DEF AlertInv, PendingIsDue, NoEffect
    <3>9. QED
      BY <3>5, <3>6, <3>7, <3>8 DEF AlertInv
  <2>8. QED
    BY <1>1, <2>1, <2>2, <2>3, <2>4, <2>5, <2>6, <2>7 DEF Tick
<1>2. CASE TickDisabled
  BY <1>2, <1>a, <1>c, OtherFields DEF TickDisabled, memory, ghosts
<1>3. CASE Deliver
  <2>1. CASE DeliverNothing
    BY <2>1, <1>a
       DEF DeliverNothing, store, ghosts, AlertInv, SoleOpenIncident,
           AlertsAtMostOnce, NotifiedMeansSent, PendingIsDue, NoEffect
  <2>2. ASSUME NEW success \in BOOLEAN, DeliverAlert(success)
        PROVE  AlertInv'
    <3> DEFINE p == pending.kind
               k == pending.id
    <3>1. /\ p \in Phase /\ k \in IncidentID /\ k \in issued
          /\ sent[p][k] = 0 /\ pending' = NoEffect
          /\ UNCHANGED <<st, issued>>
      BY <2>2 DEF DeliverAlert, TypeOK, Effect, NoEffect, AlertInv,
                  PendingIsDue, Phase
    <3>2. \A i \in IncidentID :
            /\ incidents'[i].Open = incidents[i].Open
            /\ incidents'[i].Stored = incidents[i].Stored
            /\ incidents'[i].OutageNotified =
                 IF i = k /\ p = "outage" THEN success
                 ELSE incidents[i].OutageNotified
      BY <2>2, <3>1, <1>a DEF DeliverAlert, Incident
    <3>3. \A q \in Phase, i \in IncidentID :
            sent'[q][i] = IF success /\ q = p /\ i = k THEN 1 ELSE sent[q][i]
      BY <2>2, <3>1, <1>a DEF DeliverAlert
    <3>4. SoleOpenIncident'
      BY <3>1, <3>2 DEF AlertInv, SoleOpenIncident
    <3>5. AlertsAtMostOnce'
      BY <3>1, <3>2, <3>3, <3>4, <1>a
         DEF AlertInv, AlertsAtMostOnce, PendingIsDue, SoleOpenIncident, Phase
    <3>6. NotifiedMeansSent'
      BY <3>1, <3>2, <3>3, <1>a DEF AlertInv, NotifiedMeansSent
    <3>7. PendingIsDue'
      BY <3>1, <3>3, <1>a DEF AlertInv, PendingIsDue, NoEffect
    <3>8. QED
      BY <3>4, <3>5, <3>6, <3>7 DEF AlertInv
  <2>3. QED
    BY <1>3, <2>1, <2>2 DEF Deliver
<1>4. CASE Admin
  <2>1. ASSUME NEW m \in MaintenanceID, NEW auto \in BOOLEAN,
               StartMaintenance(m, auto) \/ ScheduleMaintenance(m, auto)
        PROVE  AlertInv'
    BY <2>1, <1>a, <1>c, OtherFields
       DEF StartMaintenance, ScheduleMaintenance, memory, ghosts
  <2>2. CASE EndMaintenance
    BY <2>2, <1>a, <1>c, OtherFields DEF EndMaintenance, memory, ghosts
  <2>3. CASE ToggleMonitoring \/ SaveMonitoring \/ SaveDiscord
    BY <2>3, <1>c
       DEF ToggleMonitoring, SaveMonitoring, SaveDiscord, memory, ghosts
  <2>4. CASE ClearIncidents
    BY <2>4, <1>a
       DEF ClearIncidents, memory, ghosts, NoIncident, AlertInv,
           SoleOpenIncident, AlertsAtMostOnce, NotifiedMeansSent, PendingIsDue
  <2>5. QED
    BY <1>4, <2>1, <2>2, <2>3, <2>4 DEF Admin, ServiceRestored
<1>5. CASE StabilizationEnds \/ UNCHANGED vars
  BY <1>5, <1>c DEF StabilizationEnds, vars, store, memory, ghosts
<1>6. CASE Restart
  BY <1>6, <1>a
     DEF Restart, store, AlertInv, SoleOpenIncident, AlertsAtMostOnce,
         NotifiedMeansSent, PendingIsDue, NoEffect
<1>7. QED
  BY <1>1, <1>2, <1>3, <1>4, <1>5, <1>6 DEF Next

(* After the setup there is no incident and no alert.                      *)
LEMMA InitAlerts == Init => AlertInv
<1> SUFFICES ASSUME Init PROVE AlertInv
  OBVIOUS
<1>1. "outage" \in Phase /\ "recovery" \in Phase /\ "none" \notin Phase
  BY DEF Phase
<1>2. \A p \in Phase, i \in IncidentID : sent[p][i] = 0
  BY DEF Init
<1>3. QED
  BY <1>1, <1>2, NoneAssumption
     DEF Init, AlertInv, SoleOpenIncident, AlertsAtMostOnce,
         NotifiedMeansSent, PendingIsDue, NoIncident, NoEffect, FreshState,
         HasIncident, Active

(* The strengthened invariant of incidents and alerts holds in every       *)
(* reachable state.                                                        *)
LEMMA AlertInvariant == Spec => []AlertInv
BY InitAlerts, TypeCorrect, AlertsInductive, PTL DEF Spec

(* One outage alert and one recovery alert per incident, the recovery only *)
(* after the outage and only once the incident is over, for any number of  *)
(* incidents, windows and restarts and any change of the settings.         *)
THEOREM AlertsOnce == Spec => []AlertsAtMostOnce
<1>1. AlertInv => AlertsAtMostOnce
  BY DEF AlertInv
<1>2. QED
  BY <1>1, AlertInvariant, PTL

(* The records never claim an alert that no webhook accepted, and a        *)
(* waiting alert was not delivered before; a waiting recovery alert        *)
(* belongs to an incident that is over and whose outage was announced.     *)
THEOREM RecordsBackAlerts == Spec => []AlertsFitRecords
<1>1. AlertInv => AlertsFitRecords
  BY DEF AlertInv, AlertsFitRecords
<1>2. QED
  BY <1>1, AlertInvariant, PTL

(* The record of the active incident is open and no other one is.          *)
THEOREM OneOpenIncident == Spec => []SoleOpenIncident
<1>1. AlertInv => SoleOpenIncident
  BY DEF AlertInv
<1>2. QED
  BY <1>1, AlertInvariant, PTL

-------------------------------------------------------------------------------
(* What a step may do to an incident.  The three action properties follow  *)
(* from the invariants above.                                              *)

(* The steps of OpensOnlyWhenConfirmed, ClosesOnlyWhenConfirmed and        *)
(* OverStaysOver.                                                          *)
Opening ==
    \A i \in IncidentID : ~incidents[i].Open /\ incidents'[i].Open =>
          /\ failureRun' >= cfg.FailureThreshold
          /\ ~InMaintenance /\ ~stabilizing
Closing ==
    \A i \in IncidentID :
          incidents[i].Open /\ incidents'[i].Stored /\ ~incidents'[i].Open
              => successRun' >= cfg.RecoveryThreshold
Staying ==
    \A i \in issued : st.ActiveIncidentID # i =>
          st'.ActiveIncidentID # i /\ ~incidents'[i].Open

Known == TypeOK /\ CountersAreHonest /\ SoleOpenIncident

(* A step that is not a check opens no incident and closes none that stays *)
(* stored.                                                                 *)
LEMMA QuietSteps ==
    ASSUME TypeOK,
           \/ TickDisabled \/ Deliver \/ Admin \/ StabilizationEnds
           \/ Restart \/ UNCHANGED vars
    PROVE  \A i \in IncidentID :
              /\ incidents'[i].Open => incidents[i].Open
              /\ incidents'[i].Stored => incidents'[i].Open = incidents[i].Open
<1> USE DEF TypeOK, Incident, store, memory, ghosts, vars
<1>1. CASE Deliver
  <2>1. CASE DeliverNothing
    BY <2>1 DEF DeliverNothing
  <2>2. ASSUME NEW success \in BOOLEAN, DeliverAlert(success)
        PROVE  \A i \in IncidentID : incidents'[i].Open = incidents[i].Open
    BY <2>2 DEF DeliverAlert
  <2>3. QED
    BY <1>1, <2>1, <2>2 DEF Deliver
<1>2. CASE Admin
  <2>1. CASE ClearIncidents
    BY <2>1 DEF ClearIncidents, NoIncident
  <2>2. CASE UNCHANGED incidents
    BY <2>2
  <2>3. QED
    BY <1>2, <2>1, <2>2
       DEF Admin, StartMaintenance, ScheduleMaintenance, EndMaintenance,
           ServiceRestored, ToggleMonitoring, SaveMonitoring, SaveDiscord
<1>3. CASE TickDisabled \/ StabilizationEnds \/ Restart \/ UNCHANGED vars
  BY <1>3 DEF TickDisabled, StabilizationEnds, Restart
<1>4. QED
  BY <1>1, <1>2, <1>3

(* A check opens an incident only in OpenIncident, and closes one only in  *)
(* CloseIncident and FinishMaintenance; each asks for its threshold.       *)
LEMMA CheckSteps == ASSUME Known, Tick PROVE Opening /\ Closing
<1> USE BumpMonotone, CountFacts
        DEF Known, CountersAreHonest, SoleOpenIncident, HasIncident,
            InMaintenance, Active, Window, Opening, Closing
<1>a. /\ st \in MonitorState /\ cfg \in Config
      /\ st.ConsecutiveFailures \in Count /\ st.ConsecutiveSuccesses \in Count
      /\ failureRun \in Count /\ successRun \in Count
      /\ cfg.FailureThreshold \in Count /\ cfg.RecoveryThreshold \in Count
      /\ st.ActiveIncidentID \in IncidentID \cup {None}
      /\ incidents \in [IncidentID -> Incident]
  BY ConfigsAssumption DEF TypeOK, MonitorState, Config
<1>b. \A n \in Count : n \in Nat
  BY CountAssumption DEF Count
<1>1. ASSUME NEW res \in Result,
             CheckUp(res) \/ CheckRecovering(res) \/ DropIncident(res)
             \/ CheckUpInMaintenance(res)
      PROVE  Opening /\ Closing
  BY <1>1, <1>a
     DEF CheckUp, CheckRecovering, DropIncident, CheckUpInMaintenance
<1>2. CASE CheckSuspect \/ CheckDownInMaintenance
  BY <1>2, <1>a DEF CheckSuspect, CheckDownInMaintenance
<1>3. CASE CheckStillOffline
  BY <1>3, <1>a, NoneAssumption DEF CheckStillOffline, Reopened, Incident
<1>4. ASSUME NEW i \in IncidentID, OpenIncident(i)
      PROVE  Opening /\ Closing
  <2>1. failureRun' = Bump(failureRun)
    BY <1>4 DEF OpenIncident, Check, Succeeds
  <2>2. Suspect(st).ConsecutiveFailures = Bump(st.ConsecutiveFailures)
    BY <1>a, FailureFields
  <2>3. failureRun' >= cfg.FailureThreshold /\ ~InMaintenance /\ ~stabilizing
    <3>1. Bump(st.ConsecutiveFailures) >= cfg.FailureThreshold
      BY <1>4, <2>2 DEF OpenIncident, ConfirmsOutage
    <3>2. Bump(st.ConsecutiveFailures) <= Bump(failureRun)
      BY <1>a
    <3>3. QED
      BY <1>4, <1>a, <1>b, <2>1, <3>1, <3>2 DEF OpenIncident, ConfirmsOutage
  <2>4. Closing
    BY <1>4, <1>a DEF OpenIncident, NewIncident
  <2>5. QED
    BY <2>3, <2>4
<1>5. ASSUME NEW res \in Result, Succeeds(res), Check(res),
             Bump(st.ConsecutiveSuccesses) >= cfg.RecoveryThreshold
      PROVE  Closing
  <2>1. successRun' = Bump(successRun)
    BY <1>5 DEF Check
  <2>2. Bump(st.ConsecutiveSuccesses) <= Bump(successRun)
    BY <1>a
  <2>3. QED
    BY <1>5, <1>a, <1>b, <2>1, <2>2
<1>6. ASSUME NEW res \in Result, CloseIncident(res)
      PROVE  Opening /\ Closing
  <2>1. Bump(st.ConsecutiveSuccesses) >= cfg.RecoveryThreshold
    BY <1>6, <1>a, CheckedFields DEF CloseIncident, ConfirmsRecovery
  <2>2. Closing
    BY <1>5, <1>6, <2>1 DEF CloseIncident
  <2>3. Opening
    BY <1>6, <1>a DEF CloseIncident, Closed, Incident
  <2>4. QED
    BY <2>2, <2>3
<1>7. ASSUME NEW res \in Result, FinishMaintenance(res)
      PROVE  Opening /\ Closing
  <2>1. Bump(st.ConsecutiveSuccesses) >= cfg.RecoveryThreshold
    BY <1>7, <1>a, MaintenanceFields
       DEF FinishMaintenance, FinishesMaintenance
  <2>2. Closing
    BY <1>5, <1>7, <2>1 DEF FinishMaintenance
  <2>3. Opening
    BY <1>7, <1>a DEF FinishMaintenance, ClosedQuietly, Incident
  <2>4. QED
    BY <2>2, <2>3
<1>8. QED
  BY <1>1, <1>2, <1>3, <1>4, <1>6, <1>7 DEF Tick

(* So does every step.                                                     *)
LEMMA StepsConfirm == ASSUME Known, [Next]_vars PROVE Opening /\ Closing
<1>1. CASE Tick
  BY <1>1, CheckSteps
<1>2. CASE \/ TickDisabled \/ Deliver \/ Admin \/ StabilizationEnds
           \/ Restart \/ UNCHANGED vars
  BY <1>2, QuietSteps DEF Known, Opening, Closing
<1> QED
  BY <1>1, <1>2 DEF Next

(* The active incident of a step is the one before it, a new one or none.  *)
LEMMA ActiveSteps ==
    ASSUME TypeOK, [Next]_vars
    PROVE  \/ st'.ActiveIncidentID = st.ActiveIncidentID
           \/ st'.ActiveIncidentID = None
           \/ st'.ActiveIncidentID \notin issued
<1> USE CheckedFields, FailureFields, IncidentFields, MaintenanceFields,
        OtherFields
<1>a. st \in MonitorState /\ cfg \in Config /\ lastOK \in BOOLEAN
  BY ConfigsAssumption DEF TypeOK
<1>b. \A c \in Config, res \in Result : Recovering(st, c, res) \in MonitorState
  BY <1>a, CheckedTypes
<1>c. Suspect(st) \in MonitorState /\ MaintenanceUp(st) \in MonitorState
  BY <1>a, StateTypes
<1>1. ASSUME NEW res \in Result,
             \/ CheckUp(res) \/ CheckRecovering(res) \/ CloseIncident(res)
             \/ DropIncident(res) \/ CheckUpInMaintenance(res)
             \/ FinishMaintenance(res)
      PROVE  st'.ActiveIncidentID \in {st.ActiveIncidentID, None}
  BY <1>1, <1>a, <1>b, <1>c
     DEF CheckUp, CheckRecovering, CloseIncident, DropIncident,
         CheckUpInMaintenance, FinishMaintenance
<1>2. CASE CheckStillOffline \/ CheckSuspect \/ CheckDownInMaintenance
  BY <1>2, <1>a DEF CheckStillOffline, CheckSuspect, CheckDownInMaintenance
<1>3. ASSUME NEW i \in IncidentID, OpenIncident(i)
      PROVE  st'.ActiveIncidentID \notin issued
  BY <1>3, <1>c DEF OpenIncident
<1>4. CASE TickDisabled
  BY <1>4, <1>a DEF TickDisabled
<1>5. CASE Deliver
  BY <1>5 DEF Deliver, DeliverAlert, DeliverNothing, store
<1>6. CASE Admin
  BY <1>6, <1>a
     DEF Admin, StartMaintenance, ScheduleMaintenance, EndMaintenance,
         ServiceRestored, ToggleMonitoring, SaveMonitoring, SaveDiscord,
         ClearIncidents
<1>7. CASE StabilizationEnds \/ Restart \/ UNCHANGED vars
  BY <1>7 DEF StabilizationEnds, Restart, vars, store
<1>8. QED
  BY <1>1, <1>2, <1>3, <1>4, <1>5, <1>6, <1>7 DEF Next, Tick

(* No step takes up an incident that is over.                              *)
LEMMA StepsStay == ASSUME Known, Known', [Next]_vars PROVE Staying
<1> SUFFICES ASSUME NEW i \in issued, st.ActiveIncidentID # i
             PROVE  st'.ActiveIncidentID # i /\ ~incidents'[i].Open
  BY DEF Staying
<1>1. i \in IncidentID /\ i # None
  BY NoneAssumption DEF Known, TypeOK
<1>2. st'.ActiveIncidentID # i
  BY <1>1, ActiveSteps DEF Known
<1> QED
  BY <1>1, <1>2 DEF Known, SoleOpenIncident, Active

(* What these steps rely on.                                               *)
LEMMA KnownInvariant == Spec => []Known
BY TypeCorrect, HonestCounters, OneOpenIncident, PTL DEF Known

(* Every incident opens on at least as many failed checks in a row as the  *)
(* threshold in force asks for, in no maintenance window and after the     *)
(* stabilization of the process.                                           *)
THEOREM OutagesAreConfirmed == Spec => OpensOnlyWhenConfirmed
<1>1. Known /\ [Next]_vars => [Opening]_vars
  BY StepsConfirm
<1>2. Spec => [][Opening]_vars
  BY <1>1, KnownInvariant, PTL DEF Spec
<1> QED
  BY <1>2 DEF OpensOnlyWhenConfirmed, Opening

(* Every incident that is closed, by the engine or by the end of a window, *)
(* is closed on as many successful checks in a row as asked for.           *)
THEOREM RecoveriesAreConfirmed == Spec => ClosesOnlyWhenConfirmed
<1>1. Known /\ [Next]_vars => [Closing]_vars
  BY StepsConfirm
<1>2. Spec => [][Closing]_vars
  BY <1>1, KnownInvariant, PTL DEF Spec
<1> QED
  BY <1>2 DEF ClosesOnlyWhenConfirmed, Closing

(* An incident that is over never becomes active and its record never      *)
(* opens again, whatever windows, clears and restarts come later.          *)
THEOREM OverIsOver == Spec => OverStaysOver
<1>1. Known /\ Known' /\ [Next]_vars => [Staying]_vars
  BY StepsStay
<1>2. Spec => [][Staying]_vars
  BY <1>1, KnownInvariant, PTL DEF Spec
<1> QED
  BY <1>2 DEF OverStaysOver, Staying

-------------------------------------------------------------------------------
(* With the hourly maintenance.  Every step of MonitorHistory is one of    *)
(* Monitor or removes the oldest records, so what was proved of Monitor    *)
(* holds of it as well.                                                    *)

(* The observation aside, there are no other steps.                        *)
LEMMA HistorySteps == [HistoryNext]_historyVars => [Next]_vars \/ CapIncidents
BY DEF HistoryNext, Checked, Alerted, Unobserved, historyVars, Next, Tick,
       Deliver

(* What the removal leaves of the records.                                 *)
LEMMA CapLeaves ==
    ASSUME TypeOK, CapIncidents
    PROVE  /\ UNCHANGED <<cfg, st, maintenances, memory, ghosts>>
           /\ incidents' \in [IncidentID -> Incident]
           /\ \A i \in IncidentID :
                 \/ incidents'[i] = incidents[i]
                 \/ /\ ~incidents'[i].Stored /\ ~incidents'[i].Open
                    /\ ~incidents'[i].OutageNotified
                    /\ incidents[i].Stored
<1>1. NoIncident \in Incident
  BY DEF NoIncident, Incident
<1> QED
  BY <1>1 DEF CapIncidents, TypeOK, NoIncident, Pruned, Records

(* Everything that is known of the reachable states.                       *)
HistoryInv == TypeOK /\ CountersAreHonest /\ WindowIsActive /\ Shown /\ AlertInv

(* It would not be an invariant if the removal left an open incident       *)
(* without its record: an incident that is not stored is not open.         *)
LEMMA HistoryInductive ==
    HistoryInv /\ [HistoryNext]_historyVars => HistoryInv'
<1> SUFFICES ASSUME HistoryInv, [HistoryNext]_historyVars PROVE HistoryInv'
  OBVIOUS
<1>1. CASE [Next]_vars
  <2>1. TypeOK /\ [Next]_vars => TypeOK'
    BY TypeStep
  <2> QED
    BY <1>1, <2>1, CountersInductive, WindowInductive, ShownInductive,
       AlertsInductive
    DEF HistoryInv
<1>2. CASE CapIncidents
  <2>1. TypeOK'
    BY <1>2, CapLeaves DEF HistoryInv, TypeOK, memory, ghosts
  <2>2. CountersAreHonest' /\ WindowIsActive' /\ Shown'
    BY <1>2
    DEF HistoryInv, CapIncidents, memory, ghosts, CountersAreHonest,
        WindowIsActive, Shown, OutageStatesHaveIncident,
        MaintenanceStatesHaveWindow, InMaintenance, HasIncident, Window
  <2>3. AlertInv'
    BY <1>2, CapLeaves
    DEF HistoryInv, AlertInv, memory, ghosts, SoleOpenIncident,
        AlertsAtMostOnce, NotifiedMeansSent, PendingIsDue, HasIncident, Active
  <2> QED
    BY <2>1, <2>2, <2>3 DEF HistoryInv
<1> QED
  BY <1>1, <1>2, HistorySteps

(* The invariants of Monitor are invariants with the cap on the number of  *)
(* incidents (retention.go:86): what the machine shows, counts and alerts  *)
(* agrees with the records, whatever the hourly maintenance removes.       *)
THEOREM CapIsHarmless == HistorySpec => []HistoryInv
<1>1. HistoryInit => HistoryInv
  <2> SUFFICES ASSUME Init PROVE HistoryInv
    BY DEF HistoryInit
  <2>1. CountersAreHonest
    BY CountFacts, CountAssumption DEF Init, CountersAreHonest, FreshState, Count
  <2>2. WindowIsActive /\ Shown
    BY DEF Init, WindowIsActive, Shown, OutageStatesHaveIncident,
           MaintenanceStatesHaveWindow, InMaintenance, HasIncident, FreshState
  <2> QED
    BY <2>1, <2>2, InitTypeOK, InitAlerts DEF HistoryInv
<1> QED
  BY <1>1, HistoryInductive, PTL DEF HistorySpec

(* The removal opens no incident, closes none that stays stored and takes  *)
(* up none that is over.                                                   *)
LEMMA CapStays ==
    ASSUME HistoryInv, HistoryInv', CapIncidents
    PROVE  Opening /\ Closing /\ Staying
<1>1. Opening /\ Closing
  BY CapLeaves DEF HistoryInv, Opening, Closing
<1>2. Staying
  <2> SUFFICES ASSUME NEW i \in issued, st.ActiveIncidentID # i
               PROVE  st'.ActiveIncidentID # i /\ ~incidents'[i].Open
    BY DEF Staying
  <2>1. i \in IncidentID /\ st' = st
    BY DEF HistoryInv, TypeOK, CapIncidents
  <2> QED
    BY <2>1 DEF HistoryInv, AlertInv, SoleOpenIncident, Active
<1> QED
  BY <1>1, <1>2

(* Incidents open and close on the evidence the thresholds ask for, and    *)
(* one that is over stays over, also while the hourly maintenance removes  *)
(* records.                                                                *)
THEOREM CapChangesNothing ==
    HistorySpec => /\ OpensOnlyWhenConfirmed /\ ClosesOnlyWhenConfirmed
                   /\ OverStaysOver
<1>1. HistoryInv /\ HistoryInv' /\ [HistoryNext]_historyVars
        => [Opening /\ Closing /\ Staying]_vars
  <2>1. HistoryInv => Known
    BY DEF HistoryInv, Known, AlertInv
  <2>2. HistoryInv' => Known'
    BY DEF HistoryInv, Known, AlertInv
  <2> QED
    BY <2>1, <2>2, HistorySteps, StepsConfirm, StepsStay, CapStays
<1>2. HistorySpec => [][Opening]_vars /\ [][Closing]_vars /\ [][Staying]_vars
  BY <1>1, CapIsHarmless, PTL DEF HistorySpec
<1> QED
  BY <1>2 DEF OpensOnlyWhenConfirmed, Opening, ClosesOnlyWhenConfirmed,
              Closing, OverStaysOver, Staying

-------------------------------------------------------------------------------
(* The cap on the number of incidents                                      *)

(* The incident that goes on, and one whose alert waits, is the newest     *)
(* there is; what is stored was issued.                                    *)
Ordered ==
    /\ IsFiniteSet(issued) /\ Records \subseteq issued
    /\ HasIncident => \A j \in issued : j <= Active
    /\ pending.kind \in Phase => \A j \in issued : j <= pending.id

(* Every step keeps it so: a new incident opens only when there is none    *)
(* and no alert waits, and no check is made while one does.                *)
LEMMA OrderedInductive ==
    HistoryInv /\ Ordered /\ [HistoryNext]_historyVars => Ordered'
<1> SUFFICES ASSUME HistoryInv, Ordered, [HistoryNext]_historyVars
             PROVE  Ordered'
  OBVIOUS
<1> USE CheckedFields, FailureFields, IncidentFields, MaintenanceFields,
        OtherFields
    DEF HasIncident, Active
<1>a. /\ st \in MonitorState /\ cfg \in Config /\ lastOK \in BOOLEAN
      /\ st.ActiveIncidentID \in IncidentID \cup {None}
      /\ incidents \in [IncidentID -> Incident] /\ TypeOK
      /\ "none" \notin Phase /\ "maintenance_recovery" \notin Phase
  BY ConfigsAssumption DEF HistoryInv, TypeOK, MonitorState, Phase
<1>b. \A res \in Result : Recovering(st, cfg, res) \in MonitorState
  BY <1>a, CheckedTypes
<1>c. Suspect(st) \in MonitorState /\ MaintenanceUp(st) \in MonitorState
  BY <1>a, StateTypes
<1>d. \A inc \in Incident : /\ Closed(inc).Stored = inc.Stored
                            /\ ClosedQuietly(inc).Stored = inc.Stored
                            /\ Reopened(inc).Stored = inc.Stored
  BY DEF Incident, Closed, ClosedQuietly, Reopened
<1>1. ASSUME issued' = issued, Records' \subseteq Records,
             \/ st'.ActiveIncidentID \in {st.ActiveIncidentID, None},
             \/ pending'.kind \notin Phase
             \/ pending' = pending
             \/ HasIncident /\ pending'.id = Active
      PROVE  Ordered'
  BY <1>1 DEF Ordered
<1>2. ASSUME NEW res \in Result,
             CheckUp(res) \/ CheckRecovering(res) \/ DropIncident(res)
             \/ CheckUpInMaintenance(res)
      PROVE  Ordered'
  <2>1. /\ issued' = issued /\ incidents' = incidents /\ pending' = pending
        /\ st'.ActiveIncidentID \in {st.ActiveIncidentID, None}
    BY <1>2, <1>a, <1>b, <1>c
    DEF CheckUp, CheckRecovering, DropIncident, CheckUpInMaintenance
  <2> QED
    BY <1>1, <2>1 DEF Records
<1>3. ASSUME NEW res \in Result, CloseIncident(res)
      PROVE  Ordered'
  <2>1. /\ issued' = issued /\ HasIncident
        /\ st'.ActiveIncidentID = None
        /\ incidents' = [incidents EXCEPT ![Active] = Closed(@)]
        /\ \/ pending' = NoEffect
           \/ pending' = [kind |-> "recovery", id |-> Active]
    BY <1>3, <1>b DEF CloseIncident
  <2>2. Records' \subseteq Records
    BY <1>a, <1>d, <2>1 DEF Records
  <2>3. pending'.kind \notin Phase \/ pending'.id = Active
    BY <1>a, <2>1 DEF NoEffect
  <2> QED
    BY <1>1, <2>1, <2>2, <2>3
<1>4. ASSUME NEW res \in Result, FinishMaintenance(res)
      PROVE  Ordered'
  <2>1. /\ issued' = issued
        /\ st'.ActiveIncidentID = None
        /\ incidents' = IF HasIncident /\ incidents[Active].Stored
                        THEN [incidents EXCEPT ![Active] = ClosedQuietly(@)]
                        ELSE incidents
        /\ pending'.kind \notin Phase
    BY <1>4, <1>a, <1>c DEF FinishMaintenance
  <2>2. Records' \subseteq Records
    BY <1>a, <1>d, <2>1 DEF Records
  <2> QED
    BY <1>1, <2>1, <2>2
<1>5. CASE CheckStillOffline
  <2>1. /\ issued' = issued /\ pending' = pending
        /\ st'.ActiveIncidentID = st.ActiveIncidentID
        /\ incidents' = IF incidents[Active].Stored
                        THEN [incidents EXCEPT ![Active] = Reopened(@)]
                        ELSE incidents
    BY <1>5, <1>a DEF CheckStillOffline
  <2>2. Records' \subseteq Records
    BY <1>a, <1>d, <2>1 DEF Records
  <2> QED
    BY <1>1, <2>1, <2>2
<1>6. CASE CheckSuspect \/ CheckDownInMaintenance
  BY <1>1, <1>6, <1>a DEF CheckSuspect, CheckDownInMaintenance, Records
<1>7. ASSUME NEW i \in IncidentID, Newest(i), OpenIncident(i)
      PROVE  Ordered'
  <2>1. /\ issued' = issued \cup {i} /\ st'.ActiveIncidentID = i
        /\ incidents' = [incidents EXCEPT ![i] = NewIncident]
        /\ \/ pending' = [kind |-> "outage", id |-> i]
           \/ pending' = NoEffect
    BY <1>7, <1>c DEF OpenIncident
  <2>2. \A j \in issued' : j <= i
    BY <1>7, <2>1, OrderAssumption DEF Newest
  <2>3. IsFiniteSet(issued')
    BY <2>1, FS_AddElement DEF Ordered
  <2>4. Records' \subseteq issued'
    BY <1>a, <2>1 DEF Ordered, Records
  <2>5. pending'.kind \in Phase => pending'.id = i
    BY <1>a, <2>1 DEF NoEffect
  <2> QED
    BY <2>1, <2>2, <2>3, <2>4, <2>5 DEF Ordered
<1>8. CASE TickDisabled
  BY <1>1, <1>8, <1>a DEF TickDisabled, memory, ghosts, Records
<1>9. ASSUME NEW success \in BOOLEAN, DeliverAlert(success)
      PROVE  Ordered'
  <2>1. /\ issued' = issued /\ st' = st /\ pending'.kind \notin Phase
    BY <1>9, <1>a DEF DeliverAlert, NoEffect
  <2>2. Records' \subseteq Records
    BY <1>9, <1>a DEF DeliverAlert, Records, Incident
  <2> QED
    BY <1>1, <2>1, <2>2
<1>10. CASE DeliverNothing
  BY <1>1, <1>10, <1>a DEF DeliverNothing, NoEffect, store, ghosts, Records
<1>11. CASE Admin
  <2>1. CASE ClearIncidents
    <3>1. Records' = {}
      BY <2>1 DEF ClearIncidents, Records, NoIncident
    <3> QED
      BY <1>1, <2>1, <3>1 DEF ClearIncidents, memory, ghosts
  <2>2. CASE ~ClearIncidents
    <3>1. /\ UNCHANGED <<incidents, pending, issued>>
          /\ st'.ActiveIncidentID = st.ActiveIncidentID
      BY <1>11, <2>2, <1>a
      DEF Admin, StartMaintenance, ScheduleMaintenance, EndMaintenance,
          ServiceRestored, ToggleMonitoring, SaveMonitoring, SaveDiscord,
          memory, ghosts
    <3> QED
      BY <1>1, <3>1 DEF Records
  <2> QED
    BY <2>1, <2>2
<1>12. CASE StabilizationEnds \/ Restart \/ UNCHANGED vars
  BY <1>1, <1>12, <1>a
  DEF StabilizationEnds, Restart, vars, store, memory, ghosts, NoEffect, Records
<1>13. CASE CapIncidents
  <2>1. Records' \subseteq Records
    BY <1>13, <1>a, CapLeaves DEF Records
  <2> QED
    BY <1>1, <1>13, <2>1 DEF CapIncidents, memory, ghosts
<1> QED
  BY <1>2, <1>3, <1>4, <1>5, <1>6, <1>7, <1>8, <1>9, <1>10, <1>11, <1>12, <1>13
  DEF HistoryNext, Checked, Alerted, Unobserved, historyVars, vars

(* The order holds from the start.                                         *)
LEMMA OrderedInvariant == HistorySpec => []Ordered
<1>1. HistoryInit => Ordered
  <2> SUFFICES ASSUME Init PROVE Ordered
    BY DEF HistoryInit
  <2>1. Records = {} /\ issued = {}
    BY DEF Init, Records, NoIncident
  <2>2. ~HasIncident /\ pending.kind \notin Phase
    BY DEF Init, HasIncident, FreshState, NoEffect, Phase
  <2> QED
    BY <2>1, <2>2, FS_EmptySet DEF Ordered
<1> QED
  BY <1>1, CapIsHarmless, OrderedInductive, PTL DEF HistorySpec

(* Of finitely many records the newest one has all others before it, so    *)
(* that it is removed by no cap above zero.                                *)
LEMMA NewestIsSpared ==
    ASSUME IsFiniteSet(Records), MaxIncidents > 0,
           NEW x \in Records, \A j \in Records : j <= x
    PROVE  x \notin Pruned
<1>1. {j \in Records : j < x} = Records \ {x}
  <2>1. \A j \in Records : j \in Nat
    BY OrderAssumption DEF Records
  <2>2. \A j \in Records : j < x <=> j # x
    BY <2>1
  <2> QED
    BY <2>2
<1>2. Cardinality(Records \ {x}) = Cardinality(Records) - 1
  BY FS_RemoveElement
<1>3. Cardinality(Records) \in Nat
  BY FS_CardinalityType
<1>4. ~ (Cardinality(Records) - 1 < Cardinality(Records) - MaxIncidents)
  BY <1>3, CapAssumption
<1> QED
  BY <1>1, <1>2, <1>4 DEF Pruned

(* However small the cap on the number of incidents, the hourly            *)
(* maintenance (retention.go:86) removes neither the record of the         *)
(* incident that is going on nor that of one whose alert still waits.      *)
THEOREM CapSpares == HistorySpec => CapSparesTheActive
<1> DEFINE Sparing == CapIncidents =>
                         Records \cap {Active, pending.id} \subseteq Records'
<1>1. HistoryInv /\ Ordered /\ CapIncidents => Sparing
  <2> SUFFICES ASSUME HistoryInv, Ordered, CapIncidents,
                      NEW x \in Records, x \in {Active, pending.id}
               PROVE  x \in Records'
    OBVIOUS
  <2>1. x \in IncidentID /\ x # None
    BY NoneAssumption DEF Records
  <2>2. \A j \in Records : j <= x
    <3>1. CASE x = Active
      BY <2>1, <3>1 DEF Ordered, HasIncident, Active
    <3>2. CASE x = pending.id
      <4>1. pending.kind \in Phase
        BY <2>1, <3>2 DEF HistoryInv, TypeOK, Effect, NoEffect
      <4> QED
        BY <3>2, <4>1 DEF Ordered
    <3> QED
      BY <3>1, <3>2
  <2>3. IsFiniteSet(Records)
    BY FS_Subset DEF Ordered
  <2>4. x \notin Pruned
    BY <2>2, <2>3, NewestIsSpared DEF CapIncidents
  <2> QED
    BY <2>1, <2>4 DEF CapIncidents, Records
<1>2. HistoryInv /\ Ordered /\ [HistoryNext]_historyVars => [Sparing]_vars
  BY <1>1
<1>3. HistorySpec => [][Sparing]_vars
  BY <1>2, CapIsHarmless, OrderedInvariant, PTL DEF HistorySpec
<1> QED
  BY <1>3 DEF CapSparesTheActive

-------------------------------------------------------------------------------
(* Outage alerts lie apart                                                 *)

(* Numbers, if there are any, have a least one.                            *)
LEMMA LeastFacts ==
    ASSUME NEW S, S \subseteq Nat, S # {}
    PROVE  Least(S) \in S /\ \A k \in S : Least(S) <= k
<1>1. PICK n \in S : \A k \in S : ~ (<<k, n>> \in OpToRel(<, Nat))
  BY WFMin, NatLessThanWellFounded, Zenon
<1>2. \A k \in S : ~ (k < n)
  BY <1>1 DEF OpToRel
<1>3. \A k \in S : n <= k
  BY <1>2
<1> QED
  BY <1>3 DEF Least

LeastFailures == Least({c.FailureThreshold : c \in Configs})
LeastRecoveries == Least({c.RecoveryThreshold : c \in Configs})

(* Whatever is configured in between, an outage takes at least the one     *)
(* number of checks and a recovery the other.                              *)
LEMMA ThresholdFacts ==
    /\ LeastFailures \in Nat /\ LeastRecoveries \in Nat
    /\ Hysteresis = LeastFailures + LeastRecoveries
    /\ \A c \in Configs : /\ LeastFailures <= c.FailureThreshold
                          /\ LeastRecoveries <= c.RecoveryThreshold
<1> DEFINE F == {c.FailureThreshold : c \in Configs}
           R == {c.RecoveryThreshold : c \in Configs}
<1>1. \A c \in Configs : c.FailureThreshold \in Nat /\ c.RecoveryThreshold \in Nat
  BY ConfigsAssumption, CountAssumption DEF Config, Count
<1>2. F \subseteq Nat /\ F # {} /\ R \subseteq Nat /\ R # {}
  BY <1>1, ConfigsAssumption
<1>3. /\ Least(F) \in F /\ \A k \in F : Least(F) <= k
      /\ Least(R) \in R /\ \A k \in R : Least(R) <= k
  BY <1>2, LeastFacts
<1>4. Least(F) \in Nat /\ Least(R) \in Nat
  BY <1>2, <1>3
<1>5. Hysteresis = Least(F) + Least(R)
  BY <1>4 DEF Hysteresis
<1> QED
  BY <1>3, <1>4, <1>5 DEF LeastFailures, LeastRecoveries

(* The checks since the last alert are at least those that were counted:   *)
(* the successes of an outage, and without one those of the recovery from  *)
(* the last outage with the failures since.  An alert that waits was due.  *)
Apart ==
    /\ quiet \in 0..MaxQuiet
    /\ st.ConsecutiveSuccesses <= quiet \/ quiet = MaxQuiet
    /\ \/ HasIncident \/ quiet = MaxQuiet
       \/ LeastRecoveries + st.ConsecutiveFailures <= quiet
    /\ pending.kind = "outage" =>
          /\ HasIncident /\ st.ConsecutiveSuccesses = 0
          /\ quiet >= Hysteresis

(* Counting stops at the bound, which the distance does not exceed.        *)
LEMMA QuietGrows ==
    ASSUME Apart, quiet' = IF quiet < MaxQuiet THEN quiet + 1 ELSE quiet
    PROVE  /\ quiet' \in 0..MaxQuiet
           /\ \A n \in Nat, k \in Nat :
                 (n <= quiet \/ quiet = MaxQuiet) /\ k <= n + 1
                   => k <= quiet' \/ quiet' = MaxQuiet
<1>1. quiet \in 0..MaxQuiet /\ MaxQuiet \in Nat
  BY CooldownAssumption DEF Apart
<1> QED
  BY <1>1

(* A counter grows by one check at most.                                   *)
LEMMA BumpByOne == \A n \in Count : n \in Nat /\ Bump(n) \in Nat /\ Bump(n) <= n + 1
BY CountAssumption DEF Count, Bump

(* A check that opens no incident: it adds at most one to either count,    *)
(* and forgets an incident only after the successes a recovery takes.      *)
LEMMA QuietCheck ==
    ASSUME HistoryInv, Apart,
           quiet' = IF quiet < MaxQuiet THEN quiet + 1 ELSE quiet,
           NEW k \in Nat, k <= st.ConsecutiveSuccesses + 1,
           st'.ConsecutiveSuccesses \in {0, k},
           NEW f \in Nat, f <= st.ConsecutiveFailures + 1,
           st'.ConsecutiveFailures = f,
           \/ st'.ActiveIncidentID = st.ActiveIncidentID
           \/ f = 0 /\ LeastRecoveries <= k,
           pending'.kind # "outage"
    PROVE  Apart'
<1>1. /\ st.ConsecutiveSuccesses \in Nat /\ st.ConsecutiveFailures \in Nat
      /\ quiet \in 0..MaxQuiet /\ MaxQuiet \in Nat /\ LeastRecoveries \in Nat
  BY CountAssumption, CooldownAssumption, ThresholdFacts
  DEF HistoryInv, TypeOK, MonitorState, Count, Apart
<1>2. quiet' \in 0..MaxQuiet
  BY QuietGrows
<1>3. k <= quiet' \/ quiet' = MaxQuiet
  BY <1>1, QuietGrows DEF Apart
<1>4. st'.ConsecutiveSuccesses <= quiet' \/ quiet' = MaxQuiet
  BY <1>1, <1>2, <1>3
<1>5. \/ st'.ActiveIncidentID # None \/ quiet' = MaxQuiet
      \/ LeastRecoveries + f <= quiet'
  <2>1. CASE f = 0 /\ LeastRecoveries <= k
    BY <1>1, <1>2, <1>3, <2>1
  <2>2. CASE st'.ActiveIncidentID = st.ActiveIncidentID
    <3>1. CASE HasIncident
      BY <2>2, <3>1 DEF HasIncident
    <3>2. CASE ~HasIncident
      <4>1. LeastRecoveries + st.ConsecutiveFailures <= quiet \/ quiet = MaxQuiet
        BY <3>2 DEF Apart
      <4>2. /\ LeastRecoveries + st.ConsecutiveFailures \in Nat
            /\ LeastRecoveries + f \in Nat
            /\ LeastRecoveries + f
                 <= (LeastRecoveries + st.ConsecutiveFailures) + 1
        BY <1>1
      <4> QED
        BY <4>1, <4>2, QuietGrows
    <3> QED
      BY <3>1, <3>2
  <2> QED
    BY <2>1, <2>2
<1> QED
  BY <1>2, <1>4, <1>5 DEF Apart, HasIncident

(* Every step keeps the distance: checks add to it, and only the delivery  *)
(* of an outage alert starts it again, when no success is counted yet.     *)
LEMMA ApartInductive ==
    MaxQuiet >= Hysteresis =>
        (HistoryInv /\ Apart /\ [HistoryNext]_historyVars => Apart')
<1> SUFFICES ASSUME MaxQuiet >= Hysteresis,
                    HistoryInv, Apart, [HistoryNext]_historyVars
             PROVE  Apart'
  OBVIOUS
<1> DEFINE Grows == quiet' = IF quiet < MaxQuiet THEN quiet + 1 ELSE quiet
           CS == st.ConsecutiveSuccesses
           CF == st.ConsecutiveFailures
<1>a. /\ st \in MonitorState /\ cfg \in Config /\ cfg \in Configs
      /\ lastOK \in BOOLEAN
      /\ CS \in Count /\ CF \in Count
      /\ CS \in Nat /\ CF \in Nat /\ 0 <= CS + 1 /\ 0 <= CF + 1
      /\ CF <= CF + 1
  BY ConfigsAssumption, CountAssumption
  DEF HistoryInv, TypeOK, MonitorState, Count
<1>b. /\ Bump(CS) \in Nat /\ Bump(CS) <= CS + 1
      /\ Bump(CF) \in Nat /\ Bump(CF) <= CF + 1
  BY <1>a, BumpByOne
<1>c. /\ \A res \in Result : Recovering(st, cfg, res) \in MonitorState
      /\ Suspect(st) \in MonitorState /\ MaintenanceUp(st) \in MonitorState
  BY <1>a, CheckedTypes, StateTypes
<1>d. /\ LeastRecoveries \in Nat /\ LeastFailures \in Nat
      /\ LeastRecoveries <= cfg.RecoveryThreshold
      /\ LeastFailures <= cfg.FailureThreshold
      /\ cfg.RecoveryThreshold \in Nat /\ cfg.FailureThreshold \in Nat
      /\ Hysteresis = LeastFailures + LeastRecoveries
  BY <1>a, ThresholdFacts, CountAssumption DEF Config, Count
<1>e. quiet \in 0..MaxQuiet /\ MaxQuiet \in Nat
  BY CooldownAssumption DEF Apart
<1>1. ASSUME NEW res \in Result, CheckUp(res), Grows
      PROVE  Apart'
  <2>1. /\ st'.ConsecutiveSuccesses = 0 /\ st'.ConsecutiveFailures = 0
        /\ st'.ActiveIncidentID = st.ActiveIncidentID
        /\ pending'.kind # "outage"
    BY <1>1, <1>a, CheckedFields DEF CheckUp, Check, NoEffect
  <2> QED
    BY <1>1, <1>a, <2>1, QuietCheck
<1>2. ASSUME NEW res \in Result, CheckRecovering(res), Grows
      PROVE  Apart'
  <2>1. /\ st'.ConsecutiveSuccesses = Bump(CS) /\ st'.ConsecutiveFailures = 0
        /\ st'.ActiveIncidentID = st.ActiveIncidentID
        /\ pending'.kind # "outage"
    BY <1>2, <1>a, CheckedFields DEF CheckRecovering, Check, NoEffect
  <2> QED
    BY <1>2, <1>a, <1>b, <2>1, QuietCheck
<1>3. ASSUME NEW res \in Result, CloseIncident(res) \/ DropIncident(res), Grows
      PROVE  Apart'
  <2>1. /\ st'.ConsecutiveSuccesses = 0 /\ st'.ConsecutiveFailures = 0
        /\ pending'.kind # "outage"
    BY <1>3, <1>a, <1>c, CheckedFields, IncidentFields
    DEF CloseIncident, DropIncident, Check, NoEffect
  <2>2. Bump(CS) >= cfg.RecoveryThreshold
    BY <1>3, <1>a, CheckedFields DEF CloseIncident, DropIncident, ConfirmsRecovery
  <2>3. LeastRecoveries <= Bump(CS)
    BY <1>b, <1>d, <2>2
  <2> QED
    BY <1>3, <1>a, <1>b, <2>1, <2>3, QuietCheck
<1>4. ASSUME NEW res \in Result, CheckUpInMaintenance(res), Grows
      PROVE  Apart'
  <2>1. /\ st'.ConsecutiveSuccesses = Bump(CS) /\ st'.ConsecutiveFailures = 0
        /\ st'.ActiveIncidentID = st.ActiveIncidentID
        /\ pending'.kind # "outage"
    BY <1>4, <1>a, MaintenanceFields DEF CheckUpInMaintenance, Check, NoEffect
  <2> QED
    BY <1>4, <1>a, <1>b, <2>1, QuietCheck
<1>5. ASSUME NEW res \in Result, FinishMaintenance(res), Grows
      PROVE  Apart'
  <2>1. /\ st'.ConsecutiveSuccesses = 0 /\ st'.ConsecutiveFailures = 0
        /\ pending'.kind # "outage"
    BY <1>5, <1>a, <1>c, MaintenanceFields DEF FinishMaintenance
  <2>2. Bump(CS) >= cfg.RecoveryThreshold
    BY <1>5, <1>a, MaintenanceFields DEF FinishMaintenance, FinishesMaintenance
  <2>3. LeastRecoveries <= Bump(CS)
    BY <1>b, <1>d, <2>2
  <2> QED
    BY <1>5, <1>a, <1>b, <2>1, <2>3, QuietCheck
<1>6. ASSUME CheckStillOffline \/ CheckSuspect, Grows
      PROVE  Apart'
  <2>1. /\ st'.ConsecutiveSuccesses = 0 /\ st'.ConsecutiveFailures = Bump(CF)
        /\ st'.ActiveIncidentID = st.ActiveIncidentID
        /\ pending'.kind # "outage"
    BY <1>6, <1>a, FailureFields DEF CheckStillOffline, CheckSuspect, Check, NoEffect
  <2> QED
    BY <1>6, <1>a, <1>b, <2>1, QuietCheck
<1>7. ASSUME CheckDownInMaintenance, Grows
      PROVE  Apart'
  <2>1. /\ st'.ConsecutiveSuccesses = 0 /\ st'.ConsecutiveFailures = CF
        /\ st'.ActiveIncidentID = st.ActiveIncidentID
        /\ pending'.kind # "outage"
    BY <1>7, <1>a, MaintenanceFields DEF CheckDownInMaintenance, Check, NoEffect
  <2> QED
    BY <1>7, <1>a, <2>1, QuietCheck
<1>8. ASSUME NEW i \in IncidentID, OpenIncident(i), Grows
      PROVE  Apart'
  <2>1. /\ st'.ConsecutiveSuccesses = 0 /\ st'.ActiveIncidentID = i
        /\ ~HasIncident
    BY <1>8, <1>a, <1>c, FailureFields, IncidentFields DEF OpenIncident
  <2>2. Bump(CF) >= cfg.FailureThreshold
    BY <1>8, <1>a, FailureFields DEF OpenIncident, ConfirmsOutage
  <2>3. LeastRecoveries + CF <= quiet \/ quiet = MaxQuiet
    BY <2>1 DEF Apart
  <2>4. quiet' \in 0..MaxQuiet
    BY <1>8, QuietGrows
  <2>5. /\ LeastRecoveries + CF \in Nat /\ LeastRecoveries + Bump(CF) \in Nat
        /\ LeastRecoveries + Bump(CF) <= (LeastRecoveries + CF) + 1
    BY <1>a, <1>b, <1>d
  <2>6. LeastRecoveries + Bump(CF) <= quiet' \/ quiet' = MaxQuiet
    BY <1>8, <2>3, <2>5, QuietGrows
  <2>7. quiet' >= Hysteresis
    BY <1>b, <1>d, <1>e, <2>2, <2>4, <2>6
  <2>8. HasIncident'
    BY <2>1, NoneAssumption DEF HasIncident
  <2>9. st'.ConsecutiveSuccesses <= quiet'
    BY <1>e, <2>1, <2>4
  <2> QED
    BY <2>1, <2>4, <2>7, <2>8, <2>9 DEF Apart
<1>9. ASSUME quiet' = quiet, st'.ConsecutiveFailures = CF,
             st'.ConsecutiveSuccesses \in {0, CS},
             st'.ActiveIncidentID = st.ActiveIncidentID,
             pending' = pending \/ pending'.kind # "outage"
      PROVE  Apart'
  <2>1. st'.ConsecutiveSuccesses <= quiet \/ quiet = MaxQuiet
    BY <1>9, <1>e DEF Apart
  <2>2. HasIncident' = HasIncident
    BY <1>9 DEF HasIncident
  <2>3. \/ HasIncident' \/ quiet' = MaxQuiet
        \/ LeastRecoveries + st'.ConsecutiveFailures <= quiet'
    BY <1>9, <2>2 DEF Apart
  <2>4. pending'.kind = "outage" =>
          /\ HasIncident' /\ st'.ConsecutiveSuccesses = 0
          /\ quiet' >= Hysteresis
    BY <1>9, <2>2 DEF Apart
  <2>5. quiet' \in 0..MaxQuiet /\ (st'.ConsecutiveSuccesses <= quiet' \/ quiet' = MaxQuiet)
    BY <1>9, <1>e, <2>1
  <2> QED
    BY <2>3, <2>4, <2>5 DEF Apart
<1>10. ASSUME NEW success \in BOOLEAN, Alerted(success)
       PROVE  Apart'
  <2>1. st' = st /\ pending' = NoEffect /\ pending'.kind # "outage"
    BY <1>10 DEF Alerted, DeliverAlert, NoEffect
  <2>2. CASE success /\ pending.kind = "outage"
    <3>1. quiet' = 0
      BY <1>10, <2>2 DEF Alerted
    <3>2. HasIncident' /\ st'.ConsecutiveSuccesses = 0
      BY <2>1, <2>2 DEF Apart, HasIncident
    <3> QED
      BY <1>e, <2>1, <3>1, <3>2 DEF Apart
  <2>3. CASE ~(success /\ pending.kind = "outage")
    <3>1. quiet' = quiet
      BY <1>10, <2>3 DEF Alerted
    <3> QED
      BY <1>9, <2>1, <3>1
  <2> QED
    BY <2>2, <2>3
<1>11. CASE /\ TickDisabled \/ DeliverNothing \/ StabilizationEnds \/ Restart
                 \/ CapIncidents
            /\ UNCHANGED quiet
  <2>1. /\ st'.ConsecutiveFailures = CF /\ st'.ConsecutiveSuccesses = CS
        /\ st'.ActiveIncidentID = st.ActiveIncidentID
        /\ pending' = pending \/ pending' = NoEffect
    BY <1>11, <1>a, OtherFields
    DEF TickDisabled, DeliverNothing, StabilizationEnds, Restart, CapIncidents,
        memory, store
  <2> QED
    BY <1>9, <1>11, <2>1 DEF NoEffect
<1>12. CASE Admin /\ UNCHANGED quiet
  <2>1. /\ st'.ConsecutiveFailures = CF /\ st'.ConsecutiveSuccesses \in {0, CS}
        /\ st'.ActiveIncidentID = st.ActiveIncidentID
        /\ pending' = pending
    BY <1>12, <1>a, OtherFields
    DEF Admin, StartMaintenance, ScheduleMaintenance, EndMaintenance,
        ServiceRestored, ToggleMonitoring, SaveMonitoring, SaveDiscord,
        ClearIncidents, memory
  <2> QED
    BY <1>9, <1>12, <2>1
<1>13. CASE UNCHANGED historyVars
  BY <1>9, <1>13 DEF historyVars, vars, store, memory
<1> QED
  BY <1>1, <1>2, <1>3, <1>4, <1>5, <1>6, <1>7, <1>8, <1>10, <1>11, <1>12, <1>13
  DEF HistoryNext, Checked, Unobserved

(* "hysteresis prevent[s] alert storms" (INCIDENT-STATE-MACHINE.md:136):   *)
(* whatever is restarted, cleared, switched, reconfigured or put into a    *)
(* window, between two outage alerts lie at least as many checks as the    *)
(* least thresholds of a recovery and of an outage ask for.                *)
THEOREM StormsArePrevented ==
    ASSUME MaxQuiet >= Hysteresis
    PROVE  HistorySpec => AlertsAreApart
<1>1. HistoryInit => Apart
  <2> SUFFICES ASSUME Init, quiet = MaxQuiet PROVE Apart
    BY DEF HistoryInit
  <2>1. quiet \in 0..MaxQuiet
    BY CooldownAssumption
  <2>2. pending.kind # "outage"
    BY DEF Init, NoEffect
  <2> QED
    BY <2>1, <2>2 DEF Apart
<1>2. HistoryInv /\ Apart /\ [HistoryNext]_historyVars => Apart'
  BY ApartInductive
<1>3. HistoryInv /\ Apart /\ [HistoryNext]_historyVars
        => [Announced => quiet >= Hysteresis]_historyVars
  <2> SUFFICES ASSUME HistoryInv, Apart, [HistoryNext]_historyVars, Announced
               PROVE  quiet >= Hysteresis
    OBVIOUS
  <2>1. PICK i \in IncidentID : sent'["outage"][i] > sent["outage"][i]
    BY DEF Announced
  <2>2. sent["outage"][i] \in 0..2
    BY DEF HistoryInv, TypeOK, Phase
  <2>3. sent' # sent
    BY <2>1, <2>2
  <2>4. PICK success \in BOOLEAN : DeliverAlert(success)
    BY <2>3
    DEF HistoryNext, Checked, Alerted, Unobserved, historyVars, vars, Check,
        CheckUp, CheckRecovering, CloseIncident, DropIncident,
        CheckUpInMaintenance, FinishMaintenance, CheckStillOffline,
        CheckSuspect, CheckDownInMaintenance, OpenIncident, TickDisabled,
        DeliverNothing, Admin, StartMaintenance, ScheduleMaintenance,
        EndMaintenance, ServiceRestored, ToggleMonitoring, SaveMonitoring,
        SaveDiscord, ClearIncidents, StabilizationEnds, Restart, CapIncidents,
        ghosts
  <2>5. pending.kind = "outage"
    <3> SUFFICES ASSUME pending.kind # "outage" PROVE FALSE
      OBVIOUS
    <3>1. pending.kind \in Phase /\ pending.kind # "outage"
      BY <2>4 DEF DeliverAlert
    <3>2. sent'["outage"] = sent["outage"]
      BY <2>4, <3>1 DEF DeliverAlert, HistoryInv, TypeOK
    <3> QED
      BY <2>1, <2>2, <3>2
  <2> QED
    BY <2>5 DEF Apart
<1> QED
  BY <1>1, <1>2, <1>3, CapIsHarmless, PTL DEF HistorySpec, AlertsAreApart
===============================================================================
