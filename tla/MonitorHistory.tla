---------------------------- MODULE MonitorHistory ----------------------------
(***************************************************************************)
(* Monitor with the hourly ApplyRetention and its cap on the number of     *)
(* incidents, remembering how many checks were made since the last outage  *)
(* alert was delivered.  Checks are Interval seconds apart, so that their  *)
(* number stands for time.                                                 *)
(*                                                                         *)
(* The keys of the bucket are the incidents' IDs, which begin with the     *)
(* time they were made at (model/id.go): here they are numbers, a new one  *)
(* is above all earlier ones, and the bucket's order is theirs.  Two       *)
(* incidents are at least one check apart, so the order of two IDs of one  *)
(* millisecond does not matter; a clock that is set back is left out.      *)
(*                                                                         *)
(* No form sets MaxIncidents, 0 unless the stored configuration was        *)
(* edited: then nothing is removed.  Left out: the records that are pruned *)
(* by age (announcements, audit, notifications), which no code reads back. *)
(*                                                                         *)
(* An operator marked "Mutant" is wrong on purpose and used by nothing: it *)
(* is a plausible bug that one of the properties must find.                *)
(***************************************************************************)
EXTENDS Monitor, Integers, FiniteSets

CONSTANTS
    MaxIncidents,   \* General.RetentionDays.MaxIncidents
    Cooldown,       \* the cooldown, in checks: seconds / interval
    MaxQuiet        \* bound on the count of checks since an alert

ASSUME OrderAssumption == IncidentID \subseteq Nat
ASSUME CapAssumption == MaxIncidents \in Nat
ASSUME CooldownAssumption == Cooldown \in Nat /\ MaxQuiet \in Nat

VARIABLE quiet      \* checks since the last outage alert
historyVars == <<vars, quiet>>

HistoryInit == Init /\ quiet = MaxQuiet

-------------------------------------------------------------------------------
(* The hourly maintenance                                                  *)

Records == {i \in IncidentID : incidents[i].Stored}

(* Mutant: the cursor starts at the other end.                             *)
PrunedFromNewest ==
    {i \in Records :
        Cardinality({j \in Records : j > i})
            < Cardinality(Records) - MaxIncidents}

(* The first keys of the bucket, as many as are above the cap.             *)
Pruned ==
    {i \in Records :
        Cardinality({j \in Records : j < i})
            < Cardinality(Records) - MaxIncidents}

CapIncidents ==
    /\ MaxIncidents > 0 /\ Pruned # {}
    /\ incidents' = [i \in IncidentID |-> IF i \in Pruned THEN NoIncident
                                          ELSE incidents[i]]
    /\ UNCHANGED <<cfg, st, maintenances, memory, ghosts>>

-------------------------------------------------------------------------------
(* The steps of Monitor, observed                                          *)

(* NewID, in the order of time.                                            *)
Newest(i) == \A j \in issued : j <= i

Checked ==
    /\ \/ \E res \in Result :
            \/ CheckUp(res) \/ CheckRecovering(res) \/ CloseIncident(res)
            \/ DropIncident(res) \/ CheckUpInMaintenance(res)
            \/ FinishMaintenance(res)
       \/ CheckStillOffline \/ CheckSuspect \/ CheckDownInMaintenance
       \/ \E i \in IncidentID : Newest(i) /\ OpenIncident(i)
    /\ quiet' = IF quiet < MaxQuiet THEN quiet + 1 ELSE quiet

Alerted(success) ==
    /\ DeliverAlert(success)
    /\ quiet' = IF success /\ pending.kind = "outage" THEN 0 ELSE quiet

Unobserved(A) == A /\ UNCHANGED quiet

HistoryNext ==
    \/ Checked
    \/ \E success \in BOOLEAN : Alerted(success)
    \/ Unobserved(TickDisabled) \/ Unobserved(DeliverNothing)
    \/ Unobserved(Admin) \/ Unobserved(StabilizationEnds)
    \/ Unobserved(Restart) \/ Unobserved(CapIncidents)

HistorySpec == HistoryInit /\ [][HistoryNext]_historyVars

-------------------------------------------------------------------------------
(* Correctness                                                             *)

(* "oldest removed first" (retention.go:86): the incident that is going on *)
(* and the one whose alert is not delivered yet keep their records,        *)
(* however small the cap: without it the recovery would be neither         *)
(* recorded nor announced (engine.go:114, worker.go:146).                  *)
CapSparesTheActive ==
    [][CapIncidents =>
          Records \cap {Active, pending.id} \subseteq Records']_vars

Announced ==
    \E i \in IncidentID : sent'["outage"][i] > sent["outage"][i]

Least(S) == CHOOSE n \in S : \A k \in S : n <= k
Hysteresis == Least({c.FailureThreshold : c \in Configs})
              + Least({c.RecoveryThreshold : c \in Configs})

(* "hysteresis prevent[s] alert storms" (INCIDENT-STATE-MACHINE.md:136):   *)
(* whatever is restarted, cleared, switched or put into a window, between  *)
(* two outage alerts lie at least the checks that confirm a recovery and   *)
(* the ones that confirm an outage (engine.go:110, :174).                  *)
AlertsAreApart == [][Announced => quiet >= Hysteresis]_historyVars

(* "A notification cooldown prevents rapid re-alerting for flapping        *)
(* services" (INCIDENT-STATE-MACHINE.md:122).  CooldownSeconds is stored,  *)
(* validated and read by nothing.                                          *)
CooldownHolds == [][Announced => quiet >= Cooldown]_historyVars
===============================================================================
