------------------------------- MODULE Settings -------------------------------
(***************************************************************************)
(* The handlers that save the configuration, at the grain of the store.    *)
(* Each of them loads the whole configuration (GetConfig, a View), changes *)
(* a section of its copy and saves the whole copy (SaveConfig, an Update); *)
(* nothing orders two of them.  The trusted proxies are also kept in the   *)
(* memory of the process, where handleSaveGeneral replaces them between    *)
(* its load and its save.                                                  *)
(*                                                                         *)
(* What the properties say of forms that did not overlap is conditional on *)
(* what happened (overlapped), not on a lock: the code has none, although  *)
(* docs/ARCHITECTURE.md:98-104 says that changes of the settings are       *)
(* serialised.                                                             *)
(*                                                                         *)
(* Left out: audit records, sessions (Accounts), hashing, what a refused   *)
(* form says.  That App.trustedProxies is written without a lock while     *)
(* other requests read it is left out as well: a read is one step.         *)
(*                                                                         *)
(* An operator marked "Mutant" is wrong on purpose and used by nothing: it *)
(* is a plausible bug that one of the properties must find.                *)
(***************************************************************************)
EXTENDS Configuration

CONSTANTS
    Request,      \* concurrent requests
    MaxForms,     \* bound on the forms submitted
    MaxFaults     \* bound on failing saves and on stops under way

ASSUME BoundAssumption == MaxForms \in Nat /\ MaxFaults \in Nat

VARIABLES
    cfg,       \* stored: the configuration
    admin,     \* stored: whether there is an administrator
    proxies,   \* memory: App.trustedProxies
    request    \* per request: where its handler is, and its copy

(* What was observed so far.                                               *)
VARIABLES
    said,      \* per field, what a handler last reported as saved
    forms,     \* forms submitted
    faults,    \* saves that failed and stops that cut a form off
    overlapped \* a form was submitted while another was under way

ghosts == <<said, forms, faults, overlapped>>
vars == <<cfg, admin, proxies, request, ghosts>>

Free == [pc |-> "idle", form |-> "toggle", copy |-> Default]

TypeOK ==
    /\ cfg \in Config /\ said \in Config
    /\ admin \in BOOLEAN
    /\ proxies \in Value
    /\ request \in [Request -> [pc : {"idle", "proxies", "account", "save"},
                                form : Form, copy : Config]]
    /\ forms \in 0..MaxForms /\ faults \in 0..MaxFaults
    /\ overlapped \in BOOLEAN

(* A new installation: GetConfig answers Default() and NewApp took the     *)
(* trusted proxies from it.                                                *)
Init ==
    /\ cfg = Default /\ said = Default
    /\ admin = FALSE
    /\ proxies = Default.TrustedProxies
    /\ request = [r \in Request |-> Free]
    /\ forms = 0 /\ faults = 0 /\ overlapped = FALSE

At(r, pc) == request[r].pc = pc
Is(r, state) == request' = [request EXCEPT ![r] = state]
Goes(r, pc) == request' = [request EXCEPT ![r].pc = pc]
AllIdle == \A r \in Request : At(r, "idle")

-------------------------------------------------------------------------------
(* A form is submitted                                                     *)

Starts(r) ==
    /\ At(r, "idle")
    /\ forms < MaxForms /\ forms' = forms + 1
    /\ overlapped' = (overlapped \/ ~AllIdle)

(* handleSavePlex, handleSaveDiscord, handleSaveMonitoring and             *)
(* handleToggleMonitoring up to their save: they change their copy only.   *)
Submit(r, form) ==
    /\ Starts(r) /\ admin
    /\ \E c \in Submissions(form, cfg) :
          Is(r, [pc |-> "save", form |-> form, copy |-> c])
    /\ UNCHANGED <<cfg, admin, proxies, said, faults>>

SubmitGeneral(r) ==
    /\ Starts(r) /\ admin
    /\ \E c \in Submissions("general", cfg) :
          Is(r, [pc |-> "proxies", form |-> "general", copy |-> c])
    /\ UNCHANGED <<cfg, admin, proxies, said, faults>>

(* Mutant: the process keeps the list it started with.                     *)
KeepProxies(r) ==
    /\ At(r, "proxies")
    /\ Goes(r, "save")
    /\ UNCHANGED <<cfg, admin, proxies, ghosts>>

(* The list in memory is replaced before Validate looks at the copy.       *)
ReplaceProxies(r) ==
    /\ At(r, "proxies")
    /\ proxies' = request[r].copy.TrustedProxies
    /\ IF Valid(request[r].copy) THEN Goes(r, "save") ELSE Is(r, Free)
    /\ UNCHANGED <<cfg, admin, ghosts>>

(* handleSetupPost: there was no administrator when it looked.             *)
SubmitWizard(r) ==
    /\ Starts(r) /\ ~admin
    /\ \E c \in Submissions("wizard", cfg) :
          Is(r, [pc |-> "account", form |-> "wizard", copy |-> c])
    /\ UNCHANGED <<cfg, admin, proxies, said, faults>>

SaveAdmin(r) ==
    /\ At(r, "account")
    /\ admin' = TRUE
    /\ Goes(r, "save")
    /\ UNCHANGED <<cfg, proxies, ghosts>>

-------------------------------------------------------------------------------
(* and saved                                                               *)

(* What the answer to a form says is in force from now on.                 *)
Reported(old, form, c) ==
    CASE form = "plex" ->
            [old EXCEPT !.Plex = c.Plex, !.PlexTimeout = c.PlexTimeout]
      [] form = "discord" ->
            [old EXCEPT !.Discord = c.Discord, !.Alerts = c.Alerts]
      [] form = "monitoring" -> [old EXCEPT !.Monitoring = c.Monitoring]
      [] form = "general" ->
            [old EXCEPT !.General = c.General,
                        !.TrustedProxies = c.TrustedProxies]
      [] form = "toggle" -> [old EXCEPT !.MonitoringOn = c.MonitoringOn]
      [] form = "wizard" -> c

(* Mutant: the copy is saved over Default(), section by section.           *)
SaveFromDefault(r) ==
    /\ At(r, "save")
    /\ cfg' = Reported(Default, request[r].form, request[r].copy)
    /\ said' = Reported(said, request[r].form, request[r].copy)
    /\ Is(r, Free)
    /\ UNCHANGED <<admin, proxies, forms, faults, overlapped>>

Save(r) ==
    /\ At(r, "save")
    /\ cfg' = request[r].copy
    /\ said' = Reported(said, request[r].form, request[r].copy)
    /\ Is(r, Free)
    /\ UNCHANGED <<admin, proxies, forms, faults, overlapped>>

(* SaveConfig fails.  The toggle and the wizard say so; the four settings  *)
(* forms ignore the error and report success.                              *)
SaveFails(r) ==
    /\ At(r, "save")
    /\ faults < MaxFaults /\ faults' = faults + 1
    /\ said' = IF request[r].form \in {"toggle", "wizard"} THEN said
               ELSE Reported(said, request[r].form, request[r].copy)
    /\ Is(r, Free)
    /\ UNCHANGED <<cfg, admin, proxies, forms, overlapped>>

-------------------------------------------------------------------------------
(* The process stops and starts again, after the documented -reset-admin   *)
(* perhaps; NewApp reads the trusted proxies again.  That is a fault only  *)
(* when it cuts a form off.                                                *)
Restart(reset) ==
    /\ IF AllIdle THEN UNCHANGED faults
       ELSE faults < MaxFaults /\ faults' = faults + 1
    /\ request' = [r \in Request |-> Free]
    /\ proxies' = cfg.TrustedProxies
    /\ admin' = (admin /\ ~reset)
    /\ UNCHANGED <<cfg, said, forms, overlapped>>

Handle(r) ==
    \/ \E form \in Form \ {"general", "wizard"} : Submit(r, form)
    \/ SubmitGeneral(r) \/ ReplaceProxies(r)
    \/ SubmitWizard(r) \/ SaveAdmin(r)
    \/ Save(r) \/ SaveFails(r)

Next == \/ \E r \in Request : Handle(r)
        \/ \E reset \in BOOLEAN : Restart(reset)

Spec == Init /\ [][Next]_vars

-------------------------------------------------------------------------------
(* Correctness, whatever interleaves, fails or stops                       *)

(* The thresholds in force are within the bounds of Validate, although     *)
(* two of the forms save without looking and each of them may save a       *)
(* copy that is out of date (config.go:253-290).                           *)
StoredIsValid == Valid(cfg)

-------------------------------------------------------------------------------
(* Correctness as long as no two forms overlapped and nothing failed       *)

Undisturbed == AllIdle /\ faults = 0 /\ ~overlapped

(* What the handlers last reported as saved is what is in force, section   *)
(* by section, through restarts and the recovery of the account.           *)
SavedIsKept == Undisturbed => cfg = said

(* Trusted proxies that are configured are the ones a request is judged by *)
(* ("add the proxy's IP/CIDR under General ... Only then does ReelPing     *)
(* honour" its headers, CONFIGURATION.md:76-78).  The converse is          *)
(* ProxiesAgree, below.                                                    *)
ConfiguredProxiesHold ==
    Undisturbed /\ cfg.TrustedProxies # Blank => proxies = cfg.TrustedProxies

(* An installation that was set up stays so: otherwise the worker would    *)
(* stop (worker.go:93), and the wizard could not be had again.             *)
StaysSetUp == [][~overlapped /\ cfg.SetupComplete => cfg'.SetupComplete]_vars

(* Without a failure or an overlap between the account and the             *)
(* configuration there is no account without a complete setup, which no    *)
(* form can complete any more (setup.go:126-133, middleware.go:65).        *)
HalfSetUpOnlyByFailure ==
    AllIdle /\ admin /\ ~cfg.SetupComplete => faults > 0 \/ overlapped

-------------------------------------------------------------------------------
(* What the documentation says and the code does not                       *)

(* Forms "are serialised through the monitor/storage layer" and "all       *)
(* multi-step updates happen in a single Update transaction"               *)
(* (ARCHITECTURE.md:100-104): no form undoes what another reported as      *)
(* saved.                                                                  *)
NoLostUpdate == AllIdle /\ faults = 0 => cfg = said

(* "Otherwise those headers are ignored" (CONFIGURATION.md:78-79): proxies *)
(* that are not configured are not trusted.  After -reset-admin and a      *)
(* restart the wizard saves a configuration without proxies and leaves     *)
(* those in memory (app.go:69, setup.go:58, :133).                         *)
ProxiesAgree == Undisturbed => proxies = cfg.TrustedProxies

(* "Timeout >= 1 s and strictly less than the interval"                    *)
(* (MONITORING.md:79): the timeout each stage of a check is given is       *)
(* Plex.TimeoutSeconds (main.go:100).                                      *)
TimeoutBelowInterval ==
    cfg.PlexTimeout < cfg.Monitoring.CheckIntervalSeconds

(* The recovery flow "clears only the administrator credential ... it does *)
(* not touch Plex/Discord config" (SECURITY.md:98-100): the wizard it ends *)
(* with leaves alone what it does not ask for.                             *)
RecoveryKeepsConfig ==
    [][\A r \in Request :
          At(r, "save") /\ request[r].form = "wizard" /\ cfg.SetupComplete
              => cfg'.Alerts = cfg.Alerts]_vars
===============================================================================
