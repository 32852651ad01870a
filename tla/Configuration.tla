----------------------------- MODULE Configuration ----------------------------
(***************************************************************************)
(* The stored configuration (internal/config) and what each form of the    *)
(* web interface makes of the configuration it has loaded                  *)
(* (web/settings_actions.go, web/actions.go, web/setup.go).                *)
(*                                                                         *)
(* A part of the configuration that no code compares with another part is  *)
(* a member of Value; Blank is what Default() has there.  The numbers that *)
(* Validate bounds are numbers.  Texts are left out, and so are the fields *)
(* no form changes (quiet hours, session and login limits).                *)
(*                                                                         *)
(* An operator marked "Mutant" is wrong on purpose and used by nothing: it *)
(* is a plausible bug that one of the properties must find.                *)
(***************************************************************************)
EXTENDS Integers

CONSTANTS
    Value,       \* contents of an opaque part of the configuration
    Blank,       \* the one Default() has
    Custom,      \* the thresholds an administrator may type in
    Timeout      \* the request timeouts an administrator may type in

Form == {"plex", "discord", "monitoring", "general", "toggle", "wizard"}
Preset == {"fast", "balanced", "conservative", "custom"}

Thresholds == [Preset               : Preset,
               CheckIntervalSeconds : Int,
               TimeoutSeconds       : Int,
               FailureThreshold     : Int,
               RecoveryThreshold    : Int,
               StabilizationSeconds : Int,
               CooldownSeconds      : Int]

(* Plex stands for the base URL, the token and the switches of that        *)
(* section, Blank for no URL; General for title, zone, theme and           *)
(* retention; Alerts for the four Auto fields, which the Discord form      *)
(* writes; PlexTimeout for Plex.TimeoutSeconds.                            *)
Config == [General        : Value,
           MonitoringOn   : BOOLEAN,
           TrustedProxies : Value,
           Plex           : Value,
           PlexTimeout    : Int,
           Discord        : Value,
           Alerts         : Value,
           Monitoring     : Thresholds,
           SetupComplete  : BOOLEAN]

ASSUME ValueAssumption == Blank \in Value
ASSUME InputAssumption == Custom \subseteq Thresholds /\ Timeout \subseteq Int

-------------------------------------------------------------------------------
(* internal/config                                                         *)

(* Presets and ApplyPreset: a name that is no preset, "custom" among them, *)
(* leaves the numbers as they are.                                         *)
ApplyPreset(m, name) ==
    LET Set(interval, timeout, failures) ==
          [Preset |-> name, CheckIntervalSeconds |-> interval,
           TimeoutSeconds |-> timeout, FailureThreshold |-> failures,
           RecoveryThreshold |-> 2,
           StabilizationSeconds |-> m.StabilizationSeconds,
           CooldownSeconds |-> m.CooldownSeconds]
    IN  CASE name = "fast"         -> Set(15, 4, 4)
          [] name = "balanced"     -> Set(20, 5, 3)
          [] name = "conservative" -> Set(30, 5, 3)
          [] name = "custom"       -> [m EXCEPT !.Preset = "custom"]

Default ==
    [General |-> Blank, MonitoringOn |-> FALSE, TrustedProxies |-> Blank,
     Plex |-> Blank, PlexTimeout |-> 5, Discord |-> Blank, Alerts |-> Blank,
     Monitoring |-> [Preset |-> "balanced", CheckIntervalSeconds |-> 20,
                     TimeoutSeconds |-> 5, FailureThreshold |-> 3,
                     RecoveryThreshold |-> 2, StabilizationSeconds |-> 60,
                     CooldownSeconds |-> 300],
     SetupComplete |-> FALSE]

(* MonitoringConfig.Validate.  The mentions it looks at as well have been  *)
(* through validMention.                                                   *)
ValidMonitoring(m) ==
    /\ m.CheckIntervalSeconds >= 10 /\ m.CheckIntervalSeconds <= 3600
    /\ m.TimeoutSeconds >= 1
    /\ m.TimeoutSeconds < m.CheckIntervalSeconds
    /\ m.FailureThreshold >= 2 /\ m.FailureThreshold <= 20
    /\ m.RecoveryThreshold >= 1 /\ m.RecoveryThreshold <= 20
    /\ m.StabilizationSeconds >= 0 /\ m.StabilizationSeconds <= 3600
    /\ m.CooldownSeconds >= 0 /\ m.CooldownSeconds <= 86400

(* Config.Validate: the zone was loaded and the mention was validated      *)
(* before they were assigned.                                              *)
Valid(c) == ValidMonitoring(c.Monitoring)

-------------------------------------------------------------------------------
(* What a form makes of the configuration c its handler has loaded         *)

(* An empty URL field leaves the URL; a timeout is taken from 1 up, and    *)
(* not compared with the check interval.                                   *)
PlexForm(c, url, timeout) == [c EXCEPT !.Plex = url, !.PlexTimeout = timeout]
PlexForms(c) ==
    {PlexForm(c, v, t) :
        v \in (Value \ {Blank}) \cup {c.Plex},
        t \in {n \in Timeout : n >= 1} \cup {c.PlexTimeout}}

DiscordForm(c, v, alerts) == [c EXCEPT !.Discord = v, !.Alerts = alerts]
DiscordForms(c) == {DiscordForm(c, v, a) : v \in Value, a \in Value}

(* applyCustomMonitoring and its callers: what is no number leaves the     *)
(* number as it was.  -1 stands for that: typed, it would be refused.      *)
NotANumber == -1
Typed(n, old) == IF n = NotANumber THEN old ELSE n

(* The named preset, or under "custom" the four thresholds as typed.       *)
Chosen(m, name, n) ==
    LET p == ApplyPreset(m, name)
    IN  IF name # "custom" THEN p
        ELSE [p EXCEPT
                !.CheckIntervalSeconds = Typed(n.CheckIntervalSeconds, @),
                !.TimeoutSeconds       = Typed(n.TimeoutSeconds, @),
                !.FailureThreshold     = Typed(n.FailureThreshold, @),
                !.RecoveryThreshold    = Typed(n.RecoveryThreshold, @)]

WithTimes(m, n) ==
    [m EXCEPT !.StabilizationSeconds = Typed(n.StabilizationSeconds, @),
              !.CooldownSeconds      = Typed(n.CooldownSeconds, @)]
MonitoringForm(c, name, n) ==
    [c EXCEPT !.Monitoring = WithTimes(Chosen(@, name, n), n)]
MonitoringForms(c) ==
    {MonitoringForm(c, name, n) : name \in Preset, n \in Custom}

GeneralForm(c, v, list) == [c EXCEPT !.General = v, !.TrustedProxies = list]
GeneralForms(c) == {GeneralForm(c, v, p) : v \in Value, p \in Value}

ToggleForms(c) == {[c EXCEPT !.MonitoringOn = on] : on \in BOOLEAN}

(* Mutant: the wizard forgets to say that it is done.                      *)
WizardFormsIncomplete ==
    {[Default EXCEPT !.Plex = v, !.Discord = d] : v \in Value, d \in Value}

(* The wizard starts from Default(), whatever is stored.  It takes a Plex  *)
(* timeout below the check interval only, and asks for a URL before it     *)
(* switches monitoring on.                                                 *)
WizardTimeout(m, timeout) ==
    IF timeout >= 1 /\ timeout < m.CheckIntervalSeconds THEN timeout
    ELSE Default.PlexTimeout
WizardForm(m, url, timeout, v, g, on) ==
    [Default EXCEPT !.Monitoring = m, !.Plex = url, !.Discord = v,
                    !.General = g, !.PlexTimeout = WizardTimeout(m, timeout),
                    !.MonitoringOn = on, !.SetupComplete = TRUE]
WizardForms ==
    {WizardForm(Chosen(Default.Monitoring, name, n), v, t, d, g, on) :
        name \in Preset, n \in Custom, v \in Value, t \in Timeout,
        d \in Value, g \in Value, on \in BOOLEAN}

(* Mutant: the monitoring form is saved without Validate.                  *)
SubmissionsUnvalidated(form, c) ==
    CASE form = "plex"       -> {f \in PlexForms(c) : Valid(f)}
      [] form = "discord"    -> DiscordForms(c)
      [] form = "monitoring" -> MonitoringForms(c)
      [] form = "general"    -> GeneralForms(c)
      [] form = "toggle"     -> ToggleForms(c)
      [] form = "wizard"     ->
            {f \in WizardForms : Valid(f) /\ (f.MonitoringOn => f.Plex # Blank)}

(* What the handler of a form may go on to save.  The Plex and monitoring  *)
(* forms and the wizard are refused when Validate finds fault; a refusal   *)
(* changes nothing.  handleSaveGeneral validates after it has replaced the *)
(* trusted proxies: that check is in Settings.                             *)
Submissions(form, c) ==
    CASE form = "plex"       -> {f \in PlexForms(c) : Valid(f)}
      [] form = "discord"    -> DiscordForms(c)
      [] form = "monitoring" -> {f \in MonitoringForms(c) : Valid(f)}
      [] form = "general"    -> GeneralForms(c)
      [] form = "toggle"     -> ToggleForms(c)
      [] form = "wizard"     ->
            {f \in WizardForms : Valid(f) /\ (f.MonitoringOn => f.Plex # Blank)}
===============================================================================
