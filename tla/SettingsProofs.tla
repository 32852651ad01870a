----------------------------- MODULE SettingsProofs ----------------------------
(***************************************************************************)
(* What TLAPS proves of Settings, for any contents of the configuration,   *)
(* any thresholds typed in, any number of requests, forms and faults.      *)
(*                                                                         *)
(* Whatever interleaves, what is stored is valid.  The rest is about what  *)
(* holds until two forms overlap: then the copy of the one request that    *)
(* is under way is still a form of the configuration that is stored.       *)
(***************************************************************************)
EXTENDS Settings, TLAPS

-------------------------------------------------------------------------------
(* What forms make of a configuration                                      *)

(* A threshold is a number or was one before.                              *)
LEMMA ChosenType ==
    ASSUME NEW m \in Thresholds, NEW name \in Preset, NEW n \in Custom
    PROVE  Chosen(m, name, n) \in Thresholds
<1>1. n \in Thresholds
  BY InputAssumption
<1>2. ApplyPreset(m, name) \in Thresholds
  BY DEF ApplyPreset, Thresholds, Preset
<1>3. QED
  BY <1>1, <1>2 DEF Chosen, Typed, NotANumber, Thresholds

(* config.Default() passes Validate.                                       *)
LEMMA DefaultType == Default \in Config /\ Valid(Default)
  BY ValueAssumption
  DEF Default, Config, Thresholds, Preset, Valid, ValidMonitoring

(* What the wizard fills in is a configuration.                            *)
LEMMA WizardType ==
    ASSUME NEW d \in WizardForms
    PROVE  d \in Config /\ d.SetupComplete /\ d.TrustedProxies = Blank
<1>1. PICK name \in Preset, n \in Custom, v \in Value, t \in Timeout,
           e \in Value, g \in Value, on \in BOOLEAN :
        d = WizardForm(Chosen(Default.Monitoring, name, n), v, t, e, g, on)
  BY DEF WizardForms
<1> DEFINE m == Chosen(Default.Monitoring, name, n)
           w == WizardTimeout(m, t)
<1>2. m \in Thresholds
  BY DefaultType, ChosenType DEF Config
<1>3. w \in Int
  BY <1>2, InputAssumption DEF WizardTimeout, Default, Thresholds
<1>4. d = [Default EXCEPT !.Monitoring = m, !.Plex = v, !.Discord = e,
                          !.General = g, !.PlexTimeout = w,
                          !.MonitoringOn = on, !.SetupComplete = TRUE]
  BY <1>1 DEF WizardForm
<1> HIDE DEF m, w
<1>5. d \in Config /\ d.SetupComplete
      /\ d.TrustedProxies = Default.TrustedProxies
  BY <1>2, <1>3, <1>4, DefaultType DEF Config
<1>6. QED
  BY <1>5 DEF Default

(* What the monitoring form makes of a configuration is one.               *)
LEMMA MonitoringType ==
    ASSUME NEW c \in Config, NEW d \in MonitoringForms(c)
    PROVE  \E m \in Thresholds : d = [c EXCEPT !.Monitoring = m]
<1>1. PICK name \in Preset, n \in Custom : d = MonitoringForm(c, name, n)
  BY DEF MonitoringForms
<1>2. Chosen(c.Monitoring, name, n) \in Thresholds /\ n \in Thresholds
  BY ChosenType, InputAssumption DEF Config
<1> DEFINE m == WithTimes(Chosen(c.Monitoring, name, n), n)
<1>3. m \in Thresholds
  BY <1>2 DEF WithTimes, Typed, NotANumber, Thresholds
<1>4. d = [c EXCEPT !.Monitoring = m]
  BY <1>1 DEF MonitoringForm
<1> HIDE DEF m
<1>5. QED
  BY <1>3, <1>4

(* A form changes its own section, and keeps the rest of what it loaded.   *)
LEMMA FormKeepsRest ==
    ASSUME NEW c \in Config, NEW form \in Form, NEW d \in Submissions(form, c)
    PROVE  /\ d \in Config
           /\ Valid(c) => Valid(d)
           /\ Reported(c, form, d) = d
           /\ form # "general" /\ form # "wizard"
                => d.TrustedProxies = c.TrustedProxies
           /\ form # "wizard" => d.SetupComplete = c.SetupComplete
           /\ form = "wizard" => d.SetupComplete /\ d.TrustedProxies = Blank
<1>1. CASE form = "plex"
  <2>1. d \in PlexForms(c)
    BY <1>1 DEF Submissions
  <2>2. PICK v \in (Value \ {Blank}) \cup {c.Plex},
             t \in {n \in Timeout : n >= 1} \cup {c.PlexTimeout} :
          d = PlexForm(c, v, t)
    BY <2>1 DEF PlexForms
  <2>3. v \in Value /\ t \in Int
    BY InputAssumption DEF Config
  <2>4. QED
    BY <1>1, <2>2, <2>3 DEF PlexForm, Config, Reported, Valid
<1>2. CASE form = "discord"
  <2>1. d \in DiscordForms(c)
    BY <1>2 DEF Submissions
  <2>2. PICK v \in Value, a \in Value :
          d = DiscordForm(c, v, a)
    BY <2>1 DEF DiscordForms
  <2>3. QED
    BY <1>2, <2>2 DEF DiscordForm, Config, Reported, Valid
<1>3. CASE form = "monitoring"
  <2>1. d \in MonitoringForms(c) /\ Valid(d)
    BY <1>3 DEF Submissions
  <2>2. PICK m \in Thresholds : d = [c EXCEPT !.Monitoring = m]
    BY <2>1, MonitoringType
  <2>3. QED
    BY <1>3, <2>1, <2>2 DEF Config, Reported
<1>4. CASE form = "general"
  <2>1. d \in GeneralForms(c)
    BY <1>4 DEF Submissions
  <2>2. PICK v \in Value, p \in Value :
          d = GeneralForm(c, v, p)
    BY <2>1 DEF GeneralForms
  <2>3. QED
    BY <1>4, <2>2 DEF GeneralForm, Config, Reported, Valid
<1>5. CASE form = "toggle"
  <2>1. d \in ToggleForms(c)
    BY <1>5 DEF Submissions
  <2>2. PICK on \in BOOLEAN : d = [c EXCEPT !.MonitoringOn = on]
    BY <2>1 DEF ToggleForms
  <2>3. QED
    BY <1>5, <2>2 DEF Config, Reported, Valid
<1>6. CASE form = "wizard"
  <2>1. d \in WizardForms /\ Valid(d)
    BY <1>6 DEF Submissions
  <2>2. QED
    BY <1>6, <2>1, WizardType DEF Reported
<1>7. QED
  BY <1>1, <1>2, <1>3, <1>4, <1>5, <1>6 DEF Form

-------------------------------------------------------------------------------
(* Whatever interleaves: types, and what is stored is valid                *)

(* A copy that may be saved has been validated, or is one of the forms     *)
(* that leave the thresholds as they were loaded.                          *)
CopiesAreValid == \A r \in Request : Valid(request[r].copy)

ValidInv == TypeOK /\ StoredIsValid /\ CopiesAreValid

(* So is what every other form makes of one.                               *)
LEMMA FormTypes ==
    /\ "plex" \in Form /\ "discord" \in Form /\ "monitoring" \in Form
    /\ "general" \in Form /\ "toggle" \in Form /\ "wizard" \in Form
  BY DEF Form

(* What is reported is a configuration.                                    *)
LEMMA ReportedType ==
    ASSUME NEW old \in Config, NEW form \in Form, NEW c \in Config
    PROVE  Reported(old, form, c) \in Config
<1>1. CASE form = "plex"
  BY <1>1 DEF Reported, Config
<1>2. CASE form = "discord"
  BY <1>2 DEF Reported, Config
<1>3. CASE form = "monitoring"
  BY <1>3 DEF Reported, Config
<1>4. CASE form = "general"
  BY <1>4 DEF Reported, Config
<1>5. CASE form = "toggle"
  BY <1>5 DEF Reported, Config
<1>6. CASE form = "wizard"
  BY <1>6 DEF Reported
<1>7. QED
  BY <1>1, <1>2, <1>3, <1>4, <1>5, <1>6 DEF Form

Handler == [pc : {"idle", "proxies", "account", "save"}, form : Form,
            copy : Config]

(* Putting a handler into a state, and moving it on.                       *)
LEMMA HandlerMoves ==
    ASSUME request \in [Request -> Handler], NEW r \in Request
    PROVE  /\ \A state \in Handler : Is(r, state) =>
                /\ request' \in [Request -> Handler]
                /\ request'[r] = state
                /\ \A q \in Request \ {r} : request'[q] = request[q]
           /\ \A pc \in {"idle", "proxies", "account", "save"} :
                Goes(r, pc) =>
                  /\ request' \in [Request -> Handler]
                  /\ request'[r].pc = pc
                  /\ request'[r].form = request[r].form
                  /\ request'[r].copy = request[r].copy
                  /\ \A q \in Request \ {r} : request'[q] = request[q]
<1>1. ASSUME NEW state \in Handler, Is(r, state)
      PROVE  /\ request' \in [Request -> Handler]
             /\ request'[r] = state
             /\ \A q \in Request \ {r} : request'[q] = request[q]
  BY <1>1 DEF Is
<1>2. ASSUME NEW pc \in {"idle", "proxies", "account", "save"}, Goes(r, pc)
      PROVE  /\ request' \in [Request -> Handler]
             /\ request'[r].pc = pc
             /\ request'[r].form = request[r].form
             /\ request'[r].copy = request[r].copy
             /\ \A q \in Request \ {r} : request'[q] = request[q]
  <2>1. request' = [request EXCEPT ![r] = [request[r] EXCEPT !.pc = pc]]
    BY <1>2 DEF Goes
  <2>2. [request[r] EXCEPT !.pc = pc] \in Handler
    BY DEF Handler
  <2>3. request'[r] = [request[r] EXCEPT !.pc = pc]
    BY <2>1
  <2>4. QED
    BY <2>1, <2>2, <2>3 DEF Handler
<1>3. QED
  BY <1>1, <1>2

(* A handler that serves no form.                                          *)
LEMMA FreeType == Free \in Handler /\ Valid(Free.copy) /\ Free.pc = "idle"
  BY DefaultType, FormTypes DEF Free, Handler

(* TypeOK, read handler by handler.                                        *)
LEMMA TypeIsHandlers ==
    TypeOK <=> /\ cfg \in Config /\ said \in Config
               /\ admin \in BOOLEAN /\ proxies \in Value
               /\ request \in [Request -> Handler]
               /\ forms \in 0..MaxForms /\ faults \in 0..MaxFaults
               /\ overlapped \in BOOLEAN
  BY DEF TypeOK, Handler

(* The first configuration is valid.                                       *)
LEMMA ValidInit == Init => ValidInv
<1> SUFFICES ASSUME Init PROVE ValidInv
  OBVIOUS
<1>1. request \in [Request -> Handler] /\ CopiesAreValid
  BY FreeType DEF Init, CopiesAreValid
<1>2. Default.TrustedProxies \in Value
  BY DefaultType DEF Config
<1>3. TypeOK
  <2>1. cfg \in Config /\ said \in Config /\ proxies \in Value
    BY <1>2, DefaultType DEF Init
  <2>2. forms \in 0..MaxForms /\ faults \in 0..MaxFaults
    BY BoundAssumption, SMT DEF Init
  <2>3. admin \in BOOLEAN /\ overlapped \in BOOLEAN
    BY DEF Init
  <2>4. QED
    BY <1>1, <2>1, <2>2, <2>3, TypeIsHandlers
<1>4. QED
  BY <1>1, <1>3, DefaultType DEF ValidInv, StoredIsValid, Init

(* A form that starts has a valid copy of the right type.                  *)
LEMMA StartsValid ==
    ASSUME ValidInv, NEW r \in Request, NEW form \in Form,
           NEW pc \in {"idle", "proxies", "account", "save"},
           NEW c \in Submissions(form, cfg), Starts(r),
           Is(r, [pc |-> pc, form |-> form, copy |-> c]),
           UNCHANGED <<cfg, admin, proxies, said, faults>>
    PROVE  ValidInv'
<1>1. c \in Config /\ Valid(c)
  BY FormKeepsRest DEF ValidInv, TypeOK, StoredIsValid
<1>2. [pc |-> pc, form |-> form, copy |-> c] \in Handler
  BY <1>1 DEF Handler
<1>3. request \in [Request -> Handler]
  BY TypeIsHandlers DEF ValidInv
<1>4. /\ request' \in [Request -> Handler]
      /\ request'[r] = [pc |-> pc, form |-> form, copy |-> c]
      /\ \A q \in Request \ {r} : request'[q] = request[q]
  BY <1>2, <1>3, HandlerMoves
<1>5. CopiesAreValid'
  BY <1>1, <1>4 DEF CopiesAreValid, ValidInv
<1>6. TypeOK'
  <2>1. forms' \in 0..MaxForms
    BY BoundAssumption DEF Starts, ValidInv, TypeOK
  <2>2. overlapped' \in BOOLEAN
    BY DEF Starts, ValidInv, TypeOK
  <2>3. QED
    BY <1>4, <2>1, <2>2, TypeIsHandlers DEF ValidInv, TypeOK, Handler
<1>7. QED
  BY <1>5, <1>6 DEF ValidInv, StoredIsValid

(* Every step keeps what is stored, and what is about to be, valid.        *)
LEMMA ValidStep == ValidInv /\ [Next]_vars => ValidInv'
<1> SUFFICES ASSUME ValidInv, [Next]_vars PROVE ValidInv'
  OBVIOUS
<1> USE DEF ghosts
<1>0. /\ cfg \in Config /\ said \in Config /\ Valid(cfg)
      /\ admin \in BOOLEAN /\ proxies \in Value
      /\ request \in [Request -> Handler] /\ CopiesAreValid
      /\ forms \in 0..MaxForms /\ faults \in 0..MaxFaults
      /\ overlapped \in BOOLEAN
  BY TypeIsHandlers DEF ValidInv, StoredIsValid
<1>1. ASSUME NEW r \in Request, NEW form \in Form, Submit(r, form)
      PROVE  ValidInv'
  BY <1>1, StartsValid DEF Submit
<1>2. ASSUME NEW r \in Request, SubmitGeneral(r) PROVE ValidInv'
  BY <1>2, StartsValid, FormTypes DEF SubmitGeneral
<1>3. ASSUME NEW r \in Request, SubmitWizard(r) PROVE ValidInv'
  BY <1>3, StartsValid, FormTypes DEF SubmitWizard
<1>4. ASSUME NEW r \in Request, ReplaceProxies(r) PROVE ValidInv'
  <2>1. request[r].copy \in Config /\ Valid(request[r].copy)
    BY <1>0 DEF CopiesAreValid, Handler
  <2>2. Goes(r, "save")
    BY <1>4, <2>1 DEF ReplaceProxies
  <2>3. request' \in [Request -> Handler] /\ CopiesAreValid'
    BY <1>0, <2>1, <2>2, HandlerMoves DEF CopiesAreValid
  <2>4. proxies' \in Value
    BY <1>4, <2>1 DEF ReplaceProxies, Config
  <2>5. TypeOK'
    BY <1>0, <1>4, <2>3, <2>4 DEF ReplaceProxies, TypeOK, Handler
  <2>6. QED
    BY <1>0, <1>4, <2>3, <2>5 DEF ReplaceProxies, ValidInv, StoredIsValid
<1>5. ASSUME NEW r \in Request, SaveAdmin(r) PROVE ValidInv'
  <2>1. request' \in [Request -> Handler] /\ CopiesAreValid'
    BY <1>0, <1>5, HandlerMoves DEF CopiesAreValid, SaveAdmin
  <2>2. TypeOK'
    BY <1>0, <1>5, <2>1 DEF SaveAdmin, TypeOK, Handler
  <2>3. QED
    BY <1>0, <1>5, <2>1, <2>2 DEF SaveAdmin, ValidInv, StoredIsValid
<1>6. ASSUME NEW r \in Request, Save(r) PROVE ValidInv'
  <2>1. /\ request[r].copy \in Config /\ Valid(request[r].copy)
        /\ request[r].form \in Form
    BY <1>0 DEF CopiesAreValid, Handler
  <2>2. request' \in [Request -> Handler] /\ CopiesAreValid'
    BY <1>0, <1>6, FreeType, HandlerMoves DEF CopiesAreValid, Save
  <2>3. said' \in Config
    BY <1>0, <1>6, <2>1, ReportedType DEF Save
  <2>4. TypeOK'
    BY <1>0, <1>6, <2>1, <2>2, <2>3 DEF Save, TypeOK, Handler
  <2>5. QED
    BY <1>6, <2>1, <2>2, <2>4 DEF Save, ValidInv, StoredIsValid
<1>7. ASSUME NEW r \in Request, SaveFails(r) PROVE ValidInv'
  <2>1. request[r].copy \in Config /\ request[r].form \in Form
    BY <1>0 DEF Handler
  <2>2. request' \in [Request -> Handler] /\ CopiesAreValid'
    BY <1>0, <1>7, FreeType, HandlerMoves DEF CopiesAreValid, SaveFails
  <2>3. said' \in Config
    BY <1>0, <1>7, <2>1, ReportedType DEF SaveFails
  <2>4. faults' \in 0..MaxFaults
    BY <1>0, <1>7, BoundAssumption DEF SaveFails
  <2>5. TypeOK'
    BY <1>0, <1>7, <2>2, <2>3, <2>4 DEF SaveFails, TypeOK, Handler
  <2>6. QED
    BY <1>0, <1>7, <2>2, <2>5 DEF SaveFails, ValidInv, StoredIsValid
<1>8. ASSUME NEW reset \in BOOLEAN, Restart(reset) PROVE ValidInv'
  <2>1. request' \in [Request -> Handler] /\ CopiesAreValid'
    BY <1>8, FreeType DEF Restart, CopiesAreValid
  <2>2. cfg.TrustedProxies \in Value
    BY <1>0 DEF Config
  <2>3. faults' \in 0..MaxFaults
    BY <1>0, <1>8, BoundAssumption DEF Restart
  <2>4. TypeOK'
    BY <1>0, <1>8, <2>1, <2>2, <2>3 DEF Restart, TypeOK, Handler
  <2>5. QED
    BY <1>0, <1>8, <2>1, <2>4 DEF Restart, ValidInv, StoredIsValid
<1>9. CASE UNCHANGED vars
  BY <1>9 DEF vars, ValidInv, TypeOK, StoredIsValid, CopiesAreValid
<1>10. QED
  BY <1>1, <1>2, <1>3, <1>4, <1>5, <1>6, <1>7, <1>8, <1>9 DEF Next, Handle

(* Every reachable state is well typed and stores a valid configuration.   *)
THEOREM SettingsValid == Spec => []ValidInv
  BY ValidInit, ValidStep, PTL DEF Spec

(* Every reachable state of the store, the proxies and the forms is well   *)
(* typed.                                                                  *)
THEOREM SettingsTypes == Spec => []TypeOK
<1>1. ValidInv => TypeOK
  BY DEF ValidInv
<1>2. QED
  BY <1>1, SettingsValid, PTL

(* The thresholds in force are within the bounds of Validate, however the  *)
(* forms interleave, fail and are cut off.                                 *)
THEOREM ValidIsStored == Spec => []StoredIsValid
<1>1. ValidInv => StoredIsValid
  BY DEF ValidInv
<1>2. QED
  BY <1>1, SettingsValid, PTL

-------------------------------------------------------------------------------
(* As long as no two forms overlapped                                      *)

(* One request is under way at most, its copy is a form of what is stored  *)
(* now, and the account agrees with how far it is.                         *)
Alone == \A r, q \in Request : ~At(r, "idle") /\ ~At(q, "idle") => r = q
UpToDate ==
    \A r \in Request : ~At(r, "idle") =>
        request[r].copy \in Submissions(request[r].form, cfg)
InPlace ==
    \A r \in Request :
        /\ At(r, "account") => request[r].form = "wizard" /\ ~admin
        /\ At(r, "proxies") => request[r].form = "general"
        /\ At(r, "proxies") \/ At(r, "save") => admin

OneInv == Alone /\ UpToDate /\ InPlace

(* At the start no form is under way.                                      *)
LEMMA SerialInit == Init => OneInv
  BY DEF Init, OneInv, Alone, UpToDate, InPlace, At, Free

(* A form that starts without an overlap, starts alone.                    *)
LEMMA StartsAlone ==
    ASSUME ~overlapped', ValidInv, OneInv, NEW r \in Request, NEW form \in Form,
           NEW pc \in {"idle", "proxies", "account", "save"},
           NEW c \in Submissions(form, cfg), Starts(r),
           Is(r, [pc |-> pc, form |-> form, copy |-> c]),
           UNCHANGED <<cfg, admin, proxies, said, faults>>
    PROVE  /\ AllIdle
           /\ request'[r] = [pc |-> pc, form |-> form, copy |-> c]
           /\ \A q \in Request \ {r} : request'[q] = request[q]
<1>1. AllIdle
  BY DEF Starts
<1>2. c \in Config
  BY FormKeepsRest DEF ValidInv, TypeOK
<1>3. [pc |-> pc, form |-> form, copy |-> c] \in Handler
  BY <1>2 DEF Handler
<1>4. request \in [Request -> Handler]
  BY TypeIsHandlers DEF ValidInv
<1>5. QED
  BY <1>1, <1>3, <1>4, HandlerMoves

(* Until there is an overlap a form starts alone, and its copy stays a     *)
(* form of what is stored until it is saved.                               *)
LEMMA SerialStep ==
    ASSUME ValidInv, OneInv, [Next]_vars, ~overlapped'
    PROVE  OneInv'
<1> USE DEF ghosts
<1>0. /\ request \in [Request -> Handler] /\ cfg \in Config
      /\ Alone /\ UpToDate /\ InPlace
  BY TypeIsHandlers DEF ValidInv, OneInv
<1>1. ASSUME NEW r \in Request, NEW form \in Form \ {"general", "wizard"},
             Submit(r, form)
      PROVE  OneInv'
  <2>1. PICK c \in Submissions(form, cfg) :
               Is(r, [pc |-> "save", form |-> form, copy |-> c])
    BY <1>1 DEF Submit
  <2>2. /\ AllIdle
        /\ request'[r] = [pc |-> "save", form |-> form, copy |-> c]
        /\ \A q \in Request \ {r} : request'[q] = request[q]
    BY <1>1, <2>1, StartsAlone DEF Submit
  <2>3. QED
    BY <1>1, <2>2 DEF Submit, OneInv, Alone, UpToDate, InPlace, AllIdle, At
<1>2. ASSUME NEW r \in Request, SubmitGeneral(r) PROVE OneInv'
  <2>1. PICK c \in Submissions("general", cfg) :
               Is(r, [pc |-> "proxies", form |-> "general", copy |-> c])
    BY <1>2 DEF SubmitGeneral
  <2>2. /\ AllIdle
        /\ request'[r] = [pc |-> "proxies", form |-> "general", copy |-> c]
        /\ \A q \in Request \ {r} : request'[q] = request[q]
    BY <1>2, <2>1, StartsAlone, FormTypes DEF SubmitGeneral
  <2>3. QED
    BY <1>2, <2>2
    DEF SubmitGeneral, OneInv, Alone, UpToDate, InPlace, AllIdle, At
<1>3. ASSUME NEW r \in Request, SubmitWizard(r) PROVE OneInv'
  <2>1. PICK c \in Submissions("wizard", cfg) :
               Is(r, [pc |-> "account", form |-> "wizard", copy |-> c])
    BY <1>3 DEF SubmitWizard
  <2>2. /\ AllIdle
        /\ request'[r] = [pc |-> "account", form |-> "wizard", copy |-> c]
        /\ \A q \in Request \ {r} : request'[q] = request[q]
    BY <1>3, <2>1, StartsAlone, FormTypes DEF SubmitWizard
  <2>3. QED
    BY <1>3, <2>2
    DEF SubmitWizard, OneInv, Alone, UpToDate, InPlace, AllIdle, At
<1>4. ASSUME NEW r \in Request, ReplaceProxies(r) PROVE OneInv'
  <2>1. Goes(r, "save")
    BY <1>0, <1>4 DEF ReplaceProxies, ValidInv, CopiesAreValid
  <2>2. QED
    BY <1>0, <1>4, <2>1, HandlerMoves
    DEF ReplaceProxies, OneInv, Alone, UpToDate, InPlace, At
<1>5. ASSUME NEW r \in Request, SaveAdmin(r) PROVE OneInv'
  BY <1>0, <1>5, HandlerMoves
  DEF SaveAdmin, OneInv, Alone, UpToDate, InPlace, At
<1>6. ASSUME NEW r \in Request, Save(r) \/ SaveFails(r) PROVE OneInv'
  <2>1. /\ request'[r].pc = "idle"
        /\ \A q \in Request \ {r} : request'[q] = request[q]
    BY <1>0, <1>6, HandlerMoves, FreeType DEF Save, SaveFails
  <2>2. \A q \in Request \ {r} : At(q, "idle")
    BY <1>0, <1>6 DEF Alone, At, Save, SaveFails
  <2>3. \A q \in Request : At(q, "idle")'
    BY <2>1, <2>2 DEF At
  <2>4. QED
    BY <2>3 DEF OneInv, Alone, UpToDate, InPlace, At
<1>7. ASSUME NEW reset \in BOOLEAN, Restart(reset) PROVE OneInv'
  BY <1>7, FreeType DEF Restart, OneInv, Alone, UpToDate, InPlace, At
<1>8. CASE UNCHANGED vars
  BY <1>8 DEF vars, OneInv, Alone, UpToDate, InPlace, At
<1>9. QED
  BY <1>1, <1>2, <1>3, <1>4, <1>5, <1>6, <1>7, <1>8 DEF Next, Handle

(* An overlap is remembered.                                               *)
LEMMA OverlapsAddUp == [Next]_vars /\ ~overlapped' => ~overlapped
  BY DEF Next, Handle, Submit, SubmitGeneral, ReplaceProxies, SubmitWizard,
         SaveAdmin, Save, SaveFails, Restart, Starts, vars, ghosts

UntilOverlap == ~overlapped => OneInv

(* As long as no form was submitted while another was under way, at most   *)
(* one is and its copy is of the stored configuration, whatever fails.     *)
THEOREM OneFormAtATime == Spec => [](ValidInv /\ UntilOverlap)
<1>1. ValidInv /\ UntilOverlap /\ [Next]_vars => (ValidInv /\ UntilOverlap)'
  BY ValidStep, SerialStep, OverlapsAddUp DEF UntilOverlap
<1>2. Init => ValidInv /\ UntilOverlap
  BY ValidInit, SerialInit DEF UntilOverlap
<1>3. QED
  BY <1>1, <1>2, PTL DEF Spec

-------------------------------------------------------------------------------
(* No overlap and nothing that failed                                      *)

SavesForm(r, form) == At(r, "save") /\ request[r].form = form

(* Until something fails: what was reported is stored; the proxies in      *)
(* memory are the stored ones or those about to be, unless none are        *)
(* stored; and only the wizard is ever between an account and the setup.   *)
ProxiesFollow ==
    /\ \A r \in Request : SavesForm(r, "general")
         => proxies = request[r].copy.TrustedProxies
    /\ (\A r \in Request : ~SavesForm(r, "general"))
         => cfg.TrustedProxies = Blank \/ proxies = cfg.TrustedProxies
SetupFollows ==
    admin => \/ cfg.SetupComplete
             \/ \E r \in Request : SavesForm(r, "wizard")

FaultFree == cfg = said /\ ProxiesFollow /\ SetupFollows

(* The same at the start.                                                  *)
LEMMA FaultFreeInit == Init => FaultFree
  BY DEF Init, FaultFree, ProxiesFollow, SetupFollows, SavesForm, At, Free,
         Default

(* Every step without an overlap, with nothing failing, keeps what was     *)
(* reported as saved stored, and configured proxies in force.              *)
LEMMA FaultFreeStep ==
    ASSUME ValidInv, OneInv, FaultFree, [Next]_vars, ~overlapped',
           faults' = 0, faults = 0
    PROVE  FaultFree'
<1> USE DEF ghosts
<1>0. /\ request \in [Request -> Handler] /\ cfg \in Config
      /\ Alone /\ UpToDate /\ InPlace
      /\ cfg = said /\ ProxiesFollow /\ SetupFollows
  BY TypeIsHandlers DEF ValidInv, OneInv, FaultFree
<1>1. ASSUME NEW r \in Request, NEW form \in Form,
             NEW pc \in {"idle", "proxies", "account", "save"},
             NEW c \in Submissions(form, cfg), Starts(r),
             Is(r, [pc |-> pc, form |-> form, copy |-> c]),
             UNCHANGED <<cfg, admin, proxies, said, faults>>,
             pc = "save" => form # "general" /\ form # "wizard"
      PROVE  FaultFree'
  <2>1. /\ AllIdle
        /\ request'[r] = [pc |-> pc, form |-> form, copy |-> c]
        /\ \A q \in Request \ {r} : request'[q] = request[q]
    BY <1>1, StartsAlone
  <2>2. \A q \in Request : ~SavesForm(q, "general") /\ ~SavesForm(q, "wizard")
    BY <2>1 DEF AllIdle, At, SavesForm
  <2>3. \A q \in Request : ~SavesForm(q, "general")' /\ ~SavesForm(q, "wizard")'
    BY <1>1, <2>1, <2>2 DEF SavesForm, At
  <2>4. QED
    BY <1>0, <1>1, <2>2, <2>3 DEF FaultFree, ProxiesFollow, SetupFollows
<1>2. ASSUME NEW r \in Request, NEW form \in Form \ {"general", "wizard"},
             Submit(r, form)
      PROVE  FaultFree'
  BY <1>1, <1>2 DEF Submit
<1>3. ASSUME NEW r \in Request, SubmitGeneral(r) \/ SubmitWizard(r)
      PROVE  FaultFree'
  BY <1>1, <1>3, FormTypes DEF SubmitGeneral, SubmitWizard
<1>4. ASSUME NEW r \in Request, ReplaceProxies(r) PROVE FaultFree'
  <2>1. Goes(r, "save") /\ request[r].form = "general" /\ admin
    BY <1>0, <1>4 DEF ReplaceProxies, ValidInv, CopiesAreValid, InPlace
  <2>2. /\ request'[r].pc = "save" /\ request'[r].form = request[r].form
        /\ request'[r].copy = request[r].copy
        /\ \A q \in Request \ {r} : request'[q] = request[q]
    BY <1>0, <2>1, HandlerMoves
  <2>3. \A q \in Request \ {r} : At(q, "idle")
    BY <1>0, <1>4 DEF Alone, At, ReplaceProxies
  <2>4. ProxiesFollow'
    BY <1>4, <2>1, <2>2, <2>3 DEF ReplaceProxies, ProxiesFollow, SavesForm, At
  <2>5. SetupFollows'
    BY <1>0, <1>4, <2>1, <2>2, <2>3
    DEF ReplaceProxies, SetupFollows, SavesForm, At
  <2>6. QED
    BY <1>0, <1>4, <2>4, <2>5 DEF ReplaceProxies, FaultFree
<1>5. ASSUME NEW r \in Request, SaveAdmin(r) PROVE FaultFree'
  <2>1. request[r].form = "wizard" /\ ~admin
    BY <1>0, <1>5 DEF InPlace, SaveAdmin
  <2>2. /\ request'[r].pc = "save" /\ request'[r].form = request[r].form
        /\ \A q \in Request \ {r} : request'[q] = request[q]
    BY <1>0, <1>5, HandlerMoves DEF SaveAdmin
  <2>3. \A q \in Request \ {r} : At(q, "idle")
    BY <1>0, <1>5 DEF Alone, At, SaveAdmin
  <2>4. ProxiesFollow'
    BY <1>0, <1>5, <2>1, <2>2, <2>3
    DEF SaveAdmin, ProxiesFollow, SavesForm, At
  <2>5. SetupFollows'
    BY <1>0, <1>5, <2>1, <2>2, <2>3
    DEF SaveAdmin, SetupFollows, SavesForm, At
  <2>6. QED
    BY <1>0, <1>5, <2>4, <2>5 DEF SaveAdmin, FaultFree
<1>6. ASSUME NEW r \in Request, Save(r) PROVE FaultFree'
  <2> DEFINE form == request[r].form
             copy == request[r].copy
  <2>1. form \in Form /\ copy \in Submissions(form, cfg) /\ admin
    BY <1>0, <1>6 DEF Handler, UpToDate, InPlace, Save, At
  <2>2. /\ Reported(cfg, form, copy) = copy
        /\ form # "general" /\ form # "wizard"
             => copy.TrustedProxies = cfg.TrustedProxies
        /\ form # "wizard" => copy.SetupComplete = cfg.SetupComplete
        /\ form = "wizard" => copy.SetupComplete /\ copy.TrustedProxies = Blank
    BY <1>0, <2>1, FormKeepsRest
  <2>3. /\ request'[r].pc = "idle"
        /\ \A q \in Request \ {r} : request'[q] = request[q]
    BY <1>0, <1>6, HandlerMoves, FreeType DEF Save
  <2>4. /\ \A q \in Request \ {r} : At(q, "idle")
        /\ \A q \in Request : At(q, "idle")'
    BY <1>0, <1>6, <2>3 DEF Alone, At, Save
  <2>5. cfg' = copy /\ said' = copy /\ UNCHANGED <<admin, proxies>>
    BY <1>0, <1>6, <2>2 DEF Save
  <2>6. copy.TrustedProxies = Blank \/ proxies = copy.TrustedProxies
    <3>1. CASE form = "general"
      BY <1>0, <1>6, <3>1 DEF ProxiesFollow, SavesForm, Save
    <3>2. CASE form # "general"
      <4>1. cfg.TrustedProxies = Blank \/ proxies = cfg.TrustedProxies
        BY <1>0, <2>4, <3>2 DEF ProxiesFollow, SavesForm, At
      <4>2. QED
        BY <2>2, <3>2, <4>1
    <3>3. QED
      BY <3>1, <3>2
  <2>7. copy.SetupComplete
    <3>1. CASE form = "wizard"
      BY <2>2, <3>1
    <3>2. CASE form # "wizard"
      BY <1>0, <2>1, <2>2, <2>4, <3>2 DEF SetupFollows, SavesForm, At
    <3>3. QED
      BY <3>1, <3>2
  <2>8. QED
    <3> HIDE DEF form, copy
    <3>1. ProxiesFollow'
      BY <2>4, <2>5, <2>6 DEF ProxiesFollow, SavesForm, At
    <3>2. SetupFollows'
      BY <2>1, <2>4, <2>5, <2>7 DEF SetupFollows, SavesForm, At
    <3>3. QED
      BY <2>5, <3>1, <3>2 DEF FaultFree
<1>7. ASSUME NEW r \in Request, SaveFails(r) PROVE FALSE
  BY <1>7 DEF SaveFails
<1>8. ASSUME NEW reset \in BOOLEAN, Restart(reset) PROVE FaultFree'
  <2>1. AllIdle
    BY <1>0, <1>8 DEF Restart
  <2>2. /\ \A q \in Request : ~SavesForm(q, "general") /\ ~SavesForm(q, "wizard")
        /\ \A q \in Request : ~SavesForm(q, "general")' /\ ~SavesForm(q, "wizard")'
    BY <1>8, <2>1 DEF AllIdle, SavesForm, At, Restart, Free
  <2>3. QED
    BY <1>0, <1>8, <2>1, <2>2
    DEF Restart, FaultFree, ProxiesFollow, SetupFollows
<1>9. CASE UNCHANGED vars
  BY <1>0, <1>9
  DEF vars, FaultFree, ProxiesFollow, SetupFollows, SavesForm, At
<1>10. QED
  BY <1>2, <1>3, <1>4, <1>5, <1>6, <1>7, <1>8, <1>9 DEF Next, Handle

(* Faults only add up.                                                     *)
LEMMA FaultsAddUp ==
    ASSUME ValidInv, [Next]_vars, faults' = 0
    PROVE  faults = 0
<1>1. faults \in Nat
  BY BoundAssumption, SMT DEF ValidInv, TypeOK
<1>2. faults' = faults \/ faults' = faults + 1
  BY DEF Next, Handle, Submit, SubmitGeneral, ReplaceProxies, SubmitWizard,
         SaveAdmin, Save, SaveFails, Restart, vars, ghosts
<1>3. QED
  BY <1>1, <1>2

UntilFault == faults = 0 /\ ~overlapped => FaultFree

(* As long as nothing failed and nothing overlapped, what was reported as  *)
(* saved is stored, and configured proxies and the setup follow it.        *)
THEOREM NothingFailed == Spec => []UntilFault
<1>1. Init => UntilFault
  BY FaultFreeInit DEF UntilFault
<1>2. ValidInv /\ UntilOverlap /\ UntilFault /\ [Next]_vars => UntilFault'
  BY FaultFreeStep, FaultsAddUp, OverlapsAddUp DEF UntilFault, UntilOverlap
<1>3. QED
  BY <1>1, <1>2, OneFormAtATime, PTL DEF Spec

(* What the forms reported as saved is what is stored, as long as no two   *)
(* overlapped and nothing failed.                                          *)
THEOREM SavedStays == Spec => []SavedIsKept
<1>1. UntilFault => SavedIsKept
  BY DEF UntilFault, FaultFree, SavedIsKept, Undisturbed
<1>2. QED
  BY <1>1, NothingFailed, PTL

(* Configured proxies are in force, through restarts, resets and wizards,  *)
(* under the same condition.                                               *)
THEOREM ConfiguredProxiesStay == Spec => []ConfiguredProxiesHold
<1>1. UntilFault => ConfiguredProxiesHold
  BY DEF UntilFault, FaultFree, ProxiesFollow, ConfiguredProxiesHold,
         Undisturbed, AllIdle, SavesForm, At
<1>2. QED
  BY <1>1, NothingFailed, PTL

(* Only a failure or an overlap leaves an account without a complete       *)
(* setup.                                                                  *)
THEOREM SetupIsWhole == Spec => []HalfSetUpOnlyByFailure
<1>1. ValidInv /\ UntilFault => HalfSetUpOnlyByFailure
  <2> SUFFICES ASSUME ValidInv, UntilFault, AllIdle, admin,
                      ~cfg.SetupComplete, ~overlapped
               PROVE  faults > 0
    BY DEF HalfSetUpOnlyByFailure
  <2>1. ~FaultFree
    BY DEF FaultFree, SetupFollows, SavesForm, AllIdle, At
  <2>2. faults \in Nat /\ faults # 0
    <3>1. faults \in Nat
      BY BoundAssumption, SMT DEF ValidInv, TypeOK
    <3>2. QED
      BY <2>1, <3>1 DEF UntilFault
  <2>3. QED
    BY <2>2
<1>2. QED
  BY <1>1, NothingFailed, SettingsValid, PTL

(* An installation that was set up stays so as long as no two forms        *)
(* overlap, through failures and resets: otherwise its worker would stop   *)
(* (worker.go:93).                                                         *)
THEOREM SetupStays == Spec => StaysSetUp
<1>1. ValidInv /\ UntilOverlap /\ [Next]_vars
        => [~overlapped /\ cfg.SetupComplete => cfg'.SetupComplete]_vars
  <2> SUFFICES ASSUME ValidInv, OneInv, [Next]_vars, cfg.SetupComplete
               PROVE  cfg'.SetupComplete
    BY DEF UntilOverlap
  <2>1. ASSUME NEW r \in Request, Save(r) PROVE cfg'.SetupComplete
    <3>1. /\ request[r].form \in Form /\ cfg \in Config
          /\ request[r].copy \in Submissions(request[r].form, cfg)
      BY <2>1, TypeIsHandlers
      DEF ValidInv, Handler, Save, OneInv, UpToDate, At
    <3>2. request[r].copy.SetupComplete
      BY <3>1, FormKeepsRest
    <3>3. QED
      BY <2>1, <3>2 DEF Save
  <2>2. CASE cfg' = cfg
    BY <2>2
  <2>3. QED
    BY <2>1, <2>2
    DEF Next, Handle, Submit, SubmitGeneral, ReplaceProxies, SubmitWizard,
        SaveAdmin, SaveFails, Restart, vars
<1>2. QED
  BY <1>1, OneFormAtATime, PTL DEF Spec, StaysSetUp
===============================================================================
