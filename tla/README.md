# ReelPing: a formal model of its core

ReelPing watches a Plex server, opens an incident when it goes down, announces
outages, recoveries and maintenance on Discord, and gives one administrator a web
interface. These modules model the parts where time, order, failures and
concurrency decide: the state machine, the worker and the handlers that share its
state, the delivery of messages, the availability check, the sessions, the settings,
the login limiter, and the opening of the database.

## 1. The system

All state is in one bbolt database; every `Store` method is one transaction
(`View` or `Update`). The process has these actors:

| actor | code | what it does |
|---|---|---|
| worker goroutine | `internal/monitoring/worker.go` | every interval: check, `Engine.Step`, deliver the effects |
| HTTP handlers | `internal/web/*.go` | one goroutine per request; load, change and save the same records |
| hourly sweep | `cmd/reelping/main.go:158` | retention, purge of expired sessions |

| component | state | operations | what makes it correct |
|---|---|---|---|
| engine | `MonitorState`, incidents, maintenance records | `Step`: success, failure and maintenance branches | one open incident, opened and closed on enough evidence, effects made once |
| worker | `lastResult`, `stabilizeUntil` (memory) | `tick`, `deliver`, `markNotified`, `setDisabled` | an alert is sent at most once; a lasting outage or recovery is noticed |
| maintenance handlers | the engine's records | start, schedule, delay, end, service restored | a window suppresses outages as long as it lasts, and its record agrees |
| settings handlers | the configuration | save forms, toggle, clear history | thresholds changed under way harm no invariant; no save is lost |
| notify service, Discord provider | notification records | `Deliver`, `Send` with retries | the answer agrees with the records; only transient failures are retried |
| idempotency keys | a bucket of keys with times | `ReserveIdempotency` | a page submitted twice is sent once |
| Plex check | none | resolve, dial, probe, identity, sessions | the verdict follows from what was seen |
| sessions, login, wizard | sessions, administrator, `SetupComplete` | `Validate`, `Create`, `Destroy`, ... | timeouts, revocation, no configured installation without an administrator |
| retention | buckets | hourly sweep, cap on incidents | nothing that is in use is removed |
| opening of the database | schema version, backup files | `Open`, `migrate`, `Backup` | a whole backup before a migration; no downgrade; it comes up again |
| rate limiter | counts per key (memory, mutex) | `Allow`, `Reset`, `Sweep` | the limit per window |
| pure functions | none | validation, redaction, messages, password strength | about characters |

They interact through the store, except that handlers read the worker's
`lastResult` (under a mutex), and that the worker and the handlers both call
`notify.Service.Deliver`, which may take minutes.

The hard part: `MonitorState` is one record that four pieces of code load, change
and save in separate transactions with nothing ordering them (`Engine.Step`,
`setDisabled`, `markNotified`, and the handlers' `enterMaintenance` and
`exitMaintenance`); incidents and windows are further records written before it.
So a stale copy, a crash between two writes, or a write that fails can leave the
records disagreeing. Every such place is in the `hazards` of `PROJECT.json`.

## 2. The modules

| module | models | kind |
|---|---|---|
| `Engine` | `engine.go` as operators: the change each branch of `Step` makes to each record, and the condition under which it is taken; the same for `enterMaintenance`, `exitMaintenance`, `setDisabled` | no variables |
| `Monitor` | the abstract specification: worker, handlers, time and restarts as atomic steps on the stored records | state machine |
| `MonitorHistory` | `Monitor` with the cap on the number of incidents, IDs in the order of time, and the checks since the last outage alert | state machine |
| `System` | the actors of `Monitor` at the grain of the code: a transaction or a delivery per step, local copies, crashes, failing saves | state machine |
| `SystemRefinement` | the mapping from `System` to `Monitor` | `INSTANCE ... WITH` |
| `Delivery` | reservation of a page's key, `Deliver` over its destinations, `Send` with its retries | state machine |
| `PlexCheck` | `Client.Check`, a stage per step | state machine |
| `Accounts` | wizard, login, sessions and their timeouts | state machine |
| `Configuration` | the configuration, its presets, `Validate`, and what each form makes of it, as operators | no variables |
| `Settings` | the forms as loads, checks and saves of the whole configuration, with the trusted proxies in memory | state machine |
| `RateLimiter` | `Allow`, `Reset`, `Sweep`, and the logins that call them | state machine |
| `Database` | `Open`: version check, backup, migrations, by processes of several builds that are killed anywhere | state machine |
| `MonitorProofs` | theorems about `Monitor` and `MonitorHistory` | proofs |
| `SystemProofs` | theorems about `System`, and `System` implements `Monitor` | proofs |
| `DeliveryProofs`, `PlexCheckProofs`, `AccountsProofs`, `SettingsProofs`, `RateLimiterProofs`, `DatabaseProofs` | theorems about the module of that name | proofs |
| `MCHistory`, `MCSystem`, `MCDelivery`, `MCAccounts`, `MCSettings` | constants and symmetry for TLC | instances |

`System` implements `Monitor` over the same `Engine`, under a discipline the code lacks
(below); `MonitorHistory` extends `Monitor`.
`Delivery` details what `Monitor` and `System` see as one delivery that succeeds or
not; `Settings` what they see as one step that changes the thresholds; `RateLimiter` the
two questions a login of `Accounts` asks first.

### How they correspond to the code

*Monitor.* `cfg`, `st`, `incidents` and `maintenances` are the records; `lastOK` and
`stabilizing` the worker's memory; `pending` the effect `tick` has not delivered. An
action per branch of `Step` (`CheckUp`, `CheckRecovering`, `CloseIncident`,
`DropIncident`, `CheckStillOffline`, `CheckSuspect`, `OpenIncident`, and the three of
`stepMaintenance`), per branch of `deliver`, per handler that changes the records,
and for `StabilizationEnds` and `Restart`. `issued`, `failureRun`, `successRun`,
`sent` and `restarts` only observe; the guards that read one of them are bounds on
the instance. A check is one step with the reading of the configuration that the code
does seconds earlier (`worker.go:90`); `System` separates the two.

*MonitorHistory.* `CapIncidents` is the loop of `ApplyRetention` that removes the first
keys above the cap. An ID begins with the time it was made at, so IDs are numbers and a
new one is the largest. `quiet` counts checks since the last outage alert.

*System.* The same branches, but `Step` only fills the worker's copy, and
`PutWindow`, `PutIncident` and `SaveState` write it in the code's order. A round begins
with `ReadConfig`: the check, which takes seconds, and all that follows go by the switch
as it was then. `deliver` reads the record before the delivery and writes it back after;
`markNotified`, `setDisabled`, `enterMaintenance` and `exitMaintenance` load in one step and
save in another. `Crash` is enabled between any two of them; `SaveFails` drops the effects
as `Step` does.

`Serialised` chooses between the code (`FALSE`: anyone may come between) and a discipline
that the code does not have and that is made of what `ARCHITECTURE.md:98-104` says of it
(`TRUE`): one update of the `MonitorState` at a time, from its first read or write to its
last, and the copies the worker holds over something slow are protected from the one writer
each has: the switch is not turned during a check, the history is not cleared between an
alert and the record of it. Nobody waits for a check or a delivery otherwise, so a window
may start in the middle of either. `RequestKinds` and `FaultKinds` say what an instance's
administrators ask for and what may fail. New incidents take the IDs in one order; their
names mean nothing here. The counts of consecutive results are observed for `Monitor`'s sake
and kept only when the updates are serialised.

*Delivery.* A call goes through reserve, config, attempt, sleep and record, one
transaction or one post per step. What a post sees is one of six classes, a lost reply
(accepted but unknown) among them. A context may end at any time.

*PlexCheck.* The outcome of a stage does not depend on earlier stages: they are
separate connections to a server that may change. `seen` remembers the outcomes and
is what the properties compare the result with.

*Accounts.* Requests hold copies of sessions between a read and a write. Ages replace
times, in minutes, because `Validate` slides at most once a minute.

*Configuration* and *Settings.* A form loads the whole configuration, changes its
section and saves the whole copy in another transaction; `SubmitGeneral` and
`ReplaceProxies` are the two halves of `handleSaveGeneral`, which replaces
`trustedProxies` in memory before `Validate` may refuse; `SubmitWizard`, `SaveAdmin` and
`Save` are the wizard, which starts from `Default()`. A form that ignores the error of
`SaveConfig` is `SaveFails`. Thresholds are numbers, since `Validate` and the presets
compare them; other sections are members of a small set. `said`, `faults` and
`overlapped` observe: nothing keeps two forms apart, and what is said of forms that did not
overlap is a condition on what happened. A restart is a fault only when it cuts a form off;
`-reset-admin` is not one.

*RateLimiter.* The mutex makes `Allow`, `Reset` and `Sweep` one step each; the login
calls them one after the other with others in between: both keys asked before the
password is verified, both reset after. `log` and `starts` observe.

*Database.* One process at a time holds the file lock. `Start`, `InitBuckets`, `Check`,
the three steps of `Backup`, `ApplyMigration` per version, `Migrated`; `Kill` between any
two, `Fault`s in a backup or a migration. A build is the schema version it knows.
Files are named by the second they were made in. The code has one build so far, with
one migration; several show what the code does as it grows.

### What is abstracted

IDs are model values. Counters stop at `MaxCount`, which is at least every
threshold, so no comparison changes. Times are left out of the state machine except
`FirstFailureAt`, kept relative to the last success. A latency is slow or not. Texts,
stream counts and display fields are left out: no branch reads them. An incident's
`RecoveredAt` is set exactly when `Open` is cleared, so `Open` stands for both.

Operators whose comment begins with "Mutant" are plausible bugs. No specification
uses them; substituted for the definition they imitate, each violates the property
listed with it under `mutants` in `PROJECT.json`.

## 3. What is checked

All runs by TLC, on the bounds of the `.cfg`; a passing run explores every state.

| run | instance | distinct states |
|---|---|---|
| `monitor_safety` | 2 incidents under a cap of 1, 2 windows, thresholds up to 2, 1 restart; recovery threshold, switch and recovery alert change | 1,060,000 |
| `system_heals` | 2 incidents, 1 automatic window, 1 request that also turns the switch, 1 crash or failed save, not serialised | 581,000 |
| `system_refines` | 2 incidents, 1 window, 1 request of any kind, slow and fast answers, failing deliveries, serialised, no crash or failed save | 140,000 |
| `delivery` | 2 calls, 2 pages, no or both webhooks, 1 retry, 1 failing commit | 2,340,000 |
| `plex_check` | all options and outcomes | 1,232 |
| `accounts` | 2 requests, 2 sessions, idle 3, absolute 5 minutes | 61,000 |
| `settings` | 2 requests, 3 forms that may overlap, 1 fault, any restarts and resets; thresholds at and beyond the bounds of `Validate` | 1,278,000 |
| `rate_limiter` | 2 overlapping logins of one address and user, limit 2, window 2, 6 instants | 617,000 |
| `database` | builds of 3 versions, 3 seconds, 3 kills or failures | 52,000 |

**monitor_safety.** The open record is always the one the state names
(`SoleOpenIncident`). States that report an outage have an incident; the maintenance
states are shown exactly while there is a window, and its record is active
(`StatesFitRecords`). The persisted counters never exceed what was observed
(`CountersAreHonest`). Each alert is delivered at most once, the recovery only after the
outage and only for an incident that is over (`AlertsAtMostOnce`); the records claim no
alert that was not sent, and a waiting alert is due (`AlertsFitRecords`). Steps: an
incident opens only on enough failed checks, outside windows and stabilization
(`OpensOnlyWhenConfirmed`), closes only on enough successes (`ClosesOnlyWhenConfirmed`),
and stays over (`OverStaysOver`). Two outage alerts are at least as many checks apart as
confirm a recovery and an outage, whatever is cleared, switched or restarted
(`AlertsAreApart`); the cap never removes the record of the incident that goes on or
whose alert waits (`CapSparesTheActive`). Two incidents and two windows are needed for
one to outlive another; a threshold of two, the least `Validate` admits, separates
suspicion from confirmation, and 1 next to 2 for recovery makes the count matter; a cap
of one is the tightest. Handlers act between any two steps, so settings change with
counters half way.

**system_heals.** With every interleaving, one crash or failed save: the outage alert of
an incident is made once and its recovery never without it (`OutageAlertOnce`), and only
a copy some goroutine still holds can bring an incident back (`OverStaysOver`; it allows
exactly the copies that do). The liveness of the monitor is checked here and not on the
atomic steps, so that it covers what races and crashes leave behind: once requests stop, a
server that stays down is shown as such, one that stays up is online with no incident left
(`HealsToOffline`, `HealsToOnline`), and an automatic window whose server is back ends
(`MaintenanceFinishes`). Two incidents are what `HealsToOffline` needs to be about the
outage after one that was lost to a crash or a failed save, closed by a recovery or by a
window: when the first record is forgotten the second ID is there for the incident that must
follow. Its premise leaves out only that the instance has no ID left for the incident
`Step` is about to open (`OutOfIDs`); once both are taken, no check is made that would need
a third.

The run leaves out deliveries that fail, windows that do not end by themselves and the
clearing of the history, which together do not fit in it. They are in `system_refines`, and
`OutageAlertOnce` and `OverStaysOver` are proved with all of them; the liveness properties
are not checked with them.

Assumed is weak fairness of the worker, of a handler that has
started, and of the stabilization deadline. The code justifies each: the loop of `Run`
resets its timer after every round whatever happened (`worker.go:83-102`), every attempt
of a delivery has a timeout and their number is bounded (`discord.go:115`), handlers wait
for nothing else, and the deadline is a time. No fairness is assumed of the
administrator, of Plex or of failures.

**system_refines.** Serialised and without crashes or failed saves, the transactions
implement `Monitor` (`Refines`): a step of the worker takes effect when `Step` has read the
state, a handler's with its last write. No recovery is announced twice
(`RecoveryAlertOnce`) and no window that ended is active again (`EndedStaysEnded`). All
three fail without the discipline: the races that break them in the code are excluded
here, not found. What the run shows is which order the code's transactions would have to
be kept in for the atomic steps to describe it.

**delivery.** `Deliver` returns true exactly if one of its records says so, there is one
record per destination in order, and a destination recorded as sent accepted a post
(`ReturnIsRecorded`). A page is delivered once per lifetime of its key, and once more
for each reservation whose commit failed, because `reserveIdem` ignores that error
(`OneDeliveryPerPage`). Only transient replies are tried again (`RetriesOnlyTransient`);
when the context ends during a wait one more attempt may begin, because the `select` of
`sleepCtx` may take either case, but it posts nothing. One retry distinguishes first, repeated and last attempts;
`delivery_unrecorded` has two.

**plex_check.** OK means that the right Plex answered and did not refuse the token
(`OKIsEarned`); classification, verification and stream count agree with it
(`VerdictIsConsistent`); the host is called unreachable only after every probe failed
(`HostVerdict`). The check ends, so deadlock is not checked there; everywhere else it is.

**accounts.** No request is let in after either timeout, whatever copies were written back
(`TimeoutsHold`); writing the use of a session at most once a minute costs at most that
minute (`UseKeepsSignedIn`); a session that is gone and of which no request holds a copy
stays gone (`GoneStaysGone`); setup is complete only if an administrator was stored
(`CompleteHasAdmin`).

**settings.** The thresholds in force are within the bounds of `Validate` although two of
the forms save without looking and any of them may save a copy that is out of date
(`StoredIsValid`). As long as no two forms overlapped and nothing failed, through restarts
and resets of the administrator: what was reported as saved is in force (`SavedIsKept`), and
trusted proxies that are configured are the ones requests are judged by
(`ConfiguredProxiesHold`). Only a failure or an overlap leaves an account without a complete
setup (`HalfSetUpOnlyByFailure`). Two requests and three forms let one form come back to
a section another has changed.

**rate_limiter.** Between two resets of a key fewer than twice the limit of attempts pass
within a window's length, since a window begins with an attempt (`BurstsAreBounded`); a
refusal means the limit was used up within the last window, whatever was reset, swept or
interleaved (`RefusalIsEarned`). Time runs over three windows.

**database.** A file under a backup's name is whole (`BackupsAreWhole`); whatever was
migrated has a backup of what was found (`MigratedIsBackedUp`); what is served has the
build's version (`ServesItsSchema`); starting the newest build again and again ends with a
database that is served (`ServesAgain`), with weak fairness of the process's own steps and
of being started, which is what a service manager does. The premise says that in the end
only the newest build is started. Three versions make a migration that is cut short
between two others; faults are bounded by their number, not made to stop.

### Where the code differs from what is said of it

Three runs find a counterexample, each listed with its finding in `PROJECT.json`.

1. `system_maintenance_race`: a check that loaded the state before `enterMaintenance`
   saves it afterwards and the window is forgotten; the planned downtime opens an
   incident. `INCIDENT-STATE-MACHINE.md:72-74` says it does not.
2. `system_crash`: a stop between `PutIncident` and `SaveMonitorState` leaves an open
   incident nothing refers to, and the outage opens a second one.
   `INCIDENT-STATE-MACHINE.md:100-101`, `ARCHITECTURE.md:103-104`. Only stops may fail
   this run and its updates are serialised: the stop alone suffices.
3. `delivery_unrecorded`: a status that is no success, no 4xx and no 5xx (a 3xx without a
   location) reaches `sendErr.Error()` with a nil error (`discord.go:141`); the panic leaves
   no record. `notify.go:1-3`, `DISCORD-SETUP.md:64`.

More configurations end in a counterexample; they are kept beside the runs, each for the one
property it names:

| configuration (module) | what it shows | what is said |
|---|---|---|
| `SystemAlertRace` (`MCSystem`) | a handler's stale copy revives a closed incident, whose recovery is announced again | `INCIDENT-STATE-MACHINE.md:119-121`: idempotency keys, which no caller sets |
| `SystemDelayRace` (`MCSystem`) | delaying a window that just ended by itself makes its record active for ever | `ARCHITECTURE.md:98-104` |
| `SettingsLostUpdate` (`MCSettings`) | of two overlapping forms the later save undoes the earlier (`NoLostUpdate`) | `ARCHITECTURE.md:100-104` |
| `SettingsProxies` (`MCSettings`) | nothing fails or overlaps: after a reset, a restart and the wizard, proxies are trusted that are not configured (`ProxiesAgree`) | `CONFIGURATION.md:78-79` |
| `SettingsTimeout` (`MCSettings`) | the Plex form saves a timeout above the check interval | `MONITORING.md:79` |
| `SettingsRecovery` (`MCSettings`) | the wizard after `-reset-admin` saves `Default()` over the settings | `SECURITY.md:98-100` |
| `RateLimiterUnswept` (`RateLimiter`) | no code calls `Sweep`, so an expired window may stay | `ratelimit.go:62`, `main.go:155-156` |
| `MonitorCooldown` (`MCHistory`) | alerts five checks apart under a cooldown of fifteen | `INCIDENT-STATE-MACHINE.md:122` |
| `MonitorFirstFailure` (`MCHistory`) | an incident whose first failure lies before the last success | `INCIDENT-STATE-MACHINE.md:41` |

Also noticed: nothing starts a scheduled window (`INCIDENT-STATE-MACHINE.md:72-73`), and
the count of slow checks is kept over a window (`engine.go:204`, `MONITORING.md:86-87`).

## 4. What is proved

Each for every value of the constants, under the assumptions the modules name.

| module | theorems | assumptions |
|---|---|---|
| `MonitorProofs` on `Monitor` | `TypeCorrect`, `HonestCounters`, `SuppressionHasWindow`, `RecordsBackStates`, `OneOpenIncident`, `AlertsOnce`, `RecordsBackAlerts`, `OutagesAreConfirmed`, `RecoveriesAreConfirmed`, `OverIsOver` | `NoneAssumption`, `CountAssumption`, `ConfigsAssumption`, `RestartsAssumption` |
| `MonitorProofs` on `MonitorHistory` | `CapIsHarmless`, `CapChangesNothing`, `CapSpares`, `StormsArePrevented` | those of `Monitor`; `OrderAssumption`, `CapAssumption`, `CooldownAssumption`; for the last one `MaxQuiet >= Hysteresis` |
| `SystemProofs`, any interleaving and any faults | `SystemTypes`, `OutageOnce`, `OverIsOver` | `NoneAssumption`, `CountAssumption`, `SettingsAssumption`, `SerialisedAssumption` |
| `SystemProofs`, serialised, any faults | `CopiesAreCurrent`, `EndsAreFinal`, `RecoveryOnce` | the same; `Serialised` |
| `SystemProofs`, serialised, no crash or failed save | `SerialisedRefines`, `OneIncident` | the same; `Serialised`, `MaxFaults = 0` |
| `DeliveryProofs` | `DeliveryTypes`, `OncePerPage`, `ReturnsWhatItRecords`, `RetriesAreTransient` | `PageAssumption`, `PlansAssumption`, `BoundAssumption` |
| `PlexCheckProofs` | `ChecksFit`, `OKEarned`, `ConsistentVerdict`, `HostDecided` | none: there are no constants |
| `AccountsProofs` | `AccountTypes`, `NobodyLockedOut`, `UseCounts`, `BothTimeouts`, `GoneForGood` | `SessionAssumption`, `TimeoutAssumption` |
| `SettingsProofs` | `SettingsTypes`, `ValidIsStored`, `OneFormAtATime`, `SavedStays`, `ConfiguredProxiesStay`, `SetupIsWhole`, `SetupStays` | those of `Configuration` and `Settings` |
| `RateLimiterProofs` | `LimiterTypes`, `Bursts`, `Refusals` | `KeyAssumption`, `LimitAssumption`, `BoundAssumption` |
| `DatabaseProofs` | `DatabaseTypes`, `WholeBackups`, `ServedSchema`, `BackedUpBeforeMigration`, `NoDowngrade` | those of `Database` |

*Monitor.* Lemmas reduce each operator of `Engine` to its types and to the fields it
sets. `TypeOK` is inductive. `CountersAreHonest`, `WindowIsActive` and the two properties
of the displayed state (`Shown`) are inductive given `TypeOK`. The alerts are not
inductive one by one: that a recovery alert is sent once needs that the waiting one was
not sent (`PendingIsDue`), that its incident is over and stays so (`SoleOpenIncident`),
and that `OutageNotified`, read when it was decided, was right (`NotifiedMeansSent`);
their conjunction `AlertInv` is inductive. `PendingIsDue` also says that IDs in use were
issued, without which a new incident might take an old ID. The action properties follow
from `TypeOK`, `CountersAreHonest` and `SoleOpenIncident`, one lemma per kind of step.

*MonitorHistory.* Its steps are those of `Monitor` and the removal of records; `AlertInv`
survives the removal since an incident without a record is neither open nor announced, so
all that was proved of `Monitor` holds with the cap. The cap spares the active incident
because its ID is the largest there is (`Ordered`): a new one opens only when none is
active and no alert waits, so all records but one lie before it, and a cap of at least one
leaves it. For `AlertsAreApart`, `Apart` relates the counters of the state to the checks
since the last alert: the successes counted during an outage, and without one a recovery's
worth and the failures counted since, fit into them; a restart, a window or a switch only
resets what is counted. `MaxQuiet` is where the model stops counting; the theorem needs it
not to stop before the distance it is about.

*System.* `Types` adds to `TypeOK` what the worker holds at each place (`WorkerFits`). Under
any interleaving `OutageAlertOnce` depends on a flag read long before the alert it causes,
so `AlertsFit` speaks of the stored records, of the worker's copy and of the effect in its
hands together. `OverStaysOver` is proved of each step: an update names no incident but the
active one, the one in a copy, and a new one. Serialised, `OneUpdate` says that at most one
update is under way and that its copy is still what is stored, wherever a crash or a failing
save cuts it off; from it the ends of windows and, with `RecoveryFits`, the recovery alerts.
The refinement has a lemma per action: loads and writes are stutters (`Unseen`), because
the mapping shows the worker's records from the moment `Step` has read them and a handler's
window until its last write; `Step` itself, a delivery, and a handler's last write are the
steps of `Monitor`. Its hypothesis is satisfied by the run `system_refines`. `OneIncident`
marks the limits of finding 2: without crashes and failed saves, and with the
discipline, no second incident opens (`OpenFits`: what is open is what the state names, the
stored one or, between `Step`'s writes, the one about to be stored).

*Delivery.* `KeysFit` counts exactly: a page whose key lives was delivered once more than
its reservations were lost. `CallsFit` says of each call, at each of its stages, that it
has a record for every destination before the current one and that `anySent` is about
those; the answer and the retries are what is left of it at the last stage and at `Wake`.
What one call does leaves the others alone (`OthersFit`), so the number of calls does not
matter.

*PlexCheck.* `StagesFit` says of each stage what cannot have been seen yet and what the
stages before it left in the result; the three properties are what is left of it at the end.

*Accounts.* A stored session's age and idle time are bounded by what was observed
(`SessionsFit`), and so is each copy a request holds (`CopiesFit`): `Validate` looked at
the copy it slides, in the same minute. `AccountFits` orders the wizard's writes.

*Settings.* `ValidInv` says that every copy about to be saved is valid, which needs that
the forms that do not validate change no threshold; it holds for overlapping forms too.
`UntilOverlap` says that as long as none overlapped, one request is under way at most and its
copy is a form of what is stored now; `UntilFault` adds what no failure has disturbed. The
conditions are states of the history (`overlapped`, `faults`), not assumptions.

*RateLimiter.* The invariant `KeyInv` names the attempts that began a window: every
attempt lies within the limit after one, two of them lie more than a window apart, and
the counter counts from the last.

*Database.* The invariant says what a process knows where it is (`SchemaKnown`), what the
file it writes holds (`TmpFollows`), and that migrations begin with the backup under its
name (`BackupFirst`).

Every safety property of a passing run is a theorem, under the conditions of its run. Only
model-checked is liveness, which is out of the prover's reach: `HealsToOffline`, `HealsToOnline` and `MaintenanceFinishes` of
`System`, and `ServesAgain` of `Database`.

## 5. What is not modelled

- The text of messages, redaction, validation of URLs and mentions, password strength and
  hashing: pure functions on characters. Pages, routing, API, health and diagnostics: they
  read what the other modules model. The asset generator.
- Quiet hours and `Message.IdempotencyKey`: no form and no caller sets them.
  `MaxIncidents` is set by no form either; its loop is modelled because it can delete what
  the engine needs.
- Pruning by age of announcements, audit and notifications: nothing reads them back to
  decide anything.
- The data race on `trustedProxies` (written without a lock while requests read it):
  `Settings` models the order of the writes, not a torn slice.
- In `Monitor`, that a round uses the configuration read before its check: settings saved
  during a check count one round later in the code. In `System` only the switch changes; the
  thresholds a round read before they were changed are modelled nowhere.
- Two overlapping requests on two windows in `System`: one window's end against the next
  one's start (`actions.go:215`). A window that replaces another leaves the older record
  active for ever, in `Monitor` too; no property excludes it.
- A backup that replaces the one of an earlier version made in the same second: `Database`
  does it, no property excludes it, since one build does not make two backups.
- Failing reads, and failing writes other than those named (the engine ignores
  the errors of most): bbolt fails as a whole, on a full or broken disk.

## 6. Plan

Done: the state machine and its proofs first, because every other promise rests on it; then
`System` and the refinement; then the neighbours `Delivery`, `PlexCheck`, `Accounts`,
`Settings`, `RateLimiter`, `Database` and the cap, with the proofs of their
safety and of the refinement.

Next theorems: for crashes in the serialised system, which of `Monitor`'s invariants
survive (a stop can leave an open incident without a state, and counters that miss a
check); with faults excluded they all hold of what the mapping shows, by the refinement.

Next models: `System` with two requests on smaller settings; the reservation of a
maintenance form's key (`Delivery`) in front of the handler's steps in `System`.

## 7. Running it

    tlc -config MonitorSafety.cfg MCHistory
    tlapm MonitorProofs.tla

Each `.cfg` is named after the module and the question; `PROJECT.json` lists the module
of each.
