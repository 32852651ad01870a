------------------------------- MODULE Accounts -------------------------------
(***************************************************************************)
(* The administrator account and its sessions: the first-run wizard, the   *)
(* login, auth.Manager.Validate with its sliding idle window, the password *)
(* change, the sign-out of other sessions, the hourly purge, and the       *)
(* recovery flow that deletes the account.                                 *)
(*                                                                         *)
(* A request is one HTTP request; it carries some session ID in its        *)
(* cookie.  Each store transaction is a step, and requests interleave.     *)
(* Times are ages: a record written now has age 0, and Tick makes          *)
(* everything a minute older.  Tick waits for requests that are between    *)
(* two transactions: these take far less than the minute it stands for.    *)
(*                                                                         *)
(* Left out: hashing, CSRF tokens, cookies' attributes, audit records, the *)
(* login rate limiter, requests that are refused before they touch the     *)
(* store, and failing transactions other than the wizard's SaveConfig.     *)
(*                                                                         *)
(* An operator marked "Mutant" is wrong on purpose and used by nothing: it *)
(* is a plausible bug that one of the properties must find.                *)
(***************************************************************************)
EXTENDS Integers, FiniteSets

CONSTANTS
    Request,     \* concurrent requests
    SessionID,   \* the values model.NewSessionID can return
    None,        \* no cookie
    Idle,        \* idleTimeout, in units of the minute a slide waits for
    Absolute     \* absTimeout, in the same unit

ASSUME SessionAssumption == None \notin SessionID
ASSUME TimeoutAssumption == Idle \in Nat /\ Absolute \in Nat /\ Idle > 1

VARIABLES
    admin,       \* an administrator is stored
    complete,    \* the stored configuration says SetupComplete
    sessions,    \* the sessions bucket
    request      \* per request: where its handler is and what it read

(* What was observed so far.                                               *)
VARIABLES
    created,     \* an administrator was stored at some time
    issued,      \* the session IDs given out
    unseen,      \* per session: since it was created or last let a request in
    age          \* per session: since it was created
store == <<admin, complete, sessions>>
ghosts == <<created, issued, unseen, age>>
vars == <<store, request, ghosts>>

(* A record's age by LastSeenAt and by CreatedAt; ExpiresAt is Absolute    *)
(* after the latter.  Ages beyond the timeouts are all alike.              *)
Session == [seen : 0..Idle + 1, made : 0..Absolute + 1]
Absent == [seen |-> 0, made |-> -1]
New == [seen |-> 0, made |-> 0]
Stored(s) == sessions[s] # Absent

Stage == {"idle", "expired", "slide", "served", "others", "destroy", "create",
          "tag", "wizard", "configure"}
Handler == [pc : Stage, id : SessionID \cup {None}, copy : Session \cup {Absent}]
Free == [pc |-> "idle", id |-> None, copy |-> Absent]

TypeOK ==
    /\ admin \in BOOLEAN /\ complete \in BOOLEAN /\ created \in BOOLEAN
    /\ sessions \in [SessionID -> Session \cup {Absent}]
    /\ request \in [Request -> Handler]
    /\ issued \subseteq SessionID
    /\ unseen \in [SessionID -> 0..Idle + 1]
    /\ age \in [SessionID -> 0..Absolute + 1]

Init ==
    /\ admin = FALSE /\ complete = FALSE /\ created = FALSE
    /\ sessions = [s \in SessionID |-> Absent]
    /\ request = [r \in Request |-> Free]
    /\ issued = {}
    /\ unseen = [s \in SessionID |-> 0]
    /\ age = [s \in SessionID |-> 0]

At(r, pc) == request[r].pc = pc
Is(r, state) == request' = [request EXCEPT ![r] = state]
Goes(r, pc) == request' = [request EXCEPT ![r].pc = pc]
Put(s, rec) == sessions' = [sessions EXCEPT ![s] = rec]

-------------------------------------------------------------------------------
(* Manager.Validate                                                        *)

(* Mutant: the absolute lifetime is not looked at.                         *)
ExpiredByIdleOnly(rec) == rec.seen > Idle

Expired(rec) == rec.made > Absolute \/ rec.seen > Idle

(* Mutant: one minute more between two writes.                             *)
SlidesEveryOtherMinute(rec) == rec.seen > 2

(* LastSeenAt is written again at most once a minute.                      *)
Slides(rec) == rec.seen > 1

(* The request is let in: what the observations say of it.                 *)
LetIn(s) == unseen' = [unseen EXCEPT ![s] = 0]

(* The first-run gate sends everything to the wizard without an            *)
(* administrator.  A cookie without a record is refused: nothing changes.  *)
Validate(r, s) ==
    /\ At(r, "idle") /\ admin
    /\ s \in issued /\ Stored(s)
    /\ LET rec == sessions[s] IN
       CASE Expired(rec) ->
              /\ Is(r, [pc |-> "expired", id |-> s, copy |-> Absent])
              /\ UNCHANGED unseen
         [] ~Expired(rec) /\ Slides(rec) ->
              /\ Is(r, [pc |-> "slide", id |-> s,
                        copy |-> [rec EXCEPT !.seen = 0]])
              /\ UNCHANGED unseen
         [] ~Expired(rec) /\ ~Slides(rec) ->
              /\ Is(r, [pc |-> "served", id |-> s, copy |-> Absent])
              /\ LetIn(s)
    /\ UNCHANGED <<store, created, issued, age>>

DeleteExpired(r) ==
    /\ At(r, "expired")
    /\ Put(request[r].id, Absent)
    /\ Is(r, Free)
    /\ UNCHANGED <<admin, complete, ghosts>>

(* The whole record as it was read, with a new LastSeenAt.                 *)
Slide(r) ==
    /\ At(r, "slide")
    /\ Put(request[r].id, request[r].copy)
    /\ Is(r, [pc |-> "served", id |-> request[r].id, copy |-> Absent])
    /\ LetIn(request[r].id)
    /\ UNCHANGED <<admin, complete, created, issued, age>>

-------------------------------------------------------------------------------
(* What a request that was let in does                                     *)

(* A page or another action: nothing here changes.                         *)
Answer(r) ==
    /\ At(r, "served")
    /\ Is(r, Free)
    /\ UNCHANGED <<store, ghosts>>

Logout(r) ==
    /\ At(r, "served")
    /\ Put(request[r].id, Absent)
    /\ Is(r, Free)
    /\ UNCHANGED <<admin, complete, ghosts>>

(* handleChangePassword writes the account, then does what                 *)
(* handleSignOutOthers does.                                               *)
ChangePassword(r) ==
    /\ At(r, "served") /\ admin
    /\ admin' = TRUE
    /\ Goes(r, "others")
    /\ UNCHANGED <<complete, sessions, ghosts>>

SignOutOthers(r) ==
    /\ request[r].pc \in {"served", "others"}
    /\ sessions' = [s \in SessionID |->
                      IF s = request[r].id THEN sessions[s] ELSE Absent]
    /\ Is(r, Free)
    /\ UNCHANGED <<admin, complete, ghosts>>

-------------------------------------------------------------------------------
(* handleLoginPost and handleSetupPost                                     *)

(* The password was right; the session of the cookie, if any, goes first.  *)
Login(r, s) ==
    /\ At(r, "idle") /\ admin
    /\ Is(r, [pc |-> "destroy", id |-> s, copy |-> Absent])
    /\ UNCHANGED <<store, ghosts>>

DestroyOld(r) ==
    /\ At(r, "destroy")
    /\ sessions' = [s \in SessionID |->
                      IF s = request[r].id THEN Absent ELSE sessions[s]]
    /\ Goes(r, "create")
    /\ UNCHANGED <<admin, complete, ghosts>>

(* Mutant: the ID of the cookie is kept.                                   *)
CreateKeepingID(r, s) ==
    /\ At(r, "create")
    /\ s \notin issued \/ s = request[r].id
    /\ issued' = issued \cup {s}
    /\ Put(s, New)
    /\ unseen' = [unseen EXCEPT ![s] = 0]
    /\ age' = [age EXCEPT ![s] = 0]
    /\ Is(r, [pc |-> "tag", id |-> s, copy |-> New])
    /\ UNCHANGED <<admin, complete, created>>

(* Manager.Create, then the same record again with its IP tag.             *)
Create(r, s) ==
    /\ At(r, "create")
    /\ s \notin issued
    /\ issued' = issued \cup {s}
    /\ Put(s, New)
    /\ unseen' = [unseen EXCEPT ![s] = 0]
    /\ age' = [age EXCEPT ![s] = 0]
    /\ Is(r, [pc |-> "tag", id |-> s, copy |-> New])
    /\ UNCHANGED <<admin, complete, created>>

PutTagged(r) ==
    /\ At(r, "tag")
    /\ Put(request[r].id, request[r].copy)
    /\ Is(r, Free)
    /\ UNCHANGED <<admin, complete, ghosts>>

(* Mutant: the configuration is saved before the account.                  *)
BeginSetupWithConfig(r) ==
    /\ At(r, "idle") /\ ~admin
    /\ Goes(r, "configure")
    /\ UNCHANGED <<store, ghosts>>

(* The wizard: the form was valid and there was no administrator.          *)
BeginSetup(r) ==
    /\ At(r, "idle") /\ ~admin
    /\ Goes(r, "wizard")
    /\ UNCHANGED <<store, ghosts>>

SaveAdmin(r) ==
    /\ At(r, "wizard")
    /\ admin' = TRUE /\ created' = TRUE
    /\ Goes(r, "configure")
    /\ UNCHANGED <<complete, sessions, issued, unseen, age>>

(* SaveConfig with SetupComplete; when it fails the wizard says so and     *)
(* stops, and the account stays.                                           *)
SaveConfig(r, works) ==
    /\ At(r, "configure")
    /\ IF works THEN complete' = TRUE /\ Goes(r, "create")
                ELSE UNCHANGED complete /\ Is(r, Free)
    /\ UNCHANGED <<admin, sessions, ghosts>>

-------------------------------------------------------------------------------
(* Around the requests                                                     *)

(* PurgeExpiredSessions looks at the absolute expiry only.                 *)
Purge ==
    /\ \E s \in SessionID : Stored(s) /\ sessions[s].made > Absolute
    /\ sessions' = [s \in SessionID |->
                      IF Stored(s) /\ sessions[s].made > Absolute
                      THEN Absent ELSE sessions[s]]
    /\ UNCHANGED <<admin, complete, request, ghosts>>

(* The process stops in the middle of everything and starts again, after   *)
(* -reset-admin perhaps.                                                   *)
Restart(reset) ==
    /\ request' = [r \in Request |-> Free]
    /\ admin' = (admin /\ ~reset)
    /\ UNCHANGED <<complete, sessions, ghosts>>

Older(n, limit) == IF n <= limit THEN n + 1 ELSE n

Tick ==
    /\ \A r \in Request : request[r].pc \in {"idle", "served"}
    /\ sessions' = [s \in SessionID |->
                      IF ~Stored(s) THEN Absent
                      ELSE [seen |-> Older(sessions[s].seen, Idle),
                            made |-> Older(sessions[s].made, Absolute)]]
    /\ unseen' = [s \in SessionID |->
                    IF s \in issued THEN Older(unseen[s], Idle) ELSE 0]
    /\ age' = [s \in SessionID |->
                 IF s \in issued THEN Older(age[s], Absolute) ELSE 0]
    /\ UNCHANGED <<admin, complete, request, created, issued>>

(* The bound on the instance: no login once every ID was given out.        *)
MoreSessions ==
    Cardinality({r \in Request : request[r].pc \in {"destroy", "create",
                                                    "wizard", "configure"}})
        < Cardinality(SessionID \ issued)

Handle(r) ==
    \/ \E s \in SessionID : Validate(r, s)
    \/ DeleteExpired(r) \/ Slide(r)
    \/ Answer(r) \/ Logout(r) \/ ChangePassword(r) \/ SignOutOthers(r)
    \/ MoreSessions /\ \E s \in issued \cup {None} : Login(r, s)
    \/ DestroyOld(r) \/ PutTagged(r)
    \/ \E s \in SessionID : Create(r, s)
    \/ MoreSessions /\ BeginSetup(r)
    \/ SaveAdmin(r) \/ \E works \in BOOLEAN : SaveConfig(r, works)

Next ==
    \/ \E r \in Request : Handle(r)
    \/ Purge \/ Tick
    \/ \E reset \in BOOLEAN : Restart(reset)

Spec == Init /\ [][Next]_vars

-------------------------------------------------------------------------------
(* Correctness                                                             *)

(* Both timeouts hold of the session itself, whatever slides and tags have *)
(* overwritten: a request is let in only if another one was within the     *)
(* idle timeout, and within the absolute lifetime.                         *)
TimeoutsHold ==
    [][\A r \in Request, s \in SessionID :
          request[r].pc = "idle" /\ request'[r].pc \in {"slide", "served"}
          /\ request'[r].id = s
              => unseen[s] <= Idle /\ age[s] <= Absolute]_vars

(* The minute between two writes of LastSeenAt shortens the idle timeout   *)
(* by no more than that minute: a session in use is not signed out early   *)
(* (session.go:85-89).                                                     *)
UseKeepsSignedIn ==
    \A s \in SessionID : Stored(s) => sessions[s].seen <= unseen[s] + 1

(* A session that was logged out, signed out, expired or purged, and that  *)
(* no request has read and not yet written back, does not come back.       *)
Copied(s) == \E r \in Request : request[r].id = s /\ request[r].copy # Absent
GoneStaysGone ==
    [][\A s \in issued : ~Stored(s) /\ ~Copied(s) => ~Stored(s)']_vars

(* However two wizards, a failed save, a stop of the process and a reset   *)
(* fall together, setup is never complete without an administrator having  *)
(* been stored: nobody is locked out of a configured installation          *)
(* (setup.go:122-136).                                                     *)
CompleteHasAdmin == complete => created
===============================================================================
