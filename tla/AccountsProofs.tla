----------------------------- MODULE AccountsProofs ----------------------------
(***************************************************************************)
(* What TLAPS proves of Accounts, for any numbers of requests and sessions *)
(* and any two timeouts.  The inductive invariant says what a stored       *)
(* session has to do with the observations, and what a copy of one, held   *)
(* by a request between its two transactions, has to do with them.         *)
(***************************************************************************)
EXTENDS Accounts, TLAPS

(* A stored session was issued, its creation is the one observed, and its  *)
(* LastSeenAt is the last time it let a request in, or up to a minute      *)
(* before.                                                                 *)
SessionFits(s) ==
    Stored(s) => /\ s \in issued
                 /\ sessions[s].made = age[s]
                 /\ unseen[s] <= sessions[s].seen
                 /\ sessions[s].seen <= unseen[s] + 1

(* A copy is held to slide a session or to tag a new one.                  *)
CopyFits(r) ==
    /\ request[r].pc \notin {"slide", "tag"} => request[r].copy = Absent
    /\ At(r, "slide") => /\ request[r].id \in issued
                         /\ request[r].copy \in Session
                         /\ request[r].copy.seen = 0
                         /\ request[r].copy.made = age[request[r].id]
    /\ At(r, "tag") => /\ request[r].id \in issued
                       /\ request[r].copy = New
                       /\ unseen[request[r].id] = 0
                       /\ age[request[r].id] = 0

SessionsFit == \A s \in SessionID : SessionFits(s)
CopiesFit == \A r \in Request : CopyFits(r)

(* The account, wherever the wizard is.                                    *)
AccountFits ==
    /\ complete => created
    /\ admin => created
    /\ \A r \in Request : At(r, "configure") => created

Inv == TypeOK /\ SessionsFit /\ CopiesFit /\ AccountFits

-------------------------------------------------------------------------------
(* Requests and records                                                    *)

FlagsOK == admin \in BOOLEAN /\ complete \in BOOLEAN /\ created \in BOOLEAN

(* A handler that serves no request.                                       *)
LEMMA FreeIsHandler == Free \in Handler /\ Free.copy = Absent /\ Free.pc = "idle"
  BY DEF Free, Handler, Stage

(* Sessions and handlers are records with these fields.                    *)
LEMMA Records ==
    /\ New \in Session /\ New # Absent
    /\ \A rec \in Session : rec # Absent /\ [rec EXCEPT !.seen = 0] \in Session
  BY TimeoutAssumption DEF New, Session, Absent

(* What a handler holds, field by field.                                   *)
LEMMA HandlerIs ==
    ASSUME TypeOK, NEW r \in Request, NEW state \in Handler, Is(r, state)
    PROVE  /\ request' \in [Request -> Handler]
           /\ request'[r] = state
           /\ \A q \in Request \ {r} : request'[q] = request[q]
  BY DEF Is, TypeOK

(* A handler that moves on leaves the others alone.                        *)
LEMMA HandlerGoes ==
    ASSUME TypeOK, NEW r \in Request, NEW pc \in Stage, Goes(r, pc)
    PROVE  /\ request' \in [Request -> Handler]
           /\ request'[r].pc = pc
           /\ request'[r].id = request[r].id
           /\ request'[r].copy = request[r].copy
           /\ \A q \in Request \ {r} : request'[q] = request[q]
<1>1. request' = [request EXCEPT ![r] = [request[r] EXCEPT !.pc = pc]]
  BY DEF Goes
<1>2. request[r] \in Handler
  BY DEF TypeOK
<1>3. [request[r] EXCEPT !.pc = pc] \in Handler
  BY <1>2 DEF Handler
<1>4. request'[r] = [request[r] EXCEPT !.pc = pc]
  BY <1>1 DEF TypeOK
<1>5. QED
  BY <1>1, <1>2, <1>3, <1>4 DEF TypeOK, Handler

(* The invariant holds at the start.                                       *)
LEMMA InvInit == Init => Inv
<1> SUFFICES ASSUME Init PROVE Inv
  OBVIOUS
<1>1. request \in [Request -> Handler]
  BY FreeIsHandler DEF Init
<1>2. TypeOK
  <2>1. FlagsOK
    BY DEF Init, FlagsOK
  <2>2. /\ sessions \in [SessionID -> Session \cup {Absent}]
        /\ issued \subseteq SessionID
        /\ unseen \in [SessionID -> 0..Idle + 1]
        /\ age \in [SessionID -> 0..Absolute + 1]
    BY TimeoutAssumption DEF Init
  <2>3. QED
    BY <1>1, <2>1, <2>2 DEF TypeOK, FlagsOK
<1>3. CopiesFit /\ AccountFits
  BY FreeIsHandler DEF Init, CopiesFit, CopyFits, AccountFits, At
<1>4. SessionsFit
  BY DEF Init, SessionsFit, SessionFits, Stored
<1>5. QED
  BY <1>2, <1>3, <1>4 DEF Inv

(* Steps that leave the sessions and what is observed of them alone, and   *)
(* move one request to a place where it holds no copy.                     *)
LEMMA QuietMove ==
    ASSUME Inv, NEW r \in Request, request' \in [Request -> Handler],
           \A q \in Request \ {r} : request'[q] = request[q],
           request'[r].pc \notin {"slide", "tag"}, request'[r].copy = Absent,
           UNCHANGED <<sessions, issued, unseen, age>>
    PROVE  SessionsFit' /\ CopiesFit'
<1>1. SessionsFit'
  BY DEF Inv, SessionsFit, SessionFits, Stored
<1>2. CopiesFit'
  BY DEF Inv, CopiesFit, CopyFits, At
<1>3. QED
  BY <1>1, <1>2

(* Steps that also delete sessions.                                        *)
LEMMA DeletingMove ==
    ASSUME Inv, NEW r \in Request, request' \in [Request -> Handler],
           \A q \in Request \ {r} : request'[q] = request[q],
           request'[r].pc \notin {"slide", "tag"}, request'[r].copy = Absent,
           UNCHANGED <<issued, unseen, age>>,
           \A s \in SessionID : sessions'[s] \in {sessions[s], Absent}
    PROVE  SessionsFit' /\ CopiesFit'
<1>1. SessionsFit'
  BY DEF Inv, SessionsFit, SessionFits, Stored
<1>2. CopiesFit'
  BY DEF Inv, CopiesFit, CopyFits, At
<1>3. QED
  BY <1>1, <1>2

(* Every step preserves the invariant.                                     *)
LEMMA InvStep == Inv /\ [Next]_vars => Inv'
<1> SUFFICES ASSUME Inv, [Next]_vars PROVE Inv'
  OBVIOUS
<1> USE DEF store, ghosts
<1>0. /\ TypeOK /\ FlagsOK /\ SessionsFit /\ CopiesFit /\ AccountFits
      /\ request \in [Request -> Handler]
      /\ sessions \in [SessionID -> Session \cup {Absent}]
      /\ issued \subseteq SessionID
      /\ unseen \in [SessionID -> 0..Idle + 1]
      /\ age \in [SessionID -> 0..Absolute + 1]
  BY DEF Inv, TypeOK, FlagsOK
<1>types. ASSUME FlagsOK', request' \in [Request -> Handler],
                 sessions' \in [SessionID -> Session \cup {Absent}],
                 issued' \subseteq SessionID,
                 unseen' \in [SessionID -> 0..Idle + 1],
                 age' \in [SessionID -> 0..Absolute + 1],
                 SessionsFit', CopiesFit', AccountFits'
          PROVE  Inv'
  BY <1>types DEF Inv, TypeOK, FlagsOK
<1>1. ASSUME NEW r \in Request, NEW s \in SessionID, Validate(r, s)
      PROVE  Inv'
  <2> DEFINE rec == sessions[s]
  <2>1. /\ rec \in Session /\ rec # Absent /\ s \in issued
        /\ rec.made = age[s] /\ rec.seen \in Nat
    BY <1>0, <1>1, TimeoutAssumption
    DEF Validate, Stored, SessionsFit, SessionFits, Session
  <2>2. /\ UNCHANGED <<admin, complete, created, sessions, issued, age>>
        /\ FlagsOK'
    BY <1>0, <1>1 DEF Validate, FlagsOK
  <2>3. CASE Expired(rec)
    <3>1. /\ Is(r, [pc |-> "expired", id |-> s, copy |-> Absent])
          /\ UNCHANGED unseen
      BY <1>1, <2>3 DEF Validate
    <3>2. [pc |-> "expired", id |-> s, copy |-> Absent] \in Handler
      BY DEF Handler, Stage
    <3>3. /\ request' \in [Request -> Handler]
          /\ request'[r] = [pc |-> "expired", id |-> s, copy |-> Absent]
          /\ \A q \in Request \ {r} : request'[q] = request[q]
      BY <1>0, <3>1, <3>2, HandlerIs
    <3>4. SessionsFit' /\ CopiesFit'
      BY <2>2, <3>1, <3>3, QuietMove
    <3>5. AccountFits'
      BY <1>0, <2>2, <3>3 DEF AccountFits, At
    <3>6. QED
      BY <1>0, <1>types, <2>2, <3>1, <3>3, <3>4, <3>5
  <2>4. CASE ~Expired(rec) /\ Slides(rec)
    <3> DEFINE copy == [rec EXCEPT !.seen = 0]
    <3>1. Is(r, [pc |-> "slide", id |-> s, copy |-> copy]) /\ UNCHANGED unseen
      BY <1>1, <2>4 DEF Validate
    <3>2. copy \in Session /\ copy.seen = 0 /\ copy.made = rec.made
      BY <2>1, Records DEF Session
    <3> HIDE DEF copy
    <3>3. [pc |-> "slide", id |-> s, copy |-> copy] \in Handler
      BY <3>2 DEF Handler, Stage
    <3>4. /\ request' \in [Request -> Handler]
          /\ request'[r] = [pc |-> "slide", id |-> s, copy |-> copy]
          /\ \A q \in Request \ {r} : request'[q] = request[q]
      BY <1>0, <3>1, <3>3, HandlerIs
    <3>5. SessionsFit'
      BY <1>0, <2>2, <3>1 DEF SessionsFit, SessionFits, Stored
    <3>6. CopiesFit'
      BY <1>0, <2>1, <2>2, <3>1, <3>2, <3>4 DEF CopiesFit, CopyFits, At
    <3>7. AccountFits'
      BY <1>0, <2>2, <3>4 DEF AccountFits, At
    <3>8. QED
      BY <1>0, <1>types, <2>2, <3>1, <3>4, <3>5, <3>6, <3>7
  <2>5. CASE ~Expired(rec) /\ ~Slides(rec)
    <3>1. /\ Is(r, [pc |-> "served", id |-> s, copy |-> Absent])
          /\ unseen' = [unseen EXCEPT ![s] = 0]
      BY <1>1, <2>5 DEF Validate, LetIn
    <3>2. [pc |-> "served", id |-> s, copy |-> Absent] \in Handler
      BY DEF Handler, Stage
    <3>3. /\ request' \in [Request -> Handler]
          /\ request'[r] = [pc |-> "served", id |-> s, copy |-> Absent]
          /\ \A q \in Request \ {r} : request'[q] = request[q]
      BY <1>0, <3>1, <3>2, HandlerIs
    <3>4. unseen' \in [SessionID -> 0..Idle + 1]
      BY <1>0, <3>1, TimeoutAssumption
    <3>5. rec.seen <= 1
      BY <2>1, <2>5 DEF Slides
    <3>6. SessionsFit'
      <4> SUFFICES ASSUME NEW q \in SessionID PROVE SessionFits(q)'
        BY DEF SessionsFit
      <4>1. CASE q = s
        BY <1>0, <2>1, <2>2, <3>1, <3>5, <4>1 DEF SessionFits, Stored
      <4>2. CASE q # s
        BY <1>0, <2>2, <3>1, <4>2 DEF SessionsFit, SessionFits, Stored
      <4>3. QED
        BY <4>1, <4>2
    <3>7. CopiesFit'
      BY <1>0, <2>2, <3>1, <3>3 DEF CopiesFit, CopyFits, At
    <3>8. AccountFits'
      BY <1>0, <2>2, <3>3 DEF AccountFits, At
    <3>9. QED
      BY <1>0, <1>types, <2>2, <3>3, <3>4, <3>6, <3>7, <3>8
  <2>6. QED
    BY <2>3, <2>4, <2>5
<1>2. ASSUME NEW r \in Request, DeleteExpired(r) \/ Answer(r) \/ Logout(r)
                                \/ SignOutOthers(r)
      PROVE  Inv'
  <2>1. Is(r, Free) /\ UNCHANGED <<admin, complete, ghosts>>
    BY <1>2 DEF DeleteExpired, Answer, Logout, SignOutOthers
  <2>2. /\ request' \in [Request -> Handler] /\ request'[r] = Free
        /\ \A q \in Request \ {r} : request'[q] = request[q]
    BY <1>0, <2>1, FreeIsHandler, HandlerIs
  <2>3. /\ sessions' \in [SessionID -> Session \cup {Absent}]
        /\ \A s \in SessionID : sessions'[s] \in {sessions[s], Absent}
    BY <1>0, <1>2 DEF DeleteExpired, Answer, Logout, SignOutOthers, Put
  <2>4. SessionsFit' /\ CopiesFit'
    BY <1>0, <2>1, <2>2, <2>3, FreeIsHandler, DeletingMove
  <2>5. FlagsOK' /\ AccountFits'
    BY <1>0, <2>1, <2>2, FreeIsHandler DEF FlagsOK, AccountFits, At
  <2>6. QED
    BY <1>0, <1>types, <2>1, <2>2, <2>3, <2>4, <2>5
<1>3. ASSUME NEW r \in Request, Slide(r) PROVE Inv'
  <2> DEFINE s == request[r].id
             done == [pc |-> "served", id |-> s, copy |-> Absent]
  <2>1. /\ s \in SessionID /\ s \in issued
        /\ request[r].copy \in Session /\ request[r].copy.seen = 0
        /\ request[r].copy.made = age[s]
    BY <1>0, <1>3 DEF CopiesFit, CopyFits, Slide
  <2>2. done \in Handler
    BY <2>1 DEF Handler, Stage
  <2>3. /\ request' \in [Request -> Handler] /\ request'[r] = done
        /\ \A q \in Request \ {r} : request'[q] = request[q]
    BY <1>0, <1>3, <2>2, HandlerIs DEF Slide
  <2>4. /\ sessions' = [sessions EXCEPT ![s] = request[r].copy]
        /\ unseen' = [unseen EXCEPT ![s] = 0]
        /\ UNCHANGED <<admin, complete, created, issued, age>>
    BY <1>3 DEF Slide, Put, LetIn
  <2>5. /\ sessions' \in [SessionID -> Session \cup {Absent}]
        /\ unseen' \in [SessionID -> 0..Idle + 1]
    BY <1>0, <2>1, <2>4, TimeoutAssumption
  <2>6. SessionsFit'
    <3> SUFFICES ASSUME NEW q \in SessionID PROVE SessionFits(q)'
      BY DEF SessionsFit
    <3>1. CASE q = s
      BY <1>0, <2>1, <2>4, <3>1 DEF SessionFits
    <3>2. CASE q # s
      BY <1>0, <2>4, <3>2 DEF SessionsFit, SessionFits, Stored
    <3>3. QED
      BY <3>1, <3>2
  <2>7. CopiesFit'
    BY <1>0, <2>3, <2>4 DEF CopiesFit, CopyFits, At
  <2>8. FlagsOK' /\ AccountFits'
    BY <1>0, <2>3, <2>4 DEF FlagsOK, AccountFits, At
  <2>9. QED
    BY <1>0, <1>types, <2>3, <2>4, <2>5, <2>6, <2>7, <2>8
<1>4. ASSUME NEW r \in Request,
             ChangePassword(r) \/ BeginSetup(r) \/ DestroyOld(r)
             \/ SaveAdmin(r) \/ \E works \in BOOLEAN : SaveConfig(r, works)
      PROVE  Inv'
  <2>1. request[r].copy = Absent
    BY <1>0, <1>4
    DEF CopiesFit, CopyFits, At, ChangePassword, BeginSetup, DestroyOld,
        SaveAdmin, SaveConfig
  <2>2. PICK pc \in {"others", "wizard", "create", "configure", "idle"} :
          /\ Goes(r, pc) \/ (pc = "idle" /\ Is(r, Free))
          /\ pc = "configure" => SaveAdmin(r)
    BY <1>4
    DEF ChangePassword, BeginSetup, DestroyOld, SaveAdmin, SaveConfig
  <2>3. /\ request' \in [Request -> Handler]
        /\ request'[r].pc = pc /\ request'[r].copy = Absent
        /\ \A q \in Request \ {r} : request'[q] = request[q]
    BY <1>0, <2>1, <2>2, HandlerGoes, HandlerIs, FreeIsHandler DEF Stage
  <2>4. /\ UNCHANGED <<issued, unseen, age>>
        /\ sessions' \in [SessionID -> Session \cup {Absent}]
        /\ \A s \in SessionID : sessions'[s] \in {sessions[s], Absent}
    BY <1>0, <1>4
    DEF ChangePassword, BeginSetup, DestroyOld, SaveAdmin, SaveConfig
  <2>5. SessionsFit' /\ CopiesFit'
    BY <1>0, <2>3, <2>4, DeletingMove
  <2>6. AccountFits'
    <3>1. /\ created => created'
          /\ complete' => complete \/ At(r, "configure")
          /\ admin' => admin \/ created'
      BY <1>0, <1>4
      DEF AccountFits, ChangePassword, BeginSetup, DestroyOld, SaveAdmin,
          SaveConfig
    <3>2. pc = "configure" => created'
      BY <2>2 DEF SaveAdmin
    <3>3. QED
      BY <1>0, <2>3, <3>1, <3>2 DEF AccountFits, At
  <2>7. FlagsOK'
    BY <1>0, <1>4
    DEF FlagsOK, ChangePassword, BeginSetup, DestroyOld, SaveAdmin, SaveConfig
  <2>8. QED
    BY <1>0, <1>types, <2>3, <2>4, <2>5, <2>6, <2>7
<1>5. ASSUME NEW r \in Request, NEW s \in issued \cup {None}, Login(r, s)
      PROVE  Inv'
  <2>1. [pc |-> "destroy", id |-> s, copy |-> Absent] \in Handler
    BY <1>0 DEF Handler, Stage
  <2>2. /\ request' \in [Request -> Handler]
        /\ request'[r] = [pc |-> "destroy", id |-> s, copy |-> Absent]
        /\ \A q \in Request \ {r} : request'[q] = request[q]
    BY <1>0, <1>5, <2>1, HandlerIs DEF Login
  <2>3. UNCHANGED <<store, ghosts>>
    BY <1>5 DEF Login
  <2>4. SessionsFit' /\ CopiesFit'
    BY <1>0, <2>2, <2>3, QuietMove
  <2>5. FlagsOK' /\ AccountFits'
    BY <1>0, <2>2, <2>3 DEF FlagsOK, AccountFits, At
  <2>6. QED
    BY <1>0, <1>types, <2>2, <2>3, <2>4, <2>5
<1>6. ASSUME NEW r \in Request, NEW s \in SessionID, Create(r, s) PROVE Inv'
  <2>1. [pc |-> "tag", id |-> s, copy |-> New] \in Handler
    BY Records DEF Handler, Stage
  <2>2. /\ request' \in [Request -> Handler]
        /\ request'[r] = [pc |-> "tag", id |-> s, copy |-> New]
        /\ \A q \in Request \ {r} : request'[q] = request[q]
    BY <1>0, <1>6, <2>1, HandlerIs DEF Create
  <2>3. /\ s \notin issued /\ issued' = issued \cup {s}
        /\ sessions' = [sessions EXCEPT ![s] = New]
        /\ unseen' = [unseen EXCEPT ![s] = 0]
        /\ age' = [age EXCEPT ![s] = 0]
        /\ UNCHANGED <<admin, complete, created>>
    BY <1>6 DEF Create, Put
  <2>4. /\ sessions' \in [SessionID -> Session \cup {Absent}]
        /\ issued' \subseteq SessionID
        /\ unseen' \in [SessionID -> 0..Idle + 1]
        /\ age' \in [SessionID -> 0..Absolute + 1]
    BY <1>0, <2>3, Records, TimeoutAssumption
  <2>5. SessionsFit'
    <3> SUFFICES ASSUME NEW q \in SessionID PROVE SessionFits(q)'
      BY DEF SessionsFit
    <3>1. CASE q = s
      BY <1>0, <2>3, <3>1 DEF SessionFits, New
    <3>2. CASE q # s
      BY <1>0, <2>3, <3>2 DEF SessionsFit, SessionFits, Stored
    <3>3. QED
      BY <3>1, <3>2
  <2>6. CopiesFit'
    <3> SUFFICES ASSUME NEW q \in Request PROVE CopyFits(q)'
      BY DEF CopiesFit
    <3>1. CASE q = r
      BY <1>0, <2>2, <2>3, <3>1 DEF CopyFits, At
    <3>2. CASE q # r
      BY <1>0, <2>2, <2>3, <3>2 DEF CopiesFit, CopyFits, At
    <3>3. QED
      BY <3>1, <3>2
  <2>7. FlagsOK' /\ AccountFits'
    BY <1>0, <2>2, <2>3 DEF FlagsOK, AccountFits, At
  <2>8. QED
    BY <1>types, <2>2, <2>4, <2>5, <2>6, <2>7
<1>7. ASSUME NEW r \in Request, PutTagged(r) PROVE Inv'
  <2> DEFINE s == request[r].id
  <2>1. /\ s \in SessionID /\ s \in issued /\ request[r].copy = New
        /\ unseen[s] = 0 /\ age[s] = 0
    BY <1>0, <1>7 DEF CopiesFit, CopyFits, PutTagged
  <2>2. /\ request' \in [Request -> Handler] /\ request'[r] = Free
        /\ \A q \in Request \ {r} : request'[q] = request[q]
    BY <1>0, <1>7, FreeIsHandler, HandlerIs DEF PutTagged
  <2>3. /\ sessions' = [sessions EXCEPT ![s] = New]
        /\ UNCHANGED <<admin, complete, created, issued, unseen, age>>
    BY <1>7, <2>1 DEF PutTagged, Put
  <2>4. sessions' \in [SessionID -> Session \cup {Absent}]
    BY <1>0, <2>1, <2>3, Records
  <2>5. SessionsFit'
    <3> SUFFICES ASSUME NEW q \in SessionID PROVE SessionFits(q)'
      BY DEF SessionsFit
    <3>1. CASE q = s
      BY <1>0, <2>1, <2>3, <3>1 DEF SessionFits, New
    <3>2. CASE q # s
      BY <1>0, <2>3, <3>2 DEF SessionsFit, SessionFits, Stored
    <3>3. QED
      BY <3>1, <3>2
  <2>6. CopiesFit'
    BY <1>0, <2>2, <2>3, FreeIsHandler DEF CopiesFit, CopyFits, At
  <2>7. FlagsOK' /\ AccountFits'
    BY <1>0, <2>2, <2>3, FreeIsHandler DEF FlagsOK, AccountFits, At
  <2>8. QED
    BY <1>0, <1>types, <2>2, <2>3, <2>4, <2>5, <2>6, <2>7
<1>8. CASE Purge
  <2>1. /\ sessions' \in [SessionID -> Session \cup {Absent}]
        /\ \A s \in SessionID : sessions'[s] \in {sessions[s], Absent}
        /\ UNCHANGED <<admin, complete, request, ghosts>>
    BY <1>0, <1>8 DEF Purge
  <2>2. SessionsFit'
    BY <1>0, <2>1 DEF SessionsFit, SessionFits, Stored
  <2>3. CopiesFit' /\ FlagsOK' /\ AccountFits'
    BY <1>0, <2>1 DEF CopiesFit, CopyFits, At, FlagsOK, AccountFits
  <2>4. QED
    BY <1>0, <1>types, <2>1, <2>2, <2>3
<1>9. ASSUME NEW reset \in BOOLEAN, Restart(reset) PROVE Inv'
  <2>1. /\ request' \in [Request -> Handler]
        /\ \A q \in Request : request'[q] = Free
        /\ UNCHANGED <<complete, sessions, ghosts>>
        /\ admin' => admin
    BY <1>9, FreeIsHandler DEF Restart
  <2>2. SessionsFit' /\ CopiesFit'
    BY <1>0, <2>1, FreeIsHandler
    DEF SessionsFit, SessionFits, Stored, CopiesFit, CopyFits, At
  <2>3. admin' \in BOOLEAN
    BY <1>9 DEF Restart
  <2>4. FlagsOK' /\ AccountFits'
    BY <1>0, <2>1, <2>3, FreeIsHandler DEF FlagsOK, AccountFits, At
  <2>5. QED
    BY <1>0, <1>types, <2>1, <2>2, <2>4
<1>10. CASE Tick
  <2>1. /\ \A q \in Request : request[q].pc \in {"idle", "served"}
        /\ UNCHANGED <<admin, complete, request, created, issued>>
    BY <1>10 DEF Tick
  <2>2. ASSUME NEW s \in SessionID
        PROVE  /\ sessions'[s] \in Session \cup {Absent}
               /\ Older(unseen[s], Idle) \in 0..Idle + 1
               /\ Older(age[s], Absolute) \in 0..Absolute + 1
               /\ SessionFits(s)'
    <3>1. /\ unseen[s] \in 0..Idle + 1 /\ age[s] \in 0..Absolute + 1
          /\ Idle \in Nat /\ Absolute \in Nat
      BY <1>0, TimeoutAssumption
    <3>2. /\ Older(unseen[s], Idle) \in 0..Idle + 1
          /\ Older(age[s], Absolute) \in 0..Absolute + 1
      BY <3>1 DEF Older
    <3>3. CASE ~Stored(s)
      <4>1. sessions'[s] = Absent
        BY <1>10, <3>3 DEF Tick
      <4>2. QED
        BY <3>2, <4>1 DEF SessionFits, Stored
    <3>4. CASE Stored(s)
      <4> DEFINE old == sessions[s]
                 aged == [seen |-> Older(old.seen, Idle),
                          made |-> Older(old.made, Absolute)]
      <4>1. /\ old \in Session /\ s \in issued /\ old.made = age[s]
            /\ unseen[s] <= old.seen /\ old.seen <= unseen[s] + 1
        BY <1>0, <3>4 DEF Stored, SessionsFit, SessionFits
      <4>2. /\ sessions'[s] = aged
            /\ unseen'[s] = Older(unseen[s], Idle)
            /\ age'[s] = Older(age[s], Absolute)
        BY <1>10, <3>4, <4>1 DEF Tick
      <4>3. old.seen \in 0..Idle + 1 /\ old.made \in 0..Absolute + 1
        BY <4>1 DEF Session
      <4>4. /\ aged \in Session
            /\ aged.made = Older(age[s], Absolute)
            /\ Older(unseen[s], Idle) <= aged.seen
            /\ aged.seen <= Older(unseen[s], Idle) + 1
        BY <3>1, <4>1, <4>3 DEF Older, Session
      <4> HIDE DEF aged
      <4>5. QED
        BY <2>1, <3>2, <4>1, <4>2, <4>4 DEF SessionFits
    <3>5. QED
      BY <3>3, <3>4
  <2>3. sessions' \in [SessionID -> Session \cup {Absent}] /\ SessionsFit'
    <3>1. sessions' = [s \in SessionID |-> sessions'[s]]
      BY <1>10 DEF Tick
    <3>2. QED
      BY <2>2, <3>1 DEF SessionsFit
  <2>4. /\ unseen' \in [SessionID -> 0..Idle + 1]
        /\ age' \in [SessionID -> 0..Absolute + 1]
    <3>1. 0 \in 0..Idle + 1 /\ 0 \in 0..Absolute + 1
      BY TimeoutAssumption
    <3>2. QED
      BY <1>10, <2>2, <3>1 DEF Tick
  <2>5. CopiesFit'
    BY <1>0, <2>1 DEF CopiesFit, CopyFits, At
  <2>6. FlagsOK' /\ AccountFits'
    BY <1>0, <2>1 DEF FlagsOK, AccountFits, At
  <2>7. QED
    BY <1>0, <1>types, <2>1, <2>3, <2>4, <2>5, <2>6
<1>11. CASE UNCHANGED vars
  BY <1>0, <1>11
  DEF vars, Inv, TypeOK, SessionsFit, SessionFits, Stored, CopiesFit, CopyFits,
      AccountFits, At
<1>12. QED
  BY <1>1, <1>2, <1>3, <1>4, <1>5, <1>6, <1>7, <1>8, <1>9, <1>10, <1>11
  DEF Next, Handle

(* Every reachable state has the invariant, for any timeouts.              *)
THEOREM AccountsInv == Spec => []Inv
  BY InvInit, InvStep, PTL DEF Spec

(* Every reachable state of the sessions, the administrator and the        *)
(* handlers is well typed.                                                 *)
THEOREM AccountTypes == Spec => []TypeOK
<1>1. Inv => TypeOK
  BY DEF Inv
<1>2. QED
  BY <1>1, AccountsInv, PTL

(* Setup is never complete without an administrator having been stored.    *)
THEOREM NobodyLockedOut == Spec => []CompleteHasAdmin
<1>1. Inv => CompleteHasAdmin
  BY DEF Inv, AccountFits, CompleteHasAdmin
<1>2. QED
  BY <1>1, AccountsInv, PTL

(* The minute between two writes of LastSeenAt costs a session no more     *)
(* than that minute of its idle timeout.                                   *)
THEOREM UseCounts == Spec => []UseKeepsSignedIn
<1>1. Inv => UseKeepsSignedIn
  BY DEF Inv, SessionsFit, SessionFits, UseKeepsSignedIn
<1>2. QED
  BY <1>1, AccountsInv, PTL

(* A request is let in only within both timeouts of what was observed.     *)
THEOREM BothTimeouts == Spec => TimeoutsHold
<1>1. ASSUME Inv, [Next]_vars, NEW r \in Request, NEW s \in SessionID,
             request[r].pc = "idle", request'[r].pc \in {"slide", "served"},
             request'[r].id = s
      PROVE  unseen[s] <= Idle /\ age[s] <= Absolute
  <2>1. request \in [Request -> Handler] /\ request'[r] # request[r]
    BY <1>1 DEF Inv, TypeOK
  <2>2. \E q \in Request : Handle(q)
    BY <1>1, <2>1, FreeIsHandler DEF Next, Purge, Tick, Restart, vars
  <2>3. PICK q \in Request : Handle(q)
    BY <2>2
  <2>4. q = r
    <3>1. \A q2 \in Request \ {q} : request'[q2] = request[q2]
      BY <2>1, <2>3
      DEF Handle, Validate, DeleteExpired, Slide, Answer, Logout,
          ChangePassword, SignOutOthers, Login, DestroyOld, PutTagged, Create,
          BeginSetup, SaveAdmin, SaveConfig, Is, Goes
    <3>2. QED
      BY <2>1, <3>1
  <2>5. PICK t \in SessionID : Validate(r, t)
    <3>1. CASE \E t \in issued \cup {None} : Login(r, t)
      <4>1. PICK t \in issued \cup {None} : Login(r, t)
        BY <3>1
      <4>2. request'[r].pc = "destroy"
        BY <2>1, <4>1 DEF Login, Is
      <4>3. QED
        BY <1>1, <4>2
    <3>2. CASE BeginSetup(r)
      <4>1. request'[r].pc = "wizard"
        BY <1>1, <3>2, HandlerGoes DEF BeginSetup, Inv, Stage
      <4>2. QED
        BY <1>1, <4>1
    <3>3. QED
      BY <1>1, <2>3, <2>4, <3>1, <3>2
      DEF Handle, DeleteExpired, Slide, Answer, Logout, ChangePassword,
          SignOutOthers, DestroyOld, PutTagged, Create, SaveAdmin, SaveConfig,
          At
  <2>6. ~Expired(sessions[t]) /\ request'[r].id = t /\ Stored(t)
    <3>1. CASE Expired(sessions[t])
      <4>1. request'[r].pc = "expired"
        BY <2>1, <2>5, <3>1 DEF Validate, Is
      <4>2. QED
        BY <1>1, <4>1
    <3>2. CASE ~Expired(sessions[t]) /\ Slides(sessions[t])
      BY <2>1, <2>5, <3>2 DEF Validate, Is
    <3>3. CASE ~Expired(sessions[t]) /\ ~Slides(sessions[t])
      BY <2>1, <2>5, <3>3 DEF Validate, Is
    <3>4. QED
      BY <3>1, <3>2, <3>3
  <2>7. /\ sessions[s] \in Session /\ sessions[s].made = age[s]
        /\ unseen[s] <= sessions[s].seen /\ unseen[s] \in Nat
        /\ sessions[s].seen \in Nat /\ sessions[s].made \in Nat
    BY <1>1, <2>6, TimeoutAssumption
    DEF Inv, TypeOK, SessionsFit, SessionFits, Stored, Session
  <2>8. QED
    BY <1>1, <2>6, <2>7, TimeoutAssumption DEF Expired
<1>2. Inv /\ [Next]_vars
        => [\A r \in Request, s \in SessionID :
              request[r].pc = "idle" /\ request'[r].pc \in {"slide", "served"}
              /\ request'[r].id = s
                => unseen[s] <= Idle /\ age[s] <= Absolute]_vars
  BY <1>1
<1>3. QED
  BY <1>2, AccountsInv, PTL DEF Spec, TimeoutsHold

(* A session that is gone, and that no request holds a copy of, stays gone.*)
THEOREM GoneForGood == Spec => GoneStaysGone
<1>1. ASSUME Inv, [Next]_vars, NEW s \in issued, ~Stored(s), ~Copied(s)
      PROVE  ~Stored(s)'
  <2>1. s \in SessionID /\ sessions[s] = Absent
        /\ sessions \in [SessionID -> Session \cup {Absent}]
    BY <1>1 DEF Inv, TypeOK, Stored
  <2>2. ASSUME NEW r \in Request, Slide(r) \/ PutTagged(r)
        PROVE  sessions'[s] = Absent
    <3>1. sessions' = [sessions EXCEPT ![request[r].id] = request[r].copy]
      BY <2>2 DEF Slide, PutTagged, Put
    <3>2. request[r].id = s => request[r].copy = Absent
      BY <1>1 DEF Copied
    <3>3. QED
      BY <2>1, <3>1, <3>2
  <2>3. ASSUME NEW r \in Request, NEW t \in SessionID, Create(r, t)
        PROVE  sessions'[s] = Absent
    BY <1>1, <2>1, <2>3 DEF Create, Put
  <2>4. sessions'[s] = Absent
    BY <1>1, <2>1, <2>2, <2>3
    DEF Next, Handle, Validate, DeleteExpired, Answer, Logout, ChangePassword,
        SignOutOthers, Login, DestroyOld, BeginSetup, SaveAdmin, SaveConfig,
        Purge, Restart, Tick, Put, Stored, vars, store
  <2>5. QED
    BY <2>4 DEF Stored
<1>2. Inv /\ [Next]_vars
        => [\A s \in issued : ~Stored(s) /\ ~Copied(s) => ~Stored(s)']_vars
  BY <1>1
<1>3. QED
  BY <1>2, AccountsInv, PTL DEF Spec, GoneStaysGone
===============================================================================
