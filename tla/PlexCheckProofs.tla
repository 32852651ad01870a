---------------------------- MODULE PlexCheckProofs ---------------------------
(***************************************************************************)
(* What a check's result says is what its stages saw, for every order of   *)
(* their outcomes and of the deadline.                                     *)
(*                                                                         *)
(* The three properties are about a check that ended.  The invariant says  *)
(* what is known at each stage before: which stages have seen nothing yet, *)
(* and what their predecessors have left in the result.                    *)
(***************************************************************************)
EXTENDS PlexCheck, TLAPS

(* Nothing was asked of Plex itself.                                       *)
NotAsked == seen.identity = "none" /\ seen.sessions = "none"
NothingVerified == ~res.IdentityVerified /\ ~res.StreamCountKnown

BeforeDial ==
    pc \in {"dns", "dial"} =>
        /\ seen.dial = "none" /\ seen.probes = 0 /\ ~seen.answered /\ NotAsked
        /\ res = NoResult

(* The dial failed with neither a connection nor a refusal, and no port    *)
(* has answered so far.                                                    *)
WhileDiagnosing ==
    pc = "diagnose" =>
        /\ seen.dial \in {"timeout", "error"} /\ ~seen.answered /\ NotAsked
        /\ seen.probes < opts.ports
        /\ ~res.OK /\ ~res.HostReachable /\ NothingVerified
        /\ res.Classification \notin {"online", "host_unreachable"}

Connected == seen.dial = "connected" /\ ~seen.answered /\ res.HostReachable

BeforeIdentity ==
    pc = "identity" =>
        /\ Connected /\ NotAsked /\ NothingVerified /\ ~res.OK
        /\ res.Classification = "none"

(* A Plex server answered; before the sessions it is the expected one, if  *)
(* one is expected.                                                        *)
AfterIdentity ==
    pc \in {"verify", "sessions"} =>
        /\ Connected /\ seen.sessions = "none"
        /\ seen.identity \in {"expected plex", "other plex"}
        /\ res.OK /\ res.Classification = "online" /\ ~res.StreamCountKnown
        /\ pc = "verify" => ~res.IdentityVerified
        /\ res.IdentityVerified => seen.identity = "expected plex"
        /\ pc = "sessions" /\ opts.ExpectedMachineID
              => seen.identity = "expected plex"

StagesFit == BeforeDial /\ WhileDiagnosing /\ BeforeIdentity /\ AfterIdentity
CheckInv == TypeOK /\ StagesFit /\ OKIsEarned /\ VerdictIsConsistent /\ HostVerdict

-------------------------------------------------------------------------------
(* Fail (check.go): the verdict and its classification change, nothing     *)
(* else of the result does.                                                *)
LEMMA FailIs ==
    ASSUME NEW r \in CheckResult, NEW class \in Classification
    PROVE  /\ Fail(r, class) \in CheckResult
           /\ Fail(r, class).Classification = class
           /\ Fail(r, class).OK = FALSE
           /\ Fail(r, class).IdentityVerified = r.IdentityVerified
           /\ Fail(r, class).StreamCountKnown = r.StreamCountKnown
           /\ Fail(r, class).HostReachable = r.HostReachable
BY DEF Fail, CheckResult, Classification

(* The empty result, which every check starts from.                        *)
LEMMA NoResultIs ==
    /\ NoResult \in CheckResult
    /\ NoResult.Classification = "none" /\ NoResult.OK = FALSE
    /\ NoResult.IdentityVerified = FALSE /\ NoResult.StreamCountKnown = FALSE
    /\ NoResult.HostReachable = FALSE
BY DEF NoResult, CheckResult, Classification

(* A check starts in the invariant, also the one without a base URL, which *)
(* is over at once (main.go:92).                                           *)
LEMMA InitFits == Init => CheckInv
<1> SUFFICES ASSUME Init PROVE CheckInv
  OBVIOUS
<1> USE DEF Init, NothingSeen
<1>1. TypeOK
  <2>1. res \in CheckResult
    <3>1. [NoResult EXCEPT !.Classification = "invalid_response"]
             \in CheckResult
      BY NoResultIs DEF CheckResult, Classification
    <3> QED
      BY <3>1, NoResultIs
  <2>2. seen \in [dns : Resolved \cup {"none"}, dial : Dialled \cup {"none"},
                 probes : 0..3, answered : BOOLEAN,
                 identity : Identified \cup {"none"},
                 sessions : Sessions \cup {"none"}]
    OBVIOUS
  <2> QED
    BY <2>1, <2>2 DEF TypeOK
<1>2. StagesFit
  BY DEF StagesFit, BeforeDial, WhileDiagnosing, BeforeIdentity, AfterIdentity,
         NotAsked
<1>3. OKIsEarned /\ VerdictIsConsistent /\ HostVerdict
  BY DEF NoResult, OKIsEarned, VerdictIsConsistent, HostVerdict, Finished
<1> QED
  BY <1>1, <1>2, <1>3 DEF CheckInv

(* Each stage keeps the invariant: what it adds to seen is what it writes  *)
(* into the result, and the end it reaches is one the properties allow.    *)
LEMMA ResolveFits ==
    ASSUME CheckInv, NEW out \in Resolved, ResolveHost(out)
    PROVE  CheckInv'
<1> USE DEF ResolveHost, CheckInv
<1>1. TypeOK'
  <2>1. "dns_failure" \in Classification
    BY DEF Classification
  <2>2. Fail(res, "dns_failure") \in CheckResult
    BY <2>1, FailIs DEF TypeOK
  <2>3. res' \in CheckResult
    BY <2>2 DEF TypeOK
  <2>4. seen' \in [dns : Resolved \cup {"none"}, dial : Dialled \cup {"none"},
                    probes : 0..3, answered : BOOLEAN,
                    identity : Identified \cup {"none"},
                    sessions : Sessions \cup {"none"}]
    BY DEF TypeOK
  <2>5. pc' \in {"dial", "done"} /\ UNCHANGED <<opts, expired>>
    OBVIOUS
  <2> QED
    BY ONLY <2>3, <2>4, <2>5, TypeOK DEF TypeOK
<1>2. StagesFit'
  BY DEF StagesFit, BeforeDial, WhileDiagnosing, BeforeIdentity, AfterIdentity,
         NotAsked, TypeOK, Resolved
<1>3. OKIsEarned' /\ VerdictIsConsistent' /\ HostVerdict'
  <2> SUFFICES ASSUME pc' = "done"
               PROVE  OKIsEarned' /\ VerdictIsConsistent' /\ HostVerdict'
    BY DEF OKIsEarned, VerdictIsConsistent, HostVerdict, Finished
  <2>1. res' = Fail(NoResult, "dns_failure")
    BY DEF StagesFit, BeforeDial
  <2>2. /\ seen'.dial = "none" /\ seen'.answered = FALSE
        /\ seen'.identity = "none" /\ seen'.sessions = "none"
    BY DEF StagesFit, BeforeDial, NotAsked, TypeOK
  <2>3. "dns_failure" \in Classification
    BY DEF Classification
  <2>4. /\ res'.OK = FALSE /\ res'.Classification = "dns_failure"
        /\ res'.IdentityVerified = FALSE /\ res'.StreamCountKnown = FALSE
        /\ res'.HostReachable = FALSE
    BY ONLY <2>1, <2>3, FailIs, NoResultIs
  <2> QED
    BY ONLY <2>2, <2>4 DEF OKIsEarned, VerdictIsConsistent, HostVerdict
<1> QED
  BY <1>1, <1>2, <1>3

LEMMA DialFits ==
    ASSUME CheckInv, NEW out \in Dialled, Dial(out)
    PROVE  CheckInv'
<1> USE DEF Dial, CheckInv
<1>1. /\ seen' \in [dns : Resolved \cup {"none"}, dial : Dialled \cup {"none"},
                    probes : 0..3, answered : BOOLEAN,
                    identity : Identified \cup {"none"},
                    sessions : Sessions \cup {"none"}]
      /\ seen'.dial = out /\ seen'.probes = 0 /\ seen'.answered = FALSE
      /\ seen'.identity = "none" /\ seen'.sessions = "none"
  BY DEF TypeOK, StagesFit, BeforeDial, NotAsked
<1>2. DialClass(out) \in Classification \ {"online", "host_unreachable"}
  BY DEF DialClass, Classification
<1>3. /\ res' \in CheckResult
      /\ res'.OK = FALSE /\ res'.IdentityVerified = FALSE
      /\ res'.StreamCountKnown = FALSE
      /\ res'.HostReachable = (out \in {"connected", "refused"})
      /\ res'.Classification = IF out = "connected" THEN "none"
                               ELSE DialClass(out)
  <2>1. res = NoResult /\ Fail(res, DialClass(out)) \in CheckResult
        /\ opts.SupplementalHostDiag \in BOOLEAN
    BY <1>2, FailIs, NoResultIs DEF StagesFit, BeforeDial, TypeOK, Options
  <2>2. CASE out = "connected"
    BY <2>1, <2>2, NoResultIs DEF CheckResult
  <2>3. CASE out = "refused"
    <3>1. res' = [Fail(res, DialClass(out)) EXCEPT !.HostReachable = TRUE]
      BY <2>3
    <3> QED
      BY ONLY <1>2, <2>1, <2>3, <3>1, FailIs, NoResultIs DEF CheckResult
  <2>4. CASE out \in {"timeout", "error"}
    <3>1. res' = [Fail(res, DialClass(out)) EXCEPT
                    !.HostDiagRan = opts.SupplementalHostDiag]
      BY <2>4
    <3>2. /\ res' \in CheckResult
          /\ \A f \in {"OK", "IdentityVerified", "StreamCountKnown",
                       "HostReachable", "Classification"} :
                res'[f] = Fail(res, DialClass(out))[f]
      BY ONLY <2>1, <3>1 DEF CheckResult
    <3>3. /\ res'.OK = FALSE /\ res'.IdentityVerified = FALSE
          /\ res'.StreamCountKnown = FALSE /\ res'.HostReachable = FALSE
          /\ res'.Classification = DialClass(out)
      BY ONLY <1>2, <2>1, <3>2, FailIs, NoResultIs
    <3>4. (out \in {"connected", "refused"}) = FALSE /\ out # "connected"
      BY ONLY <2>4
    <3> QED
      BY ONLY <3>2, <3>3, <3>4
  <2> QED
    BY <2>2, <2>3, <2>4 DEF Dialled
<1>4. pc' = IF out = "connected" THEN "identity"
            ELSE IF out # "refused" /\ opts.SupplementalHostDiag
            THEN "diagnose" ELSE "done"
  BY DEF Dialled
<1> HIDE DEF Dial
<1>5. opts' = opts /\ expired' = expired /\ opts.ports \in {2, 3} /\ TypeOK
  BY DEF Dial, TypeOK, Options
<1>6. TypeOK'
  BY <1>1, <1>3, <1>4, <1>5 DEF TypeOK
<1>7. StagesFit'
  <2>1. WhileDiagnosing'
    BY <1>1, <1>2, <1>3, <1>4, <1>5
    DEF WhileDiagnosing, NotAsked, NothingVerified, Dialled
  <2>2. BeforeIdentity'
    BY <1>1, <1>3, <1>4
    DEF BeforeIdentity, NotAsked, NothingVerified, Connected
  <2>3. BeforeDial' /\ AfterIdentity'
    BY <1>4 DEF BeforeDial, AfterIdentity
  <2> QED
    BY <2>1, <2>2, <2>3 DEF StagesFit
<1>8. OKIsEarned' /\ VerdictIsConsistent' /\ HostVerdict'
  BY <1>1, <1>2, <1>3, <1>4
  DEF OKIsEarned, VerdictIsConsistent, HostVerdict, Finished, Dialled
<1> QED
  BY <1>6, <1>7, <1>8

LEMMA ProbeFits ==
    ASSUME CheckInv, NEW answers \in BOOLEAN, ProbePort(answers)
    PROVE  CheckInv'
<1> USE DEF ProbePort, CheckInv
<1>1. seen.probes + 1 \in 0..3 /\ seen.probes + 1 <= opts.ports
  BY DEF TypeOK, StagesFit, WhileDiagnosing, Options
<1>2. TypeOK'
  <2>1. "host_unreachable" \in Classification
           /\ "plex_service_unreachable" \in Classification
    BY DEF Classification
  <2>2. Fail(res, "host_unreachable") \in CheckResult
    BY <2>1, FailIs DEF TypeOK
  <2>3. [res EXCEPT !.HostReachable = TRUE,
                    !.Classification = "plex_service_unreachable"]
           \in CheckResult
    BY ONLY <2>1, TypeOK DEF TypeOK, CheckResult
  <2>4. res' \in CheckResult
    BY <2>2, <2>3 DEF TypeOK
  <2>5. seen' \in [dns : Resolved \cup {"none"}, dial : Dialled \cup {"none"},
                    probes : 0..3, answered : BOOLEAN,
                    identity : Identified \cup {"none"},
                    sessions : Sessions \cup {"none"}]
    BY <1>1 DEF TypeOK
  <2>6. pc' \in {"diagnose", "done"} /\ UNCHANGED <<opts, expired>>
    OBVIOUS
  <2> QED
    BY ONLY <2>4, <2>5, <2>6, TypeOK DEF TypeOK
<1>3. StagesFit'
  <2>1. \/ pc' = "done"
        \/ /\ pc' = "diagnose" /\ res' = res
           /\ seen'.probes # opts.ports /\ ~seen'.answered
    <3>1. answers => pc' = "done"
      OBVIOUS
    <3>2. ~answers => \/ pc' = "done"
                      \/ /\ pc' = "diagnose" /\ res' = res
                         /\ seen'.probes # opts.ports
      BY Zenon
    <3>3. seen'.answered = answers
      BY DEF TypeOK
    <3> QED
      BY ONLY <3>1, <3>2, <3>3, Zenon
  <2>2. seen'.probes = seen.probes + 1 /\ (NotAsked => NotAsked')
        /\ seen'.dial = seen.dial /\ opts' = opts
    BY DEF TypeOK, NotAsked
  <2>3. pc = "diagnose" /\ StagesFit /\ opts.ports \in {2, 3}
    BY DEF TypeOK, Options
  <2>4. WhileDiagnosing'
    <3>1. seen'.probes < opts.ports \/ pc' = "done"
      BY ONLY <1>1, <2>1, <2>2, <2>3
    <3> QED
      BY ONLY <2>1, <2>2, <2>3, <3>1
      DEF StagesFit, WhileDiagnosing, NothingVerified
  <2> QED
    BY ONLY <2>1, <2>4
    DEF StagesFit, BeforeDial, BeforeIdentity, AfterIdentity
<1>4. OKIsEarned' /\ VerdictIsConsistent' /\ HostVerdict'
  <2> SUFFICES ASSUME pc' = "done"
               PROVE  OKIsEarned' /\ VerdictIsConsistent' /\ HostVerdict'
    BY DEF OKIsEarned, VerdictIsConsistent, HostVerdict, Finished
  <2>1. /\ seen'.dial \in {"timeout", "error"} /\ seen'.answered = answers
        /\ seen'.probes = seen.probes + 1 /\ opts' = opts
        /\ seen'.identity = "none" /\ seen'.sessions = "none"
    BY DEF TypeOK, StagesFit, WhileDiagnosing, NotAsked
  <2>2. /\ res \in CheckResult /\ res.OK = FALSE /\ res.HostReachable = FALSE
        /\ res.IdentityVerified = FALSE /\ res.StreamCountKnown = FALSE
    BY DEF TypeOK, CheckResult, StagesFit, WhileDiagnosing, NothingVerified
  <2>3. CASE answers
    <3>1. res' = [res EXCEPT !.HostReachable = TRUE,
                             !.Classification = "plex_service_unreachable"]
      BY <2>3
    <3>2. /\ res'.OK = FALSE /\ res'.HostReachable = TRUE
          /\ res'.IdentityVerified = FALSE /\ res'.StreamCountKnown = FALSE
          /\ res'.Classification = "plex_service_unreachable"
      BY ONLY <2>2, <3>1 DEF CheckResult
    <3> QED
      BY ONLY <2>1, <2>3, <3>2
      DEF OKIsEarned, VerdictIsConsistent, HostVerdict
  <2>4. CASE ~answers
    <3>1. seen'.probes = opts'.ports /\ res' = Fail(res, "host_unreachable")
      BY <2>4
    <3>2. "host_unreachable" \in Classification
      BY DEF Classification
    <3>3. /\ res'.OK = FALSE /\ res'.HostReachable = FALSE
          /\ res'.IdentityVerified = FALSE /\ res'.StreamCountKnown = FALSE
          /\ res'.Classification = "host_unreachable"
      BY ONLY <2>2, <3>1, <3>2, FailIs
    <3> QED
      BY ONLY <2>1, <2>4, <3>1, <3>3
      DEF OKIsEarned, VerdictIsConsistent, HostVerdict
  <2> QED
    BY <2>3, <2>4
<1> QED
  BY <1>2, <1>3, <1>4

LEMMA IdentityFits ==
    ASSUME CheckInv, NEW out \in Identified, FetchIdentity(out)
    PROVE  CheckInv'
<1> USE DEF FetchIdentity, CheckInv
<1>1. /\ IdentityClass(out) \in Classification
      /\ IdentityClass(out) # "host_unreachable"
      /\ IdentityClass(out) = "online"
            <=> out \in {"expected plex", "other plex"}
  BY DEF IdentityClass, Classification, Identified
<1>2. /\ seen' \in [dns : Resolved \cup {"none"}, dial : Dialled \cup {"none"},
                    probes : 0..3, answered : BOOLEAN,
                    identity : Identified \cup {"none"},
                    sessions : Sessions \cup {"none"}]
      /\ seen'.identity = out /\ seen'.sessions = "none"
      /\ seen'.dial = "connected" /\ seen'.answered = FALSE
  BY DEF TypeOK, StagesFit, BeforeIdentity, NotAsked, Connected
<1>3. /\ res' \in CheckResult
      /\ res'.Classification = IdentityClass(out)
      /\ res'.OK = (IdentityClass(out) = "online")
      /\ res'.HostReachable = TRUE
      /\ res'.IdentityVerified = FALSE /\ res'.StreamCountKnown = FALSE
  BY <1>1 DEF TypeOK, CheckResult, StagesFit, BeforeIdentity, NothingVerified,
              Connected
<1>4. pc' = (IF IdentityClass(out) = "online" THEN "verify" ELSE "done")
      /\ opts' = opts /\ expired' = expired /\ TypeOK
  OBVIOUS
<1> HIDE DEF FetchIdentity
<1>5. TypeOK'
  BY <1>2, <1>3, <1>4 DEF TypeOK
<1>6. StagesFit'
  BY <1>1, <1>2, <1>3, <1>4
  DEF StagesFit, BeforeDial, WhileDiagnosing, BeforeIdentity, AfterIdentity,
      Connected
<1>7. OKIsEarned' /\ VerdictIsConsistent' /\ HostVerdict'
  BY <1>1, <1>2, <1>3, <1>4
  DEF OKIsEarned, VerdictIsConsistent, HostVerdict, Finished
<1> QED
  BY <1>5, <1>6, <1>7

LEMMA VerifyFits ==
    ASSUME CheckInv, Verify
    PROVE  CheckInv'
<1> USE DEF Verify, CheckInv
<1>1. TypeOK'
  BY DEF TypeOK, Fail, CheckResult, Classification
<1>2. StagesFit'
  BY DEF StagesFit, BeforeDial, WhileDiagnosing, BeforeIdentity, AfterIdentity,
         Connected, Fail, TypeOK, CheckResult
<1>3. OKIsEarned' /\ VerdictIsConsistent' /\ HostVerdict'
  BY DEF StagesFit, AfterIdentity, OKIsEarned, VerdictIsConsistent,
         HostVerdict, Finished, Connected, Fail, TypeOK, CheckResult
<1> QED
  BY <1>1, <1>2, <1>3

LEMMA SessionsFit ==
    ASSUME CheckInv, NEW out \in Sessions, FetchSessionCount(out)
    PROVE  CheckInv'
<1> USE DEF FetchSessionCount, CheckInv
<1>1. TypeOK'
  BY DEF TypeOK, Fail, CheckResult, Classification, Sessions
<1>2. StagesFit'
  BY DEF StagesFit, BeforeDial, WhileDiagnosing, BeforeIdentity, AfterIdentity
<1>3. OKIsEarned' /\ VerdictIsConsistent' /\ HostVerdict'
  BY DEF StagesFit, AfterIdentity, OKIsEarned, VerdictIsConsistent,
         HostVerdict, Finished, Connected, Fail, TypeOK, CheckResult, Sessions
<1> QED
  BY <1>1, <1>2, <1>3

(* A deadline that passes changes what the next stages may see, and none   *)
(* of what was seen.                                                       *)
LEMMA DeadlineFits ==
    ASSUME CheckInv, ContextEnds \/ UNCHANGED vars
    PROVE  CheckInv'
BY DEF CheckInv, ContextEnds, vars, TypeOK, StagesFit, BeforeDial,
       WhileDiagnosing, BeforeIdentity, AfterIdentity, OKIsEarned,
       VerdictIsConsistent, HostVerdict, Finished, Connected, NotAsked,
       NothingVerified

(* The invariant holds throughout a check.                                 *)
THEOREM ChecksFit == Spec => []CheckInv
<1>1. CheckInv /\ [Next]_vars => CheckInv'
  BY ResolveFits, DialFits, ProbeFits, IdentityFits, VerifyFits, SessionsFit,
     DeadlineFits DEF Next, Stage
<1> QED
  BY InitFits, <1>1, PTL DEF Spec

-------------------------------------------------------------------------------
(* OKIsEarned (check.go, Check): OK means that a Plex server answered in   *)
(* this check, the expected one if one is expected, and took the token.    *)
THEOREM OKEarned == Spec => []OKIsEarned
<1>1. CheckInv => OKIsEarned
  BY DEF CheckInv
<1> QED
  BY <1>1, ChecksFit, PTL

(* VerdictIsConsistent (check.go, Check): the classification and the       *)
(* details of a result agree with its verdict.                             *)
THEOREM ConsistentVerdict == Spec => []VerdictIsConsistent
<1>1. CheckInv => VerdictIsConsistent
  BY DEF CheckInv
<1> QED
  BY <1>1, ChecksFit, PTL

(* HostVerdict (check.go, classifyDialFailure and hostAnswersAnywhere):    *)
(* the host is called down only after every port was silent.               *)
THEOREM HostDecided == Spec => []HostVerdict
<1>1. CheckInv => HostVerdict
  BY DEF CheckInv
<1> QED
  BY <1>1, ChecksFit, PTL
===============================================================================
