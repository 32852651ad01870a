------------------------------- MODULE PlexCheck ------------------------------
(***************************************************************************)
(* One availability check: plex.Client.Check and its stages, under the     *)
(* deadline Worker.tick gives it.                                          *)
(*                                                                         *)
(* The stages are separate connections: the server can go away, or another *)
(* one can answer, between any two of them, so the outcome of a stage does *)
(* not depend on the outcomes before it.  What a stage saw is remembered   *)
(* in seen, which no code reads.                                           *)
(*                                                                         *)
(* Left out: building a request (its parts were validated when they were   *)
(* saved), the friendly name (display only, its errors are ignored),       *)
(* latencies and texts.                                                    *)
(*                                                                         *)
(* An operator marked "Mutant" is wrong on purpose and used by nothing: it *)
(* is a plausible bug that one of the properties must find.                *)
(***************************************************************************)
EXTENDS Integers

VARIABLES
    opts,      \* plex.Options, from the configuration
    pc,        \* the stage to come
    expired,   \* the check's context is over: deadline or shutdown
    res,       \* CheckResult
    seen       \* what each stage saw
vars == <<opts, pc, expired, res, seen>>

(* FetchSessions: there is a token and the integration is on.  The probed  *)
(* ports are Plex's own, 443 and 80, without repetition (port is the       *)
(* number of different ones).                                              *)
Options == [configured : BOOLEAN, named : BOOLEAN, ports : {2, 3},
            SupplementalHostDiag : BOOLEAN, ExpectedMachineID : BOOLEAN,
            FetchSessions : BOOLEAN]

Classification == {"online", "plex_service_unreachable", "host_unreachable",
    "request_timeout", "dns_failure", "tls_failure", "authentication_failure",
    "identity_mismatch", "invalid_response", "response_error"}

CheckResult == [Classification : Classification \cup {"none"}, OK : BOOLEAN,
                IdentityVerified : BOOLEAN, StreamCountKnown : BOOLEAN,
                HostReachable : BOOLEAN, HostDiagRan : BOOLEAN]
NoResult == [Classification |-> "none", OK |-> FALSE, IdentityVerified |-> FALSE,
             StreamCountKnown |-> FALSE, HostReachable |-> FALSE,
             HostDiagRan |-> FALSE]

(* Outcomes of the stages.  An error is a refusal, a timeout or another.   *)
Resolved == {"address", "error"}
Dialled == {"connected", "refused", "timeout", "error"}
Identified == {"tls", "timeout", "refused", "error", "status", "not plex",
               "expected plex", "other plex"}
Sessions == {"size", "denied", "unknown"}

NothingSeen == [dns |-> "none", dial |-> "none", probes |-> 0,
                answered |-> FALSE, identity |-> "none", sessions |-> "none"]

TypeOK ==
    /\ opts \in Options
    /\ pc \in {"dns", "dial", "diagnose", "identity", "verify", "sessions",
               "done"}
    /\ expired \in BOOLEAN
    /\ res \in CheckResult
    /\ seen \in [dns : Resolved \cup {"none"}, dial : Dialled \cup {"none"},
                 probes : 0..3, answered : BOOLEAN,
                 identity : Identified \cup {"none"},
                 sessions : Sessions \cup {"none"}]

(* Without a base URL there is no check, only its result (main.go:92).     *)
Init ==
    /\ opts \in Options
    /\ expired = FALSE
    /\ seen = NothingSeen
    /\ IF opts.configured
       THEN /\ pc = IF opts.named THEN "dns" ELSE "dial"
            /\ res = NoResult
       ELSE /\ pc = "done"
            /\ res = [NoResult EXCEPT !.Classification = "invalid_response"]

(* Mutant: a mismatch changes the classification and leaves OK as          *)
(* fetchIdentity has set it.                                               *)
FailKeepingOK(r, class) == [r EXCEPT !.Classification = class]

Fail(r, class) == [r EXCEPT !.Classification = class, !.OK = FALSE]

-------------------------------------------------------------------------------
(* The stages.  A context that is over fails a lookup, times a connection  *)
(* out and leaves the sessions unknown.                                    *)

ResolveHost(out) ==
    /\ pc = "dns"
    /\ expired => out = "error"
    /\ seen' = [seen EXCEPT !.dns = out]
    /\ pc' = IF out = "address" THEN "dial" ELSE "done"
    /\ res' = IF out = "address" THEN res ELSE Fail(res, "dns_failure")
    /\ UNCHANGED <<opts, expired>>

(* classifyDialFailure up to the supplemental diagnostics.                 *)
DialClass(out) == IF out = "timeout" THEN "request_timeout"
                  ELSE "plex_service_unreachable"

Dial(out) ==
    /\ pc = "dial"
    /\ expired => out \in {"timeout", "error"}
    /\ seen' = [seen EXCEPT !.dial = out]
    /\ CASE out = "connected" ->
              pc' = "identity" /\ res' = [res EXCEPT !.HostReachable = TRUE]
         [] out = "refused" ->
              /\ pc' = "done"
              /\ res' = [Fail(res, DialClass(out)) EXCEPT !.HostReachable = TRUE]
         [] OTHER ->
              /\ pc' = IF opts.SupplementalHostDiag THEN "diagnose" ELSE "done"
              /\ res' = [Fail(res, DialClass(out)) EXCEPT
                           !.HostDiagRan = opts.SupplementalHostDiag]
    /\ UNCHANGED <<opts, expired>>

(* Mutant: the first silent port decides.                                  *)
ProbePortOnce(answers) ==
    /\ pc = "diagnose"
    /\ expired => ~answers
    /\ seen' = [seen EXCEPT !.probes = @ + 1, !.answered = answers]
    /\ pc' = "done"
    /\ res' = IF answers
              THEN [res EXCEPT !.HostReachable = TRUE,
                               !.Classification = "plex_service_unreachable"]
              ELSE Fail(res, "host_unreachable")
    /\ UNCHANGED <<opts, expired>>

(* hostAnswersAnywhere: the ports one by one, until one answers.           *)
ProbePort(answers) ==
    /\ pc = "diagnose"
    /\ expired => ~answers
    /\ seen' = [seen EXCEPT !.probes = @ + 1, !.answered = answers]
    /\ IF answers
       THEN /\ pc' = "done"
            /\ res' = [res EXCEPT !.HostReachable = TRUE,
                                  !.Classification = "plex_service_unreachable"]
       ELSE IF seen'.probes = opts.ports
       THEN pc' = "done" /\ res' = Fail(res, "host_unreachable")
       ELSE UNCHANGED <<pc, res>>
    /\ UNCHANGED <<opts, expired>>

(* fetchIdentity and httpErrorResult.                                      *)
IdentityClass(out) ==
    CASE out = "tls"      -> "tls_failure"
      [] out = "timeout"  -> "request_timeout"
      [] out = "status"   -> "response_error"
      [] out = "not plex" -> "invalid_response"
      [] out \in {"refused", "error"} -> "plex_service_unreachable"
      [] OTHER            -> "online"

FetchIdentity(out) ==
    /\ pc = "identity"
    /\ expired => out \in {"timeout", "error"}
    /\ seen' = [seen EXCEPT !.identity = out]
    /\ res' = [res EXCEPT !.Classification = IdentityClass(out),
                          !.OK = IdentityClass(out) = "online"]
    /\ pc' = IF IdentityClass(out) = "online" THEN "verify" ELSE "done"
    /\ UNCHANGED <<opts, expired>>

(* The server that answered is compared with the expected one.             *)
Verify ==
    /\ pc = "verify"
    /\ LET same == seen.identity = "expected plex" IN
       /\ res' = IF ~opts.ExpectedMachineID THEN res
                 ELSE IF same THEN [res EXCEPT !.IdentityVerified = TRUE]
                 ELSE Fail(res, "identity_mismatch")
       /\ pc' = IF opts.ExpectedMachineID /\ ~same THEN "done"
                ELSE IF opts.FetchSessions THEN "sessions" ELSE "done"
    /\ UNCHANGED <<opts, expired, seen>>

(* Mutant: a failed session request is taken for an outage.                *)
FetchSessionCountStrict(out) ==
    /\ pc = "sessions"
    /\ expired => out = "unknown"
    /\ seen' = [seen EXCEPT !.sessions = out]
    /\ res' = IF out = "size" THEN [res EXCEPT !.StreamCountKnown = TRUE]
              ELSE Fail(res, "authentication_failure")
    /\ pc' = "done"
    /\ UNCHANGED <<opts, expired>>

(* fetchSessionCount: only a refused token is a failure of the check.      *)
FetchSessionCount(out) ==
    /\ pc = "sessions"
    /\ expired => out = "unknown"
    /\ seen' = [seen EXCEPT !.sessions = out]
    /\ res' = CASE out = "denied" -> Fail(res, "authentication_failure")
                [] out = "size"   -> [res EXCEPT !.StreamCountKnown = TRUE]
                [] OTHER          -> res
    /\ pc' = "done"
    /\ UNCHANGED <<opts, expired>>

ContextEnds ==
    /\ pc # "done" /\ ~expired
    /\ expired' = TRUE
    /\ UNCHANGED <<opts, pc, res, seen>>

Stage ==
    \/ \E out \in Resolved : ResolveHost(out)
    \/ \E out \in Dialled : Dial(out)
    \/ \E answers \in BOOLEAN : ProbePort(answers)
    \/ \E out \in Identified : FetchIdentity(out)
    \/ Verify
    \/ \E out \in Sessions : FetchSessionCount(out)

Next == Stage \/ ContextEnds

Spec == Init /\ [][Next]_vars

-------------------------------------------------------------------------------
(* Correctness.  What the result must be, from everything the stages saw   *)
(* and not from the order they ran in.                                     *)

Finished == pc = "done"

(* OK, which alone drives the state machine, means that a Plex server      *)
(* answered in this check, that it is the expected one if one is expected, *)
(* and that it did not refuse the token; a failing session request is not  *)
(* an outage (check.go:259).                                               *)
OKIsEarned ==
    Finished => (res.OK <=>
        /\ \/ seen.identity = "expected plex"
           \/ seen.identity = "other plex" /\ ~opts.ExpectedMachineID
        /\ seen.sessions # "denied")

(* The incident's classification agrees with the verdict, and a check that *)
(* ran out of time or was cut off by the shutdown is never online unless   *)
(* the server had identified itself before.                                *)
VerdictIsConsistent ==
    Finished =>
        /\ res.OK <=> res.Classification = "online"
        /\ res.IdentityVerified => seen.identity = "expected plex"
        /\ res.StreamCountKnown => res.OK
        /\ res.OK => res.HostReachable

(* The host is called reachable exactly when something on it accepted or   *)
(* refused a connection, and unreachable only when nothing did on any of   *)
(* the probed ports ("decide host down vs service down",                   *)
(* MONITORING.md:52-54).                                                   *)
HostVerdict ==
    Finished =>
        /\ res.HostReachable
             <=> seen.dial \in {"connected", "refused"} \/ seen.answered
        /\ res.Classification = "host_unreachable" =>
              /\ seen.dial \in {"timeout", "error"} /\ ~seen.answered
              /\ seen.probes = opts.ports
        /\ seen.answered => res.Classification = "plex_service_unreachable"
===============================================================================
