------------------------------ MODULE RateLimiter -----------------------------
(***************************************************************************)
(* auth.RateLimiter, a counter per key with a fixed window that starts     *)
(* with the key's first attempt, and handleLoginPost, which asks it twice: *)
(* for the address and for the user name.  A method runs under the         *)
(* limiter's mutex and is one step; the requests interleave between them,  *)
(* and time passes anywhere (verifying a password takes a while).          *)
(*                                                                         *)
(* The limiter of the announcements asks for a single key and never        *)
(* resets it: the same as one address here whose requests go no further.   *)
(*                                                                         *)
(* Sweep is called by nothing, although main.go:155-156 says the hourly    *)
(* maintenance does it.  With Sweeps = TRUE it may happen at any time,     *)
(* with FALSE never, as in the code; the promises about attempts hold      *)
(* either way.                                                             *)
(*                                                                         *)
(* Left out: sessions and accounts (Accounts); a restart, which forgets    *)
(* the counters and everything observed of them.                           *)
(*                                                                         *)
(* An operator marked "Mutant" is wrong on purpose and used by nothing: it *)
(* is a plausible bug that one of the properties must find.                *)
(***************************************************************************)
EXTENDS Integers, Sequences

CONSTANTS
    Request,     \* concurrent logins
    Address,     \* keys "ip:..."
    User,        \* keys "user:..."
    None,        \* no window
    Max,         \* attempts per window
    Window,      \* its length
    Sweeps,      \* whether Sweep is called
    MaxTime      \* bound on the time

ASSUME KeyAssumption == Address \cap User = {} /\ None \notin Address \cup User
ASSUME LimitAssumption == Max \in Nat \ {0} /\ Window \in Nat
ASSUME BoundAssumption == Sweeps \in BOOLEAN /\ MaxTime \in Nat

VARIABLES
    now,
    attempts,   \* per key: count and reset of its window, or none
    request     \* per request: where its handler is, for which keys

(* What was observed so far.                                               *)
VARIABLES
    log,        \* per key, the times of the attempts permitted since the
                \* key was last reset, in order
    starts      \* per key, the positions in its log that began a window

vars == <<now, attempts, request, log, starts>>

Key == Address \cup User
NoWindow == [count |-> 0, reset |-> -1]
Free == [pc |-> "idle", address |-> None, user |-> None]

TypeOK ==
    /\ now \in Nat
    /\ attempts \in [Key -> [count : 1..Max, reset : Nat] \cup {NoWindow}]
    /\ request \in [Request ->
         [pc : {"idle", "address", "user", "verify", "reset", "resetUser"},
          address : Address \cup {None}, user : User \cup {None}]]
    /\ log \in [Key -> Seq(Nat)]
    /\ starts \in [Key -> SUBSET Nat]

Init ==
    /\ now = 0
    /\ attempts = [k \in Key |-> NoWindow]
    /\ request = [r \in Request |-> Free]
    /\ log = [k \in Key |-> << >>]
    /\ starts = [k \in Key |-> {}]

-------------------------------------------------------------------------------
(* The limiter                                                             *)

(* Mutant: the window ends a moment before its last attempt could come.    *)
ExpiredAtReset(k) == attempts[k] = NoWindow \/ now >= attempts[k].reset

(* There is no window, or now.After(w.reset).                              *)
Expired(k) == attempts[k] = NoWindow \/ now > attempts[k].reset

Refuses(k) == ~Expired(k) /\ attempts[k].count >= Max

(* Mutant: an attempt within a window starts it afresh.                    *)
PermitSliding(k) ==
    /\ ~Refuses(k)
    /\ attempts' = [attempts EXCEPT
                      ![k] = [count |-> IF Expired(k) THEN 1 ELSE @.count + 1,
                              reset |-> now + Window]]
    /\ log' = [log EXCEPT ![k] = Append(@, now)]
    /\ starts' = IF Expired(k)
                 THEN [starts EXCEPT ![k] = @ \cup {Len(log[k]) + 1}]
                 ELSE starts

(* Allow, when it permits; when it refuses it changes nothing.             *)
Permit(k) ==
    /\ ~Refuses(k)
    /\ attempts' = [attempts EXCEPT
                      ![k] = IF Expired(k)
                             THEN [count |-> 1, reset |-> now + Window]
                             ELSE [count |-> @.count + 1, reset |-> @.reset]]
    /\ log' = [log EXCEPT ![k] = Append(@, now)]
    /\ starts' = IF Expired(k)
                 THEN [starts EXCEPT ![k] = @ \cup {Len(log[k]) + 1}]
                 ELSE starts

Reset(k) ==
    /\ attempts' = [attempts EXCEPT ![k] = NoWindow]
    /\ log' = [log EXCEPT ![k] = << >>]
    /\ starts' = [starts EXCEPT ![k] = {}]

Stale == {k \in Key : attempts[k] # NoWindow /\ Expired(k)}

Sweep ==
    /\ Sweeps /\ Stale # {}
    /\ attempts' = [k \in Key |-> IF k \in Stale THEN NoWindow
                                  ELSE attempts[k]]
    /\ UNCHANGED <<now, request, log, starts>>

-------------------------------------------------------------------------------
(* handleLoginPost                                                         *)

At(r, pc) == request[r].pc = pc
Goes(r, pc) == request' = [request EXCEPT ![r].pc = pc]
Done(r) == request' = [request EXCEPT ![r] = Free]

Arrive(r, a, u) ==
    /\ At(r, "idle")
    /\ request' = [request EXCEPT
                     ![r] = [pc |-> "address", address |-> a, user |-> u]]
    /\ UNCHANGED <<now, attempts, log, starts>>

AskForAddress(r) ==
    /\ At(r, "address")
    /\ Permit(request[r].address)
    /\ Goes(r, "user")
    /\ UNCHANGED now

(* The attempt already counts for the address when the name is refused.    *)
AskForUser(r) ==
    /\ At(r, "user")
    /\ Permit(request[r].user)
    /\ Goes(r, "verify")
    /\ UNCHANGED now

Refused(r) ==
    /\ \/ At(r, "address") /\ Refuses(request[r].address)
       \/ At(r, "user") /\ Refuses(request[r].user)
    /\ Done(r)
    /\ UNCHANGED <<now, attempts, log, starts>>

Verify(r, right) ==
    /\ At(r, "verify")
    /\ IF right THEN Goes(r, "reset") ELSE Done(r)
    /\ UNCHANGED <<now, attempts, log, starts>>

(* A login that succeeded clears both counters, whoever else has counted   *)
(* there meanwhile.                                                        *)
ResetAddress(r) ==
    /\ At(r, "reset")
    /\ Reset(request[r].address)
    /\ Goes(r, "resetUser")
    /\ UNCHANGED now

ResetUser(r) ==
    /\ At(r, "resetUser")
    /\ Reset(request[r].user)
    /\ Done(r)
    /\ UNCHANGED now

Login(r) ==
    \/ \E a \in Address, u \in User : Arrive(r, a, u)
    \/ AskForAddress(r) \/ AskForUser(r) \/ Refused(r)
    \/ \E right \in BOOLEAN : Verify(r, right)
    \/ ResetAddress(r) \/ ResetUser(r)

Tick ==
    /\ now < MaxTime
    /\ now' = now + 1
    /\ UNCHANGED <<attempts, request, log, starts>>

Next == (\E r \in Request : Login(r)) \/ Sweep \/ Tick

Spec == Init /\ [][Next]_vars

(* If something sweeps, it does so again and again.                        *)
FairSpec == Spec /\ WF_vars(Sweep)

-------------------------------------------------------------------------------
(* Correctness                                                             *)

(* A key that was not reset is permitted fewer than 2 * Max attempts       *)
(* within any span of the window's length: the last of a window and the    *)
(* first of the next may fall close together, but never Max of each, since *)
(* a window begins with an attempt (ratelimit.go:44).                      *)
BurstsAreBounded ==
    \A k \in Key : \A i \in 1..Len(log[k]) :
        i + 2 * Max - 1 <= Len(log[k])
            => log[k][i + 2 * Max - 1] > log[k][i] + Window

(* An attempt is refused only after Max permitted ones since the last      *)
(* reset, none of them longer ago than the window: a login that succeeds,  *)
(* a sweep or the passing of time never leaves anyone refused for longer.  *)
RefusalIsEarned ==
    \A k \in Key : Refuses(k) =>
        /\ Len(log[k]) >= Max
        /\ log[k][Len(log[k]) - Max + 1] + Window >= now

(* "Sweep removes expired windows to bound memory" (ratelimit.go:62), and  *)
(* "backgroundMaintenance runs periodic ... rate limiter sweeps"           *)
(* (main.go:155-156): no expired window is kept for ever.                  *)
ExpiredAreRemoved == \A k \in Key : (k \in Stale) ~> (k \notin Stale)
===============================================================================
