------------------------------- MODULE Delivery -------------------------------
(***************************************************************************)
(* One message to every configured webhook: notify.Service.Deliver, the    *)
(* retries of discord.Send, and the reservation of a page's key by the     *)
(* handlers (web.reserveIdem, storage.ReserveIdempotency).                 *)
(*                                                                         *)
(* A call is one run of Deliver, by the worker (no page) or by a handler   *)
(* whose form carries the key of the page it was rendered on; the same     *)
(* page can be submitted twice, at the same time or later.  Calls run      *)
(* concurrently and share the store only.                                  *)
(*                                                                         *)
(* Left out: quiet hours (notify.go:117-146), which no form and no code    *)
(* enables; Message.IdempotencyKey (notify.go:51-56), which no caller      *)
(* sets; discord.New failing (notify.go:67-72), because a webhook is saved *)
(* only after the same validation; the texts and the length of the waits.  *)
(*                                                                         *)
(* An operator marked "Mutant" is wrong on purpose and used by nothing: it *)
(* is a plausible bug that one of the properties must find.                *)
(***************************************************************************)
EXTENDS Integers, Sequences

CONSTANTS
    Call,         \* the worker's and the handlers' calls of Deliver
    Page,         \* the rendered forms, each with its key
    None,         \* no page: a call of the worker
    Plans,        \* the lists of webhooks the settings can name
    MaxRetries,   \* discord.Config.MaxRetries: 4 in the code
    MaxFaults     \* bound on reservations whose commit fails

ASSUME PageAssumption == None \notin Page
ASSUME PlansAssumption ==
    Plans \subseteq {<<>>, <<"discord">>, <<"extra">>, <<"discord", "extra">>}
ASSUME BoundAssumption == MaxRetries \in Nat /\ MaxFaults \in Nat

VARIABLES
    keys,         \* the idempotency bucket
    call,         \* per call: where Deliver is
    records,      \* per call: the notification records it wrote
    accepted,     \* per call: the destinations that accepted a post
    deliveries,   \* per page: calls of Deliver in its key's lifetime
    unsaved       \* per page: reservations lost in the same time
vars == <<keys, call, records, accepted, deliveries, unsaved>>

(* The primary webhook comes first, then the additional one.               *)
Destination == {"discord", "extra"}

(* What an attempt sees: 2xx; 429; another 4xx; a 5xx or an error before   *)
(* the post got through; an error after it did; a status of another kind   *)
(* without an error (101, or a 3xx that names no location).                *)
Reply == {"ok", "limited", "rejected", "failed", "lost", "odd"}
Transient == {"limited", "failed", "lost"}

Stage == {"idle", "reserve", "config", "attempt", "sleep", "record",
          "returned", "duplicate", "panicked"}
CallState == [pc : Stage, page : Page \cup {None}, plan : Plans \cup {<<>>},
              at : 1..3, attempt : 0..MaxRetries, last : Reply \cup {"none"},
              expired : BOOLEAN, anySent : BOOLEAN]
Notification == [to : Destination \cup {"none"}, sent : BOOLEAN]

Idle == [pc |-> "idle", page |-> None, plan |-> <<>>, at |-> 1, attempt |-> 0,
         last |-> "none", expired |-> FALSE, anySent |-> FALSE]

TypeOK ==
    /\ keys \in [Page -> {"absent", "fresh", "expired"}]
    /\ call \in [Call -> CallState]
    /\ records \in [Call -> Seq(Notification)]
    /\ \A c \in Call : Len(records[c]) <= 2
    /\ accepted \in [Call -> SUBSET Destination]
    /\ deliveries \in [Page -> Nat]
    /\ unsaved \in [Page -> 0..MaxFaults]

Init ==
    /\ keys = [p \in Page |-> "absent"]
    /\ call = [c \in Call |-> Idle]
    /\ records = [c \in Call |-> <<>>]
    /\ accepted = [c \in Call |-> {}]
    /\ deliveries = [p \in Page |-> 0]
    /\ unsaved = [p \in Page |-> 0]

At(c, pc) == call[c].pc = pc
Go(c, pc) == call' = [call EXCEPT ![c].pc = pc]
Automatic(c) == call[c].pc # "idle" /\ call[c].page = None

-------------------------------------------------------------------------------
(* Who calls                                                               *)

(* Worker.deliver: one at a time.                                          *)
StartAutomatic(c) ==
    /\ At(c, "idle")
    /\ \A d \in Call : ~Automatic(d)
    /\ Go(c, "config")
    /\ UNCHANGED <<keys, records, accepted, deliveries, unsaved>>

(* A handler; the same page may be under way in another call.              *)
Submit(c, p) ==
    /\ At(c, "idle")
    /\ call' = [call EXCEPT ![c].pc = "reserve", ![c].page = p]
    /\ UNCHANGED <<keys, records, accepted, deliveries, unsaved>>

(* Mutant: the cutoff of the pruning is on the wrong side.                 *)
ReservedDroppingAll(p) == [q \in Page |-> IF q = p THEN "fresh" ELSE "absent"]

(* ReserveIdempotency, one transaction: a key that is there, expired or    *)
(* not, refuses; a new one drops the expired ones.                         *)
Reserved(p) == [q \in Page |-> IF q = p THEN "fresh"
                               ELSE IF keys[q] = "expired" THEN "absent"
                               ELSE keys[q]]

Reserve(c) ==
    LET p == call[c].page IN
    /\ At(c, "reserve")
    /\ keys[p] = "absent"
    /\ keys' = Reserved(p)
    /\ deliveries' = [deliveries EXCEPT ![p] = @ + 1]
    /\ Go(c, "config")
    /\ UNCHANGED <<records, accepted, unsaved>>

RefuseDuplicate(c) ==
    /\ At(c, "reserve")
    /\ keys[call[c].page] # "absent"
    /\ Go(c, "duplicate")
    /\ UNCHANGED <<keys, records, accepted, deliveries, unsaved>>

(* The commit fails: reserveIdem drops the error and goes on with the      *)
(* fresh = TRUE the closure has set already.                               *)
ReserveUnsaved(c) ==
    LET p == call[c].page IN
    /\ At(c, "reserve")
    /\ keys[p] = "absent"
    /\ unsaved[p] < MaxFaults
    /\ unsaved' = [unsaved EXCEPT ![p] = @ + 1]
    /\ deliveries' = [deliveries EXCEPT ![p] = @ + 1]
    /\ Go(c, "config")
    /\ UNCHANGED <<keys, records, accepted>>

(* 24 hours after its reservation.                                         *)
Expire(p) ==
    /\ keys[p] = "fresh"
    /\ keys' = [keys EXCEPT ![p] = "expired"]
    /\ deliveries' = [deliveries EXCEPT ![p] = 0]
    /\ unsaved' = [unsaved EXCEPT ![p] = 0]
    /\ UNCHANGED <<call, records, accepted>>

-------------------------------------------------------------------------------
(* Deliver                                                                 *)

Record(c, to, success) ==
    records' = [records EXCEPT ![c] = Append(@, [to |-> to, sent |-> success])]

(* The configuration as it is now; without a webhook there is one record   *)
(* that says so.                                                           *)
ReadConfig(c, plan) ==
    /\ At(c, "config")
    /\ IF plan = <<>>
       THEN Record(c, "none", FALSE) /\ Go(c, "returned")
       ELSE /\ call' = [call EXCEPT ![c].pc = "attempt", ![c].plan = plan]
            /\ UNCHANGED records
    /\ UNCHANGED <<keys, accepted, deliveries, unsaved>>

Current(c) == call[c].plan[call[c].at]

Retries(c) == call[c].attempt < MaxRetries

(* Mutant: a permanent error is retried like the others.                   *)
AfterAttemptRetryingAll(c, reply) ==
    IF reply = "ok" THEN "record" ELSE IF Retries(c) THEN "sleep" ELSE "record"

(* A 429 is waited for even after the last attempt; the loop ends then.    *)
AfterAttempt(c, reply) ==
    CASE reply \in {"ok", "rejected"} -> "record"
      [] reply = "limited"            -> "sleep"
      [] OTHER                        -> IF Retries(c) THEN "sleep" ELSE "record"

(* One POST.  Once the context is over no post gets out.                   *)
Attempt(c, reply) ==
    /\ At(c, "attempt")
    /\ reply # "odd"
    /\ call[c].expired => reply = "failed"
    /\ call' = [call EXCEPT ![c].pc = AfterAttempt(c, reply), ![c].last = reply]
    /\ accepted' = IF reply \in {"ok", "lost"}
                   THEN [accepted EXCEPT ![c] = @ \cup {Current(c)}]
                   ELSE accepted
    /\ UNCHANGED <<keys, records, deliveries, unsaved>>

(* A status that no case names falls into the default case with a nil      *)
(* error, and calling Error on it panics (discord.go:139-141).  The web    *)
(* server recovers a handler; the worker's goroutine takes the process,    *)
(* and every call with it.                                                 *)
Panic(c) ==
    /\ At(c, "attempt") /\ ~call[c].expired
    /\ call' = [d \in Call |->
                  IF d = c \/ (Automatic(c) /\ call[d].pc # "idle")
                  THEN [call[d] EXCEPT !.pc = "panicked",
                                       !.last = IF d = c THEN "odd" ELSE @]
                  ELSE call[d]]
    /\ UNCHANGED <<keys, records, accepted, deliveries, unsaved>>

(* The wait is over and the loop goes on, or the context is over.  When    *)
(* both are, sleepCtx takes either (discord.go:228-234): the attempt that  *)
(* may begin then posts nothing.                                           *)
Wake(c) ==
    /\ At(c, "sleep")
    /\ \/ /\ Retries(c)
          /\ call' = [call EXCEPT ![c].pc = "attempt", ![c].attempt = @ + 1]
       \/ /\ call[c].expired \/ ~Retries(c)
          /\ Go(c, "record")
    /\ UNCHANGED <<keys, records, accepted, deliveries, unsaved>>

(* Mutant: the last destination decides the answer.                        *)
RecordOutcomeOfLast(c) ==
    /\ At(c, "record")
    /\ Record(c, Current(c), call[c].last = "ok")
    /\ call' = [call EXCEPT
                  ![c].anySent = call[c].last = "ok",
                  ![c].at = @ + 1, ![c].attempt = 0, ![c].last = "none",
                  ![c].pc = IF call[c].at < Len(call[c].plan)
                            THEN "attempt" ELSE "returned"]
    /\ UNCHANGED <<keys, accepted, deliveries, unsaved>>

(* PutNotification, and on to the next destination.                        *)
RecordOutcome(c) ==
    /\ At(c, "record")
    /\ Record(c, Current(c), call[c].last = "ok")
    /\ call' = [call EXCEPT
                  ![c].anySent = @ \/ call[c].last = "ok",
                  ![c].at = @ + 1, ![c].attempt = 0, ![c].last = "none",
                  ![c].pc = IF call[c].at < Len(call[c].plan)
                            THEN "attempt" ELSE "returned"]
    /\ UNCHANGED <<keys, accepted, deliveries, unsaved>>

(* The handler's 30 seconds, or the shutdown of the process.  While a      *)
(* record is written it makes no difference yet.                           *)
ContextEnds(c) ==
    /\ call[c].pc \in {"attempt", "sleep"} /\ ~call[c].expired
    /\ call' = [call EXCEPT ![c].expired = TRUE]
    /\ UNCHANGED <<keys, records, accepted, deliveries, unsaved>>

(* The caller has its answer; the call can be made again.                  *)
Finish(c) ==
    /\ call[c].pc \in {"returned", "duplicate", "panicked"}
    /\ call' = [call EXCEPT ![c] = Idle]
    /\ records' = [records EXCEPT ![c] = <<>>]
    /\ accepted' = [accepted EXCEPT ![c] = {}]
    /\ UNCHANGED <<keys, deliveries, unsaved>>

Deliver(c) ==
    \/ \E plan \in Plans : ReadConfig(c, plan)
    \/ \E reply \in Reply : Attempt(c, reply)
    \/ Panic(c) \/ Wake(c) \/ RecordOutcome(c)

Step(c) == Reserve(c) \/ RefuseDuplicate(c) \/ ReserveUnsaved(c) \/ Deliver(c)

Next ==
    \/ \E c \in Call : \/ StartAutomatic(c) \/ \E p \in Page : Submit(c, p)
                       \/ Step(c) \/ ContextEnds(c) \/ Finish(c)
    \/ \E p \in Page : Expire(p)

Spec == Init /\ [][Next]_vars

-------------------------------------------------------------------------------
(* Correctness                                                             *)

(* Deliver tells the truth: TRUE only if a webhook accepted the message,   *)
(* and one record per destination, in order, says which ones confirmed it. *)
(* OutageNotified, and so the recovery alert, hangs on the answer.         *)
ReturnIsRecorded ==
    \A c \in Call : At(c, "returned") =>
        LET plan == call[c].plan
        IN  /\ Len(records[c]) = IF plan = <<>> THEN 1 ELSE Len(plan)
            /\ \A k \in DOMAIN plan :
                  /\ records[c][k].to = plan[k]
                  /\ records[c][k].sent => plan[k] \in accepted[c]
            /\ call[c].anySent <=> \E k \in DOMAIN plan : records[c][k].sent

(* A message is tried again only after an answer that leaves hope          *)
(* ("Permanent client error ... Do not retry", discord.go:133).            *)
RetriesOnlyTransient ==
    [][\A c \in Call : call'[c].attempt > call[c].attempt =>
          call[c].last \in Transient]_vars

(* However often and however concurrently a page is submitted, one         *)
(* delivery is made while its key lives, and one more for each reservation *)
(* whose commit failed ("an event-level idempotency key prevents duplicate *)
(* sends on browser refresh", ARCHITECTURE.md:105-106).                    *)
OneDeliveryPerPage ==
    \A p \in Page : deliveries[p] <= 1 + unsaved[p]

(* "Package notify ... records every outcome" (notify.go:1-3), "every      *)
(* attempt's sanitised result is recorded" (DISCORD-SETUP.md:64): a call   *)
(* that is over has a record of each destination it tried.                 *)
EveryOutcomeRecorded ==
    \A c \in Call : At(c, "panicked") /\ call[c].last = "odd" =>
        \E k \in DOMAIN records[c] : records[c][k].to = Current(c)
===============================================================================
