----------------------------- MODULE DeliveryProofs ----------------------------
(***************************************************************************)
(* What TLAPS proves of Delivery, for any numbers of calls and pages, any  *)
(* lists of webhooks, any number of retries and of lost reservations.      *)
(***************************************************************************)
EXTENDS Delivery, TLAPS

(* A key that lives accounts for one delivery, a lost reservation for      *)
(* another.                                                                *)
KeysFit ==
    \A p \in Page :
        deliveries[p] = IF keys[p] = "fresh" THEN unsaved[p] + 1
                        ELSE unsaved[p]

(* Of the first n destinations there is a record each; anySent is about    *)
(* them; what is recorded as sent was accepted.                            *)
RecordsFit(c, n) ==
    /\ Len(records[c]) = n
    /\ n <= Len(call[c].plan)
    /\ \A k \in 1..n : /\ records[c][k].to = call[c].plan[k]
                       /\ records[c][k].sent => call[c].plan[k] \in accepted[c]
    /\ call[c].anySent <=> \E k \in 1..n : records[c][k].sent

Trying == {"attempt", "sleep", "record"}
Before == {"idle", "reserve", "config", "duplicate"}

CallFits(c) ==
    /\ call[c].pc \in Before =>
         /\ call[c].plan = <<>> /\ call[c].at = 1 /\ ~call[c].anySent
         /\ records[c] = <<>>
    /\ call[c].pc \in Trying =>
         /\ call[c].at \in 1..Len(call[c].plan)
         /\ RecordsFit(c, call[c].at - 1)
    /\ At(c, "sleep") => call[c].last \in Transient
    /\ At(c, "record") /\ call[c].last = "ok" => Current(c) \in accepted[c]
    /\ At(c, "returned") =>
         \/ call[c].plan = <<>> /\ Len(records[c]) = 1 /\ ~call[c].anySent
         \/ call[c].plan # <<>> /\ RecordsFit(c, Len(call[c].plan))

CallsFit == \A c \in Call : CallFits(c)

Inv == TypeOK /\ KeysFit /\ CallsFit

-------------------------------------------------------------------------------
(* Plans are short.                                                        *)
LEMMA PlanFacts ==
    ASSUME NEW plan \in Plans \cup {<<>>}
    PROVE  /\ plan \in Seq(Destination) /\ Len(plan) \in 0..2
           /\ plan # <<>> => Len(plan) \in 1..2
           /\ plan = <<>> => Len(plan) = 0
<1>1. plan \in {<<>>, <<"discord">>, <<"extra">>, <<"discord", "extra">>}
  BY PlansAssumption
<1>2. CASE plan = <<>>
  BY <1>2
<1>3. CASE plan = <<"discord">>
  BY <1>3 DEF Destination
<1>4. CASE plan = <<"extra">>
  BY <1>4 DEF Destination
<1>5. CASE plan = <<"discord", "extra">>
  BY <1>5 DEF Destination
<1>6. QED
  BY <1>1, <1>2, <1>3, <1>4, <1>5

(* A call before its begin.                                                *)
LEMMA IdleFacts == Idle \in CallState /\ Idle.pc = "idle"
<1>1. 0 \in 0..MaxRetries
  BY BoundAssumption
<1>2. QED
  BY <1>1 DEF Idle, CallState, Stage

(* The invariant holds at the start.                                       *)
LEMMA InvInit == Init => Inv
<1> SUFFICES ASSUME Init PROVE Inv
  OBVIOUS
<1>1. call \in [Call -> CallState] /\ records \in [Call -> Seq(Notification)]
  BY IdleFacts DEF Init
<1>2. TypeOK
  BY <1>1, BoundAssumption DEF Init, TypeOK
<1>3. KeysFit
  BY DEF Init, KeysFit
<1>4. CallsFit
  BY DEF Init, CallsFit, CallFits, Idle, Before, Trying, At
<1>5. QED
  BY <1>2, <1>3, <1>4 DEF Inv

(* What one call does leaves the others alone.                             *)
LEMMA OthersFit ==
    ASSUME Inv, NEW c \in Call,
           \A d \in Call \ {c} : /\ call'[d] = call[d]
                                 /\ records'[d] = records[d]
                                 /\ accepted'[d] = accepted[d],
           CallFits(c)'
    PROVE  CallsFit'
<1> SUFFICES ASSUME NEW d \in Call PROVE CallFits(d)'
  BY DEF CallsFit
<1>1. CASE d = c
  BY <1>1
<1>2. CASE d # c
  <2>1. /\ call'[d] = call[d] /\ records'[d] = records[d]
        /\ accepted'[d] = accepted[d] /\ CallFits(d)
    BY <1>2 DEF Inv, CallsFit
  <2>2. QED
    BY <2>1 DEF CallFits, RecordsFit, At, Current
<1>3. QED
  BY <1>1, <1>2

(* A call that moves on and changes nothing else.                          *)
LEMMA CallGoes ==
    ASSUME TypeOK, NEW c \in Call, NEW pc \in Stage, Go(c, pc)
    PROVE  /\ call' \in [Call -> CallState]
           /\ call'[c] = [call[c] EXCEPT !.pc = pc]
           /\ call'[c].pc = pc
           /\ call'[c].plan = call[c].plan /\ call'[c].at = call[c].at
           /\ call'[c].last = call[c].last
           /\ call'[c].attempt = call[c].attempt
           /\ call'[c].anySent = call[c].anySent
           /\ \A d \in Call \ {c} : call'[d] = call[d]
<1>1. call' = [call EXCEPT ![c] = [call[c] EXCEPT !.pc = pc]]
  BY DEF Go
<1>2. call[c] \in CallState
  BY DEF TypeOK
<1>3. [call[c] EXCEPT !.pc = pc] \in CallState
  BY <1>2 DEF CallState
<1>4. call'[c] = [call[c] EXCEPT !.pc = pc]
  BY <1>1 DEF TypeOK
<1>5. QED
  BY <1>1, <1>2, <1>3, <1>4 DEF TypeOK, CallState

(* Before Deliver begins there is nothing to say of a call.                *)
LEMMA BeforeFits ==
    ASSUME Inv, NEW c \in Call, call[c].pc \in Before,
           NEW pc \in Before, call'[c].pc = pc,
           call'[c].plan = call[c].plan, call'[c].at = call[c].at,
           call'[c].anySent = call[c].anySent,
           \A d \in Call \ {c} : call'[d] = call[d],
           UNCHANGED <<records, accepted>>
    PROVE  CallsFit'
<1>1. CallFits(c)
  BY DEF Inv, CallsFit
<1>2. CallFits(c)'
  BY <1>1 DEF CallFits, Before, Trying, At
<1>3. QED
  BY <1>2, OthersFit

(* Every step preserves the invariant: one step of the proof per action.   *)
LEMMA InvStep == Inv /\ [Next]_vars => Inv'
<1> SUFFICES ASSUME Inv, [Next]_vars PROVE Inv'
  OBVIOUS
<1>0. /\ TypeOK /\ KeysFit /\ CallsFit
      /\ keys \in [Page -> {"absent", "fresh", "expired"}]
      /\ call \in [Call -> CallState]
      /\ records \in [Call -> Seq(Notification)]
      /\ \A c \in Call : Len(records[c]) <= 2
      /\ accepted \in [Call -> SUBSET Destination]
      /\ deliveries \in [Page -> Nat]
      /\ unsaved \in [Page -> 0..MaxFaults]
  BY DEF Inv, TypeOK
<1>types. ASSUME keys' \in [Page -> {"absent", "fresh", "expired"}],
                 call' \in [Call -> CallState],
                 records' \in [Call -> Seq(Notification)],
                 \A c \in Call : Len(records'[c]) <= 2,
                 accepted' \in [Call -> SUBSET Destination],
                 deliveries' \in [Page -> Nat],
                 unsaved' \in [Page -> 0..MaxFaults],
                 KeysFit', CallsFit'
          PROVE  Inv'
  BY <1>types DEF Inv, TypeOK
<1>1. ASSUME NEW c \in Call, StartAutomatic(c) PROVE Inv'
  <2>1. Go(c, "config") /\ At(c, "idle")
        /\ UNCHANGED <<keys, records, accepted, deliveries, unsaved>>
    BY <1>1 DEF StartAutomatic
  <2>2. CallsFit'
    BY <1>0, <2>1, CallGoes, BeforeFits DEF Stage, Before, At
  <2>3. QED
    BY <1>0, <1>types, <2>1, <2>2, CallGoes DEF Stage, KeysFit
<1>2. ASSUME NEW c \in Call, NEW p \in Page, Submit(c, p) PROVE Inv'
  <2> DEFINE next == [call[c] EXCEPT !.pc = "reserve", !.page = p]
  <2>1. /\ call' = [call EXCEPT ![c] = next] /\ At(c, "idle")
        /\ UNCHANGED <<keys, records, accepted, deliveries, unsaved>>
    BY <1>0, <1>2 DEF Submit
  <2>2. /\ next \in CallState /\ next.pc = "reserve"
        /\ next.plan = call[c].plan /\ next.at = call[c].at
        /\ next.anySent = call[c].anySent
    BY <1>0 DEF CallState, Stage
  <2> HIDE DEF next
  <2>3. /\ call' \in [Call -> CallState] /\ call'[c] = next
        /\ \A d \in Call \ {c} : call'[d] = call[d]
    BY <1>0, <2>1, <2>2
  <2>4. CallsFit'
    BY <1>0, <2>1, <2>2, <2>3, BeforeFits DEF Before, At
  <2>5. QED
    BY <1>0, <1>types, <2>1, <2>3, <2>4 DEF KeysFit
<1>3. ASSUME NEW c \in Call, Reserve(c) \/ RefuseDuplicate(c)
                             \/ ReserveUnsaved(c)
      PROVE  Inv'
  <2> DEFINE p == call[c].page
  <2>1. PICK pc \in {"config", "duplicate"} : Go(c, pc)
    BY <1>3 DEF Reserve, RefuseDuplicate, ReserveUnsaved
  <2>2. At(c, "reserve") /\ UNCHANGED <<records, accepted>>
    BY <1>3 DEF Reserve, RefuseDuplicate, ReserveUnsaved
  <2>3. CallsFit' /\ call' \in [Call -> CallState]
    BY <1>0, <2>1, <2>2, CallGoes, BeforeFits DEF Stage, Before, At
  <2>4. p \in Page \cup {None}
    BY <1>0 DEF CallState
  <2>a. \A q \in Page : deliveries[q] + 1 \in Nat
    BY <1>0
  <2>b. \A q \in Page : unsaved[q] < MaxFaults
                          => unsaved[q] + 1 \in 0..MaxFaults
    BY <1>0, BoundAssumption
  <2> HIDE DEF p
  <2>5. /\ keys' \in [Page -> {"absent", "fresh", "expired"}]
        /\ deliveries' \in [Page -> Nat]
        /\ unsaved' \in [Page -> 0..MaxFaults]
    <3>1. CASE Reserve(c)
      <4>1. /\ keys' = Reserved(p) /\ unsaved' = unsaved
            /\ deliveries' = [deliveries EXCEPT ![p] = deliveries[p] + 1]
        BY <3>1 DEF Reserve, p
      <4>2. keys' \in [Page -> {"absent", "fresh", "expired"}]
        BY <1>0, <4>1 DEF Reserved
      <4>3. deliveries' \in [Page -> Nat]
        BY <1>0, <2>a, <4>1
      <4>4. QED
        BY <1>0, <4>1, <4>2, <4>3
    <3>2. CASE RefuseDuplicate(c)
      BY <1>0, <3>2 DEF RefuseDuplicate
    <3>3. CASE ReserveUnsaved(c)
      <4>1. /\ keys' = keys /\ unsaved[p] < MaxFaults
            /\ unsaved' = [unsaved EXCEPT ![p] = unsaved[p] + 1]
            /\ deliveries' = [deliveries EXCEPT ![p] = deliveries[p] + 1]
        BY <3>3 DEF ReserveUnsaved, p
      <4>2. deliveries' \in [Page -> Nat]
        BY <1>0, <2>a, <4>1
      <4>4. unsaved' \in [Page -> 0..MaxFaults]
        BY <1>0, <2>b, <4>1
      <4>5. QED
        BY <1>0, <4>1, <4>2, <4>4
    <3>4. QED
      BY <1>3, <3>1, <3>2, <3>3
  <2>6. KeysFit'
    <3> SUFFICES ASSUME NEW q \in Page
                 PROVE  deliveries'[q] = IF keys'[q] = "fresh"
                                         THEN unsaved'[q] + 1 ELSE unsaved'[q]
      BY DEF KeysFit
    <3>1. CASE Reserve(c)
      BY <1>0, <3>1 DEF Reserve, Reserved, KeysFit
    <3>2. CASE RefuseDuplicate(c)
      BY <1>0, <3>2 DEF RefuseDuplicate, KeysFit
    <3>3. CASE ReserveUnsaved(c)
      BY <1>0, <3>3 DEF ReserveUnsaved, KeysFit
    <3>4. QED
      BY <1>3, <3>1, <3>2, <3>3
  <2>7. QED
    BY <1>0, <1>types, <2>2, <2>3, <2>5, <2>6
<1>4. ASSUME NEW p \in Page, Expire(p) PROVE Inv'
  <2>1. /\ keys' \in [Page -> {"absent", "fresh", "expired"}]
        /\ deliveries' \in [Page -> Nat] /\ unsaved' \in [Page -> 0..MaxFaults]
        /\ UNCHANGED <<call, records, accepted>>
    BY <1>0, <1>4, BoundAssumption DEF Expire
  <2>2. KeysFit'
    BY <1>0, <1>4 DEF Expire, KeysFit
  <2>3. CallsFit'
    BY <1>0, <2>1 DEF CallsFit, CallFits, RecordsFit, At, Current
  <2>4. QED
    BY <1>0, <1>types, <2>1, <2>2, <2>3
<1>5. ASSUME NEW c \in Call, NEW plan \in Plans, ReadConfig(c, plan)
      PROVE  Inv'
  <2>1. /\ call[c].plan = <<>> /\ call[c].at = 1 /\ ~call[c].anySent
        /\ records[c] = <<>>
    BY <1>0, <1>5 DEF CallsFit, CallFits, Before, At, ReadConfig
  <2>2. UNCHANGED <<keys, accepted, deliveries, unsaved>>
    BY <1>5 DEF ReadConfig
  <2>3. CASE plan = <<>>
    <3> DEFINE record == [to |-> "none", sent |-> FALSE]
    <3>1. /\ records' = [records EXCEPT ![c] = Append(records[c], record)]
          /\ Go(c, "returned")
      BY <1>5, <2>3 DEF ReadConfig, Record
    <3>2. record \in Notification
      BY DEF Notification
    <3> HIDE DEF record
    <3>3. /\ records'[c] \in Seq(Notification) /\ Len(records'[c]) = 1
          /\ records' \in [Call -> Seq(Notification)]
          /\ \A d \in Call \ {c} : records'[d] = records[d]
      BY <1>0, <2>1, <3>1, <3>2
    <3>4. CallFits(c)'
      BY <1>0, <2>1, <3>1, <3>3, CallGoes
      DEF CallFits, Before, Trying, At, Stage
    <3>5. CallsFit'
      BY <1>0, <2>2, <3>1, <3>3, <3>4, CallGoes, OthersFit DEF Stage
    <3>6. \A d \in Call : Len(records'[d]) <= 2
      <4> SUFFICES ASSUME NEW d \in Call PROVE Len(records'[d]) <= 2
        OBVIOUS
      <4>1. CASE d = c
        <5>1. Len(records'[d]) = 1
          BY <3>3, <4>1
        <5>2. QED
          BY <5>1
      <4>2. CASE d # c
        BY <1>0, <3>3, <4>2
      <4>3. QED
        BY <4>1, <4>2
    <3>7. call' \in [Call -> CallState] /\ KeysFit'
      BY <1>0, <2>2, <3>1, CallGoes DEF Stage, KeysFit
    <3>8. QED
      BY <1>0, <1>types, <2>2, <3>3, <3>5, <3>6, <3>7
  <2>4. CASE plan # <<>>
    <3> DEFINE next == [call[c] EXCEPT !.pc = "attempt", !.plan = plan]
    <3>1. call' = [call EXCEPT ![c] = next] /\ UNCHANGED records
      BY <1>0, <1>5, <2>4 DEF ReadConfig
    <3>2. /\ next \in CallState /\ next.pc = "attempt" /\ next.plan = plan
          /\ next.at = call[c].at /\ next.anySent = call[c].anySent
      BY <1>0 DEF CallState, Stage
    <3> HIDE DEF next
    <3>3. /\ call' \in [Call -> CallState] /\ call'[c] = next
          /\ \A d \in Call \ {c} : call'[d] = call[d]
      BY <1>0, <3>1, <3>2
    <3>4. Len(plan) \in 1..2
      BY <2>4, PlanFacts
    <3>5. CallFits(c)'
      <4>1. call'[c].plan = plan /\ call'[c].at = 1 /\ ~call'[c].anySent
            /\ records'[c] = <<>> /\ call'[c].pc = "attempt"
        <5>1. call'[c].plan = plan /\ call'[c].at = 1
              /\ call'[c].pc = "attempt"
          BY <2>1, <3>2, <3>3
        <5>2. ~call'[c].anySent
          BY <2>1, <3>2, <3>3
        <5>3. records'[c] = <<>>
          BY <2>1, <3>1
        <5>4. QED
          BY <5>1, <5>2, <5>3
      <4>2. call'[c].at - 1 = 0 /\ call'[c].at \in 1..Len(call'[c].plan)
        <5>1. call'[c].at = 1 /\ call'[c].plan = plan
          BY <4>1
        <5>2. \A n \in 1..2 : 1 \in 1..n
          BY SMT
        <5>3. 1 \in 1..Len(plan)
          BY <3>4, <5>2
        <5>4. QED
          BY <5>1, <5>3
      <4>3. Len(records'[c]) = 0 /\ 0 <= Len(call'[c].plan)
        BY <3>4, <4>1
      <4>4. \A k \in 1..0 : FALSE
        OBVIOUS
      <4>5. RecordsFit(c, 0)'
        BY <4>1, <4>3, <4>4 DEF RecordsFit
      <4>6. RecordsFit(c, call[c].at - 1)'
        BY <4>2, <4>5 DEF RecordsFit
      <4>7. QED
        BY <4>1, <4>2, <4>6 DEF CallFits, Before, Trying, At
    <3>6. CallsFit'
      BY <2>2, <3>1, <3>3, <3>5, OthersFit
    <3>7. QED
      BY <1>0, <1>types, <2>2, <3>1, <3>3, <3>6 DEF KeysFit
  <2>5. QED
    BY <2>3, <2>4
<1>6. ASSUME NEW c \in Call, NEW reply \in Reply, Attempt(c, reply) PROVE Inv'
  <2> DEFINE pc == AfterAttempt(c, reply)
             next == [call[c] EXCEPT !.pc = pc, !.last = reply]
  <2>1. /\ call' = [call EXCEPT ![c] = next] /\ At(c, "attempt")
        /\ reply # "odd" /\ UNCHANGED <<keys, records, deliveries, unsaved>>
    BY <1>0, <1>6 DEF Attempt
  <2>2. /\ pc \in {"record", "sleep"}
        /\ pc = "sleep" => reply \in Transient
        /\ reply = "ok" => pc = "record"
    BY <2>1 DEF AfterAttempt, Reply, Transient
  <2> HIDE DEF pc
  <2>3. /\ next \in CallState /\ next.pc = pc /\ next.last = reply
        /\ next.plan = call[c].plan /\ next.at = call[c].at
        /\ next.anySent = call[c].anySent
    BY <1>0, <2>2 DEF CallState, Stage
  <2> HIDE DEF next
  <2>4. /\ call' \in [Call -> CallState] /\ call'[c] = next
        /\ \A d \in Call \ {c} : call'[d] = call[d]
    BY <1>0, <2>1, <2>3
  <2>5. CallFits(c) /\ call[c].at \in 1..Len(call[c].plan)
    BY <1>0, <2>1 DEF CallsFit, CallFits, Trying, At
  <2>6. Current(c) \in Destination
    <3>1. call[c].plan \in Seq(Destination)
      BY <1>0, PlanFacts DEF CallState
    <3>2. QED
      BY <2>5, <3>1 DEF Current
  <2>7. /\ accepted' \in [Call -> SUBSET Destination]
        /\ \A d \in Call \ {c} : accepted'[d] = accepted[d]
        /\ accepted[c] \subseteq accepted'[c]
        /\ reply = "ok" => Current(c) \in accepted'[c]
    BY <1>0, <1>6, <2>6 DEF Attempt
  <2>8. RecordsFit(c, call[c].at - 1)'
    <3>1. RecordsFit(c, call[c].at - 1)
      BY <2>1, <2>5 DEF CallFits, Trying, At
    <3>2. QED
      BY <2>1, <2>3, <2>4, <2>7, <3>1 DEF RecordsFit
  <2>9. CallFits(c)'
    BY <2>1, <2>2, <2>3, <2>4, <2>5, <2>7, <2>8
    DEF CallFits, Before, Trying, At, Current
  <2>10. CallsFit'
    BY <2>1, <2>4, <2>7, <2>9, OthersFit
  <2>11. QED
    BY <1>0, <1>types, <2>1, <2>4, <2>7, <2>10 DEF KeysFit
<1>7. ASSUME NEW c \in Call, Panic(c) PROVE Inv'
  <2>1. UNCHANGED <<keys, records, accepted, deliveries, unsaved>>
    BY <1>7 DEF Panic
  <2>2. ASSUME NEW d \in Call
        PROVE  /\ call'[d] \in CallState
               /\ call'[d] = call[d] \/ call'[d].pc = "panicked"
    <3>1. call[d] \in CallState
      BY <1>0
    <3>2. CASE d = c
      <4>1. call'[d] = [call[d] EXCEPT !.pc = "panicked", !.last = "odd"]
        BY <1>7, <3>2 DEF Panic
      <4>2. QED
        BY <3>1, <4>1 DEF CallState, Stage, Reply
    <3>3. CASE d # c /\ Automatic(c) /\ call[d].pc # "idle"
      <4>1. call'[d] = [call[d] EXCEPT !.pc = "panicked",
                                       !.last = call[d].last]
        BY <1>7, <3>3 DEF Panic
      <4>2. QED
        BY <3>1, <4>1 DEF CallState, Stage
    <3>4. CASE d # c /\ ~(Automatic(c) /\ call[d].pc # "idle")
      BY <1>7, <3>1, <3>4 DEF Panic
    <3>5. QED
      BY <3>2, <3>3, <3>4
  <2>3. call' \in [Call -> CallState]
    <3>1. call' = [d \in Call |-> call'[d]]
      BY <1>7 DEF Panic
    <3>2. QED
      BY <2>2, <3>1
  <2>4. CallsFit'
    <3> SUFFICES ASSUME NEW d \in Call PROVE CallFits(d)'
      BY DEF CallsFit
    <3>1. CASE call'[d] = call[d]
      BY <1>0, <2>1, <3>1
      DEF CallsFit, CallFits, RecordsFit, At, Current
    <3>2. CASE call'[d].pc = "panicked"
      BY <3>2 DEF CallFits, Before, Trying, At
    <3>3. QED
      BY <2>2, <3>1, <3>2
  <2>5. QED
    BY <1>0, <1>types, <2>1, <2>3, <2>4 DEF KeysFit
<1>8. ASSUME NEW c \in Call, Wake(c) PROVE Inv'
  <2>1. /\ CallFits(c) /\ call[c] \in CallState /\ At(c, "sleep")
        /\ UNCHANGED <<keys, records, accepted, deliveries, unsaved>>
    BY <1>0, <1>8 DEF CallsFit, Wake
  <2>2. PICK next \in CallState :
          /\ call' = [call EXCEPT ![c] = next]
          /\ next.pc \in {"attempt", "record"} /\ next.last = call[c].last
          /\ next.plan = call[c].plan /\ next.at = call[c].at
          /\ next.anySent = call[c].anySent
    <3> DEFINE more == [call EXCEPT ![c].pc = "attempt",
                                    ![c].attempt = @ + 1]
    <3>1. CASE Retries(c) /\ call' = more
      <4> DEFINE n == [call[c] EXCEPT !.pc = "attempt",
                                      !.attempt = call[c].attempt + 1]
      <4>1. call' = [call EXCEPT ![c] = n]
        BY <1>0, <3>1
      <4>2. call[c].attempt + 1 \in 0..MaxRetries
        BY <2>1, <3>1, BoundAssumption DEF Retries, CallState
      <4>3. /\ n \in CallState /\ n.pc = "attempt" /\ n.last = call[c].last
            /\ n.plan = call[c].plan /\ n.at = call[c].at
            /\ n.anySent = call[c].anySent
        BY <2>1, <4>2 DEF CallState, Stage
      <4> HIDE DEF n
      <4>4. QED
        BY <4>1, <4>3
    <3>2. CASE Go(c, "record")
      <4> DEFINE n == [call[c] EXCEPT !.pc = "record"]
      <4>1. call' = [call EXCEPT ![c] = n]
        BY <3>2 DEF Go
      <4>2. /\ n \in CallState /\ n.pc = "record" /\ n.last = call[c].last
            /\ n.plan = call[c].plan /\ n.at = call[c].at
            /\ n.anySent = call[c].anySent
        BY <2>1 DEF CallState, Stage
      <4> HIDE DEF n
      <4>3. QED
        BY <4>1, <4>2
    <3>3. QED
      BY <1>8, <3>1, <3>2 DEF Wake
  <2>3. /\ call' \in [Call -> CallState] /\ call'[c] = next
        /\ \A d \in Call \ {c} : call'[d] = call[d]
    BY <1>0, <2>2
  <2>4. call[c].last # "ok" /\ call[c].at \in 1..Len(call[c].plan)
        /\ RecordsFit(c, call[c].at - 1)
    BY <2>1 DEF CallFits, Transient, Trying, At
  <2>5. RecordsFit(c, call[c].at - 1)'
    BY <2>1, <2>2, <2>3, <2>4 DEF RecordsFit
  <2>6. CallFits(c)'
    BY <2>2, <2>3, <2>4, <2>5 DEF CallFits, Before, Trying, At
  <2>7. CallsFit'
    BY <2>1, <2>3, <2>6, OthersFit
  <2>8. QED
    BY <1>0, <1>types, <2>1, <2>3, <2>7 DEF KeysFit
<1>9. ASSUME NEW c \in Call, RecordOutcome(c) PROVE Inv'
  <2>0. PICK at \in 1..3 : at = call[c].at
    BY <1>0 DEF CallState
  <2> DEFINE success == call[c].last = "ok"
             record == [to |-> Current(c), sent |-> success]
             pc == IF at < Len(call[c].plan) THEN "attempt" ELSE "returned"
             next == [call[c] EXCEPT !.anySent = @ \/ success,
                        !.at = @ + 1, !.attempt = 0, !.last = "none",
                        !.pc = pc]
  <2>1. /\ CallFits(c) /\ call[c] \in CallState /\ At(c, "record")
        /\ UNCHANGED <<keys, accepted, deliveries, unsaved>>
        /\ records' = [records EXCEPT ![c] = Append(records[c], record)]
    BY <1>0, <1>9 DEF CallsFit, RecordOutcome, Record
  <2>2. call' = [call EXCEPT ![c] = next]
    BY <1>0, <1>9, <2>0 DEF RecordOutcome
  <2>3. /\ at \in 1..Len(call[c].plan) /\ RecordsFit(c, at - 1)
        /\ success => Current(c) \in accepted[c]
    BY <2>0, <2>1 DEF CallFits, Trying, At
  <2>4. /\ call[c].plan \in Seq(Destination) /\ Len(call[c].plan) \in 1..2
    BY <2>1, <2>3, PlanFacts DEF CallState
  <2>4a. at \in 1..2
    <3>1. \A n \in 1..2 : at \in 1..n => at \in 1..2
      BY SMT
    <3>2. at \in 1..Len(call[c].plan) /\ Len(call[c].plan) \in 1..2
      BY <2>3, <2>4
    <3>3. QED
      BY ONLY <3>1, <3>2
  <2>5. Current(c) \in Destination /\ Current(c) = call[c].plan[at]
    BY <2>0, <2>3, <2>4 DEF Current
  <2>6. record \in Notification /\ record.to = Current(c)
        /\ (record.sent <=> success)
    BY <2>5 DEF Notification
  <2>7. /\ next \in CallState /\ next.pc = pc /\ next.plan = call[c].plan
        /\ next.at = at + 1 /\ next.last = "none"
        /\ next.anySent <=> (call[c].anySent \/ success)
    <3>a. 0 \in 0..MaxRetries
      BY BoundAssumption
    <3>1. at + 1 \in 1..3
      BY <2>4a
    <3>2. (call[c].anySent \/ success) \in BOOLEAN /\ pc \in Stage
      BY DEF Stage
    <3>3. QED
      BY <2>0, <2>1, <3>a, <3>1, <3>2 DEF CallState
  <2> HIDE DEF next, record, success
  <2>8. /\ call' \in [Call -> CallState] /\ call'[c] = next
        /\ \A d \in Call \ {c} : call'[d] = call[d]
    BY <1>0, <2>2, <2>7
  <2>9. /\ records' \in [Call -> Seq(Notification)]
        /\ records'[c] = Append(records[c], record)
        /\ \A d \in Call \ {c} : records'[d] = records[d]
    BY <1>0, <2>1, <2>6
  <2>10. /\ Len(records[c]) = at - 1 /\ Len(records'[c]) = at
         /\ \A k \in 1..at - 1 : records'[c][k] = records[c][k]
         /\ records'[c][at] = record
    BY <1>0, <2>3, <2>6, <2>9 DEF RecordsFit
  <2>11. RecordsFit(c, at)'
    <3>1. at \in Nat /\ at >= 1
      BY <2>3
    <3>2. \A k \in 1..at : k = at \/ k \in 1..at - 1
      BY <3>1
    <3>3. at \in 1..at /\ \A k \in 1..at - 1 : k \in 1..at
      BY <3>1
    <3>4. \A k \in 1..at : /\ records'[c][k].to = call'[c].plan[k]
                           /\ records'[c][k].sent
                                => call'[c].plan[k] \in accepted'[c]
      BY <2>1, <2>3, <2>5, <2>6, <2>7, <2>8, <2>10, <3>2 DEF RecordsFit
    <3>5. call'[c].anySent <=> \E k \in 1..at : records'[c][k].sent
      BY <2>3, <2>6, <2>7, <2>8, <2>10, <3>2, <3>3 DEF RecordsFit
    <3>6. QED
      BY <2>3, <2>7, <2>8, <2>10, <3>4, <3>5 DEF RecordsFit
  <2>12. CallFits(c)'
    <3>0. call'[c].at - 1 = at /\ call'[c].plan = call[c].plan
      BY <2>3, <2>7, <2>8
    <3>1. CASE at < Len(call[c].plan)
      <4>1. call'[c].pc = "attempt"
        BY <2>7, <2>8, <3>1
      <4>2. call'[c].at \in 1..Len(call'[c].plan)
        BY <2>3, <2>4, <2>7, <2>8, <3>1
      <4>3. RecordsFit(c, call[c].at - 1)'
        BY <2>11, <3>0 DEF RecordsFit
      <4>4. QED
        BY <4>1, <4>2, <4>3 DEF CallFits, Before, Trying, At
    <3>2. CASE ~(at < Len(call[c].plan))
      <4>1. at = Len(call[c].plan) /\ call[c].plan # <<>>
        BY <2>3, <2>4, <3>2
      <4>2. call'[c].pc = "returned"
        BY <2>7, <2>8, <3>2
      <4>3. RecordsFit(c, Len(call[c].plan))'
        BY <2>11, <3>0, <4>1 DEF RecordsFit
      <4>4. call'[c].plan # <<>>
        BY <3>0, <4>1
      <4>5. QED
        BY <4>2, <4>3, <4>4 DEF CallFits, Before, Trying, At
    <3>3. QED
      BY <3>1, <3>2
  <2>13. CallsFit'
    BY <2>1, <2>8, <2>9, <2>12, OthersFit
  <2>14. \A d \in Call : Len(records'[d]) <= 2
    <3> SUFFICES ASSUME NEW d \in Call PROVE Len(records'[d]) <= 2
      OBVIOUS
    <3>1. CASE d = c
      BY <2>4a, <2>10, <3>1
    <3>2. CASE d # c
      BY <1>0, <2>9, <3>2
    <3>3. QED
      BY <3>1, <3>2
  <2>15. QED
    BY <1>0, <1>types, <2>1, <2>8, <2>9, <2>13, <2>14 DEF KeysFit
<1>10. ASSUME NEW c \in Call, ContextEnds(c) PROVE Inv'
  <2> DEFINE next == [call[c] EXCEPT !.expired = TRUE]
  <2>1. /\ call' = [call EXCEPT ![c] = next] /\ CallFits(c)
        /\ UNCHANGED <<keys, records, accepted, deliveries, unsaved>>
    BY <1>0, <1>10 DEF ContextEnds, CallsFit
  <2>2. /\ next \in CallState /\ next.pc = call[c].pc
        /\ next.plan = call[c].plan /\ next.at = call[c].at
        /\ next.last = call[c].last /\ next.anySent = call[c].anySent
    BY <1>0 DEF CallState
  <2> HIDE DEF next
  <2>3. /\ call' \in [Call -> CallState] /\ call'[c] = next
        /\ \A d \in Call \ {c} : call'[d] = call[d]
    BY <1>0, <2>1, <2>2
  <2>4. CallFits(c)'
    BY <2>1, <2>2, <2>3 DEF CallFits, RecordsFit, At, Current
  <2>5. CallsFit'
    BY <2>1, <2>3, <2>4, OthersFit
  <2>6. QED
    BY <1>0, <1>types, <2>1, <2>3, <2>5 DEF KeysFit
<1>11. ASSUME NEW c \in Call, Finish(c) PROVE Inv'
  <2>1. /\ call' = [call EXCEPT ![c] = Idle]
        /\ records' = [records EXCEPT ![c] = <<>>]
        /\ accepted' = [accepted EXCEPT ![c] = {}]
        /\ UNCHANGED <<keys, deliveries, unsaved>>
    BY <1>11 DEF Finish
  <2>2. /\ call' \in [Call -> CallState] /\ call'[c] = Idle
        /\ records' \in [Call -> Seq(Notification)] /\ records'[c] = <<>>
        /\ accepted' \in [Call -> SUBSET Destination]
        /\ \A d \in Call \ {c} : /\ call'[d] = call[d]
                                 /\ records'[d] = records[d]
                                 /\ accepted'[d] = accepted[d]
    BY <1>0, <2>1, IdleFacts
  <2>3. CallFits(c)'
    BY <2>2 DEF CallFits, Idle, Before, Trying, At
  <2>4. CallsFit'
    BY <2>2, <2>3, OthersFit
  <2>5. \A d \in Call : Len(records'[d]) <= 2
    BY <1>0, <2>2
  <2>6. QED
    BY <1>0, <1>types, <2>1, <2>2, <2>4, <2>5 DEF KeysFit
<1>12. CASE UNCHANGED vars
  <2>1. CallsFit' /\ KeysFit'
    BY <1>0, <1>12
    DEF vars, CallsFit, CallFits, RecordsFit, At, Current, KeysFit
  <2>2. QED
    BY <1>0, <1>12, <1>types, <2>1 DEF vars
<1>13. QED
  BY <1>1, <1>2, <1>3, <1>4, <1>5, <1>6, <1>7, <1>8, <1>9, <1>10, <1>11, <1>12
  DEF Next, Step, Deliver

(* Every reachable state has the invariant.                                *)
THEOREM DeliveryInv == Spec => []Inv
  BY InvInit, InvStep, PTL DEF Spec

(* Every reachable state of the calls, keys and records is well typed.     *)
THEOREM DeliveryTypes == Spec => []TypeOK
<1>1. Inv => TypeOK
  BY DEF Inv
<1>2. QED
  BY <1>1, DeliveryInv, PTL

(* While a key lives its page is delivered once, and once more for each    *)
(* reservation whose commit failed (ARCHITECTURE.md:105-106).              *)
THEOREM OncePerPage == Spec => []OneDeliveryPerPage
<1>1. Inv => OneDeliveryPerPage
  <2> SUFFICES ASSUME Inv, NEW p \in Page
               PROVE  deliveries[p] <= 1 + unsaved[p]
    BY DEF OneDeliveryPerPage
  <2>1. unsaved[p] \in Nat
    BY BoundAssumption DEF Inv, TypeOK
  <2>2. QED
    BY <2>1 DEF Inv, KeysFit
<1>2. QED
  BY <1>1, DeliveryInv, PTL

(* What Deliver returns is what it recorded, destination by destination.   *)
THEOREM ReturnsWhatItRecords == Spec => []ReturnIsRecorded
<1>1. Inv => ReturnIsRecorded
  <2> SUFFICES ASSUME Inv, NEW c \in Call, At(c, "returned")
               PROVE  LET plan == call[c].plan
                      IN  /\ Len(records[c]) = IF plan = <<>> THEN 1
                                               ELSE Len(plan)
                          /\ \A k \in DOMAIN plan :
                                /\ records[c][k].to = plan[k]
                                /\ records[c][k].sent => plan[k] \in accepted[c]
                          /\ call[c].anySent
                               <=> \E k \in DOMAIN plan : records[c][k].sent
    BY DEF ReturnIsRecorded
  <2>1. CallFits(c) /\ call[c].plan \in Seq(Destination)
    BY PlanFacts DEF Inv, CallsFit, TypeOK, CallState
  <2>2. DOMAIN call[c].plan = 1..Len(call[c].plan)
    BY <2>1
  <2>3. CASE call[c].plan = <<>>
    BY <2>1, <2>2, <2>3 DEF CallFits, At
  <2>4. CASE call[c].plan # <<>>
    BY <2>1, <2>2, <2>4 DEF CallFits, RecordsFit, At
  <2>5. QED
    BY <2>3, <2>4
<1>2. QED
  BY <1>1, DeliveryInv, PTL

(* Only an answer that leaves hope is followed by another attempt          *)
(* (discord.go:133).                                                       *)
THEOREM RetriesAreTransient == Spec => RetriesOnlyTransient
<1>1. ASSUME Inv, [Next]_vars, NEW c \in Call,
             call'[c].attempt > call[c].attempt
      PROVE  call[c].last \in Transient
  <2>1. call \in [Call -> CallState] /\ CallFits(c) /\ TypeOK
    BY <1>1 DEF Inv, TypeOK, CallsFit
  <2>2. call[c] \in CallState /\ call[c].attempt \in Nat
    BY <2>1, BoundAssumption DEF CallState
  <2>3. call'[c].attempt # call[c].attempt /\ call'[c].attempt # 0
    BY <1>1, <2>2
  <2>4. Wake(c)
    <3>1. ASSUME NEW d \in Call, StartAutomatic(d) \/ Reserve(d)
                   \/ RefuseDuplicate(d) \/ ReserveUnsaved(d)
          PROVE  FALSE
      <4>1. PICK pc \in {"config", "duplicate"} : Go(d, pc)
        BY <3>1 DEF StartAutomatic, Reserve, RefuseDuplicate, ReserveUnsaved
      <4>2. QED
        BY <2>1, <2>3, <4>1, CallGoes DEF Stage
    <3>2. ASSUME NEW d \in Call, NEW p \in Page, Submit(d, p) PROVE FALSE
      BY <2>1, <2>2, <2>3, <3>2 DEF Submit, CallState
    <3>3. ASSUME NEW d \in Call, NEW plan \in Plans, ReadConfig(d, plan)
          PROVE  FALSE
      <4>1. CASE Go(d, "returned")
        BY <2>1, <2>3, <4>1, CallGoes DEF Stage
      <4>2. CASE call' = [call EXCEPT ![d].pc = "attempt", ![d].plan = plan]
        BY <2>1, <2>2, <2>3, <4>2 DEF CallState
      <4>3. QED
        BY <3>3, <4>1, <4>2 DEF ReadConfig
    <3>4. ASSUME NEW d \in Call, NEW reply \in Reply, Attempt(d, reply)
          PROVE  FALSE
      BY <2>1, <2>2, <2>3, <3>4 DEF Attempt, CallState
    <3>5. ASSUME NEW d \in Call, Panic(d) PROVE FALSE
      BY <2>1, <2>2, <2>3, <3>5 DEF Panic, CallState
    <3>6. ASSUME NEW d \in Call, RecordOutcome(d) PROVE FALSE
      BY <2>1, <2>2, <2>3, <3>6 DEF RecordOutcome, CallState
    <3>7. ASSUME NEW d \in Call, ContextEnds(d) PROVE FALSE
      BY <2>1, <2>2, <2>3, <3>7 DEF ContextEnds, CallState
    <3>8. ASSUME NEW d \in Call, Finish(d) PROVE FALSE
      BY <2>1, <2>2, <2>3, <3>8 DEF Finish, Idle
    <3>9. ASSUME NEW d \in Call, Wake(d) PROVE Wake(c)
      BY <2>1, <2>2, <2>3, <3>9 DEF Wake, Go, CallState
    <3>10. ASSUME NEW p \in Page, Expire(p) PROVE FALSE
      BY <2>3, <3>10 DEF Expire
    <3>11. ASSUME UNCHANGED vars PROVE FALSE
      BY <2>3, <3>11 DEF vars
    <3>12. QED
      BY <1>1, <3>1, <3>2, <3>3, <3>4, <3>5, <3>6, <3>7, <3>8, <3>9, <3>10,
         <3>11 DEF Next, Step, Deliver
  <2>5. QED
    BY <2>1, <2>4 DEF Wake, CallFits
<1>2. Inv /\ [Next]_vars
        => [\A c \in Call : call'[c].attempt > call[c].attempt =>
              call[c].last \in Transient]_vars
  BY <1>1
<1>3. QED
  BY <1>2, DeliveryInv, PTL DEF Spec, RetriesOnlyTransient
===============================================================================
