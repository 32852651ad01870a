--------------------------- MODULE RateLimiterProofs --------------------------
(***************************************************************************)
(* Theorems about RateLimiter, for every limit and every window, any       *)
(* number of requests, addresses and users, with and without sweeps.       *)
(*                                                                         *)
(* Neither property is inductive: they speak of the attempts permitted,    *)
(* the limiter keeps a count and a deadline.  KeyInv says how the two are  *)
(* related for one key: every attempt lies in the reach of a window, the   *)
(* windows are apart, and the count and the deadline are those of the last *)
(* one.  An attempt, a reset, a sweep and the passing of time preserve it. *)
(***************************************************************************)
EXTENDS RateLimiter, TLAPS

WindowRecord == [count : 1..Max, reset : Nat]

(* NoWindow is told from a window by its count.                            *)
LEMMA WindowsAreOpen == NoWindow \notin WindowRecord
BY LimitAssumption DEF NoWindow, WindowRecord

-------------------------------------------------------------------------------
(* Types                                                                   *)

(* An attempt that is permitted is counted within the limit.               *)
LEMMA PermitTypes ==
    ASSUME TypeOK, NEW k \in Key, Permit(k)
    PROVE  /\ attempts' \in [Key -> WindowRecord \cup {NoWindow}]
           /\ log' \in [Key -> Seq(Nat)]
           /\ starts' \in [Key -> SUBSET Nat]
<1> USE DEF TypeOK
<1>1. log[k] \in Seq(Nat) /\ Len(log[k]) + 1 \in Nat
  OBVIOUS
<1>2. log' \in [Key -> Seq(Nat)] /\ starts' \in [Key -> SUBSET Nat]
  BY <1>1 DEF Permit
<1>3. CASE Expired(k)
  <2>1. [count |-> 1, reset |-> now + Window] \in WindowRecord
    BY LimitAssumption DEF WindowRecord
  <2>2. QED
    BY <1>2, <1>3, <2>1 DEF Permit, WindowRecord
<1>4. CASE ~Expired(k)
  <2>1. attempts[k] \in WindowRecord /\ attempts[k].count < Max
    <3>1. attempts[k] \in WindowRecord \cup {NoWindow}
      BY DEF WindowRecord
    <3>2. attempts[k] # NoWindow /\ ~(attempts[k].count >= Max)
      BY <1>4 DEF Permit, Refuses, Expired
    <3>3. QED
      BY <3>1, <3>2, LimitAssumption DEF WindowRecord
  <2>2. [count |-> attempts[k].count + 1, reset |-> attempts[k].reset]
          \in WindowRecord
    BY <2>1, LimitAssumption DEF WindowRecord
  <2>3. QED
    BY <1>2, <1>4, <2>2 DEF Permit, WindowRecord
<1>5. QED
  BY <1>3, <1>4

(* So is a key that was reset.                                             *)
LEMMA ResetTypes ==
    ASSUME TypeOK, NEW k \in Key, Reset(k)
    PROVE  /\ attempts' \in [Key -> WindowRecord \cup {NoWindow}]
           /\ log' \in [Key -> Seq(Nat)]
           /\ starts' \in [Key -> SUBSET Nat]
BY DEF TypeOK, Reset, WindowRecord

(* The keys a request holds are keys once it asks for them; this is what   *)
(* TypeOK leaves open.                                                     *)
KeysAreKnown ==
    \A r \in Request : request[r].pc # "idle" =>
        request[r].address \in Address /\ request[r].user \in User

(* A step of the handler keeps both.                                       *)
LEMMA LoginTypes ==
    ASSUME TypeOK, KeysAreKnown, NEW r \in Request, Login(r)
    PROVE  TypeOK' /\ KeysAreKnown'
<1> USE DEF At, Goes, Done, Free, Key
<1>1. ASSUME NEW a \in Address, NEW u \in User, Arrive(r, a, u)
      PROVE  TypeOK' /\ KeysAreKnown'
  BY <1>1 DEF Arrive, TypeOK, KeysAreKnown
<1>2. CASE AskForAddress(r)
  <2>1. request[r].address \in Key
    BY <1>2 DEF AskForAddress, KeysAreKnown
  <2>2. request' = [request EXCEPT ![r].pc = "user"] /\ now' = now
    BY <1>2 DEF AskForAddress
  <2>3. KeysAreKnown'
    BY <1>2, <2>2 DEF AskForAddress, KeysAreKnown, TypeOK
  <2>4. /\ attempts' \in [Key -> WindowRecord \cup {NoWindow}]
        /\ log' \in [Key -> Seq(Nat)] /\ starts' \in [Key -> SUBSET Nat]
    <3>1. Permit(request[r].address)
      BY <1>2 DEF AskForAddress
    <3> QED
      BY ONLY <2>1, <3>1, TypeOK, PermitTypes
  <2>5. /\ now' \in Nat
        /\ request' \in [Request ->
             [pc : {"idle", "address", "user", "verify", "reset", "resetUser"},
              address : Address \cup {None}, user : User \cup {None}]]
    BY <2>2 DEF TypeOK
  <2>6. QED
    BY ONLY <2>3, <2>4, <2>5 DEF TypeOK, WindowRecord
<1>3. CASE AskForUser(r)
  <2>1. request[r].user \in Key
    BY <1>3 DEF AskForUser, KeysAreKnown
  <2>2. request' = [request EXCEPT ![r].pc = "verify"] /\ now' = now
    BY <1>3 DEF AskForUser
  <2>3. KeysAreKnown'
    BY <1>3, <2>2 DEF AskForUser, KeysAreKnown, TypeOK
  <2>4. /\ attempts' \in [Key -> WindowRecord \cup {NoWindow}]
        /\ log' \in [Key -> Seq(Nat)] /\ starts' \in [Key -> SUBSET Nat]
    <3>1. Permit(request[r].user)
      BY <1>3 DEF AskForUser
    <3> QED
      BY ONLY <2>1, <3>1, TypeOK, PermitTypes
  <2>5. /\ now' \in Nat
        /\ request' \in [Request ->
             [pc : {"idle", "address", "user", "verify", "reset", "resetUser"},
              address : Address \cup {None}, user : User \cup {None}]]
    BY <2>2 DEF TypeOK
  <2>6. QED
    BY ONLY <2>3, <2>4, <2>5 DEF TypeOK, WindowRecord
<1>4. CASE Refused(r)
  BY <1>4 DEF Refused, TypeOK, KeysAreKnown
<1>5. ASSUME NEW right \in BOOLEAN, Verify(r, right)
      PROVE  TypeOK' /\ KeysAreKnown'
  <2>1. UNCHANGED <<now, attempts, log, starts>>
    BY <1>5 DEF Verify
  <2>2. \/ request' = [request EXCEPT ![r].pc = "reset"]
        \/ request' = [request EXCEPT ![r] = Free]
    BY <1>5 DEF Verify
  <2>3. request[r].pc # "idle"
    BY <1>5 DEF Verify
  <2>4. CASE request' = [request EXCEPT ![r].pc = "reset"]
    BY <2>1, <2>3, <2>4 DEF TypeOK, KeysAreKnown
  <2>5. CASE request' = [request EXCEPT ![r] = Free]
    BY <2>1, <2>5 DEF TypeOK, KeysAreKnown
  <2>6. QED
    BY <2>2, <2>4, <2>5
<1>6. CASE ResetAddress(r)
  <2>1. request[r].address \in Key
    BY <1>6 DEF ResetAddress, KeysAreKnown
  <2>2. request' = [request EXCEPT ![r].pc = "resetUser"] /\ now' = now
    BY <1>6 DEF ResetAddress
  <2>3. KeysAreKnown'
    BY <1>6, <2>2 DEF ResetAddress, KeysAreKnown, TypeOK
  <2>4. /\ attempts' \in [Key -> WindowRecord \cup {NoWindow}]
        /\ log' \in [Key -> Seq(Nat)] /\ starts' \in [Key -> SUBSET Nat]
    <3>1. Reset(request[r].address)
      BY <1>6 DEF ResetAddress
    <3> QED
      BY ONLY <2>1, <3>1, TypeOK, ResetTypes
  <2>5. /\ now' \in Nat
        /\ request' \in [Request ->
             [pc : {"idle", "address", "user", "verify", "reset", "resetUser"},
              address : Address \cup {None}, user : User \cup {None}]]
    BY <2>2 DEF TypeOK
  <2>6. QED
    BY ONLY <2>3, <2>4, <2>5 DEF TypeOK, WindowRecord
<1>7. CASE ResetUser(r)
  <2>1. request[r].user \in Key
    BY <1>7 DEF ResetUser, KeysAreKnown
  <2>2. request' = [request EXCEPT ![r] = Free] /\ now' = now
    BY <1>7 DEF ResetUser
  <2>3. KeysAreKnown'
    BY <1>7, <2>2 DEF ResetUser, KeysAreKnown, TypeOK
  <2>4. QED
    BY <1>7, <2>1, <2>2, <2>3, ResetTypes DEF ResetUser, TypeOK, WindowRecord
<1>8. QED
  BY <1>1, <1>2, <1>3, <1>4, <1>5, <1>6, <1>7 DEF Login

(* The limiter's counters stay within its limit, and the requests ask for  *)
(* keys, in every reachable state.                                         *)
THEOREM LimiterTypes == Spec => [](TypeOK /\ KeysAreKnown)
<1>1. Init => TypeOK /\ KeysAreKnown
  BY DEF Init, TypeOK, KeysAreKnown, Free, Key
<1>2. TypeOK /\ KeysAreKnown /\ [Next]_vars => TypeOK' /\ KeysAreKnown'
  <2> SUFFICES ASSUME TypeOK, KeysAreKnown, [Next]_vars
               PROVE  TypeOK' /\ KeysAreKnown'
    OBVIOUS
  <2>1. CASE Sweep
    BY <2>1 DEF Sweep, TypeOK, KeysAreKnown
  <2>2. CASE Tick
    BY <2>2, BoundAssumption DEF Tick, TypeOK, KeysAreKnown
  <2>3. CASE UNCHANGED vars
    BY <2>3 DEF vars, TypeOK, KeysAreKnown
  <2>4. QED
    BY <2>1, <2>2, <2>3, LoginTypes DEF Next
<1>3. QED
  BY <1>1, <1>2, PTL DEF Spec

-------------------------------------------------------------------------------
(* One key                                                                 *)

(* The attempts l permitted so far, the positions S in l that began a      *)
(* window, and the limiter's own record w, at the time t.                  *)
Chronological(l, t) ==
    /\ \A i, j \in 1..Len(l) : i <= j => l[i] <= l[j]
    /\ \A i \in 1..Len(l) : l[i] <= t

Covered(l, S) ==
    /\ S \subseteq 1..Len(l)
    /\ \A j \in 1..Len(l) : \E s \in S : s <= j /\ j < s + Max

Apart(l, S) == \A s, u \in S : s < u => l[u] > l[s] + Window

Counted(w, l, S, t) ==
    IF w = NoWindow THEN \A s \in S : t > l[s] + Window
    ELSE \E s \in S : /\ \A u \in S : u <= s
                      /\ w.count = Len(l) - s + 1
                      /\ w.reset = l[s] + Window

KeyInv(w, l, S, t) ==
    Chronological(l, t) /\ Covered(l, S) /\ Apart(l, S) /\ Counted(w, l, S, t)

(* The windows that began are all over when the last one is.               *)
LEMMA AllOver ==
    ASSUME NEW w \in WindowRecord \cup {NoWindow}, NEW l \in Seq(Nat),
           NEW S, NEW t \in Nat, KeyInv(w, l, S, t),
           w = NoWindow \/ t > w.reset
    PROVE  \A s \in S : t > l[s] + Window
<1>1. CASE w = NoWindow
  BY <1>1 DEF KeyInv, Counted
<1>2. CASE w # NoWindow
  <2>1. PICK s \in S : (\A u \in S : u <= s) /\ w.reset = l[s] + Window
    BY <1>2 DEF KeyInv, Counted
  <2>2. SUFFICES ASSUME NEW u \in S PROVE t > l[u] + Window
    OBVIOUS
  <2>3. s \in 1..Len(l) /\ u \in 1..Len(l) /\ u <= s
    BY <2>1 DEF KeyInv, Covered
  <2>4. l[u] <= l[s] /\ l[u] \in Nat /\ l[s] \in Nat
    BY <2>3 DEF KeyInv, Chronological
  <2>5. t > l[s] + Window
    BY <1>2, <2>1
  <2>6. QED
    BY <2>4, <2>5, LimitAssumption
<1>3. QED
  BY <1>1, <1>2

(* Time that passes breaks nothing.                                        *)
LEMMA LaterIsFine ==
    ASSUME NEW w, NEW l \in Seq(Nat), NEW S, NEW t \in Nat,
           NEW u \in Nat, t <= u, KeyInv(w, l, S, t)
    PROVE  KeyInv(w, l, S, u)
<1>1. \A i \in 1..Len(l) : l[i] \in Nat
  OBVIOUS
<1>2. Chronological(l, u)
  BY <1>1 DEF KeyInv, Chronological
<1>3. S \subseteq 1..Len(l)
  BY DEF KeyInv, Covered
<1>4. ASSUME NEW s \in S, t > l[s] + Window PROVE u > l[s] + Window
  BY <1>1, <1>3, <1>4, LimitAssumption
<1>5. Counted(w, l, S, u)
  BY <1>4 DEF KeyInv, Counted
<1>6. QED
  BY <1>2, <1>5 DEF KeyInv

(* An attempt that begins a window, the last one being over.               *)
LEMMA FirstOfWindow ==
    ASSUME NEW w \in WindowRecord \cup {NoWindow}, NEW l \in Seq(Nat),
           NEW S, NEW t \in Nat, KeyInv(w, l, S, t),
           w = NoWindow \/ t > w.reset
    PROVE  KeyInv([count |-> 1, reset |-> t + Window],
                  Append(l, t), S \cup {Len(l) + 1}, t)
<1> DEFINE n == Len(l) + 1
           m == Append(l, t)
           T == S \cup {n}
           v == [count |-> 1, reset |-> t + Window]
<1>1. /\ n \in Nat /\ Len(m) = n /\ m[n] = t
      /\ \A i \in 1..Len(l) : m[i] = l[i] /\ l[i] \in Nat
      /\ 1..n = 1..Len(l) \cup {n}
  OBVIOUS
<1>2. S \subseteq 1..Len(l)
  BY DEF KeyInv, Covered
<1>3. Chronological(m, t)
  BY <1>1 DEF KeyInv, Chronological
<1>4. Covered(m, T)
  <2>1. T \subseteq 1..Len(m)
    BY <1>1, <1>2
  <2>2. ASSUME NEW j \in 1..Len(m)
        PROVE  \E s \in T : s <= j /\ j < s + Max
    <3>1. CASE j = n
      BY <3>1, <1>1, LimitAssumption
    <3>2. CASE j # n
      BY <3>2, <1>1 DEF KeyInv, Covered
    <3>3. QED
      BY <3>1, <3>2
  <2>3. QED
    BY <2>1, <2>2 DEF Covered
<1>5. Apart(m, T)
  <2>1. \A s \in S : t > l[s] + Window
    BY AllOver
  <2>2. SUFFICES ASSUME NEW s \in T, NEW u \in T, s < u
                 PROVE  m[u] > m[s] + Window
    BY DEF Apart
  <2>3. s \in S
    BY <1>1, <1>2, <2>2
  <2>4. CASE u = n
    BY <1>1, <1>2, <2>1, <2>3, <2>4
  <2>5. CASE u # n
    BY <1>1, <1>2, <2>2, <2>3, <2>5 DEF KeyInv, Apart
  <2>6. QED
    BY <2>4, <2>5
<1>6. Counted(v, m, T, t)
  <2>1. v # NoWindow
    BY DEF NoWindow
  <2>2. \A u \in T : u <= n
    BY <1>1, <1>2
  <2>3. v.count = Len(m) - n + 1 /\ v.reset = m[n] + Window
    BY <1>1
  <2>4. QED
    BY <2>1, <2>2, <2>3 DEF Counted
<1>7. QED
  BY <1>3, <1>4, <1>5, <1>6 DEF KeyInv

(* An attempt within a window that has room for it.                        *)
LEMMA NextOfWindow ==
    ASSUME NEW w \in WindowRecord, NEW l \in Seq(Nat), NEW S,
           NEW t \in Nat, KeyInv(w, l, S, t), w.count < Max
    PROVE  KeyInv([count |-> w.count + 1, reset |-> w.reset],
                  Append(l, t), S, t)
<1> DEFINE n == Len(l) + 1
           m == Append(l, t)
           v == [count |-> w.count + 1, reset |-> w.reset]
<1>1. /\ n \in Nat /\ Len(m) = n /\ m[n] = t
      /\ \A i \in 1..Len(l) : m[i] = l[i] /\ l[i] \in Nat
      /\ 1..n = 1..Len(l) \cup {n}
  OBVIOUS
<1>2. S \subseteq 1..Len(l)
  BY DEF KeyInv, Covered
<1>3. w # NoWindow
  BY WindowsAreOpen
<1>4. PICK s \in S : /\ \A u \in S : u <= s
                     /\ w.count = Len(l) - s + 1
                     /\ w.reset = l[s] + Window
  BY <1>3 DEF KeyInv, Counted
<1>5. Chronological(m, t)
  BY <1>1 DEF KeyInv, Chronological
<1>6. Covered(m, S)
  <2>1. S \subseteq 1..Len(m)
    BY <1>1, <1>2
  <2>2. ASSUME NEW j \in 1..Len(m)
        PROVE  \E u \in S : u <= j /\ j < u + Max
    <3>1. CASE j = n
      <4>1. s \in 1..Len(l) /\ w.count = Len(l) - s + 1 /\ w.count < Max
        BY <1>1, <1>2, <1>4
      <4>2. n = Len(l) + 1 /\ Len(l) \in Nat
        BY <1>1
      <4>3. s <= n /\ n < s + Max
        BY ONLY <4>1, <4>2, LimitAssumption
      <4> QED
        BY <1>4, <3>1, <4>3
    <3>2. CASE j # n
      BY <3>2, <1>1 DEF KeyInv, Covered
    <3>3. QED
      BY <3>1, <3>2
  <2>3. QED
    BY <2>1, <2>2 DEF Covered
<1>7. Apart(m, S)
  BY <1>1, <1>2 DEF KeyInv, Apart
<1>8. Counted(v, m, S, t)
  <2>1. v # NoWindow
    BY LimitAssumption DEF NoWindow, WindowRecord
  <2>2. v.count = Len(m) - s + 1 /\ v.reset = m[s] + Window
    BY <1>1, <1>2, <1>4
  <2>3. QED
    BY <1>4, <2>1, <2>2 DEF Counted
<1>9. QED
  BY <1>5, <1>6, <1>7, <1>8 DEF KeyInv

(* Times that enclose two others which are more than the window apart.     *)
LEMMA Between ==
    ASSUME NEW a \in Nat, NEW b \in Nat, NEW c \in Nat, NEW d \in Nat,
           NEW w \in Nat, a <= b, c > b + w, c <= d
    PROVE  d > a + w
OBVIOUS

(* From KeyInv the bound on bursts: two windows begin within the span, the *)
(* first not before its first attempt.                                     *)
LEMMA BurstOfKey ==
    ASSUME NEW w, NEW l \in Seq(Nat), NEW S, NEW t \in Nat,
           KeyInv(w, l, S, t),
           NEW i \in 1..Len(l), i + 2 * Max - 1 <= Len(l)
    PROVE  l[i + 2 * Max - 1] > l[i] + Window
<1> DEFINE j == i + 2 * Max - 1
<1>1. j \in 1..Len(l) /\ S \subseteq 1..Len(l)
  BY LimitAssumption DEF KeyInv, Covered
<1>2. PICK u \in S : u <= j /\ j < u + Max
  BY <1>1 DEF KeyInv, Covered
<1>3. u - 1 \in 1..Len(l) /\ u - 1 >= i + Max - 1
  BY <1>1, <1>2, LimitAssumption
<1>4. PICK s \in S : s <= u - 1 /\ u - 1 < s + Max
  BY <1>3 DEF KeyInv, Covered
<1>5. s \in 1..Len(l) /\ u \in 1..Len(l) /\ i <= s /\ s < u
  BY <1>1, <1>2, <1>3, <1>4, LimitAssumption
<1>6. l[u] > l[s] + Window
  BY <1>5 DEF KeyInv, Apart
<1>7. l[i] <= l[s] /\ l[u] <= l[j]
  BY <1>1, <1>2, <1>5 DEF KeyInv, Chronological
<1>8. \A q \in 1..Len(l) : l[q] \in Nat
  OBVIOUS
<1>9. l[j] > l[i] + Window
  BY <1>1, <1>5, <1>6, <1>7, <1>8, LimitAssumption, Between
<1>10. QED
  BY <1>9

(* And what a refusal rests on: the window that is full.                   *)
LEMMA RefusalOfKey ==
    ASSUME NEW w \in WindowRecord, NEW l \in Seq(Nat), NEW S,
           NEW t \in Nat, KeyInv(w, l, S, t),
           ~(t > w.reset), w.count >= Max
    PROVE  Len(l) >= Max /\ l[Len(l) - Max + 1] + Window >= t
<1>1. PICK s \in S : /\ w.count = Len(l) - s + 1
                     /\ w.reset = l[s] + Window
  BY WindowsAreOpen DEF KeyInv, Counted
<1>2. s \in 1..Len(l)
  BY DEF KeyInv, Covered
<1>3. /\ Len(l) >= Max /\ Len(l) - Max + 1 \in 1..Len(l)
      /\ s <= Len(l) - Max + 1
  BY <1>1, <1>2, LimitAssumption
<1>4. l[s] <= l[Len(l) - Max + 1]
  BY <1>2, <1>3 DEF KeyInv, Chronological
<1>5. w.reset \in Nat /\ \A q \in 1..Len(l) : l[q] \in Nat
  BY DEF WindowRecord
<1> DEFINE r == Len(l) - Max + 1
<1>6. l[s] \in Nat /\ l[r] \in Nat
  BY <1>2, <1>3, <1>5
<1>7. l[r] + Window >= t
  <2> HIDE DEF r
  <2>1. l[s] <= l[r]
    BY <1>4 DEF r
  <2>2. w.reset = l[s] + Window /\ ~(t > w.reset)
    BY <1>1
  <2>3. l[r] \in Nat /\ l[s] \in Nat
    BY <1>6
  <2>4. QED
    BY ONLY <2>1, <2>2, <2>3, t \in Nat, LimitAssumption
<1>8. QED
  BY <1>3, <1>7

-------------------------------------------------------------------------------
(* All keys                                                                *)

Inv == \A k \in Key : KeyInv(attempts[k], log[k], starts[k], now)

(* An attempt that is permitted keeps the invariant.                       *)
LEMMA PermitInv ==
    ASSUME TypeOK, Inv, NEW k \in Key, Permit(k), now' = now
    PROVE  Inv'
<1>1. /\ attempts[k] \in WindowRecord \cup {NoWindow}
      /\ log[k] \in Seq(Nat) /\ now \in Nat
      /\ KeyInv(attempts[k], log[k], starts[k], now)
  BY DEF TypeOK, Inv, WindowRecord
<1>2. KeyInv(attempts'[k], log'[k], starts'[k], now)
  <2>1. CASE Expired(k)
    <3>1. attempts[k] = NoWindow \/ now > attempts[k].reset
      BY <2>1 DEF Expired
    <3>2. /\ attempts'[k] = [count |-> 1, reset |-> now + Window]
          /\ log'[k] = Append(log[k], now)
          /\ starts'[k] = starts[k] \cup {Len(log[k]) + 1}
      BY <2>1 DEF Permit, TypeOK
    <3>3. KeyInv([count |-> 1, reset |-> now + Window],
                 Append(log[k], now), starts[k] \cup {Len(log[k]) + 1}, now)
      BY <1>1, <3>1, FirstOfWindow
    <3>4. QED
      BY <3>2, <3>3
  <2>2. CASE ~Expired(k)
    <3>1. attempts[k] \in WindowRecord /\ attempts[k].count < Max
      <4>1. attempts[k] # NoWindow /\ ~(attempts[k].count >= Max)
        BY <2>2 DEF Permit, Refuses, Expired
      <4>2. QED
        BY <1>1, <4>1, LimitAssumption DEF WindowRecord
    <3>2. /\ attempts'[k] = [count |-> attempts[k].count + 1,
                             reset |-> attempts[k].reset]
          /\ log'[k] = Append(log[k], now)
          /\ starts'[k] = starts[k]
      BY <2>2 DEF Permit, TypeOK
    <3>3. QED
      BY <1>1, <3>1, <3>2, NextOfWindow
  <2>3. QED
    BY <2>1, <2>2
<1>3. ASSUME NEW j \in Key, j # k
      PROVE  /\ attempts'[j] = attempts[j] /\ log'[j] = log[j]
             /\ starts'[j] = starts[j]
  BY <1>3 DEF Permit, TypeOK
<1>4. SUFFICES ASSUME NEW j \in Key
               PROVE  KeyInv(attempts'[j], log'[j], starts'[j], now)
  BY DEF Inv
<1>5. CASE j = k
  BY <1>2, <1>5
<1>6. CASE j # k
  BY <1>3, <1>6 DEF Inv
<1>7. QED
  BY <1>5, <1>6

(* A reset forgets the attempts with the window.                           *)
LEMMA ResetInv ==
    ASSUME TypeOK, Inv, NEW k \in Key, Reset(k), now' = now
    PROVE  Inv'
<1>1. KeyInv(NoWindow, << >>, {}, now)
  BY DEF KeyInv, Chronological, Covered, Apart, Counted
<1>2. /\ attempts'[k] = NoWindow /\ log'[k] = << >> /\ starts'[k] = {}
      /\ \A j \in Key : j # k => /\ attempts'[j] = attempts[j]
                                 /\ log'[j] = log[j]
                                 /\ starts'[j] = starts[j]
  BY DEF Reset, TypeOK
<1>3. QED
  BY <1>1, <1>2 DEF Inv

(* A sweep forgets windows that are over, and keeps what was permitted.    *)
LEMMA SweepInv == TypeOK /\ Inv /\ Sweep => Inv'
<1> SUFFICES ASSUME TypeOK, Inv, Sweep, NEW k \in Key
             PROVE  KeyInv(attempts'[k], log[k], starts[k], now)
  BY DEF Inv, Sweep
<1>1. CASE k \notin Stale
  BY <1>1 DEF Sweep, Inv
<1>2. CASE k \in Stale
  <2>1. /\ attempts[k] \in WindowRecord \cup {NoWindow}
        /\ log[k] \in Seq(Nat) /\ now \in Nat
        /\ KeyInv(attempts[k], log[k], starts[k], now)
    BY DEF TypeOK, Inv, WindowRecord
  <2>2. attempts[k] = NoWindow \/ now > attempts[k].reset
    BY <1>2 DEF Stale, Expired
  <2>3. \A s \in starts[k] : now > log[k][s] + Window
    BY <2>1, <2>2, AllOver
  <2>4. attempts'[k] = NoWindow
    BY <1>2 DEF Sweep
  <2>5. QED
    BY <2>1, <2>3, <2>4 DEF KeyInv, Counted
<1>3. QED
  BY <1>1, <1>2

(* The invariant holds in every reachable state.                           *)
LEMMA Invariance == Spec => []Inv
<1>1. Init => Inv
  BY DEF Init, Inv, KeyInv, Chronological, Covered, Apart, Counted
<1>2. TypeOK /\ KeysAreKnown /\ Inv /\ [Next]_vars => Inv'
  <2> SUFFICES ASSUME TypeOK, KeysAreKnown, Inv, [Next]_vars PROVE Inv'
    OBVIOUS
  <2> USE DEF At, Key
  <2>1. ASSUME NEW r \in Request, Login(r) PROVE Inv'
    <3>1. CASE UNCHANGED <<now, attempts, log, starts>>
      BY <3>1 DEF Inv
    <3>2. CASE AskForAddress(r)
      BY <3>2, PermitInv DEF AskForAddress, KeysAreKnown
    <3>3. CASE AskForUser(r)
      BY <3>3, PermitInv DEF AskForUser, KeysAreKnown
    <3>4. CASE ResetAddress(r)
      BY <3>4, ResetInv DEF ResetAddress, KeysAreKnown
    <3>5. CASE ResetUser(r)
      BY <3>5, ResetInv DEF ResetUser, KeysAreKnown
    <3>6. QED
      BY <2>1, <3>1, <3>2, <3>3, <3>4, <3>5
      DEF Login, Arrive, Refused, Verify
  <2>2. CASE Tick
    <3> SUFFICES ASSUME NEW k \in Key
                 PROVE  KeyInv(attempts[k], log[k], starts[k], now + 1)
      BY <2>2 DEF Tick, Inv
    <3>1. /\ log[k] \in Seq(Nat) /\ now \in Nat
          /\ KeyInv(attempts[k], log[k], starts[k], now)
      BY DEF TypeOK, Inv
    <3>2. now + 1 \in Nat /\ now <= now + 1
      BY <3>1
    <3>3. QED
      BY <3>1, <3>2, LaterIsFine
  <2>3. CASE UNCHANGED vars
    BY <2>3 DEF vars, Inv
  <2>4. QED
    BY <2>1, <2>2, <2>3, SweepInv DEF Next
<1>3. QED
  BY <1>1, <1>2, LimiterTypes, PTL DEF Spec

(* Whatever logins overlap, succeed and clear the counters of each other:  *)
(* a key that was not reset is permitted fewer than 2 * Max attempts in    *)
(* any span of the window's length (ratelimit.go:44).                      *)
THEOREM Bursts == Spec => []BurstsAreBounded
<1>1. TypeOK /\ Inv => BurstsAreBounded
  <2> SUFFICES ASSUME TypeOK, Inv, NEW k \in Key,
                      NEW i \in 1..Len(log[k]),
                      i + 2 * Max - 1 <= Len(log[k])
               PROVE  log[k][i + 2 * Max - 1] > log[k][i] + Window
    BY DEF BurstsAreBounded
  <2>1. /\ log[k] \in Seq(Nat) /\ now \in Nat
        /\ KeyInv(attempts[k], log[k], starts[k], now)
    BY DEF TypeOK, Inv
  <2>2. QED
    BY <2>1, BurstOfKey
<1>2. QED
  BY <1>1, Invariance, LimiterTypes, PTL

(* A refusal rests on Max attempts of the key itself since its last reset, *)
(* none of them longer ago than the window.                                *)
THEOREM Refusals == Spec => []RefusalIsEarned
<1>1. TypeOK /\ Inv => RefusalIsEarned
  <2> SUFFICES ASSUME TypeOK, Inv, NEW k \in Key, Refuses(k)
               PROVE  /\ Len(log[k]) >= Max
                      /\ log[k][Len(log[k]) - Max + 1] + Window >= now
    BY DEF RefusalIsEarned
  <2>1. /\ attempts[k] \in WindowRecord \cup {NoWindow}
        /\ log[k] \in Seq(Nat) /\ now \in Nat
        /\ KeyInv(attempts[k], log[k], starts[k], now)
    BY DEF TypeOK, Inv, WindowRecord
  <2>2. /\ attempts[k] # NoWindow /\ ~(now > attempts[k].reset)
        /\ attempts[k].count >= Max
    BY DEF Refuses, Expired
  <2>3. QED
    BY <2>1, <2>2, RefusalOfKey
<1>2. QED
  BY <1>1, Invariance, LimiterTypes, PTL
===============================================================================
