------------------------- MODULE TokenBucket_proofs -------------------------
(***************************************************************************)
(* What the token bucket grants and denies, for every rate, burst, cleanup *)
(* interval, set of keys, length of time and number of concurrent callers. *)
(***************************************************************************)
EXTENDS TokenBucket, FiniteSetTheorems, TLAPS

\* Neither a call nor an entry is ahead of the clock.
StampOrder ==
    /\ \A c \in Callers : now[c] <= clock
    /\ \A k \in Keys : entries[k] # NoEntry => entries[k].last <= clock

\* Nothing is counted for the future, and the counts never decrease.
Quiet ==
    \A k \in Keys : \A u \in Stamps : u > clock =>
        granted[k][u] = granted[k][clock + 1] /\ extra[k][u] = extra[k][clock + 1]
Counts ==
    \A k \in Keys : \A u, v \in Stamps : u <= v =>
        granted[k][u] <= granted[k][v] /\ extra[k][u] <= extra[k][v]

\* What k has left is covered by what it is allowed since s, up to its last use;
\* a key that is not tracked is owed a full bucket at any time.
Balance(k, s) ==
    IF entries[k] # NoEntry
    THEN spent(k, s, clock) + entries[k].tokens
           <= allowance(s, entries[k].last) + surcharge(k, s, clock)
    ELSE spent(k, s, clock) <= Rate * (clock - s) + surcharge(k, s, clock)

Accounts ==
    \A k \in Keys : \A s \in 0..clock : spent(k, s, clock) = 0 \/ Balance(k, s)

IInv == TypeOK /\ StampOrder /\ Quiet /\ Counts /\ Accounts /\ RateConforms

-----------------------------------------------------------------------------

\* Refill is monotone in time.
LEMMA RateMono ==
  ASSUME NEW a \in Int, NEW b \in Int, a <= b
  PROVE  /\ Rate * a \in Int /\ Rate * b \in Int
         /\ Rate * a <= Rate * b
  BY BucketAssumption

\* Refill over adjacent intervals adds up.
LEMMA RateSplit ==
  ASSUME NEW a \in Int, NEW b \in Int, NEW d \in Int
  PROVE  /\ Rate * (b - a) \in Int /\ Rate * (d - b) \in Int /\ Rate * (d - a) \in Int
         /\ Rate * (b - a) + Rate * (d - b) = Rate * (d - a)
  BY BucketAssumption

\* A full bucket has room for one request at least.
LEMMA CapacityType == Capacity \in Nat /\ Capacity >= Unit
  BY BucketAssumption DEF Capacity

\* A full bucket is at most Shortfall more than an idle one has after the
\* cleanup interval.
LEMMA ShortfallType == Shortfall \in Nat /\ Capacity <= Rate * CleanupInterval + Shortfall
  BY BucketAssumption, CapacityType DEF Shortfall

\* What an interval has spent and was credited besides are numbers.
LEMMA SpentType ==
  ASSUME TypeOK, NEW k \in Keys, NEW s \in Time, NEW t \in Time
  PROVE  spent(k, s, t) \in Int /\ surcharge(k, s, t) \in Int
  <1>1. s \in Stamps /\ t + 1 \in Stamps /\ Unit \in Int
    BY BucketAssumption DEF Time, Stamps
  <1>2. /\ granted[k][s] \in Nat /\ granted[k][t + 1] \in Nat
        /\ extra[k][s] \in Nat /\ extra[k][t + 1] \in Nat
    BY Zenon, <1>1 DEF TypeOK
  <1> QED
    BY <1>1, <1>2 DEF spent, surcharge

\* They do not shrink when the interval grows, at either end.
LEMMA SpentMono ==
  ASSUME TypeOK, Counts, NEW k \in Keys, NEW r \in Time, NEW s \in Time, NEW t \in Time,
         r <= s, s <= t + 1
  PROVE  /\ 0 <= spent(k, s, t) /\ spent(k, s, t) <= spent(k, r, t)
         /\ 0 <= surcharge(k, s, t)
  <1> USE BucketAssumption
  <1>1. r \in Stamps /\ s \in Stamps /\ t + 1 \in Stamps
    BY DEF Time, Stamps
  <1> DEFINE a == granted[k][r]
             b == granted[k][s]
             d == granted[k][t + 1]
  <1>2. /\ a \in Nat /\ b \in Nat /\ d \in Nat
        /\ extra[k][s] \in Nat /\ extra[k][t + 1] \in Nat
    BY Zenon, <1>1 DEF TypeOK
  <1>3. a <= b /\ b <= d /\ extra[k][s] <= extra[k][t + 1]
    BY Zenon, <1>1 DEF Counts
  <1>4. spent(k, s, t) = Unit * (d - b) /\ spent(k, r, t) = Unit * (d - a)
    BY Zenon DEF spent
  <1>5. 0 <= surcharge(k, s, t)
    BY <1>2, <1>3 DEF surcharge
  <1> HIDE DEF a, b, d
  <1>6. 0 <= Unit * (d - b) /\ Unit * (d - b) <= Unit * (d - a)
    <2>1. d - b \in Nat /\ d - a \in Nat /\ d - b <= d - a
      BY <1>2, <1>3
    <2> QED
      BY <2>1
  <1> QED
    BY Zenon, <1>4, <1>5, <1>6

\* What the cleanups of a call stamped t leave of each entry.
LEMMA SettledShape ==
  ASSUME TypeOK, NEW k \in Keys, NEW t \in Time, NEW j \in Keys,
         NEW es \in {swept(t), settled(k, t)}
  PROVE  \/ es[j] = entries[j]
         \/ /\ es[j] = NoEntry /\ entries[j] # NoEntry
            /\ entries[j].last <= t - CleanupInterval
  BY Zenon DEF TypeOK, settled, swept, cleanup

\* The cleanup only removes entries.
LEMMA SettledType ==
  ASSUME TypeOK, NEW k \in Keys, NEW t \in Time
  PROVE  /\ settled(k, t) \in [Keys -> Entry \cup {NoEntry}]
         /\ swept(t) \in [Keys -> Entry \cup {NoEntry}]
         /\ \A j \in Keys : settled(k, t)[j] # NoEntry => settled(k, t)[j] = entries[j]
         /\ \A j \in Keys : swept(t)[j] # NoEntry => swept(t)[j] = entries[j]
  BY Zenon DEF TypeOK, settled, swept, cleanup

\* What a call finds in the bucket is between nothing and its capacity.
LEMMA AvailableType ==
  ASSUME TypeOK, NEW k \in Keys, NEW t \in Time
  PROVE  available(k, t) \in 0..Capacity
  <1>1. CASE swept(t)[k] = NoEntry
    BY <1>1, CapacityType DEF available
  <1>2. CASE swept(t)[k] # NoEntry
    <2>1. /\ swept(t)[k] = entries[k] /\ entries[k].last \in Nat
          /\ entries[k].tokens \in 0..Capacity
      BY <1>2, SettledType, CapacityType DEF TypeOK, Entry
    <2>2. t > entries[k].last => Rate * (t - entries[k].last) \in Nat
      BY <2>1, BucketAssumption DEF Time
    <2> QED
      BY <1>2, <2>1, <2>2, CapacityType DEF available, AtMost
  <1> QED
    BY Zenon, <1>1, <1>2

-----------------------------------------------------------------------------
(* What a call changes                                                     *)

\* What a call for k adds to the counts of key j.
paid(j, k, n)      == IF j = k THEN n ELSE 0
credit(j, k, t, w) == (IF j = k THEN Rate * w ELSE 0)
                      + (IF j \in forgets(k, t) THEN Shortfall ELSE 0)

\* A call that gives k a place leaves it x tokens.
Served(k, t, n, x) ==
    /\ entries' = [settled(k, t) EXCEPT ![k] = [last |-> t, tokens |-> x]]
    /\ Account(k, t, n, clock - t)

\* Every call is refused, or grants or denies its request.
LEMMA CallCases ==
  ASSUME TypeOK, StampOrder, NEW c \in Callers, Allow(c)
  PROVE  \E k \in Keys, t \in Time :
            /\ k = asked[c] /\ t = now[c] /\ t <= clock /\ clock' = clock
            /\ \/ entries' = settled(k, t) /\ Account(k, t, 0, 0)
               \/ \E n \in {0, 1}, x \in Nat :
                     x <= Capacity /\ Unit * n + x = available(k, t) /\ Served(k, t, n, x)
  <1>1. PICK k \in Keys, t \in Time : k = asked[c] /\ t = now[c]
    BY Zenon DEF Allow, Refuse, Admit, Deny, TypeOK
  <1>2. t <= clock /\ clock' = clock
    BY Zenon, <1>1 DEF StampOrder, Allow, Refuse, Admit, Deny, return
  <1>3. available(k, t) \in 0..Capacity
    BY Zenon, AvailableType
  <1>4. CASE Refuse(c)
    BY Zenon, <1>1, <1>2, <1>4 DEF Refuse
  <1>5. CASE Admit(c)
    <2>1. Served(k, t, 1, available(k, t) - Unit) /\ available(k, t) >= Unit
      BY Zenon, <1>1, <1>5 DEF Admit, Served
    <2>2. PICK x \in Nat : x = available(k, t) - Unit
      BY <1>3, <2>1, BucketAssumption, CapacityType
    <2>3. x <= Capacity /\ Unit * 1 + x = available(k, t)
      BY <1>3, <2>2, BucketAssumption, CapacityType
    <2>4. Served(k, t, 1, x)
      BY Zenon, <2>1, <2>2
    <2> QED
      BY Zenon, <1>1, <1>2, <2>3, <2>4
  <1>6. CASE Deny(c)
    <2>1. Served(k, t, 0, available(k, t))
      BY Zenon, <1>1, <1>6 DEF Deny, Served
    <2>2. PICK x \in Nat : x = available(k, t)
      BY <1>3, CapacityType
    <2>3. x <= Capacity /\ Unit * 0 + x = available(k, t)
      BY <1>3, <2>2, BucketAssumption, CapacityType
    <2>4. Served(k, t, 0, x)
      BY Zenon, <2>1, <2>2
    <2> QED
      BY Zenon, <1>1, <1>2, <2>3, <2>4
  <1> QED
    BY Zenon, <1>4, <1>5, <1>6 DEF Allow

\* The counts of j after a step: p and q more from now on.
Grown(j, p, q) ==
    \A u \in Stamps :
        /\ granted'[j][u] = IF u > clock THEN granted[j][u] + p ELSE granted[j][u]
        /\ extra'[j][u] = IF u > clock THEN extra[j][u] + q ELSE extra[j][u]

\* The counts after a call.
LEMMA AccountCounts ==
  ASSUME TypeOK, NEW k \in Keys, NEW t \in Time, NEW n \in Nat, NEW w \in Nat,
         Account(k, t, n, w), NEW j \in Keys
  PROVE  /\ paid(j, k, n) \in Nat /\ credit(j, k, t, w) \in Nat
         /\ granted'[j] \in [Stamps -> Nat] /\ extra'[j] \in [Stamps -> Nat]
         /\ Grown(j, paid(j, k, n), credit(j, k, t, w))
  <1>1. paid(j, k, n) \in Nat
    BY DEF paid
  <1>2. credit(j, k, t, w) \in Nat
    <2>1. Rate * w \in Nat
      BY BucketAssumption
    <2> QED
      BY <2>1, ShortfallType DEF credit
  <1>3. granted[j] \in [Stamps -> Nat] /\ extra[j] \in [Stamps -> Nat]
    BY Zenon DEF TypeOK
  <1>4. \A u \in Stamps : granted'[j][u] =
           IF u > clock THEN granted[j][u] + paid(j, k, n) ELSE granted[j][u]
    <2>1. CASE j = k
      <3>1. granted'[j] = Plus(granted[j], n)
        BY Zenon, <2>1 DEF Account, TypeOK
      <3> QED
        BY Zenon, <2>1, <3>1 DEF Plus, paid
    <2>2. CASE j # k
      <3>1. granted'[j] = granted[j]
        BY Zenon, <2>2 DEF Account, TypeOK
      <3>2. \A u \in Stamps : granted[j][u] + 0 = granted[j][u]
        BY <1>3
      <3> QED
        BY Zenon, <2>2, <3>1, <3>2 DEF paid
    <2> QED
      BY Zenon, <2>1, <2>2
  <1>5. extra'[j] = Plus(extra[j], credit(j, k, t, w))
    BY Zenon DEF Account, credit
  <1>6. \A u \in Stamps : extra'[j][u] =
           IF u > clock THEN extra[j][u] + credit(j, k, t, w) ELSE extra[j][u]
    BY Zenon, <1>5 DEF Plus
  <1>7. extra'[j] \in [Stamps -> Nat]
    <2>1. \A u \in Stamps : extra[j][u] + credit(j, k, t, w) \in Nat
      BY <1>2, <1>3
    <2> QED
      BY Zenon, <1>3, <1>5, <2>1 DEF Plus
  <1>8. granted'[j] \in [Stamps -> Nat]
    <2>1. CASE j # k
      BY Zenon, <1>3, <2>1 DEF Account, TypeOK
    <2>2. CASE j = k
      <3>1. granted'[j] = Plus(granted[j], n)
        BY Zenon, <2>2 DEF Account, TypeOK
      <3>2. \A u \in Stamps : granted[j][u] + n \in Nat
        BY <1>3
      <3> QED
        BY Zenon, <1>3, <3>1, <3>2 DEF Plus
    <2> QED
      BY Zenon, <2>1, <2>2
  <1> QED
    BY Zenon, <1>1, <1>2, <1>4, <1>6, <1>7, <1>8 DEF Grown

\* What a call adds to a window: its own if the call is decided in it.
LEMMA CallSpent ==
  ASSUME TypeOK, NEW k \in Keys, NEW t \in Time, NEW n \in Nat, NEW w \in Nat,
         Account(k, t, n, w), NEW j \in Keys, NEW s \in Time, NEW u \in Time, s <= u
  PROVE  /\ s <= clock /\ clock <= u =>
              /\ spent(j, s, u)' = spent(j, s, u) + Unit * paid(j, k, n)
              /\ surcharge(j, s, u)' = surcharge(j, s, u) + credit(j, k, t, w)
         /\ ~(s <= clock /\ clock <= u) =>
              spent(j, s, u)' = spent(j, s, u) /\ surcharge(j, s, u)' = surcharge(j, s, u)
  <1> DEFINE p == paid(j, k, n)
             q == credit(j, k, t, w)
             a == granted[j][s]
             b == granted[j][u + 1]
             d == extra[j][s]
             e == extra[j][u + 1]
  <1>1. clock \in Nat /\ s \in Nat /\ u \in Nat /\ s \in Stamps /\ u + 1 \in Stamps
    BY BucketAssumption DEF TypeOK, Time, Stamps
  <1>2. a \in Nat /\ b \in Nat /\ d \in Nat /\ e \in Nat
    BY Zenon, <1>1 DEF TypeOK
  <1>3. p \in Nat /\ q \in Nat
    BY Zenon, AccountCounts
  <1>4. /\ granted'[j][s] = IF s > clock THEN a + p ELSE a
        /\ granted'[j][u + 1] = IF u + 1 > clock THEN b + p ELSE b
        /\ extra'[j][s] = IF s > clock THEN d + q ELSE d
        /\ extra'[j][u + 1] = IF u + 1 > clock THEN e + q ELSE e
    <2>1. Grown(j, p, q)
      BY Zenon, AccountCounts
    <2> QED
      BY Zenon, <1>1, <2>1 DEF Grown
  <1>5. /\ spent(j, s, u) = Unit * (b - a) /\ surcharge(j, s, u) = e - d
        /\ spent(j, s, u)' = Unit * (granted'[j][u + 1] - granted'[j][s])
        /\ surcharge(j, s, u)' = extra'[j][u + 1] - extra'[j][s]
    BY Zenon DEF spent, surcharge
  <1> HIDE DEF a, b, d, e, p, q
  <1>6. CASE s <= clock /\ clock <= u
    <2>1. granted'[j][s] = a /\ granted'[j][u + 1] = b + p /\ extra'[j][s] = d /\ extra'[j][u + 1] = e + q
      BY <1>1, <1>4, <1>6
    <2>2. Unit * ((b + p) - a) = Unit * (b - a) + Unit * p
      BY <1>2, <1>3, BucketAssumption
    <2>3. (e + q) - d = (e - d) + q
      BY <1>2, <1>3
    <2>4. p = paid(j, k, n) /\ q = credit(j, k, t, w)
      BY Zenon DEF p, q
    <2> QED
      BY Zenon, <1>5, <1>6, <2>1, <2>2, <2>3, <2>4
  <1>7. CASE ~(s <= clock /\ clock <= u)
    <2>1. CASE s > clock
      <3>1. /\ granted'[j][s] = a + p /\ granted'[j][u + 1] = b + p
            /\ extra'[j][s] = d + q /\ extra'[j][u + 1] = e + q
        BY <1>1, <1>4, <2>1
      <3>2. (b + p) - (a + p) = b - a /\ (e + q) - (d + q) = e - d
        BY <1>2, <1>3
      <3> QED
        BY Zenon, <1>5, <1>7, <3>1, <3>2
    <2>2. CASE u < clock
      <3>1. granted'[j][s] = a /\ granted'[j][u + 1] = b /\ extra'[j][s] = d /\ extra'[j][u + 1] = e
        BY <1>1, <1>4, <2>2
      <3> QED
        BY Zenon, <1>5, <1>7, <3>1
    <2> QED
      BY <1>1, <1>7, <2>1, <2>2
  <1> QED
    BY Zenon, <1>6, <1>7

-----------------------------------------------------------------------------
(* The invariant                                                           *)

\* All buckets start untracked and nothing is granted.
LEMMA InitInv == Init => IInv
  <1> SUFFICES ASSUME Init PROVE IInv
    BY Zenon
  <1> USE BucketAssumption
  <1>1. TypeOK
    BY CapacityType DEF Init, TypeOK, Time, Stamps
  <1>2. StampOrder
    BY DEF Init, StampOrder
  <1>3. \A k \in Keys, u \in Stamps : granted[k][u] = 0 /\ extra[k][u] = 0
    BY Zenon DEF Init
  <1>4. \A k \in Keys, s, t \in Time : spent(k, s, t) = 0 /\ surcharge(k, s, t) = 0
    BY <1>3 DEF spent, surcharge, Time, Stamps
  <1>5. Quiet /\ Counts
    <2>1. clock + 1 \in Stamps
      BY <1>1 DEF TypeOK, Time, Stamps
    <2> QED
      BY <1>3, <2>1 DEF Quiet, Counts
  <1>6. Accounts
    <2>1. clock \in Time /\ \A s \in 0..clock : s \in Time
      BY <1>1 DEF TypeOK, Time
    <2> QED
      BY Zenon, <1>4, <2>1 DEF Accounts
  <1>7. RateConforms
    <2>1. ASSUME NEW s \in Time, NEW t \in Time, s <= t PROVE 0 <= allowance(s, t) + 0
      <3>1. Rate * (t - s) \in Nat
        BY <2>1 DEF Time
      <3> QED
        BY <3>1, CapacityType DEF allowance
    <2> QED
      BY Zenon, <1>4, <2>1 DEF RateConforms
  <1> QED
    BY Zenon, <1>1, <1>2, <1>5, <1>6, <1>7 DEF IInv

\* What the steps outside of calls leave alone.
LEMMA Frame ==
  ASSUME [Next]_vars, \A c \in Callers : ~Allow(c)
  PROVE  UNCHANGED <<entries, lastCleanup, granted, extra>>
  BY Zenon DEF Next, Tick, ReadClock, Idle, vars, ghosts

\* A call writes an entry to the map, if any.
LEMMA EntriesStep ==
  ASSUME TypeOK, NEW k \in Keys, NEW t \in Time, NEW n, NEW x \in Nat,
         x <= Capacity, Served(k, t, n, x)
  PROVE  /\ entries' \in [Keys -> Entry \cup {NoEntry}]
         /\ entries'[k] # NoEntry /\ entries'[k].last = t /\ entries'[k].tokens = x
         /\ \A j \in Keys \ {k} : entries'[j] = settled(k, t)[j]
  <1>1. settled(k, t) \in [Keys -> Entry \cup {NoEntry}]
    BY Zenon, SettledType
  <1> DEFINE e == [last |-> t, tokens |-> x]
  <1>2. e \in Entry /\ e.last = t /\ e.tokens = x
    BY BucketAssumption DEF Entry, Time
  <1>3. entries' = [settled(k, t) EXCEPT ![k] = e]
    BY Zenon DEF Served
  <1> HIDE DEF e
  <1>4. entries'[k] = e /\ \A j \in Keys \ {k} : entries'[j] = settled(k, t)[j]
    BY Zenon, <1>1, <1>3
  <1>5. entries' \in [Keys -> Entry \cup {NoEntry}]
    BY Zenon, <1>1, <1>2, <1>3
  <1>6. e # NoEntry
    BY Zenon, <1>2, NoEntryAssumption
  <1> QED
    BY Zenon, <1>2, <1>4, <1>5, <1>6

\* Every step keeps the limiter's variables in their types, and no stamp is ever
\* ahead of the clock.
LEMMA TypeStep ==
  ASSUME TypeOK, StampOrder, [Next]_vars
  PROVE  TypeOK' /\ StampOrder'
  <1> USE BucketAssumption
  <1>1. CASE Tick
    <2>1. TypeOK'
      BY <1>1 DEF Tick, ghosts, TypeOK, Time
    <2>2. \A k \in Keys : entries[k] # NoEntry => entries[k].last \in Nat
      BY Zenon DEF TypeOK, Entry
    <2>3. \A a \in Nat : a <= clock => a <= clock + 1
      BY DEF TypeOK, Time
    <2>4. \A c \in Callers : now[c] \in Nat
      BY DEF TypeOK, Time
    <2>5. StampOrder'
      BY Zenon, <1>1, <2>2, <2>3, <2>4 DEF Tick, StampOrder
    <2> QED
      BY Zenon, <2>1, <2>5
  <1>2. ASSUME NEW c \in Callers, NEW k \in Keys, ReadClock(c, k) PROVE TypeOK' /\ StampOrder'
    <2>1. TypeOK'
      BY Zenon, <1>2 DEF ReadClock, ghosts, TypeOK
    <2>2. clock <= clock
      BY DEF TypeOK, Time
    <2>3. \A b \in Callers : now'[b] = now[b] \/ now'[b] = clock
      BY Zenon, <1>2 DEF ReadClock, TypeOK
    <2>4. StampOrder'
      BY Zenon, <1>2, <2>2, <2>3 DEF ReadClock, StampOrder
    <2> QED
      BY Zenon, <2>1, <2>4
  <1>3. ASSUME NEW c \in Callers, Allow(c) PROVE TypeOK' /\ StampOrder'
    <2>1. PICK k \in Keys, t \in Time :
            /\ k = asked[c] /\ t = now[c] /\ t <= clock /\ clock' = clock
            /\ \/ entries' = settled(k, t) /\ Account(k, t, 0, 0)
               \/ \E n \in {0, 1}, x \in Nat :
                     x <= Capacity /\ Unit * n + x = available(k, t) /\ Served(k, t, n, x)
      BY Zenon, <1>3, CallCases
    <2>2. /\ settled(k, t) \in [Keys -> Entry \cup {NoEntry}]
          /\ \A j \in Keys : settled(k, t)[j] # NoEntry => settled(k, t)[j] = entries[j]
      BY Zenon, SettledType
    <2>3. /\ now' \in [Callers -> Time] /\ asked' \in [Callers -> Keys \cup {NoEntry}]
          /\ \A b \in Callers : now'[b] = now[b] \/ now'[b] = 0
      <3>1. 0 \in Time
        BY DEF Time
      <3>2. /\ now' = [now EXCEPT ![c] = 0]
            /\ asked' = [asked EXCEPT ![c] = NoEntry]
        BY Zenon, <1>3 DEF Allow, Refuse, Admit, Deny, return
      <3> QED
        BY Zenon, <3>1, <3>2 DEF TypeOK
    <2>4. lastCleanup' \in Time
      BY Zenon, <1>3, <2>1 DEF Allow, Refuse, Admit, Deny, cleaned, TypeOK
    <2>5. 0 <= clock /\ clock - t \in Nat
      BY <2>1 DEF TypeOK, Time
    <2>6. ASSUME NEW n \in Nat, NEW w \in Nat, Account(k, t, n, w)
          PROVE  granted' \in [Keys -> [Stamps -> Nat]] /\ extra' \in [Keys -> [Stamps -> Nat]]
      <3>1. \A j \in Keys : granted'[j] \in [Stamps -> Nat] /\ extra'[j] \in [Stamps -> Nat]
        BY Zenon, <2>6, AccountCounts
      <3>2. granted' = [j \in Keys |-> granted'[j]] /\ extra' = [j \in Keys |-> extra'[j]]
        BY Zenon, <2>6 DEF Account, TypeOK
      <3> QED
        BY Zenon, <3>1, <3>2
    <2>7. CASE entries' = settled(k, t) /\ Account(k, t, 0, 0)
      <3>1. TypeOK'
        BY Zenon, <2>1, <2>2, <2>3, <2>4, <2>6, <2>7 DEF TypeOK
      <3>2. StampOrder'
        BY Zenon, <2>1, <2>2, <2>3, <2>5, <2>7 DEF StampOrder
      <3> QED
        BY Zenon, <3>1, <3>2
    <2>8. ASSUME NEW n \in {0, 1}, NEW x \in Nat, x <= Capacity, Served(k, t, n, x)
          PROVE  TypeOK' /\ StampOrder'
      <3>1. /\ entries' \in [Keys -> Entry \cup {NoEntry}]
            /\ entries'[k] # NoEntry /\ entries'[k].last = t /\ entries'[k].tokens = x
            /\ \A j \in Keys \ {k} : entries'[j] = settled(k, t)[j]
        BY <2>8, EntriesStep
      <3>2. \A j \in Keys : entries'[j] # NoEntry =>
               \/ entries'[j].last = t /\ entries'[j].tokens = x
               \/ entries'[j] = entries[j]
        BY Zenon, <2>2, <3>1
      <3>3. granted' \in [Keys -> [Stamps -> Nat]] /\ extra' \in [Keys -> [Stamps -> Nat]]
        <4>1. n \in Nat
          BY DEF TypeOK
        <4> QED
          BY Zenon, <2>5, <2>6, <2>8, <4>1 DEF Served
      <3>4. TypeOK'
        BY Zenon, <2>1, <2>3, <2>4, <2>8, <3>1, <3>2, <3>3 DEF TypeOK
      <3>5. StampOrder'
        BY Zenon, <2>1, <2>3, <2>5, <3>2 DEF StampOrder
      <3> QED
        BY Zenon, <3>4, <3>5
    <2> QED
      BY Zenon, <2>1, <2>7, <2>8
  <1>4. CASE UNCHANGED vars
    BY Zenon, <1>4 DEF vars, TypeOK, StampOrder
  <1> QED
    BY Zenon, <1>1, <1>2, <1>3, <1>4 DEF Next, Idle

\* Every step keeps the counts in order and the future empty.
LEMMA CountsStep ==
  ASSUME TypeOK, StampOrder, Quiet, Counts, [Next]_vars
  PROVE  Quiet' /\ Counts'
  <1> USE BucketAssumption
  <1>1. CASE UNCHANGED <<granted, extra>>
    <2>1. Counts'
      BY Zenon, <1>1 DEF Counts
    <2>2. clock' = clock \/ (clock' = clock + 1 /\ clock < MaxClock)
      <3>1. \A c \in Callers : Allow(c) => clock' = clock
        BY Zenon DEF Allow, Refuse, Admit, Deny, return
      <3> QED
        BY Zenon, <3>1 DEF Next, Tick, ReadClock, Idle, vars
    <2>3. CASE clock' = clock
      BY Zenon, <1>1, <2>1, <2>3 DEF Quiet
    <2>4. CASE clock' = clock + 1 /\ clock < MaxClock
      <3>1. /\ clock' + 1 \in Stamps /\ clock' + 1 > clock
            /\ \A u \in Stamps : u > clock' => u > clock
        BY <2>4 DEF TypeOK, Time, Stamps
      <3> QED
        BY Zenon, <1>1, <2>1, <3>1 DEF Quiet
    <2> QED
      BY Zenon, <2>1, <2>2, <2>3, <2>4
  <1>2. ASSUME NEW k \in Keys, NEW t \in Time, NEW n \in Nat, NEW w \in Nat,
               Account(k, t, n, w), clock' = clock
        PROVE  Quiet' /\ Counts'
    <2> SUFFICES ASSUME NEW j \in Keys
                 PROVE  /\ \A u \in Stamps : u > clock =>
                             granted'[j][u] = granted'[j][clock + 1] /\ extra'[j][u] = extra'[j][clock + 1]
                        /\ \A u, v \in Stamps : u <= v =>
                             granted'[j][u] <= granted'[j][v] /\ extra'[j][u] <= extra'[j][v]
      BY Zenon, <1>2 DEF Quiet, Counts
    <2>1. PICK p \in Nat, q \in Nat : \A u \in Stamps :
             /\ granted'[j][u] = IF u > clock THEN granted[j][u] + p ELSE granted[j][u]
             /\ extra'[j][u] = IF u > clock THEN extra[j][u] + q ELSE extra[j][u]
      <3>1. /\ paid(j, k, n) \in Nat /\ credit(j, k, t, w) \in Nat
            /\ Grown(j, paid(j, k, n), credit(j, k, t, w))
        BY Zenon, <1>2, AccountCounts
      <3> QED
        BY Zenon, <3>1 DEF Grown
    <2>2. clock \in Nat /\ clock + 1 \in Stamps /\ clock + 1 > clock
      BY DEF TypeOK, Time, Stamps
    <2>3. ASSUME NEW u \in Stamps, u > clock
          PROVE  granted'[j][u] = granted'[j][clock + 1] /\ extra'[j][u] = extra'[j][clock + 1]
      BY Zenon, <2>1, <2>2, <2>3 DEF Quiet
    <2>4. ASSUME NEW u \in Stamps, NEW v \in Stamps, u <= v
          PROVE  granted'[j][u] <= granted'[j][v] /\ extra'[j][u] <= extra'[j][v]
      <3>1. /\ granted[j][u] \in Nat /\ granted[j][v] \in Nat /\ granted[j][u] <= granted[j][v]
            /\ extra[j][u] \in Nat /\ extra[j][v] \in Nat /\ extra[j][u] <= extra[j][v]
        BY Zenon, <2>4 DEF Counts, TypeOK
      <3>2. u > clock => v > clock
        BY <2>2, <2>4 DEF Stamps
      <3> QED
        BY <2>1, <3>1, <3>2
    <2> QED
      BY Zenon, <2>3, <2>4
  <1>3. ASSUME NEW c \in Callers, Allow(c) PROVE Quiet' /\ Counts'
    <2>1. PICK k \in Keys, t \in Time :
            /\ k = asked[c] /\ t = now[c] /\ t <= clock /\ clock' = clock
            /\ \/ entries' = settled(k, t) /\ Account(k, t, 0, 0)
               \/ \E n \in {0, 1}, x \in Nat :
                     x <= Capacity /\ Unit * n + x = available(k, t) /\ Served(k, t, n, x)
      BY Zenon, <1>3, CallCases
    <2>2. clock - t \in Nat /\ 0 \in Nat /\ 1 \in Nat
      BY <2>1 DEF TypeOK, Time
    <2> QED
      BY Zenon, <1>2, <2>1, <2>2 DEF Served
  <1> QED
    BY Zenon, <1>1, <1>3, Frame

-----------------------------------------------------------------------------
(* The rate                                                                *)

\* The terms of the balances, as numbers.
LEMMA Terms ==
  ASSUME TypeOK, StampOrder, Counts, NEW k \in Keys, NEW s \in 0..clock
  PROVE  /\ clock \in Time /\ clock \in Nat /\ s \in Time /\ s \in Nat /\ s <= clock
         /\ spent(k, s, clock) \in Int /\ surcharge(k, s, clock) \in Nat
         /\ entries[k] # NoEntry => /\ entries[k].last \in Time /\ entries[k].last \in Nat
                                    /\ entries[k].last <= clock /\ entries[k].tokens \in Nat
  <1>1. clock \in Time /\ clock \in Nat /\ s \in Time /\ s \in Nat /\ s <= clock /\ s <= clock + 1 /\ s <= s
    BY BucketAssumption DEF TypeOK, Time
  <1>2. spent(k, s, clock) \in Int /\ surcharge(k, s, clock) \in Int /\ 0 <= surcharge(k, s, clock)
    BY Zenon, <1>1, SpentType, SpentMono
  <1>3. entries[k] # NoEntry =>
          /\ entries[k].last \in Nat /\ entries[k].last <= clock /\ entries[k].tokens \in Nat
    BY Zenon DEF TypeOK, Entry, StampOrder
  <1>4. entries[k] # NoEntry => entries[k].last \in Time
    BY <1>1, <1>3, BucketAssumption DEF Time
  <1>5. surcharge(k, s, clock) \in Nat
    BY <1>2
  <1> QED
    BY Zenon, <1>1, <1>2, <1>3, <1>4, <1>5

\* An entry that is stale at t lacks at most Shortfall.
LEMMA ForgottenBalance ==
  ASSUME TypeOK, StampOrder, Counts, NEW k \in Keys, NEW s \in 0..clock, NEW t \in Time, t <= clock,
         entries[k] # NoEntry, Balance(k, s), entries[k].last <= t - CleanupInterval
  PROVE  spent(k, s, clock) <= Rate * (clock - s) + surcharge(k, s, clock) + Shortfall
  <1> DEFINE l == entries[k].last
             x == entries[k].tokens
             a == spent(k, s, clock)
             e == surcharge(k, s, clock)
  <1>1. clock \in Nat /\ s \in Nat /\ l \in Nat /\ x \in Nat /\ a \in Int /\ e \in Nat
    BY Zenon, Terms
  <1>2. a + x <= allowance(s, l) + e
    BY Zenon DEF Balance
  <1>3. l <= clock - CleanupInterval /\ CleanupInterval \in Nat /\ t \in Nat
    BY <1>1, BucketAssumption DEF Time
  <1> HIDE DEF l, x, a, e
  <1>4. /\ Rate * (l - s) \in Int /\ Rate * (clock - l) \in Int /\ Rate * (clock - s) \in Int
        /\ Rate * (l - s) + Rate * (clock - l) = Rate * (clock - s)
    <2>1. l \in Int /\ s \in Int /\ clock \in Int
      BY <1>1
    <2> QED
      BY Zenon, <2>1, RateSplit
  <1>5. Rate * CleanupInterval \in Int /\ Rate * CleanupInterval <= Rate * (clock - l)
    <2>1. CleanupInterval \in Int /\ clock - l \in Int /\ CleanupInterval <= clock - l
      BY <1>1, <1>3
    <2> QED
      BY Zenon, <2>1, RateMono
  <1>6. a <= Rate * (clock - s) + e + Shortfall
    BY <1>1, <1>2, <1>4, <1>5, CapacityType, ShortfallType DEF allowance
  <1> QED
    BY Zenon, <1>6 DEF a, e

\* A step adds p requests and the credit q to the window of j from s to now.
Charged(j, s, p, q) ==
    /\ spent(j, s, clock)' = spent(j, s, clock) + Unit * p
    /\ surcharge(j, s, clock)' = surcharge(j, s, clock) + q

\* What a call adds to the windows that end now.
LEMMA CallNow ==
  ASSUME TypeOK, StampOrder, Counts, NEW k \in Keys, NEW t \in Time, NEW n \in Nat, NEW w \in Nat,
         Account(k, t, n, w), clock' = clock, NEW j \in Keys, NEW s \in 0..clock
  PROVE  /\ Charged(j, s, paid(j, k, n), credit(j, k, t, w))
         /\ paid(j, k, n) \in Nat /\ credit(j, k, t, w) \in Nat
  <1>1. clock \in Time /\ clock \in Nat /\ s \in Time /\ s <= clock
    BY Zenon, Terms
  <1>2. PICK u \in Time : u = clock /\ s <= u /\ clock <= u
    BY <1>1
  <1>3. /\ spent(j, s, u)' = spent(j, s, u) + Unit * paid(j, k, n)
        /\ surcharge(j, s, u)' = surcharge(j, s, u) + credit(j, k, t, w)
    <2>1. s <= clock /\ clock <= u =>
            /\ spent(j, s, u)' = spent(j, s, u) + Unit * paid(j, k, n)
            /\ surcharge(j, s, u)' = surcharge(j, s, u) + credit(j, k, t, w)
      BY <1>1, <1>2, CallSpent
    <2> QED
      BY Zenon, <1>1, <1>2, <2>1
  <1>4. spent(j, s, clock)' = spent(j, s, u)' /\ surcharge(j, s, clock)' = surcharge(j, s, u)'
    BY Zenon, <1>2 DEF spent, surcharge
  <1>5. paid(j, k, n) \in Nat /\ credit(j, k, t, w) \in Nat
    BY Zenon, AccountCounts
  <1> QED
    BY Zenon, <1>2, <1>3, <1>4, <1>5 DEF Charged

\* A key whose entry a call leaves alone or forgets keeps its balance.
LEMMA OtherAccount ==
  ASSUME IInv, NEW k \in Keys, NEW t \in Time, t <= clock, NEW n \in Nat, NEW w \in Nat,
         Account(k, t, n, w), clock' = clock,
         NEW j \in Keys, paid(j, k, n) = 0, entries'[j] = settled(k, t)[j],
         NEW s \in 0..clock
  PROVE  spent(j, s, clock)' = 0 \/ Balance(j, s)'
  <1> DEFINE a == spent(j, s, clock)
             e == surcharge(j, s, clock)
             q == credit(j, k, t, w)
             a1 == spent(j, s, clock)'
             e1 == surcharge(j, s, clock)'
  <1>0. TypeOK /\ StampOrder /\ Counts /\ Accounts
    BY Zenon DEF IInv
  <1>1. clock \in Nat /\ s \in Nat /\ s <= clock /\ a \in Int /\ e \in Nat
    BY Zenon, <1>0, Terms
  <1>2. a1 = a + Unit * 0 /\ e1 = e + q /\ q \in Nat
    <2>1. Charged(j, s, paid(j, k, n), q) /\ q \in Nat
      BY Zenon, <1>0, CallNow
    <2> QED
      BY Zenon, <2>1 DEF Charged
  <1>3. a1 = a
    BY <1>1, <1>2, BucketAssumption
  <1>4. CASE a = 0
    BY Zenon, <1>3, <1>4
  <1>5. CASE Balance(j, s)
    <2>1. CASE entries'[j] # NoEntry
      <3>1. entries'[j] = entries[j] /\ entries[j] # NoEntry
        BY Zenon, <1>0, <2>1, SettledType
      <3> DEFINE l == entries[j].last
                 x == entries[j].tokens
      <3>2. a + x <= allowance(s, l) + e
        BY Zenon, <1>5, <3>1 DEF Balance
      <3>3. l \in Nat /\ x \in Nat
        BY Zenon, <1>0, <3>1, Terms
      <3>4. allowance(s, l) \in Int
        <4>1. Rate * (l - s) \in Int
          BY <1>1, <3>3, BucketAssumption
        <4> QED
          BY <4>1, CapacityType DEF allowance
      <3> HIDE DEF l, x, a, e, q, a1, e1
      <3>5. a1 + x <= allowance(s, l) + e1
        BY <1>1, <1>2, <1>3, <3>2, <3>3, <3>4
      <3>6. allowance(s, l)' = allowance(s, l)
        BY Zenon, <3>1 DEF allowance, l
      <3>7. entries'[j].last = l /\ entries'[j].tokens = x
        BY Zenon, <3>1 DEF l, x
      <3>8. a1 + entries'[j].tokens <= allowance(s, entries'[j].last) + e1
        BY Zenon, <3>5, <3>7
      <3> QED
        BY Zenon, <2>1, <3>8 DEF Balance, allowance, a1, e1
    <2>2. ASSUME entries'[j] = NoEntry, a <= Rate * (clock - s) + e1
          PROVE  Balance(j, s)'
      BY Zenon, <1>3, <2>2 DEF Balance
    <2>3. Rate * (clock - s) \in Int
      BY <1>1, BucketAssumption
    <2>4. CASE entries'[j] = NoEntry /\ entries[j] = NoEntry
      <3>1. a <= Rate * (clock - s) + e
        BY Zenon, <1>5, <2>4 DEF Balance
      <3> HIDE DEF a, e, q, a1, e1
      <3>2. a <= Rate * (clock - s) + e1
        BY <1>1, <1>2, <2>3, <3>1
      <3> QED
        BY Zenon, <2>2, <2>4, <3>2
    <2>5. CASE entries'[j] = NoEntry /\ entries[j] # NoEntry
      <3>1. entries[j].last <= t - CleanupInterval
        BY Zenon, <1>0, <2>5, SettledShape
      <3>2. a <= Rate * (clock - s) + e + Shortfall
        BY Zenon, <1>0, <1>5, <2>5, <3>1, ForgottenBalance
      <3>3. j \in forgets(k, t)
        BY Zenon, <2>5 DEF forgets, tracked
      <3>4. q >= Shortfall
        <4>1. Rate * w \in Nat
          BY BucketAssumption
        <4> QED
          BY <3>3, <4>1, ShortfallType DEF credit
      <3> HIDE DEF a, e, q, a1, e1
      <3>5. a <= Rate * (clock - s) + e1
        BY <1>1, <1>2, <2>3, <3>2, <3>4, ShortfallType
      <3> QED
        BY Zenon, <2>2, <2>5, <3>5
    <2> QED
      BY Zenon, <2>1, <2>4, <2>5
  <1>6. a = 0 \/ Balance(j, s)
    BY Zenon, <1>0 DEF Accounts
  <1> QED
    BY Zenon, <1>4, <1>5, <1>6

\* What a call finds is covered by what its key is allowed up to its stamp, the
\* call's own wait and the forgetting of the key included.
LEMMA AvailableAccount ==
  ASSUME IInv, NEW k \in Keys, NEW t \in Time, t <= clock, NEW s \in 0..clock
  PROVE  spent(k, s, clock) + available(k, t)
           <= allowance(s, t) + surcharge(k, s, clock) + credit(k, k, t, clock - t)
  <1> DEFINE a == spent(k, s, clock)
             e == surcharge(k, s, clock)
             y == available(k, t)
             q == credit(k, k, t, clock - t)
             f == IF k \in forgets(k, t) THEN Shortfall ELSE 0
  <1>0. TypeOK /\ StampOrder /\ Counts /\ Accounts
    BY Zenon DEF IInv
  <1>1. clock \in Nat /\ s \in Nat /\ s <= clock /\ a \in Int /\ e \in Nat /\ t \in Nat
    <2>1. t \in Nat
      BY BucketAssumption DEF Time
    <2> QED
      BY Zenon, <1>0, <2>1, Terms
  <1>2. y \in 0..Capacity
    BY Zenon, <1>0, AvailableType
  <1>3. q = Rate * (clock - t) + f
    BY Zenon DEF credit
  <1>4. f \in Nat
    BY ShortfallType
  <1>5. /\ Rate * (t - s) \in Int /\ Rate * (clock - t) \in Int /\ Rate * (clock - s) \in Int
        /\ Rate * (t - s) + Rate * (clock - t) = Rate * (clock - s)
    <2>1. t \in Int /\ s \in Int /\ clock \in Int
      BY <1>1
    <2> QED
      BY Zenon, <2>1, RateSplit
  <1>6. SUFFICES a + y <= Capacity + Rate * (clock - s) + e + f \/ a + y <= Capacity + Rate * (t - s) + e
    <2> HIDE DEF a, e, y, q, f
    <2>1. 0 <= Rate * (clock - t)
      BY <1>1, BucketAssumption
    <2>2. a + y <= allowance(s, t) + e + q
      BY <1>1, <1>2, <1>3, <1>4, <1>5, <1>6, <2>1, CapacityType DEF allowance
    <2> QED
      BY Zenon, <2>2 DEF a, e, y, q
  <1>7. CASE a = 0
    <2> HIDE DEF a, e, y, q, f
    <2>1. 0 <= Rate * (clock - s)
      BY <1>1, BucketAssumption
    <2> QED
      BY <1>1, <1>2, <1>4, <1>5, <1>7, <2>1, CapacityType
  <1>8. CASE Balance(k, s) /\ entries[k] = NoEntry
    <2>1. a <= Rate * (clock - s) + e
      BY Zenon, <1>8 DEF Balance
    <2> HIDE DEF a, e, y, q, f
    <2> QED
      BY <1>1, <1>2, <1>4, <1>5, <2>1, CapacityType
  <1>9. CASE Balance(k, s) /\ entries[k] # NoEntry /\ swept(t)[k] # NoEntry
    <2> DEFINE l == entries[k].last
               x == entries[k].tokens
    <2>1. swept(t)[k] = entries[k]
      BY Zenon, <1>0, <1>9, SettledType
    <2>2. a + x <= allowance(s, l) + e
      BY Zenon, <1>9 DEF Balance
    <2>3. l \in Nat /\ x \in Nat /\ l <= clock
      BY Zenon, <1>0, <1>9, Terms
    <2>4. y = IF t > l THEN AtMost(Capacity, x + Rate * (t - l)) ELSE x
      BY Zenon, <1>9, <2>1 DEF available
    <2> HIDE DEF a, e, y, q, f, l, x
    <2>5. /\ Rate * (l - s) \in Int /\ Rate * (t - l) \in Int
          /\ Rate * (l - s) + Rate * (t - l) = Rate * (t - s)
      <3>1. l \in Int /\ s \in Int /\ t \in Int
        BY <1>1, <2>3
      <3> QED
        BY Zenon, <3>1, RateSplit
    <2>6. CASE t > l
      <3>1. y <= x + Rate * (t - l)
        BY <2>3, <2>4, <2>5, <2>6, CapacityType DEF AtMost
      <3> QED
        BY <1>1, <1>2, <1>5, <2>2, <2>3, <2>5, <3>1, CapacityType DEF allowance
    <2>7. CASE ~(t > l)
      <3>1. Rate * (l - s) <= Rate * (clock - s)
        <4>1. l - s \in Int /\ clock - s \in Int /\ l - s <= clock - s
          BY <1>1, <2>3
        <4> QED
          BY Zenon, <4>1, RateMono
      <3>2. y = x
        BY Zenon, <2>4, <2>7
      <3> QED
        BY <1>1, <1>4, <1>5, <2>2, <2>3, <2>5, <3>1, <3>2, CapacityType DEF allowance
    <2> QED
      BY Zenon, <2>6, <2>7
  <1>10. CASE Balance(k, s) /\ entries[k] # NoEntry /\ swept(t)[k] = NoEntry
    <2>1. entries[k].last <= t - CleanupInterval
      BY Zenon, <1>0, <1>10, SettledShape
    <2>2. a <= Rate * (clock - s) + e + Shortfall
      BY Zenon, <1>0, <1>10, <2>1, ForgottenBalance
    <2>3. settled(k, t)[k] = NoEntry
      BY Zenon, <1>10 DEF settled, cleanup
    <2>4. f = Shortfall
      BY Zenon, <1>10, <2>3 DEF forgets, tracked
    <2> HIDE DEF a, e, y, q, f
    <2> QED
      BY <1>1, <1>2, <1>5, <2>2, <2>4, CapacityType, ShortfallType
  <1>11. a = 0 \/ Balance(k, s)
    BY Zenon, <1>0 DEF Accounts
  <1> QED
    BY Zenon, <1>7, <1>8, <1>9, <1>10, <1>11

\* Time that passes between calls leaves every account covered.
LEMMA TickAccounts ==
  ASSUME IInv, UNCHANGED <<entries, granted, extra>>,
         clock' = clock \/ (clock' = clock + 1 /\ clock < MaxClock)
  PROVE  Accounts'
  <1> USE BucketAssumption
  <1>0. TypeOK /\ StampOrder /\ Counts /\ Quiet /\ Accounts
    BY Zenon DEF IInv
  <1>1. CASE clock' = clock
    BY Zenon, <1>0, <1>1 DEF Accounts, Balance, spent, surcharge, allowance
  <1>2. CASE clock' = clock + 1 /\ clock < MaxClock
    <2> SUFFICES ASSUME NEW k \in Keys, NEW s \in 0..(clock + 1)
                 PROVE  spent(k, s, clock)' = 0 \/ Balance(k, s)'
      BY Zenon, <1>2 DEF Accounts
    <2>1. /\ clock \in Nat /\ clock + 1 \in Stamps /\ clock' + 1 \in Stamps /\ clock' + 1 > clock
          /\ s \in Nat /\ s \in Stamps
      BY <1>0, <1>2 DEF TypeOK, Time, Stamps
    <2>2. granted[k][clock' + 1] = granted[k][clock + 1] /\ extra[k][clock' + 1] = extra[k][clock + 1]
      BY Zenon, <1>0, <2>1 DEF Quiet
    <2>3. /\ spent(k, s, clock)' = spent(k, s, clock)
          /\ surcharge(k, s, clock)' = surcharge(k, s, clock)
      BY Zenon, <2>2 DEF spent, surcharge
    <2>4. CASE s = clock + 1
      <3>1. granted[k][clock + 1] \in Nat
        BY Zenon, <1>0, <2>1 DEF TypeOK
      <3>2. spent(k, s, clock) = 0
        BY <2>4, <3>1 DEF spent
      <3> QED
        BY Zenon, <2>3, <3>2
    <2>5. CASE s # clock + 1
      <3>1. s \in 0..clock
        BY <2>1, <2>5
      <3>2. CASE spent(k, s, clock) = 0
        BY Zenon, <2>3, <3>2
      <3>3. CASE Balance(k, s) /\ entries[k] # NoEntry
        BY Zenon, <2>3, <3>3 DEF Balance, allowance
      <3>4. CASE Balance(k, s) /\ entries[k] = NoEntry
        <4>1. spent(k, s, clock) <= Rate * (clock - s) + surcharge(k, s, clock)
          BY Zenon, <3>4 DEF Balance
        <4>2. spent(k, s, clock) \in Int /\ surcharge(k, s, clock) \in Nat
          BY Zenon, <1>0, <3>1, Terms
        <4>3. clock - s \in Int /\ clock' - s \in Int /\ clock - s <= clock' - s
          BY <1>2, <2>1
        <4>4. /\ Rate * (clock - s) <= Rate * (clock' - s)
              /\ Rate * (clock - s) \in Int /\ Rate * (clock' - s) \in Int
          BY Zenon, <4>3, RateMono
        <4>5. spent(k, s, clock) <= Rate * (clock' - s) + surcharge(k, s, clock)
          BY <4>1, <4>2, <4>4
        <4> QED
          BY Zenon, <2>3, <3>4, <4>5 DEF Balance
      <3> QED
        BY Zenon, <1>0, <3>1, <3>2, <3>3, <3>4 DEF Accounts
    <2> QED
      BY Zenon, <2>4, <2>5
  <1> QED
    BY Zenon, <1>1, <1>2

\* The key of a call that finds a place is covered by what it is left with.
LEMMA OwnAccount ==
  ASSUME IInv, NEW k \in Keys, NEW t \in Time, t <= clock, clock' = clock,
         NEW n \in {0, 1}, NEW x \in Nat, x <= Capacity, Unit * n + x = available(k, t),
         Served(k, t, n, x), NEW s \in 0..clock
  PROVE  Balance(k, s)'
  <1> DEFINE a == spent(k, s, clock)
             e == surcharge(k, s, clock)
             q == credit(k, k, t, clock - t)
             a1 == spent(k, s, clock)'
             e1 == surcharge(k, s, clock)'
  <1>0. TypeOK /\ StampOrder /\ Counts
    BY Zenon DEF IInv
  <1>1. clock \in Nat /\ s \in Nat /\ a \in Int /\ e \in Nat
    BY Zenon, <1>0, Terms
  <1>2. clock - t \in Nat /\ n \in Nat /\ t \in Nat
    BY <1>1, BucketAssumption DEF Time
  <1>3. a1 = a + Unit * n /\ e1 = e + q /\ q \in Nat
    <2>1. Account(k, t, n, clock - t)
      BY Zenon DEF Served
    <2>2. Charged(k, s, paid(k, k, n), q) /\ q \in Nat
      BY Zenon, <1>0, <1>2, <2>1, CallNow
    <2>3. paid(k, k, n) = n
      BY Zenon DEF paid
    <2> QED
      BY Zenon, <2>2, <2>3 DEF Charged
  <1>4. a + available(k, t) <= allowance(s, t) + e + q
    BY Zenon, AvailableAccount
  <1>5. Unit * n \in Nat /\ Rate * (t - s) \in Int
    BY <1>1, <1>2, BucketAssumption
  <1>6. entries'[k] # NoEntry /\ entries'[k].last = t /\ entries'[k].tokens = x
    BY <1>0, EntriesStep
  <1> HIDE DEF a, e, q, a1, e1
  <1>7. a1 + x <= allowance(s, t) + e1
    BY <1>1, <1>3, <1>4, <1>5, CapacityType DEF allowance
  <1>8. a1 + entries'[k].tokens <= allowance(s, entries'[k].last) + e1
    BY Zenon, <1>6, <1>7
  <1> QED
    BY Zenon, <1>6, <1>8 DEF Balance, allowance, a1, e1

\* Every step keeps the accounts of tracked and of forgotten keys.
LEMMA AccountsStep ==
  ASSUME IInv, [Next]_vars
  PROVE  Accounts'
  <1>0. TypeOK /\ StampOrder
    BY Zenon DEF IInv
  <1>1. ASSUME \A c \in Callers : ~Allow(c) PROVE Accounts'
    <2>1. clock' = clock \/ (clock' = clock + 1 /\ clock < MaxClock)
      BY Zenon, <1>1 DEF Next, Tick, ReadClock, Idle, vars
    <2> QED
      BY Zenon, <1>1, <2>1, Frame, TickAccounts
  <1>2. ASSUME NEW c \in Callers, Allow(c) PROVE Accounts'
    <2>1. PICK k \in Keys, t \in Time :
            /\ k = asked[c] /\ t = now[c] /\ t <= clock /\ clock' = clock
            /\ \/ entries' = settled(k, t) /\ Account(k, t, 0, 0)
               \/ \E n \in {0, 1}, x \in Nat :
                     x <= Capacity /\ Unit * n + x = available(k, t) /\ Served(k, t, n, x)
      BY Zenon, <1>0, <1>2, CallCases
    <2> SUFFICES ASSUME NEW j \in Keys, NEW s \in 0..clock
                 PROVE  spent(j, s, clock)' = 0 \/ Balance(j, s)'
      BY Zenon, <2>1 DEF Accounts
    <2>2. CASE entries' = settled(k, t) /\ Account(k, t, 0, 0)
      <3>1. paid(j, k, 0) = 0 /\ 0 \in Nat
        BY DEF paid
      <3> QED
        BY Zenon, <2>1, <2>2, <3>1, OtherAccount
    <2>3. ASSUME NEW n \in {0, 1}, NEW x \in Nat, x <= Capacity,
                 Unit * n + x = available(k, t), Served(k, t, n, x)
          PROVE  spent(j, s, clock)' = 0 \/ Balance(j, s)'
      <3>1. CASE j = k
        BY Zenon, <2>1, <2>3, <3>1, OwnAccount
      <3>2. CASE j # k
        <4>1. paid(j, k, n) = 0
          BY Zenon, <3>2 DEF paid
        <4>2. clock - t \in Nat /\ n \in Nat
          BY <1>0, <2>1, BucketAssumption DEF TypeOK, Time
        <4>3. entries'[j] = settled(k, t)[j]
          BY <1>0, <2>3, <3>2, EntriesStep
        <4>4. Account(k, t, n, clock - t)
          BY Zenon, <2>3 DEF Served
        <4> QED
          BY Zenon, <2>1, <4>1, <4>2, <4>3, <4>4, OtherAccount
      <3> QED
        BY Zenon, <3>1, <3>2
    <2> QED
      BY Zenon, <2>1, <2>2, <2>3
  <1> QED
    BY Zenon, <1>1, <1>2

\* The accounts keep every window that ends now, or later, within its allowance.
LEMMA WindowNow ==
  ASSUME TypeOK, StampOrder, Quiet, Counts, Accounts,
         NEW k \in Keys, NEW s \in Time, NEW u \in Time, s <= u, clock <= u
  PROVE  spent(k, s, u) <= allowance(s, u) + surcharge(k, s, u)
  <1> USE BucketAssumption
  <1>1. /\ clock \in Nat /\ s \in Nat /\ u \in Nat /\ s \in Stamps
        /\ u + 1 \in Stamps /\ u + 1 > clock /\ clock + 1 \in Stamps
    BY DEF TypeOK, Time, Stamps
  <1>2. granted[k][u + 1] = granted[k][clock + 1] /\ extra[k][u + 1] = extra[k][clock + 1]
    BY Zenon, <1>1 DEF Quiet
  <1>3. spent(k, s, u) = spent(k, s, clock) /\ surcharge(k, s, u) = surcharge(k, s, clock)
    BY Zenon, <1>2 DEF spent, surcharge
  <1>4. Rate * (u - s) \in Nat
    BY <1>1
  <1>5. s <= u + 1 /\ s <= s
    BY <1>1
  <1>6. /\ spent(k, s, u) \in Int /\ surcharge(k, s, u) \in Int /\ 0 <= surcharge(k, s, u)
    BY Zenon, <1>5, SpentType, SpentMono
  <1>7. CASE spent(k, s, u) = 0
    BY <1>4, <1>6, <1>7, CapacityType DEF allowance
  <1>8. CASE s > clock
    <2>1. granted[k][s] = granted[k][clock + 1] /\ granted[k][clock + 1] \in Nat
      BY Zenon, <1>1, <1>8 DEF Quiet, TypeOK
    <2>2. spent(k, s, u) = 0
      BY <1>2, <2>1 DEF spent
    <2> QED
      BY Zenon, <1>7, <2>2
  <1>9. CASE s \in 0..clock /\ Balance(k, s)
    <2>1. clock - s \in Int /\ u - s \in Int /\ clock - s <= u - s
      BY <1>1
    <2>2. /\ Rate * (clock - s) \in Int /\ Rate * (u - s) \in Int
          /\ Rate * (clock - s) <= Rate * (u - s)
      BY Zenon, <2>1, RateMono
    <2>3. CASE entries[k] = NoEntry
      <3>1. spent(k, s, clock) <= Rate * (clock - s) + surcharge(k, s, clock)
        BY Zenon, <1>9, <2>3 DEF Balance
      <3> QED
        BY <1>3, <1>6, <2>2, <3>1, CapacityType DEF allowance
    <2>4. CASE entries[k] # NoEntry
      <3> DEFINE l == entries[k].last
                 x == entries[k].tokens
      <3>1. spent(k, s, clock) + x <= allowance(s, l) + surcharge(k, s, clock)
        BY Zenon, <1>9, <2>4 DEF Balance
      <3>2. l \in Nat /\ x \in Nat /\ l <= clock
        BY Zenon, <1>9, <2>4, Terms
      <3> HIDE DEF l, x
      <3>3. l - s \in Int /\ l - s <= u - s
        BY <1>1, <3>2
      <3>4. Rate * (l - s) \in Int /\ Rate * (l - s) <= Rate * (u - s)
        BY Zenon, <2>1, <3>3, RateMono
      <3> QED
        BY <1>3, <1>6, <2>2, <3>1, <3>2, <3>4, CapacityType DEF allowance
    <2> QED
      BY Zenon, <2>3, <2>4
  <1>10. s > clock \/ s \in 0..clock
    BY <1>1
  <1>11. s \in 0..clock => spent(k, s, u) = 0 \/ Balance(k, s)
    BY Zenon, <1>3 DEF Accounts
  <1> QED
    BY Zenon, <1>7, <1>8, <1>9, <1>10, <1>11

\* The same, of all such windows.
WindowsNow ==
    \A k \in Keys, s, u \in Time :
        s <= u /\ clock <= u => spent(k, s, u) <= allowance(s, u) + surcharge(k, s, u)

\* The accounts keep them all within their allowances.
LEMMA AllWindowsNow ==
  TypeOK /\ StampOrder /\ Quiet /\ Counts /\ Accounts => WindowsNow
  BY Zenon, WindowNow DEF WindowsNow

\* A call changes only the windows that it is decided in.
LEMMA ConformsStep ==
  ASSUME IInv, TypeOK', StampOrder', Quiet', Counts', Accounts', [Next]_vars
  PROVE  RateConforms'
  <1>0. TypeOK /\ StampOrder /\ RateConforms
    BY Zenon DEF IInv
  <1>1. CASE UNCHANGED <<granted, extra>>
    BY Zenon, <1>0, <1>1 DEF RateConforms, spent, surcharge, allowance
  <1>3. WindowsNow'
    BY AllWindowsNow, PTL
  <1>2. ASSUME NEW c \in Callers, Allow(c) PROVE RateConforms'
    <2> SUFFICES ASSUME NEW k \in Keys, NEW s \in Time, NEW u \in Time, s <= u
                 PROVE  spent(k, s, u)' <= allowance(s, u) + surcharge(k, s, u)'
      BY Zenon DEF RateConforms, allowance
    <2>1. PICK j \in Keys, t \in Time :
            /\ j = asked[c] /\ t = now[c] /\ t <= clock /\ clock' = clock
            /\ \/ entries' = settled(j, t) /\ Account(j, t, 0, 0)
               \/ \E n \in {0, 1}, x \in Nat :
                     x <= Capacity /\ Unit * n + x = available(j, t) /\ Served(j, t, n, x)
      BY Zenon, <1>0, <1>2, CallCases
    <2>2. PICK n \in Nat, w \in Nat : Account(j, t, n, w)
      <3>1. clock - t \in Nat /\ 0 \in Nat /\ 1 \in Nat
        BY <1>0, <2>1, BucketAssumption DEF TypeOK, Time
      <3> QED
        BY Zenon, <2>1, <3>1 DEF Served
    <2>3. CASE clock <= u
      <3>1. clock' <= u
        BY Zenon, <2>1, <2>3
      <3> QED
        BY Zenon, <1>3, <3>1 DEF WindowsNow, allowance
    <2>4. CASE ~(clock <= u)
      <3>1. ~(s <= clock /\ clock <= u) =>
              spent(k, s, u)' = spent(k, s, u) /\ surcharge(k, s, u)' = surcharge(k, s, u)
        BY <1>0, <2>2, CallSpent
      <3> QED
        BY Zenon, <1>0, <2>4, <3>1 DEF RateConforms
    <2> QED
      BY Zenon, <2>3, <2>4
  <1> QED
    BY Zenon, <1>1, <1>2, Frame

-----------------------------------------------------------------------------

\* The limiter's maps keep their types and no bucket overflows, however many
\* receive loops call it.
THEOREM TypeCorrect == Spec => []TypeOK
  <1>1. Init => TypeOK /\ StampOrder
    BY Zenon, InitInv DEF IInv
  <1>2. TypeOK /\ StampOrder /\ [Next]_vars => (TypeOK /\ StampOrder)'
    BY Zenon, TypeStep
  <1> QED
    BY <1>1, <1>2, PTL DEF Spec

\* In every window of time a key is granted at most Burst plus Rate times the
\* window's length, and beyond that only what waiting calls and early cleanups
\* in it account for: however many receive loops call the limiter, and for every
\* rate, burst, cleanup interval, set of keys and number of entries.
THEOREM Conforms == Spec => []RateConforms
  <1>1. IInv /\ [Next]_vars => IInv'
    BY Zenon, TypeStep, CountsStep, AccountsStep, ConformsStep DEF IInv
  <1>2. IInv => RateConforms
    BY Zenon DEF IInv
  <1> QED
    BY <1>1, <1>2, InitInv, PTL DEF Spec

\* A call adds at most its own key to the maps, and only when there is room.
LEMMA BoundStep ==
  ASSUME IsFiniteSet(Keys), TypeOK, EntriesBounded, [Next]_vars
  PROVE  EntriesBounded'
  <1> USE BucketAssumption, NoEntryAssumption
  <1>1. \A es : /\ IsFiniteSet(tracked(es))
                /\ Cardinality(tracked(es)) \in Nat
    BY Zenon, FS_Subset, FS_CardinalityType DEF tracked
  <1>2. CASE UNCHANGED entries
    BY Zenon, <1>2 DEF EntriesBounded, tracked
  <1>3. ASSUME NEW k \in Keys, NEW t \in Time
        PROVE  /\ Cardinality(tracked(settled(k, t))) <= MaxEntries
               /\ Cardinality(tracked(swept(t))) <= MaxEntries
    <2>1. /\ tracked(settled(k, t)) \subseteq tracked(entries)
          /\ tracked(swept(t)) \subseteq tracked(entries)
      BY SettledType DEF tracked
    <2>2. /\ Cardinality(tracked(settled(k, t))) <= Cardinality(tracked(entries))
          /\ Cardinality(tracked(swept(t))) <= Cardinality(tracked(entries))
      BY Zenon, <1>1, <2>1, FS_Subset
    <2> QED
      BY <1>1, <2>2 DEF EntriesBounded
  <1>4. ASSUME NEW k \in Keys, NEW t \in Time, NEW e, hasPlace(k, t),
               entries' = [settled(k, t) EXCEPT ![k] = e]
        PROVE  EntriesBounded'
    <2>0. Cardinality(tracked(entries')) <= MaxEntries => EntriesBounded'
      BY Zenon DEF EntriesBounded, tracked
    <2>1. tracked(entries') \subseteq tracked(settled(k, t)) \cup {k}
      BY Zenon, <1>4, SettledType DEF tracked
    <2>2. CASE k \in tracked(settled(k, t))
      <3>1. tracked(entries') \subseteq tracked(settled(k, t))
        BY Zenon, <2>1, <2>2
      <3>2. Cardinality(tracked(entries')) <= Cardinality(tracked(settled(k, t)))
        BY Zenon, <1>1, <3>1, FS_Subset
      <3> QED
        BY <1>1, <1>3, <2>0, <3>2
    <2>3. CASE k \notin tracked(settled(k, t))
      <3>1. Cardinality(tracked(settled(k, t))) < MaxEntries
        <4>1. CASE crowded(k, t)
          BY Zenon, <1>4, <4>1 DEF hasPlace
        <4>2. CASE ~crowded(k, t)
          BY SMTT(30), <1>1, <2>3, <4>2 DEF crowded, settled, tracked
        <4> QED
          BY Zenon, <4>1, <4>2
      <3>2. Cardinality(tracked(settled(k, t)) \cup {k}) = Cardinality(tracked(settled(k, t))) + 1
        BY Zenon, <1>1, <2>3, FS_AddElement
      <3>3. IsFiniteSet(tracked(settled(k, t)) \cup {k})
        BY Zenon, <1>1, FS_AddElement
      <3>4. Cardinality(tracked(entries')) <= Cardinality(tracked(settled(k, t)) \cup {k})
        BY Zenon, <2>1, <3>3, FS_Subset
      <3> QED
        BY <1>1, <2>0, <3>1, <3>2, <3>4
    <2> QED
      BY Zenon, <2>2, <2>3
  <1>5. ASSUME NEW c \in Callers, Allow(c) PROVE EntriesBounded'
    <2>1. asked[c] \in Keys /\ now[c] \in Time
      BY Zenon, <1>5 DEF Allow, Refuse, Admit, Deny, TypeOK
    <2>2. CASE Refuse(c)
      BY Zenon, <1>3, <2>1, <2>2 DEF Refuse, EntriesBounded, tracked
    <2>3. CASE Admit(c)
      BY Zenon, <1>4, <2>1, <2>3 DEF Admit
    <2>4. CASE Deny(c)
      BY Zenon, <1>4, <2>1, <2>4 DEF Deny
    <2> QED
      BY Zenon, <1>5, <2>2, <2>3, <2>4 DEF Allow
  <1> QED
    BY Zenon, <1>2, <1>5 DEF Next, Tick, ReadClock, Idle, vars

\* However many keys arrive through however many receive loops, the maps never
\* hold more than maxEntries of them.
THEOREM Bounded ==
  ASSUME IsFiniteSet(Keys)
  PROVE  Spec => []EntriesBounded
  <1>1. Init => TypeOK /\ StampOrder
    BY Zenon, InitInv DEF IInv
  <1>2. Init => EntriesBounded
    <2> SUFFICES ASSUME Init PROVE EntriesBounded
      BY Zenon
    <2>1. tracked(entries) = {}
      BY Zenon DEF Init, tracked
    <2> QED
      BY <2>1, FS_EmptySet, BucketAssumption DEF EntriesBounded
  <1>3. TypeOK /\ StampOrder /\ EntriesBounded /\ [Next]_vars =>
          (TypeOK /\ StampOrder /\ EntriesBounded)'
    BY Zenon, TypeStep, BoundStep
  <1> QED
    BY <1>1, <1>2, <1>3, PTL DEF Spec
-----------------------------------------------------------------------------
(* The limiter is not stricter than documented                             *)

\* Since some time no later than the last use of k, its bucket has been given
\* all that it is allowed.
Tight(k) ==
    \E s \in 0..entries[k].last :
        spent(k, s, clock) + entries[k].tokens >= allowance(s, entries[k].last)

DryInv ==
    /\ TypeOK /\ StampOrder /\ Quiet /\ Counts
    /\ \A k \in Keys : entries[k] # NoEntry => Tight(k)

\* The tokens a call finds are all that is allowed since some time before its stamp.
LEMMA AvailableTight ==
  ASSUME DryInv, NEW k \in Keys, NEW t \in Time, t <= clock
  PROVE  \E s \in 0..t : spent(k, s, clock) + available(k, t) >= allowance(s, t)
  <1> USE BucketAssumption
  <1>1. TypeOK /\ StampOrder /\ Counts
    BY Zenon DEF DryInv
  <1>2. t \in Nat /\ clock \in Nat /\ t \in 0..t /\ clock \in Time /\ t <= clock + 1 /\ t <= t
    BY <1>1 DEF TypeOK, Time
  <1>3. spent(k, t, clock) \in Int /\ 0 <= spent(k, t, clock)
    BY Zenon, <1>1, <1>2, SpentType, SpentMono
  <1>4. allowance(t, t) = Capacity
    BY <1>2, CapacityType DEF allowance
  <1>5. CASE available(k, t) = Capacity
    <2>1. spent(k, t, clock) + available(k, t) >= allowance(t, t)
      BY <1>3, <1>4, <1>5, CapacityType
    <2> QED
      BY Zenon, <1>2, <2>1
  <1>6. CASE available(k, t) # Capacity
    <2> DEFINE l == entries[k].last
               x == entries[k].tokens
    <2>1. swept(t)[k] # NoEntry
      BY Zenon, <1>6 DEF available
    <2>2. swept(t)[k] = entries[k] /\ entries[k] # NoEntry
      BY Zenon, <1>1, <2>1, SettledType
    <2>3. Tight(k) /\ l \in Nat /\ x \in Nat /\ l <= clock
      BY Zenon, <1>1, <2>2 DEF DryInv, StampOrder, TypeOK, Entry
    <2>4. PICK s \in 0..l : spent(k, s, clock) + x >= allowance(s, l)
      BY Zenon, <2>3 DEF Tight
    <2>5. available(k, t) = IF t > l THEN AtMost(Capacity, x + Rate * (t - l)) ELSE x
      BY Zenon, <2>1, <2>2 DEF available
    <2> HIDE DEF l, x
    <2>6. s \in Nat /\ s \in Time /\ s <= l /\ s <= clock + 1
      BY <1>2, <2>3, <1>1 DEF TypeOK, Time
    <2>7. spent(k, s, clock) \in Int
      BY Zenon, <1>1, <1>2, <2>6, SpentType
    <2>8. CASE t > l
      <3>1. available(k, t) = x + Rate * (t - l)
        BY Zenon, <1>6, <2>5, <2>8 DEF AtMost
      <3>2. s \in 0..t
        BY <1>2, <2>3, <2>6, <2>8
      <3>3. s \in Int /\ l \in Int /\ t \in Int
        BY <1>2, <2>3, <2>6
      <3>4. /\ Rate * (l - s) \in Int /\ Rate * (t - l) \in Int /\ Rate * (t - s) \in Int
            /\ Rate * (l - s) + Rate * (t - l) = Rate * (t - s)
        BY Zenon, <3>3, RateSplit
      <3>5. spent(k, s, clock) + available(k, t) >= allowance(s, t)
        BY <2>3, <2>4, <2>7, <3>1, <3>4, CapacityType DEF allowance
      <3> QED
        BY Zenon, <3>2, <3>5
    <2>9. CASE ~(t > l) /\ s <= t
      <3>1. available(k, t) = x
        BY Zenon, <2>5, <2>9
      <3>2. s \in 0..t /\ t - s \in Int /\ l - s \in Int /\ t - s <= l - s
        BY <1>2, <2>3, <2>6, <2>9
      <3>3. Rate * (t - s) \in Int /\ Rate * (l - s) \in Int /\ Rate * (t - s) <= Rate * (l - s)
        BY Zenon, <3>2, RateMono
      <3>4. spent(k, s, clock) + available(k, t) >= allowance(s, t)
        BY <2>3, <2>4, <2>7, <3>1, <3>3, CapacityType DEF allowance
      <3> QED
        BY Zenon, <3>2, <3>4
    <2>10. CASE ~(t > l) /\ ~(s <= t)
      <3>1. available(k, t) = x
        BY Zenon, <2>5, <2>10
      <3>2. t <= s
        BY <1>2, <2>6, <2>10
      <3>3. spent(k, s, clock) <= spent(k, t, clock)
        BY Zenon, <1>1, <1>2, <2>6, <3>2, SpentMono
      <3>4. Rate * (l - s) \in Nat
        BY <2>3, <2>6
      <3>5. spent(k, t, clock) + available(k, t) >= allowance(t, t)
        BY <1>3, <1>4, <2>3, <2>4, <2>7, <3>1, <3>3, <3>4, CapacityType DEF allowance
      <3> QED
        BY Zenon, <1>2, <3>5
    <2> QED
      BY Zenon, <2>8, <2>9, <2>10
  <1> QED
    BY Zenon, <1>5, <1>6

\* An entry that a step keeps stays tight.
LEMMA TightStays ==
  ASSUME NEW j \in Keys, TypeOK, StampOrder, Tight(j), entries[j] # NoEntry,
         entries'[j] = entries[j],
         \A s \in 0..clock : spent(j, s, clock)' = spent(j, s, clock)
  PROVE  Tight(j)'
  <1>1. entries[j].last \in Nat /\ entries[j].last <= clock
    BY Zenon DEF TypeOK, StampOrder, Entry
  <1>2. \A s \in 0..entries[j].last : s \in 0..clock
    BY <1>1, BucketAssumption DEF TypeOK, Time
  <1>3. PICK s \in 0..entries[j].last :
           spent(j, s, clock) + entries[j].tokens >= allowance(s, entries[j].last)
    BY Zenon DEF Tight
  <1>4. spent(j, s, clock)' + entries'[j].tokens >= allowance(s, entries'[j].last)
    BY Zenon, <1>2, <1>3
  <1>5. s \in 0..entries'[j].last
    BY Zenon
  <1> QED
    BY Zenon, <1>4, <1>5 DEF Tight, allowance

\* Time that passes changes no account, as nothing is counted for the future.
LEMMA SpentStays ==
  ASSUME TypeOK, Quiet, UNCHANGED granted,
         clock' = clock \/ (clock' = clock + 1 /\ clock < MaxClock),
         NEW j \in Keys, NEW s \in 0..clock
  PROVE  spent(j, s, clock)' = spent(j, s, clock)
  <1>0. clock \in Nat /\ clock <= MaxClock /\ MaxClock \in Nat
    BY BucketAssumption DEF TypeOK, Time
  <1>1. clock' + 1 \in Stamps /\ clock' + 1 > clock
    BY <1>0 DEF Stamps
  <1>2. granted[j][clock' + 1] = granted[j][clock + 1]
    BY Zenon, <1>1 DEF Quiet
  <1> QED
    BY Zenon, <1>2 DEF spent

\* Every step keeps the buckets tight.
LEMMA TightStep ==
  ASSUME DryInv, [Next]_vars, NEW j \in Keys, entries'[j] # NoEntry
  PROVE  Tight(j)'
  <1>1. TypeOK /\ StampOrder /\ Quiet /\ Counts /\ \A k \in Keys : entries[k] # NoEntry => Tight(k)
    BY Zenon DEF DryInv
  <1>2. ASSUME \A c \in Callers : ~Allow(c) PROVE Tight(j)'
    <2>1. clock' = clock \/ (clock' = clock + 1 /\ clock < MaxClock)
      BY Zenon, <1>2 DEF Next, Tick, ReadClock, Idle, vars
    <2>2. UNCHANGED granted /\ entries'[j] = entries[j]
      BY Zenon, <1>2, Frame
    <2>3. \A s \in 0..clock : spent(j, s, clock)' = spent(j, s, clock)
      BY Zenon, <1>1, <2>1, <2>2, SpentStays
    <2> QED
      BY Zenon, <1>1, <2>2, <2>3, TightStays
  <1>3. ASSUME NEW c \in Callers, Allow(c) PROVE Tight(j)'
    <2>1. PICK k \in Keys, t \in Time :
            /\ k = asked[c] /\ t = now[c] /\ t <= clock /\ clock' = clock
            /\ \/ entries' = settled(k, t) /\ Account(k, t, 0, 0)
               \/ \E n \in {0, 1}, x \in Nat :
                     x <= Capacity /\ Unit * n + x = available(k, t) /\ Served(k, t, n, x)
      BY Zenon, <1>1, <1>3, CallCases
    <2>2. settled(k, t)[j] # NoEntry => settled(k, t)[j] = entries[j]
      BY Zenon, <1>1, SettledType
    <2>0. clock' = clock /\ k \in Keys /\ t \in Time
      BY Zenon, <2>1
    <2>3. clock \in Nat /\ t \in Nat /\ clock - t \in Nat /\ \A s \in 0..t : s \in 0..clock
      BY <1>1, <2>1, BucketAssumption DEF TypeOK, Time
    <2>4. ASSUME NEW n \in Nat, NEW w \in Nat, Account(k, t, n, w), paid(j, k, n) = 0,
                 entries'[j] = settled(k, t)[j]
          PROVE  Tight(j)'
      <3>1. ASSUME NEW s \in 0..clock PROVE spent(j, s, clock)' = spent(j, s, clock)
        <4>1. spent(j, s, clock)' = spent(j, s, clock) + Unit * paid(j, k, n)
          <5>1. Charged(j, s, paid(j, k, n), credit(j, k, t, w))
            BY Zenon, <1>1, <2>0, <2>4, <3>1, CallNow
          <5> QED
            BY Zenon, <5>1 DEF Charged
        <4>2. spent(j, s, clock) \in Int
          BY Zenon, <1>1, Terms
        <4> QED
          BY <2>4, <4>1, <4>2, BucketAssumption
      <3> QED
        BY Zenon, <1>1, <2>2, <2>4, <3>1, TightStays
    <2>5. CASE entries' = settled(k, t) /\ Account(k, t, 0, 0)
      <3>1. paid(j, k, 0) = 0 /\ 0 \in Nat
        BY DEF paid
      <3> QED
        BY Zenon, <2>4, <2>5, <3>1
    <2>6. ASSUME NEW n \in {0, 1}, NEW x \in Nat, x <= Capacity,
                 Unit * n + x = available(k, t), Served(k, t, n, x)
          PROVE  Tight(j)'
      <3>1. n \in Nat /\ Account(k, t, n, clock - t)
        <4>1. n \in Nat
          BY DEF TypeOK
        <4> QED
          BY Zenon, <2>6, <4>1 DEF Served
      <3>2. CASE j # k
        <4>1. paid(j, k, n) = 0
          BY Zenon, <3>2 DEF paid
        <4>2. entries'[j] = settled(k, t)[j]
          BY <1>1, <2>6, <3>2, EntriesStep
        <4> QED
          BY Zenon, <2>3, <2>4, <3>1, <4>1, <4>2
      <3>3. CASE j = k
        <4>1. PICK s \in 0..t : spent(k, s, clock) + available(k, t) >= allowance(s, t)
          BY Zenon, <2>1, AvailableTight
        <4>2. s \in 0..clock
          BY Zenon, <2>3
        <4>3. spent(k, s, clock)' = spent(k, s, clock) + Unit * paid(k, k, n)
          <5>1. Charged(k, s, paid(k, k, n), credit(k, k, t, clock - t))
            BY Zenon, <1>1, <2>0, <2>3, <3>1, <4>2, CallNow
          <5> QED
            BY Zenon, <5>1 DEF Charged
        <4>4. paid(k, k, n) = n
          BY Zenon DEF paid
        <4>5. spent(k, s, clock) \in Int /\ Unit * n \in Nat
          <5>1. spent(k, s, clock) \in Int
            BY Zenon, <1>1, <4>2, Terms
          <5> QED
            BY <3>1, <5>1, BucketAssumption
        <4>6. spent(k, s, clock)' = spent(k, s, clock) + Unit * n
          BY Zenon, <4>3, <4>4
        <4>7. allowance(s, t) \in Int
          <5>1. Rate * (t - s) \in Int
            BY <2>3, BucketAssumption
          <5> QED
            BY <5>1, CapacityType DEF allowance
        <4>8. spent(k, s, clock)' + x >= allowance(s, t)
          BY <2>6, <4>1, <4>5, <4>6, <4>7
        <4>9. entries'[k].last = t /\ entries'[k].tokens = x
          BY <1>1, <2>6, EntriesStep
        <4>10. s \in 0..entries'[k].last /\ spent(k, s, clock)' + entries'[k].tokens >= allowance(s, entries'[k].last)
          BY Zenon, <4>8, <4>9
        <4> QED
          BY Zenon, <3>3, <4>10 DEF Tight, allowance
      <3> QED
        BY Zenon, <3>2, <3>3
    <2> QED
      BY Zenon, <2>1, <2>5, <2>6
  <1> QED
    BY Zenon, <1>2, <1>3

\* A request that has a place is denied only if, with it, more requests would have
\* been let through since some time than are allowed from then to its stamp: for
\* any number of receive loops and every value of the settings.
THEOREM NotStricter == Spec => DeniesOnlyWhenDry
  <1>1. Init => DryInv
    <2> SUFFICES ASSUME Init PROVE DryInv
      BY Zenon
    <2>1. TypeOK /\ StampOrder /\ Quiet /\ Counts
      BY Zenon, InitInv DEF IInv
    <2>2. \A k \in Keys : entries[k] = NoEntry
      BY Zenon DEF Init
    <2> QED
      BY Zenon, <2>1, <2>2 DEF DryInv
  <1>2. DryInv /\ [Next]_vars => DryInv'
    BY Zenon, TypeStep, CountsStep, TightStep DEF DryInv
  <1>3. ASSUME DryInv, NEW c \in Callers, Deny(c)
        PROVE  \E s \in 0..now[c] : spent(asked[c], s, clock) + Unit > allowance(s, now[c])
    <2>1. TypeOK /\ StampOrder /\ Counts
      BY Zenon, <1>3 DEF DryInv
    <2>2. PICK k \in Keys, t \in Time : k = asked[c] /\ t = now[c]
      BY Zenon, <1>3, <2>1 DEF Deny, TypeOK
    <2>3. t <= clock
      BY Zenon, <2>1, <2>2 DEF StampOrder
    <2>4. PICK s \in 0..t : spent(k, s, clock) + available(k, t) >= allowance(s, t)
      BY Zenon, <1>3, <2>3, AvailableTight
    <2>5. s \in 0..clock /\ Rate * (t - s) \in Int
      BY <2>1, <2>3, BucketAssumption DEF TypeOK, Time
    <2>6. spent(k, s, clock) \in Int /\ available(k, t) \in 0..Capacity
      BY Zenon, <2>1, <2>5, Terms, AvailableType
    <2>7. available(k, t) < Unit
      BY Zenon, <1>3, <2>2 DEF Deny
    <2>8. spent(k, s, clock) + Unit > allowance(s, t)
      BY <2>4, <2>5, <2>6, <2>7, CapacityType, BucketAssumption DEF allowance
    <2> QED
      BY Zenon, <2>2, <2>8
  <1>4. DryInv /\ [Next]_vars =>
          [\A c \in Callers : Deny(c) =>
             \E s \in 0..now[c] : spent(asked[c], s, clock) + Unit > allowance(s, now[c])]_vars
    BY Zenon, <1>3
  <1> QED
    BY <1>1, <1>2, <1>4, PTL DEF Spec, DeniesOnlyWhenDry
=============================================================================
