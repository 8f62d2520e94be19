---------------------------- MODULE TokenBucket ----------------------------
(***************************************************************************)
(* One TokenBucketRateLimiter (internal/server/rate_limit.go) used by      *)
(* several receive loops at once.                                          *)
(*                                                                         *)
(* Allow reads the clock before it takes the mutex, so it is two steps:    *)
(* ReadClock and the critical section Enter.  Time is counted in ticks and *)
(* tokens in fractions: a request costs Unit, a tick adds Rate.  A limiter *)
(* with rate or burst <= 0 lets everything through and is not modelled.    *)
(* The ghost `granted' counts the requests let through by the time they    *)
(* are let through, to say what "limiting the long-term average" means.    *)
(* The ghost `extra' measures the two ways in which the code may credit a  *)
(* bucket with more than Rate: a call that waits for the lock sets the     *)
(* bucket's time back, and a cleanup may forget a bucket that is not full. *)
(***************************************************************************)
EXTENDS Integers, FiniteSets

CONSTANTS
    Callers,          \* receive loops calling Allow
    Keys,             \* client addresses or prefixes
    Rate,             \* l.rate, in fractions of a token per tick
    Burst,            \* cfg.Burst, in tokens
    Unit,             \* fractions per token
    CleanupInterval,  \* l.cleanupInterval, in ticks
    MaxEntries,       \* l.maxEntries
    MaxClock,         \* bound on the modelled time
    NoEntry           \* a key that is not in the maps

ASSUME BucketAssumption ==
    /\ Rate \in Nat \ {0} /\ Burst \in Nat \ {0} /\ Unit \in Nat \ {0}
    /\ CleanupInterval \in Nat \ {0} /\ MaxEntries \in Nat \ {0}
    /\ MaxClock \in Nat

VARIABLES
    clock,        \* the true time
    now,          \* now[c]: the time caller c read
    asked,        \* asked[c]: the key caller c asks for (NoEntry: it is not in Allow)
    entries,      \* l.lastUpdate and l.tokens
    lastCleanup,  \* l.lastCleanup
    granted,      \* ghost: granted[k][t] requests for k let through before t
    extra         \* ghost: extra[k][t] credited beyond Rate at most, before t

ghosts == <<granted, extra>>
vars   == <<clock, now, asked, entries, lastCleanup, granted, extra>>

Time     == 0..MaxClock
Stamps   == 0..(MaxClock + 1)
Capacity == Burst * Unit
Entry    == [last : Nat, tokens : Nat]

ASSUME NoEntryAssumption == NoEntry \notin Entry /\ NoEntry \notin Keys

\* What an idle bucket may lack when it is forgotten as stale.
Shortfall == IF Capacity > Rate * CleanupInterval THEN Capacity - Rate * CleanupInterval ELSE 0

AtMost(a, b) == IF a < b THEN a ELSE b

Init ==
    /\ clock = 0
    /\ now = [c \in Callers |-> 0]
    /\ asked = [c \in Callers |-> NoEntry]
    /\ entries = [k \in Keys |-> NoEntry]
    /\ lastCleanup = 0
    /\ granted = [k \in Keys |-> [t \in Stamps |-> 0]]
    /\ extra = [k \in Keys |-> [t \in Stamps |-> 0]]

Tick ==
    /\ clock < MaxClock
    /\ clock' = clock + 1
    /\ UNCHANGED <<now, asked, entries, lastCleanup, ghosts>>

\* now := time.Now(), before the lock.
ReadClock(c, k) ==
    /\ asked[c] = NoEntry
    /\ asked' = [asked EXCEPT ![c] = k]
    /\ now' = [now EXCEPT ![c] = clock]
    /\ UNCHANGED <<clock, entries, lastCleanup, ghosts>>

-----------------------------------------------------------------------------
(* The critical section, t being the time read before the lock.            *)

tracked(es) == {k \in Keys : es[k] # NoEntry}

\* A variant: every entry counts as stale.
cleanupAll(es, t) == [k \in Keys |-> NoEntry]

\* cleanupLocked: entries not used for cleanupInterval are forgotten.
cleanup(es, t) ==
    [k \in Keys |-> IF es[k] # NoEntry /\ es[k].last <= t - CleanupInterval
                    THEN NoEntry ELSE es[k]]

\* The periodic cleanup at the head of Allow.
due(t)   == t - lastCleanup > CleanupInterval
swept(t) == IF due(t) THEN cleanup(entries, t) ELSE entries

\* A new key with the map at capacity cleans up once more.
crowded(k, t)  == swept(t)[k] = NoEntry /\ Cardinality(tracked(swept(t))) >= MaxEntries
settled(k, t)  == IF crowded(k, t) THEN cleanup(swept(t), t) ELSE swept(t)

\* A variant: a new key starts with an empty bucket.
availableEmpty(k, t) ==
    LET e == swept(t)[k]
    IN IF e = NoEntry THEN 0
       ELSE IF t > e.last THEN AtMost(Capacity, e.tokens + Rate * (t - e.last))
       ELSE e.tokens

\* Tokens of key k at time t; a new key's zero timestamp fills its bucket.
available(k, t) ==
    LET e == swept(t)[k]
    IN IF e = NoEntry THEN Capacity
       ELSE IF t > e.last THEN AtMost(Capacity, e.tokens + Rate * (t - e.last))
       ELSE e.tokens

cleaned(k, t) ==
    lastCleanup' = IF due(t) \/ crowded(k, t) THEN t ELSE lastCleanup

return(c) ==
    /\ asked' = [asked EXCEPT ![c] = NoEntry]
    /\ now' = [now EXCEPT ![c] = 0]
    /\ UNCHANGED clock

\* The ghosts of a call for k stamped t that grants n requests and sets k's time:
\* its wait for the lock is held against k, and against each key that it cleans
\* up what that key's bucket may have lacked.
Plus(f, n)    == [u \in Stamps |-> IF u > clock THEN f[u] + n ELSE f[u]]
forgets(k, t) == tracked(entries) \ tracked(settled(k, t))
Account(k, t, n, wait) ==
    /\ granted' = [granted EXCEPT ![k] = Plus(@, n)]
    /\ extra' = [j \in Keys |->
          Plus(extra[j], (IF j = k THEN Rate * wait ELSE 0)
                       + (IF j \in forgets(k, t) THEN Shortfall ELSE 0))]

\* No room for a new key even after the cleanup.
Refuse(c) ==
    LET k == asked[c]  t == now[c]
    IN /\ k # NoEntry
       /\ crowded(k, t)
       /\ Cardinality(tracked(settled(k, t))) >= MaxEntries
       /\ entries' = settled(k, t)
       /\ cleaned(k, t)
       /\ return(c)
       /\ Account(k, t, 0, 0)

\* The key has a place; t becomes its lastUpdate whichever way time runs.
hasPlace(k, t) ==
    crowded(k, t) => Cardinality(tracked(settled(k, t))) < MaxEntries

Admit(c) ==
    LET k == asked[c]  t == now[c]
    IN /\ k # NoEntry
       /\ hasPlace(k, t)
       /\ available(k, t) >= Unit
       /\ entries' = [settled(k, t) EXCEPT ![k] = [last |-> t, tokens |-> available(k, t) - Unit]]
       /\ cleaned(k, t)
       /\ return(c)
       /\ Account(k, t, 1, clock - t)

Deny(c) ==
    LET k == asked[c]  t == now[c]
    IN /\ k # NoEntry
       /\ hasPlace(k, t)
       /\ available(k, t) < Unit
       /\ entries' = [settled(k, t) EXCEPT ![k] = [last |-> t, tokens |-> available(k, t)]]
       /\ cleaned(k, t)
       /\ return(c)
       /\ Account(k, t, 0, clock - t)

\* The modelled time is over and no call is pending.
Idle == clock = MaxClock /\ (\A c \in Callers : asked[c] = NoEntry) /\ UNCHANGED vars

Allow(c) == Refuse(c) \/ Admit(c) \/ Deny(c)

Next ==
    \/ Tick
    \/ \E c \in Callers, k \in Keys : ReadClock(c, k)
    \/ \E c \in Callers : Allow(c)
    \/ Idle

Spec == Init /\ [][Next]_vars

-----------------------------------------------------------------------------
(* Properties.                                                             *)

\* The types of the limiter's maps; a bucket never holds more than Burst.
TypeOK ==
    /\ clock \in Time
    /\ now \in [Callers -> Time]
    /\ asked \in [Callers -> Keys \cup {NoEntry}]
    /\ entries \in [Keys -> Entry \cup {NoEntry}]
    /\ \A k \in Keys : entries[k] # NoEntry => entries[k].tokens <= Capacity
    /\ lastCleanup \in Time
    /\ granted \in [Keys -> [Stamps -> Nat]]
    /\ extra \in [Keys -> [Stamps -> Nat]]

\* The number of tracked keys never exceeds maxEntries, whichever keys arrive.
EntriesBounded == Cardinality(tracked(entries)) <= MaxEntries

\* What the requests for k let through in s..t cost, what that window allows, and
\* what k was credited in it besides.
spent(k, s, t)    == Unit * (granted[k][t + 1] - granted[k][s])
allowance(s, t)   == Capacity + Rate * (t - s)
surcharge(k, s, t) == extra[k][t + 1] - extra[k][s]

\* "This allows short bursts up to Burst requests, while limiting the long-term
\* average to Rate requests per second": in no window of time are more requests
\* for a key let through than Burst plus Rate times its length, except for Rate
\* times what the calls decided in it waited for the lock, and Shortfall for each
\* time the key was forgotten in it.  Without such waits, and with a cleanup
\* interval in which a bucket fills up, this is the documented limit.
RateConforms ==
    \A k \in Keys, s, t \in Time :
        s <= t => spent(k, s, t) <= allowance(s, t) + surcharge(k, s, t)

\* A request that has a place is denied only if, with it, the requests let through
\* since some time would cost more than is allowed from then to its stamp: the
\* limiter is not stricter than documented, however its calls interleave.
DeniesOnlyWhenDry ==
    [][\A c \in Callers : Deny(c) =>
         \E s \in 0..now[c] :
            spent(asked[c], s, clock) + Unit > allowance(s, now[c])]_vars
=============================================================================
