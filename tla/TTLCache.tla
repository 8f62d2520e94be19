------------------------------ MODULE TTLCache ------------------------------
(***************************************************************************)
(* The response cache (internal/resolvers/cache.go) as the forwarding      *)
(* resolver uses it: GetWithAge followed by adjustTTLs, and storeInCache.  *)
(*                                                                         *)
(* Get and Set read the clock before they take the mutex, so each is two   *)
(* steps of its caller with other callers in between; cachedAt is read     *)
(* inside the critical section.  The clock counts Second ticks per second. *)
(* The hit and miss counters are written and never read: left out.         *)
(***************************************************************************)
EXTENDS CacheTTL, FiniteSets

CONSTANTS
    Callers,     \* goroutines using the cache
    Keys,        \* cache keys
    Responses,   \* responses upstreams may give
    MaxEntries,  \* c.maxEntries
    Second,      \* ticks per second
    MaxClock,    \* bound on the modelled time
    None         \* no entry, no call, no result

ASSUME CacheAssumption ==
    /\ MaxEntries \in Nat \ {0} /\ Second \in Nat \ {0} /\ MaxClock \in Nat
    /\ Responses \subseteq Response

VARIABLES
    clock,    \* the true time
    pending,  \* pending[c]: the call caller c has begun
    served,   \* what the last step served, if it was a hit
    data,     \* c.data
    lru,      \* c.lru, keys from the oldest to the newest
    since     \* ghost: <<j, k>> when k was used after the last use of j

vars == <<clock, pending, served, data, lru, since>>

Time  == 0..MaxClock
Until == 0..(MaxClock + Second * (IF MaxTTL > MaxNegativeTTL THEN MaxTTL ELSE MaxNegativeTTL))
Entry == [value : Responses, born : Time, cachedAt : Time, expiresAt : Until, type : Types]
Call  == [op : {"get"}, key : Keys, now : Time] \cup
         [op : {"set"}, key : Keys, value : Responses, born : Time, expires : Until, type : Types]
Hit   == [entry : Entry, now : Time, response : Response]

ASSUME NoneAssumption == None \notin Entry

Init ==
    /\ clock = 0
    /\ pending = [c \in Callers |-> None]
    /\ served = None
    /\ data = [k \in Keys |-> None]
    /\ lru = <<>>
    /\ since = {}

Tick ==
    /\ clock < MaxClock
    /\ clock' = clock + 1
    /\ served' = None
    /\ UNCHANGED <<pending, data, lru, since>>

-----------------------------------------------------------------------------
(* The list and the map.                                                   *)

cached(d) == {k \in Keys : d[k] # None}

\* list.Remove of key k's element.
Without(s, k) ==
    LET i == CHOOSE i \in DOMAIN s : s[i] = k
    IN [j \in 1..(Len(s) - 1) |-> s[IF j < i THEN j ELSE j + 1]]

MoveToBack(s, k) == Append(Without(s, k), k)

Used(k) == {p \in since : p[1] # k} \cup {<<j, k>> : j \in Keys \ {k}}

Begin(c, call) ==
    /\ pending[c] = None
    /\ pending' = [pending EXCEPT ![c] = call]
    /\ served' = None
    /\ UNCHANGED <<clock, data, lru, since>>

Finish(c, hit) ==
    /\ pending' = [pending EXCEPT ![c] = None]
    /\ served' = hit
    /\ UNCHANGED clock

Entered(c, op) == pending[c] # None /\ pending[c].op = op

-----------------------------------------------------------------------------
(* Get, GetWithAge                                                         *)

GetBegin(c, k) == Begin(c, [op |-> "get", key |-> k, now |-> clock])

GetAbsent(c) ==
    /\ Entered(c, "get")
    /\ data[pending[c].key] = None
    /\ Finish(c, None)
    /\ UNCHANGED <<data, lru, since>>

\* A variant: an entry counts as expired only after its last instant.
expiredLate(e, t) == e.expiresAt < t

\* !e.expiresAt.After(now)
expired(e, t) == e.expiresAt <= t

\* A variant: the expired entry's element stays in the list.
GetExpiredKeepsElement(c) ==
    LET k == pending[c].key
    IN /\ Entered(c, "get")
       /\ data[k] # None /\ expired(data[k], pending[c].now)
       /\ data' = [data EXCEPT ![k] = None]
       /\ Finish(c, None)
       /\ UNCHANGED <<lru, since>>

GetExpired(c) ==
    LET k == pending[c].key
    IN /\ Entered(c, "get")
       /\ data[k] # None /\ expired(data[k], pending[c].now)
       /\ lru' = Without(lru, k)
       /\ data' = [data EXCEPT ![k] = None]
       /\ Finish(c, None)
       /\ UNCHANGED since

\* A variant: a hit does not refresh the entry's place in the list.
GetHitNoMove(c) ==
    LET k == pending[c].key
        t == pending[c].now
        e == data[k]
    IN /\ Entered(c, "get")
       /\ e # None /\ ~expired(e, t)
       /\ since' = Used(k)
       /\ Finish(c, [entry |-> e, now |-> t,
                      response |-> adjustTTLs(e.value, (t - e.cachedAt) \div Second)])
       /\ UNCHANGED <<data, lru>>

\* The caller applies adjustTTLs to what it gets.
GetHit(c) ==
    LET k == pending[c].key
        t == pending[c].now
        e == data[k]
    IN /\ Entered(c, "get")
       /\ e # None /\ ~expired(e, t)
       /\ lru' = MoveToBack(lru, k)
       /\ since' = Used(k)
       /\ Finish(c, [entry |-> e, now |-> t,
                      response |-> adjustTTLs(e.value, (t - e.cachedAt) \div Second)])
       /\ UNCHANGED data

-----------------------------------------------------------------------------
(* storeInCache, Set                                                       *)

\* The decision has a positive TTL: expires is computed before the lock.
SetBegin(c, k, r) ==
    LET d == analyzeCacheDecision(r)
    IN /\ d.ttl > 0
       /\ Begin(c, [op |-> "set", key |-> k, value |-> r, born |-> clock, type |-> d.type,
                    expires |-> clock + Second * capTTL(d.ttl, d.type)])

entryOf(call) ==
    [value |-> call.value, born |-> call.born, cachedAt |-> clock,
     expiresAt |-> call.expires, type |-> call.type]

SetExisting(c) ==
    LET k == pending[c].key
    IN /\ Entered(c, "set")
       /\ data[k] # None
       /\ data' = [data EXCEPT ![k] = entryOf(pending[c])]
       /\ lru' = MoveToBack(lru, k)
       /\ since' = Used(k)
       /\ Finish(c, None)

\* evictOldest: one entry was added, so the loop removes at most one.
evictOldest(d, s) ==
    IF Cardinality(cached(d)) > MaxEntries
    THEN [data |-> [d EXCEPT ![Head(s)] = None], lru |-> Tail(s)]
    ELSE [data |-> d, lru |-> s]

SetNew(c) ==
    LET k    == pending[c].key
        left == evictOldest([data EXCEPT ![k] = entryOf(pending[c])], Append(lru, k))
    IN /\ Entered(c, "set")
       /\ data[k] = None
       /\ data' = left.data
       /\ lru' = left.lru
       /\ since' = Used(k)
       /\ Finish(c, None)

-----------------------------------------------------------------------------

Get(c) == GetAbsent(c) \/ GetExpired(c) \/ GetHit(c)
Set(c) == SetExisting(c) \/ SetNew(c)

\* The modelled time is over and no call is pending.
Idle == clock = MaxClock /\ (\A c \in Callers : pending[c] = None) /\ UNCHANGED vars

Next ==
    \/ Tick
    \/ \E c \in Callers, k \in Keys : GetBegin(c, k) \/ (\E r \in Responses : SetBegin(c, k, r))
    \/ \E c \in Callers : Get(c) \/ Set(c)
    \/ Idle

Spec == Init /\ [][Next]_vars

-----------------------------------------------------------------------------
(* Properties.                                                             *)

\* The types of the map, the list and the calls.
TypeOK ==
    /\ clock \in Time
    /\ pending \in [Callers -> Call \cup {None}]
    /\ served \in Hit \cup {None}
    /\ data \in [Keys -> Entry \cup {None}]
    /\ lru \in Seq(Keys)
    /\ since \subseteq Keys \X Keys

\* The list and the map hold the same keys, each once, and never more than
\* maxEntries: no element is orphaned by an expiry, a replacement or an eviction.
\* The state is well typed throughout.
ListMatchesMap ==
    /\ TypeOK
    /\ {lru[i] : i \in DOMAIN lru} = cached(data)
    /\ Len(lru) = Cardinality(cached(data))
    /\ Len(lru) <= MaxEntries

\* A key loses its entry because it has expired, or else to make room for a new
\* key in a full cache; then it is the least recently used one, and every key
\* that stays was read or written after it.  Get judges expiry by a clock read
\* before the lock.
EvictsLeastRecentlyUsed ==
    [][\A k \in cached(data) \ cached(data') :
         \/ /\ data[k].expiresAt <= clock
            /\ cached(data') \subseteq cached(data)
         \/ /\ ~(cached(data') \subseteq cached(data))
            /\ Cardinality(cached(data)) = MaxEntries
            /\ \A j \in cached(data) \cap cached(data') : <<k, j>> \in since]_vars

Hits == {served} \ {None}

\* No answer is served once the TTL of one of its records with a TTL has run
\* out, counted from when the response arrived, nor past the configured caps.
ServedWithinTTL ==
    \A h \in Hits :
        LET age == h.now - h.entry.born  r == h.entry.value
        IN /\ h.entry.type = "positive" =>
                /\ \A t \in TTLsIn(r.answers) \ {0} : age < Second * t
                /\ age < Second * MaxTTL
           /\ h.entry.type # "positive" => age < Second * MaxNegativeTTL

\* The answer TTLs a client is given count down from the records' own and never
\* reach 0: for these records the unsigned subtraction of adjustTTLs is exact.
AnswerTTLsCountDown ==
    \A h \in Hits :
        LET r   == h.entry.value
            age == (h.now - h.entry.cachedAt) \div Second
        IN \A i \in DOMAIN r.answers : h.entry.type = "positive" /\ r.answers[i] > 0 /\ age > 0 =>
              /\ h.response.answers[i] = r.answers[i] - age
              /\ h.response.answers[i] > 0
=============================================================================
