--------------------------- MODULE TTLCache_proofs ---------------------------
(***************************************************************************)
(* The list and the map agree, the least recently used entry is evicted,   *)
(* nothing is served past its lifetime, and the TTLs a client is given     *)
(* count down, for any TTLs, caps, clock resolution, callers and keys.     *)
(***************************************************************************)
EXTENDS TTLCache, FiniteSetTheorems, WellFoundedInduction, TLAPS

\* A response that arrived at born is kept until the time analyzeCacheDecision
\* and capTTL give it.
Lifetime(r, born, expires, type) ==
    LET d == analyzeCacheDecision(r)
    IN type = d.type /\ d.ttl > 0 /\ expires = born + Second * capTTL(d.ttl, d.type)

KeptEntry ==
    {e \in [value : Responses, born : Nat, cachedAt : Nat, expiresAt : Nat, type : Types] :
        e.born <= e.cachedAt /\ Lifetime(e.value, e.born, e.expiresAt, e.type)}

GetCall == [op : {"get"}, key : Keys, now : Nat]
SetCall ==
    {p \in [op : {"set"}, key : Keys, value : Responses, born : Nat, expires : Nat, type : Types] :
        Lifetime(p.value, p.born, p.expires, p.type)}

\* What a hit hands out: an entry that had not expired, with its TTLs adjusted.
GoodHit(h) ==
    /\ h.entry \in KeptEntry /\ h.now \in Nat
    /\ ~expired(h.entry, h.now)
    /\ h.response = adjustTTLs(h.entry.value, (h.now - h.entry.cachedAt) \div Second)

IInv ==
    /\ clock \in Nat
    /\ pending \in [Callers -> GetCall \cup SetCall \cup {None}]
    /\ \A c \in Callers : Entered(c, "set") => pending[c].born <= clock
    /\ data \in [Keys -> KeptEntry \cup {None}]
    /\ \A h \in Hits : GoodHit(h)

-----------------------------------------------------------------------------
(* The arithmetic of lifetimes                                             *)

\* A set of natural numbers that is not empty has a smallest element.
LEMMA Smallest ==
  ASSUME NEW T \in SUBSET Nat, T # {}
  PROVE  \E x \in T : \A y \in T : x <= y
  <1>1. PICK x \in T : \A y \in T : ~(<<y, x>> \in OpToRel(<, Nat))
    BY Zenon, NatLessThanWellFounded, WFMin
  <1>2. \A y \in T : ~(y < x)
    BY Zenon, <1>1 DEF OpToRel
  <1> QED
    BY <1>2

\* Seconds to ticks is monotone.
LEMMA TicksMono ==
  ASSUME NEW a \in Nat, NEW b \in Nat, a <= b
  PROVE  Second * a \in Nat /\ Second * b \in Nat /\ Second * a <= Second * b
  BY CacheAssumption

\* Fewer ticks than b seconds are fewer than b whole seconds.
LEMMA WholeSeconds ==
  ASSUME NEW a \in Nat, NEW b \in Nat, a < Second * b
  PROVE  a \div Second \in Nat /\ a \div Second < b
  <1>1. Second \in Nat /\ Second > 0
    BY CacheAssumption
  <1> QED
    BY <1>1

\* uint32 arithmetic is exact on values of its width.
LEMMA WordExact ==
  ASSUME NEW a \in Nat, a < Word
  PROVE  a % Word = a
  BY TTLAssumption

\* findMinimumTTL is a lower bound of the TTLs that are not 0.
LEMMA MinimumBounds ==
  ASSUME NEW answers \in Seq(TTLs)
  PROVE  /\ findMinimumTTL(answers) \in Nat
         /\ \A t \in TTLsIn(answers) \ {0} : findMinimumTTL(answers) <= t
  <1> DEFINE ttls == TTLsIn(answers) \ {0}
  <1>1. ttls \in SUBSET Nat
    BY TTLAssumption DEF TTLsIn, TTLs
  <1>2. CASE ttls = {}
    BY Zenon, <1>2 DEF findMinimumTTL
  <1>3. CASE ttls # {}
    <2>1. \E t \in ttls : \A u \in ttls : t <= u
      BY Zenon, <1>1, <1>3, Smallest
    <2> HIDE DEF ttls
    <2>2. LET m == CHOOSE t \in ttls : \A u \in ttls : t <= u
          IN m \in ttls /\ \A u \in ttls : m <= u
      BY Zenon, <2>1
    <2> QED
      BY Zenon, <1>1, <1>3, <2>2 DEF findMinimumTTL, ttls
  <1> QED
    BY Zenon, <1>2, <1>3

\* What is decided for a response: a type, and a TTL no answer record outlives.
LEMMA DecisionBounds ==
  ASSUME NEW r \in Response
  PROVE  LET d == analyzeCacheDecision(r)
         IN /\ d.ttl \in Nat /\ d.type \in Types
            /\ d.type = "positive" /\ d.ttl > 0 => \A t \in TTLsIn(r.answers) \ {0} : d.ttl <= t
  <1>1. r.answers \in Seq(TTLs) /\ r.soa \in Nat /\ r.rcode \in RCodes
    BY TTLAssumption DEF Response, TTLs
  <1>2. /\ findMinimumTTL(r.answers) \in Nat
        /\ \A t \in TTLsIn(r.answers) \ {0} : findMinimumTTL(r.answers) <= t
    BY Zenon, <1>1, MinimumBounds
  <1>3. orDefault(r.soa) \in Nat
    BY Zenon, <1>1, TTLAssumption DEF orDefault
  <1>4. CASE r.rcode = "malformed" \/ r.rcode = "other"
    BY <1>4 DEF analyzeCacheDecision, decision, Types
  <1>5. CASE r.rcode = "servfail"
    BY Zenon, <1>5, TTLAssumption DEF analyzeCacheDecision, decision, Types
  <1>6. CASE r.rcode = "nxdomain"
    BY Zenon, <1>3, <1>6 DEF analyzeCacheDecision, decision, Types
  <1>7. CASE r.rcode = "noerror"
    BY Zenon, <1>2, <1>3, <1>7 DEF analyzeCacheDecision, decision, Types
  <1> QED
    BY Zenon, <1>1, <1>4, <1>5, <1>6, <1>7 DEF RCodes

\* An entry that has not expired is younger than its cap and, if positive, than
\* every TTL in its answer that is not 0.
LEMMA Younger ==
  ASSUME NEW e \in KeptEntry, NEW now \in Nat, ~expired(e, now)
  PROVE  /\ e.type = "positive" =>
              /\ \A t \in TTLsIn(e.value.answers) \ {0} : now - e.born < Second * t
              /\ now - e.born < Second * MaxTTL
         /\ e.type # "positive" => now - e.born < Second * MaxNegativeTTL
  <1> DEFINE d == analyzeCacheDecision(e.value)
             n == capTTL(d.ttl, d.type)
  <1>1. e.value \in Response /\ e.born \in Nat /\ e.expiresAt \in Nat
    BY Zenon, CacheAssumption DEF KeptEntry
  <1>2. /\ d.ttl \in Nat /\ d.type \in Types
        /\ d.type = "positive" /\ d.ttl > 0 => \A t \in TTLsIn(e.value.answers) \ {0} : d.ttl <= t
    BY Zenon, <1>1, DecisionBounds
  <1>3. e.type = d.type /\ d.ttl > 0 /\ e.expiresAt = e.born + Second * n
    BY Zenon DEF KeptEntry, Lifetime
  <1> HIDE DEF d
  <1>4. /\ n \in Nat /\ n <= d.ttl
        /\ IF d.type = "positive" THEN n <= MaxTTL ELSE n <= MaxNegativeTTL
    BY <1>2, TTLAssumption DEF capTTL
  <1> HIDE DEF n
  <1>5. ASSUME NEW t \in Nat, n <= t PROVE now - e.born < Second * t
    <2>1. Second * n \in Nat /\ Second * t \in Nat /\ Second * n <= Second * t
      BY Zenon, <1>4, <1>5, TicksMono
    <2>2. now < e.expiresAt
      BY <1>1 DEF expired
    <2> QED
      BY <1>1, <1>3, <2>1, <2>2
  <1>6. TTLsIn(e.value.answers) \subseteq Nat
    BY <1>1, TTLAssumption DEF Response, TTLsIn, TTLs
  <1>7. ASSUME d.type = "positive", NEW t \in TTLsIn(e.value.answers) \ {0} PROVE n <= t
    BY <1>2, <1>3, <1>4, <1>6, <1>7
  <1> QED
    BY Zenon, <1>3, <1>4, <1>5, <1>6, <1>7, TTLAssumption

-----------------------------------------------------------------------------
(* The steps of the cache                                                  *)

\* The invariant holds of the empty cache.
LEMMA InvInit == Init => IInv
  BY DEF Init, IInv, Entered, Hits

\* Beginning a call changes nothing but the call.
LEMMA BeginInv ==
  ASSUME IInv, NEW c \in Callers, NEW p \in GetCall \cup SetCall, Begin(c, p),
         p \in SetCall => p.born <= clock
  PROVE  IInv'
  <1> USE DEF IInv, Begin
  <1>1. pending' \in [Callers -> GetCall \cup SetCall \cup {None}]
    BY Zenon
  <1>2. \A b \in Callers : Entered(b, "set")' => pending'[b].born <= clock
    <2>1. p.op = "set" => p \in SetCall
      BY Zenon DEF GetCall
    <2> QED
      BY Zenon, <2>1 DEF Entered
  <1>3. \A h \in Hits' : GoodHit(h)'
    BY Zenon DEF Hits
  <1> QED
    BY Zenon, <1>1, <1>2, <1>3 DEF Hits

\* What Set stores is a kept entry.
LEMMA EntryKept ==
  ASSUME IInv, NEW c \in Callers, Entered(c, "set")
  PROVE  pending[c] \in SetCall /\ pending[c].key \in Keys /\ entryOf(pending[c]) \in KeptEntry
  <1>1. pending[c] \in SetCall /\ pending[c].born <= clock /\ clock \in Nat
    BY Zenon DEF IInv, Entered, GetCall
  <1> QED
    BY Zenon, <1>1 DEF SetCall, KeptEntry, entryOf

\* Ending a call keeps the invariant if the map and the hit are in order.
LEMMA FinishInv ==
  ASSUME IInv, NEW c \in Callers, NEW hit, Finish(c, hit), hit # None => GoodHit(hit),
         data' \in [Keys -> KeptEntry \cup {None}]
  PROVE  IInv'
  <1> USE DEF IInv, Finish
  <1>1. pending' \in [Callers -> GetCall \cup SetCall \cup {None}]
    BY Zenon
  <1>2. \A b \in Callers : Entered(b, "set")' => pending'[b].born <= clock
    BY Zenon DEF Entered
  <1>3. \A h \in Hits' : GoodHit(h)
    BY Zenon DEF Hits
  <1> QED
    BY Zenon, <1>1, <1>2, <1>3

\* Every step of the cache keeps the invariant.
LEMMA InvNext == IInv /\ [Next]_vars => IInv'
  <1> SUFFICES ASSUME IInv, [Next]_vars PROVE IInv'
    BY Zenon
  <1>1. CASE Tick
    <2>1. clock \in Nat /\ clock' = clock + 1 /\ Hits' = {} /\ UNCHANGED <<pending, data>>
      BY Zenon, <1>1 DEF Tick, Hits, IInv
    <2>2. \A c \in Callers : Entered(c, "set") => pending[c].born \in Nat
      BY Zenon, EntryKept DEF SetCall
    <2>3. \A c \in Callers : Entered(c, "set")' => pending'[c].born <= clock'
      BY <2>1, <2>2 DEF IInv, Entered
    <2> QED
      BY <2>1, <2>3 DEF IInv
  <1>2. ASSUME NEW c \in Callers, NEW k \in Keys, GetBegin(c, k) PROVE IInv'
    <2> DEFINE p == [op |-> "get", key |-> k, now |-> clock]
    <2>1. p \in GetCall /\ p \notin SetCall
      BY Zenon DEF GetCall, SetCall, IInv
    <2> QED
      BY Zenon, <1>2, <2>1, BeginInv DEF GetBegin
  <1>3. ASSUME NEW c \in Callers, NEW k \in Keys, NEW r \in Responses, SetBegin(c, k, r) PROVE IInv'
    <2> DEFINE d == analyzeCacheDecision(r)
               n == capTTL(d.ttl, d.type)
               p == [op |-> "set", key |-> k, value |-> r, born |-> clock, type |-> d.type,
                     expires |-> clock + Second * n]
    <2>1. r \in Response /\ clock \in Nat
      BY Zenon, CacheAssumption DEF IInv
    <2>2. d.ttl \in Nat /\ d.type \in Types
      BY Zenon, <2>1, DecisionBounds
    <2>3. n \in Nat
      <3> HIDE DEF d
      <3> QED
        BY Zenon, <2>2, TTLAssumption DEF capTTL
    <2>4. d.ttl > 0 /\ Begin(c, p)
      BY Zenon, <1>3 DEF SetBegin
    <2>5. clock + Second * n \in Nat
      <3> HIDE DEF n
      <3> QED
        BY <2>1, <2>3, CacheAssumption
    <2>6. Lifetime(p.value, p.born, p.expires, p.type)
      BY Zenon, <2>4 DEF Lifetime
    <2>7. p \in SetCall /\ p.born <= clock
      <3> HIDE DEF n, d
      <3> QED
        BY <2>1, <2>2, <2>5, <2>6 DEF SetCall
    <2> HIDE DEF p
    <2> QED
      BY Zenon, <2>4, <2>7, BeginInv
  <1>4. ASSUME NEW c \in Callers, Get(c) PROVE IInv'
    <2>1. pending[c] \in GetCall /\ pending[c].key \in Keys /\ pending[c].now \in Nat
      BY Zenon, <1>4 DEF Get, GetAbsent, GetExpired, GetHit, Entered, IInv, GetCall, SetCall
    <2>2. CASE GetAbsent(c)
      BY Zenon, <2>2, FinishInv DEF GetAbsent, IInv
    <2>3. CASE GetExpired(c)
      <3>1. data' \in [Keys -> KeptEntry \cup {None}] /\ Finish(c, None)
        BY Zenon, <2>3 DEF GetExpired, IInv
      <3> QED
        BY Zenon, <3>1, FinishInv
    <2>4. CASE GetHit(c)
      <3> DEFINE e == data[pending[c].key]
                 t == pending[c].now
                 h == [entry |-> e, now |-> t,
                       response |-> adjustTTLs(e.value, (t - e.cachedAt) \div Second)]
      <3>1. e \in KeptEntry /\ ~expired(e, t) /\ Finish(c, h) /\ UNCHANGED data
        BY Zenon, <2>1, <2>4 DEF GetHit, IInv
      <3>2. GoodHit(h)
        <4> HIDE DEF e, t
        <4> QED
          BY Zenon, <2>1, <3>1 DEF GoodHit, t
      <3>3. data' \in [Keys -> KeptEntry \cup {None}]
        BY Zenon, <3>1 DEF IInv
      <3> HIDE DEF h
      <3> QED
        BY Zenon, <3>1, <3>2, <3>3, FinishInv
    <2> QED
      BY Zenon, <1>4, <2>2, <2>3, <2>4 DEF Get
  <1>5. ASSUME NEW c \in Callers, Set(c) PROVE IInv'
    <2> DEFINE k == pending[c].key
               e == entryOf(pending[c])
    <2>1. Entered(c, "set") /\ Finish(c, None)
      BY Zenon, <1>5 DEF Set, SetExisting, SetNew
    <2>2. k \in Keys /\ e \in KeptEntry
      BY Zenon, <2>1, EntryKept
    <2> HIDE DEF e
    <2>3. [data EXCEPT ![k] = e] \in [Keys -> KeptEntry \cup {None}]
      BY Zenon, <2>2 DEF IInv
    <2>4. \A j : [[data EXCEPT ![k] = e] EXCEPT ![j] = None] \in [Keys -> KeptEntry \cup {None}]
      BY Zenon, <2>3
    <2>5. data' \in [Keys -> KeptEntry \cup {None}]
      BY Zenon, <1>5, <2>3, <2>4 DEF Set, SetExisting, SetNew, evictOldest, e
    <2> QED
      BY Zenon, <2>1, <2>5, FinishInv
  <1>6. CASE UNCHANGED vars
    BY Zenon, <1>6 DEF IInv, vars, Entered, Hits
  <1> QED
    BY Zenon, <1>1, <1>2, <1>3, <1>4, <1>5, <1>6 DEF Next, Idle

\* Every hit is a kept entry that had not expired, at every moment.
THEOREM Invariance == Spec => []IInv
  BY InvInit, InvNext, PTL DEF Spec

-----------------------------------------------------------------------------

\* Nothing is served once a TTL that is not 0, or the cap, has run out.
THEOREM WithinTTL == Spec => []ServedWithinTTL
  <1>1. IInv => ServedWithinTTL
    <2> SUFFICES ASSUME IInv, NEW h \in Hits
                 PROVE  LET age == h.now - h.entry.born  r == h.entry.value
                        IN /\ h.entry.type = "positive" =>
                                /\ \A t \in TTLsIn(r.answers) \ {0} : age < Second * t
                                /\ age < Second * MaxTTL
                           /\ h.entry.type # "positive" => age < Second * MaxNegativeTTL
      BY Zenon DEF ServedWithinTTL
    <2>1. h.entry \in KeptEntry /\ h.now \in Nat /\ ~expired(h.entry, h.now)
      BY Zenon DEF IInv, GoodHit
    <2> QED
      BY Zenon, <2>1, Younger
  <1> QED
    BY <1>1, Invariance, PTL

\* The unsigned subtraction never wraps for an answer record that has a TTL.
THEOREM CountDown == Spec => []AnswerTTLsCountDown
  <1>1. IInv => AnswerTTLsCountDown
    <2> SUFFICES ASSUME IInv, NEW h \in Hits, NEW i \in DOMAIN h.entry.value.answers,
                        h.entry.type = "positive", h.entry.value.answers[i] > 0,
                        (h.now - h.entry.cachedAt) \div Second > 0
                 PROVE  /\ h.response.answers[i] =
                             h.entry.value.answers[i] - ((h.now - h.entry.cachedAt) \div Second)
                        /\ h.response.answers[i] > 0
      BY Zenon DEF AnswerTTLsCountDown
    <2> DEFINE e   == h.entry
               r   == e.value
               ttl == r.answers[i]
               age == (h.now - e.cachedAt) \div Second
    <2>1. /\ e \in KeptEntry /\ h.now \in Nat /\ ~expired(e, h.now)
          /\ h.response = adjustTTLs(r, age)
      BY Zenon DEF IInv, GoodHit
    <2>2. r \in Response /\ e.born \in Nat /\ e.cachedAt \in Nat /\ e.born <= e.cachedAt
      BY Zenon, <2>1, CacheAssumption DEF KeptEntry
    <2>3. ttl \in TTLs /\ ttl \in Nat /\ ttl < Word /\ ttl \in TTLsIn(r.answers) \ {0}
      <3>1. r.answers \in Seq(TTLs)
        BY Zenon, <2>2 DEF Response
      <3>2. ttl \in TTLs
        BY <3>1
      <3>3. ttl \in Nat /\ ttl < Word
        BY <3>2, TTLAssumption DEF TTLs
      <3>4. ttl \in TTLsIn(r.answers)
        BY Zenon DEF TTLsIn
      <3>5. ttl # 0
        BY <3>3
      <3> QED
        BY Zenon, <3>2, <3>3, <3>4, <3>5
    <2>4. h.now - e.born < Second * ttl
      BY Zenon, <2>1, <2>3, Younger
    <2>5. h.now >= e.cachedAt
      BY <2>1, <2>2, CacheAssumption
    <2>6. h.now - e.cachedAt \in Nat /\ h.now - e.cachedAt < Second * ttl
      <3>1. Second * ttl \in Nat
        BY <2>3, TicksMono
      <3> HIDE DEF ttl
      <3> QED
        BY <2>1, <2>2, <2>4, <2>5, <3>1
    <2>7. age \in Nat /\ age < ttl /\ age > 0
      BY Zenon, <2>3, <2>6, WholeSeconds
    <2>8. h.response.answers[i] = adjustTTL(ttl, age)
      <3> HIDE DEF age
      <3> QED
        BY <2>1, <2>2, <2>7 DEF adjustTTLs, Response
    <2> HIDE DEF age, ttl
    <2>9. ttl - age \in Nat /\ ttl - age < Word /\ ttl - age > 0
      BY <2>3, <2>7, TTLAssumption
    <2>10. adjustTTL(ttl, age) = ttl - age
      <3>1. (ttl - age) % Word = ttl - age
        BY Zenon, <2>9, WordExact
      <3> QED
        BY <2>9, <3>1 DEF adjustTTL
    <2> QED
      BY Zenon, <2>8, <2>9, <2>10 DEF age, ttl
  <1> QED
    BY <1>1, Invariance, PTL

-----------------------------------------------------------------------------
(* The list and the map                                                    *)

NoRepeats(s)    == \A i, j \in 1..Len(s) : s[i] = s[j] => i = j
InList(s, k)    == \E i \in 1..Len(s) : s[i] = k
Before(s, j, k) == \E i, h \in 1..Len(s) : i < h /\ s[i] = j /\ s[h] = k

\* The list s has every key of the map d once, in the order u of their last use.
Lists(d, s, u) ==
    /\ s \in Seq(Keys) /\ NoRepeats(s)
    /\ \A k \in Keys : InList(s, k) <=> d[k] # None
    /\ \A j, k \in Keys : Before(s, j, k) => <<j, k>> \in u

ListInv ==
    /\ TypeOK
    /\ \A c \in Callers : Entered(c, "get") => pending[c].now <= clock
    /\ Lists(data, lru, since)
    /\ Len(lru) <= MaxEntries

\* list.Remove of a key's element leaves the others, in their order.
LEMMA WithoutList ==
  ASSUME NEW s \in Seq(Keys), NoRepeats(s), NEW k \in Keys, InList(s, k)
  PROVE  /\ Without(s, k) \in Seq(Keys) /\ Len(Without(s, k)) = Len(s) - 1
         /\ NoRepeats(Without(s, k))
         /\ \A x \in Keys : InList(Without(s, k), x) <=> InList(s, x) /\ x # k
         /\ \A x, y \in Keys : Before(Without(s, k), x, y) => Before(s, x, y) /\ x # k /\ y # k
  <1> DEFINE p == CHOOSE i \in DOMAIN s : s[i] = k
             t == Without(s, k)
  <1>1. p \in 1..Len(s) /\ s[p] = k
    BY DEF InList
  <1>2. Len(s) \in Nat /\ Len(s) - 1 \in Nat
    BY <1>1
  <1>3. t = [j \in 1..(Len(s) - 1) |-> s[IF j < p THEN j ELSE j + 1]]
    BY Zenon DEF Without
  <1> HIDE DEF p, t
  <1>4. \A j \in 1..(Len(s) - 1) : (IF j < p THEN j ELSE j + 1) \in 1..Len(s)
    BY <1>1, <1>2
  <1>5. t \in Seq(Keys) /\ Len(t) = Len(s) - 1
    BY <1>2, <1>3, <1>4
  <1>6. \A j \in 1..Len(t) : t[j] = s[IF j < p THEN j ELSE j + 1]
    BY Zenon, <1>3, <1>5
  <1>7. NoRepeats(t)
    <2>1. ASSUME NEW i \in 1..Len(t), NEW j \in 1..Len(t), t[i] = t[j] PROVE i = j
      <3> DEFINE a == IF i < p THEN i ELSE i + 1
                 b == IF j < p THEN j ELSE j + 1
      <3>1. a \in 1..Len(s) /\ b \in 1..Len(s)
        BY Zenon, <1>4, <1>5
      <3>2. s[a] = s[b]
        BY Zenon, <1>6, <2>1
      <3>3. a = b
        <4> HIDE DEF a, b
        <4> QED
          BY Zenon, <3>1, <3>2 DEF NoRepeats
      <3>4. i \in Nat /\ j \in Nat /\ p \in Nat
        BY <1>1, <1>2, <1>5
      <3> QED
        BY SMTT(30), <3>3, <3>4
    <2> QED
      BY Zenon, <2>1 DEF NoRepeats
  <1>8. ASSUME NEW j \in 1..Len(t) PROVE t[j] # k
    <2>1. (IF j < p THEN j ELSE j + 1) # p
      BY SMTT(30), <1>1, <1>2, <1>5
    <2> DEFINE a == IF j < p THEN j ELSE j + 1
    <2>2. a \in 1..Len(s) /\ t[j] = s[a] /\ a # p
      BY Zenon, <1>4, <1>5, <1>6, <2>1
    <2> HIDE DEF a
    <2> QED
      BY Zenon, <1>1, <2>2 DEF NoRepeats
  <1>9. ASSUME NEW x \in Keys PROVE InList(t, x) <=> InList(s, x) /\ x # k
    <2>1. InList(t, x) => InList(s, x) /\ x # k
      BY Zenon, <1>2, <1>4, <1>5, <1>6, <1>8 DEF InList
    <2>2. ASSUME NEW i \in 1..Len(s), s[i] = x, x # k PROVE InList(t, x)
      <3>1. CASE i < p
        <4>1. i \in 1..Len(t) /\ t[i] = s[i]
          BY <1>1, <1>2, <1>5, <1>6, <3>1
        <4> QED
          BY Zenon, <2>2, <4>1 DEF InList
      <3>2. CASE ~(i < p)
        <4>1. i - 1 \in 1..Len(t) /\ ~(i - 1 < p) /\ (i - 1) + 1 = i
          BY <1>1, <1>2, <1>5, <2>2, <3>2
        <4>2. t[i - 1] = s[i]
          BY Zenon, <1>6, <4>1
        <4> QED
          BY Zenon, <2>2, <4>1, <4>2 DEF InList
      <3> QED
        BY Zenon, <3>1, <3>2
    <2> QED
      BY Zenon, <2>1, <2>2 DEF InList
  <1>10. ASSUME NEW x \in Keys, NEW y \in Keys, Before(t, x, y)
         PROVE  Before(s, x, y) /\ x # k /\ y # k
    <2>1. PICK i \in 1..Len(t), h \in 1..Len(t) : i < h /\ t[i] = x /\ t[h] = y
      BY Zenon, <1>10 DEF Before
    <2> DEFINE a == IF i < p THEN i ELSE i + 1
               b == IF h < p THEN h ELSE h + 1
    <2>2. a \in 1..Len(s) /\ b \in 1..Len(s) /\ a < b
      BY <1>1, <1>2, <1>4, <1>5, <2>1
    <2>3. s[a] = x /\ s[b] = y
      BY Zenon, <1>6, <2>1
    <2> HIDE DEF a, b
    <2> QED
      BY Zenon, <1>8, <2>1, <2>2, <2>3 DEF Before
  <1> QED
    BY Zenon, <1>5, <1>7, <1>9, <1>10 DEF t

\* PushBack of a key that has no element puts it after all the others.
LEMMA AppendList ==
  ASSUME NEW s \in Seq(Keys), NoRepeats(s), NEW k \in Keys, ~InList(s, k)
  PROVE  /\ Append(s, k) \in Seq(Keys) /\ Len(Append(s, k)) = Len(s) + 1
         /\ NoRepeats(Append(s, k))
         /\ \A x \in Keys : InList(Append(s, k), x) <=> InList(s, x) \/ x = k
         /\ \A x, y \in Keys : Before(Append(s, k), x, y) =>
                                  x # k /\ (Before(s, x, y) \/ y = k)
  <1> DEFINE t == Append(s, k)
             n == Len(s)
  <1>1. /\ n \in Nat /\ t \in Seq(Keys) /\ Len(t) = n + 1 /\ t[n + 1] = k
        /\ \A i \in 1..n : t[i] = s[i]
    OBVIOUS
  <1>2. \A i \in 1..n : t[i] # k
    BY Zenon, <1>1 DEF InList
  <1> HIDE DEF t
  <1>3. \A i \in 1..Len(t) : i \in 1..n \/ i = n + 1
    BY <1>1
  <1>4. 1..n \subseteq 1..Len(t) /\ n + 1 \in 1..Len(t)
    BY <1>1
  <1>5. \A i, j \in 1..n : s[i] = s[j] => i = j
    BY Zenon DEF NoRepeats
  <1>6. NoRepeats(t)
    BY <1>1, <1>2, <1>3, <1>5, Zenon DEF NoRepeats
  <1>7. \A x \in Keys : InList(t, x) <=> InList(s, x) \/ x = k
    <2> HIDE DEF n
    <2> QED
      BY <1>1, <1>3, <1>4, Zenon DEF InList, n
  <1>8. ASSUME NEW x \in Keys, NEW y \in Keys, Before(t, x, y)
        PROVE  x # k /\ (Before(s, x, y) \/ y = k)
    <2>1. PICK i \in 1..Len(t), h \in 1..Len(t) : i < h /\ t[i] = x /\ t[h] = y
      BY Zenon, <1>8 DEF Before
    <2>2. i \in 1..n
      BY <1>1, <2>1
    <2>3. CASE h \in 1..n
      BY Zenon, <1>1, <1>2, <2>1, <2>2, <2>3 DEF Before
    <2>4. CASE h = n + 1
      BY Zenon, <1>1, <1>2, <2>1, <2>2, <2>4
    <2> QED
      BY Zenon, <1>3, <2>3, <2>4
  <1> QED
    BY Zenon, <1>1, <1>6, <1>7, <1>8 DEF t

\* Removing the front element leaves the others, all of them behind it before.
LEMMA TailList ==
  ASSUME NEW s \in Seq(Keys), NoRepeats(s), s # <<>>
  PROVE  /\ Head(s) \in Keys /\ Tail(s) \in Seq(Keys) /\ Len(Tail(s)) = Len(s) - 1
         /\ NoRepeats(Tail(s))
         /\ InList(s, Head(s))
         /\ \A x \in Keys : InList(Tail(s), x) <=> InList(s, x) /\ x # Head(s)
         /\ \A x \in Keys : InList(Tail(s), x) => Before(s, Head(s), x)
         /\ \A x, y \in Keys : Before(Tail(s), x, y) => Before(s, x, y) /\ x # Head(s)
  <1> DEFINE t == Tail(s)
             n == Len(s)
  <1>1. /\ n \in Nat /\ n > 0 /\ Head(s) = s[1] /\ Head(s) \in Keys /\ t \in Seq(Keys) /\ Len(t) = n - 1
        /\ \A i \in 1..(n - 1) : t[i] = s[i + 1]
    OBVIOUS
  <1> HIDE DEF t
  <1>2. /\ 1 \in 1..n
        /\ \A i \in 1..Len(t) : i + 1 \in 1..n /\ i + 1 > 1 /\ t[i] = s[i + 1]
        /\ \A i \in 1..n : i # 1 => i - 1 \in 1..Len(t) /\ (i - 1) + 1 = i
    BY <1>1
  <1>3. \A i \in 1..n : i # 1 => i - 1 \in 1..Len(t) /\ t[i - 1] = s[i]
    BY Zenon, <1>2
  <1>4. NoRepeats(t)
    BY <1>1, <1>2 DEF NoRepeats
  <1>5. \A i \in 1..Len(t) : t[i] # s[1]
    BY <1>2 DEF NoRepeats
  <1>6. ASSUME NEW x \in Keys PROVE InList(t, x) <=> InList(s, x) /\ x # s[1]
    <2>1. InList(t, x) => InList(s, x) /\ x # s[1]
      BY Zenon, <1>2, <1>5 DEF InList
    <2>2. InList(s, x) /\ x # s[1] => InList(t, x)
      BY Zenon, <1>3 DEF InList
    <2> QED
      BY Zenon, <2>1, <2>2
  <1>7. \A x \in Keys : InList(t, x) => Before(s, s[1], x)
    BY Zenon, <1>2 DEF InList, Before
  <1>8. ASSUME NEW x \in Keys, NEW y \in Keys, Before(t, x, y)
        PROVE  Before(s, x, y) /\ x # s[1]
    <2>1. PICK i \in 1..Len(t), h \in 1..Len(t) : i < h /\ t[i] = x /\ t[h] = y
      BY Zenon, <1>8 DEF Before
    <2>2. i + 1 \in 1..n /\ h + 1 \in 1..n /\ i + 1 < h + 1
      BY <1>2, <2>1
    <2> QED
      BY Zenon, <1>2, <1>5, <2>1, <2>2 DEF Before
  <1>9. InList(s, s[1])
    BY Zenon, <1>2 DEF InList
  <1> QED
    BY Zenon, <1>1, <1>4, <1>6, <1>7, <1>8, <1>9 DEF t
\* The list is as long as the map is large.
LEMMA Counted ==
  ASSUME NEW d, NEW s, NEW u, Lists(d, s, u)
  PROVE  {s[i] : i \in DOMAIN s} = cached(d) /\ Len(s) = Cardinality(cached(d))
  <1> USE DEF Lists
  <1>1. {s[i] : i \in DOMAIN s} = cached(d)
    BY DEF cached, InList
  <1>2. s \in Bijection(1..Len(s), cached(d))
    <2>1. s \in [1..Len(s) -> cached(d)]
      BY <1>1
    <2>2. s \in Injection(1..Len(s), cached(d))
      BY Zenon, <2>1 DEF NoRepeats, Injection, IsInjective
    <2>3. s \in Surjection(1..Len(s), cached(d))
      BY Zenon, <1>1, <2>1 DEF Surjection
    <2> QED
      BY Zenon, <2>2, <2>3 DEF Bijection
  <1>3. Len(s) \in Nat /\ ExistsBijection(1..Len(s), cached(d))
    BY <1>2 DEF ExistsBijection
  <1> QED
    BY Zenon, <1>1, <1>3, FS_CountingElements

\* What it takes for a key's use to be recorded.
LEMMA UsedFacts ==
  ASSUME NEW k \in Keys
  PROVE  /\ \A x, y \in Keys : x # k /\ <<x, y>> \in since => <<x, y>> \in Used(k)
         /\ \A x \in Keys : x # k => <<x, k>> \in Used(k)
  BY Zenon DEF Used

\* An entry that goes takes its element along.
LEMMA RemoveList ==
  ASSUME Lists(data, lru, since), data \in [Keys -> Entry \cup {None}],
         NEW k \in Keys, data[k] # None
  PROVE  /\ Lists([data EXCEPT ![k] = None], Without(lru, k), since)
         /\ Len(Without(lru, k)) = Len(lru) - 1
  <1>1. lru \in Seq(Keys) /\ NoRepeats(lru) /\ InList(lru, k)
    BY Zenon DEF Lists
  <1>2. /\ Without(lru, k) \in Seq(Keys) /\ Len(Without(lru, k)) = Len(lru) - 1
        /\ NoRepeats(Without(lru, k))
        /\ \A x \in Keys : InList(Without(lru, k), x) <=> InList(lru, x) /\ x # k
        /\ \A x, y \in Keys : Before(Without(lru, k), x, y) => Before(lru, x, y) /\ x # k /\ y # k
    BY Zenon, <1>1, WithoutList
  <1>3. \A x \in Keys : [data EXCEPT ![k] = None][x] = IF x = k THEN None ELSE data[x]
    BY Zenon
  <1> QED
    BY <1>2, <1>3, Zenon DEF Lists

\* A hit, or a replaced entry, moves the key's element behind all the others.
LEMMA MoveList ==
  ASSUME Lists(data, lru, since), NEW k \in Keys, data[k] # None,
         NEW d, \A x \in Keys : d[x] # None <=> data[x] # None
  PROVE  Lists(d, MoveToBack(lru, k), Used(k)) /\ Len(MoveToBack(lru, k)) = Len(lru)
  <1> DEFINE t == Without(lru, k)
  <1>1. lru \in Seq(Keys) /\ NoRepeats(lru) /\ InList(lru, k)
    BY Zenon DEF Lists
  <1>2. /\ t \in Seq(Keys) /\ Len(t) = Len(lru) - 1 /\ NoRepeats(t)
        /\ \A x \in Keys : InList(t, x) <=> InList(lru, x) /\ x # k
        /\ \A x, y \in Keys : Before(t, x, y) => Before(lru, x, y) /\ x # k /\ y # k
    BY Zenon, <1>1, WithoutList
  <1> HIDE DEF t
  <1>3. ~InList(t, k)
    BY Zenon, <1>2
  <1>4. /\ Append(t, k) \in Seq(Keys) /\ Len(Append(t, k)) = Len(t) + 1
        /\ NoRepeats(Append(t, k))
        /\ \A x \in Keys : InList(Append(t, k), x) <=> InList(t, x) \/ x = k
        /\ \A x, y \in Keys : Before(Append(t, k), x, y) => x # k /\ (Before(t, x, y) \/ y = k)
    BY Zenon, <1>2, <1>3, AppendList
  <1>5. \A x \in Keys : InList(Append(t, k), x) <=> d[x] # None
    BY Zenon, <1>1, <1>2, <1>4 DEF Lists
  <1>6. \A x, y \in Keys : Before(Append(t, k), x, y) => <<x, y>> \in Used(k)
    BY <1>2, <1>4, UsedFacts, Zenon DEF Lists
  <1>7. Len(Append(t, k)) = Len(lru)
    BY <1>1, <1>2, <1>4
  <1> QED
    BY Zenon, <1>4, <1>5, <1>6, <1>7 DEF Lists, MoveToBack, t

\* A new entry's element goes behind all the others.
LEMMA PushList ==
  ASSUME Lists(data, lru, since), data \in [Keys -> Entry \cup {None}],
         NEW k \in Keys, data[k] = None, NEW e \in Entry
  PROVE  Lists([data EXCEPT ![k] = e], Append(lru, k), Used(k)) /\ Len(Append(lru, k)) = Len(lru) + 1
  <1>1. lru \in Seq(Keys) /\ NoRepeats(lru) /\ ~InList(lru, k)
    BY Zenon DEF Lists
  <1>2. /\ Append(lru, k) \in Seq(Keys) /\ Len(Append(lru, k)) = Len(lru) + 1
        /\ NoRepeats(Append(lru, k))
        /\ \A x \in Keys : InList(Append(lru, k), x) <=> InList(lru, x) \/ x = k
        /\ \A x, y \in Keys : Before(Append(lru, k), x, y) => x # k /\ (Before(lru, x, y) \/ y = k)
    BY Zenon, <1>1, AppendList
  <1>3. /\ \A x \in Keys : [data EXCEPT ![k] = e][x] = IF x = k THEN e ELSE data[x]
        /\ e # None
    BY Zenon, NoneAssumption
  <1>4. \A x \in Keys : InList(Append(lru, k), x) <=> [data EXCEPT ![k] = e][x] # None
    BY <1>2, <1>3, Zenon DEF Lists
  <1>5. \A x, y \in Keys : Before(Append(lru, k), x, y) => <<x, y>> \in Used(k)
    BY <1>2, UsedFacts, Zenon DEF Lists
  <1> QED
    BY <1>2, <1>4, <1>5, Zenon DEF Lists

\* evictOldest takes the front element and its entry.
LEMMA EvictList ==
  ASSUME NEW d \in [Keys -> Entry \cup {None}], NEW s, NEW u, Lists(d, s, u), s # <<>>
  PROVE  Lists([d EXCEPT ![Head(s)] = None], Tail(s), u) /\ Len(Tail(s)) = Len(s) - 1
  <1>1. s \in Seq(Keys) /\ NoRepeats(s)
    BY Zenon DEF Lists
  <1>2. /\ Head(s) \in Keys /\ Tail(s) \in Seq(Keys) /\ Len(Tail(s)) = Len(s) - 1
        /\ NoRepeats(Tail(s))
        /\ \A x \in Keys : InList(Tail(s), x) <=> InList(s, x) /\ x # Head(s)
        /\ \A x, y \in Keys : Before(Tail(s), x, y) => Before(s, x, y) /\ x # Head(s)
    BY Zenon, <1>1, TailList
  <1>3. \A x \in Keys : [d EXCEPT ![Head(s)] = None][x] = IF x = Head(s) THEN None ELSE d[x]
    BY Zenon, <1>2
  <1> QED
    BY <1>2, <1>3, Zenon DEF Lists
-----------------------------------------------------------------------------
(* The steps of the list                                                   *)

\* adjustTTLs gives a response: every TTL stays within its width.
LEMMA AdjustedType ==
  ASSUME NEW r \in Response, NEW age \in Int
  PROVE  adjustTTLs(r, age) \in Response
  <1>1. \A ttl \in TTLs : adjustTTL(ttl, age) \in TTLs
    <2> SUFFICES ASSUME NEW ttl \in TTLs PROVE adjustTTL(ttl, age) \in TTLs
      BY Zenon
    <2>1. Word \in Nat /\ Word > 1 /\ ttl - age \in Int
      BY TTLAssumption DEF TTLs
    <2>2. (ttl - age) % Word \in 0..(Word - 1)
      BY <2>1
    <2> QED
      BY <2>1, <2>2 DEF adjustTTL, TTLs
  <1>2. ASSUME NEW s \in Seq(TTLs) PROVE [i \in DOMAIN s |-> adjustTTL(s[i], age)] \in Seq(TTLs)
    <2>1. DOMAIN s = 1..Len(s) /\ Len(s) \in Nat /\ \A i \in 1..Len(s) : s[i] \in TTLs
      OBVIOUS
    <2>2. \A i \in 1..Len(s) : adjustTTL(s[i], age) \in TTLs
      BY Zenon, <1>1, <2>1
    <2> QED
      BY <2>1, <2>2
  <1>3. r.answers \in Seq(TTLs) /\ r.others \in Seq(TTLs)
    BY Zenon DEF Response
  <1> DEFINE a == [i \in DOMAIN r.answers |-> adjustTTL(r.answers[i], age)]
             o == [i \in DOMAIN r.others |-> adjustTTL(r.others[i], age)]
  <1>4. a \in Seq(TTLs) /\ o \in Seq(TTLs)
    BY Zenon, <1>2, <1>3
  <1>5. adjustTTLs(r, age) = IF age <= 0 THEN r ELSE [r EXCEPT !.answers = a, !.others = o]
    BY Zenon DEF adjustTTLs
  <1> HIDE DEF a, o
  <1> DEFINE q == [r EXCEPT !.answers = a]
  <1>6. q \in Response
    BY Zenon, <1>4 DEF Response
  <1> HIDE DEF q
  <1>7. [q EXCEPT !.others = o] \in Response
    BY Zenon, <1>4, <1>6 DEF Response
  <1> QED
    BY Zenon, <1>5, <1>7 DEF q

\* What a call that has begun looks like.
LEMMA CallTypes ==
  ASSUME TypeOK, NEW c \in Callers
  PROVE  /\ Entered(c, "get") => pending[c] \in [op : {"get"}, key : Keys, now : Time]
         /\ Entered(c, "set") =>
              pending[c].key \in Keys /\ entryOf(pending[c]) \in Entry
  <1>1. pending[c] \in Call \cup {None} /\ clock \in Time
    BY Zenon DEF TypeOK
  <1>2. Entered(c, "get") => pending[c] \in [op : {"get"}, key : Keys, now : Time]
    BY Zenon, <1>1 DEF Entered, Call
  <1>3. Entered(c, "set") =>
          pending[c] \in [op : {"set"}, key : Keys, value : Responses, born : Time,
                          expires : Until, type : Types]
    BY Zenon, <1>1 DEF Entered, Call
  <1>4. Entered(c, "set") => pending[c].key \in Keys /\ entryOf(pending[c]) \in Entry
    BY Zenon, <1>1, <1>3 DEF entryOf, Entry
  <1> QED
    BY Zenon, <1>2, <1>4

\* The empty cache is in order.
LEMMA ListInit == Init => ListInv
  <1> SUFFICES ASSUME Init PROVE ListInv
    BY Zenon
  <1>1. TypeOK
    BY CacheAssumption DEF Init, TypeOK, Time
  <1>2. \A c \in Callers : ~Entered(c, "get")
    BY Zenon DEF Init, Entered
  <1>3. Len(lru) = 0 /\ lru \in Seq(Keys) /\ 1..Len(lru) = {}
    BY DEF Init
  <1>4. Lists(data, lru, since)
    BY Zenon, <1>3 DEF Init, Lists, NoRepeats, InList, Before
  <1> QED
    BY <1>1, <1>2, <1>3, <1>4, CacheAssumption DEF ListInv

\* Beginning a call leaves the list and the map alone.
LEMMA ListBegin ==
  ASSUME ListInv, NEW c \in Callers, NEW p \in Call, Begin(c, p), p.op = "get" => p.now <= clock
  PROVE  ListInv'
  <1>1. UNCHANGED <<clock, data, lru, since>> /\ served' = None
    BY Zenon DEF Begin
  <1>2. pending' \in [Callers -> Call \cup {None}]
    BY Zenon DEF Begin, ListInv, TypeOK
  <1>3. TypeOK'
    BY Zenon, <1>1, <1>2 DEF ListInv, TypeOK
  <1>4. \A b \in Callers : Entered(b, "get")' => pending'[b].now <= clock'
    BY Zenon, <1>1 DEF Begin, ListInv, TypeOK, Entered
  <1>5. Lists(data, lru, since)' /\ Len(lru') <= MaxEntries
    BY Zenon, <1>1 DEF ListInv, Lists
  <1> QED
    BY Zenon, <1>3, <1>4, <1>5 DEF ListInv

\* Ending a call keeps the order if what it did to the list and the map does.
LEMMA ListFinish ==
  ASSUME ListInv, NEW c \in Callers, NEW hit \in Hit \cup {None}, Finish(c, hit),
         data' \in [Keys -> Entry \cup {None}], since' \subseteq Keys \X Keys,
         Lists(data', lru', since'), Len(lru') <= MaxEntries
  PROVE  ListInv'
  <1>1. UNCHANGED clock /\ served' = hit
    BY Zenon DEF Finish
  <1>2. pending' \in [Callers -> Call \cup {None}]
    BY Zenon DEF Finish, ListInv, TypeOK
  <1>3. lru' \in Seq(Keys)
    BY Zenon DEF Lists
  <1>4. TypeOK'
    BY Zenon, <1>1, <1>2, <1>3 DEF ListInv, TypeOK
  <1>5. \A b \in Callers : Entered(b, "get")' => pending'[b].now <= clock'
    BY Zenon, <1>1 DEF Finish, ListInv, TypeOK, Entered
  <1>6. Lists(data, lru, since)'
    BY Zenon DEF Lists
  <1> QED
    BY Zenon, <1>4, <1>5, <1>6 DEF ListInv

\* What a set of a new key leaves, and what it evicts.
LEMMA SetNewList ==
  ASSUME ListInv, NEW c \in Callers, SetNew(c)
  PROVE  LET k == pending[c].key
             e == entryOf(pending[c])
         IN /\ k \in Keys /\ e \in Entry /\ data[k] = None
            /\ Lists(data', lru', since') /\ Len(lru') <= MaxEntries
            /\ \/ data' = [data EXCEPT ![k] = e]
               \/ /\ Len(lru) = MaxEntries /\ Head(lru) # k /\ Head(lru) \in Keys
                  /\ data' = [[data EXCEPT ![k] = e] EXCEPT ![Head(lru)] = None]
                  /\ \A j \in Keys : InList(lru, j) /\ j # Head(lru) => Before(lru, Head(lru), j)
  <1> DEFINE k == pending[c].key
             e == entryOf(pending[c])
             d == [data EXCEPT ![k] = e]
             s == Append(lru, k)
  <1>1. /\ Lists(data, lru, since) /\ data \in [Keys -> Entry \cup {None}]
        /\ Len(lru) <= MaxEntries /\ lru \in Seq(Keys) /\ NoRepeats(lru)
    BY Zenon DEF ListInv, TypeOK, Lists
  <1>2. /\ Entered(c, "set") /\ data[k] = None /\ since' = Used(k)
        /\ data' = evictOldest(d, s).data /\ lru' = evictOldest(d, s).lru
    BY Zenon DEF SetNew
  <1>3. k \in Keys /\ e \in Entry
    BY <1>2, CallTypes, Zenon DEF ListInv
  <1>4. Lists(d, s, Used(k)) /\ Len(s) = Len(lru) + 1
    BY <1>1, <1>2, <1>3, PushList, Zenon
  <1>5. Cardinality(cached(d)) = Len(s)
    BY <1>4, Counted, Zenon
  <1>6. d \in [Keys -> Entry \cup {None}]
    BY Zenon, <1>1, <1>3
  <1>7. Len(lru) \in Nat /\ MaxEntries \in Nat /\ MaxEntries > 0
    BY <1>1, CacheAssumption
  <1>8. CASE Len(s) > MaxEntries
    <2>1. Len(lru) = MaxEntries /\ lru # <<>> /\ s # <<>>
      BY <1>1, <1>4, <1>7, <1>8
    <2>2. Head(s) = Head(lru)
      BY <1>1, <1>3, <2>1
    <2>3. /\ Head(lru) \in Keys /\ InList(lru, Head(lru))
          /\ \A x \in Keys : InList(Tail(lru), x) <=> InList(lru, x) /\ x # Head(lru)
          /\ \A x \in Keys : InList(Tail(lru), x) => Before(lru, Head(lru), x)
      BY <1>1, <2>1, TailList, Zenon
    <2>4. Head(lru) # k
      BY <1>1, <1>2, <1>3, <2>3, Zenon DEF Lists
    <2>5. Lists([d EXCEPT ![Head(s)] = None], Tail(s), Used(k)) /\ Len(Tail(s)) = Len(s) - 1
      BY <1>4, <1>6, <2>1, EvictList, Zenon
    <2>6. data' = [d EXCEPT ![Head(s)] = None] /\ lru' = Tail(s)
      <3> HIDE DEF d, s
      <3> QED
        BY Zenon, <1>2, <1>5, <1>8 DEF evictOldest
    <2>7. Len(lru') <= MaxEntries
      <3> HIDE DEF d, s
      <3> QED
        BY <1>4, <1>7, <2>1, <2>5, <2>6
    <2> HIDE DEF k, e
    <2> QED
      BY <1>2, <1>3, <2>1, <2>2, <2>3, <2>4, <2>5, <2>6, <2>7, Zenon DEF k, e
  <1>9. CASE ~(Len(s) > MaxEntries)
    <2>1. data' = d /\ lru' = s
      <3> HIDE DEF d, s
      <3> QED
        BY Zenon, <1>2, <1>5, <1>9 DEF evictOldest
    <2>2. Len(lru') <= MaxEntries
      <3> HIDE DEF d, s
      <3> QED
        BY <1>4, <1>7, <1>9, <2>1
    <2> QED
      BY <1>2, <1>3, <1>4, <2>1, <2>2, Zenon
  <1> QED
    BY <1>8, <1>9, Zenon
\* Get keeps the list in order.
LEMMA ListGet ==
  ASSUME ListInv, NEW c \in Callers, Get(c)
  PROVE  ListInv'
  <1> DEFINE k == pending[c].key
             t == pending[c].now
             e == data[k]
  <1>1. /\ data \in [Keys -> Entry \cup {None}] /\ since \subseteq Keys \X Keys
        /\ Lists(data, lru, since) /\ Len(lru) <= MaxEntries
    BY Zenon DEF ListInv, TypeOK
  <1>2. lru \in Seq(Keys) /\ Len(lru) \in Nat /\ MaxEntries \in Nat
    BY <1>1, CacheAssumption DEF Lists
  <1>3. Entered(c, "get")
    BY Zenon DEF Get, GetAbsent, GetExpired, GetHit
  <1>4. pending[c] \in [op : {"get"}, key : Keys, now : Time]
    BY <1>3, CallTypes, Zenon DEF ListInv
  <1>5. k \in Keys /\ t \in Time
    BY Zenon, <1>4
  <1>6. CASE GetAbsent(c)
    <2>1. Finish(c, None) /\ UNCHANGED <<data, lru, since>>
      BY <1>6, Zenon DEF GetAbsent
    <2>2. Lists(data', lru', since') /\ Len(lru') <= MaxEntries
      BY <1>1, <2>1, Zenon
    <2> QED
      BY <1>1, <2>1, <2>2, ListFinish, Zenon
  <1>7. CASE GetExpired(c)
    <2>1. /\ e # None /\ lru' = Without(lru, k) /\ data' = [data EXCEPT ![k] = None]
          /\ Finish(c, None) /\ since' = since
      BY <1>7, Zenon DEF GetExpired
    <2>2. Lists(data', lru', since') /\ Len(lru') = Len(lru) - 1
      BY <1>1, <1>5, <2>1, RemoveList, Zenon
    <2>3. Len(lru') <= MaxEntries
      BY <1>1, <1>2, <2>2
    <2>4. data' \in [Keys -> Entry \cup {None}]
      BY Zenon, <1>1, <2>1
    <2> QED
      BY <1>1, <2>1, <2>2, <2>3, <2>4, ListFinish, Zenon
  <1>8. CASE GetHit(c)
    <2> DEFINE age == (t - e.cachedAt) \div Second
               h   == [entry |-> e, now |-> t, response |-> adjustTTLs(e.value, age)]
    <2>1. /\ e # None /\ lru' = MoveToBack(lru, k) /\ since' = Used(k)
          /\ Finish(c, h) /\ data' = data
      BY <1>8, Zenon DEF GetHit
    <2>2. Lists(data', lru', since') /\ Len(lru') <= MaxEntries
      BY <1>1, <1>5, <2>1, MoveList, Zenon
    <2>3. since' \subseteq Keys \X Keys
      BY <1>1, <1>5, <2>1 DEF Used
    <2>4. h \in Hit
      <3>1. e \in Entry
        BY Zenon, <1>1, <1>5, <2>1
      <3> HIDE DEF e
      <3>2. e.value \in Response /\ e.cachedAt \in Nat /\ t \in Nat
        BY <1>5, <3>1, CacheAssumption DEF Entry, Time
      <3>3. age \in Int
        <4> HIDE DEF t
        <4> QED
          BY <3>2, CacheAssumption
      <3> HIDE DEF age
      <3>4. adjustTTLs(e.value, age) \in Response
        BY Zenon, <3>2, <3>3, AdjustedType
      <3> QED
        BY Zenon, <1>5, <3>1, <3>4 DEF Hit
    <2> HIDE DEF h
    <2> QED
      BY <1>1, <2>1, <2>2, <2>3, <2>4, ListFinish, Zenon
  <1> QED
    BY <1>6, <1>7, <1>8, Zenon DEF Get

\* Set keeps the list in order.
LEMMA ListSet ==
  ASSUME ListInv, NEW c \in Callers, Set(c)
  PROVE  ListInv'
  <1> DEFINE k == pending[c].key
             e == entryOf(pending[c])
  <1>1. /\ data \in [Keys -> Entry \cup {None}] /\ since \subseteq Keys \X Keys
        /\ Lists(data, lru, since) /\ Len(lru) <= MaxEntries
    BY Zenon DEF ListInv, TypeOK
  <1>2. Entered(c, "set") /\ Finish(c, None) /\ since' = Used(k)
    BY Zenon DEF Set, SetExisting, SetNew
  <1>3. k \in Keys /\ e \in Entry
    BY <1>2, CallTypes, Zenon DEF ListInv
  <1>4. since' \subseteq Keys \X Keys
    BY <1>1, <1>2, <1>3 DEF Used
  <1> HIDE DEF e
  <1>5. [data EXCEPT ![k] = e] \in [Keys -> Entry \cup {None}]
    BY Zenon, <1>1, <1>3
  <1>6. CASE SetExisting(c)
    <2>1. data[k] # None /\ data' = [data EXCEPT ![k] = e] /\ lru' = MoveToBack(lru, k)
      BY <1>6, Zenon DEF SetExisting, e
    <2>2. \A x \in Keys : data'[x] # None <=> data[x] # None
      BY Zenon, <1>1, <1>3, <2>1, NoneAssumption
    <2>3. Lists(data', lru', since') /\ Len(lru') <= MaxEntries
      BY <1>1, <1>2, <1>3, <2>1, <2>2, MoveList, Zenon
    <2> QED
      BY <1>2, <1>4, <1>5, <2>1, <2>3, ListFinish, Zenon
  <1>7. CASE SetNew(c)
    <2>1. /\ Lists(data', lru', since') /\ Len(lru') <= MaxEntries
          /\ \/ data' = [data EXCEPT ![k] = e]
             \/ data' = [[data EXCEPT ![k] = e] EXCEPT ![Head(lru)] = None]
      BY <1>7, SetNewList, Zenon DEF e
    <2>2. data' \in [Keys -> Entry \cup {None}]
      BY Zenon, <1>5, <2>1
    <2> QED
      BY <1>2, <1>4, <2>1, <2>2, ListFinish, Zenon
  <1> QED
    BY <1>6, <1>7, Zenon DEF Set

\* Every step of the cache keeps the list in order.
LEMMA ListNext == ListInv /\ [Next]_vars => ListInv'
  <1> SUFFICES ASSUME ListInv, [Next]_vars PROVE ListInv'
    BY Zenon
  <1>1. clock \in Nat /\ MaxClock \in Nat /\ clock <= MaxClock
    BY CacheAssumption DEF ListInv, TypeOK, Time
  <1>2. CASE Tick
    <2>1. clock' = clock + 1 /\ clock < MaxClock /\ served' = None /\ UNCHANGED <<pending, data, lru, since>>
      BY <1>2, Zenon DEF Tick
    <2>2. clock' \in Time
      BY <1>1, <2>1 DEF Time
    <2>3. TypeOK'
      BY Zenon, <2>1, <2>2 DEF ListInv, TypeOK
    <2>4. ASSUME NEW c \in Callers, Entered(c, "get")' PROVE pending'[c].now <= clock'
      <3>1. Entered(c, "get") /\ pending[c].now <= clock
        BY Zenon, <2>1, <2>4 DEF Entered, ListInv
      <3>2. pending[c].now \in Nat
        <4>1. pending[c] \in [op : {"get"}, key : Keys, now : Time]
          BY Zenon, <3>1, CallTypes DEF ListInv
        <4> QED
          BY <4>1, CacheAssumption DEF Time
      <3> QED
        BY <1>1, <2>1, <3>1, <3>2
    <2>5. Lists(data, lru, since)' /\ Len(lru') <= MaxEntries
      BY Zenon, <2>1 DEF ListInv, Lists
    <2> QED
      BY Zenon, <2>3, <2>4, <2>5 DEF ListInv
  <1>3. ASSUME NEW c \in Callers, NEW k \in Keys, GetBegin(c, k) PROVE ListInv'
    <2> DEFINE p == [op |-> "get", key |-> k, now |-> clock]
    <2>1. p \in Call /\ p.now <= clock
      BY <1>1 DEF Call, ListInv, TypeOK
    <2> QED
      BY Zenon, <1>3, <2>1, ListBegin DEF GetBegin
  <1>4. ASSUME NEW c \in Callers, NEW k \in Keys, NEW r \in Responses, SetBegin(c, k, r) PROVE ListInv'
    <2> DEFINE d == analyzeCacheDecision(r)
               n == capTTL(d.ttl, d.type)
               p == [op |-> "set", key |-> k, value |-> r, born |-> clock, type |-> d.type,
                     expires |-> clock + Second * n]
               m == IF MaxTTL > MaxNegativeTTL THEN MaxTTL ELSE MaxNegativeTTL
    <2>1. d.ttl \in Nat /\ d.type \in Types
      BY Zenon, CacheAssumption, DecisionBounds
    <2>2. n \in Nat /\ m \in Nat /\ n <= m
      <3> HIDE DEF d
      <3> QED
        BY <2>1, TTLAssumption DEF capTTL
    <2>3. clock + Second * n \in Until
      <3> HIDE DEF n, m
      <3>1. Second * n \in Nat /\ Second * m \in Nat /\ Second * n <= Second * m
        BY Zenon, <2>2, TicksMono
      <3>2. Until = 0..(MaxClock + Second * m)
        BY Zenon DEF Until, m
      <3> DEFINE x == Second * n
                 y == Second * m
      <3>3. x \in Nat /\ y \in Nat /\ x <= y
        BY Zenon, <3>1
      <3> HIDE DEF x, y
      <3>4. clock + x \in 0..(MaxClock + y)
        BY <1>1, <3>3
      <3> QED
        BY Zenon, <3>2, <3>4 DEF x, y
    <2>4. Begin(c, p)
      BY Zenon, <1>4 DEF SetBegin
    <2>5. p \in Call /\ p.op = "set"
      <3> HIDE DEF n, d
      <3> QED
        BY Zenon, <2>1, <2>3 DEF Call, ListInv, TypeOK
    <2> HIDE DEF p
    <2> QED
      BY Zenon, <2>4, <2>5, ListBegin
  <1>5. CASE UNCHANGED vars
    BY Zenon, <1>5 DEF ListInv, TypeOK, Entered, Lists, vars
  <1> QED
    BY Zenon, <1>2, <1>3, <1>4, <1>5, ListGet, ListSet DEF Next, Idle

\* The list is in order at every moment.
LEMMA ListOrder == Spec => []ListInv
  BY ListInit, ListNext, PTL DEF Spec

-----------------------------------------------------------------------------

\* The list and the map hold the same keys, never more than maxEntries, whatever
\* expiries, replacements and evictions concurrent callers cause.
THEOREM ListIsMap == Spec => []ListMatchesMap
  <1>1. ListInv => ListMatchesMap
    BY Counted, Zenon DEF ListInv, ListMatchesMap
  <1> QED
    BY <1>1, ListOrder, PTL

\* An entry goes when it has expired, or as the least recently used one of a full
\* cache that a new key enters.
THEOREM EvictsOldest == Spec => EvictsLeastRecentlyUsed
  <1> DEFINE Due(k) ==
        \/ data[k].expiresAt <= clock /\ cached(data') \subseteq cached(data)
        \/ /\ ~(cached(data') \subseteq cached(data))
           /\ Cardinality(cached(data)) = MaxEntries
           /\ \A j \in cached(data) \cap cached(data') : <<k, j>> \in since
  <1>1. ASSUME ListInv, [Next]_vars, NEW k \in cached(data) \ cached(data') PROVE Due(k)
    <2>1. /\ data \in [Keys -> Entry \cup {None}] /\ k \in Keys /\ data[k] # None
          /\ data'[k] = None /\ data' # data
          /\ Lists(data, lru, since) /\ clock \in Nat
      BY <1>1, CacheAssumption DEF ListInv, TypeOK, Time, cached
    <2>2. PICK c \in Callers : GetExpired(c) \/ SetExisting(c) \/ SetNew(c)
      BY Zenon, <1>1, <2>1
         DEF Next, Tick, GetBegin, SetBegin, Begin, Get, GetAbsent, GetHit, Set, Idle, vars
    <2> DEFINE x == pending[c].key
               e == entryOf(pending[c])
    <2>3. CASE GetExpired(c)
      <3>1. /\ Entered(c, "get") /\ data[x].expiresAt <= pending[c].now
            /\ data' = [data EXCEPT ![x] = None]
        BY <2>3, Zenon DEF GetExpired, expired
      <3>2. pending[c] \in [op : {"get"}, key : Keys, now : Time] /\ pending[c].now <= clock
        BY <1>1, <3>1, CallTypes, Zenon DEF ListInv
      <3>3. k = x
        BY Zenon, <2>1, <3>1
      <3>4. data[k].expiresAt \in Nat /\ pending[c].now \in Nat
        <4>1. data[k] \in Entry
          BY Zenon, <2>1
        <4>2. Until \subseteq Nat /\ Time \subseteq Nat
          BY DEF Until, Time
        <4> QED
          BY Zenon, <3>2, <4>1, <4>2 DEF Entry
      <3>5. data[k].expiresAt <= clock
        BY <2>1, <3>1, <3>2, <3>3, <3>4
      <3>6. cached(data') \subseteq cached(data)
        BY Zenon, <2>1, <3>1 DEF cached
      <3> QED
        BY Zenon, <3>5, <3>6
    <2>4. CASE SetExisting(c)
      <3>1. Entered(c, "set") /\ data' = [data EXCEPT ![x] = e]
        BY <2>4, Zenon DEF SetExisting
      <3>2. e # None
        BY <1>1, <3>1, CallTypes, NoneAssumption, Zenon DEF ListInv
      <3> QED
        BY Zenon, <2>1, <3>1, <3>2
    <2>5. CASE SetNew(c)
      <3>1. /\ x \in Keys /\ e \in Entry /\ data[x] = None
            /\ \/ data' = [data EXCEPT ![x] = e]
               \/ /\ Len(lru) = MaxEntries /\ Head(lru) # x /\ Head(lru) \in Keys
                  /\ data' = [[data EXCEPT ![x] = e] EXCEPT ![Head(lru)] = None]
                  /\ \A j \in Keys : InList(lru, j) /\ j # Head(lru) => Before(lru, Head(lru), j)
        BY <1>1, <2>5, SetNewList, Zenon
      <3> HIDE DEF x, e
      <3>2. e # None
        BY <3>1, NoneAssumption, Zenon
      <3>3. k # x
        BY Zenon, <2>1, <3>1
      <3>4. data' # [data EXCEPT ![x] = e]
        BY Zenon, <2>1, <3>3
      <3>5. /\ Len(lru) = MaxEntries /\ Head(lru) # x /\ Head(lru) \in Keys
            /\ data' = [[data EXCEPT ![x] = e] EXCEPT ![Head(lru)] = None]
            /\ \A j \in Keys : InList(lru, j) /\ j # Head(lru) => Before(lru, Head(lru), j)
        BY <3>1, <3>4, Zenon
      <3>6. k = Head(lru) /\ data'[x] = e
        BY Zenon, <2>1, <3>1, <3>3, <3>5
      <3>7. ~(cached(data') \subseteq cached(data))
        BY <3>1, <3>2, <3>6, Zenon DEF cached
      <3>8. Cardinality(cached(data)) = MaxEntries
        BY <2>1, <3>5, Counted, Zenon
      <3>9. \A j \in cached(data) \cap cached(data') : <<k, j>> \in since
        BY <2>1, <3>5, <3>6, Zenon DEF cached, Lists
      <3> QED
        BY Zenon, <3>7, <3>8, <3>9
    <2> QED
      BY Zenon, <2>2, <2>3, <2>4, <2>5
  <1>2. ListInv /\ [Next]_vars =>
          [\A k \in cached(data) \ cached(data') :
             \/ /\ data[k].expiresAt <= clock
                /\ cached(data') \subseteq cached(data)
             \/ /\ ~(cached(data') \subseteq cached(data))
                /\ Cardinality(cached(data)) = MaxEntries
                /\ \A j \in cached(data) \cap cached(data') : <<k, j>> \in since]_vars
    BY <1>1, Zenon
  <1> QED
    BY <1>2, ListOrder, PTL DEF Spec, EvictsLeastRecentlyUsed
=============================================================================
