------------------------- MODULE ForwardingResolver -------------------------
(***************************************************************************)
(* The forwarding resolver's Resolve (internal/resolvers/                  *)
(* forwarding_resolver.go): upstream selection, the response cache, the    *)
(* singleflight map, failover across upstreams and upstream health.        *)
(*                                                                         *)
(* Every element of Queries is one call of Resolve, running on a goroutine *)
(* of its own.  A step of a query is one critical section of the code      *)
(* (healthMu, inflightMu, the cache's mutex, the close of a done channel)  *)
(* or one upstream exchange.  A response is abstracted to the question it  *)
(* answers, the upstream that sent it and the number of the flight that    *)
(* asked for it; the connection pool below queryOne is module ConnPool and *)
(* the cache's own expiry and eviction are module TTLCache.                *)
(***************************************************************************)
EXTENDS Naturals

CONSTANTS
    Queries,        \* calls of Resolve
    Questions,      \* DNS questions (name, type, class)
    NumUpstreams,   \* len(f.upstreams); upstream 1 is the preferred one
    None,           \* nil: no cache entry, no inflight call, no outcome yet
    Failure         \* any non-nil error

ASSUME UpstreamsAssumption == NumUpstreams \in 1..3      \* maxUpstreams
ASSUME ValuesAssumption == /\ None # Failure
                           /\ None \notin Queries

VARIABLES
    qn,         \* qn[p]: the question of query p
    pc,         \* where query p is in Resolve / queryAndCache
    idx,        \* loop index of query p, in selectUpstream and in queryAndCache
    up,         \* key.up of query p
    res,        \* resp, err of query p's queryAndCache
    joined,     \* the call query p waits for (None: it leads its own)
    flight,     \* number of the call query p registered (0: none)
    seen,       \* upstreams query p's failover loop has examined
    result,     \* what Resolve returned to query p
    cache,      \* f.cache
    inflight,   \* f.inflight; a call is named by the query that registered it
    call,       \* call[p]: None until p's done channel is closed, then resp/err
    health,     \* f.upstreamFailedAt: "ok" (absent), "cooldown", "expired"
    cancelled,  \* ctx.Done() is closed (the server is shutting down)
    flights     \* number of inflight calls registered so far

local  == <<qn, pc, idx, up, res, joined, flight, seen, result>>
shared == <<cache, inflight, call, health, cancelled, flights>>
vars   == <<local, shared>>

Upstreams == 1..NumUpstreams
Keys      == [q : Questions, up : Upstreams]
Response  == [q : Questions, from : Upstreams, flight : Nat]
Outcome   == Response \cup {Failure}

ASSUME OutcomesAssumption == None \notin Outcome /\ Failure \notin Response

key(p) == [q |-> qn[p], up |-> up[p]]

Steps == {"select", "clear", "lookup", "ctx", "join", "wait", "try", "query",
          "store", "publish", "unregister", "returned"}

Init ==
    /\ qn \in [Queries -> Questions]
    /\ pc = [p \in Queries |-> "select"]
    /\ idx = [p \in Queries |-> 1]
    /\ up = [p \in Queries |-> 1]
    /\ res = [p \in Queries |-> None]
    /\ joined = [p \in Queries |-> None]
    /\ flight = [p \in Queries |-> 0]
    /\ seen = [p \in Queries |-> {}]
    /\ result = [p \in Queries |-> None]
    /\ cache = [k \in Keys |-> None]
    /\ inflight = [k \in Keys |-> None]
    /\ call = [p \in Queries |-> None]
    /\ health = [u \in Upstreams |-> "ok"]
    /\ cancelled = FALSE
    /\ flights = 0

-----------------------------------------------------------------------------
(* Upstream health, each operator one critical section of healthMu.        *)

\* canTryUpstream: never failed, or its cooldown is over.
canTry(u) == health[u] # "cooldown"

\* The map after canTryUpstream(u): a recovered upstream's entry is deleted.
afterCanTry(u) == IF canTry(u) THEN [health EXCEPT ![u] = "ok"] ELSE health

\* markFailed: only the first failure sets the timestamp.
markFailed(u) ==
    health' = [health EXCEPT ![u] = IF @ = "ok" THEN "cooldown" ELSE @]

markHealthy(u) == health' = [health EXCEPT ![u] = "ok"]

-----------------------------------------------------------------------------
(* selectUpstream: one critical section per upstream examined.             *)

SelectTry(p) ==
    /\ pc[p] = "select"
    /\ health' = afterCanTry(idx[p])
    /\ IF canTry(idx[p])
       THEN /\ up' = [up EXCEPT ![p] = idx[p]]
            /\ pc' = [pc EXCEPT ![p] = "lookup"]
            /\ UNCHANGED idx
       ELSE /\ UNCHANGED up
            /\ IF idx[p] < NumUpstreams
               THEN /\ idx' = [idx EXCEPT ![p] = @ + 1]
                    /\ UNCHANGED pc
               ELSE /\ pc' = [pc EXCEPT ![p] = "clear"]
                    /\ UNCHANGED idx
    /\ UNCHANGED <<qn, res, joined, flight, seen, result, cache, inflight, call, cancelled, flights>>

\* All upstreams were found failed: forget every failure, take the first.
SelectClear(p) ==
    /\ pc[p] = "clear"
    /\ health' = [u \in Upstreams |-> "ok"]
    /\ up' = [up EXCEPT ![p] = 1]
    /\ pc' = [pc EXCEPT ![p] = "lookup"]
    /\ UNCHANGED <<qn, idx, res, joined, flight, seen, result, cache, inflight, call, cancelled, flights>>

-----------------------------------------------------------------------------
(* Resolve: cache, context, singleflight.                                  *)

Return(p, r) ==
    /\ pc' = [pc EXCEPT ![p] = "returned"]
    /\ result' = [result EXCEPT ![p] = r]

LookupHit(p) ==
    /\ pc[p] = "lookup"
    /\ cache[key(p)] # None
    /\ Return(p, cache[key(p)])
    /\ UNCHANGED <<qn, idx, up, res, joined, flight, seen, shared>>

LookupMiss(p) ==
    /\ pc[p] = "lookup"
    /\ cache[key(p)] = None
    /\ pc' = [pc EXCEPT ![p] = "ctx"]
    /\ UNCHANGED <<qn, idx, up, res, joined, flight, seen, result, shared>>

CheckContext(p) ==
    /\ pc[p] = "ctx"
    /\ IF cancelled
       THEN Return(p, Failure)
       ELSE pc' = [pc EXCEPT ![p] = "join"] /\ UNCHANGED result
    /\ UNCHANGED <<qn, idx, up, res, joined, flight, seen, shared>>

\* A call for this key is registered: wait for it.
Join(p) ==
    /\ pc[p] = "join"
    /\ inflight[key(p)] # None
    /\ joined' = [joined EXCEPT ![p] = inflight[key(p)]]
    /\ pc' = [pc EXCEPT ![p] = "wait"]
    /\ UNCHANGED <<qn, idx, up, res, flight, seen, result, shared>>

\* A variant: the call is registered without looking for one already there.
LeadUnchecked(p) ==
    /\ pc[p] = "join"
    /\ inflight' = [inflight EXCEPT ![key(p)] = p]
    /\ flights' = flights + 1
    /\ flight' = [flight EXCEPT ![p] = flights + 1]
    /\ idx' = [idx EXCEPT ![p] = 0]
    /\ pc' = [pc EXCEPT ![p] = "try"]
    /\ UNCHANGED <<qn, up, res, joined, seen, result, cache, call, health, cancelled>>

\* No call for this key: register one and run queryAndCache.
Lead(p) ==
    /\ pc[p] = "join"
    /\ inflight[key(p)] = None
    /\ inflight' = [inflight EXCEPT ![key(p)] = p]
    /\ flights' = flights + 1
    /\ flight' = [flight EXCEPT ![p] = flights + 1]
    /\ idx' = [idx EXCEPT ![p] = 0]
    /\ pc' = [pc EXCEPT ![p] = "try"]
    /\ UNCHANGED <<qn, up, res, joined, seen, result, cache, call, health, cancelled>>

WaitDone(p) ==
    /\ pc[p] = "wait"
    /\ call[joined[p]] # None
    /\ Return(p, call[joined[p]])
    /\ UNCHANGED <<qn, idx, up, res, joined, flight, seen, shared>>

WaitCancelled(p) ==
    /\ pc[p] = "wait"
    /\ cancelled
    /\ Return(p, Failure)
    /\ UNCHANGED <<qn, idx, up, res, joined, flight, seen, shared>>

-----------------------------------------------------------------------------
(* queryAndCache: failover, validation, cache fill; then the publication   *)
(* of the call's outcome.                                                  *)

\* A variant: the loop does not wrap around to the upstreams before the start.
candidateNoWrap(p) ==
    IF up[p] + idx[p] > NumUpstreams THEN NumUpstreams ELSE up[p] + idx[p]

\* The upstream of loop iteration j, starting from findUpstreamIndex(key.up).
candidate(p) == ((up[p] - 1 + idx[p]) % NumUpstreams) + 1

\* The loop is over (every upstream examined) or the context is cancelled.
GiveUp(p) ==
    /\ pc[p] = "try"
    /\ cancelled \/ idx[p] = NumUpstreams
    /\ res' = [res EXCEPT ![p] = Failure]
    /\ pc' = [pc EXCEPT ![p] = "publish"]
    /\ UNCHANGED <<qn, idx, up, joined, flight, seen, result, shared>>

\* Loop head with a live context: canTryUpstream on the next upstream.
TryUpstream(p) ==
    /\ pc[p] = "try"
    /\ ~cancelled
    /\ idx[p] < NumUpstreams
    /\ health' = afterCanTry(candidate(p))
    /\ seen' = [seen EXCEPT ![p] = @ \cup {candidate(p)}]
    /\ IF canTry(candidate(p))
       THEN pc' = [pc EXCEPT ![p] = "query"] /\ UNCHANGED idx
       ELSE idx' = [idx EXCEPT ![p] = @ + 1] /\ UNCHANGED pc
    /\ UNCHANGED <<qn, up, res, joined, flight, result, cache, inflight, call, cancelled, flights>>

\* queryOne returned an error (timeout, dial error, cancelled context).
QueryFail(p) ==
    /\ pc[p] = "query"
    /\ markFailed(candidate(p))
    /\ idx' = [idx EXCEPT ![p] = @ + 1]
    /\ pc' = [pc EXCEPT ![p] = "try"]
    /\ UNCHANGED <<qn, up, res, joined, flight, seen, result, cache, inflight, call, cancelled, flights>>

\* A variant: the response is not validated.
validateNothing(p, r) == TRUE

\* validateResponse: the first question of the response is the one asked.
validateResponse(p, r) == r.q = qn[p]

\* queryOne returned a response.  It may answer another question: the bytes
\* sent alias a pooled buffer and the upstream is not trusted.
QueryOk(p) ==
    /\ pc[p] = "query"
    /\ markHealthy(candidate(p))
    /\ \E q \in Questions :
         LET r == [q |-> q, from |-> candidate(p), flight |-> flight[p]]
         IN IF validateResponse(p, r)
            THEN /\ res' = [res EXCEPT ![p] = r]
                 /\ pc' = [pc EXCEPT ![p] = "store"]
            ELSE /\ res' = [res EXCEPT ![p] = Failure]
                 /\ pc' = [pc EXCEPT ![p] = "publish"]
    /\ UNCHANGED <<qn, idx, up, joined, flight, seen, result, cache, inflight, call, cancelled, flights>>

\* storeInCache: analyzeCacheDecision may give a TTL of 0, then nothing is stored.
StoreInCache(p) ==
    /\ pc[p] = "store"
    /\ \/ cache' = [cache EXCEPT ![key(p)] = res[p]]
       \/ UNCHANGED cache
    /\ pc' = [pc EXCEPT ![p] = "publish"]
    /\ UNCHANGED <<qn, idx, up, res, joined, flight, seen, result, inflight, call, health, cancelled, flights>>

\* A variant: done is closed before resp and err are assigned.
PublishEarly(p) ==
    /\ pc[p] = "publish"
    /\ call' = [call EXCEPT ![p] = Failure]
    /\ pc' = [pc EXCEPT ![p] = "unregister"]
    /\ UNCHANGED <<qn, idx, up, res, joined, flight, seen, result, cache, inflight, health, cancelled, flights>>

\* A variant: done is only closed on success.
PublishSuccess(p) ==
    /\ pc[p] = "publish"
    /\ call' = IF res[p] = Failure THEN call ELSE [call EXCEPT ![p] = res[p]]
    /\ pc' = [pc EXCEPT ![p] = "unregister"]
    /\ UNCHANGED <<qn, idx, up, res, joined, flight, seen, result, cache, inflight, health, cancelled, flights>>

\* call.resp, call.err = resp, err; close(call.done)
Publish(p) ==
    /\ pc[p] = "publish"
    /\ call' = [call EXCEPT ![p] = res[p]]
    /\ pc' = [pc EXCEPT ![p] = "unregister"]
    /\ UNCHANGED <<qn, idx, up, res, joined, flight, seen, result, cache, inflight, health, cancelled, flights>>

\* delete(f.inflight, key), then Resolve returns.
Unregister(p) ==
    /\ pc[p] = "unregister"
    /\ inflight' = [inflight EXCEPT ![key(p)] = None]
    /\ Return(p, res[p])
    /\ UNCHANGED <<qn, idx, up, res, joined, flight, seen, cache, call, health, cancelled, flights>>

-----------------------------------------------------------------------------
(* The environment.                                                        *)

\* upstreamRecoveryDuration has passed since upstream u failed.
CooldownEnds(u) ==
    /\ health[u] = "cooldown"
    /\ health' = [health EXCEPT ![u] = "expired"]
    /\ UNCHANGED <<local, cache, inflight, call, cancelled, flights>>

\* The cache lost an entry: its TTL passed or it was evicted (see TTLCache).
CacheDrops(k) ==
    /\ cache[k] # None
    /\ cache' = [cache EXCEPT ![k] = None]
    /\ UNCHANGED <<local, inflight, call, health, cancelled, flights>>

Cancel ==
    /\ ~cancelled
    /\ cancelled' = TRUE
    /\ UNCHANGED <<local, cache, inflight, call, health, flights>>

-----------------------------------------------------------------------------

SelectUpstream(p) == SelectTry(p) \/ SelectClear(p)

QueryAndCache(p) ==
    \/ GiveUp(p) \/ TryUpstream(p)
    \/ QueryFail(p) \/ QueryOk(p)
    \/ StoreInCache(p)

Resolve(p) ==
    \/ SelectUpstream(p)
    \/ LookupHit(p) \/ LookupMiss(p) \/ CheckContext(p)
    \/ Join(p) \/ WaitDone(p) \/ WaitCancelled(p)
    \/ Lead(p) \/ QueryAndCache(p)
    \/ Publish(p) \/ Unregister(p)

Environment ==
    \/ \E u \in Upstreams : CooldownEnds(u)
    \/ \E k \in Keys : CacheDrops(k)
    \/ Cancel

Returned == \A p \in Queries : pc[p] = "returned"

\* Every query has returned: the resolver waits for the next one.
Idle == Returned /\ UNCHANGED vars

Next ==
    \/ \E p \in Queries : Resolve(p)
    \/ Environment
    \/ Idle

Spec == Init /\ [][Next]_vars

\* Every goroutine keeps running: no step of Resolve blocks for ever, since
\* critical sections are short and every read has a deadline.
FairSpec == Spec /\ \A p \in Queries : WF_vars(Resolve(p))

-----------------------------------------------------------------------------
(* Properties.                                                             *)

\* The types of the resolver's maps and of each query's locals.
TypeOK ==
    /\ qn \in [Queries -> Questions]
    /\ pc \in [Queries -> Steps]
    /\ idx \in [Queries -> 0..NumUpstreams]
    /\ up \in [Queries -> Upstreams]
    /\ res \in [Queries -> Outcome \cup {None}]
    /\ joined \in [Queries -> Queries \cup {None}]
    /\ flight \in [Queries -> Nat]
    /\ seen \in [Queries -> SUBSET Upstreams]
    /\ result \in [Queries -> Outcome \cup {None}]
    /\ cache \in [Keys -> Response \cup {None}]
    /\ inflight \in [Keys -> Queries \cup {None}]
    /\ call \in [Queries -> Outcome \cup {None}]
    /\ health \in [Upstreams -> {"ok", "cooldown", "expired"}]
    /\ cancelled \in BOOLEAN
    /\ flights \in Nat

\* Between registering a call and deleting it a query is its leader.
Leading == {"try", "query", "store", "publish", "unregister"}

\* f.inflight holds exactly the calls whose leaders are still running: at most
\* one query leads a key, no leader's entry is deleted or overwritten by
\* another query, and no entry is left behind when its leader returns.
OneLeaderPerKey ==
    /\ \A p \in Queries : pc[p] \in Leading => inflight[key(p)] = p
    /\ \A k \in Keys : inflight[k] # None =>
            pc[inflight[k]] \in Leading /\ key(inflight[k]) = k

Answers(r, q) == r \in Response => r.q = q

\* Whatever upstreams answer and however queries share calls and cache entries,
\* no query is given, and no entry holds, a response to another question.
AnswersOwnQuestion ==
    /\ \A k \in Keys : Answers(cache[k], k.q)
    /\ \A p \in Queries : Answers(call[p], qn[p]) /\ Answers(result[p], qn[p])

\* A query that joined a call gets that call's outcome, response or error,
\* even when the leader has left the inflight map and a new call for the same
\* key has begun; only shutdown gives it an error of its own.
SharedOutcome ==
    \A p \in Queries : pc[p] = "returned" /\ joined[p] # None =>
        \/ result[p] = res[joined[p]] /\ key(joined[p]) = key(p)
        \/ result[p] = Failure /\ cancelled

\* A leader that ran its failover loop to the end has examined every upstream,
\* wherever in the list selectUpstream made it start.
FailoverCoversAll ==
    \A p \in Queries : pc[p] \in Leading /\ idx[p] = NumUpstreams =>
        seen[p] = Upstreams

\* A cache entry is never replaced by the response of a call registered before
\* the call that stored it: a slow leader cannot undo a fresher answer.
CacheNeverRegresses ==
    [][\A k \in Keys : cache[k] # None /\ cache'[k] # None =>
            cache'[k].flight >= cache[k].flight]_cache

\* No waiter is stranded: every call of Resolve returns, whatever upstreams do.
EveryQueryReturns == \A p \in Queries : <>(pc[p] = "returned")
=============================================================================
