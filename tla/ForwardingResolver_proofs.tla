---------------------- MODULE ForwardingResolver_proofs ----------------------
(***************************************************************************)
(* Safety of the resolver for every set of queries, every set of questions *)
(* and one to three upstreams.                                             *)
(***************************************************************************)
EXTENDS ForwardingResolver, TLAPS

\* A query's context, key and outcome as its program counter determines them.
Progress ==
    \A p \in Queries :
        /\ pc[p] \in {"select", "clear"} => idx[p] \in Upstreams
        /\ pc[p] = "query" => idx[p] < NumUpstreams
        /\ pc[p] = "wait" => joined[p] # None
        /\ pc[p] = "store" => res[p] \in Response
        /\ pc[p] \in {"publish", "unregister"} => res[p] \in Outcome
        /\ Answers(res[p], qn[p])
        /\ call[p] # None => pc[p] \in {"unregister", "returned"} /\ call[p] = res[p]

\* The call a query joined is one for its own key, and its leader has one.
JoinedCall ==
    \A p \in Queries : joined[p] # None =>
        /\ pc[p] \in {"wait", "returned"}
        /\ pc[joined[p]] \in Leading \cup {"returned"}
        /\ key(joined[p]) = key(p)

\* A query that joined a call returned what the call published, or was cancelled.
JoinedOutcome ==
    \A p \in Queries : pc[p] = "returned" /\ joined[p] # None =>
        \/ call[joined[p]] # None /\ result[p] = call[joined[p]]
        \/ result[p] = Failure /\ cancelled

\* Call numbers: the leader of a key has a newer call than the key's entry.
FlightOrder ==
    /\ \A k \in Keys : cache[k] # None => cache[k].flight <= flights
    /\ \A p \in Queries : pc[p] \in Leading =>
        /\ flight[p] <= flights
        /\ cache[key(p)] # None => cache[key(p)].flight <= flight[p]
        /\ pc[p] = "store" => res[p].flight = flight[p]

IInv ==
    /\ TypeOK
    /\ OneLeaderPerKey
    /\ AnswersOwnQuestion
    /\ Progress
    /\ JoinedCall
    /\ JoinedOutcome
    /\ FlightOrder

-----------------------------------------------------------------------------

\* The failover loop's index arithmetic stays inside the upstream list.
LEMMA CandidateType ==
  ASSUME TypeOK, NEW p \in Queries
  PROVE  candidate(p) \in Upstreams
  BY UpstreamsAssumption DEF TypeOK, candidate, Upstreams

\* Every step keeps every variable in its type.
LEMMA TypeStep == IInv /\ [Next]_vars => TypeOK'
  <1> SUFFICES ASSUME IInv, [Next]_vars PROVE TypeOK'
    BY Zenon
  <1> USE UpstreamsAssumption, ValuesAssumption, OutcomesAssumption
  <1> USE DEF IInv, TypeOK, Progress, vars, local, shared, key, Keys, Response, Outcome, Upstreams, Steps
  <1>1. ASSUME NEW p \in Queries, SelectTry(p) PROVE TypeOK'
    <2>1. idx[p] \in Upstreams
      BY Zenon, <1>1 DEF SelectTry
    <2>2. /\ health' \in [Upstreams -> {"ok", "cooldown", "expired"}]
          /\ UNCHANGED <<qn, res, joined, flight, seen, result, cache, inflight, call, cancelled, flights>>
      BY Zenon, <1>1, <2>1 DEF SelectTry, afterCanTry
    <2>3. /\ up' \in [Queries -> Upstreams]
          /\ pc' \in [Queries -> Steps]
          /\ idx' \in [Queries -> 0..NumUpstreams]
      <3>1. CASE canTry(idx[p])
        BY ZenonT(60), <1>1, <2>1, <3>1 DEF SelectTry
      <3>2. CASE ~canTry(idx[p]) /\ idx[p] < NumUpstreams
        <4>1. idx[p] + 1 \in 0..NumUpstreams
          BY <2>1, <3>2
        <4> QED
          BY ZenonT(60), <1>1, <3>2, <4>1 DEF SelectTry
      <3>3. CASE ~canTry(idx[p]) /\ ~(idx[p] < NumUpstreams)
        BY ZenonT(60), <1>1, <2>1, <3>3 DEF SelectTry
      <3> QED
        BY Zenon, <3>1, <3>2, <3>3
    <2> QED
      BY Zenon, <2>2, <2>3
  <1>2. ASSUME NEW p \in Queries, SelectClear(p) PROVE TypeOK'
    BY <1>2 DEF SelectClear
  <1>3. ASSUME NEW p \in Queries, LookupHit(p) PROVE TypeOK'
    BY Zenon, <1>3 DEF LookupHit, Return
  <1>4. ASSUME NEW p \in Queries, LookupMiss(p) PROVE TypeOK'
    BY Zenon, <1>4 DEF LookupMiss
  <1>5. ASSUME NEW p \in Queries, CheckContext(p) PROVE TypeOK'
    BY ZenonT(60), <1>5 DEF CheckContext, Return
  <1>6. ASSUME NEW p \in Queries, Join(p) PROVE TypeOK'
    BY Zenon, <1>6 DEF Join
  <1>7. ASSUME NEW p \in Queries, WaitDone(p) PROVE TypeOK'
    BY ZenonT(60), <1>7 DEF WaitDone, Return
  <1>8. ASSUME NEW p \in Queries, WaitCancelled(p) PROVE TypeOK'
    BY Zenon, <1>8 DEF WaitCancelled, Return
  <1>9. ASSUME NEW p \in Queries, Lead(p) PROVE TypeOK'
    BY SMTT(30), <1>9 DEF Lead
  <1>10. ASSUME NEW p \in Queries, GiveUp(p) PROVE TypeOK'
    BY Zenon, <1>10 DEF GiveUp
  <1>11. ASSUME NEW p \in Queries, TryUpstream(p) PROVE TypeOK'
    <2>1. candidate(p) \in Upstreams
      BY Zenon, CandidateType
    <2>2. /\ health' \in [Upstreams -> {"ok", "cooldown", "expired"}]
          /\ seen' \in [Queries -> SUBSET Upstreams]
          /\ UNCHANGED <<qn, up, res, joined, flight, result, cache, inflight, call, cancelled, flights>>
      BY <1>11, <2>1 DEF TryUpstream, afterCanTry
    <2>3. /\ pc' \in [Queries -> Steps]
          /\ idx' \in [Queries -> 0..NumUpstreams]
      <3>1. CASE canTry(candidate(p))
        BY ZenonT(60), <1>11, <3>1 DEF TryUpstream
      <3>2. CASE ~canTry(candidate(p))
        <4>1. idx[p] + 1 \in 0..NumUpstreams
          BY <1>11 DEF TryUpstream
        <4> QED
          BY ZenonT(60), <1>11, <3>2, <4>1 DEF TryUpstream
      <3> QED
        BY Zenon, <3>1, <3>2
    <2> QED
      BY Zenon, <2>2, <2>3
  <1>12. ASSUME NEW p \in Queries, QueryFail(p) PROVE TypeOK'
    <2>1. candidate(p) \in Upstreams
      BY Zenon, CandidateType
    <2>2. health' \in [Upstreams -> {"ok", "cooldown", "expired"}]
      BY Zenon, <1>12, <2>1 DEF QueryFail, markFailed
    <2> QED
      BY SMTT(30), <1>12, <2>2 DEF QueryFail
  <1>13. ASSUME NEW p \in Queries, QueryOk(p) PROVE TypeOK'
    <2>1. candidate(p) \in Upstreams
      BY Zenon, CandidateType
    <2>2. health' \in [Upstreams -> {"ok", "cooldown", "expired"}]
      BY Zenon, <1>13, <2>1 DEF QueryOk, markHealthy
    <2>3. \A q \in Questions : [q |-> q, from |-> candidate(p), flight |-> flight[p]] \in Response
      BY Zenon, <2>1
    <2>4. \E r \in Outcome : res' = [res EXCEPT ![p] = r]
      BY Zenon, <1>13, <2>3 DEF QueryOk
    <2>5. res' \in [Queries -> Outcome \cup {None}]
      <3> HIDE DEF Outcome, Response
      <3> QED
        BY Zenon, <2>4
    <2>6. pc' = [pc EXCEPT ![p] = "store"] \/ pc' = [pc EXCEPT ![p] = "publish"]
      BY Zenon, <1>13 DEF QueryOk
    <2> QED
      BY Zenon, <1>13, <2>2, <2>5, <2>6 DEF QueryOk
  <1>14. ASSUME NEW p \in Queries, StoreInCache(p) PROVE TypeOK'
    BY ZenonT(60), <1>14 DEF StoreInCache
  <1>15. ASSUME NEW p \in Queries, Publish(p) PROVE TypeOK'
    BY Zenon, <1>15 DEF Publish
  <1>16. ASSUME NEW p \in Queries, Unregister(p) PROVE TypeOK'
    BY Zenon, <1>16 DEF Unregister, Return
  <1>17. ASSUME NEW u \in Upstreams, CooldownEnds(u) PROVE TypeOK'
    BY Zenon, <1>17 DEF CooldownEnds
  <1>18. ASSUME NEW k \in Keys, CacheDrops(k) PROVE TypeOK'
    BY Zenon, <1>18 DEF CacheDrops
  <1>19. CASE Cancel
    BY Zenon, <1>19 DEF Cancel
  <1>20. CASE UNCHANGED vars
    BY Zenon, <1>20
  <1> QED
    BY Zenon, <1>1, <1>2, <1>3, <1>4, <1>5, <1>6, <1>7, <1>8, <1>9, <1>10, <1>11, <1>12, <1>13,
       <1>14, <1>15, <1>16, <1>17, <1>18, <1>19, <1>20
    DEF Next, Resolve, SelectUpstream, QueryAndCache, Environment, Idle

\* Every query's key is a key of the maps.
LEMMA KeyType ==
  ASSUME TypeOK, NEW p \in Queries
  PROVE  key(p) \in Keys
  BY Zenon DEF TypeOK, key, Keys

\* A step of query p that neither registers nor deletes a call.
LEMMA LeaderFrame ==
  ASSUME TypeOK, OneLeaderPerKey, NEW p \in Queries, UNCHANGED inflight,
         \A q \in Queries \ {p} : key(q)' = key(q) /\ pc'[q] = pc[q],
         \/ pc[p] \in Leading /\ pc'[p] \in Leading /\ key(p)' = key(p)
         \/ pc[p] \notin Leading /\ pc'[p] \notin Leading
  PROVE  OneLeaderPerKey'
  BY ValuesAssumption, KeyType DEF TypeOK, OneLeaderPerKey

\* No two leaders share a key.
LEMMA LeadersDiffer ==
  ASSUME TypeOK, OneLeaderPerKey, NEW p \in Queries, NEW q \in Queries \ {p},
         pc[q] \in Leading, inflight[key(p)] \in {p, None}
  PROVE  key(q) # key(p)
  BY Zenon, ValuesAssumption DEF OneLeaderPerKey

\* Registering and deleting a call keep the inflight map exact.
LEMMA LeaderStep == IInv /\ [Next]_vars => OneLeaderPerKey'
  <1> SUFFICES ASSUME IInv, [Next]_vars PROVE OneLeaderPerKey'
    BY Zenon
  <1> USE UpstreamsAssumption, ValuesAssumption, OutcomesAssumption
  <1> USE DEF IInv, TypeOK, vars, local, shared, Leading
  <1>1. ASSUME NEW p \in Queries, SelectTry(p) PROVE OneLeaderPerKey'
    BY ZenonT(60), <1>1, LeaderFrame DEF SelectTry, key
  <1>2. ASSUME NEW p \in Queries, SelectClear(p) PROVE OneLeaderPerKey'
    BY Zenon, <1>2, LeaderFrame DEF SelectClear, key
  <1>3. ASSUME NEW p \in Queries, LookupHit(p) PROVE OneLeaderPerKey'
    BY Zenon, <1>3, LeaderFrame DEF LookupHit, key, Return
  <1>4. ASSUME NEW p \in Queries, LookupMiss(p) PROVE OneLeaderPerKey'
    BY Zenon, <1>4, LeaderFrame DEF LookupMiss, key
  <1>5. ASSUME NEW p \in Queries, CheckContext(p) PROVE OneLeaderPerKey'
    BY <1>5, LeaderFrame DEF CheckContext, key, Return
  <1>6. ASSUME NEW p \in Queries, Join(p) PROVE OneLeaderPerKey'
    BY Zenon, <1>6, LeaderFrame DEF Join, key
  <1>7. ASSUME NEW p \in Queries, WaitDone(p) PROVE OneLeaderPerKey'
    BY Zenon, <1>7, LeaderFrame DEF WaitDone, key, Return
  <1>8. ASSUME NEW p \in Queries, WaitCancelled(p) PROVE OneLeaderPerKey'
    BY Zenon, <1>8, LeaderFrame DEF WaitCancelled, key, Return
  <1>9. ASSUME NEW p \in Queries, Lead(p) PROVE OneLeaderPerKey'
    <2>1. \A q \in Queries : key(q)' = key(q) /\ key(q) \in Keys
      BY Zenon, <1>9, KeyType DEF Lead, key
    <2>2. \A q \in Queries \ {p} : pc[q] \in Leading => key(q) # key(p)
      BY Zenon, <1>9, LeadersDiffer DEF Lead
    <2>3. \A k \in Keys : inflight'[k] = IF k = key(p) THEN p ELSE inflight[k]
      BY Zenon, <1>9, <2>1 DEF Lead
    <2>4. \A q \in Queries : pc'[q] = IF q = p THEN "try" ELSE pc[q]
      BY Zenon, <1>9 DEF Lead
    <2>5. pc[p] = "join"
      BY Zenon, <1>9 DEF Lead
    <2> QED
      BY <2>1, <2>2, <2>3, <2>4, <2>5 DEF OneLeaderPerKey
  <1>10. ASSUME NEW p \in Queries, GiveUp(p) PROVE OneLeaderPerKey'
    BY Zenon, <1>10, LeaderFrame DEF GiveUp, key
  <1>11. ASSUME NEW p \in Queries, TryUpstream(p) PROVE OneLeaderPerKey'
    BY Zenon, <1>11, LeaderFrame DEF TryUpstream, key
  <1>12. ASSUME NEW p \in Queries, QueryFail(p) PROVE OneLeaderPerKey'
    BY Zenon, <1>12, LeaderFrame DEF QueryFail, key
  <1>13. ASSUME NEW p \in Queries, QueryOk(p) PROVE OneLeaderPerKey'
    BY <1>13, LeaderFrame DEF QueryOk, key
  <1>14. ASSUME NEW p \in Queries, StoreInCache(p) PROVE OneLeaderPerKey'
    BY Zenon, <1>14, LeaderFrame DEF StoreInCache, key
  <1>15. ASSUME NEW p \in Queries, Publish(p) PROVE OneLeaderPerKey'
    BY Zenon, <1>15, LeaderFrame DEF Publish, key
  <1>16. ASSUME NEW p \in Queries, Unregister(p) PROVE OneLeaderPerKey'
    <2>1. \A q \in Queries : key(q)' = key(q) /\ key(q) \in Keys
      BY Zenon, <1>16, KeyType DEF Unregister, key
    <2>2. pc[p] = "unregister" /\ inflight[key(p)] = p
      BY Zenon, <1>16 DEF Unregister, OneLeaderPerKey
    <2>3. \A q \in Queries \ {p} : pc[q] \in Leading => key(q) # key(p)
      BY Zenon, <2>2, LeadersDiffer
    <2>4. \A k \in Keys : inflight'[k] = IF k = key(p) THEN None ELSE inflight[k]
      BY Zenon, <1>16, <2>1 DEF Unregister
    <2>5. \A q \in Queries : pc'[q] = IF q = p THEN "returned" ELSE pc[q]
      BY Zenon, <1>16 DEF Unregister, Return
    <2> QED
      BY <2>1, <2>2, <2>3, <2>4, <2>5 DEF OneLeaderPerKey
  <1>17. ASSUME NEW u \in Upstreams, CooldownEnds(u) PROVE OneLeaderPerKey'
    BY Zenon, <1>17 DEF OneLeaderPerKey, key, CooldownEnds
  <1>18. ASSUME NEW k \in Keys, CacheDrops(k) PROVE OneLeaderPerKey'
    BY Zenon, <1>18 DEF OneLeaderPerKey, key, CacheDrops
  <1>19. CASE Cancel
    BY Zenon, <1>19 DEF OneLeaderPerKey, key, Cancel
  <1>20. CASE UNCHANGED vars
    BY Zenon, <1>20 DEF OneLeaderPerKey, key
  <1> QED
    BY Zenon, <1>1, <1>2, <1>3, <1>4, <1>5, <1>6, <1>7, <1>8, <1>9, <1>10, <1>11, <1>12, <1>13,
       <1>14, <1>15, <1>16, <1>17, <1>18, <1>19, <1>20
    DEF Next, Resolve, SelectUpstream, QueryAndCache, Environment, Idle

\* The outcomes that reach the cache, a call or a caller all passed
\* validateResponse in some leader of the same question.
LEMMA AnswersStep == IInv /\ [Next]_vars => AnswersOwnQuestion'
  <1> SUFFICES ASSUME IInv, [Next]_vars PROVE AnswersOwnQuestion'
    BY Zenon
  <1> USE ValuesAssumption, OutcomesAssumption, KeyType
  <1> USE DEF IInv, TypeOK, AnswersOwnQuestion, Answers, Outcome
  <1>1. CASE UNCHANGED <<qn, cache, call, result>>
    BY Zenon, <1>1
  <1>2. ASSUME NEW p \in Queries, LookupHit(p) PROVE AnswersOwnQuestion'
    BY <1>2 DEF LookupHit, Return, key, shared
  <1>3. ASSUME NEW p \in Queries, CheckContext(p) PROVE AnswersOwnQuestion'
    BY Zenon, <1>3 DEF CheckContext, Return, shared
  <1>4. ASSUME NEW p \in Queries, WaitDone(p) PROVE AnswersOwnQuestion'
    <2>1. joined[p] \in Queries /\ key(joined[p]) = key(p)
      BY <1>4 DEF WaitDone, Progress, JoinedCall
    <2>2. qn[joined[p]] = qn[p]
      BY Zenon, <2>1 DEF key
    <2> QED
      BY Zenon, <1>4, <2>1, <2>2 DEF WaitDone, Return, shared
  <1>5. ASSUME NEW p \in Queries, WaitCancelled(p) PROVE AnswersOwnQuestion'
    BY Zenon, <1>5 DEF WaitCancelled, Return, shared
  <1>6. ASSUME NEW p \in Queries, StoreInCache(p) PROVE AnswersOwnQuestion'
    BY <1>6 DEF StoreInCache, Progress, key
  <1>7. ASSUME NEW p \in Queries, Publish(p) PROVE AnswersOwnQuestion'
    BY Zenon, <1>7 DEF Publish, Progress
  <1>8. ASSUME NEW p \in Queries, Unregister(p) PROVE AnswersOwnQuestion'
    BY Zenon, <1>8 DEF Unregister, Return, Progress
  <1>9. ASSUME NEW k \in Keys, CacheDrops(k) PROVE AnswersOwnQuestion'
    BY Zenon, <1>9 DEF CacheDrops, local
  <1> QED
    BY ZenonT(60), <1>1, <1>2, <1>3, <1>4, <1>5, <1>6, <1>7, <1>8, <1>9
    DEF Next, Resolve, SelectUpstream, QueryAndCache, Environment, Idle, vars, local, shared,
        SelectTry, SelectClear, LookupMiss, Join, Lead, GiveUp, TryUpstream, QueryFail, QueryOk,
        CooldownEnds, Cancel

\* What a query's program counter says of its locals and of its call.
LEMMA ProgressStep == IInv /\ [Next]_vars => Progress'
  <1> SUFFICES ASSUME IInv, [Next]_vars PROVE Progress'
    BY Zenon
  <1> USE UpstreamsAssumption, ValuesAssumption, OutcomesAssumption
  <1> USE DEF IInv, TypeOK, Progress, Answers, vars, local, shared
  <1>1. ASSUME NEW p \in Queries, SelectTry(p) PROVE Progress'
    BY SMTT(30), <1>1 DEF SelectTry, Upstreams
  <1>2. ASSUME NEW p \in Queries, SelectClear(p) PROVE Progress'
    BY Zenon, <1>2 DEF SelectClear, Upstreams
  <1>3. ASSUME NEW p \in Queries, LookupHit(p) PROVE Progress'
    BY Zenon, <1>3 DEF LookupHit, Return
  <1>4. ASSUME NEW p \in Queries, LookupMiss(p) PROVE Progress'
    BY Zenon, <1>4 DEF LookupMiss
  <1>5. ASSUME NEW p \in Queries, CheckContext(p) PROVE Progress'
    BY <1>5 DEF CheckContext, Return
  <1>6. ASSUME NEW p \in Queries, Join(p) PROVE Progress'
    BY Zenon, <1>6 DEF Join
  <1>7. ASSUME NEW p \in Queries, WaitDone(p) PROVE Progress'
    BY <1>7 DEF WaitDone, Return
  <1>8. ASSUME NEW p \in Queries, WaitCancelled(p) PROVE Progress'
    BY ZenonT(60), <1>8 DEF WaitCancelled, Return
  <1>9. ASSUME NEW p \in Queries, Lead(p) PROVE Progress'
    BY <1>9 DEF Lead
  <1>10. ASSUME NEW p \in Queries, GiveUp(p) PROVE Progress'
    BY SMTT(30), <1>10 DEF GiveUp, Outcome
  <1>11. ASSUME NEW p \in Queries, TryUpstream(p) PROVE Progress'
    BY <1>11 DEF TryUpstream
  <1>12. ASSUME NEW p \in Queries, QueryFail(p) PROVE Progress'
    BY Zenon, <1>12 DEF QueryFail
  <1>13. ASSUME NEW p \in Queries, QueryOk(p) PROVE Progress'
    <2>1. \/ /\ \E r \in Response : r.q = qn[p] /\ res' = [res EXCEPT ![p] = r]
             /\ pc' = [pc EXCEPT ![p] = "store"]
          \/ /\ res' = [res EXCEPT ![p] = Failure]
             /\ pc' = [pc EXCEPT ![p] = "publish"]
      BY Zenon, <1>13, CandidateType DEF QueryOk, validateResponse, Response
    <2>2. pc[p] = "query" /\ UNCHANGED <<qn, idx, joined, call>>
      BY Zenon, <1>13 DEF QueryOk
    <2>3. CASE pc' = [pc EXCEPT ![p] = "store"] /\ \E r \in Response : r.q = qn[p] /\ res' = [res EXCEPT ![p] = r]
      BY SMTT(30), <2>2, <2>3 DEF Outcome
    <2>4. CASE pc' = [pc EXCEPT ![p] = "publish"] /\ res' = [res EXCEPT ![p] = Failure]
      BY SMTT(30), <2>2, <2>4 DEF Outcome
    <2> QED
      BY Zenon, <2>1, <2>3, <2>4
  <1>14. ASSUME NEW p \in Queries, StoreInCache(p) PROVE Progress'
    BY Zenon, <1>14 DEF StoreInCache, Outcome
  <1>15. ASSUME NEW p \in Queries, Publish(p) PROVE Progress'
    BY SMTT(30), <1>15 DEF Publish, Outcome
  <1>16. ASSUME NEW p \in Queries, Unregister(p) PROVE Progress'
    BY ZenonT(60), <1>16 DEF Unregister, Return
  <1>17. CASE UNCHANGED local /\ UNCHANGED call
    BY Zenon, <1>17
  <1> QED
    BY Zenon, <1>1, <1>2, <1>3, <1>4, <1>5, <1>6, <1>7, <1>8, <1>9, <1>10, <1>11, <1>12,
       <1>13, <1>14, <1>15, <1>16, <1>17
    DEF Next, Resolve, SelectUpstream, QueryAndCache, Environment, Idle,
        CooldownEnds, CacheDrops, Cancel

\* Joining names the registered leader; a leader's key is settled.
LEMMA JoinedStep == IInv /\ [Next]_vars => JoinedCall'
  <1> SUFFICES ASSUME IInv, [Next]_vars PROVE JoinedCall'
    BY Zenon
  <1> USE ValuesAssumption
  <1> USE DEF IInv, TypeOK, JoinedCall, Leading, vars, local, shared
  <1>1. ASSUME NEW p \in Queries, SelectTry(p) PROVE JoinedCall'
    <2>1. \A q \in Queries \ {p} : key(q)' = key(q) /\ pc'[q] = pc[q]
      BY <1>1 DEF SelectTry, key
    <2>2. UNCHANGED joined /\ pc[p] \in {"select", "clear", "ctx"}
      BY Zenon, <1>1 DEF SelectTry
    <2> QED
      BY <2>1, <2>2
  <1>2. ASSUME NEW p \in Queries, SelectClear(p) PROVE JoinedCall'
    <2>1. \A q \in Queries \ {p} : key(q)' = key(q) /\ pc'[q] = pc[q]
      BY Zenon, <1>2 DEF SelectClear, key
    <2>2. UNCHANGED joined /\ pc[p] \in {"select", "clear", "ctx"}
      BY Zenon, <1>2 DEF SelectClear
    <2> QED
      BY <2>1, <2>2
  <1>3. ASSUME NEW p \in Queries, LookupHit(p) PROVE JoinedCall'
    BY <1>3 DEF LookupHit, key, Return
  <1>4. ASSUME NEW p \in Queries, LookupMiss(p) PROVE JoinedCall'
    BY <1>4 DEF LookupMiss, key
  <1>5. ASSUME NEW p \in Queries, CheckContext(p) PROVE JoinedCall'
    <2>1. \A q \in Queries \ {p} : key(q)' = key(q) /\ pc'[q] = pc[q]
      BY <1>5 DEF CheckContext, Return, key
    <2>2. UNCHANGED joined /\ pc[p] \in {"select", "clear", "ctx"}
      BY Zenon, <1>5 DEF CheckContext
    <2> QED
      BY <2>1, <2>2
  <1>6. ASSUME NEW p \in Queries, Join(p) PROVE JoinedCall'
    <2>1. /\ inflight[key(p)] \in Queries
          /\ pc[inflight[key(p)]] \in Leading
          /\ key(inflight[key(p)]) = key(p)
      BY <1>6, KeyType DEF Join, OneLeaderPerKey
    <2>2. \A q \in Queries : key(q)' = key(q)
      BY Zenon, <1>6 DEF Join, key
    <2> QED
      BY <1>6, <2>1, <2>2 DEF Join
  <1>7. ASSUME NEW p \in Queries, WaitDone(p) PROVE JoinedCall'
    BY <1>7 DEF WaitDone, key, Return
  <1>8. ASSUME NEW p \in Queries, WaitCancelled(p) PROVE JoinedCall'
    BY <1>8 DEF WaitCancelled, key, Return
  <1>9. ASSUME NEW p \in Queries, Lead(p) PROVE JoinedCall'
    BY <1>9 DEF Lead, key
  <1>10. ASSUME NEW p \in Queries, GiveUp(p) PROVE JoinedCall'
    BY <1>10 DEF GiveUp, key
  <1>11. ASSUME NEW p \in Queries, TryUpstream(p) PROVE JoinedCall'
    <2>1. \A q \in Queries : key(q)' = key(q)
      BY Zenon, <1>11 DEF TryUpstream, key
    <2>2. \A q \in Queries : pc'[q] = pc[q] \/ (q = p /\ pc[q] = "try" /\ pc'[q] = "query")
      BY Zenon, <1>11 DEF TryUpstream
    <2> QED
      BY <1>11, <2>1, <2>2 DEF TryUpstream
  <1>12. ASSUME NEW p \in Queries, QueryFail(p) PROVE JoinedCall'
    BY <1>12 DEF QueryFail, key
  <1>13. ASSUME NEW p \in Queries, QueryOk(p) PROVE JoinedCall'
    <2>1. \A q \in Queries : key(q)' = key(q)
      BY Zenon, <1>13 DEF QueryOk, key
    <2>2. pc[p] = "query" /\ (pc' = [pc EXCEPT ![p] = "store"] \/ pc' = [pc EXCEPT ![p] = "publish"])
      BY Zenon, <1>13 DEF QueryOk
    <2>3. \A q \in Queries : pc'[q] = pc[q] \/ (q = p /\ pc[q] = "query" /\ pc'[q] \in {"store", "publish"})
      BY Zenon, <2>2
    <2>4. UNCHANGED joined
      BY Zenon, <1>13 DEF QueryOk
    <2> QED
      BY <2>1, <2>3, <2>4
  <1>14. ASSUME NEW p \in Queries, StoreInCache(p) PROVE JoinedCall'
    BY <1>14 DEF StoreInCache, key
  <1>15. ASSUME NEW p \in Queries, Publish(p) PROVE JoinedCall'
    BY <1>15 DEF Publish, key
  <1>16. ASSUME NEW p \in Queries, Unregister(p) PROVE JoinedCall'
    BY <1>16 DEF Unregister, key, Return
  <1>17. CASE UNCHANGED <<qn, pc, up, joined>>
    BY Zenon, <1>17 DEF key
  <1> QED
    BY Zenon, <1>1, <1>2, <1>3, <1>4, <1>5, <1>6, <1>7, <1>8, <1>9, <1>10, <1>11, <1>12,
       <1>13, <1>14, <1>15, <1>16, <1>17
    DEF Next, Resolve, SelectUpstream, QueryAndCache, Environment, Idle,
        CooldownEnds, CacheDrops, Cancel

\* A returned waiter's outcome is never unpublished, nor a cancellation undone.
LEMMA OutcomeStep == IInv /\ [Next]_vars => JoinedOutcome'
  <1> SUFFICES ASSUME IInv, [Next]_vars PROVE JoinedOutcome'
    BY Zenon
  <1> USE ValuesAssumption
  <1> USE DEF IInv, TypeOK, JoinedOutcome, JoinedCall, vars, local, shared
  <1>1. ASSUME NEW p \in Queries, pc[p] # "returned", pc' = [pc EXCEPT ![p] = pc'[p]],
               pc'[p] # "returned",
               UNCHANGED <<result, call, cancelled>>,
               \A q \in Queries \ {p} : joined'[q] = joined[q]
        PROVE  JoinedOutcome'
    BY <1>1
  <1>2. ASSUME NEW p \in Queries, LookupHit(p) PROVE JoinedOutcome'
    BY Zenon, <1>2 DEF LookupHit, Return
  <1>3. ASSUME NEW p \in Queries, CheckContext(p) PROVE JoinedOutcome'
    BY <1>3 DEF CheckContext, Return
  <1>4. ASSUME NEW p \in Queries, WaitDone(p) PROVE JoinedOutcome'
    BY Zenon, <1>4 DEF WaitDone, Return, Progress
  <1>5. ASSUME NEW p \in Queries, WaitCancelled(p) PROVE JoinedOutcome'
    BY Zenon, <1>5 DEF WaitCancelled, Return
  <1>6. ASSUME NEW p \in Queries, Publish(p) PROVE JoinedOutcome'
    BY <1>6 DEF Publish, Progress
  <1>7. ASSUME NEW p \in Queries, Unregister(p) PROVE JoinedOutcome'
    BY Zenon, <1>7 DEF Unregister, Return, Leading
  <1>8. CASE Cancel
    BY Zenon, <1>8 DEF Cancel
  <1>9. CASE UNCHANGED <<pc, joined, result, call, cancelled>>
    BY Zenon, <1>9
  <1>10. ASSUME NEW p \in Queries,
                \/ SelectUpstream(p) \/ LookupMiss(p) \/ Join(p) \/ Lead(p) \/ QueryAndCache(p)
         PROVE  JoinedOutcome'
    <2>1. pc[p] # "returned" /\ pc' = [pc EXCEPT ![p] = pc'[p]] /\ pc'[p] # "returned"
      BY ZenonT(60), <1>10 DEF SelectUpstream, QueryAndCache, SelectTry, SelectClear, LookupMiss, Join,
         Lead, GiveUp, TryUpstream, QueryFail, QueryOk, StoreInCache
    <2>2. /\ UNCHANGED <<result, call, cancelled>>
          /\ \A q \in Queries \ {p} : joined'[q] = joined[q]
      BY Zenon, <1>10 DEF SelectUpstream, QueryAndCache, SelectTry, SelectClear, LookupMiss, Join,
         Lead, GiveUp, TryUpstream, QueryFail, QueryOk, StoreInCache
    <2> QED
      BY Zenon, <1>1, <2>1, <2>2
  <1> QED
    BY Zenon, <1>2, <1>3, <1>4, <1>5, <1>6, <1>7, <1>8, <1>9, <1>10
    DEF Next, Resolve, Environment, Idle, CooldownEnds, CacheDrops

\* A leader is newer than its key's entry until it stores, and only it stores.
LEMMA FlightStep == IInv /\ [Next]_vars => FlightOrder'
  <1> SUFFICES ASSUME IInv, [Next]_vars PROVE FlightOrder'
    BY Zenon
  <1> USE ValuesAssumption, OutcomesAssumption, KeyType
  <1> USE DEF IInv, TypeOK, FlightOrder, vars, local, shared
  <1>1. ASSUME NEW p \in Queries, UNCHANGED <<cache, flights, flight>>,
               \A q \in Queries \ {p} : key(q)' = key(q) /\ pc'[q] = pc[q] /\ res'[q] = res[q],
               pc'[p] \in Leading => pc[p] \in Leading /\ key(p)' = key(p),
               pc'[p] = "store" => res'[p].flight = flight[p]
        PROVE  FlightOrder'
    BY ZenonT(60), <1>1
  <1>2. ASSUME NEW p \in Queries, Lead(p) PROVE FlightOrder'
    <2>1. \A q \in Queries : key(q)' = key(q)
      BY Zenon, <1>2 DEF Lead, key
    <2>2. \A k \in Keys : cache[k] # None => cache[k].flight \in Nat
      BY Zenon DEF Response
    <2> QED
      BY <1>2, <2>1, <2>2 DEF Lead
  <1>3. ASSUME NEW p \in Queries, StoreInCache(p) PROVE FlightOrder'
    <2>1. \A q \in Queries : key(q)' = key(q) /\ key(q) \in Keys
      BY Zenon, <1>3 DEF StoreInCache, key
    <2>2. \A q \in Queries \ {p} : pc[q] \in Leading => key(q) # key(p)
      BY Zenon, <1>3, LeadersDiffer DEF StoreInCache, OneLeaderPerKey, Leading
    <2>3. res[p].flight = flight[p] /\ flight[p] <= flights
      BY Zenon, <1>3 DEF StoreInCache, Leading
    <2>4. CASE cache' = [cache EXCEPT ![key(p)] = res[p]]
      BY SMTT(30), <1>3, <2>1, <2>2, <2>3, <2>4 DEF StoreInCache, Leading
    <2>5. CASE UNCHANGED cache
      BY Zenon, <1>3, <2>1, <2>5 DEF StoreInCache, Leading
    <2> QED
      BY Zenon, <1>3, <2>4, <2>5 DEF StoreInCache
  <1>4. ASSUME NEW p \in Queries, QueryOk(p) PROVE FlightOrder'
    <2>1. UNCHANGED <<cache, flights, flight>>
      BY Zenon, <1>4 DEF QueryOk
    <2>2. \A q \in Queries : key(q)' = key(q)
      BY Zenon, <1>4 DEF QueryOk, key
    <2>3. /\ \A q \in Queries \ {p} : pc'[q] = pc[q] /\ res'[q] = res[q]
          /\ pc[p] \in Leading
      BY Zenon, <1>4 DEF QueryOk, Leading
    <2>4. \/ \E q \in Questions :
               res' = [res EXCEPT ![p] = [q |-> q, from |-> candidate(p), flight |-> flight[p]]]
          \/ pc' = [pc EXCEPT ![p] = "publish"]
      BY Zenon, <1>4 DEF QueryOk
    <2>5. p \in DOMAIN res /\ p \in DOMAIN pc
      BY Zenon
    <2>6. pc'[p] = "store" => res'[p].flight = flight[p]
      <3> HIDE DEF IInv, TypeOK, FlightOrder
      <3> QED
        BY <2>4, <2>5
    <2> QED
      BY Zenon, <1>1, <2>1, <2>2, <2>3, <2>6
  <1>5. ASSUME NEW k \in Keys, CacheDrops(k) PROVE FlightOrder'
    BY Zenon, <1>5 DEF CacheDrops, key
  <1>6. CASE UNCHANGED <<local, cache, flights>>
    BY Zenon, <1>6 DEF key
  <1>7. ASSUME NEW p \in Queries,
               \/ SelectTry(p) \/ SelectClear(p) \/ LookupHit(p) \/ LookupMiss(p)
               \/ CheckContext(p) \/ Join(p) \/ WaitDone(p) \/ WaitCancelled(p)
               \/ GiveUp(p) \/ TryUpstream(p) \/ QueryFail(p) \/ Publish(p) \/ Unregister(p)
        PROVE  FlightOrder'
    <2> USE DEF SelectTry, SelectClear, LookupHit, LookupMiss, CheckContext, Join, WaitDone,
          WaitCancelled, GiveUp, TryUpstream, QueryFail, Publish, Unregister, Return, Leading
    <2>1. UNCHANGED <<cache, flights, flight>>
      BY Zenon, <1>7
    <2>2. \A q \in Queries \ {p} : key(q)' = key(q)
      BY Zenon, <1>7 DEF key
    <2>3. \A q \in Queries \ {p} : pc'[q] = pc[q] /\ res'[q] = res[q]
      BY ZenonT(60), <1>7
    <2>4. pc'[p] \in Leading => pc[p] \in Leading
      BY ZenonT(60), <1>7
    <2>5. pc[p] \in Leading => key(p)' = key(p)
      BY Zenon, <1>7 DEF key
    <2>6. pc'[p] # "store"
      BY ZenonT(60), <1>7
    <2> QED
      BY SMTT(30), <1>1, <2>1, <2>2, <2>3, <2>4, <2>5, <2>6
  <1> QED
    BY Zenon, <1>2, <1>3, <1>4, <1>5, <1>6, <1>7
    DEF Next, Resolve, SelectUpstream, QueryAndCache, Environment, Idle, CooldownEnds, Cancel

-----------------------------------------------------------------------------

\* No call has begun.
LEMMA InitInv == Init => IInv
  <1> SUFFICES ASSUME Init PROVE IInv
    BY Zenon
  <1> USE UpstreamsAssumption, ValuesAssumption, OutcomesAssumption
  <1> USE DEF Init
  <1>1. TypeOK
    <2>1. idx \in [Queries -> 0..NumUpstreams] /\ up \in [Queries -> Upstreams]
      BY DEF Upstreams
    <2>2. pc \in [Queries -> Steps]
      BY Zenon DEF Steps
    <2>3. health \in [Upstreams -> {"ok", "cooldown", "expired"}] /\ cancelled \in BOOLEAN
      BY Zenon
    <2>4. seen \in [Queries -> SUBSET Upstreams]
      BY Zenon
    <2> QED
      BY Zenon, <2>1, <2>2, <2>3, <2>4 DEF TypeOK
  <1>2. OneLeaderPerKey
    BY Zenon, <1>1, KeyType DEF OneLeaderPerKey, Leading
  <1>3. AnswersOwnQuestion
    BY Zenon DEF AnswersOwnQuestion, Answers, Outcome
  <1>4. Progress /\ JoinedCall /\ JoinedOutcome
    BY DEF Progress, JoinedCall, JoinedOutcome, Answers, Outcome, Upstreams
  <1>5. FlightOrder
    BY Zenon DEF FlightOrder, Leading
  <1> QED
    BY Zenon, <1>1, <1>2, <1>3, <1>4, <1>5 DEF IInv

\* The inductive invariant holds in every reachable state.
THEOREM Invariance == Spec => []IInv
  <1>1. IInv /\ [Next]_vars => IInv'
    BY Zenon, TypeStep, LeaderStep, AnswersStep, ProgressStep, JoinedStep, OutcomeStep, FlightStep
    DEF IInv
  <1> QED
    BY <1>1, InitInv, PTL DEF Spec

\* The resolver's maps and locals keep their types, for any number of queries.
THEOREM TypeCorrect == Spec => []TypeOK
  BY Invariance, PTL DEF IInv

\* Singleflight: the inflight map holds exactly the running leaders, one per key.
THEOREM Singleflight == Spec => []OneLeaderPerKey
  BY Invariance, PTL DEF IInv

\* No query is answered, through an upstream, a call or the cache, with the
\* response to another question.
THEOREM OwnQuestion == Spec => []AnswersOwnQuestion
  BY Invariance, PTL DEF IInv

\* A query that joined a call returns that call's outcome unless cancelled.
THEOREM Sharing == Spec => []SharedOutcome
  <1>1. IInv => SharedOutcome
    BY ValuesAssumption
    DEF IInv, TypeOK, SharedOutcome, JoinedOutcome, JoinedCall, Progress
  <1> QED
    BY <1>1, Invariance, PTL

\* A cache entry is only ever replaced by the response of a newer call.
THEOREM NoRegress == Spec => CacheNeverRegresses
  <1>1. IInv /\ [Next]_vars =>
          [\A k \in Keys : cache[k] # None /\ cache'[k] # None =>
             cache'[k].flight >= cache[k].flight]_cache
    <2> SUFFICES ASSUME IInv, [Next]_vars, cache' # cache,
                        NEW k \in Keys, cache[k] # None, cache'[k] # None
                 PROVE  cache'[k].flight >= cache[k].flight
      BY Zenon
    <2> USE DEF IInv, TypeOK
    <2>1. cache[k].flight \in Nat
      BY Zenon DEF Response
    <2>2. ASSUME NEW p \in Queries, StoreInCache(p)
          PROVE  cache'[k].flight >= cache[k].flight
      BY <2>1, <2>2, KeyType DEF StoreInCache, FlightOrder, Leading
    <2>3. ASSUME NEW j \in Keys, CacheDrops(j)
          PROVE  cache'[k].flight >= cache[k].flight
      BY <2>1, <2>3 DEF CacheDrops
    <2> QED
      BY ZenonT(60), <2>2, <2>3
      DEF Next, Resolve, SelectUpstream, QueryAndCache, Environment, Idle, vars, local, shared,
          SelectTry, SelectClear, LookupHit, LookupMiss, CheckContext, Join, WaitDone,
          WaitCancelled, Lead, GiveUp, TryUpstream, QueryFail, QueryOk, Publish, Unregister,
          CooldownEnds, Cancel
  <1> QED
    BY <1>1, Invariance, PTL DEF Spec, CacheNeverRegresses
-----------------------------------------------------------------------------
(* Failover.                                                               *)

\* The upstream of iteration j of query p's failover loop.
attempt(p, j) == ((up[p] - 1 + j) % NumUpstreams) + 1

\* The iterations that are over, and the one under way, have been examined.
Examined ==
    \A p \in Queries : pc[p] \in Leading =>
        /\ \A j \in 0..NumUpstreams : j < idx[p] => attempt(p, j) \in seen[p]
        /\ pc[p] = "query" => candidate(p) \in seen[p]

\* Started anywhere, as many iterations as there are upstreams reach every one.
LEMMA AttemptsCover ==
  ASSUME TypeOK, NEW p \in Queries, NEW u \in Upstreams
  PROVE  \E j \in 0..NumUpstreams : j < NumUpstreams /\ attempt(p, j) = u
  <1>1. up[p] \in 1..NumUpstreams /\ u \in 1..NumUpstreams
    BY Zenon DEF TypeOK, Upstreams
  <1>2. CASE NumUpstreams = 1
    <2>1. attempt(p, 0) = u
      BY <1>1, <1>2 DEF attempt
    <2> QED
      BY <1>2, <2>1
  <1>3. CASE NumUpstreams = 2
    <2>1. attempt(p, 0) = u \/ attempt(p, 1) = u
      BY <1>1, <1>3 DEF attempt
    <2> QED
      BY <1>3, <2>1
  <1>4. CASE NumUpstreams = 3
    <2>1. attempt(p, 0) = u \/ attempt(p, 1) = u \/ attempt(p, 2) = u
      BY <1>1, <1>4 DEF attempt
    <2> QED
      BY <1>4, <2>1
  <1> QED
    BY <1>2, <1>3, <1>4, UpstreamsAssumption

\* Every step keeps Examined.
LEMMA ExaminedStep == IInv /\ Examined /\ [Next]_vars => Examined'
  <1> SUFFICES ASSUME IInv, Examined, [Next]_vars, NEW p \in Queries, pc'[p] \in Leading
               PROVE  /\ \A j \in 0..NumUpstreams : j < idx'[p] => attempt(p, j)' \in seen'[p]
                      /\ pc'[p] = "query" => candidate(p)' \in seen'[p]
    BY Zenon DEF Examined
  <1>0. TypeOK
    BY Zenon DEF IInv
  <1>1. CASE Lead(p)
    <2>1. idx'[p] = 0 /\ pc'[p] = "try"
      BY Zenon, <1>0, <1>1 DEF Lead, TypeOK
    <2> QED
      BY <2>1
  <1>2. ASSUME pc[p] \in Leading, up'[p] = up[p], idx'[p] = idx[p], seen[p] \subseteq seen'[p],
               pc'[p] = "query" => pc[p] = "query" \/ candidate(p) \in seen'[p]
        PROVE  /\ \A j \in 0..NumUpstreams : j < idx'[p] => attempt(p, j)' \in seen'[p]
               /\ pc'[p] = "query" => candidate(p)' \in seen'[p]
    BY Zenon, <1>2 DEF Examined, attempt, candidate
  <1>3. ASSUME pc[p] \in Leading, up'[p] = up[p], idx'[p] = idx[p] + 1, seen[p] \subseteq seen'[p],
               pc'[p] # "query", candidate(p) \in seen'[p]
        PROVE  /\ \A j \in 0..NumUpstreams : j < idx'[p] => attempt(p, j)' \in seen'[p]
               /\ pc'[p] = "query" => candidate(p)' \in seen'[p]
    <2> SUFFICES ASSUME NEW j \in 0..NumUpstreams, j < idx'[p]
                 PROVE  attempt(p, j)' \in seen'[p]
      BY Zenon, <1>3
    <2>1. j < idx[p] \/ j = idx[p]
      <3>1. idx[p] \in 0..NumUpstreams /\ NumUpstreams \in 1..3 /\ j < idx[p] + 1
        BY Zenon, <1>0, <1>3, UpstreamsAssumption DEF TypeOK
      <3> QED
        BY <3>1
    <2>2. attempt(p, j)' = attempt(p, j)
      BY Zenon, <1>3 DEF attempt
    <2>3. CASE j < idx[p]
      BY Zenon, <1>3, <2>2, <2>3 DEF Examined
    <2>4. CASE j = idx[p]
      BY Zenon, <1>3, <2>2, <2>4 DEF attempt, candidate
    <2> QED
      BY Zenon, <2>1, <2>3, <2>4
  <1>4. CASE TryUpstream(p)
    <2>1. /\ pc[p] \in Leading /\ up'[p] = up[p] /\ seen[p] \subseteq seen'[p]
          /\ candidate(p) \in seen'[p]
      BY Zenon, <1>0, <1>4 DEF TryUpstream, TypeOK, Leading
    <2>2. CASE canTry(candidate(p))
      BY Zenon, <1>2, <1>4, <2>1, <2>2 DEF TryUpstream
    <2>3. CASE ~canTry(candidate(p))
      <3>1. idx'[p] = idx[p] + 1 /\ pc'[p] = "try"
        BY Zenon, <1>0, <1>4, <2>3 DEF TryUpstream, TypeOK
      <3> QED
        BY Zenon, <1>3, <2>1, <3>1
    <2> QED
      BY Zenon, <2>2, <2>3
  <1>5. CASE QueryFail(p)
    <2>1. /\ pc[p] \in Leading /\ pc[p] = "query" /\ up'[p] = up[p] /\ seen'[p] = seen[p]
          /\ idx'[p] = idx[p] + 1 /\ pc'[p] = "try"
      BY Zenon, <1>0, <1>5 DEF QueryFail, TypeOK, Leading
    <2>2. candidate(p) \in seen'[p]
      BY Zenon, <2>1 DEF Examined
    <2> QED
      BY Zenon, <1>3, <2>1, <2>2
  <1>6. CASE GiveUp(p) \/ QueryOk(p) \/ StoreInCache(p) \/ Publish(p)
    <2>1. /\ pc[p] \in Leading /\ pc'[p] # "query"
          /\ up' = up /\ idx' = idx /\ seen' = seen
      BY Zenon, <1>0, <1>6 DEF GiveUp, QueryOk, StoreInCache, Publish, TypeOK, Leading
    <2> QED
      BY Zenon, <1>2, <2>1
  <1>7. CASE \/ SelectTry(p) \/ SelectClear(p) \/ LookupHit(p) \/ LookupMiss(p) \/ CheckContext(p)
             \/ Join(p) \/ WaitDone(p) \/ WaitCancelled(p) \/ Unregister(p)
    <2>1. pc'[p] \notin Leading
      BY <1>0, <1>7
      DEF SelectTry, SelectClear, LookupHit, LookupMiss, CheckContext, Join, WaitDone,
          WaitCancelled, Unregister, Return, TypeOK, Leading
    <2> QED
      BY Zenon, <2>1
  <1>8. CASE UNCHANGED <<pc[p], up[p], idx[p], seen[p]>>
    BY Zenon, <1>2, <1>8
  <1>9. ASSUME NEW o \in Queries, o # p, Resolve(o) PROVE UNCHANGED <<pc[p], up[p], idx[p], seen[p]>>
    <2>1. CASE SelectTry(o) \/ SelectClear(o)
      BY <1>0, <1>9, <2>1 DEF SelectTry, SelectClear, TypeOK
    <2>2. CASE LookupHit(o) \/ LookupMiss(o) \/ CheckContext(o) \/ Join(o)
      BY <1>0, <1>9, <2>2 DEF LookupHit, LookupMiss, CheckContext, Join, Return, TypeOK
    <2>3. CASE WaitDone(o) \/ WaitCancelled(o) \/ Lead(o) \/ GiveUp(o)
      BY <1>0, <1>9, <2>3 DEF WaitDone, WaitCancelled, Lead, GiveUp, Return, TypeOK
    <2>4. CASE TryUpstream(o)
      BY <1>0, <1>9, <2>4 DEF TryUpstream, TypeOK
    <2>5. CASE QueryFail(o) \/ QueryOk(o)
      BY <1>0, <1>9, <2>5 DEF QueryFail, QueryOk, TypeOK
    <2>6. CASE StoreInCache(o) \/ Publish(o) \/ Unregister(o)
      BY <1>0, <1>9, <2>6 DEF StoreInCache, Publish, Unregister, Return, TypeOK
    <2> QED
      BY Zenon, <1>9, <2>1, <2>2, <2>3, <2>4, <2>5, <2>6
      DEF Resolve, SelectUpstream, QueryAndCache
  <1>10. CASE Environment \/ UNCHANGED vars
    BY Zenon, <1>8, <1>10 DEF Environment, CooldownEnds, CacheDrops, Cancel, vars, local
  <1> QED
    BY Zenon, <1>1, <1>4, <1>5, <1>6, <1>7, <1>8, <1>9, <1>10
    DEF Next, Resolve, SelectUpstream, QueryAndCache, Idle

\* A leader that ran its failover loop to the end has examined every upstream,
\* whichever selectUpstream made it start with and whatever other queries do to
\* the upstreams' health meanwhile.
THEOREM Failover == Spec => []FailoverCoversAll
  <1>1. Init => Examined
    BY Zenon DEF Init, Examined, Leading
  <1>2. IInv /\ Examined => FailoverCoversAll
    <2> SUFFICES ASSUME IInv, Examined, NEW p \in Queries, pc[p] \in Leading, idx[p] = NumUpstreams
                 PROVE  seen[p] = Upstreams
      BY Zenon DEF FailoverCoversAll
    <2>1. TypeOK /\ seen[p] \subseteq Upstreams
      BY Zenon DEF IInv, TypeOK
    <2>2. ASSUME NEW u \in Upstreams PROVE u \in seen[p]
      BY Zenon, <2>1, AttemptsCover DEF Examined
    <2> QED
      BY Zenon, <2>1, <2>2
  <1> QED
    BY <1>1, <1>2, ExaminedStep, Invariance, PTL DEF Spec
=============================================================================
