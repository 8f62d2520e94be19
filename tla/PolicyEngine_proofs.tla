------------------------- MODULE PolicyEngine_proofs -------------------------
(***************************************************************************)
(* The policy engine allows what is on the whitelist and counts what it    *)
(* decides, and does what the tables say, for any lists, evaluations, API  *)
(* calls, refreshes and restarts.                                          *)
(***************************************************************************)
EXTENDS PolicyEngine, FiniteSetTheorems, WellFoundedInduction, TLAPS

\* The records of the queries, the calls and the loader, and what the loader is at.
Queried ==
    query \in [Queries -> [at  : {"idle", "whitelist", "load", "blacklist", "lost"} \cup Verdict,
                           d   : Domains \cup {None},
                           ref : Tries \cup {None}]]
Asked == UNION {Requests[c] : c \in Calls}
Called ==
    /\ call \in [Calls -> [at  : {"idle", "whitelist", "blacklist", "enabled", "trie", "done"},
                           req : Asked \cup {None},
                           ref : Tries \cup {None}]]
    /\ \A c \in Calls : call[c].at \notin {"idle", "done"} =>
          /\ call[c].req \in Asked
          /\ call[c].req.table = IF call[c].at = "trie" THEN "blacklist" ELSE call[c].at
Loading ==
    /\ loader \in [i : 1..(Len(Lists) + 1), ref : Tries \cup {None}]
    /\ loader.ref # None => loader.i \in urls

\* A spared query is allowed, or will be.
Sparing ==
    /\ spared \in [Queries -> BOOLEAN]
    /\ \A q \in Queries : spared[q] => /\ query[q].at \in {"whitelist", "allow"}
                                       /\ query[q].d \in whitelist

\* The evaluations that have no verdict yet, and those ever made; each is counted.
UnderWay == {q \in Queries : query[q].at \notin {"idle", "lost"} \cup Verdict}
Begun    == {q \in Queries : query[q].at # "idle"}
Counted ==
    /\ stats \in [{"total", "blocked", "allowed"} -> Nat]
    /\ stats.total = stats.blocked + stats.allowed + Cardinality(UnderWay)
    /\ stats.total <= Cardinality(Begun)

\* The types of the engine and its tables; a trie is had by whoever is about to use it.
EngineTypes ==
    /\ whitelist \subseteq Domains
    /\ heap \in [Tries -> SUBSET Domains]
    /\ enabled \in BOOLEAN /\ faults \in 0..MaxFaults /\ urls \subseteq DOMAIN Lists
    /\ database \in [whitelist : SUBSET Spellings, blacklist : SUBSET Spellings,
                     lists : SUBSET DOMAIN Lists, enabled : SUBSET {1}]
    /\ wiped \subseteq Domains
    /\ refresher \in {"running", "closing", "stopped"}

References ==
    /\ \A q \in Queries : (query[q].at = "blacklist") <=> (query[q].ref \in Tries)
    /\ \A c \in Calls : (call[c].at = "trie") <=> (call[c].ref \in Tries)

\* The inductive invariant of the engine, for any number of API calls.
EngineInv ==
    /\ EngineTypes /\ References
    /\ Queried /\ Called /\ Loading
    /\ Sparing /\ Counted

\* What the blocklists of the engine contain.
Listed == UNION {Lists[i] : i \in urls}

\* The call will change a trie that is not in use any more.
Late(c) == call[c].at = "trie" /\ call[c].ref # Main

\* The edits of the blacklist rule d did not cross, and none will reach the trie in use.
Free(d) == <<"blacklist", d>> \notin crossed /\ \A c \in Editing(<<"blacklist", d>>) : Late(c)

\* The table t of the database db has the rule x.
Says(db, t, x) == IF t = "enabled" THEN db.enabled # {} ELSE x \in rules(db[t])

\* Where edits of a rule did not cross, at most one call is editing it, and will do
\* what the table says; where there is none, the engine has done it.
InForce ==
    /\ \A c, e \in Calls : /\ Applying(c) /\ Applying(e) /\ c # e
                           /\ target(call[c].req) = target(call[e].req)
                           => target(call[c].req) \in crossed
    /\ \A c \in Calls : Applying(c) /\ target(call[c].req) \notin crossed =>
          (call[c].req.op = "add") = Says(database, call[c].req.table, rule(call[c].req))
    /\ \A d \in Domains : Settled("whitelist", d) =>
          (d \in whitelist <=> d \in rules(database.whitelist))
    /\ Settled("enabled", 1) => enabled = (database.enabled # {})
    /\ \A d \in Domains : Free(d) =>
          /\ d \in rules(database.blacklist) \ wiped => d \in Active
          /\ d \in Active => d \in rules(database.blacklist) \cup Listed

\* Queries are finitely many, and so are those begun and under way.
LEMMA UnderWayFinite ==
  ASSUME EngineInv
  PROVE  /\ IsFiniteSet(Queries) /\ IsFiniteSet(UnderWay) /\ IsFiniteSet(Begun)
         /\ Cardinality(Queries) \in Nat
         /\ Cardinality(UnderWay) \in Nat /\ Cardinality(Begun) \in Nat
         /\ Cardinality(Begun) <= Cardinality(Queries)
  <1>1. IsFiniteSet(Queries) /\ UnderWay \subseteq Queries /\ Begun \subseteq Queries
    BY Zenon, TriesAssumption DEF EngineInv, UnderWay, Begun
  <1> QED
    BY Zenon, <1>1, FS_Subset, FS_CardinalityType

\* The invariant gives the types of the engine,
LEMMA EngineTyped == ASSUME EngineInv PROVE TypeOK
  <1>1. stats \in [{"total", "blocked", "allowed"} -> 0..Cardinality(Queries)]
    BY UnderWayFinite DEF EngineInv, Counted
  <1> QED
    BY Zenon, <1>1 DEF EngineInv, EngineTypes, References, Queried, Loading, TypeOK

\* and that a spared query is not blocked and each is counted once.
LEMMA EngineSafe == ASSUME EngineInv PROVE WhitelistWins
  BY Zenon, EngineTyped DEF EngineInv, Sparing, Counted, UnderWay, WhitelistWins

\* Rows stand for rules in normal form.
LEMMA RulesTyped == ASSUME NEW rows \in SUBSET Spellings PROVE rules(rows) \subseteq Domains
  <1>1. Normal \in [Spellings -> Domains]
    BY Zenon, ListsAssumption
  <1> QED
    BY Zenon, <1>1 DEF rules

\* The engine that NewPolicyEngine builds.
LEMMA EngineInit == ASSUME Init PROVE EngineInv
  <1> USE DEF Init, NewPolicyEngine, exportFilteringConfig, NoQuery, NoCall
  <1>1. Lists \in Seq(SUBSET Domains) /\ Len(Lists) \in Nat /\ DOMAIN Lists = 1..Len(Lists)
    BY ListsAssumption
  <1>2. EngineTypes
    <2>1. Whitelisted \subseteq Spellings /\ Blacklisted \subseteq Spellings /\ Enabled \subseteq {1}
      BY Zenon, ListsAssumption
    <2>2. rules(Whitelisted) \subseteq Domains /\ rules(Blacklisted) \subseteq Domains
      BY Zenon, <2>1, RulesTyped
    <2> QED
      BY <1>1, <2>1, <2>2, TriesAssumption DEF EngineTypes
  <1>3. References
    BY Zenon, TriesAssumption DEF References
  <1>4. Queried /\ Called /\ Loading /\ Sparing
    BY <1>1 DEF Queried, Called, Loading, Sparing, Verdict
  <1>5. Counted
    <2>1. UnderWay = {} /\ Begun = {}
      BY Zenon DEF UnderWay, Begun
    <2> QED
      BY <2>1, FS_EmptySet DEF Counted
  <1> QED
    BY Zenon, <1>2, <1>3, <1>4, <1>5 DEF EngineInv

-----------------------------------------------------------------------------

\* What a step does to the counters when the only query that moves is q.
LEMMA CountMoves ==
  ASSUME EngineInv, NEW q \in Queries, NEW v, NEW d, NEW ref,
         query' = [query EXCEPT ![q] = [at |-> v, d |-> d, ref |-> ref]]
  PROVE  /\ q \in UnderWay /\ v \in Verdict =>
               Cardinality(UnderWay') + 1 = Cardinality(UnderWay) /\ Begun' = Begun
         /\ q \in UnderWay /\ v \in {"whitelist", "load", "blacklist"} => UnderWay' = UnderWay /\ Begun' = Begun
         /\ query[q].at = "idle" /\ v = "whitelist" =>
               /\ Cardinality(UnderWay') = Cardinality(UnderWay) + 1
               /\ Cardinality(Begun') = Cardinality(Begun) + 1
         /\ Cardinality(UnderWay') \in Nat /\ Cardinality(Begun') \in Nat
         /\ query[q].at = "idle" /\ v = "allow" =>
               UnderWay' = UnderWay /\ Cardinality(Begun') = Cardinality(Begun) + 1
  <1>0. query'[q].at = v /\ \A p \in Queries \ {q} : query'[p] = query[p]
    BY Zenon DEF EngineInv, Queried
  <1> Cardinality(UnderWay') \in Nat /\ Cardinality(Begun') \in Nat
    <2>1. UnderWay' \subseteq Queries /\ Begun' \subseteq Queries
      BY Zenon DEF UnderWay, Begun
    <2> QED
      BY Zenon, <2>1, UnderWayFinite, FS_Subset, FS_CardinalityType
  <1>1. CASE q \in UnderWay /\ v \in Verdict
    <2>1. UnderWay' = UnderWay \ {q} /\ Begun' = Begun
      BY Zenon, <1>0, <1>1 DEF UnderWay, Begun, Verdict
    <2> QED
      <3>1. Cardinality(UnderWay') = Cardinality(UnderWay) - 1
        BY Zenon, <1>1, <2>1, UnderWayFinite, FS_RemoveElement
      <3>2. query[q].at # "idle" /\ v \notin {"whitelist", "load", "blacklist"}
        BY Zenon, <1>1 DEF UnderWay, Verdict
      <3> QED
        BY <2>1, <3>1, <3>2, UnderWayFinite
  <1>2. CASE q \in UnderWay /\ v \in {"whitelist", "load", "blacklist"}
    BY <1>0, <1>2 DEF UnderWay, Begun, Verdict
  <1>3. CASE query[q].at = "idle" /\ v = "whitelist"
    <2>1. UnderWay' = UnderWay \cup {q} /\ Begun' = Begun \cup {q} /\ q \notin UnderWay /\ q \notin Begun
      BY Zenon, <1>0, <1>3 DEF UnderWay, Begun, Verdict
    <2> QED
      BY Zenon, <1>3, <2>1, UnderWayFinite, FS_AddElement DEF UnderWay, Verdict
  <1>4. CASE query[q].at = "idle" /\ v = "allow"
    <2>1. UnderWay' = UnderWay /\ Begun' = Begun \cup {q} /\ q \notin UnderWay /\ q \notin Begun
      BY Zenon, <1>0, <1>4 DEF UnderWay, Begun, Verdict
    <2> QED
      BY Zenon, <1>4, <2>1, UnderWayFinite, FS_AddElement DEF UnderWay, Verdict
  <1> QED
    BY Zenon, <1>1, <1>2, <1>3, <1>4

\* Counting a query under its verdict, or as under way, keeps the counters right.
LEMMA CountStep ==
  ASSUME EngineInv, NEW t \in Nat, NEW b \in Nat, NEW a \in Nat, Counts(t, b, a),
         Cardinality(UnderWay') \in Nat, Cardinality(Begun') \in Nat,
         Cardinality(UnderWay') + b + a = Cardinality(UnderWay) + t,
         Cardinality(Begun') = Cardinality(Begun) + t
  PROVE  Counted'
  <1>1. /\ stats.total \in Nat /\ stats.blocked \in Nat /\ stats.allowed \in Nat
        /\ stats.total = stats.blocked + stats.allowed + Cardinality(UnderWay)
        /\ stats.total <= Cardinality(Begun)
    BY Zenon DEF EngineInv, Counted
  <1>2. /\ stats'.total = stats.total + t /\ stats'.blocked = stats.blocked + b
        /\ stats'.allowed = stats.allowed + a
    BY Zenon DEF Counts
  <1>3. stats' \in [{"total", "blocked", "allowed"} -> Nat]
    BY <1>1 DEF Counts
  <1>4. stats'.total = stats'.blocked + stats'.allowed + Cardinality(UnderWay')
    BY <1>1, <1>2, UnderWayFinite
  <1>5. stats'.total <= Cardinality(Begun')
    BY <1>1, <1>2, UnderWayFinite
  <1> QED
    BY Zenon, <1>3, <1>4, <1>5 DEF Counted

\* An evaluation begins under way, or allowed at once where filtering is off.
LEMMA EvalStartStep ==
  ASSUME NEW q \in Queries, NEW d \in Domains, EngineInv, EvalStart(q, d)
  PROVE  EngineInv'
  <1> USE DEF EngineInv, engine, tables, background
  <1> DEFINE v == IF enabled THEN "whitelist" ELSE "allow"
  <1>1. query' = [query EXCEPT ![q] = [at |-> v, d |-> d, ref |-> None]]
    BY Zenon DEF EvalStart
  <1>2. query[q].at = "idle" /\ query[q].ref \in Tries \cup {None} /\ query[q].ref \notin Tries
    BY Zenon DEF EvalStart, Queried, References
  <1>3. UNCHANGED <<engine, tables, call, background, faults>>
    BY Zenon DEF EvalStart
  <1>4. EngineTypes' /\ Called' /\ Loading'
    BY Zenon, <1>3 DEF EngineTypes, Called, Loading
  <1>5. References'
    BY Zenon, <1>1, <1>2, <1>3 DEF References, Queried
  <1>6. Queried'
    BY Zenon, <1>1, <1>2 DEF Queried, Verdict
  <1>7. Sparing'
    BY <1>1, <1>3 DEF Sparing, Queried, EvalStart
  <1>8. Counted'
    <2> USE UnderWayFinite
    <2> HIDE DEF EngineInv
    <2>1. CASE enabled
      <3>1. /\ Counts(1, 0, 0) /\ Cardinality(UnderWay') = Cardinality(UnderWay) + 1
            /\ Cardinality(Begun') = Cardinality(Begun) + 1
            /\ Cardinality(UnderWay') \in Nat /\ Cardinality(Begun') \in Nat
        BY Zenon, <1>1, <1>2, <2>1, CountMoves DEF EvalStart
      <3> QED
        BY <3>1, CountStep
    <2>2. CASE ~enabled
      <3>1. /\ Counts(1, 0, 1) /\ UnderWay' = UnderWay
            /\ Cardinality(Begun') = Cardinality(Begun) + 1
            /\ Cardinality(UnderWay') \in Nat /\ Cardinality(Begun') \in Nat
        BY Zenon, <1>1, <1>2, <2>2, CountMoves DEF EvalStart
      <3> QED
        BY <3>1, CountStep
    <2> QED
      BY Zenon, <2>1, <2>2
  <1> QED
    BY Zenon, <1>4, <1>5, <1>6, <1>7, <1>8

\* A spared query finds its domain on the whitelist.
LEMMA EvalWhitelistStep ==
  ASSUME NEW q \in Queries, EngineInv, EvalWhitelist(q)
  PROVE  EngineInv'
  <1> USE DEF EngineInv, engine, tables, background
  <1> DEFINE v == IF query[q].d \in whitelist THEN "allow" ELSE "load"
  <1>1. query' = [query EXCEPT ![q] = [at |-> v, d |-> query[q].d, ref |-> None]]
    BY Zenon DEF EvalWhitelist, Decide
  <1>2. query[q].at = "whitelist" /\ query[q].d \in Domains \cup {None} /\ q \in UnderWay
    BY Zenon DEF EvalWhitelist, Queried, UnderWay, Verdict
  <1>3. UNCHANGED <<engine, tables, call, background, faults, spared>>
    BY Zenon DEF EvalWhitelist
  <1>4. EngineTypes' /\ Called' /\ Loading'
    BY Zenon, <1>3 DEF EngineTypes, Called, Loading
  <1>5. References'
    BY Zenon, <1>1, <1>2, <1>3, TriesAssumption DEF References, Queried
  <1>6. Queried'
    BY Zenon, <1>1, <1>2 DEF Queried, Verdict
  <1>7. Sparing'
    BY Zenon, <1>1, <1>2, <1>3 DEF Sparing, Queried
  <1>8. Counted'
    <2> USE UnderWayFinite
    <2> HIDE DEF EngineInv
    <2>1. CASE query[q].d \in whitelist
      <3>1. /\ Counts(0, 0, 1) /\ Cardinality(UnderWay') + 1 = Cardinality(UnderWay)
            /\ Begun' = Begun /\ Cardinality(UnderWay') \in Nat
        BY Zenon, <1>1, <1>2, <2>1, CountMoves DEF EvalWhitelist, Verdict
      <3> QED
        BY <3>1, CountStep
    <2>2. CASE query[q].d \notin whitelist
      BY Zenon, <1>1, <1>2, <2>2, CountMoves DEF EvalWhitelist, Counted, EngineInv
    <2> QED
      BY Zenon, <2>1, <2>2
  <1> QED
    BY Zenon, <1>4, <1>5, <1>6, <1>7, <1>8

\* A query that goes on to the blacklist is not spared.
LEMMA EvalLoadStep ==
  ASSUME NEW q \in Queries, EngineInv, EvalLoad(q)
  PROVE  EngineInv'
  <1> USE DEF EngineInv, engine, tables, background
  <1>1. query' = [query EXCEPT ![q] = [at |-> "blacklist", d |-> query[q].d, ref |-> Main]]
    BY Zenon DEF EvalLoad
  <1>2. query[q].at = "load" /\ query[q].d \in Domains \cup {None} /\ q \in UnderWay
    BY Zenon DEF EvalLoad, Queried, UnderWay, Verdict
  <1>3. UNCHANGED <<engine, tables, call, background, faults, spared, stats>>
    BY Zenon DEF EvalLoad
  <1>4. EngineTypes' /\ Called' /\ Loading'
    BY Zenon, <1>3 DEF EngineTypes, Called, Loading
  <1>5. References'
    BY Zenon, <1>1, <1>2, <1>3, TriesAssumption DEF References, Queried
  <1>6. Queried'
    BY Zenon, <1>1, <1>2, TriesAssumption DEF Queried
  <1>7. Sparing'
    BY Zenon, <1>1, <1>2, <1>3 DEF Sparing, Queried
  <1>8. Counted'
    BY Zenon, <1>1, <1>2, <1>3, CountMoves, UnderWayFinite DEF Counted
  <1> QED
    BY Zenon, <1>4, <1>5, <1>6, <1>7, <1>8

\* Collecting tries leaves a heap of tries.
LEMMA HeapTyped ==
  ASSUME NEW h \in [Tries -> SUBSET Domains], Heap(h) PROVE heap' \in [Tries -> SUBSET Domains]
  BY Zenon DEF Heap

\* The trie may be collected after the verdict.
LEMMA EvalBlacklistStep ==
  ASSUME NEW q \in Queries, EngineInv, EvalBlacklist(q)
  PROVE  EngineInv'
  <1> USE DEF EngineInv, tables, background
  <1> DEFINE v == IF query[q].d \in heap[query[q].ref] THEN "block" ELSE "allow"
  <1>1. query' = [query EXCEPT ![q] = [at |-> v, d |-> query[q].d, ref |-> None]]
    BY Zenon DEF EvalBlacklist, Decide
  <1>2. query[q].at = "blacklist" /\ query[q].d \in Domains \cup {None} /\ q \in UnderWay
    BY Zenon DEF EvalBlacklist, Queried, UnderWay, Verdict
  <1>3. UNCHANGED <<whitelist, enabled, urls, tables, call, background, faults, spared>>
    BY Zenon DEF EvalBlacklist
  <1>4. heap' \in [Tries -> SUBSET Domains]
    BY Zenon, HeapTyped DEF EvalBlacklist, EngineTypes
  <1>5. EngineTypes' /\ Called' /\ Loading'
    BY Zenon, <1>3, <1>4 DEF EngineTypes, Called, Loading
  <1>6. References'
    BY Zenon, <1>1, <1>2, <1>3, TriesAssumption DEF References, Queried
  <1>7. Queried'
    BY Zenon, <1>1, <1>2 DEF Queried, Verdict
  <1>8. Sparing'
    BY Zenon, <1>1, <1>2, <1>3 DEF Sparing, Queried
  <1>9. Counted'
    <2> USE UnderWayFinite
    <2> HIDE DEF EngineInv
    <2>1. /\ Cardinality(UnderWay') + 1 = Cardinality(UnderWay)
          /\ Begun' = Begun /\ Cardinality(UnderWay') \in Nat
      BY Zenon, <1>1, <1>2, CountMoves DEF Verdict
    <2>2. Counts(0, 0, 1) \/ Counts(0, 1, 0)
      BY Zenon DEF EvalBlacklist
    <2> QED
      BY <2>1, <2>2, CountStep
  <1> QED
    BY Zenon, <1>5, <1>6, <1>7, <1>8, <1>9

-----------------------------------------------------------------------------

\* The query part of the invariant, where no evaluation moves.
LEMMA QueriesKept ==
  ASSUME EngineInv, UNCHANGED evaluation, whitelist' = whitelist
  PROVE  Queried' /\ Sparing' /\ Counted'
  <1>1. UNCHANGED <<query, spared, stats>>
    BY Zenon DEF evaluation
  <1>2. UnderWay' = UnderWay /\ Begun' = Begun
    BY Zenon, <1>1 DEF UnderWay, Begun
  <1> QED
    BY Zenon, <1>1, <1>2 DEF EngineInv, Queried, Sparing, Counted

\* What every request is.
LEMMA AskedTypes ==
  ASSUME NEW r \in Asked
  PROVE  /\ r.op \in {"add", "remove"}
         /\ \/ /\ r.table \in {"whitelist", "blacklist"} /\ r.row \in Spellings
               /\ rule(r) = Normal[r.row] /\ rule(r) \in Domains
            \/ r.table = "lists" /\ r.row \in DOMAIN Lists /\ rule(r) = r.row
            \/ r.table = "enabled" /\ r.row = 1 /\ rule(r) = 1
  <1>1. /\ r.op \in {"add", "remove"}
        /\ \/ r.table \in {"whitelist", "blacklist"} /\ r.row \in Spellings
           \/ r.table = "lists" /\ r.row \in DOMAIN Lists
           \/ r.table = "enabled" /\ r.row = 1
    BY Zenon, RequestsAssumption DEF Asked
  <1>2. Normal \in [Spellings -> Domains]
    BY Zenon, ListsAssumption
  <1> QED
    BY Zenon, <1>1, <1>2 DEF rule, IsEdit

\* The row is saved, and the call goes on to the engine.
LEMMA SaveStep ==
  ASSUME NEW c \in Calls, NEW r \in Asked, NEW rows, EngineInv, Save(c, r, rows),
         r.table \in {"whitelist", "blacklist"} => rows \subseteq Spellings,
         r.table \notin {"whitelist", "blacklist"} => r.table = "enabled" /\ rows \subseteq {1}
  PROVE  EngineInv'
  <1>1. UNCHANGED <<whitelist, heap, enabled, urls, query, spared, stats, loader, refresher, faults>>
    BY Zenon DEF Save, engine, evaluation, background
  <1>2. call' = [call EXCEPT ![c] = [at |-> r.table, req |-> r, ref |-> None]]
    BY Zenon DEF Save
  <1>3. database' \in [whitelist : SUBSET Spellings, blacklist : SUBSET Spellings,
                       lists : SUBSET DOMAIN Lists, enabled : SUBSET {1}]
    BY Zenon DEF Save, EngineInv, EngineTypes
  <1>4. EngineTypes'
    <2>1. wiped' \subseteq Domains
      BY Zenon DEF Save, EngineInv, EngineTypes
    <2> QED
      BY Zenon, <1>1, <1>3, <2>1 DEF EngineInv, EngineTypes
  <1>5. Called' /\ Loading'
    BY Zenon, <1>1, <1>2 DEF EngineInv, Called, Loading
  <1>6. References'
    BY Zenon, <1>1, <1>2, TriesAssumption DEF EngineInv, References, Called
  <1>7. Queried' /\ Sparing' /\ Counted'
    BY Zenon, <1>1, QueriesKept DEF evaluation
  <1> QED
    BY Zenon, <1>4, <1>5, <1>6, <1>7 DEF EngineInv

\* Each request names a table, and a row that table can have.
LEMMA RequestStep ==
  ASSUME NEW c \in Calls, NEW r \in Asked, EngineInv,
         ApiAdd(c, r) \/ ApiRemove(c, r) \/ ApiSwitch(c, r) \/ ApiBlocklist(c, r)
  PROVE  EngineInv'
  <1>0. database \in [whitelist : SUBSET Spellings, blacklist : SUBSET Spellings,
                      lists : SUBSET DOMAIN Lists, enabled : SUBSET {1}]
    BY Zenon DEF EngineInv, EngineTypes
  <1>1. CASE ApiAdd(c, r)
    <2>1. AddDomain(database[r.table], r.row) \subseteq Spellings /\ r.table \in {"whitelist", "blacklist"}
      BY Zenon, <1>0, <1>1, AskedTypes DEF ApiAdd, IsEdit, AddDomain
    <2> QED
      BY Zenon, <1>1, <2>1, SaveStep DEF ApiAdd
  <1>2. CASE ApiRemove(c, r)
    <2>1. DeleteDomain(database[r.table], r.row) \subseteq Spellings /\ r.table \in {"whitelist", "blacklist"}
      BY Zenon, <1>0, <1>2, AskedTypes DEF ApiRemove, IsEdit, DeleteDomain
    <2> QED
      BY Zenon, <1>2, <2>1, SaveStep DEF ApiRemove
  <1>3. CASE ApiSwitch(c, r)
    <2>1. (IF r.op = "add" THEN {1} ELSE {}) \subseteq {1} /\ r.table = "enabled"
      BY Zenon, <1>3 DEF ApiSwitch
    <2> QED
      BY Zenon, <1>3, <2>1, SaveStep DEF ApiSwitch
  <1>4. CASE ApiBlocklist(c, r)
    <2>1. /\ UNCHANGED <<whitelist, heap, enabled, urls, query, spared, stats, wiped, loader, refresher, faults>>
          /\ call' = [call EXCEPT ![c] = Done]
      BY Zenon, <1>4 DEF ApiBlocklist, engine, evaluation, background
    <2>2. database' \in [whitelist : SUBSET Spellings, blacklist : SUBSET Spellings,
                         lists : SUBSET DOMAIN Lists, enabled : SUBSET {1}]
      <3>1. r.row \in DOMAIN Lists
        BY Zenon, <1>4, AskedTypes DEF ApiBlocklist
      <3> QED
        BY Zenon, <1>0, <1>4, <3>1 DEF ApiBlocklist, EnableBlocklist
    <2>3. EngineTypes'
      BY Zenon, <2>1, <2>2 DEF EngineInv, EngineTypes
    <2>4. References' /\ Called' /\ Loading'
      BY Zenon, <2>1, TriesAssumption DEF EngineInv, References, Called, Loading, Done
    <2>5. Queried' /\ Sparing' /\ Counted'
      BY Zenon, <2>1, QueriesKept DEF evaluation
    <2> QED
      BY Zenon, <2>3, <2>4, <2>5 DEF EngineInv
  <1> QED
    BY Zenon, <1>1, <1>2, <1>3, <1>4

\* What leaves the whitelist is not spared any more.
LEMMA ApiWhitelistStep ==
  ASSUME NEW c \in Calls, EngineInv, ApiWhitelist(c)
  PROVE  EngineInv'
  <1> DEFINE r == call[c].req
  <1>1. /\ UNCHANGED <<heap, enabled, urls, query, stats, database, wiped, loader, refresher, faults>>
        /\ call' = [call EXCEPT ![c] = Done]
        /\ whitelist' = edited(whitelist, r)
        /\ spared' = [q \in Queries |-> spared[q] /\ (r.op = "remove" => query[q].d # rule(r))]
    BY Zenon DEF ApiWhitelist, tables, background
  <1>2. rule(r) \in Domains /\ r.op \in {"add", "remove"}
    <2>1. r \in Asked /\ r.table = "whitelist"
      BY Zenon DEF ApiWhitelist, EngineInv, Called
    <2> QED
      BY Zenon, <2>1, AskedTypes
  <1>3. whitelist' \subseteq Domains
    BY Zenon, <1>1, <1>2 DEF edited, EngineInv, EngineTypes
  <1>4. EngineTypes'
    BY Zenon, <1>1, <1>3 DEF EngineInv, EngineTypes
  <1>5. References' /\ Called' /\ Loading'
    BY Zenon, <1>1, TriesAssumption DEF EngineInv, References, Called, Loading, Done
  <1>6. Sparing'
    BY Zenon, <1>1, <1>2 DEF EngineInv, Sparing, edited
  <1>7. Queried' /\ Counted'
    BY Zenon, <1>1 DEF EngineInv, Queried, Counted, UnderWay, Begun
  <1> QED
    BY Zenon, <1>4, <1>5, <1>6, <1>7 DEF EngineInv

\* The call loads the pointer, or sets the switch.
LEMMA ApiLoadStep ==
  ASSUME NEW c \in Calls, EngineInv, ApiLoad(c) \/ ApiEnabled(c)
  PROVE  EngineInv'
  <1>1. UNCHANGED <<whitelist, heap, urls, query, spared, stats, database, wiped, loader, refresher, faults>>
    BY Zenon DEF ApiLoad, ApiEnabled, tables, background, engine, evaluation
  <1>2. enabled' \in BOOLEAN
    BY Zenon DEF ApiLoad, ApiEnabled, engine, EngineInv, EngineTypes
  <1>3. EngineTypes' /\ Loading'
    BY Zenon, <1>1, <1>2 DEF EngineInv, EngineTypes, Loading
  <1>4. Called' /\ References'
    <2>1. CASE ApiLoad(c)
      <3>1. call' = [call EXCEPT ![c] = [at |-> "trie", req |-> call[c].req, ref |-> Main]] /\ call[c].at = "blacklist"
        BY Zenon, <2>1 DEF ApiLoad
      <3> QED
        BY Zenon, <1>1, <3>1, TriesAssumption DEF EngineInv, Called, References
    <2>2. CASE ApiEnabled(c)
      <3>1. call' = [call EXCEPT ![c] = Done]
        BY Zenon, <2>2 DEF ApiEnabled
      <3> QED
        BY Zenon, <1>1, <3>1, TriesAssumption DEF EngineInv, Called, References, Done
    <2> QED
      BY Zenon, <2>1, <2>2
  <1>5. Queried' /\ Sparing' /\ Counted'
    BY Zenon, <1>1, QueriesKept DEF evaluation
  <1> QED
    BY Zenon, <1>3, <1>4, <1>5 DEF EngineInv

\* The call changes the trie it has, whether or not that is still in use.
LEMMA ApiBlacklistStep ==
  ASSUME NEW c \in Calls, EngineInv, ApiBlacklist(c)
  PROVE  EngineInv'
  <1> DEFINE h == [heap EXCEPT ![call[c].ref] = edited(@, call[c].req)]
  <1>1. /\ UNCHANGED <<whitelist, enabled, urls, query, spared, stats, database, wiped, loader, refresher, faults>>
        /\ call' = [call EXCEPT ![c] = Done]
        /\ Heap(h)
    BY Zenon DEF ApiBlacklist, tables, background, evaluation
  <1>2. rule(call[c].req) \in Domains /\ call[c].ref \in Tries
    <2>1. call[c].req \in Asked /\ call[c].req.table = "blacklist" /\ call[c].ref \in Tries
      BY Zenon DEF ApiBlacklist, EngineInv, Called, References
    <2> QED
      BY Zenon, <2>1, AskedTypes
  <1>3. h \in [Tries -> SUBSET Domains]
    BY Zenon, <1>2 DEF edited, EngineInv, EngineTypes
  <1>4. heap' \in [Tries -> SUBSET Domains]
    BY Zenon, <1>1, <1>3, HeapTyped
  <1>5. EngineTypes' /\ Loading'
    BY Zenon, <1>1, <1>4 DEF EngineInv, EngineTypes, Loading
  <1>6. References' /\ Called'
    BY Zenon, <1>1, TriesAssumption DEF EngineInv, References, Called, Done
  <1>7. Queried' /\ Sparing' /\ Counted'
    BY Zenon, <1>1, QueriesKept DEF evaluation
  <1> QED
    BY Zenon, <1>5, <1>6, <1>7 DEF EngineInv

-----------------------------------------------------------------------------

\* A set of natural numbers that is not empty has a smallest element.
LEMMA Smallest ==
  ASSUME NEW T \in SUBSET Nat, T # {}
  PROVE  \E x \in T : \A y \in T : x <= y
  <1>1. PICK x \in T : \A y \in T : ~(<<y, x>> \in OpToRel(<, Nat))
    BY Zenon, NatLessThanWellFounded, WFMin
  <1>2. \A y \in T : ~(y < x)
    BY Zenon, <1>1 DEF OpToRel
  <1> QED
    BY <1>2

\* Where the loader goes next is a list of the engine, not before the one it is at.
LEMMA NextList ==
  ASSUME EngineInv, LoadPending
  PROVE  /\ LoadNext(loader.i) \in urls
         /\ LoadNext(loader.i) \in 1..Len(Lists) /\ Len(Lists) \in Nat
  <1> DEFINE T == {j \in urls : j >= loader.i}
  <1>1. Len(Lists) \in Nat /\ DOMAIN Lists = 1..Len(Lists) /\ urls \subseteq 1..Len(Lists) /\ loader.i \in Nat
    BY ListsAssumption DEF EngineInv, EngineTypes, Loading
  <1>2. \E j \in urls : j >= loader.i
    BY <1>1 DEF LoadPending, LoadNext
  <1>3. \E x \in T : \A y \in T : x <= y
    <2>0. urls \subseteq Nat
      BY <1>1
    <2>1. T \in SUBSET Nat
      BY Zenon, <2>0
    <2>2. T # {}
      BY Zenon, <1>2
    <2> QED
      BY Zenon, <2>1, <2>2, Smallest
  <1>4. \E j \in urls : j >= loader.i /\ \A k \in urls : k >= loader.i => j <= k
    BY Zenon, <1>3
  <1>5. LoadNext(loader.i) \in urls
    BY Zenon, <1>2, <1>4 DEF LoadNext
  <1> QED
    BY Zenon, <1>1, <1>5

\* The loader is at a list of the engine while it has a trie.
LEMMA LoadStep ==
  ASSUME EngineInv, LoadFetch \/ LoadFails
  PROVE  EngineInv'
  <1>0. LoadPending
    BY Zenon DEF LoadFetch, LoadFails
  <1>1. UNCHANGED <<whitelist, heap, enabled, urls, query, spared, stats, database, wiped, call, refresher>>
    BY Zenon DEF LoadFetch, LoadFails, tables, engine, evaluation
  <1>2. faults' \in 0..MaxFaults
    BY TriesAssumption DEF LoadFetch, LoadFails, Fault, EngineInv, EngineTypes
  <1>3. EngineTypes' /\ References' /\ Called'
    BY Zenon, <1>1, <1>2 DEF EngineInv, EngineTypes, References, Called
  <1>4. Loading'
    <2>1. CASE LoadFetch
      BY <1>0, <1>1, <2>1, NextList, TriesAssumption DEF LoadFetch, Loading, EngineInv
    <2>2. CASE LoadFails
      BY <1>0, <1>1, <2>2, NextList DEF LoadFails, Loading, EngineInv, LoadPending
    <2> QED
      BY Zenon, <2>1, <2>2
  <1>5. Queried' /\ Sparing' /\ Counted'
    BY Zenon, <1>1, QueriesKept DEF evaluation
  <1> QED
    BY Zenon, <1>3, <1>4, <1>5 DEF EngineInv

\* A list is merged into the trie the loader has.
LEMMA LoadMergeStep ==
  ASSUME EngineInv, LoadMerge
  PROVE  EngineInv'
  <1> DEFINE h == [heap EXCEPT ![loader.ref] = @ \cup Lists[loader.i]]
  <1>1. /\ UNCHANGED <<whitelist, enabled, urls, query, spared, stats, database, wiped, call, refresher, faults>>
        /\ loader' = [i |-> loader.i + 1, ref |-> None]
        /\ loader.ref # None /\ Heap(h)
    BY Zenon DEF LoadMerge, tables, evaluation
  <1>2. /\ loader.ref \in Tries /\ loader.i \in DOMAIN Lists /\ DOMAIN Lists = 1..Len(Lists)
        /\ Lists[loader.i] \subseteq Domains /\ Len(Lists) \in Nat
    BY <1>1, ListsAssumption DEF EngineInv, Loading, EngineTypes
  <1>3. h \in [Tries -> SUBSET Domains]
    BY Zenon, <1>2 DEF EngineInv, EngineTypes
  <1>4. heap' \in [Tries -> SUBSET Domains]
    BY Zenon, <1>1, <1>3, HeapTyped
  <1>5. EngineTypes' /\ References' /\ Called'
    BY Zenon, <1>1, <1>4 DEF EngineInv, EngineTypes, References, Called
  <1>6. Loading'
    BY <1>1, <1>2 DEF Loading
  <1>7. Queried' /\ Sparing' /\ Counted'
    BY Zenon, <1>1, QueriesKept DEF evaluation
  <1> QED
    BY Zenon, <1>5, <1>6, <1>7 DEF EngineInv

\* A union has at most as many elements as both.
LEMMA SmallUnion ==
  ASSUME NEW S, NEW T, IsFiniteSet(S), IsFiniteSet(T), NEW m \in Nat, NEW n \in Nat,
         Cardinality(S) <= m, Cardinality(T) <= n
  PROVE  IsFiniteSet(S \cup T) /\ Cardinality(S \cup T) <= m + n
  <1>1. IsFiniteSet(S \cap T)
    BY Zenon, FS_Subset
  <1>2. Cardinality(S) \in Nat /\ Cardinality(T) \in Nat /\ Cardinality(S \cap T) \in Nat
    BY Zenon, <1>1, FS_CardinalityType
  <1>3. /\ IsFiniteSet(S \cup T)
        /\ Cardinality(S \cup T) = Cardinality(S) + Cardinality(T) - Cardinality(S \cap T)
    BY Zenon, FS_Union
  <1> QED
    BY <1>2, <1>3

\* There is an address nobody uses: the queries, the calls and the loader have at most
\* one each, and one is in use.
LEMMA SpareTrie ==
  ASSUME EngineInv
  PROVE  \E a \in Tries : a \notin Referenced
  <1> DEFINE Q == {query[q].ref : q \in Queries}
             C == {call[c].ref : c \in Calls}
             f == [q \in Queries |-> query[q].ref]
             g == [c \in Calls |-> call[c].ref]
  <1>0. /\ IsFiniteSet(Queries) /\ IsFiniteSet(Calls)
        /\ Cardinality(Queries) \in Nat /\ Cardinality(Calls) \in Nat
        /\ Cardinality(Tries) >= Cardinality(Queries) + Cardinality(Calls) + 3
    BY Zenon, FS_CardinalityType, TriesAssumption DEF EngineInv
  <1>1. IsFiniteSet(Q) /\ Cardinality(Q) <= Cardinality(Queries)
    <2>1. f \in Surjection(Queries, Q)
      BY Zenon DEF Surjection
    <2> QED
      BY Zenon, <1>0, <2>1, FS_Surjection
  <1>2. IsFiniteSet(C) /\ Cardinality(C) <= Cardinality(Calls)
    <2>1. g \in Surjection(Calls, C)
      BY Zenon DEF Surjection
    <2> QED
      BY Zenon, <1>0, <2>1, FS_Surjection
  <1>3. IsFiniteSet({Main, loader.ref}) /\ Cardinality({Main, loader.ref}) <= 2
    <2>1. IsFiniteSet({Main}) /\ Cardinality({Main}) = 1
      BY Zenon, FS_Singleton
    <2>2. {Main, loader.ref} = {Main} \cup {loader.ref}
      BY Zenon
    <2> QED
      BY <2>1, <2>2, FS_AddElement
  <1> HIDE DEF Q, C
  <1>4. /\ IsFiniteSet(Referenced)
        /\ Cardinality(Referenced) <= Cardinality(Queries) + Cardinality(Calls) + 2
    <2>1. Referenced = ({Main, loader.ref} \cup Q) \cup C
      BY Zenon DEF Referenced, Q, C
    <2>2. /\ IsFiniteSet({Main, loader.ref} \cup Q)
          /\ Cardinality({Main, loader.ref} \cup Q) <= Cardinality(Queries) + 2
      BY Zenon, <1>0, <1>1, <1>3, SmallUnion
    <2>3. /\ IsFiniteSet(({Main, loader.ref} \cup Q) \cup C)
          /\ Cardinality(({Main, loader.ref} \cup Q) \cup C) <= Cardinality(Queries) + 2 + Cardinality(Calls)
      <3>1. Cardinality(Queries) + 2 \in Nat
        BY <1>0
      <3> QED
        BY Zenon, <1>0, <1>2, <2>2, <3>1, SmallUnion
    <2> QED
      BY <1>0, <2>1, <2>3, FS_CardinalityType
  <1>5. SUFFICES ASSUME Tries \subseteq Referenced PROVE FALSE
    BY Zenon
  <1>6. Cardinality(Tries) <= Cardinality(Referenced) /\ Cardinality(Tries) \in Nat
    BY Zenon, <1>4, <1>5, FS_Subset, FS_CardinalityType
  <1> QED
    BY <1>0, <1>4, <1>6, FS_CardinalityType

\* What a refresh leaves: the new trie at Main, and the references to the old one moved.
LEMMA SwapFacts ==
  ASSUME EngineInv, NEW domains \in SUBSET Domains, Swap(domains)
  PROVE  /\ Queried' /\ Called' /\ References' /\ UnderWay' = UnderWay /\ Begun' = Begun
         /\ \A q \in Queries : query'[q].at = query[q].at /\ query'[q].d = query[q].d
         /\ \A c \in Calls : /\ call'[c].at = call[c].at /\ call'[c].req = call[c].req
                               /\ call'[c].ref # Main
         /\ loader'.i = loader.i /\ (loader'.ref = None <=> loader.ref = None)
         /\ loader' \in [i : 1..(Len(Lists) + 1), ref : Tries \cup {None}]
         /\ heap' \in [Tries -> SUBSET Domains] /\ heap'[Main] = domains
  <1> DEFINE spare    == CHOOSE a \in Tries : a \notin Referenced
             moved(a) == IF a = Main THEN spare ELSE a
             h        == [heap EXCEPT ![spare] = heap[Main], ![Main] = domains]
  <1>1. spare \in Tries /\ spare \notin Referenced
    BY Zenon, SpareTrie
  <1>2. /\ query' = [q \in Queries |-> [query[q] EXCEPT !.ref = moved(@)]]
        /\ call' = [c \in Calls |-> [call[c] EXCEPT !.ref = moved(@)]]
        /\ loader' = [loader EXCEPT !.ref = moved(@)]
        /\ Heap(h)
    BY Zenon DEF Swap
  <1> HIDE DEF spare
  <1>3. Main \in Tries /\ None \notin Tries /\ spare # Main /\ spare # None
    BY Zenon, <1>1, TriesAssumption DEF Referenced, EngineInv
  <1>4. /\ \A q \in Queries : query[q].ref \in Tries \cup {None}
        /\ \A q \in Queries : query'[q] = [query[q] EXCEPT !.ref = moved(@)]
    BY Zenon, <1>2 DEF EngineInv, Queried
  <1>20. \A q \in Queries : /\ query'[q].at = query[q].at /\ query'[q].d = query[q].d
                           /\ query'[q].ref = moved(query[q].ref)
    <2> TAKE q \in Queries
    <2>1. /\ query[q] \in [at : {"idle", "whitelist", "load", "blacklist", "lost"} \cup Verdict,
                           d : Domains \cup {None}, ref : Tries \cup {None}]
          /\ query'[q] = [query[q] EXCEPT !.ref = moved(query[q].ref)]
      BY Zenon, <1>4 DEF EngineInv, Queried
    <2> HIDE DEF moved
    <2> QED
      BY Zenon, <2>1
  <1>5. /\ \A c \in Calls : call[c].ref \in Tries \cup {None}
        /\ \A c \in Calls : call'[c] = [call[c] EXCEPT !.ref = moved(@)]
    BY Zenon, <1>2 DEF EngineInv, Called
  <1>21. \A c \in Calls : /\ call'[c].at = call[c].at /\ call'[c].req = call[c].req
                           /\ call'[c].ref = moved(call[c].ref) /\ call'[c].ref \in Tries \cup {None}
    <2> TAKE c \in Calls
    <2>1. /\ call[c] \in [at : {"idle", "whitelist", "blacklist", "enabled", "trie", "done"},
                          req : Asked \cup {None}, ref : Tries \cup {None}]
          /\ call'[c] = [call[c] EXCEPT !.ref = moved(call[c].ref)]
      BY Zenon, <1>5 DEF EngineInv, Called
    <2>2. moved(call[c].ref) \in Tries \cup {None}
      BY Zenon, <1>1, <1>5
    <2> HIDE DEF moved
    <2> QED
      BY Zenon, <2>1, <2>2
  <1>6. Queried'
    <2> DEFINE R == [at  : {"idle", "whitelist", "load", "blacklist", "lost"} \cup Verdict,
                     d   : Domains \cup {None}, ref : Tries \cup {None}]
    <2>1. \A q \in Queries : query'[q] \in R
      <3> TAKE q \in Queries
      <3>1. query[q] \in R
        BY Zenon DEF EngineInv, Queried
      <3>2. query'[q] = [query[q] EXCEPT !.ref = moved(query[q].ref)]
        BY Zenon, <1>4
      <3>3. moved(query[q].ref) \in Tries \cup {None}
        BY Zenon, <1>1, <1>4
      <3> HIDE DEF moved
      <3> QED
        BY Zenon, <3>1, <3>2, <3>3
    <2> HIDE DEF R
    <2>2. query' \in [Queries -> R]
      BY Zenon, <1>2, <2>1
    <2> QED
      BY Zenon, <2>2 DEF Queried, R
  <1>7. Called'
    <2> DEFINE R == [at  : {"idle", "whitelist", "blacklist", "enabled", "trie", "done"},
                     req : Asked \cup {None}, ref : Tries \cup {None}]
    <2>0. \A c \in Calls : call'[c] \in R
      <3> TAKE c \in Calls
      <3>1. call[c] \in R
        BY Zenon DEF EngineInv, Called
      <3>2. call'[c] = [call[c] EXCEPT !.ref = moved(call[c].ref)]
        BY Zenon, <1>5
      <3>3. moved(call[c].ref) \in Tries \cup {None}
        BY Zenon, <1>1, <1>5
      <3> HIDE DEF moved
      <3> QED
        BY Zenon, <3>1, <3>2, <3>3
    <2> HIDE DEF R
    <2>1. call' \in [Calls -> R]
      BY Zenon, <1>2, <2>0
    <2>2. \A c \in Calls : call'[c].at \notin {"idle", "done"} =>
            /\ call'[c].req \in Asked
            /\ call'[c].req.table = IF call'[c].at = "trie" THEN "blacklist" ELSE call'[c].at
      BY Zenon, <1>21 DEF EngineInv, Called
    <2> QED
      BY Zenon, <2>1, <2>2 DEF Called, R
  <1>8. References'
    <2>1. \A q \in Queries : query'[q].ref \in Tries <=> query[q].ref \in Tries
      BY Zenon, <1>1, <1>3, <1>4, <1>20
    <2>2. \A c \in Calls : call'[c].ref \in Tries <=> call[c].ref \in Tries
      BY Zenon, <1>1, <1>3, <1>5, <1>21
    <2> QED
      BY <1>20, <1>21, <2>1, <2>2 DEF EngineInv, References
  <1>9. UnderWay' = UnderWay /\ Begun' = Begun
    BY Zenon, <1>20 DEF UnderWay, Begun
  <1>10. h \in [Tries -> SUBSET Domains] /\ h[Main] = domains
    BY Zenon, <1>1, <1>3 DEF EngineInv, EngineTypes
  <1>11. heap' \in [Tries -> SUBSET Domains] /\ heap'[Main] = domains
    BY Zenon, <1>2, <1>3, <1>10 DEF Heap, Referenced
  <1>12. /\ loader'.i = loader.i /\ (loader'.ref = None <=> loader.ref = None)
         /\ loader' \in [i : 1..(Len(Lists) + 1), ref : Tries \cup {None}]
    BY Zenon, <1>1, <1>2, <1>3 DEF EngineInv, Loading
  <1> QED
    BY Zenon, <1>3, <1>20, <1>21, <1>6, <1>7, <1>8, <1>9, <1>11, <1>12

\* A refresh takes no query from the whitelist, and drops no count.
LEMMA RefreshStep ==
  ASSUME NEW failed \in SUBSET DOMAIN Lists, EngineInv, Refresh(failed)
  PROVE  EngineInv'
  <1> DEFINE domains == UNION {Lists[i] : i \in urls \ failed}
  <1>1. /\ UNCHANGED <<whitelist, enabled, urls, spared, stats, database, refresher>>
        /\ faults' = faults + Cardinality(failed) /\ faults + Cardinality(failed) <= MaxFaults
        /\ wiped' = rules(database.blacklist) /\ Swap(domains)
    BY Zenon DEF Refresh
  <1>2. Lists \in Seq(SUBSET Domains) /\ urls \subseteq DOMAIN Lists /\ Len(Lists) \in Nat
        /\ DOMAIN Lists = 1..Len(Lists)
    BY ListsAssumption DEF EngineInv, EngineTypes
  <1>3. domains \in SUBSET Domains
    <2>1. \A i \in DOMAIN Lists : Lists[i] \subseteq Domains
      BY <1>2
    <2> QED
      BY Zenon, <1>2, <2>1
  <1>4. faults' \in 0..MaxFaults
    <2>1. Cardinality(failed) \in Nat
      <3>1. IsFiniteSet(1..Len(Lists)) /\ failed \subseteq 1..Len(Lists)
        BY <1>2, FS_Interval
      <3> QED
        BY Zenon, <3>1, FS_Subset, FS_CardinalityType
    <2> QED
      BY <1>1, <2>1, TriesAssumption DEF EngineInv, EngineTypes
  <1> HIDE DEF domains
  <1>5. EngineTypes'
    <2>1. rules(database.blacklist) \subseteq Domains
      BY Zenon, RulesTyped DEF EngineInv, EngineTypes
    <2> QED
      BY Zenon, <1>1, <1>3, <1>4, <2>1, SwapFacts DEF EngineInv, EngineTypes
  <1>6. Loading'
    BY Zenon, <1>1, <1>3, SwapFacts DEF EngineInv, Loading
  <1>7. Sparing'
    BY Zenon, <1>1, <1>3, SwapFacts DEF EngineInv, Sparing
  <1>8. Counted'
    BY Zenon, <1>1, <1>3, SwapFacts DEF EngineInv, Counted
  <1> QED
    BY Zenon, <1>1, <1>3, <1>5, <1>6, <1>7, <1>8, SwapFacts DEF EngineInv

\* The refresh loop is told to stop, and stops.
LEMMA RefresherStep ==
  ASSUME EngineInv, RefreshStops \/ Close
  PROVE  EngineInv'
  <1>1. UNCHANGED <<whitelist, heap, enabled, urls, query, spared, stats, database, wiped, call, loader, faults>>
    BY Zenon DEF RefreshStops, Close, tables, engine, evaluation
  <1>2. refresher' \in {"running", "closing", "stopped"}
    BY Zenon DEF RefreshStops, Close
  <1>3. EngineTypes' /\ References' /\ Called' /\ Loading'
    BY Zenon, <1>1, <1>2 DEF EngineInv, EngineTypes, References, Called, Loading
  <1>4. Queried' /\ Sparing' /\ Counted'
    BY Zenon, <1>1, QueriesKept DEF evaluation
  <1> QED
    BY Zenon, <1>3, <1>4 DEF EngineInv

\* A new engine, from the tables; the evaluations of the old one are lost.
LEMMA RestartStep ==
  ASSUME EngineInv, Restart
  PROVE  EngineInv'
  <1>1. /\ database' = database /\ wiped' = {} /\ whitelist' = rules(database.whitelist)
        /\ heap' = [a \in Tries |-> IF a = Main THEN rules(database.blacklist) ELSE {}]
        /\ enabled' = (database.enabled # {}) /\ urls' = database.lists
        /\ loader' = [i |-> 1, ref |-> None]
        /\ refresher' \in {"running", "stopped"}
        /\ faults < MaxFaults /\ faults' = faults + 1
    BY Zenon DEF Restart, NewPolicyEngine, exportFilteringConfig, Fault
  <1>2. /\ stats' = [total |-> 0, blocked |-> 0, allowed |-> 0]
        /\ spared' = [q \in Queries |-> FALSE]
        /\ call' = [c \in Calls |-> IF call[c].at = "idle" THEN NoCall ELSE Done]
        /\ query' = [q \in Queries |-> IF query[q].at \in {"idle"} \cup Verdict THEN query[q]
                                       ELSE [at |-> "lost", d |-> None, ref |-> None]]
    BY Zenon DEF Restart
  <1>3. EngineTypes'
    <2>1. rules(database.whitelist) \subseteq Domains /\ rules(database.blacklist) \subseteq Domains
      BY Zenon, RulesTyped DEF EngineInv, EngineTypes
    <2> QED
      BY <1>1, <2>1, TriesAssumption DEF EngineInv, EngineTypes
  <1>4. Queried'
    BY Zenon, <1>2 DEF EngineInv, Queried
  <1>5. Called' /\ Loading' /\ Sparing'
    BY <1>1, <1>2, ListsAssumption DEF NoCall, Done, Called, Loading, Sparing, EngineInv
  <1>6. References'
    BY Zenon, <1>2, TriesAssumption DEF EngineInv, References, NoCall, Done, Verdict
  <1>7. Counted'
    <2>1. UnderWay' = {}
      BY Zenon, <1>2 DEF UnderWay, Verdict
    <2>2. Cardinality(Begun') \in Nat
      <3>1. Begun' \subseteq Queries
        BY Zenon DEF Begun
      <3> QED
        BY Zenon, <3>1, UnderWayFinite, FS_Subset, FS_CardinalityType
    <2> QED
      BY <1>2, <2>1, <2>2, FS_EmptySet DEF Counted
  <1> QED
    BY Zenon, <1>3, <1>4, <1>5, <1>6, <1>7 DEF EngineInv

\* Every step keeps the invariant.
LEMMA EngineNext == ASSUME EngineInv, [Next]_vars PROVE EngineInv'
  <1>0. \A c \in Calls : Requests[c] \subseteq Asked
    BY Zenon DEF Asked
  <1>1. CASE Next
    BY Zenon, <1>0, <1>1, EvalStartStep, EvalWhitelistStep, EvalLoadStep, EvalBlacklistStep,
       RequestStep,
       ApiWhitelistStep, ApiLoadStep, ApiBlacklistStep, LoadStep, LoadMergeStep, RefreshStep,
       RefresherStep, RestartStep
       DEF Next, Evaluate, Api, loadBlocklists, refreshLoop
  <1>2. CASE UNCHANGED vars
    <2>1. UNCHANGED <<whitelist, heap, enabled, urls, query, spared, stats, database, wiped, call, loader, refresher, faults>>
      BY Zenon, <1>2 DEF vars, tables, engine, evaluation, background
    <2>2. EngineTypes' /\ References' /\ Called' /\ Loading'
      BY Zenon, <2>1 DEF EngineInv, EngineTypes, References, Called, Loading
    <2>3. Queried' /\ Sparing' /\ Counted'
      BY Zenon, <2>1, QueriesKept DEF evaluation
    <2> QED
      BY Zenon, <2>2, <2>3 DEF EngineInv
  <1> QED
    BY Zenon, <1>1, <1>2

\* The invariant holds throughout.
LEMMA EngineInvariance == Spec => []EngineInv
  BY EngineInit, EngineNext, PTL DEF Spec

\* "WhitelistDomains is a list of domains to always allow": for any lists, any number of
\* evaluations, API calls, refreshes, restarts and failed fetches, a name on the
\* whitelist from the start of its evaluation on is never blocked, each evaluation is
\* counted once under its verdict, and nobody uses a trie it has not loaded (Evaluate).
THEOREM AlwaysAllowed == Spec => []WhitelistWins
  BY EngineInvariance, EngineSafe, PTL

-----------------------------------------------------------------------------

\* The trie in use is never collected.
LEMMA MainKept ==
  ASSUME EngineInv, NEW h, Heap(h)
  PROVE  Active' = h[Main]
  BY Zenon, TriesAssumption DEF Heap, Referenced, Active, EngineInv

\* A rule that nobody is editing is one that no edit will reach.
LEMMA InForceTables ==
  ASSUME EngineInv, InForce
  PROVE  TablesInForce
  <1>1. \A d \in Domains : Settled("blacklist", d) => Free(d)
    BY Zenon DEF Settled, Free
  <1> QED
    BY Zenon, <1>1 DEF InForce, TablesInForce, Listed


\* The first engine is built from the tables.
LEMMA InForceInit == ASSUME Init PROVE InForce
  <1>1. /\ whitelist = rules(database.whitelist) /\ enabled = (database.enabled # {})
        /\ Active = rules(database.blacklist)
    BY Zenon, TriesAssumption DEF Init, NewPolicyEngine, exportFilteringConfig, Active
  <1>2. \A c \in Calls : ~Applying(c)
    BY Zenon DEF Init, NoCall, Applying
  <1> QED
    BY Zenon, <1>1, <1>2 DEF InForce

\* A restart leaves the engine as the tables have it.
LEMMA RestartInForce ==
  ASSUME EngineInv, Restart
  PROVE  InForce'
  <1>1. /\ database' = database /\ whitelist' = rules(database.whitelist)
        /\ enabled' = (database.enabled # {}) /\ Active' = rules(database.blacklist)
        /\ call' = [c \in Calls |-> IF call[c].at = "idle" THEN NoCall ELSE Done]
    BY Zenon, TriesAssumption DEF Restart, NewPolicyEngine, exportFilteringConfig, Active, EngineInv
  <1>2. \A c \in Calls : ~Applying(c)'
    BY Zenon, <1>1 DEF Applying, NoCall, Done
  <1> QED
    BY Zenon, <1>1, <1>2 DEF InForce

\* A step that touches neither the engine, nor the tables, nor a call.
LEMMA InForceKept ==
  ASSUME InForce, UNCHANGED <<whitelist, enabled, urls, database, wiped, crossed, call>>, Active' = Active
  PROVE  InForce'
  BY Zenon DEF InForce, Applying, Settled, Free, Late, Editing, Says, Listed

\* Who is editing what, where only the call c changes.
LEMMA EditingMoves ==
  ASSUME EngineInv, NEW c \in Calls, \A e \in Calls \ {c} : call'[e] = call[e]
  PROVE  \A t : Editing(t)' \ {c} = Editing(t) \ {c}
  BY Zenon DEF Editing, Applying

\* What a call asks for that is still to reach the engine.
LEMMA ApplyingAt ==
  ASSUME EngineInv, NEW c \in Calls, Applying(c)
  PROVE  /\ call[c].req \in Asked /\ call[c].req.table \in {"whitelist", "blacklist", "enabled"}
         /\ call[c].req.table = IF call[c].at = "trie" THEN "blacklist" ELSE call[c].at
  BY Zenon DEF EngineInv, Called, Applying

\* A row that is saved changes what the tables say of its own rule only, and an edit
\* that has its rule to itself leaves the table saying what the edit does.
LEMMA RowsMove ==
  ASSUME NEW r \in Asked, NEW rows \in SUBSET Spellings, IsEdit(r)
  PROVE  /\ rule(r) \in rules(AddDomain(rows, r.row))
         /\ \A x : x # rule(r) => (x \in rules(AddDomain(rows, r.row)) <=> x \in rules(rows))
         /\ \A x : x # rule(r) => (x \in rules(DeleteDomain(rows, r.row)) <=> x \in rules(rows))
  <1>1. rule(r) = Normal[r.row]
    BY Zenon DEF rule
  <1> QED
    BY Zenon, <1>1 DEF rules, AddDomain, DeleteDomain

\* Once its row is saved, a call has its rule to itself or the rule is crossed.
LEMMA SaveInForce ==
  ASSUME NEW c \in Calls, NEW r \in Asked, NEW rows, EngineInv, InForce, Save(c, r, rows),
         r.table \in {"whitelist", "blacklist", "enabled"},
         \A t \in {"whitelist", "blacklist"} : \A x :
             <<t, x>> # target(r) => (x \in rules(database'[t]) <=> x \in rules(database[t])),
         r.table # "enabled" => database'.enabled = database.enabled,
         Alone(r, rows) => (r.op = "add") = Says(database', r.table, rule(r))
  PROVE  InForce'
  <1>1. /\ UNCHANGED <<whitelist, enabled, urls>> /\ Active' = Active /\ Listed' = Listed
        /\ call'[c].at = r.table /\ call'[c].req = r
        /\ \A e \in Calls \ {c} : call'[e] = call[e]
        /\ ~Applying(c)
    BY Zenon DEF Save, engine, Active, Listed, EngineInv, Called, Applying
  <1>2. Applying(c)' /\ ~Late(c)' /\ c \in Editing(target(r))'
    <2>1. Applying(c)' /\ ~Late(c)'
      BY <1>1 DEF Applying, Late
    <2> QED
      BY Zenon, <1>1, <2>1 DEF Editing
  <1>3. \A e \in Calls \ {c} : Applying(e)' = Applying(e) /\ Late(e)' = Late(e)
    BY Zenon, <1>1 DEF Applying, Late
  <1>4. \A t : t # target(r) => Editing(t)' = Editing(t) /\ (t \in crossed' <=> t \in crossed)
    <2>1. \A t : t # target(r) => c \notin Editing(t)' /\ c \notin Editing(t)
      BY Zenon, <1>1 DEF Editing
    <2>20. \A t : Editing(t)' \ {c} = Editing(t) \ {c}
      BY Zenon, <1>1, EditingMoves
    <2>2. \A t : t # target(r) => Editing(t)' = Editing(t)
      <3> SUFFICES ASSUME NEW t, t # target(r) PROVE Editing(t)' = Editing(t)
        BY Zenon
      <3>1. c \notin Editing(t)' /\ c \notin Editing(t) /\ Editing(t)' \ {c} = Editing(t) \ {c}
        BY Zenon, <2>1, <2>20
      <3> HIDE DEF Editing
      <3> QED
        BY <3>1
    <2>3. \A t : t # target(r) => (t \in crossed' <=> t \in crossed)
      BY Zenon DEF Save
    <2> QED
      BY Zenon, <2>2, <2>3
  <1>5. target(r) \notin crossed' => Alone(r, rows) /\ Editing(target(r)) = {}
    BY Zenon DEF Save, Alone
  <1>6. ASSUME NEW e \in Calls, NEW g \in Calls, Applying(e)', Applying(g)', e # g,
               target(call'[e].req) = target(call'[g].req)
        PROVE  target(call'[e].req) \in crossed'
    <2>1. CASE e = c
      <3>1. g # c /\ Applying(g) /\ target(call[g].req) = target(r)
        BY Zenon, <1>1, <1>3, <1>6, <2>1
      <3> QED
        BY Zenon, <1>1, <1>5, <2>1, <3>1 DEF Editing
    <2>2. CASE g = c
      <3>1. e # c /\ Applying(e) /\ target(call[e].req) = target(r) /\ target(call'[e].req) = target(r)
        BY Zenon, <1>1, <1>3, <1>6, <2>2
      <3> QED
        BY Zenon, <1>5, <3>1 DEF Editing
    <2>3. CASE e # c /\ g # c
      <3>1. /\ Applying(e) /\ Applying(g) /\ call'[e] = call[e] /\ call'[g] = call[g]
            /\ target(call[e].req) = target(call[g].req)
        BY Zenon, <1>1, <1>3, <1>6, <2>3
      <3>2. target(call[e].req) \in crossed
        BY Zenon, <1>6, <3>1 DEF InForce
      <3>3. target(call[e].req) = target(r) => target(call[e].req) \in crossed'
        BY Zenon, <1>5, <3>1 DEF Editing
      <3> QED
        BY Zenon, <1>4, <3>1, <3>2, <3>3
    <2> QED
      BY Zenon, <2>1, <2>2, <2>3
  <1>7. ASSUME NEW e \in Calls, Applying(e)', target(call'[e].req) \notin crossed'
        PROVE  (call'[e].req.op = "add") = Says(database', call'[e].req.table, rule(call'[e].req))
    <2>1. CASE e = c
      <3>1. call'[e].req = r
        BY Zenon, <1>1, <2>1
      <3> QED
        BY Zenon, <1>5, <1>7, <3>1 DEF Says
    <2>2. CASE e # c
      <3> DEFINE k == call[e].req
      <3>1. /\ Applying(e) /\ call'[e].req = k /\ k.table \in {"whitelist", "blacklist", "enabled"}
        BY Zenon, <1>1, <1>3, <1>7, <2>2, ApplyingAt
      <3>2. target(k) # target(r)
        BY Zenon, <1>5, <1>7, <2>2, <3>1 DEF Editing
      <3>3. (k.op = "add") = Says(database, k.table, rule(k))
        BY Zenon, <1>4, <1>7, <3>1, <3>2 DEF InForce
      <3>4. Says(database', k.table, rule(k)) = Says(database, k.table, rule(k))
        <4>1. CASE k.table = "enabled"
          <5>1. k \in Asked
            BY Zenon, <3>1, ApplyingAt
          <5>2. r.table # "enabled"
            BY Zenon, <3>2, <4>1, <5>1, AskedTypes DEF target
          <5> QED
            BY Zenon, <4>1, <5>2 DEF Says
        <4>2. CASE k.table # "enabled"
          <5> DEFINE t == k.table
                     x == rule(k)
          <5>1. t \in {"whitelist", "blacklist"} /\ <<t, x>> # target(r)
            BY Zenon, <3>1, <3>2, <4>2 DEF target
          <5> HIDE DEF t, x
          <5>2. x \in rules(database'[t]) <=> x \in rules(database[t])
            BY Zenon, <5>1
          <5>3. Says(database', t, x) = Says(database, t, x)
            BY <5>1, <5>2 DEF Says
          <5> QED
            BY Zenon, <5>3 DEF t, x
        <4> QED
          BY Zenon, <4>1, <4>2
      <3> QED
        BY Zenon, <3>1, <3>3, <3>4 DEF Says
    <2> QED
      BY Zenon, <2>1, <2>2
  <1>8. ASSUME NEW d \in Domains, Settled("whitelist", d)'
        PROVE  d \in whitelist' <=> d \in rules(database'.whitelist)
    <2>1. <<"whitelist", d>> # target(r)
      BY Zenon, <1>2, <1>8 DEF Settled
    <2>2. Settled("whitelist", d)
      BY Zenon, <1>4, <1>8, <2>1 DEF Settled
    <2> QED
      BY Zenon, <1>1, <2>1, <2>2 DEF InForce
  <1>9. ASSUME Settled("enabled", 1)' PROVE enabled' = (database'.enabled # {})
    <2>1. <<"enabled", 1>> # target(r)
      BY Zenon, <1>2, <1>9 DEF Settled
    <2>2. Settled("enabled", 1)
      BY Zenon, <1>4, <1>9, <2>1 DEF Settled
    <2>3. r.table # "enabled"
      BY Zenon, <2>1, AskedTypes DEF target
    <2> QED
      BY Zenon, <1>1, <2>2, <2>3 DEF InForce
  <1>10. ASSUME NEW d \in Domains, Free(d)'
         PROVE  /\ d \in rules(database'.blacklist) \ wiped' => d \in Active'
                /\ d \in Active' => d \in rules(database'.blacklist) \cup Listed'
    <2>1. <<"blacklist", d>> # target(r)
      BY Zenon, <1>2, <1>10 DEF Free
    <2>2. Free(d)
      <3>1. \A e \in Editing(<<"blacklist", d>>) : e \in Calls /\ e # c
        BY Zenon, <1>1 DEF Editing
      <3> QED
        BY Zenon, <1>3, <1>4, <1>10, <2>1, <3>1 DEF Free
    <2>3. d \in wiped => d \in wiped'
      BY Zenon, <2>1 DEF Save, target
    <2>4. d \in rules(database'.blacklist) <=> d \in rules(database.blacklist)
      BY Zenon, <2>1
    <2> QED
      BY Zenon, <1>1, <2>2, <2>3, <2>4 DEF InForce
  <1> QED
    BY Zenon, <1>6, <1>7, <1>8, <1>9, <1>10 DEF InForce

\* Every request saves a row of the table it names, or none that the engine follows.
LEMMA RequestInForce ==
  ASSUME NEW c \in Calls, NEW r \in Asked, EngineInv, InForce,
         ApiAdd(c, r) \/ ApiRemove(c, r) \/ ApiSwitch(c, r) \/ ApiBlocklist(c, r)
  PROVE  InForce'
  <1>0. database \in [whitelist : SUBSET Spellings, blacklist : SUBSET Spellings,
                      lists : SUBSET DOMAIN Lists, enabled : SUBSET {1}]
    BY Zenon DEF EngineInv, EngineTypes
  <1>1. CASE ApiAdd(c, r) \/ ApiRemove(c, r)
    <2> DEFINE rows == IF r.op = "add" THEN AddDomain(database[r.table], r.row)
                       ELSE DeleteDomain(database[r.table], r.row)
    <2>1. IsEdit(r) /\ r.table \in {"whitelist", "blacklist"} /\ Save(c, r, rows)
      BY <1>1 DEF ApiAdd, ApiRemove, IsEdit
    <2>2. database[r.table] \in SUBSET Spellings
      BY Zenon, <1>0, <2>1
    <2>3. /\ r.op = "add" => rule(r) \in rules(rows)
          /\ \A x : x # rule(r) => (x \in rules(rows) <=> x \in rules(database[r.table]))
      BY Zenon, <2>1, <2>2, RowsMove
    <2>4. r.op \in {"add", "remove"}
      BY Zenon, AskedTypes
    <2> HIDE DEF rows
    <2>5. /\ database'[r.table] = rows /\ database'.enabled = database.enabled
          /\ \A t \in {"whitelist", "blacklist"} \ {r.table} : database'[t] = database[t]
      BY Zenon, <1>0, <2>1 DEF Save
    <2>6. \A t \in {"whitelist", "blacklist"} : \A x :
             <<t, x>> # target(r) => (x \in rules(database'[t]) <=> x \in rules(database[t]))
      <3> TAKE t \in {"whitelist", "blacklist"}
      <3> TAKE x
      <3> HAVE <<t, x>> # target(r)
      <3>1. CASE t = r.table
        <4>1. x # rule(r)
          BY Zenon, <3>1 DEF target
        <4> QED
          BY Zenon, <2>3, <2>5, <3>1, <4>1
      <3>2. CASE t # r.table
        BY Zenon, <2>5, <3>2
      <3> QED
        BY Zenon, <3>1, <3>2
    <2>7. Alone(r, rows) => (r.op = "add") = Says(database', r.table, rule(r))
      <3>1. Alone(r, rows) => (r.op = "add" <=> rule(r) \in rules(rows))
        BY Zenon, <2>1, <2>3, <2>4 DEF Alone
      <3>2. Says(database', r.table, rule(r)) = (rule(r) \in rules(rows))
        BY <2>1, <2>5 DEF Says
      <3> QED
        BY <3>1, <3>2
    <2> QED
      BY Zenon, <2>1, <2>5, <2>6, <2>7, SaveInForce
  <1>2. CASE ApiSwitch(c, r)
    <2> DEFINE rows == IF r.op = "add" THEN {1} ELSE {}
    <2>1. r.table = "enabled" /\ Save(c, r, rows)
      BY Zenon, <1>2 DEF ApiSwitch
    <2>2. /\ database'.enabled = rows /\ database'.whitelist = database.whitelist
          /\ database'.blacklist = database.blacklist
      BY Zenon, <1>0, <2>1 DEF Save
    <2>3. (r.op = "add") = Says(database', r.table, rule(r))
      BY <2>1, <2>2 DEF Says
    <2> HIDE DEF rows
    <2> QED
      BY Zenon, <2>1, <2>2, <2>3, SaveInForce
  <1>3. CASE ApiBlocklist(c, r)
    <2>1. /\ UNCHANGED <<whitelist, heap, enabled, urls, wiped, crossed>>
          /\ database'.whitelist = database.whitelist /\ database'.enabled = database.enabled
          /\ database'.blacklist = database.blacklist
          /\ ~Applying(c) /\ ~Applying(c)' /\ \A e \in Calls \ {c} : call'[e] = call[e]
      BY Zenon, <1>0, <1>3 DEF ApiBlocklist, engine, EngineInv, Called, Applying, Done
    <2>2. /\ \A e \in Calls : Applying(e)' = Applying(e)
          /\ \A e \in Calls : Applying(e) => call'[e] = call[e]
      BY Zenon, <2>1 DEF Applying
    <2>3. \A t : Editing(t)' = Editing(t)
      BY <2>2 DEF Editing
    <2>4. \A e \in Calls : Applying(e) => Late(e)' = Late(e)
      BY Zenon, <2>2 DEF Late
    <2>5. \A d \in Domains : Free(d)' = Free(d)
      <3>1. \A t : Editing(t) \subseteq {e \in Calls : Applying(e)}
        BY Zenon DEF Editing
      <3> QED
        BY <2>1, <2>3, <2>4, <3>1 DEF Free
    <2>6. \A t, x : Settled(t, x)' = Settled(t, x)
      BY Zenon, <2>1, <2>3 DEF Settled
    <2>7. \A e \in Calls : Applying(e) =>
            Says(database', call[e].req.table, rule(call[e].req))
              = Says(database, call[e].req.table, rule(call[e].req))
      <3> SUFFICES ASSUME NEW e \in Calls, Applying(e)
                   PROVE  Says(database', call[e].req.table, rule(call[e].req))
                            = Says(database, call[e].req.table, rule(call[e].req))
        BY Zenon
      <3> DEFINE t == call[e].req.table
                 x == rule(call[e].req)
      <3>1. t \in {"whitelist", "blacklist", "enabled"}
        BY Zenon, ApplyingAt
      <3> HIDE DEF t, x
      <3>2. Says(database', t, x) = Says(database, t, x)
        BY Zenon, <2>1, <3>1 DEF Says
      <3> QED
        BY Zenon, <3>2 DEF t, x
    <2> QED
      BY Zenon, <2>1, <2>2, <2>5, <2>6, <2>7 DEF InForce, Active, Listed
  <1> QED
    BY Zenon, <1>1, <1>2, <1>3

\* A call ends: its rule has one editor fewer, and where its edits did not cross it was
\* the only one and does what the table says.
LEMMA DoneFacts ==
  ASSUME NEW c \in Calls, EngineInv, InForce, Applying(c), call' = [call EXCEPT ![c] = Done],
         UNCHANGED <<database, crossed>>
  PROVE  /\ \A e \in Calls : Applying(e)' => Applying(e) /\ e # c /\ call'[e] = call[e]
         /\ \A e \in Calls : Applying(e) /\ e # c => Applying(e)' /\ call'[e] = call[e]
         /\ \A t : t # target(call[c].req) => Editing(t)' = Editing(t)
         /\ target(call[c].req) \notin crossed =>
               /\ Editing(target(call[c].req)) = {c}
               /\ (call[c].req.op = "add")
                     = Says(database, call[c].req.table, rule(call[c].req))
  <1>1. /\ \A e \in Calls \ {c} : call'[e] = call[e] /\ Applying(e)' = Applying(e)
        /\ ~Applying(c)'
    BY Zenon DEF EngineInv, Called, Applying, Done
  <1>2. \A t : t # target(call[c].req) => Editing(t)' = Editing(t)
    <2> SUFFICES ASSUME NEW t, t # target(call[c].req) PROVE Editing(t)' = Editing(t)
      BY Zenon
    <2>1. c \notin Editing(t)' /\ c \notin Editing(t) /\ Editing(t)' \ {c} = Editing(t) \ {c}
      BY Zenon, <1>1, EditingMoves DEF Editing
    <2> HIDE DEF Editing
    <2> QED
      BY <2>1
  <1>3. target(call[c].req) \notin crossed => Editing(target(call[c].req)) = {c}
    BY Zenon DEF InForce, Editing
  <1>4. target(call[c].req) \notin crossed =>
          (call[c].req.op = "add") = Says(database, call[c].req.table, rule(call[c].req))
    BY Zenon DEF InForce
  <1> QED
    BY Zenon, <1>1, <1>2, <1>3, <1>4

\* The calls under way, when one of them ends.
LEMMA DoneCalls ==
  ASSUME NEW c \in Calls, EngineInv, InForce, Applying(c), call' = [call EXCEPT ![c] = Done],
         UNCHANGED <<database, crossed>>
  PROVE  /\ \A e, g \in Calls : /\ Applying(e)' /\ Applying(g)' /\ e # g
                                /\ target(call'[e].req) = target(call'[g].req)
                                => target(call'[e].req) \in crossed'
         /\ \A e \in Calls : Applying(e)' /\ target(call'[e].req) \notin crossed' =>
               (call'[e].req.op = "add") = Says(database', call'[e].req.table, rule(call'[e].req))
  <1>1. \A e \in Calls : Applying(e)' => Applying(e) /\ call'[e] = call[e]
    BY Zenon, DoneFacts
  <1>20. database' = database /\ crossed' = crossed
    BY Zenon
  <1>2. ASSUME NEW e \in Calls, NEW g \in Calls, Applying(e)', Applying(g)', e # g,
               target(call'[e].req) = target(call'[g].req)
        PROVE  target(call'[e].req) \in crossed'
    <2>1. Applying(e) /\ Applying(g) /\ call'[e] = call[e] /\ call'[g] = call[g]
      BY Zenon, <1>1, <1>2
    <2>2. target(call[e].req) \in crossed
      BY Zenon, <1>2, <2>1 DEF InForce
    <2> QED
      BY Zenon, <1>20, <2>1, <2>2
  <1>3. ASSUME NEW e \in Calls, Applying(e)', target(call'[e].req) \notin crossed'
        PROVE  (call'[e].req.op = "add") = Says(database', call'[e].req.table, rule(call'[e].req))
    <2>1. Applying(e) /\ call'[e] = call[e] /\ target(call[e].req) \notin crossed
      BY Zenon, <1>1, <1>3, <1>20
    <2>2. (call[e].req.op = "add") = Says(database, call[e].req.table, rule(call[e].req))
      BY Zenon, <2>1 DEF InForce
    <2> QED
      BY Zenon, <1>20, <2>1, <2>2
  <1> QED
    BY Zenon, <1>2, <1>3

\* A rule that the end of another call leaves free was free before.
LEMMA FreeOther ==
  ASSUME NEW c \in Calls, EngineInv, InForce, Applying(c), call' = [call EXCEPT ![c] = Done],
         UNCHANGED <<database, crossed>>, NEW d, target(call[c].req) # <<"blacklist", d>>, Free(d)'
  PROVE  Free(d)
  <1>1. Editing(<<"blacklist", d>>)' = Editing(<<"blacklist", d>>)
    BY Zenon, DoneFacts
  <1>2. \A e \in Editing(<<"blacklist", d>>) : call'[e] = call[e]
    BY Zenon, DoneFacts DEF Editing
  <1> QED
    BY Zenon, <1>1, <1>2 DEF Free, Late

\* The whitelist gets what its table says.
LEMMA WhitelistInForce ==
  ASSUME NEW c \in Calls, EngineInv, InForce, ApiWhitelist(c)
  PROVE  InForce'
  <1> DEFINE r == call[c].req
  <1>1. /\ UNCHANGED <<heap, enabled, urls, database, wiped, crossed>>
        /\ whitelist' = edited(whitelist, r) /\ call' = [call EXCEPT ![c] = Done]
        /\ call[c].at = "whitelist"
    BY Zenon DEF ApiWhitelist, tables
  <1>2. Applying(c) /\ r.table = "whitelist" /\ r.op \in {"add", "remove"} /\ target(r) = <<"whitelist", rule(r)>>
    <2>1. Applying(c)
      BY <1>1 DEF Applying
    <2> QED
      BY Zenon, <1>1, <2>1, ApplyingAt, AskedTypes DEF target
  <1>20. /\ <<"enabled", 1>> # target(r)
         /\ \A d : <<"blacklist", d>> # target(r) /\ (d # rule(r) => <<"whitelist", d>> # target(r))
    <2> HIDE DEF r
    <2> QED
      BY <1>2
  <1>3. ASSUME NEW d \in Domains, Settled("whitelist", d)'
        PROVE  d \in whitelist' <=> d \in rules(database'.whitelist)
    <2>1. CASE d = rule(r)
      <3>1. target(r) \notin crossed
        BY Zenon, <1>1, <1>2, <1>3, <2>1 DEF Settled
      <3>2. (r.op = "add") = Says(database, "whitelist", d)
        BY Zenon, <1>1, <1>2, <2>1, <3>1, DoneFacts
      <3>3. r.op = "add" <=> d \in rules(database.whitelist)
        BY <3>2 DEF Says
      <3> QED
        BY Zenon, <1>1, <1>2, <2>1, <3>3 DEF edited
    <2>2. CASE d # rule(r)
      <3>1. Settled("whitelist", d)
        <4>1. Editing(<<"whitelist", d>>)' = Editing(<<"whitelist", d>>)
          BY Zenon, <1>1, <1>2, <1>20, <2>2, DoneFacts
        <4> QED
          BY Zenon, <1>1, <1>3, <4>1 DEF Settled
      <3>2. d \in whitelist' <=> d \in whitelist
        BY Zenon, <1>1, <2>2 DEF edited
      <3> QED
        BY Zenon, <1>1, <3>1, <3>2 DEF InForce
    <2> QED
      BY Zenon, <2>1, <2>2
  <1>4. ASSUME Settled("enabled", 1)' PROVE enabled' = (database'.enabled # {})
    <2>1. Editing(<<"enabled", 1>>)' = Editing(<<"enabled", 1>>)
      BY Zenon, <1>1, <1>2, <1>20, DoneFacts
    <2>2. Settled("enabled", 1)
      BY Zenon, <1>1, <1>4, <2>1 DEF Settled
    <2> QED
      BY Zenon, <1>1, <2>2 DEF InForce
  <1>5. ASSUME NEW d \in Domains, Free(d)' PROVE Free(d)
    BY Zenon, <1>1, <1>2, <1>20, <1>5, FreeOther
  <1>6. Active' = Active /\ Listed' = Listed
    BY Zenon, <1>1 DEF Active, Listed
  <1>7. ASSUME NEW d \in Domains, Free(d)'
         PROVE  /\ d \in rules(database'.blacklist) \ wiped' => d \in Active'
                /\ d \in Active' => d \in rules(database'.blacklist) \cup Listed'
    BY Zenon, <1>1, <1>5, <1>6, <1>7 DEF InForce
  <1> QED
    BY Zenon, <1>1, <1>2, <1>3, <1>4, <1>7, DoneCalls DEF InForce

\* The switch gets what its table says.
LEMMA EnabledInForce ==
  ASSUME NEW c \in Calls, EngineInv, InForce, ApiEnabled(c)
  PROVE  InForce'
  <1> DEFINE r == call[c].req
  <1>1. /\ UNCHANGED <<whitelist, heap, urls, database, wiped, crossed>>
        /\ enabled' = (r.op = "add") /\ call' = [call EXCEPT ![c] = Done]
        /\ call[c].at = "enabled"
    BY Zenon DEF ApiEnabled, tables
  <1>2. Applying(c) /\ r.table = "enabled" /\ target(r) = <<"enabled", 1>>
    <2>1. Applying(c)
      BY <1>1 DEF Applying
    <2> QED
      BY Zenon, <1>1, <2>1, ApplyingAt, AskedTypes DEF target
  <1>20. \A d : <<"blacklist", d>> # target(r) /\ <<"whitelist", d>> # target(r)
    <2> HIDE DEF r
    <2> QED
      BY <1>2
  <1>3. ASSUME NEW d \in Domains, Settled("whitelist", d)' PROVE Settled("whitelist", d)
    <2>1. Editing(<<"whitelist", d>>)' = Editing(<<"whitelist", d>>)
      BY Zenon, <1>1, <1>2, <1>20, DoneFacts
    <2> QED
      BY Zenon, <1>1, <1>3, <2>1 DEF Settled
  <1>4. ASSUME Settled("enabled", 1)' PROVE enabled' = (database'.enabled # {})
    <2>1. target(r) \notin crossed
      BY Zenon, <1>1, <1>2, <1>4 DEF Settled
    <2>2. (r.op = "add") = Says(database, "enabled", rule(r))
      BY Zenon, <1>1, <1>2, <2>1, DoneFacts
    <2> QED
      BY Zenon, <1>1, <2>2 DEF Says
  <1>5. ASSUME NEW d \in Domains, Free(d)' PROVE Free(d)
    BY Zenon, <1>1, <1>2, <1>20, <1>5, FreeOther
  <1>6. Active' = Active /\ Listed' = Listed
    BY Zenon, <1>1 DEF Active, Listed
  <1>7. ASSUME NEW d \in Domains, Free(d)'
         PROVE  /\ d \in rules(database'.blacklist) \ wiped' => d \in Active'
                /\ d \in Active' => d \in rules(database'.blacklist) \cup Listed'
    BY Zenon, <1>1, <1>5, <1>6, <1>7 DEF InForce
  <1>8. ASSUME NEW d \in Domains, Settled("whitelist", d)'
        PROVE  d \in whitelist' <=> d \in rules(database'.whitelist)
    BY Zenon, <1>1, <1>3, <1>8 DEF InForce
  <1> QED
    BY Zenon, <1>1, <1>2, <1>4, <1>7, <1>8, DoneCalls DEF InForce

\* The call has loaded the trie in use, and changes it unless a refresh comes between.
LEMMA LoadInForce ==
  ASSUME NEW c \in Calls, EngineInv, InForce, ApiLoad(c)
  PROVE  InForce'
  <1>1. /\ UNCHANGED <<whitelist, heap, enabled, urls, database, wiped, crossed>>
        /\ call[c].at = "blacklist" /\ \A e \in Calls \ {c} : call'[e] = call[e]
        /\ call'[c].at = "trie" /\ call'[c].ref = Main /\ call'[c].req = call[c].req
    BY Zenon DEF ApiLoad, engine, tables, EngineInv, Called
  <1>2. /\ \A e \in Calls : Applying(e)' = Applying(e) /\ call'[e].req = call[e].req
        /\ \A e \in Calls : Late(e)' = Late(e)
    <2>1. Applying(c)' = Applying(c) /\ Late(c)' = Late(c)
      BY <1>1 DEF Applying, Late
    <2> QED
      BY Zenon, <1>1, <2>1 DEF Applying, Late
  <1>3. \A t : Editing(t)' = Editing(t)
    BY Zenon, <1>2 DEF Editing
  <1>4. (\A d : Free(d)' = Free(d)) /\ \A t, x : Settled(t, x)' = Settled(t, x)
    <2>1. \A d : Free(d)' = Free(d)
      <3>1. \A t : Editing(t) \subseteq Calls
        BY Zenon DEF Editing
      <3> QED
        BY <1>1, <1>2, <1>3, <3>1 DEF Free
    <2> QED
      BY Zenon, <1>1, <1>3, <2>1 DEF Settled
  <1>5. Active' = Active /\ Listed' = Listed
    BY Zenon, <1>1 DEF Active, Listed
  <1>6. ASSUME NEW e \in Calls, NEW g \in Calls, Applying(e)', Applying(g)', e # g,
               target(call'[e].req) = target(call'[g].req)
        PROVE  target(call'[e].req) \in crossed'
    BY Zenon, <1>1, <1>2, <1>6 DEF InForce
  <1>7. ASSUME NEW e \in Calls, Applying(e)', target(call'[e].req) \notin crossed'
        PROVE  (call'[e].req.op = "add") = Says(database', call'[e].req.table, rule(call'[e].req))
    BY Zenon, <1>1, <1>2, <1>7 DEF InForce
  <1>8. /\ \A d \in Domains : Settled("whitelist", d)' =>
              (d \in whitelist' <=> d \in rules(database'.whitelist))
        /\ Settled("enabled", 1)' => enabled' = (database'.enabled # {})
    BY Zenon, <1>1, <1>4 DEF InForce
  <1>9. \A d \in Domains : Free(d)' =>
           /\ d \in rules(database'.blacklist) \ wiped' => d \in Active'
           /\ d \in Active' => d \in rules(database'.blacklist) \cup Listed'
    BY Zenon, <1>1, <1>4, <1>5 DEF InForce
  <1> QED
    BY Zenon, <1>6, <1>7, <1>8, <1>9 DEF InForce

\* The trie in use gets what the table says; where a refresh came between, another trie
\* does, and the refresh has wiped the row.
LEMMA BlacklistInForce ==
  ASSUME NEW c \in Calls, EngineInv, InForce, ApiBlacklist(c)
  PROVE  InForce'
  <1> DEFINE r == call[c].req
             h == [heap EXCEPT ![call[c].ref] = edited(@, r)]
  <1>1. /\ UNCHANGED <<whitelist, enabled, urls, database, wiped, crossed>>
        /\ call' = [call EXCEPT ![c] = Done] /\ call[c].at = "trie" /\ Heap(h)
    BY Zenon DEF ApiBlacklist, tables
  <1>2. /\ Applying(c) /\ r.table = "blacklist" /\ r.op \in {"add", "remove"}
        /\ target(r) = <<"blacklist", rule(r)>>
    <2>1. Applying(c)
      BY <1>1 DEF Applying
    <2> QED
      BY Zenon, <1>1, <2>1, ApplyingAt, AskedTypes DEF target
  <1>20. /\ <<"enabled", 1>> # target(r)
         /\ \A d : <<"whitelist", d>> # target(r) /\ (d # rule(r) => <<"blacklist", d>> # target(r))
    <2> HIDE DEF r
    <2> QED
      BY <1>2
  <1>3. Active' = IF call[c].ref = Main THEN edited(Active, r) ELSE Active
    <2>1. call[c].ref \in Tries /\ Main \in Tries /\ heap \in [Tries -> SUBSET Domains]
      BY Zenon, <1>1, TriesAssumption DEF EngineInv, EngineTypes, References
    <2>2. h[Main] = IF call[c].ref = Main THEN edited(Active, r) ELSE Active
      BY Zenon, <2>1 DEF Active
    <2> QED
      BY Zenon, <1>1, <2>2, MainKept
  <1>4. ASSUME NEW d \in Domains, Settled("whitelist", d)'
        PROVE  d \in whitelist' <=> d \in rules(database'.whitelist)
    <2>1. Editing(<<"whitelist", d>>)' = Editing(<<"whitelist", d>>)
      BY Zenon, <1>1, <1>2, <1>20, DoneFacts
    <2>2. Settled("whitelist", d)
      BY Zenon, <1>1, <1>4, <2>1 DEF Settled
    <2> QED
      BY Zenon, <1>1, <2>2 DEF InForce
  <1>5. ASSUME Settled("enabled", 1)' PROVE enabled' = (database'.enabled # {})
    <2>1. Editing(<<"enabled", 1>>)' = Editing(<<"enabled", 1>>)
      BY Zenon, <1>1, <1>2, <1>20, DoneFacts
    <2>2. Settled("enabled", 1)
      BY Zenon, <1>1, <1>5, <2>1 DEF Settled
    <2> QED
      BY Zenon, <1>1, <2>2 DEF InForce
  <1>6. ASSUME NEW d \in Domains, Free(d)'
        PROVE  /\ d \in rules(database'.blacklist) \ wiped' => d \in Active'
               /\ d \in Active' => d \in rules(database'.blacklist) \cup Listed'
    <2>0. Listed' = Listed
      BY Zenon, <1>1 DEF Listed
    <2>1. CASE d # rule(r)
      <3>1. Free(d)
        BY Zenon, <1>1, <1>2, <1>20, <1>6, <2>1, FreeOther
      <3>2. d \in Active' <=> d \in Active
        BY Zenon, <1>3, <2>1 DEF edited
      <3> QED
        BY Zenon, <1>1, <2>0, <3>1, <3>2 DEF InForce
    <2>2. CASE d = rule(r)
      <3>1. target(r) \notin crossed
        BY Zenon, <1>1, <1>2, <1>6, <2>2 DEF Free
      <3>2. Editing(<<"blacklist", d>>) = {c} /\ (r.op = "add") = Says(database, "blacklist", d)
        BY Zenon, <1>1, <1>2, <2>2, <3>1, DoneFacts
      <3>3. r.op = "add" <=> d \in rules(database.blacklist)
        BY <3>2 DEF Says
      <3>4. CASE call[c].ref = Main
        BY Zenon, <1>1, <1>2, <1>3, <2>0, <2>2, <3>3, <3>4 DEF edited
      <3>5. CASE call[c].ref # Main
        <4>1. Free(d)
          BY Zenon, <1>1, <1>2, <2>2, <3>1, <3>2, <3>5 DEF Free, Late
        <4> QED
          BY Zenon, <1>1, <1>3, <2>0, <3>5, <4>1 DEF InForce
      <3> QED
        BY Zenon, <3>4, <3>5
    <2> QED
      BY Zenon, <2>1, <2>2
  <1> QED
    BY Zenon, <1>1, <1>2, <1>4, <1>5, <1>6, DoneCalls DEF InForce

\* Merging adds names of the lists the engine has.
LEMMA MergeInForce ==
  ASSUME EngineInv, InForce, LoadMerge
  PROVE  InForce'
  <1> DEFINE h == [heap EXCEPT ![loader.ref] = @ \cup Lists[loader.i]]
  <1>1. /\ UNCHANGED <<whitelist, enabled, urls, database, wiped, crossed, call>>
        /\ loader.ref \in Tries /\ loader.i \in urls /\ heap \in [Tries -> SUBSET Domains] /\ Main \in Tries
        /\ Heap(h)
    BY Zenon, TriesAssumption DEF LoadMerge, tables, EngineInv, Loading, EngineTypes
  <1>2. Active \subseteq h[Main] /\ h[Main] \subseteq Active \cup Lists[loader.i]
    BY Zenon, <1>1 DEF Active
  <1>3. Active' = h[Main]
    BY Zenon, <1>1, MainKept
  <1>4. Lists[loader.i] \subseteq Listed /\ Listed' = Listed
    BY Zenon, <1>1 DEF Listed
  <1> HIDE DEF h
  <1>5. /\ \A d : Free(d)' = Free(d) /\ Settled("whitelist", d)' = Settled("whitelist", d)
        /\ Settled("enabled", 1)' = Settled("enabled", 1)
        /\ \A e \in Calls : Applying(e)' = Applying(e)
    BY Zenon, <1>1 DEF Free, Late, Settled, Editing, Applying
  <1> QED
    BY Zenon, <1>1, <1>2, <1>3, <1>4, <1>5 DEF InForce

\* A refresh leaves names of the lists, and the rows saved count as wiped; whoever has
\* the old trie is late.
LEMMA RefreshInForce ==
  ASSUME NEW failed \in SUBSET DOMAIN Lists, EngineInv, InForce, Refresh(failed)
  PROVE  InForce'
  <1> DEFINE domains == UNION {Lists[i] : i \in urls \ failed}
  <1>1. /\ UNCHANGED <<whitelist, enabled, urls, database, crossed>>
        /\ wiped' = rules(database.blacklist) /\ Swap(domains)
    BY Zenon DEF Refresh
  <1>2. domains \in SUBSET Domains
    <2>1. \A i \in DOMAIN Lists : Lists[i] \subseteq Domains
      BY ListsAssumption DEF EngineInv
    <2> QED
      BY <2>1 DEF EngineInv, EngineTypes
  <1>3. domains \subseteq Listed /\ Listed' = Listed
    BY Zenon, <1>1 DEF Listed
  <1> HIDE DEF domains
  <1>4. /\ \A c \in Calls : call'[c].at = call[c].at /\ call'[c].req = call[c].req
        /\ Active' = domains
    BY Zenon, <1>1, <1>2, SwapFacts DEF Active
  <1>5. /\ \A t : Editing(t)' = Editing(t)
        /\ \A c \in Calls : Applying(c)' = Applying(c)
    BY Zenon, <1>4 DEF Editing, Applying
  <1>6. \A t, x : Settled(t, x)' = Settled(t, x)
    BY Zenon, <1>1, <1>5 DEF Settled
  <1>7. \A d : /\ d \in rules(database'.blacklist) \ wiped' => d \in Active'
               /\ d \in Active' => d \in rules(database'.blacklist) \cup Listed'
    BY Zenon, <1>1, <1>3, <1>4
  <1> QED
    BY Zenon, <1>1, <1>4, <1>5, <1>6, <1>7 DEF InForce

\* Every step keeps the engine in step with the tables and the calls.
LEMMA InForceNext == ASSUME EngineInv, InForce, [Next]_vars PROVE InForce'
  <1> USE DEF vars, engine, tables, evaluation, background
  <1>1. ASSUME NEW q \in Queries, Evaluate(q) PROVE InForce'
    <2>1. UNCHANGED <<whitelist, enabled, urls, database, wiped, crossed, call>>
      BY Zenon, <1>1 DEF Evaluate, EvalStart, EvalWhitelist, EvalLoad, EvalBlacklist
    <2>2. Active' = Active
      <3>1. heap' = heap \/ Heap(heap)
        BY Zenon, <1>1 DEF Evaluate, EvalStart, EvalWhitelist, EvalLoad, EvalBlacklist
      <3> QED
        BY Zenon, <3>1, MainKept DEF Active
    <2> QED
      BY Zenon, <2>1, <2>2, InForceKept
  <1>2. CASE LoadFetch \/ LoadFails \/ RefreshStops \/ Close \/ UNCHANGED vars
    <2>1. UNCHANGED <<whitelist, heap, enabled, urls, database, wiped, crossed, call>>
      BY Zenon, <1>2 DEF LoadFetch, LoadFails, RefreshStops, Close
    <2> QED
      BY Zenon, <2>1, InForceKept DEF Active
  <1>3. \A c \in Calls : Requests[c] \subseteq Asked
    BY Zenon DEF Asked
  <1> QED
    BY Zenon, <1>1, <1>2, <1>3, RequestInForce, WhitelistInForce, EnabledInForce, LoadInForce,
       BlacklistInForce, MergeInForce, RefreshInForce, RestartInForce
       DEF Next, Api, loadBlocklists, refreshLoop

\* However many API calls overlap, with each other, with evaluations, the first load and
\* refreshes, and after a restart too, the engine does what the tables say of every rule
\* that nobody is editing: a whitelist row is in force, so is the switch, a blacklist row
\* is blocked unless a refresh has wiped it, and nothing is blocked that neither its table
\* nor a blocklist has.  Left out are the rules whose last edits overlapped, or removed one
\* spelling and kept another: addToDomainList and removeFromDomainList save and apply in
\* two steps without a lock, and the table keeps spellings where the trie does not.
THEOREM TablesObeyed == Spec => []TablesInForce
  <1>1. EngineInv /\ InForce /\ [Next]_vars => InForce'
    BY Zenon, InForceNext
  <1> QED
    BY <1>1, EngineInvariance, InForceInit, InForceTables, PTL DEF Spec
=============================================================================
