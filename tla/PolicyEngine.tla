---------------------------- MODULE PolicyEngine ----------------------------
(***************************************************************************)
(* The filtering policy: the engine of internal/filtering/policy.go, the   *)
(* resolver that asks it (internal/resolvers/filtering_resolver.go) and    *)
(* the API handlers that change it (internal/api/handlers/filtering.go),   *)
(* with the tables they keep (internal/database/filtering.go) and from     *)
(* which a restart builds a new engine.                                    *)
(*                                                                         *)
(* A trie is here the set of domains it matches (DomainTrie says how); its *)
(* operations lock it and are single steps.  It holds names in normal      *)
(* form, while the tables hold them as they were spelled in the request, so *)
(* two rows may be one rule.  The field pe.blacklist is a                  *)
(* pointer that the refresh loop replaces: everybody else loads it without *)
(* the engine's lock and then works on the trie it got.  heap holds the    *)
(* tries by address.  The address of the trie in use is always Main: when  *)
(* it is replaced while somebody still has it, it moves to another address *)
(* together with the references to it.  A trie nobody refers to is         *)
(* collected.                                                              *)
(***************************************************************************)
EXTENDS Naturals, Sequences, FiniteSets

CONSTANTS
    Domains,     \* the names asked for and listed, in normal form
    Spellings,   \* the names of the tables, as they were configured or added
    Normal,      \* normalizeDomain of a spelling
    Enabled,     \* Enabled of the configuration, as {1} or {}
    Whitelisted, \* WhitelistDomains of the configuration
    Blacklisted, \* BlacklistDomains of the configuration
    Lists,       \* the remote blocklists, in order: each a set of domains
    Queries,     \* evaluations, each made once
    Calls,       \* API calls, each made once
    Requests,    \* Requests[c]: what c may ask for, a table, an operation and a row
    RefreshInterval, \* 0: the blocklists are not refreshed
    Tries,       \* addresses
    Main,        \* the address pe.blacklist holds
    MaxFaults,   \* how many fetches fail and restarts happen
    None

ASSUME ListsAssumption ==
    /\ Normal \in [Spellings -> Domains] /\ RefreshInterval \in Nat /\ Enabled \subseteq {1}
    /\ Whitelisted \cup Blacklisted \subseteq Spellings
    /\ Lists \in Seq(SUBSET Domains) /\ Lists # <<>>
ASSUME RequestsAssumption ==
    \A c \in Calls : \A r \in Requests[c] :
        /\ r.op \in {"add", "remove"}
        /\ \/ r.table \in {"whitelist", "blacklist"} /\ r.row \in Spellings
           \/ r.table = "lists" /\ r.row \in DOMAIN Lists
           \/ r.table = "enabled" /\ r.row = 1

\* The loader, every query and every call has at most one trie: an address is free.
ASSUME TriesAssumption ==
    /\ Main \in Tries /\ None \notin Tries /\ MaxFaults \in Nat
    /\ IsFiniteSet(Queries) /\ IsFiniteSet(Calls)
    /\ Cardinality(Tries) >= Cardinality(Queries) + Cardinality(Calls) + 3

VARIABLES
    whitelist,   \* pe.whitelist
    heap,        \* heap[a]: the domains of the trie at a
    enabled,     \* pe.enabled
    urls,        \* the blocklists the engine was built with
    stats,       \* queriesTotal, queriesBlocked, queriesAllowed
    database,    \* the tables filtering_whitelist and filtering_blacklist, the enabled
                 \* rows of filtering_blocklists, and config_filtering.enabled as {1} or {}
    wiped,       \* ghost: rules of filtering_blacklist that a refresh has taken from the engine
    crossed,     \* ghost: the <<table, rule>> whose last edits overlapped, or removed
                 \* one spelling of several
    query,       \* query[q]: where Evaluate is or what it returned, the domain, its trie
    spared,      \* spared[q]: the whitelist has had the domain since q began
    call,        \* call[c]: where the API handler is, its request, the trie it loaded
    loader,      \* loadBlocklists: the list it is at, the trie it loaded
    refresher,   \* refreshLoop: "running", "closing" (Close was called), "stopped"
                 \* (or never started: no blocklists, or no interval)
    faults

evaluation == <<query, spared, stats>>
engine     == <<whitelist, heap, enabled, urls>>
tables     == <<database, wiped, crossed>>
background == <<loader, refresher>>
vars == <<engine, evaluation, tables, call, background, faults>>

Verdict == {"allow", "block"}
NoCall  == [at |-> "idle", req |-> None, ref |-> None]
Done    == [at |-> "done", req |-> None, ref |-> None]
NoQuery == [at |-> "idle", d |-> None, ref |-> None]
Active  == heap[Main]

\* The addresses in use.
Referenced ==
    {Main, loader.ref}
        \cup {query[q].ref : q \in Queries} \cup {call[c].ref : c \in Calls}

\* The tries are h, less those nobody refers to any more.
Heap(h) == heap' = [a \in Tries |-> IF a \in Referenced' THEN h[a] ELSE {}]

\* The rules that rows of a table stand for.
rules(rows) == {Normal[s] : s \in rows}

\* exportFilteringConfig: only the enabled blocklists.
exportFilteringConfig(db) ==
    [Enabled |-> db.enabled # {}, WhitelistDomains |-> db.whitelist,
     BlacklistDomains |-> db.blacklist, Blocklists |-> db.lists]

\* NewPolicyEngine: w, h, e, u, l, f are the engine and its goroutines for cfg.
NewPolicyEngine(cfg, w, h, e, u, l, f) ==
    /\ w = rules(cfg.WhitelistDomains)
    /\ h = [a \in Tries |-> IF a = Main THEN rules(cfg.BlacklistDomains) ELSE {}]
    /\ e = cfg.Enabled
    /\ u = cfg.Blocklists
    /\ l = [i |-> 1, ref |-> None]
    /\ f = IF RefreshInterval > 0 /\ cfg.Blocklists # {} THEN "running" ELSE "stopped"

Init ==
    /\ database = [whitelist |-> Whitelisted, blacklist |-> Blacklisted,
                   lists |-> DOMAIN Lists, enabled |-> Enabled]
    /\ NewPolicyEngine(exportFilteringConfig(database), whitelist, heap, enabled, urls, loader, refresher)
    /\ wiped = {} /\ crossed = {}
    /\ stats = [total |-> 0, blocked |-> 0, allowed |-> 0]
    /\ query = [q \in Queries |-> NoQuery]
    /\ spared = [q \in Queries |-> FALSE]
    /\ call = [c \in Calls |-> NoCall]
    /\ faults = 0

Fault == faults < MaxFaults /\ faults' = faults + 1

-----------------------------------------------------------------------------
(* FilteringResolver.Resolve: Evaluate, and NXDOMAIN or the next resolver.  *)

Counts(total, blocked, allowed) ==
    stats' = [total   |-> stats.total + total,
              blocked |-> stats.blocked + blocked,
              allowed |-> stats.allowed + allowed]

Decide(q, v) == query' = [query EXCEPT ![q] = [at |-> v, d |-> @.d, ref |-> None]]

EvalStart(q, d) ==
    /\ query[q].at = "idle"
    /\ query' = [query EXCEPT ![q] = [at |-> IF enabled THEN "whitelist" ELSE "allow",
                                      d |-> d, ref |-> None]]
    /\ spared' = [spared EXCEPT ![q] = d \in whitelist]
    /\ IF enabled THEN Counts(1, 0, 0) ELSE Counts(1, 0, 1)
    /\ UNCHANGED <<engine, tables, call, background, faults>>

\* A variant: a listed name does not reach the whitelist.
EvalWhitelistUnlisted(q) ==
    /\ query[q].at = "whitelist"
    /\ IF query[q].d \in whitelist \ Active
       THEN Decide(q, "allow") /\ Counts(0, 0, 1)
       ELSE Decide(q, "load") /\ UNCHANGED stats
    /\ UNCHANGED <<engine, spared, tables, call, background, faults>>

EvalWhitelist(q) ==
    /\ query[q].at = "whitelist"
    /\ IF query[q].d \in whitelist
       THEN Decide(q, "allow") /\ Counts(0, 0, 1)
       ELSE Decide(q, "load") /\ UNCHANGED stats
    /\ UNCHANGED <<engine, spared, tables, call, background, faults>>

\* The pointer is loaded; the trie may be replaced before it is searched.
EvalLoad(q) ==
    /\ query[q].at = "load"
    /\ query' = [query EXCEPT ![q] = [at |-> "blacklist", d |-> @.d, ref |-> Main]]
    /\ UNCHANGED <<engine, spared, stats, tables, call, background, faults>>

EvalBlacklist(q) ==
    /\ query[q].at = "blacklist"
    /\ IF query[q].d \in heap[query[q].ref]
       THEN Decide(q, "block") /\ Counts(0, 1, 0)
       ELSE Decide(q, "allow") /\ Counts(0, 0, 1)
    /\ UNCHANGED <<whitelist, enabled, urls, spared, tables, call, background, faults>>
    /\ Heap(heap)

-----------------------------------------------------------------------------
(* addToDomainList, removeFromDomainList, SetFilteringEnabled and           *)
(* SetBlocklistEnabled: first the database, then the engine.  A request for *)
(* several domains is as many calls.                                        *)

IsEdit(r) == r.table \in {"whitelist", "blacklist"}

\* AddWhitelistDomain, AddBlacklistDomain: INSERT OR IGNORE.
AddDomain(rows, d) == rows \cup {d}

\* DeleteWhitelistDomain, DeleteBlacklistDomain.
DeleteDomain(rows, d) == rows \ {d}

\* EnableBlocklist: the rows of filtering_blocklists that are enabled.
EnableBlocklist(rows, i, on) == IF on THEN rows \cup {i} ELSE rows \ {i}

\* What r is about, and the calls about it that have saved their row and are still to
\* reach the engine.
rule(r)     == IF IsEdit(r) THEN Normal[r.row] ELSE r.row
target(r)   == <<r.table, rule(r)>>
Applying(c) == call[c].at \notin {"idle", "done"}
Editing(t)  == {c \in Calls : Applying(c) /\ target(call[c].req) = t}

\* The edit has its rule to itself, and the table agrees with what it does.
Alone(r, rows) ==
    /\ Editing(target(r)) = {}
    /\ IsEdit(r) /\ r.op = "remove" => rule(r) \notin rules(rows)

\* The row r asks for is written, and the handler goes on to the engine.
Save(c, r, rows) ==
    /\ call[c].at = "idle"
    /\ database' = [database EXCEPT ![r.table] = rows]
    /\ crossed' = IF Alone(r, rows) THEN crossed \ {target(r)} ELSE crossed \cup {target(r)}
    /\ wiped' = IF r.table = "blacklist" THEN wiped \ {rule(r)} ELSE wiped
    /\ call' = [call EXCEPT ![c] = [at |-> r.table, req |-> r, ref |-> None]]
    /\ UNCHANGED <<engine, evaluation, background, faults>>

\* addToDomainList, of one domain.
ApiAdd(c, r) ==
    /\ IsEdit(r) /\ r.op = "add"
    /\ Save(c, r, AddDomain(database[r.table], r.row))

\* removeFromDomainList, of one domain: without its row the answer is an error.
ApiRemove(c, r) ==
    /\ IsEdit(r) /\ r.op = "remove" /\ r.row \in database[r.table]
    /\ Save(c, r, DeleteDomain(database[r.table], r.row))

\* SetFilteringEnabled
ApiSwitch(c, r) ==
    /\ r.table = "enabled"
    /\ Save(c, r, IF r.op = "add" THEN {1} ELSE {})

\* SetBlocklistEnabled: the engine is not told.
ApiBlocklist(c, r) ==
    /\ r.table = "lists" /\ call[c].at = "idle"
    /\ database' = [database EXCEPT !.lists = EnableBlocklist(@, r.row, r.op = "add")]
    /\ call' = [call EXCEPT ![c] = Done]
    /\ UNCHANGED <<engine, evaluation, wiped, crossed, background, faults>>

\* Trie.Add and Trie.Remove, of the name in normal form.
edited(domains, r) == IF r.op = "add" THEN domains \cup {rule(r)} ELSE domains \ {rule(r)}

\* AddToWhitelist and RemoveFromWhitelist.
ApiWhitelist(c) ==
    LET r == call[c].req IN
    /\ call[c].at = "whitelist"
    /\ whitelist' = edited(whitelist, r)
    /\ spared' = [q \in Queries |-> spared[q] /\ (r.op = "remove" => query[q].d # rule(r))]
    /\ call' = [call EXCEPT ![c] = Done]
    /\ UNCHANGED <<heap, enabled, urls, query, stats, tables, background, faults>>

\* AddToBlacklist and RemoveFromBlacklist load the pointer ...
ApiLoad(c) ==
    /\ call[c].at = "blacklist"
    /\ call' = [call EXCEPT ![c] = [at |-> "trie", req |-> @.req, ref |-> Main]]
    /\ UNCHANGED <<engine, evaluation, tables, background, faults>>

\* ... and change the trie they got.
ApiBlacklist(c) ==
    /\ call[c].at = "trie"
    /\ call' = [call EXCEPT ![c] = Done]
    /\ UNCHANGED <<whitelist, enabled, urls, evaluation, tables, background, faults>>
    /\ Heap([heap EXCEPT ![call[c].ref] = edited(@, call[c].req)])

\* pe.SetEnabled
ApiEnabled(c) ==
    /\ call[c].at = "enabled"
    /\ enabled' = (call[c].req.op = "add")
    /\ call' = [call EXCEPT ![c] = Done]
    /\ UNCHANGED <<whitelist, heap, urls, evaluation, tables, background, faults>>

-----------------------------------------------------------------------------
(* loadBlocklists, once, and refreshLoop, on every tick.                    *)

\* The next blocklist from i on that the engine was built with.
LoadNext(i) ==
    IF \E j \in urls : j >= i THEN CHOOSE j \in urls : j >= i /\ \A k \in urls : k >= i => j <= k
    ELSE Len(Lists) + 1

LoadPending == loader.ref = None /\ LoadNext(loader.i) <= Len(Lists)

\* ParseURL succeeds, and pe.blacklist is loaded for Merge.
LoadFetch ==
    /\ LoadPending
    /\ loader' = [i |-> LoadNext(loader.i), ref |-> Main]
    /\ UNCHANGED <<engine, evaluation, tables, call, refresher, faults>>

LoadFails ==
    /\ LoadPending
    /\ Fault
    /\ loader' = [loader EXCEPT !.i = LoadNext(loader.i) + 1]
    /\ UNCHANGED <<engine, evaluation, tables, call, refresher>>

\* A variant: the list just loaded replaces what was there.
LoadMergeReplaces ==
    /\ loader.ref # None
    /\ loader' = [i |-> loader.i + 1, ref |-> None]
    /\ UNCHANGED <<whitelist, enabled, urls, evaluation, tables, call, refresher, faults>>
    /\ Heap([heap EXCEPT ![loader.ref] = Lists[loader.i]])

LoadMerge ==
    /\ loader.ref # None
    /\ loader' = [i |-> loader.i + 1, ref |-> None]
    /\ UNCHANGED <<whitelist, enabled, urls, evaluation, tables, call, refresher, faults>>
    /\ Heap([heap EXCEPT ![loader.ref] = @ \cup Lists[loader.i]])

\* The new trie takes the address Main; the old one moves away with those who
\* still have it.
Swap(domains) ==
    LET spare    == CHOOSE a \in Tries : a \notin Referenced
        moved(a) == IF a = Main THEN spare ELSE a
    IN /\ query' = [q \in Queries |-> [query[q] EXCEPT !.ref = moved(@)]]
       /\ call' = [c \in Calls |-> [call[c] EXCEPT !.ref = moved(@)]]
       /\ loader' = [loader EXCEPT !.ref = moved(@)]
       /\ Heap([heap EXCEPT ![spare] = heap[Main], ![Main] = domains])

\* A variant: the last list is not fetched.
RefreshShort(failed) ==
    /\ refresher # "stopped" /\ failed \subseteq urls
    /\ faults + Cardinality(failed) <= MaxFaults
    /\ faults' = faults + Cardinality(failed)
    /\ wiped' = rules(database.blacklist)
    /\ UNCHANGED <<whitelist, enabled, urls, spared, stats, database, crossed, refresher>>
    /\ Swap(UNION {Lists[i] : i \in urls \ (failed \cup {Len(Lists)})})

\* A tick: the lists are fetched into a trie nobody else sees, which then becomes
\* the blacklist.  A list that could not be fetched is skipped, and nothing that
\* was configured, or added by the API, is carried over.
Refresh(failed) ==
    /\ refresher # "stopped" /\ failed \subseteq urls
    /\ faults + Cardinality(failed) <= MaxFaults
    /\ faults' = faults + Cardinality(failed)
    /\ wiped' = rules(database.blacklist)
    /\ UNCHANGED <<whitelist, enabled, urls, spared, stats, database, crossed, refresher>>
    /\ Swap(UNION {Lists[i] : i \in urls \ failed})

RefreshStops ==
    /\ refresher = "closing"
    /\ refresher' = "stopped"
    /\ UNCHANGED <<engine, evaluation, tables, call, loader, faults>>

\* FilteringResolver.Close.
Close ==
    /\ refresher = "running"
    /\ refresher' = "closing"
    /\ UNCHANGED <<engine, evaluation, tables, call, loader, faults>>

\* The process ends, wherever it is, and starts again: ExportToConfig and a new
\* engine.
Restart ==
    /\ Fault
    /\ NewPolicyEngine(exportFilteringConfig(database),
                       whitelist', heap', enabled', urls', loader', refresher')
    /\ wiped' = {} /\ crossed' = {}
    /\ stats' = [total |-> 0, blocked |-> 0, allowed |-> 0]
    /\ query' = [q \in Queries |-> IF query[q].at \in {"idle"} \cup Verdict THEN query[q]
                                   ELSE [at |-> "lost", d |-> None, ref |-> None]]
    /\ spared' = [q \in Queries |-> FALSE]
    /\ call' = [c \in Calls |-> IF call[c].at = "idle" THEN NoCall ELSE Done]
    /\ UNCHANGED database

-----------------------------------------------------------------------------

Evaluate(q) ==
    \/ \E d \in Domains : EvalStart(q, d)
    \/ EvalWhitelist(q) \/ EvalLoad(q) \/ EvalBlacklist(q)

Api(c) ==
    \/ \E r \in Requests[c] : ApiAdd(c, r) \/ ApiRemove(c, r) \/ ApiSwitch(c, r) \/ ApiBlocklist(c, r)
    \/ ApiWhitelist(c) \/ ApiLoad(c) \/ ApiBlacklist(c) \/ ApiEnabled(c)

loadBlocklists == LoadFetch \/ LoadFails \/ LoadMerge
refreshLoop    == (\E failed \in SUBSET DOMAIN Lists : Refresh(failed)) \/ RefreshStops

Next ==
    \/ \E q \in Queries : Evaluate(q)
    \/ \E c \in Calls : Api(c)
    \/ loadBlocklists \/ refreshLoop \/ Close
    \/ Restart

Spec == Init /\ [][Next]_vars

\* The ticker ticks and fetches end: ParseURL has a timeout.
FairSpec == Spec /\ WF_vars(refreshLoop)

-----------------------------------------------------------------------------
(* Properties.                                                              *)

\* The types of the engine; whoever is about to use a trie has loaded one.
TypeOK ==
    /\ whitelist \subseteq Domains
    /\ heap \in [Tries -> SUBSET Domains]
    /\ enabled \in BOOLEAN /\ faults \in 0..MaxFaults /\ urls \subseteq DOMAIN Lists
    /\ stats \in [{"total", "blocked", "allowed"} -> 0..Cardinality(Queries)]
    /\ database \in [whitelist : SUBSET Spellings, blacklist : SUBSET Spellings,
                     lists : SUBSET DOMAIN Lists, enabled : SUBSET {1}]
    /\ wiped \subseteq Domains
    /\ \A q \in Queries :
          query[q].at \in {"idle", "whitelist", "load", "blacklist", "lost"} \cup Verdict
    /\ \A q \in Queries : (query[q].at = "blacklist") <=> (query[q].ref \in Tries)
    /\ \A c \in Calls : (call[c].at = "trie") <=> (call[c].ref \in Tries)
    /\ loader.i \in 1..(Len(Lists) + 1) /\ refresher \in {"running", "closing", "stopped"}

\* "WhitelistDomains is a list of domains to always allow": a name that has been
\* on the whitelist since its evaluation began is not blocked, whatever lists are
\* loaded, refreshed or swapped meanwhile.  And every evaluation is counted once,
\* under its verdict: the total is the blocked, the allowed and those under way.
\* The state is well typed throughout.
WhitelistWins ==
    /\ TypeOK
    /\ \A q \in Queries : spared[q] => query[q].at # "block"
    /\ stats.total = stats.blocked + stats.allowed
                       + Cardinality({q \in Queries : query[q].at \notin {"idle", "lost"} \cup Verdict})

\* Nobody is editing x of the table t, and its last edits did not cross.
Settled(t, x) == <<t, x>> \notin crossed /\ Editing(<<t, x>>) = {}

\* The engine does what the tables say, however many clients edit at once, and
\* after a restart again: a domain is on the whitelist if and only if its table
\* has it; filtering is on if it was last switched on; a blacklist domain that no
\* refresh has wiped out since it was added is blocked; and nothing is blocked but
\* what the blacklist table or the blocklists contain.  Not so for what is being
\* edited, for what several clients edited at the same time, and for a name of
\* which one spelling was removed and another kept, each until its next edit.
TablesInForce ==
    /\ \A d \in Domains : Settled("whitelist", d) =>
          (d \in whitelist <=> d \in rules(database.whitelist))
    /\ Settled("enabled", 1) => enabled = (database.enabled # {})
    /\ \A d \in Domains : Settled("blacklist", d) =>
          /\ d \in rules(database.blacklist) \ wiped => d \in Active
          /\ d \in Active => d \in rules(database.blacklist) \cup UNION {Lists[i] : i \in urls}

\* While the engine is open, again and again every blocklist is in use as a
\* whole, whatever fetches failed and in whatever order the first load and the
\* refreshes wrote.
ListsEventuallyBlocked ==
    []<>(refresher # "running" \/ \A i \in urls : Lists[i] \subseteq Active)
=============================================================================
