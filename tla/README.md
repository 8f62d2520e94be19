# HydraDNS in TLA+

A TLA+ model of the concurrent core of HydraDNS: how a query is received,
filtered, resolved, cached and answered, and how a cluster keeps its
configuration the same. Modules are translated from the Go code under `src/`;
`PROJECT.json` maps every definition to the lines it stands for. TLC checks the
modules on small instances, and TLAPS proves the main safety results about every
component but the wire format, for every value of the constants.

## The system

HydraDNS is a forwarding and filtering DNS server. Its parts, their state and
what makes them hard:

| Part | State | Operations | Hard behaviour |
|---|---|---|---|
| UDP server (`udp_server.go`, `query_handler.go`, `truncate.go`, `pool.go`) | sockets, packet queue, pooled buffers | receive, enqueue or drop, handle, answer, stop | a resolver goroutine outlives the handler whose buffer it was given; a timeout races the answer |
| TCP server (`tcp_server.go`) | listeners, handlers, `connPerIP`, WaitGroup | accept, limit, read, answer, close, stop | several accept loops share the limit; `Stop` is called from two places |
| Rate limiter (`rate_limit.go`) | tokens and time per key | `Allow`, clean-up | the clock is read before the lock; the table is bounded |
| Filtering (`policy.go`, `trie.go`, `parser.go`, `filtering_resolver.go`, `database/filtering.go`) | whitelist and blacklist tries, their tables, counters | `Evaluate`, load, refresh, list edits, restart | a pointer that is loaded without the lock and replaced by the refresh; tables and engine are written one after the other |
| Forwarding resolver (`forwarding_resolver.go`) | cache, `inflight`, upstream health | `Resolve` | singleflight, failover, publication |
| Connection pool (same file) | a channel of UDP sockets per upstream | `ensurePool`, `queryOne`, `Close` | the channel is published before it is filled, and closed while in use |
| TTL cache (`cache.go`) | map and LRU list | `Get`, `GetWithAge`, `Set` | stale clock, lifetimes, unsigned subtraction |
| Custom DNS (`handlers/custom_dns.go`, `database/custom_dns.go`, `custom_dns_resolver.go`, `reloadable_custom_dns.go`) | the records in `h.cfg`, in a table and in the resolver | add, update, delete, reload, resolve | three copies written one after the other, row by row, by concurrent handlers |
| Cluster (`cluster.go`, `database/cluster.go`, `handlers/cluster.go`) | two databases with versions, `h.cfg`, the syncer | edit, export, fetch, import, reload, forced sync, change of settings | version and data are read from different places; crashes between steps; a promotion waits for the sync loop |
| Wire format (`internal/dns`) | none: messages are functions of messages | parse, encode, error replies, EDNS | compression pointers, counts and sizes at their limits |
| Management API, other tables | tables | CRUD | mostly I/O |

A UDP or TCP handler calls the resolver chain: filtering first, then custom DNS,
then forwarding. The forwarding resolver asks its cache, then an upstream over a
pooled socket. The API changes the tables and then the running engine; on a
secondary, the syncer imports the primary's configuration and reloads it.

## The modules

| Module | Models | One step is |
|---|---|---|
| `ForwardingResolver` | `Resolve`, `selectUpstream`, `queryAndCache`, health | one critical section or one upstream exchange of a query |
| `ConnPool` | the pool of one upstream, `queryOne`, `Close` | one channel operation, dial or exchange |
| `CacheTTL` | how the lifetime and the TTLs of a response are computed | (operators only) |
| `TTLCache` | the cache over `CacheTTL` | a clock read, or the critical section after it |
| `TokenBucket` | `TokenBucketRateLimiter.Allow` | a clock read, or the critical section after it |
| `NameCodec` | `codec.go`: names on the wire, byte by byte | (operators only) |
| `Messages` | messages over `NameCodec`: parsing and its bounds, serialising, error replies, EDNS, truncation | (operators only) |
| `UDPServer` | one socket's receiver, workers, buffers, `resolveWithTimeout`, `Stop`; what a packet's bytes mean is a parameter | one operation on a channel, pool or socket |
| `QueryHandler` | `UDPServer` with that parameter taken from `Messages` | (as `UDPServer`) |
| `TCPServer` | listeners, accept loops, handlers, `Run`, `Stop` | one accept, read, write, or lock |
| `DomainRules` | abstract: what a trie promises, a rule per domain | one operation |
| `DomainTrie` | `trie.go`, nodes as paths from the root; implements `DomainRules` | one operation (each holds the lock throughout) |
| `ListParser` | `parser.go`: a list read line by line into a `DomainTrie` | one line |
| `PolicyEngine` | the engine, `FilteringResolver`, the filtering tables, the edits of the API, restarts | a pointer load, or an operation on a trie |
| `CustomDNS` | the six handlers that edit records, their table, the reload and the resolver | one critical section, table write or read, or pointer swap |
| `ClusterSync` | a primary, a secondary, the sync between them, forced syncs and `PutClusterConfig` | one read or write of a database, of `h.cfg`, or of the network |

`TTLCache` composes the cache with `CacheTTL`, and `PolicyEngine` the engine with
its resolver and API; `DomainTrie` justifies the sets of domains that
`PolicyEngine` uses for tries. The theorems are in the modules whose names end in
`_proofs`. `Servers_proofs` is about `TCPServer` and `UDPServer`, and
`Resolvers_proofs` about `ConnPool` and `CustomDNS`. One module extends both, and so
the two share no names: `UDPSpec` and `DNSSpec` are the specifications of `UDPServer`
and `CustomDNS`. The `MC` modules hold the sets and symmetries the configurations need.

Variables carry the names of the fields they model. Data is abstracted to what the
properties tell apart. A response is the question it answers, its upstream and its
call (`ForwardingResolver`). What a buffer holds is the packet's name (`UDPServer`),
so that a buffer overwritten too early is visible; whether a packet parses, and
whether an error reply to it can be written, are parameters of `UDPServer` that
`QueryHandler` computes from the bytes with `Messages`. A line of a blocklist is a
sequence of tokens (`ListParser`). A configuration is the set of edits made to it
(`ClusterSync`). TTLs and ages are integers of `Word` values, because subtraction
wraps.

Some variables are ghosts, which no action's guard reads: `seen`, `flight` and
`flights` (`ForwardingResolver`), `granted` and `extra` (`TokenBucket`), `since` and `served`
(`TTLCache`), `spared`, `wiped` and `crossed` (`PolicyEngine`), `listed` and `headed`
(`ListParser`), `overlap` (`ClusterSync`), `acked`, `torn`, `unserved` and the field
`mends` of `call` (`CustomDNS`).

Definitions whose comment begins "A variant" are plausible mistakes in the code
next to them. Each property is shown to be violated when the variant that
`PROJECT.json` names takes the place of the definition.

## The runs

| Run | Instance | Distinct states | Result |
|---|---|---|---|
| `resolver` | 2 queries, 2 questions, 3 upstreams | 349,716 | holds |
| `pool` | 2 queries, pool of 2, 2 attempts | 61,889 | holds |
| `pool_panic` | 2 queries, pool of 1, 1 attempt | | `NoCrash` violated |
| `bucket` | 2 callers, 2 keys, table of 1, 3 ticks | 241,042 | holds |
| `cache` | 2 callers, 3 keys, cache of 2 | 867,284 | holds |
| `udp` | 2 packets, 2 workers, 2 buffers, queue of 1; 9 message templates | 211,516 | holds |
| `tcp` | 3 connections of one address, 2 listeners, limit 2 | 261,977 | holds |
| `trie` | 5 names in 2 branches, up to 3 labels; lists in 3 formats | 32,562 | holds |
| `policy` | 1 domain in 2 spellings, 2 lists, 1 evaluation, 2 API calls, 1 failure or restart | 340,452 | holds |
| `cluster` | 2 custom DNS edits, 1 filtering edit, 1 local edit, 2 syncers, 3 settings, 2 events | 394,097 | holds |
| `custom_dns` | 2 clients, 1 host with up to 2 addresses, 1 alias, 1 fault | 1,501,865 | holds |
| `cluster_filter` | 1 filtering edit, 1 restart | | `Converges` violated |

`TypeOK` is a conjunct of the structural invariant of most runs:
`ConnSingleOwner`, `ListMatchesMap`, `BufferSingleOwner`, `SameVersionSameConfig`,
`WhitelistWins`, `LimitPerIP`, `AcknowledgedSurvives`. For the resolver and the
bucket it is proved instead, as is the bound of the bucket's table.

What the runs show:

- `resolver`: at most one query leads a key and no entry of `inflight` outlives
  its leader (`OneLeaderPerKey`). Waiters get their leader's outcome
  (`SharedOutcome`), answers fit their question, a failover loop that runs to its
  end examines every upstream, a slow leader does not undo a fresher entry, and
  every query returns.
- `pool`: a socket has one owner, no socket is leaked or used after it was
  closed, and every call ends, which includes that the blocking send of the
  pre-dial loop always finds room.
- `bucket`: two receive loops call `Allow` at once. In any window of length `t` a key
  gets no more than `Burst + Rate * t` and the two surcharges the code allows
  (`RateConforms`): `Rate` times what the calls decided in the window waited for the
  lock, because a call that waited sets the bucket's time back; and what the bucket
  may have lacked, each time a clean-up forgot it. Without waits, and with a
  clean-up interval in which a bucket fills up, that is the documented limit. The
  limiter is not stricter than documented either, for a request that has a place in
  the table (`DeniesOnlyWhenDry`).
- `cache`: map and list agree, only expired or least recently used entries go,
  nothing is served past its lifetime, and answer TTLs count down.
- `udp`: a buffer has one owner on every path, a resolver goroutine that outlives
  its handler still answers its own packet or gives an error, every queued packet
  is dealt with, and shutdown ends. Over the run's messages (see Bounds), a name
  decodes to what a plain walk over its length bytes and pointers spells, and
  encodes back (`NamesDecode`); an error reply carries the transaction and question
  of its request, and is missing only if the header cannot be parsed
  (`ErrorRepliesMatch`, which leaves out questions for the root and for names that
  do not encode back); adding EDNS to a query changes nothing else in it
  (`QueriesKeepMeaning`); and a reply fits the client's limit, is whole if it
  can be, and is a proper header with TC if not even its question fits
  (`RepliesFit`; of a reply cut after its question only the size is claimed).
- `tcp`: the limit per address holds, the map follows the handlers on every path,
  a drained server is idle, every connection ends, and shutdown ends.
- `trie`: after any sequence of operations `Contains` answers as a comparison of
  suffixes would, the size is right, and the trie implements `DomainRules`. A list is
  read as its author meant it, its format given or detected, unless a line that
  lists nothing decided the format (`ListRead`). Whether the names of a hosts list
  match their subdomains is left open: code and comment differ.
- `policy`: a whitelisted name is never blocked, whatever is loaded or swapped
  meanwhile, and the counters add up (`WhitelistWins`). While two API calls overlap,
  and after a restart, whitelist, switch and blacklist are those of the tables, but for
  the blacklist domains a refresh wiped, and nothing is blocked that no table or
  list names (`TablesInForce`). That is said of each rule that is not being edited,
  unless its last edits overlapped or removed one of several spellings of it; its next
  edit settles it. Every list is in use as a whole again and again.
- `cluster`: a secondary with the primary's version lacks nothing the primary
  has persisted, no sync or crash takes back an edit both have, the databases
  converge as long as versions and contents are tied, and an import reaches the
  resolvers, as long as no two syncs overlap. A node that has answered that it is
  no longer a secondary keeps its data (`PromotedKeepsItsData`, which names its two
  exceptions), and it does answer (`PromotionAnswers`).
- `custom_dns`: an edit that was answered with success is in memory and in the
  table, and stays there whatever happens to other entries and wherever the
  process restarts. Only an entry that overlapping or failed edits wrote to may
  differ, until its next update or deletion or a restart. Queries are answered
  from acknowledged records, or from the old or the new value during an edit
  (`AcknowledgedServed`). Two kinds of entry escape, though their edit was answered
  with success: one whose own reload failed, which is only logged, and one that was
  written while another reload was under way. Each is served again after its next
  edit with no other reload under way, or a restart.

### Bounds

Two of everything is what a race needs, and a third upstream lets failover wrap around
past one that is in cool-down. Three connections with a limit of two let one be
refused and a later one be admitted. A table and a cache smaller than the number of
keys are at their limit. The queue of one fills up. One domain is enough for `policy`,
as every operation treats each domain by itself; its two spellings are two rows of a
table and one rule of the engine. Two API calls, each with its own requests and made
once, are enough to overlap on one rule in either order, or to be about two; one
evaluation is a limit of that run, and once it is made and the engine is closed nothing
is left to do, so deadlock is not checked there. In `bucket` two callers overlap over
`CleanupInterval + 1` ticks, in which a bucket is credited twice, forgotten before it is
full, and used again. `Word = 8` keeps the wrap-around of 32-bit TTLs. `MaxEvents`
bounds `cluster` to two events out of faults (each kind once), filtering and local
edits, forced syncs and a change of the settings. `MaxFaults` allows one failed fetch
or restart in `policy`, and in `custom_dns` one failed write, failed reload or
restart. One host and one alias of it are two entries that two clients can edit
together or apart. `MaxClock` bounds time.

In `policy` the current blacklist always has the address `Main`, and a refresh moves
the old one; six addresses are one for each that may be referred to and a spare.

The size limits of `Messages` are constants, small in `udp` (names of 8 bytes,
pointer chains of 2, replies of 24 to 48 bytes), so that short messages reach them.
Names are checked on all messages of up to five bytes over six byte values and
three longer ones. The other three properties are checked on nine templates, all
their prefixes, and all that differ from one in one byte (ten values). The packets
the server receives are pairs of those templates.

### Fairness

Every fairness condition is of a goroutine the scheduler runs, and all but one are
weak.

- Steps of `Resolve` and `queryOne`: exchanges have deadlines.
- UDP workers and receiver: timers fire. Neither the resolver nor the network is
  assumed to respond.
- TCP handlers: reads and writes have deadlines.
- The cluster's ticker, a sync that has begun (requests have a timeout), and an
  API handler between its writes. `LoopEnds` is strongly fair: `select` chooses at
  random among ready channels, so a closed `stopCh` is taken sooner or later though
  the ticker may be ready every time.
- The refresh loop: the ticker ticks and fetches have a timeout.

Clients, upstreams, operators and faults are never assumed to act. Liveness
therefore says that faults stop, as their number is bounded.

## The proofs

`ForwardingResolver_proofs` proves, for any queries, any questions and one to three
upstreams (the code's limit), `TypeCorrect`, `Singleflight`, `OwnQuestion`, `Sharing`,
`NoRegress` and `Failover`. The properties are not inductive by themselves. The
invariant `IInv` adds what is true between the steps: how far each query has come and
what its locals then hold (`Progress`), that a call somebody joined was registered
under the same key (`JoinedCall`) and is published with its leader's result
(`JoinedOutcome`), and that a cache entry is no newer than the current call of its key
(`FlightOrder`). The last is why a leader never overwrites a fresher entry: a later
call of the key begins only once the earlier leader has left `inflight`, and so has
stored. `Failover` is the run's `FailoverCoversAll`: its invariant `Examined` says
that a query in its `j`-th attempt has looked at the upstreams of all the attempts
before it, and `AttemptsCover` that these are all of them when the loop ends.

`TokenBucket_proofs` proves `TypeCorrect`, `Bounded`, `Conforms` and `NotStricter`.
They hold for any number of callers, however their calls overlap, and any clean-up
interval. The invariant of `Conforms` relates the tokens left in a bucket to the
requests granted in every window that ends now (`Accounts`): what is left never exceeds
what the window, up to the bucket's last use, still allows with its surcharge; and a
key that was forgotten is owed a full bucket, which costs it the `Shortfall` that the
clean-up charged. A call that waited moves the last use back, and is charged the time by
which it does so. `NotStricter` (the run's `DeniesOnlyWhenDry`) is the converse: some
window that ends at a bucket's last use has left it no more than it holds (`Tight`), as
a bucket either was full at some time or has lost only what it granted.

`Resolvers_proofs` proves about `ConnPool` `SingleOwner`, the run's `ConnSingleOwner`,
with the panics of `Close` included. Its invariant states ownership slot by slot
(`Owned`), and what a call holds at each step (`Progress`): without it, a call might
put back a connection it no longer has. One lemma per way a connection changes hands
(push, pop, drain, close, dial) says what becomes of the slots.

`TTLCache_proofs` proves `WithinTTL` and `CountDown`. Their invariant says that every
entry, every pending `Set` and every hit carries the lifetime that
`analyzeCacheDecision` and `capTTL` gave its response when it arrived (`Lifetime`).
That an entry which has not expired is younger than each of its TTLs (`Younger`) is
then arithmetic, and so is the exactness of the subtraction. It also proves
`ListIsMap` (`ListMatchesMap`) and `EvictsOldest` (`EvictsLeastRecentlyUsed`), from an
invariant of their own: the list has every key of the map once, and a key stands
before another only if the other was used after its last use (`Lists`, with the
history variable `since`). One lemma for each operation of the list (remove, push
back, drop the front) says what becomes of membership and order; that the list is as
long as the map is large is a bijection (`Counted`).

`Servers_proofs` proves about `TCPServer` `Limited` and `Drained`. Their invariant
says what is counted where: `connPerIP` the handlers up to their deferred release
(`Counted`), the WaitGroup the accept loops and the handlers up to their end
(`Waited`). That an accepted connection is in the hands of one running loop
(`InHands`) is why nothing starts once the WaitGroup has been found at zero.

About `UDPServer` it proves `OneOwner` (`BufferSingleOwner`) and `OwnAnswer`
(`AnswersOwnPacket`), for any packets, workers, buffers and queue size, and whatever
the handler makes of a packet's bytes; so they hold of `QueryHandler`, which only
chooses the latter. The invariant `ServerInv` says that the channel holds each queued
packet once (`Queued`), that a packet being handled is one worker's (`Working`), that
the receiver has a buffer exactly while it reads (`Reading`), and that whoever has a
resolver goroutine was queued and so has a buffer (`Buffered`). Without the first two,
one packet's buffer could be put back twice. `AnswersOwnPacket` does not rest on
ownership: the goroutine may read a buffer that is another packet's by then, and
`validate` is what keeps the answer to that one out.

`DomainTrie_proofs` proves `Refinement`: the trie, with the parser that builds the
trie `Merge` takes, implements `DomainRules`. The refinement needs one fact about
reachable tries, that only endpoints are wildcards (`FlagInv`): otherwise adding a
domain without subdomains to a node that lost its rule would bring a wildcard back.
`WalkIsSuffixMatch` is the run's `ContainsMatchesSuffixes`. Its invariant `ShapeInv`
says that both tries are trees whose every branch ends in a domain of the set
(`WellGrown`), and that `size` counts those. The hard step is `Remove`: below a node
it deletes there is nothing but nodes it deletes (`OrphansBelow`, by the shortest
counterexample), and a node of the path that stays has a child that stays or is an
endpoint.

`ReadAsWritten` is `ListRead` (which is silent on the subdomains of hosts lists), for any names of two or more labels that are neither
one of the two addresses nor the machine's own name (`NamesAssumption`). Every kind of
line the author may write has a lemma saying what `TrimSpace`, `detectFormat` and the
line parsers make of it (`AdblockEntry`, `HostsSpaced`, `DomainsOther`, `Remark` and
so on, on top of `CutAt` and `Trimmed` for the cutting of sequences); `EntryRead`,
`OtherRead` and `Remark` sum them up for all formats. The invariant `ReadInv` adds to
`ListRead` that the format is the list's own or still open until a line that lists
nothing has chosen it.

`ClusterSync_proofs` proves `PromotionKeepsData`, `VersionMeansConfig`
(`SameVersionSameConfig`) and `PersistedEditsKept` (`KeepsPersistedEdits`). For the
first, the invariant says that a loop that has not begun or has ended is in no sync,
and that whoever closed `stopCh` is still waiting (`LoopInv`). A `Stop` that does not
wait breaks the second half. For the others, `SyncInv` follows an edit from the
handler through `h.cfg`, the database, the export and the import. An edit not made yet
is in no copy, and one on its way to the primary's database is in `h.cfg`
(`EditsInOrder`); of what the primary still holds, `h.cfg` has all that it has given
away (`NothingForgotten`); a sync is not behind the secondary (`NotBehind`); and what
was read under the current version has every persisted edit (`VersionStands`), as the
export reads the version first, so that its configuration may only be newer.
`VersionMeansConfig` holds as long as versions and contents are tied (`Tied`): no edit
of filtering or on the secondary, no change of its settings, no crash, no `SetVersion`
that failed, and no two syncs at once. `PersistedEditsKept` needs only the last of
these.

About `CustomDNS`, `Resolvers_proofs` proves `Survives` (`AcknowledgedSurvives`) and
`ServedAsAcknowledged` (`AcknowledgedServed`) for any clients, hosts, aliases and
addresses. The invariant says that an entry which is not torn has at most one edit
under way (`Alone`), what that edit has in hand at each step (`InHand`), that memory
and table are the acknowledged value where no edit is (`Kept`), what a reload has read
back so far (`ReadBack`), and what the resolver answers from (`Served`). Each step of
a handler, of the reload and of a restart then has a lemma of its own.

`PolicyEngine_proofs` proves `AlwaysAllowed` (`WhitelistWins`) and `TablesObeyed`
(`TablesInForce`). For the first, `EngineInv` says that a query whose name has been on
the whitelist throughout has not got past the whitelist, or is allowed (`Sparing`),
and that the counters count each evaluation that was begun once (`Counted`, with a
lemma on how a step moves one query from one cardinality to another). The refresh
needs an address that nobody refers to, and `SpareTrie` shows by counting that `Tries`
always has one (`TriesAssumption`). For the second, `InForce` says of every
rule whose edits did not cross that at most one call is editing it, and that this call
will do to the engine what the table already says; where there is none, the engine has
done it. For the blacklist that also covers a call whose trie a refresh has replaced
meanwhile (`Late`): what it still does, the trie in use never sees. It holds for any
number of API calls.

TLC also finds no violation of `Examined`, `DryInv` (the invariant with `Tight`),
`ListInv` (the one with `Lists`), `ShapeInv`, `ReadInv`, `SyncInv`, `ServerInv`,
`EngineInv`, `InForce` and the invariant about `CustomDNS` on the instances of the
passing runs of their modules.

The assumptions on the constants are the named `ASSUME`s of the modules. They say that
sizes and limits are numbers in their range, that "none" is none of the values it
stands apart from, that the edits of a cluster, the evaluations and the API calls
are finitely many, that the domains considered are closed under taking parents
(`DomainsAssumption`) and include those a list may name (`ListedAssumption`), and that
names are names (`NamesAssumption`). Only the bounds of `TTLCache` and `TokenBucket`
on time, of `ClusterSync` on events and of `CustomDNS` and `PolicyEngine` on faults
remain in the specifications that are proved about, and they may be any number.

Only model-checked: all liveness, as fairness and `ENABLED` are out of the prover's
reach, and the four properties of the wire format (`NamesDecode`, `ErrorRepliesMatch`,
`QueriesKeepMeaning`, `RepliesFit`). Those are about recursive operators over messages
of any length, which takes induction over data. Every other invariant and action
property that a passing run checks is proved.

## Where code and documentation differ

Shown by a run:

- `pool_panic`: `Close` (`forwarding_resolver.go:178`) closes a channel that
  queries still send to or receive from. Detached resolver goroutines outlive the
  shutdown of the servers, so draining does not cover them.
- `cluster_filter`: the export pairs the database's version with `h.cfg`, which
  filtering edits do not change (`handlers/cluster.go:95-110`). The secondary
  records the new version with the old data.

Met while modelling, and not among the runs:

- A UDP reply that is cut after its question has an all-zero header: the slice
  made at `truncate.go:54` has the header's length but not its bytes. It has no
  transaction ID, QR or TC, where lines 14 to 16 say that TC is set and the header
  preserved. `truncateUDPResponse` models it, and `RepliesFit` claims no more of such a
  reply than its size.
- There is no error reply to a question for the root, nor to one whose name is too
  long to encode (`query_handler.go:240`), where line 126 says that SERVFAIL is
  returned, and lines 51 and 221 that nothing is only if the header cannot be parsed.
  A label with a dot inside comes back as two. `buildErrorResult` and `tryBuildErrorFromRaw` model it, and
  `ErrorRepliesMatch` leaves such names out. Bytes behind the last section make an added OPT record unreadable, and a
  pointer into the header changes its meaning when the ID or ARCOUNT is rewritten
  (`edns.go:256`); `QueriesKeepMeaning` excepts both.
- The format of a list is decided by its first line that is no comment
  (`parser.go:118`; line 20 says each is tried). A first line such as a header or an
  exception makes it a list of plain domains. A hosts line gives only its second
  field (line 18 says "domain(s)"), and matches subdomains (line 268 says "exact
  domain only"); `ListRead` leaves the latter open.
- A promotion that comes after `SetClusterSyncer` and before `Start`
  (`main.go:279-281`) is answered with "Syncer stopped", and the loop starts
  nevertheless. A forced sync in flight may import after the promotion was
  answered. A change of the cluster settings raises the version of the secondary
  (`migrations/000003_add_cluster.up.sql:15`), so that later edits of the primary
  may be taken for old.
- `RefreshBlocklist` of the API only updates `last_fetched`.

- `max(uint32(1), oldTTL-ageSeconds)` wraps for records whose TTL is below the age
  (`forwarding_resolver.go:869`; line 820 says they get 1). Only the answer section
  determines the lifetime, so the other sections can meet this. `adjustTTL` models
  the wrap-around.
- An answer from a fallback upstream is stored under the key of the selected one
  (`forwarding_resolver.go:290`; the comment at line 107 speaks of isolation).
- Queries for one question share a call only if they selected the same upstream
  (line 217; the comment at line 63 says they do).
- A query that comes after `Close` (line 173) makes a new pool, which nobody
  closes.
- Zero TTLs are skipped when a lifetime is computed (line 743), while `cache.go:64`
  says the minimum of all answer records is respected.
- `UDPServer.Stop` closes the socket first, so queries in flight at shutdown are
  resolved but not answered (`udp_server.go:248`; line 55 says it waits for them).
- The resolver goroutine does not end when its timeout expires
  (`query_handler.go:145`; line 136 says so).
- Two overlapping calls of `Allow` can be processed out of the order of their
  clock reads and be credited twice (`rate_limit.go:229`), and an entry cleaned
  up before it has refilled starts full again (line 281), where lines 184 and 185
  promise the long-term average. `RateConforms` bounds both.
- The first refresh drops configured and API-added blacklist domains
  (`policy.go:233`). The comment there says so; line 106 says "always block".
- Two overlapping API requests for one domain can leave table and engine
  different (`handlers/filtering.go:73`). The tables keep a name as it was spelled and
  the engine in normal form, so that removing one spelling unblocks a name of which the
  table keeps another (`trie.go:69`).
- Two overlapping custom DNS edits of one entry can leave memory and table
  different, or the rows of both in the table; a failed write leaves `h.cfg` ahead
  of the table (`handlers/custom_dns.go:96-107`). An edit whose reload fails is
  answered with success and not served (`triggerReload` only logs it). A reload can swap in records it
  read before another edit, or in the middle of one (`main.go:185-189`), and they
  are served until the next reload.
- A crash between an import and `SetVersion` (`main.go:250`), an edit on the
  secondary (`cluster.go:260`), or `ForceSync` beside the ticker
  (`cluster.go:219`) can leave the secondary behind under a version that says
  otherwise. A secondary's first sync can be overwritten by the runner's own
  initialisation (`main.go:206`, `runner.go:84`).

## What is not modelled

- Cancellation between the resolvers of the chain. The spelling of custom DNS names
  and addresses: names are taken in normal form.
- The runner reads `h.cfg` without its lock when it starts (`runner.go:197`), and so
  does the export of a primary when it is written out (`handlers/cluster.go:122`).
  `CustomDNS` and `ClusterSync` take these reads to be atomic. `ClusterSync` also has an
  edit on the secondary in one step, which `CustomDNS` has in several.
- Record data of types the server neither reads nor writes (kept as opaque bytes),
  and the framing of messages over TCP.
- Adding, deleting and refreshing a blocklist's row, and the list metadata.
- `DomainSet`, which the server does not use.
- The rate limiter's three tiers and prefix keys.
- The status counters of the syncer.
- SQL beyond its effect on versions and on the filtering and custom DNS tables, the management API's
  request handling, statistics other than the filter's, logging, configuration
  parsing.
- Go's memory model: unsynchronised reads of a pointer return some pointer that
  was stored, as they do on the supported platforms.

## Plan

Built so far, in this order: the forwarding resolver and its proofs, the pool,
the bucket and its proofs, the cache, the UDP server, the cluster, the trie with
its abstract specification, the policy engine, the TCP server, custom DNS; then the
wire format, the list parser, the filtering tables, the cluster's settings and
forced syncs; then the proofs about the pool, the cache, the TCP server, the trie
and the cluster; then those about custom DNS, the versions of the cluster, the list
of the cache, the walk of the trie, failover, and the bucket's denials; then those about
the UDP server, the policy engine and the parsing of lists.

Next:

1. `RateLimiter`: the three tiers over the bucket.
2. An abstract resolver (every query gets an answer to its question or an error)
   implemented by `ForwardingResolver`, and used by `UDPServer`.
