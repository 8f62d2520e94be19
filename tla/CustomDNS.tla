------------------------------ MODULE CustomDNS ------------------------------
(***************************************************************************)
(* Custom DNS records: the API handlers that edit them (internal/api/      *)
(* handlers/custom_dns.go), the table that keeps them (internal/database/  *)
(* custom_dns.go), and the resolver that serves them (internal/resolvers/  *)
(* reloadable_custom_dns.go, custom_dns_resolver.go).                      *)
(*                                                                         *)
(* An entry is a host name or an alias; its value is the set of addresses  *)
(* or the one target it has, {} if it is absent.  A handler changes h.cfg  *)
(* under h.mu, then writes the table row by row, then reads the table back *)
(* and swaps the resolver; only the single steps are atomic.  The runner's *)
(* initCustomDNS reads the same h.cfg.  Names are in normal form.          *)
(*                                                                         *)
(* Ghosts: acked, torn and unserved say what an edit's caller may expect.  *)
(***************************************************************************)
EXTENDS Naturals

CONSTANTS
    Clients,     \* API clients
    HostNames, Aliases,
    IPv4, IPv6,  \* addresses
    Values,      \* Values[kind]: the values requests give to entries of that kind
    MaxFaults,   \* how many writes fail, reloads fail and restarts happen
    None

Entries == [kind : {"host"}, name : HostNames] \cup [kind : {"cname"}, name : Aliases]
Names   == HostNames \cup Aliases
Records == [Entries -> SUBSET (IPv4 \cup IPv6 \cup Names)]

\* validateIPs: a host has an address; an alias has one target.
ASSUME ValuesAssumption ==
    /\ DOMAIN Values = {"host", "cname"}
    /\ Values["host"] \subseteq (SUBSET (IPv4 \cup IPv6)) \ {{}}
    /\ Values["cname"] \subseteq {{n} : n \in Names}
ASSUME FaultsAssumption == MaxFaults \in Nat
ASSUME NoneAssumption == None \notin Entries

VARIABLES
    memory,    \* h.cfg.CustomDNS
    table,     \* custom_dns_records
    resolver,  \* what r.customResolver serves
    up,        \* initCustomDNS has run
    call,      \* call[c]: where the handler is, what it edits, the rows to write;
               \* ghost: whether it leaves the entry in order whatever it was
    loaded,    \* loaded[c]: what the handler's reload has read back
    acked,     \* ghost: the value of the last edit that was answered with success,
               \* {} if torn
    torn,      \* ghost: entries that two edits, or a failed one, wrote to
    unserved,  \* ghost: entries that another reload may have read too early, or
               \* whose own reload failed
    faults

ghosts  == <<acked, torn, unserved>>
dnsVars == <<memory, table, resolver, up, call, loaded, ghosts, faults>>

Nothing == [e \in Entries |-> {}]
NoCall  == [at |-> "idle", e |-> None, todo |-> {}, mends |-> FALSE]

DNSInit ==
    /\ memory = Nothing /\ table = Nothing /\ resolver = Nothing /\ acked = Nothing
    /\ up = FALSE
    /\ call = [c \in Clients |-> NoCall]
    /\ loaded = [c \in Clients |-> Nothing]
    /\ torn = {} /\ unserved = {}
    /\ faults = 0

Fault == faults < MaxFaults /\ faults' = faults + 1

CallAt(c, step)   == call[c].at = step
CallGoto(c, step) == call' = [call EXCEPT ![c].at = step]
Editing(e)        == {c \in Clients : call[c].e = e}

\* Nothing is promised of a torn entry.
Tear(e) == torn' = torn \cup {e} /\ acked' = [acked EXCEPT ![e] = {}]

\* The handlers that have read a part of the table and not yet swapped.
Reloading == {c \in Clients : call[c].at \in {"cnames", "apply"}}

-----------------------------------------------------------------------------
(* AddHost, UpdateHost, DeleteHost, AddCNAME, UpdateCNAME, DeleteCNAME       *)

host(n)    == [kind |-> "host", name |-> n]
cname(n)   == [kind |-> "cname", name |-> n]
exists(e)  == memory[e] # {}

\* What the handlers do under h.mu: h.cfg has the edit from here on.
Edit(c, e, value, firstWrite) ==
    /\ CallAt(c, "idle")
    /\ memory' = [memory EXCEPT ![e] = value]
    /\ call' = [d \in Clients |->
                  IF d = c THEN [at |-> firstWrite, e |-> e, todo |-> value,
                                 mends |-> Editing(e) = {} /\ firstWrite # "insert"]
                  ELSE [call[d] EXCEPT !.mends = @ /\ call[d].e # e]]
    /\ IF Editing(e) = {} THEN UNCHANGED <<acked, torn>> ELSE Tear(e)
    /\ UNCHANGED <<table, resolver, up, loaded, unserved, faults>>

\* 409 if an entry to add exists, 404 if one to update or delete does not.
AddHost(c, n, ips)         == ~exists(host(n)) /\ Edit(c, host(n), ips, "insert")
UpdateHost(c, n, ips)      == exists(host(n)) /\ Edit(c, host(n), ips, "clear")
DeleteHost(c, n)           == exists(host(n)) /\ Edit(c, host(n), {}, "clear")
AddCNAME(c, n, targets)    == ~exists(cname(n)) /\ Edit(c, cname(n), targets, "replace")
UpdateCNAME(c, n, targets) == exists(cname(n)) /\ Edit(c, cname(n), targets, "replace")
DeleteCNAME(c, n)          == exists(cname(n)) /\ Edit(c, cname(n), {}, "replace")

\* What a write does besides: a reload that is under way may have missed it.
Write(c, records) ==
    /\ table' = records
    /\ unserved' = IF Reloading = {} THEN unserved ELSE unserved \cup {call[c].e}
    /\ UNCHANGED <<memory, resolver, up, loaded, acked, torn, faults>>

\* A variant: the rows that are there are kept.
ClearHostKeeps(c) ==
    /\ CallAt(c, "clear")
    /\ Write(c, table)
    /\ CallGoto(c, IF call[c].todo = {} THEN "hosts" ELSE "insert")

\* DeleteAllHostsForHostname.
ClearHost(c) ==
    /\ CallAt(c, "clear")
    /\ Write(c, [table EXCEPT ![call[c].e] = {}])
    /\ CallGoto(c, IF call[c].todo = {} THEN "hosts" ELSE "insert")

\* db.AddHost, an address at a time; the row may be there already.
InsertHost(c, ip) ==
    /\ CallAt(c, "insert")
    /\ ip \in call[c].todo
    /\ Write(c, [table EXCEPT ![call[c].e] = @ \cup {ip}])
    /\ call' = [call EXCEPT ![c].todo = @ \ {ip},
                            ![c].at = IF call[c].todo = {ip} THEN "hosts" ELSE "insert"]

\* db.AddCNAME deletes and inserts under one lock.
ReplaceCNAME(c) ==
    /\ CallAt(c, "replace")
    /\ call[c].todo # {}
    /\ Write(c, [table EXCEPT ![call[c].e] = call[c].todo])
    /\ CallGoto(c, "hosts")

\* db.DeleteCNAME, whose "not found" the handler ignores.
RemoveCNAME(c) ==
    /\ CallAt(c, "replace")
    /\ call[c].todo = {}
    /\ Write(c, [table EXCEPT ![call[c].e] = {}])
    /\ CallGoto(c, "hosts")

\* A write fails, that of an alias perhaps after its deletion: 500, and h.cfg
\* keeps the edit.
WriteFails(c) ==
    /\ call[c].at \in {"clear", "insert", "replace"}
    /\ Fault
    /\ table' \in {table} \cup
         IF CallAt(c, "replace") THEN {[table EXCEPT ![call[c].e] = {}]} ELSE {}
    /\ Tear(call[c].e)
    /\ call' = [call EXCEPT ![c] = NoCall]
    /\ UNCHANGED <<memory, resolver, up, loaded, unserved>>

-----------------------------------------------------------------------------
(* triggerReload: ExportToConfig and ReloadCustomDNS.                       *)

\* An entry some other handler is in the middle of writing is read half.
HalfWritten(c) == {call[d].e : d \in {x \in Clients \ {c} : CallAt(x, "insert")}}

\* What has been read so far, with the rows of one kind as they are now.
GetAllHosts(records)  == [e \in Entries |-> IF e.kind = "host" THEN table[e] ELSE records[e]]
GetAllCNAMEs(records) == [e \in Entries |-> IF e.kind = "cname" THEN table[e] ELSE records[e]]

\* The hosts are read under the database's lock ...
ExportHosts(c) ==
    /\ CallAt(c, "hosts")
    /\ loaded' = [loaded EXCEPT ![c] = GetAllHosts(Nothing)]
    /\ unserved' = unserved \cup HalfWritten(c)
    /\ CallGoto(c, "cnames")
    /\ UNCHANGED <<memory, table, resolver, up, acked, torn, faults>>

\* A variant: the aliases are not exported.
ExportCNAMEsSkipped(c) ==
    /\ CallAt(c, "cnames")
    /\ CallGoto(c, "apply")
    /\ UNCHANGED <<memory, table, resolver, up, loaded, ghosts, faults>>

\* ... and the aliases under the same lock taken again.
ExportCNAMEs(c) ==
    /\ CallAt(c, "cnames")
    /\ loaded' = [loaded EXCEPT ![c] = GetAllCNAMEs(@)]
    /\ CallGoto(c, "apply")
    /\ UNCHANGED <<memory, table, resolver, up, ghosts, faults>>

\* The handler answers with success.  An edit that had the entry to itself and
\* first removed the rows there were mends what earlier edits tore.
Answer(c) ==
    LET e == call[c].e
    IN /\ torn' = IF call[c].mends THEN torn \ {e} ELSE torn
       /\ acked' = [acked EXCEPT ![e] = IF e \in torn' THEN {} ELSE memory[e]]
       /\ call' = [call EXCEPT ![c] = NoCall]
       /\ loaded' = [loaded EXCEPT ![c] = Nothing]

\* The pointer is swapped, whatever others have swapped in meanwhile.
Reload(records) == resolver' = records

ReloadCustomDNS(c) ==
    /\ CallAt(c, "apply")
    /\ Reload(loaded[c])
    /\ Answer(c)
    /\ unserved' = IF Reloading = {c} /\ up THEN unserved \ {call[c].e} ELSE unserved
    /\ UNCHANGED <<memory, table, up, faults>>

\* The export fails: that is logged, and the handler answers with success.
ReloadFails(c) ==
    /\ call[c].at \in {"hosts", "cnames"}
    /\ Fault
    /\ Answer(c)
    /\ unserved' = unserved \cup {call[c].e}
    /\ UNCHANGED <<memory, table, resolver, up>>

-----------------------------------------------------------------------------
(* Start and restart                                                       *)

\* The runner loads what main exported, with what handlers have changed since.
initCustomDNS ==
    /\ ~up
    /\ up' = TRUE
    /\ Reload(memory)
    /\ UNCHANGED <<memory, table, call, loaded, ghosts, faults>>

\* The process ends anywhere; the next one exports h.cfg from the table.
\* Half an edit is from then on what the table says.
Restart ==
    LET lost == torn \cup {call[c].e : c \in {d \in Clients : ~CallAt(d, "idle")}}
    IN /\ Fault
       /\ memory' = table
       /\ resolver' = Nothing
       /\ up' = FALSE
       /\ call' = [c \in Clients |-> NoCall]
       /\ loaded' = [c \in Clients |-> Nothing]
       /\ acked' = [e \in Entries |-> IF e \in lost THEN table[e] ELSE acked[e]]
       /\ torn' = {} /\ unserved' = {}
       /\ UNCHANGED table

-----------------------------------------------------------------------------

Request(c) ==
    \/ \E n \in HostNames, ips \in Values["host"] : AddHost(c, n, ips) \/ UpdateHost(c, n, ips)
    \/ \E n \in Aliases, t \in Values["cname"] : AddCNAME(c, n, t) \/ UpdateCNAME(c, n, t)
    \/ \E n \in HostNames : DeleteHost(c, n)
    \/ \E n \in Aliases : DeleteCNAME(c, n)

Handle(c) ==
    \/ ClearHost(c) \/ (\E ip \in call[c].todo : InsertHost(c, ip)) \/ ReplaceCNAME(c)
    \/ RemoveCNAME(c) \/ WriteFails(c)
    \/ ExportHosts(c) \/ ExportCNAMEs(c) \/ ReloadCustomDNS(c) \/ ReloadFails(c)

DNSNext ==
    \/ \E c \in Clients : Request(c) \/ Handle(c)
    \/ initCustomDNS \/ Restart

DNSSpec == DNSInit /\ [][DNSNext]_dnsVars

-----------------------------------------------------------------------------
(* What a query is answered with                                           *)

aliasOf(records, n)   == IF n \in Aliases THEN records[cname(n)] ELSE {}
addressesOf(records, n) == IF n \in HostNames THEN records[host(n)] ELSE {}

matchesQueryType(ip, qtype) == ip \in (IF qtype = "A" THEN IPv4 ELSE IPv6)

\* Of an alias's target, the addresses this resolver knows are added.
buildCNAMEResponse(records, targets, qtype) ==
    [cname |-> targets,
     addresses |-> {ip \in UNION {addressesOf(records, t) : t \in targets} :
                       matchesQueryType(ip, qtype)}]

\* Without a matching address, nor an alias, there is no answer, and the chain
\* goes on to the forwarding resolver.
buildAddressResponse(addresses, qtype) ==
    [cname |-> {}, addresses |-> {ip \in addresses : matchesQueryType(ip, qtype)}]

\* A query uses one set of records throughout, the alias first.
Resolve(records, n, qtype) ==
    IF aliasOf(records, n) # {}
    THEN buildCNAMEResponse(records, aliasOf(records, n), qtype)
    ELSE buildAddressResponse(addressesOf(records, n), qtype)

-----------------------------------------------------------------------------
(* Properties.                                                             *)

\* The types of the three copies of the records and of the handlers' locals.
DNSTypeOK ==
    /\ {memory, table, resolver, acked} \cup {loaded[c] : c \in Clients} \subseteq Records
    /\ \A c \in Clients :
          /\ call[c].at \in {"idle", "clear", "insert", "replace", "hosts", "cnames", "apply"}
          /\ call[c].e \in Entries \cup {None} /\ (call[c].e = None <=> CallAt(c, "idle"))
          /\ CallAt(c, "insert") => call[c].todo # {}
    /\ up \in BOOLEAN /\ torn \cup unserved \subseteq Entries /\ faults \in 0..MaxFaults

\* Entries nobody is editing and no failed or overlapping edit has left torn.
Settled == {e \in Entries \ torn : Editing(e) = {}}

\* "All changes are persisted to the database immediately": memory and table both
\* have an edit that was answered with success, whatever happens to other entries
\* at the same time and wherever the process restarts.  Only edits of one entry
\* that overlap or fail can leave the two different, and then the next update or
\* deletion of that entry, or a restart, mends it.
AcknowledgedSurvives ==
    /\ DNSTypeOK
    /\ \A e \in Settled : table[e] = acked[e] /\ memory[e] = acked[e]

\* Queries are answered from the records that were acknowledged, and from the
\* old or the new value while an entry is edited.  Two kinds of entry escape, whose
\* edit is answered with success and may not be served: one whose own reload
\* failed, which is only logged; and one that was written while another reload was
\* under way, which may have read it too early and be the last to swap.  Each does so
\* until it is edited again with no other reload under way, or the process restarts.
AcknowledgedServed ==
    up =>
        /\ \A e \in Entries \ (torn \cup unserved) : resolver[e] \in {acked[e], memory[e]}
        /\ Settled \ unserved = Entries =>
               \A n \in Names, qtype \in {"A", "AAAA"} :
                   Resolve(resolver, n, qtype) = Resolve(acked, n, qtype)
=============================================================================
