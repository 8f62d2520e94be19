----------------------------- MODULE ClusterSync -----------------------------
(***************************************************************************)
(* A primary, a secondary, and the configuration sync between them         *)
(* (internal/cluster/cluster.go, internal/api/handlers/cluster.go,         *)
(* internal/database/cluster.go, cmd/hydradns/main.go).                    *)
(*                                                                         *)
(* A configuration is the set of edits made to it.  The primary keeps it   *)
(* in its database, with a version the database's triggers increment, and  *)
(* in the API handler's memory, h.cfg.  A custom DNS edit changes the      *)
(* memory first and the database later; a filtering edit changes only the  *)
(* database.  The export pairs the database's version with the memory.     *)
(* The secondary's ticker and its API (ForceSync) run doSync concurrently, *)
(* and PutClusterConfig takes the secondary out of the cluster, or changes *)
(* its settings, while they do.                                            *)
(***************************************************************************)
EXTENDS Naturals, FiniteSets

CONSTANTS
    DnsEdits,     \* custom DNS edits made on the primary
    FilterEdits,  \* filtering edits made on the primary
    LocalEdits,   \* custom DNS edits made on the secondary
    Syncers,      \* goroutines running doSync on the secondary
    Ticker,       \* the one of them that is Start and runLoop
    Settings,     \* the requests PutClusterConfig may get, once: a mode, and whether
                  \* the URL of the primary is in it
    ImportRows,   \* possible numbers of rows an import writes
    Faults,       \* the faults that may happen, each once, of those below
    MaxEvents     \* bound on the events of a behaviour beside custom DNS edits on the
                  \* primary and ticks: faults, and the other edits and API calls

FaultKinds == {"fetch", "version", "import", "setversion", "reload", "persist", "crash", "restart"}

ASSUME SyncAssumption ==
    /\ Ticker \in Syncers
    /\ ImportRows \subseteq Nat \ {0} /\ ImportRows # {}
    /\ Faults \subseteq FaultKinds /\ MaxEvents \in Nat
    /\ \A m \in Settings : m.mode \in {"primary", "secondary"} /\ (m.mode = "secondary" => m.url)
ASSUME EditsAssumption ==
    /\ DnsEdits \cap FilterEdits = {} /\ DnsEdits \cap LocalEdits = {}
    /\ FilterEdits \cap LocalEdits = {}
    /\ IsFiniteSet(DnsEdits \cup FilterEdits \cup LocalEdits)

VARIABLES
    edit,      \* edit[e]: "new", "memory" (h.cfg changed, database not yet), "done"
    pdb,       \* the primary's database
    pversion,  \* its config_version
    pcfg,      \* the primary's h.cfg
    sdb,       \* the secondary's database
    sversion,  \* its config_version
    running,   \* the configuration the secondary's resolvers use
    boot,      \* the secondary's main: "starting", "syncing" (in syncer.Start), "up"
    syncer,    \* its Syncer: "none", "ready" (created, the handlers know it), "running",
               \* "stopping" (stopCh is closed), "ended" (doneCh is closed)
    put,       \* PutClusterConfig: "idle", "saved" (in the database), "memory" (in h.cfg),
               \* "stopping" (in syncer.Stop, with h.mu), "done" (answered)
    setting,   \* the request it got
    forced,    \* calls of ForceSync so far
    overlap,   \* whether two syncs have been under way at the same time
    startcfg,  \* cfg, loaded before the syncer starts, which the secondary's API
               \* handlers edit and the runner starts from
    pc,        \* where syncer s is in doSync
    got,       \* got[s]: the ExportData syncer s fetched
    loaded,    \* loaded[s]: what reloadFunc read back from the database
    faulted    \* the faults that have happened

primary   == <<edit, pdb, pversion, pcfg>>
secondary == <<sdb, sversion, running, boot, startcfg>>
putting   == <<put, setting, syncer>>
forcing   == <<forced, overlap>>
syncing   == <<pc, got, loaded>>
vars == <<primary, secondary, putting, forcing, syncing, faulted>>

PrimaryEdits == DnsEdits \cup FilterEdits
Edits        == PrimaryEdits \cup LocalEdits
Dns          == DnsEdits \cup LocalEdits
Nothing      == [version |-> 0, config |-> {}]
Secondary    == [mode |-> "secondary", url |-> TRUE]

\* h.cfg.Cluster on the secondary, which the Syncer shares.
Cluster == IF put \in {"idle", "saved"} THEN Secondary ELSE setting

Init ==
    /\ edit = [e \in Edits |-> "new"]
    /\ pdb = {} /\ pversion = 1 /\ pcfg = {}
    /\ sdb = {} /\ sversion = 1 /\ running = {}
    /\ boot = "starting" /\ startcfg = {}
    /\ syncer = "none" /\ put = "idle" /\ setting = Secondary
    /\ forced = 0 /\ overlap = FALSE
    /\ pc = [s \in Syncers |-> "idle"]
    /\ got = [s \in Syncers |-> Nothing]
    /\ loaded = [s \in Syncers |-> {}]
    /\ faulted = {}

\* There may be one more event.
MayHappen ==
    Cardinality(faulted) + Cardinality({e \in FilterEdits \cup LocalEdits : edit[e] # "new"})
        + forced + (IF put = "idle" THEN 0 ELSE 1) < MaxEvents

Fault(kind) ==
    /\ kind \in Faults \ faulted /\ MayHappen
    /\ faulted' = faulted \cup {kind}

-----------------------------------------------------------------------------
(* The primary                                                             *)

\* A variant: the handler forgets h.cfg.
EditMemoryForgotten(e) ==
    /\ edit[e] = "new"
    /\ edit' = [edit EXCEPT ![e] = "memory"]
    /\ UNCHANGED <<pdb, pversion, pcfg, secondary, putting, forcing, syncing, faulted>>

\* AddHost, UpdateHost, DeleteHost, AddCNAME ...: h.cfg, under h.mu.
EditMemory(e) ==
    /\ edit[e] = "new"
    /\ edit' = [edit EXCEPT ![e] = "memory"]
    /\ pcfg' = pcfg \cup {e}
    /\ UNCHANGED <<pdb, pversion, secondary, putting, forcing, syncing, faulted>>

\* The same handlers, after unlocking: the database, whose trigger counts.
EditPersist(e) ==
    /\ edit[e] = "memory"
    /\ edit' = [edit EXCEPT ![e] = "done"]
    /\ pdb' = pdb \cup {e}
    /\ pversion' = pversion + 1
    /\ UNCHANGED <<pcfg, secondary, putting, forcing, syncing, faulted>>

\* SetFilteringEnabled, SetBlocklistEnabled, the domain lists: h.cfg is not told.
EditFiltering(e) ==
    /\ edit[e] = "new" /\ MayHappen
    /\ edit' = [edit EXCEPT ![e] = "done"]
    /\ pdb' = pdb \cup {e}
    /\ pversion' = pversion + 1
    /\ UNCHANGED <<pcfg, secondary, putting, forcing, syncing, faulted>>

\* The database refuses the write: the handler answers 500, h.cfg keeps the edit.
EditPersistFails(e) ==
    /\ edit[e] = "memory"
    /\ Fault("persist")
    /\ edit' = [edit EXCEPT ![e] = "done"]
    /\ UNCHANGED <<pdb, pversion, pcfg, secondary, putting, forcing, syncing>>

\* A variant: the primary restarts with the default configuration in memory.
PrimaryRestartDefaults ==
    /\ Fault("restart")
    /\ pcfg' = {}
    /\ edit' = [e \in Edits |-> IF edit[e] = "memory" THEN "done" ELSE edit[e]]
    /\ UNCHANGED <<pdb, pversion, secondary, putting, forcing, syncing>>

\* The primary restarts: h.cfg is exported from the database; an edit that had
\* not reached it is lost.
PrimaryRestart ==
    /\ Fault("restart")
    /\ pcfg' = pdb
    /\ edit' = [e \in Edits |-> IF edit[e] = "memory" THEN "done" ELSE edit[e]]
    /\ UNCHANGED <<pdb, pversion, secondary, putting, forcing, syncing>>

-----------------------------------------------------------------------------
(* doSync on the secondary                                                 *)

At(s, step)   == pc[s] = step
Goto(s, step) == pc' = [pc EXCEPT ![s] = step]

\* Another sync is under way.
Others(s) == \E t \in Syncers \ {s} : pc[t] # "idle"

\* doSync returns.
Return(s) ==
    /\ Goto(s, "idle")
    /\ got' = [got EXCEPT ![s] = Nothing]
    /\ loaded' = [loaded EXCEPT ![s] = {}]

\* NewSyncer, which wants the mode to be secondary, and SetClusterSyncer.
SyncerCreated ==
    /\ boot = "starting" /\ syncer = "none"
    /\ Cluster.mode = "secondary" /\ put # "stopping"
    /\ syncer' = "ready"
    /\ UNCHANGED <<primary, secondary, put, setting, forcing, syncing, faulted>>

\* The ticker's first doSync is Start's own, which main waits for; then come the
\* ticks of runLoop, and select may take one although stopCh is closed.
Begin(s) ==
    /\ s = Ticker /\ At(s, "idle")
    /\ \/ boot = "starting" /\ syncer = "ready" /\ boot' = "syncing" /\ syncer' = "running"
       \/ boot = "up" /\ syncer \in {"running", "stopping"} /\ UNCHANGED <<boot, syncer>>
    /\ overlap' = (overlap \/ Others(s))
    /\ Goto(s, "fetch")
    /\ UNCHANGED <<primary, sdb, sversion, running, startcfg, put, setting, forced, got, loaded, faulted>>

\* PostClusterSync: from the API, at any time after SetClusterSyncer, if h.mu is
\* free and the syncer has not been taken away.
ForceSync(s) ==
    /\ s # Ticker /\ At(s, "idle")
    /\ Cluster.mode = "secondary" /\ syncer \in {"ready", "running"}
    /\ MayHappen
    /\ forced' = forced + 1
    /\ overlap' = (overlap \/ Others(s))
    /\ Goto(s, "fetch")
    /\ UNCHANGED <<primary, secondary, putting, got, loaded, faulted>>

\* syncer.Start has returned, or there is no syncer: RunWithContext, whose
\* initCustomDNS loads the configuration main read at the start.
RunnerStarts ==
    /\ At(Ticker, "idle")
    /\ \/ boot = "syncing"
       \/ boot = "starting" /\ syncer = "none" /\ Cluster.mode = "primary"
    /\ running' = startcfg
    /\ boot' = "up"
    /\ UNCHANGED <<primary, sdb, sversion, startcfg, putting, forcing, syncing, faulted>>

\* A variant: runLoop does not look at stopCh.
LoopDeaf ==
    /\ syncer = "ended"
    /\ UNCHANGED vars

\* runLoop sees stopCh closed, and closes doneCh.
LoopEnds ==
    /\ syncer = "stopping" /\ boot = "up" /\ At(Ticker, "idle")
    /\ syncer' = "ended"
    /\ UNCHANGED <<primary, secondary, put, setting, forcing, syncing, faulted>>

\* fetchConfig fails, as it does without a URL: recordError.
FetchFails(s) ==
    /\ At(s, "fetch")
    /\ IF Cluster.url THEN Fault("fetch") ELSE UNCHANGED faulted
    /\ Return(s)
    /\ UNCHANGED <<primary, secondary, putting, forcing>>

\* GetClusterExport on the primary: the version, from the database ...
ExportVersion(s) ==
    /\ At(s, "fetch") /\ Cluster.url
    /\ got' = [got EXCEPT ![s] = [version |-> pversion, config |-> {}]]
    /\ Goto(s, "export")
    /\ UNCHANGED <<primary, secondary, putting, forcing, loaded, faulted>>

\* ... and then the configuration, from h.cfg.  c.JSON reads its maps without h.mu;
\* that they are read at once is an abstraction.
ExportConfig(s) ==
    /\ At(s, "export")
    /\ got' = [got EXCEPT ![s].config = pcfg]
    /\ Goto(s, "compare")
    /\ UNCHANGED <<primary, secondary, putting, forcing, loaded, faulted>>

\* data.Version <= currentVersion means up to date.
newer(s) == got[s].version > sversion

Compare(s) ==
    /\ At(s, "compare")
    /\ IF newer(s) THEN Goto(s, "import") /\ UNCHANGED <<got, loaded>> ELSE Return(s)
    /\ UNCHANGED <<primary, secondary, putting, forcing, faulted>>

\* versionFunc fails: its error is ignored, and 0 is older than any export.
CompareUnread(s) ==
    /\ At(s, "compare")
    /\ Fault("version")
    /\ Goto(s, "import")
    /\ UNCHANGED <<primary, secondary, putting, forcing, got, loaded>>

\* ImportFromCluster: one transaction; its triggers count every row written.
Import(s) ==
    /\ At(s, "import")
    /\ sdb' = got[s].config
    /\ \E n \in ImportRows : sversion' = sversion + n
    /\ Goto(s, "setversion")
    /\ UNCHANGED <<primary, running, boot, startcfg, putting, forcing, got, loaded, faulted>>

\* The transaction is rolled back: recordError.
ImportFails(s) ==
    /\ At(s, "import")
    /\ Fault("import")
    /\ Return(s)
    /\ UNCHANGED <<primary, secondary, putting, forcing>>

\* A variant: the version the triggers left is kept.
SetVersionSkipped(s) ==
    /\ At(s, "setversion")
    /\ Goto(s, "reload")
    /\ UNCHANGED <<primary, secondary, putting, forcing, got, loaded, faulted>>

SetVersion(s) ==
    /\ At(s, "setversion")
    /\ sversion' = got[s].version
    /\ Goto(s, "reload")
    /\ UNCHANGED <<primary, sdb, running, boot, startcfg, putting, forcing, got, loaded, faulted>>

\* SetVersion fails: importFunc returns an error, the import stays.
SetVersionFails(s) ==
    /\ At(s, "setversion")
    /\ Fault("setversion")
    /\ Return(s)
    /\ UNCHANGED <<primary, secondary, putting, forcing>>

\* reloadFunc: ExportToConfig ...
ReloadRead(s) ==
    /\ At(s, "reload")
    /\ loaded' = [loaded EXCEPT ![s] = sdb]
    /\ Goto(s, "apply")
    /\ UNCHANGED <<primary, secondary, putting, forcing, got, faulted>>

\* A variant: the reload is forgotten.
ReloadApplyNothing(s) ==
    /\ At(s, "apply")
    /\ Return(s)
    /\ UNCHANGED <<primary, secondary, putting, forcing, faulted>>

\* ... and ReloadCustomDNS, the only component that is reloaded; recordSuccess.
ReloadApply(s) ==
    /\ At(s, "apply")
    /\ running' = (running \ Dns) \cup (loaded[s] \cap Dns)
    /\ Return(s)
    /\ UNCHANGED <<primary, sdb, sversion, boot, startcfg, putting, forcing, faulted>>

\* Either half of reloadFunc fails: logged, "Don't fail the sync".
ReloadFails(s) ==
    /\ pc[s] \in {"reload", "apply"}
    /\ Fault("reload")
    /\ Return(s)
    /\ UNCHANGED <<primary, secondary, putting, forcing>>

-----------------------------------------------------------------------------
(* The secondary's own API, and its crashes                                *)

\* A custom DNS edit on the secondary, under h.mu.  Its handler writes memory, table
\* and resolver one after the other, as CustomDNS has it; here that is one step.
EditLocal(e) ==
    /\ edit[e] = "new" /\ put # "stopping" /\ MayHappen
    /\ edit' = [edit EXCEPT ![e] = "done"]
    /\ sdb' = sdb \cup {e}
    /\ sversion' = sversion + 1
    /\ running' = (running \ Dns) \cup (sdb' \cap Dns)
    /\ startcfg' = startcfg \cup {e}
    /\ UNCHANGED <<pdb, pversion, pcfg, boot, putting, forcing, syncing, faulted>>

\* PutClusterConfig: SetClusterConfig, whose trigger counts too, ...
PutSave(m) ==
    /\ put = "idle" /\ MayHappen
    /\ put' = "saved" /\ setting' = m
    /\ sversion' = sversion + 1
    /\ UNCHANGED <<primary, sdb, running, boot, startcfg, syncer, forcing, syncing, faulted>>

\* ... then h.cfg.Cluster, without h.mu.  Settings of a secondary wait for a
\* restart.
PutMemory ==
    /\ put = "saved"
    /\ put' = IF setting.mode = "secondary" THEN "done" ELSE "memory"
    /\ UNCHANGED <<primary, secondary, setting, syncer, forcing, syncing, faulted>>

\* A variant: nobody waits for runLoop.
PutStopAsync ==
    /\ put = "memory"
    /\ put' = "done"
    /\ syncer' = IF syncer = "running" THEN "stopping" ELSE syncer
    /\ UNCHANGED <<primary, secondary, setting, forcing, syncing, faulted>>

\* Stop, under h.mu: nothing to do if Start has not come to set s.running.
PutStop ==
    /\ put = "memory"
    /\ IF syncer = "running" THEN put' = "stopping" /\ syncer' = "stopping"
       ELSE put' = "done" /\ UNCHANGED syncer
    /\ UNCHANGED <<primary, secondary, setting, forcing, syncing, faulted>>

\* Stop has waited for doneCh.
PutAnswers ==
    /\ put = "stopping" /\ syncer = "ended"
    /\ put' = "done"
    /\ UNCHANGED <<primary, secondary, setting, syncer, forcing, syncing, faulted>>

\* Only the database survives; main loads it and starts a new syncer, if the
\* node is still a secondary.
SecondaryCrash ==
    /\ Fault("crash")
    /\ startcfg' = sdb
    /\ running' = {}
    /\ boot' = "starting" /\ syncer' = "none"
    /\ put' = IF put = "idle" THEN "idle" ELSE "done"
    /\ pc' = [s \in Syncers |-> "idle"]
    /\ got' = [s \in Syncers |-> Nothing]
    /\ loaded' = [s \in Syncers |-> {}]
    /\ UNCHANGED <<primary, sdb, sversion, setting, forcing>>

-----------------------------------------------------------------------------

Primary ==
    \/ \E e \in DnsEdits : EditMemory(e) \/ EditPersist(e) \/ EditPersistFails(e)
    \/ \E e \in FilterEdits : EditFiltering(e)
    \/ PrimaryRestart

DoSync(s) ==
    \/ FetchFails(s) \/ ExportVersion(s) \/ ExportConfig(s)
    \/ Compare(s) \/ CompareUnread(s) \/ Import(s) \/ ImportFails(s)
    \/ SetVersion(s) \/ SetVersionFails(s)
    \/ ReloadRead(s) \/ ReloadApply(s) \/ ReloadFails(s)

PutClusterConfig ==
    \/ \E m \in Settings : PutSave(m)
    \/ PutMemory \/ PutStop \/ PutAnswers

Next ==
    \/ Primary
    \/ \E s \in Syncers : Begin(s) \/ ForceSync(s) \/ DoSync(s)
    \/ \E e \in LocalEdits : EditLocal(e)
    \/ PutClusterConfig
    \/ SyncerCreated \/ RunnerStarts \/ LoopEnds \/ SecondaryCrash

Spec == Init /\ [][Next]_vars

\* The ticker ticks for ever, a sync that has begun goes on (requests have a
\* timeout), and so do main and the handlers.  select chooses at random among
\* the channels that are ready, so a closed stopCh is taken sooner or later.
FairSpec ==
    /\ Spec
    /\ WF_vars(Begin(Ticker))
    /\ \A s \in Syncers : WF_vars(DoSync(s))
    /\ WF_vars(SyncerCreated) /\ WF_vars(RunnerStarts) /\ SF_vars(LoopEnds)
    /\ WF_vars(PutMemory) /\ WF_vars(PutStop) /\ WF_vars(PutAnswers)
    /\ \A e \in DnsEdits : WF_vars(EditPersist(e))

-----------------------------------------------------------------------------
(* Properties.                                                             *)

Steps == {"idle", "fetch", "export", "compare", "import", "setversion", "reload", "apply"}

\* The types of both nodes' state; the primary's version counts each edit once.
TypeOK ==
    /\ edit \in [Edits -> {"new", "memory", "done"}]
    /\ pdb \subseteq PrimaryEdits /\ pcfg \subseteq PrimaryEdits
    /\ pversion \in 1..(1 + Cardinality(PrimaryEdits))
    /\ sdb \subseteq Edits /\ running \subseteq Edits /\ sversion \in Nat
    /\ boot \in {"starting", "syncing", "up"} /\ startcfg \subseteq Edits
    /\ pc \in [Syncers -> Steps]
    /\ got \in [Syncers -> [version : Nat, config : SUBSET PrimaryEdits]]
    /\ loaded \in [Syncers -> SUBSET Edits]
    /\ faulted \subseteq Faults /\ overlap \in BOOLEAN /\ forced \in 0..MaxEvents
    /\ put \in {"idle", "saved", "memory", "stopping", "done"}
    /\ setting \in Settings \cup {Secondary}
    /\ syncer \in {"none", "ready", "running", "stopping", "ended"}

Quiet == \A s \in Syncers : pc[s] \in {"idle", "fetch", "export", "compare"}

\* Nothing has happened that breaks the tie between versions and contents: an
\* edit that h.cfg is not told of, an edit or a setting on the secondary, an
\* import whose version was never set, two syncs at the same time.
Tied == /\ put = "idle" /\ ~overlap
        /\ \A e \in FilterEdits \cup LocalEdits : edit[e] = "new"
        /\ faulted \cap {"setversion", "crash"} = {}

\* A secondary that is not importing and has the primary's version has every
\* edit the primary's database has, though the export reads version and
\* configuration from two places while handlers change them one at a time.
\* The state is well typed throughout.
SameVersionSameConfig ==
    /\ TypeOK
    /\ Tied /\ Quiet /\ sversion = pversion => pdb \subseteq sdb

\* No sync, crash or restart takes from the secondary an edit it has and the
\* primary's database has: a newer import never carries an older configuration,
\* unless two syncs met.
KeepsPersistedEdits == [][(sdb \cap pdb) \subseteq sdb' \/ overlap]_vars

\* Once the edits stop, failed requests, reads and imports notwithstanding, the
\* secondary's database holds the primary's configuration for good.
ConvergesWhenTied ==
    [](Tied /\ faulted \subseteq {"fetch", "version", "import", "reload"}) => <>[](sdb = pdb)

\* A custom DNS edit a running secondary imports reaches its resolver, even if
\* the secondary crashes in between.
ImportReachesResolvers ==
    [](faulted \cap {"setversion", "reload"} = {} /\ ~overlap) =>
        \A e \in DnsEdits :
            (boot = "up" /\ At(Ticker, "setversion") /\ e \in sdb) ~> (e \in running)

\* Once the node has answered that it is no longer a secondary, only its own
\* edits change its database: the loop has ended, whatever sync it was in.  Two
\* cases escape: main had not yet come to Start, and a forced sync was under way.
PromotedKeepsItsData ==
    [][put = "done" /\ setting.mode = "primary" /\ sdb' # sdb =>
          \/ \E e \in LocalEdits : sdb' = sdb \cup {e}
          \/ syncer = "running"
          \/ \E s \in Syncers \ {Ticker} : At(s, "import")]_vars

\* PutClusterConfig answers, though it waits for the loop with h.mu held, the
\* loop may be in a sync or not have begun, and main is still starting up.
PromotionAnswers == (put = "saved") ~> (put = "done")

\* "Primary nodes serve as the source of truth": once the edits stop, of any
\* kind, the secondary's database holds the primary's configuration for good.
Converges == <>[](sdb = pdb)
=============================================================================
