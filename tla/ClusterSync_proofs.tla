------------------------- MODULE ClusterSync_proofs -------------------------
(***************************************************************************)
(* A promoted node keeps its data, a secondary with the primary's version  *)
(* has what the primary has persisted, and no sync takes back an edit, for *)
(* every set of edits, goroutines, settings and faults and every number of *)
(* events.                                                                 *)
(***************************************************************************)
EXTENDS ClusterSync, FiniteSetTheorems, TLAPS

LoopTypes ==
    /\ pc \in [Syncers -> Steps]
    /\ put \in {"idle", "saved", "memory", "stopping", "done"}
    /\ syncer \in {"none", "ready", "running", "stopping", "ended"}

\* A loop that has not begun or has ended is in no sync, and whoever closed
\* stopCh is still waiting for it.
LoopInv ==
    /\ LoopTypes
    /\ syncer \in {"none", "ready", "ended"} => At(Ticker, "idle")
    /\ syncer = "stopping" => put = "stopping"

-----------------------------------------------------------------------------

\* The loop has not begun when the node starts.
LEMMA LoopInvInit == Init => LoopInv
  BY Zenon, SyncAssumption DEF Init, LoopInv, LoopTypes, Steps, At

\* A step of doSync moves only the goroutine that takes it, and only when it is
\* in a sync.
LEMMA DoSyncMoves ==
  ASSUME LoopTypes, NEW s \in Syncers, DoSync(s)
  PROVE  /\ ~At(s, "idle")
         /\ \E step \in Steps : Goto(s, step)
         /\ UNCHANGED putting
  BY Zenon DEF DoSync, LoopTypes, Steps, At, Goto, Return, FetchFails, ExportVersion,
         ExportConfig, Compare, CompareUnread, Import, ImportFails, SetVersion, SetVersionFails,
         ReloadRead, ReloadApply, ReloadFails

\* Every step of either node keeps the loop's invariant.
LEMMA LoopInvNext == LoopInv /\ [Next]_vars => LoopInv'
  <1> SUFFICES ASSUME LoopInv, [Next]_vars PROVE LoopInv'
    BY Zenon
  <1> USE SyncAssumption
  <1> USE DEF LoopInv, LoopTypes, At
  <1>1. CASE UNCHANGED <<pc, putting>>
    BY Zenon, <1>1 DEF putting
  <1>2. CASE Primary
    BY Zenon, <1>1, <1>2 DEF Primary, EditMemory, EditPersist, EditPersistFails, EditFiltering,
                      PrimaryRestart, syncing
  <1>3. ASSUME NEW s \in Syncers, Begin(s) PROVE LoopInv'
    BY Zenon, <1>3 DEF Begin, Goto, Steps
  <1>4. ASSUME NEW s \in Syncers, ForceSync(s) PROVE LoopInv'
    BY Zenon, <1>4 DEF ForceSync, Goto, Steps, putting
  <1>5. ASSUME NEW s \in Syncers, DoSync(s) PROVE LoopInv'
    <2>1. ~At(s, "idle") /\ UNCHANGED putting
      BY Zenon, <1>5, DoSyncMoves
    <2>2. PICK step \in Steps : Goto(s, step)
      BY Zenon, <1>5, DoSyncMoves
    <2> QED
      BY Zenon, <2>1, <2>2 DEF Goto, putting
  <1>6. ASSUME NEW e \in LocalEdits, EditLocal(e) PROVE LoopInv'
    BY Zenon, <1>1, <1>6 DEF EditLocal, syncing
  <1>7. CASE PutClusterConfig
    <2>1. ASSUME NEW m \in Settings, PutSave(m) PROVE LoopInv'
      BY Zenon, <2>1 DEF PutSave, syncing
    <2>2. CASE PutMemory
      BY Zenon, <2>2 DEF PutMemory, syncing
    <2>3. CASE PutStop
      BY Zenon, <2>3 DEF PutStop, syncing
    <2>4. CASE PutAnswers
      BY Zenon, <2>4 DEF PutAnswers, syncing
    <2> QED
      BY Zenon, <1>7, <2>1, <2>2, <2>3, <2>4 DEF PutClusterConfig
  <1>8. CASE SyncerCreated
    BY Zenon, <1>8 DEF SyncerCreated, syncing
  <1>9. CASE RunnerStarts
    BY Zenon, <1>1, <1>9 DEF RunnerStarts, syncing
  <1>10. CASE LoopEnds
    BY Zenon, <1>10 DEF LoopEnds, syncing
  <1>11. CASE SecondaryCrash
    BY Zenon, <1>11 DEF SecondaryCrash, Steps
  <1>12. CASE UNCHANGED vars
    BY Zenon, <1>1, <1>12 DEF vars, syncing
  <1> QED
    BY Zenon, <1>2, <1>3, <1>4, <1>5, <1>6, <1>7, <1>8, <1>9, <1>10, <1>11, <1>12 DEF Next

\* At every moment, a loop outside of Start and Stop is in no sync.
THEOREM LoopIsQuiet == Spec => []LoopInv
  BY LoopInvInit, LoopInvNext, PTL DEF Spec

-----------------------------------------------------------------------------

\* Only an import and the node's own edits change the secondary's database.
LEMMA DatabaseChanges ==
  ASSUME [Next]_vars, sdb' # sdb
  PROVE  \/ \E s \in Syncers : Import(s)
         \/ \E e \in LocalEdits : sdb' = sdb \cup {e}
  <1>1. CASE Primary
    BY Zenon, <1>1 DEF Primary, EditMemory, EditPersist, EditPersistFails, EditFiltering,
                PrimaryRestart, secondary
  <1>2. ASSUME NEW s \in Syncers, Begin(s) \/ ForceSync(s) PROVE FALSE
    BY Zenon, <1>2 DEF Begin, ForceSync, secondary
  <1>3. ASSUME NEW s \in Syncers, DoSync(s) PROVE Import(s)
    BY Zenon, <1>3 DEF DoSync, FetchFails, ExportVersion, ExportConfig, Compare,
                CompareUnread, ImportFails, SetVersion, SetVersionFails, ReloadRead,
                ReloadApply, ReloadFails, secondary
  <1>4. ASSUME NEW e \in LocalEdits, EditLocal(e) PROVE sdb' = sdb \cup {e}
    BY Zenon, <1>4 DEF EditLocal
  <1>5. CASE PutClusterConfig
    BY Zenon, <1>5 DEF PutClusterConfig, PutSave, PutMemory, PutStop, PutAnswers, secondary
  <1>6. CASE SyncerCreated \/ RunnerStarts \/ LoopEnds \/ SecondaryCrash
    BY Zenon, <1>6 DEF SyncerCreated, RunnerStarts, LoopEnds, SecondaryCrash, secondary
  <1>7. CASE UNCHANGED vars
    BY Zenon, <1>7 DEF vars, secondary
  <1> QED
    BY Zenon, <1>1, <1>2, <1>3, <1>4, <1>5, <1>6, <1>7 DEF Next

\* PutClusterConfig has answered that the node is a primary: its database then
\* changes by its own edits only, but for a loop main started afterwards and a
\* forced sync that was under way.
THEOREM PromotionKeepsData == Spec => PromotedKeepsItsData
  <1>1. ASSUME LoopInv, [Next]_vars, put = "done", sdb' # sdb
        PROVE  \/ \E e \in LocalEdits : sdb' = sdb \cup {e}
               \/ syncer = "running"
               \/ \E s \in Syncers \ {Ticker} : At(s, "import")
    <2>1. CASE \E e \in LocalEdits : sdb' = sdb \cup {e}
      BY Zenon, <2>1
    <2>2. ASSUME NEW s \in Syncers, Import(s)
          PROVE  syncer = "running" \/ \E t \in Syncers \ {Ticker} : At(t, "import")
      <3>1. At(s, "import")
        BY Zenon, <2>2 DEF Import
      <3>2. CASE s # Ticker
        BY Zenon, <3>1, <3>2
      <3>3. CASE s = Ticker
        BY Zenon, <1>1, <3>1, <3>3 DEF LoopInv, LoopTypes, At
      <3> QED
        BY Zenon, <3>2, <3>3
    <2> QED
      BY Zenon, <1>1, <2>1, <2>2, DatabaseChanges
  <1>2. LoopInv /\ [Next]_vars =>
          [put = "done" /\ setting.mode = "primary" /\ sdb' # sdb =>
             \/ \E e \in LocalEdits : sdb' = sdb \cup {e}
             \/ syncer = "running"
             \/ \E s \in Syncers \ {Ticker} : At(s, "import")]_vars
    BY Zenon, <1>1
  <1> QED
    BY <1>2, LoopIsQuiet, PTL DEF Spec, PromotedKeepsItsData
-----------------------------------------------------------------------------
(* What a sync carries.                                                    *)

\* Edits on their way to the primary's database, and those that are in it.
Held == pdb \cup {e \in DnsEdits : edit[e] = "memory"}

Types ==
    /\ TypeOK
    /\ IsFiniteSet(pdb) /\ pversion = 1 + Cardinality(pdb)
    /\ \A e \in Edits : edit[e] = "memory" => e \in DnsEdits

\* An edit nobody has made yet is in no copy of the configuration; one that is on
\* its way to the database is in h.cfg only.
EditsInOrder ==
    /\ \A e \in Edits : edit[e] = "new" => e \notin pdb \cup pcfg \cup sdb
    /\ \A e \in Edits, s \in Syncers : edit[e] = "new" => e \notin got[s].config
    /\ \A e \in DnsEdits : edit[e] = "memory" => e \notin pdb /\ e \in pcfg

\* The primary's memory has what it has given away and still holds.
NothingForgotten ==
    /\ sdb \cap Held \subseteq pcfg
    /\ \A s \in Syncers : got[s].config \cap Held \subseteq pcfg

\* Unless two syncs met, one at most is under way, and what it has fetched is not
\* behind what the secondary has.
NotBehind ==
    ~overlap =>
        /\ \A s, t \in Syncers : ~At(s, "idle") /\ ~At(t, "idle") => s = t
        /\ \A s \in Syncers : pc[s] \in {"compare", "import"} => sdb \cap Held \subseteq got[s].config

\* As long as versions and contents are tied, a version stands for all the edits
\* that were in the primary's database when it was the current one.
VersionStands ==
    Tied =>
        /\ pdb \subseteq pcfg
        /\ \A s \in Syncers : got[s].version <= pversion
        /\ \A s \in Syncers : pc[s] \in {"compare", "import", "setversion"} /\ got[s].version = pversion
              => pdb \subseteq got[s].config
        /\ \A s \in Syncers : At(s, "setversion") => sdb = got[s].config
        /\ (\A s \in Syncers : ~At(s, "setversion")) =>
              sversion <= pversion /\ (sversion = pversion => pdb \subseteq sdb)

Contents == EditsInOrder /\ NothingForgotten /\ NotBehind /\ VersionStands

SyncInv == Types /\ Contents
-----------------------------------------------------------------------------

\* What an event is allowed by leaves room for it.
LEMMA EventRoom ==
  ASSUME TypeOK, MayHappen
  PROVE  forced + 1 \in 0..MaxEvents
  <1>1. IsFiniteSet(FaultKinds)
    <2> DEFINE A == {} \cup {"fetch"} \cup {"import"} \cup {"setversion"}
               B == A \cup {"reload"} \cup {"persist"} \cup {"version"}
               C == B \cup {"crash"} \cup {"restart"}
    <2>1. FaultKinds = C
      BY Zenon DEF FaultKinds
    <2>2. IsFiniteSet(A)
      BY Zenon, FS_EmptySet, FS_AddElement
    <2> HIDE DEF A
    <2>3. IsFiniteSet(B)
      BY Zenon, <2>2, FS_AddElement
    <2> HIDE DEF B
    <2>4. IsFiniteSet(C)
      BY Zenon, <2>3, FS_AddElement
    <2> QED
      BY Zenon, <2>1, <2>4
  <1>2. faulted \in SUBSET FaultKinds
    BY Zenon, SyncAssumption DEF TypeOK
  <1>3. Cardinality(faulted) \in Nat
    BY Zenon, <1>1, <1>2, FS_Subset, FS_CardinalityType
  <1> DEFINE made == {e \in FilterEdits \cup LocalEdits : edit[e] # "new"}
  <1>4. Cardinality(made) \in Nat
    <2>1. made \in SUBSET (DnsEdits \cup FilterEdits \cup LocalEdits)
      BY Zenon
    <2> QED
      BY Zenon, <2>1, EditsAssumption, FS_Subset, FS_CardinalityType
  <1>5. Cardinality(faulted) + Cardinality(made) + forced + (IF put = "idle" THEN 0 ELSE 1) < MaxEvents
    BY Zenon DEF MayHappen
  <1>6. forced \in Nat /\ MaxEvents \in Nat
    BY SyncAssumption DEF TypeOK
  <1> HIDE DEF made
  <1> QED
    BY <1>3, <1>4, <1>5, <1>6

\* The version counts the edits that reach the primary's database.
LEMMA VersionCounts ==
  ASSUME Types, NEW e \in PrimaryEdits, e \notin pdb,
         pdb' = pdb \cup {e}, pversion' = pversion + 1
  PROVE  /\ IsFiniteSet(pdb)' /\ pversion' = 1 + Cardinality(pdb')
         /\ pdb' \subseteq PrimaryEdits /\ pversion' \in 1..(1 + Cardinality(PrimaryEdits))
  <1>1. IsFiniteSet(pdb') /\ Cardinality(pdb') = Cardinality(pdb) + 1
    BY Zenon, FS_AddElement DEF Types
  <1>2. pdb' \in SUBSET PrimaryEdits
    BY Zenon DEF Types, TypeOK
  <1>3. IsFiniteSet(PrimaryEdits)
    <2>1. PrimaryEdits \in SUBSET (DnsEdits \cup FilterEdits \cup LocalEdits)
      BY Zenon DEF PrimaryEdits
    <2> QED
      BY Zenon, <2>1, EditsAssumption, FS_Subset
  <1>4. /\ Cardinality(PrimaryEdits) \in Nat /\ Cardinality(pdb) \in Nat
        /\ Cardinality(pdb') <= Cardinality(PrimaryEdits)
    BY Zenon, <1>2, <1>3, FS_CardinalityType, FS_Subset DEF Types
  <1>5. pversion = 1 + Cardinality(pdb)
    BY Zenon DEF Types
  <1>6. pversion' = 1 + Cardinality(pdb') /\ pversion' \in 1..(1 + Cardinality(PrimaryEdits))
    BY <1>1, <1>4, <1>5
  <1> QED
    BY Zenon, <1>1, <1>2, <1>6

\* Every step keeps every variable in its type.
LEMMA TypesStep == SyncInv /\ [Next]_vars => Types'
  <1> SUFFICES ASSUME SyncInv, [Next]_vars PROVE Types'
    BY Zenon
  <1>0. Types /\ TypeOK
    BY Zenon DEF SyncInv, Types
  <1> USE DEF TypeOK, Types, secondary, putting, forcing, syncing, primary
  <1>1. ASSUME NEW e \in DnsEdits, EditMemory(e) PROVE Types'
    BY <1>0, <1>1 DEF EditMemory, PrimaryEdits, Edits
  <1>2. ASSUME NEW e \in PrimaryEdits, EditPersist(e) \/ EditFiltering(e) PROVE Types'
    <2>1. edit' = [edit EXCEPT ![e] = "done"]
      BY Zenon, <1>2 DEF EditPersist, EditFiltering
    <2>2. /\ edit' \in [Edits -> {"new", "memory", "done"}]
          /\ \A x \in Edits : edit'[x] = "memory" => x \in DnsEdits
      BY Zenon, <1>0, <2>1 DEF Edits
    <2>3. e \notin pdb
      BY Zenon, <1>2 DEF SyncInv, Contents, EditsInOrder, EditPersist, EditFiltering, Edits
    <2>4. pdb' = pdb \cup {e} /\ pversion' = pversion + 1
      BY Zenon, <1>2 DEF EditPersist, EditFiltering
    <2>5. /\ IsFiniteSet(pdb)' /\ pversion' = 1 + Cardinality(pdb')
          /\ pdb' \subseteq PrimaryEdits /\ pversion' \in 1..(1 + Cardinality(PrimaryEdits))
      BY Zenon, <1>0, <2>3, <2>4, VersionCounts
    <2>6. UNCHANGED <<pcfg, secondary, putting, forcing, syncing, faulted>>
      BY Zenon, <1>2 DEF EditPersist, EditFiltering
    <2> QED
      BY Zenon, <1>0, <2>2, <2>5, <2>6
  <1>3. ASSUME NEW e \in DnsEdits, EditPersistFails(e) PROVE Types'
    BY Zenon, <1>0, <1>3 DEF EditPersistFails, Fault, Edits, PrimaryEdits
  <1>4. CASE PrimaryRestart
    BY Zenon, <1>0, <1>4 DEF PrimaryRestart, Fault
  <1>5. ASSUME NEW s \in Syncers, Begin(s) PROVE Types'
    BY Zenon, <1>0, <1>5 DEF Begin, Goto, Others, Steps
  <1>6. ASSUME NEW s \in Syncers, ForceSync(s) PROVE Types'
    <2>1. forced' \in 0..MaxEvents
      BY Zenon, <1>0, <1>6, EventRoom DEF ForceSync
    <2> QED
      BY Zenon, <1>0, <1>6, <2>1 DEF ForceSync, Goto, Others, Steps
  <1>7. ASSUME NEW s \in Syncers, Return(s)
        PROVE  /\ pc' \in [Syncers -> Steps]
               /\ got' \in [Syncers -> [version : Nat, config : SUBSET PrimaryEdits]]
               /\ loaded' \in [Syncers -> SUBSET Edits]
    <2>1. Nothing \in [version : Nat, config : SUBSET PrimaryEdits]
      BY Zenon DEF Nothing
    <2> QED
      BY Zenon, <1>0, <1>7, <2>1 DEF Return, Goto, Steps
  <1>8. ASSUME NEW s \in Syncers, FetchFails(s) \/ ImportFails(s) \/ SetVersionFails(s) \/ ReloadFails(s)
        PROVE  Types'
    <2>1. Return(s) /\ UNCHANGED <<primary, secondary, putting, forcing>> /\ faulted' \subseteq Faults
      BY Zenon, <1>0, <1>8 DEF FetchFails, ImportFails, SetVersionFails, ReloadFails, Fault
    <2> QED
      BY Zenon, <1>0, <1>7, <2>1
  <1>9. ASSUME NEW s \in Syncers, Compare(s) PROVE Types'
    <2>1. CASE newer(s)
      BY Zenon, <1>0, <1>9, <2>1 DEF Compare, Goto, Steps
    <2>2. CASE ~newer(s)
      BY Zenon, <1>0, <1>7, <1>9, <2>2 DEF Compare
    <2> QED
      BY Zenon, <2>1, <2>2
  <1>unread. ASSUME NEW s \in Syncers, CompareUnread(s) PROVE Types'
    BY Zenon, <1>0, <1>unread DEF CompareUnread, Fault, Goto, Steps
  <1>10. ASSUME NEW s \in Syncers, ExportVersion(s) PROVE Types'
    <2>1. pversion \in Nat
      BY <1>0
    <2>2. [version |-> pversion, config |-> {}] \in [version : Nat, config : SUBSET PrimaryEdits]
      BY Zenon, <2>1
    <2> QED
      BY Zenon, <1>0, <1>10, <2>2 DEF ExportVersion, Goto, Steps
  <1>11. ASSUME NEW s \in Syncers, ExportConfig(s) PROVE Types'
    <2>1. got' \in [Syncers -> [version : Nat, config : SUBSET PrimaryEdits]]
      BY <1>0, <1>11 DEF ExportConfig
    <2> QED
      BY Zenon, <1>0, <1>11, <2>1 DEF ExportConfig, Goto, Steps
  <1>12. ASSUME NEW s \in Syncers, Import(s) PROVE Types'
    <2>1. sversion' \in Nat
      BY <1>0, <1>12, SyncAssumption DEF Import
    <2>2. sdb' \subseteq Edits
      BY Zenon, <1>0, <1>12 DEF Import, Edits
    <2> QED
      BY Zenon, <1>0, <1>12, <2>1, <2>2 DEF Import, Goto, Steps
  <1>13. ASSUME NEW s \in Syncers, SetVersion(s) PROVE Types'
    <2>1. sversion' \in Nat
      BY Zenon, <1>0, <1>13 DEF SetVersion
    <2> QED
      BY Zenon, <1>0, <1>13, <2>1 DEF SetVersion, Goto, Steps
  <1>14. ASSUME NEW s \in Syncers, ReloadRead(s) PROVE Types'
    BY Zenon, <1>0, <1>14 DEF ReloadRead, Goto, Steps
  <1>15. ASSUME NEW s \in Syncers, ReloadApply(s) PROVE Types'
    <2>1. running' \subseteq Edits
      BY Zenon, <1>0, <1>15 DEF ReloadApply
    <2> QED
      BY Zenon, <1>0, <1>7, <1>15, <2>1 DEF ReloadApply
  <1>16. ASSUME NEW e \in LocalEdits, EditLocal(e) PROVE Types'
    <2>1. sversion' \in Nat
      BY <1>0, <1>16 DEF EditLocal
    <2>2. sdb' \subseteq Edits /\ running' \subseteq Edits /\ startcfg' \subseteq Edits
      BY Zenon, <1>0, <1>16 DEF EditLocal, Edits
    <2>3. /\ edit' \in [Edits -> {"new", "memory", "done"}]
          /\ \A x \in Edits : edit'[x] = "memory" => x \in DnsEdits
      BY Zenon, <1>0, <1>16 DEF EditLocal, Edits
    <2> QED
      BY Zenon, <1>0, <1>16, <2>1, <2>2, <2>3 DEF EditLocal
  <1>17. ASSUME NEW m \in Settings, PutSave(m) PROVE Types'
    <2>1. sversion' \in Nat
      BY <1>0, <1>17 DEF PutSave
    <2> QED
      BY Zenon, <1>0, <1>17, <2>1 DEF PutSave
  <1>18. CASE PutMemory \/ PutStop \/ PutAnswers \/ SyncerCreated \/ LoopEnds
    BY Zenon, <1>0, <1>18 DEF PutMemory, PutStop, PutAnswers, SyncerCreated, LoopEnds
  <1>19. CASE RunnerStarts
    BY Zenon, <1>0, <1>19 DEF RunnerStarts
  <1>20. CASE SecondaryCrash
    <2>1. Nothing \in [version : Nat, config : SUBSET PrimaryEdits]
      BY Zenon DEF Nothing
    <2>2. /\ pc' \in [Syncers -> Steps]
          /\ got' \in [Syncers -> [version : Nat, config : SUBSET PrimaryEdits]]
          /\ loaded' \in [Syncers -> SUBSET Edits]
      BY Zenon, <1>20, <2>1 DEF SecondaryCrash, Steps
    <2> QED
      BY Zenon, <1>0, <1>20, <2>2 DEF SecondaryCrash, Fault
  <1>21. CASE UNCHANGED vars
    BY Zenon, <1>0, <1>21 DEF vars
  <1> QED
    BY Zenon, <1>1, <1>2, <1>3, <1>4, <1>5, <1>6, <1>8, <1>9, <1>unread, <1>10, <1>11, <1>12, <1>13,
       <1>14, <1>15, <1>16, <1>17, <1>18, <1>19, <1>20, <1>21
    DEF Next, Primary, DoSync, PutClusterConfig, PrimaryEdits
-----------------------------------------------------------------------------

\* Whatever breaks the tie between versions and contents breaks it for good.
LEMMA TieStays == SyncInv /\ [Next]_vars /\ Tied' => Tied
  <1> SUFFICES ASSUME SyncInv, [Next]_vars, Tied' PROVE Tied
    BY Zenon
  <1>1. put' = "idle" => put = "idle"
    BY Zenon DEF Next, Primary, DoSync, PutClusterConfig, vars, putting, EditMemory, EditPersist,
           EditPersistFails, EditFiltering, PrimaryRestart, Begin, ForceSync, FetchFails,
           ExportVersion, ExportConfig, Compare, CompareUnread, Import, ImportFails, SetVersion,
           SetVersionFails, ReloadRead, ReloadApply, ReloadFails, EditLocal, PutSave, PutMemory,
           PutStop, PutAnswers, SyncerCreated, RunnerStarts, LoopEnds, SecondaryCrash
  <1>2. overlap => overlap'
    BY Zenon DEF Next, Primary, DoSync, PutClusterConfig, vars, forcing, EditMemory, EditPersist,
           EditPersistFails, EditFiltering, PrimaryRestart, Begin, ForceSync, FetchFails,
           ExportVersion, ExportConfig, Compare, CompareUnread, Import, ImportFails, SetVersion,
           SetVersionFails, ReloadRead, ReloadApply, ReloadFails, EditLocal, PutSave, PutMemory,
           PutStop, PutAnswers, SyncerCreated, RunnerStarts, LoopEnds, SecondaryCrash
  <1>3. faulted \subseteq faulted'
    BY Zenon DEF Next, Primary, DoSync, PutClusterConfig, vars, Fault, EditMemory, EditPersist,
           EditPersistFails, EditFiltering, PrimaryRestart, Begin, ForceSync, FetchFails,
           ExportVersion, ExportConfig, Compare, CompareUnread, Import, ImportFails, SetVersion,
           SetVersionFails, ReloadRead, ReloadApply, ReloadFails, EditLocal, PutSave, PutMemory,
           PutStop, PutAnswers, SyncerCreated, RunnerStarts, LoopEnds, SecondaryCrash
  <1>4. \A e \in Edits : edit'[e] = "new" => edit[e] = "new"
    <2>1. edit \in [Edits -> {"new", "memory", "done"}]
      BY Zenon DEF SyncInv, Types, TypeOK
    <2> QED
      BY Zenon, <2>1
      DEF Next, Primary, DoSync, PutClusterConfig, vars, primary, EditMemory, EditPersist,
          EditPersistFails, EditFiltering, PrimaryRestart, Begin, ForceSync, FetchFails,
          ExportVersion, ExportConfig, Compare, CompareUnread, Import, ImportFails, SetVersion,
          SetVersionFails, ReloadRead, ReloadApply, ReloadFails, EditLocal, PutSave, PutMemory,
          PutStop, PutAnswers, SyncerCreated, RunnerStarts, LoopEnds, SecondaryCrash
  <1> QED
    <2>1. \A e \in FilterEdits \cup LocalEdits : edit[e] = "new"
      BY Zenon, <1>4 DEF Tied, Edits, PrimaryEdits
    <2>2. faulted \cap {"setversion", "crash"} = {}
      BY Zenon, <1>3 DEF Tied
    <2> QED
      BY Zenon, <1>1, <1>2, <2>1, <2>2 DEF Tied

\* The steps that move nothing but the bookkeeping of the secondary.
LEMMA QuietStep ==
  ASSUME SyncInv, Tied' => Tied,
         UNCHANGED <<primary, sdb, sversion, pc, got, overlap>>
  PROVE  Contents'
  <1>1. /\ edit' = edit /\ pdb' = pdb /\ pversion' = pversion /\ pcfg' = pcfg
        /\ sdb' = sdb /\ sversion' = sversion /\ pc' = pc /\ got' = got /\ overlap' = overlap
    BY Zenon DEF primary
  <1>2. Held' = Held
    BY Zenon, <1>1 DEF Held
  <1>3. EditsInOrder' /\ NothingForgotten' /\ NotBehind'
    <2>1. EditsInOrder'
      BY Zenon, <1>1 DEF SyncInv, Contents, EditsInOrder
    <2>2. NothingForgotten'
      BY Zenon, <1>1, <1>2 DEF SyncInv, Contents, NothingForgotten
    <2>3. NotBehind'
      BY <1>1, <1>2 DEF SyncInv, Contents, NotBehind, At
    <2> QED
      BY Zenon, <2>1, <2>2, <2>3
  <1>4. VersionStands'
    BY Zenon, <1>1 DEF SyncInv, Contents, VersionStands, At
  <1> QED
    BY Zenon, <1>3, <1>4 DEF Contents

\* A custom DNS edit on the primary: in h.cfg first.
LEMMA MemoryStep ==
  ASSUME SyncInv, Tied' => Tied, NEW e \in DnsEdits, EditMemory(e)
  PROVE  Contents'
  <1> USE DEF SyncInv, Contents
  <1>1. /\ edit[e] = "new" /\ edit' = [edit EXCEPT ![e] = "memory"]
        /\ pcfg' = pcfg \cup {e}
        /\ UNCHANGED <<pdb, pversion, sdb, sversion, pc, got, overlap>>
    BY Zenon DEF EditMemory, secondary, forcing, syncing
  <1>2. e \in Edits /\ edit \in [Edits -> {"new", "memory", "done"}]
    BY Zenon DEF Types, TypeOK, Edits, PrimaryEdits
  <1>3. Held' = Held \cup {e}
    <2>1. \A x \in DnsEdits : edit'[x] = "memory" <=> x = e \/ edit[x] = "memory"
      BY Zenon, <1>1, <1>2 DEF Edits, PrimaryEdits
    <2> QED
      BY Zenon, <1>1, <2>1 DEF Held
  <1>4. e \notin sdb \cup pdb /\ \A s \in Syncers : e \notin got[s].config
    BY Zenon, <1>1, <1>2 DEF EditsInOrder
  <1>5. EditsInOrder'
    <2>1. \A x \in Edits : edit'[x] = "new" => x # e /\ edit[x] = "new"
      BY Zenon, <1>1, <1>2
    <2>2. \A x \in DnsEdits : edit'[x] = "memory" => x = e \/ edit[x] = "memory"
      BY Zenon, <1>1, <1>2 DEF Edits, PrimaryEdits
    <2> QED
      BY Zenon, <1>1, <1>4, <2>1, <2>2 DEF EditsInOrder
  <1>6. NothingForgotten'
    BY Zenon, <1>1, <1>3 DEF NothingForgotten
  <1>7. NotBehind'
    BY Zenon, <1>1, <1>3, <1>4 DEF NotBehind, At
  <1>8. VersionStands'
    BY Zenon, <1>1 DEF VersionStands, At
  <1> QED
    BY Zenon, <1>5, <1>6, <1>7, <1>8

\* An edit reaches the primary's database: no version that was given away before
\* stands for it.
LEMMA PersistStep ==
  ASSUME SyncInv, Tied' => Tied, NEW e \in PrimaryEdits,
         (EditPersist(e) /\ e \in DnsEdits) \/ (EditFiltering(e) /\ e \in FilterEdits)
  PROVE  Contents'
  <1> USE DEF SyncInv, Contents
  <1>1. /\ edit' = [edit EXCEPT ![e] = "done"]
        /\ pdb' = pdb \cup {e} /\ pversion' = pversion + 1
        /\ UNCHANGED <<pcfg, sdb, sversion, pc, got, overlap>>
    BY Zenon DEF EditPersist, EditFiltering, secondary, forcing, syncing
  <1>2. e \in Edits /\ edit \in [Edits -> {"new", "memory", "done"}]
    BY Zenon DEF Types, TypeOK, Edits
  <1>3. \A x \in Edits : edit'[x] = IF x = e THEN "done" ELSE edit[x]
    BY Zenon, <1>1, <1>2
  <1>4. CASE EditPersist(e) /\ e \in DnsEdits
    <2>1. edit[e] = "memory" /\ e \in pcfg
      BY Zenon, <1>4 DEF EditPersist, EditsInOrder
    <2>2. Held' = Held
      BY Zenon, <1>1, <1>3, <1>4, <2>1 DEF Held, Edits, PrimaryEdits
    <2>3. EditsInOrder'
      BY <1>1, <1>3, <2>1 DEF EditsInOrder, Edits, PrimaryEdits
    <2>4. NothingForgotten' /\ NotBehind'
      BY Zenon, <1>1, <2>2 DEF NothingForgotten, NotBehind, At
    <2>5. VersionStands'
      <3> SUFFICES ASSUME Tied PROVE VersionStands'
        BY Zenon DEF VersionStands
      <3>1. pversion \in Nat /\ sversion \in Nat /\ \A s \in Syncers : got[s].version \in Nat
        BY DEF Types, TypeOK
      <3>2. \A s \in Syncers : got[s].version <= pversion' /\ got[s].version # pversion'
        BY <1>1, <3>1 DEF VersionStands
      <3>3. (\A s \in Syncers : ~At(s, "setversion")) => sversion <= pversion' /\ sversion # pversion'
        BY <1>1, <3>1 DEF VersionStands
      <3>4. pdb' \subseteq pcfg
        BY Zenon, <1>1, <2>1 DEF VersionStands
      <3> QED
        BY Zenon, <1>1, <3>2, <3>3, <3>4 DEF VersionStands, At
    <2> QED
      BY Zenon, <2>3, <2>4, <2>5
  <1>5. CASE EditFiltering(e) /\ e \in FilterEdits
    <2>1. edit[e] = "new"
      BY Zenon, <1>5 DEF EditFiltering
    <2>2. e \notin sdb /\ \A s \in Syncers : e \notin got[s].config
      BY Zenon, <1>2, <2>1 DEF EditsInOrder
    <2>3. Held' = Held \cup {e}
      BY Zenon, <1>1, <1>3, <2>1 DEF Held, Edits, PrimaryEdits
    <2>4. EditsInOrder'
      BY <1>1, <1>3, <2>1 DEF EditsInOrder, Edits, PrimaryEdits
    <2>5. NothingForgotten' /\ NotBehind'
      BY Zenon, <1>1, <2>2, <2>3 DEF NothingForgotten, NotBehind, At
    <2>6. ~Tied'
      <3>1. edit'[e] # "new"
        BY Zenon, <1>2, <1>3
      <3> QED
        BY Zenon, <1>5, <3>1 DEF Tied
    <2> QED
      BY Zenon, <2>4, <2>5, <2>6 DEF VersionStands
  <1> QED
    BY Zenon, <1>4, <1>5

\* An edit the database refuses, and one a restart loses.
LEMMA LossStep ==
  ASSUME SyncInv, Tied' => Tied, (\E e \in DnsEdits : EditPersistFails(e)) \/ PrimaryRestart
  PROVE  Contents'
  <1> USE DEF SyncInv, Contents
  <1>1. UNCHANGED <<pdb, pversion, sdb, sversion, pc, got, overlap>>
    BY Zenon DEF EditPersistFails, PrimaryRestart, secondary, forcing, syncing
  <1>2. edit \in [Edits -> {"new", "memory", "done"}] /\ DnsEdits \subseteq Edits
    BY Zenon DEF Types, TypeOK, Edits, PrimaryEdits
  <1>3. \A x \in Edits : /\ edit'[x] = "new" => edit[x] = "new"
                         /\ edit'[x] = "memory" => edit[x] = "memory"
    BY Zenon, <1>2 DEF EditPersistFails, PrimaryRestart
  <1>4. CASE pcfg' = pcfg
    <2>1. Held' \subseteq Held
      BY Zenon, <1>1, <1>2, <1>3 DEF Held
    <2>2. EditsInOrder'
      BY Zenon, <1>1, <1>2, <1>3, <1>4 DEF EditsInOrder
    <2>3. NothingForgotten' /\ NotBehind'
      BY Zenon, <1>1, <1>4, <2>1 DEF NothingForgotten, NotBehind, At
    <2>4. VersionStands'
      BY Zenon, <1>1, <1>4 DEF VersionStands, At
    <2> QED
      BY Zenon, <2>2, <2>3, <2>4
  <1>5. CASE PrimaryRestart
    <2>1. pcfg' = pdb /\ \A x \in Edits : edit'[x] # "memory"
      BY Zenon, <1>2, <1>5 DEF PrimaryRestart
    <2>2. Held' = pdb /\ Held' \subseteq Held
      BY Zenon, <1>1, <1>2, <2>1 DEF Held
    <2>3. EditsInOrder'
      BY Zenon, <1>1, <1>2, <1>3, <2>1 DEF EditsInOrder
    <2>4. NothingForgotten' /\ NotBehind'
      BY Zenon, <1>1, <2>1, <2>2 DEF NothingForgotten, NotBehind, At
    <2>5. VersionStands'
      BY Zenon, <1>1, <2>1 DEF VersionStands, At
    <2> QED
      BY Zenon, <2>3, <2>4, <2>5
  <1> QED
    BY Zenon, <1>4, <1>5 DEF EditPersistFails

\* A sync begins, or goes on with what it has.
LEMMA MoveStep ==
  ASSUME SyncInv, Tied' => Tied, NEW s \in Syncers, NEW step \in {"fetch", "import", "apply"},
         Goto(s, step), UNCHANGED <<primary, sdb, sversion, got>>,
         \/ step = "fetch" /\ At(s, "idle") /\ overlap' = (overlap \/ Others(s))
         \/ step = "import" /\ At(s, "compare") /\ overlap' = overlap
         \/ step = "apply" /\ At(s, "reload") /\ overlap' = overlap
  PROVE  Contents'
  <1> USE DEF SyncInv, Contents
  <1>1. /\ edit' = edit /\ pdb' = pdb /\ pversion' = pversion /\ pcfg' = pcfg
        /\ sdb' = sdb /\ sversion' = sversion /\ got' = got /\ Held' = Held
    BY Zenon DEF primary, Held
  <1>2. /\ pc'[s] = step /\ \A t \in Syncers \ {s} : pc'[t] = pc[t]
    BY Zenon DEF Goto, Types, TypeOK
  <1>3. EditsInOrder' /\ NothingForgotten'
    BY Zenon, <1>1 DEF EditsInOrder, NothingForgotten
  <1>4. NotBehind'
    <2> SUFFICES ASSUME ~overlap' PROVE NotBehind'
      BY Zenon DEF NotBehind
    <2>1. ~overlap
      BY Zenon
    <2>2. \A t, u \in Syncers : pc'[t] # "idle" /\ pc'[u] # "idle" => t = u
      BY Zenon, <1>2, <2>1 DEF NotBehind, At, Others
    <2>3. \A t \in Syncers : pc'[t] \in {"compare", "import"} => pc[t] \in {"compare", "import"}
      BY Zenon, <1>2 DEF At
    <2> QED
      BY Zenon, <1>1, <2>1, <2>2, <2>3 DEF NotBehind, At
  <1>5. VersionStands'
    <2>1. \A t \in Syncers : pc'[t] \in {"compare", "import", "setversion"}
                               => pc[t] \in {"compare", "import", "setversion"}
      BY Zenon, <1>2 DEF At
    <2>2. \A t \in Syncers : pc'[t] = "setversion" <=> pc[t] = "setversion"
      BY Zenon, <1>2 DEF At
    <2> QED
      BY Zenon, <1>1, <2>1, <2>2 DEF VersionStands, At
  <1> QED
    BY Zenon, <1>3, <1>4, <1>5

\* A sync returns, not between an import and the version that goes with it.
LEMMA ReturnStep ==
  ASSUME SyncInv, Tied' => Tied, NEW s \in Syncers, Return(s),
         UNCHANGED <<primary, sdb, sversion, overlap>>, At(s, "setversion") => ~Tied'
  PROVE  Contents'
  <1> USE DEF SyncInv, Contents
  <1>1. /\ edit' = edit /\ pdb' = pdb /\ pversion' = pversion /\ pcfg' = pcfg
        /\ sdb' = sdb /\ sversion' = sversion /\ overlap' = overlap /\ Held' = Held
    BY Zenon DEF primary, Held
  <1>2. /\ pc'[s] = "idle" /\ got'[s] = Nothing
        /\ \A t \in Syncers \ {s} : pc'[t] = pc[t] /\ got'[t] = got[t]
    BY Zenon DEF Return, Goto, Types, TypeOK
  <1>3. got'[s].config = {} /\ got'[s].version = 0
    BY <1>2 DEF Nothing
  <1>4. EditsInOrder'
    BY Zenon, <1>1, <1>2, <1>3 DEF EditsInOrder
  <1>5. NothingForgotten'
    BY Zenon, <1>1, <1>2, <1>3 DEF NothingForgotten
  <1>6. NotBehind'
    <2>1. ASSUME NEW t \in Syncers, pc'[t] # "idle"
          PROVE  t # s /\ pc'[t] = pc[t] /\ got'[t] = got[t]
      BY Zenon, <1>2, <2>1
    <2> QED
      BY <1>1, <2>1 DEF NotBehind, At
  <1>7. VersionStands'
    <2> SUFFICES ASSUME Tied, ~At(s, "setversion") PROVE VersionStands'
      BY Zenon DEF VersionStands
    <2>1. \A t \in Syncers : got'[t].version <= pversion
      BY <1>2, <1>3 DEF VersionStands, Types, TypeOK
    <2>2. \A t \in Syncers : pc'[t] # "idle" => t # s /\ pc'[t] = pc[t] /\ got'[t] = got[t]
      BY Zenon, <1>2
    <2>3. \A t \in Syncers : pc[t] = "setversion" => pc'[t] = "setversion"
      BY Zenon, <1>2 DEF At
    <2>4. ASSUME NEW t \in Syncers, pc'[t] \in {"compare", "import", "setversion"}
          PROVE  pc'[t] = pc[t] /\ got'[t] = got[t]
      BY Zenon, <2>2, <2>4
    <2> QED
      BY Zenon, <1>1, <2>1, <2>3, <2>4 DEF VersionStands, At
  <1> QED
    BY Zenon, <1>4, <1>5, <1>6, <1>7
\* The primary answers: the version first, then a configuration that has all the
\* edits the version counts.
LEMMA ExportStep ==
  ASSUME SyncInv, Tied' => Tied, NEW s \in Syncers, ExportVersion(s) \/ ExportConfig(s)
  PROVE  Contents'
  <1> USE DEF SyncInv, Contents
  <1>1. /\ edit' = edit /\ pdb' = pdb /\ pversion' = pversion /\ pcfg' = pcfg
        /\ sdb' = sdb /\ sversion' = sversion /\ overlap' = overlap /\ Held' = Held
    BY Zenon DEF ExportVersion, ExportConfig, primary, secondary, forcing, Held
  <1>2. /\ \A t \in Syncers \ {s} : pc'[t] = pc[t] /\ got'[t] = got[t]
        /\ pc[s] \in {"fetch", "export"} /\ pc'[s] \in {"export", "compare"}
        /\ got'[s].config \in {{}, pcfg}
        /\ pc'[s] = "compare" => got'[s].config = pcfg
    BY DEF ExportVersion, ExportConfig, Goto, At, Types, TypeOK
  <1>3. got'[s].version \in {got[s].version, pversion}
    BY DEF ExportVersion, ExportConfig, Types, TypeOK
  <1>4. EditsInOrder'
    BY Zenon, <1>1, <1>2 DEF EditsInOrder
  <1>5. NothingForgotten'
    BY Zenon, <1>1, <1>2 DEF NothingForgotten
  <1>6. NotBehind'
    <2>1. \A t \in Syncers : pc'[t] # "idle" <=> pc[t] # "idle"
      BY Zenon, <1>2
    <2>2. \A t \in Syncers : pc'[t] \in {"compare", "import"} =>
              \/ t = s /\ got'[t].config = pcfg
              \/ pc[t] = pc'[t] /\ got'[t] = got[t]
      BY Zenon, <1>2
    <2> QED
      BY Zenon, <1>1, <2>1, <2>2 DEF NotBehind, NothingForgotten, At
  <1>7. VersionStands'
    <2> SUFFICES ASSUME Tied PROVE VersionStands'
      BY Zenon DEF VersionStands
    <2>1. \A t \in Syncers : got'[t].version <= pversion
      <3>1. pversion \in Nat /\ \A t \in Syncers : got[t].version <= pversion
        BY DEF VersionStands, Types, TypeOK
      <3> QED
        BY <1>2, <1>3, <3>1
    <2>2. \A t \in Syncers : pc'[t] = "setversion" <=> pc[t] = "setversion"
      BY Zenon, <1>2
    <2>3. \A t \in Syncers : pc'[t] = "setversion" => got'[t] = got[t]
      BY Zenon, <1>2
    <2>4. \A t \in Syncers : pc'[t] \in {"compare", "import", "setversion"} =>
              \/ t = s /\ got'[t].config = pcfg
              \/ pc[t] = pc'[t] /\ got'[t] = got[t]
      BY Zenon, <1>2
    <2> QED
      BY Zenon, <1>1, <2>1, <2>2, <2>3, <2>4 DEF VersionStands, At
  <1> QED
    BY Zenon, <1>4, <1>5, <1>6, <1>7

\* The import, and the version that goes with it.
LEMMA ImportStep ==
  ASSUME SyncInv, Tied' => Tied, NEW s \in Syncers, Import(s) \/ SetVersion(s)
  PROVE  Contents'
  <1> USE DEF SyncInv, Contents
  <1>1. /\ edit' = edit /\ pdb' = pdb /\ pversion' = pversion /\ pcfg' = pcfg
        /\ got' = got /\ overlap' = overlap /\ Held' = Held
    BY Zenon DEF Import, SetVersion, primary, forcing, Held
  <1>2. /\ \A t \in Syncers \ {s} : pc'[t] = pc[t]
        /\ \/ pc[s] = "import" /\ pc'[s] = "setversion" /\ sdb' = got[s].config
           \/ pc[s] = "setversion" /\ pc'[s] = "reload" /\ sdb' = sdb /\ sversion' = got[s].version
    BY Zenon DEF Import, SetVersion, Goto, At, Types, TypeOK
  <1>3. EditsInOrder'
    BY Zenon, <1>1, <1>2 DEF EditsInOrder
  <1>4. NothingForgotten'
    BY Zenon, <1>1, <1>2 DEF NothingForgotten
  <1>5. ~overlap => \A t \in Syncers : pc'[t] # "idle" => t = s
    BY Zenon, <1>2 DEF NotBehind, At
  <1>6. NotBehind'
    BY Zenon, <1>1, <1>2, <1>5 DEF NotBehind, At
  <1>7. VersionStands'
    <2> SUFFICES ASSUME Tied, ~overlap PROVE VersionStands'
      BY Zenon DEF VersionStands, Tied
    <2>1. \A t \in Syncers : pc'[t] \in {"compare", "import", "setversion"} => t = s
      BY Zenon, <1>5
    <2>2. CASE pc'[s] = "setversion"
      BY Zenon, <1>1, <1>2, <2>1, <2>2 DEF VersionStands, At
    <2>3. CASE pc'[s] = "reload"
      <3>1. sdb' = got[s].config /\ sversion' = got[s].version
        BY Zenon, <1>2, <2>3 DEF VersionStands, At
      <3>2. sversion' <= pversion /\ (sversion' = pversion => pdb \subseteq sdb')
        BY Zenon, <1>2, <2>3, <3>1 DEF VersionStands, At
      <3>3. \A t \in Syncers : pc'[t] \notin {"compare", "import", "setversion"}
        BY Zenon, <2>1, <2>3
      <3> QED
        BY Zenon, <1>1, <3>2, <3>3 DEF VersionStands, At
    <2> QED
      BY Zenon, <1>2, <2>2, <2>3
  <1> QED
    BY Zenon, <1>3, <1>4, <1>6, <1>7

\* The secondary's own edits and settings, and its crashes.
LEMMA LocalStep ==
  ASSUME SyncInv,
         (\E e \in LocalEdits : EditLocal(e)) \/ (\E m \in Settings : PutSave(m)) \/ SecondaryCrash
  PROVE  Contents'
  <1> USE DEF SyncInv, Contents
  <1>1. /\ pdb' = pdb /\ pcfg' = pcfg /\ overlap' = overlap
        /\ \/ got' = got /\ pc' = pc
           \/ \A t \in Syncers : got'[t] = Nothing /\ pc'[t] = "idle"
    BY Zenon DEF EditLocal, PutSave, SecondaryCrash, primary, forcing, syncing
  <1>2. \A t \in Syncers : /\ got'[t].config = got[t].config \/ got'[t].config = {}
                           /\ pc'[t] = "idle" \/ (pc'[t] = pc[t] /\ got'[t] = got[t])
    BY <1>1 DEF Nothing
  <1>3. ASSUME NEW e \in LocalEdits, EditLocal(e)
        PROVE  Contents'
    <2>1. /\ edit[e] = "new" /\ edit' = [edit EXCEPT ![e] = "done"]
          /\ sdb' = sdb \cup {e} /\ pc' = pc /\ got' = got
      BY Zenon, <1>3 DEF EditLocal, syncing
    <2>2. e \in Edits /\ e \notin DnsEdits /\ e \notin FilterEdits
      BY Zenon, EditsAssumption DEF Edits
    <2>3. \A x \in Edits : edit'[x] = IF x = e THEN "done" ELSE edit[x]
      BY Zenon, <2>1 DEF Types, TypeOK
    <2>4. Held' = Held /\ e \notin Held
      <3>1. \A x \in DnsEdits : edit'[x] = edit[x]
        BY Zenon, <2>2, <2>3 DEF Edits, PrimaryEdits
      <3>2. e \notin pdb
        BY Zenon, <2>2 DEF Types, TypeOK, PrimaryEdits
      <3> QED
        BY Zenon, <1>1, <2>2, <3>1, <3>2 DEF Held
    <2>5. EditsInOrder'
      BY <1>1, <2>1, <2>2, <2>3 DEF EditsInOrder, Edits, PrimaryEdits
    <2>6. NothingForgotten' /\ NotBehind'
      BY Zenon, <1>1, <2>1, <2>4 DEF NothingForgotten, NotBehind, At
    <2>7. ~Tied'
      <3>1. edit'[e] # "new"
        BY Zenon, <2>2, <2>3
      <3> QED
        BY Zenon, <3>1 DEF Tied
    <2> QED
      BY Zenon, <2>5, <2>6, <2>7 DEF VersionStands
  <1>4. CASE (\E m \in Settings : PutSave(m)) \/ SecondaryCrash
    <2>1. edit' = edit /\ sdb' = sdb /\ Held' = Held
      BY Zenon, <1>4 DEF PutSave, SecondaryCrash, primary, Held
    <2>2. ~Tied'
      BY Zenon, <1>4 DEF PutSave, SecondaryCrash, Fault, Tied
    <2>3. EditsInOrder'
      BY Zenon, <1>1, <1>2, <2>1 DEF EditsInOrder
    <2>4. NothingForgotten'
      BY Zenon, <1>1, <1>2, <2>1 DEF NothingForgotten
    <2>5. NotBehind'
      BY Zenon, <1>1, <1>2, <2>1 DEF NotBehind, At
    <2> QED
      BY Zenon, <2>2, <2>3, <2>4, <2>5 DEF VersionStands
  <1> QED
    BY Zenon, <1>3, <1>4

\* Every step of either node keeps the invariant.
LEMMA SyncInvNext == SyncInv /\ [Next]_vars => SyncInv'
  <1> SUFFICES ASSUME SyncInv, [Next]_vars PROVE Contents'
    BY Zenon, TypesStep DEF SyncInv
  <1>0. Tied' => Tied
    BY Zenon, TieStays
  <1>1. CASE Primary
    <2>1. ASSUME NEW e \in DnsEdits, EditMemory(e) PROVE Contents'
      BY Zenon, <1>0, <2>1, MemoryStep
    <2>2. ASSUME NEW e \in DnsEdits, EditPersist(e) PROVE Contents'
      <3>1. e \in PrimaryEdits
        BY Zenon DEF PrimaryEdits
      <3> QED
        BY Zenon, <1>0, <2>2, <3>1, PersistStep
    <2>3. ASSUME NEW e \in FilterEdits, EditFiltering(e) PROVE Contents'
      <3>1. e \in PrimaryEdits
        BY Zenon DEF PrimaryEdits
      <3> QED
        BY Zenon, <1>0, <2>3, <3>1, PersistStep
    <2>4. CASE (\E e \in DnsEdits : EditPersistFails(e)) \/ PrimaryRestart
      BY Zenon, <1>0, <2>4, LossStep
    <2> QED
      BY Zenon, <1>1, <2>1, <2>2, <2>3, <2>4 DEF Primary
  <1>2. ASSUME NEW s \in Syncers, Begin(s) \/ ForceSync(s) PROVE Contents'
    <2>1. /\ Goto(s, "fetch") /\ At(s, "idle") /\ overlap' = (overlap \/ Others(s))
          /\ UNCHANGED <<primary, sdb, sversion, got>>
      BY Zenon, <1>2 DEF Begin, ForceSync, secondary
    <2> QED
      BY Zenon, <1>0, <2>1, MoveStep
  <1>3. ASSUME NEW s \in Syncers, DoSync(s) PROVE Contents'
    <2>1. CASE FetchFails(s) \/ ImportFails(s) \/ SetVersionFails(s) \/ ReloadFails(s)
      <3>1. Return(s) /\ UNCHANGED <<primary, sdb, sversion, overlap>>
        BY Zenon, <2>1 DEF FetchFails, ImportFails, SetVersionFails, ReloadFails, secondary, forcing
      <3>2. At(s, "setversion") => ~Tied'
        <4>1. At(s, "setversion") => SetVersionFails(s)
          BY Zenon, <2>1 DEF FetchFails, ImportFails, ReloadFails, At
        <4> QED
          BY Zenon, <4>1 DEF SetVersionFails, Fault, Tied
      <3> QED
        BY Zenon, <1>0, <3>1, <3>2, ReturnStep
    <2>2. CASE Compare(s)
      <3>1. At(s, "compare") /\ UNCHANGED <<primary, sdb, sversion, overlap>>
        BY Zenon, <2>2 DEF Compare, secondary, forcing
      <3>2. CASE newer(s)
        <4>1. Goto(s, "import") /\ got' = got
          BY Zenon, <2>2, <3>2 DEF Compare
        <4> QED
          BY Zenon, <1>0, <3>1, <4>1, MoveStep
      <3>3. CASE ~newer(s)
        <4>1. Return(s)
          BY Zenon, <2>2, <3>3 DEF Compare
        <4> QED
          BY Zenon, <1>0, <3>1, <4>1, ReturnStep DEF At
      <3> QED
        BY Zenon, <3>2, <3>3
    <2>unread. CASE CompareUnread(s)
      <3>1. /\ Goto(s, "import") /\ At(s, "compare") /\ got' = got
            /\ UNCHANGED <<primary, sdb, sversion, overlap>>
        BY Zenon, <2>unread DEF CompareUnread, secondary, forcing
      <3> QED
        BY Zenon, <1>0, <3>1, MoveStep
    <2>3. CASE ReloadRead(s)
      <3>1. /\ Goto(s, "apply") /\ At(s, "reload") /\ overlap' = overlap
            /\ UNCHANGED <<primary, sdb, sversion, got>>
        BY Zenon, <2>3 DEF ReloadRead, secondary, forcing
      <3> QED
        BY Zenon, <1>0, <3>1, MoveStep
    <2>4. CASE ReloadApply(s)
      <3>1. At(s, "apply") /\ Return(s) /\ UNCHANGED <<primary, sdb, sversion, overlap>>
        BY Zenon, <2>4 DEF ReloadApply, forcing
      <3> QED
        BY Zenon, <1>0, <3>1, ReturnStep DEF At
    <2> QED
      BY Zenon, <1>0, <1>3, <2>1, <2>2, <2>unread, <2>3, <2>4, ExportStep, ImportStep DEF DoSync
  <1>4. CASE PutMemory \/ PutStop \/ PutAnswers \/ SyncerCreated \/ RunnerStarts \/ LoopEnds
    <2>1. UNCHANGED <<primary, sdb, sversion, pc, got, overlap>>
      BY Zenon, <1>4 DEF PutMemory, PutStop, PutAnswers, SyncerCreated, RunnerStarts, LoopEnds,
                         secondary, forcing, syncing
    <2> QED
      BY Zenon, <1>0, <2>1, QuietStep
  <1>5. CASE UNCHANGED vars
    BY Zenon, <1>0, <1>5, QuietStep DEF vars, secondary, forcing, syncing
  <1> QED
    BY Zenon, <1>1, <1>2, <1>3, <1>4, <1>5, LocalStep DEF Next, PutClusterConfig

\* The nodes start in SyncInv.
LEMMA SyncInvInit == Init => SyncInv
  <1> SUFFICES ASSUME Init PROVE SyncInv
    BY Zenon
  <1> USE DEF Init
  <1>1. Nothing \in [version : Nat, config : SUBSET PrimaryEdits] /\ Nothing.config = {} /\ Nothing.version = 0
    BY Zenon DEF Nothing
  <1>2. Types
    <2>1. IsFiniteSet(pdb) /\ pversion = 1 + Cardinality(pdb)
      BY FS_EmptySet
    <2>2. pversion \in 1..(1 + Cardinality(PrimaryEdits))
      <3>1. PrimaryEdits \in SUBSET (DnsEdits \cup FilterEdits \cup LocalEdits)
        BY Zenon DEF PrimaryEdits
      <3>2. Cardinality(PrimaryEdits) \in Nat
        BY Zenon, <3>1, EditsAssumption, FS_Subset, FS_CardinalityType
      <3> QED
        BY <3>2
    <2>3. sversion \in Nat /\ forced \in 0..MaxEvents
      BY SyncAssumption
    <2>4. /\ pc \in [Syncers -> Steps] /\ loaded \in [Syncers -> SUBSET Edits]
          /\ got \in [Syncers -> [version : Nat, config : SUBSET PrimaryEdits]]
      BY Zenon, <1>1 DEF Steps
    <2>5. \A e \in Edits : edit[e] # "memory"
      BY Zenon
    <2> QED
      BY Zenon, <2>1, <2>2, <2>3, <2>4, <2>5 DEF Types, TypeOK
  <1>3. \A s \in Syncers : got[s].config = {} /\ got[s].version = 0 /\ pc[s] = "idle"
    BY Zenon, <1>1
  <1>4. EditsInOrder /\ NothingForgotten
    BY Zenon, <1>3 DEF EditsInOrder, NothingForgotten, Edits, PrimaryEdits
  <1>5. NotBehind /\ VersionStands
    BY <1>3 DEF NotBehind, VersionStands, At
  <1> QED
    BY Zenon, <1>2, <1>4, <1>5 DEF SyncInv, Contents

\* SyncInv holds throughout.
LEMMA SyncInvariance == Spec => []SyncInv
  BY SyncInvInit, SyncInvNext, PTL DEF Spec

\* As long as versions and contents are tied, a secondary at rest that has the
\* primary's version has every edit in the primary's database, although the
\* export takes the version from the database and the configuration from h.cfg.
THEOREM VersionMeansConfig == Spec => []SameVersionSameConfig
  <1>1. SyncInv => SameVersionSameConfig
    <2> SUFFICES ASSUME SyncInv PROVE SameVersionSameConfig
      BY Zenon
    <2>1. Quiet => \A s \in Syncers : ~At(s, "setversion")
      BY Zenon DEF Quiet, At
    <2> QED
      BY Zenon, <2>1 DEF SyncInv, Types, Contents, VersionStands, SameVersionSameConfig
  <1> QED
    BY <1>1, SyncInvariance, PTL

\* Unless two syncs met, nothing takes from the secondary's database an edit that
\* it has and the primary's database has: no import is behind the one before.
THEOREM PersistedEditsKept == Spec => KeepsPersistedEdits
  <1>1. SyncInv /\ [Next]_vars => [(sdb \cap pdb) \subseteq sdb' \/ overlap]_vars
    <2> SUFFICES ASSUME SyncInv, [Next]_vars, sdb' # sdb, ~overlap
                 PROVE  (sdb \cap pdb) \subseteq sdb'
      BY Zenon
    <2>1. ASSUME NEW s \in Syncers, Import(s) PROVE (sdb \cap pdb) \subseteq sdb'
      <3>1. At(s, "import") /\ sdb' = got[s].config
        BY Zenon, <2>1 DEF Import
      <3>2. sdb \cap Held \subseteq got[s].config
        BY Zenon, <3>1 DEF SyncInv, Contents, NotBehind, At
      <3> QED
        BY Zenon, <3>1, <3>2 DEF Held
    <2>2. ASSUME NEW e \in LocalEdits, sdb' = sdb \cup {e} PROVE (sdb \cap pdb) \subseteq sdb'
      BY Zenon, <2>2
    <2> QED
      BY Zenon, <2>1, <2>2, DatabaseChanges
  <1> QED
    BY <1>1, SyncInvariance, PTL DEF Spec, KeepsPersistedEdits
=============================================================================
