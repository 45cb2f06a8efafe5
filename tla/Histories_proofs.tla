--------------------------- MODULE Histories_proofs ---------------------------
(***************************************************************************)
(* Theorems about what the services leave behind: the configurations and   *)
(* grants, the text index, the instances, the audit trail a request of the *)
(* dashboard reads while the run goes on, the versions of the prompt       *)
(* layers, the events of the runs on file, the files of a workspace, and   *)
(* the end of a conversation's history a reader gets.                      *)
(* Each is shown for any number of writers, runs and failures.  A behaviour*)
(* takes up one service, so an invariant is shown for the steps of its     *)
(* own, and for all others by what they leave unchanged.                   *)
(***************************************************************************)
EXTENDS Services, SequenceTheorems, FiniteSetTheorems, WellFoundedInduction, TLAPS

LEMMA SettingsSteps ==
    ASSUME [Next]_vars
    PROVE  ConfigNext \/ PolicyNext \/ UNCHANGED settingsVars
  BY DEF Next, vars, Rest

-----------------------------------------------------------------------------
(* config.json.  A writer holds a configuration that Save accepted, and the *)
(* copy it is about to leave behind is one the file held.                  *)

WriterOK(w) ==
    /\ writer[w].pc \in {"backup", "copy", "write"} => Valid(writer[w].config)
    /\ writer[w].pc = "copy" => writer[w].old \in past

Kept == past \cup {DefaultConfig}

ConfigInv ==
    /\ ConfigRecoverable
    /\ DOMAIN writer = Writers /\ snapshots \in Seq(Kept)
    /\ \A w \in Writers : WriterOK(w)

LEMMA ConfigInit == SettingsInit => ConfigInv
  BY DEF SettingsInit, ConfigInv, ConfigRecoverable, WriterOK, NoWrite, Kept

\* A request that begins changes nothing but its writer.
LEMMA PrepareKeeps ==
    ASSUME ConfigInv, NEW w \in Writers, NEW c, Prepare(w, c)
    PROVE  ConfigInv'
<1>1. writer' = [writer EXCEPT ![w] = [pc |-> "backup", config |-> c]] /\ Valid(c)
  BY DEF Prepare
<1>2. UNCHANGED <<configFile, configBackup, past, snapshots>>
  BY DEF Prepare
<1>3. \A v \in Writers : WriterOK(v)'
  BY <1>1, <1>2 DEF ConfigInv, WriterOK, Valid
<1>4. QED
  BY <1>1, <1>2, <1>3 DEF ConfigInv, ConfigRecoverable, Kept, Valid

LEMMA SnapshotKeeps ==
    ASSUME ConfigInv, TakeSnapshot
    PROVE  ConfigInv'
<1>1. UNCHANGED <<configFile, configBackup, past, writer>>
  BY DEF TakeSnapshot
<1>2. LoadOrDefault \in Kept
  BY DEF LoadOrDefault, Kept, ConfigInv, ConfigRecoverable
<1>3. snapshots' \in Seq(Kept)
  <2> DEFINE all == <<LoadOrDefault>> \o snapshots
             n   == IF Len(snapshots) < MaxSnapshots THEN Len(snapshots) + 1 ELSE MaxSnapshots
  <2>1. snapshots \in Seq(Kept) /\ <<LoadOrDefault>> \in Seq(Kept)
    BY <1>2 DEF ConfigInv
  <2>2. all \in Seq(Kept) /\ Len(all) = Len(snapshots) + 1
    BY <2>1, ConcatProperties
  <2>3. n \in 0..Len(all)
    BY <2>1, <2>2, SettingsAssumption
  <2>4. snapshots' = SubSeq(all, 1, n)
    BY DEF TakeSnapshot
  <2>5. QED
    BY <2>2, <2>3, <2>4, SubSeqProperties
<1>4. \A i \in DOMAIN snapshots' : snapshots'[i] \in Kept
  BY <1>3
<1>5. QED
  BY <1>1, <1>3, <1>4 DEF ConfigInv, ConfigRecoverable, WriterOK, Kept

LEMMA WritesKeep ==
    ASSUME ConfigInv, NEW w \in Writers, ReadForBackup(w) \/ WriteBackup(w) \/ WriteConfig(w)
    PROVE  ConfigInv'
<1>1. CASE ReadForBackup(w)
  <2>1. UNCHANGED <<configFile, configBackup, past, snapshots>> /\ writer[w].pc = "backup"
    BY <1>1 DEF ReadForBackup
  <2>2. writer' = [writer EXCEPT ![w] = IF configFile = None
                      THEN [pc |-> "write", config |-> writer[w].config]
                      ELSE [pc |-> "copy", config |-> writer[w].config, old |-> configFile]]
    BY <1>1 DEF ReadForBackup, ConfigInv
  <2>3. \A v \in Writers : WriterOK(v)'
    BY <2>1, <2>2 DEF ConfigInv, ConfigRecoverable, WriterOK, Valid
  <2>4. QED
    BY <2>1, <2>2, <2>3 DEF ConfigInv, ConfigRecoverable, Kept, Valid
<1>2. CASE WriteBackup(w)
  <2>1. /\ UNCHANGED <<configFile, past, snapshots>> /\ writer[w].pc = "copy"
        /\ configBackup' = writer[w].old
        /\ writer' = [writer EXCEPT ![w] = [pc |-> "write", config |-> writer[w].config]]
    BY <1>2 DEF WriteBackup
  <2>2. \A v \in Writers : WriterOK(v)'
    BY <2>1 DEF ConfigInv, WriterOK, Valid
  <2>3. configBackup' \in past
    BY <2>1 DEF ConfigInv, WriterOK
  <2>4. QED
    BY <2>1, <2>2, <2>3 DEF ConfigInv, ConfigRecoverable, Kept, Valid
<1>3. CASE WriteConfig(w)
  <2>1. /\ UNCHANGED <<configBackup, snapshots>> /\ writer[w].pc = "write"
        /\ configFile' = writer[w].config /\ past' = past \cup {configFile'}
        /\ writer' = [writer EXCEPT ![w] = NoWrite]
    BY <1>3 DEF WriteConfig
  <2>2. Valid(configFile')
    BY <2>1 DEF ConfigInv, WriterOK
  <2>3. \A v \in Writers : WriterOK(v)'
    BY <2>1 DEF ConfigInv, WriterOK, Valid, NoWrite
  <2>4. Kept \subseteq Kept'
    BY <2>1 DEF Kept
  <2>5. snapshots' \in Seq(Kept') /\ \A i \in DOMAIN snapshots' : snapshots'[i] \in Kept'
    BY <2>1, <2>4 DEF ConfigInv
  <2>6. ConfigRecoverable'
    BY <2>1, <2>2, <2>5 DEF ConfigInv, ConfigRecoverable, Kept, Valid
  <2>7. QED
    BY <2>1, <2>3, <2>5, <2>6 DEF ConfigInv
<1>4. QED
  BY <1>1, <1>2, <1>3

LEMMA SaveFailsKeeps ==
    ASSUME ConfigInv, SaveFails
    PROVE  ConfigInv'
<1>1. UNCHANGED <<configFile, configBackup, past>> /\ (snapshots' = snapshots \/ snapshots' = <<>>)
  BY DEF SaveFails
<1>2. DOMAIN writer' = Writers /\ \A v \in Writers : writer'[v] = writer[v] \/ writer'[v] = NoWrite
  BY DEF SaveFails, ConfigInv
<1>3. \A v \in Writers : WriterOK(v)'
  BY <1>1, <1>2 DEF ConfigInv, WriterOK, Valid, NoWrite
<1>4. snapshots' \in Seq(Kept)
  <2>1. <<>> \in Seq(Kept)
    OBVIOUS
  <2>2. QED
    BY <1>1, <2>1 DEF ConfigInv
<1>5. \A i \in DOMAIN snapshots' : snapshots'[i] \in Kept
  BY <1>4
<1>6. QED
  BY <1>1, <1>2, <1>3, <1>4, <1>5 DEF ConfigInv, ConfigRecoverable, Kept, Valid

LEMMA ConfigStep == ASSUME ConfigInv, ConfigNext PROVE ConfigInv'
<1>1. CASE \E w \in Writers : \E c : Prepare(w, c)
  BY <1>1, PrepareKeeps
<1>2. CASE TakeSnapshot
  BY <1>2, SnapshotKeeps
<1>3. CASE \E w \in Writers : ReadForBackup(w) \/ WriteBackup(w) \/ WriteConfig(w)
  BY <1>3, WritesKeep
<1>4. CASE SaveFails
  BY <1>4, SaveFailsKeeps
<1>5. ASSUME NEW w \in Writers, SetFields(w) \/ KeepFields(w) \/ ReplaceConfig(w)
                                   \/ InitConfig(w) \/ Setup(w) \/ RestoreConfig(w)
      PROVE  \E c : Prepare(w, c)
  BY <1>5 DEF SetFields, KeepFields, ReplaceConfig, InitConfig, Setup, RestoreConfig
<1>6. QED
  BY <1>1, <1>2, <1>3, <1>4, <1>5 DEF ConfigNext

-----------------------------------------------------------------------------
(* capabilities.json.  A run that is to save what nobody else has changed   *)
(* since it read it changes the entry of one agent only.                    *)

GrantFiles == [Agents -> (SUBSET Capabilities) \cup {None}]

\* The capabilities a file g gives an agent; a change m of it; a promise p.
Given(g, x) == IF g[x] = None THEN BaseCapabilities(x) ELSE g[x]
Single(m, g) ==
    \E x \in Agents, c \in Capabilities :
        /\ m.of = <<x, c>> /\ m.grant \in BOOLEAN
        /\ m.file = [g EXCEPT ![x] = IF m.grant THEN Given(g, x) \cup {c} ELSE Given(g, x) \ {c}]
HeldIn(p, g) == \E x \in Agents, c \in Capabilities : p = <<x, c>> /\ c \notin Given(g, x)

MutationOK(r) ==
    mutation[r].pc = "save" =>
        mutation[r].file \in GrantFiles /\ (mutation[r].alone => Single(mutation[r], grants))

PolicyInv ==
    /\ grants \in GrantFiles /\ DOMAIN mutation = Sessions
    /\ \A r \in Sessions : MutationOK(r)
    /\ pledged # None => HeldIn(pledged, grants)

LEMMA PolicyInit == SettingsInit => PolicyInv
  BY DEF SettingsInit, PolicyInv, GrantFiles, MutationOK, NoWrite

LEMMA GivenType ==
    ASSUME NEW g \in GrantFiles, NEW x \in Agents
    PROVE  Given(g, x) \in SUBSET Capabilities
  BY FleetAssumption DEF GrantFiles, Given, BaseCapabilities, Capabilities

LEMMA LoadKeeps ==
    ASSUME PolicyInv, NEW r \in Sessions, NEW x \in Agents, NEW c \in Capabilities,
           NEW grant \in BOOLEAN, LoadGrants(r, x, c, grant)
    PROVE  PolicyInv'
<1> DEFINE updated == IF grant THEN Given(grants, x) \cup {c} ELSE Given(grants, x) \ {c}
<1>1. PICK m : /\ UNCHANGED <<grants, pledged>> /\ mutation' = [mutation EXCEPT ![r] = m]
               /\ m.alone = TRUE /\ m.of = <<x, c>> /\ m.grant = grant /\ m.pc = "save"
               /\ m.file = [grants EXCEPT ![x] = updated]
  <2> DEFINE n == [pc |-> "save", file |-> [grants EXCEPT ![x] = updated],
                   admin |-> IF x = enforcer[r].agent THEN Admin \in updated ELSE TRUE,
                   alone |-> TRUE, of |-> <<x, c>>, grant |-> grant]
  <2>1. UNCHANGED <<grants, pledged>> /\ mutation' = [mutation EXCEPT ![r] = n]
    BY DEF LoadGrants, Entry, Effective, Given
  <2>2. /\ n.alone = TRUE /\ n.of = <<x, c>> /\ n.grant = grant /\ n.pc = "save"
        /\ n.file = [grants EXCEPT ![x] = updated]
    OBVIOUS
  <2> HIDE DEF n
  <2>3. QED
    BY <2>1, <2>2, Zenon
<1>2. Single(m, grants)
  BY <1>1 DEF Single
<1>3. updated \in SUBSET Capabilities
  BY GivenType DEF PolicyInv
<1>4. m.file \in GrantFiles
  BY <1>1, <1>3 DEF PolicyInv, GrantFiles
<1>5. \A q \in Sessions : mutation'[q] = IF q = r THEN m ELSE mutation[q]
  BY <1>1 DEF PolicyInv
<1>6. \A q \in Sessions : MutationOK(q)'
  BY <1>1, <1>2, <1>4, <1>5 DEF PolicyInv, MutationOK
<1>7. QED
  BY <1>1, <1>6 DEF PolicyInv

\* What was promised is kept by a change nobody else's overlapped.
LEMMA SaveKeepsPledge ==
    ASSUME PolicyInv, NEW r \in Sessions, SaveGrants(r), mutation[r].alone, pledged' # None
    PROVE  HeldIn(pledged', grants')
<1>1. PICK x \in Agents, c \in Capabilities :
        /\ mutation[r].of = <<x, c>> /\ mutation[r].grant \in BOOLEAN
        /\ mutation[r].file = [grants EXCEPT ![x] =
               IF mutation[r].grant THEN Given(grants, x) \cup {c} ELSE Given(grants, x) \ {c}]
  BY DEF SaveGrants, PolicyInv, MutationOK, Single
<1>2. grants' = mutation[r].file
  BY DEF SaveGrants
<1>3. Given(grants', x)
        = IF mutation[r].grant THEN Given(grants, x) \cup {c} ELSE Given(grants, x) \ {c}
  <2>1. grants'[x] = IF mutation[r].grant THEN Given(grants, x) \cup {c} ELSE Given(grants, x) \ {c}
    BY <1>1, <1>2 DEF PolicyInv, GrantFiles
  <2>2. grants'[x] \in SUBSET Capabilities
    BY <2>1, GivenType DEF PolicyInv
  <2>3. grants'[x] # None
    BY <2>2, SettingsAssumption
  <2>4. QED
    BY <2>1, <2>3 DEF Given
<1>4. \A y \in Agents : y # x => Given(grants', y) = Given(grants, y)
  BY <1>1, <1>2 DEF PolicyInv, GrantFiles, Given
<1>5. \/ mutation[r].grant /\ pledged' = IF pledged = <<x, c>> THEN None ELSE pledged
      \/ ~mutation[r].grant /\ pledged' \in {pledged, <<x, c>>}
  BY <1>1 DEF SaveGrants
<1>6. CASE pledged' = <<x, c>> /\ ~mutation[r].grant
  BY <1>3, <1>6 DEF HeldIn
<1>7. CASE pledged' = pledged /\ pledged # None /\ (mutation[r].grant => pledged # <<x, c>>)
  <2>1. PICK y \in Agents, d \in Capabilities : pledged = <<y, d>> /\ d \notin Given(grants, y)
    BY <1>7 DEF PolicyInv, HeldIn
  <2>2. d \notin Given(grants', y)
    BY <1>3, <1>4, <1>7, <2>1
  <2>3. QED
    BY <1>7, <2>1, <2>2 DEF HeldIn
<1>8. QED
  BY <1>5, <1>6, <1>7

LEMMA SaveKeeps ==
    ASSUME PolicyInv, NEW r \in Sessions, SaveGrants(r)
    PROVE  PolicyInv'
<1>1. grants' = mutation[r].file /\ mutation[r].pc = "save"
  BY DEF SaveGrants
<1>2. mutation' = [q \in Sessions |-> IF q # r /\ mutation[q].pc = "save"
                      THEN [pc |-> "save", file |-> mutation[q].file, admin |-> mutation[q].admin,
                            alone |-> FALSE]
                      ELSE NoWrite]
  BY DEF SaveGrants
<1>3. \A q \in Sessions : \/ mutation'[q] = NoWrite
                          \/ /\ mutation[q].pc = "save" /\ mutation'[q].file = mutation[q].file
                             /\ ~mutation'[q].alone
  BY <1>2
<1>4. \A q \in Sessions : MutationOK(q)'
  BY <1>3 DEF PolicyInv, MutationOK, NoWrite
<1>5. pledged' # None => HeldIn(pledged', grants')
  BY SaveKeepsPledge DEF SaveGrants
<1>6. grants' \in GrantFiles /\ DOMAIN mutation' = Sessions
  BY <1>1, <1>2 DEF PolicyInv, MutationOK
<1>7. QED
  BY <1>4, <1>5, <1>6 DEF PolicyInv

LEMMA PolicyStep == ASSUME PolicyInv, PolicyNext PROVE PolicyInv'
<1>1. PICK r \in Sessions :
        \/ EndSession(r) \/ SaveGrants(r) \/ SaveGrantsFails(r)
        \/ \E x \in Agents : StartSession(r, x)
                             \/ \E c \in Capabilities, grant \in BOOLEAN : LoadGrants(r, x, c, grant)
  BY DEF PolicyNext
<1>2. CASE UNCHANGED <<grants, mutation, pledged>>
  BY <1>2 DEF PolicyInv, MutationOK
<1>3. CASE SaveGrants(r)
  BY <1>3, SaveKeeps
<1>4. CASE SaveGrantsFails(r)
  <2>1. UNCHANGED <<grants, pledged>> /\ mutation' = [mutation EXCEPT ![r] = NoWrite]
    BY <1>4 DEF SaveGrantsFails
  <2>2. DOMAIN mutation' = Sessions
        /\ \A q \in Sessions : mutation'[q] = NoWrite \/ mutation'[q] = mutation[q]
    BY <2>1 DEF PolicyInv
  <2>3. QED
    BY <2>1, <2>2 DEF PolicyInv, MutationOK, NoWrite
<1>5. CASE \E x \in Agents, c \in Capabilities, grant \in BOOLEAN : LoadGrants(r, x, c, grant)
  BY <1>5, LoadKeeps
<1>6. CASE EndSession(r) \/ \E x \in Agents : StartSession(r, x)
  BY <1>2, <1>6 DEF EndSession, StartSession
<1>7. QED
  BY <1>1, <1>3, <1>4, <1>5, <1>6

\* The invariant holds throughout.
LEMMA SettingsHold == Spec => [](ConfigInv /\ PolicyInv)
<1>1. Init => ConfigInv /\ PolicyInv
  BY ConfigInit, PolicyInit DEF Init
<1>2. ConfigInv /\ PolicyInv /\ [Next]_vars => ConfigInv' /\ PolicyInv'
  <2> SUFFICES ASSUME ConfigInv, PolicyInv, [Next]_vars PROVE ConfigInv' /\ PolicyInv'
    OBVIOUS
  <2>1. UNCHANGED configVars => ConfigInv'
    BY DEF configVars, ConfigInv, ConfigRecoverable, WriterOK, Kept, Valid
  <2>2. UNCHANGED policyVars => PolicyInv'
    BY DEF policyVars, PolicyInv, MutationOK
  <2>3. CASE ConfigNext
    <3>1. UNCHANGED policyVars
      BY <2>3 DEF ConfigNext, SetFields, KeepFields, ReplaceConfig, InitConfig, Setup,
           RestoreConfig, Prepare, ReadForBackup, WriteBackup, WriteConfig, TakeSnapshot, SaveFails
    <3>2. QED
      BY <3>1, <2>2, <2>3, ConfigStep
  <2>4. CASE PolicyNext
    <3>1. UNCHANGED configVars
      BY <2>4 DEF PolicyNext, EndSession, SaveGrants, SaveGrantsFails, StartSession, LoadGrants
    <3>2. QED
      BY <3>1, <2>1, <2>4, PolicyStep
  <2>5. CASE UNCHANGED settingsVars
    BY <2>1, <2>2, <2>5 DEF settingsVars
  <2>6. QED
    BY <2>3, <2>4, <2>5, SettingsSteps
<1>3. QED
  BY <1>1, <1>2, PTL DEF Spec

\* The configuration and the policy can be gone back to, and keep what was
\* taken away, whatever tools, requests and commands write over each other
\* (config.WriteAtomic, policy.grant, policy.revoke).
THEOREM SettingsStaySound == Spec => []SettingsSound
<1>1. ConfigInv /\ PolicyInv => SettingsSound
  BY DEF ConfigInv, PolicyInv, SettingsSound, RevocationLasts, HeldIn, Given, Effective
<1>2. QED
  BY <1>1, SettingsHold, PTL

-----------------------------------------------------------------------------
(* The text index.                                                         *)

KeeperOK(k) ==
    /\ keeper[k].pc = "update" => keeper[k].item \in Items
    /\ keeper[k].pc = "archive" => keeper[k].items \subseteq Items

ItemsInv ==
    /\ IndexExact
    /\ DOMAIN item = Items /\ DOMAIN keeper = Keepers
    /\ \A k \in Keepers : KeeperOK(k)

LEMMA UpsertKeepsIndex ==
    ASSUME IndexExact, DOMAIN item = Items, NEW i \in Items, NEW status, Upsert(i, status)
    PROVE  IndexExact' /\ DOMAIN item' = Items
  BY DEF IndexExact, Upsert

LEMMA SetAsideKeepsIndex ==
    ASSUME IndexExact, DOMAIN item = Items, NEW i \in Items, NEW status \in {"forgotten", "archived"},
           SetAside(i, status)
    PROVE  IndexExact' /\ DOMAIN item' = Items
  BY MemoryAssumption DEF IndexExact, SetAside, Statuses

\* A call goes on to something that is well formed.
LEMMA CallKeeps ==
    ASSUME DOMAIN keeper = Keepers, \A k \in Keepers : KeeperOK(k),
           NEW k \in Keepers, NEW from, NEW to, Call(k, from, to),
           to.pc = "update" => to.item \in Items, to.pc = "archive" => to.items \subseteq Items
    PROVE  DOMAIN keeper' = Keepers /\ \A q \in Keepers : KeeperOK(q)'
  BY DEF Call, KeeperOK

LEMMA ItemsStep == ASSUME ItemsInv, ItemsNext PROVE ItemsInv'
<1> USE DEF ItemsInv
<1>1. CASE ProcessEnds
  BY <1>1 DEF ProcessEnds, IndexExact, KeeperOK, NoCall
<1>2. ASSUME NEW k \in Keepers, UpdateItem(k) PROVE ItemsInv'
  <2>1. keeper[k].item \in Items
    BY <1>2 DEF UpdateItem, Call, KeeperOK
  <2>2. QED
    BY <1>2, <2>1, UpsertKeepsIndex, CallKeeps DEF UpdateItem
<1>3. ASSUME NEW k \in Keepers, SyncVector(k) PROVE ItemsInv'
  BY <1>3, CallKeeps DEF SyncVector, NoCall, IndexExact
<1>4. ASSUME NEW k \in Keepers, ListForMaintenance(k) PROVE ItemsInv'
  BY <1>4, CallKeeps DEF ListForMaintenance, IndexExact
<1>5. ASSUME NEW k \in Keepers, ArchiveItem(k) PROVE ItemsInv'
  <2>1. keeper[k].items \subseteq Items
    BY <1>5 DEF ArchiveItem, KeeperOK
  <2>2. CASE keeper[k].items = {}
    BY <1>5, <2>2, CallKeeps DEF ArchiveItem, NoCall, IndexExact
  <2>3. CASE keeper[k].items # {}
    <3>1. PICK i \in keeper[k].items :
            Call(k, "archive", [keeper[k] EXCEPT !.items = @ \ {i}]) /\ SetAside(i, "archived")
      BY <1>5, <2>3 DEF ArchiveItem
    <3>2. IndexExact' /\ DOMAIN item' = Items
      BY <2>1, <3>1, SetAsideKeepsIndex
    <3>3. DOMAIN keeper' = Keepers /\ \A q \in Keepers : KeeperOK(q)'
      BY <1>5, <2>1, <3>1 DEF Call, KeeperOK
    <3>4. QED
      BY <3>2, <3>3
  <2>4. QED
    BY <2>2, <2>3
<1>6. ASSUME NEW k \in Keepers, NEW i \in Items, WriteItem(k, i) PROVE ItemsInv'
  BY <1>6, CallKeeps, UpsertKeepsIndex DEF WriteItem
<1>7. ASSUME NEW k \in Keepers, NEW i \in Items, ReadItem(k, i) PROVE ItemsInv'
  BY <1>7, CallKeeps DEF ReadItem, IndexExact
<1>8. ASSUME NEW k \in Keepers, NEW i \in Items, ForgetItem(k, i) PROVE ItemsInv'
  BY <1>8, CallKeeps, SetAsideKeepsIndex DEF ForgetItem, NoCall
<1>9. ASSUME NEW k \in Keepers, NEW i \in Items, CheckpointItem(k, i) PROVE ItemsInv'
  <2>1. CASE item[i] = None
    BY <1>9, <2>1, CallKeeps, UpsertKeepsIndex DEF CheckpointItem
  <2>2. CASE item[i] # None
    BY <1>9, <2>2, CallKeeps DEF CheckpointItem, IndexExact
  <2>3. QED
    BY <2>1, <2>2
<1>10. QED
  BY <1>1, <1>2, <1>3, <1>4, <1>5, <1>6, <1>7, <1>8, <1>9 DEF ItemsNext

\* The invariant holds throughout.
LEMMA ItemsHold == Spec => []ItemsInv
<1>1. Init => ItemsInv
  BY MemoryAssumption DEF Init, MemoryInit, ItemsInv, IndexExact, KeeperOK, NoCall, Statuses
<1>2. ItemsInv /\ [Next]_vars => ItemsInv'
  <2> SUFFICES ASSUME ItemsInv, [Next]_vars PROVE ItemsInv'
    OBVIOUS
  <2>1. ItemsNext \/ UNCHANGED <<item, textIndex, keeper>>
    BY DEF Next, vars, Rest, memoryVars, EventsNext, IngestEvent, WriteEventFails, CloseWriter,
         WriteEvent, ProcessEnds, ItemsNext
  <2>2. CASE UNCHANGED <<item, textIndex, keeper>>
    BY <2>2 DEF ItemsInv, IndexExact, KeeperOK
  <2>3. QED
    BY <2>1, <2>2, ItemsStep
<1>3. QED
  BY <1>1, <1>2, PTL DEF Spec

\* Whatever memory tools read, wrote, forgot and archived in between, a search
\* by text sees the active items and no others (store/sqlite.go, syncFTS).
THEOREM SearchSeesActiveItems == Spec => []IndexExact
<1>1. ItemsInv => IndexExact
  BY DEF ItemsInv
<1>2. QED
  BY <1>1, ItemsHold, PTL

-----------------------------------------------------------------------------
(* The instances.  A request that is writing agents has written the        *)
(* manifest, and has the default agent still before it or behind it.       *)

Manifests == [default : Agents, enabled : SUBSET Agents]

DefaultThere(i) == manifest[i].default \in agentDirs[i]

RequestOK ==
    /\ admin.pc \in {"idle", "manifest", "agents"}
    /\ admin.pc = "manifest" => /\ admin.instance \in InstanceIds /\ admin.manifest \in Manifests
                                /\ admin.manifest.default \in admin.save
                                /\ admin.save \subseteq Agents
    /\ admin.pc = "agents" => /\ admin.instance \in InstanceIds /\ Exists(admin.instance)
                              /\ admin.save \subseteq Agents
                              /\ manifest[admin.instance].default \notin admin.drop
                              /\ \/ manifest[admin.instance].default \in admin.save
                                 \/ DefaultThere(admin.instance)

InstanceTypes ==
    /\ manifest \in [InstanceIds -> Manifests \cup {None}]
    /\ agentDirs \in [InstanceIds -> SUBSET Agents]
    /\ active \in InstanceIds \cup {None} /\ broken \subseteq InstanceIds

InstancesInv == InstanceTypes /\ RequestOK /\ InstancesUsable

LEMMA NoManifest == None \notin Manifests
  BY InstancesAssumption DEF Manifests

\* A request that begins has the default agent among those to write.
LEMMA SaveBegins ==
    ASSUME InstancesInv, NEW i \in InstanceIds, NEW d \in Agents, NEW D \in SUBSET Agents,
           NEW activate, Save(i, d, D, activate)
    PROVE  InstancesInv'
<1>1. UNCHANGED <<manifest, agentDirs, active, broken>>
  BY DEF Save
<1>2. admin.pc = "idle" /\ admin'.pc = "manifest" /\ admin'.instance = i
      /\ admin'.manifest = Manifest(d, D \cup {d}) /\ admin'.save = D \cup {d}
  BY DEF Save
<1>3. Manifest(d, D \cup {d}) \in Manifests /\ Manifest(d, D \cup {d}).default = d
  BY DEF Manifest, Manifests
<1>4. RequestOK'
  BY <1>2, <1>3 DEF RequestOK
<1>5. InstancesUsable'
  BY <1>1, <1>2 DEF InstancesInv, InstancesUsable, Exists
<1>6. QED
  BY <1>1, <1>4, <1>5 DEF InstancesInv, InstanceTypes

\* The requests that write an instance anew begin so.
LEMMA RequestBegins ==
    ASSUME InstancesInv, NEW i \in InstanceIds,
           \/ CreateInstance(i) \/ BootstrapFromCurrent(i) \/ UpdateInstance(i)
           \/ \E j \in InstanceIds : CloneInstance(i, j)
           \/ \E a \in Agents : PersistInstanceAgent(i, a)
           \/ WizardInstance(i) \/ \E a \in Agents : WizardAgent(i, a)
    PROVE  InstancesInv'
<1>1. Exists(i) => manifest[i].default \in Agents /\ Projected(i) \in SUBSET Agents
  BY DEF Exists, InstancesInv, InstanceTypes, Manifests, Projected
<1>2. \/ \E d \in Agents, D \in SUBSET Agents, activate \in BOOLEAN : Save(i, d, D, activate)
      \/ \E j \in InstanceIds, d \in Agents, D \in SUBSET Agents : Save(j, d, D, FALSE)
  <2>1. CASE CreateInstance(i) \/ BootstrapFromCurrent(i) \/ UpdateInstance(i)
    BY <2>1 DEF CreateInstance, BootstrapFromCurrent, UpdateInstance
  <2>2. ASSUME NEW j \in InstanceIds, CloneInstance(i, j)
        PROVE  \E d \in Agents, D \in SUBSET Agents : Save(j, d, D, FALSE)
    BY <1>1, <2>2 DEF CloneInstance
  <2>3. ASSUME NEW a \in Agents, PersistInstanceAgent(i, a)
        PROVE  \E d \in Agents, D \in SUBSET Agents : Save(i, d, D, FALSE)
    <3>1. Save(i, manifest[i].default, Projected(i) \cup {a}, FALSE) /\ Exists(i)
      BY <2>3 DEF PersistInstanceAgent
    <3>2. Projected(i) \cup {a} \in SUBSET Agents
      BY <1>1, <3>1
    <3>3. QED
      BY <1>1, <3>1, <3>2
  <2>4. CASE WizardInstance(i)
    <3>1. \A t : TemplateDefaults(t) \subseteq Agents
      BY FleetAssumption DEF TemplateDefaults
    <3>2. PICK d \in Agents : Save(i, d, {}, FALSE)
      BY <2>4, <3>1 DEF WizardInstance
    <3>3. QED
      BY <3>2
  <2>5. CASE \E a \in Agents : WizardAgent(i, a)
    BY <2>5, <2>3 DEF WizardAgent
  <2>6. QED
    BY <2>1, <2>2, <2>3, <2>4, <2>5
<1>3. QED
  BY <1>2, SaveBegins

LEMMA DeleteAgentKeeps ==
    ASSUME InstancesInv, NEW i \in InstanceIds, NEW a \in Agents, DeleteInstanceAgent(i, a)
    PROVE  InstancesInv'
<1> USE DEF InstancesInv, InstanceTypes
<1>1. /\ UNCHANGED <<manifest, active>> /\ admin.pc = "idle"
      /\ agentDirs' = [agentDirs EXCEPT ![i] = @ \ {a}]
  BY DEF DeleteInstanceAgent
<1>2. CASE ~Exists(i)
  <2>1. UNCHANGED <<admin, broken>>
    BY <1>2 DEF DeleteInstanceAgent
  <2>2. QED
    BY <1>1, <1>2, <2>1 DEF RequestOK, InstancesUsable, Exists
<1>3. CASE Exists(i)
  <2> DEFINE d == manifest[i].default
             D == (Projected(i) \ {a}) \cup {d}
  <2>1. /\ admin' = [pc |-> "manifest", instance |-> i, manifest |-> Manifest(d, D),
                     save |-> D, drop |-> {}, activate |-> FALSE]
        /\ broken' = IF a = d THEN broken \cup {i} ELSE broken
    BY <1>3 DEF DeleteInstanceAgent
  <2>2. d \in Agents /\ D \in SUBSET Agents /\ d \in D
    BY <1>3 DEF Exists, Manifests, Projected
  <2>3. Manifest(d, D) \in Manifests /\ Manifest(d, D).default = d
    BY <2>2 DEF Manifest, Manifests
  <2>4. RequestOK'
    BY <2>1, <2>2, <2>3 DEF RequestOK
  <2>5. InstancesUsable'
    BY <1>1, <2>1 DEF InstancesUsable, Exists
  <2>6. QED
    BY <1>1, <2>1, <2>4, <2>5
<1>4. QED
  BY <1>2, <1>3

LEMMA WritingKeeps ==
    ASSUME InstancesInv,
           WriteManifest \/ FinishSave \/ RequestFails \/ \E a \in Agents : WriteAgent(a) \/ DropAgent(a)
    PROVE  InstancesInv'
<1> USE DEF InstancesInv, InstanceTypes
<1>1. CASE WriteManifest
  <2>1. /\ admin'.pc = "agents" /\ admin'.instance = admin.instance /\ admin'.save = admin.save
        /\ admin'.drop = agentDirs[admin.instance] \ admin.save
        /\ manifest' = [manifest EXCEPT ![admin.instance] = admin.manifest]
        /\ admin.instance \in InstanceIds /\ admin.manifest \in Manifests
        /\ UNCHANGED <<agentDirs, active, broken>>
    BY <1>1 DEF WriteManifest, RequestOK
  <2>2. manifest' \in [InstanceIds -> Manifests \cup {None}]
    BY <2>1
  <2>3. RequestOK'
    BY <1>1, <2>1, NoManifest DEF WriteManifest, RequestOK, Exists
  <2>4. InstancesUsable'
    BY <1>1, <2>1, NoManifest DEF WriteManifest, InstancesUsable, Exists
  <2>5. QED
    BY <2>1, <2>2, <2>3, <2>4
<1>2. ASSUME NEW a \in Agents, WriteAgent(a) PROVE InstancesInv'
  <2>1. /\ admin.pc = "agents" /\ admin'.pc = "agents" /\ admin'.instance = admin.instance
        /\ admin'.save = admin.save \ {a} /\ admin'.drop = admin.drop
        /\ agentDirs' = [agentDirs EXCEPT ![admin.instance] = @ \cup {a}]
        /\ admin.instance \in InstanceIds
        /\ UNCHANGED <<manifest, active, broken>>
    BY <1>2 DEF WriteAgent, RequestOK
  <2>2. RequestOK'
    BY <2>1 DEF RequestOK, Exists, DefaultThere
  <2>3. InstancesUsable'
    BY <2>1 DEF InstancesUsable, Exists
  <2>4. QED
    BY <2>1, <2>2, <2>3
<1>3. ASSUME NEW a \in Agents, DropAgent(a) PROVE InstancesInv'
  <2>1. /\ admin.pc = "agents" /\ admin'.pc = "agents" /\ admin'.instance = admin.instance
        /\ admin'.save = admin.save /\ admin'.drop = admin.drop \ {a} /\ a \in admin.drop
        /\ agentDirs' = [agentDirs EXCEPT ![admin.instance] = @ \ {a}]
        /\ admin.instance \in InstanceIds
        /\ UNCHANGED <<manifest, active, broken>>
    BY <1>3 DEF DropAgent, RequestOK
  <2>2. RequestOK'
    BY <2>1 DEF RequestOK, Exists, DefaultThere
  <2>3. InstancesUsable'
    BY <2>1 DEF InstancesUsable, Exists
  <2>4. QED
    BY <2>1, <2>2, <2>3
<1>4. CASE FinishSave
  <2>1. /\ admin.pc = "agents" /\ admin.save = {} /\ admin'.pc = "idle"
        /\ broken' = broken \ {admin.instance} /\ active' \in {active, admin.instance}
        /\ UNCHANGED <<manifest, agentDirs>>
    BY <1>4 DEF FinishSave, NoRequest
  <2>2. DefaultThere(admin.instance) /\ Exists(admin.instance) /\ admin.instance \in InstanceIds
    BY <2>1 DEF RequestOK
  <2>3. RequestOK'
    BY <2>1 DEF RequestOK
  <2>4. InstancesUsable'
    BY <2>1, <2>2 DEF InstancesUsable, Exists, DefaultThere
  <2>5. QED
    BY <2>1, <2>2, <2>3, <2>4
<1>5. CASE RequestFails
  <2>1. /\ admin'.pc = "idle" /\ UNCHANGED <<manifest, agentDirs, active>>
        /\ broken' = IF admin.pc = "manifest" THEN broken ELSE broken \cup {admin.instance}
        /\ admin.pc # "idle" /\ admin.instance \in InstanceIds
    BY <1>5 DEF RequestFails, NoRequest, RequestOK
  <2>2. RequestOK'
    BY <2>1 DEF RequestOK
  <2>3. InstancesUsable'
    BY <2>1 DEF InstancesUsable, Exists
  <2>4. QED
    BY <2>1, <2>2, <2>3
<1>6. QED
  BY <1>1, <1>2, <1>3, <1>4, <1>5

LEMMA DeletionKeeps ==
    ASSUME InstancesInv, NEW i \in InstanceIds,
           DeleteInstance(i) \/ DeleteInstanceFails(i) \/ ActivateInstance(i)
    PROVE  InstancesInv'
<1> USE DEF InstancesInv, InstanceTypes
<1>1. admin.pc = "idle" /\ UNCHANGED admin
  BY DEF DeleteInstance, DeleteInstanceFails, ActivateInstance
<1>2. RequestOK'
  BY <1>1 DEF RequestOK
<1>3. CASE DeleteInstance(i)
  <2>1. active # i
    BY <1>3, InstancesAssumption DEF DeleteInstance, ActiveInstance
  <2>2. QED
    BY <1>1, <1>2, <1>3, <2>1 DEF DeleteInstance, InstancesUsable, Exists
<1>4. CASE DeleteInstanceFails(i)
  <2>1. active # i
    BY <1>4, InstancesAssumption DEF DeleteInstanceFails, ActiveInstance
  <2>2. PICK m \in {manifest[i], None}, A \in SUBSET agentDirs[i] :
          manifest' = [manifest EXCEPT ![i] = m] /\ agentDirs' = [agentDirs EXCEPT ![i] = A]
    BY <1>4 DEF DeleteInstanceFails
  <2>3. broken' = broken \cup {i} /\ UNCHANGED active
    BY <1>4 DEF DeleteInstanceFails
  <2>4. m \in Manifests \cup {None} /\ A \in SUBSET Agents
    BY <2>2
  <2>5. QED
    BY <1>1, <1>2, <2>1, <2>2, <2>3, <2>4 DEF InstancesUsable, Exists
<1>5. CASE ActivateInstance(i)
  BY <1>1, <1>2, <1>5 DEF ActivateInstance, InstancesUsable, Exists
<1>6. QED
  BY <1>3, <1>4, <1>5

LEMMA BootstrapKeeps ==
    ASSUME InstancesInv, NEW i, NEW a, BootstrapDefaultInstance(i, a) \/ BootstrapFails(i, a)
    PROVE  InstancesInv'
<1> USE DEF InstancesInv, InstanceTypes
<1>1. /\ UNCHANGED admin /\ DefaultInstance \in InstanceIds
      /\ BootstrapAgents \subseteq Agents
      /\ active' \in {active, DefaultInstance}
  BY InstancesAssumption, FleetAssumption DEF BootstrapDefaultInstance, BootstrapFails, BootstrapAgents
<1>2. PICK A \in SUBSET Agents : agentDirs' = [agentDirs EXCEPT ![DefaultInstance] = @ \cup A]
  BY <1>1 DEF BootstrapDefaultInstance, BootstrapFails
<1>3. \A k \in InstanceIds : /\ agentDirs[k] \subseteq agentDirs'[k] /\ agentDirs'[k] \subseteq Agents
                             /\ k # DefaultInstance => agentDirs'[k] = agentDirs[k]
  BY <1>1, <1>2
<1>4. CASE UNCHANGED <<manifest, broken>> /\ Exists(DefaultInstance)
  <2>1. InstanceTypes'
    BY <1>1, <1>2, <1>4
  <2>2. RequestOK'
    BY <1>1, <1>3, <1>4 DEF RequestOK, Exists, DefaultThere
  <2>3. InstancesUsable'
    BY <1>1, <1>3, <1>4 DEF InstancesUsable, Exists
  <2>4. QED
    BY <2>1, <2>2, <2>3
<1>5. ASSUME NEW d \in LegacyDefaults, ~Exists(DefaultInstance),
             manifest' = [manifest EXCEPT ![DefaultInstance] = LegacyManifest(d)],
             broken' \in {broken, broken \cup {DefaultInstance}},
             d \in agentDirs'[DefaultInstance] \/ DefaultInstance \in broken'
      PROVE  InstancesInv'
  <2> DEFINE M == LegacyManifest(d)
  <2>1. M \in Manifests /\ M.default = d
    BY InstancesAssumption DEF LegacyManifest, Manifest, Manifests
  <2>2. M # None
    BY <2>1, NoManifest
  <2> HIDE DEF M
  <2>3. manifest' = [manifest EXCEPT ![DefaultInstance] = M]
    BY <1>5 DEF M
  <2>4. \A k \in InstanceIds : manifest'[k] = IF k = DefaultInstance THEN M ELSE manifest[k]
    BY <2>3
  <2>5. InstanceTypes'
    BY <1>1, <1>2, <1>5, <2>1, <2>3
  <2>6. RequestOK'
    BY <1>1, <1>3, <1>5, <2>2, <2>4 DEF RequestOK, Exists, DefaultThere
  <2>7. InstancesUsable'
    BY <1>1, <1>3, <1>5, <2>1, <2>2, <2>4 DEF InstancesUsable, Exists
  <2>8. QED
    BY <2>5, <2>6, <2>7
<1>6. CASE BootstrapDefaultInstance(i, a)
  BY <1>4, <1>5, <1>6 DEF BootstrapDefaultInstance
<1>7. CASE BootstrapFails(i, a)
  BY <1>5, <1>7 DEF BootstrapFails
<1>8. QED
  BY <1>6, <1>7

LEMMA InstanceStep == ASSUME InstancesInv, InstanceNext PROVE InstancesInv'
  BY RequestBegins, DeleteAgentKeeps, WritingKeeps, DeletionKeeps, BootstrapKeeps
  DEF InstanceNext

\* The invariant holds throughout.
LEMMA InstancesHold == Spec => []InstancesInv
<1>1. Init => InstancesInv
  BY NoManifest DEF Init, InstanceInit, InstancesInv, InstanceTypes, RequestOK, NoRequest,
     InstancesUsable, Exists
<1>2. InstancesInv /\ [Next]_vars => InstancesInv'
  <2> SUFFICES ASSUME InstancesInv, [Next]_vars PROVE InstancesInv'
    OBVIOUS
  <2>1. InstanceNext \/ UNCHANGED instanceVars
    BY DEF Next, vars, Rest
  <2>2. CASE UNCHANGED instanceVars
    BY <2>2 DEF instanceVars, InstancesInv, InstanceTypes, RequestOK, InstancesUsable, Exists,
       DefaultThere
  <2>3. QED
    BY <2>1, <2>2, InstanceStep
<1>3. QED
  BY <1>1, <1>2, PTL DEF Spec

\* The active instance exists, and every instance that was not left incomplete
\* has its default agent, whatever the old configuration and its directories,
\* for any set of instances and agents (instances/store.go).  Incomplete are
\* those a failed write, or a bootstrap whose default agent has no legacy
\* directory, left so; a request that is served to its end completes them.
THEOREM InstancesStayUsable == Spec => []InstancesUsable
<1>1. InstancesInv => InstancesUsable
  BY DEF InstancesInv
<1>2. QED
  BY <1>1, InstancesHold, PTL

-----------------------------------------------------------------------------
(* The dashboard's list.  A run that came through the queue is on file once *)
(* it began; one of a sub-agent never is, and its last line is a verdict    *)
(* only when no other line will follow.  So what a request reads of one     *)
(* source is still true when it reads the next.                             *)

JobPlaces == {"none", "stored", "waiting", "tracked", "going", "ended", "settling", "filed", "over",
              "lost"}
Lasting   == {"over", "lost"}
Logged    == Verdicts \cup {"start"}
Filings   == Verdicts \cup {None, "queued", "running"}
Shown     == Verdicts \cup {None, "running"}
Jobs      == [pc : JobPlaces, tries : Nat, verdict : Verdicts \cup {None}]

\* The last line t has of a run is its verdict.
HasVerdict(t) == t # <<>> /\ LastOf(t) # "start"

\* How far a run is, j, goes with its lines t in the audit file and its status f
\* in the store.
JobOK(r, j, t, f) ==
    /\ r \in SubRuns => /\ f = None
                        /\ j.pc \notin {"stored", "waiting", "settling", "filed"}
                        /\ HasVerdict(t) => j.pc \in {"ended", "over", "lost"}
                        /\ j.pc = "tracked" => t = <<>>
    /\ r \notin SubRuns => /\ f = None => j.pc = "none"
                           /\ f \in Verdicts => j.pc \in {"filed", "over", "lost"}
    /\ t # <<>> => j.pc \notin {"none", "stored", "waiting"}
    /\ j.pc \in {"ended", "settling"} => j.verdict \in Verdicts

JobsInv ==
    /\ job \in [Watched -> Jobs] /\ trail \in [Watched -> Seq(Logged)]
    /\ filed \in [Watched -> Filings] /\ noted \in [Watched -> Verdicts \cup {None}]
    /\ \A r \in Watched : JobOK(r, job[r], trail[r], filed[r])

Views == [pc : {"reading", "stored", "shown"}, run : Watched, line : Nat \ {0}, status : Shown,
          tracked : BOOLEAN, stored : Filings, retired : BOOLEAN, known : Verdicts \cup {None}]

\* A verdict on record when the request came in is on record still.
KnownLasts(v) ==
    v.known # None =>
        \/ v.run \notin SubRuns /\ filed[v.run] = v.known
        \/ v.run \in SubRuns /\ trail[v.run] # <<>> /\ LastOf(trail[v.run]) = v.known

ViewOK(v) ==
    /\ v \in Views
    /\ v.line <= Len(trail[v.run]) + 1
    /\ KnownLasts(v)
    \* A run of a sub-agent that is read as running but not tracked is over.
    /\ v.status = "running" /\ ~v.tracked /\ v.run \in SubRuns => job[v.run].pc \in Lasting
    /\ v.pc = "reading" =>
          /\ ~v.retired /\ (v.line > 1 <=> v.status # None)
          /\ v.known # None /\ v.run \in SubRuns /\ v.line > Len(trail[v.run]) => v.status = v.known
    /\ v.pc = "stored" => ~v.retired /\ (v.status # None /\ v.stored = None => v.run \in SubRuns)
    /\ v.pc = "stored" /\ v.known # None => v.status = v.known \/ (v.line = 1 /\ v.status = None)
    /\ v.pc = "shown" /\ v.known # None =>
          v.status = v.known \/ (v.line = 1 /\ v.status \in {None, "canceled"})
    /\ v.retired => job[v.run].pc \in Lasting

\* A note says that the run was canceled, or what the store says.
NotesOK == \A r \in Watched : \/ noted[r] \in {None, "canceled"}
                              \/ filed[r] \in Verdicts /\ noted[r] = filed[r]

MonitorInv == JobsInv /\ NotesOK /\ (view = NoView \/ ViewOK(view))

\* What a run may do to what is on record of it.
Lasts(r) ==
    /\ job[r].pc \in Lasting => job'[r].pc \in Lasting
    /\ filed[r] \in Verdicts => filed'[r] = filed[r]
    /\ \/ trail'[r] = trail[r]
       \/ ~(r \in SubRuns /\ HasVerdict(trail[r])) /\ \E e \in Logged : trail'[r] = Append(trail[r], e)

LEMMA MonitorInitOK == MonitorInit => MonitorInv
<1> SUFFICES ASSUME MonitorInit PROVE MonitorInv
  OBVIOUS
<1>1. \A r \in Watched : job[r] = [pc |-> "none", tries |-> 0, verdict |-> None]
                         /\ trail[r] = <<>> /\ filed[r] = None
  BY DEF MonitorInit
<1>2. \A r \in Watched : JobOK(r, job[r], trail[r], filed[r])
  BY <1>1, MonitorAssumption DEF JobOK, HasVerdict, Verdicts
<1>3. job \in [Watched -> Jobs]
  <2>1. [pc |-> "none", tries |-> 0, verdict |-> None] \in Jobs
    BY DEF Jobs, JobPlaces
  <2>2. job = [r \in Watched |-> [pc |-> "none", tries |-> 0, verdict |-> None]]
    BY DEF MonitorInit
  <2>3. QED
    BY <2>1, <2>2, Zenon
<1>4. trail \in [Watched -> Seq(Logged)]
  BY DEF MonitorInit
<1>5. filed \in [Watched -> Filings] /\ noted \in [Watched -> Verdicts \cup {None}]
  BY DEF MonitorInit, Filings
<1>6. view = NoView
  BY DEF MonitorInit
<1>7. NotesOK
  BY DEF MonitorInit, NotesOK
<1>8. QED
  BY <1>2, <1>3, <1>4, <1>5, <1>6, <1>7 DEF MonitorInv, JobsInv

\* A step of one run, described by what it leaves of it.
LEMMA JobMoves ==
    ASSUME JobsInv, NEW r \in Watched, NEW j \in Jobs, NEW t \in Seq(Logged), NEW f \in Filings,
           job' = [job EXCEPT ![r] = j], trail' = [trail EXCEPT ![r] = t],
           filed' = [filed EXCEPT ![r] = f], UNCHANGED noted,
           JobOK(r, j, t, f), job[r].pc \notin Lasting, filed[r] \in Verdicts => f = filed[r],
           \/ t = trail[r]
           \/ ~(r \in SubRuns /\ HasVerdict(trail[r])) /\ \E e \in Logged : t = Append(trail[r], e)
    PROVE  JobsInv' /\ \A q \in Watched : Lasts(q)
<1>1. job \in [Watched -> Jobs] /\ trail \in [Watched -> Seq(Logged)] /\ filed \in [Watched -> Filings]
  BY DEF JobsInv
<1>2. job' \in [Watched -> Jobs] /\ trail' \in [Watched -> Seq(Logged)] /\ filed' \in [Watched -> Filings]
  BY <1>1
<1>3. job'[r] = j /\ trail'[r] = t /\ filed'[r] = f
  BY <1>1
<1>4. \A q \in Watched \ {r} : job'[q] = job[q] /\ trail'[q] = trail[q] /\ filed'[q] = filed[q]
  BY <1>1
<1>5. \A q \in Watched : JobOK(q, job'[q], trail'[q], filed'[q])
  BY <1>3, <1>4 DEF JobsInv
<1>6. \A q \in Watched : Lasts(q)
  BY <1>3, <1>4 DEF Lasts
<1>7. QED
  BY <1>2, <1>5, <1>6 DEF JobsInv

LEMMA MovesAsJob ==
    ASSUME JobsInv, NEW r \in Watched, NEW from, NEW to \in JobPlaces, Moves(r, from, to)
    PROVE  \E j \in Jobs : /\ job' = [job EXCEPT ![r] = j] /\ j.pc = to
                           /\ j.verdict = job[r].verdict /\ job[r].pc = from
<1>1. job[r] \in Jobs
  BY DEF JobsInv
<1>2. [job[r] EXCEPT !.pc = to] \in Jobs
  BY <1>1 DEF Jobs
<1>3. job' = [job EXCEPT ![r] = [job[r] EXCEPT !.pc = to]] /\ job[r].pc = from
  BY DEF Moves
<1>4. [job[r] EXCEPT !.pc = to].pc = to /\ [job[r] EXCEPT !.pc = to].verdict = job[r].verdict
  BY <1>1 DEF Jobs
<1>5. QED
  BY <1>2, <1>3, <1>4

RunStep(r) ==
    \/ QueueStored(r) \/ TrackQueued(r) \/ BeginExecution(r) \/ LogStart(r) \/ FailEarly(r)
    \/ Untrack(r) \/ RunAgain(r) \/ FileVerdict(r) \/ LeaveQueue(r)
    \/ \E verdict \in Verdicts : LogEnd(r, verdict)

LEMMA RunStepKeeps ==
    ASSUME JobsInv, NEW r \in Watched, RunStep(r)
    PROVE  JobsInv' /\ \A q \in Watched : Lasts(q)
<1>1. /\ job[r] \in Jobs /\ trail[r] \in Seq(Logged) /\ filed[r] \in Filings
      /\ JobOK(r, job[r], trail[r], filed[r])
  BY DEF JobsInv
<1>2. trail = [trail EXCEPT ![r] = trail[r]] /\ filed = [filed EXCEPT ![r] = filed[r]]
  BY DEF JobsInv
<1>3. r \in StoredRuns => r \notin SubRuns
  BY MonitorAssumption
<1>4. r \in StoredRuns \/ r \in SubRuns
  BY DEF Watched
<1>5. CASE QueueStored(r)
  <2>1. PICK j \in Jobs : job' = [job EXCEPT ![r] = j] /\ j.pc = "stored" /\ job[r].pc = "none"
    BY <1>5, MovesAsJob DEF QueueStored, JobPlaces
  <2>2. "queued" \in Filings /\ "queued" \notin Verdicts /\ "queued" # None
    BY MonitorAssumption DEF Filings, Verdicts
  <2>3. UNCHANGED <<trail, noted>> /\ filed' = [filed EXCEPT ![r] = "queued"] /\ r \in StoredRuns
    BY <1>5 DEF QueueStored
  <2>4. JobOK(r, j, trail[r], "queued") /\ filed[r] \notin Verdicts
    BY <1>1, <1>3, <2>1, <2>2, <2>3 DEF JobOK
  <2>5. QED
    BY <1>1, <1>2, <2>1, <2>2, <2>3, <2>4, JobMoves DEF Lasting
<1>6. CASE TrackQueued(r) \/ Untrack(r) \/ RunAgain(r) \/ LeaveQueue(r)
  <2>1. PICK j \in Jobs :
          /\ job' = [job EXCEPT ![r] = j] /\ j.verdict = job[r].verdict
          /\ \/ job[r].pc = "stored" /\ j.pc = "waiting"
             \/ job[r].pc = "ended" /\ j.pc = (IF r \in StoredRuns THEN "settling" ELSE "over")
             \/ job[r].pc = "settling" /\ j.pc = "tracked"
             \/ job[r].pc = "filed" /\ j.pc = "over"
    BY <1>6, MovesAsJob DEF TrackQueued, Untrack, RunAgain, LeaveQueue, JobPlaces
  <2>2. UNCHANGED <<trail, filed, noted>>
    BY <1>6 DEF TrackQueued, Untrack, RunAgain, LeaveQueue
  <2>3. JobOK(r, j, trail[r], filed[r])
    <3>1. CASE r \in SubRuns
      BY <1>1, <1>3, <1>4, <2>1, <3>1 DEF JobOK
    <3>2. CASE r \notin SubRuns
      BY <1>1, <1>3, <1>4, <2>1, <3>2 DEF JobOK
    <3>3. QED
      BY <3>1, <3>2
  <2>4. job[r].pc \notin Lasting
    BY <2>1 DEF Lasting
  <2>5. trail' = [trail EXCEPT ![r] = trail[r]] /\ filed' = [filed EXCEPT ![r] = filed[r]]
        /\ UNCHANGED noted
    BY <1>2, <2>2
  <2>6. QED
    BY <1>1, <2>1, <2>3, <2>4, <2>5, JobMoves
<1>7. CASE BeginExecution(r)
  <2>1. PICK j \in Jobs :
          /\ job' = [job EXCEPT ![r] = j] /\ j.pc = "tracked"
          /\ \/ job[r].pc = "waiting" /\ r \in StoredRuns /\ filed' = [filed EXCEPT ![r] = "running"]
             \/ job[r].pc = "none" /\ r \in SubRuns /\ filed' = filed
    BY <1>7, MovesAsJob DEF BeginExecution, JobPlaces
  <2>2. UNCHANGED <<trail, noted>> /\ trail[r] = <<>>
    BY <1>1, <1>7, <2>1 DEF BeginExecution, JobOK
  <2>3. PICK f \in Filings : /\ filed' = [filed EXCEPT ![r] = f]
                             /\ IF r \in SubRuns THEN f = filed[r] ELSE f = "running"
    BY <1>1, <1>2, <1>3, <2>1 DEF Filings
  <2>4. "running" \notin Verdicts /\ "running" # None
    BY MonitorAssumption DEF Verdicts
  <2>5. JobOK(r, j, trail[r], f) /\ (filed[r] \in Verdicts => f = filed[r])
    BY <1>1, <1>3, <2>1, <2>2, <2>3, <2>4 DEF JobOK, HasVerdict
  <2>6. QED
    BY <1>1, <1>2, <2>1, <2>2, <2>3, <2>5, JobMoves DEF Lasting
<1>8. ASSUME NEW e \in Logged, NEW j \in Jobs, job' = [job EXCEPT ![r] = j], UNCHANGED <<filed, noted>>,
             \/ job[r].pc = "tracked" /\ j.pc = "going" /\ e = "start"
             \/ job[r].pc = "going" /\ j.pc = "ended" /\ j.verdict \in Verdicts,
             trail' = trail \/ trail' = [trail EXCEPT ![r] = Append(@, e)]
      PROVE  JobsInv' /\ \A q \in Watched : Lasts(q)
  <2>1. PICK t \in Seq(Logged) : /\ trail' = [trail EXCEPT ![r] = t]
                                 /\ t = trail[r] \/ t = Append(trail[r], e)
    <3>1. Append(trail[r], e) \in Seq(Logged)
      BY <1>1, AppendProperties
    <3>2. QED
      BY <1>1, <1>2, <1>8, <3>1
  <2>2. r \in SubRuns => ~HasVerdict(trail[r])
    BY <1>1, <1>8 DEF JobOK
  <2>3. r \in SubRuns /\ job[r].pc = "tracked" => ~HasVerdict(t)
    <3>1. SUFFICES ASSUME r \in SubRuns, job[r].pc = "tracked", t = Append(trail[r], e) PROVE LastOf(t) = "start"
      BY <2>1, <2>2 DEF HasVerdict
    <3>2. e = "start"
      BY <1>8, <3>1
    <3>3. QED
      BY <1>1, <3>1, <3>2, AppendProperties DEF LastOf
  <2>4. JobOK(r, j, t, filed[r])
    BY <1>1, <1>8, <2>2, <2>3 DEF JobOK
  <2>5. QED
    BY <1>1, <1>2, <1>8, <2>1, <2>2, <2>4, JobMoves DEF Lasting
<1>9. CASE LogStart(r)
  <2>1. PICK j \in Jobs : job' = [job EXCEPT ![r] = j] /\ j.pc = "going" /\ job[r].pc = "tracked"
    BY <1>9, MovesAsJob DEF LogStart, JobPlaces
  <2>2. UNCHANGED <<filed, noted>> /\ (trail' = trail \/ trail' = [trail EXCEPT ![r] = Append(@, "start")])
    BY <1>9 DEF LogStart
  <2>3. "start" \in Logged
    BY DEF Logged
  <2>4. QED
    BY <1>8, <2>1, <2>2, <2>3
<1>10. ASSUME NEW verdict \in Verdicts, LogEnd(r, verdict)
       PROVE  JobsInv' /\ \A q \in Watched : Lasts(q)
  <2>1. PICK j \in Jobs : job' = [job EXCEPT ![r] = j] /\ j.pc = "ended" /\ j.verdict = verdict
    <3>1. job' = [job EXCEPT ![r] = [job[r] EXCEPT !.pc = "ended", !.verdict = verdict, !.tries = @ + 1]]
      BY <1>10 DEF LogEnd, JobsInv, Jobs
    <3>2. "ended" \in JobPlaces /\ job[r].tries + 1 \in Nat
      BY <1>1 DEF Jobs, JobPlaces
    <3>3. [job[r] EXCEPT !.pc = "ended", !.verdict = verdict, !.tries = @ + 1] \in Jobs
      BY <1>1, <3>2 DEF Jobs
    <3>4. QED
      BY <1>1, <3>1, <3>3 DEF Jobs
  <2>2. job[r].pc = "going" /\ UNCHANGED <<filed, noted>>
        /\ (trail' = trail \/ trail' = [trail EXCEPT ![r] = Append(@, verdict)])
    BY <1>10 DEF LogEnd
  <2>3. verdict \in Logged
    BY DEF Logged
  <2>4. QED
    BY <1>8, <2>1, <2>2, <2>3
<1>11. CASE FailEarly(r)
  <2>1. PICK j \in Jobs : job' = [job EXCEPT ![r] = j] /\ j.pc = "ended" /\ j.verdict = "failed"
    <3>1. job' = [job EXCEPT ![r] = [job[r] EXCEPT !.pc = "ended", !.verdict = "failed", !.tries = MaxTries]]
      BY <1>11 DEF FailEarly, JobsInv, Jobs
    <3>2. [job[r] EXCEPT !.pc = "ended", !.verdict = "failed", !.tries = MaxTries] \in Jobs
      BY <1>1, MonitorAssumption DEF Jobs, JobPlaces, Verdicts
    <3>3. QED
      BY <1>1, <3>1, <3>2 DEF Jobs
  <2>2. job[r].pc = "tracked" /\ UNCHANGED <<trail, filed, noted>>
    BY <1>11 DEF FailEarly
  <2>3. JobOK(r, j, trail[r], filed[r])
    BY <1>1, <2>1, <2>2 DEF JobOK, Verdicts
  <2>4. QED
    BY <1>1, <1>2, <2>1, <2>2, <2>3, JobMoves DEF Lasting
<1>12. CASE FileVerdict(r)
  <2>1. PICK j \in Jobs : job' = [job EXCEPT ![r] = j] /\ j.pc = "filed" /\ job[r].pc = "settling"
    BY <1>12, MovesAsJob DEF FileVerdict, JobPlaces
  <2>2. job[r].verdict \in Verdicts /\ r \notin SubRuns /\ filed[r] \notin Verdicts
    BY <1>1, <2>1 DEF JobOK
  <2>3. PICK f \in Filings : filed' = [filed EXCEPT ![r] = f] /\ f \in {filed[r], job[r].verdict}
    BY <1>1, <1>2, <1>12, <2>2 DEF FileVerdict, Filings
  <2>4. UNCHANGED <<trail, noted>>
    BY <1>12 DEF FileVerdict
  <2>5. JobOK(r, j, trail[r], f)
    BY <1>1, <2>1, <2>2, <2>3, MonitorAssumption DEF JobOK, Verdicts
  <2>6. QED
    BY <1>1, <1>2, <2>1, <2>2, <2>3, <2>4, <2>5, JobMoves DEF Lasting
<1>13. QED
  BY <1>5, <1>6, <1>7, <1>9, <1>10, <1>11, <1>12 DEF RunStep

LEMMA CrashKeeps == ASSUME JobsInv, MonitorCrash PROVE JobsInv' /\ view' = NoView
<1>1. /\ job' = [r \in Watched |-> IF job[r].pc \in {"none", "over"} THEN job[r]
                                   ELSE [job[r] EXCEPT !.pc = "lost"]]
      /\ noted' = [r \in Watched |-> None] /\ UNCHANGED <<trail, filed>> /\ view' = NoView
  BY DEF MonitorCrash
<1>2. ASSUME NEW r \in Watched PROVE job'[r] \in Jobs /\ JobOK(r, job'[r], trail'[r], filed'[r])
  <2>1. job[r] \in Jobs /\ JobOK(r, job[r], trail[r], filed[r])
    BY DEF JobsInv
  <2>2. CASE job'[r] = job[r]
    BY <1>1, <2>1, <2>2
  <2>3. CASE job'[r] = [job[r] EXCEPT !.pc = "lost"]
    <3>1. job'[r] \in Jobs /\ job'[r].pc = "lost"
      BY <2>1, <2>3 DEF Jobs, JobPlaces
    <3>2. job[r].pc \in {"none", "over"} \/ filed[r] # None \/ r \in SubRuns
      BY <2>1 DEF JobOK
    <3>3. CASE job[r].pc \in {"none", "over"}
      <4>1. job'[r] = job[r]
        BY <1>1, <3>3
      <4>2. QED
        BY <1>1, <2>1, <4>1
    <3>4. CASE job[r].pc \notin {"none", "over"}
      BY <1>1, <2>1, <3>1, <3>2, <3>4 DEF JobOK
    <3>5. QED
      BY <3>3, <3>4
  <2>4. QED
    BY <1>1, <2>2, <2>3
<1>3. job' \in [Watched -> Jobs]
  BY <1>1, <1>2
<1>4. QED
  BY <1>1, <1>2, <1>3 DEF JobsInv

\* What the request holds stays true while the runs go on.
LEMMA ViewLasts ==
    ASSUME JobsInv, ViewOK(view), UNCHANGED view, \A q \in Watched : Lasts(q)
    PROVE  ViewOK(view)'
<1> DEFINE r == view.run
<1>1. view \in Views /\ r \in Watched /\ view.line \in Nat
  BY DEF ViewOK, Views
<1>2. Lasts(r) /\ trail[r] \in Seq(Logged)
  BY <1>1 DEF JobsInv
<1>3. Len(trail'[r]) \in Nat /\ Len(trail[r]) \in Nat /\ Len(trail[r]) <= Len(trail'[r])
      /\ (trail[r] # <<>> => trail'[r] # <<>>)
  BY <1>2, AppendProperties DEF Lasts
<1>4. KnownLasts(view)'
  <2>1. SUFFICES ASSUME view.known # None
                 PROVE  \/ r \notin SubRuns /\ filed'[r] = view.known
                        \/ r \in SubRuns /\ trail'[r] # <<>> /\ LastOf(trail'[r]) = view.known
    BY DEF KnownLasts
  <2>2. view.known \in Verdicts
    BY <1>1, <2>1 DEF Views
  <2>3. KnownLasts(view)
    BY DEF ViewOK
  <2>4. CASE r \notin SubRuns
    BY <1>2, <1>3, <2>1, <2>2, <2>3, <2>4 DEF KnownLasts, Lasts
  <2>5. CASE r \in SubRuns
    <3>1. trail[r] # <<>> /\ LastOf(trail[r]) = view.known
      BY <2>1, <2>3, <2>5 DEF KnownLasts
    <3>2. HasVerdict(trail[r])
      BY <2>2, <3>1 DEF HasVerdict, Verdicts
    <3>3. trail'[r] = trail[r]
      BY <1>2, <2>5, <3>2 DEF Lasts
    <3>4. QED
      BY <2>5, <3>1, <3>3
  <2>6. QED
    BY <2>4, <2>5
<1>5. job[r].pc \in Lasting => job'[r].pc \in Lasting
  BY <1>2 DEF Lasts
<1>6. view.line <= Len(trail[r]) + 1 => view.line <= Len(trail'[r]) + 1
  BY <1>1, <1>3
<1>7. view.line > Len(trail'[r]) => view.line > Len(trail[r])
  BY <1>1, <1>3
<1>8. QED
  BY <1>1, <1>4, <1>5, <1>6, <1>7 DEF ViewOK

\* The request itself changes no run.
LEMMA OpenKeeps ==
    ASSUME JobsInv, NEW r \in Watched, OpenMonitor(r)
    PROVE  ViewOK(view)'
<1>1. /\ UNCHANGED <<job, trail, filed>>
      /\ view' = [pc |-> "reading", run |-> r, line |-> 1, status |-> None, tracked |-> FALSE,
                  stored |-> None, retired |-> FALSE, known |-> KnownVerdict(r)]
  BY DEF OpenMonitor
<1>2. trail[r] \in Seq(Logged) /\ filed[r] \in Filings /\ JobOK(r, job[r], trail[r], filed[r])
  BY DEF JobsInv
<1>3. trail[r] # <<>> => LastOf(trail[r]) \in Logged
  BY <1>2 DEF LastOf
<1>4. KnownVerdict(r) \in Verdicts \cup {None}
  BY <1>2, <1>3 DEF KnownVerdict, Logged
<1>5. KnownVerdict(r) # None =>
        \/ r \notin SubRuns /\ filed[r] = KnownVerdict(r)
        \/ r \in SubRuns /\ trail[r] # <<>> /\ LastOf(trail[r]) = KnownVerdict(r)
  BY <1>2, MonitorAssumption DEF KnownVerdict, JobOK, Verdicts
<1> DEFINE known == KnownVerdict(r)
<1> HIDE DEF known
<1>6. view' = [pc |-> "reading", run |-> r, line |-> 1, status |-> None, tracked |-> FALSE,
               stored |-> None, retired |-> FALSE, known |-> known]
  BY <1>1 DEF known
<1>7. view' \in Views
  BY <1>4, <1>6 DEF Views, Shown, Filings, known
<1>8. KnownLasts(view)'
  BY <1>1, <1>5, <1>6 DEF KnownLasts, known
<1>9. Len(trail[r]) \in Nat /\ (trail[r] # <<>> => Len(trail[r]) > 0)
  BY <1>2
<1>10. None # "running"
  BY MonitorAssumption
<1>11. QED
  BY <1>1, <1>5, <1>6, <1>7, <1>8, <1>9, <1>10 DEF ViewOK, known

LEMMA ReadLineKeeps ==
    ASSUME JobsInv, view = NoView \/ ViewOK(view), ReadAuditLine
    PROVE  ViewOK(view)'
<1> DEFINE r == view.run
           e == trail[r][view.line]
           tracked == view.tracked \/ Tracked(r)
           status == IF e # "start" THEN e
                     ELSE IF tracked \/ view.status = None THEN "running" ELSE view.status
<1>1. view.pc = "reading" /\ view.line <= Len(trail[r]) /\ UNCHANGED <<job, trail, filed>>
  BY DEF ReadAuditLine
<1>2. ViewOK(view) /\ view \in Views
  BY <1>1 DEF NoView, ViewOK
<1>3. r \in Watched /\ view.line \in Nat \ {0} /\ view.status \in Shown /\ view.tracked \in BOOLEAN
  BY <1>2 DEF Views
<1>4. trail[r] \in Seq(Logged) /\ JobOK(r, job[r], trail[r], filed[r])
  BY <1>3 DEF JobsInv
<1>5. e \in Logged /\ trail[r] # <<>> /\ Len(trail[r]) \in Nat
  BY <1>1, <1>3, <1>4
<1>6. view' = [view EXCEPT !.line = view.line + 1, !.tracked = tracked, !.status = status]
  BY DEF ReadAuditLine
<1>7. status \in Shown /\ status # None
  BY <1>3, <1>5, MonitorAssumption DEF Shown, Logged, Verdicts
<1>8. tracked \in BOOLEAN
  BY <1>3 DEF Tracked
<1>9. e # "start" => status = e
  OBVIOUS
<1>10. status = "running" /\ ~tracked /\ r \in SubRuns => job[r].pc \in Lasting
  <2>1. SUFFICES ASSUME ~tracked, r \in SubRuns PROVE job[r].pc \in Lasting
    OBVIOUS
  <2>2. job[r].pc \notin {"tracked", "going", "ended", "none", "stored", "waiting", "settling", "filed"}
    BY <1>4, <1>5, <2>1 DEF JobOK, Tracked
  <2>3. job[r].pc \in JobPlaces
    BY <1>3 DEF JobsInv, Jobs
  <2>4. QED
    BY <2>2, <2>3 DEF JobPlaces, Lasting
<1>11. view.known # None /\ r \in SubRuns /\ view.line + 1 > Len(trail[r]) => status = view.known
  <2>1. SUFFICES ASSUME view.known # None, r \in SubRuns, view.line + 1 > Len(trail[r])
                 PROVE  status = view.known
    OBVIOUS
  <2>2. LastOf(trail[r]) = view.known /\ view.known \in Verdicts
    BY <1>2, <2>1 DEF ViewOK, KnownLasts, Views
  <2>3. view.line = Len(trail[r])
    BY <1>1, <1>3, <1>5, <2>1
  <2>4. e = view.known /\ e # "start"
    BY <2>2, <2>3 DEF LastOf, Verdicts
  <2>5. QED
    BY <1>9, <2>4
<1> HIDE DEF tracked, status, e
<1> DEFINE next == view.line + 1
<1>a. next \in Nat \ {0}
  BY <1>3
<1>b. view' = [view EXCEPT !.line = next, !.tracked = tracked, !.status = status]
  BY <1>6
<1> HIDE DEF next
<1>c. view' \in Views
  BY <1>2, <1>7, <1>8, <1>a, <1>b DEF Views
<1>d. /\ view'.pc = "reading" /\ view'.run = r /\ view'.line = next
      /\ view'.status = status /\ view'.tracked = tracked /\ view'.known = view.known
      /\ view'.retired = view.retired
  BY <1>1, <1>2, <1>b DEF Views
<1>12. /\ view' \in Views /\ view'.pc = "reading" /\ view'.run = r /\ view'.line = view.line + 1
       /\ view'.status = status /\ view'.tracked = tracked /\ view'.known = view.known
       /\ view'.retired = view.retired
  BY <1>c, <1>d DEF next
<1>13. view.line + 1 > 1 /\ view.line + 1 <= Len(trail[r]) + 1
  BY <1>1, <1>3, <1>5
<1>14. KnownLasts(view)'
  BY <1>1, <1>2, <1>12 DEF ViewOK, KnownLasts
<1>15. QED
  BY <1>1, <1>2, <1>7, <1>10, <1>11, <1>12, <1>13, <1>14 DEF ViewOK

LEMMA ReadStoreKeeps ==
    ASSUME JobsInv, view = NoView \/ ViewOK(view), ReadRunStore
    PROVE  ViewOK(view)'
<1> DEFINE r == view.run
           f == filed[r]
           settled == view.status # None /\ f \in Verdicts
           status  == IF settled THEN f ELSE view.status
           tracked == view.tracked /\ ~settled
<1>1. view.pc = "reading" /\ view.line > Len(trail[r]) /\ UNCHANGED <<job, trail, filed>>
  BY DEF ReadRunStore
<1>2. ViewOK(view) /\ view \in Views
  BY <1>1 DEF NoView, ViewOK
<1>3. /\ r \in Watched /\ view.line \in Nat \ {0} /\ view.status \in Shown
      /\ view.tracked \in BOOLEAN /\ view.known \in Verdicts \cup {None}
  BY <1>2 DEF Views
<1>4. trail[r] \in Seq(Logged) /\ f \in Filings /\ JobOK(r, job[r], trail[r], f)
  BY <1>3 DEF JobsInv
<1>5. view' = [view EXCEPT !.pc = "stored", !.stored = f, !.status = status, !.tracked = tracked]
  BY DEF ReadRunStore
<1>6. status \in Shown /\ tracked \in BOOLEAN
  BY <1>3 DEF Shown
<1>7. view.status # None /\ f = None => r \in SubRuns
  <2>1. SUFFICES ASSUME view.status # None, f = None, r \notin SubRuns PROVE FALSE
    OBVIOUS
  <2>2. job[r].pc = "none" /\ trail[r] = <<>>
    BY <1>4, <2>1 DEF JobOK
  <2>3. view.line > 1 /\ view.line <= 1
    BY <1>1, <1>2, <2>1, <2>2 DEF ViewOK
  <2>4. QED
    BY <1>3, <2>3
<1>8. view.known # None => status = view.known \/ (view.line = 1 /\ status = None)
  <2>1. SUFFICES ASSUME view.known # None
                 PROVE  status = view.known \/ (view.line = 1 /\ status = None)
    OBVIOUS
  <2>2. KnownLasts(view)
    BY <1>2 DEF ViewOK
  <2>3. view.status # None \/ view.line = 1
    BY <1>1, <1>2, <1>3 DEF ViewOK
  <2>4. CASE r \in SubRuns
    <3>1. view.status = view.known /\ f \notin Verdicts
      BY <1>1, <1>2, <1>4, <2>1, <2>4, MonitorAssumption DEF ViewOK, JobOK, Verdicts
    <3>2. QED
      BY <3>1
  <2>5. CASE r \notin SubRuns
    <3>1. f = view.known /\ f \in Verdicts
      BY <1>3, <2>1, <2>2, <2>5 DEF KnownLasts
    <3>2. CASE view.status # None
      BY <3>1, <3>2
    <3>3. CASE view.status = None
      BY <2>3, <3>3
    <3>4. QED
      BY <3>2, <3>3
  <2>6. QED
    BY <2>4, <2>5
<1>9. status = "running" /\ ~tracked => view.status = "running" /\ ~view.tracked
  BY DEF Verdicts
<1>10. status # None => view.status # None
  OBVIOUS
<1> HIDE DEF status, tracked, f
<1>11. view' \in Views
  BY <1>2, <1>4, <1>5, <1>6 DEF Views
<1>12. /\ view'.pc = "stored" /\ view'.run = r /\ view'.line = view.line /\ view'.stored = f
       /\ view'.status = status /\ view'.tracked = tracked /\ view'.known = view.known
       /\ view'.retired = view.retired
  BY <1>2, <1>5 DEF Views
<1>13. KnownLasts(view)'
  BY <1>1, <1>2, <1>12 DEF ViewOK, KnownLasts
<1>14. QED
  BY <1>1, <1>2, <1>7, <1>8, <1>9, <1>10, <1>11, <1>12, <1>13 DEF ViewOK

\* A note changes what is shown to a verdict, and a run given up is over.
LEMMA ReconcileKeeps ==
    ASSUME JobsInv, NotesOK, view = NoView \/ ViewOK(view), ReconcileRecords
    PROVE  JobsInv' /\ NotesOK' /\ ViewOK(view)'
<1> DEFINE r == view.run
<1>1. view.pc = "stored" /\ UNCHANGED <<job, trail, filed>>
  BY DEF ReconcileRecords
<1>2. ViewOK(view) /\ view \in Views
  BY <1>1 DEF NoView, ViewOK
<1>3. PICK v : /\ v = AfterNotes(view)
               /\ \E w : /\ w = IF Stale(v) THEN [v EXCEPT !.status = "failed", !.retired = TRUE] ELSE v
                         /\ view' = [w EXCEPT !.pc = "shown"]
                         /\ noted' = IF w.status \in Verdicts THEN [noted EXCEPT ![w.run] = None] ELSE noted
  BY DEF ReconcileRecords
<1>4. PICK w : /\ w = IF Stale(v) THEN [v EXCEPT !.status = "failed", !.retired = TRUE] ELSE v
               /\ view' = [w EXCEPT !.pc = "shown"]
               /\ noted' = IF w.status \in Verdicts THEN [noted EXCEPT ![w.run] = None] ELSE noted
  BY <1>3
<1>5. JobsInv'
  BY <1>1, <1>4 DEF JobsInv
<1>6. /\ v \in Views /\ v.run = r /\ v.line = view.line /\ v.known = view.known /\ v.stored = view.stored
      /\ v.retired = view.retired /\ v.pc = "stored"
      /\ \/ v.status = view.status /\ v.tracked = view.tracked
         \/ v.status \in Verdicts /\ view.status \notin Verdicts /\ v.status = noted[r]
  <2>1. r \in Watched /\ noted[r] \in Verdicts \cup {None}
    BY <1>2 DEF Views, JobsInv
  <2>2. CASE v = view
    BY <1>1, <1>2, <2>2
  <2>3. CASE v # view
    <3>1. /\ v = [view EXCEPT !.status = noted[r], !.tracked = FALSE] /\ noted[r] # None
          /\ view.status \notin Verdicts
      BY <1>3, <2>3, MonitorAssumption DEF AfterNotes, Verdicts
    <3>2. QED
      BY <1>1, <1>2, <2>1, <3>1 DEF Views, Shown
  <2>4. QED
    BY <2>2, <2>3
<1>7. view.known # None => \/ view.status = view.known /\ view.status \in Verdicts
                           \/ view.line = 1 /\ view.status = None
  BY <1>1, <1>2 DEF ViewOK, Views
<1>8. v.known # None => \/ v.status = v.known /\ v.status \in Verdicts
                        \/ v.line = 1 /\ v.status \in {None, "canceled"}
  <2>1. SUFFICES ASSUME v.known # None, v.status # view.status
                 PROVE  \/ v.status = v.known /\ v.status \in Verdicts
                        \/ v.line = 1 /\ v.status \in {None, "canceled"}
    BY <1>6, <1>7
  <2>2. v.status = noted[r] /\ v.status \in Verdicts /\ view.line = 1
    BY <1>6, <1>7, <2>1
  <2>3. r \in Watched /\ view.line \in Nat
    BY <1>2 DEF Views
  <2>4. KnownLasts(view) /\ view.known # None
    BY <1>2, <1>6, <2>1 DEF ViewOK
  <2>5. CASE noted[r] = "canceled"
    BY <1>6, <2>2, <2>5
  <2>6. CASE noted[r] # "canceled"
    <3>1. filed[r] \in Verdicts /\ noted[r] = filed[r]
      BY <2>2, <2>3, <2>6, MonitorAssumption DEF NotesOK, Verdicts
    <3>2. r \notin SubRuns
      BY <2>3, <3>1, MonitorAssumption DEF JobsInv, JobOK, Verdicts
    <3>3. QED
      BY <1>6, <2>2, <2>4, <3>1, <3>2 DEF KnownLasts
  <2>7. QED
    BY <2>5, <2>6
<1>9. Stale(v) => job[r].pc \in Lasting /\ r \in SubRuns
  <2>1. SUFFICES ASSUME Stale(v) PROVE job[r].pc \in Lasting /\ r \in SubRuns
    OBVIOUS
  <2>2. v.status = "running" /\ ~v.tracked /\ v.stored = None
    BY <2>1 DEF Stale
  <2>3. view.status = "running" /\ ~view.tracked /\ view.stored = None
    BY <1>6, <2>2 DEF Verdicts
  <2>4. QED
    BY <1>1, <1>2, <2>3, MonitorAssumption DEF ViewOK
<1>10. /\ w \in Views /\ w.run = r /\ w.line = view.line /\ w.known = view.known /\ w.pc = "stored"
       /\ w.retired => Stale(v)
       /\ \/ w.status = v.status /\ w.tracked = v.tracked
          \/ w.status = "failed" /\ Stale(v)
  <2>1. ~v.retired
    BY <1>1, <1>2, <1>6 DEF ViewOK
  <2>2. CASE Stale(v)
    BY <1>4, <1>6, <2>2 DEF Views, Shown, Verdicts
  <2>3. CASE ~Stale(v)
    BY <1>4, <1>6, <2>1, <2>3
  <2>4. QED
    BY <2>2, <2>3
<1>11. w.known # None => w.status = w.known \/ (w.line = 1 /\ w.status \in {None, "canceled"})
  BY <1>6, <1>8, <1>10, MonitorAssumption DEF Stale, Verdicts
<1>12. w.status = "running" /\ ~w.tracked /\ r \in SubRuns => job[r].pc \in Lasting
  BY <1>2, <1>6, <1>10 DEF ViewOK, Verdicts
<1>13. /\ view' \in Views /\ view'.pc = "shown" /\ view'.run = r /\ view'.line = view.line
       /\ view'.known = view.known /\ view'.status = w.status /\ view'.tracked = w.tracked
       /\ view'.retired = w.retired
  BY <1>4, <1>10 DEF Views
<1>14. KnownLasts(view)'
  BY <1>1, <1>2, <1>13 DEF ViewOK, KnownLasts
<1>15. ViewOK(view)'
  BY <1>1, <1>2, <1>9, <1>10, <1>11, <1>12, <1>13, <1>14 DEF ViewOK
<1>16. NotesOK'
  BY <1>1, <1>4 DEF NotesOK, JobsInv
<1>17. QED
  BY <1>5, <1>15, <1>16

\* What the store says of a run that is over it says for ever.
LEMMA NotesLast ==
    ASSUME NotesOK, UNCHANGED noted, \A q \in Watched : Lasts(q)
    PROVE  NotesOK'
  BY DEF NotesOK, Lasts

LEMMA MonitorStep == ASSUME MonitorInv, MonitorNext PROVE MonitorInv'
<1> USE DEF MonitorInv
<1>1. ASSUME NEW r \in Watched, RunStep(r) PROVE MonitorInv'
  <2>1. UNCHANGED <<view, noted>>
    BY <1>1 DEF RunStep, QueueStored, TrackQueued, BeginExecution, LogStart, FailEarly, Untrack,
       RunAgain, FileVerdict, LeaveQueue, LogEnd
  <2>2. QED
    BY <1>1, <2>1, RunStepKeeps, ViewLasts, NotesLast
<1>2. ASSUME NEW r \in Watched, GrowOld(r) \/ CancelFromMonitor(r) \/ NoteExpires(r) PROVE MonitorInv'
  <2>1. UNCHANGED <<job, trail, filed, view>>
    BY <1>2 DEF GrowOld, CancelFromMonitor, NoteExpires
  <2>2. noted' \in [Watched -> Verdicts \cup {None}]
    BY <1>2 DEF GrowOld, CancelFromMonitor, NoteExpires, JobsInv, Verdicts
  <2>3. JobsInv' /\ \A q \in Watched : Lasts(q)
    BY <2>1, <2>2 DEF JobsInv, Lasts
  <2>4. NotesOK'
    BY <1>2, <2>1 DEF NotesOK, GrowOld, CancelFromMonitor, NoteExpires, JobsInv
  <2>5. QED
    BY <2>1, <2>3, <2>4, ViewLasts
<1>3. ASSUME NEW r \in Watched, OpenMonitor(r) PROVE MonitorInv'
  BY <1>3, OpenKeeps DEF OpenMonitor, JobsInv, NotesOK
<1>4. CASE MonitorCrash
  <2>1. NotesOK'
    BY <1>4 DEF MonitorCrash, NotesOK
  <2>2. QED
    BY <1>4, <2>1, CrashKeeps
<1>5. CASE ReadAuditLine
  BY <1>5, ReadLineKeeps DEF ReadAuditLine, JobsInv, NotesOK
<1>6. CASE ReadRunStore
  BY <1>6, ReadStoreKeeps DEF ReadRunStore, JobsInv, NotesOK
<1>7. CASE ReconcileRecords
  BY <1>7, ReconcileKeeps
<1>8. QED
  BY <1>1, <1>2, <1>3, <1>4, <1>5, <1>6, <1>7 DEF MonitorNext, RunStep

\* The invariant holds throughout.
LEMMA MonitorHolds == Spec => []MonitorInv
<1>1. Init => MonitorInv
  BY MonitorInitOK DEF Init
<1>2. MonitorInv /\ [Next]_vars => MonitorInv'
  <2> SUFFICES ASSUME MonitorInv, [Next]_vars PROVE MonitorInv'
    OBVIOUS
  <2>1. MonitorNext \/ UNCHANGED monitorVars
    BY DEF Next, vars, Rest
  <2>2. CASE UNCHANGED monitorVars
    BY <2>2 DEF monitorVars, MonitorInv, JobsInv, NotesOK, ViewOK, KnownLasts
  <2>3. QED
    BY <2>1, <2>2, MonitorStep
<1>3. QED
  BY <1>1, <1>2, PTL DEF Spec

\* Whatever runs do while a request looks at one source after the other, the
\* dashboard gives up no run that goes on and takes back no verdict that was on
\* record but for a run without audit lines, which it does not list or, on a note,
\* lists as canceled (collectMonitorRuns, reconcileMonitorRunRecords).
THEOREM MonitorStaysTruthful == Spec => []MonitorTruthful
<1>1. MonitorInv => MonitorTruthful
  BY DEF MonitorInv, ViewOK, MonitorTruthful, Alive, Lasting, NoView
<1>2. QED
  BY <1>1, MonitorHolds, PTL

-----------------------------------------------------------------------------
(* The prompt layers.  A version is found at its place in the file of its   *)
(* layer.  Of a rollback nobody else wrote during, each layer is either     *)
(* still to be called for, being written, or as it was wanted.              *)

Contents == Editors \cup {Blank, FromDocs}
LayerEntries == [content : Contents, version : Nat, at : Nat]
LayerCalls == [layer : Layers, content : Contents, version : Nat]
Edits == [pc : {"calls", "write"}, then : {"update", "rollback", "restore", "restored", "end"},
          target : Layers \cup {None}, layer : Layers \cup {None}, next : Seq(LayerEntries),
          calls : SUBSET LayerCalls, versions : [Layers -> Nat], alone : BOOLEAN]

Sound(h, clock) ==
    /\ h \in Seq(LayerEntries)
    /\ \A i \in DOMAIN h : h[i].version = i /\ h[i].at \in 1..clock

\* What a rollback wants of a layer, and the call of the store that gets it.
Wanted(e, l) ==
    IF editor[e].versions[l] = 0 THEN Blank ELSE layerFile[l][editor[e].versions[l]].content
CallFor(e, l) ==
    IF editor[e].versions[l] = 0 THEN Set(l, Blank) ELSE Restore(l, editor[e].versions[l])

\* The file being written is the one there is, and the version wanted after it.
Continues(e, l) ==
    LET h == layerFile[l]
        n == editor[e].next
    IN  /\ Len(n) = Len(h) + 1 /\ \A i \in DOMAIN h : n[i] = h[i]
        /\ LastOf(n).content = Wanted(e, l)

Restoring(e) ==
    /\ \A c \in editor[e].calls : c = CallFor(e, c.layer)
    /\ editor[e].pc = "write" => Continues(e, editor[e].layer)
    /\ \A l \in Layers : \/ Content(layerFile[l]) = Wanted(e, l)
                         \/ CallFor(e, l) \in editor[e].calls
                         \/ editor[e].pc = "write" /\ editor[e].layer = l

AloneOK(e) ==
    /\ \A l \in Layers : editor[e].versions[l] <= Len(layerFile[l])
    /\ editor[e].then \in {"restore", "restored"}
    /\ editor[e].then = "restore" => editor[e].pc = "calls" /\ editor[e].calls = {}
    /\ editor[e].then = "restored" => Restoring(e)

EditOK(e) ==
    /\ editor[e] \in Edits
    /\ editor[e].then = "update" => editor[e].target \in Layers
    /\ editor[e].pc = "write" => /\ editor[e].layer \in Layers /\ Sound(editor[e].next, promptClock)
                                 /\ editor[e].next # <<>>
    /\ editor[e].alone => AloneOK(e)

PromptInv ==
    /\ promptClock \in Nat /\ DOMAIN layerFile = Layers /\ DOMAIN editor = Editors
    /\ \A l \in Layers : Sound(layerFile[l], promptClock)
    /\ \A e \in Editors : editor[e] = NoEdit \/ EditOK(e)

\* What the store reads of a sound file.
LEMMA SoundRead ==
    ASSUME NEW h, NEW clock \in Nat, Sound(h, clock)
    PROVE  /\ Version(h) = Len(h) /\ Len(h) \in Nat
           /\ \A v \in Nat : Known(h, v) => v \in 1..Len(h)
           /\ \A v \in 1..Len(h) : Known(h, v) /\ TextOf(h, v) = h[v].content
<1>1. h \in Seq(LayerEntries) /\ Len(h) \in Nat /\ DOMAIN h = 1..Len(h)
  BY DEF Sound
<1>2. \A i \in 1..Len(h) : h[i].version = i
  BY <1>1 DEF Sound
<1>3. Version(h) = Len(h)
  BY <1>1, <1>2 DEF Version, LastOf
<1>4. \A v \in Nat : Known(h, v) => v \in 1..Len(h)
  BY <1>1, <1>2 DEF Known, SetOf
<1>5. ASSUME NEW v \in 1..Len(h) PROVE Known(h, v) /\ TextOf(h, v) = h[v].content
  <2>1. h[v] \in SetOf(h) /\ h[v].version = v
    BY <1>1, <1>2 DEF SetOf
  <2>2. \A x \in SetOf(h) : x.version = v => x = h[v]
    BY <1>1, <1>2 DEF SetOf
  <2>3. (CHOOSE x \in SetOf(h) : x.version = v) = h[v]
    BY <2>1, <2>2
  <2>4. QED
    BY <2>1, <2>3 DEF Known, TextOf
<1>6. QED
  BY <1>1, <1>3, <1>4, <1>5

LEMMA SoundAppend ==
    ASSUME NEW h, NEW clock \in Nat, Sound(h, clock), NEW x \in LayerEntries,
           x.version = Version(h) + 1, x.at = clock + 1, NEW n, n = Append(h, x)
    PROVE  /\ Sound(n, clock + 1) /\ n # <<>> /\ Len(n) = Len(h) + 1
           /\ \A i \in DOMAIN h : n[i] = h[i]
           /\ LastOf(n) = x
<1>1. h \in Seq(LayerEntries) /\ Len(h) \in Nat /\ DOMAIN h = 1..Len(h) /\ Version(h) = Len(h)
  <2>1. h \in Seq(LayerEntries)
    BY DEF Sound
  <2>2. Version(h) = Len(h)
    BY SoundRead
  <2>3. QED
    BY <2>1, <2>2
<1>2. x.version = Len(h) + 1 /\ x.at \in 1..(clock + 1)
  BY <1>1
<1>3. /\ n \in Seq(LayerEntries) /\ Len(n) = Len(h) + 1
      /\ \A i \in 1..Len(h) : n[i] = h[i]
      /\ n[Len(h) + 1] = x
  BY <1>1, AppendProperties
<1>4. ASSUME NEW i \in 1..(Len(h) + 1) PROVE n[i].version = i /\ n[i].at \in 1..(clock + 1)
  <2>1. CASE i \in 1..Len(h)
    <3>1. h[i].version = i /\ h[i].at \in 1..clock
      BY <1>1, <2>1 DEF Sound
    <3>2. QED
      BY <1>3, <2>1, <3>1
  <2>2. CASE i = Len(h) + 1
    BY <1>2, <1>3, <2>2
  <2>3. QED
    BY <1>1, <2>1, <2>2
<1>5. DOMAIN n = 1..(Len(h) + 1) /\ n # <<>>
  BY <1>1, <1>3
<1>6. QED
  BY <1>1, <1>2, <1>3, <1>4, <1>5 DEF Sound, LastOf

\* A snapshot has of each layer a version it had, or none.
LEMMA SnapshotThere ==
    ASSUME PromptInv, NEW t, NEW l \in Layers
    PROVE  Version(Snapshot(t)[l]) \in 0..Len(layerFile[l])
<1> DEFINE h == layerFile[l]
           n == Cardinality(Past(l, t))
<1>1. h \in Seq(LayerEntries) /\ Len(h) \in Nat /\ \A i \in 1..Len(h) : h[i].version = i
  BY DEF PromptInv, Sound
<1>2. n \in 0..Len(h)
  <2>1. IsFiniteSet(1..Len(h)) /\ Cardinality(1..Len(h)) = Len(h)
    <3>1. PICK k \in Nat : k = Len(h)
      BY <1>1
    <3>2. IsFiniteSet(1..k) /\ Cardinality(1..k) = IF 1 > k THEN 0 ELSE k - 1 + 1
      BY FS_Interval
    <3>3. QED
      BY <3>1, <3>2
  <2>2. Past(l, t) \subseteq 1..Len(h)
    BY <1>1 DEF Past
  <2>3. IsFiniteSet(Past(l, t)) /\ n <= Len(h)
    BY <2>1, <2>2, FS_Subset
  <2>4. n \in Nat
    BY <2>3, FS_CardinalityType
  <2>5. QED
    BY <1>1, <2>3, <2>4
<1>3. Snapshot(t)[l] = SubSeq(h, 1, n)
  <2>1. Snapshot(t) = [k \in Layers |-> SubSeq(layerFile[k], 1, Cardinality(Past(k, t)))]
    BY DEF Snapshot
  <2>2. QED
    BY <2>1
<1> HIDE DEF n, h
<1>4. SubSeq(h, 1, n) \in Seq(LayerEntries) /\ Len(SubSeq(h, 1, n)) = n
      /\ \A i \in 1..n : SubSeq(h, 1, n)[i] = h[i]
  <2>1. 1 \in 1..(Len(h) + 1) /\ n \in 0..Len(h)
    BY <1>1, <1>2
  <2>2. QED
    BY <1>1, <1>2, SubSeqProperties
<1>5. CASE n = 0
  BY <1>3, <1>4, <1>5, <1>1 DEF Version, h
<1>6. CASE n # 0
  <2>1. n \in 1..n /\ n \in 1..Len(h)
    BY <1>1, <1>2, <1>6
  <2>2. SubSeq(h, 1, n) # <<>> /\ LastOf(SubSeq(h, 1, n)).version = n
    BY <1>1, <1>4, <2>1 DEF LastOf
  <2>3. QED
    BY <1>2, <1>3, <2>2 DEF Version, h
<1>7. QED
  BY <1>5, <1>6

LEMMA PromptInitOK == PromptInit => PromptInv
  BY DEF PromptInit, PromptInv, Sound

\* A step of one request that writes no file.
LEMMA EditorMoves ==
    ASSUME PromptInv, NEW e \in Editors, NEW r, editor' = [editor EXCEPT ![e] = r],
           UNCHANGED layerFile, promptClock' \in {promptClock, promptClock + 1},
           r = NoEdit \/ EditOK(e)'
    PROVE  PromptInv'
<1>1. promptClock \in Nat /\ promptClock' \in Nat /\ promptClock <= promptClock'
  BY DEF PromptInv
<1>2. \A h : Sound(h, promptClock) => Sound(h, promptClock')
  BY <1>1 DEF Sound
<1>3. ASSUME NEW f \in Editors, f # e PROVE editor'[f] = NoEdit \/ EditOK(f)'
  <2>1. editor'[f] = editor[f]
    BY <1>3 DEF PromptInv
  <2>2. CASE editor[f] = NoEdit
    BY <2>1, <2>2
  <2>3. CASE EditOK(f)
    <3>1. Restoring(f) => Restoring(f)'
      BY <2>1 DEF Restoring, Continues, Wanted, CallFor
    <3>2. AloneOK(f) => AloneOK(f)'
      BY <2>1, <3>1 DEF AloneOK
    <3>3. QED
      BY <1>2, <2>1, <2>3, <3>2 DEF EditOK
  <2>4. QED
    BY <2>2, <2>3 DEF PromptInv
<1>4. editor'[e] = r /\ DOMAIN editor' = Editors
  BY DEF PromptInv
<1>5. QED
  BY <1>1, <1>2, <1>3, <1>4 DEF PromptInv

LEMMA EditorBusy ==
    ASSUME PromptInv, NEW e \in Editors, editor[e].pc # "idle"
    PROVE  EditOK(e) /\ editor[e] \in Edits
  BY DEF PromptInv, NoEdit, EditOK

LEMMA BeginKeeps ==
    ASSUME PromptInv, NEW e \in Editors, NEW then \in {"update", "rollback", "end"},
           NEW layer \in Layers \cup {None}, then = "update" => layer \in Layers,
           BeginRequest(e, then, layer)
    PROVE  PromptInv'
<1> DEFINE calls == IF \A l \in Layers : layerFile[l] = <<>> THEN SeedCalls ELSE {}
           r == [pc |-> "calls", then |-> then, target |-> layer, layer |-> None, next |-> <<>>,
                 calls |-> calls, versions |-> [l \in Layers |-> 0], alone |-> FALSE]
<1>1. editor' = [editor EXCEPT ![e] = r] /\ UNCHANGED <<layerFile, promptClock>>
  BY DEF BeginRequest
<1>2. calls \subseteq LayerCalls
  BY PromptAssumption DEF SeedCalls, Set, LayerCalls, Contents
<1>3. <<>> \in Seq(LayerEntries) /\ [l \in Layers |-> 0] \in [Layers -> Nat]
  OBVIOUS
<1> DEFINE zero == [l \in Layers |-> 0]
<1> HIDE DEF calls, zero
<1>4. r \in Edits
  BY <1>2, <1>3 DEF Edits, zero
<1>5. r.pc = "calls" /\ r.then = then /\ r.target = layer /\ r.alone = FALSE
  OBVIOUS
<1> HIDE DEF r
<1>6. editor'[e] = r
  BY <1>1 DEF PromptInv
<1>7. EditOK(e)'
  BY <1>4, <1>5, <1>6 DEF EditOK
<1>8. QED
  BY <1>1, <1>7, EditorMoves

LEMMA UpdateKeeps == ASSUME PromptInv, NEW e \in Editors, UpdateLayer(e) PROVE PromptInv'
<1> DEFINE c == Set(editor[e].target, e)
           r == [editor[e] EXCEPT !.calls = {c}, !.target = None, !.then = "end"]
<1>1. /\ editor[e].pc = "calls" /\ editor[e].then = "update" /\ UNCHANGED <<layerFile, promptClock>>
      /\ editor' = [editor EXCEPT ![e] = r]
  BY DEF UpdateLayer, CallsDone, PromptInv
<1>2. EditOK(e) /\ editor[e] \in Edits
  BY <1>1, EditorBusy
<1>3. c \in LayerCalls
  BY <1>1, <1>2 DEF EditOK, Set, LayerCalls, Contents
<1> HIDE DEF c
<1>4. r \in Edits /\ r.pc = "calls" /\ r.then = "end" /\ r.alone = editor[e].alone
  BY <1>1, <1>2, <1>3 DEF Edits
<1>5. ~editor[e].alone
  BY <1>1, <1>2 DEF EditOK, AloneOK
<1> HIDE DEF r
<1>6. editor'[e] = r
  BY <1>1 DEF PromptInv
<1>7. EditOK(e)'
  BY <1>4, <1>5, <1>6 DEF EditOK
<1>8. QED
  BY <1>1, <1>7, EditorMoves

LEMMA TimelineKeeps == ASSUME PromptInv, NEW e \in Editors, ReadTimeline(e) PROVE PromptInv'
<1>1. PICK t : /\ editor[e].pc = "calls" /\ editor[e].calls = {} /\ UNCHANGED <<layerFile, promptClock>>
               /\ editor' = [editor EXCEPT ![e].then = "restore", ![e].alone = TRUE,
                               ![e].versions = [l \in Layers |-> Version(Snapshot(t)[l])]]
  BY DEF ReadTimeline, CallsDone
<1> DEFINE v == [l \in Layers |-> Version(Snapshot(t)[l])]
           r == [editor[e] EXCEPT !.then = "restore", !.alone = TRUE, !.versions = v]
<1>2. editor' = [editor EXCEPT ![e] = r]
  BY <1>1 DEF PromptInv
<1>3. EditOK(e) /\ editor[e] \in Edits
  BY <1>1, EditorBusy
<1>4. \A l \in Layers : Len(layerFile[l]) \in Nat
  BY DEF PromptInv, Sound
<1>5. \A l \in Layers : v[l] \in Nat /\ v[l] <= Len(layerFile[l])
  BY <1>4, SnapshotThere
<1>6. v \in [Layers -> Nat]
  BY <1>5
<1> HIDE DEF v
<1>7. /\ r \in Edits /\ r.pc = "calls" /\ r.calls = {} /\ r.then = "restore" /\ r.versions = v
      /\ r.alone = TRUE
  BY <1>1, <1>3, <1>6 DEF Edits
<1> HIDE DEF r
<1>8. editor'[e] = r
  BY <1>2 DEF PromptInv
<1>9. AloneOK(e)'
  BY <1>1, <1>5, <1>7, <1>8 DEF AloneOK
<1>10. EditOK(e)'
  BY <1>7, <1>8, <1>9 DEF EditOK
<1>11. QED
  BY <1>1, <1>2, <1>10, EditorMoves

\* A layer the snapshot has is called for, one it does not have unless it is
\* empty still.
LEMMA RestoreKeeps == ASSUME PromptInv, NEW e \in Editors, RestoreSnapshot(e) PROVE PromptInv'
<1> DEFINE v == editor[e].versions
           calls == RestoreCalls(e)
           r == [editor[e] EXCEPT !.calls = calls, !.then = "restored"]
<1>1. /\ editor[e].pc = "calls" /\ UNCHANGED <<layerFile, promptClock>>
      /\ editor' = [editor EXCEPT ![e] = r]
  BY DEF RestoreSnapshot, CallsDone, PromptInv
<1>2. EditOK(e) /\ editor[e] \in Edits
  BY <1>1, EditorBusy
<1>3. v \in [Layers -> Nat]
  BY <1>2 DEF Edits
<1>4. \A c \in calls : c.layer \in Layers /\ c = CallFor(e, c.layer)
  BY <1>3 DEF RestoreCalls, CallFor, Set, Restore
<1>5. ASSUME NEW l \in Layers PROVE CallFor(e, l) \in LayerCalls
  BY <1>3 DEF CallFor, Set, Restore, LayerCalls, Contents
<1>6. calls \subseteq LayerCalls
  BY <1>4, <1>5
<1>7. \A l \in Layers : CallFor(e, l) \in calls \/ Content(layerFile[l]) = Wanted(e, l)
  <2>1. SUFFICES ASSUME NEW l \in Layers, CallFor(e, l) \notin calls
                 PROVE  Content(layerFile[l]) = Wanted(e, l)
    OBVIOUS
  <2>2. v[l] = 0 /\ ~(Version(layerFile[l]) > 0)
    BY <1>3, <2>1 DEF CallFor, RestoreCalls
  <2>3. Version(layerFile[l]) = Len(layerFile[l]) /\ Len(layerFile[l]) \in Nat
        /\ layerFile[l] \in Seq(LayerEntries)
    BY SoundRead DEF PromptInv, Sound
  <2>4. layerFile[l] = <<>>
    BY <2>2, <2>3
  <2>5. QED
    BY <2>2, <2>4 DEF Content, Wanted
<1> HIDE DEF calls
<1>8. /\ r \in Edits /\ r.pc = "calls" /\ r.calls = calls /\ r.then = "restored" /\ r.versions = v
      /\ r.alone = editor[e].alone
  BY <1>1, <1>2, <1>6 DEF Edits
<1> HIDE DEF r
<1>9. editor'[e] = r
  BY <1>1 DEF PromptInv
<1>10. \A l \in Layers : CallFor(e, l)' = CallFor(e, l) /\ Wanted(e, l)' = Wanted(e, l)
  BY <1>1, <1>8, <1>9 DEF CallFor, Wanted
<1>11. Restoring(e)'
  BY <1>1, <1>4, <1>7, <1>8, <1>9, <1>10 DEF Restoring
<1>12. r.alone => AloneOK(e)'
  BY <1>1, <1>2, <1>8, <1>9, <1>11 DEF EditOK, AloneOK
<1>13. EditOK(e)'
  BY <1>8, <1>9, <1>12 DEF EditOK
<1>14. QED
  BY <1>1, <1>13, EditorMoves

\* The text a call of the store puts at the end of the file it has read.
CallText(c) == IF c.version = 0 THEN c.content ELSE TextOf(layerFile[c.layer], c.version)

LEMMA ReadAlone ==
    ASSUME PromptInv, NEW e \in Editors, NEW c \in editor[e].calls, NEW r \in Edits, NEW n,
           EditOK(e), editor[e].alone, editor[e].pc = "calls", UNCHANGED layerFile,
           c.version = 0 \/ Known(layerFile[c.layer], c.version),
           editor'[e] = r, r.pc = "write", r.calls = editor[e].calls \ {c}, r.layer = c.layer,
           r.next = n, r.versions = editor[e].versions, r.then = editor[e].then,
           Len(n) = Len(layerFile[c.layer]) + 1,
           \A i \in DOMAIN layerFile[c.layer] : n[i] = layerFile[c.layer][i],
           LastOf(n).content = CallText(c)
    PROVE  AloneOK(e)'
<1> DEFINE L == c.layer
<1>1. AloneOK(e) /\ Restoring(e) /\ editor[e].then = "restored"
  BY DEF EditOK, AloneOK
<1>2. editor[e] \in Edits /\ c \in LayerCalls /\ L \in Layers /\ editor[e].versions \in [Layers -> Nat]
  BY DEF EditOK, Edits, LayerCalls
<1>3. c = CallFor(e, L)
  BY <1>1 DEF Restoring
<1>4. CallText(c) = Wanted(e, L)
  <2>1. CASE editor[e].versions[L] = 0
    BY <1>3, <2>1 DEF CallFor, CallText, Wanted, Set
  <2>2. CASE editor[e].versions[L] # 0
    <3>1. c.version = editor[e].versions[L] /\ c.version # 0
      BY <1>3, <2>2 DEF CallFor, Restore
    <3>2. c.version \in Nat /\ Sound(layerFile[L], promptClock) /\ promptClock \in Nat
      BY <1>2 DEF LayerCalls, PromptInv
    <3>3. c.version \in 1..Len(layerFile[L])
      BY <3>1, <3>2, SoundRead
    <3>4. TextOf(layerFile[L], c.version) = layerFile[L][c.version].content
      BY <3>2, <3>3, SoundRead
    <3>5. QED
      BY <2>2, <3>1, <3>4 DEF CallText, Wanted
  <2>3. QED
    BY <2>1, <2>2
<1>5. \A l \in Layers : CallFor(e, l)' = CallFor(e, l) /\ Wanted(e, l)' = Wanted(e, l)
  BY DEF CallFor, Wanted
<1>6. Continues(e, L)'
  BY <1>2, <1>4, <1>5 DEF Continues
<1>7. ASSUME NEW l \in Layers, l # L, CallFor(e, l) \in editor[e].calls
      PROVE  CallFor(e, l) \in r.calls
  <2>1. CallFor(e, l).layer = l
    BY DEF CallFor, Set, Restore
  <2>2. QED
    BY <1>7, <2>1
<1>8. \A d \in r.calls : d = CallFor(e, d.layer) /\ d.layer \in Layers
  BY <1>1, <1>2 DEF Restoring, Edits, LayerCalls
<1>9. Restoring(e)'
  BY <1>1, <1>5, <1>6, <1>7, <1>8 DEF Restoring
<1>10. QED
  BY <1>1, <1>9 DEF AloneOK

LEMMA ReadKeeps == ASSUME PromptInv, NEW e \in Editors, ReadLayer(e) PROVE PromptInv'
<1>1. PICK c \in editor[e].calls : editor' = [editor EXCEPT ![e] =
              IF c.version # 0 /\ ~Known(layerFile[c.layer], c.version) THEN NoEdit
              ELSE [editor[e] EXCEPT !.pc = "write", !.calls = editor[e].calls \ {c},
                      !.layer = c.layer,
                      !.next = Append(layerFile[c.layer],
                                      [content |-> CallText(c), version |-> Version(layerFile[c.layer]) + 1,
                                       at |-> promptClock'])]]
  BY DEF ReadLayer, CallText
<1>2. editor[e].pc = "calls" /\ promptClock' = promptClock + 1 /\ UNCHANGED layerFile /\ promptClock \in Nat
  BY DEF ReadLayer, PromptInv
<1>3. CASE c.version # 0 /\ ~Known(layerFile[c.layer], c.version)
  <2>1. editor' = [editor EXCEPT ![e] = NoEdit]
    BY <1>1, <1>3
  <2>2. QED
    BY <1>2, <2>1, EditorMoves
<1>4. CASE c.version = 0 \/ Known(layerFile[c.layer], c.version)
  <2> DEFINE h == layerFile[c.layer]
             n == Append(h, [content |-> CallText(c), version |-> Version(h) + 1,
                             at |-> promptClock + 1])
             r == [editor[e] EXCEPT !.pc = "write", !.calls = editor[e].calls \ {c},
                      !.layer = c.layer, !.next = n]
  <2>1. editor' = [editor EXCEPT ![e] = r]
    BY <1>1, <1>2, <1>4
  <2>2. EditOK(e) /\ editor[e] \in Edits
    BY <1>2, EditorBusy
  <2>3. c \in LayerCalls /\ c.layer \in Layers /\ c.version \in Nat /\ c.content \in Contents
    BY <2>2 DEF Edits, LayerCalls
  <2>4. Sound(h, promptClock)
    BY <2>3 DEF PromptInv
  <2>5. CallText(c) \in Contents
    <3>1. CASE c.version = 0
      BY <2>3, <3>1 DEF CallText
    <3>2. CASE c.version # 0
      <4>1. c.version \in 1..Len(h)
        BY <1>2, <1>4, <2>3, <2>4, <3>2, SoundRead
      <4>2. TextOf(h, c.version) = h[c.version].content
        BY <1>2, <2>4, <4>1, SoundRead
      <4>3. h[c.version] \in LayerEntries
        BY <2>4, <4>1 DEF Sound
      <4>4. QED
        BY <3>2, <4>2, <4>3 DEF CallText, LayerEntries
    <3>3. QED
      BY <3>1, <3>2
  <2>6. /\ Sound(n, promptClock + 1) /\ n # <<>> /\ Len(n) = Len(h) + 1
        /\ \A i \in DOMAIN h : n[i] = h[i]
        /\ LastOf(n).content = CallText(c)
    <3> DEFINE x == [content |-> CallText(c), version |-> Version(h) + 1, at |-> promptClock + 1]
    <3>1. Version(h) \in Nat
      BY <1>2, <2>4, SoundRead
    <3>2. x \in LayerEntries
      BY <1>2, <2>5, <3>1 DEF LayerEntries
    <3>3. x.version = Version(h) + 1 /\ x.at = promptClock + 1 /\ x.content = CallText(c)
      OBVIOUS
    <3>4. n = Append(h, x)
      OBVIOUS
    <3> HIDE DEF n, h, x
    <3>5. /\ Sound(n, promptClock + 1) /\ n # <<>> /\ Len(n) = Len(h) + 1
          /\ \A i \in DOMAIN h : n[i] = h[i]
          /\ LastOf(n) = x
      <4>1. promptClock \in Nat /\ Sound(h, promptClock)
        BY <1>2, <2>4
      <4>2. Sound(n, promptClock + 1)
        BY <4>1, <3>2, <3>3, <3>4, SoundAppend
      <4>3. n # <<>> /\ Len(n) = Len(h) + 1
        BY <4>1, <3>2, <3>3, <3>4, SoundAppend
      <4>4. \A i \in DOMAIN h : n[i] = h[i]
        BY <4>1, <3>2, <3>3, <3>4, SoundAppend
      <4>5. LastOf(n) = x
        BY <4>1, <3>2, <3>3, <3>4, SoundAppend
      <4>6. QED
        BY <4>2, <4>3, <4>4, <4>5
    <3>6. QED
      BY <3>3, <3>5
  <2>7. n \in Seq(LayerEntries)
    BY <2>6 DEF Sound
  <2> HIDE DEF n
  <2>8. r \in Edits
    BY <2>2, <2>3, <2>7 DEF Edits
  <2>9. /\ r.pc = "write" /\ r.calls = editor[e].calls \ {c} /\ r.layer = c.layer /\ r.next = n
        /\ r.versions = editor[e].versions /\ r.then = editor[e].then
        /\ r.target = editor[e].target /\ r.alone = editor[e].alone
    BY <2>2 DEF Edits
  <2> HIDE DEF r
  <2>10. editor'[e] = r
    BY <2>1 DEF PromptInv
  <2>11. r.alone => AloneOK(e)'
    BY <1>2, <1>4, <2>2, <2>6, <2>8, <2>9, <2>10, ReadAlone
  <2>12. EditOK(e)'
    BY <1>2, <2>2, <2>3, <2>6, <2>8, <2>9, <2>10, <2>11 DEF EditOK
  <2>13. QED
    BY <1>2, <2>1, <2>12, EditorMoves
<1>5. QED
  BY <1>3, <1>4

\* A file is written: for the request itself as it was wanted, and no other
\* request is alone any more.
LEMMA WriteAlone ==
    ASSUME PromptInv, NEW e \in Editors, EditOK(e), editor[e].alone, editor[e].pc = "write",
           layerFile' = [layerFile EXCEPT ![editor[e].layer] = editor[e].next], NEW r,
           editor'[e] = r, r.pc = "calls", r.then = editor[e].then, r.calls = editor[e].calls,
           r.versions = editor[e].versions
    PROVE  AloneOK(e)'
<1> DEFINE L == editor[e].layer
           h == layerFile[L]
           n == editor[e].next
           v == editor[e].versions
<1>1. AloneOK(e) /\ Restoring(e) /\ editor[e].then = "restored" /\ Continues(e, L)
  BY DEF EditOK, AloneOK, Restoring
<1>2. L \in Layers /\ v \in [Layers -> Nat] /\ editor[e].calls \subseteq LayerCalls
  BY DEF EditOK, Edits
<1>3. /\ h \in Seq(LayerEntries) /\ Len(h) \in Nat
      /\ Len(n) = Len(h) + 1 /\ \A i \in 1..Len(h) : n[i] = h[i]
      /\ n \in Seq(LayerEntries) /\ n # <<>>
  BY <1>1, <1>2 DEF PromptInv, Sound, Continues, EditOK
<1>4. layerFile'[L] = n /\ \A l \in Layers \ {L} : layerFile'[l] = layerFile[l]
  BY <1>2 DEF PromptInv
<1>5. ASSUME NEW l \in Layers PROVE Wanted(e, l)' = Wanted(e, l) /\ CallFor(e, l)' = CallFor(e, l)
  <2>1. v[l] \in Nat /\ v[l] <= Len(layerFile[l])
    BY <1>1, <1>2 DEF AloneOK
  <2>2. CASE l = L
    <3>1. ASSUME v[l] # 0 PROVE n[v[l]] = h[v[l]]
      <4>1. v[l] \in 1..Len(h)
        BY <1>3, <2>1, <2>2, <3>1
      <4>2. QED
        BY <1>3, <4>1
    <3>2. QED
      BY <1>4, <2>2, <3>1 DEF Wanted, CallFor
  <2>3. CASE l # L
    BY <1>4, <2>3 DEF Wanted, CallFor
  <2>4. QED
    BY <2>2, <2>3
<1>6. Content(layerFile'[L]) = Wanted(e, L)
  BY <1>1, <1>3, <1>4 DEF Content, Continues
<1>7. \A l \in Layers : Content(layerFile'[l]) = Wanted(e, l) \/ CallFor(e, l) \in r.calls
  BY <1>1, <1>4, <1>6 DEF Restoring
<1>8. \A c \in r.calls : c = CallFor(e, c.layer) /\ c.layer \in Layers
  BY <1>1, <1>2 DEF Restoring, LayerCalls
<1>9. Restoring(e)'
  BY <1>5, <1>7, <1>8 DEF Restoring
<1>10. \A l \in Layers : v[l] <= Len(layerFile'[l])
  <2>1. ASSUME NEW l \in Layers PROVE v[l] <= Len(layerFile'[l])
    <3>1. v[l] \in Nat /\ v[l] <= Len(layerFile[l])
      BY <1>1, <1>2 DEF AloneOK
    <3>2. CASE l = L
      BY <1>3, <1>4, <3>1, <3>2
    <3>3. CASE l # L
      BY <1>4, <3>1, <3>3
    <3>4. QED
      BY <3>2, <3>3
  <2>2. QED
    BY <2>1
<1>11. QED
  BY <1>1, <1>9, <1>10 DEF AloneOK

LEMMA WriteKeeps == ASSUME PromptInv, NEW e \in Editors, WriteLayer(e) PROVE PromptInv'
<1> DEFINE r == [editor[e] EXCEPT !.pc = "calls", !.layer = None, !.next = <<>>]
<1>1. /\ editor[e].pc = "write" /\ UNCHANGED promptClock /\ promptClock \in Nat
      /\ layerFile' = [layerFile EXCEPT ![editor[e].layer] = editor[e].next]
      /\ DOMAIN editor' = Editors
      /\ \A f \in Editors : editor'[f] = IF f = e THEN r ELSE IF editor[f].pc = "idle" THEN editor[f]
                                         ELSE [editor[f] EXCEPT !.alone = FALSE]
  BY DEF WriteLayer, PromptInv
<1>2. EditOK(e) /\ editor[e] \in Edits
  BY <1>1, EditorBusy
<1>3. /\ r \in Edits /\ r.pc = "calls" /\ r.then = editor[e].then /\ r.calls = editor[e].calls
      /\ r.versions = editor[e].versions /\ r.target = editor[e].target
      /\ r.alone = editor[e].alone
  <2>1. <<>> \in Seq(LayerEntries)
    OBVIOUS
  <2>2. QED
    BY <1>2, <2>1 DEF Edits
<1> HIDE DEF r
<1>4. editor'[e] = r
  BY <1>1
<1>5. r.alone => AloneOK(e)'
  BY <1>1, <1>2, <1>3, <1>4, WriteAlone
<1>6. EditOK(e)'
  BY <1>2, <1>3, <1>4, <1>5 DEF EditOK
<1>7. ASSUME NEW f \in Editors, f # e PROVE editor'[f] = NoEdit \/ EditOK(f)'
  <2>1. CASE editor[f].pc = "idle"
    <3>1. editor[f] = NoEdit
      BY <2>1 DEF PromptInv, EditOK, Edits
    <3>2. QED
      BY <1>1, <1>7, <2>1, <3>1
  <2>2. CASE editor[f].pc # "idle"
    <3>1. EditOK(f) /\ editor[f] \in Edits
      BY <2>2, EditorBusy
    <3>2. editor'[f] = [editor[f] EXCEPT !.alone = FALSE]
      BY <1>1, <1>7, <2>2
    <3>3. /\ editor'[f] \in Edits /\ editor'[f].pc = editor[f].pc /\ editor'[f].then = editor[f].then
          /\ editor'[f].target = editor[f].target /\ editor'[f].layer = editor[f].layer
          /\ editor'[f].next = editor[f].next /\ editor'[f].alone = FALSE
      BY <3>1, <3>2 DEF Edits
    <3>4. QED
      BY <1>1, <3>1, <3>3 DEF EditOK
  <2>3. QED
    BY <2>1, <2>2
<1>8. DOMAIN layerFile' = Layers /\ \A l \in Layers : Sound(layerFile'[l], promptClock)
  BY <1>1, <1>2 DEF PromptInv, EditOK
<1>9. QED
  BY <1>1, <1>4, <1>6, <1>7, <1>8 DEF PromptInv

LEMMA PromptStep == ASSUME PromptInv, PromptNext PROVE PromptInv'
<1>1. PICK e \in Editors :
        \/ ReadLayer(e) \/ WriteLayer(e) \/ WriteLayerFails(e)
        \/ UpdateLayer(e) \/ ResolveStack(e) \/ RollbackRequest(e)
        \/ ReadTimeline(e) \/ RestoreSnapshot(e) \/ EndRequest(e)
        \/ \E l \in Layers : UpdateRequest(e, l)
  BY DEF PromptNext
<1>2. CASE WriteLayerFails(e) \/ EndRequest(e)
  <2>1. editor' = [editor EXCEPT ![e] = NoEdit] /\ UNCHANGED <<layerFile, promptClock>>
    BY <1>2 DEF WriteLayerFails, EndRequest
  <2>2. QED
    BY <2>1, EditorMoves
<1>3. CASE ResolveStack(e) \/ RollbackRequest(e) \/ \E l \in Layers : UpdateRequest(e, l)
  BY <1>3, BeginKeeps DEF ResolveStack, RollbackRequest, UpdateRequest
<1>4. QED
  BY <1>1, <1>2, <1>3, ReadKeeps, WriteKeeps, UpdateKeeps, TimelineKeeps, RestoreKeeps

\* The invariant holds throughout.
LEMMA PromptsHold == Spec => []PromptInv
<1>1. Init => PromptInv
  BY PromptInitOK DEF Init
<1>2. PromptInv /\ [Next]_vars => PromptInv'
  <2> SUFFICES ASSUME PromptInv, [Next]_vars PROVE PromptInv'
    OBVIOUS
  <2>1. PromptNext \/ UNCHANGED promptVars
    BY DEF Next, vars, Rest
  <2>2. CASE UNCHANGED promptVars
    BY <2>2 DEF promptVars, PromptInv, EditOK, AloneOK, Restoring, Continues, Wanted, CallFor
  <2>3. QED
    BY <2>1, <2>2, PromptStep
<1>3. QED
  BY <1>1, <1>2, PTL DEF Spec

\* A rollback nobody else wrote during leaves every layer as it was at the
\* snapshot, though it calls the store for one layer after the other and each
\* call reads a file and writes it whole (handlePromptStackRollback).
THEOREM RollbackAlwaysRestores == Spec => []RollbackRestores
<1>1. PromptInv => RollbackRestores
  <2>1. SUFFICES ASSUME PromptInv, NEW e \in Editors, CallsDone(e, "restored"), editor[e].alone,
                        NEW l \in Layers, NEW v, v = editor[e].versions[l]
                 PROVE  Content(layerFile[l]) = IF v = 0 THEN Blank ELSE TextOf(layerFile[l], v)
    BY Zenon DEF RollbackRestores
  <2>2. editor[e].pc = "calls" /\ editor[e].calls = {} /\ editor[e].then = "restored"
    BY <2>1 DEF CallsDone
  <2>3. EditOK(e) /\ editor[e] \in Edits
    BY <2>1, <2>2, EditorBusy
  <2>4. AloneOK(e) /\ Restoring(e)
    BY <2>1, <2>2, <2>3 DEF EditOK, AloneOK
  <2>5. Content(layerFile[l]) = Wanted(e, l)
    BY <2>1, <2>2, <2>4 DEF Restoring
  <2>6. v \in Nat /\ v <= Len(layerFile[l])
    BY <2>1, <2>3, <2>4 DEF Edits, AloneOK
  <2>7. v # 0 => TextOf(layerFile[l], v) = layerFile[l][v].content
    <3>1. Sound(layerFile[l], promptClock) /\ promptClock \in Nat /\ Len(layerFile[l]) \in Nat
      BY <2>1 DEF PromptInv, Sound
    <3>2. QED
      BY <2>6, <3>1, SoundRead
  <2>8. QED
    BY <2>1, <2>5, <2>7 DEF Wanted
<1>2. QED
  BY <1>1, PromptsHold, PTL

-----------------------------------------------------------------------------
(* The events on file.  Every number a run has given out is in exactly one  *)
(* place: on file, waiting in the queue, dropped or failed.  The queue is in *)
(* order and behind the file, so what is taken from it comes last there.    *)

WriterPlaces == {"open", "closing", "closed", "lost"}
Managers == [pc : WriterPlaces, next : Nat \ {0}, queue : Seq(Nat), file : {"none", "ok", "stuck"},
            dropped : SUBSET Nat, failed : SUBSET Nat, closeErr : BOOLEAN]

Upwards(q) == \A i, j \in DOMAIN q : i < j => q[i] < q[j]

\* A writer r, and the numbers it has on file.
EventWriterOK(r, onFile) ==
    /\ r \in Managers
    /\ Upwards(r.queue)
    /\ 1..(r.next - 1) = onFile \cup SetOf(r.queue) \cup r.dropped \cup r.failed
    /\ (onFile \cup SetOf(r.queue)) \cap (r.dropped \cup r.failed) = {}
    /\ \A m \in onFile : \A n \in SetOf(r.queue) : m < n
    /\ r.pc = "closed" => r.queue = <<>>
    /\ r.failed # {} \/ r.file = "stuck" => r.closeErr

InOrder(w) == \A i, j \in EventsOf(w) : i < j => eventFile[i][2] < eventFile[j][2]

EventsInv ==
    /\ eventFile \in Seq(Recorders \X Nat) /\ DOMAIN recorder = Recorders
    /\ \A w \in Recorders : EventWriterOK(recorder[w], Written(w)) /\ InOrder(w)

\* Taking the first of a queue that is in order, and adding one at its end.
LEMMA TakeFirst ==
    ASSUME NEW q \in Seq(Nat), q # <<>>, Upwards(q)
    PROVE  /\ Tail(q) \in Seq(Nat) /\ Upwards(Tail(q)) /\ Head(q) \in Nat
           /\ SetOf(q) = SetOf(Tail(q)) \cup {Head(q)}
           /\ \A n \in SetOf(Tail(q)) : Head(q) < n
<1>1. /\ Len(q) \in Nat /\ Len(q) >= 1 /\ DOMAIN q = 1..Len(q) /\ Head(q) = q[1]
      /\ Tail(q) \in Seq(Nat) /\ Len(Tail(q)) = Len(q) - 1
      /\ DOMAIN Tail(q) = 1..(Len(q) - 1)
      /\ \A i \in 1..(Len(q) - 1) : Tail(q)[i] = q[i + 1]
  <2>1. Len(q) \in Nat /\ Len(q) >= 1 /\ DOMAIN q = 1..Len(q) /\ Head(q) = q[1]
    OBVIOUS
  <2>2. /\ Tail(q) \in Seq(Nat) /\ Len(Tail(q)) = Len(q) - 1
        /\ \A i \in 1..(Len(q) - 1) : Tail(q)[i] = q[i + 1]
    BY <2>1
  <2>3. QED
    BY <2>1, <2>2
<1>2. Head(q) \in Nat
  BY <1>1
<1>3. Upwards(Tail(q))
  BY <1>1 DEF Upwards
<1>4. ASSUME NEW n \in SetOf(Tail(q)) PROVE Head(q) < n /\ n \in SetOf(q)
  <2>1. PICK i \in 1..(Len(q) - 1) : n = q[i + 1]
    BY <1>1 DEF SetOf
  <2>2. i + 1 \in 1..Len(q) /\ 1 \in 1..Len(q) /\ 1 < i + 1
    BY <1>1
  <2>3. QED
    BY <1>1, <2>1, <2>2 DEF Upwards, SetOf
<1>5. ASSUME NEW n \in SetOf(q), n # Head(q) PROVE n \in SetOf(Tail(q))
  <2>1. PICK i \in 1..Len(q) : n = q[i]
    BY <1>1 DEF SetOf
  <2>2. i # 1
    BY <1>1, <1>5, <2>1
  <2>3. i - 1 \in 1..(Len(q) - 1) /\ Tail(q)[i - 1] = q[i]
    BY <1>1, <2>2
  <2>4. QED
    BY <1>1, <2>1, <2>3 DEF SetOf
<1>6. Head(q) \in SetOf(q)
  BY <1>1 DEF SetOf
<1>7. QED
  BY <1>1, <1>2, <1>3, <1>4, <1>5, <1>6

LEMMA AddLast ==
    ASSUME NEW q \in Seq(Nat), Upwards(q), NEW n \in Nat, \A m \in SetOf(q) : m < n
    PROVE  Append(q, n) \in Seq(Nat) /\ Upwards(Append(q, n)) /\ SetOf(Append(q, n)) = SetOf(q) \cup {n}
<1> DEFINE r == Append(q, n)
<1>1. /\ r \in Seq(Nat) /\ Len(q) \in Nat /\ DOMAIN q = 1..Len(q) /\ DOMAIN r = 1..(Len(q) + 1)
      /\ \A i \in 1..Len(q) : r[i] = q[i]
      /\ r[Len(q) + 1] = n
  BY AppendProperties
<1> HIDE DEF r
<1>2. ASSUME NEW i \in DOMAIN r, NEW j \in DOMAIN r, i < j PROVE r[i] < r[j]
  <2>1. i \in 1..Len(q) /\ r[i] = q[i] /\ r[i] \in SetOf(q)
    BY <1>1, <1>2 DEF SetOf
  <2>2. CASE j \in 1..Len(q)
    BY <1>1, <1>2, <2>1, <2>2 DEF Upwards
  <2>3. CASE j = Len(q) + 1
    BY <1>1, <2>1, <2>3
  <2>4. QED
    BY <1>1, <2>2, <2>3
<1>3. SetOf(r) \subseteq SetOf(q) \cup {n}
  BY <1>1 DEF SetOf
<1>4. SetOf(q) \cup {n} \subseteq SetOf(r)
  BY <1>1 DEF SetOf
<1>5. QED
  BY <1>1, <1>2, <1>3, <1>4 DEF r, Upwards

\* A line more in the file is one more of its run, behind all the others.
LEMMA FileGrows ==
    ASSUME eventFile \in Seq(Recorders \X Nat), NEW v \in Recorders, NEW n \in Nat,
           eventFile' = Append(eventFile, <<v, n>>), InOrder(v), \A m \in Written(v) : m < n
    PROVE  /\ eventFile' \in Seq(Recorders \X Nat)
           /\ Written(v)' = Written(v) \cup {n} /\ InOrder(v)'
           /\ \A w \in Recorders \ {v} : Written(w)' = Written(w) /\ (InOrder(w) => InOrder(w)')
<1> DEFINE l == Len(eventFile) + 1
<1>1. /\ eventFile' \in Seq(Recorders \X Nat) /\ l \in Nat
      /\ DOMAIN eventFile = 1..(l - 1) /\ DOMAIN eventFile' = 1..l
      /\ \A i \in 1..(l - 1) : eventFile'[i] = eventFile[i]
      /\ eventFile'[l] = <<v, n>>
  BY AppendProperties
<1> HIDE DEF l
<1>2. /\ l \notin EventsOf(v)
      /\ EventsOf(v)' = EventsOf(v) \cup {l}
      /\ \A w \in Recorders \ {v} : EventsOf(w)' = EventsOf(w)
  BY <1>1 DEF EventsOf
<1>3. ASSUME NEW w \in Recorders, NEW i \in EventsOf(w) PROVE i \in 1..(l - 1) /\ eventFile'[i] = eventFile[i]
  BY <1>1 DEF EventsOf
<1>4. Written(v)' = Written(v) \cup {n}
  BY <1>1, <1>2, <1>3 DEF Written
<1>5. InOrder(v)'
  <2>1. ASSUME NEW i \in EventsOf(v)', NEW j \in EventsOf(v)', i < j
        PROVE  eventFile'[i][2] < eventFile'[j][2]
    <3>1. i \in EventsOf(v)
      BY <1>1, <1>2, <1>3, <2>1
    <3>2. CASE j \in EventsOf(v)
      BY <1>3, <2>1, <3>1, <3>2 DEF InOrder
    <3>3. CASE j = l
      BY <1>1, <1>3, <3>1, <3>3 DEF Written
    <3>4. QED
      BY <1>2, <3>2, <3>3
  <2>2. QED
    BY <2>1 DEF InOrder
<1>6. ASSUME NEW w \in Recorders \ {v} PROVE Written(w)' = Written(w) /\ (InOrder(w) => InOrder(w)')
  <2>1. EventsOf(w)' = EventsOf(w) /\ w \in Recorders
    BY <1>2
  <2>2. \A i \in EventsOf(w) : eventFile'[i] = eventFile[i]
    BY <1>3, <2>1
  <2>3. Written(w)' = Written(w)
    BY <2>1, <2>2 DEF Written
  <2>4. InOrder(w) => InOrder(w)'
    BY <2>1, <2>2 DEF InOrder
  <2>5. QED
    BY <2>3, <2>4
<1>7. QED
  BY <1>1, <1>4, <1>5, <1>6

\* A step of one run that leaves the file as it is.
LEMMA WriterMoves ==
    ASSUME EventsInv, NEW v \in Recorders, NEW r, recorder' = [recorder EXCEPT ![v] = r],
           UNCHANGED eventFile, EventWriterOK(r, Written(v))
    PROVE  EventsInv'
<1>1. \A w \in Recorders : Written(w)' = Written(w) /\ (InOrder(w) => InOrder(w)')
  BY DEF Written, EventsOf, InOrder
<1>2. recorder'[v] = r /\ \A w \in Recorders \ {v} : recorder'[w] = recorder[w]
  BY DEF EventsInv
<1>3. DOMAIN recorder' = Recorders
  BY DEF EventsInv
<1>4. QED
  BY <1>1, <1>2, <1>3 DEF EventsInv

LEMMA IngestKeeps == ASSUME EventsInv, NEW w \in Recorders, IngestEvent(w) PROVE EventsInv'
<1> DEFINE q == recorder[w].queue
           n == recorder[w].next
           a == [recorder[w] EXCEPT !.next = n + 1, !.queue = Append(q, n)]
           b == [recorder[w] EXCEPT !.next = n + 1, !.dropped = recorder[w].dropped \cup {n}]
<1>1. EventWriterOK(recorder[w], Written(w)) /\ recorder[w] \in Managers /\ recorder[w].pc = "open"
      /\ UNCHANGED eventFile
  BY DEF EventsInv, EventWriterOK, IngestEvent
<1>2. recorder' = [recorder EXCEPT ![w] = IF Len(q) < QueueSize THEN a ELSE b]
  BY DEF IngestEvent
<1>3. /\ n \in Nat \ {0} /\ n + 1 \in Nat \ {0} /\ q \in Seq(Nat)
      /\ recorder[w].dropped \in SUBSET Nat
      /\ 1..((n + 1) - 1) = 1..(n - 1) \cup {n} /\ n \notin 1..(n - 1)
      /\ \A m \in 1..(n - 1) : m \in Nat /\ m < n
  <2>1. n \in Nat \ {0} /\ q \in Seq(Nat) /\ recorder[w].dropped \in SUBSET Nat
    BY <1>1 DEF Managers
  <2>2. QED
    BY <2>1
<1>4. Upwards(q) /\ \A m \in SetOf(q) : m < n
  BY <1>1, <1>3 DEF EventWriterOK
<1>5. Append(q, n) \in Seq(Nat) /\ Upwards(Append(q, n)) /\ SetOf(Append(q, n)) = SetOf(q) \cup {n}
  BY <1>3, <1>4, AddLast
<1>6. EventWriterOK(a, Written(w))
  <2>1. a \in Managers
    BY <1>1, <1>3, <1>5 DEF Managers
  <2>2. /\ a.pc = "open" /\ a.next = n + 1 /\ a.queue = Append(q, n) /\ a.file = recorder[w].file
        /\ a.dropped = recorder[w].dropped /\ a.failed = recorder[w].failed
        /\ a.closeErr = recorder[w].closeErr
    BY <1>1 DEF Managers
  <2> HIDE DEF a
  <2>3. 1..(a.next - 1) = Written(w) \cup SetOf(a.queue) \cup a.dropped \cup a.failed
    BY <1>1, <1>3, <1>5, <2>2 DEF EventWriterOK
  <2>4. (Written(w) \cup SetOf(a.queue)) \cap (a.dropped \cup a.failed) = {}
    BY <1>1, <1>3, <1>5, <2>2 DEF EventWriterOK
  <2>5. \A m \in Written(w) : \A k \in SetOf(a.queue) : m < k
    BY <1>1, <1>3, <1>5, <2>2 DEF EventWriterOK
  <2>6. QED
    BY <1>1, <1>5, <2>1, <2>2, <2>3, <2>4, <2>5 DEF EventWriterOK
<1>7. EventWriterOK(b, Written(w))
  <2>1. b \in Managers
    BY <1>1, <1>3 DEF Managers
  <2>2. /\ b.pc = "open" /\ b.next = n + 1 /\ b.queue = q /\ b.file = recorder[w].file
        /\ b.dropped = recorder[w].dropped \cup {n} /\ b.failed = recorder[w].failed
        /\ b.closeErr = recorder[w].closeErr
    BY <1>1 DEF Managers
  <2> HIDE DEF b
  <2>3. 1..(b.next - 1) = Written(w) \cup SetOf(b.queue) \cup b.dropped \cup b.failed
    BY <1>1, <1>3, <2>2 DEF EventWriterOK
  <2>4. (Written(w) \cup SetOf(b.queue)) \cap (b.dropped \cup b.failed) = {}
    BY <1>1, <1>3, <2>2 DEF EventWriterOK
  <2>5. QED
    BY <1>1, <2>1, <2>2, <2>3, <2>4 DEF EventWriterOK
<1> HIDE DEF a, b
<1>8. QED
  BY <1>1, <1>2, <1>6, <1>7, WriterMoves

\* What is taken from the queue is written, ...
LEMMA WriteKeepsEvents ==
    ASSUME EventsInv, NEW w \in Recorders, NEW newDay \in BOOLEAN, WriteEvent(w, newDay)
    PROVE  EventsInv'
<1> DEFINE q == recorder[w].queue
           r == [recorder[w] EXCEPT !.queue = Tail(q), !.file = "ok"]
<1>1. /\ recorder[w].pc \in {"open", "closing"} /\ q # <<>>
      /\ eventFile' = Append(eventFile, <<w, Head(q)>>)
      /\ recorder' = [recorder EXCEPT ![w] = r]
  BY DEF WriteEvent
<1>2. EventWriterOK(recorder[w], Written(w)) /\ recorder[w] \in Managers /\ q \in Seq(Nat) /\ Upwards(q)
  BY DEF EventsInv, EventWriterOK, Managers
<1>3. /\ Tail(q) \in Seq(Nat) /\ Upwards(Tail(q)) /\ Head(q) \in Nat
      /\ SetOf(q) = SetOf(Tail(q)) \cup {Head(q)}
      /\ \A n \in SetOf(Tail(q)) : Head(q) < n
  BY <1>1, <1>2, TakeFirst
<1>4. \A m \in Written(w) : m < Head(q)
  BY <1>2, <1>3 DEF EventWriterOK
<1>5. /\ eventFile' \in Seq(Recorders \X Nat)
      /\ Written(w)' = Written(w) \cup {Head(q)} /\ InOrder(w)'
      /\ \A x \in Recorders \ {w} : Written(x)' = Written(x) /\ (InOrder(x) => InOrder(x)')
  BY <1>1, <1>3, <1>4, FileGrows DEF EventsInv
<1>6. EventWriterOK(r, Written(w) \cup {Head(q)})
  <2>1. r \in Managers
    BY <1>2, <1>3 DEF Managers
  <2>2. /\ r.pc = recorder[w].pc /\ r.next = recorder[w].next /\ r.queue = Tail(q) /\ r.file = "ok"
        /\ r.dropped = recorder[w].dropped /\ r.failed = recorder[w].failed
        /\ r.closeErr = recorder[w].closeErr
    BY <1>2 DEF Managers
  <2> HIDE DEF r
  <2>3. 1..(r.next - 1) = (Written(w) \cup {Head(q)}) \cup SetOf(r.queue) \cup r.dropped \cup r.failed
    BY <1>2, <1>3, <2>2 DEF EventWriterOK
  <2>4. ((Written(w) \cup {Head(q)}) \cup SetOf(r.queue)) \cap (r.dropped \cup r.failed) = {}
    BY <1>2, <1>3, <2>2 DEF EventWriterOK
  <2>5. \A m \in Written(w) \cup {Head(q)} : \A n \in SetOf(r.queue) : m < n
    BY <1>2, <1>3, <2>2 DEF EventWriterOK
  <2>6. QED
    BY <1>1, <1>2, <1>3, <2>1, <2>2, <2>3, <2>4, <2>5 DEF EventWriterOK
<1> HIDE DEF r
<1>7. recorder'[w] = r /\ DOMAIN recorder' = Recorders /\ \A x \in Recorders \ {w} : recorder'[x] = recorder[x]
  BY <1>1 DEF EventsInv
<1>8. ASSUME NEW x \in Recorders PROVE EventWriterOK(recorder'[x], Written(x)') /\ InOrder(x)'
  <2>1. CASE x = w
    BY <1>5, <1>6, <1>7, <2>1
  <2>2. CASE x # w
    BY <1>5, <1>7, <2>2 DEF EventsInv
  <2>3. QED
    BY <2>1, <2>2
<1>9. QED
  BY <1>5, <1>7, <1>8 DEF EventsInv

\* ... or fails, and then its Close says so.
LEMMA FailKeeps == ASSUME EventsInv, NEW w \in Recorders, WriteEventFails(w) PROVE EventsInv'
<1> DEFINE q == recorder[w].queue
<1>1. PICK f \in {"none", "ok", "stuck"}, c \in BOOLEAN :
        /\ recorder' = [recorder EXCEPT ![w] =
             [recorder[w] EXCEPT !.queue = Tail(q), !.failed = recorder[w].failed \cup {Head(q)},
                                 !.file = f, !.closeErr = c]]
        /\ c
  <2>1. EventWriterOK(recorder[w], Written(w)) /\ recorder[w] \in Managers
    BY DEF EventsInv, EventWriterOK
  <2>2. CASE recorder[w].file = "stuck"
    <3>1. recorder[w].closeErr = TRUE
      BY <2>1, <2>2 DEF EventWriterOK, Managers
    <3>2. recorder' = [recorder EXCEPT ![w] =
             [recorder[w] EXCEPT !.queue = Tail(q), !.failed = recorder[w].failed \cup {Head(q)}]]
      BY <2>2 DEF WriteEventFails
    <3>3. [recorder[w] EXCEPT !.queue = Tail(q), !.failed = recorder[w].failed \cup {Head(q)}]
          = [recorder[w] EXCEPT !.queue = Tail(q), !.failed = recorder[w].failed \cup {Head(q)},
                                !.file = "stuck", !.closeErr = TRUE]
      BY <2>1, <2>2, <3>1 DEF Managers
    <3>4. QED
      BY <3>2, <3>3
  <2>3. CASE recorder[w].file # "stuck"
    <3>1. PICK f \in {"none", "stuck"} : recorder' = [recorder EXCEPT ![w] =
             [recorder[w] EXCEPT !.queue = Tail(q), !.failed = recorder[w].failed \cup {Head(q)},
                                 !.file = f, !.closeErr = TRUE]]
      BY <2>3 DEF WriteEventFails
    <3>2. QED
      BY <3>1
  <2>4. QED
    BY <2>2, <2>3
<1> DEFINE r == [recorder[w] EXCEPT !.queue = Tail(q), !.failed = recorder[w].failed \cup {Head(q)},
                                 !.file = f, !.closeErr = c]
<1>2. recorder[w].pc \in {"open", "closing"} /\ q # <<>> /\ UNCHANGED eventFile
  BY DEF WriteEventFails
<1>3. EventWriterOK(recorder[w], Written(w)) /\ recorder[w] \in Managers /\ q \in Seq(Nat) /\ Upwards(q)
  BY DEF EventsInv, EventWriterOK, Managers
<1>4. /\ Tail(q) \in Seq(Nat) /\ Upwards(Tail(q)) /\ Head(q) \in Nat
      /\ SetOf(q) = SetOf(Tail(q)) \cup {Head(q)}
      /\ \A n \in SetOf(Tail(q)) : Head(q) < n
  BY <1>2, <1>3, TakeFirst
<1>5. r \in Managers
  BY <1>3, <1>4 DEF Managers
<1>6. /\ r.pc = recorder[w].pc /\ r.next = recorder[w].next /\ r.queue = Tail(q)
      /\ r.dropped = recorder[w].dropped /\ r.failed = recorder[w].failed \cup {Head(q)}
      /\ r.closeErr = c
  BY <1>3 DEF Managers
<1>7. recorder' = [recorder EXCEPT ![w] = r]
  BY <1>1
<1> HIDE DEF r
<1>8. 1..(r.next - 1) = Written(w) \cup SetOf(r.queue) \cup r.dropped \cup r.failed
  BY <1>3, <1>4, <1>6 DEF EventWriterOK
<1>9. (Written(w) \cup SetOf(r.queue)) \cap (r.dropped \cup r.failed) = {}
  <2>1. (Written(w) \cup SetOf(q)) \cap (recorder[w].dropped \cup recorder[w].failed) = {}
    BY <1>3 DEF EventWriterOK
  <2>2. Head(q) \notin SetOf(Tail(q))
    BY <1>4
  <2>3. Head(q) \notin Written(w)
    <3>1. Head(q) \in Written(w) => Head(q) < Head(q)
      BY <1>3, <1>4 DEF EventWriterOK
    <3>2. QED
      BY <1>4, <3>1
  <2>4. QED
    BY <1>4, <1>6, <2>1, <2>2, <2>3
<1>10. \A m \in Written(w) : \A n \in SetOf(r.queue) : m < n
  BY <1>3, <1>4, <1>6 DEF EventWriterOK
<1>11. EventWriterOK(r, Written(w))
  BY <1>1, <1>2, <1>3, <1>4, <1>5, <1>6, <1>8, <1>9, <1>10 DEF EventWriterOK
<1>12. QED
  BY <1>2, <1>7, <1>11, WriterMoves

LEMMA CloseKeeps == ASSUME EventsInv, NEW w \in Recorders, CloseWriter(w) PROVE EventsInv'
<1>1. PICK p \in {"closing", "closed"}, f \in {"none", "ok", "stuck"} :
        /\ recorder' = [recorder EXCEPT ![w] = [recorder[w] EXCEPT !.pc = p, !.file = f]]
        /\ p = "closed" => recorder[w].queue = <<>>
        /\ f \in {"none", recorder[w].file}
  <2>1. recorder[w] \in Managers
    BY DEF EventsInv, EventWriterOK
  <2>2. CASE recorder[w].pc = "open"
    <3>1. recorder' = [recorder EXCEPT ![w] = [recorder[w] EXCEPT !.pc = "closing"]]
      BY <2>2 DEF CloseWriter
    <3>2. [recorder[w] EXCEPT !.pc = "closing"]
          = [recorder[w] EXCEPT !.pc = "closing", !.file = recorder[w].file]
      BY <2>1 DEF Managers
    <3>3. QED
      BY <2>1, <3>1, <3>2 DEF Managers
  <2>3. CASE recorder[w].pc # "open"
    BY <2>3 DEF CloseWriter
  <2>4. QED
    BY <2>2, <2>3
<1> DEFINE r == [recorder[w] EXCEPT !.pc = p, !.file = f]
<1>2. EventWriterOK(recorder[w], Written(w)) /\ recorder[w] \in Managers /\ UNCHANGED eventFile
  BY DEF EventsInv, EventWriterOK, CloseWriter
<1>3. r \in Managers
  BY <1>2 DEF Managers, WriterPlaces
<1>4. /\ r.pc = p /\ r.next = recorder[w].next /\ r.queue = recorder[w].queue /\ r.file = f
      /\ r.dropped = recorder[w].dropped /\ r.failed = recorder[w].failed
      /\ r.closeErr = recorder[w].closeErr
  BY <1>2 DEF Managers
<1>5. recorder' = [recorder EXCEPT ![w] = r]
  BY <1>1
<1> HIDE DEF r
<1>6. EventWriterOK(r, Written(w))
  BY <1>1, <1>2, <1>3, <1>4 DEF EventWriterOK
<1>7. QED
  BY <1>2, <1>5, <1>6, WriterMoves

LEMMA EndsKeeps == ASSUME EventsInv, ProcessEnds PROVE EventsInv'
<1>1. ASSUME NEW w \in Recorders PROVE EventWriterOK(recorder'[w], Written(w)) /\ InOrder(w)
  <2> DEFINE r == [recorder[w] EXCEPT !.pc = "lost"]
  <2>1. EventWriterOK(recorder[w], Written(w)) /\ recorder[w] \in Managers /\ InOrder(w)
    BY DEF EventsInv, EventWriterOK
  <2>2. recorder'[w] = IF recorder[w].pc = "closed" THEN recorder[w] ELSE r
    BY DEF ProcessEnds
  <2>3. r \in Managers
    BY <2>1 DEF Managers, WriterPlaces
  <2>4. /\ r.pc = "lost" /\ r.next = recorder[w].next /\ r.queue = recorder[w].queue
        /\ r.file = recorder[w].file /\ r.dropped = recorder[w].dropped
        /\ r.failed = recorder[w].failed /\ r.closeErr = recorder[w].closeErr
    BY <2>1 DEF Managers
  <2> HIDE DEF r
  <2>5. EventWriterOK(r, Written(w))
    BY <2>1, <2>3, <2>4 DEF EventWriterOK
  <2>6. QED
    BY <2>1, <2>2, <2>5
<1>2. eventFile' = eventFile /\ DOMAIN recorder' = Recorders
  BY DEF ProcessEnds
<1>3. \A w \in Recorders : Written(w)' = Written(w) /\ (InOrder(w) => InOrder(w)')
  BY <1>2 DEF Written, EventsOf, InOrder
<1>4. QED
  BY <1>1, <1>2, <1>3 DEF EventsInv

LEMMA EventsSame == ASSUME EventsInv, UNCHANGED <<recorder, eventFile>> PROVE EventsInv'
<1>1. \A w \in Recorders : Written(w)' = Written(w) /\ InOrder(w)' = InOrder(w)
  BY DEF Written, EventsOf, InOrder
<1>2. QED
  BY <1>1 DEF EventsInv

\* The tools that change items touch none of this.
LEMMA MemoryStep == ASSUME EventsInv, EventsNext \/ ItemsNext PROVE EventsInv'
<1>1. CASE ProcessEnds
  BY <1>1, EndsKeeps
<1>2. CASE EventsNext /\ ~ProcessEnds
  <2>1. PICK w \in Recorders : \/ IngestEvent(w) \/ WriteEventFails(w) \/ CloseWriter(w)
                               \/ \E newDay \in BOOLEAN : WriteEvent(w, newDay)
    BY <1>2 DEF EventsNext
  <2>2. QED
    <3>1. CASE IngestEvent(w)
      BY <3>1, IngestKeeps
    <3>2. CASE WriteEventFails(w)
      BY <3>2, FailKeeps
    <3>3. CASE CloseWriter(w)
      BY <3>3, CloseKeeps
    <3>4. CASE \E newDay \in BOOLEAN : WriteEvent(w, newDay)
      <4>1. PICK newDay \in BOOLEAN : WriteEvent(w, newDay)
        BY <3>4
      <4>2. QED
        BY <4>1, WriteKeepsEvents
    <3>5. QED
      BY <2>1, <3>1, <3>2, <3>3, <3>4
<1>3. CASE ItemsNext /\ ~ProcessEnds
  <2>1. UNCHANGED <<recorder, eventFile>>
    BY <1>3 DEF ItemsNext, UpdateItem, SyncVector, ListForMaintenance, ArchiveItem, WriteItem,
                CheckpointItem, ReadItem, ForgetItem
  <2>2. QED
    BY <2>1, EventsSame
<1>4. QED
  BY <1>1, <1>2, <1>3

\* The invariant holds throughout.
LEMMA EventsHold == Spec => []EventsInv
<1>1. Init => EventsInv
  <2> SUFFICES ASSUME MemoryInit PROVE EventsInv
    BY DEF Init
  <2>1. eventFile = <<>> /\ eventFile \in Seq(Recorders \X Nat) /\ DOMAIN recorder = Recorders
    BY DEF MemoryInit
  <2>2. ASSUME NEW w \in Recorders PROVE EventWriterOK(recorder[w], Written(w)) /\ InOrder(w)
    <3>1. /\ recorder[w].pc = "open" /\ recorder[w].next = 1 /\ recorder[w].queue = <<>>
          /\ recorder[w].file = "none" /\ recorder[w].dropped = {} /\ recorder[w].failed = {}
      BY DEF MemoryInit
    <3>2. <<>> \in Seq(Nat)
      OBVIOUS
    <3>3. recorder[w] \in Managers
      BY <3>2 DEF MemoryInit, Managers, WriterPlaces
    <3>4. EventsOf(w) = {} /\ SetOf(recorder[w].queue) = {} /\ 1..(recorder[w].next - 1) = {}
      BY <2>1, <3>1 DEF EventsOf, SetOf
    <3>5. QED
      BY <3>1, <3>3, <3>4 DEF EventWriterOK, Upwards, Written, InOrder
  <2>3. QED
    BY <2>1, <2>2 DEF EventsInv
<1>2. EventsInv /\ [Next]_vars => EventsInv'
  <2> SUFFICES ASSUME EventsInv, [Next]_vars PROVE EventsInv'
    OBVIOUS
  <2>1. EventsNext \/ ItemsNext \/ UNCHANGED memoryVars
    BY DEF Next, vars, Rest
  <2>2. CASE UNCHANGED memoryVars
    BY <2>2, EventsSame DEF memoryVars
  <2>3. QED
    BY <2>1, <2>2, MemoryStep
<1>3. QED
  BY <1>1, <1>2, PTL DEF Spec

\* Every event of a run whose writer has closed is on file, in order and once,
\* or was counted as dropped, or its writing failed and Close reports it
\* (Manager.IngestEvent, runWriter, Close).
THEOREM EventsStayAccounted == Spec => []EventsAccounted
<1>1. EventsInv => EventsAccounted
  <2> SUFFICES ASSUME EventsInv, NEW w \in Recorders, recorder[w].pc = "closed"
               PROVE  /\ InOrder(w)
                      /\ Written(w) = (1..(recorder[w].next - 1)) \ (recorder[w].dropped \cup recorder[w].failed)
                      /\ recorder[w].failed # {} => recorder[w].closeErr
    BY DEF EventsAccounted, InOrder
  <2>1. EventWriterOK(recorder[w], Written(w)) /\ InOrder(w)
    BY DEF EventsInv
  <2>2. SetOf(recorder[w].queue) = {}
    BY <2>1 DEF EventWriterOK, SetOf
  <2>3. QED
    BY <2>1, <2>2 DEF EventWriterOK
<1>2. QED
  BY <1>1, EventsHold, PTL

-----------------------------------------------------------------------------
(* The files of a workspace.  A call that is about to put its text into a   *)
(* truncated file has it until then, wherever the file is moved.            *)

Node == [kind : {"none", "dir", "file"}, text : SUBSET Tooling]
Use  == [pc : {"idle", "open", "put", "remove", "rename", "done"},
         op : {"write", "edit", "append", "delete", "move", None},
         path : Paths \cup {None}, src : Paths \cup {None}, text : SUBSET Tooling, dir : BOOLEAN]

UseOK(c, w, host) ==
    /\ w.pc \in {"open", "put"} => c \in w.text /\ w.op \in {"write", "edit", "append"}
    /\ w.pc \in {"open", "remove", "rename"} => w.path # None
    /\ w.pc = "rename" => w.op = "move"
    /\ w.pc \in {"remove", "rename"} /\ w.op = "move" => w.src # None /\ w.src # w.path
    /\ w.pc = "put" => host
    /\ w.pc \in {"open", "put"} /\ host => w.op # "append"

\* Where text x is: in a file, or with the call d that is writing it.
OnFile(t, x)  == \E p \in Paths : x \in t[p].text
Holds(w, x)    == w.pc = "put" /\ w.path # None /\ x \in w.text
Stored(t, u, x) == OnFile(t, x) \/ \E d \in Tooling : Holds(u[d], x)

\* What o says was overwritten, on the host not by an append.
OverOK(o, host) == o \in [{"edit", "append"} -> SUBSET Tooling] /\ (host => o["append"] = {})
Excused(o)      == o["edit"] \cup o["append"]

WorkspaceInv ==
    /\ tree \in [Paths -> Node] /\ tooling \in [Tooling -> Use]
    /\ \A c \in Tooling : UseOK(c, tooling[c], OnHost)
    /\ OverOK(overwritten, OnHost)
    /\ \A x \in kept \ Excused(overwritten) : Stored(tree, tooling, x)

LEMMA TextIs ==
    ASSUME WorkspaceInv, NEW P \in SUBSET Paths, NEW x
    PROVE  x \in Text(P) <=> \/ \E p \in P : x \in tree[p].text
                             \/ \E d \in Tooling : Holds(tooling[d], x) /\ tooling[d].path \in P
<1>1. x \in Text(P) <=> (\E p \in P : x \in tree[p].text) \/ \E d \in Open(P) : x \in tooling[d].text
  <2>1. x \in UNION {tree[p].text : p \in P} <=> \E p \in P : x \in tree[p].text
    OBVIOUS
  <2>2. x \in UNION {tooling[d].text : d \in Open(P)} <=> \E d \in Open(P) : x \in tooling[d].text
    OBVIOUS
  <2>3. QED
    BY <2>1, <2>2 DEF Text
<1>2. \A d : d \in Open(P) <=> d \in Tooling /\ tooling[d].pc = "put" /\ tooling[d].path \in P
  BY DEF Open
<1>3. \A p \in P : p # None
  BY WorkspaceAssumption
<1>4. QED
  BY <1>1, <1>2, <1>3 DEF Holds

LEMMA WorkspaceTold == WorkspaceInv => StoredKept
<1> SUFFICES ASSUME WorkspaceInv, NEW x \in kept \ Excused(overwritten) PROVE x \in Text(Paths)
  BY DEF StoredKept, WorkspaceInv, OverOK, Excused
<1>1. Stored(tree, tooling, x)
  BY DEF WorkspaceInv
<1>2. \A d \in Tooling : tooling[d].path # None => tooling[d].path \in Paths
  BY DEF WorkspaceInv, Use
<1>3. x \in Text(Paths) <=> \/ \E p \in Paths : x \in tree[p].text
                            \/ \E d \in Tooling : Holds(tooling[d], x) /\ tooling[d].path \in Paths
  BY TextIs
<1>4. QED
  BY <1>1, <1>2, <1>3 DEF Stored, OnFile, Holds

\* One call goes on.
LEMMA UseMoves ==
    ASSUME WorkspaceInv, NEW c \in Tooling, NEW w \in Use, tooling' = [tooling EXCEPT ![c] = w],
           UseOK(c, w, OnHost), UNCHANGED container
    PROVE  /\ tooling' \in [Tooling -> Use] /\ tooling'[c] = w
           /\ \A d \in Tooling \ {c} : tooling'[d] = tooling[d]
           /\ \A d \in Tooling : UseOK(d, tooling'[d], OnHost')
<1>1. tooling' \in [Tooling -> Use] /\ tooling'[c] = w /\ \A d \in Tooling \ {c} : tooling'[d] = tooling[d]
  BY DEF WorkspaceInv
<1>2. OnHost' = OnHost
  BY DEF OnHost
<1>3. \A d \in Tooling : UseOK(d, tooling[d], OnHost)
  BY DEF WorkspaceInv
<1>4. \A d \in Tooling : UseOK(d, tooling'[d], OnHost')
  BY <1>1, <1>2, <1>3
<1>5. QED
  BY <1>1, <1>4

\* A call that is not writing goes on and takes nothing away.
LEMMA LooksKeep ==
    ASSUME WorkspaceInv, NEW c \in Tooling, NEW w \in Use, tooling' = [tooling EXCEPT ![c] = w],
           UseOK(c, w, OnHost), tooling[c].pc # "put", UNCHANGED <<container, overwritten>>,
           kept' \subseteq kept, tree' \in [Paths -> Node], \A p \in Paths : tree[p].text \subseteq tree'[p].text
    PROVE  WorkspaceInv'
<1>1. /\ tooling' \in [Tooling -> Use] /\ \A d \in Tooling \ {c} : tooling'[d] = tooling[d]
      /\ \A d \in Tooling : UseOK(d, tooling'[d], OnHost')
  BY UseMoves
<1>2. ASSUME NEW x \in kept' \ Excused(overwritten') PROVE Stored(tree', tooling', x)
  <2>1. Stored(tree, tooling, x)
    BY DEF WorkspaceInv
  <2>2. CASE OnFile(tree, x)
    BY <2>2 DEF OnFile, Stored
  <2>3. CASE \E d \in Tooling : Holds(tooling[d], x)
    <3>1. PICK d \in Tooling : Holds(tooling[d], x)
      BY <2>3
    <3>2. d # c
      BY <3>1 DEF Holds
    <3>3. QED
      BY <1>1, <3>1, <3>2 DEF Stored
  <2>4. QED
    BY <2>1, <2>2, <2>3 DEF Stored
<1>3. OverOK(overwritten', OnHost')
  BY DEF WorkspaceInv, OnHost
<1>4. QED
  BY <1>1, <1>2, <1>3 DEF WorkspaceInv

LEMMA SpentOK == ASSUME NEW c, NEW host PROVE Spent \in Use /\ UseOK(c, Spent, host)
<1>1. Spent \in Use
  BY DEF Spent, NoTool, Use
<1>2. Spent.pc = "done"
  BY DEF Spent, NoTool
<1>3. QED
  BY <1>1, <1>2 DEF UseOK

\* A call that begins reads, and may make a folder.
LEMMA BeginsKeep ==
    ASSUME WorkspaceInv, NEW c \in Tooling, NEW w \in Use, Begins(c, w), UseOK(c, w, OnHost),
           UNCHANGED <<container, overwritten>>, kept' \subseteq kept, tree' \in [Paths -> Node],
           \A p \in Paths : tree[p].text \subseteq tree'[p].text
    PROVE  WorkspaceInv'
  BY LooksKeep DEF Begins

LEMMA FolderMade ==
    ASSUME WorkspaceInv, NEW t, t = [tree EXCEPT ![Folder].kind = "dir"]
    PROVE  t \in [Paths -> Node] /\ \A p \in Paths : t[p].text = tree[p].text
<1>1. Folder \in Paths /\ tree[Folder] \in Node
  BY DEF Paths, WorkspaceInv
<1> DEFINE n == [tree[Folder] EXCEPT !.kind = "dir"]
<1>2. n \in Node /\ n.text = tree[Folder].text
  BY <1>1 DEF Node
<1>3. t = [tree EXCEPT ![Folder] = n]
  BY DEF WorkspaceInv
<1> HIDE DEF n
<1>4. QED
  BY <1>1, <1>2, <1>3 DEF WorkspaceInv

LEMMA MadeIsTree ==
    ASSUME WorkspaceInv, NEW q
    PROVE  Made(q) \in [Paths -> Node] /\ \A p \in Paths : Made(q)[p].text = tree[p].text
<1>1. CASE q \in Inside
  BY <1>1, FolderMade DEF Made
<1>2. CASE q \notin Inside
  BY <1>2 DEF Made, WorkspaceInv
<1>3. QED
  BY <1>1, <1>2

LEMMA MakeFolderKeeps ==
    ASSUME WorkspaceInv, NEW c \in Tooling, MakeFolder(c) PROVE WorkspaceInv'
<1>1. tree' \in [Paths -> Node] /\ \A p \in Paths : tree'[p].text = tree[p].text
  BY FolderMade DEF MakeFolder
<1>2. Begins(c, Spent) /\ UNCHANGED <<container, kept, overwritten>>
  BY DEF MakeFolder
<1>3. QED
  BY <1>1, <1>2, SpentOK, BeginsKeep

LEMMA WriteFileKeeps ==
    ASSUME WorkspaceInv, NEW c \in Tooling, NEW p \in Files, WriteFile(c, p) PROVE WorkspaceInv'
<1> DEFINE w == [NoTool EXCEPT !.pc = "open", !.op = "write", !.path = p, !.text = {c}]
<1>1. Begins(c, w) /\ UNCHANGED <<container, kept, overwritten>> /\ tree' = Made(p)
  BY DEF WriteFile
<1>2. w \in Use /\ w.pc = "open" /\ w.op = "write" /\ w.path = p /\ w.text = {c}
  BY DEF NoTool, Use, Paths
<1> HIDE DEF w
<1>3. UseOK(c, w, OnHost)
  BY <1>2, WorkspaceAssumption DEF UseOK, Paths
<1>4. QED
  BY <1>1, <1>2, <1>3, MadeIsTree, BeginsKeep

LEMMA ReadFileKeeps ==
    ASSUME WorkspaceInv, NEW c \in Tooling, NEW p \in Files, NEW op \in {"edit", "append"}, ReadFile(c, p, op)
    PROVE  WorkspaceInv'
<1>1. PICK rest \in {tree[p].text, {}} :
        /\ Begins(c, [NoTool EXCEPT !.pc = "open", !.op = op, !.path = p, !.text = rest \cup {c}])
        /\ kept' \subseteq kept
  BY DEF ReadFile, Edited
<1> DEFINE w == [NoTool EXCEPT !.pc = "open", !.op = op, !.path = p, !.text = rest \cup {c}]
<1>2. /\ UNCHANGED <<container, overwritten, tree>> /\ kept' \subseteq kept /\ (op = "append" => ~OnHost)
      /\ tree[p].text \subseteq Tooling /\ Begins(c, w)
  BY <1>1 DEF ReadFile, WorkspaceInv, Node, Paths
<1>3. w \in Use /\ w.pc = "open" /\ w.op = op /\ w.path = p /\ c \in w.text
  BY <1>2 DEF NoTool, Use, Paths
<1> HIDE DEF w
<1>4. UseOK(c, w, OnHost)
  BY <1>2, <1>3, WorkspaceAssumption DEF UseOK, Paths
<1>5. tree' \in [Paths -> Node]
  BY <1>2 DEF WorkspaceInv
<1>6. QED
  BY <1>2, <1>3, <1>4, <1>5, BeginsKeep

LEMMA DeletePathKeeps ==
    ASSUME WorkspaceInv, NEW c \in Tooling, NEW p \in Paths, DeletePath(c, p) PROVE WorkspaceInv'
<1> DEFINE w == [NoTool EXCEPT !.pc = "remove", !.op = "delete", !.path = p, !.dir = (tree[p].kind = "dir")]
<1>1. Begins(c, w) /\ UNCHANGED <<container, kept, overwritten, tree>>
  BY DEF DeletePath
<1>2. w \in Use /\ w.pc = "remove" /\ w.op = "delete" /\ w.path = p
  BY DEF NoTool, Use
<1> HIDE DEF w
<1>3. UseOK(c, w, OnHost)
  BY <1>2, WorkspaceAssumption DEF UseOK
<1>4. tree' \in [Paths -> Node]
  BY <1>1 DEF WorkspaceInv
<1>5. QED
  BY <1>1, <1>2, <1>3, <1>4, BeginsKeep

LEMMA MovePathKeeps ==
    ASSUME WorkspaceInv, NEW c \in Tooling, NEW p \in Files, NEW q \in Paths, MovePath(c, p, q)
    PROVE  WorkspaceInv'
<1> DEFINE w == [NoTool EXCEPT !.pc = IF tree[q].kind = "none" THEN "rename" ELSE "remove",
                               !.op = "move", !.src = p, !.path = q, !.dir = (tree[q].kind = "dir")]
<1>1. Begins(c, w) /\ UNCHANGED <<container, kept, overwritten, tree>> /\ p # q
  BY DEF MovePath
<1>2. w \in Use /\ w.pc \in {"rename", "remove"} /\ w.op = "move" /\ w.path = q /\ w.src = p
  BY DEF NoTool, Use, Paths
<1> HIDE DEF w
<1>3. UseOK(c, w, OnHost)
  BY <1>1, <1>2, WorkspaceAssumption DEF UseOK, Paths
<1>4. tree' \in [Paths -> Node]
  BY <1>1 DEF WorkspaceInv
<1>5. QED
  BY <1>1, <1>2, <1>3, <1>4, BeginsKeep

LEMMA AppendFileKeeps ==
    ASSUME WorkspaceInv, NEW c \in Tooling, NEW p \in Files, AppendFile(c, p) PROVE WorkspaceInv'
<1> DEFINE n == [kind |-> "file", text |-> tree[p].text \cup {c}]
<1>1. /\ Begins(c, Spent) /\ tree' = [tree EXCEPT ![p] = n] /\ kept' = kept \cup {c} /\ UNCHANGED <<container, overwritten>>
      /\ p \in Paths /\ tree[p] \in Node
  BY DEF AppendFile, Paths, WorkspaceInv
<1>2. n \in Node /\ tree[p].text \subseteq n.text /\ c \in n.text
  BY <1>1 DEF Node
<1> HIDE DEF n
<1>3. /\ tree' \in [Paths -> Node] /\ c \in tree'[p].text
      /\ \A r \in Paths : tree[r].text \subseteq tree'[r].text
  BY <1>1, <1>2 DEF WorkspaceInv
<1>4. tooling[c].pc = "idle" /\ tooling' = [tooling EXCEPT ![c] = Spent]
  BY <1>1 DEF Begins
<1>5. /\ tooling' \in [Tooling -> Use] /\ \A d \in Tooling \ {c} : tooling'[d] = tooling[d]
      /\ \A d \in Tooling : UseOK(d, tooling'[d], OnHost')
  BY <1>1, <1>4, SpentOK, UseMoves
<1>6. ASSUME NEW x \in kept' \ Excused(overwritten') PROVE Stored(tree', tooling', x)
  <2>1. CASE x = c
    BY <1>1, <1>3, <2>1 DEF Stored, OnFile
  <2>2. CASE x \in kept
    <3>1. OnFile(tree, x) \/ \E d \in Tooling : Holds(tooling[d], x)
      BY <1>1, <1>6, <2>2 DEF WorkspaceInv, Stored
    <3>2. CASE OnFile(tree, x)
      BY <1>3, <3>2 DEF Stored, OnFile
    <3>3. CASE \E d \in Tooling : Holds(tooling[d], x)
      <4>1. PICK d \in Tooling : Holds(tooling[d], x)
        BY <3>3
      <4>2. d # c
        BY <1>4, <4>1 DEF Holds
      <4>3. QED
        BY <1>5, <4>1, <4>2 DEF Stored
    <3>4. QED
      BY <3>1, <3>2, <3>3
  <2>3. QED
    BY <1>1, <1>6, <2>1, <2>2
<1>7. OverOK(overwritten', OnHost')
  BY <1>1 DEF WorkspaceInv, OnHost
<1>8. QED
  BY <1>3, <1>5, <1>6, <1>7 DEF WorkspaceInv

\* What a call takes away is what a write was to replace, or is excused.
LEMMA ReplacesIs ==
    ASSUME WorkspaceInv, NEW c \in Tooling, NEW p \in Paths, tooling[c].path = p,
           tooling[c].pc \in {"open", "put"}, UNCHANGED container,
           NEW left, NEW told, Replaces(c, left, told)
    PROVE  /\ OverOK(overwritten', OnHost')
           /\ \A x \in kept' \ Excused(overwritten') :
                x \in told \/ (x \in kept \ Excused(overwritten) /\ x \notin tree[p].text \ left)
<1>1. /\ UseOK(c, tooling[c], OnHost) /\ tree[p].text \subseteq Tooling
      /\ OverOK(overwritten, OnHost) /\ OnHost' = OnHost
  BY DEF WorkspaceInv, Node, OnHost
<1> DEFINE gone == tree[p].text \ left
<1>2. CASE tooling[c].op = "write"
  <2>1. kept' = (kept \ gone) \cup told /\ overwritten' = overwritten
    BY <1>2 DEF Replaces
  <2>2. QED
    BY <1>1, <2>1
<1>3. CASE tooling[c].op # "write"
  <2>1. /\ kept' = kept \cup told /\ tooling[c].op \in {"edit", "append"}
        /\ overwritten' = [overwritten EXCEPT ![tooling[c].op] = @ \cup (kept \cap gone)]
    BY <1>1, <1>3 DEF Replaces, UseOK
  <2>2. kept \cap gone \subseteq Tooling /\ (OnHost => tooling[c].op = "edit")
    BY <1>1, <2>1 DEF UseOK
  <2> HIDE DEF gone
  <2>3. OverOK(overwritten', OnHost')
    BY <1>1, <2>1, <2>2 DEF OverOK
  <2>4. Excused(overwritten') = Excused(overwritten) \cup (kept \cap gone)
    BY <1>1, <2>1 DEF OverOK, Excused
  <2>5. QED
    BY <2>1, <2>3, <2>4 DEF gone
<1>4. QED
  BY <1>2, <1>3

LEMMA OpenFields ==
    ASSUME WorkspaceInv, NEW c \in Tooling
    PROVE  /\ tooling[c] \in Use /\ tooling[c].text \subseteq Tooling /\ UseOK(c, tooling[c], OnHost)
           /\ tooling[c].path \in Paths \cup {None} /\ tooling[c].src \in Paths \cup {None}
           /\ tooling[c].pc = "open" => tooling[c].path \in Paths
           /\ tooling[c].pc \in {"open", "put"} => c \in tooling[c].text
<1>1. tooling[c] \in Use /\ UseOK(c, tooling[c], OnHost)
  BY DEF WorkspaceInv
<1>2. QED
  BY <1>1 DEF Use, UseOK

LEMMA TruncateKeeps == ASSUME WorkspaceInv, NEW c \in Tooling, TruncateFile(c) PROVE WorkspaceInv'
<1> DEFINE p == tooling[c].path
           n == [kind |-> "file", text |-> {}]
           w == [tooling[c] EXCEPT !.pc = "put"]
<1>1. OnHost /\ tooling[c].pc = "open" /\ UNCHANGED container
  BY DEF TruncateFile
<1>2. CASE /\ tree' = [tree EXCEPT ![p] = n] /\ tooling' = [tooling EXCEPT ![c].pc = "put"]
           /\ Replaces(c, tooling[c].text, {})
  <2>1. p \in Paths /\ n \in Node /\ tooling[c] \in Use /\ UseOK(c, tooling[c], OnHost) /\ p # None
    BY <1>1, OpenFields, WorkspaceAssumption DEF Node
  <2>2. w \in Use /\ w.pc = "put" /\ w.path = p /\ w.text = tooling[c].text /\ w.op = tooling[c].op
    BY <2>1 DEF Use
  <2>3. tooling' = [tooling EXCEPT ![c] = w]
    BY <1>2 DEF WorkspaceInv
  <2>4. /\ OverOK(overwritten', OnHost')
        /\ \A x \in kept' \ Excused(overwritten') :
             x \in kept \ Excused(overwritten) /\ x \notin tree[p].text \ w.text
    BY <1>1, <1>2, <2>1, <2>2, ReplacesIs
  <2> HIDE DEF w, n, p
  <2>5. UseOK(c, w, OnHost)
    BY <1>1, <2>1, <2>2 DEF UseOK
  <2>6. /\ tooling' \in [Tooling -> Use] /\ \A d \in Tooling \ {c} : tooling'[d] = tooling[d]
        /\ tooling'[c] = w /\ \A d \in Tooling : UseOK(d, tooling'[d], OnHost')
    BY <1>1, <2>2, <2>3, <2>5, UseMoves
  <2>7. tree' \in [Paths -> Node] /\ \A r \in Paths \ {p} : tree'[r] = tree[r]
    BY <1>2, <2>1 DEF WorkspaceInv
  <2>8. ASSUME NEW x \in kept' \ Excused(overwritten') PROVE Stored(tree', tooling', x)
    <3>1. OnFile(tree, x) \/ \E d \in Tooling : Holds(tooling[d], x)
      BY <2>4, <2>8 DEF WorkspaceInv, Stored
    <3>2. CASE \E r \in Paths \ {p} : x \in tree[r].text
      BY <2>7, <3>2 DEF Stored, OnFile
    <3>3. CASE x \in tree[p].text
      <4>1. Holds(tooling'[c], x)
        BY <2>1, <2>2, <2>4, <2>6, <2>8, <3>3 DEF Holds
      <4>2. QED
        BY <4>1 DEF Stored
    <3>4. CASE \E d \in Tooling : Holds(tooling[d], x)
      <4>1. PICK d \in Tooling : Holds(tooling[d], x)
        BY <3>4
      <4>2. d # c
        BY <1>1, <4>1 DEF Holds
      <4>3. QED
        BY <2>6, <4>1, <4>2 DEF Stored
    <3>5. QED
      BY <3>1, <3>2, <3>3, <3>4 DEF OnFile
  <2>9. QED
    BY <2>4, <2>6, <2>7, <2>8 DEF WorkspaceInv
<1>3. CASE tooling' = [tooling EXCEPT ![c] = Spent] /\ UNCHANGED <<tree, kept, overwritten>>
  <2>1. tree' \in [Paths -> Node] /\ \A r \in Paths : tree[r].text \subseteq tree'[r].text
    BY <1>3 DEF WorkspaceInv
  <2>2. QED
    BY <1>1, <1>3, <2>1, SpentOK, LooksKeep
<1>4. QED
  BY <1>2, <1>3 DEF TruncateFile

\* A call puts its text into its file, over what it may take away.
LEMMA PutKeeps ==
    ASSUME WorkspaceInv, NEW c \in Tooling, NEW p \in Paths, tooling[c].path = p,
           tooling[c].pc \in {"open", "put"}, tooling' = [tooling EXCEPT ![c] = Spent],
           UNCHANGED container, tree' \in [Paths -> Node], NEW left, left \subseteq tree'[p].text,
           tooling[c].text \subseteq left, \A r \in Paths \ {p} : tree[r].text \subseteq tree'[r].text,
           Replaces(c, left, {c})
    PROVE  WorkspaceInv'
<1>1. /\ tooling' \in [Tooling -> Use] /\ \A d \in Tooling \ {c} : tooling'[d] = tooling[d]
      /\ \A d \in Tooling : UseOK(d, tooling'[d], OnHost')
  BY SpentOK, UseMoves
<1>2. /\ OverOK(overwritten', OnHost') /\ c \in tooling[c].text
      /\ \A x \in kept' \ Excused(overwritten') :
           x = c \/ (x \in kept \ Excused(overwritten) /\ x \notin tree[p].text \ left)
  BY ReplacesIs, OpenFields
<1>3. ASSUME NEW x \in kept' \ Excused(overwritten') PROVE Stored(tree', tooling', x)
  <2>1. CASE x \in left
    BY <2>1 DEF Stored, OnFile
  <2>2. CASE x \notin left
    <3>1. x \in kept \ Excused(overwritten) /\ x \notin tree[p].text /\ x \notin tooling[c].text
      BY <1>2, <1>3, <2>2
    <3>2. OnFile(tree, x) \/ \E d \in Tooling : Holds(tooling[d], x)
      BY <3>1 DEF WorkspaceInv, Stored
    <3>3. CASE OnFile(tree, x)
      BY <3>1, <3>3 DEF Stored, OnFile
    <3>4. CASE \E d \in Tooling : Holds(tooling[d], x)
      <4>1. PICK d \in Tooling : Holds(tooling[d], x)
        BY <3>4
      <4>2. d # c
        BY <3>1, <4>1 DEF Holds
      <4>3. QED
        BY <1>1, <4>1, <4>2 DEF Stored
    <3>5. QED
      BY <3>2, <3>3, <3>4
  <2>3. QED
    BY <2>1, <2>2
<1>4. QED
  BY <1>1, <1>2, <1>3 DEF WorkspaceInv

LEMMA PutTextKeeps == ASSUME WorkspaceInv, NEW c \in Tooling, PutText(c) PROVE WorkspaceInv'
<1> DEFINE p == tooling[c].path
<1>1. tooling[c].pc = "put" /\ tooling' = [tooling EXCEPT ![c] = Spent] /\ UNCHANGED container
  BY DEF PutText
<1>2. p \in Paths \cup {None} /\ tooling[c].text \subseteq Tooling
  BY OpenFields
<1>3. CASE p = None
  <2>1. UNCHANGED <<tree, kept, overwritten>>
    BY <1>3 DEF PutText
  <2>2. /\ tooling' \in [Tooling -> Use] /\ \A d \in Tooling \ {c} : tooling'[d] = tooling[d]
        /\ \A d \in Tooling : UseOK(d, tooling'[d], OnHost')
    BY <1>1, SpentOK, UseMoves
  <2>3. ASSUME NEW x \in kept' \ Excused(overwritten') PROVE Stored(tree', tooling', x)
    <3>1. OnFile(tree', x) \/ \E d \in Tooling : Holds(tooling[d], x)
      BY <2>1, <2>3 DEF WorkspaceInv, Stored
    <3>2. ~Holds(tooling[c], x)
      BY <1>3 DEF Holds
    <3>3. QED
      BY <2>2, <3>1, <3>2 DEF Stored
  <2>4. OverOK(overwritten', OnHost')
    BY <1>1, <2>1 DEF WorkspaceInv, OnHost
  <2>5. QED
    BY <2>1, <2>2, <2>3, <2>4 DEF WorkspaceInv
<1>4. CASE p # None
  <2>1. PICK rest \in {{}, tree[p].text} :
          /\ tree' = [tree EXCEPT ![p].text = rest \cup tooling[c].text]
          /\ Replaces(c, rest \cup tooling[c].text, {c})
    BY <1>4 DEF PutText
  <2>2. p \in Paths /\ tree[p] \in Node
    BY <1>2, <1>4 DEF WorkspaceInv
  <2> DEFINE n == [tree[p] EXCEPT !.text = rest \cup tooling[c].text]
  <2>3. n \in Node /\ n.text = rest \cup tooling[c].text
    BY <1>2, <2>2 DEF Node
  <2>4. tree' = [tree EXCEPT ![p] = n]
    BY <2>1 DEF WorkspaceInv
  <2> HIDE DEF n, p
  <2>5. /\ tree' \in [Paths -> Node] /\ tree'[p].text = rest \cup tooling[c].text
        /\ \A r \in Paths \ {p} : tree[r].text \subseteq tree'[r].text
    BY <2>2, <2>3, <2>4 DEF WorkspaceInv
  <2>6. tooling[c].path = p
    BY DEF p
  <2>7. PICK left : left = rest \cup tooling[c].text
    OBVIOUS
  <2>8. Replaces(c, left, {c})
    BY <2>1, <2>7
  <2>9. left \subseteq tree'[p].text /\ tooling[c].text \subseteq left
    BY <2>5, <2>7
  <2>10. QED
    BY <1>1, <2>2, <2>5, <2>6, <2>8, <2>9, PutKeeps
<1>5. QED
  BY <1>3, <1>4

LEMMA CopyKeeps == ASSUME WorkspaceInv, NEW c \in Tooling, CopyToContainer(c) PROVE WorkspaceInv'
<1> DEFINE p == tooling[c].path
           n == [kind |-> "file", text |-> tooling[c].text]
<1>1. tooling[c].pc = "open" /\ tooling' = [tooling EXCEPT ![c] = Spent] /\ UNCHANGED container
  BY DEF CopyToContainer
<1>2. p \in Paths /\ tooling[c].text \subseteq Tooling
  BY <1>1, OpenFields
<1>3. CASE tree' = [Made(p) EXCEPT ![p] = n] /\ Replaces(c, tooling[c].text, {c})
  <2>1. Made(p) \in [Paths -> Node] /\ \A r \in Paths : Made(p)[r].text = tree[r].text
    BY MadeIsTree
  <2>2. n \in Node /\ n.text = tooling[c].text
    BY <1>2 DEF Node
  <2>3. tooling[c].path = p
    OBVIOUS
  <2> HIDE DEF n, p
  <2>4. /\ tree' \in [Paths -> Node] /\ tooling[c].text \subseteq tree'[p].text
        /\ \A r \in Paths \ {p} : tree[r].text \subseteq tree'[r].text
    BY <1>2, <1>3, <2>1, <2>2
  <2>5. PICK left : left = tooling[c].text
    OBVIOUS
  <2>6. Replaces(c, left, {c})
    BY <1>3, <2>5
  <2>7. left \subseteq tree'[p].text /\ tooling[c].text \subseteq left
    BY <2>4, <2>5
  <2>8. QED
    BY <1>1, <1>2, <2>3, <2>4, <2>6, <2>7, PutKeeps
<1>4. CASE UNCHANGED <<tree, kept, overwritten>>
  <2>1. tree' \in [Paths -> Node] /\ \A r \in Paths : tree[r].text \subseteq tree'[r].text
    BY <1>4 DEF WorkspaceInv
  <2>2. QED
    BY <1>1, <1>4, <2>1, SpentOK, LooksKeep
<1>5. QED
  BY <1>3, <1>4 DEF CopyToContainer

\* A folder goes with its files, a file alone; those who write there lose it.
LEMMA RemoveKeeps == ASSUME WorkspaceInv, NEW c \in Tooling, RemovePath(c) PROVE WorkspaceInv'
<1> DEFINE p    == tooling[c].path
           w    == IF tooling[c].op = "move" THEN [tooling[c] EXCEPT !.pc = "rename"] ELSE Spent
           U(d) == IF d = c THEN w ELSE IF d \in Open(Under(p)) THEN [tooling[d] EXCEPT !.path = None] ELSE tooling[d]
<1>1. tooling[c].pc = "remove" /\ UNCHANGED <<container, overwritten>>
  BY DEF RemovePath
<1>2. CASE /\ tree' = [x \in Paths |-> IF x \in Under(p) THEN Absent ELSE tree[x]]
           /\ kept' = kept \ Text(Under(p)) /\ tooling' = [d \in Tooling |-> U(d)]
  <2>1. /\ tooling[c] \in Use /\ UseOK(c, tooling[c], OnHost) /\ p \in Paths
    <3>1. tooling[c] \in Use /\ UseOK(c, tooling[c], OnHost) /\ p \in Paths \cup {None}
      BY OpenFields
    <3>2. QED
      BY <1>1, <3>1 DEF UseOK
  <2>2. Under(p) \subseteq Paths
    BY <2>1 DEF Under, Paths, Files
  <2>3. tree' \in [Paths -> Node] /\ \A r \in Paths \ Under(p) : tree'[r] = tree[r]
    <3>1. Absent \in Node
      BY DEF Absent, Node
    <3>2. QED
      BY <1>2, <3>1 DEF WorkspaceInv
  <2>4. w \in Use /\ w.pc # "put" /\ UseOK(c, w, OnHost)
    <3>1. CASE tooling[c].op = "move"
      <4>1. w = [tooling[c] EXCEPT !.pc = "rename"]
        BY <3>1
      <4> HIDE DEF w
      <4>2. w \in Use /\ w.pc = "rename" /\ w.op = "move" /\ w.path = p /\ w.src = tooling[c].src
        BY <2>1, <3>1, <4>1 DEF Use
      <4>3. QED
        BY <1>1, <2>1, <3>1, <4>2 DEF UseOK
    <3>2. CASE tooling[c].op # "move"
      BY <3>2, SpentOK DEF Spent, NoTool
    <3>3. QED
      BY <3>1, <3>2
  <2> HIDE DEF w
  <2>5. ASSUME NEW d \in Tooling PROVE U(d) \in Use /\ UseOK(d, U(d), OnHost)
    <3>1. tooling[d] \in Use /\ UseOK(d, tooling[d], OnHost)
      BY OpenFields
    <3>2. CASE d # c /\ d \in Open(Under(p))
      <4> DEFINE u == [tooling[d] EXCEPT !.path = None]
      <4>1. tooling[d].pc = "put"
        BY <3>2 DEF Open
      <4>2. u \in Use /\ u.pc = "put" /\ u.text = tooling[d].text /\ u.op = tooling[d].op
        BY <3>1, <4>1 DEF Use
      <4>3. U(d) = u
        BY <3>2
      <4> HIDE DEF u, U
      <4>4. UseOK(d, u, OnHost)
        BY <3>1, <4>1, <4>2 DEF UseOK
      <4>5. QED
        BY <4>2, <4>3, <4>4
    <3>3. QED
      BY <2>4, <3>1, <3>2
  <2>6. OnHost' = OnHost
    BY <1>1 DEF OnHost
  <2>7. tooling' \in [Tooling -> Use] /\ \A d \in Tooling : UseOK(d, tooling'[d], OnHost')
    <3>1. \A d \in Tooling : tooling'[d] = U(d)
      BY <1>2
    <3> HIDE DEF U
    <3>2. QED
      BY <1>2, <2>5, <2>6, <3>1
  <2>8. ASSUME NEW x \in kept' \ Excused(overwritten') PROVE Stored(tree', tooling', x)
    <3>1. OnFile(tree, x) \/ \E d \in Tooling : Holds(tooling[d], x)
      BY <1>1, <1>2, <2>8 DEF WorkspaceInv, Stored
    <3>2. /\ ~\E r \in Under(p) : x \in tree[r].text
          /\ ~\E d \in Tooling : Holds(tooling[d], x) /\ tooling[d].path \in Under(p)
      <4>1. x \notin Text(Under(p))
        BY <1>2, <2>8
      <4>2. QED
        BY <2>2, <4>1, TextIs
    <3>3. CASE OnFile(tree, x)
      BY <2>3, <3>2, <3>3 DEF Stored, OnFile
    <3>4. CASE \E d \in Tooling : Holds(tooling[d], x)
      <4>1. PICK d \in Tooling : Holds(tooling[d], x)
        BY <3>4
      <4>2. d # c /\ d \notin Open(Under(p))
        BY <1>1, <3>2, <4>1 DEF Holds, Open
      <4>3. tooling'[d] = tooling[d]
        BY <1>2, <4>2
      <4>4. QED
        BY <4>1, <4>3 DEF Stored
    <3>5. QED
      BY <3>1, <3>3, <3>4
  <2>9. OverOK(overwritten', OnHost')
    BY <1>1, <2>6 DEF WorkspaceInv
  <2>10. QED
    BY <2>3, <2>7, <2>8, <2>9 DEF WorkspaceInv
<1>3. CASE tooling' = [tooling EXCEPT ![c] = Spent] /\ UNCHANGED <<tree, kept>>
  <2>1. tree' \in [Paths -> Node] /\ \A r \in Paths : tree[r].text \subseteq tree'[r].text
    BY <1>3 DEF WorkspaceInv
  <2>2. QED
    BY <1>1, <1>3, <2>1, SpentOK, LooksKeep
<1>4. QED
  BY <1>2, <1>3 DEF RemovePath

\* Who writes the file that moves goes on where it is now.
LEMMA RenameKeeps == ASSUME WorkspaceInv, NEW c \in Tooling, RenamePath(c) PROVE WorkspaceInv'
<1> DEFINE p == tooling[c].src
           q == tooling[c].path
           landed == IF tree[q].kind = "dir" THEN [tree[q] EXCEPT !.text = tree[q].text \cup tree[p].text]
                     ELSE tree[p]
           moved == [tooling EXCEPT ![c] = Spent]
           U(d) == IF d \in Open({p}) THEN [tooling[d] EXCEPT !.path = q]
                   ELSE IF d \in Open({q}) THEN [tooling[d] EXCEPT !.path = None] ELSE moved[d]
<1>1. tooling[c].pc = "rename" /\ UNCHANGED <<container, overwritten>>
  BY DEF RenamePath
<1>2. CASE /\ tree[q].kind = "dir" => ~OnHost
           /\ tree' = [tree EXCEPT ![p] = Absent, ![q] = landed]
           /\ kept' = IF tree[q].kind = "dir" THEN kept ELSE kept \ Text({q})
           /\ tooling' = [d \in Tooling |-> U(d)]
  <2>1. p \in Paths /\ q \in Paths /\ p # q
    <3>1. UseOK(c, tooling[c], OnHost) /\ p \in Paths \cup {None} /\ q \in Paths \cup {None}
      BY OpenFields
    <3>2. QED
      BY <1>1, <3>1 DEF UseOK
  <2>2. tree[p] \in Node /\ tree[q] \in Node
    BY <2>1 DEF WorkspaceInv
  <2>3. landed \in Node /\ tree[p].text \subseteq landed.text
        /\ (tree[q].kind = "dir" => tree[q].text \subseteq landed.text)
    BY <2>2 DEF Node
  <2>4. moved[c] = Spent /\ \A d \in Tooling \ {c} : moved[d] = tooling[d]
    BY DEF WorkspaceInv
  <2>5. ASSUME NEW d \in Tooling PROVE U(d) \in Use /\ UseOK(d, U(d), OnHost)
    <3>1. tooling[d] \in Use /\ UseOK(d, tooling[d], OnHost)
      BY OpenFields
    <3>2. CASE d \in Open({p}) \/ d \in Open({q})
      <4> DEFINE to == IF d \in Open({p}) THEN q ELSE None
                 u  == [tooling[d] EXCEPT !.path = to]
      <4>1. tooling[d].pc = "put" /\ to \in Paths \cup {None}
        BY <2>1, <3>2 DEF Open
      <4>2. U(d) = u
        BY <3>2
      <4> HIDE DEF U, to
      <4>3. u \in Use /\ u.pc = "put" /\ u.text = tooling[d].text /\ u.op = tooling[d].op
        BY <3>1, <4>1 DEF Use
      <4> HIDE DEF u
      <4>4. UseOK(d, u, OnHost)
        BY <3>1, <4>1, <4>3 DEF UseOK
      <4>5. QED
        BY <4>2, <4>3, <4>4
    <3>3. CASE d \notin Open({p}) /\ d \notin Open({q})
      <4>1. U(d) = moved[d]
        BY <3>3
      <4> HIDE DEF U, moved
      <4>2. CASE d = c
        BY <2>4, <4>1, <4>2, SpentOK
      <4>3. CASE d # c
        BY <2>4, <3>1, <4>1, <4>3
      <4>4. QED
        BY <4>2, <4>3
    <3>4. QED
      BY <3>2, <3>3
  <2>6. ASSUME NEW d \in Tooling, NEW x, Holds(tooling[d], x), tooling[d].path = q => tree[q].kind = "dir"
        PROVE  Holds(U(d), x)
    <3>1. tooling[d] \in Use /\ UseOK(d, tooling[d], OnHost) /\ tooling[d].pc = "put" /\ OnHost
      BY <2>6, OpenFields DEF Holds, UseOK
    <3>2. d # c /\ tooling[d].path # q
      BY <1>1, <1>2, <2>6, <3>1
    <3>3. CASE d \in Open({p})
      <4> DEFINE u == [tooling[d] EXCEPT !.path = q]
      <4>1. U(d) = u
        BY <3>3
      <4> HIDE DEF U
      <4>2. u.pc = "put" /\ u.text = tooling[d].text /\ u.path = q
        BY <3>1 DEF Use
      <4>3. q # None /\ x \in tooling[d].text
        BY <2>1, <2>6, WorkspaceAssumption DEF Holds
      <4> HIDE DEF u
      <4>4. QED
        BY <4>1, <4>2, <4>3 DEF Holds
    <3>4. CASE d \notin Open({p})
      <4>1. d \notin Open({q})
        BY <3>2 DEF Open
      <4>2. U(d) = tooling[d]
        BY <2>4, <3>2, <3>4, <4>1
      <4>3. QED
        BY <2>6, <4>2
    <3>5. QED
      BY <3>3, <3>4
  <2>7. /\ tree' \in [Paths -> Node] /\ tree'[q] = landed
        /\ \A r \in Paths \ {p, q} : tree'[r] = tree[r]
    <3>1. Absent \in Node
      BY DEF Absent, Node
    <3> HIDE DEF landed, U
    <3>2. QED
      BY <1>2, <2>1, <2>3, <3>1 DEF WorkspaceInv
  <2>8. \A d \in Tooling : tooling'[d] = U(d)
    BY <1>2
  <2>9. OnHost' = OnHost
    BY <1>1 DEF OnHost
  <2>10. ASSUME NEW x \in kept' \ Excused(overwritten') PROVE Stored(tree', tooling', x)
    <3>1. x \in kept /\ (tree[q].kind # "dir" => x \notin Text({q}))
      BY <1>2, <2>10
    <3>2. tree[q].kind # "dir" => /\ x \notin tree[q].text
                                  /\ \A d \in Tooling : Holds(tooling[d], x) => tooling[d].path # q
      <4>1. x \in Text({q}) <=> \/ \E r \in {q} : x \in tree[r].text
                                \/ \E d \in Tooling : Holds(tooling[d], x) /\ tooling[d].path \in {q}
        BY <2>1, TextIs
      <4>2. QED
        BY <3>1, <4>1
    <3>3. OnFile(tree, x) \/ \E d \in Tooling : Holds(tooling[d], x)
      BY <1>1, <2>10, <3>1 DEF WorkspaceInv, Stored
    <3> HIDE DEF landed, U
    <3>4. CASE OnFile(tree, x)
      <4>1. PICK r \in Paths : x \in tree[r].text
        BY <3>4 DEF OnFile
      <4>2. CASE r \in {p, q}
        BY <2>1, <2>3, <2>7, <3>2, <4>1, <4>2 DEF Stored, OnFile
      <4>3. CASE r \notin {p, q}
        BY <2>7, <4>1, <4>3 DEF Stored, OnFile
      <4>4. QED
        BY <4>2, <4>3
    <3>5. CASE \E d \in Tooling : Holds(tooling[d], x)
      BY <2>6, <2>8, <3>2, <3>5 DEF Stored
    <3>6. QED
      BY <3>3, <3>4, <3>5
  <2>11. tooling' \in [Tooling -> Use] /\ \A d \in Tooling : UseOK(d, tooling'[d], OnHost')
    <3> HIDE DEF U
    <3>1. QED
      BY <1>2, <2>5, <2>8, <2>9
  <2>12. OverOK(overwritten', OnHost')
    BY <1>1, <2>9 DEF WorkspaceInv
  <2>13. QED
    BY <2>7, <2>10, <2>11, <2>12 DEF WorkspaceInv
<1>3. CASE tooling' = moved /\ UNCHANGED <<tree, kept>>
  <2>1. tree' \in [Paths -> Node] /\ \A r \in Paths : tree[r].text \subseteq tree'[r].text
    BY <1>3 DEF WorkspaceInv
  <2>2. QED
    BY <1>1, <1>3, <2>1, SpentOK, LooksKeep
<1>4. QED
  BY <1>2, <1>3 DEF RenamePath

LEMMA FailsKeep == ASSUME WorkspaceInv, NEW C \in SUBSET Tooling, Fails(C) PROVE WorkspaceInv'
<1> DEFINE torn == UNION {tooling[c].text : c \in {d \in C : tooling[d].pc = "put"}}
<1>1. /\ tooling' = [c \in Tooling |-> IF c \in C /\ tooling[c].pc # "idle" THEN Spent ELSE tooling[c]]
      /\ overwritten' = [overwritten EXCEPT !["edit"] = @ \cup (kept \cap torn)]
      /\ UNCHANGED <<tree, container, kept>>
  BY DEF Fails
<1>2. OnHost' = OnHost /\ OverOK(overwritten, OnHost)
  BY <1>1 DEF OnHost, WorkspaceInv
<1>3. ASSUME NEW d \in Tooling PROVE tooling'[d] \in Use /\ UseOK(d, tooling'[d], OnHost')
  BY <1>1, <1>2, OpenFields, SpentOK
<1>4. tooling' \in [Tooling -> Use]
  BY <1>1, <1>3
<1>5. torn \subseteq Tooling /\ \A d \in C : tooling[d].pc = "put" => tooling[d].text \subseteq torn
  BY OpenFields
<1> HIDE DEF torn
<1>6. Excused(overwritten') = Excused(overwritten) \cup (kept \cap torn) /\ OverOK(overwritten', OnHost')
  BY <1>1, <1>2, <1>5 DEF Excused, OverOK
<1>7. ASSUME NEW x \in kept' \ Excused(overwritten') PROVE Stored(tree', tooling', x)
  <2>1. x \notin torn /\ (OnFile(tree', x) \/ \E d \in Tooling : Holds(tooling[d], x))
    BY <1>1, <1>6, <1>7 DEF WorkspaceInv, Stored
  <2>2. \A d \in Tooling : Holds(tooling[d], x) => d \notin C
    BY <1>5, <2>1 DEF Holds
  <2>3. \A d \in Tooling : d \notin C => tooling'[d] = tooling[d]
    BY <1>1
  <2>4. QED
    BY <2>1, <2>2, <2>3 DEF Stored
<1>8. QED
  BY <1>1, <1>3, <1>4, <1>6, <1>7 DEF WorkspaceInv

LEMMA ContainerKeeps ==
    ASSUME WorkspaceInv, StartContainer \/ StopContainer \/ ResetContainer
    PROVE  WorkspaceInv'
<1>1. OnHost' = OnHost /\ UNCHANGED <<tree, tooling, kept, overwritten>>
  BY DEF StartContainer, StopContainer, ResetContainer, SetContainer, OnHost
<1>2. QED
  BY <1>1 DEF WorkspaceInv

LEMMA WorkspaceStep == ASSUME WorkspaceInv, WorkspaceNext PROVE WorkspaceInv'
<1>1. CASE ToolFails
  <2>1. \E C \in SUBSET Tooling : Fails(C)
    BY <1>1 DEF ToolFails
  <2>2. QED
    BY <2>1, FailsKeep
<1>2. CASE \E c \in Tooling : MakeFolder(c) \/ TruncateFile(c) \/ PutText(c) \/ CopyToContainer(c)
  BY <1>2, MakeFolderKeeps, TruncateKeeps, PutTextKeeps, CopyKeeps
<1>3. CASE \E c \in Tooling : RemovePath(c) \/ RenamePath(c)
  BY <1>3, RemoveKeeps, RenameKeeps
<1>4. CASE \E c \in Tooling, p \in Files :
             WriteFile(c, p) \/ AppendFile(c, p) \/ \E op \in {"edit", "append"} : ReadFile(c, p, op)
  BY <1>4, WriteFileKeeps, AppendFileKeeps, ReadFileKeeps
<1>5. CASE \E c \in Tooling, p \in Files, q \in Paths : MovePath(c, p, q)
  BY <1>5, MovePathKeeps
<1>6. CASE \E c \in Tooling, p \in Paths : DeletePath(c, p)
  BY <1>6, DeletePathKeeps
<1>7. QED
  BY <1>1, <1>2, <1>3, <1>4, <1>5, <1>6, ContainerKeeps DEF WorkspaceNext

LEMMA WorkspaceStarts == WorkspaceInit => WorkspaceInv
<1> SUFFICES ASSUME WorkspaceInit PROVE WorkspaceInv
  OBVIOUS
<1>1. Absent \in Node /\ NoTool \in Use /\ NoTool.pc = "idle"
  BY DEF Absent, Node, NoTool, Use
<1>2. tooling = [c \in Tooling |-> NoTool] /\ tree = [p \in Paths |-> Absent] /\ kept = {}
      /\ overwritten = [op \in {"edit", "append"} |-> {}]
  BY DEF WorkspaceInit
<1>3. QED
  BY <1>1, <1>2 DEF WorkspaceInv, UseOK, OverOK

\* The invariant holds throughout.
LEMMA WorkspaceHolds == Spec => []WorkspaceInv
<1>1. Init => WorkspaceInv
  BY WorkspaceStarts DEF Init
<1>2. WorkspaceInv /\ [Next]_vars => WorkspaceInv'
  <2> SUFFICES ASSUME WorkspaceInv, [Next]_vars PROVE WorkspaceInv'
    OBVIOUS
  <2>1. WorkspaceNext \/ UNCHANGED workspaceVars
    BY DEF Next, vars, Rest
  <2>2. CASE UNCHANGED workspaceVars
    BY <2>2 DEF workspaceVars, WorkspaceInv, OnHost
  <2>3. QED
    BY <2>1, <2>2, WorkspaceStep
<1>3. QED
  BY <1>1, <1>2, PTL DEF Spec

\* Text a call was told is stored stays in the workspace until a call writes
\* over its file, deletes it or moves something onto it, however appends, edits,
\* moves, their failures and resets of the container come together, except for
\* what an edit, or an append in a container, overwrites: appends on the host
\* overwrite nothing (tools/builtins.go: fsAppend, fsMove).
THEOREM StoredTextStays == Spec => []StoredKept
  BY WorkspaceHolds, WorkspaceTold, PTL

\* What is in the folder is there only while the folder is; a call writes to a
\* file, and a file is what it moves.
TreeOK(t) ==
    /\ \A p \in Paths : t[p].kind = "none" => t[p].text = {}
    /\ \A p \in Inside : t[p].kind # "none" => t[Folder].kind = "dir"
UseTyped(w, t) ==
    /\ w.pc = "open" => w.path \in Files
    /\ w.pc \in {"remove", "rename"} /\ w.op = "move" => w.src \in Files
    /\ w.pc = "put" /\ w.path # None => t[w.path].kind = "file"
FilesOK == TreeOK(tree) /\ \A c \in Tooling : UseTyped(tooling[c], tree)

LEMMA FolderApart == Folder \in Paths /\ Folder \notin Files /\ Folder # None
                     /\ Files \subseteq Paths /\ Inside \subseteq Files /\ \A p \in Files : p # None
  BY WorkspaceAssumption DEF Paths, Files

\* One call goes on, and no file that is written goes.
LEMMA OneCallTyped ==
    ASSUME WorkspaceInv, FilesOK, NEW c \in Tooling, NEW w, tooling' = [tooling EXCEPT ![c] = w],
           NEW t, tree' = t, TreeOK(t), UseTyped(w, t),
           \A p \in Paths : tree[p].kind = "file" => t[p].kind = "file"
    PROVE  FilesOK'
<1>1. ASSUME NEW d \in Tooling PROVE UseTyped(tooling'[d], t)
  <2>1. CASE d = c
    BY <2>1 DEF WorkspaceInv
  <2>2. CASE d # c
    <3>1. tooling'[d] = tooling[d] /\ UseTyped(tooling[d], tree) /\ tooling[d].path \in Paths \cup {None}
      BY <2>2 DEF FilesOK, WorkspaceInv, Use
    <3>2. QED
      BY <3>1 DEF UseTyped
  <2>3. QED
    BY <2>1, <2>2
<1>2. QED
  BY <1>1 DEF FilesOK

LEMMA IdleTyped ==
    ASSUME NEW t
    PROVE  UseTyped(Spent, t) /\ UseTyped(NoTool, t)
  BY DEF UseTyped, Spent, NoTool

LEMMA MadeTyped ==
    ASSUME WorkspaceInv, TreeOK(tree), NEW p \in Files, MayMake(p)
    PROVE  /\ Made(p) \in [Paths -> Node] /\ TreeOK(Made(p))
           /\ \A q \in Paths : tree[q].kind = "file" => Made(p)[q].kind = "file"
           /\ p \in Inside => Made(p)[Folder].kind = "dir"
<1>1. CASE p \notin Inside
  BY <1>1 DEF Made, WorkspaceInv
<1>2. CASE p \in Inside
  <2>1. PICK t : t = Made(p)
    OBVIOUS
  <2>2. tree[Folder].kind # "file" /\ tree \in [Paths -> Node]
    BY <1>2 DEF MayMake, WorkspaceInv
  <2>3. t = [tree EXCEPT ![Folder].kind = "dir"]
    BY <1>2, <2>1 DEF Made
  <2>4. t \in [Paths -> Node] /\ t[Folder].kind = "dir" /\ \A q \in Paths : q # Folder => t[q] = tree[q]
    BY <2>2, <2>3, FolderApart DEF Node
  <2>5. TreeOK(t)
    BY <2>4, FolderApart DEF TreeOK
  <2>6. QED
    BY <2>1, <2>2, <2>4, <2>5
<1>3. QED
  BY <1>1, <1>2

\* A path gets a file, its folder being there.
LEMMA FiledTyped ==
    ASSUME NEW t \in [Paths -> Node], TreeOK(t), NEW p \in Files, NEW x,
           p \in Inside => t[Folder].kind = "dir"
    PROVE  /\ TreeOK([t EXCEPT ![p] = [kind |-> "file", text |-> x]])
           /\ \A q \in Paths : t[q].kind = "file" => [t EXCEPT ![p] = [kind |-> "file", text |-> x]][q].kind = "file"
<1>1. PICK u : u = [t EXCEPT ![p] = [kind |-> "file", text |-> x]]
  OBVIOUS
<1>2. u[p].kind = "file" /\ \A q \in Paths : q # p => u[q] = t[q]
  BY <1>1, FolderApart
<1>3. TreeOK(u)
  BY <1>2, FolderApart DEF TreeOK
<1>4. QED
  BY <1>1, <1>2, <1>3

LEMMA FilesStart == WorkspaceInit => FilesOK
<1> SUFFICES ASSUME WorkspaceInit PROVE FilesOK
  OBVIOUS
<1>1. /\ \A c \in Tooling : tooling[c] = NoTool
      /\ \A p \in Paths : tree[p].kind = "none" /\ tree[p].text = {}
  BY DEF WorkspaceInit, Absent
<1>2. TreeOK(tree)
  BY <1>1, FolderApart DEF TreeOK
<1>3. QED
  BY <1>1, <1>2, IdleTyped DEF FilesOK

LEMMA MakingTyped ==
    ASSUME WorkspaceInv, FilesOK, NEW c \in Tooling,
           \/ MakeFolder(c) \/ TruncateFile(c) \/ PutText(c) \/ CopyToContainer(c)
           \/ \E p \in Files : WriteFile(c, p) \/ AppendFile(c, p)
    PROVE  FilesOK'
<1>1. TreeOK(tree) /\ tree \in [Paths -> Node] /\ UseTyped(Spent, tree')
  BY IdleTyped DEF FilesOK, WorkspaceInv
<1>2. CASE MakeFolder(c)
  <2>1. PICK t : t = [tree EXCEPT ![Folder].kind = "dir"]
    OBVIOUS
  <2>2. tree' = t /\ tree[Folder].kind # "file" /\ tooling' = [tooling EXCEPT ![c] = Spent]
    BY <1>2, <2>1 DEF MakeFolder, Begins
  <2>3. t[Folder].kind = "dir" /\ \A q \in Paths : q # Folder => t[q] = tree[q]
    BY <1>1, <2>1, FolderApart DEF Node
  <2>4. TreeOK(t) /\ \A p \in Paths : tree[p].kind = "file" => t[p].kind = "file"
    BY <1>1, <2>2, <2>3, FolderApart DEF TreeOK
  <2>5. QED
    BY <1>1, <2>2, <2>4, OneCallTyped
<1>3. CASE TruncateFile(c)
  <2>1. PICK p : p = tooling[c].path
    OBVIOUS
  <2>2. p \in Files /\ tooling[c].pc = "open" /\ tooling \in [Tooling -> Use]
    BY <1>3, <2>1 DEF TruncateFile, FilesOK, UseTyped, WorkspaceInv
  <2>3. CASE HasFolder(p) /\ tree[p].kind # "dir"
    <3>1. PICK t : t = [tree EXCEPT ![p] = [kind |-> "file", text |-> {}]]
      OBVIOUS
    <3>2. tree' = t /\ tooling' = [tooling EXCEPT ![c].pc = "put"]
      BY <1>3, <2>1, <2>3, <3>1 DEF TruncateFile
    <3>3. PICK w : w = [tooling[c] EXCEPT !.pc = "put"]
      OBVIOUS
    <3>4. tooling' = [tooling EXCEPT ![c] = w] /\ w.pc = "put" /\ w.path = p
      BY <2>1, <2>2, <3>2, <3>3 DEF Use
    <3>5. TreeOK(t) /\ (\A q \in Paths : tree[q].kind = "file" => t[q].kind = "file")
      BY <1>1, <2>2, <2>3, <3>1, FiledTyped DEF HasFolder
    <3>6. t[p].kind = "file"
      BY <1>1, <2>2, <3>1, FolderApart
    <3>7. UseTyped(w, t)
      BY <3>4, <3>6 DEF UseTyped
    <3>8. QED
      BY <3>2, <3>4, <3>5, <3>7, OneCallTyped
  <2>4. CASE ~(HasFolder(p) /\ tree[p].kind # "dir")
    <3>1. tree' = tree /\ tooling' = [tooling EXCEPT ![c] = Spent]
      BY <1>3, <2>1, <2>4 DEF TruncateFile
    <3>2. QED
      BY <1>1, <3>1, OneCallTyped
  <2>5. QED
    BY <2>3, <2>4
<1>4. CASE PutText(c)
  <2>1. tooling' = [tooling EXCEPT ![c] = Spent] /\ tooling[c].pc = "put"
    BY <1>4 DEF PutText
  <2>2. CASE tooling[c].path = None
    <3>1. tree' = tree
      BY <1>4, <2>2 DEF PutText
    <3>2. QED
      BY <1>1, <2>1, <3>1, OneCallTyped
  <2>3. CASE tooling[c].path # None
    <3>1. PICK p : p = tooling[c].path
      OBVIOUS
    <3>2. p \in Paths /\ tree[p].kind = "file"
      BY <2>1, <2>3, <3>1 DEF WorkspaceInv, Use, FilesOK, UseTyped
    <3>3. PICK rest : tree' = [tree EXCEPT ![p].text = rest \cup tooling[c].text]
      BY <1>4, <2>3, <3>1 DEF PutText
    <3>4. PICK t : t = tree'
      OBVIOUS
    <3>5. t[p].kind = "file" /\ \A q \in Paths : q # p => t[q] = tree[q]
      BY <1>1, <3>2, <3>3, <3>4 DEF Node
    <3>6. TreeOK(t) /\ \A q \in Paths : tree[q].kind = "file" => t[q].kind = "file"
      BY <1>1, <3>2, <3>5, FolderApart DEF TreeOK
    <3>7. QED
      BY <1>1, <2>1, <3>4, <3>6, OneCallTyped
  <2>4. QED
    BY <2>2, <2>3
<1>5. CASE CopyToContainer(c)
  <2>1. PICK p : p = tooling[c].path
    OBVIOUS
  <2>2. p \in Files /\ tooling' = [tooling EXCEPT ![c] = Spent]
    BY <1>5, <2>1 DEF CopyToContainer, FilesOK, UseTyped
  <2>3. CASE MayMake(p)
    <3>1. PICK t : t = Made(p)
      OBVIOUS
    <3>2. /\ t \in [Paths -> Node] /\ TreeOK(t) /\ (p \in Inside => t[Folder].kind = "dir")
          /\ \A q \in Paths : tree[q].kind = "file" => t[q].kind = "file"
      BY <1>1, <2>2, <2>3, <3>1, MadeTyped
    <3>3. PICK x : x = tooling[c].text
      OBVIOUS
    <3>4. PICK u : u = [t EXCEPT ![p] = [kind |-> "file", text |-> x]]
      OBVIOUS
    <3>5. TreeOK(u) /\ \A q \in Paths : t[q].kind = "file" => u[q].kind = "file"
      BY <2>2, <3>2, <3>4, FiledTyped
    <3>6. tree' = u
      BY <1>5, <2>1, <2>3, <3>1, <3>3, <3>4 DEF CopyToContainer
    <3>7. QED
      BY <1>1, <2>2, <3>2, <3>5, <3>6, OneCallTyped
  <2>4. CASE ~MayMake(p)
    <3>1. tree' = tree
      BY <1>5, <2>1, <2>4 DEF CopyToContainer
    <3>2. QED
      BY <1>1, <2>2, <3>1, OneCallTyped
  <2>5. QED
    BY <2>3, <2>4
<1>6. ASSUME NEW p \in Files, WriteFile(c, p) PROVE FilesOK'
  <2>1. PICK w : w = [NoTool EXCEPT !.pc = "open", !.op = "write", !.path = p, !.text = {c}]
    OBVIOUS
  <2>2. tooling' = [tooling EXCEPT ![c] = w] /\ tree' = Made(p) /\ MayMake(p)
    BY <1>6, <2>1 DEF WriteFile, Begins
  <2>3. PICK t : t = Made(p)
    OBVIOUS
  <2>4. TreeOK(t) /\ \A q \in Paths : tree[q].kind = "file" => t[q].kind = "file"
    BY <1>1, <2>2, <2>3, MadeTyped
  <2>5. UseTyped(w, t)
    BY <1>6, <2>1 DEF UseTyped, NoTool
  <2>6. QED
    BY <2>2, <2>3, <2>4, <2>5, OneCallTyped
<1>7. ASSUME NEW p \in Files, AppendFile(c, p) PROVE FilesOK'
  <2>1. PICK x : x = tree[p].text \cup {c}
    OBVIOUS
  <2>2. PICK t : t = [tree EXCEPT ![p] = [kind |-> "file", text |-> x]]
    OBVIOUS
  <2>3. tree' = t /\ HasFolder(p) /\ tooling' = [tooling EXCEPT ![c] = Spent]
    BY <1>7, <2>1, <2>2 DEF AppendFile, Begins
  <2>4. TreeOK(t) /\ \A q \in Paths : tree[q].kind = "file" => t[q].kind = "file"
    BY <1>1, <1>7, <2>2, <2>3, FiledTyped DEF HasFolder
  <2>5. QED
    BY <1>1, <2>3, <2>4, OneCallTyped
<1>8. QED
  BY <1>2, <1>3, <1>4, <1>5, <1>6, <1>7

LEMMA LookingTyped ==
    ASSUME WorkspaceInv, FilesOK, NEW c \in Tooling,
           \/ \E p \in Files : \/ \E op \in {"edit", "append"} : ReadFile(c, p, op)
                               \/ \E q \in Paths : MovePath(c, p, q)
           \/ \E p \in Paths : DeletePath(c, p)
    PROVE  FilesOK'
<1>1. PICK w : tooling' = [tooling EXCEPT ![c] = w] /\ UseTyped(w, tree) /\ UNCHANGED tree
  <2>1. ASSUME NEW p \in Files, NEW op \in {"edit", "append"}, ReadFile(c, p, op)
        PROVE  \E w : tooling' = [tooling EXCEPT ![c] = w] /\ UseTyped(w, tree) /\ UNCHANGED tree
    <3>1. PICK rest : Begins(c, [NoTool EXCEPT !.pc = "open", !.op = op, !.path = p, !.text = rest \cup {c}])
                      /\ UNCHANGED tree
      BY <2>1 DEF ReadFile
    <3>2. PICK w : w = [NoTool EXCEPT !.pc = "open", !.op = op, !.path = p, !.text = rest \cup {c}]
      OBVIOUS
    <3>3. UseTyped(w, tree)
      BY <2>1, <3>2 DEF UseTyped, NoTool
    <3>4. QED
      BY <3>1, <3>2, <3>3 DEF Begins
  <2>2. ASSUME NEW p \in Files, NEW q \in Paths, MovePath(c, p, q)
        PROVE  \E w : tooling' = [tooling EXCEPT ![c] = w] /\ UseTyped(w, tree) /\ UNCHANGED tree
    <3>1. PICK w : w = [NoTool EXCEPT !.pc = IF tree[q].kind = "none" THEN "rename" ELSE "remove",
                                      !.op = "move", !.src = p, !.path = q, !.dir = (tree[q].kind = "dir")]
      OBVIOUS
    <3>2. w.pc \in {"rename", "remove"} /\ w.src = p
      BY <3>1 DEF NoTool
    <3>3. UseTyped(w, tree)
      BY <2>2, <3>2 DEF UseTyped
    <3>4. QED
      BY <2>2, <3>1, <3>3 DEF MovePath, Begins
  <2>3. ASSUME NEW p \in Paths, DeletePath(c, p)
        PROVE  \E w : tooling' = [tooling EXCEPT ![c] = w] /\ UseTyped(w, tree) /\ UNCHANGED tree
    <3>1. PICK w : w = [NoTool EXCEPT !.pc = "remove", !.op = "delete", !.path = p, !.dir = (tree[p].kind = "dir")]
      OBVIOUS
    <3>2. UseTyped(w, tree)
      BY <3>1 DEF UseTyped, NoTool
    <3>3. QED
      BY <2>3, <3>1, <3>2 DEF DeletePath, Begins
  <2>4. QED
    BY <2>1, <2>2, <2>3
<1>2. TreeOK(tree)
  BY DEF FilesOK
<1>3. QED
  BY <1>1, <1>2, OneCallTyped

LEMMA RemovingTyped == ASSUME WorkspaceInv, FilesOK, NEW c \in Tooling, RemovePath(c) PROVE FilesOK'
<1>1. TreeOK(tree) /\ tree \in [Paths -> Node] /\ tooling \in [Tooling -> Use]
  BY DEF FilesOK, WorkspaceInv
<1>2. PICK p : p = tooling[c].path
  OBVIOUS
<1>3. p \in Paths /\ tooling[c].pc = "remove"
  BY <1>1, <1>2 DEF RemovePath, WorkspaceInv, UseOK, Use
<1>4. CASE UNCHANGED tree /\ tooling' = [tooling EXCEPT ![c] = Spent]
  BY <1>1, <1>4, IdleTyped, OneCallTyped
<1>5. CASE /\ tree' = [x \in Paths |-> IF x \in Under(p) THEN Absent ELSE tree[x]]
           /\ tooling' = [d \in Tooling |->
                IF d = c THEN IF tooling[c].op = "move" THEN [tooling[c] EXCEPT !.pc = "rename"] ELSE Spent
                ELSE IF d \in Open(Under(p)) THEN [tooling[d] EXCEPT !.path = None] ELSE tooling[d]]
  <2>1. PICK t : t = tree'
    OBVIOUS
  <2>2. \A x \in Paths : t[x] = IF x \in Under(p) THEN Absent ELSE tree[x]
    BY <1>5, <2>1
  <2>3. Absent.kind = "none" /\ Absent.text = {} /\ (Folder \in Under(p) => Inside \subseteq Under(p))
    BY <1>3, FolderApart DEF Absent, Under
  <2>4. TreeOK(t)
    BY <1>1, <2>2, <2>3, FolderApart DEF TreeOK
  <2>5. ASSUME NEW d \in Tooling PROVE UseTyped(tooling'[d], t)
    <3>1. UseTyped(tooling[d], tree) /\ tooling[d] \in Use
      BY <1>1 DEF FilesOK
    <3>2. CASE d = c
      <4>1. CASE tooling[c].op = "move"
        <5>1. PICK w : w = [tooling[c] EXCEPT !.pc = "rename"]
          OBVIOUS
        <5>2. tooling'[d] = w
          BY <1>5, <3>2, <4>1, <5>1
        <5>3. w.pc = "rename" /\ w.src = tooling[c].src
          BY <3>1, <3>2, <5>1 DEF Use
        <5>4. tooling[c].src \in Files
          BY <1>3, <3>1, <3>2, <4>1 DEF UseTyped
        <5>5. QED
          BY <5>2, <5>3, <5>4 DEF UseTyped
      <4>2. CASE tooling[c].op # "move"
        BY <1>5, <3>2, <4>2, IdleTyped
      <4>3. QED
        BY <4>1, <4>2
    <3>3. CASE d # c /\ d \in Open(Under(p))
      <4>1. PICK w : w = [tooling[d] EXCEPT !.path = None]
        OBVIOUS
      <4>2. tooling'[d] = w
        BY <1>5, <3>3, <4>1
      <4>3. w.pc = "put" /\ w.path = None
        BY <3>1, <3>3, <4>1 DEF Open, Use
      <4>4. QED
        BY <4>2, <4>3 DEF UseTyped
    <3>4. CASE d # c /\ d \notin Open(Under(p))
      <4>1. tooling'[d] = tooling[d] /\ ~(tooling[d].pc = "put" /\ tooling[d].path \in Under(p))
        BY <1>5, <3>4 DEF Open
      <4>2. tooling[d].path \in Paths \cup {None}
        BY <3>1 DEF Use
      <4>3. QED
        BY <2>2, <3>1, <4>1, <4>2 DEF UseTyped
    <3>5. QED
      BY <3>2, <3>3, <3>4
  <2>6. QED
    BY <2>1, <2>4, <2>5 DEF FilesOK
<1>6. QED
  BY <1>2, <1>4, <1>5 DEF RemovePath

LEMMA RenamingTyped == ASSUME WorkspaceInv, FilesOK, NEW c \in Tooling, RenamePath(c) PROVE FilesOK'
<1>1. TreeOK(tree) /\ tree \in [Paths -> Node] /\ tooling \in [Tooling -> Use]
  BY DEF FilesOK, WorkspaceInv
<1>2. PICK p : p = tooling[c].src
  OBVIOUS
<1>3. PICK q : q = tooling[c].path
  OBVIOUS
<1>4. p \in Files /\ q \in Paths /\ p # q
  <2>1. tooling[c].pc = "rename"
    BY DEF RenamePath
  <2>2. UseTyped(tooling[c], tree) /\ UseOK(c, tooling[c], OnHost) /\ tooling[c] \in Use
    BY <1>1 DEF FilesOK, WorkspaceInv
  <2>3. tooling[c].op = "move" /\ q # None /\ p # q
    BY <1>2, <1>3, <2>1, <2>2 DEF UseOK
  <2>4. p \in Files
    BY <1>2, <2>1, <2>2, <2>3 DEF UseTyped
  <2>5. q \in Paths
    BY <1>3, <2>2, <2>3 DEF Use
  <2>6. QED
    BY <2>3, <2>4, <2>5
<1>5. PICK moved : moved = [tooling EXCEPT ![c] = Spent]
  OBVIOUS
<1>6. CASE UNCHANGED tree /\ tooling' = moved
  BY <1>1, <1>5, <1>6, IdleTyped, OneCallTyped
<1>7. PICK landed : landed = IF tree[q].kind = "dir" THEN [tree[q] EXCEPT !.text = tree[q].text \cup tree[p].text]
                             ELSE tree[p]
  OBVIOUS
<1>8. CASE /\ tree[p].kind = "file" /\ HasFolder(q) /\ (tree[q].kind = "dir" => ~OnHost)
           /\ tree' = [tree EXCEPT ![p] = Absent, ![q] = landed]
           /\ tooling' = [d \in Tooling |->
                IF d \in Open({p}) THEN [tooling[d] EXCEPT !.path = q]
                ELSE IF d \in Open({q}) THEN [tooling[d] EXCEPT !.path = None] ELSE moved[d]]
  <2>1. PICK t : t = tree'
    OBVIOUS
  <2>2. t[p] = Absent /\ t[q] = landed /\ \A x \in Paths : x # p /\ x # q => t[x] = tree[x]
    BY <1>1, <1>4, <1>8, <2>1, FolderApart
  <2>3. Absent.kind = "none" /\ Absent.text = {}
    BY DEF Absent
  <2>4. landed.kind = IF tree[q].kind = "dir" THEN "dir" ELSE "file"
    BY <1>1, <1>4, <1>7, <1>8 DEF Node
  <2>5. TreeOK(t)
    <3>1. \A x \in Paths : t[x].kind = "none" => t[x].text = {}
      BY <1>1, <2>2, <2>3, <2>4 DEF TreeOK
    <3>2. ASSUME NEW x \in Inside, t[x].kind # "none" PROVE t[Folder].kind = "dir"
      <4>1. x # p /\ x # Folder /\ x \in Paths /\ p # Folder
        BY <1>4, <2>2, <2>3, <3>2, FolderApart
      <4>2. tree[Folder].kind = "dir"
        <5>1. CASE x = q
          BY <1>8, <3>2, <5>1 DEF HasFolder
        <5>2. CASE x # q
          BY <1>1, <2>2, <3>2, <4>1, <5>2 DEF TreeOK
        <5>3. QED
          BY <5>1, <5>2
      <4>3. QED
        BY <2>2, <2>4, <4>1, <4>2, FolderApart
    <3>3. QED
      BY <3>1, <3>2 DEF TreeOK
  <2>6. ASSUME NEW d \in Tooling PROVE UseTyped(tooling'[d], t)
    <3>1. UseTyped(tooling[d], tree) /\ tooling[d] \in Use /\ (tooling[d].pc = "put" => OnHost)
      BY <1>1 DEF FilesOK, WorkspaceInv, UseOK
    <3>2. CASE d \in Open({p})
      <4>1. PICK w : w = [tooling[d] EXCEPT !.path = q]
        OBVIOUS
      <4>2. tooling'[d] = w
        BY <1>8, <3>2, <4>1
      <4>3. w.pc = "put" /\ w.path = q /\ tooling[d].pc = "put"
        BY <3>1, <3>2, <4>1 DEF Open, Use
      <4>4. t[q].kind = "file"
        BY <1>8, <2>2, <2>4, <3>1, <4>3
      <4>5. QED
        BY <4>2, <4>3, <4>4 DEF UseTyped
    <3>3. CASE d \notin Open({p}) /\ d \in Open({q})
      <4>1. PICK w : w = [tooling[d] EXCEPT !.path = None]
        OBVIOUS
      <4>2. tooling'[d] = w
        BY <1>8, <3>3, <4>1
      <4>3. w.pc = "put" /\ w.path = None
        BY <3>1, <3>3, <4>1 DEF Open, Use
      <4>4. QED
        BY <4>2, <4>3 DEF UseTyped
    <3>4. CASE d \notin Open({p}) /\ d \notin Open({q})
      <4>1. tooling'[d] = moved[d] /\ ~(tooling[d].pc = "put" /\ tooling[d].path \in {p, q})
        BY <1>8, <3>4 DEF Open
      <4>2. tooling[d].path \in Paths \cup {None}
        BY <3>1 DEF Use
      <4>3. CASE d = c
        BY <1>1, <1>5, <4>1, <4>3, IdleTyped
      <4>4. CASE d # c
        <5>1. tooling'[d] = tooling[d]
          BY <1>1, <1>5, <4>1, <4>4
        <5>2. QED
          BY <2>2, <3>1, <4>1, <4>2, <5>1 DEF UseTyped
      <4>5. QED
        BY <4>3, <4>4
    <3>5. QED
      BY <3>2, <3>3, <3>4
  <2>7. QED
    BY <2>1, <2>5, <2>6 DEF FilesOK
<1>9. QED
  BY <1>2, <1>3, <1>5, <1>6, <1>7, <1>8 DEF RenamePath

LEMMA FailingTyped == ASSUME WorkspaceInv, FilesOK, NEW C, Fails(C) PROVE FilesOK'
<1>1. UNCHANGED tree /\ \A c \in Tooling : tooling'[c] \in {Spent, tooling[c]}
  BY DEF Fails
<1>2. \A c \in Tooling : UseTyped(tooling'[c], tree)
  BY <1>1, IdleTyped DEF FilesOK
<1>3. QED
  BY <1>1, <1>2 DEF FilesOK

LEMMA WorkspaceStaysTyped == Spec => []WorkspaceTypeOK
<1> DEFINE Containers == container \in {"host", "none", "stopped", "running"}
<1>1. Init => FilesOK /\ Containers
  BY FilesStart DEF Init, WorkspaceInit
<1>2. FilesOK /\ Containers /\ WorkspaceInv /\ [Next]_vars => (FilesOK /\ Containers)'
  <2> SUFFICES ASSUME FilesOK, Containers, WorkspaceInv, [Next]_vars PROVE (FilesOK /\ Containers)'
    OBVIOUS
  <2>1. WorkspaceNext \/ UNCHANGED workspaceVars
    BY DEF Next, vars, Rest
  <2>2. CASE UNCHANGED workspaceVars
    BY <2>2 DEF workspaceVars, FilesOK
  <2>3. CASE StartContainer \/ StopContainer \/ ResetContainer
    <3>1. UNCHANGED <<tree, tooling>> /\ container' \in {"none", "stopped", "running"}
      BY <2>3 DEF StartContainer, StopContainer, ResetContainer, SetContainer
    <3>2. QED
      BY <3>1 DEF FilesOK
  <2>4. CASE ToolFails
    <3>1. PICK C : Fails(C)
      BY <2>4 DEF ToolFails
    <3>2. QED
      BY <3>1, FailingTyped DEF Fails
  <2>5. ASSUME NEW c \in Tooling,
               \/ MakeFolder(c) \/ TruncateFile(c) \/ PutText(c) \/ CopyToContainer(c)
               \/ \E p \in Files : WriteFile(c, p) \/ AppendFile(c, p)
        PROVE  (FilesOK /\ Containers)'
    <3>1. UNCHANGED container
      BY <2>5 DEF MakeFolder, TruncateFile, PutText, CopyToContainer, WriteFile, AppendFile
    <3>2. QED
      BY <2>5, <3>1, MakingTyped
  <2>6. ASSUME NEW c \in Tooling,
               \/ \E p \in Files : \/ \E op \in {"edit", "append"} : ReadFile(c, p, op)
                                   \/ \E q \in Paths : MovePath(c, p, q)
               \/ \E p \in Paths : DeletePath(c, p)
        PROVE  (FilesOK /\ Containers)'
    <3>1. UNCHANGED container
      BY <2>6 DEF ReadFile, MovePath, DeletePath
    <3>2. QED
      BY <2>6, <3>1, LookingTyped
  <2>7. ASSUME NEW c \in Tooling, RemovePath(c) \/ RenamePath(c) PROVE (FilesOK /\ Containers)'
    <3>1. UNCHANGED container
      BY <2>7 DEF RemovePath, RenamePath
    <3>2. QED
      BY <2>7, <3>1, RemovingTyped, RenamingTyped
  <2>8. QED
    BY <2>1, <2>2, <2>3, <2>4, <2>5, <2>6, <2>7 DEF WorkspaceNext
<1>3. FilesOK /\ Containers /\ WorkspaceInv => WorkspaceTypeOK
  BY DEF FilesOK, TreeOK, WorkspaceInv, Node, WorkspaceTypeOK
<1>4. QED
  BY <1>1, <1>2, <1>3, WorkspaceHolds, PTL DEF Spec

-----------------------------------------------------------------------------
(* The types of what is on file and in memory, which rest on the above.     *)

LEMMA SettingsStayTyped == Spec => []SettingsTypeOK
<1> DEFINE ConfigTyped ==
             /\ configFile \in Configs \cup {None} /\ Len(snapshots) <= MaxSnapshots
             /\ snapshots \in Seq(Configs) /\ DOMAIN writer = Writers
             /\ \A w \in Writers : writer[w].pc \in {"backup", "copy", "write"} => writer[w].config \in Configs
           RunsTyped == \A r \in Sessions : enforcer[r].agent \in Agents \cup {None}
           Typed == ConfigTyped /\ DOMAIN enforcer = Sessions /\ RunsTyped
<1>1. Init => Typed
  BY SettingsAssumption DEF Init, SettingsInit, NoWrite, NoRun
<1>2. Typed /\ [Next]_vars => Typed'
  <2> SUFFICES ASSUME Typed, [Next]_vars PROVE Typed'
    OBVIOUS
  <2>1. CASE UNCHANGED settingsVars
    BY <2>1 DEF settingsVars, configVars, policyVars
  <2>2. CASE ConfigNext
    <3>1. UNCHANGED policyVars
      BY <2>2 DEF ConfigNext, SetFields, KeepFields, ReplaceConfig, InitConfig, Setup,
           RestoreConfig, Prepare, ReadForBackup, WriteBackup, WriteConfig, TakeSnapshot, SaveFails
    <3>2. LoadOrDefault \in Configs /\ DefaultConfig \in Configs /\ NoWrite.pc = "idle"
      BY DEF LoadOrDefault, DefaultConfig, Configs, NoWrite
    <3>3. ASSUME NEW w \in Writers, NEW c \in Configs, Prepare(w, c) PROVE ConfigTyped'
      BY <3>3 DEF Prepare
    <3>4. ASSUME NEW w \in Writers,
                 SetFields(w) \/ KeepFields(w) \/ ReplaceConfig(w) \/ InitConfig(w) \/ Setup(w)
                 \/ RestoreConfig(w)
          PROVE  \E c \in Configs : Prepare(w, c)
      <4>1. CASE SetFields(w)
        <5>1. PICK on \in BOOLEAN : Prepare(w, [LoadOrDefault EXCEPT !.exec = on])
          BY <4>1 DEF SetFields
        <5>2. [LoadOrDefault EXCEPT !.exec = on] \in Configs
          BY <3>2 DEF Configs
        <5>3. QED
          BY <5>1, <5>2
      <4>2. CASE KeepFields(w) \/ ReplaceConfig(w) \/ InitConfig(w)
        BY <3>2, <4>2 DEF KeepFields, ReplaceConfig, InitConfig
      <4>3. CASE Setup(w)
        <5>1. [exec |-> TRUE, sandbox |-> TRUE] \in Configs
          BY DEF Configs
        <5>2. QED
          BY <3>2, <4>3, <5>1 DEF Setup
      <4>4. CASE RestoreConfig(w)
        BY <4>4 DEF RestoreConfig
      <4>5. QED
        BY <3>4, <4>1, <4>2, <4>3, <4>4
    <3>5. ASSUME TakeSnapshot PROVE ConfigTyped'
      <4>1. PICK s : s = <<LoadOrDefault>> \o snapshots
        OBVIOUS
      <4>2. s \in Seq(Configs) /\ Len(s) = Len(snapshots) + 1 /\ Len(snapshots) \in Nat
        BY <3>2, <4>1
      <4>3. PICK n : n = IF Len(snapshots) < MaxSnapshots THEN Len(snapshots) + 1 ELSE MaxSnapshots
        OBVIOUS
      <4>4. n \in 0..Len(s) /\ n <= MaxSnapshots
        BY <4>2, <4>3, SettingsAssumption
      <4>5. SubSeq(s, 1, n) \in Seq(Configs) /\ Len(SubSeq(s, 1, n)) = n
        BY <4>2, <4>4
      <4>6. snapshots' = SubSeq(s, 1, n) /\ UNCHANGED <<configFile, writer>>
        BY <3>5, <4>1, <4>3 DEF TakeSnapshot
      <4>7. QED
        BY <4>4, <4>5, <4>6
    <3>6. ASSUME NEW w \in Writers, ReadForBackup(w) \/ WriteBackup(w) \/ WriteConfig(w)
          PROVE  ConfigTyped'
      <4>1. CASE ReadForBackup(w)
        BY <4>1 DEF ReadForBackup
      <4>2. CASE WriteBackup(w)
        BY <4>2 DEF WriteBackup
      <4>3. CASE WriteConfig(w)
        BY <4>3 DEF WriteConfig, NoWrite
      <4>4. QED
        BY <3>6, <4>1, <4>2, <4>3
    <3>7. ASSUME SaveFails PROVE ConfigTyped'
      <4>1. UNCHANGED configFile /\ (snapshots' = snapshots \/ snapshots' = <<>>)
            /\ DOMAIN writer' = Writers /\ \A w \in Writers : writer'[w] \in {writer[w], NoWrite}
        BY <3>7 DEF SaveFails
      <4>2. ASSUME NEW w \in Writers, writer'[w].pc \in {"backup", "copy", "write"}
            PROVE  writer'[w].config \in Configs
        <5>1. writer'[w] = writer[w]
          BY <3>2, <4>1, <4>2
        <5>2. QED
          BY <4>2, <5>1
      <4>3. Len(snapshots') <= MaxSnapshots /\ snapshots' \in Seq(Configs)
        <5>1. <<>> \in Seq(Configs) /\ Len(<<>>) = 0 /\ 0 <= MaxSnapshots
          BY SettingsAssumption
        <5>2. CASE snapshots' = <<>>
          BY <5>1, <5>2
        <5>3. CASE snapshots' = snapshots
          BY <5>3
        <5>4. QED
          BY <4>1, <5>2, <5>3
      <4>4. QED
        BY <4>1, <4>2, <4>3
    <3>8. ConfigTyped'
      <4>1. CASE TakeSnapshot \/ SaveFails
        BY <3>5, <3>7, <4>1
      <4>2. CASE \E w \in Writers : ReadForBackup(w) \/ WriteBackup(w) \/ WriteConfig(w)
        BY <3>6, <4>2
      <4>3. CASE \E w \in Writers : SetFields(w) \/ KeepFields(w) \/ ReplaceConfig(w) \/ InitConfig(w)
                                    \/ Setup(w) \/ RestoreConfig(w)
        BY <3>3, <3>4, <4>3
      <4>4. QED
        BY <2>2, <4>1, <4>2, <4>3 DEF ConfigNext
    <3>9. QED
      BY <3>1, <3>8 DEF policyVars
  <2>3. CASE PolicyNext
    <3>1. UNCHANGED configVars
      BY <2>3 DEF PolicyNext, EndSession, SaveGrants, SaveGrantsFails, StartSession, LoadGrants
    <3>2. ConfigTyped'
      BY <3>1 DEF configVars
    <3>3. PICK r \in Sessions : \/ EndSession(r) \/ SaveGrants(r) \/ SaveGrantsFails(r)
                                \/ \E x \in Agents : StartSession(r, x)
                                     \/ \E c \in Capabilities, grant \in BOOLEAN : LoadGrants(r, x, c, grant)
      BY <2>3 DEF PolicyNext
    <3>4. DOMAIN enforcer' = Sessions /\ RunsTyped'
      <4>1. CASE EndSession(r)
        BY <4>1 DEF EndSession, NoRun
      <4>2. CASE SaveGrants(r)
        BY <4>2 DEF SaveGrants
      <4>3. CASE SaveGrantsFails(r)
        BY <4>3 DEF SaveGrantsFails
      <4>4. ASSUME NEW x \in Agents, StartSession(r, x) PROVE DOMAIN enforcer' = Sessions /\ RunsTyped'
        BY <4>4 DEF StartSession
      <4>5. ASSUME NEW x \in Agents, NEW c \in Capabilities, NEW grant \in BOOLEAN, LoadGrants(r, x, c, grant)
            PROVE  DOMAIN enforcer' = Sessions /\ RunsTyped'
        BY <4>5 DEF LoadGrants
      <4>6. QED
        BY <3>3, <4>1, <4>2, <4>3, <4>4, <4>5
    <3>5. QED
      BY <3>2, <3>4
  <2>4. QED
    BY <2>1, <2>2, <2>3, SettingsSteps
<1>3. Typed /\ PolicyInv => SettingsTypeOK
  BY DEF PolicyInv, GrantFiles, SettingsTypeOK
<1> HIDE DEF Typed
<1>4. QED
  BY <1>1, <1>2, <1>3, SettingsHold, PTL DEF Spec

LEMMA MemoryStaysTyped == Spec => []MemoryTypeOK
<1> DEFINE ItemsTyped ==
             /\ item \in [Items -> Statuses \cup {None}] /\ vectorIndex \subseteq Items
             /\ \A k \in Keepers :
                  /\ keeper[k].pc \in {"update", "vector"} => keeper[k].item \in Items
                  /\ keeper[k].pc = "update" => keeper[k].status \in Statuses \cup {None}
                  /\ keeper[k].pc = "archive" => keeper[k].items \subseteq Items
             /\ DOMAIN keeper = Keepers
           Queues == \A w \in Recorders : Len(recorder[w].queue) <= QueueSize
           Typed == ItemsTyped /\ Queues
<1>1. Init => Typed
  BY MemoryAssumption DEF Init, MemoryInit, NoCall
<1>2. Typed /\ EventsInv /\ [Next]_vars => Typed'
  <2> SUFFICES ASSUME Typed, EventsInv, [Next]_vars PROVE Typed'
    OBVIOUS
  <2>1. EventsNext \/ ItemsNext \/ UNCHANGED memoryVars
    BY DEF Next, vars, Rest
  <2>2. CASE UNCHANGED memoryVars
    BY <2>2 DEF memoryVars
  <2>3. CASE ProcessEnds
    <3>1. UNCHANGED <<item, vectorIndex>> /\ keeper' = [k \in Keepers |-> NoCall] /\ NoCall.pc = "idle"
      BY <2>3 DEF ProcessEnds, NoCall
    <3>2. \A w \in Recorders : recorder'[w].queue = recorder[w].queue
      BY <2>3 DEF ProcessEnds, EventsInv, EventWriterOK, Managers
    <3>3. QED
      BY <3>1, <3>2
  <2>4. ASSUME NEW w \in Recorders, \/ IngestEvent(w) \/ WriteEventFails(w) \/ CloseWriter(w)
                                    \/ \E newDay \in BOOLEAN : WriteEvent(w, newDay)
        PROVE  Typed'
    <3>1. UNCHANGED <<item, vectorIndex, keeper>>
      BY <2>4 DEF IngestEvent, WriteEventFails, CloseWriter, WriteEvent
    <3>2. recorder[w] \in Managers /\ DOMAIN recorder = Recorders
      BY DEF EventsInv, EventWriterOK
    <3>3. PICK q : q = recorder[w].queue
      OBVIOUS
    <3>4. q \in Seq(Nat) /\ Len(q) \in Nat /\ (q # <<>> => Len(Tail(q)) = Len(q) - 1)
      BY <3>2, <3>3 DEF Managers
    <3>5. \/ recorder'[w].queue = q
          \/ Len(q) < QueueSize /\ recorder'[w].queue = Append(q, recorder[w].next)
          \/ q # <<>> /\ recorder'[w].queue = Tail(q)
      <4>1. CASE IngestEvent(w)
        BY <3>2, <3>3, <4>1 DEF IngestEvent, Managers
      <4>2. CASE WriteEventFails(w)
        BY <3>2, <3>3, <4>2 DEF WriteEventFails, Managers
      <4>3. CASE CloseWriter(w)
        BY <3>2, <3>3, <4>3 DEF CloseWriter, Managers
      <4>4. CASE \E newDay \in BOOLEAN : WriteEvent(w, newDay)
        BY <3>2, <3>3, <4>4 DEF WriteEvent, Managers
      <4>5. QED
        BY <2>4, <4>1, <4>2, <4>3, <4>4
    <3>6. Len(q) <= QueueSize /\ QueueSize \in Nat
      BY <3>3, MemoryAssumption
    <3>7. Len(recorder'[w].queue) <= QueueSize
      <4>1. CASE Len(q) < QueueSize /\ recorder'[w].queue = Append(q, recorder[w].next)
        <5>1. Len(Append(q, recorder[w].next)) = Len(q) + 1
          BY <3>2, <3>4 DEF Managers
        <5>2. QED
          BY <3>4, <3>6, <4>1, <5>1
      <4>2. CASE q # <<>> /\ recorder'[w].queue = Tail(q)
        BY <3>4, <3>6, <4>2
      <4>3. QED
        BY <3>5, <3>6, <4>1, <4>2
    <3>8. \A v \in Recorders : v # w => recorder'[v] = recorder[v]
      BY <2>4, <3>2 DEF IngestEvent, WriteEventFails, CloseWriter, WriteEvent
    <3>9. QED
      BY <3>1, <3>7, <3>8
  <2>5. ASSUME NEW k \in Keepers,
               \/ UpdateItem(k) \/ SyncVector(k) \/ ListForMaintenance(k) \/ ArchiveItem(k)
               \/ \E i \in Items : WriteItem(k, i) \/ CheckpointItem(k, i) \/ ReadItem(k, i)
                                   \/ ForgetItem(k, i)
        PROVE  Typed'
    <3>1. UNCHANGED recorder /\ {"active", "forgotten", "archived"} = Statuses /\ NoCall.pc = "idle"
      BY <2>5 DEF UpdateItem, SyncVector, ListForMaintenance, ArchiveItem, WriteItem, CheckpointItem,
         ReadItem, ForgetItem, Statuses, NoCall
    <3>2. ItemsTyped'
      <4>1. CASE UpdateItem(k)
        BY <4>1 DEF UpdateItem, Call, Upsert
      <4>2. CASE SyncVector(k)
        BY <3>1, <4>2 DEF SyncVector, Call
      <4>3. CASE ListForMaintenance(k)
        BY <4>3 DEF ListForMaintenance, Call
      <4>4. CASE ArchiveItem(k)
        <5>1. CASE keeper[k].items = {}
          BY <3>1, <4>4, <5>1 DEF ArchiveItem, Call
        <5>2. CASE keeper[k].items # {}
          <6>1. PICK i \in keeper[k].items : Call(k, "archive", [keeper[k] EXCEPT !.items = keeper[k].items \ {i}])
                                             /\ SetAside(i, "archived")
            BY <4>4, <5>2 DEF ArchiveItem
          <6>2. i \in Items /\ keeper[k].pc = "archive" /\ "archived" \in Statuses
            BY <3>1, <4>4, <6>1 DEF ArchiveItem
          <6>3. item' \in [Items -> Statuses \cup {None}] /\ vectorIndex' \subseteq Items
            BY <6>1, <6>2 DEF SetAside
          <6>4. PICK c : c = [keeper[k] EXCEPT !.items = keeper[k].items \ {i}]
            OBVIOUS
          <6>5. keeper' = [keeper EXCEPT ![k] = c] /\ c.pc = "archive" /\ c.items \subseteq Items
            BY <6>1, <6>2, <6>4 DEF Call
          <6>6. QED
            BY <6>3, <6>5
        <5>3. QED
          BY <5>1, <5>2
      <4>5. ASSUME NEW i \in Items, WriteItem(k, i) PROVE ItemsTyped'
        BY <4>5 DEF WriteItem, Call, Upsert
      <4>6. ASSUME NEW i \in Items, CheckpointItem(k, i) PROVE ItemsTyped'
        <5>1. CASE item[i] = None
          BY <3>1, <4>6, <5>1 DEF CheckpointItem, Call, Upsert
        <5>2. CASE item[i] # None
          BY <4>6, <5>2 DEF CheckpointItem, Call
        <5>3. QED
          BY <5>1, <5>2
      <4>7. ASSUME NEW i \in Items, ReadItem(k, i) PROVE ItemsTyped'
        BY <4>7 DEF ReadItem, Call
      <4>8. ASSUME NEW i \in Items, ForgetItem(k, i) PROVE ItemsTyped'
        BY <3>1, <4>8 DEF ForgetItem, Call, SetAside
      <4>9. QED
        BY <2>5, <4>1, <4>2, <4>3, <4>4, <4>5, <4>6, <4>7, <4>8
    <3>3. QED
      BY <3>1, <3>2
  <2>6. QED
    BY <2>1, <2>2, <2>3, <2>4, <2>5 DEF EventsNext, ItemsNext
<1>3. Typed => MemoryTypeOK
  BY DEF MemoryTypeOK
<1> HIDE DEF Typed
<1>4. QED
  BY <1>1, <1>2, <1>3, EventsHold, PTL DEF Spec

LEMMA TheRestStaysTyped == Spec => [](InstanceTypeOK /\ PromptTypeOK /\ MonitorTypeOK)
<1>1. InstancesInv => InstanceTypeOK
  BY DEF InstancesInv, InstanceTypes, InstanceTypeOK, Exists, Manifests
<1>2. PromptInv => PromptTypeOK
  <2> SUFFICES ASSUME PromptInv, NEW l \in Layers, NEW i \in DOMAIN layerFile[l]
               PROVE  /\ layerFile[l][i].version = i /\ layerFile[l][i].at \in 1..promptClock
                      /\ layerFile[l][i].content \in Editors \cup {Blank, FromDocs}
    BY DEF PromptTypeOK
  <2>1. layerFile[l] \in Seq(LayerEntries) /\ layerFile[l][i].version = i /\ layerFile[l][i].at \in 1..promptClock
    BY DEF PromptInv, Sound
  <2>2. layerFile[l][i] \in LayerEntries
    BY <2>1
  <2>3. QED
    BY <2>1, <2>2 DEF LayerEntries, Contents
<1>3. MonitorInv => MonitorTypeOK
  <2> SUFFICES ASSUME MonitorInv PROVE MonitorTypeOK
    OBVIOUS
  <2>1. \A r \in Watched : filed[r] \in Filings /\ trail[r] \in Seq(Logged)
    BY DEF MonitorInv, JobsInv
  <2>2. \A r \in Watched : SetOf(trail[r]) \subseteq Logged
    BY <2>1 DEF SetOf
  <2>3. view.pc # "idle" => view.status \in Shown
    BY DEF MonitorInv, ViewOK, Views, NoView
  <2>4. QED
    BY <2>1, <2>2, <2>3 DEF MonitorTypeOK, Filings, Logged, Shown
<1>4. QED
  BY <1>1, <1>2, <1>3, InstancesHold, PromptsHold, MonitorHolds, PTL

-----------------------------------------------------------------------------
(* Induction without an operator: a set that has 0 and of each number below *)
(* n the next has all up to n, and so a recursion over 0..n has a solution. *)

LEMMA LeastNatural ==
    ASSUME NEW S \in SUBSET Nat, S # {}
    PROVE  \E n \in S : \A m \in S : n <= m
<1> DEFINE R == {ss \in Nat \X Nat : ss[1] < ss[2]}
<1>1. IsWellFoundedOn(R, Nat)
  BY NatLessThanWellFounded DEF OpToRel
<1>2. \A m, n \in Nat : m < n => <<m, n>> \in R
  OBVIOUS
<1> HIDE DEF R
<1>3. PICK n \in S : \A y \in S : <<y, n>> \notin R
  BY <1>1, WFMin
<1>4. ASSUME NEW m \in S PROVE n <= m
  <2>1. m \in Nat /\ n \in Nat /\ ~(m < n)
    BY <1>2, <1>3
  <2>2. QED
    BY <2>1
<1>5. QED
  BY <1>4

LEMMA UpTo ==
    ASSUME NEW n \in Nat, NEW S \in SUBSET Nat, 0 \in S, \A k \in S : k < n => k + 1 \in S
    PROVE  0..n \subseteq S
<1> SUFFICES ASSUME (0..n) \ S # {} PROVE FALSE
  OBVIOUS
<1> DEFINE T == (0..n) \ S
<1>1. PICK k \in T : \A m \in T : k <= m
  <2>1. T \in SUBSET Nat /\ T # {}
    OBVIOUS
  <2> HIDE DEF T
  <2>2. QED
    BY <2>1, LeastNatural
<1>2. k \in 0..n /\ k # 0 /\ k - 1 \notin T
  BY <1>1
<1>3. k - 1 \in S /\ k - 1 < n /\ (k - 1) + 1 = k
  BY <1>2
<1>4. QED
  BY <1>1, <1>3

Solves(f, n, V, a, g) ==
    /\ f \in [0..n -> V]
    /\ f[0] = a /\ \A i \in 1..n : f[i] = g[<<i, f[i - 1]>>]

LEMMA Recursion ==
    ASSUME NEW n \in Nat, NEW V, NEW a \in V, NEW g \in [Nat \X V -> V]
    PROVE  \E f : Solves(f, n, V, a, g)
<1> DEFINE S == {k \in Nat : \E f : Solves(f, k, V, a, g)}
<1>1. 0 \in S
  <2> DEFINE f == [i \in 0..0 |-> a]
  <2>1. f \in [0..0 -> V] /\ f[0] = a /\ \A i \in 1..0 : f[i] = g[<<i, f[i - 1]>>]
    OBVIOUS
  <2>2. QED
    BY <2>1 DEF Solves
<1>2. ASSUME NEW k \in S PROVE k + 1 \in S
  <2>1. PICK f : Solves(f, k, V, a, g)
    OBVIOUS
  <2> DEFINE h == [i \in 0..(k + 1) |-> IF i = k + 1 THEN g[<<k + 1, f[k]>>] ELSE f[i]]
  <2>2. k \in Nat /\ f[k] \in V
    BY <2>1 DEF Solves
  <2>3. g[<<k + 1, f[k]>>] \in V
    BY <2>2
  <2>4. h \in [0..(k + 1) -> V] /\ h[0] = a
    BY <2>1, <2>2, <2>3 DEF Solves
  <2>5. ASSUME NEW i \in 1..(k + 1) PROVE h[i] = g[<<i, h[i - 1]>>]
    <3>1. i - 1 \in 0..k /\ h[i - 1] = f[i - 1]
      BY <2>2
    <3>2. CASE i = k + 1
      <4>1. i - 1 = k /\ h[i] = g[<<k + 1, f[k]>>]
        BY <2>2, <3>2
      <4>2. h[i - 1] = f[k]
        BY <3>1, <4>1
      <4> HIDE DEF h
      <4>3. QED
        BY <3>2, <4>1, <4>2
    <3>3. CASE i # k + 1
      <4>1. i \in 1..k /\ h[i] = f[i]
        BY <2>2, <3>3
      <4>2. f[i] = g[<<i, f[i - 1]>>]
        BY <2>1, <4>1 DEF Solves
      <4> HIDE DEF h
      <4>3. QED
        BY <3>1, <4>1, <4>2
    <3>4. QED
      BY <3>2, <3>3
  <2> HIDE DEF h
  <2>6. QED
    BY <2>2, <2>4, <2>5 DEF Solves
<1>3. n \in S
  <2>1. S \in SUBSET Nat
    OBVIOUS
  <2> HIDE DEF S
  <2>2. 0..n \subseteq S
    BY <1>1, <1>2, <2>1, UpTo
  <2>3. QED
    BY <2>2
<1>4. QED
  BY <1>3

-----------------------------------------------------------------------------
(* The history, read from its end.                                          *)

LEMMA AllTyped ==
    ASSUME NEW n \in Nat, NEW V, NEW f, f[0] \in V, \A i \in 1..n : f[i - 1] \in V => f[i] \in V
    PROVE  \A k \in 0..n : f[k] \in V
<1> DEFINE S == {k \in Nat : k <= n => f[k] \in V}
<1>1. 0 \in S
  OBVIOUS
<1>2. ASSUME NEW k \in S, k < n PROVE k + 1 \in S
  <2>1. k + 1 \in 1..n /\ (k + 1) - 1 = k /\ f[k] \in V
    BY <1>2
  <2>2. f[k + 1] \in V
    BY <2>1
  <2>3. QED
    BY <2>1, <2>2
<1>3. 0..n \subseteq S
  <2>1. S \in SUBSET Nat
    OBVIOUS
  <2> HIDE DEF S
  <2>2. QED
    BY <1>1, <1>2, <2>1, UpTo
<1>4. QED
  BY <1>3

\* Where two functions agree they agree one place further.
Agree(f, h, n) == f[0] = h[0] /\ \A i \in 1..n : f[i - 1] = h[i - 1] => f[i] = h[i]

LEMMA AllSame ==
    ASSUME NEW n \in Nat, NEW f, NEW h, Agree(f, h, n)
    PROVE  \A k \in 0..n : f[k] = h[k]
<1>5. f[0] = h[0] /\ \A i \in 1..n : f[i - 1] = h[i - 1] => f[i] = h[i]
  BY DEF Agree
<1> DEFINE S == {k \in Nat : k <= n => f[k] = h[k]}
<1>1. 0 \in S
  BY <1>5
<1>2. ASSUME NEW k \in S, k < n PROVE k + 1 \in S
  <2>1. k + 1 \in 1..n /\ (k + 1) - 1 = k /\ f[k] = h[k]
    BY <1>2
  <2>2. f[k + 1] = h[k + 1]
    BY <1>5, <2>1
  <2>3. QED
    BY <2>1, <2>2
<1>3. 0..n \subseteq S
  <2>1. S \in SUBSET Nat
    OBVIOUS
  <2> HIDE DEF S
  <2>2. QED
    BY <1>1, <1>2, <2>1, UpTo
<1>4. QED
  BY <1>3

Line == Seq(Nat)

LEMMA SliceFacts ==
    ASSUME NEW a \in Nat, NEW b \in Nat, a <= b
    PROVE  /\ Slice(a, b) \in Line /\ Len(Slice(a, b)) = b - a /\ (Slice(a, b) = <<>> <=> a = b)
           /\ \A i \in 1..(b - a) : Slice(a, b)[i] = a + i
<1>1. b - a \in Nat /\ \A i \in 1..(b - a) : a + i \in Nat
  OBVIOUS
<1>2. Slice(a, b) \in [1..(b - a) -> Nat] /\ \A i \in 1..(b - a) : Slice(a, b)[i] = a + i
  BY <1>1 DEF Slice
<1>3. Slice(a, b) \in Line /\ Len(Slice(a, b)) = b - a
  BY <1>1, <1>2, IsASeq, LenProperties DEF Line
<1>4. Slice(a, b) = <<>> <=> Len(Slice(a, b)) = 0
  BY <1>3, EmptySeq DEF Line
<1>5. QED
  BY <1>1, <1>2, <1>3, <1>4

LEMMA SliceJoins ==
    ASSUME NEW a \in Nat, NEW b \in Nat, NEW c \in Nat, a <= b, b <= c
    PROVE  Slice(a, b) \o Slice(b, c) = Slice(a, c)
<1> DEFINE s == Slice(a, b) \o Slice(b, c)
<1>1. Slice(a, b) \in Line /\ Slice(b, c) \in Line /\ Slice(a, c) \in Line
      /\ Len(Slice(a, b)) = b - a /\ Len(Slice(b, c)) = c - b /\ Len(Slice(a, c)) = c - a
  <2>1. Slice(a, b) \in Line /\ Len(Slice(a, b)) = b - a
    BY SliceFacts
  <2>2. Slice(b, c) \in Line /\ Len(Slice(b, c)) = c - b
    BY SliceFacts
  <2>3. a <= c
    OBVIOUS
  <2>4. Slice(a, c) \in Line /\ Len(Slice(a, c)) = c - a
    BY <2>3, SliceFacts
  <2>5. QED
    BY <2>1, <2>2, <2>4
<1>2. \A i \in 1..(b - a) : Slice(a, b)[i] = a + i
  BY SliceFacts
<1>3. \A i \in 1..(c - b) : Slice(b, c)[i] = b + i
  BY SliceFacts
<1>4. \A i \in 1..(c - a) : Slice(a, c)[i] = a + i
  <2>1. a <= c
    OBVIOUS
  <2>2. QED
    BY <2>1, SliceFacts
<1>5. s \in Line /\ Len(s) = c - a
  <2>1. s \in Line /\ Len(s) = Len(Slice(a, b)) + Len(Slice(b, c))
    BY <1>1, ConcatProperties DEF Line
  <2>2. (b - a) + (c - b) = c - a
    OBVIOUS
  <2> HIDE DEF s
  <2>3. QED
    BY <1>1, <2>1, <2>2
<1>6. ASSUME NEW i \in 1..(c - a) PROVE s[i] = a + i
  <2>1. s[i] = IF i <= Len(Slice(a, b)) THEN Slice(a, b)[i] ELSE Slice(b, c)[i - Len(Slice(a, b))]
    <3>1. Len(Slice(a, b)) + Len(Slice(b, c)) = c - a
      BY <1>1
    <3>2. PICK y, z : y = Slice(a, b) /\ z = Slice(b, c)
      OBVIOUS
    <3>3. y \in Seq(Nat) /\ z \in Seq(Nat) /\ i \in 1..(Len(y) + Len(z)) /\ s = y \o z
      BY <1>1, <3>1, <3>2 DEF Line
    <3> HIDE DEF s
    <3>4. s[i] = IF i <= Len(y) THEN y[i] ELSE z[i - Len(y)]
      BY <3>3, ConcatProperties
    <3>5. QED
      BY <3>2, <3>4
  <2> HIDE DEF s
  <2>2. CASE i <= b - a
    <3>1. i \in 1..(b - a) /\ s[i] = Slice(a, b)[i]
      BY <1>1, <2>1, <2>2
    <3>2. QED
      BY <1>2, <3>1
  <2>3. CASE i > b - a
    <3>1. i - (b - a) \in 1..(c - b) /\ b + (i - (b - a)) = a + i
      BY <2>3
    <3>2. s[i] = Slice(b, c)[i - (b - a)]
      BY <1>1, <2>1, <2>3
    <3>3. QED
      BY <1>3, <3>1, <3>2
  <2>4. QED
    BY <2>2, <2>3
<1> HIDE DEF s
<1>7. s = Slice(a, c)
  BY <1>1, <1>4, <1>5, <1>6, SeqEqual DEF Line
<1>8. QED
  BY <1>7 DEF s

\* The pieces of a line.
JoinedBy(f, lo) == f = [i \in 0..Len(lo) |-> IF i = 0 THEN <<>> ELSE lo[i] \o f[i - 1]]
Joined(lo) == (CHOOSE f : JoinedBy(f, lo))[Len(lo)]

LEMMA JoinLeftoverIs == \A p, lo : JoinLeftover(p, lo) = p \o Joined(lo)
  BY DEF JoinLeftover, Joined, JoinedBy

LEMMA JoinedSolves ==
    ASSUME NEW lo \in Seq(Line)
    PROVE  \E f : JoinedBy(f, lo) /\ Joined(lo) = f[Len(lo)]
<1> DEFINE n == Len(lo)
           g == [ix \in Nat \X Line |-> IF ix[1] \in 1..n THEN lo[ix[1]] \o ix[2] ELSE ix[2]]
<1>1. n \in Nat /\ <<>> \in Line /\ \A i \in 1..n : lo[i] \in Line
  BY DEF Line
<1>2. \A i \in 1..n, x \in Line : lo[i] \o x \in Line
  BY <1>1, ConcatProperties DEF Line
<1>3. g \in [Nat \X Line -> Line]
  BY <1>2
<1>4. ASSUME NEW i \in 1..n, NEW x \in Line PROVE g[<<i, x>>] = lo[i] \o x
  <2>1. <<i, x>> \in Nat \X Line
    BY <1>1
  <2>2. QED
    BY <2>1
<1> HIDE DEF g
<1>5. PICK f : Solves(f, n, Line, <<>>, g)
  BY <1>1, <1>3, Recursion
<1>6. f \in [0..n -> Line] /\ f[0] = <<>> /\ \A i \in 1..n : f[i] = lo[i] \o f[i - 1]
  <2>1. f \in [0..n -> Line] /\ f[0] = <<>> /\ \A i \in 1..n : f[i] = g[<<i, f[i - 1]>>]
    BY <1>5 DEF Solves
  <2>2. \A i \in 1..n : f[i - 1] \in Line
    BY <1>1, <2>1
  <2>3. QED
    BY <1>4, <2>1, <2>2
<1>7. JoinedBy(f, lo)
  <2>1. \A i \in 0..n : f[i] = IF i = 0 THEN <<>> ELSE lo[i] \o f[i - 1]
    BY <1>1, <1>6
  <2>2. f = [i \in 0..n |-> f[i]]
    BY <1>6
  <2>3. QED
    BY <2>1, <2>2 DEF JoinedBy
<1>8. QED
  BY <1>7 DEF Joined

LEMMA JoinedIsLine == ASSUME NEW lo \in Seq(Line) PROVE Joined(lo) \in Line /\ (lo = <<>> => Joined(lo) = <<>>)
<1>1. PICK f : JoinedBy(f, lo) /\ Joined(lo) = f[Len(lo)]
  BY JoinedSolves
<1>2. Len(lo) \in Nat /\ <<>> \in Line /\ \A i \in 1..Len(lo) : lo[i] \in Line
  BY DEF Line
<1>3. f[0] = <<>> /\ \A i \in 1..Len(lo) : f[i] = lo[i] \o f[i - 1]
  BY <1>1, <1>2 DEF JoinedBy
<1>4. \A i \in 1..Len(lo) : f[i - 1] \in Line => f[i] \in Line
  BY <1>2, <1>3, ConcatProperties DEF Line
<1>5. f[0] \in Line
  BY <1>2, <1>3
<1>6. \A k \in 0..Len(lo) : f[k] \in Line
  BY <1>2, <1>4, <1>5, AllTyped
<1>7. QED
  BY <1>1, <1>2, <1>3, <1>6

\* What is read later comes first.
LEMMA JoinedStep ==
    ASSUME NEW lo \in Seq(Line), NEW s \in Line
    PROVE  Joined(Append(lo, s)) = s \o Joined(lo)
<1> DEFINE n  == Len(lo)
           mo == Append(lo, s)
<1>1. n \in Nat /\ mo \in Seq(Line) /\ Len(mo) = n + 1 /\ mo[n + 1] = s /\ \A i \in 1..n : mo[i] = lo[i]
  OBVIOUS
<1> HIDE DEF mo, n
<1>2. PICK f : JoinedBy(f, lo) /\ Joined(lo) = f[n]
  BY JoinedSolves DEF n
<1>3. PICK h : JoinedBy(h, mo) /\ Joined(mo) = h[n + 1]
  BY <1>1, JoinedSolves
<1>4. f[0] = <<>> /\ \A i \in 1..n : f[i] = lo[i] \o f[i - 1]
  BY <1>1, <1>2 DEF JoinedBy, n
<1>5. h[0] = <<>> /\ \A i \in 1..(n + 1) : h[i] = mo[i] \o h[i - 1]
  <2>1. h = [i \in 0..(n + 1) |-> IF i = 0 THEN <<>> ELSE mo[i] \o h[i - 1]]
    BY <1>1, <1>3 DEF JoinedBy
  <2>2. n \in Nat
    BY <1>1
  <2>3. QED
    BY <2>1, <2>2
<1>6. ASSUME NEW i \in 1..n, f[i - 1] = h[i - 1] PROVE f[i] = h[i]
  <2>1. f[i] = lo[i] \o f[i - 1] /\ mo[i] = lo[i]
    BY <1>1, <1>4
  <2>2. i \in 1..(n + 1)
    BY <1>1
  <2>3. h[i] = mo[i] \o h[i - 1]
    BY <1>5, <2>2
  <2>4. QED
    BY <1>6, <2>1, <2>3
<1>7. f[0] = h[0]
  BY <1>4, <1>5
<1>8. \A k \in 0..n : f[k] = h[k]
  <2>1. n \in Nat
    BY <1>1
  <2>2. Agree(f, h, n)
    BY <1>6, <1>7 DEF Agree
  <2>3. QED
    BY <2>1, <2>2, AllSame
<1>9. h[n + 1] = s \o h[n]
  <2>1. n + 1 \in 1..(n + 1) /\ (n + 1) - 1 = n
    BY <1>1
  <2>2. h[n + 1] = mo[n + 1] \o h[(n + 1) - 1]
    BY <1>5, <2>1
  <2>3. QED
    BY <1>1, <2>1, <2>2
<1>10. f[n] = h[n]
  BY <1>1, <1>8
<1>11. Joined(mo) = s \o Joined(lo)
  BY <1>2, <1>3, <1>9, <1>10
<1>12. QED
  BY <1>11 DEF mo

-----------------------------------------------------------------------------
(* The lines between the borders B of a file of n bytes.                    *)

Bordered(n, B) == n \in Nat /\ B \subseteq 0..(n + 1) /\ 0 \in B /\ n + 1 \in B

\* The last byte of the line that byte q is in, or that begins after it.
EndIn(B, q) == Sets!Min({x \in B : x > q}) - 1
Ends(B, q, e) == e \in Nat /\ q <= e /\ e + 1 \in B /\ \A x \in B : x > q => x >= e + 1

LEMMA EndIs ==
    ASSUME NEW n, NEW B, Bordered(n, B), NEW q \in 0..n
    PROVE  Ends(B, q, EndIn(B, q)) /\ EndIn(B, q) <= n
<1> DEFINE S == {x \in B : x > q}
<1>1. S \in SUBSET Nat /\ n + 1 \in S /\ n \in Nat
  <2>1. n \in Nat /\ B \subseteq 0..(n + 1) /\ n + 1 \in B
    BY DEF Bordered
  <2>2. n + 1 > q /\ B \subseteq Nat
    BY <2>1
  <2>3. QED
    BY <2>1, <2>2
<1>2. \A x : x \in S <=> x \in B /\ x > q
  OBVIOUS
<1>3. EndIn(B, q) = (CHOOSE x \in S : \A y \in S : x =< y) - 1
  BY DEF EndIn, Sets!Min
<1> HIDE DEF S
<1>4. \E x \in S : \A y \in S : x =< y
  BY <1>1, LeastNatural
<1>5. PICK m : m = (CHOOSE x \in S : \A y \in S : x =< y)
  OBVIOUS
<1>6. m \in S /\ \A y \in S : m =< y
  BY <1>4, <1>5
<1>7. m \in Nat /\ m > q /\ m \in B /\ m <= n + 1 /\ q \in Nat
  BY <1>1, <1>2, <1>6
<1>8. EndIn(B, q) = m - 1
  BY <1>3, <1>5
<1>9. m - 1 \in Nat /\ q <= m - 1 /\ (m - 1) + 1 = m /\ m - 1 <= n
  BY <1>1, <1>7
<1>10. \A x \in B : x > q => x >= m
  BY <1>1, <1>2, <1>6
<1>11. QED
  BY <1>7, <1>8, <1>9, <1>10 DEF Ends

LEMMA EndUnique ==
    ASSUME NEW n, NEW B, Bordered(n, B), NEW q \in 0..n, NEW e, Ends(B, q, e)
    PROVE  EndIn(B, q) = e
<1>1. PICK d : d = EndIn(B, q)
  OBVIOUS
<1>2. Ends(B, q, d)
  BY <1>1, EndIs
<1>3. d \in Nat /\ e \in Nat /\ q \in Nat /\ d + 1 > q /\ e + 1 > q /\ d + 1 >= e + 1 /\ e + 1 >= d + 1
  BY <1>2 DEF Ends, Bordered
<1>4. QED
  BY <1>1, <1>3

LEMMA EndMoves ==
    ASSUME NEW n, NEW B, Bordered(n, B)
    PROVE  /\ EndIn(B, n) = n
           /\ \A q \in 1..n : EndIn(B, q - 1) = IF q \in B THEN q - 1 ELSE EndIn(B, q)
<1>1. n \in Nat /\ B \subseteq 0..(n + 1) /\ n + 1 \in B
  BY DEF Bordered
<1>2. n \in 0..n /\ Ends(B, n, n)
  BY <1>1 DEF Ends
<1>3. EndIn(B, n) = n
  BY <1>2, EndUnique
<1>4. ASSUME NEW q \in 1..n PROVE EndIn(B, q - 1) = IF q \in B THEN q - 1 ELSE EndIn(B, q)
  <2>1. q - 1 \in 0..n /\ q \in 0..n
    BY <1>1
  <2>2. CASE q \in B
    <3>1. Ends(B, q - 1, q - 1)
      BY <1>1, <2>2 DEF Ends
    <3>2. QED
      BY <2>1, <2>2, <3>1, EndUnique
  <2>3. CASE q \notin B
    <3>1. PICK e : e = EndIn(B, q)
      OBVIOUS
    <3>2. Ends(B, q, e)
      BY <2>1, <3>1, EndIs
    <3>3. \A x \in B : x > q - 1 => x > q
      BY <1>1, <2>3
    <3>4. Ends(B, q - 1, e)
      BY <3>2, <3>3 DEF Ends
    <3>5. QED
      BY <2>1, <2>3, <3>1, <3>4, EndUnique
  <2>4. QED
    BY <2>2, <2>3
<1>5. QED
  BY <1>3, <1>4

\* A line that is not empty is kept.
Keep(r, x) == IF x = <<>> THEN r ELSE Append(r, x)
Extends(s, t) == Len(s) <= Len(t) /\ \A i \in 1..Len(s) : s[i] = t[i]

LEMMA KeepKeeps ==
    ASSUME NEW r \in Seq(Line), NEW x \in Line
    PROVE  Keep(r, x) \in Seq(Line) /\ Extends(r, Keep(r, x))
  BY DEF Keep, Extends

LEMMA ExtendsChain ==
    ASSUME NEW r \in Seq(Line), NEW s \in Seq(Line), NEW t \in Seq(Line), Extends(r, s), Extends(s, t)
    PROVE  Extends(r, t)
  BY DEF Extends

\* The lines before those of f[k] are added to them.
LEMMA ExtendsUpTo ==
    ASSUME NEW n \in Nat, NEW f, \A k \in 0..n : f[k] \in Seq(Line),
           \A i \in 1..n : Extends(f[i - 1], f[i]), NEW k \in 0..n
    PROVE  Extends(f[k], f[n])
<1> DEFINE S == {d \in Nat : k + d <= n => Extends(f[k], f[k + d])}
<1>1. 0 \in S
  <2>1. k + 0 = k /\ Extends(f[k], f[k])
    BY DEF Extends
  <2>2. QED
    BY <2>1
<1>2. ASSUME NEW d \in S, d < n PROVE d + 1 \in S
  <2>1. ASSUME k + (d + 1) <= n PROVE Extends(f[k], f[k + (d + 1)])
    <3>1. k + d \in 0..n /\ k + (d + 1) \in 1..n /\ (k + (d + 1)) - 1 = k + d /\ Extends(f[k], f[k + d])
      BY <2>1
    <3>2. Extends(f[k + d], f[k + (d + 1)])
      BY <3>1
    <3>3. f[k] \in Seq(Line) /\ f[k + d] \in Seq(Line) /\ f[k + (d + 1)] \in Seq(Line)
      BY <3>1
    <3>4. QED
      BY <3>1, <3>2, <3>3, ExtendsChain
  <2>2. QED
    BY <2>1
<1>3. 0..n \subseteq S
  <2>1. S \in SUBSET Nat
    OBVIOUS
  <2> HIDE DEF S
  <2>2. QED
    BY <1>1, <1>2, <2>1, UpTo
<1>4. n - k \in 0..n /\ k + (n - k) = n
  OBVIOUS
<1>5. n - k \in S
  BY <1>3, <1>4
<1>6. QED
  BY <1>4, <1>5

\* The lines r, and after them those of ps that are not empty.
CollectedBy(f, r, ps) == f = [i \in 0..Len(ps) |-> IF i = 0 THEN r ELSE Keep(f[i - 1], ps[i])]
Collected(r, ps) == (CHOOSE f : CollectedBy(f, r, ps))[Len(ps)]
Collects(f, r, ps) ==
    /\ f[0] = r /\ \A i \in 1..Len(ps) : f[i] = Keep(f[i - 1], ps[i])
    /\ \A i \in 0..Len(ps) : f[i] \in Seq(Line)

LEMMA CollectedSolves ==
    ASSUME NEW r \in Seq(Line), NEW ps \in Seq(Line)
    PROVE  \E f : Collects(f, r, ps) /\ Collected(r, ps) = f[Len(ps)]
<1> DEFINE n == Len(ps)
           V == Seq(Line)
           g == [ix \in Nat \X V |-> IF ix[1] \in 1..n THEN Keep(ix[2], ps[ix[1]]) ELSE ix[2]]
<1>1. n \in Nat /\ r \in V /\ \A i \in 1..n : ps[i] \in Line
  OBVIOUS
<1>2. \A i \in 1..n, x \in V : Keep(x, ps[i]) \in V
  BY <1>1, KeepKeeps
<1> HIDE DEF V
<1>3. g \in [Nat \X V -> V]
  BY <1>2
<1>4. ASSUME NEW i \in 1..n, NEW x \in V PROVE g[<<i, x>>] = Keep(x, ps[i])
  <2>1. <<i, x>> \in Nat \X V
    BY <1>1
  <2>2. QED
    BY <2>1
<1> HIDE DEF g
<1>5. PICK f : Solves(f, n, V, r, g)
  BY <1>1, <1>3, Recursion
<1>6. f \in [0..n -> V] /\ f[0] = r /\ \A i \in 1..n : f[i] = Keep(f[i - 1], ps[i])
  <2>1. f \in [0..n -> V] /\ f[0] = r /\ \A i \in 1..n : f[i] = g[<<i, f[i - 1]>>]
    BY <1>5 DEF Solves
  <2>2. \A i \in 1..n : f[i - 1] \in V
    BY <1>1, <2>1
  <2>3. QED
    BY <1>4, <2>1, <2>2
<1>7. CollectedBy(f, r, ps)
  <2>1. \A i \in 0..n : f[i] = IF i = 0 THEN r ELSE Keep(f[i - 1], ps[i])
    BY <1>1, <1>6
  <2>2. f = [i \in 0..n |-> f[i]]
    BY <1>6
  <2>3. QED
    BY <2>1, <2>2 DEF CollectedBy
<1>8. PICK h : h = CHOOSE hh : CollectedBy(hh, r, ps)
  OBVIOUS
<1>9. CollectedBy(h, r, ps) /\ Collected(r, ps) = h[n]
  BY <1>7, <1>8 DEF Collected
<1>10. h[0] = r /\ \A i \in 1..n : h[i] = Keep(h[i - 1], ps[i])
  BY <1>1, <1>9 DEF CollectedBy
<1>11. \A i \in 1..n : h[i - 1] \in V => h[i] \in V
  BY <1>2, <1>10
<1>12. h[0] \in V
  BY <1>1, <1>10
<1>13. \A i \in 0..n : h[i] \in V
  <2>1. n \in Nat
    BY <1>1
  <2> HIDE DEF n
  <2>2. QED
    BY <1>11, <1>12, <2>1, AllTyped
<1>14. Collects(h, r, ps)
  BY <1>10, <1>13 DEF Collects, V
<1>15. QED
  BY <1>9, <1>14

LEMMA CollectedExtends ==
    ASSUME NEW r \in Seq(Line), NEW ps \in Seq(Line)
    PROVE  /\ Collected(r, ps) \in Seq(Line) /\ Extends(r, Collected(r, ps))
           /\ ps = <<>> => Collected(r, ps) = r
<1>1. PICK f : Collects(f, r, ps) /\ Collected(r, ps) = f[Len(ps)]
  BY CollectedSolves
<1>2. f[0] = r /\ (\A i \in 1..Len(ps) : f[i] = Keep(f[i - 1], ps[i])) /\ \A i \in 0..Len(ps) : f[i] \in Seq(Line)
  BY <1>1 DEF Collects
<1>3. Len(ps) \in Nat /\ 0 \in 0..Len(ps) /\ Len(ps) \in 0..Len(ps)
  OBVIOUS
<1>4. ASSUME NEW i \in 1..Len(ps) PROVE Extends(f[i - 1], f[i])
  <2>1. ps[i] \in Line /\ i - 1 \in 0..Len(ps)
    OBVIOUS
  <2>2. f[i - 1] \in Seq(Line)
    BY <1>2, <2>1
  <2>3. f[i] = Keep(f[i - 1], ps[i])
    BY <1>2
  <2>4. QED
    BY <2>1, <2>2, <2>3, KeepKeeps
<1>5. Extends(f[0], f[Len(ps)])
  BY <1>2, <1>3, <1>4, ExtendsUpTo
<1>6. QED
  BY <1>1, <1>2, <1>3, <1>5

\* A line that is found after the others.
LEMMA CollectedStep ==
    ASSUME NEW r \in Seq(Line), NEW ps \in Seq(Line), NEW x \in Line
    PROVE  Collected(r, Append(ps, x)) = Keep(Collected(r, ps), x)
<1> DEFINE n  == Len(ps)
           qs == Append(ps, x)
<1>1. n \in Nat /\ qs \in Seq(Line) /\ Len(qs) = n + 1 /\ qs[n + 1] = x /\ \A i \in 1..n : qs[i] = ps[i]
  OBVIOUS
<1> HIDE DEF qs
<1>2. PICK f : Collects(f, r, ps) /\ Collected(r, ps) = f[n]
  BY CollectedSolves
<1> HIDE DEF n
<1>3. PICK h : Collects(h, r, qs) /\ Collected(r, qs) = h[n + 1]
  BY <1>1, CollectedSolves
<1>4. f[0] = r /\ \A i \in 1..n : f[i] = Keep(f[i - 1], ps[i])
  BY <1>2 DEF Collects, n
<1>5. h[0] = r /\ \A i \in 1..(n + 1) : h[i] = Keep(h[i - 1], qs[i])
  BY <1>1, <1>3 DEF Collects
<1>6. ASSUME NEW i \in 1..n, f[i - 1] = h[i - 1] PROVE f[i] = h[i]
  <2>1. f[i] = Keep(f[i - 1], ps[i]) /\ qs[i] = ps[i]
    BY <1>1, <1>4
  <2>2. i \in 1..(n + 1)
    BY <1>1
  <2>3. h[i] = Keep(h[i - 1], qs[i])
    BY <1>5, <2>2
  <2>4. QED
    BY <1>6, <2>1, <2>3
<1>7. f[0] = h[0] /\ n \in Nat
  BY <1>1, <1>4, <1>5
<1>8. \A k \in 0..n : f[k] = h[k]
  <2>1. Agree(f, h, n)
    BY <1>6, <1>7 DEF Agree
  <2>2. QED
    BY <1>7, <2>1, AllSame
<1>9. h[n + 1] = Keep(h[n], x)
  <2>1. n + 1 \in 1..(n + 1) /\ (n + 1) - 1 = n
    BY <1>1
  <2>2. h[n + 1] = Keep(h[(n + 1) - 1], qs[n + 1])
    BY <1>5, <2>1
  <2>3. QED
    BY <1>1, <2>1, <2>2
<1>10. f[n] = h[n]
  BY <1>7, <1>8
<1>11. Collected(r, qs) = Keep(Collected(r, ps), x)
  BY <1>2, <1>3, <1>9, <1>10
<1>12. QED
  BY <1>11 DEF qs

\* The first of them is taken.
LEMMA CollectedHead ==
    ASSUME NEW r \in Seq(Line), NEW ps \in Seq(Line), ps # <<>>
    PROVE  /\ Head(ps) \in Line /\ Tail(ps) \in Seq(Line) /\ Keep(r, Head(ps)) \in Seq(Line)
           /\ Collected(Keep(r, Head(ps)), Tail(ps)) = Collected(r, ps)
<1> DEFINE n  == Len(ps)
           qs == Tail(ps)
           s  == Keep(r, Head(ps))
<1>1. n \in Nat /\ n >= 1 /\ qs \in Seq(Line) /\ Len(qs) = n - 1 /\ Head(ps) = ps[1] /\ Head(ps) \in Line
      /\ \A i \in 1..(n - 1) : qs[i] = ps[i + 1]
  OBVIOUS
<1>2. s \in Seq(Line)
  BY <1>1, KeepKeeps
<1>3. PICK f : Collects(f, r, ps) /\ Collected(r, ps) = f[n]
  BY CollectedSolves
<1>4. f[0] = r /\ \A i \in 1..n : f[i] = Keep(f[i - 1], ps[i])
  BY <1>3 DEF Collects
<1>5. f[1] = s
  <2>1. 1 \in 1..n /\ 1 - 1 = 0
    BY <1>1
  <2>2. f[1] = Keep(f[1 - 1], ps[1])
    BY <1>4, <2>1
  <2>3. QED
    BY <1>1, <1>4, <2>1, <2>2
<1> HIDE DEF n, qs, s
<1>6. PICK h : Collects(h, s, qs) /\ Collected(s, qs) = h[n - 1]
  <2>1. qs \in Seq(Line) /\ Len(qs) = n - 1
    BY <1>1
  <2>2. PICK h : Collects(h, s, qs) /\ Collected(s, qs) = h[Len(qs)]
    BY <1>2, <2>1, CollectedSolves
  <2>3. QED
    BY <2>1, <2>2
<1>7. h[0] = s /\ \A i \in 1..(n - 1) : h[i] = Keep(h[i - 1], qs[i])
  <2>1. h[0] = s /\ \A i \in 1..Len(qs) : h[i] = Keep(h[i - 1], qs[i])
    BY <1>6 DEF Collects
  <2>2. Len(qs) = n - 1
    BY <1>1
  <2>3. QED
    BY <2>1, <2>2
<1> DEFINE d == [i \in 0..(n - 1) |-> f[i + 1]]
<1>9. \A i \in 0..(n - 1) : d[i] = f[i + 1]
  OBVIOUS
<1> HIDE DEF d
<1>10. ASSUME NEW i \in 1..(n - 1), h[i - 1] = d[i - 1] PROVE h[i] = d[i]
  <2>1. i + 1 \in 1..n /\ (i + 1) - 1 = i /\ i - 1 \in 0..(n - 1) /\ (i - 1) + 1 = i /\ i \in 0..(n - 1)
    BY <1>1
  <2>2. f[i + 1] = Keep(f[(i + 1) - 1], ps[i + 1])
    BY <1>4, <2>1
  <2>3. d[i - 1] = f[(i - 1) + 1] /\ d[i] = f[i + 1]
    BY <1>9, <2>1
  <2>4. h[i] = Keep(h[i - 1], qs[i]) /\ qs[i] = ps[i + 1]
    BY <1>1, <1>7
  <2>5. QED
    BY <1>10, <2>1, <2>2, <2>3, <2>4
<1>11. h[0] = d[0] /\ n - 1 \in Nat
  <2>1. 0 \in 0..(n - 1) /\ 0 + 1 = 1 /\ n - 1 \in Nat
    BY <1>1
  <2>2. d[0] = f[0 + 1]
    BY <1>9, <2>1
  <2>3. QED
    BY <1>5, <1>7, <2>1, <2>2
<1>12. \A k \in 0..(n - 1) : h[k] = d[k]
  <2>1. Agree(h, d, n - 1)
    BY <1>10, <1>11 DEF Agree
  <2>2. QED
    BY <1>11, <2>1, AllSame
<1>13. h[n - 1] = f[n]
  <2>1. n - 1 \in 0..(n - 1) /\ (n - 1) + 1 = n
    BY <1>1
  <2>2. h[n - 1] = d[n - 1] /\ d[n - 1] = f[(n - 1) + 1]
    BY <1>9, <1>12, <2>1
  <2>3. QED
    BY <2>1, <2>2
<1>14. Collected(s, qs) = Collected(r, ps)
  BY <1>3, <1>6, <1>13
<1>15. QED
  BY <1>1, <1>2, <1>14 DEF s, qs

\* The lines of a file that are not empty, from its end: f[k] has those that
\* begin after byte n - k or later.
LineFrom(B, q) == Slice(q, EndIn(B, q))
WithLine(B, b, x) == IF b \in B /\ b + 1 \notin B THEN Append(x, LineFrom(B, b)) ELSE x
LinesBy(f, n, B) ==
    f = [k \in 0..(n + 1) |-> IF k = 0 THEN <<>> ELSE WithLine(B, (n + 1) - k, f[k - 1])]
Later(n, B, q) == (CHOOSE f : LinesBy(f, n, B))[(n + 1) - q]

LEMMA LineFromIs ==
    ASSUME NEW n, NEW B, Bordered(n, B), NEW q \in 0..n
    PROVE  /\ LineFrom(B, q) \in Line /\ Len(LineFrom(B, q)) = EndIn(B, q) - q
           /\ LineFrom(B, q) = <<>> <=> q + 1 \in B
<1>1. PICK e : e = EndIn(B, q)
  OBVIOUS
<1>2. Ends(B, q, e)
  BY <1>1, EndIs
<1>3. q \in Nat /\ e \in Nat /\ q <= e /\ e + 1 \in B /\ \A x \in B : x > q => x >= e + 1
  BY <1>2 DEF Ends
<1>4. Slice(q, e) \in Line /\ Len(Slice(q, e)) = e - q /\ (Slice(q, e) = <<>> <=> q = e)
  BY <1>3, SliceFacts
<1>5. q = e <=> q + 1 \in B
  BY <1>3
<1>6. QED
  BY <1>1, <1>4, <1>5 DEF LineFrom

\* The line after border q is read after those that begin later.
Reads(n, B, q) == Later(n, B, q) = IF q \in B THEN Keep(Later(n, B, q + 1), LineFrom(B, q))
                                   ELSE Later(n, B, q + 1)

LEMMA LaterIs ==
    ASSUME NEW n, NEW B, Bordered(n, B)
    PROVE  /\ Later(n, B, n + 1) = <<>>
           /\ \A q \in 0..n : Reads(n, B, q)
           /\ \A q \in 0..(n + 1) : Later(n, B, q) \in Seq(Line) /\ Extends(Later(n, B, q), Later(n, B, 0))
<1> DEFINE V == Seq(Line)
           m == n + 1
           g == [ix \in Nat \X V |-> IF ix[1] \in 1..m THEN WithLine(B, m - ix[1], ix[2]) ELSE ix[2]]
<1>1. n \in Nat /\ m \in Nat /\ <<>> \in V
  BY DEF Bordered
<1>2. ASSUME NEW k \in 1..m, NEW x \in V PROVE WithLine(B, m - k, x) \in V /\ Extends(x, WithLine(B, m - k, x))
  <2>1. m - k \in 0..n
    BY <1>1
  <2>2. LineFrom(B, m - k) \in Line
    BY <2>1, LineFromIs
  <2>3. QED
    BY <2>2 DEF Extends, WithLine
<1> HIDE DEF V
<1>3. g \in [Nat \X V -> V]
  BY <1>2
<1>4. ASSUME NEW k \in 1..m, NEW x \in V PROVE g[<<k, x>>] = WithLine(B, m - k, x)
  <2>1. <<k, x>> \in Nat \X V
    BY <1>1
  <2>2. QED
    BY <2>1
<1> HIDE DEF g
<1>5. PICK f : Solves(f, m, V, <<>>, g)
  BY <1>1, <1>3, Recursion
<1>6. f \in [0..m -> V] /\ f[0] = <<>> /\ \A k \in 1..m : f[k] = WithLine(B, m - k, f[k - 1])
  <2>1. f \in [0..m -> V] /\ f[0] = <<>> /\ \A k \in 1..m : f[k] = g[<<k, f[k - 1]>>]
    BY <1>5 DEF Solves
  <2>2. \A k \in 1..m : f[k - 1] \in V
    BY <1>1, <2>1
  <2>3. QED
    BY <1>4, <2>1, <2>2
<1>7. LinesBy(f, n, B)
  <2>1. \A k \in 0..m : f[k] = IF k = 0 THEN <<>> ELSE WithLine(B, m - k, f[k - 1])
    BY <1>1, <1>6
  <2>2. f = [k \in 0..m |-> f[k]]
    BY <1>6
  <2>3. f = [k \in 0..m |-> IF k = 0 THEN <<>> ELSE WithLine(B, m - k, f[k - 1])]
    BY <2>1, <2>2
  <2>4. QED
    BY <2>3 DEF LinesBy
<1>8. PICK h : h = CHOOSE hh : LinesBy(hh, n, B)
  OBVIOUS
<1>9. LinesBy(h, n, B)
  BY <1>7, <1>8
<1>10. h[0] = <<>> /\ \A k \in 1..m : h[k] = WithLine(B, m - k, h[k - 1])
  <2>1. h = [k \in 0..m |-> IF k = 0 THEN <<>> ELSE WithLine(B, m - k, h[k - 1])]
    BY <1>9 DEF LinesBy
  <2>2. QED
    BY <1>1, <2>1
<1>11. \A k \in 0..m : h[k] \in V
  <2>1. \A i \in 1..m : h[i - 1] \in V => h[i] \in V
    BY <1>2, <1>10
  <2>2. h[0] \in V /\ m \in Nat
    BY <1>1, <1>10
  <2> HIDE DEF m
  <2>3. QED
    BY <2>1, <2>2, AllTyped
<1>12. \A k \in 1..m : Extends(h[k - 1], h[k])
  <2> SUFFICES ASSUME NEW k \in 1..m PROVE Extends(h[k - 1], h[k])
    OBVIOUS
  <2>1. k - 1 \in 0..m
    BY <1>1
  <2>2. h[k - 1] \in V
    BY <1>11, <2>1
  <2>3. QED
    BY <1>2, <1>10, <2>2
<1>13. ASSUME NEW k \in 0..m PROVE Extends(h[k], h[m])
  <2>1. m \in Nat
    BY <1>1
  <2> HIDE DEF m
  <2>2. QED
    BY <1>11, <1>12, <2>1, ExtendsUpTo DEF V
<1>14. \A q : Later(n, B, q) = h[m - q]
  BY <1>8 DEF Later
<1>15. Later(n, B, n + 1) = <<>>
  <2>1. m - (n + 1) = 0
    BY <1>1
  <2>2. QED
    BY <1>10, <1>14, <2>1
<1>16. ASSUME NEW q \in 0..(n + 1)
       PROVE  Later(n, B, q) \in Seq(Line) /\ Extends(Later(n, B, q), Later(n, B, 0))
  <2>1. m - q \in 0..m /\ m - 0 = m
    BY <1>1
  <2>2. h[m - q] \in Seq(Line) /\ Extends(h[m - q], h[m])
    BY <1>11, <1>13, <2>1 DEF V
  <2>3. QED
    BY <1>14, <2>1, <2>2
<1>17. ASSUME NEW q \in 0..n PROVE Reads(n, B, q)
  <2>1. m - q \in 1..m /\ m - (m - q) = q /\ (m - q) - 1 = m - (q + 1)
    BY <1>1
  <2>2. h[m - q] = WithLine(B, q, h[m - (q + 1)])
    BY <1>10, <2>1
  <2>3. Later(n, B, q) = IF q \in B /\ q + 1 \notin B THEN Append(Later(n, B, q + 1), LineFrom(B, q))
                         ELSE Later(n, B, q + 1)
    BY <1>14, <2>1, <2>2 DEF WithLine
  <2>4. LineFrom(B, q) = <<>> <=> q + 1 \in B
    BY LineFromIs
  <2>5. QED
    BY <2>3, <2>4 DEF Reads, Keep
<1>18. QED
  BY <1>15, <1>16, <1>17

\* Every byte is on a line that is at least as long as what follows the byte.
LEMMA LineHas ==
    ASSUME NEW n, NEW B, Bordered(n, B), NEW q \in 0..n, NEW m \in Nat, EndIn(B, q) - q > m
    PROVE  \E i \in 1..Len(Later(n, B, 0)) : Len(Later(n, B, 0)[i]) > m
<1> DEFINE S == {d \in Nat : d <= q /\ q - d \in B}
<1>1. n \in Nat /\ q \in Nat /\ 0 \in B /\ B \subseteq 0..(n + 1)
  BY DEF Bordered
<1>2. PICK d \in S : \A x \in S : d <= x
  <2>1. S \in SUBSET Nat
    OBVIOUS
  <2>2. q \in S
    BY <1>1
  <2> HIDE DEF S
  <2>3. QED
    BY <2>1, <2>2, LeastNatural
<1>3. PICK b : b = q - d
  OBVIOUS
<1>4. b \in 0..n /\ b \in B /\ b <= q /\ d \in Nat
  BY <1>1, <1>2, <1>3
<1>5. \A x \in B : x > b => x > q
  <2> SUFFICES ASSUME NEW x \in B, x > b, x <= q PROVE FALSE
    BY <1>1, <1>4
  <2>1. x \in Nat
    BY <1>1
  <2>2. q - x \in Nat /\ q - x <= q /\ q - (q - x) = x
    BY <1>1, <2>1
  <2>3. q - x \in S
    BY <2>2
  <2>4. q - x < d
    BY <1>1, <1>3, <1>4, <2>1
  <2>5. QED
    BY <1>2, <1>4, <2>2, <2>3, <2>4
<1>6. PICK e : e = EndIn(B, q)
  OBVIOUS
<1>7. Ends(B, q, e)
  BY <1>6, EndIs
<1>8. Ends(B, b, e)
  BY <1>1, <1>4, <1>5, <1>7 DEF Ends
<1>9. EndIn(B, b) = e
  BY <1>4, <1>8, EndUnique
<1>10. e \in Nat /\ q <= e
  BY <1>7 DEF Ends
<1>11. PICK x : x = LineFrom(B, b)
  OBVIOUS
<1>12. x \in Line /\ Len(x) = e - b
  BY <1>4, <1>9, <1>11, LineFromIs
<1>13. Len(x) > m
  BY <1>1, <1>4, <1>6, <1>10, <1>12
<1>14. x # <<>>
  BY <1>13
<1>15. PICK r : r = Later(n, B, b + 1)
  OBVIOUS
<1>16. PICK s : s = Later(n, B, b)
  OBVIOUS
<1>17. PICK t : t = Later(n, B, 0)
  OBVIOUS
<1>18. Reads(n, B, b)
  BY <1>4, LaterIs
<1>19. s = Append(r, x)
  BY <1>4, <1>11, <1>14, <1>15, <1>16, <1>18 DEF Reads, Keep
<1>20. r \in Seq(Line) /\ s \in Seq(Line) /\ t \in Seq(Line) /\ Extends(s, t)
  <2>1. b \in 0..(n + 1) /\ b + 1 \in 0..(n + 1) /\ 0 \in 0..(n + 1)
    BY <1>1, <1>4
  <2>2. r \in Seq(Line)
    BY <1>15, <2>1, LaterIs
  <2>3. s \in Seq(Line) /\ Extends(s, t)
    BY <1>16, <1>17, <2>1, LaterIs
  <2>4. t \in Seq(Line)
    BY <1>17, <2>1, LaterIs
  <2>5. QED
    BY <2>2, <2>3, <2>4
<1>21. Len(s) \in 1..Len(s) /\ s[Len(s)] = x
  BY <1>19, <1>20
<1>22. Len(s) \in 1..Len(t) /\ t[Len(s)] = x
  BY <1>20, <1>21 DEF Extends
<1>23. QED
  BY <1>13, <1>17, <1>22

-----------------------------------------------------------------------------
(* The scanner.  What it holds of the line at its position is the rest of   *)
(* that line, and the messages found with the lines pending are those that  *)
(* begin later, until the first line is taken as well.                      *)

Walking == [lines : Seq(Line), leftover : Seq(Line), right : Nat]
Scanning == [pos : Nat, leftover : Seq(Line), pending : Seq(Line), err : BOOLEAN]

\* Bytes beyond q of a chunk have been looked at.
Walked(n, B, r, q, w) ==
    /\ w \in Walking /\ q <= w.right /\ w.right <= EndIn(B, q)
    /\ Joined(w.leftover) = Slice(w.right, EndIn(B, q))
    /\ Collected(r, w.lines) = Later(n, B, q + 1)

Midway(n, B, s, r) ==
    /\ Joined(s.leftover) = LineFrom(B, s.pos)
    /\ Collected(r, s.pending) = Later(n, B, s.pos + 1)
AllRead(n, B, s, r) ==
    s.pos = 0 /\ s.pending = <<>> /\ s.leftover = <<>> /\ r = Later(n, B, 0)
TooLong(n, B) == \E i \in 1..Len(Later(n, B, 0)) : Len(Later(n, B, 0)[i]) > MaxLine

ScanOK(n, B, s, r, l) ==
    /\ s \in Scanning /\ s.pos <= n /\ r \in Seq(Line) /\ l \in Nat /\ Len(r) <= l
    /\ Midway(n, B, s, r) \/ AllRead(n, B, s, r)
    /\ s.err => TooLong(n, B)

ScanInv ==
    /\ history.size \in Nat /\ history.newlines \subseteq 1..history.size
    /\ ScanOK(history.size, Borders, scanner, recent, limit)

LEMMA BordersBorder ==
    ASSUME history.size \in Nat, history.newlines \subseteq 1..history.size
    PROVE  /\ Bordered(history.size, Borders)
           /\ \A q \in 1..history.size : q \in Borders <=> q \in history.newlines
<1>1. \A q : q \in Borders <=> q = 0 \/ q = history.size + 1 \/ q \in history.newlines
  BY DEF Borders
<1>2. \A q \in history.newlines : q \in 0..(history.size + 1)
  OBVIOUS
<1>3. 0 \in 0..(history.size + 1) /\ history.size + 1 \in 0..(history.size + 1)
  OBVIOUS
<1>4. Bordered(history.size, Borders)
  BY <1>1, <1>2, <1>3 DEF Bordered
<1>5. \A q \in 1..history.size : q # 0 /\ q # history.size + 1
  OBVIOUS
<1>6. QED
  BY <1>1, <1>4, <1>5

LEMMA LinesFromEndIs ==
    ASSUME history.size \in Nat
    PROVE  LinesFromEnd = Later(history.size, Borders, 0)
<1>1. (history.size + 1) - 0 = history.size + 1
  OBVIOUS
<1>2. Later(history.size, Borders, 0) = (CHOOSE f : LinesBy(f, history.size, Borders))[history.size + 1]
  BY <1>1 DEF Later
<1>3. QED
  BY <1>2 DEF LinesFromEnd, LinesBy, WithLine, LineFrom, LineAfter, EndIn

LEMMA SliceTyped == ASSUME NEW a \in Nat, NEW b \in Nat PROVE Slice(a, b) \in Line
<1>1. CASE a <= b
  BY <1>1, SliceFacts
<1>2. CASE a > b
  <2>1. 1..(b - a) = 1..0
    BY <1>2
  <2>2. Slice(a, b) = [i \in 1..0 |-> a + i]
    BY <2>1 DEF Slice
  <2>3. [i \in 1..0 |-> a + i] \in Seq(Nat)
    BY IsASeq
  <2>4. QED
    BY <2>2, <2>3 DEF Line
<1>3. QED
  BY <1>1, <1>2

LEMMA LookTyped ==
    ASSUME NEW w \in Walking, NEW p \in Nat, p >= 1
    PROVE  Look(w, p) \in Walking
<1>1. p - 1 \in Nat /\ w.right \in Nat /\ w.lines \in Seq(Line) /\ w.leftover \in Seq(Line)
  BY DEF Walking
<1>2. JoinLeftover(Slice(p, w.right), w.leftover) \in Line
  <2>1. Slice(p, w.right) \in Line /\ Joined(w.leftover) \in Line
    BY <1>1, SliceTyped, JoinedIsLine
  <2>2. Slice(p, w.right) \o Joined(w.leftover) \in Line
    BY <2>1, ConcatProperties DEF Line
  <2>3. QED
    BY <2>2, JoinLeftoverIs
<1>3. Append(w.lines, JoinLeftover(Slice(p, w.right), w.leftover)) \in Seq(Line)
  BY <1>1, <1>2
<1>4. <<>> \in Seq(Line)
  OBVIOUS
<1>5. [w EXCEPT !.right = p - 1] \in Walking
  BY <1>1 DEF Walking
<1>6. [lines |-> Append(w.lines, JoinLeftover(Slice(p, w.right), w.leftover)),
       leftover |-> <<>>, right |-> p - 1] \in Walking
  BY <1>1, <1>3, <1>4 DEF Walking
<1>7. QED
  BY <1>5, <1>6 DEF Look

LEMMA LookWalks ==
    ASSUME history.size \in Nat, history.newlines \subseteq 1..history.size,
           NEW r \in Seq(Line), NEW q \in 1..history.size, NEW w,
           Walked(history.size, Borders, r, q, w)
    PROVE  Walked(history.size, Borders, r, q - 1, Look(w, q))
<1>1. PICK n : n = history.size
  OBVIOUS
<1>2. PICK B : B = Borders
  OBVIOUS
<1>3. n \in Nat /\ q \in 1..n /\ Bordered(n, B) /\ (q \in B <=> q \in history.newlines) /\ q - 1 \in 0..n /\ q \in 0..n
  BY <1>1, <1>2, BordersBorder
<1>4. PICK e : e = EndIn(B, q)
  OBVIOUS
<1>5. /\ w \in Walking /\ q <= w.right /\ w.right <= e
      /\ Joined(w.leftover) = Slice(w.right, e)
      /\ Collected(r, w.lines) = Later(n, B, q + 1)
  BY <1>1, <1>2, <1>4 DEF Walked
<1>6. e \in Nat /\ q <= e /\ e <= n
  BY <1>3, <1>4, EndIs DEF Ends
<1>7. w.right \in Nat /\ w.lines \in Seq(Line) /\ w.leftover \in Seq(Line)
  BY <1>5 DEF Walking
<1>8. Later(n, B, q) = IF q \in B THEN Keep(Later(n, B, q + 1), LineFrom(B, q)) ELSE Later(n, B, q + 1)
  BY <1>3, LaterIs DEF Reads
<1>9. EndIn(B, q - 1) = IF q \in B THEN q - 1 ELSE e
  BY <1>3, <1>4, EndMoves
<1>10. (q - 1) + 1 = q /\ q - 1 \in Nat /\ q >= 1 /\ q - 1 <= w.right
  BY <1>3, <1>5, <1>7
<1>11. PICK v : v = Look(w, q)
  OBVIOUS
<1>12. v \in Walking
  BY <1>3, <1>5, <1>10, <1>11, LookTyped
<1>13. Slice(q - 1, q - 1) = <<>> /\ Joined(<<>>) = <<>>
  <2>1. Slice(q - 1, q - 1) = <<>>
    BY <1>10, SliceFacts
  <2>2. <<>> \in Seq(Line)
    OBVIOUS
  <2>3. Joined(<<>>) = <<>>
    BY <2>2, JoinedIsLine
  <2>4. QED
    BY <2>1, <2>3
<1>14. LineFrom(B, q) = Slice(q, w.right) \o Joined(w.leftover)
  <2>1. q \in Nat
    BY <1>3
  <2>2. Slice(q, w.right) \o Slice(w.right, e) = Slice(q, e)
    BY <1>5, <1>6, <1>7, <2>1, SliceJoins
  <2>3. QED
    BY <1>4, <1>5, <2>2 DEF LineFrom
<1>15. Walked(n, B, r, q - 1, v)
  <2>1. CASE q \notin history.newlines
    <3>1. v = w
      BY <1>11, <2>1 DEF Look
    <3>2. EndIn(B, q - 1) = e /\ Later(n, B, (q - 1) + 1) = Later(n, B, q + 1)
      BY <1>3, <1>8, <1>9, <1>10, <2>1
    <3>3. QED
      BY <1>5, <1>10, <3>1, <3>2 DEF Walked
  <2>2. CASE q \in history.newlines /\ Trailing(w, q)
    <3>1. q = n /\ w.right = q /\ Size(w.leftover) = 0
      BY <1>1, <2>2 DEF Trailing
    <3>2. e = n
      BY <1>3, <1>4, <3>1, EndMoves
    <3>3. Joined(w.leftover) = <<>> /\ LineFrom(B, q) = <<>>
      <4>1. Slice(q, q) = <<>>
        BY <1>3, SliceFacts
      <4>2. QED
        BY <1>4, <1>5, <3>1, <3>2, <4>1 DEF LineFrom
    <3>4. v = [w EXCEPT !.right = q - 1]
      BY <1>11, <2>2 DEF Look
    <3>5. v.right = q - 1 /\ v.leftover = w.leftover /\ v.lines = w.lines
      BY <1>5, <3>4 DEF Walking
    <3>6. EndIn(B, q - 1) = q - 1 /\ Later(n, B, (q - 1) + 1) = Later(n, B, q + 1)
      BY <1>3, <1>8, <1>9, <1>10, <2>2, <3>3 DEF Keep
    <3>7. q - 1 <= q - 1
      BY <1>10
    <3>8. Joined(v.leftover) = Slice(v.right, EndIn(B, q - 1))
      BY <1>13, <3>3, <3>5, <3>6
    <3>9. QED
      BY <1>5, <1>12, <3>5, <3>6, <3>7, <3>8 DEF Walked
  <2>3. CASE q \in history.newlines /\ ~Trailing(w, q)
    <3>1. PICK x : x = LineFrom(B, q)
      OBVIOUS
    <3>2. v = [lines |-> Append(w.lines, x), leftover |-> <<>>, right |-> q - 1]
      BY <1>11, <1>14, <2>3, <3>1, JoinLeftoverIs DEF Look
    <3>3. v.right = q - 1 /\ v.leftover = <<>> /\ v.lines = Append(w.lines, x)
      BY <3>2
    <3>4. x \in Line
      BY <1>3, <3>1, LineFromIs
    <3>5. Collected(r, v.lines) = Keep(Later(n, B, q + 1), x)
      BY <1>5, <1>7, <3>3, <3>4, CollectedStep
    <3>6. EndIn(B, q - 1) = q - 1 /\ Later(n, B, (q - 1) + 1) = Keep(Later(n, B, q + 1), x)
      BY <1>3, <1>8, <1>9, <1>10, <2>3, <3>1
    <3>7. q - 1 <= q - 1
      BY <1>10
    <3>8. Joined(v.leftover) = Slice(v.right, EndIn(B, q - 1))
      BY <1>13, <3>3, <3>6
    <3>9. QED
      BY <1>12, <3>3, <3>5, <3>6, <3>7, <3>8 DEF Walked
  <2>4. QED
    BY <2>1, <2>2, <2>3
<1>16. QED
  BY <1>1, <1>2, <1>11, <1>15

\* The bytes of a chunk from its right end, one after another.
ChunkBy(f, c) ==
    f = [k \in 0..(c.to - c.from) |->
            IF k = 0 THEN [lines |-> <<>>, leftover |-> scanner.leftover, right |-> c.to]
            ELSE Look(f[k - 1], c.to - (k - 1))]
ChunkEnd(c) == (CHOOSE f : ChunkBy(f, c))[c.to - c.from]

LEMMA SplitIs ==
    ASSUME NEW c
    PROVE  Split(c) = [lines    |-> ChunkEnd(c).lines,
                       leftover |-> IF ChunkEnd(c).right = c.from THEN ChunkEnd(c).leftover
                                    ELSE Append(ChunkEnd(c).leftover, Slice(c.from, ChunkEnd(c).right))]
  BY DEF Split, ChunkEnd, ChunkBy

LEMMA ChunkWalks ==
    ASSUME ScanInv, NEW r \in Seq(Line), NEW c, c.from \in Nat, c.to \in Nat,
           c.from <= c.to, c.to <= history.size,
           Joined(scanner.leftover) = LineFrom(Borders, c.to),
           r = Later(history.size, Borders, c.to + 1)
    PROVE  Walked(history.size, Borders, r, c.from, ChunkEnd(c))
<1>1. PICK n : n = history.size
  OBVIOUS
<1>2. PICK B : B = Borders
  OBVIOUS
<1>3. n \in Nat /\ history.newlines \subseteq 1..n /\ scanner.leftover \in Seq(Line)
  BY <1>1 DEF ScanInv, ScanOK, Scanning
<1>4. Bordered(n, B)
  BY <1>1, <1>2, <1>3, BordersBorder
<1> DEFINE m == c.to - c.from
           begin == [lines |-> <<>>, leftover |-> scanner.leftover, right |-> c.to]
           g == [ix \in Nat \X Walking |-> IF ix[1] \in 1..m THEN Look(ix[2], c.to - (ix[1] - 1)) ELSE ix[2]]
<1>5. m \in Nat
  OBVIOUS
<1>6. \A k \in 1..m : c.to - (k - 1) \in 1..n /\ (c.to - (k - 1)) - 1 = c.to - k
  BY <1>1, <1>3
<1>7. begin \in Walking
  BY <1>3 DEF Walking
<1>8. \A k \in 1..m, w \in Walking : Look(w, c.to - (k - 1)) \in Walking
  BY <1>6, LookTyped
<1>9. g \in [Nat \X Walking -> Walking]
  BY <1>8
<1>10. ASSUME NEW k \in 1..m, NEW w \in Walking PROVE g[<<k, w>>] = Look(w, c.to - (k - 1))
  <2>1. <<k, w>> \in Nat \X Walking
    BY <1>5
  <2>2. QED
    BY <2>1
<1> HIDE DEF g
<1>11. PICK f : Solves(f, m, Walking, begin, g)
  <2> HIDE DEF m, begin
  <2>1. QED
    BY <1>5, <1>7, <1>9, Recursion
<1>12. f \in [0..m -> Walking] /\ f[0] = begin /\ \A k \in 1..m : f[k] = Look(f[k - 1], c.to - (k - 1))
  <2>1. f \in [0..m -> Walking] /\ f[0] = begin /\ \A k \in 1..m : f[k] = g[<<k, f[k - 1]>>]
    BY <1>11 DEF Solves
  <2>2. \A k \in 1..m : f[k - 1] \in Walking
    BY <1>5, <2>1
  <2>3. QED
    BY <1>10, <2>1, <2>2
<1>13. ChunkBy(f, c)
  <2>1. \A k \in 0..m : f[k] = IF k = 0 THEN begin ELSE Look(f[k - 1], c.to - (k - 1))
    BY <1>5, <1>12
  <2>2. f = [k \in 0..m |-> f[k]]
    BY <1>12
  <2>3. f = [k \in 0..m |-> IF k = 0 THEN begin ELSE Look(f[k - 1], c.to - (k - 1))]
    BY <2>1, <2>2
  <2>4. QED
    BY <2>3 DEF ChunkBy
<1>14. PICK h : h = CHOOSE hh : ChunkBy(hh, c)
  OBVIOUS
<1>15. ChunkBy(h, c) /\ ChunkEnd(c) = h[m]
  BY <1>13, <1>14 DEF ChunkEnd
<1>16. h[0] = begin /\ \A k \in 1..m : h[k] = Look(h[k - 1], c.to - (k - 1))
  BY <1>5, <1>15 DEF ChunkBy
<1>17. Walked(n, B, r, c.to, begin)
  <2>1. PICK e : e = EndIn(B, c.to)
    OBVIOUS
  <2>2. c.to \in 0..n
    BY <1>1
  <2>3. c.to <= e
    BY <1>4, <2>1, <2>2, EndIs DEF Ends
  <2>4. begin.right = c.to /\ begin.leftover = scanner.leftover /\ begin.lines = <<>>
    OBVIOUS
  <2>5. <<>> \in Seq(Line)
    OBVIOUS
  <2>6. Collected(r, <<>>) = r
    BY <2>5, CollectedExtends
  <2> HIDE DEF begin
  <2>7. Joined(begin.leftover) = Slice(begin.right, e)
    BY <1>2, <2>1, <2>4 DEF LineFrom
  <2>8. QED
    BY <1>1, <1>2, <1>7, <2>1, <2>3, <2>4, <2>6, <2>7 DEF Walked
<1>18. \A k \in 0..m : Walked(n, B, r, c.to - k, h[k])
  <2> DEFINE S == {k \in Nat : k <= m => Walked(n, B, r, c.to - k, h[k])}
  <2>1. 0 \in S
    <3>1. c.to - 0 = c.to
      OBVIOUS
    <3>2. QED
      BY <1>16, <1>17, <3>1
  <2>2. ASSUME NEW k \in S, k < m PROVE k + 1 \in S
    <3>1. k + 1 \in 1..m /\ (k + 1) - 1 = k /\ k + 1 \in Nat
      BY <1>5, <2>2
    <3>2. c.to - k \in 1..n /\ (c.to - k) - 1 = c.to - (k + 1)
      BY <1>1, <1>3, <2>2
    <3>3. Walked(n, B, r, c.to - k, h[k])
      BY <2>2, <3>1
    <3>4. Walked(n, B, r, (c.to - k) - 1, Look(h[k], c.to - k))
      BY <1>1, <1>2, <1>3, <3>2, <3>3, LookWalks
    <3>5. h[k + 1] = Look(h[(k + 1) - 1], c.to - ((k + 1) - 1))
      BY <1>16, <3>1
    <3>6. h[k + 1] = Look(h[k], c.to - k)
      BY <3>1, <3>5
    <3>7. Walked(n, B, r, c.to - (k + 1), h[k + 1])
      BY <3>2, <3>4, <3>6
    <3>8. QED
      BY <3>1, <3>7
  <2>3. S \in SUBSET Nat
    OBVIOUS
  <2>4. 0..m \subseteq S
    <3> HIDE DEF S, m
    <3>1. QED
      BY <1>5, <2>1, <2>2, <2>3, UpTo
  <2>5. QED
    BY <2>4
<1>19. m \in 0..m /\ c.to - m = c.from
  BY <1>5
<1>20. QED
  BY <1>1, <1>2, <1>15, <1>18, <1>19

LEMMA ScanStarts == ScanInit => ScanInv
<1> SUFFICES ASSUME ScanInit PROVE ScanInv
  OBVIOUS
<1>1. history.size \in Nat /\ history.newlines \subseteq 1..history.size
  <2>1. PICK n \in 0..MaxFile, nl \in SUBSET (1..MaxFile) :
          nl \subseteq 1..n /\ history = [size |-> n, newlines |-> nl]
    BY DEF ScanInit
  <2>2. n \in Nat /\ history.size = n /\ history.newlines = nl
    BY <2>1, ScanAssumption
  <2>3. QED
    BY <2>1, <2>2
<1>2. /\ scanner = [pos |-> history.size, leftover |-> <<>>, pending |-> <<>>, err |-> FALSE]
      /\ recent = <<>> /\ limit \in Nat
  BY ScanAssumption DEF ScanInit
<1>3. PICK n : n = history.size
  OBVIOUS
<1>4. PICK B : B = Borders
  OBVIOUS
<1>5. n \in Nat /\ n \in 0..n /\ Bordered(n, B)
  BY <1>1, <1>3, <1>4, BordersBorder
<1>6. <<>> \in Seq(Line)
  OBVIOUS
<1>7. scanner \in Scanning
  BY <1>2, <1>3, <1>5, <1>6 DEF Scanning
<1>8. scanner.pos = n /\ scanner.leftover = <<>> /\ scanner.pending = <<>> /\ scanner.err = FALSE
  BY <1>2, <1>3
<1>9. Joined(<<>>) = <<>> /\ Collected(<<>>, <<>>) = <<>>
  <2>1. Joined(<<>>) = <<>>
    BY <1>6, JoinedIsLine
  <2>2. Collected(<<>>, <<>>) = <<>>
    BY <1>6, CollectedExtends
  <2>3. QED
    BY <2>1, <2>2
<1>10. LineFrom(B, n) = <<>> /\ Later(n, B, n + 1) = <<>>
  <2>1. EndIn(B, n) = n /\ Slice(n, n) = <<>>
    BY <1>5, EndMoves, SliceFacts
  <2>2. Later(n, B, n + 1) = <<>>
    BY <1>5, LaterIs
  <2>3. QED
    BY <2>1, <2>2 DEF LineFrom
<1>11. Midway(n, B, scanner, recent)
  BY <1>2, <1>8, <1>9, <1>10 DEF Midway
<1>12. Len(recent) <= limit /\ recent \in Seq(Line)
  BY <1>2, <1>6
<1>13. ScanOK(n, B, scanner, recent, limit)
  BY <1>2, <1>5, <1>7, <1>8, <1>11, <1>12 DEF ScanOK
<1>14. QED
  BY <1>1, <1>3, <1>4, <1>13 DEF ScanInv

\* What every step finds, and what it must leave.
LEMMA ScanMoves ==
    ASSUME ScanInv, UNCHANGED <<history, limit>>, NEW s, NEW r, scanner' = s, recent' = r,
           ScanOK(history.size, Borders, s, r, limit)
    PROVE  ScanInv'
<1>1. Borders' = Borders
  BY DEF Borders
<1>2. history.size \in Nat /\ history.newlines \subseteq 1..history.size
  BY DEF ScanInv
<1>3. QED
  BY <1>1, <1>2 DEF ScanInv

\* A line more, if there is one.
LEMMA CollectIs ==
    ASSUME NEW r \in Seq(Line), NEW x \in Line, NEW l \in Nat, Len(r) < l
    PROVE  Keep(r, x) \in Seq(Line) /\ Len(Keep(r, x)) <= l
  BY DEF Keep

LEMMA PendingStep == ASSUME ScanInv, NextPending, UNCHANGED <<history, limit>> PROVE ScanInv'
<1>1. PICK n : n = history.size
  OBVIOUS
<1>2. PICK B : B = Borders
  OBVIOUS
<1>3. ScanOK(n, B, scanner, recent, limit)
  BY <1>1, <1>2 DEF ScanInv
<1>4. /\ scanner \in Scanning /\ scanner.pos <= n /\ recent \in Seq(Line) /\ limit \in Nat
      /\ scanner.err => TooLong(n, B)
  BY <1>3 DEF ScanOK
<1>5. scanner.pending # <<>> /\ scanner.pending \in Seq(Line) /\ Len(recent) < limit
  BY <1>4 DEF NextPending, Reading, Scanning
<1>6. Midway(n, B, scanner, recent)
  BY <1>3, <1>5 DEF ScanOK, AllRead
<1>7. PICK r : r = Keep(recent, Head(scanner.pending))
  OBVIOUS
<1>8. PICK ps : ps = Tail(scanner.pending)
  OBVIOUS
<1>9. PICK s : s = [scanner EXCEPT !.pending = ps]
  OBVIOUS
<1>10. recent' = r /\ scanner' = s
  BY <1>7, <1>8, <1>9 DEF NextPending, Collect, Keep
<1>11. Head(scanner.pending) \in Line /\ ps \in Seq(Line) /\ Collected(r, ps) = Collected(recent, scanner.pending)
  BY <1>4, <1>5, <1>7, <1>8, CollectedHead
<1>12. r \in Seq(Line) /\ Len(r) <= limit
  BY <1>4, <1>5, <1>7, <1>11, CollectIs
<1>13. s \in Scanning /\ s.pos = scanner.pos /\ s.leftover = scanner.leftover /\ s.pending = ps
       /\ s.err = scanner.err
  BY <1>4, <1>9, <1>11 DEF Scanning
<1>14. Midway(n, B, s, r)
  BY <1>6, <1>11, <1>13 DEF Midway
<1>15. ScanOK(n, B, s, r, limit)
  BY <1>4, <1>12, <1>13, <1>14 DEF ScanOK
<1>16. QED
  BY <1>1, <1>2, <1>10, <1>15, ScanMoves

LEMMA FirstLineStep == ASSUME ScanInv, FirstLine, UNCHANGED <<history, limit>> PROVE ScanInv'
<1>1. PICK n : n = history.size
  OBVIOUS
<1>2. PICK B : B = Borders
  OBVIOUS
<1>3. ScanOK(n, B, scanner, recent, limit) /\ Bordered(n, B) /\ n \in Nat
  BY <1>1, <1>2, BordersBorder DEF ScanInv
<1>4. /\ scanner \in Scanning /\ recent \in Seq(Line) /\ limit \in Nat
      /\ scanner.err => TooLong(n, B)
  BY <1>3 DEF ScanOK
<1>5. /\ scanner.pending = <<>> /\ scanner.pos = 0 /\ scanner.leftover # <<>>
      /\ scanner.leftover \in Seq(Line) /\ Len(recent) < limit
  BY <1>4 DEF FirstLine, Reading, Scanning
<1>6. Midway(n, B, scanner, recent)
  BY <1>3, <1>5 DEF ScanOK, AllRead
<1>7. PICK x : x = Joined(scanner.leftover)
  OBVIOUS
<1>8. x \in Line /\ x = LineFrom(B, 0)
  <2>1. x \in Line
    BY <1>5, <1>7, JoinedIsLine
  <2>2. QED
    BY <1>5, <1>6, <1>7, <2>1 DEF Midway
<1>9. JoinLeftover(<<>>, scanner.leftover) = x
  BY <1>7, <1>8, JoinLeftoverIs, ConcatEmptySeq DEF Line
<1>10. PICK r : r = Keep(recent, x)
  OBVIOUS
<1>11. PICK s : s = [scanner EXCEPT !.leftover = <<>>]
  OBVIOUS
<1>12. recent' = r /\ scanner' = s
  BY <1>9, <1>10, <1>11 DEF FirstLine, Collect, Keep
<1>13. r \in Seq(Line) /\ Len(r) <= limit
  BY <1>4, <1>5, <1>8, <1>10, CollectIs
<1>14. <<>> \in Seq(Line)
  OBVIOUS
<1>15. s \in Scanning /\ s.pos = 0 /\ s.leftover = <<>> /\ s.pending = <<>> /\ s.err = scanner.err
  BY <1>4, <1>5, <1>11, <1>14 DEF Scanning
<1>16. recent = Later(n, B, 0 + 1)
  BY <1>4, <1>5, <1>6, <1>14, CollectedExtends DEF Midway
<1>17. r = Later(n, B, 0)
  <2>1. 0 \in 0..n /\ 0 \in B
    BY <1>3 DEF Bordered
  <2>2. Reads(n, B, 0)
    BY <1>3, <2>1, LaterIs
  <2>3. QED
    BY <1>8, <1>10, <1>16, <2>1, <2>2 DEF Reads
<1>18. AllRead(n, B, s, r)
  BY <1>15, <1>17 DEF AllRead
<1>19. ScanOK(n, B, s, r, limit)
  BY <1>3, <1>4, <1>13, <1>15, <1>18 DEF ScanOK
<1>20. QED
  BY <1>1, <1>2, <1>12, <1>19, ScanMoves

LEMMA ReadChunkStep == ASSUME ScanInv, ReadChunk, UNCHANGED <<history, limit>> PROVE ScanInv'
<1>1. PICK n : n = history.size
  OBVIOUS
<1>2. PICK B : B = Borders
  OBVIOUS
<1>3. ScanOK(n, B, scanner, recent, limit) /\ Bordered(n, B) /\ n \in Nat
  BY <1>1, <1>2, BordersBorder DEF ScanInv
<1>4. scanner \in Scanning /\ scanner.pos <= n /\ recent \in Seq(Line) /\ limit \in Nat
  BY <1>3 DEF ScanOK
<1>5. /\ scanner.pending = <<>> /\ scanner.pos > 0 /\ scanner.pos \in Nat /\ Len(recent) < limit
  BY <1>4 DEF ReadChunk, Reading, Scanning
<1>6. Midway(n, B, scanner, recent)
  BY <1>3, <1>5 DEF ScanOK, AllRead
<1>7. PICK c : c = Chunk
  OBVIOUS
<1>8. c.from \in Nat /\ c.to = scanner.pos /\ c.from <= c.to
  BY <1>5, <1>7, ScanAssumption DEF Chunk
<1>9. <<>> \in Seq(Line)
  OBVIOUS
<1>10. recent = Later(n, B, c.to + 1) /\ Joined(scanner.leftover) = LineFrom(B, c.to)
  BY <1>4, <1>5, <1>6, <1>8, <1>9, CollectedExtends DEF Midway
<1>11. PICK w : w = ChunkEnd(c)
  OBVIOUS
<1>12. Walked(n, B, recent, c.from, w)
  BY <1>1, <1>2, <1>4, <1>5, <1>8, <1>10, <1>11, ChunkWalks
<1>13. PICK e : e = EndIn(B, c.from)
  OBVIOUS
<1>14. /\ w \in Walking /\ c.from <= w.right /\ w.right <= e
       /\ Joined(w.leftover) = Slice(w.right, e)
       /\ Collected(recent, w.lines) = Later(n, B, c.from + 1)
  BY <1>12, <1>13 DEF Walked
<1>15. w.right \in Nat /\ w.leftover \in Seq(Line) /\ w.lines \in Seq(Line)
  BY <1>14 DEF Walking
<1>16. c.from \in 0..n
  BY <1>3, <1>4, <1>5, <1>8
<1>17. e \in Nat
  BY <1>3, <1>13, <1>16, EndIs DEF Ends
<1>18. PICK lo : lo = IF w.right = c.from THEN w.leftover ELSE Append(w.leftover, Slice(c.from, w.right))
  OBVIOUS
<1>19. lo \in Seq(Line) /\ Joined(lo) = Slice(c.from, e)
  <2>1. CASE w.right = c.from
    BY <1>14, <1>15, <1>18, <2>1
  <2>2. CASE w.right # c.from
    <3>1. Slice(c.from, w.right) \in Line
      BY <1>8, <1>15, SliceTyped
    <3>2. lo \in Seq(Line) /\ Joined(lo) = Slice(c.from, w.right) \o Joined(w.leftover)
      BY <1>15, <1>18, <2>2, <3>1, JoinedStep
    <3>3. Slice(c.from, w.right) \o Slice(w.right, e) = Slice(c.from, e)
      BY <1>8, <1>14, <1>15, <1>17, SliceJoins
    <3>4. QED
      BY <1>14, <3>2, <3>3
  <2>3. QED
    BY <2>1, <2>2
<1>20. Split(c) = [lines |-> w.lines, leftover |-> lo]
  BY <1>11, <1>18, SplitIs
<1>21. PICK s : s = [pos |-> c.from, leftover |-> lo, pending |-> w.lines, err |-> Size(lo) > MaxLine]
  OBVIOUS
<1>22. scanner' = s /\ recent' = recent
  BY <1>7, <1>20, <1>21 DEF ReadChunk
<1>23. s.pos = c.from /\ s.leftover = lo /\ s.pending = w.lines /\ s.err = (Size(lo) > MaxLine)
  BY <1>21
<1>24. s \in Scanning
  <2>1. (Size(lo) > MaxLine) \in BOOLEAN
    OBVIOUS
  <2>2. QED
    BY <1>8, <1>15, <1>19, <1>21, <2>1 DEF Scanning
<1>25. Midway(n, B, s, recent)
  BY <1>13, <1>14, <1>19, <1>23 DEF Midway, LineFrom
<1>26. ASSUME s.err PROVE TooLong(n, B)
  <2>1. Size(lo) = Len(Slice(c.from, e))
    <3>1. Slice(c.from, e) \in Line
      BY <1>8, <1>17, SliceTyped
    <3>2. <<>> \o Slice(c.from, e) = Slice(c.from, e)
      BY <3>1, ConcatEmptySeq DEF Line
    <3>3. QED
      BY <1>19, <3>2, JoinLeftoverIs DEF Size
  <2>2. c.from <= e
    BY <1>8, <1>14, <1>15, <1>17
  <2>3. Len(Slice(c.from, e)) = e - c.from
    BY <1>8, <1>17, <2>2, SliceFacts
  <2>4. MaxLine \in Nat /\ EndIn(B, c.from) - c.from > MaxLine
    BY <1>13, <1>23, <1>26, <2>1, <2>3, ScanAssumption
  <2>5. QED
    BY <1>3, <1>16, <2>4, LineHas DEF TooLong
<1>27. ScanOK(n, B, s, recent, limit)
  BY <1>3, <1>4, <1>5, <1>16, <1>23, <1>24, <1>25, <1>26 DEF ScanOK
<1>28. QED
  BY <1>1, <1>2, <1>22, <1>27, ScanMoves

LEMMA ScanTold == ScanInv => TailExact
<1> SUFFICES ASSUME ScanInv PROVE TailExact
  OBVIOUS
<1>1. PICK n : n = history.size
  OBVIOUS
<1>2. PICK B : B = Borders
  OBVIOUS
<1>3. ScanOK(n, B, scanner, recent, limit) /\ Bordered(n, B) /\ n \in Nat
  BY <1>1, <1>2, BordersBorder DEF ScanInv
<1>4. PICK t : t = LinesFromEnd
  OBVIOUS
<1>5. t = Later(n, B, 0)
  BY <1>1, <1>2, <1>3, <1>4, LinesFromEndIs
<1>6. /\ scanner \in Scanning /\ scanner.pos <= n /\ recent \in Seq(Line) /\ limit \in Nat
      /\ Len(recent) <= limit /\ (scanner.err => TooLong(n, B))
      /\ Midway(n, B, scanner, recent) \/ AllRead(n, B, scanner, recent)
  BY <1>3 DEF ScanOK
<1>7. scanner.pos \in Nat /\ scanner.pending \in Seq(Line)
  BY <1>6 DEF Scanning
<1>8. 0 \in 0..n /\ 0 \in 0..(n + 1) /\ 0 \in B /\ scanner.pos + 1 \in 0..(n + 1)
  BY <1>3, <1>6, <1>7 DEF Bordered
<1>9. t \in Seq(Line)
  BY <1>3, <1>5, <1>8, LaterIs
<1>10. <<>> \in Seq(Line)
  OBVIOUS
<1>11. Extends(recent, t)
  <2>1. CASE AllRead(n, B, scanner, recent)
    BY <1>5, <2>1 DEF AllRead, Extends
  <2>2. CASE Midway(n, B, scanner, recent)
    <3>1. PICK u : u = Collected(recent, scanner.pending)
      OBVIOUS
    <3>2. u \in Seq(Line) /\ Extends(recent, u)
      BY <1>6, <1>7, <3>1, CollectedExtends
    <3>3. u = Later(n, B, scanner.pos + 1)
      BY <2>2, <3>1 DEF Midway
    <3>4. Extends(u, t)
      BY <1>3, <1>5, <1>8, <3>3, LaterIs
    <3>5. QED
      BY <1>6, <1>9, <3>2, <3>4, ExtendsChain
  <2>3. QED
    BY <1>6, <2>1, <2>2
<1>12. Seqs!IsPrefix(recent, t)
  <2>1. Len(recent) <= Len(t) /\ \A i \in 1..Len(recent) : recent[i] = t[i]
    BY <1>11 DEF Extends
  <2>2. SubSeq(recent, 1, Len(recent)) = SubSeq(t, 1, Len(recent))
    BY <1>6, <1>9, <2>1
  <2>3. QED
    BY <2>1, <2>2 DEF Seqs!IsPrefix
<1>13. ASSUME ScanDone, ~scanner.err PROVE Len(recent) = limit \/ recent = t
  <2>1. CASE ~Reading
    <3>1. ~(Len(recent) < limit)
      BY <1>13, <2>1 DEF Reading
    <3>2. QED
      BY <1>6, <3>1
  <2>2. CASE Over /\ Midway(n, B, scanner, recent)
    <3>1. scanner.pos = 0 /\ scanner.pending = <<>> /\ scanner.leftover = <<>>
      BY <2>2 DEF Over
    <3>2. Joined(<<>>) = <<>> /\ Collected(recent, <<>>) = recent
      <4>1. Joined(<<>>) = <<>>
        BY <1>10, JoinedIsLine
      <4>2. Collected(recent, <<>>) = recent
        BY <1>6, <1>10, CollectedExtends
      <4>3. QED
        BY <4>1, <4>2
    <3>3. LineFrom(B, 0) = <<>> /\ Later(n, B, 0 + 1) = recent
      BY <2>2, <3>1, <3>2 DEF Midway
    <3>4. Reads(n, B, 0)
      BY <1>3, <1>8, LaterIs
    <3>5. QED
      BY <1>5, <1>8, <3>3, <3>4 DEF Reads, Keep
  <2>3. CASE AllRead(n, B, scanner, recent)
    BY <1>5, <2>3 DEF AllRead
  <2>4. QED
    BY <1>6, <1>13, <2>1, <2>2, <2>3 DEF ScanDone
<1>14. ASSUME scanner.err PROVE \E i \in DOMAIN t : Len(t[i]) > MaxLine
  <2>1. DOMAIN t = 1..Len(t)
    BY <1>9
  <2>2. QED
    BY <1>5, <1>6, <1>14, <2>1 DEF TooLong
<1>15. QED
  BY <1>4, <1>12, <1>13, <1>14 DEF TailExact

\* The invariant holds throughout.
LEMMA ScanHolds == Spec => []ScanInv
<1>1. Init => ScanInv
  BY ScanStarts DEF Init
<1>2. ScanInv /\ [Next]_vars => ScanInv'
  <2> SUFFICES ASSUME ScanInv, [Next]_vars PROVE ScanInv'
    OBVIOUS
  <2>1. ScanNext \/ UNCHANGED scanVars
    BY DEF Next, vars, Rest
  <2>2. CASE UNCHANGED scanVars
    BY <2>2 DEF scanVars, ScanInv, Borders
  <2>3. CASE ScanNext
    BY <2>3, PendingStep, FirstLineStep, ReadChunkStep DEF ScanNext
  <2>4. QED
    BY <2>1, <2>2, <2>3
<1>3. QED
  BY <1>1, <1>2, PTL DEF Spec

\* The messages that are read are the last ones of the history, whole and in
\* their order, for histories, chunks and limits of any size
\* (ReverseScanner.Scan, ReadRecentMessages).
THEOREM HistoryTailStaysExact == Spec => []TailExact
  BY ScanHolds, ScanTold, PTL
=============================================================================
