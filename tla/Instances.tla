----------------------------- MODULE Instances -----------------------------
(***************************************************************************)
(* Instances and their agents on disk (instances/store.go), and the        *)
(* requests of the dashboard that change them (dashboard/instances_api.go, *)
(* instances_canonical.go).  An instance is a directory with a manifest    *)
(* and a directory per agent; a request writes it file by file, and a      *)
(* failure or the end of the process may leave it half written.  Requests  *)
(* are taken one at a time; runs, which set up the default instance when   *)
(* they cannot resolve theirs, come in between.  An agent counts as enabled *)
(* in a manifest when the configuration names it, if only with a profile.  *)
(***************************************************************************)
EXTENDS Fleet

CONSTANTS
  InstanceIds,
  DefaultInstance,
  LegacyAgents,  (* agents with a directory from before there were instances *)
  LegacyEnabled, (* agents the old configuration enables                     *)
  LegacyDefaults (* agents the old configuration may name as its default     *)

ASSUME InstancesAssumption ==
    /\ DefaultInstance \in InstanceIds /\ None \notin InstanceIds
    /\ LegacyAgents \subseteq Agents /\ LegacyEnabled \subseteq Agents
    /\ LegacyDefaults \in SUBSET Agents \ {{}}
    /\ None \notin [default : Agents, enabled : SUBSET Agents]

VARIABLES
  manifest,      (* per instance, None or its default agent and its enabled agents *)
  agentDirs,     (* per instance, the agents that have a manifest           *)
  active,        (* the instance active.json names, None without the file   *)
  admin,         (* the request being served                                *)
  broken         (* instances left incomplete: a write of a request failed, *)
                 (* or a bootstrap named a default agent it did not make    *)

instanceVars == <<manifest, agentDirs, active, admin, broken>>

NoRequest == [pc |-> "idle"]
Manifest(d, D) == [default |-> d, enabled |-> D]

InstanceInit ==
    /\ manifest = [i \in InstanceIds |-> None] /\ agentDirs = [i \in InstanceIds |-> {}]
    /\ active = None /\ admin = NoRequest /\ broken = {}

ActiveInstance == IF active = None THEN DefaultInstance ELSE active
Exists(i) == manifest[i] # None

\* The agents the projection of an instance into a configuration names.
Projected(i) == manifest[i].enabled \cup agentDirs[i]

-----------------------------------------------------------------------------
(* saveProjectedInstance: the manifest, then every agent the configuration *)
(* names, then the agents found before that it does not name.              *)

\* Mutant of Save: only the agents the configuration lists are written.
SaveListed(i, d, D, activate) ==
    /\ admin.pc = "idle"
    /\ admin' = [pc |-> "manifest", instance |-> i, manifest |-> Manifest(d, D \cup {d}),
                 save |-> D, drop |-> {}, activate |-> activate]
    /\ UNCHANGED <<manifest, agentDirs, active, broken>> /\ NoFault

Save(i, d, D, activate) ==
    /\ admin.pc = "idle"
    /\ admin' = [pc |-> "manifest", instance |-> i, manifest |-> Manifest(d, D \cup {d}),
                 save |-> D \cup {d}, drop |-> {}, activate |-> activate]
    /\ UNCHANGED <<manifest, agentDirs, active, broken>> /\ NoFault

\* SaveInstanceManifest, roles, channels, skills; then ListAgents.
WriteManifest ==
    /\ admin.pc = "manifest"
    /\ LET i == admin.instance IN
         /\ manifest' = [manifest EXCEPT ![i] = admin.manifest]
         /\ admin' = [admin EXCEPT !.pc = "agents", !.drop = agentDirs[i] \ admin.save]
    /\ UNCHANGED <<agentDirs, active, broken>> /\ NoFault

WriteAgent(a) ==
    /\ admin.pc = "agents" /\ a \in admin.save
    /\ agentDirs' = [agentDirs EXCEPT ![admin.instance] = @ \cup {a}]
    /\ admin' = [admin EXCEPT !.save = @ \ {a}]
    /\ UNCHANGED <<manifest, active, broken>> /\ NoFault

DropAgent(a) ==
    /\ admin.pc = "agents" /\ admin.save = {} /\ a \in admin.drop
    /\ agentDirs' = [agentDirs EXCEPT ![admin.instance] = @ \ {a}]
    /\ admin' = [admin EXCEPT !.drop = @ \ {a}]
    /\ UNCHANGED <<manifest, active, broken>> /\ NoFault

\* All is written; "from current" makes the instance active if none is.
FinishSave ==
    /\ admin.pc = "agents" /\ admin.save = {} /\ admin.drop = {}
    /\ active' = IF admin.activate /\ active = None THEN admin.instance ELSE active
    /\ broken' = broken \ {admin.instance}
    /\ admin' = NoRequest
    /\ UNCHANGED <<manifest, agentDirs>> /\ NoFault

\* A write fails, or the process ends.
RequestFails ==
    /\ admin.pc # "idle" /\ Fault
    /\ broken' = IF admin.pc = "manifest" THEN broken ELSE broken \cup {admin.instance}
    /\ admin' = NoRequest
    /\ UNCHANGED <<manifest, agentDirs, active>>

-----------------------------------------------------------------------------
(* The requests.                                                           *)

CreateInstance(i) == ~Exists(i) /\ \E d \in Agents, D \in SUBSET Agents : Save(i, d, D, FALSE)

BootstrapFromCurrent(i) ==
    ~Exists(i) /\ \E d \in Agents, D \in SUBSET Agents : Save(i, d, D, TRUE)

CloneInstance(i, j) ==
    /\ Exists(i) /\ ~Exists(j)
    /\ Save(j, manifest[i].default, Projected(i), FALSE)

UpdateInstance(i) == Exists(i) /\ \E d \in Agents, D \in SUBSET Agents : Save(i, d, D, FALSE)

\* createInstanceAgent and updateInstanceAgent.
PersistInstanceAgent(i, a) ==
    Exists(i) /\ Save(i, manifest[i].default, Projected(i) \cup {a}, FALSE)

\* The wizard: an instance by a template, of which the chat assistant's lets the
\* operator name the default agent, and an agent that is not there yet.
TemplateDefaults(template) == IF template = "chat-assistant" THEN Agents ELSE {Default}
WizardInstance(i) ==
    ~Exists(i) /\ \E t \in {"chat-assistant", "automation"} :
                      \E d \in TemplateDefaults(t) : Save(i, d, {}, FALSE)
WizardAgent(i, a) == a \notin agentDirs[i] /\ PersistInstanceAgent(i, a)

\* The directory goes first.  A default agent that is deleted stays the
\* default, so the save that follows writes it anew.
DeleteInstanceAgent(i, a) ==
    /\ admin.pc = "idle" /\ a \in agentDirs[i]
    /\ agentDirs' = [agentDirs EXCEPT ![i] = @ \ {a}]
    /\ IF Exists(i)
       THEN LET d == manifest[i].default
                D == (Projected(i) \ {a}) \cup {d}
            IN /\ admin' = [pc |-> "manifest", instance |-> i, manifest |-> Manifest(d, D),
                            save |-> D, drop |-> {}, activate |-> FALSE]
               /\ broken' = IF a = d THEN broken \cup {i} ELSE broken
       ELSE UNCHANGED <<admin, broken>>
    /\ UNCHANGED <<manifest, active>> /\ NoFault

\* Mutant of DeleteInstance: the active instance is not looked up.
DeleteAny(i) ==
    /\ admin.pc = "idle"
    /\ manifest' = [manifest EXCEPT ![i] = None]
    /\ agentDirs' = [agentDirs EXCEPT ![i] = {}] /\ broken' = broken \ {i}
    /\ UNCHANGED <<active, admin>> /\ NoFault

DeleteInstance(i) ==
    /\ admin.pc = "idle" /\ i # ActiveInstance
    /\ manifest' = [manifest EXCEPT ![i] = None]
    /\ agentDirs' = [agentDirs EXCEPT ![i] = {}] /\ broken' = broken \ {i}
    /\ UNCHANGED <<active, admin>> /\ NoFault

\* RemoveAll gets only so far.
DeleteInstanceFails(i) ==
    /\ admin.pc = "idle" /\ i # ActiveInstance /\ Exists(i) /\ Fault
    /\ \E m \in {manifest[i], None}, A \in SUBSET agentDirs[i] :
         manifest' = [manifest EXCEPT ![i] = m] /\ agentDirs' = [agentDirs EXCEPT ![i] = A]
    /\ broken' = broken \cup {i}
    /\ UNCHANGED <<active, admin>>

ActivateInstance(i) ==
    /\ admin.pc = "idle" /\ Exists(i)
    /\ active' = i
    /\ UNCHANGED <<manifest, agentDirs, admin, broken>> /\ NoFault

-----------------------------------------------------------------------------
(* A run or a request names an instance (or none) and an agent (or none).  *)

Resolves(i, a) ==
    LET j == IF i = None THEN ActiveInstance ELSE i
        b == IF a = None THEN manifest[j].default ELSE a
    IN Exists(j) /\ b \in agentDirs[j]

\* The agents a bootstrap makes have a legacy directory; only if there is none
\* is it the agent "default".  Whom the manifest names as its default agent is
\* for the old configuration to say.
BootstrapAgents   == IF LegacyAgents = {} THEN {Default} ELSE LegacyAgents
LegacyManifest(d) == Manifest(d, LegacyEnabled \cup {d})

\* Whatever does not resolve, the default instance is completed and becomes
\* the active one; then it is tried again.
BootstrapDefaultInstance(i, a) ==
    /\ ~Resolves(i, a)
    /\ agentDirs' = [agentDirs EXCEPT ![DefaultInstance] = @ \cup BootstrapAgents]
    /\ IF Exists(DefaultInstance)
       THEN UNCHANGED <<manifest, broken>>
       ELSE \E d \in LegacyDefaults :
              /\ manifest' = [manifest EXCEPT ![DefaultInstance] = LegacyManifest(d)]
              /\ broken' = IF d \in agentDirs'[DefaultInstance] THEN broken
                           ELSE broken \cup {DefaultInstance}
    /\ active' = DefaultInstance
    /\ UNCHANGED admin /\ NoFault

\* It fails after the manifest: some agents are made, or none, and it is not active.
BootstrapFails(i, a) ==
    /\ ~Resolves(i, a) /\ ~Exists(DefaultInstance) /\ Fault
    /\ \E d \in LegacyDefaults :
         manifest' = [manifest EXCEPT ![DefaultInstance] = LegacyManifest(d)]
    /\ \E A \in SUBSET BootstrapAgents :
         agentDirs' = [agentDirs EXCEPT ![DefaultInstance] = @ \cup A]
    /\ broken' = broken \cup {DefaultInstance}
    /\ UNCHANGED <<active, admin>>

InstanceNext ==
    \/ \E i \in InstanceIds :
         \/ CreateInstance(i) \/ BootstrapFromCurrent(i) \/ UpdateInstance(i)
         \/ DeleteInstance(i) \/ DeleteInstanceFails(i) \/ ActivateInstance(i)
         \/ \E j \in InstanceIds : CloneInstance(i, j)
         \/ \E a \in Agents : PersistInstanceAgent(i, a) \/ DeleteInstanceAgent(i, a)
         \/ WizardInstance(i) \/ \E a \in Agents : WizardAgent(i, a)
    \/ WriteManifest \/ FinishSave \/ RequestFails
    \/ \E a \in Agents : WriteAgent(a) \/ DropAgent(a)
    \/ \E i \in InstanceIds \cup {None}, a \in Agents \cup {None} :
         BootstrapDefaultInstance(i, a) \/ BootstrapFails(i, a)

-----------------------------------------------------------------------------
InstanceTypeOK ==
    /\ \A i \in InstanceIds :
         Exists(i) => manifest[i] \in [default : Agents, enabled : SUBSET Agents]
    /\ agentDirs \in [InstanceIds -> SUBSET Agents]
    /\ active \in InstanceIds \cup {None} /\ broken \subseteq InstanceIds

\* The instance active.json names exists, and an instance has its default
\* agent, so that a run that names nothing finds one to run as: whatever
\* requests were cut short before on other instances, and whenever runs set up
\* the default instance in between.  Incomplete may be only what a failed write
\* left so, or a bootstrap from a configuration whose default agent has no
\* legacy directory, until a request saves that instance as a whole.
InstancesUsable ==
    /\ active # None => Exists(active)
    /\ \A i \in InstanceIds \ broken :
         Exists(i) /\ ~(admin.pc = "agents" /\ admin.instance = i) => manifest[i].default \in agentDirs[i]
=============================================================================
