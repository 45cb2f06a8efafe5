------------------------------ MODULE Settings ------------------------------
(***************************************************************************)
(* The two files the whole fleet is configured by: config.json             *)
(* (config/config.go, config/atomic.go) and capabilities.json              *)
(* (policy/grants.go).  Tools, dashboard requests and the command line     *)
(* change them by reading all of a file and writing all of it, without a   *)
(* lock.  Of a configuration only the two fields are kept that Validate    *)
(* relates to each other, commands of the shell and the sandbox.           *)
(***************************************************************************)
EXTENDS Fleet, Sequences

CONSTANTS
  Writers,       (* requests, tools and commands that change config.json    *)
  MaxSnapshots,  (* configurations the dashboard keeps of an agent          *)
  Sessions,      (* runs whose agent may administer the policy              *)
  Tools          (* the tools the configuration allows                      *)

VARIABLES
  configFile, configBackup,
  past,          (* configurations config.json has held                     *)
  snapshots,     (* configurations kept for one agent, the latest first     *)
  writer,        (* what each writer is about to do                         *)
  grants,        (* capabilities.json, per agent, None without an entry     *)
  enforcer,      (* per run, its agent and whether it may administer        *)
  mutation,      (* per run, the grant or revocation it is about to save    *)
  pledged        (* a revocation in force, <<agent, capability>>, or None   *)

configVars == <<configFile, configBackup, past, snapshots, writer>>
policyVars == <<grants, enforcer, mutation, pledged>>
settingsVars == <<configVars, policyVars>>

Configs == [exec : BOOLEAN, sandbox : BOOLEAN]
DefaultConfig == [exec |-> FALSE, sandbox |-> FALSE]
Admin == "policy.admin"
Capabilities == Tools \cup {Admin}
NoWrite == [pc |-> "idle"]
NoRun == [agent |-> None, admin |-> FALSE]

ASSUME SettingsAssumption ==
    /\ MaxSnapshots \in Nat \ {0}
    /\ \A caps \in SUBSET Capabilities : caps # None

SettingsInit ==
    /\ configFile = None /\ configBackup = None /\ past = {} /\ snapshots = <<>>
    /\ writer = [w \in Writers |-> NoWrite]
    /\ grants = [x \in Agents |-> None] /\ pledged = None
    /\ enforcer = [r \in Sessions |-> NoRun] /\ mutation = [r \in Sessions |-> NoWrite]

-----------------------------------------------------------------------------
(* config.json                                                             *)

\* Validate, of what Load and Save refuse (after ApplyDefaults).
Valid(c) == c.exec => c.sandbox

LoadOrDefault == IF configFile = None THEN DefaultConfig ELSE configFile

\* A writer goes on with c if Save would load what it is to write.
Prepare(w, c) ==
    /\ writer[w].pc = "idle" /\ Valid(c)
    /\ writer' = [writer EXCEPT ![w] = [pc |-> "backup", config |-> c]]
    /\ UNCHANGED <<configFile, configBackup, past, snapshots, policyVars>> /\ NoFault

\* config.set knows the field for commands and no field for the sandbox.
SetFields(w) == \E on \in BOOLEAN :
    /\ on => LoadOrDefault.sandbox
    /\ Prepare(w, [LoadOrDefault EXCEPT !.exec = on])

\* agent.switch, agent.profile.set, the checkpoint skill and the requests for
\* roles change what is not kept here, and write the rest as they loaded it.
KeepFields(w) == Prepare(w, LoadOrDefault)

\* PATCH and POST of the dashboard leave any configuration.
ReplaceConfig(w) == \E c \in Configs : Prepare(w, c)

\* init, and setup before it asks: the default if there is no file, or by force.
InitConfig(w) == Prepare(w, DefaultConfig)

\* setup turns both on, if the operator does not say no, and leaves them else;
\* it holds what it loaded while it asks.
Setup(w) == \E c \in {LoadOrDefault, [exec |-> TRUE, sandbox |-> TRUE]} : Prepare(w, c)

\* The dashboard keeps the last configurations of an agent it was asked to.
TakeSnapshot ==
    /\ snapshots' = SubSeq(<<LoadOrDefault>> \o snapshots, 1,
                          IF Len(snapshots) < MaxSnapshots THEN Len(snapshots) + 1 ELSE MaxSnapshots)
    /\ UNCHANGED <<configFile, configBackup, past, writer, policyVars>> /\ NoFault

\* One of them is written back if the default instance cannot be projected;
\* if it can, only its manifests are (Instances).
RestoreConfig(w) == \E n \in DOMAIN snapshots : Prepare(w, snapshots[n])

\* WriteAtomic copies the file that is there now ...
ReadForBackup(w) ==
    /\ writer[w].pc = "backup"
    /\ writer' = [writer EXCEPT ![w] =
         IF configFile = None THEN [pc |-> "write", config |-> @.config]
         ELSE [pc |-> "copy", config |-> @.config, old |-> configFile]]
    /\ UNCHANGED <<configFile, configBackup, past, snapshots, policyVars>> /\ NoFault

WriteBackup(w) ==
    /\ writer[w].pc = "copy"
    /\ configBackup' = writer[w].old
    /\ writer' = [writer EXCEPT ![w] = [pc |-> "write", config |-> @.config]]
    /\ UNCHANGED <<configFile, past, snapshots, policyVars>> /\ NoFault

\* Mutant of WriteConfig: only its field is changed in what is there by now.
WriteMerged(w) ==
    /\ writer[w].pc = "write"
    /\ configFile' = IF configFile = None THEN writer[w].config
                     ELSE [configFile EXCEPT !.exec = writer[w].config.exec]
    /\ past' = past \cup {configFile'}
    /\ writer' = [writer EXCEPT ![w] = NoWrite]
    /\ UNCHANGED <<configBackup, snapshots, policyVars>> /\ NoFault

\* ... and renames the new one into its place.
WriteConfig(w) ==
    /\ writer[w].pc = "write"
    /\ configFile' = writer[w].config
    /\ past' = past \cup {configFile'}
    /\ writer' = [writer EXCEPT ![w] = NoWrite]
    /\ UNCHANGED <<configBackup, snapshots, policyVars>> /\ NoFault

\* A step fails and leaves what was there, or the process ends.
SaveFails ==
    /\ Fault
    /\ \/ \E w \in Writers : writer[w].pc # "idle" /\ writer' = [writer EXCEPT ![w] = NoWrite]
          /\ UNCHANGED snapshots
       \/ writer' = [w \in Writers |-> NoWrite] /\ snapshots' = <<>>
    /\ UNCHANGED <<configFile, configBackup, past, policyVars>>

ConfigNext ==
    \/ \E w \in Writers :
          \/ SetFields(w) \/ KeepFields(w) \/ ReplaceConfig(w) \/ InitConfig(w) \/ Setup(w)
          \/ RestoreConfig(w) \/ ReadForBackup(w) \/ WriteBackup(w) \/ WriteConfig(w)
    \/ TakeSnapshot \/ SaveFails

-----------------------------------------------------------------------------
(* capabilities.json                                                       *)

BaseCapabilities(x) == Tools \cup (IF x = Default THEN {Admin} ELSE {})

\* effectiveCapabilities: an entry counts, an empty one too.
Effective(x) == IF grants[x] = None THEN BaseCapabilities(x) ELSE grants[x]

\* A run is given the capabilities of its agent once, when it starts; the
\* defaults if the file cannot be read.
StartSession(r, x) ==
    /\ enforcer[r].agent = None
    /\ \/ enforcer' = [enforcer EXCEPT ![r] = [agent |-> x, admin |-> Admin \in Effective(x)]] /\ NoFault
       \/ enforcer' = [enforcer EXCEPT ![r] = [agent |-> x, admin |-> Admin \in BaseCapabilities(x)]] /\ Fault
    /\ UNCHANGED <<configVars, grants, mutation, pledged>>

EndSession(r) ==
    /\ enforcer[r].agent # None /\ mutation[r].pc = "idle"
    /\ enforcer' = [enforcer EXCEPT ![r] = NoRun]
    /\ UNCHANGED <<configVars, grants, mutation, pledged>> /\ NoFault

\* Mutant of Entry: an agent without capabilities has no entry.
EntryNonempty(caps) == IF caps = {} THEN None ELSE caps

Entry(caps) == caps

\* policy.grant and policy.revoke ask the enforcer of the run and read the
\* file; all of its entries are written as they were read.
LoadGrants(r, x, c, grant) ==
    /\ enforcer[r].admin /\ mutation[r].pc = "idle"
    /\ LET updated == IF grant THEN Effective(x) \cup {c} ELSE Effective(x) \ {c} IN
         mutation' = [mutation EXCEPT ![r] =
           [pc |-> "save", file |-> [grants EXCEPT ![x] = Entry(updated)],
            admin |-> IF x = enforcer[r].agent THEN Admin \in updated ELSE TRUE,
            alone |-> TRUE, of |-> <<x, c>>, grant |-> grant]]
    /\ UNCHANGED <<configVars, grants, enforcer, pledged>> /\ NoFault

\* What another run saved in between is lost, and with it every promise.  The
\* caller's own enforcer is told too.
SaveGrants(r) ==
    /\ mutation[r].pc = "save"
    /\ LET m == mutation[r] IN
         /\ grants' = m.file
         /\ enforcer' = [enforcer EXCEPT ![r].admin = m.admin]
         /\ \/ ~m.alone /\ pledged' = None
            \/ m.alone /\ m.grant /\ pledged' = IF pledged = m.of THEN None ELSE pledged
            \/ m.alone /\ ~m.grant /\ pledged' \in {pledged, m.of}
    /\ mutation' = [q \in Sessions |-> IF q # r /\ mutation[q].pc = "save"
                      THEN [pc |-> "save", file |-> mutation[q].file, admin |-> mutation[q].admin,
                            alone |-> FALSE]
                      ELSE NoWrite]
    /\ UNCHANGED configVars /\ NoFault

SaveGrantsFails(r) ==
    /\ mutation[r].pc = "save" /\ Fault
    /\ mutation' = [mutation EXCEPT ![r] = NoWrite]
    /\ UNCHANGED <<configVars, grants, enforcer, pledged>>

PolicyNext == \E r \in Sessions :
    \/ EndSession(r) \/ SaveGrants(r) \/ SaveGrantsFails(r)
    \/ \E x \in Agents : StartSession(r, x)
                         \/ \E c \in Capabilities, grant \in BOOLEAN : LoadGrants(r, x, c, grant)

-----------------------------------------------------------------------------
SettingsTypeOK ==
    /\ configFile \in Configs \cup {None} /\ Len(snapshots) <= MaxSnapshots
    /\ \A x \in Agents : grants[x] # None => grants[x] \subseteq Capabilities
    /\ \A r \in Sessions : enforcer[r].agent \in Agents \cup {None}

\* However requests, tools and commands overwrite each other's changes, the
\* file they leave can be loaded; its backup, and the snapshots an agent can be
\* taken back to, are configurations that it once held, or the default.
ConfigRecoverable ==
    /\ configFile # None => Valid(configFile) /\ configFile \in past
    /\ configBackup # None => configBackup \in past
    /\ \A n \in DOMAIN snapshots : snapshots[n] \in past \cup {DefaultConfig}
    /\ \A c \in past : Valid(c)

\* A revocation no other change of the file overlapped lasts: as long as the
\* file can be read, no run that starts later is given the capability until
\* somebody grants it again, not even an agent that has lost its last one.
RevocationLasts == pledged # None => pledged[2] \notin Effective(pledged[1])
=============================================================================
