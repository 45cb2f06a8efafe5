------------------------------ MODULE Services ------------------------------
(***************************************************************************)
(* The services around a run, in one process: mail between agents, their   *)
(* instances, prompts, memory and workspaces, the calls of models, the     *)
(* dashboard's list of runs, configuration and policy.  They share no      *)
(* state but the process and its failures, so a behaviour takes up one of  *)
(* them, and the failures that befall it; Fleet counts them.               *)
(***************************************************************************)
EXTENDS AgentMail, Instances, PromptStack, ModelCall, ToolReplies, Memory, RunMonitor, Settings,
        Workspace, TextEdits, ReverseScan

VARIABLE workload

vars == <<faults, workload, mailVars, instanceVars, promptVars, callVars, replyVars, memoryVars,
          monitorVars, settingsVars, workspaceVars, editVars,
          scanVars>>

Workloads == {"mail", "instances", "prompts", "call", "reply", "events", "items", "monitor",
              "config", "policy", "workspace", "edit", "scan"}

Init ==
    /\ faults = 0 /\ workload \in Workloads
    /\ MailInit /\ InstanceInit /\ PromptInit /\ CallInit /\ RepliesInit
    /\ MemoryInit /\ MonitorInit /\ SettingsInit /\ WorkspaceInit /\ EditInit /\ ScanInit
    /\ workload # "workspace" => OnHost
    /\ workload # "edit" => original = <<>>
    /\ workload # "scan" => history.size = 0 /\ limit = CHOOSE n \in Limits : TRUE
    /\ workload # "reply" => reading.permitted = CHOOSE ts \in Permitted : TRUE

\* What the other services hold does not change.
Rest(mine) ==
    /\ UNCHANGED workload
    /\ mine # "mail"      => UNCHANGED mailVars
    /\ mine # "instances" => UNCHANGED instanceVars
    /\ mine # "prompts"   => UNCHANGED promptVars
    /\ mine # "call"      => UNCHANGED callVars
    /\ mine # "reply"     => UNCHANGED replyVars
    /\ mine # "memory"    => UNCHANGED memoryVars
    /\ mine # "monitor"   => UNCHANGED monitorVars
    /\ mine # "settings"  => UNCHANGED settingsVars
    /\ mine # "workspace" => UNCHANGED workspaceVars
    /\ mine # "edit"      => UNCHANGED editVars
    /\ mine # "scan"      => UNCHANGED scanVars

Next ==
    \/ workload = "mail"      /\ MailNext      /\ Rest("mail")
    \/ workload = "instances" /\ InstanceNext  /\ Rest("instances")
    \/ workload = "prompts"   /\ PromptNext    /\ Rest("prompts")
    \/ workload = "call"      /\ CallNext      /\ Rest("call")
    \/ workload = "reply"     /\ RepliesNext   /\ Rest("reply")
    \/ workload = "events"    /\ EventsNext    /\ Rest("memory")
    \/ workload = "items"     /\ ItemsNext     /\ Rest("memory")
    \/ workload = "monitor"   /\ MonitorNext   /\ Rest("monitor")
    \/ workload = "config"    /\ ConfigNext    /\ Rest("settings")
    \/ workload = "policy"    /\ PolicyNext    /\ Rest("settings")
    \/ workload = "workspace" /\ WorkspaceNext /\ Rest("workspace")
    \/ workload = "edit"      /\ EditNext      /\ Rest("edit")
    \/ workload = "scan"      /\ ScanNext      /\ Rest("scan")

Spec == Init /\ [][Next]_vars

-----------------------------------------------------------------------------
\* What is on disk and in memory has the shape the code gives it.
TypeOK ==
    /\ workload \in Workloads /\ faults \in 0..MaxFaults
    /\ MailTypeOK /\ InstanceTypeOK /\ PromptTypeOK /\ CallTypeOK /\ RepliesTypeOK
    /\ MemoryTypeOK /\ MonitorTypeOK /\ SettingsTypeOK /\ WorkspaceTypeOK
    /\ EditTypeOK /\ ScanTypeOK

\* What writers that know nothing of each other leave on disk can be gone back
\* to, and does not give back what was taken away (Settings).
SettingsSound == ConfigRecoverable /\ RevocationLasts

\* What is read later is what was written: the statuses of mail and the end of
\* a history (InboxMessage, ReadRecentMessages).
ReadsTruthful == StatusesTruthful /\ TailExact

\* Text is neither lost nor mixed on its way: what a model streams, retries or
\* not, what tools store while others rename and delete, and what the edits of a
\* file leave of it (ModelCall, Workspace, applyLineEdits, applyUnifiedDiff).
TextFaithful == StreamFaithful /\ StoredKept /\ EditsExact
=============================================================================
