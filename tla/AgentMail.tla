----------------------------- MODULE AgentMail -----------------------------
(***************************************************************************)
(* Messages between agents (tools/agent_tools.go) and the inbox the        *)
(* dashboard shows of them (dashboard/instances_api.go).  A letter is an   *)
(* entry in a chat session of the recipient, and so is each change of its  *)
(* status; what an inbox shows is put together from the entries.  Tools    *)
(* and dashboard requests write them at the same time, each takes the time *)
(* of an entry before it waits for the lock of the session.  All entries   *)
(* of a letter are in one session: which one does not matter here, nor     *)
(* that an inbox reads at most 200 entries of it.                          *)
(***************************************************************************)
EXTENDS Fleet

CONSTANTS
  Letters,       (* message ids                                             *)
  Mailers,       (* calls of the tools and of the dashboard                 *)
  MaxExecutions  (* bound: calls that execute a letter                      *)

VARIABLES
  mailbox,       (* the entries in the order of the file                    *)
  mailClock,
  mailer,        (* what each call is about to do                           *)
  unsettled      (* letters an execution of which could not be recorded     *)

mailVars == <<mailbox, mailClock, mailer, unsettled>>

NoMail == [pc |-> "idle", letter |-> None, run |-> None, ts |-> 0, executes |-> FALSE]
Done(w) == [NoMail EXCEPT !.pc = "done", !.executes = w.executes]

MailInit ==
    /\ mailbox = <<>> /\ mailClock = 0
    /\ mailer = [p \in Mailers |-> NoMail] /\ unsettled = {}

Settled == {"completed", "failed"}

-----------------------------------------------------------------------------
(* What the inboxes show.                                                  *)

\* The places of a letter's entries.
Entries(m) == {i \in DOMAIN mailbox : mailbox[i].letter = m}
Delivered(m) == Entries(m) # {}

\* Mutant of MergeStatus: the later entry wins field by field, empty or not.
MergeLatest(seen, e) == IF e.ts > seen.ts THEN e ELSE seen

\* The later of two entries gives the status; a run is not taken back.
MergeStatus(seen, e) ==
    LET late == IF e.ts > seen.ts THEN e ELSE seen
        old  == IF e.ts > seen.ts THEN seen ELSE e
    IN [late EXCEPT !.run = IF late.run # None THEN late.run ELSE old.run]

\* The first entry is later than none.
NoMessage == [letter |-> None, status |-> None, run |-> None, ts |-> 0]

InboxMessage(m) ==
    LET seen[i \in 0..Len(mailbox)] ==
            IF i = 0 THEN NoMessage
            ELSE IF i \in Entries(m) THEN MergeStatus(seen[i - 1], mailbox[i]) ELSE seen[i - 1]
    IN seen[Len(mailbox)]

\* agent.message.inbox takes each field from the entry it reads last.
ToolInboxMessage(m) == mailbox[CHOOSE i \in Entries(m) : \A j \in Entries(m) : j <= i]

-----------------------------------------------------------------------------
(* The calls.  One that its checks refuse changes nothing.                 *)

Take(p, what) == mailer[p].pc = "idle" /\ mailer' = [mailer EXCEPT ![p] = what]

MayExecute(yes) == yes => Cardinality({q \in Mailers : mailer[q].executes}) < MaxExecutions

\* The letter has an id of its own, and the time at which the call began.
SendMessage(p, m) ==
    /\ ~Delivered(m) /\ \A q \in Mailers : mailer[q].letter # m
    /\ mailClock' = mailClock + 1
    /\ \E auto \in BOOLEAN : MayExecute(auto) /\ Take(p, [pc |-> "queued", letter |-> m, run |-> None,
                                      ts |-> mailClock', executes |-> auto])
    /\ UNCHANGED <<mailbox, unsettled>> /\ NoFault

BeginCall(p, pc, m, run) ==
    /\ Delivered(m) /\ MayExecute(pc = "running")
    /\ Take(p, [NoMail EXCEPT !.pc = pc, !.letter = m, !.run = run, !.executes = (pc = "running")])
    /\ UNCHANGED <<mailbox, mailClock, unsettled>> /\ NoFault

\* POST .../ack reads what the inbox shows and writes it back as acknowledged.
Acknowledge(p, m) == BeginCall(p, "acknowledged", m, InboxMessage(m).run)

\* POST .../run and agent.run with the message_id, whatever the status is by
\* now.  (agent.run without an inbox_session_id records nothing.)
RunMessage(p, m) == BeginCall(p, "running", m, None)

\* appendAgentMessageStatus takes the time ...
Stamp(p) ==
    /\ mailer[p].pc \in {"acknowledged", "running"} \cup Settled /\ mailer[p].ts = 0
    /\ mailClock' = mailClock + 1
    /\ mailer' = [mailer EXCEPT ![p].ts = mailClock']
    /\ UNCHANGED <<mailbox, unsettled>> /\ NoFault

\* What follows an entry.
After(w) ==
    CASE w.pc = "queued"  -> [w EXCEPT !.pc = "acknowledged", !.ts = 0]
      [] w.pc = "acknowledged" /\ w.executes -> [w EXCEPT !.pc = "running", !.ts = 0]
      [] w.pc = "running" -> [w EXCEPT !.pc = "executing", !.ts = 0]
      [] OTHER -> Done(w)

\* ... and AppendMessage adds the line.
AppendStatus(p) ==
    /\ mailer[p].ts > 0
    /\ mailbox' = Append(mailbox, [letter |-> mailer[p].letter, status |-> mailer[p].pc,
                                   run |-> mailer[p].run, ts |-> mailer[p].ts])
    /\ mailer' = [mailer EXCEPT ![p] = After(mailer[p])]
    /\ UNCHANGED <<mailClock, unsettled>> /\ NoFault

\* Only the letter itself must be stored: a status that could not be is ignored.
AppendFails(p) ==
    /\ mailer[p].ts > 0 /\ Fault
    /\ mailer' = [mailer EXCEPT ![p] = IF mailer[p].pc = "queued" THEN Done(mailer[p]) ELSE After(mailer[p])]
    /\ unsettled' = IF mailer[p].pc \in Settled
                    THEN unsettled \cup {mailer[p].letter} ELSE unsettled
    /\ UNCHANGED <<mailbox, mailClock>>

\* Mutant of ExecuteMessage: a failed execution returns its error at once.
ExecuteOrReturn(p) ==
    /\ mailer[p].pc = "executing"
    /\ \/ mailer' = [mailer EXCEPT ![p].pc = "completed", ![p].run = p]
       \/ mailer' = [mailer EXCEPT ![p] = Done(mailer[p])]
    /\ UNCHANGED <<mailbox, mailClock, unsettled>> /\ NoFault

\* ExecuteSubAgent: a whole run, which may fail before it has an id.
ExecuteMessage(p) ==
    /\ mailer[p].pc = "executing"
    /\ \/ mailer' = [mailer EXCEPT ![p].pc = "completed", ![p].run = p]
       \/ \E r \in {p, None} : mailer' = [mailer EXCEPT ![p].pc = "failed", ![p].run = r]
    /\ UNCHANGED <<mailbox, mailClock, unsettled>> /\ NoFault

Executing(m) == {p \in Mailers : mailer[p].letter = m
                                 /\ mailer[p].pc \in {"running", "executing"} \cup Settled}

\* The process ends: no call goes on, the file stays.
MailCrash ==
    /\ Fault /\ mailer' = [p \in Mailers |-> Done(mailer[p])]
    /\ unsettled' = unsettled \cup {m \in Letters : Executing(m) # {}}
    /\ UNCHANGED <<mailbox, mailClock>>

MailNext ==
    \/ \E p \in Mailers :
         \/ Stamp(p) \/ AppendStatus(p) \/ AppendFails(p) \/ ExecuteMessage(p)
         \/ \E m \in Letters : SendMessage(p, m) \/ Acknowledge(p, m) \/ RunMessage(p, m)
    \/ MailCrash

-----------------------------------------------------------------------------
MailTypeOK ==
    /\ unsettled \subseteq Letters
    /\ \A i \in DOMAIN mailbox :
         /\ mailbox[i].letter \in Letters /\ mailbox[i].run \in Mailers \cup {None}
         /\ mailbox[i].status \in {"queued", "acknowledged", "running"} \cup Settled
         /\ mailbox[i].ts \in 1..mailClock

MailSettles == \A m \in Letters :
    Delivered(m) /\ Executing(m) = {} /\ m \notin unsettled =>
        InboxMessage(m).status # "running" /\ ToolInboxMessage(m).status # "running"

RunLinkKept == \A m \in Letters :
    (\E i \in Entries(m) : mailbox[i].run # None) => InboxMessage(m).run # None

\* Once nobody works on a letter, neither inbox shows it as "running", and
\* the dashboard never forgets a run of it: in whatever order several
\* executions at once and acknowledgements, which look first and write later,
\* wrote their entries (runAgentMessageLifecycle, mergeDashboardInboxMessages).
StatusesTruthful == MailSettles /\ RunLinkKept
=============================================================================
