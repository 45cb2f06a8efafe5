--------------------------- MODULE Conversations ---------------------------
(***************************************************************************)
(* A chat message on its way: a bot or the dashboard adapter takes it, the *)
(* connector routes it to an agent and a session (channels/chat/           *)
(* connector.go), queues a run, the engine works on it and files what came *)
(* of it in the session (runtime/engine.go ExecuteWithInput), the queue    *)
(* tries again or records a verdict (channels/http/pipeline.go), and the   *)
(* bot polls for that verdict and answers.  Each message is handled by a   *)
(* goroutine of its own, each run by another, each wait by a third; they   *)
(* meet in ChatStore.  The process may crash at any time: files stay.      *)
(***************************************************************************)
EXTENDS ChatStore

CONSTANTS
  Messages,      (* the chat messages that arrive                           *)
  Named,         (* agents a message may name, None for a bot's             *)
  Default,       (* default_agent_id of the channels and of the connector   *)
  Attempts,      (* queuedRunMaxAttempts                                    *)
  MaxFaults,     (* bound: failures, cancellations, closings and crashes    *)
  Struck         (* bound: the messages failures strike                     *)

ASSUME ConversationsAssumption ==
    /\ Default \in Agents /\ Named \subseteq Agents \cup {None}
    /\ Attempts \in Nat \ {0} /\ MaxFaults \in Nat
    /\ Questions = Messages /\ Struck \subseteq Messages

VARIABLES
  chat,     (* the handler of each message, then the wait for its verdict   *)
  run,      (* the run of each message, then its record                     *)
  faults

vars == <<storeVars, chat, run, faults>>

NoChat == [pc |-> "idle", kind |-> "none", arg |-> 0, agent |-> None,
           room |-> CHOOSE r \in Rooms : TRUE, session |-> 0, reply |-> "none"]
NoRun  == [pc |-> "none", status |-> "none", session |-> 0, attempt |-> 1,
           outcome |-> "none", canceled |-> FALSE]

Init ==
    /\ StoreInit
    /\ chat = [m \in Messages |-> NoChat]
    /\ run = [m \in Messages |-> NoRun]
    /\ faults = 0

Fault(m) == m \in Struck /\ faults < MaxFaults /\ faults' = faults + 1
NoFault  == UNCHANGED faults

-----------------------------------------------------------------------------
(* The handler of a message.                                               *)

ChatStep(m, from, to) == chat[m].pc = from /\ chat' = [chat EXCEPT ![m].pc = to]
\* The handler returns, or the wait ends.
Reply(m, from, what) ==
    chat[m].pc = from /\ chat' = [chat EXCEPT ![m] = [NoChat EXCEPT !.pc = "done", !.reply = what]]

\* One SetActiveSessionPointer holds the connector's Store between its check
\* and its write; the engine and session.close have Stores of their own.
StoreFree == \A m \in Messages : chat[m].pc # "write"

\* Allowlist and the limits of sender and program; and what is answered at
\* once and changes nothing: /agents, /agent, /chats, a misspelt command.
Refuse(m) ==
    /\ Reply(m, "idle", "text")
    /\ NoFault /\ UNCHANGED <<storeVars, run>>

\* queueChannelMessage, the bots and the adapter fill in the channel's default.
ChannelAgent(named) == IF named # None THEN named ELSE Default

\* HandleMessage: the agent a room switched to counts if no agent is given.
RoutedAgent(a, r) ==
    IF a # None THEN a ELSE IF AgentOf(r) # None THEN AgentOf(r) ELSE Default

\* A message gets through and is routed; kind says what it asks for.
Arrives(m, kind, arg) ==
    /\ chat[m].pc = "idle"
    /\ \E r \in Rooms, n \in Named :
        chat' = [chat EXCEPT ![m] = [@ EXCEPT !.pc = kind, !.kind = kind, !.arg = arg, !.room = r,
                                              !.agent = RoutedAgent(ChannelAgent(n), r)]]
    /\ NoFault /\ UNCHANGED <<storeVars, run>>

Arrive(m) ==
    \/ \E kind \in {"ask", "new"} : Arrives(m, kind, 0)
    \/ \E a \in Agents : Arrives(m, "agent", a)
    \/ \E s \in DOMAIN sessions : Arrives(m, "resume", s)

SwitchAgent(m) ==
    /\ Reply(m, "agent", "text")
    /\ SetActiveAgentPointer(chat[m].room, chat[m].arg)
    /\ NoFault /\ UNCHANGED run

\* createAndSetActiveSession, in three steps.
Create(m) ==
    /\ StoreFree
    /\ chat' = [chat EXCEPT ![m].pc = "point", ![m].session = NewId]
    /\ CreateSession(chat[m].agent, chat[m].room)
    /\ NoFault /\ UNCHANGED run

NewChat(m) == chat[m].pc = "new" /\ Create(m)

\* Mutant of Resumable: the room is not compared.
ResumableAnywhere(m) ==
    Exists(chat[m].arg) /\ sessions[chat[m].arg].agent = chat[m].agent /\ ~IsClosed(chat[m].arg)

Resumable(m) ==
    Exists(chat[m].arg) /\ Fits(chat[m].arg, chat[m].agent, chat[m].room) /\ ~IsClosed(chat[m].arg)

Resume(m) ==
    /\ StoreFree
    /\ IF Resumable(m)
       THEN /\ chat[m].pc = "resume"
            /\ chat' = [chat EXCEPT ![m].pc = "point", ![m].session = chat[m].arg, ![m].arg = 0]
       ELSE Reply(m, "resume", "text")
    /\ NoFault /\ UNCHANGED <<storeVars, run>>

\* resolveOrCreateActiveSession: the pointer is read, then what it points to.
ReadPointer(m) ==
    /\ chat[m].pc = "ask"
    /\ chat' = [chat EXCEPT ![m].pc = "inspect",
                            ![m].session = SessionOf(chat[m].agent, chat[m].room)]
    /\ NoFault /\ UNCHANGED <<storeVars, run>>

Usable(m) == LET s == chat[m].session IN
    Exists(s) /\ Fits(s, chat[m].agent, chat[m].room) /\ ~IsClosed(s)

KeepSession(m) ==
    /\ StoreFree /\ Usable(m)
    /\ ChatStep(m, "inspect", "append")
    /\ NoFault /\ UNCHANGED <<storeVars, run>>

ReplaceSession(m) == chat[m].pc = "inspect" /\ ~Usable(m) /\ Create(m)

CheckPointer(m) ==
    /\ StoreFree
    /\ IF MayPoint(chat[m].agent, chat[m].session) THEN ChatStep(m, "point", "write")
       ELSE Reply(m, "point", "text")
    /\ NoFault /\ UNCHANGED <<storeVars, run>>

SetPointer(m) ==
    /\ IF chat[m].kind = "ask" THEN ChatStep(m, "write", "append") ELSE Reply(m, "write", "text")
    /\ WritePointer(chat[m].agent, chat[m].room, chat[m].session)
    /\ NoFault /\ UNCHANGED run

AppendUser(m) ==
    /\ StoreFree
    /\ ChatStep(m, "append", "queue")
    /\ AppendMessage(m, "ask")
    /\ NoFault /\ UNCHANGED run

\* An operation of the store fails (disk, lock timeout).
StoreFails(m) ==
    /\ \E pc \in {"agent", "new", "resume", "ask", "inspect", "point", "write", "append"} :
           Reply(m, pc, "text")
    /\ Fault(m) /\ UNCHANGED <<storeVars, run>>

Enqueue(m) ==
    /\ chat[m].pc = "queue"
    /\ chat' = [chat EXCEPT ![m] = [NoChat EXCEPT !.pc = "wait"]]
    /\ run' = [run EXCEPT ![m] = [NoRun EXCEPT !.pc = "queued", !.status = "queued",
                                               !.session = chat[m].session]]
    /\ NoFault /\ UNCHANGED storeVars

\* The queue is full: the message stays in the session, without a run.
QueueRefuses(m) ==
    /\ Reply(m, "queue", "text")
    /\ Fault(m) /\ UNCHANGED <<storeVars, run>>

-----------------------------------------------------------------------------
(* WaitForTerminalRun and awaitAndPostResult.                              *)

\* The statuses it ends on.  A canceled run's is spelled "canceled".
Ending == {"completed", "failed", "timeout", "cancelled"}

PostVerdict(m) ==
    /\ run[m].status \in Ending
    /\ Reply(m, "wait", IF run[m].status = "completed" THEN "answer" ELSE "text")
    /\ NoFault /\ UNCHANGED <<storeVars, run>>

\* Mutant of PostTimeout: nothing bounds the wait.
WaitsForever(m) ==
    /\ run[m].status \in Ending
    /\ Reply(m, "wait", "text")
    /\ NoFault /\ UNCHANGED <<storeVars, run>>

\* Two minutes have passed, or the status cannot be read: still working.
PostTimeout(m) ==
    /\ Reply(m, "wait", "text")
    /\ NoFault /\ UNCHANGED <<storeVars, run>>

-----------------------------------------------------------------------------
(* The run: executeQueuedRun around ExecuteWithInput.                      *)

StartRun(m) ==
    /\ run[m].pc = "queued"
    /\ run' = [run EXCEPT ![m].pc = "begin", ![m].status = "running"]
    /\ NoFault /\ UNCHANGED <<storeVars, chat>>

Over(m, e) == run' = [run EXCEPT ![m].pc = "over", ![m].outcome = e]

\* What a context's end or the work itself may turn into.
Errors(m) == {"error", "timeout"} \cup (IF run[m].canceled THEN {"canceled"} ELSE {})

\* An attempt that fails before its session is read leaves no word there.
BeginFails(m) ==
    /\ run[m].pc = "begin"
    /\ \E e \in Errors(m) : Over(m, e)
    /\ Fault(m) /\ UNCHANGED <<storeVars, chat>>

\* Neither does one whose session is closed.
LoadSession(m) ==
    /\ run[m].pc = "begin"
    /\ IF IsClosed(run[m].session) THEN Over(m, "error")
       ELSE run' = [run EXCEPT ![m].pc = "working"]
    /\ NoFault /\ UNCHANGED <<storeVars, chat>>

\* A tool's result is filed at once, by the callback; one stands for all.
FileTool(m) ==
    /\ run[m].pc = "working" /\ messages[m][Len(messages[m])] # "tool"
    /\ AppendMessage(m, "tool")
    /\ NoFault /\ UNCHANGED <<chat, run>>

\* session.close: the agent may close any session, its own too.
ToolClosesSession(m) ==
    /\ run[m].pc = "working"
    /\ \E s \in DOMAIN sessions : ~IsClosed(s) /\ CloseSession(s)
    /\ Fault(m) /\ UNCHANGED <<chat, run>>

\* agent.Run returns an answer, the bundle is written and the answer is filed.
FileAnswer(m) ==
    /\ run[m].pc = "working"
    /\ Over(m, "ok")
    /\ AppendMessage(m, "answer")
    /\ NoFault /\ UNCHANGED chat

\* The failure to file it is logged only.
AnswerLost(m) ==
    /\ run[m].pc = "working"
    /\ Over(m, "unfiled")
    /\ Fault(m) /\ UNCHANGED <<storeVars, chat>>

\* agent.Run or the bundle fails; appendRunFailureConversation may fail too.
WorkFails(m) ==
    /\ run[m].pc = "working"
    /\ \E e \in Errors(m) : Over(m, e)
    /\ AppendMessage(m, "failure") \/ UNCHANGED storeVars
    /\ Fault(m) /\ UNCHANGED chat

\* Mutant of Retryable: everything is worth another attempt.
RetryAll(m) == run[m].attempt < Attempts

\* executeWithRetry: a timeout is tried again from the start, whatever the
\* attempt did and filed, and canceled or not.
Retryable(m) == run[m].outcome = "timeout" /\ run[m].attempt < Attempts

Retry(m) ==
    /\ run[m].pc = "over" /\ Retryable(m)
    /\ run' = [run EXCEPT ![m].pc = "begin", ![m].attempt = @ + 1, ![m].outcome = "none"]
    /\ NoFault /\ UNCHANGED <<storeVars, chat>>

\* Mutant of Verdict: any error is a cancellation once the run was canceled,
\* spelled as WaitForTerminalRun spells it.
VerdictMisspelt(m) ==
    IF run[m].canceled THEN "cancelled"
    ELSE IF run[m].outcome \in {"ok", "unfiled"} THEN "completed" ELSE "failed"

\* coerceContextCancellation: an answer that came too late is canceled too,
\* another error is not.
Verdict(m) ==
    IF run[m].outcome \in {"ok", "unfiled"}
    THEN IF run[m].canceled THEN "canceled" ELSE "completed"
    ELSE IF run[m].outcome = "canceled" THEN "canceled" ELSE "failed"

Settle(m) ==
    /\ run[m].pc = "over" /\ ~Retryable(m)
    /\ run' = [run EXCEPT ![m] = [NoRun EXCEPT !.pc = "settled", !.status = Verdict(m),
                                               !.outcome = run[m].outcome]]
    /\ NoFault /\ UNCHANGED <<storeVars, chat>>

\* ActiveRunTracker.Cancel, while the run is tracked.
Cancel(m) ==
    /\ run[m].pc \notin {"none", "settled", "dead"} /\ ~run[m].canceled
    /\ run' = [run EXCEPT ![m].canceled = TRUE]
    /\ Fault(m) /\ UNCHANGED <<storeVars, chat>>

\* Everything in memory is gone.
Crash ==
    /\ chat' = [m \in Messages |-> IF chat[m].pc \in {"idle", "done"} THEN chat[m]
                                   ELSE [NoChat EXCEPT !.pc = "lost"]]
    /\ run' = [m \in Messages |-> IF run[m].pc \in {"none", "settled"} THEN run[m]
                                  ELSE [NoRun EXCEPT !.pc = "dead", !.status = run[m].status]]
    /\ faults < MaxFaults /\ faults' = faults + 1 /\ UNCHANGED storeVars

-----------------------------------------------------------------------------
Handling(m) ==
    SwitchAgent(m) \/ NewChat(m) \/ Resume(m) \/ ReadPointer(m) \/ KeepSession(m)
      \/ ReplaceSession(m) \/ CheckPointer(m) \/ SetPointer(m) \/ AppendUser(m)
      \/ StoreFails(m) \/ Enqueue(m) \/ QueueRefuses(m)
Waiting(m) == PostVerdict(m) \/ PostTimeout(m)
Running(m) ==
    StartRun(m) \/ BeginFails(m) \/ LoadSession(m) \/ FileTool(m) \/ FileAnswer(m)
      \/ AnswerLost(m) \/ WorkFails(m) \/ Retry(m) \/ Settle(m)
Outside(m) == Refuse(m) \/ Arrive(m) \/ ToolClosesSession(m) \/ Cancel(m)

Next == Crash \/ \E m \in Messages : Handling(m) \/ Waiting(m) \/ Running(m) \/ Outside(m)

\* A goroutine runs on, and a run has a deadline.
Fairness == \A m \in Messages : WF_vars(Handling(m)) /\ WF_vars(Waiting(m)) /\ WF_vars(Running(m))
Spec == Init /\ [][Next]_vars /\ Fairness

-----------------------------------------------------------------------------
ChatRecords == [
    pc : {"idle", "ask", "new", "agent", "resume", "inspect", "point", "write",
          "append", "queue", "wait", "done", "lost"},
    kind : {"none", "ask", "new", "agent", "resume"},
    arg : {0} \cup Ids \cup Agents, agent : Agents \cup {None}, room : Rooms,
    session : 0..MaxSessions, reply : {"none", "text", "answer"}]

RunRecords == [
    pc : {"none", "queued", "begin", "working", "over", "settled", "dead"},
    status : {"none", "queued", "running", "completed", "failed", "canceled"},
    session : 0..MaxSessions, attempt : 1..Attempts,
    outcome : {"none", "ok", "unfiled", "error", "timeout", "canceled"}, canceled : BOOLEAN]

\* Every record stays within what the code knows of; in particular the
\* statuses are the ones runStatus constants name (pipeline.go).
TypeOK ==
    /\ StoreTypeOK
    /\ chat \in [Messages -> ChatRecords] /\ run \in [Messages -> RunRecords]
    /\ faults \in 0..MaxFaults

\* What a room's pointer names is a session of that room with that agent,
\* whoever created, resumed, replaced or closed sessions in between
\* (connector.go createAndSetActiveSession and /resume).
PointersSound ==
    \A a \in Agents, r \in Rooms :
        activeSession[<<a, r>>] # 0 =>
            Exists(activeSession[<<a, r>>]) /\ Fits(activeSession[<<a, r>>], a, r)

Answers(m) == {i \in DOMAIN messages[m] : messages[m][i] = "answer"}

\* The record of a run, the session and the reply agree: a completed run's
\* answer is there, once, the last word on its question, unless it could not
\* be written; a failed run's is not, whatever earlier attempts filed; and no
\* one is answered by a run that was not completed (ExecuteWithInput files
\* before executeQueuedRun retries or records the verdict).
VerdictMatchesConversation ==
    \A m \in Messages :
        /\ run[m].status = "completed" /\ run[m].outcome = "ok" =>
               Answers(m) = {Len(messages[m])}
        /\ run[m].status = "failed" => Answers(m) = {}
        /\ chat[m].reply = "answer" => run[m].status = "completed"

\* Every message that arrives gets a reply, unless the process stops first
\* (HandleMessage, WaitForTerminalRun).
EveryMessageAnswered ==
    \A m \in Messages : chat[m].pc # "idle" ~> chat[m].pc \in {"done", "lost"}
=============================================================================
