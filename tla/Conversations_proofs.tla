------------------------ MODULE Conversations_proofs ------------------------
(***************************************************************************)
(* Theorems about conversations, for every set of messages, agents and     *)
(* rooms and any number of failures.  Each handler and each run has an     *)
(* invariant of its own; a step of one leaves those of the others, which   *)
(* look at nothing but what sessions belong to.                            *)
(***************************************************************************)
EXTENDS Conversations, TLAPS

-----------------------------------------------------------------------------
(* The invariant.  ss are the sessions, u a run and ms what its session    *)
(* holds of it.                                                            *)

BeforeRun == {"idle", "ask", "new", "agent", "resume", "inspect", "point", "write", "append", "queue"}

\* A handler that is to point at a session has one of its agent and room,
\* and there is no run before it queues one.
GoodChat(c, ss, u) ==
    /\ c.pc \in {"point", "write"} =>
           c.session \in DOMAIN ss /\ ss[c.session].agent = c.agent /\ ss[c.session].room = c.room
    /\ c.pc \in {"ask", "new"} \cup {"inspect", "point", "write", "append"} => c.agent \in Agents
    /\ c.pc = "agent" => c.arg \in Agents
    /\ c.pc \in BeforeRun => u.pc = "none"
    /\ c.reply = "answer" => u.status = "completed"

AnswersIn(ms) == {i \in DOMAIN ms : ms[i] = "answer"}

\* The answer is filed by the attempt that succeeds, as the last word.
GoodRun(u, ms) ==
    /\ u.status \in {"completed", "failed", "canceled"} <=> u.pc = "settled"
    /\ u.pc \notin {"over", "settled"} => u.outcome = "none"
    /\ u.pc # "dead" => AnswersIn(ms) = IF u.outcome = "ok" THEN {Len(ms)} ELSE {}
    /\ u.status = "failed" => u.outcome \notin {"ok", "unfiled"}

ConvInv ==
    /\ TypeOK /\ PointersSound
    /\ \A m \in Messages : GoodChat(chat[m], sessions, run[m]) /\ GoodRun(run[m], messages[m])

-----------------------------------------------------------------------------
(* What steps of a kind keep.                                              *)

\* A handler goes on, and the stores and runs stay.
LEMMA ChatGoes ==
    ASSUME ConvInv, NEW m \in Messages, NEW c \in ChatRecords, GoodChat(c, sessions, run[m]),
           chat' = [chat EXCEPT ![m] = c], UNCHANGED <<storeVars, run>>, faults' \in 0..MaxFaults
    PROVE  ConvInv'
<1>1. UNCHANGED <<sessions, messages, activeSession, activeAgent, run>>
  BY DEF storeVars
<1>2. chat' \in [Messages -> ChatRecords]
      /\ \A q \in Messages : chat'[q] = IF q = m THEN c ELSE chat[q]
  BY DEF ConvInv, TypeOK
<1>3. TypeOK'
  BY <1>1, <1>2 DEF ConvInv, TypeOK, StoreTypeOK
<1>4. PointersSound'
  BY <1>1 DEF ConvInv, PointersSound, Exists, Fits
<1>5. \A q \in Messages : GoodChat(chat[q], sessions, run[q])' /\ GoodRun(run[q], messages[q])'
  BY <1>1, <1>2 DEF ConvInv
<1>6. QED
  BY <1>3, <1>4, <1>5 DEF ConvInv

\* A run goes on, perhaps with a word in its session.
LEMMA RunGoes ==
    ASSUME ConvInv, NEW m \in Messages, NEW u \in RunRecords, run' = [run EXCEPT ![m] = u],
           NEW ms \in Seq({"ask", "tool", "answer", "failure"}),
           messages' = [messages EXCEPT ![m] = ms],
           GoodRun(u, ms), chat[m].pc \in BeforeRun => u.pc = "none",
           run[m].status = "completed" => u.status = "completed",
           UNCHANGED <<sessions, activeSession, activeAgent, chat>>, faults' \in 0..MaxFaults
    PROVE  ConvInv'
<1>1. /\ run' \in [Messages -> RunRecords]
      /\ \A q \in Messages : run'[q] = IF q = m THEN u ELSE run[q]
  BY DEF ConvInv, TypeOK
<1>2. /\ messages' \in [Messages -> Seq({"ask", "tool", "answer", "failure"})]
      /\ \A q \in Messages : messages'[q] = IF q = m THEN ms ELSE messages[q]
  BY ConversationsAssumption DEF ConvInv, TypeOK, StoreTypeOK
<1>3. TypeOK'
  BY <1>1, <1>2, ConversationsAssumption DEF ConvInv, TypeOK, StoreTypeOK
<1>4. PointersSound'
  BY DEF ConvInv, PointersSound, Exists, Fits
<1>5. \A q \in Messages : GoodRun(run[q], messages[q])'
  BY <1>1, <1>2 DEF ConvInv
<1>6. \A q \in Messages : GoodChat(chat[q], sessions, run[q])'
  BY <1>1 DEF ConvInv, GoodChat
<1>7. QED
  BY <1>3, <1>4, <1>5, <1>6 DEF ConvInv

-----------------------------------------------------------------------------
(* Handlers.                                                               *)

\* What a record of a handler that has gone on to pc looks like.
LEMMA RecordTypes ==
    ASSUME ConvInv, NEW m \in Messages
    PROVE  /\ chat[m] \in ChatRecords /\ run[m] \in RunRecords
           /\ GoodChat(chat[m], sessions, run[m]) /\ GoodRun(run[m], messages[m])
           /\ faults \in 0..MaxFaults /\ MaxFaults \in Nat
  BY ConversationsAssumption DEF ConvInv, TypeOK

LEMMA SessionTypes ==
    ASSUME ConvInv, NEW s \in DOMAIN sessions
    PROVE  sessions[s] \in [agent : Agents, room : Rooms, closed : BOOLEAN] /\ s \in Ids
<1> DEFINE T == [agent : Agents, room : Rooms, closed : BOOLEAN]
<1>1. sessions \in Seq(T) /\ Len(sessions) <= MaxSessions
  BY DEF ConvInv, TypeOK, StoreTypeOK
<1> HIDE DEF T
<1>2. sessions[s] \in T /\ s \in 1..Len(sessions) /\ Len(sessions) \in Nat
  BY <1>1
<1>3. s \in Ids
  BY <1>1, <1>2, StoreAssumption DEF Ids
<1>4. QED
  BY <1>2, <1>3 DEF T

LEMMA FaultsCounted ==
    ASSUME ConvInv, NEW m \in Messages, Fault(m) \/ NoFault
    PROVE  faults' \in 0..MaxFaults
  BY ConversationsAssumption DEF ConvInv, TypeOK, Fault, NoFault

\* A handler that ends says so, and may give an answer only if there is one.
LEMMA ReplyKeeps ==
    ASSUME ConvInv, NEW m \in Messages, NEW from, NEW what \in {"text", "answer"},
           Reply(m, from, what), what = "answer" => run[m].status = "completed",
           UNCHANGED <<storeVars, run>>, faults' \in 0..MaxFaults
    PROVE  ConvInv'
<1> DEFINE c == [NoChat EXCEPT !.pc = "done", !.reply = what]
<1>1. NoChat \in ChatRecords
  BY StoreAssumption DEF NoChat, ChatRecords
<1>2. c \in ChatRecords /\ c.pc = "done" /\ c.reply = what
  BY <1>1 DEF ChatRecords
<1>3. chat' = [chat EXCEPT ![m] = c]
  BY DEF Reply
<1> HIDE DEF c
<1>4. GoodChat(c, sessions, run[m])
  BY <1>2 DEF GoodChat, BeforeRun
<1>5. QED
  BY <1>2, <1>3, <1>4, ChatGoes

LEMMA RoutedIsAgent ==
    ASSUME ConvInv, NEW r \in Rooms, NEW n \in Named
    PROVE  RoutedAgent(ChannelAgent(n), r) \in Agents
  BY ConversationsAssumption, StoreAssumption
  DEF ConvInv, TypeOK, StoreTypeOK, RoutedAgent, ChannelAgent, AgentOf

LEMMA ArriveKeeps == ASSUME ConvInv, NEW m \in Messages, Arrive(m) PROVE ConvInv'
<1>1. PICK kind \in {"ask", "new", "agent", "resume"}, arg \in {0} \cup Ids \cup Agents :
        /\ Arrives(m, kind, arg)
        /\ kind = "agent" => arg \in Agents
  <2>1. DOMAIN sessions \subseteq Ids
    BY SessionTypes
  <2>2. QED
    BY <2>1 DEF Arrive
<1>2. PICK r \in Rooms, n \in Named :
        chat' = [chat EXCEPT ![m] = [@ EXCEPT !.pc = kind, !.kind = kind, !.arg = arg, !.room = r,
                                              !.agent = RoutedAgent(ChannelAgent(n), r)]]
  BY <1>1 DEF Arrives
<1> DEFINE g == RoutedAgent(ChannelAgent(n), r)
           c == [chat[m] EXCEPT !.pc = kind, !.kind = kind, !.arg = arg, !.room = r, !.agent = g]
<1>3. g \in Agents
  BY RoutedIsAgent
<1>4. chat' = [chat EXCEPT ![m] = c] /\ chat[m].pc = "idle"
  BY <1>1, <1>2 DEF Arrives
<1> HIDE DEF g
<1>5. c \in ChatRecords /\ c.pc = kind /\ c.arg = arg /\ c.agent = g /\ c.reply = chat[m].reply
  BY <1>1, <1>3, RecordTypes DEF ChatRecords
<1> HIDE DEF c
<1>6. GoodChat(c, sessions, run[m])
  BY <1>1, <1>3, <1>4, <1>5, RecordTypes DEF GoodChat, BeforeRun
<1>7. UNCHANGED <<storeVars, run>> /\ faults' \in 0..MaxFaults
  BY <1>1, FaultsCounted DEF Arrives
<1>8. QED
  BY <1>4, <1>5, <1>6, <1>7, ChatGoes

LEMMA ResumeKeeps == ASSUME ConvInv, NEW m \in Messages, Resume(m) PROVE ConvInv'
<1>1. UNCHANGED <<storeVars, run>> /\ faults' \in 0..MaxFaults
  BY FaultsCounted DEF Resume
<1>2. CASE ~Resumable(m)
  BY <1>1, <1>2, ReplyKeeps DEF Resume
<1>3. CASE Resumable(m)
  <2> DEFINE c == [chat[m] EXCEPT !.pc = "point", !.session = chat[m].arg, !.arg = 0]
  <2>1. chat' = [chat EXCEPT ![m] = c] /\ chat[m].pc = "resume"
    BY <1>3 DEF Resume
  <2>2. chat[m].arg \in DOMAIN sessions
    BY <1>3 DEF Resumable, Exists
  <2>3. chat[m].arg \in 0..MaxSessions
    BY <2>2, StoreAssumption DEF ConvInv, TypeOK, StoreTypeOK
  <2>4. /\ c \in ChatRecords /\ c.pc = "point" /\ c.session = chat[m].arg
        /\ c.agent = chat[m].agent /\ c.room = chat[m].room /\ c.reply = chat[m].reply
    BY <2>3, RecordTypes DEF ChatRecords
  <2> HIDE DEF c
  <2>5. c.agent \in Agents
    <3>1. sessions[chat[m].arg].agent \in Agents
      BY <2>2, SessionTypes
    <3>2. QED
      BY <1>3, <2>4, <3>1 DEF Resumable, Fits
  <2>6. GoodChat(c, sessions, run[m])
    BY <1>3, <2>1, <2>2, <2>4, <2>5, RecordTypes DEF GoodChat, BeforeRun, Resumable, Fits
  <2>7. QED
    BY <1>1, <2>1, <2>4, <2>6, ChatGoes
<1>4. QED
  BY <1>2, <1>3

\* The handler goes from one place to the next and keeps what it holds.
LEMMA StepKeeps ==
    ASSUME ConvInv, NEW m \in Messages, NEW from \in {"inspect", "point"}, NEW to \in {"append", "write"},
           from = "inspect" => to = "append",
           ChatStep(m, from, to), UNCHANGED <<storeVars, run>>, faults' \in 0..MaxFaults
    PROVE  ConvInv'
<1> DEFINE c == [chat[m] EXCEPT !.pc = to]
<1>1. chat' = [chat EXCEPT ![m] = c] /\ chat[m].pc = from
  BY DEF ChatStep
<1>2. /\ c \in ChatRecords /\ c.pc = to /\ c.session = chat[m].session
      /\ c.agent = chat[m].agent /\ c.room = chat[m].room /\ c.reply = chat[m].reply
  BY RecordTypes DEF ChatRecords
<1> HIDE DEF c
<1>3. GoodChat(c, sessions, run[m])
  BY <1>1, <1>2, RecordTypes DEF GoodChat, BeforeRun
<1>4. QED
  BY <1>1, <1>2, <1>3, ChatGoes

LEMMA ReadPointerKeeps == ASSUME ConvInv, NEW m \in Messages, ReadPointer(m) PROVE ConvInv'
<1> DEFINE s == SessionOf(chat[m].agent, chat[m].room)
           c == [chat[m] EXCEPT !.pc = "inspect", !.session = s]
<1>1. chat' = [chat EXCEPT ![m] = c] /\ chat[m].pc = "ask"
  BY DEF ReadPointer
<1>2. chat[m].agent \in Agents /\ chat[m].room \in Rooms
  BY <1>1, RecordTypes DEF GoodChat, ChatRecords
<1>3. s \in 0..MaxSessions
  BY <1>2 DEF SessionOf, ConvInv, TypeOK, StoreTypeOK
<1> HIDE DEF s
<1>4. /\ c \in ChatRecords /\ c.pc = "inspect"
      /\ c.agent = chat[m].agent /\ c.reply = chat[m].reply
  BY <1>3, RecordTypes DEF ChatRecords
<1> HIDE DEF c
<1>5. GoodChat(c, sessions, run[m])
  BY <1>1, <1>2, <1>4, RecordTypes DEF GoodChat, BeforeRun
<1>6. UNCHANGED <<storeVars, run>> /\ faults' \in 0..MaxFaults
  BY FaultsCounted DEF ReadPointer
<1>7. QED
  BY <1>1, <1>4, <1>5, <1>6, ChatGoes

-----------------------------------------------------------------------------
(* The stores.                                                             *)

\* Another session, or a session that is closed, leaves to every session
\* its agent and its room.
LEMMA SessionsGrow ==
    ASSUME ConvInv, NEW ss \in Seq([agent : Agents, room : Rooms, closed : BOOLEAN]),
           Len(ss) <= MaxSessions, sessions' = ss,
           \A s \in DOMAIN sessions : s \in DOMAIN ss /\ ss[s].agent = sessions[s].agent
                                      /\ ss[s].room = sessions[s].room,
           UNCHANGED <<messages, activeSession, activeAgent, run>>,
           faults' \in 0..MaxFaults,
           chat' \in [Messages -> ChatRecords],
           NEW m \in Messages, \A q \in Messages \ {m} : chat'[q] = chat[q],
           GoodChat(chat'[m], ss, run[m])
    PROVE  ConvInv'
<1>1. TypeOK'
  BY DEF ConvInv, TypeOK, StoreTypeOK
<1>2. PointersSound'
  BY DEF ConvInv, PointersSound, Exists, Fits
<1>3. \A q \in Messages : GoodRun(run[q], messages[q])'
  BY DEF ConvInv
<1>4. \A q \in Messages \ {m} : GoodChat(chat[q], ss, run[q])
  BY DEF ConvInv, GoodChat
<1>5. QED
  BY <1>1, <1>2, <1>3, <1>4 DEF ConvInv

LEMMA CreateKeeps ==
    ASSUME ConvInv, NEW m \in Messages, chat[m].pc \in {"new", "inspect"}, Create(m)
    PROVE  ConvInv'
<1> DEFINE c == [chat[m] EXCEPT !.pc = "point", !.session = NewId]
           n == [agent |-> chat[m].agent, room |-> chat[m].room, closed |-> FALSE]
           T == [agent : Agents, room : Rooms, closed : BOOLEAN]
<1>1. /\ chat' = [chat EXCEPT ![m] = c] /\ sessions' = Append(sessions, n) /\ NewId \in Ids
      /\ UNCHANGED <<messages, activeSession, activeAgent, run>>
  BY DEF Create, CreateSession
<1>2. faults' \in 0..MaxFaults
  BY FaultsCounted DEF Create
<1>3. n \in T /\ n.agent = chat[m].agent /\ n.room = chat[m].room /\ chat[m].agent \in Agents
  BY RecordTypes DEF GoodChat, ChatRecords
<1>4. sessions \in Seq(T) /\ Len(sessions) <= MaxSessions /\ NewId = Len(sessions) + 1
  BY DEF ConvInv, TypeOK, StoreTypeOK, NewId
<1>5. NewId \in 0..MaxSessions
  BY <1>1, StoreAssumption DEF Ids
<1>6. /\ c \in ChatRecords /\ c.pc = "point" /\ c.session = NewId
      /\ c.agent = chat[m].agent /\ c.room = chat[m].room /\ c.reply = chat[m].reply
  BY <1>5, RecordTypes DEF ChatRecords
<1> HIDE DEF c, n, T
<1>7. /\ sessions' \in Seq(T) /\ Len(sessions') = NewId /\ sessions'[NewId] = n
      /\ NewId \in DOMAIN sessions'
      /\ \A s \in DOMAIN sessions : s \in DOMAIN sessions' /\ sessions'[s] = sessions[s]
  BY <1>1, <1>3, <1>4
<1>8. chat' \in [Messages -> ChatRecords] /\ chat'[m] = c /\ \A q \in Messages \ {m} : chat'[q] = chat[q]
  BY <1>1, <1>6 DEF ConvInv, TypeOK
<1>9. GoodChat(c, sessions', run[m])
  BY <1>3, <1>6, <1>7, RecordTypes DEF GoodChat, BeforeRun
<1>10. Len(sessions') <= MaxSessions
  BY <1>5, <1>7
<1>11. QED
  BY <1>1, <1>2, <1>7, <1>8, <1>9, <1>10, SessionsGrow DEF T

LEMMA CloseKeeps == ASSUME ConvInv, NEW m \in Messages, ToolClosesSession(m) PROVE ConvInv'
<1>1. PICK s \in DOMAIN sessions : sessions' = [sessions EXCEPT ![s].closed = TRUE]
  BY DEF ToolClosesSession, CloseSession
<1>2. UNCHANGED <<messages, activeSession, activeAgent, chat, run>> /\ faults' \in 0..MaxFaults
  BY FaultsCounted DEF ToolClosesSession, CloseSession
<1> DEFINE T == [agent : Agents, room : Rooms, closed : BOOLEAN]
           n == [sessions[s] EXCEPT !.closed = TRUE]
<1>3. n \in T /\ n.agent = sessions[s].agent /\ n.room = sessions[s].room
  BY SessionTypes
<1>4. sessions \in Seq(T) /\ Len(sessions) <= MaxSessions /\ sessions' = [sessions EXCEPT ![s] = n]
  BY <1>1 DEF ConvInv, TypeOK, StoreTypeOK
<1> HIDE DEF T, n
<1>5. /\ sessions' \in Seq(T) /\ Len(sessions') = Len(sessions)
      /\ DOMAIN sessions' = DOMAIN sessions
      /\ \A q \in DOMAIN sessions : sessions'[q] = IF q = s THEN n ELSE sessions[q]
  BY <1>3, <1>4
<1>6. \A q \in DOMAIN sessions : /\ q \in DOMAIN sessions' /\ sessions'[q].agent = sessions[q].agent
                                 /\ sessions'[q].room = sessions[q].room
  BY <1>3, <1>5
<1>7. GoodChat(chat'[m], sessions', run[m])
  BY <1>2, <1>6, RecordTypes DEF GoodChat
<1>8. chat' \in [Messages -> ChatRecords] /\ \A q \in Messages \ {m} : chat'[q] = chat[q]
  BY <1>2 DEF ConvInv, TypeOK
<1>9. QED
  BY <1>2, <1>4, <1>5, <1>6, <1>7, <1>8, SessionsGrow DEF T

\* A handler goes on and changes a pointer.
LEMMA PointerGoes ==
    ASSUME ConvInv, NEW m \in Messages, NEW c \in ChatRecords, GoodChat(c, sessions, run[m]),
           chat' = [chat EXCEPT ![m] = c], UNCHANGED <<sessions, messages, run>>,
           activeSession' \in [Agents \X Rooms -> 0..MaxSessions],
           activeAgent' \in [Rooms -> Agents \cup {None}],
           PointersSound', faults' \in 0..MaxFaults
    PROVE  ConvInv'
<1>1. chat' \in [Messages -> ChatRecords]
      /\ \A q \in Messages : chat'[q] = IF q = m THEN c ELSE chat[q]
  BY DEF ConvInv, TypeOK
<1>2. TypeOK'
  BY <1>1 DEF ConvInv, TypeOK, StoreTypeOK
<1>3. \A q \in Messages : GoodChat(chat[q], sessions, run[q])' /\ GoodRun(run[q], messages[q])'
  BY <1>1 DEF ConvInv
<1>4. QED
  BY <1>2, <1>3 DEF ConvInv

\* The record of a handler that has answered.
LEMMA Answered ==
    ASSUME ConvInv, NEW m \in Messages
    PROVE  LET c == [NoChat EXCEPT !.pc = "done", !.reply = "text"]
           IN  c \in ChatRecords /\ GoodChat(c, sessions, run[m])
<1> DEFINE c == [NoChat EXCEPT !.pc = "done", !.reply = "text"]
<1>1. NoChat \in ChatRecords
  BY StoreAssumption DEF NoChat, ChatRecords
<1>2. c \in ChatRecords /\ c.pc = "done" /\ c.reply = "text"
  BY <1>1 DEF ChatRecords
<1> HIDE DEF c
<1>3. GoodChat(c, sessions, run[m])
  BY <1>2 DEF GoodChat, BeforeRun
<1>4. QED
  BY <1>2, <1>3 DEF c

LEMMA SwitchKeeps == ASSUME ConvInv, NEW m \in Messages, SwitchAgent(m) PROVE ConvInv'
<1> DEFINE c == [NoChat EXCEPT !.pc = "done", !.reply = "text"]
<1>1. chat[m].pc = "agent" /\ chat' = [chat EXCEPT ![m] = c]
  BY DEF SwitchAgent, Reply
<1>2. c \in ChatRecords /\ GoodChat(c, sessions, run[m])
  BY Answered
<1>3. UNCHANGED <<sessions, messages, activeSession, run>> /\ faults' \in 0..MaxFaults
  BY FaultsCounted DEF SwitchAgent, SetActiveAgentPointer
<1>4. activeAgent' \in [Rooms -> Agents \cup {None}]
  <2>1. chat[m].arg \in Agents
    BY <1>1, RecordTypes DEF GoodChat
  <2>2. QED
    BY <2>1 DEF SwitchAgent, SetActiveAgentPointer, ConvInv, TypeOK, StoreTypeOK
<1> HIDE DEF c
<1>5. PointersSound'
  BY <1>3 DEF ConvInv, PointersSound, Exists, Fits
<1>6. activeSession' \in [Agents \X Rooms -> 0..MaxSessions]
  BY <1>3 DEF ConvInv, TypeOK, StoreTypeOK
<1>7. QED
  BY <1>1, <1>2, <1>3, <1>4, <1>5, <1>6, PointerGoes

LEMMA SetPointerKeeps == ASSUME ConvInv, NEW m \in Messages, SetPointer(m) PROVE ConvInv'
<1> DEFINE a == chat[m].agent
           r == chat[m].room
           s == chat[m].session
<1>1. chat[m].pc = "write"
  BY DEF SetPointer, ChatStep, Reply
<1>2. a \in Agents /\ r \in Rooms /\ s \in DOMAIN sessions /\ sessions[s].agent = a
      /\ sessions[s].room = r
  BY <1>1, RecordTypes DEF GoodChat, ChatRecords
<1>3. /\ activeSession' = [activeSession EXCEPT ![<<a, r>>] = s]
      /\ UNCHANGED <<sessions, messages, activeAgent, run>> /\ faults' \in 0..MaxFaults
  BY FaultsCounted DEF SetPointer, WritePointer
<1>4. s \in 0..MaxSessions
  BY RecordTypes DEF ChatRecords
<1>5. /\ activeSession' \in [Agents \X Rooms -> 0..MaxSessions]
      /\ activeAgent' \in [Rooms -> Agents \cup {None}]
  BY <1>2, <1>3, <1>4 DEF ConvInv, TypeOK, StoreTypeOK
<1>6. \A b \in Agents, q \in Rooms :
        activeSession'[<<b, q>>] = IF <<b, q>> = <<a, r>> THEN s ELSE activeSession[<<b, q>>]
  BY <1>2, <1>3 DEF ConvInv, TypeOK, StoreTypeOK
<1>7. PointersSound'
  BY <1>2, <1>3, <1>6 DEF ConvInv, PointersSound, Exists, Fits
<1>8. CASE chat[m].kind = "ask"
  <2> DEFINE c == [chat[m] EXCEPT !.pc = "append"]
  <2>1. chat' = [chat EXCEPT ![m] = c]
    BY <1>8 DEF SetPointer, ChatStep
  <2>2. c \in ChatRecords /\ c.pc = "append" /\ c.agent = a /\ c.reply = chat[m].reply
    BY RecordTypes DEF ChatRecords
  <2> HIDE DEF c
  <2>3. GoodChat(c, sessions, run[m])
    BY <1>1, <1>2, <2>2, RecordTypes DEF GoodChat, BeforeRun
  <2>4. QED
    BY <1>3, <1>5, <1>7, <2>1, <2>2, <2>3, PointerGoes
<1>9. CASE chat[m].kind # "ask"
  <2> DEFINE c == [NoChat EXCEPT !.pc = "done", !.reply = "text"]
  <2>1. chat' = [chat EXCEPT ![m] = c]
    BY <1>9 DEF SetPointer, Reply
  <2>2. c \in ChatRecords /\ GoodChat(c, sessions, run[m])
    BY Answered
  <2> HIDE DEF c
  <2>3. QED
    BY <1>3, <1>5, <1>7, <2>1, <2>2, PointerGoes
<1>10. QED
  BY <1>8, <1>9

-----------------------------------------------------------------------------
(* What is filed.                                                          *)

LEMMA Filed ==
    ASSUME NEW ms \in Seq({"ask", "tool", "answer", "failure"}),
           NEW text \in {"ask", "tool", "answer", "failure"}, AnswersIn(ms) = {}
    PROVE  /\ Append(ms, text) \in Seq({"ask", "tool", "answer", "failure"})
           /\ text # "answer" => AnswersIn(Append(ms, text)) = {}
           /\ text = "answer" => AnswersIn(Append(ms, text)) = {Len(Append(ms, text))}
  BY DEF AnswersIn

LEMMA NoAnswerYet ==
    ASSUME ConvInv, NEW m \in Messages, run[m].pc \notin {"over", "settled", "dead"}
    PROVE  AnswersIn(messages[m]) = {} /\ messages[m] \in Seq({"ask", "tool", "answer", "failure"})
<1>1. messages[m] \in Seq({"ask", "tool", "answer", "failure"})
  BY ConversationsAssumption DEF ConvInv, TypeOK, StoreTypeOK
<1>2. QED
  BY <1>1, RecordTypes DEF GoodRun

LEMMA AppendUserKeeps == ASSUME ConvInv, NEW m \in Messages, AppendUser(m) PROVE ConvInv'
<1> DEFINE c == [chat[m] EXCEPT !.pc = "queue"]
           ms == Append(messages[m], "ask")
<1>1. /\ chat[m].pc = "append" /\ chat' = [chat EXCEPT ![m] = c]
      /\ messages' = [messages EXCEPT ![m] = ms]
      /\ UNCHANGED <<sessions, activeSession, activeAgent, run>>
  BY DEF AppendUser, ChatStep, AppendMessage
<1>2. run[m].pc = "none"
  BY <1>1, RecordTypes DEF GoodChat, BeforeRun
<1>3. ms \in Seq({"ask", "tool", "answer", "failure"}) /\ AnswersIn(ms) = {}
  BY <1>2, NoAnswerYet, Filed
<1>4. c \in ChatRecords /\ c.pc = "queue" /\ c.reply = chat[m].reply
  BY RecordTypes DEF ChatRecords
<1> HIDE DEF c, ms
<1>5. GoodChat(c, sessions, run[m])
  BY <1>1, <1>2, <1>4, RecordTypes DEF GoodChat
<1>6. GoodRun(run[m], ms)
  BY <1>2, <1>3, RecordTypes DEF GoodRun
<1>7. faults' \in 0..MaxFaults
  BY FaultsCounted DEF AppendUser
<1>8. chat' \in [Messages -> ChatRecords] /\ \A q \in Messages : chat'[q] = IF q = m THEN c ELSE chat[q]
  BY <1>1, <1>4 DEF ConvInv, TypeOK
<1>9. /\ messages' \in [Messages -> Seq({"ask", "tool", "answer", "failure"})]
      /\ \A q \in Messages : messages'[q] = IF q = m THEN ms ELSE messages[q]
  BY <1>1, <1>3, ConversationsAssumption DEF ConvInv, TypeOK, StoreTypeOK
<1>10. TypeOK'
  BY <1>1, <1>7, <1>8, <1>9, ConversationsAssumption DEF ConvInv, TypeOK, StoreTypeOK
<1>11. PointersSound'
  BY <1>1 DEF ConvInv, PointersSound, Exists, Fits
<1>12. \A q \in Messages : GoodChat(chat[q], sessions, run[q])' /\ GoodRun(run[q], messages[q])'
  BY <1>1, <1>5, <1>6, <1>8, <1>9 DEF ConvInv
<1>13. QED
  BY <1>10, <1>11, <1>12 DEF ConvInv

-----------------------------------------------------------------------------
(* Runs.                                                                   *)

\* A record before anything is in it.
LEMMA NoRunTypes ==
    /\ NoRun \in RunRecords /\ NoRun.outcome = "none" /\ NoRun.session = 0
    /\ NoChat \in ChatRecords /\ NoChat.reply = "none"
<1>1. 1 \in 1..Attempts /\ 0 \in 0..MaxSessions
  BY ConversationsAssumption, StoreAssumption
<1>2. NoRun \in RunRecords /\ NoRun.outcome = "none" /\ NoRun.session = 0
  BY <1>1 DEF NoRun, RunRecords
<1>3. NoChat \in ChatRecords /\ NoChat.reply = "none"
  BY StoreAssumption DEF NoChat, ChatRecords
<1>4. QED
  BY <1>2, <1>3

LEMMA EnqueueKeeps == ASSUME ConvInv, NEW m \in Messages, Enqueue(m) PROVE ConvInv'
<1> DEFINE c == [NoChat EXCEPT !.pc = "wait"]
           u == [NoRun EXCEPT !.pc = "queued", !.status = "queued", !.session = chat[m].session]
<1>1. /\ chat[m].pc = "queue" /\ chat' = [chat EXCEPT ![m] = c] /\ run' = [run EXCEPT ![m] = u]
      /\ UNCHANGED <<sessions, messages, activeSession, activeAgent>> /\ faults' \in 0..MaxFaults
  BY FaultsCounted DEF Enqueue, storeVars
<1>2. NoChat \in ChatRecords /\ NoChat.reply = "none"
  BY NoRunTypes
<1>3. c \in ChatRecords /\ c.pc = "wait" /\ c.reply = "none"
  BY <1>2 DEF ChatRecords
<1>4. chat[m].session \in 0..MaxSessions
  BY RecordTypes DEF ChatRecords
<1>5. u \in RunRecords /\ u.pc = "queued" /\ u.status = "queued" /\ u.outcome = "none"
  BY <1>4, NoRunTypes DEF RunRecords
<1> HIDE DEF c, u
<1>6. run[m].pc = "none"
  BY <1>1, RecordTypes DEF GoodChat, BeforeRun
<1>7. AnswersIn(messages[m]) = {}
  BY <1>6, NoAnswerYet
<1>8. GoodChat(c, sessions, u)
  BY <1>3 DEF GoodChat, BeforeRun
<1>9. GoodRun(u, messages[m])
  BY <1>5, <1>7 DEF GoodRun
<1>10. /\ chat' \in [Messages -> ChatRecords] /\ run' \in [Messages -> RunRecords]
       /\ \A q \in Messages : /\ chat'[q] = IF q = m THEN c ELSE chat[q]
                              /\ run'[q] = IF q = m THEN u ELSE run[q]
  BY <1>1, <1>3, <1>5 DEF ConvInv, TypeOK
<1>11. TypeOK'
  BY <1>1, <1>10 DEF ConvInv, TypeOK, StoreTypeOK
<1>12. PointersSound'
  BY <1>1 DEF ConvInv, PointersSound, Exists, Fits
<1>13. \A q \in Messages : GoodChat(chat[q], sessions, run[q])' /\ GoodRun(run[q], messages[q])'
  BY <1>1, <1>8, <1>9, <1>10 DEF ConvInv
<1>14. QED
  BY <1>11, <1>12, <1>13 DEF ConvInv

\* A run goes on and nothing is filed.
LEMMA RunAloneGoes ==
    ASSUME ConvInv, NEW m \in Messages, NEW u \in RunRecords, run' = [run EXCEPT ![m] = u],
           GoodRun(u, messages[m]), run[m].pc # "none", run[m].pc # "settled",
           UNCHANGED <<storeVars, chat>>, faults' \in 0..MaxFaults
    PROVE  ConvInv'
<1>1. /\ UNCHANGED <<sessions, messages, activeSession, activeAgent, chat>>
      /\ chat[m].pc \notin BeforeRun /\ run[m].status # "completed"
  BY RecordTypes DEF storeVars, GoodChat, GoodRun
<1>2. /\ messages[m] \in Seq({"ask", "tool", "answer", "failure"})
      /\ messages' = [messages EXCEPT ![m] = messages[m]]
  BY <1>1, ConversationsAssumption DEF ConvInv, TypeOK, StoreTypeOK
<1>3. QED
  BY <1>1, <1>2, RunGoes

\* The steps of a run that files nothing.
LEMMA RunStepsKeep ==
    ASSUME ConvInv, NEW m \in Messages,
           \/ StartRun(m) \/ BeginFails(m) \/ LoadSession(m) \/ AnswerLost(m) \/ Retry(m)
           \/ Settle(m) \/ Cancel(m)
    PROVE  ConvInv'
<1>1. UNCHANGED <<storeVars, chat>> /\ run[m].pc \notin {"none", "settled", "dead"}
  BY DEF StartRun, BeginFails, LoadSession, AnswerLost, Retry, Settle, Cancel
<1>2. faults' \in 0..MaxFaults
  BY FaultsCounted DEF StartRun, BeginFails, LoadSession, AnswerLost, Retry, Settle, Cancel
<1>3. run[m] \in RunRecords /\ GoodRun(run[m], messages[m])
  BY RecordTypes
<1>4. SUFFICES \E u \in RunRecords : run' = [run EXCEPT ![m] = u] /\ GoodRun(u, messages[m])
  BY <1>1, <1>2, RunAloneGoes
<1>5. CASE StartRun(m)
  <2> DEFINE u == [run[m] EXCEPT !.pc = "begin", !.status = "running"]
  <2>1. run' = [run EXCEPT ![m] = u] /\ run[m].pc = "queued"
    BY <1>5 DEF StartRun
  <2>2. u \in RunRecords /\ u.pc = "begin" /\ u.status = "running" /\ u.outcome = run[m].outcome
    BY <1>3 DEF RunRecords
  <2> HIDE DEF u
  <2>3. QED
    BY <1>3, <2>1, <2>2 DEF GoodRun
<1>6. CASE BeginFails(m) \/ AnswerLost(m) \/ (LoadSession(m) /\ IsClosed(run[m].session))
  <2>1. PICK e \in {"error", "timeout", "canceled", "unfiled"} : Over(m, e)
    BY <1>6 DEF BeginFails, AnswerLost, LoadSession, Errors
  <2> DEFINE u == [run[m] EXCEPT !.pc = "over", !.outcome = e]
  <2>2. run' = [run EXCEPT ![m] = u] /\ run[m].pc \in {"begin", "working"}
    BY <1>6, <2>1 DEF BeginFails, AnswerLost, LoadSession, Over
  <2>3. u \in RunRecords /\ u.pc = "over" /\ u.status = run[m].status /\ u.outcome = e
    BY <1>3, <2>1 DEF RunRecords
  <2> HIDE DEF u
  <2>4. GoodRun(u, messages[m])
    BY <1>3, <2>2, <2>3 DEF GoodRun
  <2>5. QED
    BY <2>2, <2>3, <2>4
<1>7. CASE LoadSession(m) /\ ~IsClosed(run[m].session)
  <2> DEFINE u == [run[m] EXCEPT !.pc = "working"]
  <2>1. run' = [run EXCEPT ![m] = u] /\ run[m].pc = "begin"
    BY <1>7 DEF LoadSession
  <2>2. u \in RunRecords /\ u.pc = "working" /\ u.status = run[m].status /\ u.outcome = run[m].outcome
    BY <1>3 DEF RunRecords
  <2> HIDE DEF u
  <2>3. QED
    BY <1>3, <2>1, <2>2 DEF GoodRun
<1>8. CASE Retry(m)
  <2> DEFINE u == [run[m] EXCEPT !.pc = "begin", !.attempt = @ + 1, !.outcome = "none"]
  <2>1. run' = [run EXCEPT ![m] = u] /\ run[m].pc = "over" /\ run[m].outcome = "timeout"
        /\ run[m].attempt < Attempts
    BY <1>8 DEF Retry, Retryable
  <2>2. run[m].attempt + 1 \in 1..Attempts
    BY <1>3, <2>1, ConversationsAssumption DEF RunRecords
  <2>3. u \in RunRecords /\ u.pc = "begin" /\ u.status = run[m].status /\ u.outcome = "none"
    BY <1>3, <2>2 DEF RunRecords
  <2> HIDE DEF u
  <2>4. QED
    BY <1>3, <2>1, <2>3 DEF GoodRun
<1>9. CASE Settle(m)
  <2> DEFINE u == [NoRun EXCEPT !.pc = "settled", !.status = Verdict(m), !.outcome = run[m].outcome]
  <2>1. run' = [run EXCEPT ![m] = u] /\ run[m].pc = "over"
    BY <1>9 DEF Settle
  <2>2. Verdict(m) \in {"completed", "failed", "canceled"}
        /\ (Verdict(m) = "failed" => run[m].outcome \notin {"ok", "unfiled"})
    BY DEF Verdict
  <2>3. u \in RunRecords /\ u.pc = "settled" /\ u.status = Verdict(m) /\ u.outcome = run[m].outcome
    <3>1. run[m].outcome \in {"none", "ok", "unfiled", "error", "timeout", "canceled"}
      BY <1>3 DEF RunRecords
    <3>2. QED
      BY <2>2, <3>1, NoRunTypes DEF RunRecords
  <2> HIDE DEF u
  <2>4. GoodRun(u, messages[m])
    BY <1>3, <2>1, <2>2, <2>3 DEF GoodRun
  <2>5. QED
    BY <2>1, <2>3, <2>4
<1>10. CASE Cancel(m)
  <2> DEFINE u == [run[m] EXCEPT !.canceled = TRUE]
  <2>1. run' = [run EXCEPT ![m] = u]
    BY <1>10 DEF Cancel
  <2>2. u \in RunRecords /\ u.pc = run[m].pc /\ u.status = run[m].status /\ u.outcome = run[m].outcome
    BY <1>3 DEF RunRecords
  <2> HIDE DEF u
  <2>3. QED
    BY <1>3, <2>1, <2>2 DEF GoodRun
<1>11. QED
  BY <1>5, <1>6, <1>7, <1>8, <1>9, <1>10

\* The steps that file a word.  An attempt has filed no answer before.
LEMMA FilesKeep ==
    ASSUME ConvInv, NEW m \in Messages, FileTool(m) \/ FileAnswer(m) \/ WorkFails(m)
    PROVE  ConvInv'
<1> DEFINE Words == {"ask", "tool", "answer", "failure"}
<1>1. /\ run[m].pc = "working" /\ run[m].outcome = "none" /\ run[m].status # "completed"
      /\ run[m].status # "failed" /\ chat[m].pc \notin BeforeRun
  BY RecordTypes DEF FileTool, FileAnswer, WorkFails, GoodRun, GoodChat
<1>2. AnswersIn(messages[m]) = {} /\ messages[m] \in Seq(Words)
  BY <1>1, NoAnswerYet
<1>3. UNCHANGED chat /\ faults' \in 0..MaxFaults
  BY FaultsCounted DEF FileTool, FileAnswer, WorkFails
<1>4. run[m] \in RunRecords /\ GoodRun(run[m], messages[m])
  BY RecordTypes
<1>5. CASE FileTool(m)
  <2> DEFINE ms == Append(messages[m], "tool")
  <2>1. /\ messages' = [messages EXCEPT ![m] = ms]
        /\ UNCHANGED <<sessions, activeSession, activeAgent, run>>
    BY <1>5 DEF FileTool, AppendMessage
  <2>2. ms \in Seq(Words) /\ AnswersIn(ms) = {}
    BY <1>2, Filed
  <2> HIDE DEF ms
  <2>3. run' = [run EXCEPT ![m] = run[m]]
    BY <2>1 DEF ConvInv, TypeOK
  <2>4. GoodRun(run[m], ms)
    BY <1>1, <1>4, <2>2 DEF GoodRun
  <2>5. QED
    BY <1>1, <1>3, <1>4, <2>1, <2>2, <2>3, <2>4, RunGoes
<1>6. CASE FileAnswer(m)
  <2> DEFINE ms == Append(messages[m], "answer")
             u == [run[m] EXCEPT !.pc = "over", !.outcome = "ok"]
  <2>1. /\ messages' = [messages EXCEPT ![m] = ms] /\ run' = [run EXCEPT ![m] = u]
        /\ UNCHANGED <<sessions, activeSession, activeAgent>>
    BY <1>6 DEF FileAnswer, AppendMessage, Over
  <2>2. ms \in Seq(Words) /\ AnswersIn(ms) = {Len(ms)}
    BY <1>2, Filed
  <2>3. u \in RunRecords /\ u.pc = "over" /\ u.status = run[m].status /\ u.outcome = "ok"
    BY <1>4 DEF RunRecords
  <2> HIDE DEF ms, u
  <2>4. GoodRun(u, ms)
    BY <1>1, <1>4, <2>2, <2>3 DEF GoodRun
  <2>5. QED
    BY <1>1, <1>3, <2>1, <2>2, <2>3, <2>4, RunGoes
<1>7. CASE WorkFails(m)
  <2>1. PICK e \in {"error", "timeout", "canceled"} : Over(m, e)
    BY <1>7 DEF WorkFails, Errors
  <2> DEFINE u == [run[m] EXCEPT !.pc = "over", !.outcome = e]
  <2>2. run' = [run EXCEPT ![m] = u]
    BY <2>1 DEF Over
  <2>3. u \in RunRecords /\ u.pc = "over" /\ u.status = run[m].status /\ u.outcome = e
    BY <1>4 DEF RunRecords
  <2> HIDE DEF u
  <2>4. CASE AppendMessage(m, "failure")
    <3> DEFINE ms == Append(messages[m], "failure")
    <3>1. /\ messages' = [messages EXCEPT ![m] = ms]
          /\ UNCHANGED <<sessions, activeSession, activeAgent>>
      BY <2>4 DEF AppendMessage
    <3>2. ms \in Seq(Words) /\ AnswersIn(ms) = {}
      BY <1>2, Filed
    <3> HIDE DEF ms
    <3>3. GoodRun(u, ms)
      BY <1>1, <1>4, <2>3, <3>2 DEF GoodRun
    <3>4. QED
      BY <1>1, <1>3, <2>2, <2>3, <3>1, <3>2, <3>3, RunGoes
  <2>5. CASE UNCHANGED storeVars
    <3>1. GoodRun(u, messages[m])
      BY <1>1, <1>2, <1>4, <2>3 DEF GoodRun
    <3>2. QED
      BY <1>1, <1>3, <2>2, <2>3, <2>5, <3>1, RunAloneGoes
  <2>6. QED
    BY <1>7, <2>4, <2>5 DEF WorkFails
<1>8. QED
  BY <1>5, <1>6, <1>7

\* A handler that has not answered and a run that has no verdict are gone.
LEMMA CrashKeeps == ASSUME ConvInv, Crash PROVE ConvInv'
<1> DEFINE c == [NoChat EXCEPT !.pc = "lost"]
           u(m) == [NoRun EXCEPT !.pc = "dead", !.status = run[m].status]
<1>1. /\ UNCHANGED <<sessions, messages, activeSession, activeAgent>>
      /\ chat' = [m \in Messages |-> IF chat[m].pc \in {"idle", "done"} THEN chat[m] ELSE c]
      /\ run' = [m \in Messages |-> IF run[m].pc \in {"none", "settled"} THEN run[m] ELSE u(m)]
  BY DEF Crash, storeVars
<1>2. faults' \in 0..MaxFaults
  <2>1. faults < MaxFaults /\ faults' = faults + 1
    BY DEF Crash
  <2>2. faults \in 0..MaxFaults
    BY DEF ConvInv, TypeOK
  <2>3. QED
    BY <2>1, <2>2, ConversationsAssumption
<1>3. c \in ChatRecords /\ c.pc = "lost" /\ c.reply = "none"
  BY NoRunTypes DEF ChatRecords
<1>4. \A m \in Messages : /\ u(m) \in RunRecords /\ u(m).pc = "dead"
                          /\ u(m).status = run[m].status /\ u(m).outcome = "none"
  <2> TAKE m \in Messages
  <2>1. run[m].status \in {"none", "queued", "running", "completed", "failed", "canceled"}
    BY RecordTypes DEF RunRecords
  <2>2. QED
    BY <2>1, NoRunTypes DEF RunRecords
<1> HIDE DEF c, u
<1>5. chat' \in [Messages -> ChatRecords] /\ run' \in [Messages -> RunRecords]
  <2>1. \A m \in Messages : chat[m] \in ChatRecords /\ run[m] \in RunRecords
    BY RecordTypes
  <2>2. chat' \in [Messages -> ChatRecords]
    BY <1>1, <1>3, <2>1
  <2>3. run' \in [Messages -> RunRecords]
    BY <1>1, <1>4, <2>1
  <2>4. QED
    BY <2>2, <2>3
<1>6. TypeOK'
  BY <1>1, <1>2, <1>5 DEF ConvInv, TypeOK, StoreTypeOK
<1>7. PointersSound'
  BY <1>1 DEF ConvInv, PointersSound, Exists, Fits
<1>8. ASSUME NEW m \in Messages
      PROVE  GoodChat(chat[m], sessions, run[m])' /\ GoodRun(run[m], messages[m])'
  <2>1. GoodChat(chat[m], sessions, run[m]) /\ GoodRun(run[m], messages[m])
    BY RecordTypes
  <2>2. chat'[m] = IF chat[m].pc \in {"idle", "done"} THEN chat[m] ELSE c
    BY <1>1
  <2>3. run'[m] = IF run[m].pc \in {"none", "settled"} THEN run[m] ELSE u(m)
    BY <1>1
  <2>4. GoodRun(run'[m], messages[m])
    BY <1>4, <2>1, <2>3 DEF GoodRun
  <2>5. GoodChat(chat'[m], sessions, run'[m])
    <3>1. CASE chat[m].pc = "idle"
      BY <2>1, <2>2, <2>3, <3>1 DEF GoodChat, BeforeRun
    <3>2. CASE chat[m].pc = "done"
      BY <2>1, <2>2, <2>3, <3>2 DEF GoodChat, GoodRun, BeforeRun
    <3>3. CASE chat[m].pc \notin {"idle", "done"}
      BY <1>3, <2>2, <3>3 DEF GoodChat, BeforeRun
    <3>4. QED
      BY <3>1, <3>2, <3>3
  <2>6. QED
    BY <1>1, <2>4, <2>5
<1>9. QED
  BY <1>6, <1>7, <1>8 DEF ConvInv

-----------------------------------------------------------------------------
LEMMA InitKeeps == Init => ConvInv
<1> SUFFICES ASSUME Init PROVE ConvInv
  OBVIOUS
<1> DEFINE Words == {"ask", "tool", "answer", "failure"}
<1>1. /\ sessions = <<>> /\ messages = [q \in Messages |-> <<>>]
      /\ activeSession = [x \in Agents \X Rooms |-> 0] /\ activeAgent = [r \in Rooms |-> None]
      /\ chat = [m \in Messages |-> NoChat] /\ run = [m \in Messages |-> NoRun] /\ faults = 0
  BY ConversationsAssumption DEF Init, StoreInit
<1>2. StoreTypeOK
  BY <1>1, StoreAssumption, ConversationsAssumption DEF StoreTypeOK
<1>3. TypeOK
  BY <1>1, <1>2, NoRunTypes, ConversationsAssumption DEF TypeOK
<1>4. PointersSound
  BY <1>1 DEF PointersSound
<1>5. \A m \in Messages : GoodChat(chat[m], sessions, run[m]) /\ GoodRun(run[m], messages[m])
  BY <1>1 DEF NoChat, NoRun, GoodChat, GoodRun, AnswersIn
<1>6. QED
  BY <1>3, <1>4, <1>5 DEF ConvInv

\* What a handler does before and after it touches anything.
LEMMA RepliesKeep ==
    ASSUME ConvInv, NEW m \in Messages,
           \/ Refuse(m) \/ StoreFails(m) \/ QueueRefuses(m) \/ PostVerdict(m) \/ PostTimeout(m)
           \/ KeepSession(m) \/ CheckPointer(m)
    PROVE  ConvInv'
<1>1. UNCHANGED <<storeVars, run>> /\ faults' \in 0..MaxFaults
  BY FaultsCounted DEF Refuse, StoreFails, QueueRefuses, PostVerdict, PostTimeout, KeepSession, CheckPointer
<1>2. CASE KeepSession(m)
  BY <1>1, <1>2, StepKeeps DEF KeepSession
<1>3. CASE CheckPointer(m) /\ MayPoint(chat[m].agent, chat[m].session)
  BY <1>1, <1>3, StepKeeps DEF CheckPointer
<1>4. CASE \E from : Reply(m, from, "text")
  BY <1>1, <1>4, ReplyKeeps
<1>5. CASE run[m].status = "completed" /\ Reply(m, "wait", "answer")
  BY <1>1, <1>5, ReplyKeeps
<1>6. QED
  BY <1>2, <1>3, <1>4, <1>5 DEF Refuse, StoreFails, QueueRefuses, PostVerdict, PostTimeout, CheckPointer

LEMMA NextKeeps == ConvInv /\ [Next]_vars => ConvInv'
<1> SUFFICES ASSUME ConvInv, [Next]_vars PROVE ConvInv'
  OBVIOUS
<1>1. CASE UNCHANGED vars
  <2>1. UNCHANGED <<sessions, messages, activeSession, activeAgent, chat, run, faults>>
    BY <1>1 DEF vars, storeVars
  <2>2. TypeOK'
    BY <2>1 DEF ConvInv, TypeOK, StoreTypeOK
  <2>3. PointersSound'
    BY <2>1 DEF ConvInv, PointersSound, Exists, Fits
  <2>4. QED
    BY <2>1, <2>2, <2>3 DEF ConvInv
<1>2. CASE Crash
  BY <1>2, CrashKeeps
<1>3. ASSUME NEW m \in Messages, Handling(m) PROVE ConvInv'
  <2>1. CASE NewChat(m)
    BY <2>1, CreateKeeps DEF NewChat
  <2>2. CASE ReplaceSession(m)
    BY <2>2, CreateKeeps DEF ReplaceSession
  <2>3. CASE StoreFails(m) \/ QueueRefuses(m) \/ KeepSession(m) \/ CheckPointer(m)
    BY <2>3, RepliesKeep
  <2>4. QED
    BY <1>3, <2>1, <2>2, <2>3, SwitchKeeps, ResumeKeeps, ReadPointerKeeps, SetPointerKeeps,
       AppendUserKeeps, EnqueueKeeps DEF Handling
<1>4. ASSUME NEW m \in Messages, Waiting(m) PROVE ConvInv'
  BY <1>4, RepliesKeep DEF Waiting
<1>5. ASSUME NEW m \in Messages, Running(m) PROVE ConvInv'
  BY <1>5, RunStepsKeep, FilesKeep DEF Running
<1>6. ASSUME NEW m \in Messages, Outside(m) PROVE ConvInv'
  BY <1>6, RepliesKeep, ArriveKeeps, CloseKeeps, RunStepsKeep DEF Outside
<1>7. QED
  BY <1>1, <1>2, <1>3, <1>4, <1>5, <1>6 DEF Next

LEMMA Inductive == Spec => []ConvInv
<1>1. QED
  BY InitKeeps, NextKeeps, PTL DEF Spec

-----------------------------------------------------------------------------
\* Whatever is created, resumed, replaced, closed and retried, every record
\* stays within what connector.go, store.go and pipeline.go know of.
THEOREM RecordsStayTyped == Spec => []TypeOK
<1>1. ConvInv => TypeOK
  BY DEF ConvInv
<1>2. QED
  BY <1>1, Inductive, PTL

\* A room's pointer names a session of its own and of its agent, with any
\* number of handlers between CreateSession, the check of
\* SetActiveSessionPointer and its write, and with crashes between them.
THEOREM PointersStaySound == Spec => []PointersSound
<1>1. ConvInv => PointersSound
  BY DEF ConvInv
<1>2. QED
  BY <1>1, Inductive, PTL

\* Record, session and reply agree however often executeWithRetry runs the
\* whole of ExecuteWithInput again: only the last attempt files an answer.
THEOREM VerdictsMatchConversations == Spec => []VerdictMatchesConversation
<1>1. ConvInv => VerdictMatchesConversation
  <2> SUFFICES ASSUME ConvInv, NEW m \in Messages
               PROVE  /\ run[m].status = "completed" /\ run[m].outcome = "ok" =>
                             Answers(m) = {Len(messages[m])}
                      /\ run[m].status = "failed" => Answers(m) = {}
                      /\ chat[m].reply = "answer" => run[m].status = "completed"
    BY DEF VerdictMatchesConversation
  <2>1. Answers(m) = AnswersIn(messages[m])
    BY DEF Answers, AnswersIn
  <2>2. QED
    BY <2>1, RecordTypes DEF GoodChat, GoodRun
<1>2. QED
  BY <1>1, Inductive, PTL
=============================================================================
