----------------------------- MODULE ChatStore -----------------------------
(***************************************************************************)
(* The store of chat sessions (chatstore/store.go): per agent a directory  *)
(* of sessions, each with its meta and its messages, and small files that  *)
(* say which session and which agent a chat room uses.  Every operation    *)
(* here is atomic: it runs under the lock file of what it writes, a file   *)
(* is replaced by rename, and a session without meta does not exist.  What *)
(* a caller does between two operations is in the modules that use this.   *)
(* A room stands for a channel, a user and a room of the channel.  Of a    *)
(* messages.jsonl only the entries of one question are kept in order: how  *)
(* those of two questions interleave changes nothing below.                *)
(***************************************************************************)
EXTENDS Naturals, Sequences

CONSTANTS
  None,          (* no agent                                                *)
  Agents, Rooms,
  Questions,     (* the user messages entries belong to                     *)
  MaxSessions    (* bound: sessions ever created                            *)

ASSUME StoreAssumption == MaxSessions \in Nat \ {0} /\ None \notin Agents /\ Rooms # {}

VARIABLES
  sessions,      (* the sessions in the order of their creation             *)
  messages,      (* per question, what the session holds of it              *)
  activeSession, (* _active/...: the session of a room with an agent, or 0  *)
  activeAgent    (* _routing/...: the agent a room has switched to, or None *)

storeVars == <<sessions, messages, activeSession, activeAgent>>
Ids       == 1..MaxSessions

StoreInit ==
    /\ sessions = <<>>
    /\ messages = [q \in Questions |-> <<>>]
    /\ activeSession = [x \in Agents \X Rooms |-> 0]
    /\ activeAgent = [r \in Rooms |-> None]

\* sessionDirByIDLocked and readSessionMeta find it.
Exists(s) == s \in DOMAIN sessions
IsClosed(s) == sessions[s].closed

\* It belongs to this agent and room.
Fits(s, a, r) == sessions[s].agent = a /\ sessions[s].room = r

\* GetActiveSessionPointer and GetActiveAgentPointer: none for a room that
\* was never pointed.
SessionOf(a, r) == activeSession[<<a, r>>]
AgentOf(r)      == activeAgent[r]

\* The id the next CreateSession gives.
NewId == Len(sessions) + 1

CreateSession(a, r) ==
    /\ NewId \in Ids
    /\ sessions' = Append(sessions, [agent |-> a, room |-> r, closed |-> FALSE])
    /\ UNCHANGED <<messages, activeSession, activeAgent>>

\* A message for a session that was closed is appended all the same.
AppendMessage(q, text) ==
    /\ messages' = [messages EXCEPT ![q] = Append(@, text)]
    /\ UNCHANGED <<sessions, activeSession, activeAgent>>

\* Closing is idempotent.
CloseSession(s) ==
    /\ sessions' = [sessions EXCEPT ![s].closed = TRUE]
    /\ UNCHANGED <<messages, activeSession, activeAgent>>

\* SetActiveSessionPointer looks first, and writes under another lock.
MayPoint(a, s) == Exists(s) /\ sessions[s].agent = a /\ ~IsClosed(s)
WritePointer(a, r, s) ==
    /\ activeSession' = [activeSession EXCEPT ![<<a, r>>] = s]
    /\ UNCHANGED <<sessions, messages, activeAgent>>

SetActiveAgentPointer(r, a) ==
    /\ activeAgent' = [activeAgent EXCEPT ![r] = a]
    /\ UNCHANGED <<sessions, messages, activeSession>>

StoreTypeOK ==
    /\ sessions \in Seq([agent : Agents, room : Rooms, closed : BOOLEAN])
    /\ Len(sessions) <= MaxSessions
    /\ messages \in [Questions -> Seq({"ask", "tool", "answer", "failure"})]
    /\ activeSession \in [Agents \X Rooms -> 0..MaxSessions]
    /\ activeAgent \in [Rooms -> Agents \cup {None}]
=============================================================================
