------------------------------- MODULE Memory -------------------------------
(***************************************************************************)
(* What an agent remembers.  Each run hands its events to a writer of its  *)
(* own that appends them to a file of the agent behind a bounded queue     *)
(* (memory/manager.go); the run does not wait for it.  Items live in a     *)
(* database with an index of their text and of their vectors               *)
(* (memory/store/sqlite.go), which the memory tools change and search      *)
(* (tools/memory_tools.go), several runs at the same time.                 *)
(***************************************************************************)
EXTENDS Fleet

CONSTANTS
  Recorders,     (* runs that record events                                 *)
  MaxEvents,     (* bound: events of a run                                  *)
  QueueSize,     (* EventBufferSize                                         *)
  Items,         (* memory items                                            *)
  Keepers        (* calls of the memory tools                               *)

VARIABLES
  recorder,      (* per run, its Manager                                    *)
  eventFile,     (* the events on disk, <<run, number>>                     *)
  item,          (* per item, its status, None before it is written         *)
  textIndex,     (* memory_fts                                              *)
  vectorIndex,   (* memory_embeddings                                       *)
  keeper         (* what each call is about to do                           *)

memoryVars == <<recorder, eventFile, item, textIndex, vectorIndex, keeper>>

NoCall == [pc |-> "idle"]

MemoryInit ==
    /\ recorder = [w \in Recorders |-> [pc |-> "open", next |-> 1, queue |-> <<>>, file |-> "none",
                                    dropped |-> {}, failed |-> {}, closeErr |-> FALSE]]
    /\ eventFile = <<>>
    /\ item = [i \in Items |-> None] /\ textIndex = {} /\ vectorIndex = {}
    /\ keeper = [k \in Keepers |-> NoCall]

-----------------------------------------------------------------------------
(* The writer.                                                             *)

\* A full queue refuses the event and counts it; the run goes on.
IngestEvent(w) ==
    /\ recorder[w].pc = "open" /\ recorder[w].next <= MaxEvents
    /\ recorder' = [recorder EXCEPT ![w] =
         LET r == recorder[w] IN
         IF Len(r.queue) < QueueSize
         THEN [r EXCEPT !.next = r.next + 1, !.queue = Append(r.queue, r.next)]
         ELSE [r EXCEPT !.next = r.next + 1, !.dropped = r.dropped \cup {r.next}]]
    /\ UNCHANGED <<eventFile, item, textIndex, vectorIndex, keeper>> /\ NoFault

\* The writer takes an event, opens the file of its day if that is another
\* one or none is open, and flushes the line.
WriteEvent(w, newDay) ==
    /\ recorder[w].pc \in {"open", "closing"} /\ recorder[w].queue # <<>>
    /\ newDay \/ recorder[w].file # "stuck"
    /\ eventFile' = Append(eventFile, <<w, Head(recorder[w].queue)>>)
    /\ recorder' = [recorder EXCEPT ![w].queue = Tail(@), ![w].file = "ok"]
    /\ UNCHANGED <<item, textIndex, vectorIndex, keeper>> /\ NoFault

\* Mutant of WriteEventFails: the first error ends the writer.
WriteEventGivesUp(w) ==
    /\ recorder[w].pc \in {"open", "closing"} /\ recorder[w].queue # <<>>
    /\ recorder[w].file # "stuck" /\ Fault
    /\ recorder' = [recorder EXCEPT ![w].pc = "closed", ![w].queue = <<>>, ![w].closeErr = TRUE,
                                ![w].failed = @ \cup {Head(recorder[w].queue)}]
    /\ UNCHANGED <<eventFile, item, textIndex, vectorIndex, keeper>>

\* Open, write or flush fails.  The buffer keeps its error, so no later event
\* of the day is written; a file that was not opened is tried again.
WriteEventFails(w) ==
    /\ recorder[w].pc \in {"open", "closing"} /\ recorder[w].queue # <<>>
    /\ \/ recorder[w].file = "stuck" /\ NoFault /\ recorder' = [recorder EXCEPT
              ![w].queue = Tail(@), ![w].failed = @ \cup {Head(recorder[w].queue)}]
       \/ recorder[w].file # "stuck" /\ Fault /\ \E f \in {"none", "stuck"} : recorder' = [recorder EXCEPT
              ![w].queue = Tail(@), ![w].failed = @ \cup {Head(recorder[w].queue)},
              ![w].file = f, ![w].closeErr = TRUE]
    /\ UNCHANGED <<eventFile, item, textIndex, vectorIndex, keeper>>

\* The run ends; a goroutine of its own closes the queue and waits.
CloseWriter(w) ==
    /\ \/ recorder[w].pc = "open" /\ recorder' = [recorder EXCEPT ![w].pc = "closing"]
       \/ recorder[w].pc = "closing" /\ recorder[w].queue = <<>>
          /\ recorder' = [recorder EXCEPT ![w].pc = "closed", ![w].file = "none"]
    /\ UNCHANGED <<eventFile, item, textIndex, vectorIndex, keeper>> /\ NoFault

\* Nothing waits for that goroutine when the process ends.
ProcessEnds ==
    /\ \E w \in Recorders : recorder[w].pc \in {"open", "closing"}
    /\ Fault
    /\ recorder' = [w \in Recorders |-> IF recorder[w].pc = "closed" THEN recorder[w]
                                    ELSE [recorder[w] EXCEPT !.pc = "lost"]]
    /\ keeper' = [k \in Keepers |-> NoCall]
    /\ UNCHANGED <<eventFile, item, textIndex, vectorIndex>>

-----------------------------------------------------------------------------
(* The items.  Each of Upsert, Forget and Archive is one transaction.       *)

Statuses == {"active", "forgotten", "archived"}

ASSUME MemoryAssumption == None \notin Statuses /\ QueueSize \in Nat

\* Mutant of Upsert: the index is not told of the status.
UpsertIndexed(i, status) ==
    /\ item' = [item EXCEPT ![i] = status]
    /\ textIndex' = textIndex \cup {i}
    /\ UNCHANGED vectorIndex

\* syncFTS keeps the text of active items only.
Upsert(i, status) ==
    /\ item' = [item EXCEPT ![i] = status]
    /\ textIndex' = IF status = "active" THEN textIndex \cup {i} ELSE textIndex \ {i}
    /\ UNCHANGED vectorIndex

\* Forget and Archive, whatever the status was; an unknown item is not changed.
SetAside(i, status) ==
    /\ item' = IF item[i] = None THEN item ELSE [item EXCEPT ![i] = status]
    /\ textIndex' = textIndex \ {i} /\ vectorIndex' = vectorIndex \ {i}

Call(k, from, to) == keeper[k].pc = from /\ keeper' = [keeper EXCEPT ![k] = to]

\* memory.write; a vector may follow.
WriteItem(k, i) ==
    /\ item[i] = None /\ Call(k, "idle", [pc |-> "vector", item |-> i])
    /\ \E status \in Statuses : Upsert(i, status)
    /\ UNCHANGED <<recorder, eventFile>> /\ NoFault

\* memory.checkpoint: what is new is active, what it updates keeps its status.
CheckpointItem(k, i) ==
    /\ IF item[i] = None
       THEN Call(k, "idle", [pc |-> "vector", item |-> i]) /\ Upsert(i, "active")
       ELSE /\ Call(k, "idle", [pc |-> "update", item |-> i, status |-> item[i]])
            /\ UNCHANGED <<item, textIndex, vectorIndex>>
    /\ UNCHANGED <<recorder, eventFile>> /\ NoFault

\* memory.update reads the item first, as a checkpoint does ...
ReadItem(k, i) ==
    /\ item[i] # None
    /\ \E status \in Statuses \cup {item[i]} :
         Call(k, "idle", [pc |-> "update", item |-> i, status |-> status])
    /\ UNCHANGED <<recorder, eventFile, item, textIndex, vectorIndex>> /\ NoFault

\* ... and write all of it back, its status included.
UpdateItem(k) ==
    /\ Call(k, "update", [pc |-> "vector", item |-> keeper[k].item])
    /\ Upsert(keeper[k].item, keeper[k].status)
    /\ UNCHANGED <<recorder, eventFile>> /\ NoFault

\* maybeSyncMemoryEmbedding asks the provider, long after the transaction;
\* without embeddings, or when it fails, there is no vector.
SyncVector(k) ==
    /\ Call(k, "vector", NoCall)
    /\ vectorIndex' \in {vectorIndex, vectorIndex \cup {keeper[k].item}}
    /\ UNCHANGED <<recorder, eventFile, item, textIndex>> /\ NoFault

ForgetItem(k, i) ==
    /\ Call(k, "idle", NoCall) /\ SetAside(i, "forgotten")
    /\ UNCHANGED <<recorder, eventFile>> /\ NoFault

\* memory.maintenance lists duplicates and stale items among the active ones,
\* then archives one after the other.
ListForMaintenance(k) ==
    /\ \E A \in SUBSET {i \in Items : item[i] = "active"} :
         Call(k, "idle", [pc |-> "archive", items |-> A])
    /\ UNCHANGED <<recorder, eventFile, item, textIndex, vectorIndex>> /\ NoFault

ArchiveItem(k) ==
    /\ keeper[k].pc = "archive"
    /\ IF keeper[k].items = {}
       THEN Call(k, "archive", NoCall) /\ UNCHANGED <<item, textIndex, vectorIndex>>
       ELSE \E i \in keeper[k].items :
              /\ Call(k, "archive", [keeper[k] EXCEPT !.items = @ \ {i}])
              /\ SetAside(i, "archived")
    /\ UNCHANGED <<recorder, eventFile>> /\ NoFault

\* The two halves of the memory touch nothing of each other.
EventsNext == ProcessEnds \/ \E w \in Recorders :
    \/ IngestEvent(w) \/ WriteEventFails(w) \/ CloseWriter(w)
    \/ \E newDay \in BOOLEAN : WriteEvent(w, newDay)

ItemsNext == ProcessEnds \/ \E k \in Keepers :
    \/ UpdateItem(k) \/ SyncVector(k) \/ ListForMaintenance(k) \/ ArchiveItem(k)
    \/ \E i \in Items : WriteItem(k, i) \/ CheckpointItem(k, i) \/ ReadItem(k, i)
                     \/ ForgetItem(k, i)

-----------------------------------------------------------------------------
MemoryTypeOK ==
    /\ \A w \in Recorders : Len(recorder[w].queue) <= QueueSize
    /\ item \in [Items -> Statuses \cup {None}]
    /\ vectorIndex \subseteq Items

\* The places of a run's events in the file, and their numbers.
EventsOf(w) == {i \in DOMAIN eventFile : eventFile[i][1] = w}
Written(w)  == {eventFile[i][2] : i \in EventsOf(w)}

\* Every event of a run whose writer has closed is on file, in order and
\* once, or was counted as dropped, or its writing failed, and then Close
\* says so: a failure does not take the events behind it along unnoticed.
EventsAccounted == \A w \in Recorders :
    recorder[w].pc = "closed" =>
        /\ \A i, j \in EventsOf(w) : i < j => eventFile[i][2] < eventFile[j][2]
        /\ Written(w) = (1..(recorder[w].next - 1)) \ (recorder[w].dropped \cup recorder[w].failed)
        /\ recorder[w].failed # {} => recorder[w].closeErr

\* The text index holds exactly the active items, whichever calls read,
\* forgot, archived and rewrote them in between: no forgotten item is found
\* by its text, and none that is active is missed.
IndexExact == textIndex = {i \in Items : item[i] = "active"}
=============================================================================
