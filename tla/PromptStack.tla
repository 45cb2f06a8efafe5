---------------------------- MODULE PromptStack ----------------------------
(***************************************************************************)
(* The prompt of an agent, layer by layer, each in a file with all its     *)
(* versions (promptstack/store.go), and the requests of the dashboard that *)
(* change and roll back layers (dashboard/prompt_stack_api.go).  A store   *)
(* locks one call at a time, and the dashboard and each run open stores of *)
(* their own on the same files.  A run only seeds layers from the          *)
(* documents of an agent that has none yet.                                *)
(***************************************************************************)
EXTENDS Fleet

CONSTANTS
  Layers,
  Editors,       (* requests of the dashboard, and runs                     *)
  Runs,          (* those of them that are runs                             *)
  Seeded,        (* layers the documents have content for                   *)
  MaxVersions    (* bound: entries written in all                           *)

ASSUME PromptAssumption == Runs \subseteq Editors /\ Seeded \subseteq Layers

VARIABLES
  layerFile,     (* per layer, its versions                                 *)
  promptClock,
  editor         (* what each request or run is doing                       *)

promptVars == <<layerFile, promptClock, editor>>

Blank == "blank"
FromDocs == "docs"
NoEdit == [pc |-> "idle"]

PromptInit ==
    /\ layerFile = [l \in Layers |-> <<>>] /\ promptClock = 0
    /\ editor = [e \in Editors |-> NoEdit]

\* nextLayerVersion: after normalisation, the last entry is the current one.
Version(h) == IF h = <<>> THEN 0 ELSE LastOf(h).version
Content(h) == IF h = <<>> THEN Blank ELSE LastOf(h).content

TextOf(h, v) == (CHOOSE x \in SetOf(h) : x.version = v).content
Known(h, v)  == \E x \in SetOf(h) : x.version = v

\* The dashboard has one store per instance, each run has its own.
SameStore(e, f) == e = f \/ {e, f} \cap Runs = {}
StoreFree(e) == \A f \in Editors : SameStore(e, f) => editor[f].pc # "write"

-----------------------------------------------------------------------------
(* One call of the store: UpdateLayer or Rollback of a layer.              *)

Set(l, c)     == [layer |-> l, content |-> c, version |-> 0]
Restore(l, v) == [layer |-> l, content |-> Blank, version |-> v]

\* Under the lock of the store: the file is read, ...  (A version to roll back
\* to that another store has overwritten is an error, and ends the request.)
ReadLayer(e) ==
    /\ editor[e].pc = "calls" /\ editor[e].calls # {} /\ StoreFree(e)
    /\ promptClock < MaxVersions
    /\ promptClock' = promptClock + 1
    /\ \E c \in editor[e].calls :
         LET h == layerFile[c.layer]
             text == IF c.version = 0 THEN c.content ELSE TextOf(h, c.version)
         IN editor' = [editor EXCEPT ![e] =
              IF c.version # 0 /\ ~Known(h, c.version) THEN NoEdit
              ELSE [editor[e] EXCEPT !.pc = "write", !.calls = editor[e].calls \ {c},
                      !.layer = c.layer,
                      !.next = Append(h, [content |-> text, version |-> Version(h) + 1,
                                          at |-> promptClock'])]]
    /\ UNCHANGED layerFile /\ NoFault

\* ... and written whole.  (alone: no other write came in since the history
\* for a rollback was read.)
WriteLayer(e) ==
    /\ editor[e].pc = "write"
    /\ layerFile' = [layerFile EXCEPT ![editor[e].layer] = editor[e].next]
    /\ editor' = [f \in Editors |->
                    IF f = e THEN [editor[e] EXCEPT !.pc = "calls", !.layer = None, !.next = <<>>]
                    ELSE IF editor[f].pc = "idle" THEN editor[f]
                    ELSE [editor[f] EXCEPT !.alone = FALSE]]
    /\ UNCHANGED promptClock /\ NoFault

\* The write fails and the request with it: layers already written stay.
WriteLayerFails(e) ==
    /\ editor[e].pc = "write" /\ Fault
    /\ editor' = [editor EXCEPT ![e] = NoEdit]
    /\ UNCHANGED <<layerFile, promptClock>>

-----------------------------------------------------------------------------
(* ensurePromptStackInitialized, before whatever the request is for.       *)

\* A stack nobody has written is seeded from the agent's documents.
SeedCalls == {Set(l, FromDocs) : l \in Seeded}

BeginRequest(e, then, layer) ==
    /\ editor[e].pc = "idle" /\ StoreFree(e)
    /\ editor' = [editor EXCEPT ![e] =
         [pc |-> "calls", then |-> then, target |-> layer, layer |-> None, next |-> <<>>,
          calls |-> IF \A l \in Layers : layerFile[l] = <<>> THEN SeedCalls ELSE {},
          versions |-> [l \in Layers |-> 0], alone |-> FALSE]]
    /\ UNCHANGED <<layerFile, promptClock>> /\ NoFault

CallsDone(e, then) == editor[e].pc = "calls" /\ editor[e].calls = {} /\ editor[e].then = then

\* PUT .../prompt-stack/{layer}
UpdateRequest(e, l) == e \notin Runs /\ BeginRequest(e, "update", l)

UpdateLayer(e) ==
    /\ CallsDone(e, "update")
    /\ editor' = [editor EXCEPT ![e].calls = {Set(editor[e].target, e)}, ![e].target = None,
                                ![e].then = "end"]
    /\ UNCHANGED <<layerFile, promptClock>> /\ NoFault

\* ResolveEffectiveRuntime of a run; the requests that only read do the same.
ResolveStack(e) == e \in Runs /\ BeginRequest(e, "end", None)

RollbackRequest(e) == e \notin Runs /\ BeginRequest(e, "rollback", None)

\* The snapshots the dashboard numbers: the stack after the n-th entry, all
\* layers taken together in the order of time (buildPromptStackTimeline).  The
\* entries of one layer are in that order.
Times == UNION {{x.at : x \in SetOf(layerFile[l])} : l \in Layers}
Past(l, t) == {i \in DOMAIN layerFile[l] : layerFile[l][i].at <= t}
Snapshot(t) == [l \in Layers |-> SubSeq(layerFile[l], 1, Cardinality(Past(l, t)))]

ReadTimeline(e) ==
    /\ CallsDone(e, "rollback") /\ StoreFree(e)
    /\ \E t \in Times :
         editor' = [editor EXCEPT ![e].then = "restore", ![e].alone = TRUE,
                      ![e].versions = [l \in Layers |-> Version(Snapshot(t)[l])]]
    /\ UNCHANGED <<layerFile, promptClock>> /\ NoFault

\* Mutant of RestoreCalls: layers that did not exist yet are left as they are.
RestoreOnly(e) ==
    {Restore(l, editor[e].versions[l]) : l \in {k \in Layers : editor[e].versions[k] > 0}}

\* Layers of the snapshot are rolled back, those it did not have are blanked.
RestoreCalls(e) ==
    {Restore(l, editor[e].versions[l]) : l \in {k \in Layers : editor[e].versions[k] > 0}}
    \cup {Set(l, Blank) : l \in {k \in Layers : editor[e].versions[k] = 0
                                                /\ Version(layerFile[k]) > 0}}

\* GetCurrent, a call of its own.
RestoreSnapshot(e) ==
    /\ CallsDone(e, "restore") /\ StoreFree(e)
    /\ editor' = [editor EXCEPT ![e].calls = RestoreCalls(e), ![e].then = "restored"]
    /\ UNCHANGED <<layerFile, promptClock>> /\ NoFault

EndRequest(e) ==
    /\ CallsDone(e, "end") \/ CallsDone(e, "restored")
    /\ editor' = [editor EXCEPT ![e] = NoEdit]
    /\ UNCHANGED <<layerFile, promptClock>> /\ NoFault

PromptNext == \E e \in Editors :
    \/ ReadLayer(e) \/ WriteLayer(e) \/ WriteLayerFails(e)
    \/ UpdateLayer(e) \/ ResolveStack(e) \/ RollbackRequest(e)
    \/ ReadTimeline(e) \/ RestoreSnapshot(e) \/ EndRequest(e)
    \/ \E l \in Layers : UpdateRequest(e, l)

-----------------------------------------------------------------------------
\* The versions of a layer count up without a gap in every file, whichever
\* stores wrote it at the same time.
PromptTypeOK == \A l \in Layers : \A i \in DOMAIN layerFile[l] :
    /\ layerFile[l][i].version = i
    /\ layerFile[l][i].content \in Editors \cup {Blank, FromDocs}
    /\ layerFile[l][i].at \in 1..promptClock

\* A rollback nobody else wrote during leaves every layer with the content
\* it had at the snapshot, layers that are younger than it blanked, though
\* it rolls back layer by layer and each becomes a new version.
RollbackRestores == \A e \in Editors :
    CallsDone(e, "restored") /\ editor[e].alone =>
        \A l \in Layers :
            LET v == editor[e].versions[l]
            IN Content(layerFile[l]) = IF v = 0 THEN Blank ELSE TextOf(layerFile[l], v)
=============================================================================
