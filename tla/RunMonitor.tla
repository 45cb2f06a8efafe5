----------------------------- MODULE RunMonitor -----------------------------
(***************************************************************************)
(* The runs the dashboard shows (collectMonitorRuns, dashboard/handler.go). *)
(* Nothing keeps that list: every request puts it together from the audit  *)
(* files, from which runs the process tracks, from the run store and from  *)
(* the dashboard's own notes about cancellations, read one after another   *)
(* while the runs go on.  Runs of sub-agents are not in the store.         *)
(***************************************************************************)
EXTENDS Fleet

CONSTANTS
  StoredRuns,    (* runs that came through the queue                        *)
  SubRuns,       (* runs of sub-agents                                      *)
  MaxTries,      (* queuedRunMaxAttempts                                    *)
  MaxWatched     (* bound: runs that begin; the list treats each by itself  *)

ASSUME MonitorAssumption ==
    /\ StoredRuns \cap SubRuns = {} /\ MaxTries \in Nat
    /\ None \notin {"completed", "failed", "canceled", "queued", "running"}

VARIABLES
  job,           (* per run, how far it is                                  *)
  trail,         (* per run, its events in the audit file                   *)
  filed,         (* per run, its status in the store                        *)
  noted,         (* per run, the dashboard's note                           *)
  aged,          (* runs that began longer ago than monitorStaleUntrackedRunTTL *)
  view           (* the request being answered, for one run of the list     *)

monitorVars == <<job, trail, filed, noted, aged, view>>

Watched  == StoredRuns \cup SubRuns
Verdicts == {"completed", "failed", "canceled"}
NoView   == [pc |-> "idle"]

MonitorInit ==
    /\ job = [r \in Watched |-> [pc |-> "none", tries |-> 0, verdict |-> None]]
    /\ trail = [r \in Watched |-> <<>>] /\ filed = [r \in Watched |-> None]
    /\ noted = [r \in Watched |-> None] /\ aged = {} /\ view = NoView

\* runCancelCoordinator: the engine tracks a run while it executes, the queue
\* from the time it was stored until its status is.
Tracked(r) == job[r].pc \in {"tracked", "going", "ended"}
                            \cup (IF r \in StoredRuns THEN {"waiting", "settling", "filed"} ELSE {})
Alive(r)   == job[r].pc \in {"tracked", "going", "ended"}

Moves(r, from, to) == job[r].pc = from /\ job' = [job EXCEPT ![r].pc = to]

MayBegin == Cardinality({r \in Watched : job[r].pc # "none"}) < MaxWatched

-----------------------------------------------------------------------------
(* The run.                                                                *)

QueueStored(r) ==
    /\ r \in StoredRuns /\ MayBegin /\ Moves(r, "none", "stored")
    /\ filed' = [filed EXCEPT ![r] = "queued"]
    /\ UNCHANGED <<trail, noted, aged, view>> /\ NoFault

TrackQueued(r) ==
    /\ Moves(r, "stored", "waiting")
    /\ UNCHANGED <<trail, filed, noted, aged, view>> /\ NoFault

BeginExecution(r) ==
    /\ \/ r \in StoredRuns /\ Moves(r, "waiting", "tracked")
          /\ filed' = [filed EXCEPT ![r] = "running"]
       \/ r \in SubRuns /\ MayBegin /\ Moves(r, "none", "tracked") /\ UNCHANGED filed
    /\ UNCHANGED <<trail, noted, aged, view>> /\ NoFault

\* run.start; an event that cannot be written is dropped.
LogStart(r) ==
    /\ Moves(r, "tracked", "going")
    /\ \/ trail' = [trail EXCEPT ![r] = Append(@, "start")] /\ NoFault
       \/ UNCHANGED trail /\ Fault
    /\ UNCHANGED <<filed, noted, aged, view>>

\* run.end is written before the run is no longer tracked.
LogEnd(r, verdict) ==
    /\ job[r].pc = "going"
    /\ job' = [job EXCEPT ![r].pc = "ended", ![r].verdict = verdict, ![r].tries = @ + 1]
    /\ \/ trail' = [trail EXCEPT ![r] = Append(@, verdict)] /\ NoFault
       \/ UNCHANGED trail /\ Fault
    /\ UNCHANGED <<filed, noted, aged, view>>

\* The engine may also give up before it logs anything.
FailEarly(r) ==
    /\ job[r].pc = "tracked"
    /\ job' = [job EXCEPT ![r].pc = "ended", ![r].verdict = "failed", ![r].tries = MaxTries]
    /\ UNCHANGED <<trail, filed, noted, aged, view>> /\ NoFault

Untrack(r) ==
    /\ Moves(r, "ended", IF r \in StoredRuns THEN "settling" ELSE "over")
    /\ UNCHANGED <<trail, filed, noted, aged, view>> /\ NoFault

\* executeWithRetry runs it again, under the same id.
RunAgain(r) ==
    /\ job[r].verdict = "failed" /\ job[r].tries < MaxTries /\ Moves(r, "settling", "tracked")
    /\ UNCHANGED <<trail, filed, noted, aged, view>> /\ NoFault

\* A status the store does not take is not tried again.
FileVerdict(r) ==
    /\ Moves(r, "settling", "filed")
    /\ \/ filed' = [filed EXCEPT ![r] = job[r].verdict] /\ NoFault
       \/ UNCHANGED filed /\ Fault
    /\ UNCHANGED <<trail, noted, aged, view>>

LeaveQueue(r) ==
    /\ Moves(r, "filed", "over")
    /\ UNCHANGED <<trail, filed, noted, aged, view>> /\ NoFault

\* The process ends: nothing is tracked or noted, and no run takes up again.
MonitorCrash ==
    /\ Fault
    /\ job' = [r \in Watched |-> IF job[r].pc \in {"none", "over"} THEN job[r]
                                 ELSE [job[r] EXCEPT !.pc = "lost"]]
    /\ noted' = [r \in Watched |-> None] /\ view' = NoView
    /\ UNCHANGED <<trail, filed, aged>>

GrowOld(r) ==
    /\ r \notin aged /\ trail[r] # <<>>
    /\ aged' = aged \cup {r}
    /\ UNCHANGED <<job, trail, filed, noted, view>> /\ NoFault

-----------------------------------------------------------------------------
(* The dashboard.                                                          *)

\* handleMonitorRunControl: what is tracked is told to stop, what is over is
\* noted with its status, and of anything else it is noted that it was.
CancelFromMonitor(r) ==
    /\ job[r].pc # "none"
    /\ noted' = [noted EXCEPT ![r] =
         IF ~Tracked(r) /\ filed[r] \in Verdicts THEN filed[r] ELSE "canceled"]
    /\ UNCHANGED <<job, trail, filed, aged, view>> /\ NoFault

NoteExpires(r) ==
    /\ noted[r] # None
    /\ noted' = [noted EXCEPT ![r] = None]
    /\ UNCHANGED <<job, trail, filed, aged, view>> /\ NoFault

\* What is on record when the request comes in: of a run of the queue in the
\* store, of a sub-agent's in the audit file.
KnownVerdict(r) ==
    IF filed[r] \in Verdicts THEN filed[r]
    ELSE IF r \in SubRuns /\ trail[r] # <<>> /\ LastOf(trail[r]) # "start" THEN LastOf(trail[r])
    ELSE None

OpenMonitor(r) ==
    /\ view.pc \in {"idle", "shown"}
    /\ view' = [pc |-> "reading", run |-> r, line |-> 1, status |-> None, tracked |-> FALSE,
                stored |-> None, retired |-> FALSE, known |-> KnownVerdict(r)]
    /\ UNCHANGED <<job, trail, filed, noted, aged>> /\ NoFault

\* Line by line, asking each time whether the run is tracked.  A start does
\* not take an end back, unless the run is tracked: then it runs again.
ReadAuditLine ==
    /\ view.pc = "reading" /\ view.line <= Len(trail[view.run])
    /\ LET e == trail[view.run][view.line]
           tracked == view.tracked \/ Tracked(view.run)
       IN view' = [view EXCEPT !.line = @ + 1, !.tracked = tracked,
            !.status = IF e # "start" THEN e ELSE IF tracked \/ @ = None THEN "running" ELSE @]
    /\ UNCHANGED <<job, trail, filed, noted, aged>> /\ NoFault

\* mergeStoredRunIntoMonitorRecord: a verdict of the store wins.
ReadRunStore ==
    /\ view.pc = "reading" /\ view.line > Len(trail[view.run])
    /\ LET s == filed[view.run]
           settled == view.status # None /\ s \in Verdicts
       IN view' = [view EXCEPT !.pc = "stored", !.stored = s,
                               !.status = IF settled THEN s ELSE @, !.tracked = @ /\ ~settled]
    /\ UNCHANGED <<job, trail, filed, noted, aged>> /\ NoFault

\* Mutant of AfterNotes: a note is taken over whatever the record says.
AfterNotesAlways(v) ==
    IF noted[v.run] # None THEN [v EXCEPT !.status = noted[v.run], !.tracked = FALSE] ELSE v

\* A note counts until the record has an end; a run that left no line is
\* shown only while there is one.
AfterNotes(v) ==
    IF noted[v.run] # None /\ (IF v.status = None THEN v.stored # None ELSE v.status \notin Verdicts)
    THEN [v EXCEPT !.status = noted[v.run], !.tracked = FALSE] ELSE v

\* shouldRetireStaleUntrackedMonitorRun
Stale(v) == v.status = "running" /\ ~v.tracked /\ v.stored = None /\ v.run \in aged

ReconcileRecords ==
    /\ view.pc = "stored"
    /\ LET v == AfterNotes(view)
           w == IF Stale(v) THEN [v EXCEPT !.status = "failed", !.retired = TRUE] ELSE v
       IN /\ view' = [w EXCEPT !.pc = "shown"]
          /\ noted' = IF w.status \in Verdicts THEN [noted EXCEPT ![w.run] = None] ELSE noted
    /\ UNCHANGED <<job, trail, filed, aged>> /\ NoFault

MonitorNext ==
    \/ \E r \in Watched :
         \/ QueueStored(r) \/ TrackQueued(r) \/ BeginExecution(r) \/ LogStart(r) \/ FailEarly(r)
         \/ Untrack(r) \/ RunAgain(r) \/ FileVerdict(r) \/ LeaveQueue(r) \/ GrowOld(r)
         \/ CancelFromMonitor(r) \/ NoteExpires(r) \/ OpenMonitor(r)
         \/ \E verdict \in Verdicts : LogEnd(r, verdict)
    \/ MonitorCrash \/ ReadAuditLine \/ ReadRunStore \/ ReconcileRecords

-----------------------------------------------------------------------------
MonitorTypeOK ==
    /\ \A r \in Watched : /\ filed[r] \in Verdicts \cup {None, "queued", "running"}
                          /\ SetOf(trail[r]) \subseteq Verdicts \cup {"start"}
    /\ view.pc # "idle" => view.status \in Verdicts \cup {None, "running"}

\* Whatever a run does while a request looks at one source after the other:
\* a run given up as stale is not going on, and a verdict that was on record
\* when the request came in is the one shown, whatever the dashboard has
\* noted of a cancellation.  The exception is a run of which no audit line was
\* read: it is not listed or, while there is a note, shown with the note, which
\* may be that it was canceled (reconcileMonitorRunRecords).
MonitorTruthful == view.pc = "shown" =>
    /\ view.retired => ~Alive(view.run)
    /\ view.known # None => \/ view.status = view.known
                            \/ view.line = 1 /\ view.status \in {None, "canceled"}
=============================================================================
