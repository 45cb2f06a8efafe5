------------------------------ MODULE Scheduler ------------------------------
(***************************************************************************)
(* The job scheduler (scheduler/scheduler.go): the server's Store, a cache *)
(* of the jobs file reloaded when the file's stamp changed; the Executor,  *)
(* whose check decides on a snapshot of the jobs, starts them and writes   *)
(* back what it ran; administrators' commands through the same Store; and  *)
(* the other Stores that scheduler tools and the command line open on the  *)
(* same file, each with a mutex of its own.                                *)
(*                                                                         *)
(* A method of a Store holds its mutex from its reload to its save, so the *)
(* server's calls exclude each other; the file changes under them only by  *)
(* another Store.  A write renames a complete file into place or fails.    *)
(***************************************************************************)
EXTENDS Integers, FiniteSets

CONSTANTS OneShots,      (* jobs with an RFC3339 schedule                       *)
          Recurring,     (* jobs with an @every schedule                        *)
          DueAt,         (* the time of every one-shot schedule                 *)
          Period,        (* the interval of every recurring one                 *)
          CatchUp,       (* scheduler.catch_up                                  *)
          SaveFails,     (* the values of "this write fails"                    *)
          QueueRefuses,  (* the values of "the run queue is full"               *)
          MaxTime,       (* bound: the clock stops there, the ticks go on       *)
          MaxCommands,   (* bound: administrators' commands                     *)
          MaxForeign,    (* bound: writes by other Stores                       *)
          MaxReloads,    (* bound: reloads of the file that fail                *)
          MaxCrashes     (* bound: deaths of the server                         *)

Jobs == OneShots \cup Recurring

ASSUME SchedulerAssumption ==
    /\ IsFiniteSet(Jobs) /\ OneShots \cap Recurring = {}
    /\ DueAt \in Nat \ {0} /\ Period \in Nat \ {0} /\ CatchUp \in BOOLEAN
    /\ SaveFails \in (SUBSET BOOLEAN) \ {{}} /\ QueueRefuses \in (SUBSET BOOLEAN) \ {{}}
    /\ MaxTime \in Nat \ {0} /\ {MaxCommands, MaxForeign, MaxReloads, MaxCrashes} \subseteq Nat

VARIABLES
  clock,     (* the time                                                     *)
  file,      (* the jobs file: jobs by identifier, and the paused flag       *)
  cache,     (* Store.jobs and Store.paused of the server's Store            *)
  synced,    (* the file's stamp is the one the server's Store noted         *)
  saving,    (* the server's Store is locked for a save: where it stands     *)
  command,   (* the administrator's command being saved, or NoCommand        *)
  exec,      (* the Executor: its check's state                              *)
  other,     (* another Store between its reload and its save                *)
  intent,    (* what the last acknowledged command made of each job          *)
  started,   (* calls of runJobFunc for each one-shot since it was last added *)
  queued,    (* runs accepted by the queue for each since then               *)
  skipped,   (* one-shots this process let pass as missed and stamped        *)
  unstamped, (* starts of each since then whose stamp was given up           *)
  bounds     (* commands, foreign writes, failed reloads and crashes so far  *)

vars == <<clock, file, cache, synced, saving, command, exec, other, intent,
          started, queued, skipped, unstamped, bounds>>

Job  == [enabled : BOOLEAN, last : 0..MaxTime]
View == [jobs : UNION {[js -> Job] : js \in SUBSET Jobs}, paused : BOOLEAN]

Commands == [what : {"add", "remove", "enable", "disable"}, job : Jobs]
                \cup [what : {"pause", "resume"}, job : {"all"}]
NoCommand == [what |-> "none", job |-> "all"]

Has(view, j)     == j \in DOMAIN view.jobs
Put(view, j, x)  == [view EXCEPT !.jobs = [i \in DOMAIN @ \cup {j} |-> IF i = j THEN x ELSE @[i]]]
Drop(view, j)    == [view EXCEPT !.jobs = [i \in DOMAIN @ \ {j} |-> @[i]]]

\* What has happened to one-shots is counted, until they are added anew.
Counted(count, js)  == [j \in OneShots |-> IF j \in js THEN count[j] + 1 ELSE count[j]]
Forgotten(count, c) == [j \in OneShots |-> IF c.what = "add" /\ j = c.job THEN 0 ELSE count[j]]

IdleExec == [at |-> "idle", now |-> 0, first |-> FALSE, skip |-> {}, todo |-> {}, done |-> {}]
NoOther  == [busy |-> FALSE, view |-> [jobs |-> <<>>, paused |-> FALSE]]

\* A server that starts on a stored jobs file, perhaps without a job in it.
Init ==
    /\ clock = 1
    /\ \E js \in SUBSET Jobs :
         file = [jobs |-> [j \in js |-> [enabled |-> TRUE, last |-> 0]], paused |-> FALSE]
    /\ cache = file /\ synced = TRUE
    /\ saving = "no" /\ command = NoCommand
    /\ exec = [IdleExec EXCEPT !.first = TRUE]
    /\ other = NoOther
    /\ intent = [j \in Jobs |-> "none"]
    /\ started = [j \in OneShots |-> 0] /\ queued = [j \in OneShots |-> 0]
    /\ skipped = {} /\ unstamped = [j \in OneShots |-> 0]
    /\ bounds = [commands |-> 0, foreign |-> 0, reloads |-> 0, crashes |-> 0]

-----------------------------------------------------------------------------
(* The schedules and the Store.                                            *)

\* Mutant of Due: a one-shot is due only after its time.
DueTooLate(view, j, now) ==
    /\ Has(view, j) /\ view.jobs[j].enabled
    /\ LET last == view.jobs[j].last IN
       IF j \in OneShots THEN last = 0 /\ now > DueAt
                         ELSE last = 0 \/ now - last >= Period

\* nextDue.
Due(view, j, now) ==
    /\ Has(view, j) /\ view.jobs[j].enabled
    /\ LET last == view.jobs[j].last IN
       IF j \in OneShots THEN last = 0 /\ now >= DueAt
                         ELSE last = 0 \/ now - last >= Period

\* isMissedRun, of a job that is due.
Missed(view, j, now) ==
    LET last == view.jobs[j].last IN
    IF j \in OneShots THEN last = 0 /\ now > DueAt
                      ELSE last # 0 /\ now - last >= Period

\* reloadLocked: the file is read again when its stamp changed.
Reloaded == IF synced THEN cache ELSE file

\* Mutant of Ran: the next due time is stored for the last run.
RanStampsNextDue(x, j, now) == [enabled |-> x.enabled /\ j \notin OneShots, last |-> now + Period]

\* Mutant of Ran: a one-shot is disabled but not stamped.
RanOnlyDisables(x, j, now) ==
    [enabled |-> x.enabled /\ j \notin OneShots, last |-> IF j \in OneShots THEN x.last ELSE now]

\* What the end of a run makes of a job: updateAfterRun's two assignments.
Ran(x, j, now) == [enabled |-> x.enabled /\ j \notin OneShots, last |-> now]

\* The file cannot be looked at or read: the cache stays as it is.  Of the
\* commands this is an error, and nothing changes.
ReloadFails ==
    /\ saving = "no" /\ bounds.reloads < MaxReloads
    /\ bounds' = [bounds EXCEPT !.reloads = @ + 1]
    /\ UNCHANGED <<cache, synced, saving>>

\* A call that takes the mutex, reloads and does not save.
Read == saving = "no" /\ cache' = Reloaded /\ synced' = TRUE /\ UNCHANGED <<saving, bounds>>

\* One that goes on with the cache if the reload fails (IsPaused, List).
ReadAnyhow == Read \/ ReloadFails

\* A call that takes the mutex, reloads, changes the cache and goes on to save.
Change(view) == saving = "no" /\ saving' = "write" /\ cache' = view /\ synced' = TRUE

-----------------------------------------------------------------------------
(* The Executor's check.                                                   *)

\* A tick: the check asks whether the scheduler is paused.
CheckPaused ==
    /\ exec.at = "idle"
    /\ ReadAnyhow
    /\ IF cache'.paused
       THEN UNCHANGED exec
       ELSE exec' = [exec EXCEPT !.at = "unpaused", !.now = clock]
    /\ UNCHANGED <<clock, file, command, other, intent, started, queued, skipped, unstamped>>

\* List, and the loop that sorts out what is due and what was missed.
ListDue ==
    /\ exec.at = "unpaused"
    /\ ReadAnyhow
    /\ LET due  == {j \in Jobs : Due(cache', j, exec.now)}
           skip == {j \in due : exec.first /\ ~CatchUp /\ Missed(cache', j, exec.now)}
       IN  exec' = [at    |-> IF due = {} THEN "idle" ELSE "running",
                    now   |-> IF due = {} THEN 0 ELSE exec.now,
                    first |-> FALSE, skip |-> skip, todo |-> due \ skip, done |-> {}]
    /\ UNCHANGED <<clock, file, command, other, intent, started, queued, skipped, unstamped>>

\* Mutant of Skip: a missed job is passed over without a stamp.
SkipWithoutStamp(j) ==
    /\ exec.at = "running" /\ j \in exec.skip
    /\ exec' = [exec EXCEPT !.skip = @ \ {j}]
    /\ skipped' = skipped \cup ({j} \cap OneShots)
    /\ Read
    /\ UNCHANGED <<clock, file, command, other, intent, started, queued, unstamped>>

\* updateAfterRun of a job missed while the server was down.  If the reload
\* fails it is not stamped, not even in the cache, and nobody is told.
Skip(j) ==
    /\ exec.at = "running" /\ j \in exec.skip
    /\ exec' = [exec EXCEPT !.skip = @ \ {j}]
    /\ \/ /\ IF Has(Reloaded, j)
             THEN Change(Put(Reloaded, j, Ran(Reloaded.jobs[j], j, exec.now))) /\ UNCHANGED bounds
             ELSE Read
          /\ skipped' = skipped \cup ({j} \cap OneShots)
       \/ ReloadFails /\ UNCHANGED skipped
    /\ UNCHANGED <<clock, file, command, other, intent, started, queued, unstamped>>

\* A worker calls runJobFunc, which queues a run or only logs that it cannot.
\* It needs no mutex, but the Executor's own saves are over by then.
StartJob(j) ==
    /\ exec.at = "running" /\ exec.skip = {} /\ j \in exec.todo
    /\ saving = "no" \/ command # NoCommand
    /\ exec' = [exec EXCEPT !.todo = @ \ {j}, !.done = @ \cup {j}]
    /\ started' = Counted(started, {j})
    /\ \E refuses \in QueueRefuses :
         queued' = Counted(queued, IF refuses THEN {} ELSE {j})
    /\ UNCHANGED <<clock, file, cache, synced, saving, command, other, intent, skipped,
                   unstamped, bounds>>

\* Mutant of Updated: the snapshot's jobs are written back, not the current.
UpdatedFromSnapshot(view, done, now) ==
    [view EXCEPT !.jobs =
        [j \in DOMAIN @ \cup done |-> IF j \in done THEN Ran([enabled |-> TRUE], j, now) ELSE @[j]]]

\* batchUpdateAfterRun stamps the jobs that are still there as they are now.
Updated(view, done, now) ==
    [view EXCEPT !.jobs = [j \in DOMAIN @ |-> IF j \in done THEN Ran(@[j], j, now) ELSE @[j]]]

\* If the reload fails, no job is stamped in the file or in the cache, and
\* check discards the error.
WriteBack ==
    /\ exec.at = "running" /\ exec.skip = {} /\ exec.todo = {}
    /\ exec' = IdleExec
    /\ \/ /\ CASE exec.done = {} -> UNCHANGED <<cache, synced, saving, bounds>>
               [] \E j \in exec.done : Has(Reloaded, j) ->
                    Change(Updated(Reloaded, exec.done, exec.now)) /\ UNCHANGED bounds
               [] OTHER -> Read
          /\ UNCHANGED unstamped
       \/ /\ exec.done # {} /\ ReloadFails
          /\ unstamped' = Counted(unstamped, exec.done)
    /\ UNCHANGED <<clock, file, command, other, intent, started, queued, skipped>>

-----------------------------------------------------------------------------
(* Commands through the server's Store, and the end of every save.         *)

Applies(view, c) == c.what \in {"remove", "enable", "disable"} => Has(view, c.job)

Applied(view, c) ==
    CASE c.what = "add"     -> Put(view, c.job, [enabled |-> TRUE, last |-> 0])
      [] c.what = "remove"  -> Drop(view, c.job)
      [] c.what = "enable"  -> Put(view, c.job, [view.jobs[c.job] EXCEPT !.enabled = TRUE])
      [] c.what = "disable" -> Put(view, c.job, [view.jobs[c.job] EXCEPT !.enabled = FALSE])
      [] c.what = "pause"   -> [view EXCEPT !.paused = TRUE]
      [] c.what = "resume"  -> [view EXCEPT !.paused = FALSE]

\* A job added anew has not run; its command is not acknowledged yet.  One
\* added while a check is busy with its namesake races the check's write back.
Forget(c) ==
    /\ started'   = Forgotten(started, c)
    /\ queued'    = Forgotten(queued, c)
    /\ unstamped' = Forgotten(unstamped, c)
    /\ skipped' = IF c.what = "add" THEN skipped \ {c.job} ELSE skipped
    /\ intent'  = [j \in Jobs |->
                     IF j # c.job THEN intent[j]
                     ELSE IF c.what = "add" /\ j \in exec.todo \cup exec.done THEN "raced" ELSE "none"]

\* Add, Remove, SetJobEnabled or SetPaused.
Command(c) ==
    /\ bounds.commands < MaxCommands
    /\ Applies(Reloaded, c)
    /\ Change(Applied(Reloaded, c))
    /\ command' = c
    /\ Forget(c)
    /\ bounds' = [bounds EXCEPT !.commands = @ + 1]
    /\ UNCHANGED <<clock, file, exec, other>>

\* saveLocked writes the file.  A failure is returned to the administrator
\* and discarded by the Executor; the cache keeps the change either way.
Write ==
    /\ saving = "write"
    /\ \E failing \in SaveFails :
         IF failing
         THEN /\ saving' = "no" /\ command' = NoCommand
              /\ intent' = [j \in Jobs |-> IF j = command.job THEN "failed" ELSE intent[j]]
              /\ UNCHANGED <<file, synced>>
         ELSE /\ saving' = "stat" /\ file' = cache /\ synced' = FALSE
              /\ UNCHANGED <<command, intent>>
    /\ UNCHANGED <<clock, cache, exec, other, started, queued, skipped, unstamped, bounds>>

\* It then notes the stamp of the file it finds, and the command is done.
Stat ==
    /\ saving = "stat"
    /\ saving' = "no" /\ synced' = TRUE /\ command' = NoCommand
    /\ intent' = [j \in Jobs |-> IF j = command.job /\ intent[j] # "raced"
                                 THEN command.what ELSE intent[j]]
    /\ UNCHANGED <<clock, file, cache, exec, other, started, queued, skipped, unstamped, bounds>>

-----------------------------------------------------------------------------
(* Other Stores, time and crashes.                                         *)

\* A tool or the command line opens a Store and changes what it read ...
OtherReads(c) ==
    /\ ~other.busy /\ bounds.foreign < MaxForeign
    /\ Applies(file, c)
    /\ other' = [busy |-> TRUE, view |-> Applied(file, c)]
    /\ Forget(c)
    /\ bounds' = [bounds EXCEPT !.foreign = @ + 1]
    /\ UNCHANGED <<clock, file, cache, synced, saving, command, exec>>

\* ... and writes the whole file.
OtherWrites ==
    /\ other.busy
    /\ file' = other.view /\ synced' = FALSE
    /\ other' = NoOther
    /\ UNCHANGED <<clock, cache, saving, command, exec, intent, started, queued, skipped,
                   unstamped, bounds>>

Pass ==
    /\ clock < MaxTime
    /\ clock' = clock + 1
    /\ UNCHANGED <<file, cache, synced, saving, command, exec, other, intent, started,
                   queued, skipped, unstamped, bounds>>

\* The server dies and a new one loads the file.
Crash ==
    /\ bounds.crashes < MaxCrashes
    /\ bounds' = [bounds EXCEPT !.crashes = @ + 1]
    /\ cache' = file /\ synced' = TRUE /\ saving' = "no" /\ command' = NoCommand
    /\ exec' = [IdleExec EXCEPT !.first = TRUE]
    /\ skipped' = {}
    /\ UNCHANGED <<clock, file, other, intent, started, queued, unstamped>>

-----------------------------------------------------------------------------

\* The steps of the Executor's goroutine and of the saves under way.
Run == CheckPaused \/ ListDue \/ WriteBack \/ \E j \in Jobs : Skip(j) \/ StartJob(j)

Next == \/ Run \/ Write \/ Stat
        \/ \E c \in Commands : Command(c) \/ OtherReads(c)
        \/ OtherWrites \/ Pass \/ Crash

\* The ticker keeps ticking, the Executor's calls get the mutex, and a save
\* under way ends.
Fairness == WF_vars(Run) /\ WF_vars(Write) /\ WF_vars(Stat)

Spec == Init /\ [][Next]_vars /\ Fairness

-----------------------------------------------------------------------------
(* Properties.                                                             *)

\* Every variable keeps its type.
TypeOK ==
    /\ clock \in 1..MaxTime
    /\ file \in View /\ cache \in View /\ other.view \in View
    /\ synced \in BOOLEAN /\ saving \in {"no", "write", "stat"}
    /\ command \in Commands \cup {NoCommand}
    /\ exec.at \in {"idle", "unpaused", "running"} /\ exec.first \in BOOLEAN
    /\ exec.now \in 0..MaxTime
    /\ exec.skip \cup exec.todo \cup exec.done \subseteq Jobs
    /\ started \in [OneShots -> Nat] /\ queued \in [OneShots -> Nat]
    /\ unstamped \in [OneShots -> Nat]
    /\ skipped \subseteq OneShots

\* A one-shot job is started once: again only for each server death between
\* its start and the write back, for each write of another Store that read the
\* file before it, and for each write back of this very job that was given up
\* because its reload failed; a write back whose save failed costs nothing
\* (batchUpdateAfterRun).
NoRepeat ==
    \A j \in OneShots : started[j] <= 1 + bounds.crashes + bounds.foreign + unstamped[j]

\* What an acknowledged command made of a job stays: a removed job does not
\* come back, and a disabled one is not enabled, by the write back of a check
\* that read the job before (batchUpdateAfterRun reads it again).
CommandsKept ==
    bounds.foreign = 0 =>
        \A j \in Jobs : /\ intent[j] = "remove" => ~Has(file, j)
                        /\ intent[j] = "disable" /\ Has(file, j) => ~file.jobs[j].enabled

\* A one-shot job the first check passed over as missed (catch_up = false) and
\* stamped is not started by a later check of the same server, even if the
\* stamp could not be saved, or the file not be read again since.  (One whose
\* stamp was given up, as updateAfterRun's own reload failed, is started.)
MissedStayMissed ==
    [][\A j \in skipped : bounds.foreign = 0 => started'[j] <= started[j]]_vars

\* A stored one-shot that is due does not stay so for ever: some check starts,
\* stamps or skips it, unless the scheduler is paused, another Store wrote the
\* file, a command on the job failed to save, or it was added while a check was
\* busy with its namesake.  (A failed command stays in the cache: the Executor
\* acts on it, and the file says otherwise.  A namesake is stamped as run.)
DueJobStarts ==
    LET waits(j) == /\ Has(file, j) /\ file.jobs[j].enabled
                    /\ file.jobs[j].last = 0 /\ clock >= DueAt
    IN  \A j \in OneShots :
            waits(j) ~> \/ started[j] > 0 \/ ~waits(j) \/ j \in skipped \/ Reloaded.paused
                        \/ bounds.foreign > 0 \/ intent[j] \in {"failed", "raced"}

\* A one-shot job that the Executor stamped as run was given to the run queue,
\* unless it was skipped as missed (ARCHITECTURE.md, "Each scheduled execution
\* enqueues a normal runtime run").
StampedWasQueued ==
    \A j \in OneShots : Has(file, j) /\ file.jobs[j].last # 0 => queued[j] > 0 \/ j \in skipped
==============================================================================
