-------------------------- MODULE Scheduler_proofs --------------------------
(***************************************************************************)
(* Theorems about the job scheduler, for every set of jobs, any schedule   *)
(* and any number of commands, foreign writes, failed reloads and deaths.  *)
(* What a step does to a stored job is said job by job, by Worn, so that   *)
(* the invariants need not open the maps of jobs.                          *)
(***************************************************************************)
EXTENDS Scheduler, TLAPS

-----------------------------------------------------------------------------
(* Views of the jobs.                                                      *)

\* A job that is stored and has never run; one that is not enabled.
Fresh(v, j) == Has(v, j) /\ v.jobs[j].last = 0
Off(v, j)   == Has(v, j) => ~v.jobs[j].enabled

\* From view v to view w, job j has not come back in any way.
Worn(v, w, j) ==
    /\ Has(w, j) => Has(v, j)
    /\ Fresh(w, j) => Fresh(v, j)
    /\ Off(v, j) => Off(w, j)

LEMMA ViewFields ==
    ASSUME NEW v \in View
    PROVE  /\ DOMAIN v.jobs \subseteq Jobs /\ v.jobs \in [DOMAIN v.jobs -> Job]
           /\ v.paused \in BOOLEAN
           /\ \A j \in DOMAIN v.jobs : v.jobs[j] \in Job
<1>1. v.jobs \in UNION {[js -> Job] : js \in SUBSET Jobs} /\ v.paused \in BOOLEAN
  BY DEF View
<1>2. PICK js \in SUBSET Jobs : v.jobs \in [js -> Job]
  BY <1>1
<1>3. QED
  BY <1>1, <1>2

LEMMA WithJobs ==
    ASSUME NEW v \in View, NEW js \in SUBSET Jobs, NEW f \in [js -> Job]
    PROVE  /\ [v EXCEPT !.jobs = f] \in View
           /\ [v EXCEPT !.jobs = f].jobs = f /\ [v EXCEPT !.jobs = f].paused = v.paused
<1> DEFINE All == UNION {[ks -> Job] : ks \in SUBSET Jobs}
<1>1. f \in All
  OBVIOUS
<1>2. v \in [jobs : All, paused : BOOLEAN]
  BY DEF View
<1> HIDE DEF All
<1>3. /\ [v EXCEPT !.jobs = f] \in [jobs : All, paused : BOOLEAN]
      /\ [v EXCEPT !.jobs = f].jobs = f /\ [v EXCEPT !.jobs = f].paused = v.paused
  BY <1>1, <1>2
<1>4. QED
  BY <1>3 DEF View, All

LEMMA PutEffect ==
    ASSUME NEW v \in View, NEW j \in Jobs, NEW x \in Job
    PROVE  /\ Put(v, j, x) \in View
           /\ Has(Put(v, j, x), j) /\ Put(v, j, x).jobs[j] = x
           /\ \A i \in Jobs : i # j => Worn(v, Put(v, j, x), i)
<1> DEFINE js == DOMAIN v.jobs \cup {j}
           f == [i \in js |-> IF i = j THEN x ELSE v.jobs[i]]
<1>1. js \in SUBSET Jobs /\ f \in [js -> Job]
  BY ViewFields
<1>2. Put(v, j, x) = [v EXCEPT !.jobs = f]
  BY DEF Put
<1> HIDE DEF js, f
<1>3. Put(v, j, x) \in View /\ Put(v, j, x).jobs = f
  BY <1>1, <1>2, WithJobs
<1>4. QED
  BY <1>3 DEF Has, Worn, Fresh, Off, js, f

LEMMA DropEffect ==
    ASSUME NEW v \in View, NEW j \in Jobs
    PROVE  /\ Drop(v, j) \in View /\ ~Has(Drop(v, j), j)
           /\ \A i \in Jobs : Worn(v, Drop(v, j), i)
<1> DEFINE js == DOMAIN v.jobs \ {j}
           f == [i \in js |-> v.jobs[i]]
<1>1. js \in SUBSET Jobs /\ f \in [js -> Job]
  BY ViewFields
<1>2. Drop(v, j) = [v EXCEPT !.jobs = f]
  BY DEF Drop
<1> HIDE DEF js, f
<1>3. Drop(v, j) \in View /\ Drop(v, j).jobs = f
  BY <1>1, <1>2, WithJobs
<1>4. QED
  BY <1>3 DEF Has, Worn, Fresh, Off, js, f

LEMMA RanIsJob ==
    ASSUME NEW x \in Job, NEW j \in Jobs, NEW now \in 0..MaxTime
    PROVE  /\ Ran(x, j, now) \in Job /\ Ran(x, j, now).last = now
           /\ Ran(x, j, now).enabled => x.enabled
  BY DEF Ran, Job

\* updateAfterRun of one job.
LEMMA StampEffect ==
    ASSUME NEW v \in View, NEW j \in Jobs, Has(v, j), NEW now \in 0..MaxTime, now > 0
    PROVE  /\ Put(v, j, Ran(v.jobs[j], j, now)) \in View
           /\ \A i \in Jobs : Worn(v, Put(v, j, Ran(v.jobs[j], j, now)), i)
<1> DEFINE x == Ran(v.jobs[j], j, now)
<1>1. v.jobs[j] \in Job
  BY ViewFields DEF Has
<1>2. x \in Job /\ x.last = now /\ (x.enabled => v.jobs[j].enabled)
  BY <1>1, RanIsJob
<1> HIDE DEF x
<1>3. /\ Put(v, j, x) \in View /\ Has(Put(v, j, x), j) /\ Put(v, j, x).jobs[j] = x
      /\ \A i \in Jobs : i # j => Worn(v, Put(v, j, x), i)
  BY <1>2, PutEffect
<1>4. Worn(v, Put(v, j, x), j)
  BY <1>2, <1>3 DEF Worn, Fresh, Off
<1>5. QED
  BY <1>3, <1>4 DEF x

\* batchUpdateAfterRun of all jobs that ran.
LEMMA UpdatedEffect ==
    ASSUME NEW v \in View, NEW done \in SUBSET Jobs, NEW now \in 0..MaxTime, now > 0
    PROVE  /\ Updated(v, done, now) \in View
           /\ \A j \in Jobs : Worn(v, Updated(v, done, now), j)
           /\ \A j \in done : ~Fresh(Updated(v, done, now), j)
<1> DEFINE js == DOMAIN v.jobs
           f == [j \in js |-> IF j \in done THEN Ran(v.jobs[j], j, now) ELSE v.jobs[j]]
<1>1. js \in SUBSET Jobs /\ \A j \in js : v.jobs[j] \in Job
  BY ViewFields
<1>2. \A j \in js : /\ Ran(v.jobs[j], j, now) \in Job /\ Ran(v.jobs[j], j, now).last = now
                    /\ Ran(v.jobs[j], j, now).enabled => v.jobs[j].enabled
  BY <1>1, RanIsJob
<1>3. f \in [js -> Job]
  BY <1>1, <1>2
<1>4. Updated(v, done, now) = [v EXCEPT !.jobs = f]
  BY DEF Updated
<1> HIDE DEF js, f
<1>5. Updated(v, done, now) \in View /\ Updated(v, done, now).jobs = f
  BY <1>1, <1>3, <1>4, WithJobs
<1>6. QED
  BY <1>2, <1>5 DEF Has, Worn, Fresh, Off, js, f

\* A command touches its own job; only add stores one, or one that has not run.
LEMMA AppliedEffect ==
    ASSUME NEW v \in View, NEW c \in Commands, Applies(v, c)
    PROVE  /\ Applied(v, c) \in View
           /\ \A i \in Jobs : i # c.job => Worn(v, Applied(v, c), i)
           /\ c.what # "add" =>
                \A i \in Jobs : Fresh(Applied(v, c), i) => Fresh(v, i)
           /\ c.what = "remove" => ~Has(Applied(v, c), c.job)
           /\ c.what = "disable" => Off(Applied(v, c), c.job)
<1>1. CASE c.what = "add"
  <2> DEFINE x == [enabled |-> TRUE, last |-> 0]
  <2>1. c.job \in Jobs
    BY <1>1 DEF Commands
  <2>2. x \in Job
    BY SchedulerAssumption DEF Job
  <2>3. Applied(v, c) = Put(v, c.job, x)
    BY <1>1 DEF Applied
  <2> HIDE DEF x
  <2>4. QED
    BY <1>1, <2>1, <2>2, <2>3, PutEffect
<1>2. CASE c.what = "remove"
  <2>1. c.job \in Jobs /\ Applied(v, c) = Drop(v, c.job)
    BY <1>2 DEF Commands, Applied
  <2>2. QED
    BY <1>2, <2>1, DropEffect DEF Worn
<1>3. CASE c.what \in {"enable", "disable"}
  <2> DEFINE x == [v.jobs[c.job] EXCEPT !.enabled = (c.what = "enable")]
  <2>1. c.job \in Jobs /\ Has(v, c.job) /\ Applied(v, c) = Put(v, c.job, x)
    <3>1. CASE c.what = "enable"
      BY <3>1 DEF Commands, Applied, Applies
    <3>2. CASE c.what = "disable"
      BY <3>2 DEF Commands, Applied, Applies
    <3>3. QED
      BY <1>3, <3>1, <3>2
  <2>2. v.jobs[c.job] \in Job
    BY <2>1, ViewFields DEF Has
  <2>3. x \in Job /\ x.last = v.jobs[c.job].last /\ x.enabled = (c.what = "enable")
    BY <2>2 DEF Job
  <2> HIDE DEF x
  <2>4. /\ Put(v, c.job, x) \in View
        /\ Has(Put(v, c.job, x), c.job) /\ Put(v, c.job, x).jobs[c.job] = x
        /\ \A i \in Jobs : i # c.job => Worn(v, Put(v, c.job, x), i)
    BY <2>1, <2>3, PutEffect
  <2>5. QED
    BY <1>3, <2>1, <2>3, <2>4 DEF Worn, Fresh, Off
<1>4. CASE c.what \in {"pause", "resume"}
  <2> DEFINE p == (c.what = "pause")
  <2>1. Applied(v, c) = [v EXCEPT !.paused = p]
    <3>1. CASE c.what = "pause"
      BY <3>1 DEF Applied
    <3>2. CASE c.what = "resume"
      BY <3>2 DEF Applied
    <3>3. QED
      BY <1>4, <3>1, <3>2
  <2>2. p \in BOOLEAN
    OBVIOUS
  <2> HIDE DEF p
  <2> DEFINE All == UNION {[ks -> Job] : ks \in SUBSET Jobs}
  <2>3. v \in [jobs : All, paused : BOOLEAN]
    BY DEF View
  <2> HIDE DEF All
  <2>4. Applied(v, c) \in [jobs : All, paused : BOOLEAN] /\ Applied(v, c).jobs = v.jobs
    BY <2>1, <2>2, <2>3
  <2>5. QED
    BY <1>4, <2>4 DEF View, All, Worn, Fresh, Off, Has
<1>5. QED
  BY <1>1, <1>2, <1>3, <1>4 DEF Commands

-----------------------------------------------------------------------------
(* Types, and what goes with the place of the Executor and of a save.      *)

ExecRecords  == [at : {"idle", "unpaused", "running"}, now : 0..MaxTime, first : BOOLEAN,
                 skip : SUBSET Jobs, todo : SUBSET Jobs, done : SUBSET Jobs]
BoundRecords == [commands : Nat, foreign : Nat, reloads : Nat, crashes : Nat]
Intents == {"none", "raced", "failed", "add", "remove", "enable", "disable", "pause", "resume"}

\* A check has a time and decides before it starts anything.
ExecInv ==
    /\ exec \in ExecRecords
    /\ exec.at # "running" => exec.skip = {} /\ exec.todo = {} /\ exec.done = {}
    /\ exec.at # "idle" => exec.now > 0
    /\ exec.todo \cap exec.done = {} /\ exec.skip \cap exec.todo = {}

TInv ==
    /\ clock \in 1..MaxTime
    /\ file \in View /\ cache \in View /\ synced \in BOOLEAN
    /\ saving \in {"no", "write", "stat"} /\ command \in Commands \cup {NoCommand}
    /\ saving = "no" => command = NoCommand
    /\ ExecInv
    /\ other \in [busy : BOOLEAN, view : View]
    /\ other.busy => bounds.foreign > 0
    /\ intent \in [Jobs -> Intents]
    /\ started \in [OneShots -> Nat] /\ queued \in [OneShots -> Nat]
    /\ unstamped \in [OneShots -> Nat]
    /\ skipped \subseteq OneShots
    /\ bounds \in BoundRecords

LEMMA ReloadedView == ASSUME TInv PROVE Reloaded \in View
  BY DEF TInv, Reloaded

LEMMA CommandJob ==
    ASSUME NEW c \in Commands PROVE c.what \in Intents /\ c # NoCommand
  BY DEF Commands, Intents, NoCommand

LEMMA NoOtherTypes == NoOther \in [busy : BOOLEAN, view : View] /\ ~NoOther.busy
<1> DEFINE e == [j \in {} |-> [enabled |-> TRUE, last |-> 0]]
           All == UNION {[ks -> Job] : ks \in SUBSET Jobs}
<1>1. <<>> = e
  OBVIOUS
<1>2. e \in [{} -> Job] /\ {} \in SUBSET Jobs
  OBVIOUS
<1>3. <<>> \in All
  BY <1>1, <1>2
<1> HIDE DEF All
<1>4. [jobs |-> <<>>, paused |-> FALSE] \in [jobs : All, paused : BOOLEAN]
  BY <1>3
<1>5. [jobs |-> <<>>, paused |-> FALSE] \in View
  BY <1>4 DEF View, All
<1>6. QED
  BY <1>5 DEF NoOther

LEMMA IdleExecTypes ==
    /\ IdleExec \in ExecRecords /\ [IdleExec EXCEPT !.first = TRUE] \in ExecRecords
    /\ IdleExec.at = "idle" /\ IdleExec.todo = {} /\ IdleExec.done = {} /\ IdleExec.skip = {}
    /\ [IdleExec EXCEPT !.first = TRUE].at = "idle"
    /\ [IdleExec EXCEPT !.first = TRUE].todo = {} /\ [IdleExec EXCEPT !.first = TRUE].done = {}
    /\ [IdleExec EXCEPT !.first = TRUE].skip = {}
<1>1. 0 \in 0..MaxTime
  BY SchedulerAssumption
<1>2. /\ IdleExec \in ExecRecords /\ IdleExec.at = "idle" /\ IdleExec.todo = {}
      /\ IdleExec.done = {} /\ IdleExec.skip = {}
  BY <1>1 DEF IdleExec, ExecRecords
<1>3. QED
  BY <1>2 DEF ExecRecords

LEMMA TypeInit == Init => TInv
<1> SUFFICES ASSUME Init PROVE TInv
  OBVIOUS
<1>1. file \in View /\ cache = file
  <2>1. PICK js \in SUBSET Jobs :
          file = [jobs |-> [j \in js |-> [enabled |-> TRUE, last |-> 0]], paused |-> FALSE]
    BY DEF Init
  <2> DEFINE f == [j \in js |-> [enabled |-> TRUE, last |-> 0]]
             All == UNION {[ks -> Job] : ks \in SUBSET Jobs}
  <2>2. [enabled |-> TRUE, last |-> 0] \in Job
    BY SchedulerAssumption DEF Job
  <2>3. f \in [js -> Job]
    BY <2>2
  <2>4. f \in All /\ file = [jobs |-> f, paused |-> FALSE]
    BY <2>1, <2>3
  <2> HIDE DEF f, All
  <2>5. file \in [jobs : All, paused : BOOLEAN]
    BY <2>4
  <2>6. QED
    BY <2>5 DEF View, All, Init
<1>2. ExecInv
  BY IdleExecTypes DEF Init, ExecInv
<1>3. /\ intent \in [Jobs -> Intents] /\ started \in [OneShots -> Nat] /\ queued \in [OneShots -> Nat]
      /\ unstamped \in [OneShots -> Nat]
      /\ skipped \subseteq OneShots /\ bounds \in BoundRecords /\ clock \in 1..MaxTime
  BY SchedulerAssumption DEF Init, Intents, BoundRecords
<1>4. QED
  BY <1>1, <1>2, <1>3, NoOtherTypes DEF Init, TInv

\* A failed reload is counted, and changes nothing else.
LEMMA CountReload ==
    ASSUME TInv, bounds' = bounds \/ bounds' = [bounds EXCEPT !.reloads = @ + 1]
    PROVE  bounds' \in BoundRecords /\ bounds'.foreign = bounds.foreign
           /\ bounds'.crashes = bounds.crashes
  BY DEF TInv, BoundRecords

\* What a call that may read leaves, whether its reload fails or not.
LEMMA ReadTypes ==
    ASSUME TInv, ReadAnyhow
    PROVE  /\ cache' \in View /\ cache' \in {cache, Reloaded} /\ synced' \in BOOLEAN
           /\ saving = "no" /\ saving' = "no"
           /\ bounds' \in BoundRecords /\ bounds'.foreign = bounds.foreign
           /\ bounds'.crashes = bounds.crashes
  BY ReloadedView, CountReload DEF ReadAnyhow, Read, ReloadFails, TInv

\* What every step of the Executor leaves of the other variables' types.
ExecLeaves ==
    /\ ExecInv' /\ cache' \in View /\ synced' \in BOOLEAN /\ saving' \in {"no", "write", "stat"}
    /\ saving' = "no" => command = NoCommand
    /\ started' \in [OneShots -> Nat] /\ queued' \in [OneShots -> Nat] /\ skipped' \subseteq OneShots
    /\ unstamped' \in [OneShots -> Nat] /\ bounds' \in BoundRecords
    /\ bounds'.foreign = bounds.foreign /\ bounds'.crashes = bounds.crashes
    /\ UNCHANGED <<clock, file, command, other, intent>>

LEMMA ExecTypes == ASSUME TInv, Run PROVE ExecLeaves
<1>1. ExecInv /\ exec \in ExecRecords /\ (saving = "no" => command = NoCommand)
  BY DEF TInv, ExecInv
<1>2. CASE CheckPaused
  <2>1. /\ cache' \in View /\ synced' \in BOOLEAN /\ saving = "no" /\ saving' = "no"
        /\ bounds' \in BoundRecords /\ bounds'.foreign = bounds.foreign
        /\ bounds'.crashes = bounds.crashes
        /\ UNCHANGED <<clock, file, command, other, intent, started, queued, skipped, unstamped>>
    BY <1>2, ReadTypes DEF CheckPaused
  <2>2. ExecInv'
    <3>1. CASE UNCHANGED exec
      BY <1>1, <3>1 DEF ExecInv
    <3>2. CASE exec' = [exec EXCEPT !.at = "unpaused", !.now = clock]
      <4>1. clock \in 0..MaxTime /\ clock > 0 /\ exec.at = "idle"
        BY <1>2, SchedulerAssumption DEF TInv, CheckPaused
      <4>2. QED
        BY <1>1, <3>2, <4>1 DEF ExecInv, ExecRecords
    <3>3. QED
      BY <1>2, <3>1, <3>2 DEF CheckPaused
  <2>3. QED
    BY <1>1, <2>1, <2>2 DEF TInv, ExecLeaves
<1>3. CASE ListDue
  <2>1. /\ cache' \in View /\ synced' \in BOOLEAN /\ saving = "no" /\ saving' = "no"
        /\ bounds' \in BoundRecords /\ bounds'.foreign = bounds.foreign
        /\ bounds'.crashes = bounds.crashes /\ exec.at = "unpaused"
        /\ UNCHANGED <<clock, file, command, other, intent, started, queued, skipped, unstamped>>
    BY <1>3, ReadTypes DEF ListDue
  <2> DEFINE due  == {j \in Jobs : Due(cache', j, exec.now)}
             skip == {j \in due : exec.first /\ ~CatchUp /\ Missed(cache', j, exec.now)}
  <2>2. /\ due \in SUBSET Jobs /\ skip \in SUBSET Jobs
        /\ exec' = [at    |-> IF due = {} THEN "idle" ELSE "running",
                    now   |-> IF due = {} THEN 0 ELSE exec.now,
                    first |-> FALSE, skip |-> skip, todo |-> due \ skip, done |-> {}]
        /\ skip \subseteq due
    BY <1>3 DEF ListDue
  <2> HIDE DEF due, skip
  <2>3. ExecInv'
    BY <1>1, <2>1, <2>2, SchedulerAssumption DEF ExecInv, ExecRecords
  <2>4. QED
    BY <1>1, <2>1, <2>3 DEF TInv, ExecLeaves
<1>4. CASE WriteBack
  <2>1. /\ exec' = IdleExec /\ exec.at = "running"
        /\ UNCHANGED <<clock, file, command, other, intent, started, queued, skipped>>
    BY <1>4 DEF WriteBack
  <2>2. ExecInv'
    BY <2>1, IdleExecTypes DEF ExecInv
  <2>3. exec.done \in SUBSET Jobs /\ exec.now \in 0..MaxTime /\ exec.now > 0
    BY <1>1, <2>1 DEF ExecInv, ExecRecords
  <2>4. Updated(Reloaded, exec.done, exec.now) \in View
    BY <2>3, ReloadedView, UpdatedEffect
  <2>5. \/ UNCHANGED <<cache, synced, saving, bounds, unstamped>>
        \/ Change(Updated(Reloaded, exec.done, exec.now)) /\ UNCHANGED <<bounds, unstamped>>
        \/ ReadAnyhow /\ UNCHANGED unstamped
        \/ /\ ReadAnyhow
           /\ unstamped' = Counted(unstamped, exec.done)
    BY <1>4 DEF WriteBack, ReadAnyhow
  <2>6. unstamped' \in [OneShots -> Nat]
    BY <2>5 DEF TInv, Counted
  <2>7. /\ cache' \in View /\ synced' \in BOOLEAN /\ saving' \in {"no", "write", "stat"}
        /\ saving' = "no" => command = NoCommand
        /\ bounds' \in BoundRecords /\ bounds'.foreign = bounds.foreign
        /\ bounds'.crashes = bounds.crashes
    <3>1. CASE ReadAnyhow
      BY <1>1, <3>1, ReadTypes
    <3>2. CASE UNCHANGED <<cache, synced, saving, bounds>>
      BY <1>1, <3>2 DEF TInv
    <3>3. CASE Change(Updated(Reloaded, exec.done, exec.now)) /\ UNCHANGED bounds
      BY <1>1, <2>4, <3>3 DEF TInv, Change
    <3>4. QED
      BY <2>5, <3>1, <3>2, <3>3
  <2>8. QED
    BY <2>1, <2>2, <2>6, <2>7 DEF TInv, ExecLeaves
<1>5. ASSUME NEW j \in Jobs, Skip(j) PROVE ExecLeaves
  <2>1. /\ exec.at = "running" /\ exec' = [exec EXCEPT !.skip = @ \ {j}]
        /\ skipped' \subseteq skipped \cup ({j} \cap OneShots)
        /\ UNCHANGED <<clock, file, command, other, intent, started, queued, unstamped>>
    BY <1>5 DEF Skip
  <2>2. ExecInv'
    BY <1>1, <2>1 DEF ExecInv, ExecRecords
  <2>3. exec.now \in 0..MaxTime /\ exec.now > 0
    BY <1>1, <2>1 DEF ExecInv, ExecRecords
  <2>4. /\ cache' \in View /\ synced' \in BOOLEAN /\ saving' \in {"no", "write", "stat"}
        /\ saving' = "no" => command = NoCommand
        /\ bounds' \in BoundRecords /\ bounds'.foreign = bounds.foreign
        /\ bounds'.crashes = bounds.crashes
    <3>1. CASE ReadAnyhow
      BY <1>1, <3>1, ReadTypes
    <3>2. CASE ~ReadAnyhow
      <4>1. /\ Has(Reloaded, j) /\ Change(Put(Reloaded, j, Ran(Reloaded.jobs[j], j, exec.now)))
            /\ UNCHANGED bounds
        BY <1>5, <3>2 DEF Skip, ReadAnyhow
      <4>2. Put(Reloaded, j, Ran(Reloaded.jobs[j], j, exec.now)) \in View
        BY <2>3, <4>1, ReloadedView, StampEffect
      <4>3. QED
        BY <4>1, <4>2 DEF Change, TInv
    <3>3. QED
      BY <3>1, <3>2
  <2>5. QED
    BY <2>1, <2>2, <2>4 DEF TInv, ExecLeaves
<1>6. ASSUME NEW j \in Jobs, StartJob(j) PROVE ExecLeaves
  <2>1. /\ exec.at = "running" /\ exec' = [exec EXCEPT !.todo = @ \ {j}, !.done = @ \cup {j}]
        /\ started' = Counted(started, {j})
        /\ \E refuses \in QueueRefuses :
              queued' = Counted(queued, IF refuses THEN {} ELSE {j})
        /\ UNCHANGED <<clock, file, cache, synced, saving, command, other, intent, skipped,
                       unstamped, bounds>>
    BY <1>6 DEF StartJob
  <2>2. ExecInv'
    BY <1>1, <2>1 DEF ExecInv, ExecRecords
  <2>3. started' \in [OneShots -> Nat] /\ queued' \in [OneShots -> Nat]
    BY <2>1 DEF TInv, Counted
  <2>4. QED
    BY <2>1, <2>2, <2>3 DEF TInv, ExecLeaves
<1>7. QED
  BY <1>2, <1>3, <1>4, <1>5, <1>6 DEF Run

LEMMA ForgetTypes ==
    ASSUME TInv, NEW c \in Commands, Forget(c)
    PROVE  /\ intent' \in [Jobs -> Intents] /\ started' \in [OneShots -> Nat] /\ queued' \in [OneShots -> Nat]
           /\ skipped' \subseteq OneShots /\ unstamped' \in [OneShots -> Nat]
  BY DEF TInv, Forget, Forgotten, Intents

LEMMA TypeStep == TInv /\ [Next]_vars => TInv'
<1> SUFFICES ASSUME TInv, [Next]_vars PROVE TInv'
  OBVIOUS
<1>1. CASE UNCHANGED vars
  BY <1>1 DEF vars, TInv, ExecInv
<1>2. CASE Run
  BY <1>2, ExecTypes DEF TInv, ExecLeaves
<1>3. CASE Write
  <2>1. \A j \in Jobs : intent'[j] \in Intents
    BY <1>3 DEF Write, TInv, Intents
  <2>2. intent' \in [Jobs -> Intents]
    BY <1>3, <2>1 DEF Write, TInv
  <2>3. QED
    BY <1>3, <2>2 DEF Write, TInv, ExecInv
<1>4. CASE Stat
  <2>1. command.what \in Intents
    BY CommandJob DEF TInv, NoCommand, Intents
  <2>2. intent' \in [Jobs -> Intents]
    BY <1>4, <2>1 DEF Stat, TInv
  <2>3. QED
    BY <1>4, <2>2 DEF Stat, TInv, ExecInv
<1>5. ASSUME NEW c \in Commands, Command(c) PROVE TInv'
  <2>1. /\ Applied(Reloaded, c) \in View /\ cache' = Applied(Reloaded, c) /\ synced' = TRUE
        /\ saving' = "write" /\ command' = c /\ bounds' = [bounds EXCEPT !.commands = @ + 1]
        /\ UNCHANGED <<clock, file, exec, other>>
    BY <1>5, ReloadedView, AppliedEffect DEF Command, Change
  <2>2. bounds' \in BoundRecords /\ bounds'.foreign = bounds.foreign
    BY <2>1 DEF TInv, BoundRecords
  <2>3. QED
    BY <1>5, <2>1, <2>2, ForgetTypes DEF Command, TInv, ExecInv
<1>6. ASSUME NEW c \in Commands, OtherReads(c) PROVE TInv'
  <2>1. /\ Applied(file, c) \in View /\ other' = [busy |-> TRUE, view |-> Applied(file, c)]
        /\ bounds' = [bounds EXCEPT !.foreign = @ + 1]
        /\ UNCHANGED <<clock, file, cache, synced, saving, command, exec>>
    BY <1>6, AppliedEffect DEF OtherReads, TInv
  <2>2. bounds' \in BoundRecords /\ bounds'.foreign > 0
    BY <2>1 DEF TInv, BoundRecords
  <2>3. other' \in [busy : BOOLEAN, view : View]
    BY <2>1
  <2>4. QED
    BY <1>6, <2>1, <2>2, <2>3, ForgetTypes DEF OtherReads, TInv, ExecInv
<1>7. CASE OtherWrites
  BY <1>7, NoOtherTypes DEF OtherWrites, TInv, ExecInv
<1>8. CASE Pass
  BY <1>8, SchedulerAssumption DEF Pass, TInv, ExecInv
<1>9. CASE Crash
  <2>1. /\ ExecInv' /\ bounds' \in BoundRecords /\ bounds'.foreign = bounds.foreign
    BY <1>9, IdleExecTypes DEF Crash, TInv, ExecInv, BoundRecords
  <2>2. QED
    BY <1>9, <2>1 DEF Crash, TInv
<1>10. QED
  BY <1>1, <1>2, <1>3, <1>4, <1>5, <1>6, <1>7, <1>8, <1>9 DEF Next

-----------------------------------------------------------------------------
(* A one-shot starts once.  It may start when a check has it to do, or when *)
(* a view that a later check can read has it as never run: the cache, which *)
(* is read alone if the reload fails, or a file written since.  Another     *)
(* Store that is to write what it read earlier is one more chance.          *)

Startable(j, todo, done, sy, ca, fi) ==
    \/ j \in todo
    \/ j \notin done /\ (Fresh(ca, j) \/ (~sy /\ Fresh(fi, j)))

MayStart(j) == Startable(j, exec.todo, exec.done, synced, cache, file)
Chances(j)  == (IF MayStart(j) THEN 1 ELSE 0) + (IF other.busy THEN 1 ELSE 0)

\* The times job j may have been started and may yet be.
Paid(j) == 1 + bounds.crashes + bounds.foreign + unstamped[j]

RepeatInv == \A j \in OneShots : started[j] + Chances(j) <= Paid(j)

LEMMA Numbers ==
    ASSUME TInv, NEW j \in OneShots
    PROVE  /\ started[j] \in Nat /\ bounds.crashes \in Nat /\ bounds.foreign \in Nat
           /\ unstamped[j] \in Nat /\ Chances(j) \in Nat /\ j \in Jobs
  BY DEF TInv, BoundRecords, Chances, Jobs

\* A step that starts nothing and opens no chance of job j.
LEMMA NothingNewFor ==
    ASSUME TInv, RepeatInv, NEW j \in OneShots, UNCHANGED other,
           bounds'.crashes = bounds.crashes, bounds'.foreign = bounds.foreign,
           started'[j] = started[j], unstamped'[j] = unstamped[j], MayStart(j)' => MayStart(j)
    PROVE  (started[j] + Chances(j) <= Paid(j))'
<1>1. started[j] + Chances(j) <= Paid(j)
  BY DEF RepeatInv
<1>2. Chances(j)' <= Chances(j) /\ Chances(j)' \in Nat
  BY DEF Chances
<1>3. QED
  BY <1>1, <1>2, Numbers DEF Paid

LEMMA NothingNew ==
    ASSUME TInv, RepeatInv, UNCHANGED <<started, other, unstamped>>,
           bounds'.crashes = bounds.crashes, bounds'.foreign = bounds.foreign,
           \A j \in OneShots : MayStart(j)' => MayStart(j)
    PROVE  RepeatInv'
  BY NothingNewFor DEF RepeatInv

LEMMA RepeatRun == ASSUME TInv, RepeatInv, Run PROVE RepeatInv'
<1>1. /\ exec \in ExecRecords /\ ExecInv
      /\ UNCHANGED <<other, file>>
      /\ bounds'.crashes = bounds.crashes /\ bounds'.foreign = bounds.foreign
  BY ExecTypes DEF TInv, ExecInv, ExecLeaves
<1>2. ASSUME ReadAnyhow, NEW j \in OneShots
      PROVE  /\ Fresh(cache', j) \/ (~synced' /\ Fresh(file, j))
                  => Fresh(cache, j) \/ (~synced /\ Fresh(file, j))
             /\ Fresh(cache', j) => MayStart(j) \/ j \in exec.done
             /\ MayStart(j)' => \/ j \in exec'.todo
                                \/ j \notin exec'.done /\ (Fresh(cache', j) \/ (~synced' /\ Fresh(file, j)))
  BY <1>1, <1>2 DEF ReadAnyhow, Read, ReloadFails, MayStart, Startable, Reloaded
<1>3. CASE CheckPaused
  <2>1. /\ exec'.todo = exec.todo /\ exec'.done = exec.done /\ exec.done = {}
        /\ ReadAnyhow /\ UNCHANGED <<started, unstamped>>
    BY <1>1, <1>3 DEF CheckPaused, ExecInv, ExecRecords
  <2>2. \A j \in OneShots : MayStart(j)' => MayStart(j)
    BY <1>2, <2>1 DEF MayStart, Startable
  <2>3. QED
    BY <1>1, <2>1, <2>2, NothingNew
<1>4. CASE ListDue
  <2>1. /\ ReadAnyhow /\ UNCHANGED <<started, unstamped>>
        /\ exec.done = {} /\ exec'.done = {}
        /\ \A j \in exec'.todo : Due(cache', j, exec.now)
    BY <1>1, <1>4 DEF ListDue, ExecInv
  <2>2. \A j \in OneShots : j \in exec'.todo => Fresh(cache', j)
    BY <2>1 DEF Due, Fresh
  <2>3. \A j \in OneShots : MayStart(j)' => MayStart(j)
    BY <1>2, <2>1, <2>2 DEF MayStart, Startable
  <2>4. QED
    BY <1>1, <2>1, <2>3, NothingNew
<1>5. CASE WriteBack
  <2>1. /\ UNCHANGED started /\ exec.at = "running"
        /\ exec'.todo = {} /\ exec'.done = {} /\ exec.todo = {}
    BY <1>5, IdleExecTypes DEF WriteBack
  <2>2. exec.done \in SUBSET Jobs /\ exec.now \in 0..MaxTime /\ exec.now > 0
    BY <1>1, <2>1 DEF ExecInv, ExecRecords
  <2>3. CASE exec.done = {} /\ UNCHANGED <<cache, synced, saving, unstamped>>
    <3>1. \A j \in OneShots : MayStart(j)' => MayStart(j)
      BY <1>1, <2>1, <2>3 DEF MayStart, Startable
    <3>2. QED
      BY <1>1, <2>1, <2>3, <3>1, NothingNew
  <2>4. CASE Change(Updated(Reloaded, exec.done, exec.now)) /\ UNCHANGED unstamped
    <3> DEFINE w == Updated(Reloaded, exec.done, exec.now)
    <3>1. /\ \A j \in Jobs : Fresh(w, j) => Fresh(Reloaded, j)
          /\ \A j \in exec.done : ~Fresh(w, j)
      BY <2>2, ReloadedView, UpdatedEffect DEF Worn
    <3>2. cache' = w /\ synced' = TRUE
      BY <2>4 DEF Change
    <3> HIDE DEF w
    <3>3. \A j \in OneShots : MayStart(j)' => MayStart(j)
      BY <2>1, <3>1, <3>2 DEF MayStart, Startable, Reloaded, Jobs
    <3>4. QED
      BY <1>1, <2>1, <2>4, <3>3, NothingNew
  <2>5. CASE (\A j \in exec.done : ~Has(Reloaded, j)) /\ Read /\ UNCHANGED unstamped
    <3>1. \A j \in OneShots : Fresh(cache', j) => j \notin exec.done
      BY <2>5 DEF Fresh, Read
    <3>2. \A j \in OneShots : MayStart(j)' => MayStart(j)
      BY <1>2, <2>1, <2>5, <3>1 DEF ReadAnyhow, Read
    <3>3. QED
      BY <1>1, <2>1, <2>5, <3>2, NothingNew
  <2>6. CASE /\ ReloadFails
             /\ unstamped' = Counted(unstamped, exec.done)
    <3> SUFFICES ASSUME NEW j \in OneShots PROVE (started[j] + Chances(j) <= Paid(j))'
      BY DEF RepeatInv
    <3>1. j \in Jobs /\ UNCHANGED <<cache, synced>> /\ started[j] + Chances(j) <= Paid(j)
      BY <2>6, Numbers DEF ReloadFails, RepeatInv
    <3>2. CASE j \in exec.done
      <4>1. unstamped'[j] = unstamped[j] + 1
        BY <2>6, <3>2 DEF Counted
      <4>2. Chances(j)' <= Chances(j) + 1 /\ Chances(j)' \in Nat
        BY <1>1 DEF Chances
      <4>3. QED
        BY <1>1, <2>1, <3>1, <4>1, <4>2, Numbers DEF Paid
    <3>3. CASE j \notin exec.done
      <4>1. unstamped'[j] = unstamped[j]
        BY <2>6, <3>3 DEF Counted
      <4>2. MayStart(j)' => MayStart(j)
        BY <1>1, <2>1, <3>1, <3>3 DEF MayStart, Startable
      <4>3. QED
        BY <1>1, <2>1, <4>1, <4>2, NothingNewFor
    <3>4. QED
      BY <3>2, <3>3
  <2>7. QED
    BY <1>5, <2>3, <2>4, <2>5, <2>6 DEF WriteBack
<1>6. ASSUME NEW j \in Jobs, Skip(j) PROVE RepeatInv'
  <2>1. /\ UNCHANGED <<started, unstamped>> /\ exec.at = "running"
        /\ exec'.todo = exec.todo /\ exec'.done = exec.done /\ exec.now > 0
        /\ exec.now \in 0..MaxTime
    BY <1>1, <1>6 DEF Skip, ExecRecords, ExecInv
  <2>2. CASE ReadAnyhow
    <3>1. \A i \in OneShots : MayStart(i)' => MayStart(i)
      BY <1>2, <2>1, <2>2 DEF MayStart, Startable
    <3>2. QED
      BY <1>1, <2>1, <3>1, NothingNew
  <2>3. CASE Has(Reloaded, j) /\ Change(Put(Reloaded, j, Ran(Reloaded.jobs[j], j, exec.now)))
    <3> DEFINE w == Put(Reloaded, j, Ran(Reloaded.jobs[j], j, exec.now))
    <3>1. \A i \in Jobs : Fresh(w, i) => Fresh(Reloaded, i)
      BY <2>1, <2>3, ReloadedView, StampEffect DEF Worn
    <3>2. cache' = w /\ synced' = TRUE
      BY <2>3 DEF Change
    <3> HIDE DEF w
    <3>3. \A i \in OneShots : MayStart(i)' => MayStart(i)
      BY <2>1, <3>1, <3>2 DEF MayStart, Startable, Reloaded, Jobs
    <3>4. QED
      BY <1>1, <2>1, <3>3, NothingNew
  <2>4. QED
    BY <1>6, <2>2, <2>3 DEF Skip, ReadAnyhow
<1>7. ASSUME NEW j \in Jobs, StartJob(j) PROVE RepeatInv'
  <2>1. /\ exec'.todo = exec.todo \ {j} /\ exec'.done = exec.done \cup {j} /\ j \in exec.todo
        /\ started' = Counted(started, {j})
        /\ UNCHANGED <<file, cache, synced, other, unstamped>>
    BY <1>1, <1>7 DEF StartJob, ExecRecords
  <2> SUFFICES ASSUME NEW i \in OneShots PROVE (started[i] + Chances(i) <= Paid(i))'
    BY DEF RepeatInv
  <2>2. started[i] + Chances(i) <= Paid(i)
    BY DEF RepeatInv
  <2>3. started'[i] = IF i = j THEN started[j] + 1 ELSE started[i]
    BY <2>1 DEF Counted
  <2>4. /\ i = j => MayStart(i) /\ ~MayStart(i)'
        /\ i # j => (MayStart(i)' => MayStart(i))
    BY <1>1, <2>1 DEF MayStart, Startable
  <2>5. /\ i = j => Chances(i)' = Chances(i) - 1
        /\ i # j => Chances(i)' <= Chances(i) /\ Chances(i)' \in Nat
    BY <2>1, <2>4 DEF Chances
  <2>6. QED
    BY <1>1, <2>1, <2>2, <2>3, <2>5, Numbers DEF Paid
<1>8. QED
  BY <1>3, <1>4, <1>5, <1>6, <1>7 DEF Run

LEMMA RepeatStep == TInv /\ RepeatInv /\ [Next]_vars => RepeatInv'
<1> SUFFICES ASSUME TInv, RepeatInv, [Next]_vars PROVE RepeatInv'
  OBVIOUS
<1>1. CASE UNCHANGED vars
  <2>1. UNCHANGED <<started, other, bounds, unstamped, exec, synced, cache, file>>
    BY <1>1 DEF vars
  <2>2. QED
    BY <2>1 DEF RepeatInv, Chances, MayStart, Paid
<1>2. CASE Run
  BY <1>2, RepeatRun
<1>3. CASE Write \/ Stat \/ Pass
  <2>1. UNCHANGED <<started, other, bounds, unstamped, exec, cache>>
    BY <1>3 DEF Write, Stat, Pass
  <2>2. \A j \in OneShots : MayStart(j)' => MayStart(j)
    BY <1>3, <2>1 DEF Write, Stat, Pass, MayStart, Startable
  <2>3. QED
    BY <2>1, <2>2, NothingNew
<1>4. ASSUME NEW c \in Commands, Command(c) PROVE RepeatInv'
  <2>1. /\ cache' = Applied(Reloaded, c) /\ synced' = TRUE
        /\ bounds' = [bounds EXCEPT !.commands = @ + 1]
        /\ UNCHANGED <<file, exec, other>> /\ Forget(c)
    BY <1>4 DEF Command, Change
  <2>2. bounds'.crashes = bounds.crashes /\ bounds'.foreign = bounds.foreign
    BY <2>1 DEF TInv, BoundRecords
  <2> SUFFICES ASSUME NEW j \in OneShots PROVE (started[j] + Chances(j) <= Paid(j))'
    BY DEF RepeatInv
  <2>3. CASE c.what = "add" /\ c.job = j
    <3>1. started'[j] = 0 /\ unstamped'[j] = 0
      BY <2>1, <2>3 DEF Forget, Forgotten
    <3>2. other.busy => bounds.foreign > 0
      BY DEF TInv
    <3>3. Chances(j)' <= 1 + bounds.foreign /\ Chances(j)' \in Nat
      BY <2>1, <3>2, Numbers DEF Chances
    <3>4. QED
      BY <2>2, <3>1, <3>3, Numbers DEF Paid
  <2>4. CASE ~(c.what = "add" /\ c.job = j)
    <3>1. started'[j] = started[j] /\ unstamped'[j] = unstamped[j]
      BY <2>1, <2>4 DEF Forget, Forgotten
    <3>2. Fresh(cache', j) => Fresh(Reloaded, j)
      BY <1>4, <2>1, <2>4, ReloadedView, AppliedEffect, Numbers DEF Command, Worn
    <3>3. MayStart(j)' => MayStart(j)
      BY <2>1, <3>2 DEF MayStart, Startable, Reloaded
    <3>4. QED
      BY <2>1, <2>2, <3>1, <3>3, NothingNewFor
  <2>5. QED
    BY <2>3, <2>4
<1>5. ASSUME NEW c \in Commands, OtherReads(c) PROVE RepeatInv'
  <2>1. /\ ~other.busy /\ other'.busy /\ bounds' = [bounds EXCEPT !.foreign = @ + 1]
        /\ UNCHANGED <<file, cache, synced, saving, exec>> /\ Forget(c)
    BY <1>5 DEF OtherReads
  <2>2. bounds'.crashes = bounds.crashes /\ bounds'.foreign = bounds.foreign + 1
    BY <2>1 DEF TInv, BoundRecords
  <2> SUFFICES ASSUME NEW j \in OneShots PROVE (started[j] + Chances(j) <= Paid(j))'
    BY DEF RepeatInv
  <2>3. started[j] + Chances(j) <= Paid(j)
    BY DEF RepeatInv
  <2>4. \/ started'[j] = 0 /\ unstamped'[j] = 0
        \/ started'[j] = started[j] /\ unstamped'[j] = unstamped[j]
    BY <2>1 DEF Forget, Forgotten
  <2>5. Chances(j)' = Chances(j) + 1 /\ Chances(j)' <= 2
    BY <2>1 DEF Chances, MayStart
  <2>6. QED
    BY <2>2, <2>3, <2>4, <2>5, Numbers DEF Paid
<1>6. CASE OtherWrites
  <2>1. other.busy /\ ~other'.busy /\ UNCHANGED <<started, unstamped, bounds>>
    BY <1>6, NoOtherTypes DEF OtherWrites
  <2> SUFFICES ASSUME NEW j \in OneShots PROVE (started[j] + Chances(j) <= Paid(j))'
    BY DEF RepeatInv
  <2>2. started[j] + Chances(j) <= Paid(j)
    BY DEF RepeatInv
  <2>3. Chances(j)' <= 1 /\ 1 <= Chances(j) /\ Chances(j)' \in Nat
    BY <2>1 DEF Chances
  <2>4. QED
    BY <2>1, <2>2, <2>3, Numbers DEF Paid
<1>7. CASE Crash
  <2>1. bounds' = [bounds EXCEPT !.crashes = @ + 1] /\ UNCHANGED <<started, unstamped, other>>
    BY <1>7 DEF Crash
  <2>2. bounds'.crashes = bounds.crashes + 1 /\ bounds'.foreign = bounds.foreign
    BY <2>1 DEF TInv, BoundRecords
  <2> SUFFICES ASSUME NEW j \in OneShots PROVE (started[j] + Chances(j) <= Paid(j))'
    BY DEF RepeatInv
  <2>3. started[j] + Chances(j) <= Paid(j)
    BY DEF RepeatInv
  <2>4. Chances(j)' <= Chances(j) + 1 /\ Chances(j)' \in Nat
    BY <2>1 DEF Chances
  <2>5. QED
    BY <2>1, <2>2, <2>3, <2>4, Numbers DEF Paid
<1>8. QED
  BY <1>1, <1>2, <1>3, <1>4, <1>5, <1>6, <1>7 DEF Next

LEMMA RepeatInit == Init => RepeatInv
<1> SUFFICES ASSUME Init, NEW j \in OneShots
             PROVE  started[j] + Chances(j) <= Paid(j)
  BY DEF RepeatInv
<1>1. /\ started[j] = 0 /\ unstamped[j] = 0 /\ ~other.busy
      /\ bounds.crashes = 0 /\ bounds.foreign = 0
  BY NoOtherTypes DEF Init, Jobs
<1>2. QED
  BY <1>1 DEF Chances, Paid

-----------------------------------------------------------------------------
(* Without another Store, the cache is what the file is or is about to be, *)
(* and what was removed, disabled or passed over stays so in both.         *)

\* What the last command and a skip have made of job j, in a view.
Obeyed(v, what, j) == /\ what = "remove" => ~Has(v, j)
                      /\ what = "disable" => Off(v, j)

KeptInv == bounds.foreign = 0 =>
    /\ ~synced \/ saving = "stat" => file = cache
    /\ \A j \in Jobs : Obeyed(file, intent[j], j) /\ Obeyed(cache, intent[j], j)
    /\ Obeyed(cache, command.what, command.job)
    /\ \A j \in skipped : j \notin exec.todo /\ ~Fresh(cache, j)

\* The cache wears, at a call of the Executor.
LEMMA KeptWorn ==
    ASSUME TInv, KeptInv, bounds.foreign = 0, NEW w \in View, \A j \in Jobs : Worn(cache, w, j),
           cache' = w, UNCHANGED <<file, command, intent>>, synced', saving' # "stat",
           command = NoCommand, \A j \in skipped' : j \notin exec'.todo /\ ~Fresh(w, j)
    PROVE  KeptInv'
<1>1. \A j \in Jobs : Obeyed(file, intent[j], j) /\ Obeyed(cache, intent[j], j)
  BY DEF KeptInv
<1>2. \A j \in Jobs : Obeyed(w, intent[j], j)
  BY <1>1 DEF Obeyed, Worn
<1>3. Obeyed(w, command.what, command.job)
  BY DEF Obeyed, NoCommand
<1>4. QED
  BY <1>1, <1>2, <1>3 DEF KeptInv

\* A call that leaves the cache as it is: it read what it had, or could not read.
LEMMA KeptCache ==
    ASSUME TInv, KeptInv, bounds.foreign = 0, cache' = cache,
           UNCHANGED <<file, command, intent>>, saving' # "stat", synced' \/ (UNCHANGED synced),
           \A j \in skipped' : j \notin exec'.todo /\ ~Fresh(cache, j)
    PROVE  KeptInv'
  BY DEF KeptInv

LEMMA KeptRun == ASSUME TInv, KeptInv, Run PROVE KeptInv'
<1>1. UNCHANGED <<file, command, intent>> /\ bounds'.foreign = bounds.foreign
  BY ExecTypes DEF ExecLeaves
<1>2. CASE bounds.foreign # 0
  BY <1>1, <1>2 DEF KeptInv
<1>3. SUFFICES ASSUME bounds.foreign = 0 PROVE KeptInv'
  BY <1>2
<1>4. /\ ExecInv /\ exec \in ExecRecords /\ Reloaded = cache /\ cache \in View
      /\ \A j \in skipped : j \notin exec.todo /\ ~Fresh(cache, j)
      /\ \A j \in Jobs : Worn(cache, cache, j)
  BY <1>3 DEF TInv, ExecInv, KeptInv, Reloaded, Worn
<1>5. saving = "no" => command = NoCommand
  BY DEF TInv
<1>6. ASSUME ReadAnyhow
      PROVE  cache' = cache /\ saving' # "stat" /\ (synced' \/ (UNCHANGED synced))
  BY <1>4, <1>6 DEF ReadAnyhow, Read, ReloadFails
<1>7. CASE CheckPaused \/ ListDue
  <2>1. ReadAnyhow /\ skipped' = skipped
    BY <1>7 DEF CheckPaused, ListDue
  <2>2. \A j \in skipped : j \notin exec'.todo
    <3>1. CASE CheckPaused
      BY <1>4, <3>1 DEF CheckPaused, ExecRecords
    <3>2. CASE ListDue
      <4>1. \A j \in exec'.todo : Due(cache', j, exec.now)
        BY <3>2 DEF ListDue
      <4>2. \A j \in OneShots : j \in exec'.todo => Fresh(cache, j)
        BY <1>6, <2>1, <4>1 DEF Due, Fresh
      <4>3. skipped \subseteq OneShots
        BY DEF TInv
      <4>4. QED
        BY <1>4, <4>2, <4>3
    <3>3. QED
      BY <1>7, <3>1, <3>2
  <2>3. QED
    BY <1>1, <1>3, <1>4, <1>6, <2>1, <2>2, KeptCache
<1>8. CASE WriteBack
  <2>1. exec'.todo = {} /\ skipped' = skipped /\ exec.at = "running"
    BY <1>8, IdleExecTypes DEF WriteBack
  <2>2. exec.done \in SUBSET Jobs /\ exec.now \in 0..MaxTime /\ exec.now > 0
    BY <1>4, <2>1 DEF ExecInv, ExecRecords
  <2>3. CASE UNCHANGED <<cache, synced, saving>>
    BY <1>1, <2>1, <2>3 DEF KeptInv
  <2>4. CASE Change(Updated(Reloaded, exec.done, exec.now))
    <3> DEFINE w == Updated(Reloaded, exec.done, exec.now)
    <3>1. w \in View /\ \A j \in Jobs : Worn(cache, w, j)
      BY <1>4, <2>2, UpdatedEffect
    <3>2. cache' = w /\ synced' /\ saving' = "write" /\ command = NoCommand
      BY <1>5, <2>4 DEF Change
    <3> HIDE DEF w
    <3>3. \A j \in skipped' : j \notin exec'.todo /\ ~Fresh(w, j)
      BY <1>4, <2>1, <3>1 DEF Worn, TInv, Jobs
    <3>4. QED
      BY <1>1, <1>3, <3>1, <3>2, <3>3, KeptWorn
  <2>5. CASE ReadAnyhow
    BY <1>1, <1>3, <1>4, <1>6, <2>1, <2>5, KeptCache
  <2>6. QED
    BY <1>8, <2>3, <2>4, <2>5 DEF WriteBack, ReadAnyhow
<1>9. ASSUME NEW j \in Jobs, Skip(j) PROVE KeptInv'
  <2>1. /\ exec'.todo = exec.todo /\ j \notin exec.todo
        /\ exec.now \in 0..MaxTime /\ exec.now > 0
    BY <1>4, <1>9 DEF Skip, ExecRecords, ExecInv
  <2>2. CASE /\ Has(Reloaded, j) /\ Change(Put(Reloaded, j, Ran(Reloaded.jobs[j], j, exec.now)))
             /\ skipped' = skipped \cup ({j} \cap OneShots)
    <3> DEFINE x == Ran(Reloaded.jobs[j], j, exec.now)
               w == Put(Reloaded, j, x)
    <3>1. w \in View /\ \A i \in Jobs : Worn(cache, w, i)
      BY <1>4, <2>1, <2>2, StampEffect
    <3>2. cache' = w /\ saving' = "write" /\ synced' /\ saving = "no"
      BY <2>2 DEF Change
    <3>3. ~Fresh(w, j)
      <4>1. x \in Job /\ x.last = exec.now
        <5>1. Reloaded.jobs[j] \in Job
          BY <1>4, <2>2, ViewFields DEF Has
        <5>2. QED
          BY <2>1, <5>1, RanIsJob
      <4> HIDE DEF x
      <4>2. w.jobs[j] = x
        BY <1>4, <4>1, PutEffect
      <4>3. QED
        BY <2>1, <4>1, <4>2 DEF Fresh
    <3> HIDE DEF w
    <3>4. \A i \in skipped' : i \notin exec'.todo /\ ~Fresh(w, i)
      BY <1>4, <2>1, <2>2, <3>1, <3>3 DEF Worn, TInv, Jobs
    <3>5. QED
      BY <1>1, <1>3, <1>5, <3>1, <3>2, <3>4, KeptWorn
  <2>3. CASE ~Has(Reloaded, j) /\ ReadAnyhow /\ skipped' \subseteq skipped \cup {j}
    <3>1. \A i \in skipped' : i \notin exec'.todo /\ ~Fresh(cache, i)
      BY <1>4, <2>1, <2>3 DEF Fresh
    <3>2. QED
      BY <1>1, <1>3, <1>6, <2>3, <3>1, KeptCache
  <2>4. CASE ReadAnyhow /\ UNCHANGED skipped
    BY <1>1, <1>3, <1>4, <1>6, <2>1, <2>4, KeptCache
  <2>5. QED
    BY <1>9, <2>2, <2>3, <2>4 DEF Skip, ReadAnyhow
<1>10. ASSUME NEW j \in Jobs, StartJob(j) PROVE KeptInv'
  <2>1. /\ exec'.todo = exec.todo \ {j}
        /\ UNCHANGED <<cache, synced, saving, skipped>>
    BY <1>4, <1>10 DEF StartJob, ExecRecords
  <2>2. QED
    BY <1>1, <2>1 DEF KeptInv
<1>11. QED
  BY <1>7, <1>8, <1>9, <1>10 DEF Run

LEMMA KeptStep == TInv /\ KeptInv /\ [Next]_vars => KeptInv'
<1> SUFFICES ASSUME TInv, KeptInv, [Next]_vars PROVE KeptInv'
  OBVIOUS
<1>1. CASE UNCHANGED vars
  BY <1>1 DEF vars, KeptInv
<1>2. CASE Run
  BY <1>2, KeptRun
<1>3. CASE Write
  <2>1. UNCHANGED <<cache, exec, skipped, bounds>>
    BY <1>3 DEF Write
  <2>2. CASE /\ saving' = "no" /\ command' = NoCommand /\ saving = "write"
             /\ intent' = [j \in Jobs |-> IF j = command.job THEN "failed" ELSE intent[j]]
             /\ UNCHANGED <<file, synced>>
    <3>1. bounds.foreign = 0 => \A j \in Jobs : Obeyed(file, intent'[j], j) /\ Obeyed(cache, intent'[j], j)
      BY <2>2 DEF KeptInv, Obeyed
    <3>2. QED
      BY <2>1, <2>2, <3>1 DEF KeptInv, Obeyed, NoCommand
  <2>3. CASE saving' = "stat" /\ file' = cache /\ synced' = FALSE /\ UNCHANGED <<command, intent>>
    BY <2>1, <2>3 DEF KeptInv
  <2>4. QED
    BY <1>3, <2>2, <2>3 DEF Write
<1>4. CASE Stat
  <2>1. /\ UNCHANGED <<cache, file, exec, skipped, bounds>> /\ saving = "stat" /\ saving' = "no"
        /\ synced' = TRUE /\ command' = NoCommand
        /\ intent' = [j \in Jobs |-> IF j = command.job /\ intent[j] # "raced"
                                     THEN command.what ELSE intent[j]]
    BY <1>4 DEF Stat
  <2>2. bounds.foreign = 0 => \A j \in Jobs : Obeyed(file, intent'[j], j) /\ Obeyed(cache, intent'[j], j)
    BY <2>1 DEF KeptInv
  <2>3. QED
    BY <2>1, <2>2 DEF KeptInv, Obeyed, NoCommand
<1>5. ASSUME NEW c \in Commands, Command(c) PROVE KeptInv'
  <2>1. /\ cache' = Applied(Reloaded, c) /\ synced' = TRUE /\ saving' = "write" /\ command' = c
        /\ bounds' = [bounds EXCEPT !.commands = @ + 1] /\ Applies(Reloaded, c)
        /\ UNCHANGED <<file, exec, other>> /\ Forget(c)
    BY <1>5 DEF Command, Change
  <2>2. bounds'.foreign = bounds.foreign
    BY <2>1 DEF TInv, BoundRecords
  <2>3. CASE bounds.foreign # 0
    BY <2>2, <2>3 DEF KeptInv
  <2>4. CASE bounds.foreign = 0
    <3>1. Reloaded = cache
      BY <2>4 DEF KeptInv, Reloaded
    <3> DEFINE w == Applied(cache, c)
    <3>2. /\ \A i \in Jobs : i # c.job => Worn(cache, w, i)
          /\ c.what # "add" => \A i \in Jobs : Fresh(w, i) => Fresh(cache, i)
          /\ c.what = "remove" => ~Has(w, c.job)
          /\ c.what = "disable" => Off(w, c.job)
      BY <2>1, <3>1, AppliedEffect DEF TInv
    <3>3. cache' = w
      BY <2>1, <3>1
    <3> HIDE DEF w
    <3>4. \A j \in Jobs : Obeyed(file, intent'[j], j) /\ Obeyed(w, intent'[j], j)
      <4> SUFFICES ASSUME NEW j \in Jobs
                   PROVE  Obeyed(file, intent'[j], j) /\ Obeyed(w, intent'[j], j)
        OBVIOUS
      <4>1. CASE j = c.job
        BY <2>1, <4>1 DEF Forget, Obeyed
      <4>2. CASE j # c.job
        <5>1. intent'[j] = intent[j] /\ Worn(cache, w, j)
          BY <2>1, <3>2, <4>2 DEF Forget
        <5>2. Obeyed(file, intent[j], j) /\ Obeyed(cache, intent[j], j)
          BY <2>4 DEF KeptInv
        <5>3. QED
          BY <5>1, <5>2 DEF Worn, Obeyed
      <4>3. QED
        BY <4>1, <4>2
    <3>5. Obeyed(w, c.what, c.job)
      BY <3>2 DEF Obeyed
    <3>6. \A j \in skipped' : j \notin exec.todo /\ ~Fresh(w, j)
      <4>1. skipped \subseteq Jobs /\ \A j \in skipped : j \notin exec.todo /\ ~Fresh(cache, j)
        BY <2>4 DEF KeptInv, TInv, Jobs
      <4>2. CASE c.what = "add"
        BY <2>1, <3>2, <4>1, <4>2 DEF Forget, Worn
      <4>3. CASE c.what # "add"
        BY <2>1, <3>2, <4>1, <4>3 DEF Forget
      <4>4. QED
        BY <4>2, <4>3
    <3>7. QED
      BY <2>1, <3>3, <3>4, <3>5, <3>6 DEF KeptInv
  <2>5. QED
    BY <2>3, <2>4
<1>6. ASSUME NEW c \in Commands, OtherReads(c) PROVE KeptInv'
  <2>1. bounds'.foreign # 0
    BY <1>6 DEF OtherReads, TInv, BoundRecords
  <2>2. QED
    BY <2>1 DEF KeptInv
<1>7. CASE OtherWrites
  <2>1. bounds'.foreign # 0
    BY <1>7 DEF OtherWrites, TInv, BoundRecords
  <2>2. QED
    BY <2>1 DEF KeptInv
<1>8. CASE Pass
  BY <1>8 DEF Pass, KeptInv
<1>9. CASE Crash
  <2>1. /\ cache' = file /\ saving' = "no" /\ synced' = TRUE /\ command' = NoCommand /\ skipped' = {}
        /\ bounds'.foreign = bounds.foreign /\ UNCHANGED <<file, intent>>
    BY <1>9 DEF Crash, TInv, BoundRecords
  <2>2. QED
    BY <2>1 DEF KeptInv, Obeyed, NoCommand
<1>10. QED
  BY <1>1, <1>2, <1>3, <1>4, <1>5, <1>6, <1>7, <1>8, <1>9 DEF Next

LEMMA KeptInit == Init => KeptInv
<1> SUFFICES ASSUME Init PROVE KeptInv
  OBVIOUS
<1>1. /\ cache = file /\ skipped = {} /\ command = NoCommand
      /\ \A j \in Jobs : intent[j] = "none"
  BY DEF Init
<1>2. QED
  BY <1>1 DEF KeptInv, Obeyed, NoCommand

LEMMA SchedulerInv == Spec => [](TInv /\ RepeatInv /\ KeptInv)
<1>1. QED
  BY TypeInit, TypeStep, RepeatInit, RepeatStep, KeptInit, KeptStep, PTL DEF Spec

-----------------------------------------------------------------------------
\* Jobs file, cache and the Executor's sets hold stored jobs only, whatever
\* the interleaving of checks, commands, foreign writes and restarts
\* (scheduler.go Store and Executor).
THEOREM JobsStayTyped == Spec => []TypeOK
<1>1. TInv => TypeOK
  BY DEF TInv, TypeOK, ExecInv, ExecRecords
<1>2. QED
  BY <1>1, SchedulerInv, PTL

\* A one-shot job runs once: again only for each death of the server, each
\* write of another Store and each write back of the job given up because its
\* reload failed, for every number of them and of jobs and commands
\* (Executor.check starts from a snapshot and stamps afterwards).
THEOREM OneShotsDoNotRepeat == Spec => []NoRepeat
<1>1. TInv /\ RepeatInv => NoRepeat
  <2> SUFFICES ASSUME TInv, RepeatInv, NEW j \in OneShots
               PROVE  started[j] <= 1 + bounds.crashes + bounds.foreign + unstamped[j]
    BY DEF NoRepeat
  <2>1. started[j] + Chances(j) <= 1 + bounds.crashes + bounds.foreign + unstamped[j]
    BY DEF RepeatInv, Paid
  <2>2. QED
    BY <2>1, Numbers
<1>2. QED
  BY <1>1, SchedulerInv, PTL

\* A removed job does not come back and a disabled one stays off, whatever the
\* check that had read it writes back (batchUpdateAfterRun), with failing
\* writes and restarts.
THEOREM CommandsStay == Spec => []CommandsKept
<1>1. KeptInv => CommandsKept
  BY DEF KeptInv, CommandsKept, Obeyed, Off
<1>2. QED
  BY <1>1, SchedulerInv, PTL

\* A job passed over as missed and stamped is never started by the same server,
\* though the save of the stamp may fail and later reloads too (the errors of
\* updateAfterRun and List are discarded); one whose own reload failed may be.
THEOREM SkippedStaySkipped == Spec => MissedStayMissed
<1>1. TInv /\ KeptInv /\ [Next]_vars =>
        [\A j \in skipped : bounds.foreign = 0 => started'[j] <= started[j]]_vars
  <2> SUFFICES ASSUME TInv, KeptInv, [Next]_vars, NEW j \in skipped, bounds.foreign = 0
               PROVE  started'[j] <= started[j]
    OBVIOUS
  <2>1. started[j] \in Nat /\ j \in OneShots /\ j \notin exec.todo
    BY DEF TInv, KeptInv, Jobs
  <2>2. CASE \E i \in Jobs : StartJob(i)
    BY <2>1, <2>2 DEF StartJob, Counted
  <2>3. CASE \E c \in Commands : Command(c) \/ OtherReads(c)
    BY <2>1, <2>3 DEF Command, OtherReads, Forget, Forgotten
  <2>4. CASE UNCHANGED started
    BY <2>1, <2>4
  <2>5. QED
    BY <2>2, <2>3, <2>4
    DEF Next, Run, CheckPaused, ListDue, WriteBack, Skip, Write, Stat, OtherWrites, Pass, Crash, vars
<1>2. QED
  BY <1>1, SchedulerInv, PTL DEF Spec, MissedStayMissed
=============================================================================
