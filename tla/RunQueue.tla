------------------------------ MODULE RunQueue ------------------------------
(***************************************************************************)
(* The queued-run pipeline of the HTTP channel (channels/http/pipeline.go) *)
(* with the state it shares with everybody else: the in-flight counter and *)
(* its drain channel, the file-backed run store, the cancel tracker and    *)
(* the verdict a run's event stream announces.                             *)
(*                                                                         *)
(* Each run is carried first by the goroutine that queues it (an HTTP      *)
(* handler, the chat connector or the scheduler) and then by the goroutine *)
(* of executeQueuedRun; pc[r] says where that carrier stands.  Cancelling  *)
(* clients, the shutdown waiter and process crashes run beside them.  The  *)
(* store's methods and the tracker's hold their mutex throughout, so each  *)
(* call is one step; between two calls anything may happen.                *)
(***************************************************************************)
EXTENDS Integers, FiniteSets

CONSTANTS Runs,          (* run identifiers, each queued at most once        *)
          MaxInFlight,   (* defaultQueuedRunMaxInFlight                      *)
          MaxPersisted,  (* fileRunStoreMaxPersistedRuns                     *)
          MaxAttempts,   (* queuedRunMaxAttempts                             *)
          MaxCrashes,    (* bound: process deaths in one behaviour           *)
          MaxCancels,    (* bound: cancel requests under way at once         *)
          SaveFails,     (* the values of "this write fails": a set of BOOLEANs *)
          Drains         (* TRUE if a shutdown may wait for the queue        *)

ASSUME ConstantsAssumption ==
    /\ IsFiniteSet(Runs)
    /\ MaxInFlight \in Nat \ {0}
    /\ MaxPersisted \in Nat \ {0}
    /\ MaxAttempts \in Nat \ {0}
    /\ MaxCrashes \in Nat
    /\ MaxCancels \in Nat
    /\ SaveFails \in (SUBSET BOOLEAN) \ {{}}
    /\ Drains \in BOOLEAN

VARIABLES
  pc,         (* pc[r]: where the goroutine carrying run r stands            *)
  attempt,    (* attempt[r]: the loop variable of executeWithRetry, 0 outside *)
  outcome,    (* outcome[r]: what it returned, "none" once it is judged       *)
  inFlight,   (* queuedRunTracker.inFlight                                   *)
  waitGen,    (* which waitCh the tracker holds: it is replaced on 0 -> 1    *)
  closedGen,  (* the latest waitCh closed                                    *)
  mem,        (* FileRunStore.runs: status of each record, "absent" if none  *)
  disk,       (* the same in the runs file                                   *)
  stamp,      (* order of the terminal UpdatedAt stamps, 0 before one        *)
  tracked,    (* ActiveRunTracker.cancels, bare and composite key together   *)
  ctxDone,    (* runs cancelled through the tracker                          *)
  announced,  (* run.Status in the goroutine: the last status it published   *)
  seen,       (* cancel requests that read an active record, not yet fired   *)
  acked,      (* runs told "canceling" before their executor returned        *)
  waiter,     (* WaitForQueuedRuns: its state, channel and runs begun before *)
  crashes     (* process deaths so far                                       *)

trackerVars == <<inFlight, waitGen, closedGen>>
storeVars   == <<mem, disk>>
cancelVars  == <<ctxDone, seen, acked>>
vars == <<pc, attempt, outcome, trackerVars, storeVars, stamp, tracked,
          cancelVars, announced, waiter, crashes>>

Active   == {"queued", "running"}
Terminal == {"completed", "failed", "canceled"}
Status   == {"absent"} \cup Active \cup Terminal

\* The carrier's places between tryBegin and done().
Recorded == {"stored", "spawned", "executing", "returned", "settled"}
Holding  == {"admitted", "refused", "persisted", "closed", "leaving"} \cup Recorded
\* The places where nothing more happens to the run.
Over     == {"rejected", "finished", "lost"}
\* The places at which the tracker holds the run's cancel function.
Cancellable == {"spawned", "executing", "returned", "settled", "persisted", "closed"}
\* The places after the deferred event-bus Close.
StreamEnded == {"closed", "leaving"}

Outcomes == {"none", "ok", "error", "cancelErr"}

Init ==
    /\ pc = [r \in Runs |-> "new"]
    /\ attempt = [r \in Runs |-> 0]
    /\ outcome = [r \in Runs |-> "none"]
    /\ inFlight = 0
    /\ waitGen = 0 /\ closedGen = 0
    /\ mem = [r \in Runs |-> "absent"]
    /\ disk = [r \in Runs |-> "absent"]
    /\ stamp = [r \in Runs |-> 0]
    /\ tracked = {}
    /\ ctxDone = {}
    /\ seen = {} /\ acked = {}
    /\ announced = [r \in Runs |-> "none"]
    /\ waiter = [state |-> "idle", gen |-> 0, runs |-> {}]
    /\ crashes = 0

Goto(r, from, to) == pc[r] = from /\ pc' = [pc EXCEPT ![r] = to]

-----------------------------------------------------------------------------
(* The run store.                                                          *)

Present(view) == {r \in Runs : view[r] # "absent"}

\* Mutant of Compact: the status check of the switch is missing.
CompactAnyStatus(view) ==
    LET excess   == Cardinality(Present(view)) - MaxPersisted
        older(r) == {q \in Present(view) : stamp[q] < stamp[r]}
    IN  [r \in Runs |-> IF r \in Present(view) /\ Cardinality(older(r)) < excess
                        THEN "absent" ELSE view[r]]

\* Mutant of Compact: the limit test is off by one.
CompactOneTooMany(view) ==
    LET excess   == Cardinality(Present(view)) - MaxPersisted
        terminal == {r \in Runs : view[r] \in Terminal}
        older(r) == {q \in terminal : stamp[q] < stamp[r]}
    IN  [r \in Runs |-> IF r \in terminal /\ Cardinality(older(r)) <= excess
                        THEN "absent" ELSE view[r]]

\* compactLocked: over the limit, the terminal records stamped first go, one
\* for each record too many; active records never do.
Compact(view) ==
    LET excess   == Cardinality(Present(view)) - MaxPersisted
        terminal == {r \in Runs : view[r] \in Terminal}
        older(r) == {q \in terminal : stamp[q] < stamp[r]}
    IN  [r \in Runs |-> IF r \in terminal /\ Cardinality(older(r)) < excess
                        THEN "absent" ELSE view[r]]

\* Create and Update change the map, compact it and then rewrite the file;
\* failing is a write that fails, which leaves the map changed.
PutRecord(r, status, failing) ==
    /\ mem' = Compact([mem EXCEPT ![r] = status])
    /\ disk' = IF failing THEN disk ELSE mem'

\* Update refuses a record that is not in the map.  Its error is discarded.
UpdateRecord(r, status) ==
    IF mem[r] = "absent" THEN UNCHANGED storeVars
    ELSE \E failing \in SaveFails : PutRecord(r, status, failing)

-----------------------------------------------------------------------------
(* Queueing: QueueRunWithOptions.                                          *)

\* Mutant of Begin: the limit is compared with > instead of >=.
BeginOneTooMany(r) ==
    /\ IF inFlight > MaxInFlight
       THEN Goto(r, "new", "rejected") /\ UNCHANGED trackerVars
       ELSE /\ Goto(r, "new", "admitted")
            /\ inFlight' = inFlight + 1
            /\ waitGen' = IF inFlight = 0 THEN waitGen + 1 ELSE waitGen
            /\ UNCHANGED closedGen
    /\ UNCHANGED <<attempt, outcome, storeVars, stamp, tracked, cancelVars,
                   announced, waiter, crashes>>

\* Mutant of Begin: the closed drain channel is kept on 0 -> 1.
BeginKeepsChannel(r) ==
    /\ IF inFlight >= MaxInFlight
       THEN Goto(r, "new", "rejected") /\ UNCHANGED trackerVars
       ELSE /\ Goto(r, "new", "admitted")
            /\ inFlight' = inFlight + 1
            /\ UNCHANGED <<waitGen, closedGen>>
    /\ UNCHANGED <<attempt, outcome, storeVars, stamp, tracked, cancelVars,
                   announced, waiter, crashes>>

\* tryBegin refuses when full, and opens a new drain channel on 0 -> 1.
Begin(r) ==
    /\ IF inFlight >= MaxInFlight
       THEN Goto(r, "new", "rejected") /\ UNCHANGED trackerVars
       ELSE /\ Goto(r, "new", "admitted")
            /\ inFlight' = inFlight + 1
            /\ waitGen' = IF inFlight = 0 THEN waitGen + 1 ELSE waitGen
            /\ UNCHANGED closedGen
    /\ UNCHANGED <<attempt, outcome, storeVars, stamp, tracked, cancelVars,
                   announced, waiter, crashes>>

\* Mutant of Create: the error path returns without done().
CreateLeaksSlot(r) ==
    /\ \E failing \in SaveFails :
         /\ PutRecord(r, "queued", failing)
         /\ Goto(r, "admitted", IF failing THEN "finished" ELSE "stored")
    /\ UNCHANGED <<attempt, outcome, trackerVars, stamp, tracked, cancelVars,
                   announced, waiter, crashes>>

Create(r) ==
    /\ \E failing \in SaveFails :
         /\ PutRecord(r, "queued", failing)
         /\ Goto(r, "admitted", IF failing THEN "refused" ELSE "stored")
    /\ UNCHANGED <<attempt, outcome, trackerVars, stamp, tracked, cancelVars,
                   announced, waiter, crashes>>

\* Track and TrackComposite, then the go statement.
Track(r) ==
    /\ Goto(r, "stored", "spawned")
    /\ tracked' = tracked \cup {r}
    /\ UNCHANGED <<attempt, outcome, trackerVars, storeVars, stamp, cancelVars,
                   announced, waiter, crashes>>

-----------------------------------------------------------------------------
(* Execution: executeQueuedRun.                                            *)

Start(r) ==
    /\ Goto(r, "spawned", "executing")
    /\ UpdateRecord(r, "running")
    /\ announced' = [announced EXCEPT ![r] = "running"]
    /\ attempt' = [attempt EXCEPT ![r] = 1]
    /\ UNCHANGED <<outcome, trackerVars, stamp, tracked, cancelVars, waiter, crashes>>

\* Mutant of Retry: the loop has no end; it counts up to its bound and round.
RetryForever(r) ==
    /\ pc[r] = "executing"
    /\ attempt' = [attempt EXCEPT ![r] = (@ % MaxAttempts) + 1]
    /\ UNCHANGED <<pc, outcome, trackerVars, storeVars, stamp, tracked, cancelVars,
                   announced, waiter, crashes>>

\* executeWithRetry meets a retryable error with attempts left, and tries
\* again whether or not the run was cancelled meanwhile.
Retry(r) ==
    /\ pc[r] = "executing"
    /\ attempt[r] < MaxAttempts
    /\ attempt' = [attempt EXCEPT ![r] = @ + 1]
    /\ UNCHANGED <<pc, outcome, trackerVars, storeVars, stamp, tracked, cancelVars,
                   announced, waiter, crashes>>

\* It returns: a success, an error, or a cancellation error.  The last comes
\* whenever it likes, since the engine keeps a tracker of its own that cancels
\* only its own context; and a cancelled queue context does not keep an
\* execution from ending any other way.
ExecutorReturns(r) ==
    /\ Goto(r, "executing", "returned")
    /\ \E result \in {"ok", "error", "cancelErr"} : outcome' = [outcome EXCEPT ![r] = result]
    /\ attempt' = [attempt EXCEPT ![r] = 0]
    /\ UNCHANGED <<trackerVars, storeVars, stamp, tracked, cancelVars, announced,
                   waiter, crashes>>

\* Mutant of Verdict: the context is not looked at after a success.
VerdictIgnoresContext(r) ==
    CASE outcome[r] = "cancelErr" -> "canceled"
      [] outcome[r] = "error" -> "failed"
      [] OTHER -> "completed"

\* coerceContextCancellation and the branches on its result.
Verdict(r) ==
    CASE outcome[r] = "cancelErr" -> "canceled"
      [] outcome[r] = "error" -> "failed"
      [] OTHER -> IF r \in ctxDone THEN "canceled" ELSE "completed"

Settle(r) ==
    /\ Goto(r, "returned", "settled")
    /\ announced' = [announced EXCEPT ![r] = Verdict(r)]
    /\ stamp' = [stamp EXCEPT ![r] = 1 + Cardinality({q \in Runs : stamp[q] # 0})]
    /\ outcome' = [outcome EXCEPT ![r] = "none"]
    /\ UNCHANGED <<attempt, trackerVars, storeVars, tracked, cancelVars,
                   waiter, crashes>>

\* Mutant of Persist: the context is examined again for the stored status.
PersistCoercesAgain(r) ==
    /\ Goto(r, "settled", "persisted")
    /\ UpdateRecord(r, IF r \in ctxDone THEN "canceled" ELSE announced[r])
    /\ UNCHANGED <<attempt, outcome, trackerVars, stamp, tracked, cancelVars,
                   announced, waiter, crashes>>

\* The last store.Update writes the verdict just announced.
Persist(r) ==
    /\ Goto(r, "settled", "persisted")
    /\ UpdateRecord(r, announced[r])
    /\ UNCHANGED <<attempt, outcome, trackerVars, stamp, tracked, cancelVars,
                   announced, waiter, crashes>>

-----------------------------------------------------------------------------
(* The deferred calls, last deferred first.                                *)

CloseStream(r) ==
    /\ Goto(r, "persisted", "closed")
    /\ UNCHANGED <<attempt, outcome, trackerVars, storeVars, stamp, tracked,
                   cancelVars, announced, waiter, crashes>>

\* Mutant of Untrack: the deferred Remove is missing.
UntrackForgets(r) ==
    /\ Goto(r, "closed", "leaving")
    /\ UNCHANGED <<attempt, outcome, trackerVars, storeVars, stamp, tracked,
                   cancelVars, announced, waiter, crashes>>

Untrack(r) ==
    /\ Goto(r, "closed", "leaving")
    /\ tracked' = tracked \ {r}
    /\ UNCHANGED <<attempt, outcome, trackerVars, storeVars, stamp, cancelVars,
                   announced, waiter, crashes>>

\* queuedRunTracker.done, also the way out of a refused Create.  The local
\* run and its context end with the goroutine.
Done(r) ==
    /\ pc[r] \in {"leaving", "refused"}
    /\ pc' = [pc EXCEPT ![r] = "finished"]
    /\ IF inFlight > 0
       THEN /\ inFlight' = inFlight - 1
            /\ closedGen' = IF inFlight = 1 THEN waitGen ELSE closedGen
       ELSE UNCHANGED <<inFlight, closedGen>>
    /\ announced' = [announced EXCEPT ![r] = "none"]
    /\ ctxDone' = ctxDone \ {r}
    /\ UNCHANGED <<attempt, outcome, waitGen, storeVars, stamp, tracked, seen, acked,
                   waiter, crashes>>

-----------------------------------------------------------------------------
(* Cancelling, draining and dying.                                         *)

\* handleCancelRun reads the record first ...
InspectForCancel(r) ==
    /\ r \notin seen /\ Cardinality(seen) < MaxCancels
    /\ mem[r] \in Active
    /\ seen' = seen \cup {r}
    /\ UNCHANGED <<pc, attempt, outcome, trackerVars, storeVars, stamp, tracked,
                   ctxDone, acked, announced, waiter, crashes>>

\* ... and then asks the tracker, which may hold the run no longer, or not yet.
FireCancel(r) ==
    /\ r \in seen
    /\ seen' = seen \ {r}
    /\ IF r \in tracked
       THEN /\ ctxDone' = ctxDone \cup {r}
            /\ acked' = IF pc[r] \in {"spawned", "executing", "returned"}
                        THEN acked \cup {r} ELSE acked
       ELSE UNCHANGED <<ctxDone, acked>>
    /\ UNCHANGED <<pc, attempt, outcome, trackerVars, storeVars, stamp, tracked,
                   announced, waiter, crashes>>

\* WaitForQueuedRuns, called by Server.wait on shutdown.
BeginWait ==
    /\ Drains /\ waiter.state = "idle"
    /\ waiter' = IF inFlight = 0
                 THEN [state |-> "drained", gen |-> waitGen, runs |-> {}]
                 ELSE [state |-> "waiting", gen |-> waitGen,
                       runs |-> {r \in Runs : pc[r] \in Holding}]
    /\ UNCHANGED <<pc, attempt, outcome, trackerVars, storeVars, stamp, tracked,
                   cancelVars, announced, crashes>>

EndWait ==
    /\ waiter.state = "waiting"
    /\ \/ waiter.gen <= closedGen /\ waiter' = [waiter EXCEPT !.state = "drained"]
       \/ waiter' = [state |-> "timedOut", gen |-> 0, runs |-> {}]
    /\ UNCHANGED <<pc, attempt, outcome, trackerVars, storeVars, stamp, tracked,
                   cancelVars, announced, crashes>>

\* The process dies, or exits after draining, and a new one loads the file.
Crash ==
    /\ crashes < MaxCrashes
    /\ crashes' = crashes + 1
    /\ pc' = [r \in Runs |-> IF pc[r] \in Holding THEN "lost" ELSE pc[r]]
    /\ mem' = disk
    /\ inFlight' = 0 /\ waitGen' = 0 /\ closedGen' = 0
    /\ tracked' = {} /\ ctxDone' = {} /\ seen' = {}
    /\ attempt' = [r \in Runs |-> 0] /\ outcome' = [r \in Runs |-> "none"]
    /\ announced' = [r \in Runs |-> "none"]
    /\ waiter' = [state |-> "idle", gen |-> 0, runs |-> {}]
    /\ UNCHANGED <<disk, stamp, acked>>

-----------------------------------------------------------------------------

\* The steps of the goroutine carrying run r.
Carry(r) == \/ Create(r) \/ Track(r) \/ Start(r) \/ Retry(r) \/ ExecutorReturns(r)
            \/ Settle(r) \/ Persist(r) \/ CloseStream(r) \/ Untrack(r) \/ Done(r)

Next == \/ \E r \in Runs : Begin(r) \/ Carry(r)
        \/ \E r \in Runs : InspectForCancel(r) \/ FireCancel(r)
        \/ BeginWait \/ EndWait
        \/ Crash

\* Once begun, a carrier is never blocked: its calls take mutexes that are
\* held briefly, and the engine bounds every execution by a run timeout.
Fairness == \A r \in Runs : WF_vars(Carry(r))

Spec == Init /\ [][Next]_vars /\ Fairness

-----------------------------------------------------------------------------
(* Properties.                                                             *)

\* Every variable keeps its type; the in-flight counter stays within its limit.
TypeOK ==
    /\ pc \in [Runs -> {"new"} \cup Holding \cup Over]
    /\ attempt \in [Runs -> 0..MaxAttempts]
    /\ outcome \in [Runs -> Outcomes]
    /\ inFlight \in 0..MaxInFlight
    /\ waitGen \in Nat /\ closedGen \in Nat
    /\ mem \in [Runs -> Status] /\ disk \in [Runs -> Status]
    /\ stamp \in [Runs -> Nat]
    /\ tracked \in SUBSET Runs
    /\ ctxDone \in SUBSET Runs
    /\ seen \in SUBSET Runs /\ acked \in SUBSET Runs
    /\ announced \in [Runs -> {"none", "running"} \cup Terminal]
    /\ waiter \in [state : {"idle", "waiting", "drained", "timedOut"},
                    gen : Nat, runs : SUBSET Runs]
    /\ crashes \in 0..MaxCrashes

\* The queue's counter (pipeline.go tryBegin/done) equals the number of runs
\* between their tryBegin and their done(): a slot is neither leaked by a
\* Create that fails nor given back twice, so "queue full" means full.
SlotsAccounted == inFlight = Cardinality({r \in Runs : pc[r] \in Holding})

\* Between Create and the final Update a run has an active record, whatever
\* compaction (filestore.go compactLocked) the other runs' saves performed;
\* and in a process that never died an active record belongs to such a run,
\* or to a Create whose write failed.
RecordsMatchOwners ==
    \A r \in Runs :
        /\ pc[r] \in Recorded => mem[r] \in Active
        /\ mem[r] \in Active /\ crashes = 0 =>
              pc[r] \in Recorded \/ (mem[r] = "queued" /\ stamp[r] = 0
                                     /\ pc[r] \in {"refused", "finished"})

\* The cancel tracker holds a run exactly from Track to the deferred Remove,
\* so a cancel that finds a function finds a goroutine still carrying the run,
\* and no function outlives its goroutine (pipeline.go executeQueuedRun).
TrackerExact == tracked = {r \in Runs : pc[r] \in Cancellable}

\* When WaitForQueuedRuns reports success, every run that had begun when it
\* was called has finished and, if no write fails, has no active record on
\* disk: a run that begins later and reuses the counter can neither end nor
\* replace the channel an earlier drain waits on.
DrainCoversEarlierRuns ==
    waiter.state = "drained" =>
        \A r \in waiter.runs : /\ pc[r] = "finished"
                               /\ SaveFails = {FALSE} => disk[r] \notin Active

\* Once a run's event stream is closed, the status its last event announced
\* is terminal and is the status the store keeps, unless compaction already
\* dropped the record (pipeline.go publishes before it updates the store).
StreamVerdictIsStored ==
    \A r \in Runs : pc[r] \in StreamEnded =>
        /\ announced[r] \in Terminal
        /\ mem[r] \in {announced[r], "absent"}

\* A cancel acknowledged before the executor returned is never answered with
\* a completed run, not even after a restart (coerceContextCancellation).
CancelHonoured ==
    \A r \in acked : "completed" \notin {announced[r], mem[r], disk[r]}

\* The store refines the life cycle its readers are promised.
Lifecycle == INSTANCE RunLifecycle WITH visible <- mem, durable <- disk
RefinesLifecycle == Lifecycle!Spec

\* Every run admitted to the queue gives its slot back or dies with the
\* process: retries end, and neither a write that fails nor a cancel that lands
\* at any step nor another run's compaction can stall a carrier
\* (executeWithRetry, executeQueuedRun and its deferred calls).
EveryRunSettles ==
    \A r \in Runs : pc[r] = "admitted" ~> pc[r] \in {"finished", "lost"}
=============================================================================
