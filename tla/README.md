# TLA+ models of openclawssy

Openclawssy runs language-model agents behind an HTTP server, chat channels and
a job scheduler. This directory holds TLA+ models of the parts whose
correctness depends on interleavings, failures, limits and restarts, the TLC
configurations that check them, and TLAPS proofs about the run queue, the event
bus, the engine's slots, the scheduler, the agent loop, chat conversations and most
of the services around a run. `PROJECT.json` maps every definition to the source
lines it models; paths below are relative to `src/internal/` unless they say otherwise.

    tlc -workers 2 -config Scheduler.cfg Scheduler.tla
    tlc -workers 2 -config Services.cfg MCServices.tla
    tlapm RunQueue_proofs.tla     (and the other modules named *_proofs)

## The system

| Component | State it keeps | Operations | Talks to | Hard because |
|---|---|---|---|---|
| Run queue (`channels/http/pipeline.go`) | in-flight counter, drain channel, a goroutine per run | queue, execute with retry, judge, settle, drain | run store, cancel tracker, event bus, engine | a goroutine per run beside cancels, shutdown and crashes |
| Run store (`channels/http/filestore.go`) | records in memory, runs file | create, update, get, list, load | queue, API, bots | writes fail after the map has changed; compaction inside another run's save |
| Cancel tracker (`channels/http/run_cancel_tracker.go`) | cancel functions by bare and composite key | track, cancel, remove | queue, API | a cancel may come before, during or after the run |
| Event bus and streams (`channels/http/events.go`, `server.go`) | per key: last id, replay window, terminal event, subscribers' channels | publish, subscribe, close, prune | queue, streaming handlers | slow, late and returning clients; bus at its limit; two kinds of key |
| Engine (`runtime/engine.go`) | slot channel, own run tracker | execute, acquire and release slots, delegate | agent loop, tools, memory, artifacts | the channel is replaced while callers hold references to it |
| Agent loop (`agent/`) | messages, tool results, caches, repair and stuck counters, delegation mode | take a turn, filter and call tools, delegate, finalize | model, tools, sub-agents | a dozen limits and counters whose orders nobody tests |
| Model call (`runtime/model.go`, `toolparse/`) | attempt, text received and heard, tool-call slots | request, stream, retry, read the reply | provider, listener of the run | streams that break after text was heard; replies that mix notations |
| Scheduler (`scheduler/scheduler.go`) | jobs file, cache and stamp, executor's first-check flag | add, remove, enable, pause, check, write back | queue, tools, command line, dashboard | snapshot against commands, several stores on one file, crashes |
| Chat connector and bots (`channels/chat/`, `discord/`, `telegram/`) | rate windows; a goroutine per message and per wait | route, commands, queue a message, await and post | chat store, queue | pointers move while runs are under way; verdicts are polled |
| Chat store (`chatstore/`) | sessions, message files, pointers | create, append, read backwards, close, point | connector, engine, tools | several stores, closing during a run, chunked reading |
| Agent mail (`tools/agent_tools.go`, `dashboard/instances_api.go`) | entries of a message in the recipient's session | send, acknowledge, run, show inbox | chat store, engine | status entries stamped before the lock; lost appends |
| Memory (`memory/`, `tools/memory_tools.go`) | event queue and writer per run; items and two indexes in SQLite | ingest, close; write, update, checkpoint, forget, maintain | engine, tools | bounded queue, writer nobody waits for; read-modify-write of items |
| Prompt stack (`promptstack/`) | versioned layer histories | seed, update, roll back | engine, dashboard | several stores on one file; rollback layer by layer |
| Instances (`instances/`) | manifests, agent directories, active instance | bootstrap, create, clone, update, delete, activate, resolve | engine, dashboard | many files, no transaction |
| Run monitor (`dashboard/handler.go`) | notes about cancellations | list runs, cancel | audit files, trackers, run store | puts its view together from sources that move |
| Configuration and policy (`config/`, `policy/`) | two files, a backup, snapshots, an enforcer per run | load, save, restore, grant, revoke | everything | read-modify-write without a lock |
| Workspace tools (`tools/builtins.go`, `sandbox/`) | files of a workspace, a container | write, edit, append, move, delete | agent loop | several calls at once, container reset in between, line arithmetic |
| Secrets, audit, artifacts | files | store, append | tools, engine | written once or appended |

How they interact: an HTTP handler, the chat connector or the scheduler queues a
run; the queue records it, tracks its cancel function and starts a goroutine,
which calls the engine (admission by slots, then the agent loop), publishes the
events that streaming handlers pass on, stores the verdict, and gives back what
it held in deferred calls. Administrators and the scheduler tools change the
jobs file; the scheduler's executor acts on it once a second.

What makes each part correct: queue slots neither leak nor are forged; a record
moves forward once and is dropped only when terminal; a cancel that was
acknowledged is honoured; shutdown waits for what it promised to wait for; a
stream tells how its run ended; engine slots balance across replaced channels;
a one-shot job runs once; an acknowledged command stays; an agent that gets
nowhere is stopped and does nothing twice; record, session and reply of a message
tell the same; a listener hears the answer once; what is written by several
writers at once can still be loaded, found, rolled back and resolved. `hazards` in
`PROJECT.json` lists, by line, what threatens these.

## The modules

### RunLifecycle, RunQueue

`RunLifecycle` is the abstract promise of the run store to its readers: a
record is created once, goes queued, running, terminal, leaves only when
terminal and over the limit, and the file is an earlier view of the records.

`RunQueue` is the pipeline that keeps the promise. `pc[r]` is the place of the
goroutine that carries run `r`, from `tryBegin` (`Begin`) over `store.Create`,
`Track`, the "running" update (`Start`), `executeWithRetry` (`Retry`,
`ExecutorReturns`), the branches on the verdict (`Settle`), the last update
(`Persist`) and the deferred calls in their order (`CloseStream`, `Untrack`,
`Done`). `InspectForCancel` and `FireCancel` are the two halves of
`handleCancelRun`; `BeginWait` and `EndWait` are `WaitForQueuedRuns`; `Crash`
is the death of the process, after which a new one loads the file. The store's
methods hold their mutex throughout, so a call is one step, compaction and
write included; `SaveFails` says whether writes may fail. What the engine does
is a nondeterministic result: success, error or cancellation error at any time.
Update stamps are abstracted to the order in which runs settled; bare and
composite tracker keys are set and removed together, so one set stands for both.

`Lifecycle == INSTANCE RunLifecycle WITH visible <- mem, durable <- disk` is the
refinement mapping.

### RunSlots

`acquireRunSlot` and its two uses in `ExecuteWithInput`. A channel is a member
of `Pools` with a capacity and a length; `LookUpEngine`/`LookUpInstance` are the
part under `runLimitMu`, `TakeEngine`/`TakeInstance` the non-blocking send after
it, so that the channel can be replaced in between. A channel no caller reaches
is garbage, and its identity is used again. `EditLimits` is a configuration
change. Executions themselves are one place, "running".

### Scheduler

The server's `Store` (`cache`, and `synced` for "the noted stamp is the file's"),
the file, and the executor. A method holds the Store's mutex from its reload to
its save, so `Change` takes the lock (`saving`), `Write` renames the file into
place or fails, and `Stat` notes the stamp; a reload may fail (`ReloadFails`), which
`IsPaused` and `List` ignore and the stamping calls do not survive; another Store (`OtherReads`,
`OtherWrites`: a tool, the command line) may act between any two of these.
`CheckPaused`, `ListDue`, `Skip`, `StartJob` and `WriteBack` are the steps of
`Executor.check`, each with the current time it was called with. Schedules are
two kinds, one-shot and interval, with times in small numbers; `started`,
`queued`, `skipped` and `unstamped`, which count for one-shots, and `intent` record what
happened, for the properties.

### RunEvents

`Publish` is `RunEventBus.publish` with `ensureRunLocked` and
`pruneRunsLocked`; `PublishBare`, `PublishComposite`, `CloseComposite` and
`CloseBare` are what `executeQueuedRun` does under its keys; `Subscribe`,
`Receive`, `Finish` and `Disconnect` are `handleRunEvents`. An event is its
identifier and whether it is terminal. A handler may receive between the failed
send and the drop of `enqueueRunEvent`, which the second form of `Enqueued`
covers. A client of a bare, queued or resolved key returns with the id it saw
last. `pruned` holds the keys whose state the bus gave up.

### AgentLoop

One run of `runLoop`, a single goroutine. `pc` is the place in the loop: `turn`
(the delegation trigger: `NoCheck`, `NoTrigger`, `Plan`, `Trigger`), `model` (the
reply, or its failure and retries), `gate` (the filter of a forced mode),
`tools` (`executeTools`, a call a step: `RepeatMutation`, `RepeatTooOften`,
`Replay`, `RefuseCreate`, `Execute`, in the order the code asks), then the stop
conditions (`StopAtOnce`, `Stop`, `GoOn`), and `delegate`
(`executeDelegatedTasks`). The counters are those of `runState`: `row`
(consecutive failures), `recovering`, `since`, `calm`, `blockers`, `noProg`,
`allBlocked`, `repeats`. A call is the record of the keys the code derives from
it, so that two spellings of a mutation are two calls with one `shot`. What the
model replies and a tool returns is any of the constants' values; the score of
the context is any value the token counts give. Plans are chains of two or three
tasks, as `DecomposeTask` makes them, sorted by `topologicalSortTasks`.

### ChatStore, Conversations

`ChatStore` has the operations of the store as atomic steps: each runs under the
lock of the file it writes. `Conversations` is what lies between them: the
handler of a message (`chat[m]`: route, resolve or create a session, check and
write the pointer, append, queue), the run (`run[m]`: read the session, file tool
results and the answer, fail, be retried, settle), and the wait for the verdict,
which ends on four spellings of a status or after its two minutes. Of a session
the model keeps the entries of each question in order. `Refuse` stands for the
allowlist, the rate limits and the commands that change nothing. The dashboard
sets an agent pointer as well, which is left out: the routing never reads it when
an agent is given, and one always is (see Findings).

### Services and its parts

`Services` puts the services around a run together; `Fleet` has what they share,
the agents and the count of failures. They have no other state in common, so a
behaviour has one `workload`: the composition of two would add interleavings and
no behaviour of either.

- `AgentMail`: a letter and its statuses as entries of a session file. `Stamp`
  is the time an entry gets before the session's lock is waited for,
  `AppendStatus` and `AppendFails` the append, whose error the code ignores.
  `InboxMessage` merges entries as the dashboard does, `ToolInboxMessage` takes
  the last one, as `agent.message.inbox` does.
- `Instances`: `saveProjectedInstance` file by file (`WriteManifest`,
  `WriteAgent`, `DropAgent`, `FinishSave`) for each request that ends in it, the
  deletions, and the bootstrap of the default instance by runs in between. The
  bootstrap's default agent is any the old configuration may name, its agents those
  with a legacy directory; where the two do not meet, or a write failed, the instance
  counts as incomplete (`broken`).
  Requests are taken one at a time.
- `PromptStack`: `UpdateLayer` and `Rollback` as `ReadLayer` and `WriteLayer` of
  several stores, seeding, and the dashboard's rollback of a whole stack. Each
  write is the successor of the version that was read, so a file's numbers have
  no gap though updates get lost.
- `ModelCall`: attempts and backoff of `Generate`; a stream's text as pieces named
  by the attempt they came in, which the text of a whole message repeats (`FullText`) and
  an item or response at the end gives unheard (`TextItem`); tool calls put together from
  mixed pieces, by index or id, or from whole calls in a response or in items, of which
  the first is kept (`Styles`).
- `ToolReplies`: what a reply is read as. A text is a sequence of parts (fence,
  bare JSON, tag, odd quotation mark), each visible or in thinking, its JSON sound,
  with commas, cut off or broken; caps, aliases, spellings and the three different
  tests for permission are as in the code. A tag takes the first object behind its
  comma (`Takes`), which may be another tag's or a block's, and what is before its
  end is skipped (`Tags`). A tag without a comma, which names no tool, and a brace that
  text after it closes are not modelled.
- `Memory`: a run's event writer (`IngestEvent`, `WriteEvent`, `WriteEventFails`
  with the error the buffer keeps, `CloseWriter`, `ProcessEnds`), and the items
  with their two indexes under the memory tools.
- `RunMonitor`: runs with their audit lines, trackers and stored status, and a
  request that reads the audit file line by line, the store, the notes, and
  retires what is stale. The list treats each run by itself, so the model follows
  one. A run may fail before it logs anything (`FailEarly`); such a run is shown only
  while there is a note about it.
- `Settings`: `WriteAtomic` in its three steps for every writer of config.json,
  the dashboard's snapshots, grants and revocations as read and save of
  capabilities.json. Restoring a snapshot writes config.json only where the
  default instance cannot be projected; otherwise it rewrites manifests.
- `Workspace`: the tools that write, step by step, on the host (truncate, then
  put) or in a container that may go away. Text is the set of calls that wrote it;
  `kept` is what no call was asked to take away, `overwritten` what edits, and
  appends in a container, wrote over because they had read the file before. Moves
  are of files only.
- `TextEdits`: `applyLineEdits` and `applyUnifiedDiff` against the reference
  `Replaced`. Edits are given one at a time and copied at once, so each meets every
  state the ones before leave.
- `ReverseScan`: `ReverseScanner` chunk by chunk against the reference
  `LinesFromEnd`; a byte is its position.

## Runs

| Run | Instance | What it shows |
|---|---|---|
| `queue_records` | 3 runs (symmetric), 2 slots, 1 persisted record, 2 attempts, 1 crash, 1 cancel under way, failing writes | `SlotsAccounted`, `RecordsMatchOwners`, `TrackerExact`, `StreamVerdictIsStored`, `CancelHonoured`, and that the store implements `RunLifecycle` |
| `queue_drain` | 3 runs, 2 slots, a shutdown, no failures | `DrainCoversEarlierRuns` |
| `queue_settles` | 2 runs, 2 slots, 1 persisted record, 2 attempts, 1 crash, 1 cancel under way, failing writes | liveness `EveryRunSettles` |
| `slots` | 3 callers, engine limits 2 or 3, instance limit none or 3, 1 edit | `SlotsBalanced`, `ExecutionsWithinLimit` |
| `slots_single` | the same with engine limit 1 | `LoneRunAdmitted` fails (finding) |
| `scheduler` | a one-shot and a recurring job, 2 times, 1 command, 1 foreign write, 1 failing reload, 1 crash, failing writes | `NoRepeat`, `CommandsKept`, `MissedStayMissed`; liveness `DueJobStarts` |
| `scheduler_refused` | no failures but a queue that may be full | `StampedWasQueued` fails (finding) |
| `events` | 2 runs of 3 events, 1 client that comes twice, room for 3 states, replay 2, buffer 1 | `EndsWithVerdict`, `NewestPending`, `NeverBackwards`; liveness `EveryStreamEnds` |
| `events_unnamed` | 1 run queued without its instance | `EndsWithVerdict` fails (finding) |
| `agent_loop` | 4 iterations, 5 settings, 5 kinds of call, replies of 1 or 2 calls, 1 blocking category, 2 other errors | `StuckRunsStop`, `EffectsOnce`; liveness `Terminates` |
| `conversations` | 2 messages, 2 agents, 2 rooms, 2 sessions, 2 attempts, 2 failures, cancels, closings or crashes | `PointersSound`, `VerdictMatchesConversation`; liveness `EveryMessageAnswered` |
| `control_plane` | 2 agents, 1 failure or crash, 2 to 4 actors of each service (symmetric where they are alike) | `ReadsTruthful` (`StatusesTruthful`, `TailExact`), `TextFaithful` (`StreamFaithful`, `StoredKept`, `EditsExact`), `CallsAsWritten`, `InstancesUsable`, `RollbackRestores`, `EventsAccounted`, `IndexExact`, `MonitorTruthful`, `SettingsSound` |

Each module also has a type invariant, checked in the run of that module. For
every property of a passing run `PROJECT.json` lists a plausible bug in the code
(an operator of the module commented "Mutant of") that breaks it.

Why the bounds are enough. Two slots and three runs reach a full queue, a
refused run and a counter that returns to zero and leaves it again. One
persisted record makes every second save compact. With two attempts a retry
happens and ends. Three callers are one holding a stale channel, one replacing
it and one holding a slot. Two times separate due, overdue and period; one
command, one foreign write, one failing reload and one crash each meet every step of a check, and a
second of the same kind starts from a state the first already reaches. Three
states for four keys make the bus prune; replay and buffer are both shorter
than a run's events, so both overflow. Three events per run are a first, a
middle and a last.

Four iterations let the counters of failures, recovery, repetitions and blocked
turns reach their caps in every mixture with a success in between; the caps
themselves (two, three) are the code's, the retry caps are one, which has a last
attempt and one that is not. Two messages suffice for two handlers between each
other's checks and writes, and each may be retried; failures strike the first,
which the second may overtake. In `control_plane` each service has two actors of
a kind where they race (three where a third can come between the steps of the
other two: mail, workspace), one item more than is needed to tell "another" from
"the same", and one failure, since what follows a failure in the code is the
state of a new call. `ReverseScan` has every file of up to six bytes, chunks of
two and lines of up to three, so lines of no, one, two and three chunks and every
border; the code needs only that a chunk is no longer than the longest line.
`TextEdits` has files of up to three lines and two edits, every range and every
mixture of up to two rows that the walk tells apart. `ToolReplies` has replies of
three parts and caps of two and three, so that both overflow. `RunSlots` bounds
the channels that exist at once; a channel nobody refers to is used again.

Deadlock is checked except in `queue_records`, `queue_drain`, `queue_settles`, the two
events runs, `conversations` and `control_plane`, where everything is over
after finitely many runs, connections, messages and requests.

Symmetry is used only where no liveness property is checked.

## Fairness

`RunQueue`: weak fairness of each carrier. A goroutine is scheduled, the
mutexes it takes are held briefly, and the engine bounds an execution by the
run timeout. Nothing is assumed of cancels, shutdown or crashes.
`Scheduler`: weak fairness of the executor's steps (the ticker goes on and a Go
mutex is not withheld for ever) and of the end of a save under way; not of the
clock, of commands or of other Stores. `RunEvents`: weak fairness of the
carriers, which `EveryRunSettles` justifies, and of the handlers' receives; not
of clients that connect or leave. `AgentLoop`: weak fairness of the loop as a
whole, since its model calls, tools and sub-agents have time limits; nothing is
assumed of what they return. `Conversations`: weak fairness of each handler, each
wait and each run, which are goroutines with deadlines; not of arrivals, cancels,
closings, failures or crashes. `RunSlots` and `Services` have no liveness
property.

## What is proved

`RunQueue_proofs` proves, for every finite set of runs and all values of the
limits and bounds that satisfy `ConstantsAssumption`, `TypeCorrect`,
`SlotsCorrect`, `TrackerCorrect`, `RecordsCorrect`, `VerdictsCorrect` and
`CancelsCorrect`: the invariants that `queue_records` checks.

None of them is inductive. That compaction spares a run's record needs the
record to be active while it is carried; that the stored status is the announced
one needs the verdict to be terminal from `Settle` on and no terminal status
before it; that an acknowledged cancel is honoured needs the context to stay
done until the verdict is formed, and the file to hold only old or new views of
the records. `IInv` collects this place by place (`NoRecordYet`, `NoVerdictYet`,
`VerdictKept`, `LostByCrash`, `AckInContext`). The store is treated once, by the
lemmas `CompactDropsTerminal`, `PutRecordEffect` and `UpdateRecordEffect`; the
step lemmas (`TypeStep`, `SlotsStep`, `TrackerStep`, `RecordsStep`,
`CancelStep`) have a case for each action. `IInv` was model-checked on two runs
before it was proved.

It also proves `DrainCorrect`, the invariant of `queue_drain`, beside `IInv`: the tracker's channel is closed exactly while the counter is zero
(`ChannelInv`), a waiter holds that channel or one whose runs are over
(`WaiterInv`), and without failing writes the file is the map (`FileInv`). The
step that matters is the last `Done`: with `SlotsAccounted`, a counter of one
means that no other run is left.

Its last part proves `StoreRefinesLifecycle`, the refinement that
`queue_records` checks: `Create`, `Start` and `Persist` are `Advance`, `Crash` is
`Restart`, the rest stutters (`StepRefines`). That an advance starts from the
right status is `StageInv`. That compaction drops no more than the excess
(`CompactStopsAtLimit`) is a counting argument: distinctly stamped records have
distinct numbers of older ones, so at most n have fewer than n (`FewPrecede`);
`StampInv` is what it needs of the stamps. The model's stamps are distinct
because two verdicts are two steps; in the code they are `time.Now()` readings,
and of two equal ones the run created first goes first.

The other proof modules have this form, too: an inductive invariant, a lemma for
each kind of step, a case for each action.

`RunEvents_proofs` proves all safety properties of the bus, for any number of
runs and clients and all its limits: `TypeOK`, `NewestPending`, the action property
`NeverBackwards`, and `EndsWithVerdict` where every run is queued with its
instance. That hypothesis, `Unnamed = {}`, is needed: the run `events_unnamed`
shows what happens without it. `AnnouncedStreamsEndWithVerdict` says, with no
hypothesis, for which keys the stream does end with the verdict. The invariant
`EventsInv` says of a key that its replay holds its newest events, of a client that
has not lost its key that what waits in its channel are the newest events
(`Newest`) and that it has been told the verdict or will be from there
(`Caught`), and of an ended key that it has a verdict unless it was given up. What
a filtering loop leaves of a sequence is a lemma about `Chosen` by counting
places, since the library's `SelectSeq` is a recursive operator.

`RunSlots_proofs` proves `TypeOK`, `SlotsBalanced` (`SlotsStayBalanced`) and
`ExecutionsWithinLimit` for any number of callers, channels and edits. The
invariant is `SlotsBalanced` with what a caller's variables name at each place
(`Names`): a step then moves the balance of one channel only. `OneChannel`, that nothing was replaced
while no limit was edited, gives the second.

`Scheduler_proofs` proves the type invariant, `NoRepeat`, `CommandsKept` and the
action property `MissedStayMissed`. `RepeatInv` adds to the starts of a one-shot
the chances to start it that are still open (`Chances`: it is fresh in the cache
or in the executor's hands, or another Store holds a view it will write), so that every step trades a chance for
a start, and only a crash, a foreign write or a stamp given up for a failed reload
makes a new one. `KeptInv` says,
while no other Store wrote, that file and cache obey the last command on every
job and that a skipped job is neither about to run nor fresh.

`AgentLoop_proofs` proves `TypeOK`, `StuckRunsStop` and `EffectsOnce` for every set
of calls, errors and caps. `LoopTypes` adds to the types that a turn with calls has
been counted, which is why the number of turns stays within `ToolCap`. `BoundsInv` relates the failures in a row to those since
recovery began, without which neither bound is inductive. `EffectsInv` says that
what was executed is remembered (`Remembered`), in the cache with certainty and
by its one-shot key. `ForcedModesHaveSubtasks` is why the filter's rewriting to
`agent.run` is left out.

`Conversations_proofs` proves `TypeOK`, `PointersSound` and
`VerdictMatchesConversation` for any number of messages, rooms, agents, sessions
and attempts. `GoodChat` says what a handler knows of its session at each place
(sessions never change room or agent, which is why checking long before writing
is enough), `GoodRun` what a run may have filed: no answer before its outcome is
`ok`, and then last.

`Services_proofs` proves `ReadsTruthful`, `TextFaithful`, `CallsAsWritten` and `TypeOK` of
the composition: what the services take and hand on. `MailInv`: an entry that says a letter runs is followed by a later one
that settles it (`Answered`), or a call is still to write one with a later time
(`Answers`), or could not. The inbox is a fold over the file, and what it shows, the
status of the latest entry and a run if any entry has one (`Shows`), is shown by
induction along it (`InboxShows`). `CallInv`: the listener has heard
a prefix of the answer, all of it while the stream goes on, the answer is the pieces of
one attempt in order, once more from the first where a whole message came, and the slots
are at each moment the calls begun so far, in order, with their pieces so far
(`WholeSlots`), or the first call begun where calls come as items.
`CallsAsWritten`, for answers of any length, is an invariant by itself once the fields of
the reading and the parts of the text are known (`RepliesInv`); the work is in what the
step `ReadText` computes. All it draws from a text is `FlattenSeq` of sequences, and every
entry of that has a place it comes from, in the order of the places (`OriginIs`). So each
call found in JSON has its object (`Located`), those of fenced blocks come first, in the
order they are written, and none that can be read is missing (`FoundIs`); as many are
before a call as its number says (`CountBefore`), which is why only the cap can cost one;
and what is left of equal calls is the first (`Firsts`). A call behind a tag has the
arguments of the tag, or of the part behind it that it takes (`Borrows`, `ReadTagIs`), which
the visible part of a text does not change the order of. A text of which nothing is read
has no readable object in a fence (`NoneInFence`), so that reading its visible part
instead loses none.
`EditInv`, for files and edits of any number: while a call is not refused its ranges lie
before the next line to be copied, in order and apart (`Fit`), and what is put out is
what the reference makes of the lines before that one (`OutUpTo`). `TypeOK` puts the types
of the services together: an attempt that waits for its next is below the last one, what a
hunk that fits puts out are lines of the file and new ones (`WalkedIn`), and no step counts
more failures than there are (`FailuresCounted`). One more edit adds
nothing to the lines before its range (`FitStep`); up to it the lines are copied
(`OutCopies`) and over it they are passed (`OutPasses`). The rows of a hunk move the
cursor by as many lines as the header counts, and leave what the reference says
(`WalkIs`).

The prover cannot instantiate the library's induction theorems, but the well-founded
order of the naturals gives a least element (`LeastNatural`), and with it induction
over a set (`UpTo`) and the existence of the function a recursion defines
(`Recursion`). `InboxShows` and `BegunStep`, what one more piece adds to the calls
begun, rest on them, and so do `OriginIs`, and all that is said of `TailExact`: the pieces joined
(`JoinedStep`), the lines collected (`CollectedHead`, `CollectedStep`), the lines of the
file from its end (`LaterIs`), the bytes of a chunk (`ChunkWalks`); and of `EditsExact`
the reference up to a line (`Up`) and what is put before it (`PutIn`).

`Histories_proofs` has what the services leave behind for others to read, and proves
`SettingsSound`, `IndexExact`, `InstancesUsable`, `MonitorTruthful`, `RollbackRestores`,
`EventsAccounted`, for `TextFaithful` `StoredKept` and for `ReadsTruthful` `TailExact`
(`HistoryTailStaysExact`). `ConfigInv` adds that what every writer holds is valid, and what
it would copy was once the file; `PolicyInv` that a pending save no other
overlapped agrees with the file on every entry but its own; `ItemsInv` types the
calls; `InstancesInv` that a request under way writes an agent list that has its
default agent. Of the default agents a configuration may name nothing is assumed.
`MonitorTruthful`: a note says that a run was canceled, or what the store says
(`NotesOK`); `JobsInv` ties the place a run has reached to its lines in the
audit file and its status in the store, and `ViewOK` says what a request that has
read some of them may conclude, whatever happened since: what it saw as a verdict
is still the verdict (`KnownLasts`) and is what it shows once it has read a line, and a sub-agent's run it saw as running and
not tracked is over. `RollbackRestores`: the versions of a file count up without a
gap (`Sound`), so that a version number stays the entry it was, and of a rollback
nobody wrote during, every layer has what the snapshot wanted, or has its call
still to come, or is being written (`Restoring`). `EventsAccounted`: every number a
run gave out is in exactly one of file, queue, dropped and failed, the queue is in
order and behind the file (`EventWriterOK`). `StoredKept`, with `WorkspaceInv`: text not
taken away nor overwritten is in a file, or with a call that truncated the file and follows
it wherever it is moved (`Holds`); on the host no append is among the calls that read a file
and write it back (`UseOK`, which has what every call has seen before it acts), so none
overwrites (`OverOK`). What is there has
its folder (`WorkspaceTypeOK`) because a call only ever writes to a file or moves one,
never the folder (`FilesOK`). `ScanInv`, for histories and chunks of any size: the pieces left over, joined, are
the rest of the line at the scanner's position, and the messages found with the lines
pending are those that begin later (`Midway`), until the first line is taken too
(`AllRead`). Within a chunk the same holds at each byte looked at (`Walked`,
`LookWalks`); a line too long to be joined is a line of the file (`LineHas`).
`PromptInv`, `MonitorInv` and `EventsInv`
were model-checked on the runs of their workload before they were proved.

Assumptions on the constants are named in the modules that declare them and
evaluated by TLC. `MonitorAssumption`: a run is of the queue or of a sub-agent, not
both (they come from two different handlers), and no status is called None.
`WorkspaceAssumption`: None is no path, and the folder none of the paths in it or beside it.
`CallAssumption`: a call has an attempt at least. `MemoryAssumption`: no status is called
None, and the queue's size is a number. `ScanAssumption`: sizes of buffers are positive.
`RepliesAssumption`: an answer's cap on calls is not below that on the JSON in it (the
code has 12 and 6), or repeated calls in fences could be lost before the cap that
`CallsAsWritten` allows for; what a run is allowed are tools, so None is not among them, and
None is no name a reply may call a tool by.
`EXCEPT` with an `@` inside an `IF` or a `LET`, and `LOCAL INSTANCE`, are read
differently by the prover than by TLC; modules with proofs write the old value out
and name their instances (`Lists`, `Seqs`, `Sets`).

Only model-checked: all liveness, which is beyond the prover, with `ENABLED`
(`EveryRunSettles`, `DueJobStarts`, `EveryStreamEnds`, `Terminates`,
`EveryMessageAnswered`). Every safety invariant and action property a passing run checks
is a theorem. What selects from a sequence in a module with proofs is written with
`FlattenSeq` (`Picked`), whose recursion is by a function, and not with `SelectSeq`, whose
recursion is by an operator.

## Findings

- An execution takes two slots of one channel when its instance has a limit, so
  `engine.max_concurrent_runs = 1` admits nothing (`slots_single`).
- A scheduled job that meets a full run queue is stamped, and a one-shot
  disabled, without a run (`scheduler_refused`).
- A run queued without an instance publishes its terminal event under another
  composite key than its other events and its close (`events_unnamed`).

Disagreements of code and documents the models show, and the properties name as their
exceptions, without a run of their own:

- If the jobs file cannot be read as a check writes back (`scheduler/scheduler.go:225`),
  what it started is stamped nowhere and started again, one-shots included, though
  `docs/specs/ACCEPTANCE.md` has a one-shot run once; a job to be skipped as missed is
  started, too (207). `NoRepeat` counts these starts (`unstamped`).
- `/agent` sets a pointer the routing reads only if a message names no agent
  (`channels/chat/connector.go:98`), and every caller names one: the command has no effect.
- The first run of a world from before instances makes the default instance active with
  the configuration's default agent (`instances/store.go:592`), which may have no manifest;
  a run that names no agent is refused from then on, though the plan of the migration wants
  the system to boot without manual steps. `InstancesUsable` takes such an instance for
  incomplete (`broken`).
- An append to a file in the agent's container writes back what it read
  (`tools/builtins.go:316`) and takes away what another appended in between, though
  `docs/TOOL_CATALOG.md` has it replace nothing (`StoredKept`, `overwritten`).
- A `<tool_call>` tag without arguments takes the next object of the reply for its
  arguments (`runtime/model.go:1694`), another call's included, and is executed with it
  (`CallsAsWritten`, `BorrowedAt`).
- A run that failed without an audit line is listed as canceled if the dashboard noted
  that before, whatever the store says (`channels/dashboard/handler.go:2089`), though for a
  run with audit lines the store's verdict wins (`MonitorTruthful`).

Met while modelling and excluded from a property, with the reason beside it:
the file of a failed scheduler save differs from the cache (`DueJobStarts`); a
job added again while a check runs its namesake is stamped as run
(`DueJobStarts`); changes of concurrent Stores overwrite each other (`NoRepeat`,
`CommandsKept`); after a limit is edited a caller with a stale channel can
exceed every configured limit (`ExecutionsWithinLimit`); a stream of a key the
bus gave up never ends (`EveryStreamEnds`); records that were active when the
server died stay active (`RecordsMatchOwners`).

Met in the services and the loop, likewise: a canceled run's status is spelled
differently where it is waited for, so the wait runs into its timeout
(`EveryMessageAnswered` holds because of the timeout); a retry repeats what the
attempt before filed in the session; two messages at once may each create a
session; two executions of one mail, and a mail left "running" by a crash
(`StatusesTruthful`); two prompt stores on one file lose an update
(`RollbackRestores`); overlapping grants lose an entry (`RevocationLasts`), and a
run that cannot read capabilities.json is given the defaults; a forgotten memory
item comes back through an update that read it before; memory events of a process
that ends are lost (`EventsAccounted` speaks of writers that were closed); a cancel between a run's record and its
tracker is answered though the run goes on (`MonitorTruthful` speaks of verdicts); an edit overwrites what came
after it read the file, or what there was if it fails half-way (`StoredKept`); text of a
whole message is heard a second time, text that comes only at a stream's end is answered
unheard, and of calls in items of their own only the first is kept (`StreamFaithful`);
the end of a stream without its mark counts as the end of the answer, and an odd
quotation mark hides bare JSON without a parse failure (`CallsAsWritten` speaks of
fenced blocks); a hunk that only adds goes before the line it names; a text that
begins with "FAILED:" counts as a failed subtask; a move with overwrite onto a
folder that holds its source removes the source.

## Not modelled

- Texts: prompts, results, summaries, the patterns that classify a request, the
  ranking of recall. Where a decision depends on them, the models take any.
- Wire formats, authentication, views of a single source, pages, the network tools
  and the shell: they keep no state of this program.
- Secrets, audit and artifacts: written once or appended; the audit file is
  `RunMonitor`'s source. The secret store's read-modify-write by several stores is
  the case `PromptStack` has.
- Concurrent requests on one instance (the dashboard has no lock for them): the
  model takes them one at a time. Deleting an instance while another request
  activates it leaves a dangling pointer, which the next run repairs by
  bootstrapping the default.
- The depth limit of delegation: a sub-agent is an execution with any result, and a
  nested run takes slots of its own (`RunSlots`).
- Backup copies of sessions, the index of the chat store and the data race on it,
  the granularity of file times.

What a next step would take up: requests on instances at the same time, and the
tree of runs that delegation makes over the engine's slots.
