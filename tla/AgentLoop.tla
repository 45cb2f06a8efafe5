----------------------------- MODULE AgentLoop -----------------------------
(***************************************************************************)
(* The loop of one agent run (agent/run_state.go runLoop, agent/runner.go, *)
(* agent/complexity.go): a turn checks whether to delegate, asks the model *)
(* and, if the reply has tool calls, filters them, runs them one by one    *)
(* and judges the outcome; the run ends with an answer or an error.  The   *)
(* loop is one goroutine.  What the model replies and what a tool returns  *)
(* is any of the values below; what the loop counts, caches and refuses is *)
(* as in the code.  Prompts, decision records and texts are left out: a    *)
(* text matters only in being empty or not.                                *)
(***************************************************************************)
EXTENDS Integers, Sequences, FiniteSets

CONSTANTS
  None,            (* no key                                                 *)
  Calls,           (* the tool calls the model may ask for                   *)
  Batches,         (* the sequences of calls a reply may have                *)
  Inputs,          (* the run inputs and engine settings                     *)
  Blockers,        (* errors of a structural category, one per category      *)
  Faults,          (* other errors                                           *)
  ToolCap,         (* MaxToolIterations                                      *)
  Marks,           (* iterations that raise the score (40, 80, 120)          *)
  Contexts,        (* the context scores the token counts may give (0..3)    *)
  Cooldowns,       (* turns without a trigger check after a trigger          *)
  ModelRetries,    (* noChoicesRetryCap, transientModelRetryCap              *)
  ParseRetries,    (* toolParseRetryCap                                      *)
  FollowUps,       (* followThroughRepromptCap                               *)
  CreateCap        (* agentCreateGlobalCap                                   *)

(***************************************************************************)
(* A call is known by the keys the loop derives from its name and          *)
(* arguments: its cache key ("|" is None), its one-shot mutation key, its  *)
(* repetition key and cap where the generic guard counts it, the agent it  *)
(* creates, and whether it is agent.run or agent.list.  returns: what its  *)
(* tool may answer.                                                        *)
(***************************************************************************)
ASSUME CallsAssumption ==
    \A c \in Calls :
        /\ DOMAIN c = {"key", "shot", "rep", "cap", "creates", "agent", "returns"}
        /\ c.returns \subseteq Blockers \cup Faults \cup {"ok"}
        /\ c.cap \in Nat /\ c.agent \in BOOLEAN
        \* Every one-shot mutation has a cache key.
        /\ c.shot # None => c.key # None
ASSUME NumbersAssumption ==
    /\ ToolCap \in Nat \ {0} /\ {ModelRetries, ParseRetries, FollowUps, CreateCap} \subseteq Nat
    /\ IsFiniteSet(Marks) /\ Marks \subseteq Nat /\ Contexts \subseteq 0..3 /\ Contexts # {}
    /\ Cooldowns \in [{"prompt_only", "tool_gated", "auto_execute"} -> Nat]
    /\ Batches \subseteq Seq(Calls) /\ <<>> \notin Batches
    /\ "repeated" \notin Blockers \cup Faults /\ "ok" \notin Blockers \cup Faults
    /\ "new" \notin Blockers \cup Faults /\ Blockers \cap Faults = {} /\ "limit" \in Faults

Errors   == Blockers \cup Faults
Planners == {"suggest_only", "approve_plan", "auto_trusted", "full_autonomous"}
Forced   == {"tool_gated", "auto_execute"}

\* The settings of runner.go: failureRecoveryTrigger and the caps after it.
RecoveryTrigger  == 2
Escalation       == 3
BlockerCap       == 3
NoProgressCap    == 3
AllBlockedCap    == 2

VARIABLES
  input,       (* settings of the run: delegation mode and what it may use   *)
  pc,          (* turn, model, gate, tools, judge, delegate, done            *)
  turn,        (* the calls of this turn and what came of them               *)
  iter,        (* toolIterations                                             *)
  attempts, parseRetries, followUps,     (* retries of a turn of the model   *)
  row, recovering, since, calm,          (* failures in a row, and recovery  *)
  blockers,    (* structuralBlockerCounts                                    *)
  noProg, allBlocked,                    (* turns without a fresh execution  *)
  repeats,     (* repetitionPrevention                                       *)
  succeeded,   (* successfulOneShotMutations                                 *)
  cache,       (* cachedToolResults and the counted failures, by cache key   *)
  last,        (* lastUncacheableOutputs                                     *)
  mode,        (* delegationMode; delegationLocked is mode \in Forced        *)
  cooldown,    (* delegationCooldown                                         *)
  pending,     (* pendingSubtasks: their number, a chain                     *)
  deleg,       (* executeDelegatedTasks: where it stands                     *)
  results,     (* some tool result exists                                    *)
  answer, err, (* RunOutput.FinalText and the error of runLoop               *)
  ran          (* history: successful executions of each call                *)

guards    == <<row, recovering, since, calm, blockers>>
progress  == <<noProg, allBlocked>>
memo      == <<repeats, succeeded, cache, last, ran>>
reprompts == <<attempts, parseRetries, followUps>>
forcing   == <<mode, cooldown, pending>>
ending    == <<answer, err>>
vars == <<input, pc, turn, iter, reprompts, guards, progress, memo, forcing, deleg,
          results, ending>>

RepKeys   == ({c.rep : c \in Calls} \cup {c.creates : c \in Calls} \cup {"total"}) \ {None}
CacheKeys == {c.key : c \in Calls} \ {None}

\* A turn: calls not yet looked at, those the filter kept, how many were kept
\* in all, an execution was fresh, a done one-shot mutation was asked for
\* again, and all results so far were "repetition detected".
NoTurn == [queue |-> <<>>, kept |-> <<>>, text |-> FALSE, size |-> 0, fresh |-> FALSE,
           shot |-> FALSE, rep |-> TRUE]
\* No delegation under way.  A verdict is what isFailedSubtaskResult sees.
NoDeleg == [task |-> 0, tries |-> 0, verdict |-> <<>>, then |-> "none"]

Init ==
    /\ input \in Inputs
    /\ pc = "turn" /\ turn = NoTurn /\ iter = 0
    /\ attempts = 0 /\ parseRetries = 0 /\ followUps = 0
    /\ row = 0 /\ recovering = FALSE /\ since = 0 /\ calm = 0
    /\ blockers = [b \in Blockers |-> 0]
    /\ noProg = 0 /\ allBlocked = 0
    /\ repeats = [k \in RepKeys |-> 0]
    /\ succeeded = {} /\ cache = [k \in CacheKeys |-> [outcome |-> "new", times |-> 0]]
    /\ last = [c \in {d \in Calls : d.key = None} |-> "new"]
    /\ mode = "" /\ cooldown = 0 /\ pending = 0 /\ deleg = NoDeleg
    /\ results = FALSE /\ answer = "none" /\ err = "none"
    /\ ran = [c \in Calls |-> 0]

\* The run ends with answer a and error e.
End(a, e) == pc' = "done" /\ answer' = a /\ err' = e

-----------------------------------------------------------------------------
(* The delegation trigger.                                                 *)

\* ComputeComplexity, for a context score the token counts give.
Blocked == IF allBlocked >= 1 THEN 3 ELSE 0
Score(context) ==
    (IF row >= 3 THEN 3 ELSE IF row >= 2 THEN 2 ELSE 0)
      + (IF noProg >= 2 THEN 2 ELSE 0) + Blocked
      + (IF \E k \in RepKeys : repeats[k] >= 2 THEN 2 ELSE 0)
      + context + Cardinality({m \in Marks : iter >= m})

\* The mode a score calls for, "" for none.
Called(score) ==
    IF (Blocked >= 3 /\ score >= 4) \/ score >= 6 THEN "auto_execute"
    ELSE IF score >= 4 \/ Blocked >= 3 THEN "tool_gated"
    ELSE IF score >= 2 THEN "prompt_only" ELSE ""

\* ShouldTriggerDelegation: a question to the user holds all but the last.
Triggered(score, asked) ==
    IF asked /\ Called(score) # "auto_execute" THEN "" ELSE Called(score)

\* shouldAutoExecutePlan, and a runner to execute it with.
AutoExecutes ==
    /\ input.subagents
    /\ \/ input.delegation = "full_autonomous"
       \/ input.delegation \in {"auto_trusted", "approve_plan"} /\ input.trusted

\* DecomposeTask: every plan is a chain, each task depending on the one before
\* it, known here by its length.  A request that names an analysis of the whole
\* gets three phases, the other patterns and the signals of the score get two
\* tasks: diagnose or summarize, then act.
PatternTasks == {2, 3}
SignalTasks  == {2}
Subtasks     == PatternTasks \cup SignalTasks

Chain(n) == [t \in 1..n |-> [after |-> {t - 1} \ {0}, priority |-> t]]

\* topologicalSortTasks: of the tasks whose dependencies come before, the one of
\* the lowest priority number is next.
Sorted(tasks) ==
    CHOOSE order \in [DOMAIN tasks -> DOMAIN tasks] :
        \A k \in DOMAIN tasks :
            LET before == {order[j] : j \in 1..(k - 1)}
                ready  == {t \in DOMAIN tasks \ before : tasks[t].after \subseteq before}
            IN  order[k] \in ready
                  /\ \A t \in ready : tasks[order[k]].priority <= tasks[t].priority
Order == [n \in Subtasks |-> Sorted(Chain(n))]

\* executeDelegatedTasks begins on a chain of n subtasks; afterwards the run
\* ends with their results, or the filter goes on with the turn's next call.
StartDelegation(n, then) ==
    /\ pc' = "delegate"
    /\ deleg' = [task |-> 1, tries |-> 0, verdict |-> [t \in 1..n |-> "none"], then |-> then]

TriggerRest == <<input, turn, iter, reprompts, guards, progress, memo, results>>

\* The mode is forced already, or it is too early to look again.
NoCheck ==
    /\ pc = "turn" /\ (mode \in Forced \/ cooldown > 0)
    /\ pc' = "model"
    /\ cooldown' = IF mode \in Forced THEN cooldown ELSE cooldown - 1
    /\ UNCHANGED <<TriggerRest, mode, pending, deleg, ending>>

NoTrigger ==
    /\ pc = "turn" /\ mode \notin Forced /\ cooldown = 0
    /\ \E s \in Contexts, asked \in BOOLEAN : Triggered(Score(s), asked) = ""
    /\ pc' = "model"
    /\ UNCHANGED <<TriggerRest, forcing, deleg, ending>>

\* A planner mode takes over from more than advice: it runs its plan, or
\* returns it to the operator.
Plan ==
    /\ pc = "turn" /\ mode \notin Forced /\ cooldown = 0 /\ input.delegation \in Planners
    /\ \E s \in Contexts, asked \in BOOLEAN : Triggered(Score(s), asked) \in Forced
    /\ \E n \in Subtasks :
        /\ pending' = n
        /\ IF AutoExecutes THEN StartDelegation(n, "end") /\ UNCHANGED ending
           ELSE End("plan", "none") /\ UNCHANGED deleg
    /\ UNCHANGED <<TriggerRest, mode, cooldown>>

Downgraded(m) == IF ~input.subagents /\ m \in Forced THEN "prompt_only" ELSE m

Trigger ==
    /\ pc = "turn" /\ mode \notin Forced /\ cooldown = 0
    /\ \E s \in Contexts, asked \in BOOLEAN, n \in Subtasks :
        LET called == Triggered(Score(s), asked) IN
        /\ called # "" /\ ~(input.delegation \in Planners /\ called \in Forced)
        /\ mode' = Downgraded(called) /\ cooldown' = Cooldowns[called] /\ pending' = n
        /\ IF mode' = "auto_execute" /\ input.autoDelegate THEN StartDelegation(n, "end")
           ELSE pc' = "model" /\ UNCHANGED deleg
    /\ UNCHANGED <<TriggerRest, ending>>

-----------------------------------------------------------------------------
(* executeDelegatedTasks: the tasks in their order, two attempts each.     *)

DelegationRest == <<input, iter, reprompts, guards, progress, memo, results>>

Waiting    == pc = "delegate" /\ deleg.task <= Len(deleg.verdict)
Task       == Order[Len(deleg.verdict)][deleg.task]
Verdict(v) == deleg' = [deleg EXCEPT !.verdict[Task] = v, !.task = @ + 1, !.tries = 0]
\* A task it depends on has failed.
Unsettled  == \E t \in Chain(Len(deleg.verdict))[Task].after : deleg.verdict[t] = "failed"

\* The sub-agent succeeds, its text not mistaken for a failure.
TaskDone ==
    /\ Waiting /\ ~Unsettled
    /\ Verdict("done")
    /\ UNCHANGED <<DelegationRest, pc, turn, forcing, ending>>

\* It fails once, twice, or its text begins with "FAILED:".
TaskFails ==
    /\ Waiting /\ ~Unsettled
    /\ \/ deleg.tries = 0 /\ deleg' = [deleg EXCEPT !.tries = 1]
       \/ deleg.tries = 1 /\ Verdict("failed")
       \/ Verdict("failed")
    /\ UNCHANGED <<DelegationRest, pc, turn, forcing, ending>>

TaskSkipped ==
    /\ Waiting /\ Unsettled
    /\ Verdict("failed")
    /\ UNCHANGED <<DelegationRest, pc, turn, forcing, ending>>

\* The results become the answer.  In the middle of a turn the mode is lifted.
DelegationEnds ==
    /\ pc = "delegate" /\ deleg.task > Len(deleg.verdict)
    /\ deleg' = NoDeleg
    /\ IF deleg.then = "end" THEN End("delegated", "none") /\ UNCHANGED <<mode, pending>>
       ELSE /\ pc' = deleg.then
            /\ answer' = "delegated" /\ UNCHANGED err
            /\ mode' = "" /\ pending' = 0
    /\ UNCHANGED <<DelegationRest, turn, cooldown>>

-----------------------------------------------------------------------------
(* The model's turn.                                                       *)

ModelRest == <<input, iter, guards, progress, memo, forcing, deleg, results>>

\* A transient error or no choices, before any tool result exists.
ModelRetry ==
    /\ pc = "model" /\ ~results /\ attempts < ModelRetries
    /\ attempts' = attempts + 1
    /\ UNCHANGED <<ModelRest, pc, turn, parseRetries, followUps, ending>>

\* The last attempt fails: the run was cancelled, or what there is becomes
\* the answer, or the error does.
ModelFails ==
    /\ pc = "model"
    /\ \/ End(answer, "canceled")
       \/ results /\ End("recovered", "none")
       \/ ~results /\ attempts = ModelRetries /\ input.streaming /\ End("recovered", "none")
       \/ ~results /\ End(answer, "model")
    /\ UNCHANGED <<ModelRest, turn, reprompts>>

\* Mutant of ParseRetryDue: off by one.
RetryOnceMore == parseRetries <= ParseRetries

ParseRetryDue == parseRetries < ParseRetries

\* Mutant of ReplyUnparsed: the retry is not counted.
ReplyUncounted ==
    /\ pc = "model" /\ input.tools /\ ParseRetryDue
    /\ pc' = "turn" /\ attempts' = 0
    /\ UNCHANGED <<ModelRest, turn, parseRetries, followUps, ending>>

\* Tool calls nobody can parse: the turn is repeated.
ReplyUnparsed ==
    /\ pc = "model" /\ input.tools /\ ParseRetryDue
    /\ pc' = "turn" /\ attempts' = 0 /\ parseRetries' = parseRetries + 1
    /\ UNCHANGED <<ModelRest, turn, followUps, ending>>

\* An announcement instead of an action: asked again, or given up.
ReplyDefers ==
    /\ pc = "model" /\ input.tools /\ ~results
    /\ attempts' = 0 /\ parseRetries' = 0
    /\ IF followUps < FollowUps
       THEN pc' = "turn" /\ followUps' = followUps + 1 /\ UNCHANGED ending
       ELSE End("recovered", "none") /\ UNCHANGED followUps
    /\ UNCHANGED <<ModelRest, turn>>

\* A final text; an empty one is made up for.
ReplyFinal ==
    /\ pc = "model"
    /\ attempts' = 0 /\ parseRetries' = 0
    /\ \E text \in BOOLEAN : End(IF text THEN "model" ELSE "recovered", "none")
    /\ UNCHANGED <<ModelRest, turn, followUps>>

\* Tool calls when the cap is reached.  Results exist then: ErrToolIteration-
\* CapExceeded, the other branch, cannot be reached with ToolCap > 0.
ReplyAtCap ==
    /\ pc = "model" /\ iter >= ToolCap
    /\ attempts' = 0
    /\ End("recovered", "none")
    /\ UNCHANGED <<ModelRest, turn, parseRetries, followUps>>

\* Tool calls: filtered first if the mode is forced.
ReplyCalls ==
    /\ pc = "model" /\ iter < ToolCap
    /\ attempts' = 0
    /\ \E b \in Batches, text \in BOOLEAN :
        IF mode \in Forced
        THEN pc' = "gate" /\ turn' = [NoTurn EXCEPT !.queue = b, !.text = text]
        ELSE pc' = "tools" /\ turn' = [NoTurn EXCEPT !.queue = b, !.size = Len(b)]
    /\ UNCHANGED <<ModelRest, parseRetries, followUps, ending>>

-----------------------------------------------------------------------------
(* The filter of a forced mode.  A refused call has the pending subtasks   *)
(* run and lifts the mode, so it gets no result and what follows it passes.*)
(* There are pending subtasks in a forced mode (see AgentLoop_proofs): the *)
(* code's rewriting of a refused call to agent.run is never reached.       *)

GateRest == <<input, iter, reprompts, guards, memo, mode, cooldown, pending, results, ending>>
Allowed(c) == mode \notin Forced \/ c.agent

GateKeep ==
    /\ pc = "gate" /\ turn.queue # <<>> /\ Allowed(Head(turn.queue))
    /\ turn' = [turn EXCEPT !.queue = Tail(@), !.kept = Append(@, Head(turn.queue))]
    /\ UNCHANGED <<GateRest, pc, progress, deleg>>

GateRefuse ==
    /\ pc = "gate" /\ turn.queue # <<>> /\ ~Allowed(Head(turn.queue))
    /\ turn' = [turn EXCEPT !.queue = Tail(@)]
    /\ StartDelegation(pending, "gate")
    /\ UNCHANGED <<GateRest, progress>>

\* Nothing is left of a reply with a text: it is asked again once.
GateEmpty ==
    /\ pc = "gate" /\ turn.queue = <<>> /\ turn.kept = <<>> /\ turn.text
    /\ noProg' = noProg + 1
    /\ pc' = IF noProg' <= 1 THEN "turn" ELSE "tools"
    /\ turn' = NoTurn
    /\ UNCHANGED <<GateRest, allBlocked, deleg>>

GateDone ==
    /\ pc = "gate" /\ turn.queue = <<>> /\ (turn.kept # <<>> \/ ~turn.text)
    /\ pc' = "tools"
    /\ turn' = [NoTurn EXCEPT !.queue = turn.kept, !.size = Len(turn.kept)]
    /\ UNCHANGED <<GateRest, progress, deleg>>

-----------------------------------------------------------------------------
(* executeTools, one call at a time.                                       *)

\* Mutant of Fault: entering recovery anew for every failure.
FaultRestarts(e) ==
    /\ row' = row + 1 /\ calm' = 0
    /\ recovering' = (recovering \/ row' >= RecoveryTrigger)
    /\ since' = 0
    /\ blockers' = [b \in Blockers |-> blockers[b] + IF b = e THEN 1 ELSE 0]

\* registerToolOutcome of an error, of a success, and of "repetition detected".
Fault(e) ==
    /\ row' = row + 1 /\ calm' = 0
    /\ recovering' = (recovering \/ row' >= RecoveryTrigger)
    /\ since' = IF recovering THEN since + 1 ELSE IF recovering' THEN 0 ELSE since
    /\ blockers' = [b \in Blockers |-> blockers[b] + IF b = e THEN 1 ELSE 0]
Success ==
    /\ row' = 0
    /\ IF recovering /\ calm + 1 >= 3 THEN recovering' = FALSE /\ since' = 0 /\ calm' = 0
       ELSE calm' = (IF recovering THEN calm + 1 ELSE calm) /\ UNCHANGED <<recovering, since>>
    /\ UNCHANGED blockers
Outcome(e) == IF e = "ok" THEN Success ELSE IF e = "repeated" THEN UNCHANGED guards ELSE Fault(e)

\* Mutant of OneShotDone: a mutation is known by its call's exact spelling.
SameSpellingDone(c) == c.shot \in succeeded /\ cache[c.key].outcome = "ok"

OneShotDone(c) == c.shot \in succeeded
\* The generic guard counts the call, and it is over its cap.
Counted(c) == IF c.rep = None THEN repeats ELSE [repeats EXCEPT ![c.rep] = @ + 1]
OverCap(c) == c.rep # None /\ Counted(c)[c.rep] > c.cap

\* A result to be replayed: a success, or the error that came twice in a row.
Cached(c) == IF c.key # None /\ cache[c.key].times >= 2 THEN cache[c.key].outcome ELSE "new"

\* The agent.create guards: attempts for one agent, and executions in all.
Created(c) ==
    IF c.creates = None THEN Counted(c)
    ELSE IF Counted(c)[c.creates] >= 2 THEN [Counted(c) EXCEPT ![c.creates] = @ + 1]
    ELSE [Counted(c) EXCEPT ![c.creates] = @ + 1, !["total"] = @ + 1]
CreateError(c) ==
    IF c.creates = None THEN "ok"
    ELSE IF Created(c)[c.creates] >= 3 THEN "repeated"
    ELSE IF Created(c)["total"] > CreateCap THEN "limit" ELSE "ok"

ToolsRest == <<input, pc, iter, reprompts, progress, forcing, deleg, ending>>
\* The next call gets its result, an error or "ok", without being executed.
Answered(c, e, shot) ==
    /\ turn' = [turn EXCEPT !.queue = Tail(@), !.shot = @ \/ shot, !.rep = @ /\ e = "repeated"]
    /\ results' = TRUE
    /\ Outcome(e)
    /\ UNCHANGED <<ToolsRest, succeeded, cache, last, ran>>
Next1(c) == pc = "tools" /\ turn.queue # <<>> /\ c = Head(turn.queue)

RepeatMutation(c) ==
    /\ Next1(c) /\ OneShotDone(c)
    /\ Answered(c, "repeated", TRUE) /\ UNCHANGED repeats

RepeatTooOften(c) ==
    /\ Next1(c) /\ ~OneShotDone(c) /\ OverCap(c)
    /\ Answered(c, "repeated", FALSE) /\ repeats' = Counted(c)

Replay(c) ==
    /\ Next1(c) /\ ~OneShotDone(c) /\ ~OverCap(c) /\ Cached(c) # "new"
    /\ Answered(c, Cached(c), FALSE) /\ repeats' = Counted(c)

RefuseCreate(c) ==
    /\ Next1(c) /\ ~OneShotDone(c) /\ ~OverCap(c) /\ Cached(c) = "new" /\ CreateError(c) # "ok"
    /\ Answered(c, CreateError(c), FALSE) /\ repeats' = Created(c)

\* Mutant of Remember: a success is kept like a failure, from the second on.
RememberTwice(c, e) ==
    [outcome |-> e, times |-> IF cache[c.key].outcome = e THEN 2 ELSE 1]

\* What is kept of a fresh result: a success counts as certain at once.
Remember(c, e) ==
    [outcome |-> e, times |-> IF e = "ok" \/ cache[c.key].outcome = e THEN 2 ELSE 1]

\* The tool is executed.  A result is fresh if it could have been cached, or
\* if it differs from the call's last one.
Execute(c) ==
    /\ Next1(c) /\ ~OneShotDone(c) /\ ~OverCap(c) /\ Cached(c) = "new" /\ CreateError(c) = "ok"
    /\ repeats' = Created(c)
    /\ \E e \in c.returns, changed \in BOOLEAN :
        /\ Outcome(e)
        /\ results' = TRUE
        /\ ran' = [ran EXCEPT ![c] = @ + IF e = "ok" /\ c.key # None THEN 1 ELSE 0]
        /\ IF c.key = None
           THEN /\ last[c] # e => changed
                /\ last' = [last EXCEPT ![c] = e] /\ UNCHANGED <<succeeded, cache>>
           ELSE /\ changed
                /\ cache' = [cache EXCEPT ![c.key] = Remember(c, e)]
                /\ succeeded' = IF e = "ok" /\ c.shot # None THEN succeeded \cup {c.shot}
                                ELSE succeeded
                /\ UNCHANGED last
        /\ turn' = [turn EXCEPT !.queue = Tail(@), !.fresh = @ \/ changed, !.rep = FALSE]
    /\ UNCHANGED ToolsRest

-----------------------------------------------------------------------------
(* What follows the tools of a turn.                                       *)

JudgeRest == <<input, attempts, followUps, guards, memo, forcing, deleg, results>>
Judging   == pc = "tools" /\ turn.queue = <<>>
AtBlocker == \E b \in Blockers : blockers[b] >= BlockerCap

\* A structural blocker, or a mutation asked for again, ends the run at once.
StopAtOnce ==
    /\ Judging /\ (AtBlocker \/ turn.shot)
    /\ End("recovered", "none") /\ parseRetries' = 0
    /\ UNCHANGED <<JudgeRest, turn, iter, progress>>

Progressed ==
    /\ noProg' = IF turn.fresh THEN 0 ELSE noProg + 1
    /\ allBlocked' = IF turn.fresh \/ turn.size = 0 \/ ~turn.rep THEN 0 ELSE allBlocked + 1

Stuck(np, ab) == results /\ (ab >= AllBlockedCap \/ (recovering /\ since >= Escalation)
                              \/ np >= NoProgressCap)

Stop ==
    /\ Judging /\ ~AtBlocker /\ ~turn.shot
    /\ Progressed /\ Stuck(noProg', allBlocked')
    /\ End("recovered", "none") /\ parseRetries' = 0
    /\ UNCHANGED <<JudgeRest, turn, iter>>

GoOn ==
    /\ Judging /\ ~AtBlocker /\ ~turn.shot
    /\ Progressed /\ ~Stuck(noProg', allBlocked')
    /\ pc' = "turn" /\ turn' = NoTurn /\ iter' = iter + 1 /\ parseRetries' = 0
    /\ UNCHANGED <<JudgeRest, ending>>

Done == pc = "done" /\ UNCHANGED vars

Turning    == NoCheck \/ NoTrigger \/ Plan \/ Trigger
Delegating == TaskDone \/ TaskFails \/ TaskSkipped \/ DelegationEnds
Modelling  == ModelRetry \/ ModelFails \/ ReplyUnparsed \/ ReplyDefers \/ ReplyFinal
                \/ ReplyAtCap \/ ReplyCalls
Gating     == GateKeep \/ GateRefuse \/ GateEmpty \/ GateDone
Calling    == \E c \in Calls : RepeatMutation(c) \/ RepeatTooOften(c) \/ Replay(c)
                                 \/ RefuseCreate(c) \/ Execute(c)
Stopping   == StopAtOnce \/ Stop \/ GoOn

Loop == Turning \/ Delegating \/ Modelling \/ Gating \/ Calling \/ Stopping
Next == Loop \/ Done

\* The goroutine runs: model calls, tools and sub-agents have time limits.
Spec == Init /\ [][Next]_vars /\ WF_vars(Loop)

-----------------------------------------------------------------------------
TypeOK ==
    /\ input \in Inputs
    /\ pc \in {"turn", "model", "gate", "tools", "delegate", "done"}
    /\ turn.queue \in Seq(Calls) /\ turn.kept \in Seq(Calls) /\ turn.size \in Nat
    /\ {turn.text, turn.fresh, turn.shot, turn.rep} \subseteq BOOLEAN
    /\ iter \in 0..ToolCap /\ attempts \in 0..ModelRetries
    /\ parseRetries \in 0..ParseRetries /\ followUps \in 0..FollowUps
    /\ {row, since, calm, noProg, allBlocked} \subseteq Nat
    /\ recovering \in BOOLEAN /\ blockers \in [Blockers -> Nat]
    /\ repeats \in [RepKeys -> Nat]
    /\ succeeded \subseteq {c.shot : c \in Calls} \ {None}
    /\ cache \in [CacheKeys -> [outcome : Errors \cup {"new", "ok"}, times : 0..2]] /\ DOMAIN last = {c \in Calls : c.key = None}
    /\ mode \in {"", "prompt_only"} \cup Forced /\ cooldown \in Nat
    /\ pending \in {0} \cup Subtasks
    /\ results \in BOOLEAN
    /\ answer \in {"none", "model", "recovered", "delegated", "plan"}
    /\ err \in {"none", "canceled", "model"}
    /\ ran \in [Calls -> Nat]

\* A run that gets another turn is not stuck: fewer than five tool failures in a
\* row whatever they were, fewer than three failures since recovery began, no
\* structural category at its cap, no two turns of nothing but repetitions.
\* (registerToolOutcome and the stop conditions of runLoop; every cached
\* failure counts again, every refused repetition does not.)
StuckRunsStop ==
    pc \in {"turn", "model", "gate"} =>
        /\ row < RecoveryTrigger + Escalation
        /\ recovering => since < Escalation
        /\ \A b \in Blockers : blockers[b] < BlockerCap
        /\ allBlocked < AllBlockedCap

\* Whatever the model's spelling and the order of its calls, a cacheable call
\* that succeeded is never executed again, nor is any other spelling of a
\* one-shot mutation that did (executeTools, its caches and guards).
EffectsOnce ==
    /\ \A c \in Calls : ran[c] <= 1
    /\ \A c, d \in Calls : c.shot # None /\ c.shot = d.shot /\ c # d => ran[c] + ran[d] <= 1

\* Every run ends, whatever the model replies and the tools return.
Terminates == <>(pc = "done")
=============================================================================
