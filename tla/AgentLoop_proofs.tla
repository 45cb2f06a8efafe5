--------------------------- MODULE AgentLoop_proofs ---------------------------
(***************************************************************************)
(* Theorems about AgentLoop, for every set of calls, every cap and every    *)
(* input.  What the tools of a turn do to the counters of failures is       *)
(* judged only when they are all through, and only if some result exists:   *)
(* BoundsInv says what holds in between.  EffectsInv ties the history of    *)
(* executions to the caches that prevent the next one.                      *)
(***************************************************************************)
EXTENDS AgentLoop, TLAPS

\* The bounds of StuckRunsStop.
Bounded ==
    /\ recovering => since < Escalation
    /\ \A b \in Blockers : blockers[b] < BlockerCap
    /\ allBlocked < AllBlockedCap

NumbersOK ==
    /\ row \in Nat /\ since \in Nat /\ allBlocked \in Nat
    /\ recovering \in BOOLEAN /\ results \in BOOLEAN
    /\ blockers \in [Blockers -> Nat]

\* Recovery begins with the second failure in a row and counts the others.
RowCounted ==
    /\ row >= RecoveryTrigger => recovering
    /\ recovering => row <= since + RecoveryTrigger

\* Between two judgements nothing counts failures; while tools run something
\* may, but then there is a result, and before that nothing was taken off the
\* turn's calls.
BetweenJudgements ==
    /\ pc \in {"turn", "model", "gate", "tools", "delegate", "done"}
    /\ pc \in {"turn", "model", "gate", "delegate"} => Bounded
    /\ pc = "delegate" => "then" \in DOMAIN deleg /\ deleg.then \in {"end", "gate"}
    /\ pc = "tools" /\ ~results => Bounded /\ turn.size = Len(turn.queue)

BoundsInv == NumbersOK /\ RowCounted /\ BetweenJudgements

-----------------------------------------------------------------------------
(* Failures.                                                               *)

\* What counts failures keeps the count of recovery (registerToolOutcome).
LEMMA OutcomeCounts ==
    ASSUME BoundsInv, NEW e, Outcome(e), UNCHANGED allBlocked, results' = TRUE
    PROVE  NumbersOK' /\ RowCounted'
<1> USE DEF BoundsInv, NumbersOK, RowCounted, RecoveryTrigger
<1>1. CASE e = "ok"
  <2>1. Success
    BY <1>1 DEF Outcome
  <2>2. row' = 0 /\ blockers' = blockers
    BY <2>1 DEF Success
  <2>3. \/ recovering' = FALSE /\ since' = 0
        \/ recovering' = recovering /\ since' = since
    BY <2>1 DEF Success
  <2>4. NumbersOK'
    <3>1. recovering' \in BOOLEAN
      BY <2>3, Zenon
    <3>2. since' \in Nat
      BY <2>3
    <3>3. QED
      BY <2>2, <3>1, <3>2
  <2>5. RowCounted'
    BY <2>2, <2>3
  <2>6. QED
    BY <2>4, <2>5
<1>2. CASE e = "repeated"
  BY <1>2 DEF Outcome, guards
<1>3. CASE e # "ok" /\ e # "repeated"
  <2>1. Fault(e)
    BY <1>3 DEF Outcome
  <2>2. blockers' \in [Blockers -> Nat]
    BY <2>1 DEF Fault
  <2>3. row' = row + 1 /\ recovering' \in BOOLEAN /\ (recovering' <=> recovering \/ row' >= 2)
    BY <2>1 DEF Fault
  <2>4. since' = IF recovering THEN since + 1 ELSE IF recovering' THEN 0 ELSE since
    BY <2>1 DEF Fault
  <2>5. QED
    BY <2>2, <2>3, <2>4
<1>4. QED
  BY <1>1, <1>2, <1>3

LEMMA BoundsInit == Init => BoundsInv
<1>1. ASSUME Init PROVE blockers \in [Blockers -> Nat] /\ \A b \in Blockers : blockers[b] = 0
  BY <1>1 DEF Init
<1>2. ASSUME Init
      PROVE  row = 0 /\ since = 0 /\ recovering = FALSE /\ allBlocked = 0 /\ results = FALSE /\ pc = "turn"
  BY <1>2 DEF Init
<1>3. QED
  BY <1>1, <1>2 DEF BoundsInv, NumbersOK, RowCounted, BetweenJudgements, Bounded, RecoveryTrigger,
         Escalation, BlockerCap, AllBlockedCap, NoTurn

LEMMA BoundsStep == BoundsInv /\ [Next]_vars => BoundsInv'
<1> SUFFICES ASSUME BoundsInv, [Next]_vars PROVE BoundsInv'
  OBVIOUS
<1> USE DEF BoundsInv
<1>q. ASSUME UNCHANGED <<guards, allBlocked, results>>
      PROVE  NumbersOK' /\ RowCounted' /\ (Bounded => Bounded')
  BY <1>q DEF NumbersOK, RowCounted, Bounded, guards
<1>1. CASE UNCHANGED vars
  BY <1>1, <1>q DEF vars, guards, progress, BetweenJudgements
<1>2. CASE Turning
  <2>1. UNCHANGED <<guards, allBlocked, results, turn>> /\ pc = "turn"
    BY <1>2 DEF Turning, NoCheck, NoTrigger, Plan, Trigger, TriggerRest, progress
  <2>2. \/ pc' \in {"model", "done"}
        \/ pc' = "delegate" /\ "then" \in DOMAIN deleg' /\ deleg'.then = "end"
    <3>1. CASE NoCheck \/ NoTrigger
      BY <3>1 DEF NoCheck, NoTrigger
    <3>2. CASE Plan
      BY <3>2 DEF Plan, StartDelegation, End
    <3>3. CASE Trigger
      <4>1. pc' = "model" \/ \E n \in Subtasks : StartDelegation(n, "end")
        BY <3>3 DEF Trigger
      <4>2. QED
        BY <4>1 DEF StartDelegation
    <3>4. QED
      BY <1>2, <3>1, <3>2, <3>3 DEF Turning
  <2>3. QED
    BY <2>1, <2>2, <1>q DEF BetweenJudgements
<1>3. CASE Delegating
  <2>1. UNCHANGED <<guards, allBlocked, results, turn>> /\ pc = "delegate"
    BY <1>3 DEF Delegating, TaskDone, TaskFails, TaskSkipped, DelegationEnds, DelegationRest,
                progress, Waiting
  <2>2. CASE TaskDone \/ TaskFails \/ TaskSkipped
    <3>1. pc' = "delegate"
      BY <2>2, <2>1 DEF TaskDone, TaskFails, TaskSkipped
    <3>2. \/ deleg' = [deleg EXCEPT !.tries = 1]
          \/ \E v : deleg' = [deleg EXCEPT !.verdict[Task] = v, !.task = @ + 1, !.tries = 0]
      BY <2>2 DEF TaskDone, TaskFails, TaskSkipped, Verdict
    <3>3. "then" \in DOMAIN deleg' /\ deleg'.then = deleg.then
      BY <3>2, <2>1 DEF BetweenJudgements
    <3>4. QED
      BY <3>1, <3>3, <2>1, <1>q DEF BetweenJudgements
  <2>3. CASE DelegationEnds
    <3>1. pc' \in {"done", "gate"}
      BY <2>3, <2>1 DEF DelegationEnds, End, BetweenJudgements
    <3>2. QED
      BY <3>1, <2>1, <1>q DEF BetweenJudgements
  <2>4. QED
    BY <1>3, <2>2, <2>3 DEF Delegating
<1>4. CASE Modelling
  <2>1. UNCHANGED <<guards, allBlocked, results>> /\ pc = "model"
    BY <1>4 DEF Modelling, ModelRetry, ModelFails, ReplyUnparsed, ReplyDefers, ReplyFinal,
                ReplyAtCap, ReplyCalls, ModelRest, progress
  <2>2. CASE ReplyCalls
    <3>1. pc' = "gate" \/ (pc' = "tools" /\ turn'.size = Len(turn'.queue))
      BY <2>2 DEF ReplyCalls, NoTurn
    <3>2. QED
      BY <3>1, <2>1, <1>q DEF BetweenJudgements
  <2>3. CASE ~ReplyCalls
    <3>1. pc' \in {"model", "turn", "done"}
      BY <1>4, <2>1, <2>3 DEF Modelling, ModelRetry, ModelFails, ReplyUnparsed, ReplyDefers,
           ReplyFinal, ReplyAtCap, End
    <3>2. QED
      BY <3>1, <2>1, <1>q DEF BetweenJudgements
  <2>4. QED
    BY <2>2, <2>3
<1>5. CASE Gating
  <2>1. UNCHANGED <<guards, allBlocked, results>> /\ pc = "gate"
    BY <1>5 DEF Gating, GateKeep, GateRefuse, GateEmpty, GateDone, GateRest, progress
  <2>2. \/ pc' \in {"gate", "turn"}
        \/ pc' = "delegate" /\ "then" \in DOMAIN deleg' /\ deleg'.then = "gate"
        \/ pc' = "tools" /\ turn'.size = Len(turn'.queue)
    <3>1. CASE GateKeep
      BY <3>1, <2>1 DEF GateKeep
    <3>2. CASE GateRefuse
      BY <3>2 DEF GateRefuse, StartDelegation
    <3>3. CASE GateEmpty
      <4>1. pc' \in {"turn", "tools"} /\ turn' = NoTurn
        BY <3>3 DEF GateEmpty
      <4>2. QED
        BY <4>1 DEF NoTurn
    <3>4. CASE GateDone
      BY <3>4 DEF GateDone, NoTurn
    <3>5. QED
      BY <1>5, <3>1, <3>2, <3>3, <3>4 DEF Gating
  <2>3. QED
    BY <2>1, <2>2, <1>q DEF BetweenJudgements
<1>6. CASE Calling
  <2>1. PICK c \in Calls : RepeatMutation(c) \/ RepeatTooOften(c) \/ Replay(c)
                            \/ RefuseCreate(c) \/ Execute(c)
    BY <1>6 DEF Calling
  <2>2. /\ pc = "tools" /\ pc' = "tools" /\ results' = TRUE
        /\ UNCHANGED allBlocked /\ \E e : Outcome(e)
    BY <2>1 DEF RepeatMutation, RepeatTooOften, Replay, RefuseCreate, Execute, Answered, Next1,
                ToolsRest, progress
  <2>3. NumbersOK' /\ RowCounted'
    BY <2>2, OutcomeCounts
  <2>4. QED
    BY <2>2, <2>3 DEF BetweenJudgements
<1>7. CASE StopAtOnce \/ Stop
  <2>1. UNCHANGED <<guards, results>> /\ pc' = "done" /\ allBlocked' \in Nat
    BY <1>7 DEF StopAtOnce, Stop, End, JudgeRest, progress, Progressed, NumbersOK
  <2>2. QED
    BY <2>1 DEF NumbersOK, RowCounted, BetweenJudgements, guards
<1>8. CASE GoOn
  <2>1. /\ UNCHANGED <<guards, results>> /\ pc = "tools" /\ pc' = "turn" /\ turn.queue = <<>>
        /\ ~AtBlocker /\ Progressed /\ ~Stuck(noProg', allBlocked')
    BY <1>8 DEF GoOn, JudgeRest, Judging
  <2>2. NumbersOK' /\ RowCounted'
    BY <2>1 DEF NumbersOK, RowCounted, guards, Progressed
  <2>3. \A b \in Blockers : blockers'[b] < BlockerCap
    BY <2>1 DEF AtBlocker, NumbersOK, guards, BlockerCap
  <2>4. (recovering' => since' < Escalation) /\ allBlocked' < AllBlockedCap
    <3>1. CASE results
      BY <3>1, <2>1, <2>2 DEF Stuck, NumbersOK, guards, Escalation, AllBlockedCap
    <3>2. CASE ~results
      <4>1. Bounded /\ turn.size = 0
        BY <3>2, <2>1 DEF BetweenJudgements
      <4>2. allBlocked' = 0
        BY <4>1, <2>1 DEF Progressed
      <4>3. QED
        BY <4>1, <4>2, <2>1 DEF Bounded, guards, AllBlockedCap
    <3>3. QED
      BY <3>1, <3>2
  <2>5. QED
    BY <2>1, <2>2, <2>3, <2>4 DEF BetweenJudgements, Bounded
<1>9. QED
  BY <1>1, <1>2, <1>3, <1>4, <1>5, <1>6, <1>7, <1>8 DEF Next, Loop, Stopping, Done

\* A run that gets another turn is not stuck: however failures, successes and
\* refused calls follow each other, and whatever the model and the tools do
\* (runLoop's stop conditions over registerToolOutcome's counters).
THEOREM StuckRunsAreStopped == Spec => []StuckRunsStop
<1>1. BoundsInv => StuckRunsStop
  BY DEF BoundsInv, NumbersOK, RowCounted, BetweenJudgements, Bounded, StuckRunsStop,
         RecoveryTrigger, Escalation
<1>2. QED
  BY BoundsInit, BoundsStep, <1>1, PTL DEF Spec

-----------------------------------------------------------------------------
(* Effects.                                                                *)

\* A call that was executed with success left a result that is replayed, and
\* its mutation among those that succeeded.
Remembered(c) ==
    ran[c] # 0 => /\ c.key # None /\ cache[c.key].times >= 2 /\ cache[c.key].outcome # "new"
                  /\ c.shot # None => c.shot \in succeeded

EffectsInv ==
    /\ ran \in [Calls -> {0, 1}]
    /\ cache \in [CacheKeys -> [outcome : Errors \cup {"new", "ok"}, times : 0..2]]
    /\ \A c \in Calls : Remembered(c)
    /\ \A c, d \in Calls : c.shot # None /\ c.shot = d.shot /\ c # d => ran[c] = 0 \/ ran[d] = 0

EffectVars == <<ran, cache, succeeded>>

LEMMA EffectsInit == Init => EffectsInv
<1> SUFFICES ASSUME Init PROVE EffectsInv
  OBVIOUS
<1>1. ran = [c \in Calls |-> 0] /\ cache = [k \in CacheKeys |-> [outcome |-> "new", times |-> 0]]
  BY DEF Init
<1>2. [outcome |-> "new", times |-> 0] \in [outcome : Errors \cup {"new", "ok"}, times : 0..2]
  OBVIOUS
<1>3. QED
  BY <1>1, <1>2 DEF EffectsInv, Remembered

\* Every action but Execute leaves the history and the caches alone.
LEMMA EffectsFrame ==
    ASSUME [Next]_vars, ~\E c \in Calls : Execute(c)
    PROVE  UNCHANGED EffectVars
<1> USE DEF EffectVars, memo
<1>1. CASE UNCHANGED vars
  BY <1>1 DEF vars
<1>2. CASE Turning
  BY <1>2 DEF Turning, NoCheck, NoTrigger, Plan, Trigger, TriggerRest
<1>3. CASE Delegating
  BY <1>3 DEF Delegating, TaskDone, TaskFails, TaskSkipped, DelegationEnds, DelegationRest
<1>4. CASE Modelling
  BY <1>4 DEF Modelling, ModelRetry, ModelFails, ReplyUnparsed, ReplyDefers, ReplyFinal,
              ReplyAtCap, ReplyCalls, ModelRest
<1>5. CASE Gating
  BY <1>5 DEF Gating, GateKeep, GateRefuse, GateEmpty, GateDone, GateRest
<1>6. CASE Calling
  BY <1>6 DEF Calling, RepeatMutation, RepeatTooOften, Replay, RefuseCreate, Answered
<1>7. CASE Stopping
  BY <1>7 DEF Stopping, StopAtOnce, Stop, GoOn, JudgeRest
<1>8. QED
  BY <1>1, <1>2, <1>3, <1>4, <1>5, <1>6, <1>7 DEF Next, Loop, Done

LEMMA EffectsStep == EffectsInv /\ [Next]_vars => EffectsInv'
<1> SUFFICES ASSUME EffectsInv, [Next]_vars PROVE EffectsInv'
  OBVIOUS
<1>1. CASE UNCHANGED EffectVars
  BY <1>1 DEF EffectVars, EffectsInv, Remembered
<1>2. ASSUME NEW c \in Calls, Execute(c) PROVE EffectsInv'
  <2>1. PICK e \in c.returns :
          /\ ran' = [ran EXCEPT ![c] = @ + IF e = "ok" /\ c.key # None THEN 1 ELSE 0]
          /\ IF c.key = None THEN UNCHANGED <<succeeded, cache>>
             ELSE /\ cache' = [cache EXCEPT ![c.key] = Remember(c, e)]
                  /\ succeeded' = IF e = "ok" /\ c.shot # None THEN succeeded \cup {c.shot}
                                  ELSE succeeded
    BY <1>2 DEF Execute
  <2>2. e \in Errors \cup {"ok"} /\ e # "new" /\ (c.shot # None => c.key # None)
    BY CallsAssumption, NumbersAssumption DEF Errors
  <2>3. CASE c.key = None
    <3>1. ran' = ran
      BY <2>1, <2>3 DEF EffectsInv
    <3>2. QED
      BY <3>1, <2>1, <2>3 DEF EffectsInv, Remembered
  <2>4. CASE c.key # None
    <3>1. c.key \in CacheKeys
      BY <2>4 DEF CacheKeys
    <3>2. cache[c.key].times < 2 \/ cache[c.key].outcome = "new"
      BY <1>2, <2>4, <3>1 DEF Execute, Cached, EffectsInv
    <3>3. \A d \in Calls : d.key = c.key => ran[d] = 0
      BY <3>1, <3>2 DEF EffectsInv, Remembered
    <3>4. \A d \in Calls : c.shot # None /\ d.shot = c.shot => ran[d] = 0
      BY <1>2 DEF Execute, OneShotDone, EffectsInv, Remembered
    <3>5. ran' = [ran EXCEPT ![c] = IF e = "ok" THEN 1 ELSE 0]
      <4>1. ran[c] = 0
        BY <3>3
      <4>2. CASE e = "ok"
        BY <4>1, <4>2, <2>1, <2>4
      <4>3. CASE e # "ok"
        BY <4>1, <4>3, <2>1
      <4>4. QED
        BY <4>2, <4>3
    <3>6. ran' \in [Calls -> {0, 1}]
      BY <3>5 DEF EffectsInv
    <3>7. Remember(c, e) \in [outcome : Errors \cup {"new", "ok"}, times : 0..2]
      BY <2>2, <3>1 DEF Remember, EffectsInv
    <3>8. cache' \in [CacheKeys -> [outcome : Errors \cup {"new", "ok"}, times : 0..2]]
      BY <3>7, <2>1, <2>4 DEF EffectsInv
    <3>9. ASSUME NEW d \in Calls PROVE Remembered(d)'
      <4>1. CASE d = c
        BY <4>1, <3>1, <3>5, <2>1, <2>2, <2>4 DEF Remembered, Remember, EffectsInv
      <4>2. CASE d # c /\ d.key = c.key
        BY <4>2, <3>3, <3>5 DEF Remembered, EffectsInv
      <4>3. CASE d # c /\ d.key # c.key
        <5>1. ran'[d] = ran[d] /\ succeeded \subseteq succeeded'
          BY <4>3, <3>5, <2>1, <2>4 DEF EffectsInv
        <5>2. d.key # None => cache'[d.key] = cache[d.key]
          BY <4>3, <2>1, <2>4 DEF EffectsInv, CacheKeys
        <5>3. QED
          BY <5>1, <5>2 DEF Remembered, EffectsInv
      <4>4. QED
        BY <4>1, <4>2, <4>3
    <3>10. ASSUME NEW b \in Calls, NEW d \in Calls, b.shot # None, b.shot = d.shot, b # d
           PROVE  ran'[b] = 0 \/ ran'[d] = 0
      BY <3>4, <3>5, <3>10 DEF EffectsInv
    <3>11. QED
      BY <3>6, <3>8, <3>9, <3>10 DEF EffectsInv
  <2>5. QED
    BY <2>3, <2>4
<1>3. QED
  BY <1>1, <1>2, EffectsFrame

\* Whatever the order and the spelling of its calls, and whatever fails in
\* between, a run does not do twice what its caches and one-shot guards know
\* (executeTools).
THEOREM EffectsHappenOnce == Spec => []EffectsOnce
<1>1. EffectsInv => EffectsOnce
  BY DEF EffectsInv, EffectsOnce
<1>2. QED
  BY EffectsInit, EffectsStep, <1>1, PTL DEF Spec

-----------------------------------------------------------------------------
(* The forced modes.                                                       *)

\* While a mode that refuses the model's calls is in force there are subtasks
\* to run in their place, so a refusal never falls through to the rewriting of
\* the call that the code keeps for a run without any (filterToolCalls).
ForcedHasSubtasks == mode \in Forced => pending > 0

LEMMA ForcedStep == ForcedHasSubtasks /\ [Next]_vars => ForcedHasSubtasks'
<1> SUFFICES ASSUME ForcedHasSubtasks, [Next]_vars PROVE ForcedHasSubtasks'
  OBVIOUS
<1> USE DEF ForcedHasSubtasks
<1>1. CASE UNCHANGED <<mode, pending>>
  BY <1>1
<1>2. CASE Plan
  BY <1>2 DEF Plan
<1>3. CASE Trigger
  <2>1. \E n \in Subtasks : pending' = n
    BY <1>3 DEF Trigger
  <2>2. QED
    BY <2>1 DEF Subtasks, PatternTasks, SignalTasks
<1>4. CASE DelegationEnds
  BY <1>4 DEF DelegationEnds, Forced
<1>5. CASE ~(Plan \/ Trigger \/ DelegationEnds)
  <2>1. CASE UNCHANGED vars
    BY <2>1 DEF vars, forcing
  <2>2. CASE Turning
    BY <2>2, <1>5 DEF Turning, NoCheck, NoTrigger, forcing
  <2>3. CASE Delegating
    BY <2>3, <1>5 DEF Delegating, TaskDone, TaskFails, TaskSkipped, forcing
  <2>4. CASE Modelling
    BY <2>4 DEF Modelling, ModelRetry, ModelFails, ReplyUnparsed, ReplyDefers, ReplyFinal,
                ReplyAtCap, ReplyCalls, ModelRest, forcing
  <2>5. CASE Gating
    BY <2>5 DEF Gating, GateKeep, GateRefuse, GateEmpty, GateDone, GateRest
  <2>6. CASE Calling
    BY <2>6 DEF Calling, RepeatMutation, RepeatTooOften, Replay, RefuseCreate, Execute, Answered,
                ToolsRest, forcing
  <2>7. CASE Stopping
    BY <2>7 DEF Stopping, StopAtOnce, Stop, GoOn, JudgeRest, forcing
  <2>8. QED
    BY <2>1, <2>2, <2>3, <2>4, <2>5, <2>6, <2>7 DEF Next, Loop, Done
<1>6. QED
  BY <1>2, <1>3, <1>4, <1>5

\* A run that is forced to delegate has something to delegate.
THEOREM ForcedModesHaveSubtasks == Spec => []ForcedHasSubtasks
<1>1. Init => ForcedHasSubtasks
  BY DEF Init, ForcedHasSubtasks, Forced
<1>2. QED
  BY <1>1, ForcedStep, PTL DEF Spec

-----------------------------------------------------------------------------
(* Types.  A turn with calls has been counted against the cap: so has the  *)
(* delegation that a refused call starts in the middle of it.              *)

Turn == [queue : Seq(Calls), kept : Seq(Calls), text : BOOLEAN, size : Nat, fresh : BOOLEAN,
         shot : BOOLEAN, rep : BOOLEAN]

RoundOK ==
    /\ iter \in 0..ToolCap
    /\ pc \in {"gate", "tools"} \/ (pc = "delegate" /\ deleg.then = "gate") => iter < ToolCap
RetriesOK ==
    /\ attempts \in 0..ModelRetries /\ parseRetries \in 0..ParseRetries
    /\ followUps \in 0..FollowUps
MemoOK ==
    /\ repeats \in [RepKeys -> Nat] /\ ran \in [Calls -> Nat]
    /\ succeeded \subseteq {c.shot : c \in Calls} \ {None}
    /\ cache \in [CacheKeys -> [outcome : Errors \cup {"new", "ok"}, times : 0..2]]
    /\ DOMAIN last = {c \in Calls : c.key = None}
ForcingOK ==
    /\ mode \in {"", "prompt_only"} \cup Forced /\ cooldown \in Nat
    /\ pending \in {0} \cup Subtasks
EndingOK ==
    /\ answer \in {"none", "model", "recovered", "delegated", "plan"}
    /\ err \in {"none", "canceled", "model"}

LoopTypes ==
    /\ input \in Inputs /\ turn \in Turn /\ noProg \in Nat /\ calm \in Nat
    /\ RoundOK /\ RetriesOK /\ MemoOK /\ ForcingOK /\ EndingOK

LEMMA NoTurnTyped == NoTurn \in Turn
<1>1. <<>> \in Seq(Calls)
  OBVIOUS
<1>2. QED
  BY <1>1 DEF NoTurn, Turn

LEMMA CalmCounts == ASSUME LoopTypes, NEW e, Outcome(e) PROVE calm' \in Nat
<1>1. calm \in Nat
  BY DEF LoopTypes
<1>2. CASE e = "ok"
  <2>1. \/ calm' = 0
        \/ calm' = IF recovering THEN calm + 1 ELSE calm
    BY <1>2 DEF Outcome, Success
  <2>2. QED
    BY <1>1, <2>1
<1>3. CASE e # "ok"
  BY <1>1, <1>3 DEF Outcome, Fault, guards
<1>4. QED
  BY <1>2, <1>3

LEMMA TypesInit == Init => LoopTypes
<1>1. SUFFICES ASSUME Init PROVE LoopTypes
  OBVIOUS
<1>2. RoundOK /\ RetriesOK
  <2>1. ToolCap \in Nat \ {0} /\ ModelRetries \in Nat /\ ParseRetries \in Nat /\ FollowUps \in Nat
    BY NumbersAssumption
  <2>2. iter = 0 /\ attempts = 0 /\ parseRetries = 0 /\ followUps = 0 /\ pc = "turn"
    BY <1>1 DEF Init
  <2>3. QED
    BY <2>1, <2>2 DEF RoundOK, RetriesOK
<1>3. MemoOK
  <2>1. repeats \in [RepKeys -> Nat] /\ ran \in [Calls -> Nat]
    BY <1>1 DEF Init
  <2>2. DOMAIN last = {c \in Calls : c.key = None}
    BY <1>1 DEF Init
  <2>3. cache \in [CacheKeys -> [outcome : Errors \cup {"new", "ok"}, times : 0..2]]
    <3>1. [outcome |-> "new", times |-> 0] \in [outcome : Errors \cup {"new", "ok"}, times : 0..2]
      OBVIOUS
    <3>2. cache = [k \in CacheKeys |-> [outcome |-> "new", times |-> 0]]
      BY <1>1 DEF Init
    <3>3. QED
      BY <3>1, <3>2, Zenon
  <2>4. succeeded = {}
    BY <1>1 DEF Init
  <2>5. QED
    BY <2>1, <2>2, <2>3, <2>4 DEF MemoOK
<1>4. ForcingOK /\ EndingOK
  BY <1>1 DEF Init, ForcingOK, EndingOK
<1>5. QED
  BY <1>1, <1>2, <1>3, <1>4, NoTurnTyped DEF Init, LoopTypes

LEMMA TurningTyped == ASSUME LoopTypes, Turning PROVE LoopTypes'
<1>1. pc = "turn" /\ UNCHANGED TriggerRest
  BY DEF Turning, NoCheck, NoTrigger, Plan, Trigger
<1>2. MemoOK' /\ RetriesOK'
  BY <1>1 DEF LoopTypes, TriggerRest, memo, reprompts, MemoOK, RetriesOK
<1>3. \/ pc' \in {"model", "done"}
      \/ pc' = "delegate" /\ deleg'.then = "end"
  <2>1. ASSUME NEW n, StartDelegation(n, "end") PROVE pc' = "delegate" /\ deleg'.then = "end"
    BY <2>1 DEF StartDelegation
  <2>2. CASE NoCheck \/ NoTrigger
    BY <2>2 DEF NoCheck, NoTrigger
  <2>3. CASE Plan
    BY <2>1, <2>3 DEF Plan, End
  <2>4. CASE Trigger
    BY <2>1, <2>4 DEF Trigger
  <2>5. QED
    BY <2>2, <2>3, <2>4 DEF Turning
<1>4. RoundOK'
  BY <1>1, <1>3 DEF LoopTypes, TriggerRest, RoundOK
<1>5. EndingOK'
  <2>1. CASE UNCHANGED ending
    BY <2>1 DEF LoopTypes, EndingOK, ending
  <2>2. CASE End("plan", "none")
    BY <2>2 DEF End, EndingOK
  <2>3. QED
    BY <2>1, <2>2 DEF Turning, NoCheck, NoTrigger, Plan, Trigger
<1>6. ForcingOK'
  <2>1. CASE NoCheck
    <3>1. mode' = mode /\ pending' = pending
      BY <2>1 DEF NoCheck
    <3>2. \/ cooldown' = cooldown
          \/ cooldown > 0 /\ cooldown' = cooldown - 1
      BY <2>1 DEF NoCheck
    <3>3. cooldown \in Nat
      BY DEF LoopTypes, ForcingOK
    <3>4. cooldown' \in Nat
      BY <3>2, <3>3
    <3>5. QED
      BY <3>1, <3>4 DEF LoopTypes, ForcingOK
  <2>2. CASE NoTrigger
    BY <2>2 DEF NoTrigger, LoopTypes, forcing, ForcingOK
  <2>3. CASE Plan
    BY <2>3 DEF Plan, LoopTypes, ForcingOK
  <2>4. CASE Trigger
    <3>1. PICK s \in Contexts, asked \in BOOLEAN, n \in Subtasks :
             /\ Triggered(Score(s), asked) # ""
             /\ mode' = Downgraded(Triggered(Score(s), asked))
             /\ cooldown' = Cooldowns[Triggered(Score(s), asked)] /\ pending' = n
      BY <2>4 DEF Trigger
    <3>2. Triggered(Score(s), asked) \in {"prompt_only", "tool_gated", "auto_execute"}
      BY <3>1 DEF Triggered, Called
    <3>3. cooldown' \in Nat
      BY <3>1, <3>2, NumbersAssumption
    <3>4. mode' \in {"", "prompt_only"} \cup Forced
      BY <3>1, <3>2 DEF Downgraded, Forced
    <3>5. QED
      BY <3>1, <3>3, <3>4 DEF ForcingOK
  <2>5. QED
    BY <2>1, <2>2, <2>3, <2>4 DEF Turning
<1>7. QED
  BY <1>1, <1>2, <1>4, <1>5, <1>6 DEF LoopTypes, TriggerRest, guards, progress

LEMMA DelegatingTyped == ASSUME BoundsInv, LoopTypes, Delegating PROVE LoopTypes'
<1>1. pc = "delegate" /\ UNCHANGED <<DelegationRest, turn, cooldown>>
  BY DEF Delegating, TaskDone, TaskFails, TaskSkipped, DelegationEnds, Waiting, forcing
<1>2. MemoOK' /\ RetriesOK'
  BY <1>1 DEF LoopTypes, DelegationRest, memo, reprompts, MemoOK, RetriesOK
<1>3. RoundOK' /\ EndingOK' /\ ForcingOK'
  <2>1. CASE TaskDone \/ TaskFails \/ TaskSkipped
    <3>1. UNCHANGED <<pc, forcing, ending>>
      BY <2>1 DEF TaskDone, TaskFails, TaskSkipped
    <3>2. \/ deleg' = [deleg EXCEPT !.tries = 1]
          \/ \E v : deleg' = [deleg EXCEPT !.verdict[Task] = v, !.task = @ + 1, !.tries = 0]
      BY <2>1 DEF TaskDone, TaskFails, TaskSkipped, Verdict
    <3>3. deleg'.then = deleg.then
      BY <3>2, <1>1 DEF BoundsInv, BetweenJudgements
    <3>4. QED
      BY <1>1, <3>1, <3>3 DEF LoopTypes, DelegationRest, forcing, ending, RoundOK, EndingOK, ForcingOK
  <2>2. CASE DelegationEnds
    <3>1. \/ End("delegated", "none") /\ UNCHANGED <<mode, pending>>
          \/ /\ pc' = deleg.then /\ deleg.then = "gate"
             /\ answer' = "delegated" /\ err' = err
             /\ mode' = "" /\ pending' = 0
      BY <1>1, <2>2 DEF DelegationEnds, BoundsInv, BetweenJudgements
    <3>2. RoundOK'
      BY <1>1, <3>1 DEF End, LoopTypes, DelegationRest, RoundOK
    <3>3. EndingOK'
      BY <3>1 DEF End, LoopTypes, EndingOK
    <3>4. ForcingOK'
      BY <1>1, <3>1 DEF LoopTypes, ForcingOK
    <3>5. QED
      BY <3>2, <3>3, <3>4
  <2>3. QED
    BY <2>1, <2>2 DEF Delegating
<1>4. QED
  BY <1>1, <1>2, <1>3 DEF LoopTypes, DelegationRest, guards, progress

LEMMA ModellingTyped == ASSUME LoopTypes, Modelling PROVE LoopTypes'
<1>1. pc = "model" /\ UNCHANGED ModelRest
  BY DEF Modelling, ModelRetry, ModelFails, ReplyUnparsed, ReplyDefers, ReplyFinal, ReplyAtCap, ReplyCalls
<1>2. MemoOK' /\ ForcingOK'
  BY <1>1 DEF LoopTypes, ModelRest, memo, forcing, MemoOK, ForcingOK
<1>3. RetriesOK'
  <2>1. attempts' \in {0, attempts} \/ (attempts' = attempts + 1 /\ attempts < ModelRetries)
    BY DEF Modelling, ModelRetry, ModelFails, ReplyUnparsed, ReplyDefers, ReplyFinal, ReplyAtCap,
           ReplyCalls, reprompts
  <2>2. parseRetries' \in {0, parseRetries} \/ (parseRetries' = parseRetries + 1 /\ parseRetries < ParseRetries)
    BY DEF Modelling, ModelRetry, ModelFails, ReplyUnparsed, ReplyDefers, ReplyFinal, ReplyAtCap,
           ReplyCalls, reprompts, ParseRetryDue
  <2>3. followUps' = followUps \/ (followUps' = followUps + 1 /\ followUps < FollowUps)
    BY DEF Modelling, ModelRetry, ModelFails, ReplyUnparsed, ReplyDefers, ReplyFinal, ReplyAtCap,
           ReplyCalls, reprompts
  <2>4. QED
    BY <2>1, <2>2, <2>3, NumbersAssumption DEF LoopTypes, RetriesOK
<1>4. RoundOK' /\ turn' \in Turn
  <2>1. CASE ReplyCalls
    <3>1. iter < ToolCap /\ iter' = iter
      BY <1>1, <2>1 DEF ReplyCalls, ModelRest
    <3>2. PICK b \in Batches, text \in BOOLEAN :
             turn' \in {[NoTurn EXCEPT !.queue = b, !.text = text], [NoTurn EXCEPT !.queue = b, !.size = Len(b)]}
      BY <2>1 DEF ReplyCalls
    <3>3. b \in Seq(Calls) /\ Len(b) \in Nat
      BY NumbersAssumption
    <3>4. turn' \in Turn
      BY <3>2, <3>3, NoTurnTyped DEF Turn
    <3>5. QED
      BY <3>1, <3>4 DEF LoopTypes, RoundOK
  <2>2. CASE ~ReplyCalls
    <3>1. pc' \in {"model", "turn", "done"} /\ UNCHANGED <<turn, iter>>
      BY <1>1, <2>2 DEF Modelling, ModelRetry, ModelFails, ReplyUnparsed, ReplyDefers, ReplyFinal,
           ReplyAtCap, End, ModelRest
    <3>2. QED
      BY <3>1 DEF LoopTypes, RoundOK
  <2>3. QED
    BY <2>1, <2>2
<1>5. EndingOK'
  <2>1. \/ UNCHANGED ending
        \/ \E a \in {answer, "model", "recovered"}, e \in {"none", "canceled", "model"} : End(a, e)
    BY DEF Modelling, ModelRetry, ModelFails, ReplyUnparsed, ReplyDefers, ReplyFinal, ReplyAtCap, ReplyCalls
  <2>2. QED
    BY <2>1 DEF LoopTypes, EndingOK, ending, End
<1>6. QED
  BY <1>1, <1>2, <1>3, <1>4, <1>5 DEF LoopTypes, ModelRest, guards, progress

LEMMA GatingTyped == ASSUME LoopTypes, Gating PROVE LoopTypes'
<1>1. pc = "gate" /\ UNCHANGED GateRest
  BY DEF Gating, GateKeep, GateRefuse, GateEmpty, GateDone
<1>2. MemoOK' /\ ForcingOK' /\ RetriesOK' /\ EndingOK'
  BY <1>1 DEF LoopTypes, GateRest, memo, reprompts, ending, MemoOK, ForcingOK, RetriesOK, EndingOK
<1>3. RoundOK'
  BY <1>1 DEF LoopTypes, RoundOK, GateRest
<1>4. noProg' \in Nat
  <2>1. noProg' \in {noProg, noProg + 1}
    BY DEF Gating, GateKeep, GateRefuse, GateEmpty, GateDone, progress
  <2>2. QED
    BY <2>1 DEF LoopTypes
<1>5. turn' \in Turn
  <2>1. turn \in Turn
    BY DEF LoopTypes
  <2>2. turn.queue \in Seq(Calls) /\ turn.kept \in Seq(Calls)
    BY <2>1 DEF Turn
  <2>3. CASE GateKeep \/ GateRefuse
    <3>1. turn.queue # <<>>
      BY <2>3 DEF GateKeep, GateRefuse
    <3>2. Tail(turn.queue) \in Seq(Calls) /\ Append(turn.kept, Head(turn.queue)) \in Seq(Calls)
      BY <2>2, <3>1
    <3>3. turn' \in {[turn EXCEPT !.queue = Tail(@), !.kept = Append(@, Head(turn.queue))],
                     [turn EXCEPT !.queue = Tail(@)]}
      BY <2>3 DEF GateKeep, GateRefuse
    <3>4. QED
      BY <2>1, <3>2, <3>3 DEF Turn
  <2>4. CASE GateEmpty
    BY <2>4, NoTurnTyped DEF GateEmpty
  <2>5. CASE GateDone
    <3>1. turn' = [NoTurn EXCEPT !.queue = turn.kept, !.size = Len(turn.kept)] /\ Len(turn.kept) \in Nat
      BY <2>2, <2>5 DEF GateDone
    <3>2. QED
      BY <2>2, <3>1, NoTurnTyped DEF Turn
  <2>6. QED
    BY <2>3, <2>4, <2>5 DEF Gating
<1>6. QED
  BY <1>1, <1>2, <1>3, <1>4, <1>5 DEF LoopTypes, GateRest, guards

\* What the guards of repetition count is a number for each of their keys.
LEMMA CreatedTyped ==
    ASSUME NEW c \in Calls, repeats \in [RepKeys -> Nat]
    PROVE  Counted(c) \in [RepKeys -> Nat] /\ Created(c) \in [RepKeys -> Nat]
<1>1. Counted(c) \in [RepKeys -> Nat]
  <2>1. CASE c.rep = None
    BY <2>1 DEF Counted
  <2>2. CASE c.rep # None
    <3>1. c.rep \in RepKeys
      BY <2>2 DEF RepKeys
    <3>2. Counted(c) = [repeats EXCEPT ![c.rep] = repeats[c.rep] + 1]
      BY <2>2 DEF Counted
    <3>3. repeats[c.rep] + 1 \in Nat
      BY <3>1
    <3>4. QED
      BY <3>1, <3>2, <3>3
  <2>3. QED
    BY <2>1, <2>2
<1>2. Created(c) \in [RepKeys -> Nat]
  <2> DEFINE n == Counted(c)
  <2>1. n \in [RepKeys -> Nat]
    BY <1>1
  <2>2. \/ Created(c) = n
        \/ Created(c) = [n EXCEPT ![c.creates] = @ + 1]
        \/ Created(c) = [n EXCEPT ![c.creates] = @ + 1, !["total"] = @ + 1]
    BY DEF Created
  <2> HIDE DEF n
  <2>3. QED
    BY <2>1, <2>2
<1>3. QED
  BY <1>1, <1>2

\* A call that is answered, or executed, is taken off the turn's queue.
LEMMA TurnAnswered ==
    ASSUME turn \in Turn, turn.queue # <<>>, NEW e, NEW shot \in BOOLEAN,
           turn' = [turn EXCEPT !.queue = Tail(@), !.shot = @ \/ shot, !.rep = @ /\ e = "repeated"]
    PROVE  turn' \in Turn
<1>1. turn.queue \in Seq(Calls) /\ turn.shot \in BOOLEAN /\ turn.rep \in BOOLEAN
  BY DEF Turn
<1>2. Tail(turn.queue) \in Seq(Calls)
  BY <1>1
<1>3. PICK a \in BOOLEAN : a = (turn.shot \/ shot)
  BY Zenon
<1>4. PICK b \in BOOLEAN : b = (turn.rep /\ e = "repeated")
  BY Zenon
<1>5. turn' = [turn EXCEPT !.queue = Tail(turn.queue), !.shot = a, !.rep = b]
  BY <1>3, <1>4
<1>6. QED
  BY <1>2, <1>5 DEF Turn

LEMMA TurnExecuted ==
    ASSUME turn \in Turn, turn.queue # <<>>, NEW changed \in BOOLEAN,
           turn' = [turn EXCEPT !.queue = Tail(@), !.fresh = @ \/ changed, !.rep = FALSE]
    PROVE  turn' \in Turn
<1>1. turn.queue \in Seq(Calls) /\ turn.fresh \in BOOLEAN
  BY DEF Turn
<1>2. Tail(turn.queue) \in Seq(Calls)
  BY <1>1
<1>3. PICK a \in BOOLEAN : a = (turn.fresh \/ changed)
  BY Zenon
<1>4. turn' = [turn EXCEPT !.queue = Tail(turn.queue), !.fresh = a, !.rep = FALSE]
  BY <1>3
<1>5. QED
  BY <1>2, <1>4 DEF Turn

LEMMA CallingTyped == ASSUME LoopTypes, Calling PROVE LoopTypes'
<1>1. PICK c \in Calls : RepeatMutation(c) \/ RepeatTooOften(c) \/ Replay(c) \/ RefuseCreate(c) \/ Execute(c)
  BY DEF Calling
<1>2. pc = "tools" /\ turn.queue # <<>> /\ UNCHANGED ToolsRest
  BY <1>1 DEF RepeatMutation, RepeatTooOften, Replay, RefuseCreate, Execute, Next1, Answered
<1>3. RetriesOK' /\ ForcingOK' /\ EndingOK' /\ RoundOK'
  BY <1>2 DEF LoopTypes, ToolsRest, reprompts, forcing, ending, RetriesOK, ForcingOK, EndingOK, RoundOK
<1>4. repeats \in [RepKeys -> Nat] /\ ran \in [Calls -> Nat]
  BY DEF LoopTypes, MemoOK
<1>5. repeats' \in [RepKeys -> Nat]
  <2>1. repeats' \in {repeats, Counted(c), Created(c)}
    BY <1>1 DEF RepeatMutation, RepeatTooOften, Replay, RefuseCreate, Execute
  <2>2. QED
    BY <1>4, <2>1, CreatedTyped
<1>6. calm' \in Nat
  <2>1. \E e : Outcome(e)
    BY <1>1 DEF RepeatMutation, RepeatTooOften, Replay, RefuseCreate, Execute, Answered
  <2>2. QED
    BY <2>1, CalmCounts
<1>7. CASE ~Execute(c)
  <2>1. UNCHANGED <<succeeded, cache, last, ran>>
    BY <1>1, <1>7 DEF RepeatMutation, RepeatTooOften, Replay, RefuseCreate, Answered
  <2>2. MemoOK'
    BY <1>5, <2>1 DEF LoopTypes, MemoOK
  <2>3. \E e : \E shot \in BOOLEAN :
           turn' = [turn EXCEPT !.queue = Tail(@), !.shot = @ \/ shot, !.rep = @ /\ e = "repeated"]
    BY <1>1, <1>7 DEF RepeatMutation, RepeatTooOften, Replay, RefuseCreate, Answered
  <2>4. turn' \in Turn
    BY <1>2, <2>3, TurnAnswered DEF LoopTypes
  <2>5. QED
    BY <1>2, <1>3, <1>6, <2>2, <2>4 DEF LoopTypes, ToolsRest, progress
<1>8. CASE Execute(c)
  <2>1. PICK e \in c.returns, changed \in BOOLEAN :
           /\ ran' = [ran EXCEPT ![c] = @ + IF e = "ok" /\ c.key # None THEN 1 ELSE 0]
           /\ IF c.key = None
              THEN last' = [last EXCEPT ![c] = e] /\ UNCHANGED <<succeeded, cache>>
              ELSE /\ cache' = [cache EXCEPT ![c.key] = Remember(c, e)]
                   /\ succeeded' = IF e = "ok" /\ c.shot # None THEN succeeded \cup {c.shot}
                                   ELSE succeeded
                   /\ UNCHANGED last
           /\ turn' = [turn EXCEPT !.queue = Tail(@), !.fresh = @ \/ changed, !.rep = FALSE]
    BY <1>8 DEF Execute
  <2>2. turn' \in Turn
    BY <1>2, <2>1, TurnExecuted DEF LoopTypes
  <2>3. ran' \in [Calls -> Nat]
    BY <1>4, <2>1
  <2>4. succeeded' \subseteq {d.shot : d \in Calls} \ {None}
    BY <2>1 DEF LoopTypes, MemoOK
  <2>5. Remember(c, e) \in [outcome : Errors \cup {"new", "ok"}, times : 0..2]
    <3>1. e \in Errors \cup {"ok"}
      BY CallsAssumption DEF Errors
    <3>2. QED
      BY <3>1 DEF Remember
  <2>6. cache' \in [CacheKeys -> [outcome : Errors \cup {"new", "ok"}, times : 0..2]]
    BY <2>1, <2>5 DEF LoopTypes, MemoOK
  <2>7. DOMAIN last' = {d \in Calls : d.key = None}
    BY <2>1 DEF LoopTypes, MemoOK
  <2>8. MemoOK'
    BY <1>5, <2>3, <2>4, <2>6, <2>7 DEF MemoOK
  <2>9. QED
    BY <1>2, <1>3, <1>6, <2>2, <2>8 DEF LoopTypes, ToolsRest, progress
<1>9. QED
  BY <1>7, <1>8

LEMMA StoppingTyped == ASSUME LoopTypes, Stopping PROVE LoopTypes'
<1>1. pc = "tools" /\ UNCHANGED JudgeRest /\ parseRetries' = 0
  BY DEF Stopping, StopAtOnce, Stop, GoOn, Judging
<1>2. MemoOK' /\ ForcingOK'
  BY <1>1 DEF LoopTypes, JudgeRest, memo, forcing, MemoOK, ForcingOK
<1>3. RetriesOK'
  BY <1>1, NumbersAssumption DEF LoopTypes, JudgeRest, RetriesOK
<1>4. noProg' \in Nat
  <2>1. noProg' \in {0, noProg, noProg + 1}
    BY DEF Stopping, StopAtOnce, Stop, GoOn, Progressed, progress
  <2>2. QED
    BY <2>1 DEF LoopTypes
<1>5. RoundOK' /\ EndingOK' /\ turn' \in Turn
  <2>1. CASE StopAtOnce \/ Stop
    <3>1. pc' = "done" /\ answer' = "recovered" /\ err' = "none" /\ UNCHANGED <<turn, iter>>
      BY <2>1 DEF StopAtOnce, Stop, End
    <3>2. QED
      BY <3>1 DEF LoopTypes, RoundOK, EndingOK
  <2>2. CASE GoOn
    <3>1. pc' = "turn" /\ turn' = NoTurn /\ iter' = iter + 1 /\ UNCHANGED ending
      BY <2>2 DEF GoOn
    <3>2. iter \in 0..ToolCap /\ iter < ToolCap
      BY <1>1 DEF LoopTypes, RoundOK
    <3>3. iter' \in 0..ToolCap
      BY <3>1, <3>2, NumbersAssumption
    <3>4. QED
      BY <3>1, <3>3, NoTurnTyped DEF LoopTypes, RoundOK, EndingOK, ending
  <2>3. QED
    BY <2>1, <2>2 DEF Stopping
<1>6. QED
  BY <1>1, <1>2, <1>3, <1>4, <1>5 DEF LoopTypes, JudgeRest, guards

LEMMA TypesStep == BoundsInv /\ LoopTypes /\ [Next]_vars => LoopTypes'
<1> SUFFICES ASSUME BoundsInv, LoopTypes, [Next]_vars PROVE LoopTypes'
  OBVIOUS
<1>1. CASE UNCHANGED vars
  <2>1. /\ UNCHANGED <<input, pc, turn, iter, deleg, attempts, parseRetries, followUps>>
        /\ UNCHANGED <<noProg, calm, repeats, succeeded, cache, last, ran>>
        /\ UNCHANGED <<mode, cooldown, pending, answer, err>>
    BY <1>1 DEF vars, reprompts, guards, progress, memo, forcing, ending
  <2>2. QED
    BY <2>1 DEF LoopTypes, RoundOK, RetriesOK, MemoOK, ForcingOK, EndingOK
<1>2. CASE Loop
  BY <1>2, TurningTyped, DelegatingTyped, ModellingTyped, GatingTyped, CallingTyped, StoppingTyped DEF Loop
<1>3. QED
  BY <1>1, <1>2 DEF Next, Done

\* Whatever the model replies and the tools return, a run takes no more turns
\* with tool calls than its cap and no more retries of a turn than theirs, and
\* every count, cache and setting of runLoop keeps its type.
THEOREM LoopStaysTyped == Spec => []TypeOK
<1>1. BoundsInv /\ LoopTypes => TypeOK
  <2>1. LoopTypes => /\ turn.queue \in Seq(Calls) /\ turn.kept \in Seq(Calls) /\ turn.size \in Nat
                     /\ turn.text \in BOOLEAN /\ turn.fresh \in BOOLEAN
                     /\ turn.shot \in BOOLEAN /\ turn.rep \in BOOLEAN
    BY DEF LoopTypes, Turn
  <2>2. QED
    BY <2>1 DEF TypeOK, LoopTypes, RoundOK, RetriesOK, MemoOK, ForcingOK, EndingOK, BoundsInv, NumbersOK,
           BetweenJudgements
<1>2. QED
  BY BoundsInit, BoundsStep, TypesInit, TypesStep, <1>1, PTL DEF Spec
=============================================================================
