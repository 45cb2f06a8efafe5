------------------------------ MODULE RunSlots ------------------------------
(***************************************************************************)
(* Admission to the engine (runtime/engine.go, acquireRunSlot and the part *)
(* of ExecuteWithInput that calls it).  The slots are the free places of a *)
(* buffered Go channel.  The channel is looked up, and replaced when it is *)
(* empty and the limit has changed, under runLimitMu; it is sent to after  *)
(* the mutex is released, so a run may send to a channel that has been     *)
(* replaced meanwhile.  Every execution takes a slot for the engine limit  *)
(* and, if its instance has a limit, a second one from the same channel.   *)
(*                                                                         *)
(* A run here is a caller of ExecuteWithInput, a sub-agent's parent or the *)
(* sub-agent itself; it may call again once it has returned.               *)
(***************************************************************************)
EXTENDS Integers, FiniteSets

CONSTANTS Runs,            (* concurrent callers of ExecuteWithInput          *)
          Pools,           (* channel identities, reused once unreachable     *)
          NoPool,          (* the nil channel                                 *)
          EngineLimits,    (* the values engine.max_concurrent_runs may take  *)
          InstanceLimits,  (* the same of runtime.max_concurrent_runs; 0 = none *)
          MaxEdits         (* bound: configuration edits in one behaviour     *)

ASSUME PoolsAssumption ==
    /\ IsFiniteSet(Runs) /\ IsFiniteSet(Pools) /\ NoPool \notin Pools
    \* Room for what three variables of each caller name, and two current ones.
    /\ Cardinality(Pools) > 3 * Cardinality(Runs) + 1
    /\ EngineLimits \subseteq Nat /\ EngineLimits # {}
    /\ InstanceLimits \subseteq Nat /\ InstanceLimits # {}
    /\ MaxEdits \in Nat

VARIABLES
  pc,            (* where each caller stands                                 *)
  config,        (* the limits in the configuration files                    *)
  want,          (* the limits each caller resolved                          *)
  current,       (* Engine.runSlots                                          *)
  cap, used,     (* capacity and length of each channel                      *)
  ref,           (* the channel a caller looked up and has not sent to yet   *)
  engineSlot,    (* the channel of the slot a caller holds for the engine    *)
  instanceSlot,  (* ... and for its instance                                 *)
  edits          (* configuration edits so far                               *)

callerVars == <<pc, want, ref, engineSlot, instanceSlot>>
poolVars   == <<current, cap, used>>
vars == <<callerVars, config, poolVars, edits>>

Limits == [engine : EngineLimits, instance : InstanceLimits]
\* Of a caller outside ExecuteWithInput.
NoLimits == [engine |-> 0, instance |-> 0]
Places == {"idle", "resolved", "engineRef", "engineHeld", "instanceRef", "running",
           "leaving"}

Init ==
    /\ pc = [r \in Runs |-> "idle"]
    /\ config \in Limits
    /\ want = [r \in Runs |-> NoLimits]
    /\ current = NoPool
    /\ cap = [p \in Pools |-> 0] /\ used = [p \in Pools |-> 0]
    /\ ref = [r \in Runs |-> NoPool]
    /\ engineSlot = [r \in Runs |-> NoPool]
    /\ instanceSlot = [r \in Runs |-> NoPool]
    /\ edits = 0

Goto(r, from, to) == pc[r] = from /\ pc' = [pc EXCEPT ![r] = to]

\* ResolveEffectiveRuntime reads both limits from the files.
Resolve(r) ==
    /\ Goto(r, "idle", "resolved")
    /\ want' = [want EXCEPT ![r] = config]
    /\ UNCHANGED <<config, poolVars, ref, engineSlot, instanceSlot, edits>>

-----------------------------------------------------------------------------
(* acquireRunSlot.                                                         *)

\* A limit that is not positive counts as one.
Effective(limit) == IF limit <= 0 THEN 1 ELSE limit

Reachable == {current} \cup {ref[r] : r \in Runs} \cup {engineSlot[r] : r \in Runs}
                       \cup {instanceSlot[r] : r \in Runs}

\* Mutant of LookUp: the channel is replaced although it holds slots.
LookUpReplacesBusy(r, limit) ==
    IF current = NoPool \/ cap[current] # limit
    THEN LET p == CHOOSE p \in Pools : p \notin Reachable IN
            /\ current' = p
            /\ cap' = [q \in Pools |-> IF q = p THEN limit ELSE IF q \in Reachable THEN cap[q] ELSE 0]
            /\ used' = [used EXCEPT ![p] = 0]
            /\ ref' = [ref EXCEPT ![r] = p]
    ELSE /\ ref' = [ref EXCEPT ![r] = current]
         /\ UNCHANGED poolVars

\* Under runLimitMu: an empty channel of another capacity is replaced, and
\* the caller goes on with the channel it then finds.
LookUp(r, limit) ==
    IF current = NoPool \/ (cap[current] # limit /\ used[current] = 0)
    THEN LET p == CHOOSE p \in Pools : p \notin Reachable IN
            /\ current' = p
            /\ cap' = [q \in Pools |-> IF q = p THEN limit ELSE IF q \in Reachable THEN cap[q] ELSE 0]
            /\ used' = [used EXCEPT ![p] = 0]
            /\ ref' = [ref EXCEPT ![r] = p]
    ELSE /\ ref' = [ref EXCEPT ![r] = current]
         /\ UNCHANGED poolVars

LookUpEngine(r) ==
    /\ Goto(r, "resolved", "engineRef")
    /\ LookUp(r, Effective(want[r].engine))
    /\ UNCHANGED <<want, engineSlot, instanceSlot, config, edits>>

LookUpInstance(r) ==
    /\ Goto(r, "engineHeld", "instanceRef")
    /\ LookUp(r, Effective(want[r].instance))
    /\ UNCHANGED <<want, engineSlot, instanceSlot, config, edits>>

HasRoom(p) == used[p] < cap[p]

\* The non-blocking send, and where the caller goes without a slot.
Take(r, slot, taken, refused) ==
    /\ ref' = [ref EXCEPT ![r] = NoPool]
    /\ IF HasRoom(ref[r])
       THEN /\ used' = [used EXCEPT ![ref[r]] = @ + 1]
            /\ pc' = [pc EXCEPT ![r] = taken]
            /\ slot' = [slot EXCEPT ![r] = ref[r]]
       ELSE /\ pc' = [pc EXCEPT ![r] = refused]
            /\ UNCHANGED <<used, slot>>

\* Without an instance limit the second acquisition is skipped.
TakeEngine(r) ==
    /\ pc[r] = "engineRef"
    /\ Take(r, engineSlot, IF want[r].instance > 0 THEN "engineHeld" ELSE "running", "idle")
    /\ want' = IF HasRoom(ref[r]) THEN want ELSE [want EXCEPT ![r] = NoLimits]
    /\ UNCHANGED <<instanceSlot, current, cap, config, edits>>

\* Mutant of TakeInstance: a refusal returns before releaseSlot is deferred.
TakeInstanceLeaks(r) ==
    /\ pc[r] = "instanceRef"
    /\ Take(r, instanceSlot, "running", "idle")
    /\ engineSlot' = [engineSlot EXCEPT ![r] = IF HasRoom(ref[r]) THEN @ ELSE NoPool]
    /\ UNCHANGED <<want, current, cap, config, edits>>

\* A caller refused its second slot still runs the deferred release.
TakeInstance(r) ==
    /\ pc[r] = "instanceRef"
    /\ Take(r, instanceSlot, "running", "leaving")
    /\ UNCHANGED <<want, engineSlot, current, cap, config, edits>>

-----------------------------------------------------------------------------
(* The deferred releases: a receive from the very channel that was sent to, *)
(* which blocks on an empty one.                                           *)

\* Mutant of ReleaseInstance: the engine's channel is read again on release
\* and a count is taken down in place of a receive.
ReleaseFromCurrent(r) ==
    /\ Goto(r, "running", "leaving")
    /\ IF instanceSlot[r] = NoPool
       THEN UNCHANGED <<used, instanceSlot>>
       ELSE /\ used' = [used EXCEPT ![current] = @ - 1]
            /\ instanceSlot' = [instanceSlot EXCEPT ![r] = NoPool]
    /\ UNCHANGED <<want, ref, engineSlot, current, cap, config, edits>>

ReleaseInstance(r) ==
    /\ Goto(r, "running", "leaving")
    /\ IF instanceSlot[r] = NoPool
       THEN UNCHANGED <<used, instanceSlot>>
       ELSE /\ used[instanceSlot[r]] > 0
            /\ used' = [used EXCEPT ![instanceSlot[r]] = @ - 1]
            /\ instanceSlot' = [instanceSlot EXCEPT ![r] = NoPool]
    /\ UNCHANGED <<want, ref, engineSlot, current, cap, config, edits>>

ReleaseEngine(r) ==
    /\ Goto(r, "leaving", "idle")
    /\ used[engineSlot[r]] > 0
    /\ used' = [used EXCEPT ![engineSlot[r]] = @ - 1]
    /\ engineSlot' = [engineSlot EXCEPT ![r] = NoPool]
    /\ want' = [want EXCEPT ![r] = NoLimits]
    /\ UNCHANGED <<ref, instanceSlot, current, cap, config, edits>>

\* The config.set tool, the dashboard or a manifest edit changes a limit.
EditLimits ==
    /\ edits < MaxEdits
    /\ edits' = edits + 1
    /\ config' \in Limits \ {config}
    /\ UNCHANGED <<callerVars, poolVars>>

-----------------------------------------------------------------------------

Proceed(r) == \/ LookUpEngine(r) \/ TakeEngine(r) \/ LookUpInstance(r) \/ TakeInstance(r)
              \/ ReleaseInstance(r) \/ ReleaseEngine(r)

Next == EditLimits \/ \E r \in Runs : Resolve(r) \/ Proceed(r)

Spec == Init /\ [][Next]_vars

-----------------------------------------------------------------------------
(* Properties.                                                             *)

\* Every variable keeps its type.
TypeOK ==
    /\ pc \in [Runs -> Places]
    /\ config \in Limits /\ want \in [Runs -> Limits \cup {NoLimits}]
    /\ current \in Pools \cup {NoPool}
    /\ cap \in [Pools -> Nat] /\ used \in [Pools -> Nat]
    /\ ref \in [Runs -> Pools \cup {NoPool}]
    /\ engineSlot \in [Runs -> Pools \cup {NoPool}]
    /\ instanceSlot \in [Runs -> Pools \cup {NoPool}]
    /\ edits \in 0..MaxEdits

Holders(slot, p) == {r \in Runs : slot[r] = p}

\* Across replaced channels, refusals half way and edited limits, a channel
\* holds one token for each slot its callers hold and never more than its
\* capacity: no slot is lost or forged, and a release (engine.go
\* acquireRunSlot's closure) finds its token and never blocks.
SlotsBalanced ==
    \A p \in Pools : p \in Reachable =>
        /\ used[p] = Cardinality(Holders(engineSlot, p)) + Cardinality(Holders(instanceSlot, p))
        /\ used[p] <= cap[p]

Executing == {r \in Runs : pc[r] = "running"}

\* As long as no limit is edited, no more runs execute at once than
\* engine.max_concurrent_runs, although instance acquisitions with another
\* limit go through the same channel and could replace it.
ExecutionsWithinLimit ==
    edits = 0 => Cardinality(Executing) <= Effective(config.engine)

\* A run that is alone in the engine is not turned away by the limit on
\* concurrent runs (docs/specs/CONFIG.md, engine.max_concurrent_runs): it
\* takes two slots, but limits of two and more leave room for them.
LoneRunAdmitted ==
    [][\A r \in Runs :
         (pc[r] \in {"engineRef", "instanceRef"} /\ pc'[r] \in {"idle", "leaving"})
            => \E q \in Runs \ {r} : engineSlot[q] # NoPool]_vars
=============================================================================
