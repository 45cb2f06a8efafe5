------------------------------ MODULE RunEvents ------------------------------
(***************************************************************************)
(* The run event bus (channels/http/events.go) between the goroutines that *)
(* carry queued runs, which publish each event under the bare run id and   *)
(* under the composite instance:agent:run key (pipeline.go), and the HTTP  *)
(* handlers that stream them to clients (server.go handleRunEvents), which *)
(* drop off and come back with the Last-Event-ID they hold.                *)
(*                                                                         *)
(* The bus holds its mutex through every call, so a call is one step; only *)
(* the receiving handlers take events from a channel beside it.            *)
(***************************************************************************)
EXTENDS Integers, FiniteSets, SequencesExt

CONSTANTS Runs,         (* run identifiers                                   *)
          Unnamed,      (* runs queued without the instance the engine picks *)
          Clients,      (* event-stream clients                              *)
          MaxProgress,  (* bound: progress events of a run                   *)
          MaxConnects,  (* bound: connections of a client                    *)
          ReplayLimit,  (* RunEventBus.replayLimit                           *)
          Buffer,       (* RunEventBus.subscriberBuffer                      *)
          MaxRuns       (* RunEventBus.maxRuns                               *)

ASSUME RunEventsAssumption ==
    /\ IsFiniteSet(Runs) /\ Unnamed \subseteq Runs
    /\ {MaxProgress, MaxConnects} \subseteq Nat
    /\ {ReplayLimit, Buffer, MaxRuns} \subseteq Nat \ {0}

VARIABLES
  states,  (* RunEventBus.runs: the state under each key, or NoState         *)
  order,   (* RunEventBus.runOrder                                           *)
  at,      (* at[r]: what the goroutine carrying run r does next             *)
  left,    (* left[r]: progress events the run may still make                *)
  client,  (* client[c]: the client and the handler that serves it           *)
  pruned   (* keys whose state the bus gave up                               *)

vars == <<states, order, at, left, client, pruned>>

\* A run is addressed barely, by the identity it was queued with, or by the
\* identity the engine resolved.
Keys    == [run : Runs, form : {"bare", "queued", "resolved"}]
Bare(r) == [run |-> r, form |-> "bare"]
\* The composite key of the identity in the run when it was queued ...
QueuedKey(r) == [run |-> r, form |-> "queued"]
\* ... and of the one executeQueuedRun has put there by the terminal event.
ResolvedKey(r) == IF r \in Unnamed THEN [run |-> r, form |-> "resolved"] ELSE QueuedKey(r)

Event   == [id : Nat \ {0}, last : BOOLEAN]
NoState == [known |-> FALSE, next |-> 0, replay |-> <<>>, terminal |-> FALSE, verdict |-> 0]
Fresh   == [NoState EXCEPT !.known = TRUE]

Known == {k \in Keys : states[k].known}
Subscribers(k) == {c \in Clients : client[c].subscribed /\ client[c].key = k}

Init ==
    /\ states = [k \in Keys |-> NoState]
    /\ order = <<>>
    /\ at = [r \in Runs |-> "queued"] /\ left = [r \in Runs |-> MaxProgress]
    /\ \E key \in [Clients -> UNION {{Bare(r), QueuedKey(r), ResolvedKey(r)} : r \in Runs}] :
         client = [c \in Clients |-> [on |-> FALSE, subscribed |-> FALSE, chan |-> <<>>, room |-> 0,
                                      told |-> FALSE, key |-> key[c], seen |-> 0,
                                      connects |-> 0]]
    /\ pruned = {}

-----------------------------------------------------------------------------
(* States of the bus.                                                      *)

\* What a loop over a sequence leaves of it: the elements at places D, in order.
Nth(D, n)    == CHOOSE i \in D : Cardinality({j \in D : j <= i}) = n
Chosen(s, D) == [n \in 1..Cardinality(D) |-> s[Nth(D, n)]]

Prunable(k) == states[k].terminal /\ Subscribers(k) = {}

\* ensureRunLocked creates the state of key k; over the limit, pruneRunsLocked
\* drops the oldest states of ended runs without subscribers.
Given(k) == IF k \in Known THEN {}
            ELSE LET excess == Cardinality(Known) + 1 - MaxRuns
                     can    == {i \in DOMAIN order : Prunable(order[i])}
                 IN  {order[i] : i \in {n \in can : Cardinality(can \cap 1..n) <= excess}}

\* The bus after ensureRunLocked, with state s under key k.
Ensure(k, s) ==
    /\ states' = [q \in Keys |-> IF q = k THEN s ELSE IF q \in Given(k) THEN NoState ELSE states[q]]
    /\ order' = LET kept == {i \in DOMAIN order : order[i] \notin Given(k)}
                IN  IF k \in Known THEN order ELSE Append(Chosen(order, kept), k)
    /\ pruned' = pruned \cup Given(k)

StateOf(k) == IF k \in Known THEN states[k] ELSE Fresh

-----------------------------------------------------------------------------
(* Publishing.                                                             *)

\* The handler writes the event to its client, which remembers its id.
Received(x, event) == [x EXCEPT !.seen = event.id, !.told = @ \/ event.last]

\* Mutant of Enqueued: a full channel refuses the event.
EnqueuedIfRoom(x, event, raced) ==
    IF Len(x.chan) < x.room THEN [x EXCEPT !.chan = Append(@, event)] ELSE x

\* enqueueRunEvent: a full channel loses its oldest event, or the second oldest
\* when the handler receives the oldest between the failed send and the drop.
Enqueued(x, event, raced) ==
    IF Len(x.chan) < x.room THEN [x EXCEPT !.chan = Append(@, event)]
    ELSE IF raced THEN [Received(x, Head(x.chan)) EXCEPT !.chan = Append(SubSeq(@, 3, Len(@)), event)]
    ELSE [x EXCEPT !.chan = Append(Tail(@), event)]

\* Mutant of Kept: the limit test is off by one.
KeptOneMore(replay, event) ==
    IF Len(replay) > ReplayLimit THEN Append(Tail(replay), event) ELSE Append(replay, event)

\* The events kept for replay once event is published.
Kept(replay, event) ==
    IF Len(replay) >= ReplayLimit THEN Append(Tail(replay), event) ELSE Append(replay, event)

\* publish: the state of key k takes the event, and so does each subscriber.
Publish(k, last) ==
    LET s     == StateOf(k)
        event == [id |-> s.next + 1, last |-> last]
    IN  /\ Ensure(k, [s EXCEPT !.next = @ + 1, !.replay = Kept(@, event), !.terminal = @ \/ last,
                               !.verdict = IF last THEN event.id ELSE @])
        /\ \E raced \in SUBSET {c \in Subscribers(k) : Len(client[c].chan) = client[c].room} :
             client' = [c \in Clients |->
                 IF c \in Subscribers(k) THEN Enqueued(client[c], event, c \in raced) ELSE client[c]]

\* publishQueueRunEvent: the bare key first ...
PublishBare(r, kind) ==
    /\ \/ at[r] = "queued" /\ kind = "status" /\ UNCHANGED left
       \/ at[r] = "executing" /\ kind = "progress" /\ left[r] > 0
          /\ left' = [left EXCEPT ![r] = @ - 1]
       \/ at[r] = "executing" /\ kind = "verdict" /\ UNCHANGED left
    /\ at' = [at EXCEPT ![r] = kind]
    /\ Publish(Bare(r), kind = "verdict")

\* ... then the composite one.
PublishComposite(r) ==
    /\ at[r] \in {"status", "progress", "verdict"}
    /\ at' = [at EXCEPT ![r] = IF @ = "verdict" THEN "closing" ELSE "executing"]
    /\ Publish(IF at[r] = "verdict" THEN ResolvedKey(r) ELSE QueuedKey(r), at[r] = "verdict")
    /\ UNCHANGED left

\* Mutant of CloseKey: the subscribers are forgotten, their channels left open.
CloseKeyForgets(k) ==
    /\ states' = IF k \in Known THEN [states EXCEPT ![k].terminal = TRUE] ELSE states
    /\ UNCHANGED <<client, order, pruned, left>>

\* RunEventBus.Close: the subscribers' channels are closed.
CloseKey(k) ==
    /\ states' = IF k \in Known THEN [states EXCEPT ![k].terminal = TRUE] ELSE states
    /\ client' = [c \in Clients |-> [client[c] EXCEPT !.subscribed = @ /\ c \notin Subscribers(k)]]
    /\ UNCHANGED <<order, pruned, left>>

\* The deferred calls of executeQueuedRun, whose keys were fixed at the start.
CloseComposite(r) ==
    /\ at[r] = "closing" /\ at' = [at EXCEPT ![r] = "closingBare"]
    /\ CloseKey(QueuedKey(r))

CloseBare(r) ==
    /\ at[r] = "closingBare" /\ at' = [at EXCEPT ![r] = "over"]
    /\ CloseKey(Bare(r))

-----------------------------------------------------------------------------
(* Streaming: handleRunEvents.                                             *)

\* The kept events the client has not seen.
Newer(s, seen) == Chosen(s.replay, {i \in DOMAIN s.replay : s.replay[i].id > seen})

\* Mutant of Replay: the terminal event is not kept for late clients.
ReplayOnlyNewer(s, seen) == Newer(s, seen)

\* Mutant of Replay: the Last-Event-ID is not looked at.
ReplayEverything(s, seen) == s.replay

\* What Subscribe puts in the channel: those, and the terminal event if they
\* are none.
Replay(s, seen) ==
    IF s.terminal /\ Newer(s, seen) = <<>> /\ s.verdict # 0
    THEN <<[id |-> s.verdict, last |-> TRUE]>> ELSE Newer(s, seen)

\* A client connects, or comes back with the Last-Event-ID it holds.  Under an
\* ended run's key it gets the replay and a closed channel.
Subscribe(c) ==
    LET k == client[c].key
        s == StateOf(k)
    IN  /\ ~client[c].on /\ client[c].connects < MaxConnects
        /\ Ensure(k, s)
        /\ client' = [client EXCEPT ![c] =
              [client[c] EXCEPT !.on = TRUE, !.subscribed = ~s.terminal, !.connects = @ + 1,
                                !.chan = Replay(s, client[c].seen),
                                !.room = Len(Replay(s, client[c].seen)) + Buffer,
                                !.told = FALSE]]
    /\ UNCHANGED <<at, left>>

Receive(c) ==
    /\ client[c].on /\ client[c].chan # <<>>
    /\ LET x == Received(client[c], Head(client[c].chan))
       IN  client' = [client EXCEPT ![c] = [x EXCEPT !.chan = Tail(@)]]
    /\ UNCHANGED <<states, order, at, left, pruned>>

\* The handler returns, at the end of a closed channel or because its client
\* went away, and its subscription goes with it.
Leave(c) ==
    client' = [client EXCEPT ![c] = [@ EXCEPT !.on = FALSE, !.subscribed = FALSE, !.chan = <<>>,
                                              !.room = 0, !.told = FALSE]]

Finish(c) ==
    /\ client[c].on /\ ~client[c].subscribed /\ client[c].chan = <<>>
    /\ Leave(c)
    /\ UNCHANGED <<states, order, at, left, pruned>>

Disconnect(c) ==
    /\ client[c].on /\ (client[c].subscribed \/ client[c].chan # <<>>)
    /\ Leave(c)
    /\ UNCHANGED <<states, order, at, left, pruned>>

-----------------------------------------------------------------------------

\* The steps of the goroutine carrying run r.
Carry(r) == \/ \E kind \in {"status", "progress", "verdict"} : PublishBare(r, kind)
            \/ PublishComposite(r) \/ CloseComposite(r) \/ CloseBare(r)

Serve(c) == Receive(c) \/ Finish(c)

Next == \/ \E r \in Runs : Carry(r)
        \/ \E c \in Clients : Serve(c) \/ Subscribe(c) \/ Disconnect(c)

\* Executions end (RunQueue, EveryRunSettles) and handlers are scheduled.
Fairness == (\A r \in Runs : WF_vars(Carry(r))) /\ (\A c \in Clients : WF_vars(Serve(c)))

Spec == Init /\ [][Next]_vars /\ Fairness

-----------------------------------------------------------------------------
(* Properties.                                                             *)

\* Every variable keeps its type, channels their capacity, the replay its limit.
TypeOK ==
    /\ \A k \in Keys : /\ {states[k].known, states[k].terminal} \subseteq BOOLEAN
                       /\ states[k].next \in Nat /\ states[k].verdict \in 0..states[k].next
                       /\ ToSet(states[k].replay) \subseteq Event
                       /\ Len(states[k].replay) <= ReplayLimit
    /\ ToSet(order) = Known /\ Len(order) = Cardinality(Known)
    /\ at \in [Runs -> {"queued", "status", "executing", "progress", "verdict",
                        "closing", "closingBare", "over"}]
    /\ left \in [Runs -> 0..MaxProgress]
    /\ \A c \in Clients : /\ ToSet(client[c].chan) \subseteq Event
                          /\ Len(client[c].chan) <= client[c].room
                          /\ client[c].key \in Keys /\ client[c].seen \in Nat
    /\ pruned \subseteq Keys

\* A stream the server ends has told its client how the run ended, whenever
\* the client came and however slow it was, unless the bus gave up the state
\* of its key (drop-oldest never drops the terminal event; late and returning
\* clients get it again).
EndsWithVerdict ==
    \A c \in Clients :
        client[c].on /\ ~client[c].subscribed /\ client[c].chan = <<>>
            => client[c].told \/ client[c].key \in pruned

\* What a subscriber's channel holds is the newest stretch of its key's events
\* without a hole: a handler that has emptied it has passed on the newest
\* event, however often the channel overflowed (enqueueRunEvent).
NewestPending ==
    \A c \in Clients : client[c].subscribed /\ client[c].key \notin pruned =>
        LET chan == client[c].chan
            next == states[client[c].key].next
        IN  /\ \A i \in DOMAIN chan : chan[i].id = next - Len(chan) + i
            /\ chan = <<>> => client[c].seen = next

\* A client is never taken back to an event older than the last it was given,
\* on one connection or after it returns with its Last-Event-ID.
NeverBackwards ==
    [][\A c \in Clients : client[c].key \notin pruned => client'[c].seen >= client[c].seen]_vars

\* Every stream ends, when its run does if not before, unless the bus gave up
\* the state of its key before the client came.
EveryStreamEnds ==
    \A c \in Clients : client[c].on /\ client[c].key \notin pruned ~> ~client[c].on
=============================================================================
