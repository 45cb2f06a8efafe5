--------------------------- MODULE RunQueue_proofs ---------------------------
(***************************************************************************)
(* Theorems about RunQueue, for every set of runs, every limit and every   *)
(* bound.  The invariants checked by TLC are not inductive one by one: the *)
(* record a carrier leaves behind depends on the verdict it announced, and *)
(* the verdict on the cancels it was sent.  IInv adds, for each place of a *)
(* carrier, what the store and the goroutine hold there.                   *)
(***************************************************************************)
EXTENDS RunQueue, FiniteSetTheorems, TLAPS

\* The places before Create, and those before the verdict and before the
\* final Update of the store.
Unrecorded == {"new", "rejected", "admitted"}
Unjudged   == Unrecorded \cup {"refused", "stored", "spawned", "executing", "returned"}
Judged     == {"settled", "persisted"} \cup StreamEnded

\* Nothing is known of a run before its Create, in memory or on disk.
NoRecordYet ==
    \A r \in Runs : pc[r] \in Unrecorded => mem[r] = "absent" /\ disk[r] = "absent"

\* No terminal record, stamp or event precedes the verdict.
NoVerdictYet ==
    \A r \in Runs :
        /\ pc[r] \in Unjudged \cup {"settled"} =>
              mem[r] \notin Terminal /\ disk[r] \notin Terminal
        /\ pc[r] \in Unjudged => stamp[r] = 0 /\ announced[r] \notin Terminal

\* From the verdict on the goroutine holds a terminal status, and the store
\* the same one once the final Update is made.
VerdictKept ==
    \A r \in Runs :
        /\ pc[r] \in Judged => announced[r] \in Terminal
        /\ pc[r] \in Judged \ {"settled"} => mem[r] \in {announced[r], "absent"}

\* Only a process death loses a run.
LostByCrash == \A r \in Runs : pc[r] = "lost" => crashes > 0

\* An acknowledged cancel is in the run's context until the verdict.
AckInContext ==
    \A r \in acked : /\ pc[r] \notin Unrecorded \cup {"refused", "stored"}
                     /\ pc[r] \in {"spawned", "executing", "returned"} => r \in ctxDone

RecordsInv == /\ RecordsMatchOwners
              /\ NoRecordYet
              /\ NoVerdictYet
              /\ VerdictKept
              /\ LostByCrash

CancelInv  == AckInContext /\ CancelHonoured

IInv == /\ TypeOK
        /\ SlotsAccounted
        /\ TrackerExact
        /\ RecordsInv
        /\ CancelInv

-----------------------------------------------------------------------------
(* The store's operations.                                                 *)

\* Compaction drops terminal records and touches nothing else.
LEMMA CompactDropsTerminal ==
  ASSUME NEW view \in [Runs -> Status]
  PROVE  /\ Compact(view) \in [Runs -> Status]
         /\ \A r \in Runs : \/ Compact(view)[r] = view[r]
                            \/ view[r] \in Terminal /\ Compact(view)[r] = "absent"
<1> DEFINE terminal == {r \in Runs : view[r] \in Terminal}
           older(r) == {q \in terminal : stamp[q] < stamp[r]}
           dropped(r) == r \in terminal /\ Cardinality(older(r)) < Cardinality(Present(view)) - MaxPersisted
<1>1. Compact(view) = [r \in Runs |-> IF dropped(r) THEN "absent" ELSE view[r]]
  BY DEF Compact
<1>2. \A r \in Runs : dropped(r) => view[r] \in Terminal
  OBVIOUS
<1> HIDE DEF dropped
<1> QED
  BY <1>1, <1>2 DEF Status, Active, Terminal

\* One write: the record takes its status unless compaction drops it, the
\* other records stay or are dropped, and the file holds old or new records.
LEMMA PutRecordEffect ==
  ASSUME TypeOK, NEW r \in Runs, NEW status \in Status, NEW failing \in BOOLEAN,
         PutRecord(r, status, failing)
  PROVE  /\ mem' \in [Runs -> Status] /\ disk' \in [Runs -> Status]
         /\ mem'[r] = status \/ (status \in Terminal /\ mem'[r] = "absent")
         /\ \A q \in Runs \ {r} :
               mem'[q] = mem[q] \/ (mem[q] \in Terminal /\ mem'[q] = "absent")
         /\ disk' = disk \/ disk' = mem'
<1> DEFINE view == [mem EXCEPT ![r] = status]
<1>1. view \in [Runs -> Status] /\ mem' = Compact(view)
  BY DEF TypeOK, PutRecord
<1>2. /\ mem' \in [Runs -> Status]
      /\ \A q \in Runs : mem'[q] = view[q] \/ (view[q] \in Terminal /\ mem'[q] = "absent")
  <2> HIDE DEF view
  <2> QED BY <1>1, CompactDropsTerminal
<1>3. view[r] = status /\ \A q \in Runs \ {r} : view[q] = mem[q]
  BY DEF TypeOK
<1>4. disk' = disk \/ disk' = mem'
  BY DEF PutRecord
<1> HIDE DEF view
<1> QED BY <1>2, <1>3, <1>4 DEF TypeOK

\* An update does the same, or nothing to a record that is gone.
LEMMA UpdateRecordEffect ==
  ASSUME TypeOK, NEW r \in Runs, NEW status \in Status, UpdateRecord(r, status)
  PROVE  /\ mem' \in [Runs -> Status] /\ disk' \in [Runs -> Status]
         /\ IF mem[r] = "absent"
            THEN mem'[r] = "absent"
            ELSE mem'[r] = status \/ (status \in Terminal /\ mem'[r] = "absent")
         /\ \A q \in Runs \ {r} :
               mem'[q] = mem[q] \/ (mem[q] \in Terminal /\ mem'[q] = "absent")
         /\ disk' = disk \/ disk' = mem'
<1>1. CASE mem[r] = "absent"
  BY <1>1 DEF UpdateRecord, storeVars, TypeOK
<1>2. CASE mem[r] # "absent"
  <2>1. PICK failing \in SaveFails : PutRecord(r, status, failing)
    BY <1>2 DEF UpdateRecord
  <2>2. failing \in BOOLEAN
    BY ConstantsAssumption
  <2> QED BY <1>2, <2>1, <2>2, PutRecordEffect
<1> QED BY <1>1, <1>2

-----------------------------------------------------------------------------
(* The type invariant.                                                     *)

\* Every step of the queue, its clients and its crashes keeps the types.
LEMMA TypeStep ==
  ASSUME TypeOK, VerdictKept, [Next]_vars
  PROVE  TypeOK'
<1> USE ConstantsAssumption DEF trackerVars, storeVars, cancelVars
<1>1. ASSUME NEW r \in Runs, Begin(r) PROVE TypeOK'
  BY <1>1 DEF Begin, Goto, TypeOK, Holding, Over
<1>2. ASSUME NEW r \in Runs, Create(r) PROVE TypeOK'
  <2>1. PICK failing \in SaveFails :
           /\ PutRecord(r, "queued", failing)
           /\ Goto(r, "admitted", IF failing THEN "refused" ELSE "stored")
    BY <1>2 DEF Create
  <2>2. mem' \in [Runs -> Status] /\ disk' \in [Runs -> Status]
    BY <2>1, PutRecordEffect DEF Status, Active
  <2> QED BY <1>2, <2>1, <2>2 DEF Create, Goto, TypeOK, Holding, Recorded
<1>3. ASSUME NEW r \in Runs, Track(r) PROVE TypeOK'
  BY <1>3 DEF Track, Goto, TypeOK, Holding, Recorded
<1>4. ASSUME NEW r \in Runs, Start(r) PROVE TypeOK'
  <2>1. mem' \in [Runs -> Status] /\ disk' \in [Runs -> Status]
    BY <1>4, UpdateRecordEffect DEF Start, Status, Active
  <2>2. 1 \in 0..MaxAttempts
    OBVIOUS
  <2>3. pc' \in [Runs -> {"new"} \cup Holding \cup Over]
    BY <1>4 DEF Start, Goto, TypeOK, Holding, Recorded
  <2> QED BY <1>4, <2>1, <2>2, <2>3 DEF Start, TypeOK
<1>5. ASSUME NEW r \in Runs, Retry(r) PROVE TypeOK'
  BY <1>5 DEF Retry, TypeOK
<1>6. ASSUME NEW r \in Runs, ExecutorReturns(r) PROVE TypeOK'
  BY <1>6 DEF ExecutorReturns, Goto, TypeOK, Outcomes, Holding, Recorded
<1>7. ASSUME NEW r \in Runs, Settle(r) PROVE TypeOK'
  <2>1. Verdict(r) \in Terminal
    BY DEF Verdict, Terminal
  <2>2. Cardinality({q \in Runs : stamp[q] # 0}) \in Nat
    BY FS_Subset, FS_CardinalityType
  <2> QED BY <1>7, <2>1, <2>2 DEF Settle, Goto, TypeOK, Outcomes, Holding, Recorded
<1>8. ASSUME NEW r \in Runs, Persist(r) PROVE TypeOK'
  <2>1. announced[r] \in Status
    BY <1>8 DEF Persist, Goto, VerdictKept, Judged, Status
  <2>2. mem' \in [Runs -> Status] /\ disk' \in [Runs -> Status]
    BY <1>8, <2>1, UpdateRecordEffect DEF Persist
  <2> QED BY <1>8, <2>2 DEF Persist, Goto, TypeOK, Holding
<1>9. ASSUME NEW r \in Runs, CloseStream(r) PROVE TypeOK'
  BY <1>9 DEF CloseStream, Goto, TypeOK, Holding
<1>10. ASSUME NEW r \in Runs, Untrack(r) PROVE TypeOK'
  BY <1>10 DEF Untrack, Goto, TypeOK, Holding
<1>11. ASSUME NEW r \in Runs, Done(r) PROVE TypeOK'
  BY <1>11 DEF Done, TypeOK, Over
<1>12. ASSUME NEW r \in Runs, InspectForCancel(r) PROVE TypeOK'
  BY <1>12 DEF InspectForCancel, TypeOK
<1>13. ASSUME NEW r \in Runs, FireCancel(r) PROVE TypeOK'
  BY <1>13 DEF FireCancel, TypeOK
<1>14. CASE BeginWait
  BY <1>14 DEF BeginWait, TypeOK
<1>15. CASE EndWait
  BY <1>15 DEF EndWait, TypeOK
<1>16. CASE Crash
  BY <1>16 DEF Crash, TypeOK, Over, Outcomes
<1>17. CASE UNCHANGED vars
  BY <1>17 DEF vars, TypeOK
<1> QED
  BY <1>1, <1>2, <1>3, <1>4, <1>5, <1>6, <1>7, <1>8, <1>9, <1>10, <1>11,
     <1>12, <1>13, <1>14, <1>15, <1>16, <1>17 DEF Next, Carry

-----------------------------------------------------------------------------
(* The in-flight counter and the cancel tracker.                           *)

\* A step that keeps every carrier on its side of tryBegin and done() leaves
\* the counter right if it leaves it alone.
LEMMA SameSlots ==
  ASSUME SlotsAccounted, inFlight' = inFlight,
         \A r \in Runs : pc'[r] \in Holding <=> pc[r] \in Holding
  PROVE  SlotsAccounted'
<1>1. {r \in Runs : pc'[r] \in Holding} = {r \in Runs : pc[r] \in Holding}
  OBVIOUS
<1> QED BY <1>1 DEF SlotsAccounted

\* Every step keeps the counter equal to the runs between tryBegin and done():
\* Begin adds a holder with a slot, Done removes one with its slot, a crash
\* removes all, and the other steps move a run among the holding places.
LEMMA SlotsStep ==
  ASSUME TypeOK, SlotsAccounted, [Next]_vars
  PROVE  SlotsAccounted'
<1> DEFINE Held == {r \in Runs : pc[r] \in Holding}
<1> USE ConstantsAssumption DEF trackerVars
<1>1. IsFiniteSet(Held) /\ Cardinality(Held) \in Nat /\ inFlight = Cardinality(Held)
  BY FS_Subset, FS_CardinalityType DEF SlotsAccounted
<1>2. ASSUME NEW r \in Runs, Begin(r) PROVE SlotsAccounted'
  <2>1. CASE inFlight >= MaxInFlight
    BY <1>2, <2>1, SameSlots DEF Begin, Goto, TypeOK, Holding, Recorded
  <2>2. CASE ~(inFlight >= MaxInFlight)
    <3>1. r \notin Held /\ Held' = Held \cup {r}
      BY <1>2, <2>2 DEF Begin, Goto, TypeOK, Holding, Recorded
    <3>2. Cardinality(Held \cup {r}) = Cardinality(Held) + 1
      BY <1>1, <3>1, FS_AddElement
    <3> HIDE DEF Held
    <3>3. inFlight' = Cardinality(Held')
      BY <1>1, <1>2, <2>2, <3>1, <3>2 DEF Begin
    <3> QED BY <3>3 DEF SlotsAccounted, Held
  <2> QED BY <2>1, <2>2
<1>3. ASSUME NEW r \in Runs, Create(r) PROVE SlotsAccounted'
  BY <1>3, SameSlots DEF Create, Goto, TypeOK, Holding, Recorded
<1>4. ASSUME NEW r \in Runs, Track(r) PROVE SlotsAccounted'
  BY <1>4, SameSlots DEF Track, Goto, TypeOK, Holding, Recorded
<1>5. ASSUME NEW r \in Runs, Start(r) PROVE SlotsAccounted'
  BY <1>5, SameSlots DEF Start, Goto, TypeOK, Holding, Recorded
<1>6. ASSUME NEW r \in Runs, Retry(r) PROVE SlotsAccounted'
  BY <1>6, SameSlots DEF Retry
<1>7. ASSUME NEW r \in Runs, ExecutorReturns(r) PROVE SlotsAccounted'
  BY <1>7, SameSlots DEF ExecutorReturns, Goto, TypeOK, Holding, Recorded
<1>8. ASSUME NEW r \in Runs, Settle(r) PROVE SlotsAccounted'
  BY <1>8, SameSlots DEF Settle, Goto, TypeOK, Holding, Recorded
<1>9. ASSUME NEW r \in Runs, Persist(r) PROVE SlotsAccounted'
  BY <1>9, SameSlots DEF Persist, Goto, TypeOK, Holding, Recorded
<1>10. ASSUME NEW r \in Runs, CloseStream(r) PROVE SlotsAccounted'
  BY <1>10, SameSlots DEF CloseStream, Goto, TypeOK, Holding, Recorded
<1>11. ASSUME NEW r \in Runs, Untrack(r) PROVE SlotsAccounted'
  BY <1>11, SameSlots DEF Untrack, Goto, TypeOK, Holding, Recorded
<1>12. ASSUME NEW r \in Runs, Done(r) PROVE SlotsAccounted'
  <2>1. r \in Held /\ Held' = Held \ {r}
    BY <1>12 DEF Done, TypeOK, Holding, Recorded
  <2>2. IsFiniteSet(Held \ {r}) /\ Cardinality(Held \ {r}) = Cardinality(Held) - 1
    BY <1>1, <2>1, FS_RemoveElement
  <2>3. Cardinality(Held \ {r}) \in Nat
    BY <2>2, FS_CardinalityType
  <2> HIDE DEF Held
  <2>4. inFlight' = Cardinality(Held')
    BY <1>1, <1>12, <2>1, <2>2, <2>3 DEF Done
  <2> QED BY <2>4 DEF SlotsAccounted, Held
<1>13. ASSUME NEW r \in Runs, InspectForCancel(r) \/ FireCancel(r) PROVE SlotsAccounted'
  BY <1>13, SameSlots DEF InspectForCancel, FireCancel
<1>14. CASE BeginWait \/ EndWait \/ UNCHANGED vars
  BY <1>14, SameSlots DEF BeginWait, EndWait, vars
<1>15. CASE Crash
  <2>1. Held' = {}
    BY <1>15 DEF Crash, Holding, Recorded
  <2>2. Cardinality({}) = 0
    BY FS_EmptySet
  <2> QED BY <1>15, <2>1, <2>2 DEF Crash, SlotsAccounted
<1> QED
  BY <1>2, <1>3, <1>4, <1>5, <1>6, <1>7, <1>8, <1>9, <1>10, <1>11, <1>12,
     <1>13, <1>14, <1>15 DEF Next, Carry

\* Every step keeps the tracker exact: Track and the deferred Remove change it
\* in the step that moves the carrier, a crash empties both.
LEMMA TrackerStep ==
  ASSUME TypeOK, TrackerExact, [Next]_vars
  PROVE  TrackerExact'
<1> USE DEF TrackerExact, Cancellable, Goto, TypeOK
<1>1. ASSUME NEW r \in Runs, Begin(r) \/ Create(r) \/ Track(r) PROVE TrackerExact'
  BY <1>1 DEF Begin, Create, Track
<1>2. ASSUME NEW r \in Runs, Start(r) \/ Retry(r) \/ ExecutorReturns(r) PROVE TrackerExact'
  BY <1>2 DEF Start, Retry, ExecutorReturns
<1>3. ASSUME NEW r \in Runs, Settle(r) \/ Persist(r) \/ CloseStream(r) PROVE TrackerExact'
  BY <1>3 DEF Settle, Persist, CloseStream
<1>4. ASSUME NEW r \in Runs, Untrack(r) \/ Done(r) PROVE TrackerExact'
  BY <1>4 DEF Untrack, Done
<1>5. ASSUME NEW r \in Runs, InspectForCancel(r) \/ FireCancel(r) PROVE TrackerExact'
  BY <1>5 DEF InspectForCancel, FireCancel
<1>6. CASE BeginWait \/ EndWait \/ UNCHANGED vars
  BY <1>6 DEF BeginWait, EndWait, vars
<1>7. CASE Crash
  BY <1>7 DEF Crash, Holding, Recorded
<1> QED
  BY <1>1, <1>2, <1>3, <1>4, <1>5, <1>6, <1>7 DEF Next, Carry

-----------------------------------------------------------------------------
(* The records of the store.                                               *)

\* Every step keeps the records in step with their carriers, the verdict with
\* the store once the stream has closed, and unstamped runs out of the terminal
\* records that compaction may drop.
LEMMA RecordsStep ==
  ASSUME TypeOK, RecordsInv, [Next]_vars
  PROVE  RecordsInv'
<1> DEFINE Inv(r) ==
      /\ pc[r] \in Recorded => mem[r] \in Active
      /\ mem[r] \in Active /\ crashes = 0 =>
            pc[r] \in Recorded \/ (mem[r] = "queued" /\ stamp[r] = 0
                                   /\ pc[r] \in {"refused", "finished"})
      /\ pc[r] \in Unrecorded => mem[r] = "absent" /\ disk[r] = "absent"
      /\ pc[r] \in Unjudged \cup {"settled"} =>
            mem[r] \notin Terminal /\ disk[r] \notin Terminal
      /\ pc[r] \in Unjudged => stamp[r] = 0 /\ announced[r] \notin Terminal
      /\ pc[r] \in Judged => announced[r] \in Terminal
      /\ pc[r] \in Judged \ {"settled"} => mem[r] \in {announced[r], "absent"}
      /\ pc[r] = "lost" => crashes > 0
<1>a. ASSUME NEW r \in Runs PROVE Inv(r)
  BY DEF RecordsInv, RecordsMatchOwners, NoRecordYet, NoVerdictYet, VerdictKept, LostByCrash
<1>b. SUFFICES ASSUME NEW q \in Runs PROVE Inv(q)'
  BY DEF RecordsInv, RecordsMatchOwners, NoRecordYet, NoVerdictYet, VerdictKept, LostByCrash
<1>c. Inv(q)
  BY <1>a
<1> USE DEF trackerVars, storeVars, cancelVars, Goto,
        Active, Terminal, Recorded, Unrecorded, Unjudged, Judged, StreamEnded
<1>1. ASSUME NEW r \in Runs, Begin(r) PROVE Inv(q)'
  BY <1>1, <1>c DEF Begin, TypeOK
<1>2. ASSUME NEW r \in Runs, Create(r) PROVE Inv(q)'
  <2>1. PICK failing \in SaveFails :
           /\ PutRecord(r, "queued", failing)
           /\ Goto(r, "admitted", IF failing THEN "refused" ELSE "stored")
    BY <1>2 DEF Create
  <2>2. failing \in BOOLEAN
    BY ConstantsAssumption
  <2>3. /\ mem'[r] = "queued"
        /\ \A p \in Runs \ {r} :
              mem'[p] = mem[p] \/ (mem[p] \in Terminal /\ mem'[p] = "absent")
        /\ disk' = disk \/ disk' = mem'
    BY <2>1, <2>2, PutRecordEffect DEF Status
  <2> QED BY <1>2, <1>c, <2>1, <2>2, <2>3 DEF Create, TypeOK
<1>3. ASSUME NEW r \in Runs, Track(r) PROVE Inv(q)'
  BY <1>3, <1>c DEF Track, TypeOK
<1>4. ASSUME NEW r \in Runs, Start(r) PROVE Inv(q)'
  <2>1. mem[r] \in Active
    BY <1>4, <1>a DEF Start
  <2>2. /\ mem'[r] = "running"
        /\ \A p \in Runs \ {r} :
              mem'[p] = mem[p] \/ (mem[p] \in Terminal /\ mem'[p] = "absent")
        /\ disk' = disk \/ disk' = mem'
    BY <1>4, <2>1, UpdateRecordEffect DEF Start, Status
  <2> QED BY <1>4, <1>c, <2>2 DEF Start, TypeOK
<1>5. ASSUME NEW r \in Runs, Retry(r) \/ ExecutorReturns(r) PROVE Inv(q)'
  BY <1>5, <1>c DEF Retry, ExecutorReturns, TypeOK
<1>6. ASSUME NEW r \in Runs, Settle(r) PROVE Inv(q)'
  <2>1. Verdict(r) \in Terminal
    BY DEF Verdict
  <2> QED BY <1>6, <1>c, <2>1 DEF Settle, TypeOK
<1>7. ASSUME NEW r \in Runs, Persist(r) PROVE Inv(q)'
  <2>1. mem[r] \in Active /\ announced[r] \in Terminal
    BY <1>7, <1>a DEF Persist
  <2>2. /\ mem'[r] \in {announced[r], "absent"}
        /\ \A p \in Runs \ {r} :
              mem'[p] = mem[p] \/ (mem[p] \in Terminal /\ mem'[p] = "absent")
        /\ disk' = disk \/ disk' = mem'
    BY <1>7, <2>1, UpdateRecordEffect DEF Persist, Status
  <2> QED BY <1>7, <1>c, <2>1, <2>2 DEF Persist, TypeOK
<1>8. ASSUME NEW r \in Runs, CloseStream(r) \/ Untrack(r) PROVE Inv(q)'
  BY <1>8, <1>c DEF CloseStream, Untrack, TypeOK
<1>9. ASSUME NEW r \in Runs, Done(r) PROVE Inv(q)'
  BY <1>9, <1>c DEF Done, TypeOK
<1>10. ASSUME NEW r \in Runs, InspectForCancel(r) \/ FireCancel(r) PROVE Inv(q)'
  BY <1>10, <1>c DEF InspectForCancel, FireCancel
<1>11. CASE BeginWait \/ EndWait \/ UNCHANGED vars
  BY <1>11, <1>c DEF BeginWait, EndWait, vars
<1>12. CASE Crash
  BY <1>12, <1>c DEF Crash, TypeOK, Holding
<1> QED
  BY <1>1, <1>2, <1>3, <1>4, <1>5, <1>6, <1>7, <1>8, <1>9, <1>10, <1>11, <1>12
     DEF Next, Carry

-----------------------------------------------------------------------------
(* Cancels.                                                                *)

\* Every step keeps an acknowledged run cancelled: its context stays done until
\* the verdict, and from then on no copy of its status says completed.
LEMMA CancelStep ==
  ASSUME TypeOK, RecordsInv, CancelInv, [Next]_vars
  PROVE  CancelInv'
<1> DEFINE Inv(r) ==
      r \in acked =>
        /\ pc[r] \notin Unrecorded \cup {"refused", "stored"}
        /\ pc[r] \in {"spawned", "executing", "returned"} => r \in ctxDone
        /\ "completed" \notin {announced[r], mem[r], disk[r]}
<1>a. ASSUME NEW r \in Runs PROVE Inv(r)
  BY DEF CancelInv, AckInContext, CancelHonoured
<1>b. SUFFICES ASSUME NEW q \in Runs PROVE Inv(q)'
  <2>1. acked' \subseteq Runs
    BY TypeStep DEF RecordsInv, TypeOK
  <2> QED BY <1>b, <2>1 DEF CancelInv, AckInContext, CancelHonoured
<1>c. Inv(q)
  BY <1>a
<1>d. /\ pc[q] \in {"spawned", "executing", "returned"} =>
            "completed" \notin {mem[q], disk[q]}
      /\ pc[q] \in {"settled", "persisted"} \cup StreamEnded => announced[q] \in Terminal
  BY DEF RecordsInv, NoVerdictYet, VerdictKept, Unjudged, Judged, Terminal
<1> USE DEF trackerVars, storeVars, cancelVars, Goto, Unrecorded
<1>1. ASSUME NEW r \in Runs, Begin(r) \/ Track(r) PROVE Inv(q)'
  BY <1>1, <1>c DEF Begin, Track, TypeOK
<1>2. ASSUME NEW r \in Runs, Create(r) PROVE Inv(q)'
  <2>1. PICK failing \in SaveFails :
           /\ PutRecord(r, "queued", failing)
           /\ Goto(r, "admitted", IF failing THEN "refused" ELSE "stored")
    BY <1>2 DEF Create
  <2>2. failing \in BOOLEAN
    BY ConstantsAssumption
  <2>3. mem'[q] \in {mem[q], "queued", "absent"} /\ (disk' = disk \/ disk' = mem')
    BY <2>1, <2>2, PutRecordEffect DEF Status, Active, Terminal
  <2> QED BY <1>2, <1>c, <2>1, <2>3 DEF Create, TypeOK
<1>3. ASSUME NEW r \in Runs, Start(r) PROVE Inv(q)'
  <2>1. mem'[q] \in {mem[q], "running", "absent"} /\ (disk' = disk \/ disk' = mem')
    BY <1>3, UpdateRecordEffect DEF Start, Status, Active, Terminal
  <2> QED BY <1>3, <1>c, <2>1 DEF Start, TypeOK
<1>4. ASSUME NEW r \in Runs, Retry(r) \/ ExecutorReturns(r) PROVE Inv(q)'
  BY <1>4, <1>c DEF Retry, ExecutorReturns, TypeOK
<1>5. ASSUME NEW r \in Runs, Settle(r) PROVE Inv(q)'
  <2>1. r \in ctxDone => Verdict(r) # "completed"
    BY DEF Verdict
  <2> QED BY <1>5, <1>c, <1>d, <2>1 DEF Settle, TypeOK
<1>6. ASSUME NEW r \in Runs, Persist(r) PROVE Inv(q)'
  <2>1. announced[r] \in Status
    BY <1>6 DEF Persist, RecordsInv, VerdictKept, Judged, Status
  <2>2. /\ q = r => mem'[q] \in {mem[q], announced[q], "absent"}
        /\ q # r => mem'[q] \in {mem[q], "absent"}
        /\ disk' = disk \/ disk' = mem'
    BY <1>6, <2>1, UpdateRecordEffect DEF Persist
  <2> QED BY <1>6, <1>c, <2>2 DEF Persist, TypeOK
<1>7. ASSUME NEW r \in Runs, CloseStream(r) \/ Untrack(r) PROVE Inv(q)'
  BY <1>7, <1>c DEF CloseStream, Untrack, TypeOK
<1>8. ASSUME NEW r \in Runs, Done(r) PROVE Inv(q)'
  BY <1>8, <1>c DEF Done, TypeOK
<1>9. ASSUME NEW r \in Runs, InspectForCancel(r) PROVE Inv(q)'
  BY <1>9, <1>c DEF InspectForCancel
<1>10. ASSUME NEW r \in Runs, FireCancel(r) PROVE Inv(q)'
  <2>1. CASE r \in tracked /\ pc[r] \in {"spawned", "executing", "returned"} /\ q = r
    <3>1. /\ pc'[q] \in {"spawned", "executing", "returned"} /\ q \in ctxDone'
          /\ announced' = announced /\ mem' = mem /\ disk' = disk
      BY <1>10, <2>1 DEF FireCancel
    <3>2. announced[q] # "completed"
      BY <2>1 DEF RecordsInv, NoVerdictYet, Unjudged, Terminal
    <3> QED BY <1>d, <2>1, <3>1, <3>2
  <2>2. CASE ~(r \in tracked /\ pc[r] \in {"spawned", "executing", "returned"} /\ q = r)
    BY <1>10, <2>2, <1>c DEF FireCancel
  <2> QED BY <2>1, <2>2
<1>11. CASE BeginWait \/ EndWait \/ UNCHANGED vars
  BY <1>11, <1>c DEF BeginWait, EndWait, vars
<1>12. CASE Crash
  BY <1>12, <1>c DEF Crash, TypeOK, Holding, Recorded
<1> QED
  BY <1>1, <1>2, <1>3, <1>4, <1>5, <1>6, <1>7, <1>8, <1>9, <1>10, <1>11, <1>12
     DEF Next, Carry

-----------------------------------------------------------------------------
(* The invariant holds, and with it what it was strengthened for.          *)

\* The initial state satisfies the inductive invariant.
LEMMA InitIInv == Init => IInv
<1> SUFFICES ASSUME Init PROVE IInv
  OBVIOUS
<1>1. TypeOK
  BY ConstantsAssumption DEF Init, TypeOK, Status, Outcomes
<1>2. {r \in Runs : pc[r] \in Holding} = {} /\ Cardinality({}) = 0
  BY FS_EmptySet DEF Init, Holding, Recorded
<1>3. SlotsAccounted
  BY <1>2 DEF SlotsAccounted, Init
<1>4. TrackerExact
  BY DEF Init, TrackerExact, Cancellable
<1>5. RecordsInv
  BY DEF Init, RecordsInv, RecordsMatchOwners, NoRecordYet, NoVerdictYet, VerdictKept,
     LostByCrash, Recorded, Active, Terminal, Judged, StreamEnded
<1>6. CancelInv
  BY DEF Init, CancelInv, AckInContext, CancelHonoured
<1> QED BY <1>1, <1>3, <1>4, <1>5, <1>6 DEF IInv

\* The inductive invariant is kept by every step.
LEMMA NextIInv == IInv /\ [Next]_vars => IInv'
  BY TypeStep, SlotsStep, TrackerStep, RecordsStep, CancelStep DEF IInv, RecordsInv

\* The inductive invariant holds in every reachable state, for any number of
\* runs and any limits: what the theorems below are read off from.
THEOREM Invariance == Spec => []IInv
  BY InitIInv, NextIInv, PTL DEF Spec

\* Every variable keeps its type and the in-flight counter its limit.
THEOREM TypeCorrect == Spec => []TypeOK
<1>1. IInv => TypeOK
  BY DEF IInv
<1> QED BY <1>1, Invariance, PTL

\* "Queue full" means full: the counter of tryBegin and done() is the number
\* of runs between the two, on every path, a failing Create included.
THEOREM SlotsCorrect == Spec => []SlotsAccounted
<1>1. IInv => SlotsAccounted
  BY DEF IInv
<1> QED BY <1>1, Invariance, PTL

\* The cancel tracker holds exactly the runs whose goroutine can be cancelled.
THEOREM TrackerCorrect == Spec => []TrackerExact
<1>1. IInv => TrackerExact
  BY DEF IInv
<1> QED BY <1>1, Invariance, PTL

\* A run being carried keeps its active record whatever compaction drops, and
\* without a process death nothing else leaves an active record behind but a
\* Create whose write failed.
THEOREM RecordsCorrect == Spec => []RecordsMatchOwners
<1>1. IInv => RecordsMatchOwners
  BY DEF IInv, RecordsInv
<1> QED BY <1>1, Invariance, PTL

\* The status a run's stream announced last is the one the store keeps.
THEOREM VerdictsCorrect == Spec => []StreamVerdictIsStored
<1>1. IInv => StreamVerdictIsStored
  BY DEF IInv, RecordsInv, VerdictKept, Judged, StreamEnded, StreamVerdictIsStored
<1> QED BY <1>1, Invariance, PTL

\* A cancel acknowledged before the verdict is never answered by a completion,
\* in the stream, in the store or in the file a restarted server loads.
THEOREM CancelsCorrect == Spec => []CancelHonoured
<1>1. IInv => CancelHonoured
  BY DEF IInv, CancelInv
<1> QED BY <1>1, Invariance, PTL

-----------------------------------------------------------------------------
(***************************************************************************)
(* What a shutdown can rely on: DrainCoversEarlierRuns, for every set of   *)
(* runs and every limit.  The drain channel in the tracker is closed       *)
(* exactly while the counter is zero, and a waiter holds either that       *)
(* channel or one all of whose runs are over; with SlotsAccounted, closing *)
(* it on the last done() means that no other run is left.                  *)
(***************************************************************************)

\* The tracker's channel is closed while the counter is zero, and it alone
\* is open while it is not.
ChannelInv ==
    /\ inFlight = 0 => closedGen = waitGen
    /\ inFlight > 0 => closedGen = waitGen - 1

\* A waiter's runs are under way or over, and over if its channel is closed.
WaiterInv ==
    /\ waiter.gen <= waitGen
    /\ waiter.runs # {} => waiter.state \in {"waiting", "drained"}
    /\ \A r \in waiter.runs :
         /\ pc[r] \in Holding \cup {"finished"}
         /\ waiter.state = "drained" \/ waiter.gen <= closedGen => pc[r] = "finished"

\* While no write fails, the file is the map, and a run that is over has no
\* active record in it.
FileInv ==
    SaveFails = {FALSE} =>
        /\ disk = mem
        /\ \A r \in Runs : /\ pc[r] # "refused"
                           /\ pc[r] = "finished" => mem[r] \notin Active

DrainInv == ChannelInv /\ WaiterInv /\ FileInv

-----------------------------------------------------------------------------

\* tryBegin opens a channel on 0 -> 1 and done() closes it on 1 -> 0; no other
\* step touches the counter or the channel.
LEMMA ChannelStep ==
  ASSUME TypeOK, ChannelInv, [Next]_vars
  PROVE  ChannelInv'
<1> USE DEF trackerVars, ChannelInv, TypeOK
<1>1. ASSUME NEW r \in Runs, Begin(r) PROVE ChannelInv'
  BY <1>1, ConstantsAssumption DEF Begin
<1>2. ASSUME NEW r \in Runs, Done(r) PROVE ChannelInv'
  BY <1>2 DEF Done
<1>3. ASSUME NEW r \in Runs, Create(r) \/ Track(r) \/ Start(r) \/ Retry(r)
                             \/ ExecutorReturns(r) \/ Settle(r) \/ Persist(r)
      PROVE ChannelInv'
  BY <1>3 DEF Create, Track, Start, Retry, ExecutorReturns, Settle, Persist
<1>4. ASSUME NEW r \in Runs, CloseStream(r) \/ Untrack(r) \/ InspectForCancel(r) \/ FireCancel(r)
      PROVE ChannelInv'
  BY <1>4 DEF CloseStream, Untrack, InspectForCancel, FireCancel
<1>5. CASE BeginWait \/ EndWait \/ Crash \/ UNCHANGED vars
  BY <1>5 DEF BeginWait, EndWait, Crash, vars
<1> QED BY <1>1, <1>2, <1>3, <1>4, <1>5 DEF Next, Carry

\* A carrier's step never takes a run a waiter counts out of its goroutine but
\* by done(), and the done() that closes the waiter's channel is the last.
LEMMA WaiterStep ==
  ASSUME TypeOK, SlotsAccounted, ChannelInv, WaiterInv, [Next]_vars
  PROVE  WaiterInv'
<1> USE DEF trackerVars, TypeOK, Goto, WaiterInv
<1>1. ASSUME NEW r \in Runs, Begin(r) PROVE WaiterInv'
  BY <1>1 DEF Begin, Holding, Recorded, ChannelInv
<1>2. ASSUME NEW r \in Runs, Create(r) \/ Track(r) \/ Start(r) \/ ExecutorReturns(r) PROVE WaiterInv'
  BY <1>2 DEF Create, Track, Start, ExecutorReturns, Holding, Recorded
<1>3. ASSUME NEW r \in Runs, Settle(r) \/ Persist(r) \/ CloseStream(r) \/ Untrack(r) PROVE WaiterInv'
  BY <1>3 DEF Settle, Persist, CloseStream, Untrack, Holding, Recorded
<1>4. ASSUME NEW r \in Runs, Retry(r) \/ InspectForCancel(r) \/ FireCancel(r) PROVE WaiterInv'
  BY <1>4 DEF Retry, InspectForCancel, FireCancel
<1>5. ASSUME NEW r \in Runs, Done(r) PROVE WaiterInv'
  <2>1. ASSUME inFlight = 1, NEW q \in Runs, pc[q] \in Holding PROVE q = r
    <3> DEFINE Held == {p \in Runs : pc[p] \in Holding}
    <3>1. IsFiniteSet(Held) /\ Cardinality(Held) = 1
      BY <2>1, FS_Subset, ConstantsAssumption DEF SlotsAccounted
    <3>2. r \in Held /\ q \in Held
      BY <1>5, <2>1 DEF Done, Holding
    <3> HIDE DEF Held
    <3>3. PICK x : Held = {x}
      BY <3>1, FS_Singleton
    <3> QED BY <3>2, <3>3
  <2>2. \A q \in waiter.runs : pc'[q] \in Holding \cup {"finished"}
    BY <1>5 DEF Done
  <2>3. inFlight = 1 => \A q \in waiter.runs : pc'[q] = "finished"
    BY <1>5, <2>1 DEF Done
  <2>4. inFlight # 1 => closedGen' = closedGen
    BY <1>5 DEF Done
  <2> QED BY <1>5, <2>2, <2>3, <2>4 DEF Done
<1>6. CASE BeginWait
  BY <1>6 DEF BeginWait, ChannelInv
<1>7. CASE EndWait
  BY <1>7 DEF EndWait
<1>8. CASE Crash
  BY <1>8 DEF Crash
<1>9. CASE UNCHANGED vars
  BY <1>9 DEF vars
<1> QED
  BY <1>1, <1>2, <1>3, <1>4, <1>5, <1>6, <1>7, <1>8, <1>9 DEF Next, Carry

\* Every write copies the map, which the deferred calls find settled.
LEMMA FileStep ==
  ASSUME TypeOK, RecordsInv, FileInv, [Next]_vars
  PROVE  FileInv'
<1> SUFFICES ASSUME SaveFails = {FALSE} PROVE FileInv'
  BY DEF FileInv
<1> USE DEF storeVars, Goto, FileInv, TypeOK
<1>1. ASSUME NEW r \in Runs, Begin(r) \/ Track(r) \/ Retry(r) PROVE FileInv'
  BY <1>1 DEF Begin, Track, Retry
<1>2. ASSUME NEW r \in Runs, Create(r) PROVE FileInv'
  <2>1. PutRecord(r, "queued", FALSE) /\ Goto(r, "admitted", "stored")
    BY <1>2 DEF Create
  <2>2. /\ disk' = mem'
        /\ \A p \in Runs \ {r} : mem'[p] = mem[p] \/ mem'[p] = "absent"
    BY <2>1, PutRecordEffect DEF PutRecord, Status, Active
  <2> QED BY <2>1, <2>2 DEF Active
<1>3. ASSUME NEW r \in Runs, NEW status \in Status, UpdateRecord(r, status)
      PROVE  disk' = mem' /\ \A p \in Runs \ {r} : mem'[p] = mem[p] \/ mem'[p] = "absent"
  <2>1. disk' = mem'
    BY <1>3 DEF UpdateRecord, PutRecord
  <2> QED BY <1>3, <2>1, UpdateRecordEffect
<1>4. ASSUME NEW r \in Runs, Start(r) PROVE FileInv'
  BY <1>3, <1>4 DEF Start, Status, Active
<1>5. ASSUME NEW r \in Runs, ExecutorReturns(r) \/ Settle(r) PROVE FileInv'
  BY <1>5 DEF ExecutorReturns, Settle
<1>6. ASSUME NEW r \in Runs, Persist(r) PROVE FileInv'
  <2>1. announced[r] \in Status
    BY <1>6 DEF Persist, RecordsInv, VerdictKept, Judged, Status
  <2> QED BY <1>3, <1>6, <2>1 DEF Persist, Active
<1>7. ASSUME NEW r \in Runs, CloseStream(r) \/ Untrack(r) PROVE FileInv'
  BY <1>7 DEF CloseStream, Untrack
<1>8. ASSUME NEW r \in Runs, Done(r) PROVE FileInv'
  <2>1. mem[r] \notin Active
    BY <1>8 DEF Done, RecordsInv, VerdictKept, Judged, StreamEnded, Terminal, Active
  <2> QED BY <1>8, <2>1 DEF Done
<1>9. ASSUME NEW r \in Runs, InspectForCancel(r) \/ FireCancel(r) PROVE FileInv'
  BY <1>9 DEF InspectForCancel, FireCancel
<1>10. CASE BeginWait \/ EndWait \/ UNCHANGED vars
  BY <1>10 DEF BeginWait, EndWait, vars
<1>11. CASE Crash
  BY <1>11 DEF Crash
<1> QED
  BY <1>1, <1>2, <1>4, <1>5, <1>6, <1>7, <1>8, <1>9, <1>10, <1>11 DEF Next, Carry

-----------------------------------------------------------------------------

\* A successful WaitForQueuedRuns covers every run that had begun when it was
\* called, and leaves none of them active in the file unless a write failed:
\* whatever runs begin, end and reuse the counter in the meantime.
THEOREM DrainCorrect == Spec => []DrainCoversEarlierRuns
<1>1. Init => DrainInv
  BY DEF Init, DrainInv, ChannelInv, WaiterInv, FileInv
<1>2. IInv /\ DrainInv /\ [Next]_vars => DrainInv'
  BY ChannelStep, WaiterStep, FileStep DEF IInv, DrainInv
<1>3. IInv /\ DrainInv => DrainCoversEarlierRuns
  <2> SUFFICES ASSUME IInv, DrainInv, waiter.state = "drained", NEW r \in waiter.runs
               PROVE  pc[r] = "finished" /\ (SaveFails = {FALSE} => disk[r] \notin Active)
    BY DEF DrainCoversEarlierRuns
  <2>1. r \in Runs
    BY DEF IInv, TypeOK
  <2> QED BY <2>1 DEF DrainInv, WaiterInv, FileInv
<1> QED BY <1>1, <1>2, <1>3, Invariance, PTL DEF Spec

-----------------------------------------------------------------------------
(***************************************************************************)
(* The queue implements RunLifecycle, for every set of runs and every      *)
(* limit: Create, Start and Persist are the three advances of a record, a  *)
(* crash is a restart, and no other step touches the store.  An advance    *)
(* may only trim the store down to its limit, which rests on the stamps    *)
(* of terminal records being there and being distinct.                     *)
(***************************************************************************)

\* A carrier's record has the status its last write gave it.
StageInv ==
    \A r \in Runs :
        /\ pc[r] \in {"stored", "spawned"} => mem[r] = "queued"
        /\ pc[r] \in {"executing", "returned", "settled"} => mem[r] = "running"

\* A verdict is stamped before it is written, later than all the others.
StampInv ==
    /\ \A r \in Runs :
         /\ pc[r] = "settled" \/ mem[r] \in Terminal \/ disk[r] \in Terminal => stamp[r] # 0
         /\ stamp[r] <= Cardinality({q \in Runs : stamp[q] # 0})
    /\ \A p, q \in Runs : stamp[p] # 0 /\ stamp[p] = stamp[q] => p = q

-----------------------------------------------------------------------------
(* Compaction stops at the limit.                                          *)

\* Among distinctly stamped records, at most n have fewer than n before them.
LEMMA FewPrecede ==
  ASSUME stamp \in [Runs -> Nat], NEW T \in SUBSET Runs, NEW n \in Nat,
         \A p, q \in T : stamp[p] = stamp[q] => p = q,
         NEW D \in SUBSET T,
         \A r \in D : Cardinality({q \in T : stamp[q] < stamp[r]}) < n
  PROVE  Cardinality(D) <= n
<1> DEFINE before(r) == {q \in T : stamp[q] < stamp[r]}
           f == [r \in D |-> Cardinality(before(r))]
<1>1. \A r \in T : IsFiniteSet(before(r)) /\ Cardinality(before(r)) \in Nat
  BY ConstantsAssumption, FS_Subset, FS_CardinalityType
<1>2. ASSUME NEW p \in T, NEW q \in T, stamp[p] < stamp[q]
      PROVE  Cardinality(before(p)) < Cardinality(before(q))
  <2>1. before(p) \in SUBSET before(q) /\ before(p) # before(q)
    <3>1. p \in before(q) /\ p \notin before(p)
      BY <1>2
    <3>2. ASSUME NEW x \in before(p) PROVE x \in before(q)
      BY <1>2, <3>2
    <3> QED BY <3>1, <3>2
  <2> HIDE DEF before
  <2>2. /\ Cardinality(before(p)) <= Cardinality(before(q))
        /\ Cardinality(before(p)) # Cardinality(before(q))
    BY <1>1, <2>1, FS_Subset
  <2> QED BY <1>1, <2>2
<1>3. f \in Injection(D, 0..(n - 1))
  <2>1. \A r \in D : Cardinality(before(r)) \in 0..(n - 1)
    BY <1>1
  <2> HIDE DEF before
  <2>2. f \in [D -> 0..(n - 1)]
    BY <2>1
  <2>3. ASSUME NEW p \in D, NEW q \in D, f[p] = f[q] PROVE p = q
    <3>1. ~(stamp[p] < stamp[q]) /\ ~(stamp[q] < stamp[p])
      BY <1>1, <1>2, <2>3
    <3>2. stamp[p] \in Nat /\ stamp[q] \in Nat
      OBVIOUS
    <3> QED BY <3>1, <3>2
  <2> HIDE DEF f
  <2> QED BY <2>2, <2>3 DEF Injection, IsInjective
<1>4. IsFiniteSet(0..(n - 1)) /\ Cardinality(0..(n - 1)) = n
  BY FS_Interval
<1> HIDE DEF f
<1> QED BY <1>3, <1>4, FS_Injection

\* The life cycle counts as the queue does.
LEMMA SameCount == ASSUME NEW S PROVE Lifecycle!Cardinality(S) = Cardinality(S)
  BY DEF Lifecycle!Cardinality, Cardinality

\* compactLocked drops no more records than the store is over its limit.
LEMMA CompactStopsAtLimit ==
  ASSUME NEW view \in [Runs -> Status], stamp \in [Runs -> Nat],
         \A r \in Runs : view[r] \in Terminal => stamp[r] # 0,
         \A p, q \in Runs : stamp[p] # 0 /\ stamp[p] = stamp[q] => p = q
  PROVE  Lifecycle!Trimmed(view, Compact(view))
<1> DEFINE T == {r \in Runs : view[r] \in Terminal}
           P == Present(view)
           n == Cardinality(P) - MaxPersisted
           D == {r \in T : Cardinality({q \in T : stamp[q] < stamp[r]}) < n}
<1>1. Compact(view) = [r \in Runs |-> IF r \in D THEN "absent" ELSE view[r]]
  BY DEF Compact
<1>2. /\ IsFiniteSet(P) /\ Cardinality(P) \in Nat
      /\ IsFiniteSet(T)
      /\ D \subseteq P
  BY ConstantsAssumption, FS_Subset, FS_CardinalityType DEF Present, Terminal
<1>3. Present(Compact(view)) = P \ D
  <2> HIDE DEF D
  <2> QED BY <1>1 DEF Present
<1>4. Compact(view) # view => n \in Nat /\ D # {}
  <2>1. CASE n \in Nat
    <3> HIDE DEF n
    <3>1. D = {} => Compact(view) = view
      <4> HIDE DEF D
      <4> QED BY <1>1
    <3> QED BY <2>1, <3>1
  <2>2. CASE n \notin Nat
    <3>1. n < 0
      BY <1>2, <2>2, ConstantsAssumption
    <3>2. \A r \in T : Cardinality({q \in T : stamp[q] < stamp[r]}) \in Nat
      BY <1>2, FS_Subset, FS_CardinalityType
    <3>3. n \in Int
      BY <1>2, ConstantsAssumption
    <3> HIDE DEF n
    <3>4. D = {}
      BY <3>1, <3>2, <3>3
    <3> HIDE DEF D
    <3> QED BY <1>1, <3>4
  <2> QED BY <2>1, <2>2
<1>5. n \in Nat => Cardinality(D) <= n
  <2>1. /\ T \in SUBSET Runs /\ D \in SUBSET T
        /\ \A p, q \in T : stamp[p] = stamp[q] => p = q
        /\ \A r \in D : Cardinality({q \in T : stamp[q] < stamp[r]}) < n
    OBVIOUS
  <2> HIDE DEF n, D, T
  <2> QED BY <2>1, FewPrecede
<1>6. Compact(view) # view => Cardinality(Present(Compact(view))) >= MaxPersisted
  <2> SUFFICES ASSUME Compact(view) # view PROVE Cardinality(P \ D) >= MaxPersisted
    <3> HIDE DEF D, P
    <3> QED BY <1>3
  <2> HIDE DEF D, P
  <2>1. Cardinality(P \ D) = Cardinality(P) - Cardinality(D)
    <3>1. P \cap D = D
      BY <1>2
    <3> QED BY <1>2, <3>1, FS_Difference
  <2>2. Cardinality(D) \in Nat
    BY <1>2, FS_Subset, FS_CardinalityType
  <2> QED BY <1>2, <1>4, <1>5, <2>1, <2>2, ConstantsAssumption
<1> QED
  <2> HIDE DEF D
  <2> QED BY <1>6, CompactDropsTerminal, SameCount
          DEF Lifecycle!Trimmed, Lifecycle!Present, Present, Lifecycle!Status, Status,
              Lifecycle!Active, Active, Lifecycle!Terminal, Terminal

-----------------------------------------------------------------------------
(* The invariant is kept.                                                  *)

\* A carrier's record changes only by the carrier's own writes.
LEMMA StageStep ==
  ASSUME IInv, StageInv, [Next]_vars
  PROVE  StageInv'
<1> DEFINE Inv(r) ==
      /\ pc[r] \in {"stored", "spawned"} => mem[r] = "queued"
      /\ pc[r] \in {"executing", "returned", "settled"} => mem[r] = "running"
<1>a. TypeOK /\ \A r \in Runs : Inv(r) /\ (pc[r] \in Recorded => mem[r] \in Active)
  BY DEF IInv, StageInv, RecordsInv, RecordsMatchOwners
<1>b. SUFFICES ASSUME NEW q \in Runs PROVE Inv(q)'
  BY DEF StageInv
<1> USE <1>a DEF storeVars, Goto, Active, Terminal, Recorded, TypeOK
<1>1. ASSUME NEW r \in Runs, Begin(r) \/ Track(r) \/ Retry(r) PROVE Inv(q)'
  BY <1>1 DEF Begin, Track, Retry
<1>2. ASSUME NEW r \in Runs, Create(r) PROVE Inv(q)'
  <2>1. PICK failing \in SaveFails :
           /\ PutRecord(r, "queued", failing)
           /\ Goto(r, "admitted", IF failing THEN "refused" ELSE "stored")
    BY <1>2 DEF Create
  <2>2. /\ mem'[r] = "queued"
        /\ \A p \in Runs \ {r} : mem'[p] = mem[p] \/ mem[p] \in Terminal
    BY <2>1, ConstantsAssumption, PutRecordEffect DEF Status
  <2> QED BY <2>1, <2>2
<1>3. ASSUME NEW r \in Runs, Start(r) PROVE Inv(q)'
  <2>1. mem[r] = "queued"
    BY <1>3 DEF Start
  <2>2. /\ mem'[r] = "running"
        /\ \A p \in Runs \ {r} : mem'[p] = mem[p] \/ mem[p] \in Terminal
    BY <1>3, <2>1, UpdateRecordEffect DEF Start, Status
  <2> QED BY <1>3, <2>2 DEF Start
<1>4. ASSUME NEW r \in Runs, ExecutorReturns(r) \/ Settle(r) PROVE Inv(q)'
  BY <1>4 DEF ExecutorReturns, Settle
<1>5. ASSUME NEW r \in Runs, Persist(r) PROVE Inv(q)'
  <2>1. announced[r] \in Status
    BY <1>5 DEF Persist, IInv, RecordsInv, VerdictKept, Judged, Status
  <2>2. \A p \in Runs \ {r} : mem'[p] = mem[p] \/ mem[p] \in Terminal
    BY <1>5, <2>1, UpdateRecordEffect DEF Persist
  <2> QED BY <1>5, <2>2 DEF Persist
<1>6. ASSUME NEW r \in Runs, CloseStream(r) \/ Untrack(r) \/ Done(r) PROVE Inv(q)'
  BY <1>6 DEF CloseStream, Untrack, Done
<1>7. ASSUME NEW r \in Runs, InspectForCancel(r) \/ FireCancel(r) PROVE Inv(q)'
  BY <1>7 DEF InspectForCancel, FireCancel
<1>8. CASE BeginWait \/ EndWait \/ UNCHANGED vars
  BY <1>8 DEF BeginWait, EndWait, vars
<1>9. CASE Crash
  BY <1>9 DEF Crash, Holding
<1> QED
  BY <1>1, <1>2, <1>3, <1>4, <1>5, <1>6, <1>7, <1>8, <1>9 DEF Next, Carry

\* A verdict takes the next stamp, and records become terminal only after it.
LEMMA StampStep ==
  ASSUME IInv, StampInv, [Next]_vars
  PROVE  StampInv'
<1> DEFINE stamped == {q \in Runs : stamp[q] # 0}
           Late(r) == pc[r] = "settled" \/ mem[r] \in Terminal \/ disk[r] \in Terminal
<1>a. TypeOK /\ \A r \in Runs : Late(r) => stamp[r] # 0
  BY DEF IInv, StampInv
<1> USE <1>a DEF storeVars, Goto, TypeOK
<1>1. ASSUME UNCHANGED stamp,
             \A q \in Runs : Late(q)' => Late(q)
      PROVE  StampInv'
  BY <1>1 DEF StampInv
<1>2. ASSUME NEW r \in Runs, Begin(r) \/ Track(r) \/ Retry(r) \/ ExecutorReturns(r) PROVE StampInv'
  BY <1>2, <1>1 DEF Begin, Track, Retry, ExecutorReturns
<1>3. ASSUME NEW r \in Runs, CloseStream(r) \/ Untrack(r) \/ Done(r) PROVE StampInv'
  BY <1>3, <1>1 DEF CloseStream, Untrack, Done
<1>4. ASSUME NEW r \in Runs, InspectForCancel(r) \/ FireCancel(r) PROVE StampInv'
  BY <1>4, <1>1 DEF InspectForCancel, FireCancel
<1>5. CASE BeginWait \/ EndWait \/ UNCHANGED vars
  BY <1>5, <1>1 DEF BeginWait, EndWait, vars
<1>6. CASE Crash
  <2>1. UNCHANGED stamp /\ \A q \in Runs : Late(q)' => Late(q)
    BY <1>6 DEF Crash
  <2> QED BY <1>1, <2>1
<1>7. ASSUME NEW r \in Runs, Create(r) PROVE StampInv'
  <2>1. PICK failing \in SaveFails :
           /\ PutRecord(r, "queued", failing)
           /\ Goto(r, "admitted", IF failing THEN "refused" ELSE "stored")
    BY <1>7 DEF Create
  <2>2. /\ \A q \in Runs : mem'[q] \in Terminal => mem[q] \in Terminal
        /\ disk' = disk \/ disk' = mem'
    BY <2>1, ConstantsAssumption, PutRecordEffect DEF Status, Active, Terminal
  <2>3. \A q \in Runs : Late(q)' => Late(q)
    BY <2>1, <2>2
  <2> QED BY <1>1, <1>7, <2>3 DEF Create
<1>8. ASSUME NEW r \in Runs, Start(r) \/ Persist(r) PROVE StampInv'
  <2>1. PICK status \in Status : /\ UpdateRecord(r, status)
                                 /\ status \in Terminal => pc[r] = "settled"
    BY <1>8 DEF Start, Persist, IInv, RecordsInv, VerdictKept, Judged, Status, Active, Terminal
  <2>2. /\ \A q \in Runs : mem'[q] \in Terminal => Late(q)
        /\ disk' = disk \/ disk' = mem'
    BY <2>1, UpdateRecordEffect DEF Terminal
  <2>3. \A q \in Runs : Late(q)' => Late(q)
    BY <1>8, <2>2 DEF Start, Persist
  <2> QED BY <1>1, <1>8, <2>3 DEF Start, Persist
<1>9. ASSUME NEW r \in Runs, Settle(r) PROVE StampInv'
  <2>1. /\ IsFiniteSet(stamped) /\ Cardinality(stamped) \in Nat
        /\ stamp[r] = 0
    BY <1>9, ConstantsAssumption, FS_Subset, FS_CardinalityType
       DEF Settle, IInv, RecordsInv, NoVerdictYet, Unjudged
  <2>2. stamp' = [stamp EXCEPT ![r] = 1 + Cardinality(stamped)]
    BY <1>9 DEF Settle
  <2>3. stamped' = stamped \cup {r}
    <3> DEFINE n == 1 + Cardinality(stamped)
    <3>1. n # 0
      BY <2>1
    <3> HIDE DEF n
    <3> QED BY <2>1, <2>2, <3>1 DEF n
  <2>4. Cardinality(stamped') = Cardinality(stamped) + 1
    <3>1. r \notin stamped
      BY <2>1
    <3> HIDE DEF stamped
    <3> QED BY <2>1, <2>3, <3>1, FS_AddElement
  <2>5. \A q \in Runs : stamp[q] \in Nat /\ stamp[q] <= Cardinality(stamped)
    BY DEF StampInv
  <2>6. /\ stamp'[r] = Cardinality(stamped')
        /\ \A q \in Runs \ {r} : stamp'[q] = stamp[q] /\ stamp'[q] < stamp'[r]
    <3> HIDE DEF stamped
    <3> QED BY <2>1, <2>2, <2>4, <2>5
  <2>7. \A p, q \in Runs : stamp'[p] # 0 /\ stamp'[p] = stamp'[q] => p = q
    <3> HIDE DEF stamped
    <3> QED BY <2>1, <2>5, <2>6 DEF StampInv
  <2>8. \A q \in Runs : Late(q)' => stamp'[q] # 0
    <3> HIDE DEF stamped
    <3> QED BY <1>9, <2>1, <2>4, <2>6 DEF Settle
  <2>9. \A q \in Runs : stamp'[q] <= Cardinality(stamped')
    <3> HIDE DEF stamped
    <3> QED BY <2>1, <2>4, <2>5, <2>6
  <2> QED BY <2>7, <2>8, <2>9 DEF StampInv
<1> QED
  BY <1>2, <1>3, <1>4, <1>5, <1>6, <1>7, <1>8, <1>9 DEF Next, Carry

-----------------------------------------------------------------------------
(* Every step of the queue is a step of the life cycle or a stutter.       *)

\* A write that moves a record to its next status is an advance.
LEMMA PutAdvances ==
  ASSUME IInv, StampInv, NEW r \in Runs, NEW status \in Lifecycle!After(mem[r]),
         status \in Terminal => stamp[r] # 0,
         NEW failing \in BOOLEAN, PutRecord(r, status, failing)
  PROVE  Lifecycle!Advance(r)
<1> DEFINE view == [mem EXCEPT ![r] = status]
<1>1. status \in Status
  BY DEF Lifecycle!After, Lifecycle!Terminal, Status, Active, Terminal
<1>2. /\ view \in [Runs -> Status]
      /\ \A q \in Runs : view[q] \in Terminal => stamp[q] # 0
  BY <1>1 DEF IInv, TypeOK, StampInv
<1>3. stamp \in [Runs -> Nat] /\ \A p, q \in Runs : stamp[p] # 0 /\ stamp[p] = stamp[q] => p = q
  BY DEF IInv, TypeOK, StampInv
<1>4. mem' = Compact(view) /\ disk' \in {disk, mem'}
  BY DEF PutRecord
<1>5. Lifecycle!Trimmed(view, mem')
  <2> HIDE DEF view
  <2> QED BY <1>2, <1>3, <1>4, CompactStopsAtLimit
<1> QED BY <1>4, <1>5 DEF Lifecycle!Advance

\* A crash restarts the life cycle from the file, Create, Start and Persist
\* advance a record, and the rest of the pipeline leaves the store alone.
LEMMA StepRefines ==
  ASSUME IInv, StageInv, StampInv, [Next]_vars
  PROVE  [Lifecycle!Next]_<<mem, disk>>
<1> USE DEF storeVars, Goto, Lifecycle!Next
<1>1. ASSUME NEW r \in Runs, Create(r) PROVE Lifecycle!Next
  <2>1. PICK failing \in SaveFails : PutRecord(r, "queued", failing)
    BY <1>1 DEF Create
  <2>2. "queued" \in Lifecycle!After(mem[r])
    BY <1>1 DEF Create, IInv, RecordsInv, NoRecordYet, Unrecorded, Lifecycle!After
  <2> QED BY <2>1, <2>2, ConstantsAssumption, PutAdvances DEF Terminal
<1>2. ASSUME NEW r \in Runs, Start(r) PROVE Lifecycle!Next
  <2>1. mem[r] = "queued"
    BY <1>2 DEF Start, StageInv
  <2>2. PICK failing \in SaveFails : PutRecord(r, "running", failing)
    BY <1>2, <2>1 DEF Start, UpdateRecord
  <2>3. "running" \in Lifecycle!After(mem[r])
    BY <2>1 DEF Lifecycle!After
  <2> QED BY <2>2, <2>3, ConstantsAssumption, PutAdvances DEF Terminal
<1>3. ASSUME NEW r \in Runs, Persist(r) PROVE Lifecycle!Next
  <2>1. mem[r] = "running" /\ stamp[r] # 0
    BY <1>3 DEF Persist, StageInv, StampInv
  <2>2. PICK failing \in SaveFails : PutRecord(r, announced[r], failing)
    BY <1>3, <2>1 DEF Persist, UpdateRecord
  <2>3. announced[r] \in Lifecycle!After(mem[r])
    BY <1>3, <2>1 DEF Persist, IInv, RecordsInv, VerdictKept, Judged,
                      Lifecycle!After, Lifecycle!Terminal, Terminal
  <2> QED BY <2>1, <2>2, <2>3, ConstantsAssumption, PutAdvances
<1>4. CASE Crash
  BY <1>4 DEF Crash, Lifecycle!Restart
<1>5. ASSUME NEW r \in Runs, \/ Begin(r) \/ Track(r) \/ Retry(r) \/ ExecutorReturns(r) \/ Settle(r)
                             \/ InspectForCancel(r) \/ FireCancel(r)
      PROVE  UNCHANGED storeVars
  BY <1>5 DEF Begin, Track, Retry, ExecutorReturns, Settle, InspectForCancel, FireCancel
<1>6. ASSUME NEW r \in Runs, CloseStream(r) \/ Untrack(r) \/ Done(r)
      PROVE  UNCHANGED storeVars
  BY <1>6 DEF CloseStream, Untrack, Done
<1>7. CASE BeginWait \/ EndWait \/ UNCHANGED vars
  BY <1>7 DEF BeginWait, EndWait, vars
<1> QED
  BY <1>1, <1>2, <1>3, <1>4, <1>5, <1>6, <1>7 DEF Next, Carry

\* The store keeps what it promises its readers: a record is created once and
\* moves forward, only terminal records go and only over the limit, and the
\* file is a past view of the store, whatever runs, cancels, failed writes and
\* crashes come together.
THEOREM StoreRefinesLifecycle == Spec => RefinesLifecycle
<1>1. Init => Lifecycle!Init /\ StageInv /\ StampInv
  <2> SUFFICES ASSUME Init PROVE Lifecycle!Init /\ StageInv /\ StampInv
    OBVIOUS
  <2>1. Cardinality({q \in Runs : stamp[q] # 0}) \in Nat
    BY ConstantsAssumption, FS_Subset, FS_CardinalityType
  <2> QED BY <2>1 DEF Init, Lifecycle!Init, StageInv, StampInv, Terminal
<1>2. IInv /\ StageInv /\ StampInv /\ [Next]_vars => (StageInv /\ StampInv)'
  BY StageStep, StampStep
<1>3. IInv /\ StageInv /\ StampInv /\ [Next]_vars => [Lifecycle!Next]_<<mem, disk>>
  BY StepRefines
<1> QED
  BY <1>1, <1>2, <1>3, Invariance, PTL DEF Spec, RefinesLifecycle, Lifecycle!Spec
==============================================================================
