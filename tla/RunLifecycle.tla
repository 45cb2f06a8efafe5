---------------------------- MODULE RunLifecycle ----------------------------
(***************************************************************************)
(* What the run store promises to its readers, whoever writes to it and    *)
(* however often the server dies: the record of a run is created once,     *)
(* moves forward through queued, running and one terminal status, leaves   *)
(* the store only when it is terminal and the store is over its limit, and *)
(* the file is always some past view of the in-memory records.             *)
(***************************************************************************)
EXTENDS Integers, FiniteSets

CONSTANTS Runs,         (* the run identifiers                             *)
          MaxPersisted  (* records kept before terminal ones are dropped   *)

VARIABLES visible,      (* visible[r]: the status API readers see          *)
          durable       (* durable[r]: the status in the runs file         *)

Active   == {"queued", "running"}
Terminal == {"completed", "failed", "canceled"}
Status   == {"absent"} \cup Active \cup Terminal

\* The statuses a record may take next.
After(s) == CASE s = "absent"  -> {"queued"}
              [] s = "queued"  -> {"running"}
              [] s = "running" -> Terminal
              [] OTHER         -> {}

Present(view) == {r \in Runs : view[r] # "absent"}

\* view2 is view without some terminal records, dropped only to get back
\* to the limit.
Trimmed(view, view2) ==
    /\ view2 \in [Runs -> Status]
    /\ \A r \in Runs : view2[r] = view[r] \/ (view2[r] = "absent" /\ view[r] \in Terminal)
    /\ view2 # view => Cardinality(Present(view2)) >= MaxPersisted

Init == /\ visible = [r \in Runs |-> "absent"]
        /\ durable = [r \in Runs |-> "absent"]

\* One record moves on; the file follows or the write fails.
Advance(r) ==
    /\ \E s \in After(visible[r]) : Trimmed([visible EXCEPT ![r] = s], visible')
    /\ durable' \in {durable, visible'}

\* A new process reads the file.
Restart == visible' = durable /\ UNCHANGED durable

Next == Restart \/ \E r \in Runs : Advance(r)

Spec == Init /\ [][Next]_<<visible, durable>>
=============================================================================
