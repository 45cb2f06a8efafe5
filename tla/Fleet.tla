------------------------------- MODULE Fleet -------------------------------
(***************************************************************************)
(* What the services around a run have in common: the agents, and the      *)
(* failures a write, a request or the process may meet.  A failure is      *)
(* never caused by the program, so it is counted against a bound.          *)
(***************************************************************************)
EXTENDS Naturals, Sequences, FiniteSets

CONSTANTS
  None,          (* nothing, no agent, no run                               *)
  Agents,        (* agent ids                                               *)
  Default,       (* the agent "default"                                     *)
  MaxFaults      (* bound: failures and crashes                             *)

ASSUME FleetAssumption ==
    Default \in Agents /\ None \notin Agents /\ MaxFaults \in Nat

VARIABLE faults

Fault   == faults < MaxFaults /\ faults' = faults + 1
NoFault == UNCHANGED faults

LastOf(s) == s[Len(s)]
SetOf(s)  == {s[i] : i \in DOMAIN s}
=============================================================================
