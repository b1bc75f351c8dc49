----------------------------- MODULE SourceIngest -----------------------------
(***************************************************************************)
(* What reading one event file promises to the rest of a refresh: its rows *)
(* appear in Bronze all at once and belong to one version of the file; the *)
(* plan the reader hands on says how many they are.                        *)
(***************************************************************************)
CONSTANTS
  Versions,       \* bytes the file may have
  RowsOf(_),      \* the rows a version contributes
  PlanOf(_),      \* the plan that describes a version
  NoPlan

VARIABLES bronze, plan

vars == <<bronze, plan>>

Init == bronze = {} /\ plan = NoPlan

(* The rows of one version become visible. *)
Ingest ==
  /\ bronze = {}
  /\ \E v \in Versions : bronze' = RowsOf(v)
  /\ UNCHANGED plan

(* The reader describes what it has inserted. *)
Describe ==
  /\ plan = NoPlan
  /\ \E v \in Versions : bronze = RowsOf(v) /\ plan' = PlanOf(v)
  /\ UNCHANGED bronze

Next == Ingest \/ Describe

Spec == Init /\ [][Next]_vars
================================================================================
