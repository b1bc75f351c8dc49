---------------------------- MODULE MCEvidencePages ----------------------------
(* An instance of EvidencePages for TLC: each generation brings another day. *)
EXTENDS EvidencePages

DateOfEach == [g \in Gen |-> g]
================================================================================
