----------------------------- MODULE MCReportPath -----------------------------
(* An instance of ReportPath for TLC: one probe of each kind; texts of two
   lengths; the three files.  Without the locks of Windows a replacement succeeds
   wherever it does with them, so reports are looked at without. *)
EXTENDS ReportPath

EachKind == <<"host", "worker", "opfs">>

TwoLengths == [w \in Calls |-> IF w[2] = 1 THEN <<w>> ELSE <<w, w>>]

Each == [protocol : {"setup", "diagnostic"}, overlap : {FALSE}, locked : BOOLEAN]
   \cup [protocol : {"report"}, overlap : BOOLEAN, locked : {FALSE}]

(* For the expectations that the code does not meet, also on Windows. *)
OverlapOf == [protocol : {"report", "setup"}, overlap : {TRUE}, locked : {TRUE}]
================================================================================
