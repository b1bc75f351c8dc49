----------------------------- MODULE EventIngest -----------------------------
(***************************************************************************)
(* preflight_actual_source (actual_contracts.py): one Agent Status or LILO *)
(* file is streamed row by row into Bronze, in batches within one          *)
(* transaction, while another program may still be writing the file.       *)
(*                                                                         *)
(* RefreshCoordinator takes this as the one step Parse.  Here it is taken  *)
(* apart, and shown to be that step.                                       *)
(***************************************************************************)
EXTENDS Integers, Sequences, FiniteSets

CONSTANTS
  Texts,       \* what a file may be: its kind, the dates in its name, its rows
  Eligible,    \* pairs of an agent and a date on which it is on the roster
  Labels,      \* status labels with a reviewed category
  Midnight,    \* ticks in a calendar day
  BatchSize,   \* _BATCH_SIZE, 5,000 in the code
  MaxWrites    \* bound: times the file is replaced

NoTime == -1
NoDate == -1
NoText == [kind |-> "none", named |-> {}, rows |-> <<>>]
NoPlan == [text |-> NoText, accepted |-> -1, outside |-> -1, rejected |-> -1]

ASSUME EventIngestAssumption ==
  /\ \A text \in Texts : /\ text.kind \in {"lilo", "agent_status"} /\ text.named \subseteq Nat
                          /\ text.rows \in Seq({text.rows[i] : i \in DOMAIN text.rows})
  /\ Midnight \in Nat \ {0} /\ BatchSize \in Nat \ {0} /\ MaxWrites \in Nat

VARIABLES
  file,     \* the file: its metadata, which every replacement changes, and its text
  phase,    \* "statted", "hashed", "reading", "committed", "done", "failed"
  before,   \* the fingerprint: metadata, and then the bytes that were hashed
  place,    \* rows taken from the reader
  batch,    \* rows not inserted yet
  pending,  \* rows inserted in the open transaction
  counts,   \* accepted, outside, rejected, unmapped
  bronze,   \* the rows of the source that others see
  plan      \* the ActualSourcePlan

vars == <<file, phase, before, place, batch, pending, counts, bronze, plan>>

--------------------------------------------------------------------------------
(* One row *)

Date(t) == t \div Midnight

(* A date in the name counts if it is the only one. *)
FallbackDate(text) ==
  IF Cardinality(text.named) = 1 THEN CHOOSE d \in text.named : TRUE ELSE NoDate

(* The business date of a LILO row: its own column, else its login, else its *)
(* logout, else the name of the file.                                        *)
ExtractDate(text, r) ==
  IF r.date # NoDate THEN r.date
  ELSE IF r.first # NoTime THEN Date(r.first)
  ELSE IF r.last # NoTime THEN Date(r.last)
  ELSE FallbackDate(text)

(* A logout before its login is taken to be on the next day. *)
LastLogout(r) ==
  IF r.first # NoTime /\ r.last # NoTime /\ r.last < r.first THEN r.last + Midnight ELSE r.last

DateOf(text, r) == IF text.kind = "lilo" THEN ExtractDate(text, r) ELSE Date(r.first)

(* Whether the row can be used, and whether it is anybody's. *)
Reason(text, r) ==
  IF text.kind = "lilo" /\ ExtractDate(text, r) = NoDate THEN "rejected"
  ELSE IF text.kind = "agent_status" /\ (r.first = NoTime \/ r.last = NoTime \/ r.last <= r.first)
  THEN "rejected"
  ELSE IF <<r.agent, DateOf(text, r)>> \notin Eligible THEN "outside"
  ELSE "accepted"

Row(text, i) ==
  LET r == text.rows[i]
  IN [row |-> i, agent |-> r.agent, date |-> DateOf(text, r), first |-> r.first,
      last |-> IF text.kind = "lilo" THEN LastLogout(r) ELSE r.last]

Unmapped(text, r) == text.kind = "agent_status" /\ r.label \notin Labels

NoCounts == [accepted |-> 0, outside |-> 0, rejected |-> 0, unmapped |-> 0]

--------------------------------------------------------------------------------
(* The reader *)

Init ==
  /\ file \in [stat : {0}, text : Texts]
  /\ phase = "statted"
  /\ before = [stat |-> file.stat, text |-> NoText]
  /\ place = 0 /\ batch = {} /\ pending = {} /\ counts = NoCounts
  /\ bronze = {} /\ plan = NoPlan

(* _fingerprint: the metadata were taken first, the bytes are hashed after. *)
Hash ==
  /\ phase = "statted"
  /\ before' = [before EXCEPT !.text = file.text]
  /\ phase' = "hashed"
  /\ UNCHANGED <<file, place, batch, pending, counts, bronze, plan>>

MetadataMatches == file.stat = before.stat

(* The file has not moved since, and a transaction is opened. *)
Begin ==
  /\ phase = "hashed"
  /\ MetadataMatches
  /\ phase' = "reading"
  /\ UNCHANGED <<file, before, place, batch, pending, counts, bronze, plan>>

(* The next row, of the file as it is now: one overwritten in place while it is *)
(* read gives rows of both contents.  A full batch is inserted.                 *)
ReadRow ==
  /\ phase = "reading" /\ place < Len(file.text.rows)
  /\ LET r == file.text.rows[place + 1]
         reason == Reason(file.text, r)
         filled == IF reason = "accepted" THEN batch \cup {Row(file.text, place + 1)} ELSE batch
     IN /\ counts' = [counts EXCEPT ![reason] = @ + 1,
                        !.unmapped = @ + IF reason = "accepted" /\ Unmapped(file.text, r) THEN 1 ELSE 0]
        /\ IF Cardinality(filled) >= BatchSize
           THEN pending' = pending \cup filled /\ batch' = {}
           ELSE batch' = filled /\ UNCHANGED pending
  /\ place' = place + 1
  /\ UNCHANGED <<file, phase, before, bronze, plan>>

(* Fault: the file is not looked at again. *)
CommitUnverified ==
  /\ phase = "reading" /\ place >= Len(file.text.rows)
  /\ bronze' = pending \cup batch
  /\ pending' = {} /\ batch' = {}
  /\ phase' = "committed"
  /\ UNCHANGED <<file, before, place, counts, plan>>

(* The last batch is inserted and, if the file has not moved, all is committed. *)
Commit ==
  /\ phase = "reading" /\ place >= Len(file.text.rows)
  /\ MetadataMatches
  /\ bronze' = pending \cup batch
  /\ pending' = {} /\ batch' = {}
  /\ phase' = "committed"
  /\ UNCHANGED <<file, before, place, counts, plan>>

Describe ==
  /\ phase = "committed"
  /\ plan' = [text |-> before.text, accepted |-> counts.accepted,
              outside |-> counts.outside, rejected |-> counts.rejected]
  /\ phase' = "done"
  /\ UNCHANGED <<file, before, place, batch, pending, counts, bronze>>

(* The file moved, a row could not be parsed, the database was locked, or the *)
(* process stopped: the transaction rolls back.                               *)
Raise ==
  /\ phase \in {"statted", "hashed", "reading"}
  /\ pending' = {} /\ batch' = {}
  /\ phase' = "failed"
  /\ UNCHANGED <<file, before, place, counts, bronze, plan>>

(* The exporting program replaces the file. *)
WriteFile ==
  /\ file.stat < MaxWrites
  /\ \E text \in Texts :
       /\ text.kind = file.text.kind /\ text.named = file.text.named
       /\ file' = [stat |-> file.stat + 1, text |-> text]
  /\ UNCHANGED <<phase, before, place, batch, pending, counts, bronze, plan>>

Read == Hash \/ Begin \/ ReadRow \/ Commit \/ Describe \/ Raise

Next == Read \/ WriteFile

Spec == Init /\ [][Next]_vars

--------------------------------------------------------------------------------
(* Properties *)

(* Types of the state; a full batch never waits, and rows are counted under one
   heading only (actual_contracts.py:481-490). *)
TypeOK ==
  /\ phase \in {"statted", "hashed", "reading", "committed", "done", "failed"}
  /\ place \in Nat
  /\ Cardinality(batch) < BatchSize
  /\ batch \cap pending = {}
  /\ counts.unmapped <= counts.accepted

AcceptedRows(text) ==
  {Row(text, i) : i \in {i \in DOMAIN text.rows : Reason(text, text.rows[i]) = "accepted"}}

Count(text, reason) == Cardinality({i \in DOMAIN text.rows : Reason(text, text.rows[i]) = reason})

Promised == INSTANCE SourceIngest WITH
  Versions <- Texts, RowsOf <- AcceptedRows,
  PlanOf <- LAMBDA text : [text     |-> text,
                           accepted |-> Count(text, "accepted"),
                           outside  |-> Count(text, "outside"),
                           rejected |-> Count(text, "rejected")]

(* Streaming in batches from a file in motion is, for everyone else, one step in *)
(* which the rows of one version of the file appear, and one in which they are   *)
(* described as those of the bytes that were hashed, each counted once and under *)
(* one heading: also if the file was replaced between the metadata and the hash, *)
(* between two rows, or after the last.                                          *)
ImplementsIngest == Promised!Spec
================================================================================
