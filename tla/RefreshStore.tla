------------------------------ MODULE RefreshStore ------------------------------
(***************************************************************************)
(* The generation store of the compatible host (refresh_store.py): a       *)
(* SQLite database in which every refresh is a generation, evidence is     *)
(* staged under the generation while it runs, and one pointer names the    *)
(* generation that is current.                                             *)
(*                                                                         *)
(* Every method of RefreshStore is one BEGIN IMMEDIATE transaction, so it  *)
(* is one action here.  A method that raises rolls back and changes        *)
(* nothing: it is the action's guard being false.  Any process may call    *)
(* any method on any generation at any time (the refresh lock is local to  *)
(* one process), so Next orders nothing.                                   *)
(***************************************************************************)
EXTENDS Naturals

CONSTANTS
  Key,        \* the (source_type, source_key) pairs of the manifest
  Content,    \* what Bronze reuse compares: hash, adapter, policy, row count
  Stat,       \* what it does not compare: file_size and mtime_ns
  Severity,   \* the severities a quality issue may have
  NoContent,  \* the empty content of a row without a version
  NoStat,     \* the zero size and time of a row without a version
  MaxGen      \* bound: generations ever started

ASSUME StoreAssumption ==
  /\ MaxGen \in Nat
  /\ Key # {}
  /\ Severity \subseteq {"info", "warning", "error"}
  /\ NoContent \notin Content
  /\ NoStat \notin Stat

Gen == 1..MaxGen
Null == 0             \* SQL NULL where a generation id is expected

Status == {"unused", "running", "succeeded", "failed"}

Version == [content : Content, stat : Stat]
NoVersion == [content |-> NoContent, stat |-> NoStat]

NoRow ==
  [state |-> "unstaged", content |-> NoContent, stat |-> NoStat, bronze |-> Null]
RemovedRow ==
  [state |-> "removed", content |-> NoContent, stat |-> NoStat, bronze |-> Null]
PresentRow(v, owner) ==
  [state |-> "present", content |-> v.content, stat |-> v.stat, bronze |-> owner]

Row ==
  [state : {"present"}, content : Content, stat : Stat, bronze : Gen]
    \cup {NoRow, RemovedRow}

VARIABLES
  status,    \* wfm_refresh_generation.status; "unused" is no row yet
  base,      \* wfm_refresh_generation.base_generation_id
  manifest,  \* wfm_source_manifest, per generation and key
  issues,    \* the severities recorded in wfm_quality_issue, per generation
  active     \* wfm_active_generation.generation_id

vars == <<status, base, manifest, issues, active>>

Running(g) == status[g] = "running"
Succeeded(g) == status[g] = "succeeded"
Finished(g) == status[g] \in {"succeeded", "failed"}

--------------------------------------------------------------------------------
(* Reading the store. *)

(* The generation g and those it was built on, as the recursive query of
   active_source collects them: the least set that holds g and the base of
   every generation in it. *)
Closed(up, S) == \A x \in S : up[x] # Null => up[x] \in S
Ancestry(up, g) ==
  IF g = Null
    THEN {}
    ELSE {a \in Gen : \A S \in SUBSET Gen : g \in S /\ Closed(up, S) => a \in S}

Lineage(g) == Ancestry(base, g)

(* The row of least depth in a lineage: every other generation that holds a row
   for the key lies in the lineage of the one chosen. *)
NearestRow(line, k) ==
  LET holders == {a \in line : manifest[a][k] # NoRow}
  IN  IF holders = {}
        THEN NoRow
        ELSE manifest[CHOOSE a \in holders : holders \subseteq Lineage(a)][k]

Resolve(g, k) ==
  LET row == NearestRow(Lineage(g), k)
  IN  IF row.state = "present"
        THEN [content |-> row.content, stat |-> row.stat]
        ELSE NoVersion

ActiveSource(k) == Resolve(active, k)

--------------------------------------------------------------------------------
Init ==
  /\ status = [g \in Gen |-> "unused"]
  /\ base = [g \in Gen |-> Null]
  /\ manifest = [g \in Gen |-> [k \in Key |-> NoRow]]
  /\ issues = [g \in Gen |-> {}]
  /\ active = Null

(* The next row id is one more than the largest: rows are never deleted. *)
IsNextId(g) == \A h \in Gen : h < g <=> status[h] # "unused"

(* Fault: a refresh is based on the latest generation, not the current one. *)
StartOnLatestGeneration(g) ==
  /\ IsNextId(g)
  /\ status' = [status EXCEPT ![g] = "running"]
  /\ base' = [base EXCEPT ![g] = g - 1]
  /\ UNCHANGED <<manifest, issues, active>>

(* A refresh begins on top of the generation that is current now. *)
StartGeneration(g) ==
  /\ IsNextId(g)
  /\ status' = [status EXCEPT ![g] = "running"]
  /\ base' = [base EXCEPT ![g] = active]
  /\ UNCHANGED <<manifest, issues, active>>

(* Fault: the owner is not asked whether the Bronze rows are its own. *)
HasMatchingEvidence(owner, k, v) ==
  /\ Succeeded(owner)
  /\ manifest[owner][k].state = "present"
  /\ manifest[owner][k].content = v.content

(* A staged version may borrow the Bronze rows of an earlier generation only
   when that generation succeeded with the same content and owns its rows. *)
OwnsMatchingBronze(owner, k, v) ==
  /\ Succeeded(owner)
  /\ manifest[owner][k].state = "present"
  /\ manifest[owner][k].content = v.content
  /\ manifest[owner][k].bronze = owner

(* Fault: the insert leaves bronze_generation_id to its default, NULL. *)
StageSourceWithoutOwner(g, k, v, owner) ==
  /\ Running(g)
  /\ owner # g => OwnsMatchingBronze(owner, k, v)
  /\ manifest[g][k] = NoRow
  /\ manifest' = [manifest EXCEPT ![g][k] = PresentRow(v, Null)]
  /\ UNCHANGED <<status, base, issues, active>>

(* Staging the same evidence twice is accepted and changes nothing; other
   evidence for the key is refused. *)
StageSource(g, k, v, owner) ==
  /\ Running(g)
  /\ owner # g => OwnsMatchingBronze(owner, k, v)
  /\ manifest[g][k] \in {NoRow, PresentRow(v, owner)}
  /\ manifest' = [manifest EXCEPT ![g][k] = PresentRow(v, owner)]
  /\ UNCHANGED <<status, base, issues, active>>

(* Fault: a removal does not ask whether the generation is still running. *)
StageRemovedAnytime(g, k) ==
  /\ status[g] # "unused"
  /\ manifest[g][k] \in {NoRow, RemovedRow}
  /\ manifest' = [manifest EXCEPT ![g][k] = RemovedRow]
  /\ UNCHANGED <<status, base, issues, active>>

StageRemovedSource(g, k) ==
  /\ Running(g)
  /\ manifest[g][k] \in {NoRow, RemovedRow}
  /\ manifest' = [manifest EXCEPT ![g][k] = RemovedRow]
  /\ UNCHANGED <<status, base, issues, active>>

(* Fault: an issue is recorded whatever became of the generation. *)
RecordQualityIssuesAnytime(g, batch) ==
  /\ status[g] # "unused"
  /\ issues' = [issues EXCEPT ![g] = @ \cup batch]
  /\ UNCHANGED <<status, base, manifest, active>>

RecordQualityIssues(g, batch) ==
  /\ Running(g)
  /\ issues' = [issues EXCEPT ![g] = @ \cup batch]
  /\ UNCHANGED <<status, base, manifest, active>>

(* Fault: activation does not compare the pointer with the base. *)
ActivateOverNewer(g) ==
  /\ Running(g)
  /\ "error" \notin issues[g]
  /\ status' = [status EXCEPT ![g] = "succeeded"]
  /\ active' = g
  /\ UNCHANGED <<base, manifest, issues>>

(* The pointer moves only from the generation this refresh was based on.  The
   caller's publish callback runs in the same transaction; a module that
   composes this action adds what the callback writes. *)
ActivateGeneration(g) ==
  /\ Running(g)
  /\ active = base[g]
  /\ "error" \notin issues[g]
  /\ status' = [status EXCEPT ![g] = "succeeded"]
  /\ active' = g
  /\ UNCHANGED <<base, manifest, issues>>

FailGeneration(g) ==
  /\ Running(g)
  /\ status' = [status EXCEPT ![g] = "failed"]
  /\ UNCHANGED <<base, manifest, issues, active>>

(* Fault: the undo does not compare the pointer with what its caller saw. *)
RestoreOverNewer(expected) ==
  /\ Succeeded(expected)
  /\ active' = base[expected]
  /\ UNCHANGED <<status, base, manifest, issues>>

(* One activation is undone, and only if it is still the current one. *)
RestorePreviousGeneration(expected) ==
  /\ active = expected
  /\ Succeeded(expected)
  /\ active' = base[expected]
  /\ UNCHANGED <<status, base, manifest, issues>>

Next ==
  \E g \in Gen :
    \/ StartGeneration(g)
    \/ \E k \in Key, v \in Version, owner \in Gen : StageSource(g, k, v, owner)
    \/ \E k \in Key : StageRemovedSource(g, k)
    \/ \E batch \in (SUBSET Severity) \ {{}} : RecordQualityIssues(g, batch)
    \/ ActivateGeneration(g)
    \/ FailGeneration(g)
    \/ RestorePreviousGeneration(g)

Spec == Init /\ [][Next]_vars

--------------------------------------------------------------------------------
(* The tables hold what their CHECK, REFERENCES and NOT NULL clauses allow,
   and a present row always names the owner of its Bronze rows. *)
TypeOK ==
  /\ status \in [Gen -> Status]
  /\ base \in [Gen -> Gen \cup {Null}]
  /\ manifest \in [Gen -> [Key -> Row]]
  /\ issues \in [Gen -> SUBSET Severity]
  /\ active \in Gen \cup {Null}

(* The pointer and every base name a generation that succeeded, and a base is
   older than what was built on it: the recursive query of active_source walks
   succeeded generations only, and it ends. *)
LineageSound ==
  /\ active # Null => Succeeded(active)
  /\ \A g \in Gen : base[g] # Null => base[g] < g /\ Succeeded(base[g])

(* Bronze is found in one hop: the owner a present row names is the generation
   itself, or one that succeeded, staged the same content for the same key and
   owns its rows.  A borrowed row is never borrowed onward, whatever was undone
   or failed in between.  The owner need not be older: a refresh still running
   may borrow from one that began later and was published first. *)
BronzeOneHop ==
  \A g \in Gen, k \in Key :
    LET row == manifest[g][k]
        owned == manifest[row.bronze][k]
    IN  row.state = "present" /\ row.bronze # g =>
          /\ Succeeded(row.bronze)
          /\ owned.state = "present" /\ owned.content = row.content
          /\ owned.bronze = row.bronze

(* No generation with a blocking issue was ever made current, and none acquires
   one afterwards. *)
NoErrorPublished ==
  \A g \in Gen : Succeeded(g) => "error" \notin issues[g]

(* Evidence of a finished generation is never rewritten: a late caller finds
   its generation finished and changes nothing. *)
FinishedFrozen ==
  [][\A g \in Gen : Finished(g) =>
       /\ status'[g] = status[g]
       /\ base'[g] = base[g]
       /\ manifest'[g] = manifest[g]
       /\ issues'[g] = issues[g]]_vars

(* An activation moves only the sources its generation staged.  What a
   concurrent refresh published after this one began is not lost. *)
OnlyStagedKeysMove ==
  [][\A g \in Gen : Running(g) /\ Succeeded(g)' =>
       \A k \in Key :
         manifest[g][k] = NoRow => ActiveSource(k)' = ActiveSource(k)]_vars

(* A generation that was undone never comes back, not even as the base of a
   refresh that began before the undo. *)
UndoneStaysUndone ==
  [][\A g \in Gen : Succeeded(g) /\ g \notin Lineage(active) =>
       g \notin Lineage(active)']_vars

--------------------------------------------------------------------------------
(* The store implements the cell of cuts with undo: a succeeded generation is
   a published cut, resolved through its lineage. *)
NoCut == [k \in {} |-> NoVersion]
CutOf(g) == IF Succeeded(g) THEN [k \in Key |-> Resolve(g, k)] ELSE NoCut
BaseOf(g) == IF Succeeded(g) THEN base[g] ELSE Null

Cuts == INSTANCE ActiveCut WITH
  Id <- Gen,
  Cut <- [Key -> Version \cup {NoVersion}],
  NoId <- Null,
  NoCut <- NoCut,
  current <- active,
  previous <- [g \in Gen |-> BaseOf(g)],
  cut <- [g \in Gen |-> CutOf(g)]

(* Every step of the store is a publication on top of the current cut, one
   undo, or invisible; published cuts keep their values for ever. *)
ImplementsActiveCut == Cuts!Spec
================================================================================
