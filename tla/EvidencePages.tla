----------------------------- MODULE EvidencePages -----------------------------
(***************************************************************************)
(* The source readiness page (FoundationPage.tsx) and the Operate page     *)
(* (OperateEvidencePage.tsx) of one tab.  They share a query cache, in     *)
(* which the source health and the Operate evidence are entries of their   *)
(* own, fetched by requests of their own, while refreshes of this tab and  *)
(* of others replace the active generation.  Each opening of the readiness *)
(* page has a mutation of its own, so that a page that is left and opened  *)
(* again can ask while an earlier refresh is under way.  The Flash         *)
(* comparison is a third entry, shown only beside evidence of the same     *)
(* generation.                                                             *)
(*                                                                         *)
(* An answer arrives later than it was given, and each entry may be        *)
(* fetched again whenever a page is opened or the network comes back.      *)
(***************************************************************************)
EXTENDS Naturals, FiniteSets

CONSTANTS
  LatestDate,  \* latestActualDate of the health of each generation; of none: NoDate
  NoDate,      \* no actual-source date is available
  MaxChanges,  \* bound: generations, and settings of the source folder, together
  MaxRefreshes \* bound: refreshes this tab asks for

Gen == 0..MaxChanges   \* 0: none is active
Requests == 1..MaxRefreshes
Dates == {LatestDate[g] : g \in Gen} \ {NoDate}

ASSUME EvidencePagesAssumption ==
  /\ MaxChanges \in Nat \ {0} /\ MaxRefreshes \in Nat
  /\ LatestDate[0] = NoDate

NoData == [cut |-> 0, ready |-> FALSE, known |-> FALSE]

Health == [what |-> "health", day |-> NoDate]
Entries == {Health} \cup [what : {"evidence"}, day : Dates]

VARIABLES
  active,   \* the host's active generation
  selected, \* whether its folder is the selected one
  moves,    \* how often that has changed
  shown,    \* the page that is open
  cached,   \* last answer in the cache, per entry
  error,    \* whether the last fetch of it ended in an error
  fetch,    \* "no", "sent" or "answered", per entry
  reply,    \* the answer that is on its way
  refresh,  \* per request of this tab: "none", "sent", "succeeded" or "failed", "over"
  after,    \* what a succeeded refresh carries back: the health
  asked,    \* how often this tab asked for a refresh
  own,      \* useMutation of the readiness page as it is open now: its request, or 0
  renewed,  \* history: the last fetch of the health was sent after the last failure
  reread,   \* history: such a fetch has ended
  newest,   \* history: the newest generation the Operate page has shown
  overtaken \* history: the cached health is the result of a refresh that another overtook

hostState == <<active, selected, moves>>
cache == <<cached, error, fetch, reply>>
requests == <<refresh, after, asked>>
mutation == <<requests, own>>
failure == <<renewed, reread>>
pageVars == <<hostState, shown, cache, mutation, failure, overtaken, newest>>

(* What a request that the host handles now is told. *)
Answer == [cut |-> active, ready |-> active # 0 /\ selected, known |-> TRUE]

Day == IF cached[Health].known THEN LatestDate[cached[Health].cut] ELSE NoDate

(* useQuery with enabled; the readiness page observes the health only. *)
Observed(e) == e.what = "health" \/ (shown = "operate" /\ e.day = Day)

--------------------------------------------------------------------------------
(* The host *)

(* A refresh of this tab or of another; the folder may have been set elsewhere *)
(* while it was reading.                                                        *)
Activate ==
  /\ active + moves < MaxChanges
  /\ active' = active + 1 /\ selected' \in {TRUE, moves = 0}
  /\ UNCHANGED <<moves, shown, cache, mutation, failure, overtaken>>

SetFolder ==
  /\ active + moves < MaxChanges
  /\ selected' = ~selected /\ moves' = moves + 1
  /\ UNCHANGED <<active, shown, cache, mutation, failure, overtaken>>

HostTells(e) ==
  /\ fetch[e] = "sent"
  /\ fetch' = [fetch EXCEPT ![e] = "answered"] /\ reply' = [reply EXCEPT ![e] = Answer]
  /\ UNCHANGED <<hostState, shown, cached, error, mutation, failure, overtaken>>

--------------------------------------------------------------------------------
(* The cache *)

(* Whatever the page that is left has asked for goes on without it. *)
Open(p) ==
  /\ shown # p /\ shown' = p /\ own' = 0
  /\ UNCHANGED <<hostState, cache, requests, failure, overtaken>>

(* Stale data is fetched when a page is opened, the health every 750 ms while a *)
(* refresh is pending; one fetch of an entry at a time.                         *)
Fetch(e) ==
  /\ Observed(e) /\ fetch[e] = "no"
  /\ fetch' = [fetch EXCEPT ![e] = "sent"]
  /\ renewed' = (renewed \/ e = Health)
  /\ UNCHANGED <<hostState, shown, cached, error, reply, mutation, reread, overtaken>>

FetchEnded(e) ==
  /\ fetch' = [fetch EXCEPT ![e] = "no"] /\ reply' = [reply EXCEPT ![e] = NoData]
  /\ reread' = (reread \/ (e = Health /\ renewed))

AnswerArrives(e) ==
  /\ fetch[e] = "answered"
  /\ cached' = [cached EXCEPT ![e] = reply[e]] /\ error' = [error EXCEPT ![e] = FALSE]
  /\ FetchEnded(e) /\ overtaken' = (overtaken /\ e # Health)
  /\ UNCHANGED <<hostState, shown, mutation, renewed>>

(* retry: false; the data that was there stays. *)
Fails(e) ==
  /\ fetch[e] # "no"
  /\ error' = [error EXCEPT ![e] = TRUE] /\ FetchEnded(e)
  /\ UNCHANGED <<hostState, shown, cached, mutation, renewed, overtaken>>

--------------------------------------------------------------------------------
(* Refresh local sources *)

AskRefresh ==
  /\ shown = "readiness" /\ own = 0 /\ asked < MaxRefreshes
  /\ asked' = asked + 1 /\ own' = asked + 1
  /\ refresh' = [refresh EXCEPT ![asked + 1] = "sent"]
  /\ UNCHANGED <<hostState, shown, cache, after, failure, overtaken>>

(* refresh() activates a generation or finds the sources unchanged; *)
(* the health in its result is read after that.                     *)
RefreshSucceeds(r) ==
  /\ refresh[r] = "sent"
  /\ refresh' = [refresh EXCEPT ![r] = "succeeded"] /\ after' = [after EXCEPT ![r] = Answer]
  /\ UNCHANGED <<hostState, shown, cache, asked, own, failure, overtaken>>

(* It may be that the host is busy with another. *)
RefreshFails(r) ==
  /\ refresh[r] = "sent" /\ refresh' = [refresh EXCEPT ![r] = "failed"]
  /\ UNCHANGED <<hostState, shown, cache, after, asked, own, failure, overtaken>>

(* The callbacks run whether or not the page is still open. *)
Returns(r, outcome) ==
  /\ refresh[r] = outcome /\ refresh' = [refresh EXCEPT ![r] = "over"]
  /\ own' = IF own = r THEN 0 ELSE own
  /\ UNCHANGED <<hostState, shown, asked>>

(* setQueryData; a fetch that is under way goes on and will overwrite it. *)
OnSuccess(r) ==
  /\ Returns(r, "succeeded")
  /\ cached' = [cached EXCEPT ![Health] = after[r]] /\ after' = [after EXCEPT ![r] = NoData]
  /\ error' = [error EXCEPT ![Health] = FALSE]
  /\ overtaken' = (after[r].cut # active)
  /\ UNCHANGED <<fetch, reply, failure>>


(* invalidateQueries starts a fetch; one that is under way is dropped, unless it *)
(* is the first: with no data yet it goes on and no other is started.             *)
OnError(r) ==
  /\ Returns(r, "failed")
  /\ \/ /\ cached[Health].known \/ fetch[Health] = "no"
        /\ fetch' = [fetch EXCEPT ![Health] = "sent"]
        /\ reply' = [reply EXCEPT ![Health] = NoData]
        /\ renewed' = TRUE
     \/ /\ ~cached[Health].known /\ fetch[Health] # "no"
        /\ renewed' = FALSE /\ UNCHANGED <<fetch, reply>>
  /\ reread' = ~cached[Health].known
  /\ UNCHANGED <<cached, error, after, overtaken>>

--------------------------------------------------------------------------------
(* What the Operate page shows *)

Evidence == [what |-> "evidence", day |-> Day]

(* Fault: the health may be on its way. *)
ValidatingEvidence == fetch[Evidence] # "no"

ValidatingCut == fetch[Health] # "no" \/ fetch[Evidence] # "no"

IsCurrentOperateCut ==
  cached[Evidence].ready /\ cached[Health].ready /\ cached[Health].cut = cached[Evidence].cut

CutCurrent ==
  /\ shown = "operate" /\ Day # NoDate /\ ~ValidatingCut
  /\ ~error[Health] /\ ~error[Evidence] /\ IsCurrentOperateCut

ShownCut == IF CutCurrent THEN cached[Evidence].cut ELSE 0

PagesInit ==
  /\ active \in 0..1 /\ selected = (active = 1) /\ moves = 0
  /\ shown \in {"readiness", "operate"}
  /\ cached = [e \in Entries |-> NoData] /\ error = [e \in Entries |-> FALSE]
  /\ fetch = [e \in Entries |-> "no"] /\ reply = [e \in Entries |-> NoData]
  /\ refresh = [r \in Requests |-> "none"] /\ after = [r \in Requests |-> NoData]
  /\ asked = 0 /\ own = 0
  /\ renewed = TRUE /\ reread = TRUE /\ newest = 0 /\ overtaken = FALSE

Step ==
  \/ Activate \/ SetFolder \/ \E p \in {"readiness", "operate"} : Open(p)
  \/ \E e \in Entries : HostTells(e) \/ Fetch(e) \/ AnswerArrives(e) \/ Fails(e)
  \/ AskRefresh
  \/ \E r \in Requests : RefreshSucceeds(r) \/ RefreshFails(r) \/ OnSuccess(r) \/ OnError(r)

PagesNext == Step /\ newest' = IF ShownCut' > newest THEN ShownCut' ELSE newest

PagesSpec == PagesInit /\ [][PagesNext]_pageVars

(* The host answers what it is asked, and the browser runs its callbacks. *)
PagesFairSpec ==
  /\ PagesSpec
  /\ WF_pageVars(HostTells(Health) /\ PagesNext)
  /\ WF_pageVars(AnswerArrives(Health) /\ PagesNext)

--------------------------------------------------------------------------------
(* Properties *)

(* Types, and that only a fetch in progress has an answer to come. *)
PagesTypeOK ==
  /\ active \in Gen /\ asked \in 0..MaxRefreshes /\ moves \in 0..MaxChanges
  /\ own \in 0..asked
  /\ \A r \in Requests : refresh[r] \in {"none", "sent", "succeeded", "failed", "over"}
  /\ \A e \in Entries : /\ fetch[e] \in {"no", "sent", "answered"}
                         /\ cached[e].cut <= active /\ reply[e].cut <= active
                         /\ fetch[e] = "answered" => reply[e].known

(* The Operate page never shows a cut as current after it has shown a newer one,
   whoever refreshes meanwhile, and whatever a poll of the readiness page, sent
   before a refresh ended, brings into the cache (OperateEvidencePage.tsx:121-127).
   One way back is left, and ends with the next answer about the health: while the
   result of a refresh is on its way, another refresh may overtake it. *)
NeverBackToOlder == ShownCut # 0 /\ ~overtaken => ShownCut >= newest


--------------------------------------------------------------------------------
(* What a user may expect and the code does not keep *)

(* A result that was overtaken puts the older health back (FoundationPage.tsx:27-29),
   with which evidence of its generation that is in the cache is current again. *)
NeverBackAtAll == ShownCut # 0 => ShownCut >= newest
================================================================================
