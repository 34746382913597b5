----------------------------- MODULE ReportReview -----------------------------
(***************************************************************************)
(* The report of one case: src/apps/reports/services.py under concurrent   *)
(* requests of its reviewers (portal views and the approve command of the  *)
(* bot), with the services of the case row that may run between them.      *)
(*                                                                         *)
(* PostgreSQL runs the requests at READ COMMITTED.  A request is a         *)
(* transaction of two or three steps: the step that takes a row lock and   *)
(* reads, and the one that gets its last lock, writes and commits.  Two    *)
(* rows are locked across steps: generate_report_revision locks the case   *)
(* first and then the report; the other services lock the report first and *)
(* reach the case row at the latest when they commit, because the foreign  *)
(* key of the CaseEvent or of the decision they insert is checked then.    *)
(* PostgreSQL ends the resulting deadlocks by aborting one transaction.    *)
(***************************************************************************)
EXTENDS CaseWorkflow, Integers, FiniteSets

CONSTANTS
  Sessions,      \* sessions of reviewers: one request at a time, one user each
  Users,         \* reviewers
  Items,         \* sections and material claims of every revision
  MaxRevisions,  \* bound: revisions of the report
  MaxDecisions   \* bound: expert decisions on facts

ASSUME ConstantsAssumption ==
  /\ MaxRevisions \in Nat /\ MaxDecisions \in Nat
  /\ Items # {}   \* the composers write at least one section
  /\ IsFiniteSet(Sessions)

VARIABLES
  case,        \* the Case row
  openIssues,  \* whether the case has an open CaseFieldIssue
  report,      \* the Report row: [status, current]
  revision,    \* [Numbers -> ReportRevision row or NoRevision]
  accepted,    \* [Numbers -> [Users -> SUBSET Items]], the reviews
  approvals,   \* {[revision, by]}, the ReportApproval rows
  decisions,   \* how many ExpertFactDecision writes have committed
  request      \* [Sessions -> what the request is doing]

rows == <<case, openIssues, report, revision, accepted, approvals, decisions>>
vars == <<case, openIssues, report, revision, accepted, approvals, decisions, request>>

Numbers == 1 .. MaxRevisions

(* 0 is a report without a current revision.                               *)
Report == [status : {"NONE", "DRAFT", "READY_FOR_REVIEW", "APPROVED"},
           current : 0 .. MaxRevisions]

(* facts is the number of decisions its facts were read after.             *)
Revision == [origin : {"generated", "edited"}, facts : 0 .. MaxDecisions]
NoRevision == [origin |-> "none", facts |-> 0]

PCs == {"idle", "generating", "loaded", "editing", "reviewing", "approving",
        "deciding", "marking"}

Request == [pc : PCs, user : Users, accepted : SUBSET Items,
            facts : 0 .. MaxDecisions, base : 0 .. MaxRevisions, marks : BOOLEAN]

NoRequest(u) == [pc |-> "idle", user |-> u, accepted |-> {}, facts |-> 0, base |-> 0,
                 marks |-> FALSE]

(* A case whose analysis has completed for the first time.                 *)
Init ==
  /\ case = [NewCase EXCEPT !.analysis = "COMPLETED"]
  /\ openIssues = FALSE
  /\ report = [status |-> "NONE", current |-> 0]
  /\ revision = [n \in Numbers |-> NoRevision]
  /\ accepted = [n \in Numbers |-> [u \in Users |-> {}]]
  /\ approvals = {}
  /\ decisions = 0
  /\ request \in [Sessions -> {NoRequest(u) : u \in Users}]

Created == {n \in Numbers : revision[n] # NoRevision}

(* The two bounds count the requests in progress, so that none is stopped  *)
(* by them after it began.                                                 *)
InProgress(pcs) == Cardinality({q \in Sessions : request[q].pc \in pcs})
RevisionsLeft ==
  Cardinality(Created) + InProgress({"generating", "loaded", "editing"}) < MaxRevisions
DecisionsLeft == decisions + InProgress({"deciding", "marking"}) < MaxDecisions

----------------------------------------------------------------------------
(* Row locks                                                               *)

HoldsCase(q) == request[q].pc = "generating"
HoldsReport(q) == request[q].pc \in {"editing", "reviewing", "approving", "marking"}

CaseFree(q) == \A r \in Sessions \ {q} : ~HoldsCase(r)

(* Mutant: reports are read without select_for_update.                     *)
ReportFree_Unlocked(q) == q \in Sessions

ReportFree(q) == \A r \in Sessions \ {q} : ~HoldsReport(r)

Idle(q) == request[q].pc = "idle"

Goto(q, pc) == request' = [request EXCEPT ![q].pc = pc]

(* The transaction commits or rolls back, and the request ends.            *)
End(q) == request' = [request EXCEPT ![q] = NoRequest(@.user)]

(* Whoever holds one of the two rows needs the other one to commit.        *)
WaitsFor(q, r) ==
  /\ q # r
  /\ \/ HoldsCase(q) /\ HoldsReport(r)
     \/ HoldsReport(q) /\ HoldsCase(r)

AbortDeadlock(q) ==
  /\ \E r \in Sessions : WaitsFor(q, r) /\ WaitsFor(r, q)
  /\ End(q)
  /\ UNCHANGED rows

----------------------------------------------------------------------------
(* generate_report_revision                                                *)

CanGenerate ==
  /\ case.lifecycle = "ACTIVE"
  /\ case.analysis \in {"COMPLETED", "NEEDS_REVIEW"}
  /\ ~openIssues

(* The case row is locked and the facts are read with the decisions that   *)
(* are committed by now.                                                   *)
BeginGenerate(q) ==
  /\ Idle(q) /\ RevisionsLeft
  /\ CaseFree(q)
  /\ CanGenerate
  /\ request' = [request EXCEPT ![q] = [@ EXCEPT !.pc = "generating", !.facts = decisions]]
  /\ UNCHANGED rows

(* Mutant: an approved case stays approved when its report is generated    *)
(* again.                                                                  *)
FinishGenerate_KeepsApproved(q) ==
  /\ HoldsCase(q) /\ ReportFree(q)
  /\ \E n \in Numbers :
       /\ \A m \in Numbers : m \in Created <=> m < n
       /\ revision' = [revision EXCEPT ![n] = [origin |-> "generated",
                                               facts |-> request[q].facts]]
       /\ report' = [status |-> "READY_FOR_REVIEW", current |-> n]
  /\ case' = [case EXCEPT !.status = IF @ = "APPROVED" THEN @ ELSE "READY_FOR_REVIEW",
                          !.report = "READY_FOR_REVIEW"]
  /\ End(q)
  /\ UNCHANGED <<openIssues, accepted, approvals, decisions>>

(* The next number is that of the newest revision, plus one.               *)
FinishGenerate(q) ==
  /\ HoldsCase(q) /\ ReportFree(q)
  /\ \E n \in Numbers :
       /\ \A m \in Numbers : m \in Created <=> m < n
       /\ revision' = [revision EXCEPT ![n] = [origin |-> "generated",
                                               facts |-> request[q].facts]]
       /\ report' = [status |-> "READY_FOR_REVIEW", current |-> n]
  /\ case' = [case EXCEPT !.status = "READY_FOR_REVIEW", !.report = "READY_FOR_REVIEW"]
  /\ End(q)
  /\ UNCHANGED <<openIssues, accepted, approvals, decisions>>

----------------------------------------------------------------------------
(* create_review_revision                                                  *)

(* edit_report loads the case; create_review_revision checks the status of *)
(* that row and never reads it again.                                      *)
LoadForEdit(q) ==
  /\ Idle(q) /\ RevisionsLeft
  /\ case.status = "READY_FOR_REVIEW"
  /\ report.current # 0
  /\ Goto(q, "loaded")
  /\ UNCHANGED rows

BeginEdit(q) ==
  /\ request[q].pc = "loaded"
  /\ ReportFree(q)
  /\ request' = [request EXCEPT ![q] = [@ EXCEPT !.pc = "editing", !.base = report.current]]
  /\ UNCHANGED rows

(* Mutant: the edited revision is stored but not made current.             *)
FinishEdit_NotCurrent(q) ==
  LET base == request[q].base
      n == base + 1 IN
  /\ request[q].pc = "editing"
  /\ CaseFree(q)
  /\ n \in Numbers
  /\ revision' = [revision EXCEPT ![n] = [origin |-> "edited", facts |-> revision[base].facts]]
  /\ End(q)
  /\ UNCHANGED <<case, openIssues, report, accepted, approvals, decisions>>

FinishEdit(q) ==
  LET base == request[q].base
      n == base + 1 IN
  /\ request[q].pc = "editing"
  /\ CaseFree(q)
  /\ n \in Numbers
  /\ revision' = [revision EXCEPT ![n] = [origin |-> "edited", facts |-> revision[base].facts]]
  /\ report' = [report EXCEPT !.current = n]
  /\ End(q)
  /\ UNCHANGED <<case, openIssues, accepted, approvals, decisions>>

----------------------------------------------------------------------------
(* save_section_review, save_claim_review                                  *)

UnderReview == report.status = "READY_FOR_REVIEW" /\ report.current # 0

(* The reviewer accepts one more item of the current revision, or no       *)
(* longer accepts it.                                                      *)
BeginReview(q, item) ==
  LET mine == accepted[report.current][request[q].user] IN
  /\ Idle(q) /\ ReportFree(q)
  /\ UnderReview
  /\ request' = [request EXCEPT ![q] =
       [@ EXCEPT !.pc = "reviewing", !.base = report.current,
                 !.accepted = IF item \in mine THEN mine \ {item} ELSE mine \cup {item}]]
  /\ UNCHANGED rows

FinishReview(q) ==
  /\ request[q].pc = "reviewing"
  /\ CaseFree(q)
  /\ accepted' = [accepted EXCEPT ![request[q].base][request[q].user] = request[q].accepted]
  /\ End(q)
  /\ UNCHANGED <<case, openIssues, report, revision, approvals, decisions>>

----------------------------------------------------------------------------
(* approve_report                                                          *)

(* Mutant: the reviews of all reviewers are counted together.              *)
AllAccepted_ByAnyone(n, u) == UNION {accepted[n][v] : v \in Users} = Items

(* review_progress(...)["can_approve"]                                     *)
AllAccepted(n, u) == accepted[n][u] = Items

BeginApprove(q) ==
  /\ Idle(q) /\ ReportFree(q)
  /\ UnderReview
  /\ AllAccepted(report.current, request[q].user)
  /\ Goto(q, "approving")
  /\ UNCHANGED rows

(* Mutant: a refused transition of the case leaves the request waiting.    *)
FinishApprove_NoRollback(q) ==
  /\ request[q].pc = "approving"
  /\ CaseFree(q)
  /\ CanApprove(case)
  /\ case' = ApproveCase(case)
  /\ report' = [report EXCEPT !.status = "APPROVED"]
  /\ approvals' = approvals \cup {[revision |-> report.current, by |-> request[q].user]}
  /\ End(q)
  /\ UNCHANGED <<openIssues, revision, accepted, decisions>>

(* approve_case goes through transition_case: when the case has left       *)
(* READY_FOR_REVIEW the approval is rolled back with it.                   *)
FinishApprove(q) ==
  /\ request[q].pc = "approving"
  /\ CaseFree(q)
  /\ \/ /\ CanApprove(case)
        /\ case' = ApproveCase(case)
        /\ report' = [report EXCEPT !.status = "APPROVED"]
        /\ approvals' = approvals \cup {[revision |-> report.current, by |-> request[q].user]}
     \/ /\ ~CanApprove(case)
        /\ UNCHANGED <<case, report, approvals>>
  /\ End(q)
  /\ UNCHANGED <<openIssues, revision, accepted, decisions>>

----------------------------------------------------------------------------
(* save_expert_fact_decision                                               *)

(* The report is read without a lock, to see whether a revision has to be  *)
(* marked stale.  Sessions that decide on the same field also exclude each *)
(* other; here each has a field of its own.                                *)
BeginDecision(q) ==
  /\ Idle(q) /\ DecisionsLeft
  /\ request' = [request EXCEPT ![q] = [@ EXCEPT !.pc = "deciding",
                                                 !.marks = (report.current # 0)]]
  /\ UNCHANGED rows

(* report.save() waits for the row.                                        *)
MarkReport(q) ==
  /\ request[q].pc = "deciding" /\ request[q].marks
  /\ ReportFree(q)
  /\ Goto(q, "marking")
  /\ UNCHANGED rows

(* Mutant: only the report is marked.                                      *)
FinishDecision_ReportOnly(q) ==
  /\ request[q].pc = IF request[q].marks THEN "marking" ELSE "deciding"
  /\ CaseFree(q)
  /\ decisions < MaxDecisions
  /\ decisions' = decisions + 1
  /\ report' = IF request[q].marks THEN [report EXCEPT !.status = "DRAFT"] ELSE report
  /\ End(q)
  /\ UNCHANGED <<case, openIssues, revision, accepted, approvals>>

FinishDecision(q) ==
  /\ request[q].pc = IF request[q].marks THEN "marking" ELSE "deciding"
  /\ CaseFree(q)
  /\ decisions < MaxDecisions
  /\ decisions' = decisions + 1
  /\ IF request[q].marks
     THEN /\ report' = [report EXCEPT !.status = "DRAFT"]
          /\ case' = [case EXCEPT !.report = "DRAFT"]
     ELSE UNCHANGED <<report, case>>
  /\ End(q)
  /\ UNCHANGED <<openIssues, revision, accepted, approvals>>

----------------------------------------------------------------------------
(* What else happens to the case                                           *)

CaseUnlocked == \A q \in Sessions : ~HoldsCase(q)

(* request_analysis                                                        *)
StartAnalysis ==
  /\ CaseUnlocked
  /\ CanRequestAnalysis(case)
  /\ case' = RequestAnalysis(case)
  /\ UNCHANGED <<openIssues, report, revision, accepted, approvals, decisions, request>>

(* The end of extract_case_facts, in one step here (EvidencePipeline has   *)
(* its parts): it leaves FINALIZING, if the case still is, and may have    *)
(* found issues.                                                           *)
FinishAnalysis ==
  /\ CaseUnlocked
  /\ case.analysis = "QUEUED"
  /\ openIssues' \in BOOLEAN
  /\ LET marked == [case EXCEPT !.analysis = IF openIssues' THEN "NEEDS_REVIEW" ELSE "COMPLETED"]
         target == IF openIssues' THEN "NEEDS_INFORMATION" ELSE "OPEN"
     IN case' = IF case.status = "FINALIZING" THEN TransitionCase(marked, target) ELSE marked
  /\ UNCHANGED <<report, revision, accepted, approvals, decisions, request>>

(* waive_open_issues                                                       *)
WaiveOpenIssues ==
  /\ CaseUnlocked
  /\ openIssues
  /\ openIssues' = FALSE
  /\ case' = [case EXCEPT !.analysis = "COMPLETED",
                          !.status = IF @ = "NEEDS_INFORMATION" THEN "OPEN" ELSE @]
  /\ UNCHANGED <<report, revision, accepted, approvals, decisions, request>>

Archive ==
  /\ CaseUnlocked
  /\ CanArchive(case)
  /\ case' = ArchiveCase(case)
  /\ UNCHANGED <<openIssues, report, revision, accepted, approvals, decisions, request>>

Reopen ==
  /\ CaseUnlocked
  /\ CanReopen(case)
  /\ case' = ReopenCase(case)
  /\ UNCHANGED <<openIssues, report, revision, accepted, approvals, decisions, request>>

----------------------------------------------------------------------------

Begin(q) ==
  \/ BeginGenerate(q)
  \/ LoadForEdit(q)
  \/ \E item \in Items : BeginReview(q, item)
  \/ BeginApprove(q)
  \/ BeginDecision(q)

Continue(q) ==
  \/ FinishGenerate(q)
  \/ BeginEdit(q) \/ FinishEdit(q)
  \/ FinishReview(q)
  \/ FinishApprove(q)
  \/ MarkReport(q) \/ FinishDecision(q)
  \/ AbortDeadlock(q)

CaseStep == StartAnalysis \/ FinishAnalysis \/ WaiveOpenIssues \/ Archive \/ Reopen

Next == (\E q \in Sessions : Begin(q) \/ Continue(q)) \/ CaseStep

Spec == Init /\ [][Next]_vars

(* A request that is in progress goes on.  Strong fairness: PostgreSQL     *)
(* grants a row to those who wait for it in the order they came.           *)
FairSpec == Spec /\ \A q \in Sessions : SF_vars(Continue(q))

----------------------------------------------------------------------------
(* Properties                                                              *)

TypeOK ==
  /\ case \in Case
  /\ openIssues \in BOOLEAN
  /\ report \in Report
  /\ revision \in [Numbers -> Revision \cup {NoRevision}]
  /\ accepted \in [Numbers -> [Users -> SUBSET Items]]
  /\ approvals \subseteq [revision : Numbers, by : Users]
  /\ decisions \in 0 .. MaxDecisions
  /\ request \in [Sessions -> Request]

(* The report dimension of the case always tells the status of its report, *)
(* although two rows in different tables, locked in both orders, hold them.*)
ReportMirrored ==
  case.report = IF report.status = "NONE" THEN "NOT_CREATED" ELSE report.status

(* The current revision is the newest one, and numbers have no gaps.       *)
CurrentIsNewest == Created = 1 .. report.current

(* A revision that exists is never replaced by another with its number.    *)
RevisionsKept ==
  [][\A n \in Numbers : revision[n] # NoRevision => revision'[n] = revision[n]]_revision

(* Whoever approved a revision had accepted every section and claim of it, *)
(* and these reviews are never changed afterwards.                         *)
ApprovalsStand == \A a \in approvals : accepted[a.revision][a.by] = Items

(* An approved case has an approved report, or one that a later decision   *)
(* sent back to DRAFT.                                                     *)
ApprovedCaseHasReport ==
  case.status = "APPROVED" => approvals # {} /\ report.status \in {"APPROVED", "DRAFT"}

(* A request that has begun ends, deadlocks and refused approvals included.*)
RequestsEnd == \A q \in Sessions : ~Idle(q) ~> Idle(q)

(* An approved report shows the revision that was approved.                *)
ApprovedIsCurrent ==
  report.status = "APPROVED" => \E a \in approvals : a.revision = report.current

(* A report that can be approved was built from the decisions that are     *)
(* committed: a decision sends an older one back to DRAFT.                 *)
ReadyIsFresh == UnderReview => revision[report.current].facts = decisions
=============================================================================
