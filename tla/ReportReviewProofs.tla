-------------------------- MODULE ReportReviewProofs --------------------------
(***************************************************************************)
(* What holds of ReportReview for any number of sessions, reviewers,       *)
(* items, revisions and decisions.                                         *)
(***************************************************************************)
EXTENDS ReportReview, FiniteSetTheorems, TLAPS

----------------------------------------------------------------------------
(* The inductive invariant                                                 *)

(* One transaction at a time holds each row.                               *)
LockInv ==
  \A q, r \in Sessions : /\ HoldsReport(q) /\ HoldsReport(r) => q = r
                         /\ HoldsCase(q) /\ HoldsCase(r) => q = r

(* What a request has read of the report still holds when it commits.      *)
ReadInv ==
  \A q \in Sessions :
    LET t == request[q] IN
    /\ t.pc = "loaded" => report.current # 0
    /\ t.pc = "editing" => report.current # 0 /\ t.base = report.current
    /\ t.pc = "reviewing" => UnderReview /\ t.base = report.current
    /\ t.pc = "approving" => UnderReview /\ AllAccepted(report.current, t.user)
    /\ t.pc = "deciding" /\ t.marks => report.current # 0
    /\ t.pc = "marking" => t.marks /\ report.current # 0

(* The rows themselves.  An approved revision is out of review for good:   *)
(* it is not the current one, or the report is not ready for review.       *)
RowInv ==
  /\ report.status = "NONE" <=> report.current = 0
  /\ \A n \in Numbers : revision[n] # NoRevision <=> n <= report.current
  /\ \A a \in approvals : /\ a.revision <= report.current
                          /\ a.revision = report.current => report.status # "READY_FOR_REVIEW"
  /\ ReportMirrored /\ ApprovalsStand /\ ApprovedCaseHasReport

IInv == TypeOK /\ LockInv /\ ReadInv /\ RowInv

----------------------------------------------------------------------------
(* Types                                                                   *)

(* What the services of the case row leave in it.                          *)
LEMMA CaseServices ==
  ASSUME NEW c \in Case
  PROVE  /\ RequestAnalysis(c) \in Case /\ RequestAnalysis(c).report = c.report
         /\ ArchiveCase(c) \in Case /\ ArchiveCase(c).report = c.report
         /\ ReopenCase(c) \in Case /\ ReopenCase(c).report = c.report
         /\ ApproveCase(c) \in Case /\ ApproveCase(c).report = "APPROVED"
         /\ \A t \in {"OPEN", "NEEDS_INFORMATION"} :
              TransitionCase(c, t) \in Case /\ TransitionCase(c, t).report = c.report
  <1> USE DEF Case, Status, LifecycleStatus, AnalysisStatus, ReportStatus
  <1>1. /\ RequestAnalysis(c) \in Case /\ RequestAnalysis(c).report = c.report
        /\ ArchiveCase(c) \in Case /\ ArchiveCase(c).report = c.report
        /\ ReopenCase(c) \in Case /\ ReopenCase(c).report = c.report
    BY DEF RequestAnalysis, ArchiveCase, ReopenCase
  <1>2. /\ ApproveCase(c) \in Case /\ ApproveCase(c).report = "APPROVED"
    BY DEF ApproveCase, TransitionCase, SyncedLifecycle, SyncedAnalysis, SyncedReport
  <1>3. \A t \in {"OPEN", "NEEDS_INFORMATION"} :
          TransitionCase(c, t) \in Case /\ TransitionCase(c, t).report = c.report
    BY DEF TransitionCase, SyncedLifecycle, SyncedAnalysis, SyncedReport
  <1> QED
    BY <1>1, <1>2, <1>3

(* Moving on or ending keeps requests typed.                               *)
LEMMA RequestOK ==
  ASSUME TypeOK, NEW q \in Sessions
  PROVE  /\ \A pc \in PCs : Goto(q, pc) => request' \in [Sessions -> Request]
         /\ End(q) => request' \in [Sessions -> Request]
  <1>1. \A pc \in PCs : Goto(q, pc) => request' \in [Sessions -> Request]
    BY DEF TypeOK, Goto, Request
  <1>2. \A u \in Users : NoRequest(u) \in Request
    BY ConstantsAssumption DEF NoRequest, Request, PCs
  <1>3. request[q].user \in Users
    BY DEF TypeOK, Request
  <1> QED
    BY <1>1, <1>2, <1>3 DEF TypeOK, End

LEMMA TypeInit == ASSUME Init PROVE TypeOK
  <1>1. case \in Case
    BY DEF Init, NewCase, Case, Status, LifecycleStatus, AnalysisStatus, ReportStatus
  <1>2. decisions \in 0 .. MaxDecisions /\ report \in Report
    BY ConstantsAssumption DEF Init, Report
  <1>3. \A u \in Users : NoRequest(u) \in Request
    BY ConstantsAssumption DEF NoRequest, Request, PCs
  <1>4. request \in [Sessions -> Request]
    BY <1>3 DEF Init
  <1> QED
    BY <1>1, <1>2, <1>4 DEF Init, TypeOK

LEMMA TypeBegin == ASSUME TypeOK, NEW q \in Sessions, Begin(q) PROVE TypeOK'
  <1> USE DEF TypeOK
  <1>1. CASE BeginGenerate(q)
    BY <1>1 DEF BeginGenerate, Request, PCs, rows
  <1>2. CASE LoadForEdit(q)
    BY <1>2, RequestOK DEF LoadForEdit, PCs, rows
  <1>3. ASSUME NEW item \in Items, BeginReview(q, item) PROVE TypeOK'
    <2> DEFINE mine == accepted[report.current][request[q].user]
               next == IF item \in mine THEN mine \ {item} ELSE mine \cup {item}
    <2>1. report.current \in Numbers /\ request[q].user \in Users
      BY <1>3 DEF BeginReview, UnderReview, Report, Numbers, Request
    <2>2. next \subseteq Items
      BY <2>1
    <2>3. [request[q] EXCEPT !.pc = "reviewing", !.base = report.current, !.accepted = next]
            \in Request
      BY <2>1, <2>2 DEF Request, PCs, Report, Numbers
    <2> QED
      BY <1>3, <2>3 DEF BeginReview, rows
  <1>4. CASE BeginApprove(q)
    BY <1>4, RequestOK DEF BeginApprove, PCs, rows
  <1>5. CASE BeginDecision(q)
    <2>1. (report.current # 0) \in BOOLEAN
      OBVIOUS
    <2>2. \A b \in BOOLEAN : [request[q] EXCEPT !.pc = "deciding", !.marks = b] \in Request
      BY DEF Request, PCs
    <2>3. [request[q] EXCEPT !.pc = "deciding", !.marks = (report.current # 0)] \in Request
      BY <2>1, <2>2
    <2> QED
      BY <1>5, <2>3 DEF BeginDecision, rows
  <1> QED
    BY <1>1, <1>2, <1>3, <1>4, <1>5 DEF Begin

LEMMA TypeContinue == ASSUME TypeOK, ReadInv, NEW q \in Sessions, Continue(q) PROVE TypeOK'
  <1> USE DEF TypeOK
  <1>1. CASE FinishGenerate(q)
    <2>1. \A n \in Numbers : [status |-> "READY_FOR_REVIEW", current |-> n] \in Report
      BY DEF Report, Numbers
    <2>2. [origin |-> "generated", facts |-> request[q].facts] \in Revision
      BY DEF Request, Revision
    <2>3. [case EXCEPT !.status = "READY_FOR_REVIEW", !.report = "READY_FOR_REVIEW"] \in Case
      BY DEF Case, Status, ReportStatus
    <2> QED
      BY <1>1, <2>1, <2>2, <2>3, RequestOK DEF FinishGenerate
  <1>2. CASE BeginEdit(q)
    BY <1>2 DEF BeginEdit, Request, PCs, Report, rows
  <1>3. CASE FinishEdit(q)
    <2> DEFINE base == request[q].base
    <2>1. base \in Numbers
      BY <1>3 DEF FinishEdit, ReadInv, Report, Numbers
    <2>2. [origin |-> "edited", facts |-> revision[base].facts] \in Revision
      BY <2>1, ConstantsAssumption DEF Revision, NoRevision
    <2>3. \A n \in Numbers : [report EXCEPT !.current = n] \in Report
      BY DEF Report, Numbers
    <2> QED
      BY <1>3, <2>2, <2>3, RequestOK DEF FinishEdit
  <1>4. CASE FinishReview(q)
    BY <1>4, RequestOK DEF FinishReview, Request
  <1>5. CASE FinishApprove(q)
    <2>1. [revision |-> report.current, by |-> request[q].user] \in [revision : Numbers, by : Users]
      BY <1>5 DEF FinishApprove, ReadInv, UnderReview, Report, Numbers, Request
    <2>2. [report EXCEPT !.status = "APPROVED"] \in Report
      BY DEF Report
    <2> QED
      BY <1>5, <2>1, <2>2, RequestOK, CaseServices DEF FinishApprove
  <1>6. CASE MarkReport(q)
    BY <1>6, RequestOK DEF MarkReport, PCs, rows
  <1>7. CASE FinishDecision(q)
    BY <1>7, RequestOK, ConstantsAssumption DEF FinishDecision, Report, Case, ReportStatus
  <1>8. CASE AbortDeadlock(q)
    BY <1>8, RequestOK DEF AbortDeadlock, rows
  <1> QED
    BY <1>1, <1>2, <1>3, <1>4, <1>5, <1>6, <1>7, <1>8 DEF Continue

LEMMA TypeCase == ASSUME TypeOK, CaseStep PROVE TypeOK' /\ case'.report = case.report
  <1> USE DEF TypeOK
  <1>1. CASE StartAnalysis
    BY <1>1, CaseServices DEF StartAnalysis
  <1>2. CASE FinishAnalysis
    <2> DEFINE marked == [case EXCEPT !.analysis = IF openIssues' THEN "NEEDS_REVIEW" ELSE "COMPLETED"]
    <2>1. marked \in Case /\ marked.report = case.report
      BY DEF Case, AnalysisStatus
    <2>2. case' = marked \/ \E t \in {"OPEN", "NEEDS_INFORMATION"} : case' = TransitionCase(marked, t)
      BY <1>2 DEF FinishAnalysis
    <2>3. UNCHANGED <<report, revision, accepted, approvals, decisions, request>> /\ openIssues' \in BOOLEAN
      BY <1>2 DEF FinishAnalysis
    <2> HIDE DEF marked
    <2>4. \A t \in {"OPEN", "NEEDS_INFORMATION"} :
            TransitionCase(marked, t) \in Case /\ TransitionCase(marked, t).report = case.report
      BY <2>1, CaseServices
    <2> QED
      BY <2>1, <2>2, <2>3, <2>4
  <1>3. CASE WaiveOpenIssues
    BY <1>3 DEF WaiveOpenIssues, Case, Status, AnalysisStatus
  <1>4. CASE Archive \/ Reopen
    BY <1>4, CaseServices DEF Archive, Reopen
  <1> QED
    BY <1>1, <1>2, <1>3, <1>4 DEF CaseStep

LEMMA TypeNext == ASSUME IInv, [Next]_vars PROVE TypeOK'
  <1>1. CASE UNCHANGED vars
    BY <1>1 DEF IInv, TypeOK, vars
  <1> QED
    BY <1>1, TypeBegin, TypeContinue, TypeCase DEF IInv, Next

----------------------------------------------------------------------------
(* Locks and what is read under them                                       *)

(* Only the request of q changes in a step of q.                           *)
LEMMA OtherRequests ==
  ASSUME TypeOK, NEW q \in Sessions, Begin(q) \/ Continue(q)
  PROVE  \A r \in Sessions \ {q} : request'[r] = request[r]
  BY DEF TypeOK, Begin, BeginGenerate, LoadForEdit, BeginReview, BeginApprove, BeginDecision,
         Continue, FinishGenerate, BeginEdit, FinishEdit, FinishReview, FinishApprove,
         MarkReport, FinishDecision, AbortDeadlock, Goto, End

(* Where a step of q leaves q.                                             *)
LEMMA NextPC ==
  ASSUME TypeOK, NEW q \in Sessions
  PROVE  /\ \A pc : Goto(q, pc) => /\ request'[q].pc = pc
                                  /\ request'[q].user = request[q].user
                                  /\ request'[q].marks = request[q].marks
         /\ End(q) => request'[q].pc = "idle"
         /\ BeginGenerate(q) => request'[q].pc = "generating"
         /\ \A item \in Items : BeginReview(q, item) =>
              request'[q].pc = "reviewing" /\ request'[q].base = report.current
         /\ BeginEdit(q) => request'[q].pc = "editing" /\ request'[q].base = report.current
         /\ BeginDecision(q) =>
              request'[q].pc = "deciding" /\ request'[q].marks = (report.current # 0)
  <1> USE DEF TypeOK, Request
  <1>1. ASSUME NEW pc, Goto(q, pc)
        PROVE  /\ request'[q].pc = pc
               /\ request'[q].user = request[q].user
               /\ request'[q].marks = request[q].marks
    BY <1>1 DEF Goto
  <1>2. End(q) => request'[q].pc = "idle"
    BY DEF End, NoRequest
  <1>3. BeginGenerate(q) => request'[q].pc = "generating"
    BY DEF BeginGenerate
  <1>4. ASSUME NEW item \in Items, BeginReview(q, item)
        PROVE  request'[q].pc = "reviewing" /\ request'[q].base = report.current
    BY <1>4 DEF BeginReview
  <1>5. BeginEdit(q) => request'[q].pc = "editing" /\ request'[q].base = report.current
    BY DEF BeginEdit
  <1>6. ASSUME BeginDecision(q)
        PROVE  request'[q].pc = "deciding" /\ request'[q].marks = (report.current # 0)
    BY <1>6 DEF BeginDecision
  <1> QED
    BY <1>1, <1>2, <1>3, <1>4, <1>5, <1>6

LEMMA LockNext == ASSUME IInv, [Next]_vars PROVE LockInv'
  <1> USE DEF IInv, LockInv, HoldsReport, HoldsCase
  <1>1. CASE UNCHANGED request
    BY <1>1
  <1>2. ASSUME NEW q \in Sessions, Begin(q) \/ Continue(q)
        PROVE  /\ HoldsReport(q)' => HoldsReport(q) \/ ReportFree(q)
               /\ HoldsCase(q)' => HoldsCase(q) \/ CaseFree(q)
    <2>1. End(q) \/ LoadForEdit(q) \/ BeginDecision(q) => ~HoldsReport(q)' /\ ~HoldsCase(q)'
      BY NextPC DEF LoadForEdit, TypeOK, Request
    <2>2. BeginGenerate(q) => ~HoldsReport(q)' /\ CaseFree(q)
      BY NextPC DEF BeginGenerate
    <2>3. (\E item \in Items : BeginReview(q, item)) \/ BeginEdit(q) => ~HoldsCase(q)' /\ ReportFree(q)
      BY NextPC DEF BeginReview, BeginEdit
    <2>4. BeginApprove(q) \/ MarkReport(q) => ~HoldsCase(q)' /\ ReportFree(q)
      BY NextPC DEF BeginApprove, MarkReport, TypeOK, Request
    <2> QED
      BY <1>2, <2>1, <2>2, <2>3, <2>4 DEF Begin, Continue, FinishGenerate, FinishEdit,
         FinishReview, FinishApprove, FinishDecision, AbortDeadlock
  <1>3. ASSUME NEW q \in Sessions, Begin(q) \/ Continue(q) PROVE LockInv'
    BY <1>2, <1>3, OtherRequests DEF ReportFree, CaseFree
  <1> QED
    BY <1>1, <1>3 DEF Next, CaseStep, StartAnalysis, FinishAnalysis, WaiveOpenIssues, Archive,
       Reopen, vars

(* Whoever does not hold the report finds it as it was.                    *)
LEMMA ReportStable ==
  ASSUME IInv, NEW q \in Sessions, Begin(q) \/ Continue(q),
         NEW r \in Sessions \ {q}, HoldsReport(r)
  PROVE  UNCHANGED <<report, accepted>>
  <1>1. ~ReportFree(q) /\ ~HoldsReport(q)
    BY DEF ReportFree, IInv, LockInv
  <1>2. ~request[q].marks \/ request[q].pc # "marking"
    BY <1>1 DEF HoldsReport
  <1> QED
    BY <1>1, <1>2 DEF HoldsReport, Begin, BeginGenerate, LoadForEdit, BeginReview, BeginApprove,
       BeginDecision, Continue, FinishGenerate, BeginEdit, FinishEdit, FinishReview,
       FinishApprove, MarkReport, FinishDecision, AbortDeadlock, rows

(* A report that has a current revision keeps one.                         *)
LEMMA CurrentStays ==
  ASSUME IInv, NEW q \in Sessions, Begin(q) \/ Continue(q), report.current # 0
  PROVE  report'.current # 0
  <1>1. CASE FinishGenerate(q)
    BY <1>1 DEF FinishGenerate, Numbers
  <1>2. CASE FinishEdit(q)
    BY <1>2 DEF FinishEdit, Numbers, IInv, TypeOK, Report
  <1>3. CASE FinishApprove(q) \/ FinishDecision(q)
    BY <1>3 DEF FinishApprove, FinishDecision, IInv, TypeOK, Report
  <1> QED
    BY <1>1, <1>2, <1>3 DEF Begin, BeginGenerate, LoadForEdit, BeginReview,
       BeginApprove, BeginDecision, Continue, BeginEdit, FinishReview, MarkReport,
       AbortDeadlock, rows

LEMMA ReadNext == ASSUME IInv, [Next]_vars PROVE ReadInv'
  <1>1. CASE UNCHANGED <<report, accepted, request>>
    BY <1>1 DEF IInv, ReadInv, UnderReview, AllAccepted
  <1>2. ASSUME NEW q \in Sessions, Begin(q) \/ Continue(q)
        PROVE  ReadInv'
    <2> SUFFICES ASSUME NEW r \in Sessions
                 PROVE  LET t == request[r] IN
                        (/\ t.pc = "loaded" => report.current # 0
                         /\ t.pc = "editing" => report.current # 0 /\ t.base = report.current
                         /\ t.pc = "reviewing" => UnderReview /\ t.base = report.current
                         /\ t.pc = "approving" => UnderReview /\ AllAccepted(report.current, t.user)
                         /\ t.pc = "deciding" /\ t.marks => report.current # 0
                         /\ t.pc = "marking" => t.marks /\ report.current # 0)'
      BY DEF ReadInv
    <2>1. CASE r # q
      <3>1. request'[r] = request[r]
        BY <1>2, <2>1, OtherRequests DEF IInv
      <3> QED
        BY <1>2, <2>1, <3>1, ReportStable, CurrentStays DEF IInv, ReadInv, HoldsReport,
           UnderReview, AllAccepted
    <2>2. CASE r = q
      <3> USE NextPC DEF IInv
      <3>1. CASE End(q) \/ BeginGenerate(q)
        BY <2>2, <3>1
      <3>2. CASE LoadForEdit(q)
        BY <2>2, <3>2 DEF LoadForEdit, TypeOK, Request, rows
      <3>3. CASE (\E item \in Items : BeginReview(q, item)) \/ BeginEdit(q)
        BY <2>2, <3>3 DEF BeginReview, BeginEdit, UnderReview, ReadInv, rows
      <3>4. CASE BeginApprove(q)
        BY <2>2, <3>4 DEF BeginApprove, UnderReview, AllAccepted, TypeOK, Request, rows
      <3>5. CASE BeginDecision(q)
        BY <2>2, <3>5 DEF BeginDecision, rows
      <3>6. CASE MarkReport(q)
        BY <2>2, <3>6 DEF MarkReport, ReadInv, TypeOK, Request, rows
      <3> QED
        BY <1>2, <3>1, <3>2, <3>3, <3>4, <3>5, <3>6 DEF Begin, Continue, FinishGenerate,
           FinishEdit, FinishReview, FinishApprove, FinishDecision, AbortDeadlock
    <2> QED
      BY <2>1, <2>2
  <1> QED
    BY <1>1, <1>2 DEF Next, CaseStep, StartAnalysis, FinishAnalysis, WaiveOpenIssues, Archive,
       Reopen, vars

----------------------------------------------------------------------------
(* The rows                                                                *)

LEMMA RowInit == ASSUME Init PROVE LockInv /\ ReadInv /\ RowInv
  <1>1. \A q \in Sessions : request[q].pc = "idle"
    BY DEF Init, NoRequest
  <1>2. RowInv
    BY DEF Init, RowInv, ReportMirrored, ApprovalsStand, ApprovedCaseHasReport, NewCase, Numbers
  <1> QED
    BY <1>1, <1>2 DEF LockInv, ReadInv, HoldsReport, HoldsCase

LEMMA RowCase == ASSUME IInv, CaseStep PROVE RowInv'
  <1>1. UNCHANGED <<report, revision, accepted, approvals>>
    BY DEF CaseStep, StartAnalysis, FinishAnalysis, WaiveOpenIssues, Archive, Reopen
  <1>2. case'.report = case.report
    BY TypeCase DEF IInv
  <1>3. case'.status = "APPROVED" => case.status = "APPROVED"
    <2> USE DEF IInv, TypeOK, Case
    <2>1. CASE StartAnalysis
      BY <2>1 DEF StartAnalysis, RequestAnalysis
    <2>2. CASE FinishAnalysis
      BY <2>2 DEF FinishAnalysis, TransitionCase
    <2>3. CASE WaiveOpenIssues
      BY <2>3 DEF WaiveOpenIssues
    <2>4. CASE Archive \/ Reopen
      BY <2>4 DEF Archive, Reopen, ArchiveCase, ReopenCase
    <2> QED
      BY <2>1, <2>2, <2>3, <2>4 DEF CaseStep
  <1> QED
    BY <1>1, <1>2, <1>3 DEF IInv, RowInv, ReportMirrored, ApprovalsStand, ApprovedCaseHasReport

LEMMA RowContinue == ASSUME IInv, NEW q \in Sessions, Continue(q) PROVE RowInv'
  <1> USE DEF IInv, TypeOK
  <1>a. \A a \in approvals :
          /\ a.revision \in Nat /\ a.revision <= report.current
          /\ a.revision = report.current => report.status # "READY_FOR_REVIEW"
    <2>1. \A a \in approvals : a.revision \in Numbers
      OBVIOUS
    <2>2. \A a \in approvals :
            /\ a.revision <= report.current
            /\ a.revision = report.current => report.status # "READY_FOR_REVIEW"
      BY DEF RowInv
    <2> QED
      BY <2>1, <2>2 DEF Numbers
  <1>b. report.current \in Nat
    BY DEF Report
  <1>1. CASE FinishGenerate(q)
    <2>1. PICK n \in Numbers :
            /\ \A m \in Numbers : m \in Created <=> m < n
            /\ revision' = [revision EXCEPT ![n] = [origin |-> "generated",
                                                    facts |-> request[q].facts]]
            /\ report' = [status |-> "READY_FOR_REVIEW", current |-> n]
      BY <1>1 DEF FinishGenerate
    <2>2. \A m \in Numbers : m <= report.current <=> m < n
      BY <2>1 DEF Created, RowInv
    <2>3. report.current < n
      BY <2>2, ConstantsAssumption DEF Numbers, Report
    <2>4. \A m \in Numbers : revision'[m] # NoRevision <=> m <= n
      <3>1. [origin |-> "generated", facts |-> request[q].facts] # NoRevision
        BY DEF NoRevision
      <3>2. \A m \in Numbers : revision'[m] = IF m = n
               THEN [origin |-> "generated", facts |-> request[q].facts] ELSE revision[m]
        BY <2>1
      <3>3. \A m \in Numbers : revision[m] # NoRevision <=> m < n
        BY <2>1 DEF Created
      <3> QED
        BY <3>1, <3>2, <3>3, ConstantsAssumption DEF Numbers
    <2>5. case'.status = "READY_FOR_REVIEW" /\ case'.report = "READY_FOR_REVIEW"
      BY <1>1 DEF FinishGenerate, Case
    <2>6. UNCHANGED <<accepted, approvals>>
      BY <1>1 DEF FinishGenerate
    <2>7. \A a \in approvals : a.revision <= n /\ a.revision # n
      BY <1>a, <1>b, <2>3 DEF Numbers
    <2>8. report'.current = n /\ report'.status = "READY_FOR_REVIEW" /\ n # 0
      BY <2>1, ConstantsAssumption DEF Numbers
    <2> QED
      BY <2>4, <2>5, <2>6, <2>7, <2>8
      DEF RowInv, ReportMirrored, ApprovalsStand, ApprovedCaseHasReport
  <1>2. CASE FinishEdit(q)
    <2>1. request[q].base = report.current /\ report.current # 0
      BY <1>2 DEF FinishEdit, ReadInv
    <2>2. report.current + 1 \in Numbers /\ report' = [report EXCEPT !.current = report.current + 1]
      BY <1>2, <2>1 DEF FinishEdit
    <2>3. \A m \in Numbers : revision'[m] # NoRevision <=> m <= report.current + 1
      BY <1>2, <2>1, <2>2 DEF FinishEdit, NoRevision, Numbers, RowInv, Report
    <2>4. report'.current = report.current + 1 /\ report'.status = report.status
      BY <2>2 DEF Report
    <2>5. UNCHANGED <<case, accepted, approvals>>
      BY <1>2 DEF FinishEdit
    <2>6. \A a \in approvals : a.revision <= report'.current /\ a.revision # report'.current
      BY <1>a, <1>b, <2>4
    <2>7. report'.current # 0 /\ report.status # "NONE"
      BY <2>1, <2>4 DEF RowInv, Report
    <2> QED
      BY <2>3, <2>4, <2>5, <2>6, <2>7
      DEF RowInv, ReportMirrored, ApprovalsStand, ApprovedCaseHasReport
  <1>3. CASE FinishReview(q)
    <2>1. \A a \in approvals : a.revision # request[q].base
      <3>1. request[q].base = report.current /\ report.status = "READY_FOR_REVIEW"
        BY <1>3 DEF FinishReview, ReadInv, UnderReview
      <3> QED
        BY <1>a, <3>1
    <2>2. \A a \in approvals : accepted'[a.revision] = accepted[a.revision]
      BY <1>3, <2>1 DEF FinishReview
    <2> QED
      BY <1>3, <2>2 DEF FinishReview, RowInv, ReportMirrored, ApprovalsStand, ApprovedCaseHasReport
  <1>4. CASE FinishApprove(q)
    <2>1. CASE ~CanApprove(case)
      BY <1>4, <2>1 DEF FinishApprove, RowInv, ReportMirrored, ApprovalsStand, ApprovedCaseHasReport
    <2>2. CASE CanApprove(case)
      <3>1. UnderReview /\ accepted[report.current][request[q].user] = Items
        BY <1>4 DEF FinishApprove, ReadInv, AllAccepted
      <3>2. /\ report'.status = "APPROVED" /\ report'.current = report.current
            /\ case'.report = "APPROVED"
            /\ UNCHANGED <<revision, accepted>>
            /\ approvals' = approvals \cup {[revision |-> report.current, by |-> request[q].user]}
        BY <1>4, <2>2, CaseServices DEF FinishApprove, Report
      <3>3. ASSUME NEW a \in approvals'
            PROVE  a.revision <= report'.current /\ accepted'[a.revision][a.by] = Items
        <4>1. CASE a \in approvals
          BY <1>a, <3>2, <4>1 DEF RowInv, ApprovalsStand
        <4>2. CASE a = [revision |-> report.current, by |-> request[q].user]
          BY <1>b, <3>1, <3>2, <4>2
        <4> QED
          BY <3>2, <4>1, <4>2
      <3>4. approvals' # {} /\ report.current # 0
        BY <3>1, <3>2 DEF UnderReview
      <3> QED
        BY <3>2, <3>3, <3>4 DEF RowInv, ReportMirrored, ApprovalsStand, ApprovedCaseHasReport
    <2> QED
      BY <2>1, <2>2
  <1>5. CASE FinishDecision(q)
    <2>1. CASE request[q].marks
      <3>1. report.current # 0
        BY <1>5, <2>1 DEF FinishDecision, ReadInv
      <3>2. /\ report'.status = "DRAFT" /\ report'.current = report.current
            /\ case'.report = "DRAFT" /\ case'.status = case.status
            /\ UNCHANGED <<revision, accepted, approvals>>
        BY <1>5, <2>1 DEF FinishDecision, Report, Case
      <3> QED
        BY <3>1, <3>2 DEF RowInv, ReportMirrored, ApprovalsStand, ApprovedCaseHasReport
    <2>2. CASE ~request[q].marks
      BY <1>5, <2>2 DEF FinishDecision, RowInv, ReportMirrored, ApprovalsStand, ApprovedCaseHasReport
    <2> QED
      BY <2>1, <2>2
  <1>6. CASE BeginEdit(q) \/ MarkReport(q) \/ AbortDeadlock(q)
    BY <1>6 DEF BeginEdit, MarkReport, AbortDeadlock, rows, RowInv, ReportMirrored,
       ApprovalsStand, ApprovedCaseHasReport
  <1> QED
    BY <1>1, <1>2, <1>3, <1>4, <1>5, <1>6 DEF Continue

LEMMA IInvNext == ASSUME IInv, [Next]_vars PROVE IInv'
  <1>1. ASSUME UNCHANGED rows PROVE RowInv'
    BY <1>1 DEF IInv, rows, RowInv, ReportMirrored, ApprovalsStand, ApprovedCaseHasReport
  <1>2. ASSUME NEW q \in Sessions, Begin(q) PROVE UNCHANGED rows
    BY <1>2 DEF Begin, BeginGenerate, LoadForEdit, BeginReview, BeginApprove, BeginDecision
  <1>3. RowInv'
    BY <1>1, <1>2, RowCase, RowContinue DEF Next, vars, rows
  <1> QED
    BY <1>3, TypeNext, LockNext, ReadNext DEF IInv

(* The inductive invariant of the report: locks, reads and rows together.  *)
THEOREM Inductive == Spec => []IInv
  <1>1. Init => IInv
    BY TypeInit, RowInit DEF IInv
  <1> QED
    BY <1>1, IInvNext, PTL DEF Spec

(* The rows and the requests keep their types.                             *)
THEOREM TypeCorrect == Spec => []TypeOK
  <1>1. IInv => TypeOK
    BY DEF IInv
  <1> QED
    BY <1>1, Inductive, PTL

(* The report dimension of the case row and the report row never disagree, *)
(* although services lock the two rows in opposite orders.                 *)
THEOREM ReportMirroredCorrect == Spec => []ReportMirrored
  <1>1. IInv => ReportMirrored
    BY DEF IInv, RowInv
  <1> QED
    BY <1>1, Inductive, PTL

(* Nobody's approval ever rests on sections or claims the approver had not *)
(* accepted, whatever is reviewed, edited or regenerated afterwards.       *)
THEOREM ApprovalsStandCorrect == Spec => []ApprovalsStand
  <1>1. IInv => ApprovalsStand
    BY DEF IInv, RowInv
  <1> QED
    BY <1>1, Inductive, PTL

(* An approved case has an approved revision, and a report that is         *)
(* approved or was sent back to draft.                                     *)
THEOREM ApprovedCaseCorrect == Spec => []ApprovedCaseHasReport
  <1>1. IInv => ApprovedCaseHasReport
    BY DEF IInv, RowInv
  <1> QED
    BY <1>1, Inductive, PTL

(* Revision numbers have no gaps and the newest revision is current.       *)
THEOREM CurrentIsNewestCorrect == Spec => []CurrentIsNewest
  <1>1. IInv => CurrentIsNewest
    BY ConstantsAssumption DEF IInv, TypeOK, RowInv, CurrentIsNewest, Created, Numbers, Report
  <1> QED
    BY <1>1, Inductive, PTL

(* Edits and generations, however they interleave, never overwrite a       *)
(* revision.                                                               *)
THEOREM RevisionsKeptCorrect == Spec => RevisionsKept
  <1>1. ASSUME IInv, NEW q \in Sessions, FinishGenerate(q), NEW n \in Numbers,
               revision[n] # NoRevision
        PROVE  revision'[n] = revision[n]
    BY <1>1 DEF FinishGenerate, Created, IInv, TypeOK, Numbers
  <1>2. ASSUME IInv, NEW q \in Sessions, FinishEdit(q), NEW n \in Numbers,
               revision[n] # NoRevision
        PROVE  revision'[n] = revision[n]
    <2>1. n <= report.current /\ request[q].base = report.current
      BY <1>2 DEF IInv, RowInv, ReadInv, FinishEdit
    <2> QED
      BY <1>2, <2>1 DEF FinishEdit, IInv, TypeOK, Numbers, Report
  <1>3. IInv /\ [Next]_vars =>
          [\A n \in Numbers : revision[n] # NoRevision => revision'[n] = revision[n]]_revision
    <2> SUFFICES ASSUME IInv, Next, revision' # revision, NEW n \in Numbers,
                        revision[n] # NoRevision
                 PROVE  revision'[n] = revision[n]
      BY DEF vars
    <2>1. \E q \in Sessions : FinishGenerate(q) \/ FinishEdit(q)
      BY DEF Next, Begin, BeginGenerate, LoadForEdit, BeginReview, BeginApprove,
         BeginDecision, Continue, BeginEdit, FinishReview, FinishApprove, MarkReport,
         FinishDecision, AbortDeadlock, CaseStep, StartAnalysis, FinishAnalysis,
         WaiveOpenIssues, Archive, Reopen, rows
    <2> QED
      BY <1>1, <1>2, <2>1
  <1> QED
    BY <1>3, Inductive, PTL DEF Spec, RevisionsKept

----------------------------------------------------------------------------
(* Nobody waits for ever                                                   *)

Writing == {"generating", "loaded", "editing"}
Deciding == {"deciding", "marking"}

(* What is begun can be finished within the bounds.                        *)
BoundInv ==
  /\ report.current + InProgress(Writing) <= MaxRevisions
  /\ decisions + InProgress(Deciding) <= MaxDecisions

(* Where one of the steps of a request finds what it waits for: the guards *)
(* of Continue.                                                            *)
MayContinue(q) ==
  \/ request[q].pc = "generating" /\ ReportFree(q) /\ Created # Numbers
  \/ request[q].pc = "loaded" /\ ReportFree(q)
  \/ request[q].pc = "editing" /\ CaseFree(q) /\ request[q].base + 1 \in Numbers
  \/ request[q].pc \in {"reviewing", "approving"} /\ CaseFree(q)
  \/ request[q].pc = "deciding" /\ request[q].marks /\ ReportFree(q)
  \/ /\ request[q].pc = IF request[q].marks THEN "marking" ELSE "deciding"
     /\ CaseFree(q) /\ decisions < MaxDecisions
  \/ \E r \in Sessions : WaitsFor(q, r) /\ WaitsFor(r, q)

NobodyIsStuck ==
  (\E q \in Sessions : ~Idle(q)) => \E q \in Sessions : MayContinue(q)

(* One request more or less is in progress.                                *)
LEMMA CountedRequests ==
  ASSUME TypeOK, NEW q \in Sessions, Begin(q) \/ Continue(q), NEW pcs
  PROVE  /\ InProgress(pcs) \in Nat
         /\ request[q].pc \in pcs => InProgress(pcs) > 0
         /\ InProgress(pcs)' = IF request'[q].pc \in pcs
                               THEN IF request[q].pc \in pcs THEN InProgress(pcs)
                                                             ELSE InProgress(pcs) + 1
                               ELSE IF request[q].pc \in pcs THEN InProgress(pcs) - 1
                                                             ELSE InProgress(pcs)
  <1> DEFINE Busy == {r \in Sessions : request[r].pc \in pcs}
             Then == {r \in Sessions : request'[r].pc \in pcs}
  <1>1. IsFiniteSet(Busy)
    BY ConstantsAssumption, FS_Subset
  <1>2. InProgress(pcs) = Cardinality(Busy) /\ InProgress(pcs)' = Cardinality(Then)
    BY DEF InProgress
  <1>3. q \in Busy <=> request[q].pc \in pcs
    OBVIOUS
  <1>4. Then = IF request'[q].pc \in pcs THEN Busy \cup {q} ELSE Busy \ {q}
    BY OtherRequests
  <1> HIDE DEF Busy, Then
  <1>5. Cardinality(Busy) \in Nat /\ (q \in Busy => Cardinality(Busy) > 0)
    BY <1>1, FS_CardinalityType, FS_EmptySet
  <1>6. /\ Cardinality(Busy \cup {q}) = IF q \in Busy THEN Cardinality(Busy) ELSE Cardinality(Busy) + 1
        /\ Cardinality(Busy \ {q}) = IF q \in Busy THEN Cardinality(Busy) - 1 ELSE Cardinality(Busy)
    BY <1>1, FS_AddElement, FS_RemoveElement
  <1> QED
    BY <1>2, <1>3, <1>4, <1>5, <1>6

LEMMA InProgressNat ==
  ASSUME NEW q \in Sessions, NEW pcs
  PROVE  InProgress(pcs) \in Nat /\ (request[q].pc \in pcs => InProgress(pcs) > 0)
  <1> DEFINE Busy == {r \in Sessions : request[r].pc \in pcs}
  <1>1. IsFiniteSet(Busy) /\ InProgress(pcs) = Cardinality(Busy)
    BY ConstantsAssumption, FS_Subset DEF InProgress
  <1>2. request[q].pc \in pcs => q \in Busy
    OBVIOUS
  <1> HIDE DEF Busy
  <1> QED
    BY <1>1, <1>2, FS_CardinalityType, FS_EmptySet

(* The revisions that exist are counted by the number of the current one.  *)
LEMMA RevisionCount == ASSUME IInv PROVE Cardinality(Created) = report.current
  <1>1. Created = 1 .. report.current /\ report.current \in Nat
    BY ConstantsAssumption DEF IInv, TypeOK, RowInv, Created, Numbers, Report
  <1> QED
    BY <1>1, FS_Interval

(* The number of revisions, and who writes one.                            *)
LEMMA RevisionsMove ==
  ASSUME IInv, NEW q \in Sessions, Begin(q) \/ Continue(q)
  PROVE  \/ /\ report'.current = report.current
            /\ request'[q].pc \in Writing => request[q].pc \in Writing \/ RevisionsLeft
         \/ /\ report'.current = report.current + 1
            /\ request[q].pc \in Writing /\ request'[q].pc \notin Writing
  <1> USE NextPC DEF IInv, Writing
  <1>1. CASE FinishGenerate(q)
    <2>1. PICK n \in Numbers :
            /\ \A m \in Numbers : m \in Created <=> m < n
            /\ report' = [status |-> "READY_FOR_REVIEW", current |-> n]
      BY <1>1 DEF FinishGenerate
    <2>2. \A m \in Numbers : m <= report.current <=> m < n
      BY <2>1 DEF Created, RowInv
    <2>3. n = report.current + 1
      <3>1. report.current \in Nat /\ n \in 1 .. MaxRevisions /\ MaxRevisions \in Nat
        BY ConstantsAssumption DEF Numbers, TypeOK, Report
      <3>2. report.current < n
        BY <2>2, <3>1 DEF Numbers
      <3>3. ~(report.current + 1 < n)
        <4>1. report.current + 1 < n => report.current + 1 \in Numbers
          BY <3>1 DEF Numbers
        <4> QED
          BY <2>2, <3>1, <4>1
      <3> QED
        BY <3>1, <3>2, <3>3
    <2> QED
      BY <1>1, <2>1, <2>3 DEF FinishGenerate, HoldsCase
  <1>2. CASE FinishEdit(q)
    BY <1>2 DEF FinishEdit, ReadInv, TypeOK, Report
  <1>3. CASE FinishApprove(q) \/ FinishDecision(q) \/ FinishReview(q) \/ AbortDeadlock(q)
    BY <1>3 DEF FinishApprove, FinishDecision, FinishReview, AbortDeadlock, TypeOK, Report, rows
  <1>4. CASE BeginGenerate(q) \/ LoadForEdit(q)
    BY <1>4 DEF BeginGenerate, LoadForEdit, rows
  <1>5. CASE BeginEdit(q) \/ BeginDecision(q) \/ \E item \in Items : BeginReview(q, item)
    BY <1>5 DEF BeginEdit, BeginDecision, BeginReview, rows
  <1>6. CASE BeginApprove(q) \/ MarkReport(q)
    BY <1>6 DEF BeginApprove, MarkReport, rows
  <1> QED
    BY <1>1, <1>2, <1>3, <1>4, <1>5, <1>6 DEF Begin, Continue

LEMMA DecisionsMove ==
  ASSUME IInv, NEW q \in Sessions, Begin(q) \/ Continue(q)
  PROVE  \/ /\ decisions' = decisions
            /\ request'[q].pc \in Deciding => request[q].pc \in Deciding \/ DecisionsLeft
         \/ /\ decisions' = decisions + 1
            /\ request[q].pc \in Deciding /\ request'[q].pc \notin Deciding
  <1> USE NextPC DEF IInv, Deciding
  <1>1. CASE FinishDecision(q)
    BY <1>1 DEF FinishDecision
  <1>2. CASE BeginDecision(q)
    BY <1>2 DEF BeginDecision, rows
  <1>3. CASE MarkReport(q)
    BY <1>3 DEF MarkReport, rows
  <1>4. CASE BeginGenerate(q) \/ BeginEdit(q) \/ \E item \in Items : BeginReview(q, item)
    BY <1>4 DEF BeginGenerate, BeginEdit, BeginReview, rows
  <1>6. CASE LoadForEdit(q) \/ BeginApprove(q)
    BY <1>6 DEF LoadForEdit, BeginApprove, rows
  <1>5. CASE FinishGenerate(q) \/ FinishEdit(q) \/ FinishReview(q) \/ FinishApprove(q)
             \/ AbortDeadlock(q)
    BY <1>5 DEF FinishGenerate, FinishEdit, FinishReview, FinishApprove, AbortDeadlock, rows
  <1> QED
    BY <1>1, <1>2, <1>3, <1>4, <1>5, <1>6 DEF Begin, Continue

LEMMA BoundNext == ASSUME IInv, BoundInv, [Next]_vars PROVE BoundInv'
  <1>1. CASE UNCHANGED <<report, decisions, request>>
    BY <1>1 DEF BoundInv, InProgress
  <1>2. ASSUME NEW q \in Sessions, Begin(q) \/ Continue(q) PROVE BoundInv'
    <2>1. report.current \in Nat /\ decisions \in Nat /\ MaxRevisions \in Nat /\ MaxDecisions \in Nat
      BY ConstantsAssumption DEF IInv, TypeOK, Report
    <2>2. /\ RevisionsLeft => report.current + InProgress(Writing) < MaxRevisions
          /\ DecisionsLeft => decisions + InProgress(Deciding) < MaxDecisions
      BY RevisionCount DEF RevisionsLeft, DecisionsLeft, Writing, Deciding
    <2>3. report'.current + InProgress(Writing)' <= MaxRevisions
      BY <1>2, <2>1, <2>2, CountedRequests, RevisionsMove DEF IInv, BoundInv
    <2>4. decisions' + InProgress(Deciding)' <= MaxDecisions
      BY <1>2, <2>1, <2>2, CountedRequests, DecisionsMove DEF IInv, BoundInv
    <2> QED
      BY <2>3, <2>4 DEF BoundInv
  <1> QED
    BY <1>1, <1>2 DEF Next, CaseStep, StartAnalysis, FinishAnalysis, WaiveOpenIssues, Archive,
       Reopen, vars

LEMMA BoundInit == ASSUME Init PROVE BoundInv
  <1>1. \A pcs : "idle" \notin pcs => {q \in Sessions : request[q].pc \in pcs} = {}
    BY DEF Init, NoRequest
  <1>2. InProgress(Writing) = 0 /\ InProgress(Deciding) = 0
    BY <1>1, FS_EmptySet DEF InProgress, Writing, Deciding
  <1> QED
    BY <1>2, ConstantsAssumption DEF Init, BoundInv

(* A row that is not free is held by somebody else.                        *)
LEMMA HeldRows ==
  ASSUME NEW q \in Sessions
  PROVE  /\ ~CaseFree(q) => \E r \in Sessions : r # q /\ HoldsCase(r)
         /\ ~ReportFree(q) => \E r \in Sessions : r # q /\ HoldsReport(r)
  BY DEF CaseFree, ReportFree

(* Whoever holds the case row writes a revision, or is one of two requests *)
(* of which PostgreSQL ends one.                                           *)
LEMMA CaseHolderMoves ==
  ASSUME IInv, BoundInv, NEW q \in Sessions, HoldsCase(q) PROVE MayContinue(q)
  <1>1. CASE ReportFree(q)
    <2>1. report.current < MaxRevisions
      BY InProgressNat, ConstantsAssumption
      DEF BoundInv, HoldsCase, Writing, IInv, TypeOK, Report
    <2>2. MaxRevisions \in Numbers \ Created
      BY <2>1, ConstantsAssumption DEF Numbers, Created, IInv, TypeOK, RowInv, Report
    <2> QED
      BY <1>1, <2>2 DEF MayContinue, HoldsCase
  <1>2. CASE ~ReportFree(q)
    BY <1>2, HeldRows DEF MayContinue, WaitsFor
  <1> QED
    BY <1>1, <1>2

LEMMA ReportHolderMoves ==
  ASSUME IInv, BoundInv, NEW q \in Sessions, HoldsReport(q) PROVE MayContinue(q)
  <1>1. CASE CaseFree(q)
    <2>1. CASE request[q].pc = "editing"
      <3>1. report.current < MaxRevisions /\ request[q].base = report.current
        BY <2>1, InProgressNat, ConstantsAssumption
        DEF BoundInv, Writing, IInv, ReadInv, TypeOK, Report
      <3>2. request[q].base + 1 \in Numbers
        BY <3>1, ConstantsAssumption DEF Numbers, IInv, TypeOK, Report
      <3> QED
        BY <1>1, <2>1, <3>2 DEF MayContinue
    <2>2. CASE request[q].pc = "marking"
      <3>1. decisions < MaxDecisions /\ request[q].marks
        BY <2>2, InProgressNat, ConstantsAssumption DEF BoundInv, Deciding, IInv, ReadInv, TypeOK
      <3> QED
        BY <1>1, <2>2, <3>1 DEF MayContinue
    <2> QED
      BY <1>1, <2>1, <2>2 DEF HoldsReport, MayContinue
  <1>2. CASE ~CaseFree(q)
    BY <1>2, HeldRows DEF MayContinue, WaitsFor
  <1> QED
    BY <1>1, <1>2

(* Whatever requests are in progress, one of them can go on: the two rows  *)
(* are the only things waited for, and of two requests that wait for each  *)
(* other PostgreSQL aborts one.  No bound of the model stops a request     *)
(* that has begun.                                                         *)
THEOREM NobodyIsStuckCorrect == Spec => []NobodyIsStuck
  <1>1. ASSUME IInv, BoundInv PROVE NobodyIsStuck
    <2> SUFFICES ASSUME NEW q \in Sessions, ~Idle(q) PROVE \E r \in Sessions : MayContinue(r)
      BY DEF NobodyIsStuck
    <2>1. CASE \E r \in Sessions : HoldsCase(r) \/ HoldsReport(r)
      BY <1>1, <2>1, CaseHolderMoves, ReportHolderMoves
    <2>2. CASE ~\E r \in Sessions : HoldsCase(r) \/ HoldsReport(r)
      <3>1. CaseFree(q) /\ ReportFree(q) /\ request[q].pc \in {"loaded", "deciding"}
        BY <1>1, <2>2 DEF CaseFree, ReportFree, HoldsCase, HoldsReport, Idle, IInv, TypeOK,
           Request, PCs
      <3>2. request[q].pc = "deciding" => decisions < MaxDecisions
        BY <1>1, InProgressNat, ConstantsAssumption DEF BoundInv, Deciding, IInv, TypeOK
      <3> QED
        BY <3>1, <3>2 DEF MayContinue
    <2> QED
      BY <2>1, <2>2
  <1>2. IInv /\ BoundInv /\ [Next]_vars => BoundInv'
    BY BoundNext
  <1> QED
    BY <1>1, <1>2, BoundInit, Inductive, PTL DEF Spec
=============================================================================
