---------------------------- MODULE CaseWorkflow ----------------------------
(***************************************************************************)
(* The case row and the services of src/apps/cases/services.py that write  *)
(* it.  Every service locks the row and commits one new value, so each is  *)
(* an operator from the old row to the new one, with the guard under which *)
(* it does not raise CaseTransitionError beside it.                        *)
(*                                                                         *)
(* A row has the legacy status and the three dimensions that are being     *)
(* rolled out next to it: lifecycle, analysis and report.                  *)
(***************************************************************************)

Status == {"DRAFT", "OPEN", "FINALIZING", "NEEDS_INFORMATION",
           "READY_FOR_REVIEW", "APPROVED", "ARCHIVED", "CANCELLED"}

LifecycleStatus == {"ACTIVE", "ARCHIVED", "CANCELLED"}

AnalysisStatus == {"NOT_STARTED", "QUEUED", "PROCESSING", "NEEDS_REVIEW",
                   "COMPLETED", "FAILED"}

ReportStatus == {"NOT_CREATED", "DRAFT", "READY_FOR_REVIEW", "APPROVED"}

Case == [status : Status, lifecycle : LifecycleStatus,
         analysis : AnalysisStatus, report : ReportStatus]

(* create_case: the row every case starts from. *)
NewCase == [status |-> "OPEN", lifecycle |-> "ACTIVE",
            analysis |-> "NOT_STARTED", report |-> "NOT_CREATED"]

----------------------------------------------------------------------------

AllowedTransitions ==
  [DRAFT             |-> {"OPEN", "CANCELLED"},
   OPEN              |-> {"FINALIZING", "CANCELLED", "ARCHIVED"},
   FINALIZING        |-> {"NEEDS_INFORMATION", "READY_FOR_REVIEW", "OPEN", "ARCHIVED"},
   NEEDS_INFORMATION |-> {"FINALIZING", "OPEN", "ARCHIVED"},
   READY_FOR_REVIEW  |-> {"APPROVED", "OPEN", "ARCHIVED"},
   APPROVED          |-> {"ARCHIVED", "OPEN"},
   ARCHIVED          |-> {"OPEN"},
   CANCELLED         |-> {}]

CanTransition(c, target) == target \in AllowedTransitions[c.status]

(* Mutant: OPEN leaves an archived lifecycle archived.                     *)
SyncedLifecycle_KeepsArchived(c, target) ==
  CASE target = "CANCELLED" -> "CANCELLED"
    [] target = "ARCHIVED"  -> "ARCHIVED"
    [] OTHER                -> c.lifecycle

(* Mutant: the analysis dimension gets the name of the legacy status.      *)
SyncedAnalysis_Legacy(c, target) ==
  CASE target = "FINALIZING"                        -> "QUEUED"
    [] target = "NEEDS_INFORMATION"                 -> "NEEDS_INFORMATION"
    [] target \in {"READY_FOR_REVIEW", "APPROVED"}  -> "COMPLETED"
    [] OTHER                                        -> c.analysis

(* _sync_dimensions_for_legacy_status, one operator per dimension. *)
SyncedLifecycle(c, target) ==
  CASE target = "CANCELLED" -> "CANCELLED"
    [] target = "ARCHIVED"  -> "ARCHIVED"
    [] target = "OPEN"      -> "ACTIVE"
    [] OTHER                -> c.lifecycle

SyncedAnalysis(c, target) ==
  CASE target = "FINALIZING"                        -> "QUEUED"
    [] target = "NEEDS_INFORMATION"                 -> "NEEDS_REVIEW"
    [] target \in {"READY_FOR_REVIEW", "APPROVED"}  -> "COMPLETED"
    [] OTHER                                        -> c.analysis

(* Mutant: the report dimension follows every legacy status.               *)
SyncedReport_Legacy(c, target) ==
  IF target \in {"FINALIZING", "ARCHIVED"} THEN c.report ELSE target

SyncedReport(c, target) ==
  IF target \in {"READY_FOR_REVIEW", "APPROVED"} THEN target ELSE c.report

TransitionCase(c, target) ==
  [status    |-> target,
   lifecycle |-> SyncedLifecycle(c, target),
   analysis  |-> SyncedAnalysis(c, target),
   report    |-> SyncedReport(c, target)]

----------------------------------------------------------------------------

CanRequestAnalysis(c) == c.lifecycle = "ACTIVE"

(* request_analysis returns the row untouched while an analysis is queued  *)
(* or being processed.                                                     *)
RequestAnalysis(c) ==
  IF c.analysis \in {"QUEUED", "PROCESSING"}
  THEN c
  ELSE [c EXCEPT !.analysis = "QUEUED", !.status = "FINALIZING"]

CanReopen(c) == c.lifecycle # "CANCELLED"

ReopenCase(c) == [c EXCEPT !.lifecycle = "ACTIVE", !.status = "OPEN"]

CanArchive(c) == c.lifecycle # "CANCELLED"

ArchiveCase(c) == [c EXCEPT !.lifecycle = "ARCHIVED", !.status = "ARCHIVED"]

(* approve_case is the legacy transition to APPROVED. *)
CanApprove(c) == CanTransition(c, "APPROVED")

ApproveCase(c) == TransitionCase(c, "APPROVED")

(* The legacy status mirrors the lifecycle dimension: a row is archived in *)
(* both or in neither.                                                     *)
MirrorsLifecycle(c) ==
  /\ c.status = "ARCHIVED"  <=> c.lifecycle = "ARCHIVED"
  /\ c.status = "CANCELLED" <=> c.lifecycle = "CANCELLED"
=============================================================================
