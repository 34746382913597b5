---------------------------- MODULE MCReportReview ----------------------------
(* Instances of ReportReview for TLC. *)
EXTENDS ReportReview, TLC

(* Sessions have no identity beyond their user and request. *)
SessionSymmetry == Permutations(Sessions)
=============================================================================
