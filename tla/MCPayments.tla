------------------------------ MODULE MCPayments ------------------------------
(* Instances of Payments for TLC. *)
EXTENDS Payments, TLC

(* Attempts, plans and queries are interchangeable. *)
PaymentSymmetry ==
  Permutations(Attempts) \cup Permutations(Plans) \cup Permutations(Queries)
=============================================================================
