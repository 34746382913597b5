------------------------- MODULE MCEvidencePipeline -------------------------
(* Instances of EvidencePipeline for TLC. *)
EXTENDS EvidencePipeline, TLC

(* Workers are interchangeable; the safety runs use it. *)
WorkerSymmetry == Permutations(Workers)
=============================================================================
