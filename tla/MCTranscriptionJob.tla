------------------------- MODULE MCTranscriptionJob -------------------------
(* TranscriptionJob on a small instance. *)
EXTENDS TranscriptionJob, TLC

\* Workers and cloud jobs are interchangeable: no action names one.
Symmetry == Permutations(Worker) \cup Permutations(CloudId)

=============================================================================
