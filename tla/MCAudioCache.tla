---------------------------- MODULE MCAudioCache ----------------------------
(* AudioCache on a small instance. *)
EXTENDS AudioCache, TLC

\* The jobs are interchangeable.
Symmetry == Permutations(Job)

=============================================================================
