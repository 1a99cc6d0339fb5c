-------------------------- MODULE MCDriveWorkspace --------------------------
(* DriveWorkspace on a small instance. *)
EXTENDS DriveWorkspace, TLC

\* Runs are interchangeable.
Symmetry == Permutations(Run)

=============================================================================
