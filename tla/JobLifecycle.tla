---------------------------- MODULE JobLifecycle ----------------------------
(***************************************************************************)
(* What the worker promises the backend about one transcription job: the   *)
(* order of the lifecycle calls JobService makes on it.  A job leaves      *)
(* "pending" once and for good, is completed only when its transcript is   *)
(* stored, and never goes back to work after an end was reported.  An end  *)
(* may be reported again, and may contradict the first: the worker does    *)
(* not read the status before it reports.                                  *)
(***************************************************************************)
VARIABLES
    status,     \* the last lifecycle call the backend has applied
    stored      \* whether the backend holds the transcript

vars == <<status, stored>>

Init ==
    /\ status = "pending"
    /\ stored = FALSE

Advance ==
    /\ status = "pending"
    /\ status' = "processing"
    /\ UNCHANGED stored

Store ==
    /\ status # "pending"
    /\ stored' = TRUE
    /\ UNCHANGED status

Complete ==
    /\ status # "pending"
    /\ stored
    /\ status' = "completed"
    /\ UNCHANGED stored

Fail ==
    /\ status' = "failed"
    /\ UNCHANGED stored

Next ==
    \/ Advance
    \/ Store
    \/ Complete
    \/ Fail

Spec == Init /\ [][Next]_vars

=============================================================================
