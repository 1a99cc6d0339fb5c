---------------------------- MODULE BackendCalls ----------------------------
(***************************************************************************)
(* What the worker may rely on when it calls the backend: one call at a    *)
(* time; a call that returns well has been applied, one that fails may     *)
(* have been; and a request of a call that is over may still arrive, after *)
(* the requests of later calls.                                            *)
(***************************************************************************)
CONSTANTS
    Call,       \* the calls a task makes
    None        \* no call

VARIABLES
    call,       \* the call in progress
    result,     \* what the last one returned, "none" while one is in progress
    loose,      \* calls that are over with a request still on its way
    applied,    \* the calls the backend has applied
    last        \* the one it has applied last

vars == <<call, result, loose, applied, last>>

Init ==
    /\ call = None
    /\ result = "none"
    /\ loose = {}
    /\ applied = {}
    /\ last = None

Issue(c) ==
    /\ call = None
    /\ call' = c
    /\ result' = "none"
    /\ UNCHANGED <<loose, applied, last>>

Apply(c) ==
    /\ applied' = applied \cup {c}
    /\ last' = c
    /\ UNCHANGED <<call, result>>

\* The call in progress reaches the backend, or a late request of another.
Arrive ==
    \/ call # None /\ Apply(call) /\ UNCHANGED loose
    \/ \E c \in loose : Apply(c) /\ loose' \in {loose, loose \ {c}}

Return(answer) ==
    /\ call # None
    /\ call' = None
    /\ result' = answer
    /\ loose' \in {loose, loose \cup {call}}
    /\ UNCHANGED <<applied, last>>

Succeed == call \in applied /\ Return("ok")

Fail == Return("error")

Next ==
    \/ \E c \in Call : Issue(c)
    \/ Arrive
    \/ Succeed
    \/ Fail

Spec == Init /\ [][Next]_vars

=============================================================================
