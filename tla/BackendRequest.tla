--------------------------- MODULE BackendRequest ---------------------------
(***************************************************************************)
(* BackendClient._request: a call to the backend is tried up to MaxRetries *)
(* times.  A try that times out, loses its connection or is answered with  *)
(* a transient status is repeated after a delay; any other error status    *)
(* ends the call at once.  Giving a try up does not stop its request: the  *)
(* backend, which is external to this code, may apply it much later.       *)
(***************************************************************************)
EXTENDS Naturals

CONSTANTS
    Call,           \* the calls of one task, each made at most once
    None,           \* no call
    MaxRetries      \* tries of a call

ASSUME RequestAssumption ==
    /\ None \notin Call
    /\ MaxRetries \in Nat \ {0}

VARIABLES
    call,       \* the call in progress, or the last one
    phase,      \* its request: idle, sent, or waiting for the next try
    attempt,    \* its tries so far
    reached,    \* whether the backend has applied the current try
    result,     \* what the last call returned, "none" while one is in progress
    given,      \* the calls with a try given up before it was applied
    flight,     \* those of them with such a request still on its way
    applied,    \* the calls the backend has applied
    last,       \* the one it has applied last
    issued      \* the calls made

request == <<call, phase, attempt, reached, result>>
backend == <<given, flight, applied, last>>
calls == <<request, backend, issued>>

TypeOK ==
    /\ call \in Call \cup {None}
    /\ phase \in {"idle", "sent", "backoff"}
    /\ attempt \in 0 .. MaxRetries
    /\ reached \in BOOLEAN
    /\ result \in {"none", "ok", "error"}
    /\ given \subseteq issued
    /\ flight \subseteq given
    /\ applied \subseteq Call
    /\ last \in Call \cup {None}
    /\ issued \subseteq Call

Init ==
    /\ call = None
    /\ phase = "idle"
    /\ attempt = 0
    /\ reached = FALSE
    /\ result = "none"
    /\ given = {}
    /\ flight = {}
    /\ applied = {}
    /\ last = None
    /\ issued = {}

-----------------------------------------------------------------------------

Send(n) ==
    /\ phase' = "sent"
    /\ attempt' = n
    /\ reached' = FALSE

Issue(c) ==
    /\ phase = "idle"
    /\ c \notin issued
    /\ Send(1)
    /\ call' = c
    /\ result' = "none"
    /\ issued' = issued \cup {c}
    /\ UNCHANGED backend

Apply(c) == applied' = applied \cup {c} /\ last' = c

\* The request of the current try arrives ...
Reach ==
    /\ phase = "sent"
    /\ ~reached
    /\ reached' = TRUE
    /\ Apply(call)
    /\ UNCHANGED <<call, phase, attempt, result, given, flight, issued>>

\* ... or one that nobody waits for any more.
ReachLate ==
    \E c \in flight :
        /\ flight' \in {flight, flight \ {c}}
        /\ Apply(c)
        /\ UNCHANGED <<request, given, issued>>

Return(answer) ==
    /\ phase' = "idle"
    /\ attempt' = 0
    /\ reached' = FALSE
    /\ result' = answer
    /\ UNCHANGED call

\* Faulty variant: the answer is not waited for.
AnswerUnread ==
    /\ phase = "sent"
    /\ Return("ok")
    /\ UNCHANGED <<backend, issued>>

\* A status below 400, with a body that parses.
Answer ==
    /\ phase = "sent"
    /\ reached
    /\ Return("ok")
    /\ UNCHANGED <<backend, issued>>

\* Any other status, or a body that does not parse, ends the call.
Refuse ==
    /\ phase = "sent"
    /\ Return("error")
    /\ UNCHANGED <<backend, issued>>

\* The client gives the try up: its request, unless the backend has had it, may
\* be on its way or lost.
GiveUp ==
    /\ given' = IF reached THEN given ELSE given \cup {call}
    /\ flight' \in {flight} \cup IF reached THEN {} ELSE {flight \cup {call}}

\* Faulty variant: the loop counts one try too many.
TryFailsOffByOne ==
    /\ phase = "sent"
    /\ GiveUp
    /\ IF attempt <= MaxRetries
       THEN phase' = "backoff" /\ UNCHANGED <<call, attempt, reached, result>>
       ELSE Return("error")
    /\ UNCHANGED <<applied, last, issued>>

\* A network error, the client's own timeout included, or one of
\* _RETRYABLE_STATUS_CODES; a gateway's 502 or 504 tells nothing of the request.
TryFails ==
    /\ phase = "sent"
    /\ GiveUp
    /\ IF attempt < MaxRetries
       THEN phase' = "backoff" /\ UNCHANGED <<call, attempt, reached, result>>
       ELSE Return("error")
    /\ UNCHANGED <<applied, last, issued>>

\* The next try, after _retry_delay.
Resend ==
    /\ phase = "backoff"
    /\ Send(attempt + 1)
    /\ UNCHANGED <<call, result, backend, issued>>

\* The coroutine that waits is left or killed, by a limit or a crash.
Cut ==
    /\ IF phase = "sent" THEN GiveUp ELSE UNCHANGED <<given, flight>>
    /\ IF phase = "idle" THEN UNCHANGED request ELSE Return("error")
    /\ UNCHANGED <<applied, last, issued>>

Next ==
    \/ \E c \in Call : Issue(c)
    \/ Reach
    \/ ReachLate
    \/ Answer
    \/ Refuse
    \/ TryFails
    \/ Resend
    \/ Cut

Spec == Init /\ [][Next]_calls

-----------------------------------------------------------------------------
(* Properties. *)

\* When a call has returned well, it is the last the backend has applied,
\* unless the request of a try that was given up came after it.
Acknowledged ==
    result = "ok" => last = call \/ last \in given

\* BackendClient implements what its callers rely on.
Abstract == INSTANCE BackendCalls WITH
    call <- IF phase = "idle" THEN None ELSE call,
    loose <- flight \ (IF phase = "idle" THEN {} ELSE {call})
CallsSpec == Abstract!Spec

=============================================================================
