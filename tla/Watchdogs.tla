----------------------------- MODULE Watchdogs -----------------------------
(***************************************************************************)
(* The ladder of core/timeouts.py against the clock: one task, its calls   *)
(* to the backend (BackendRequest), and the three limits that may end it.  *)
(*                                                                         *)
(* The pipeline timeout counts from the end of the load, and only around   *)
(* the work of a transcription; the soft and the hard limit count from the *)
(* start of the task, with the load and the reports inside them.  Work may *)
(* take any time, for ever included.  Reports and steps of the code take   *)
(* none, except for the calls they make.                                   *)
(***************************************************************************)
EXTENDS Integers, BackendRequest

CONSTANTS
    Budget,     \* job_timeout_seconds, in ticks of the clock
    Margin,     \* _SOFT_LIMIT_MARGIN_SECONDS
    Graces,     \* the values task_timeout_grace_seconds may have
    Timeout,    \* _REQUEST_TIMEOUT_SECONDS
    Delay       \* _RETRY_BACKOFF_MAX_SECONDS

ASSUME ClockAssumption ==
    /\ Budget \in Nat \ {0} /\ Margin \in Nat \ {0}
    /\ Graces \subseteq Nat \ {0}
    /\ Timeout \in Nat /\ Delay \in Nat
    /\ {"get", "advance", "store", "complete", "fail"} \subseteq Call

VARIABLES
    kind,       \* a transcription, or a download or notes request
    grace,      \* the configured grace
    step,       \* what the task does
    end,        \* how it ended
    struck,     \* whether the soft limit has struck
    now,        \* ticks since it started
    until,      \* when its wait for a try, a delay or the work ends at the
                \* latest; NoLimit without a limit of its own
    slow,       \* observed: the ticks it has waited for the backend, up to Margin
    trouble     \* observed: whether a try has failed

clock == <<now, until, slow>>
setting == <<kind, grace>>
vars == <<calls, setting, step, end, struck, clock, trouble>>

Soft == Budget + Margin
Hard == Budget + grace
NoLimit == Hard + Budget + Timeout + Delay      \* later than any deadline

ClockTypeOK ==
    /\ TypeOK
    /\ kind \in {"transcription", "download"}
    /\ grace \in Graces
    /\ step \in {"load", "work", "submit", "fail"}
    /\ end \in {"running", "completed", "failed", "left", "killed"}
    /\ struck \in BOOLEAN
    /\ now \in 0 .. Hard
    /\ until \in 0 .. NoLimit
    /\ slow \in 0 .. Margin
    /\ trouble \in BOOLEAN

ClockInit ==
    /\ Init
    /\ kind \in {"transcription", "download"}
    /\ grace \in Graces
    /\ step = "load"
    /\ end = "running"
    /\ struck = FALSE
    /\ now = 0
    /\ until = NoLimit
    /\ slow = 0
    /\ trouble = FALSE

Running == end = "running"

\* What a step of the task leaves alone.
Quiet == UNCHANGED <<setting, struck, now, slow>>

-----------------------------------------------------------------------------
(* The calls. *)

\* The calls of a step, one after another: a download is reported ready in one
\* call, a transcript is stored first, and a job is advanced once.
NextCall(c) ==
    \/ step = "load" /\ c = "get"
    \/ step = "load" /\ c = "advance" /\ call = "get" /\ result = "ok"
    \/ step = "submit" /\ c = "store" /\ kind = "transcription"
    \/ /\ step = "submit" /\ c = "complete"
       /\ kind = "download" \/ (call = "store" /\ result = "ok")
    \/ step = "fail" /\ c = "fail"

Ask(c) ==
    /\ Running
    /\ NextCall(c)
    /\ Issue(c)
    /\ until' = now + Timeout
    /\ Quiet /\ UNCHANGED <<step, end, trouble>>

Arrive == (Reach \/ ReachLate) /\ UNCHANGED <<setting, step, end, struck, clock, trouble>>

Answered ==
    /\ Running
    /\ Answer
    /\ until' = NoLimit
    /\ Quiet /\ UNCHANGED <<step, end, trouble>>

\* The try fails, perhaps for the time it takes, or the call is refused.
Failed ==
    /\ Running
    /\ TryFails \/ Refuse
    /\ until' = IF phase' = "idle" THEN NoLimit ELSE now + Delay
    /\ trouble' = TRUE
    /\ Quiet /\ UNCHANGED <<step, end>>

Again ==
    /\ Running
    /\ Resend
    /\ until' = now + Timeout
    /\ Quiet /\ UNCHANGED <<step, end, trouble>>

-----------------------------------------------------------------------------
(* The task. *)

Go(next, limit) ==
    /\ step' = next
    /\ until' = limit
    /\ UNCHANGED <<calls, end, trouble>> /\ Quiet

Loaded == step = "load" /\ phase = "idle" /\ result = "ok" /\ call \in {"get", "advance"}

\* Faulty variant: the margin is given to the pipeline timeout.
StartWorkLate ==
    /\ Running
    /\ Loaded
    /\ Go("work", IF kind = "transcription" THEN now + Budget + Margin ELSE NoLimit)

\* The job is loaded, advanced or not pending any more: the work begins.
StartWork ==
    /\ Running
    /\ Loaded
    /\ Go("work", IF kind = "transcription" THEN now + Budget ELSE NoLimit)

EndWork ==
    /\ Running
    /\ step = "work"
    /\ \E next \in {"submit", "fail"} : Go(next, NoLimit)

\* wait_for in run_pipeline.
PipelineTimeout ==
    /\ Running
    /\ kind = "transcription" /\ step = "work"
    /\ now >= until
    /\ Go("fail", NoLimit)

\* A call of the load or of the submission has failed.
CallFailed ==
    /\ Running
    /\ step \in {"load", "submit"}
    /\ phase = "idle" /\ result = "error"
    /\ Go("fail", NoLimit)

Over(how) ==
    /\ end' = how
    /\ until' = NoLimit
    /\ UNCHANGED <<setting, step, now, slow, trouble>>

\* The job is completed, or its failure reported, which is best-effort.
Finish ==
    /\ Running
    /\ phase = "idle"
    /\ \/ call = "complete" /\ result = "ok" /\ Over("completed")
       \/ call = "fail" /\ result # "none" /\ Over("failed")
    /\ UNCHANGED <<calls, struck>>

-----------------------------------------------------------------------------
(* The limits of the task and the clock. *)

\* Faulty variant: the task functions of downloads and notes do not report it.
SoftLimitSilent ==
    /\ Running
    /\ ~struck /\ now >= Soft
    /\ struck' = TRUE
    /\ Cut
    /\ Over("left")

\* Raised in the loop's own code the soft limit leaves the coroutine, and a
\* transcription, whose failure only its coroutine reports; the task function
\* reports a download.  Raised in the code of the coroutine it fails the job.
SoftLimit ==
    /\ Running
    /\ ~struck /\ now >= Soft
    /\ struck' = TRUE
    /\ Cut
    /\ \/ /\ kind = "transcription" \/ step = "fail"
          /\ Over("left")
       \/ /\ step # "fail"
          /\ step' = "fail"
          /\ until' = NoLimit
          /\ UNCHANGED <<setting, end, now, slow, trouble>>

HardLimit ==
    /\ Running
    /\ now >= Hard
    /\ Cut
    /\ Over("killed")
    /\ UNCHANGED struck

\* Time passes while the task waits, up to the next deadline.
Tick ==
    /\ Running
    /\ step = "work" \/ phase # "idle"
    /\ now < until
    /\ ~struck => now < Soft
    /\ now < Hard
    /\ now' = now + 1
    /\ slow' = IF phase # "idle" /\ slow < Margin THEN slow + 1 ELSE slow
    /\ UNCHANGED <<calls, setting, step, end, struck, until, trouble>>

ClockNext ==
    \/ \E c \in Call : Ask(c)
    \/ Arrive
    \/ Answered
    \/ Failed
    \/ Again
    \/ StartWork
    \/ EndWork
    \/ PipelineTimeout
    \/ CallFailed
    \/ Finish
    \/ SoftLimit
    \/ HardLimit
    \/ Tick

ClockSpec == ClockInit /\ [][ClockNext]_vars

-----------------------------------------------------------------------------
(* Properties. *)

\* "Must be the first watchdog to fire": the soft limit finds a transcription
\* still at work only when the load alone has taken up the margin.
PipelineFirst ==
    [][ struck' /\ ~struck /\ kind = "transcription" /\ step = "work"
          => slow >= Margin ]_vars

\* What is left for the calls: the margin for those of a transcription, and the
\* grace after the soft limit for the report of a download.
Slack == IF Margin < grace - Margin THEN Margin ELSE grace - Margin

\* "Leaves room": whatever the work does, and whichever limit ends it, the
\* backend is told of an end when no try fails and the calls fit in the slack.
\* Only the report of a download can be lost all the same: when the work fails
\* so late that the soft limit finds the report under way, and ends it.
ReportFits ==
    end # "running" /\ ~trouble /\ slow < Slack =>
        \/ last \in {"complete", "fail"}
        \/ kind = "download" /\ end = "left" /\ step = "fail"

=============================================================================
