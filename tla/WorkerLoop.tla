----------------------------- MODULE WorkerLoop -----------------------------
(***************************************************************************)
(* One prefork child of the worker: the tasks it serves one after another, *)
(* the persistent event loop of services/event_loop.py their coroutines    *)
(* run on, the pool of threads asyncio.to_thread hands blocking calls to,  *)
(* and the limits of core/timeouts.py.                                     *)
(*                                                                         *)
(* A task is a transcription (run_pipeline), a download (run_download),    *)
(* lecture notes (run_notes) or a format probe.  All have the same shape:  *)
(* calls to the backend around blocking work in threads.  What a           *)
(* transcription does inside its strategy, and how it hands its job over   *)
(* to a retry or a webhook, is TranscriptionJob's subject; here it is one  *)
(* wait that its pipeline timeout may end.                                 *)
(*                                                                         *)
(* The soft limit is an exception raised in the main thread wherever that  *)
(* is.  In a coroutine's code it is that coroutine's exception, whichever  *)
(* task the coroutine belongs to.  In the loop's own code it leaves        *)
(* run_until_complete, and the coroutine stays on the loop: it goes on     *)
(* when the next task, or this one's failure report, runs the loop again.  *)
(***************************************************************************)
EXTENDS Naturals, FiniteSets

CONSTANTS
    Job,            \* the tasks' subjects, each published once
    Kinds,          \* what their tasks may be: functions from Job to Kind
    Threads,        \* threads of the loop's default executor
    MaxCrashes      \* bound: crashes of the worker's node

Kind == {"transcription", "download", "notes", "probe"}

ASSUME LoopAssumption ==
    /\ Kinds \subseteq [Job -> Kind]
    /\ Threads \in Nat \ {0}
    /\ MaxCrashes \in Nat

VARIABLES
    kind,       \* what each job's task is
    queue,      \* the messages in the broker
    main,       \* the main thread: idle, in a task, in its failure report
    cur,        \* the job of that task
    soft,       \* whether the task's soft limit has struck
    pc,         \* where each job's coroutine is
    out,        \* how it ended, or will
    thread,     \* its to_thread call, "none" without one
    dir,        \* whether its download directory exists
    rep,        \* the coroutine of fail_download or fail_notes
    status,     \* what the backend was told
    mishap,     \* observed: "lost", a report of the job's end was; "disturbed",
                \* the soft limit or a crash cut into it, or an answer was lost
    crashes

loop == <<main, cur, soft>>
coro == <<pc, out, thread>>
vars == <<kind, queue, loop, coro, dir, rep, status, mishap, crashes>>

None == "none"      \* cur: no task

\* The kinds whose task function reports a failure; a transcription's
\* coroutine does that itself, and nobody does for a probe.
Reporting == {"download", "notes"}

Threaded == {"work", "upload", "clean"}
Phase == {"none", "get", "advance", "ready", "fail", "end"} \cup Threaded
Ends == {"ready", "failed"}

Busy == {j \in Job : thread[j] = "running"}

TypeOK ==
    /\ kind \in [Job -> Kind]
    /\ queue \subseteq Job
    /\ main \in {"idle", "task", "report"}
    /\ cur \in Job \cup {None}
    /\ soft \in BOOLEAN
    /\ pc \in [Job -> Phase]
    /\ out \in [Job -> {"none", "ok", "error"}]
    /\ thread \in [Job -> {"none", "queued", "running", "done", "failed"}]
    /\ Cardinality(Busy) <= Threads
    /\ dir \in [Job -> BOOLEAN]
    /\ rep \in [Job -> {"none", "calling", "done"}]
    /\ status \in [Job -> {"pending", "processing"} \cup Ends]
    /\ mishap \in [Job -> SUBSET {"disturbed", "lost"}]
    /\ crashes \in 0 .. MaxCrashes

Init ==
    /\ kind \in Kinds
    /\ queue = Job
    /\ main = "idle"
    /\ cur = None
    /\ soft = FALSE
    /\ pc = [j \in Job |-> "none"]
    /\ out = [j \in Job |-> "none"]
    /\ thread = [j \in Job |-> "none"]
    /\ dir = [j \in Job |-> FALSE]
    /\ rep = [j \in Job |-> "none"]
    /\ status = [j \in Job |-> "pending"]
    /\ mishap = [j \in Job |-> {}]
    /\ crashes = 0

\* Coroutines take steps only while the main thread runs the loop.
InLoop == main # "idle"
Live(j) == pc[j] \notin {"none", "end"}
Waits(j) == pc[j] \in Threaded /\ thread[j] \in {"queued", "running"}

Flag(j, what) == mishap' = [mishap EXCEPT ![j] = @ \cup {what}]
Tell(j, what) == status' = [status EXCEPT ![j] = what]

-----------------------------------------------------------------------------
(* The child takes a message and runs its task on the loop. *)

Take(j) ==
    /\ main = "idle"
    /\ j \in queue
    /\ queue' = queue \ {j}
    /\ main' = "task"
    /\ cur' = j
    /\ soft' = FALSE
    /\ pc' = [pc EXCEPT ![j] = IF kind[j] = "probe" THEN "work" ELSE "get"]
    /\ out' = [out EXCEPT ![j] = "none"]
    /\ thread' = [thread EXCEPT ![j] = IF kind[j] = "probe" THEN "queued" ELSE "none"]
    /\ rep' = [rep EXCEPT ![j] = "none"]
    /\ UNCHANGED <<kind, dir, status, mishap, crashes>>

\* The child has no task any more.
Leave == main' = "idle" /\ cur' = None /\ soft' = FALSE

\* The task function after its coroutine failed or the soft limit struck.
ShellFails(struck) ==
    IF kind[cur] \in Reporting
    THEN /\ main' = "report"
         /\ rep' = [rep EXCEPT ![cur] = "calling"]
         /\ soft' = struck
         /\ UNCHANGED cur
    ELSE Leave /\ UNCHANGED rep

\* The coroutine has ended and is gone.
Collect ==
    /\ main = "task"
    /\ pc[cur] = "end"
    /\ pc' = [pc EXCEPT ![cur] = "none"]
    /\ out' = [out EXCEPT ![cur] = "none"]

\* Faulty variant: the report is in a finally clause.
FinishReporting ==
    /\ Collect
    /\ ShellFails(soft)
    /\ UNCHANGED <<kind, queue, thread, dir, status, mishap, crashes>>

\* Faulty variant: the task function lets some exceptions pass unreported.
FinishSilent ==
    /\ Collect
    /\ \/ Leave /\ UNCHANGED rep
       \/ out[cur] = "error" /\ ShellFails(soft)
    /\ UNCHANGED <<kind, queue, thread, dir, status, mishap, crashes>>

\* run_until_complete returns what the coroutine returned, or raises what it
\* raised; the task ends, or reports first.
Finish ==
    /\ Collect
    /\ IF out[cur] = "ok" THEN Leave /\ UNCHANGED rep ELSE ShellFails(soft)
    /\ UNCHANGED <<kind, queue, thread, dir, status, mishap, crashes>>

\* fail_download, fail_notes: best-effort.
Report(j) ==
    /\ InLoop
    /\ rep[j] = "calling"
    /\ rep' = [rep EXCEPT ![j] = "done"]
    /\ \/ Tell(j, "failed") /\ UNCHANGED mishap
       \/ Flag(j, "lost") /\ UNCHANGED status
    /\ UNCHANGED <<kind, queue, loop, coro, dir, crashes>>

FinishReport ==
    /\ main = "report"
    /\ rep[cur] = "done"
    /\ Leave
    /\ UNCHANGED <<kind, queue, coro, dir, rep, status, mishap, crashes>>

-----------------------------------------------------------------------------
(* The coroutine of a job. *)

\* It goes on to a phase, which may begin with a to_thread call.
Proceed(j, phase) ==
    /\ pc' = [pc EXCEPT ![j] = phase]
    /\ thread' = [thread EXCEPT ![j] = IF phase \in Threaded THEN "queued" ELSE "none"]

\* An exception leaves its body; run_pipeline catches it to fail the job.
Raise(j) ==
    /\ Proceed(j, IF kind[j] = "transcription" THEN "fail" ELSE "end")
    /\ out' = [out EXCEPT ![j] = "error"]

\* The job, download or notes request is read.
Get(j) ==
    /\ InLoop
    /\ pc[j] = "get"
    /\ \/ Proceed(j, "advance") /\ UNCHANGED out
       \/ Raise(j)
    /\ UNCHANGED <<kind, queue, loop, dir, rep, status, mishap, crashes>>

\* JobService.load advances a job only when it read it as pending.
Skips(j) == kind[j] = "transcription" /\ status[j] # "pending"

\* The job is advanced and the work begins: a download makes its directory,
\* notes call the AI first.
Advance(j) ==
    /\ InLoop
    /\ pc[j] = "advance"
    /\ \/ Skips(j) /\ UNCHANGED status
       \/ ~Skips(j) /\ Tell(j, "processing")
       \/ ~Skips(j) /\ UNCHANGED status /\ Raise(j)
    /\ \/ /\ Proceed(j, "work")
          /\ dir' = [dir EXCEPT ![j] = @ \/ kind[j] = "download"]
          /\ UNCHANGED out
       \/ Raise(j) /\ UNCHANGED dir
    /\ UNCHANGED <<kind, queue, loop, rep, mishap, crashes>>

\* What follows a thread's result.
After(j) ==
    CASE pc[j] = "work" /\ kind[j] \in Reporting -> "upload"
      [] pc[j] = "upload" /\ kind[j] = "download" -> "clean"
      [] OTHER -> "ready"

\* Faulty variant: the directory is removed only on the way to success.
ResumeUnclean(j) ==
    /\ InLoop
    /\ pc[j] \in Threaded
    /\ \/ thread[j] = "done" /\ Proceed(j, After(j)) /\ UNCHANGED out
       \/ thread[j] = "failed" /\ Raise(j)
    /\ UNCHANGED <<kind, queue, loop, dir, rep, status, mishap, crashes>>

\* A thread has returned: the coroutine goes on, or the exception passes
\* through _produce_and_upload's finally, which removes the directory.
Resume(j) ==
    /\ InLoop
    /\ pc[j] \in Threaded
    /\ \/ /\ thread[j] = "done"
          /\ ~(pc[j] = "clean" /\ out[j] = "error")
          /\ Proceed(j, After(j))
          /\ UNCHANGED out
       \/ /\ thread[j] = "failed"
          /\ kind[j] = "download"
          /\ Proceed(j, "clean")
          /\ out' = [out EXCEPT ![j] = "error"]
       \/ /\ \/ thread[j] = "failed" /\ kind[j] # "download"
             \/ thread[j] = "done" /\ pc[j] = "clean" /\ out[j] = "error"
          /\ Raise(j)
    /\ UNCHANGED <<kind, queue, loop, dir, rep, status, mishap, crashes>>

\* The pipeline timeout of a transcription, which the loop keeps; wait_for
\* cancels the coroutine and a call not yet begun, but not a running thread.
Timeout(j) ==
    /\ InLoop
    /\ kind[j] = "transcription"
    /\ pc[j] = "work"
    /\ pc' = [pc EXCEPT ![j] = "fail"]
    /\ out' = [out EXCEPT ![j] = "error"]
    /\ thread' = [thread EXCEPT ![j] = IF @ = "running" THEN @ ELSE "none"]
    /\ UNCHANGED <<kind, queue, loop, dir, rep, status, mishap, crashes>>

\* The result is reported: the transcript, the blob's URL or the formats.
MarkReady(j) ==
    /\ InLoop
    /\ pc[j] = "ready"
    /\ \/ /\ Proceed(j, "end")
          /\ out' = [out EXCEPT ![j] = "ok"]
          /\ Tell(j, "ready")
          /\ UNCHANGED mishap
       \/ Raise(j) /\ Tell(j, "ready") /\ Flag(j, "disturbed")
       \/ Raise(j) /\ UNCHANGED <<status, mishap>>
    /\ UNCHANGED <<kind, queue, loop, dir, rep, crashes>>

\* JobService.fail, best-effort.
FailInside(j) ==
    /\ InLoop
    /\ pc[j] = "fail"
    /\ pc' = [pc EXCEPT ![j] = "end"]
    /\ \/ Tell(j, "failed") /\ UNCHANGED mishap
       \/ Flag(j, "lost") /\ UNCHANGED status
    /\ UNCHANGED <<kind, queue, loop, out, thread, dir, rep, crashes>>

-----------------------------------------------------------------------------
(* The threads. *)

\* Faulty variant: a thread for every call.
StartThreadUnbounded(j) ==
    /\ thread[j] = "queued"
    /\ thread' = [thread EXCEPT ![j] = "running"]
    /\ UNCHANGED <<kind, queue, loop, pc, out, dir, rep, status, mishap, crashes>>

\* A call waits for a thread of the pool.
StartThread(j) ==
    /\ thread[j] = "queued"
    /\ Cardinality(Busy) < Threads
    /\ thread' = [thread EXCEPT ![j] = "running"]
    /\ UNCHANGED <<kind, queue, loop, pc, out, dir, rep, status, mishap, crashes>>

\* It returns, whoever still awaits it; rmtree ignores errors.
EndThread(j) ==
    /\ thread[j] = "running"
    /\ \E result \in IF pc[j] = "clean" THEN {"done"} ELSE {"done", "failed"} :
          thread' = [thread EXCEPT ![j] = IF pc[j] \in Threaded THEN result ELSE "none"]
    /\ dir' = [dir EXCEPT ![j] = @ /\ pc[j] # "clean"]
    /\ UNCHANGED <<kind, queue, loop, pc, out, rep, status, mishap, crashes>>

-----------------------------------------------------------------------------
(* The limits, and the end of the process. *)

\* Faulty variant: the task function reports only the exceptions of the
\* coroutine, and the soft limit is none.
SoftLimitUnreported ==
    /\ InLoop
    /\ ~soft
    /\ Leave
    /\ Flag(cur, IF main = "report" THEN "lost" ELSE "disturbed")
    /\ UNCHANGED <<kind, queue, coro, dir, rep, status, crashes>>

\* The soft limit strikes in the loop's own code: the task's coroutine, or the
\* one of its report, is left as it is.
SoftLimit ==
    /\ InLoop
    /\ ~soft
    /\ IF main = "report" THEN Leave /\ UNCHANGED rep ELSE ShellFails(TRUE)
    /\ Flag(cur, IF main = "report" THEN "lost" ELSE "disturbed")
    /\ UNCHANGED <<kind, queue, coro, dir, status, crashes>>

\* It strikes in the code of a coroutine: before or after the effect of the
\* call it is in, inside or outside of the try with the directory.
SoftLimitInside(j) ==
    /\ InLoop
    /\ ~soft
    /\ Live(j)
    /\ ~Waits(j)
    /\ soft' = TRUE
    /\ \/ /\ pc[j] # "fail"
          /\ Raise(j)
       \/ /\ pc[j] \in {"work", "upload"} /\ kind[j] = "download"
          /\ Proceed(j, "clean")
          /\ out' = [out EXCEPT ![j] = "error"]
       \/ /\ pc[j] = "fail"
          /\ pc' = [pc EXCEPT ![j] = "end"]
          /\ UNCHANGED <<out, thread>>
    /\ \/ UNCHANGED status
       \/ pc[j] = "advance" /\ ~Skips(j) /\ Tell(j, "processing")
       \/ pc[j] = "ready" /\ Tell(j, "ready")
       \/ pc[j] = "fail" /\ Tell(j, "failed")
    /\ \/ UNCHANGED dir
       \/ pc[j] = "advance" /\ kind[j] = "download" /\ dir' = [dir EXCEPT ![j] = TRUE]
    /\ mishap' = [mishap EXCEPT ![j] =
           @ \cup {"disturbed"} \cup IF pc[j] = "fail" THEN {"lost"} ELSE {}]
    /\ UNCHANGED <<kind, queue, main, cur, rep, crashes>>

\* It strikes in the code of a report, which logs it as any failure.
SoftLimitInReport(j) ==
    /\ InLoop
    /\ ~soft
    /\ rep[j] = "calling"
    /\ soft' = TRUE
    /\ rep' = [rep EXCEPT ![j] = "done"]
    /\ \/ UNCHANGED status
       \/ Tell(j, "failed")
    /\ Flag(j, "lost")
    /\ UNCHANGED <<kind, queue, main, cur, coro, dir, crashes>>

\* The process is gone, with its loop and its threads.
NewProcess ==
    /\ Leave
    /\ pc' = [j \in Job |-> "none"]
    /\ out' = [j \in Job |-> "none"]
    /\ thread' = [j \in Job |-> "none"]
    /\ rep' = [j \in Job |-> IF rep[j] = "calling" THEN "none" ELSE rep[j]]
    /\ UNCHANGED <<kind, dir, status>>

Dropped == {j \in Job : Live(j) \/ rep[j] = "calling"}

\* The hard limit kills the child, and the parent acknowledges its message.
HardLimit ==
    /\ InLoop
    /\ soft
    /\ NewProcess
    /\ mishap' = [j \in Job |-> mishap[j] \cup
                     IF j = cur \/ j \in Dropped THEN {"lost"} ELSE {}]
    /\ UNCHANGED <<queue, crashes>>

\* worker_max_tasks_per_child: the child is replaced between two tasks.
Recycle ==
    /\ main = "idle"
    /\ NewProcess
    /\ mishap' = [j \in Job |-> mishap[j] \cup
                     IF j \in Dropped THEN {"lost"} ELSE {}]
    /\ UNCHANGED <<queue, crashes>>

\* The node dies in a task, whose message is delivered again.
NodeCrash ==
    /\ InLoop
    /\ crashes < MaxCrashes
    /\ crashes' = crashes + 1
    /\ NewProcess
    /\ queue' = queue \cup {cur}
    /\ mishap' = [j \in Job |-> mishap[j] \cup
                     IF j = cur THEN {"disturbed"}
                     ELSE IF j \in Dropped THEN {"lost"} ELSE {}]

-----------------------------------------------------------------------------

Coroutine(j) ==
    \/ Get(j)
    \/ Advance(j)
    \/ Resume(j)
    \/ MarkReady(j)
    \/ FailInside(j)

Shell == Finish \/ FinishReport \/ \E j \in Job : Take(j)

Next ==
    \/ Shell
    \/ \E j \in Job : Coroutine(j) \/ Timeout(j) \/ Report(j)
    \/ \E j \in Job : StartThread(j) \/ EndThread(j)
    \/ SoftLimit
    \/ \E j \in Job : SoftLimitInside(j) \/ SoftLimitInReport(j)
    \/ HardLimit
    \/ Recycle
    \/ NodeCrash

Spec == Init /\ [][Next]_vars

\* The loop is fair to its coroutines, HTTP calls time out, and Celery's
\* limits strike.  A thread may hang for ever.
Fairness ==
    /\ WF_vars(Shell)
    /\ \A j \in Job : WF_vars(Coroutine(j)) /\ WF_vars(Report(j))
    /\ WF_vars(SoftLimit)
    /\ WF_vars(HardLimit)

FairSpec == Spec /\ Fairness

-----------------------------------------------------------------------------
(* Properties. *)

\* A job whose message was taken is still worked on, or the backend was told
\* of its end, or the report of it was lost: no task ends unreported.  A
\* coroutine the soft limit left behind may speak after the report, and take
\* the job back to "processing".  (A probe has nothing to report.)
NothingDropped ==
    \A j \in Job :
        \/ j \in queue
        \/ main # "idle" /\ cur = j
        \/ Live(j)
        \/ rep[j] # "none"
        \/ status[j] \in Ends
        \/ "lost" \in mishap[j]
        \/ kind[j] = "probe"

\* The end a job was given is not taken back, unless the soft limit cut into
\* it, the answer to the report got lost, or a crash had it done again.
EndStays ==
    [][ \A j \in Job : status[j] \in Ends /\ status'[j] # status[j] =>
          "disturbed" \in mishap'[j] ]_vars

\* _produce_and_upload leaves no directory behind, whatever fails in it; only
\* the limits and a crash can.
WorkspaceReclaimed ==
    \A j \in Job : dir[j] =>
        \/ pc[j] \in Threaded
        \/ mishap[j] # {}

\* Whatever hangs, the end of a download or notes request gets reported: the
\* soft limit, an Exception to the task function, makes it report.
EndReported ==
    \A j \in Job :
        <>(status[j] \in Ends \/ "lost" \in mishap[j] \/ kind[j] \notin Reporting)

=============================================================================
