-------------------------- MODULE TranscriptionJob --------------------------
(***************************************************************************)
(* One transcription job of the worker: the Celery task                    *)
(* download_and_transcribe, the pipeline it runs, the lifecycle calls it   *)
(* makes on the backend, the Assembly cloud jobs it submits and polls, and *)
(* the broker that delivers, keeps and redelivers its messages.            *)
(*                                                                         *)
(* Jobs share nothing in the backend or the broker, so one job shows every *)
(* interleaving; the file two jobs for one video do share is AudioCache's  *)
(* subject.  A worker is a prefork child, which runs one task at a time.   *)
(* A backend call is one step with three outcomes (applied, applied but    *)
(* its answer lost, not applied): what BackendClient._request's three      *)
(* tries amount to.                                                        *)
(***************************************************************************)
EXTENDS Naturals, FiniteSets

CONSTANTS
    Worker,             \* prefork children that may run this job's messages
    CloudId,            \* transcript ids Assembly can hand out
    NoToken,            \* the empty resume_token
    CloudJobAttempts,   \* _CLOUD_JOB_ATTEMPTS of tasks/transcription.py (9)
    RetryAttempts,      \* _RETRY_ATTEMPTS of providers/audio_jobs.py (3)
    MaxCrashes          \* bound: crashes of a worker node

ASSUME ConstantsAssumption ==
    /\ NoToken \notin CloudId
    /\ CloudJobAttempts \in Nat \ {0}
    /\ RetryAttempts \in Nat \ {0}
    /\ MaxCrashes \in Nat

VARIABLES
    leaf,       \* SPEECH_TO_TEXT_PROVIDER: the audio leaf in use
    webhook,    \* whether ASSEMBLY_WEBHOOK_BASE_URL is configured
    queue,      \* [Message -> Nat]: copies of each message in the broker
    pc,         \* where each worker is in the task
    msg,        \* the unacknowledged message each worker holds
    attempt,    \* the attempt of run_transcription_attempts it is in
    token,      \* the cloud job it is polling, or NoToken
    cloud,      \* Assembly's state of each cloud job
    hook,       \* the completion callback of each cloud job
    status,     \* the last lifecycle call the backend has applied
    stored,     \* whether the backend holds the transcript
    cached,     \* whether the transcript cache holds the transcript
    crashes,    \* crashes so far
    mishaps     \* observed: a report, a publish or a child was lost ("loss"),
                \* or the answer to a completion ("answer_lost")

config  == <<leaf, webhook>>
process == <<pc, msg, attempt, token>>
clouds  == <<cloud, hook>>
backend == <<status, stored>>
vars == <<config, queue, process, clouds, backend, cached, crashes, mishaps>>

Token   == CloudId \cup {NoToken}
Message == [retries : 0 .. CloudJobAttempts, token : Token]

\* The phases of an attempt inside asyncio.wait_for ...
Timed == {"lookup", "media", "captions", "leaf", "poll"}
\* ... and those in which the task still owes the job a report.
Running == Timed \cup
           {"load", "advance", "store", "complete", "fail", "pending", "retry"}
Phase == Running \cup {"idle", "ack"}
Terminal == {"completed", "failed"}

TypeOK ==
    /\ leaf \in {"assembly", "deepgram"}
    /\ webhook \in BOOLEAN
    /\ queue \in [Message -> Nat]
    /\ pc \in [Worker -> Phase]
    /\ msg \in [Worker -> Message]
    /\ attempt \in [Worker -> 1 .. RetryAttempts]
    /\ token \in [Worker -> Token]
    /\ cloud \in [CloudId -> {"none", "processing", "completed", "error"}]
    /\ hook \in [CloudId -> {"off", "armed", "fired"}]
    /\ status \in {"pending", "processing"} \cup Terminal
    /\ stored \in BOOLEAN
    /\ cached \in BOOLEAN
    /\ crashes \in 0 .. MaxCrashes
    /\ mishaps \subseteq {"loss", "answer_lost"}

\* The backend publishes a job once, as a first message without a token.
FreshMessage == [retries |-> 0, token |-> NoToken]

Init ==
    /\ leaf \in {"assembly", "deepgram"}
    /\ webhook \in BOOLEAN
    /\ queue = [m \in Message |-> IF m = FreshMessage THEN 1 ELSE 0]
    /\ pc = [w \in Worker |-> "idle"]
    /\ msg = [w \in Worker |-> FreshMessage]
    /\ attempt = [w \in Worker |-> 1]
    /\ token = [w \in Worker |-> NoToken]
    /\ cloud = [c \in CloudId |-> "none"]
    /\ hook = [c \in CloudId |-> "off"]
    /\ status = "pending"
    /\ stored = FALSE
    /\ cached \in BOOLEAN   \* another job for the video may have cached it
    /\ crashes = 0
    /\ mishaps = {}

-----------------------------------------------------------------------------
(* The broker and the task's frame. *)

Goto(w, phase) == pc' = [pc EXCEPT ![w] = phase]
Publish(m) == queue' = [queue EXCEPT ![m] = @ + 1]

\* The worker holds no message any more.
Idle(w) ==
    /\ Goto(w, "idle")
    /\ msg' = [msg EXCEPT ![w] = FreshMessage]
    /\ attempt' = [attempt EXCEPT ![w] = 1]
    /\ token' = [token EXCEPT ![w] = NoToken]

\* A worker takes a message off the queue; it stays unacknowledged
\* (task_acks_late) until the task ends.
Deliver(w, m) ==
    /\ pc[w] = "idle"
    /\ queue[m] > 0
    /\ queue' = [queue EXCEPT ![m] = @ - 1]
    /\ msg' = [msg EXCEPT ![w] = m]
    /\ attempt' = [attempt EXCEPT ![w] = 1]
    /\ token' = [token EXCEPT ![w] = m.token]
    /\ Goto(w, "load")
    /\ UNCHANGED <<config, clouds, backend, cached, crashes, mishaps>>

\* The task has ended, with a value or an exception: its message is
\* acknowledged either way (task_acks_on_failure_or_timeout is the default).
Ack(w) ==
    /\ pc[w] = "ack"
    /\ Idle(w)
    /\ UNCHANGED <<config, queue, clouds, backend, cached, crashes, mishaps>>

-----------------------------------------------------------------------------
(* run_pipeline: load, perform under wait_for, submit, or fail. *)

\* Faulty variant: the status the job was read with is ignored.
LoadJobUnchecked(w) ==
    /\ pc[w] = "load"
    /\ Goto(w, "advance") \/ Goto(w, "fail")
    /\ UNCHANGED <<config, queue, msg, attempt, token, clouds, backend,
                   cached, crashes, mishaps>>

\* JobService.load reads the job ...
LoadJob(w) ==
    /\ pc[w] = "load"
    /\ \/ Goto(w, IF status = "pending" THEN "advance" ELSE "lookup")
       \/ Goto(w, "fail")
    /\ UNCHANGED <<config, queue, msg, attempt, token, clouds, backend,
                   cached, crashes, mishaps>>

\* ... and advances one it read as pending, in a second call.
AdvanceJob(w) ==
    /\ pc[w] = "advance"
    /\ \/ Goto(w, "lookup") /\ status' = "processing"
       \/ Goto(w, "fail") /\ status' \in {status, "processing"}
    /\ UNCHANGED <<config, queue, msg, attempt, token, clouds, stored,
                   cached, crashes, mishaps>>

\* The strategy is resolved and its transcript cache read; a read that fails
\* or finds an expired entry is a miss.
LookupCache(w) ==
    /\ pc[w] = "lookup"
    /\ \/ cached /\ Goto(w, "store")
       \/ Goto(w, "media")
       \/ Goto(w, "fail")
    /\ UNCHANGED <<config, queue, msg, attempt, token, clouds, backend,
                   cached, crashes, mishaps>>

\* Faulty variant: the pending signal keeps the leaf's name, so the strategy
\* does not recognise its own token (what strategy_pending prevents).
ResumeTokenDropped(m) == NoToken

\* try_provider's choice of what to hand the strategy: the resume token of
\* the message, its provider name being the strategy's own (strategy_pending).
ResumeToken(m) == m.token

\* Title and duration, or the Drive media: a resume fetches them again, since
\* the media cache is filled only after a transcript.
FetchMedia(w) ==
    /\ pc[w] = "media"
    /\ \/ Goto(w, IF ResumeToken(msg[w]) = NoToken THEN "captions" ELSE "poll")
       \/ Goto(w, "fail")
    /\ UNCHANGED <<config, queue, msg, attempt, token, clouds, backend,
                   cached, crashes, mishaps>>

\* A transcript was obtained; the cache write is best-effort.
Transcribed(w) ==
    /\ Goto(w, "store")
    /\ cached' \in {cached, TRUE}

\* The caption fast path; a captionless source always misses.
TryCaptions(w) ==
    /\ pc[w] = "captions"
    /\ \/ Transcribed(w)
       \/ Goto(w, "leaf") /\ UNCHANGED cached
       \/ Goto(w, "fail") /\ UNCHANGED cached
    /\ UNCHANGED <<config, queue, msg, attempt, token, clouds, backend,
                   crashes, mishaps>>

\* The pipeline timeout cancels the attempt wherever it is inside wait_for.
Timeout(w) ==
    /\ pc[w] \in Timed
    /\ Goto(w, "fail")
    /\ UNCHANGED <<config, queue, msg, attempt, token, clouds, backend,
                   cached, crashes, mishaps>>

-----------------------------------------------------------------------------
(* run_transcription_attempts over the audio leaf. *)

\* Faulty variant: one attempt too many.
SoftFailureOffByOne(w) ==
    IF attempt[w] <= RetryAttempts
    THEN /\ attempt' = [attempt EXCEPT ![w] = @ + 1]
         /\ Goto(w, IF ResumeToken(msg[w]) = NoToken THEN "leaf" ELSE "poll")
    ELSE Goto(w, "fail") /\ UNCHANGED attempt

\* An ExternalServiceError: try again while attempts remain, a resume by
\* polling its job and a fresh run by submitting another.
SoftFailure(w) ==
    IF attempt[w] < RetryAttempts
    THEN /\ attempt' = [attempt EXCEPT ![w] = @ + 1]
         /\ Goto(w, IF ResumeToken(msg[w]) = NoToken THEN "leaf" ELSE "poll")
    ELSE Goto(w, "fail") /\ UNCHANGED attempt

\* Deepgram answers in the same call; a permanent failure is not retried.
TranscribeNow(w) ==
    /\ pc[w] = "leaf"
    /\ leaf = "deepgram"
    /\ \/ Transcribed(w) /\ UNCHANGED attempt
       \/ SoftFailure(w) /\ UNCHANGED cached
       \/ Goto(w, "fail") /\ UNCHANGED <<attempt, cached>>
    /\ UNCHANGED <<config, queue, msg, token, clouds, backend, crashes, mishaps>>

\* Assembly: the audio is acquired, uploaded and submitted.  Without a new
\* cloud job the attempt failed softly, or by an httpx error no one converts.
SubmitNothing(w) ==
    /\ pc[w] = "leaf"
    /\ leaf = "assembly"
    /\ \/ SoftFailure(w)
       \/ Goto(w, "fail") /\ UNCHANGED attempt
    /\ UNCHANGED <<config, queue, msg, token, clouds, backend, cached,
                   crashes, mishaps>>

\* Faulty variant: the callback URL goes with the first attempt only.
SubmitAudioArmedOnce(w, c) ==
    /\ pc[w] = "leaf"
    /\ leaf = "assembly"
    /\ cloud[c] = "none"
    /\ cloud' = [cloud EXCEPT ![c] = "processing"]
    /\ hook' = [hook EXCEPT ![c] =
                   IF webhook /\ attempt[w] = 1 THEN "armed" ELSE "off"]
    /\ Goto(w, "poll")
    /\ token' = [token EXCEPT ![w] = c]
    /\ UNCHANGED <<config, queue, msg, attempt, backend, cached, crashes, mishaps>>

\* The cloud job exists, its callback armed when a webhook is configured,
\* whether or not the answer with its id arrives.
SubmitAudio(w, c) ==
    /\ pc[w] = "leaf"
    /\ leaf = "assembly"
    /\ cloud[c] = "none"
    /\ cloud' = [cloud EXCEPT ![c] = "processing"]
    /\ hook' = [hook EXCEPT ![c] = IF webhook THEN "armed" ELSE "off"]
    /\ \/ /\ Goto(w, "poll")
          /\ token' = [token EXCEPT ![w] = c]
          /\ UNCHANGED attempt
       \/ SoftFailure(w) /\ UNCHANGED token
       \/ Goto(w, "fail") /\ UNCHANGED <<attempt, token>>
    /\ UNCHANGED <<config, queue, msg, backend, cached, crashes, mishaps>>

\* One status check of the cloud job.
PollJob(w) ==
    /\ pc[w] = "poll"
    /\ \/ /\ cloud[token[w]] = "completed"
          /\ Transcribed(w)
          /\ UNCHANGED attempt
       \/ /\ cloud[token[w]] = "processing"
          /\ Goto(w, "pending")
          /\ UNCHANGED <<attempt, cached>>
       \/ SoftFailure(w) /\ UNCHANGED cached  \* status "error", or a bad answer
       \/ Goto(w, "fail") /\ UNCHANGED <<attempt, cached>>   \* httpx error
    /\ UNCHANGED <<config, queue, msg, token, clouds, backend, crashes, mishaps>>

-----------------------------------------------------------------------------
(* The task on TranscriptJobPending, and the reports. *)

\* exc.webhook: the callback was armed by this run's own submission.
Armed(w) == webhook /\ ResumeToken(msg[w]) = NoToken

\* Faulty variant: the budget is compared with Celery's max_retries.
DecidePendingOffByOne(w) ==
    /\ pc[w] = "pending"
    /\ \/ Armed(w) /\ Goto(w, "ack")
       \/ /\ ~Armed(w)
          /\ Goto(w, IF msg[w].retries >= CloudJobAttempts THEN "fail" ELSE "retry")
    /\ UNCHANGED <<config, queue, msg, attempt, token, clouds, backend,
                   cached, crashes, mishaps>>

\* Faulty variant: no budget of the task's own, only Celery's.
DecidePendingUnbudgeted(w) ==
    /\ pc[w] = "pending"
    /\ Goto(w, IF Armed(w) THEN "ack" ELSE "retry")
    /\ UNCHANGED <<config, queue, msg, attempt, token, clouds, backend,
                   cached, crashes, mishaps>>

\* End on an armed webhook, fail on an exhausted budget, or retry.
DecidePending(w) ==
    /\ pc[w] = "pending"
    /\ \/ Armed(w) /\ Goto(w, "ack")
       \/ /\ ~Armed(w)
          /\ Goto(w, IF msg[w].retries >= CloudJobAttempts - 1
                     THEN "fail" ELSE "retry")
    /\ UNCHANGED <<config, queue, msg, attempt, token, clouds, backend,
                   cached, crashes, mishaps>>

\* Faulty variant: the attempt is reported as failed although it is retried.
RetryThenFail(w) ==
    /\ pc[w] = "retry"
    /\ Goto(w, "fail")
    /\ Publish([retries |-> msg[w].retries + 1, token |-> token[w]])
    /\ UNCHANGED <<config, msg, attempt, token, clouds, backend, cached,
                   crashes, mishaps>>

\* Faulty variant: the task is published anew, its retry count lost.
RetryUncounted(w) ==
    /\ pc[w] = "retry"
    /\ Goto(w, "ack")
    /\ Publish([retries |-> 0, token |-> token[w]])
    /\ UNCHANGED <<config, msg, attempt, token, clouds, backend, cached,
                   crashes, mishaps>>

\* self.retry publishes the next message with the job's token; Celery itself
\* refuses one past max_retries, and a publish that fails drops the task.
Retry(w) ==
    /\ pc[w] = "retry"
    /\ Goto(w, "ack")
    /\ \/ /\ IF msg[w].retries < CloudJobAttempts
             THEN Publish([retries |-> msg[w].retries + 1, token |-> token[w]])
             ELSE UNCHANGED queue
          /\ UNCHANGED mishaps
       \/ /\ mishaps' = mishaps \cup {"loss"}
          /\ UNCHANGED queue
    /\ UNCHANGED <<config, msg, attempt, token, clouds, backend, cached, crashes>>

\* JobService.submit: store the transcript ...
StoreTranscript(w) ==
    /\ pc[w] = "store"
    /\ \/ Goto(w, "complete") /\ stored' = TRUE
       \/ Goto(w, "fail") /\ stored' \in {stored, TRUE}
    /\ UNCHANGED <<config, queue, msg, attempt, token, clouds, status,
                   cached, crashes, mishaps>>

\* ... then mark the job completed.  An answer lost three times makes the
\* pipeline fail a job the backend has completed.
CompleteJob(w) ==
    /\ pc[w] = "complete"
    /\ \/ /\ Goto(w, "ack")
          /\ status' = "completed"
          /\ UNCHANGED mishaps
       \/ /\ Goto(w, "fail")
          /\ status' = "completed"
          /\ mishaps' = mishaps \cup {"answer_lost"}
       \/ Goto(w, "fail") /\ UNCHANGED <<status, mishaps>>
    /\ UNCHANGED <<config, queue, msg, attempt, token, clouds, stored,
                   cached, crashes>>

\* JobService.fail / fail_job, best-effort: an error of the call is logged.
FailJob(w) ==
    /\ pc[w] = "fail"
    /\ Goto(w, "ack")
    /\ \/ status' = "failed" /\ UNCHANGED mishaps
       \/ mishaps' = mishaps \cup {"loss"} /\ UNCHANGED status
    /\ UNCHANGED <<config, queue, msg, attempt, token, clouds, stored,
                   cached, crashes>>

-----------------------------------------------------------------------------
(* The environment. *)

\* Assembly finishes a cloud job.
CloudSettle(c) ==
    /\ cloud[c] = "processing"
    /\ \E s \in {"completed", "error"} : cloud' = [cloud EXCEPT ![c] = s]
    /\ UNCHANGED <<config, queue, process, hook, backend, cached, crashes, mishaps>>

\* Assembly calls the armed webhook of a finished job once, and the backend
\* publishes a message that resumes it.
FireWebhook(c) ==
    /\ hook[c] = "armed"
    /\ cloud[c] \in {"completed", "error"}
    /\ hook' = [hook EXCEPT ![c] = "fired"]
    /\ Publish([retries |-> 0, token |-> c])
    /\ UNCHANGED <<config, process, cloud, backend, cached, crashes, mishaps>>

\* A child killed by the hard limit or the kernel: the parent acknowledges
\* its message, since task_reject_on_worker_lost is off.
ChildLost(w) ==
    /\ pc[w] # "idle"
    /\ Idle(w)
    /\ mishaps' = mishaps \cup {"loss"}
    /\ UNCHANGED <<config, queue, clouds, backend, cached, crashes>>

\* The node dies and the broker redelivers the unacknowledged message.
NodeCrash(w) ==
    /\ crashes < MaxCrashes
    /\ pc[w] # "idle"
    /\ crashes' = crashes + 1
    /\ Idle(w)
    /\ Publish(msg[w])
    /\ UNCHANGED <<config, clouds, backend, cached, mishaps>>

Pipeline(w) ==
    \/ LoadJob(w)
    \/ AdvanceJob(w)
    \/ LookupCache(w)
    \/ FetchMedia(w)
    \/ TryCaptions(w)
    \/ TranscribeNow(w)
    \/ SubmitNothing(w)
    \/ \E c \in CloudId : SubmitAudio(w, c)
    \/ PollJob(w)
    \/ StoreTranscript(w)
    \/ CompleteJob(w)

Task(w) ==
    \/ Pipeline(w)
    \/ \E m \in Message : Deliver(w, m)
    \/ DecidePending(w)
    \/ Retry(w)
    \/ FailJob(w)
    \/ Ack(w)

Next ==
    \/ \E w \in Worker : Task(w) \/ Timeout(w) \/ ChildLost(w) \/ NodeCrash(w)
    \/ \E c \in CloudId : CloudSettle(c) \/ FireWebhook(c)

Spec == Init /\ [][Next]_vars

\* A worker keeps running the task it holds and keeps consuming.  Assembly
\* finishes the jobs whose webhook somebody waits for, and calls it; one that
\* is polled may stay unfinished for ever, for the retry budget ends the wait.
\* Nothing is assumed of timeouts, losses or crashes.
Fairness ==
    /\ \A w \in Worker : WF_vars(Task(w))
    /\ \A c \in CloudId : WF_vars(hook[c] = "armed" /\ CloudSettle(c))
    /\ \A c \in CloudId : WF_vars(FireWebhook(c))

FairSpec == Spec /\ Fairness

-----------------------------------------------------------------------------
(* Properties. *)

\* Nobody works on the job and nothing will make anybody work on it again.
Quiet ==
    /\ \A w \in Worker : pc[w] \in {"idle", "ack"}
    /\ \A m \in Message : queue[m] = 0
    /\ \A c \in CloudId : hook[c] # "armed"

\* No job is abandoned in silence: once it is quiet, the backend has been
\* told of an end, unless a killed child, a failed report or a failed publish
\* took the report away.  (The early returns of download_and_transcribe: an
\* armed webhook, a spent budget, a retry.)
NoLostJob == Quiet => status \in Terminal \/ "loss" \in mishaps

\* Its inductive form: an unfinished job is always carried by somebody.  A run
\* that has armed a webhook no longer carries the job while it may still end on
\* it; then the armed callback does, or the message the callback published.
Carries(w) ==
    /\ pc[w] \in Running
    /\ ~(Armed(w) /\ pc[w] \in {"poll", "pending"})

Carried ==
    \/ status \in Terminal
    \/ "loss" \in mishaps
    \/ \E w \in Worker : Carries(w)
    \/ \E m \in Message : queue[m] > 0
    \/ \E c \in CloudId : hook[c] = "armed"

\* The retry chain stops one short of Celery's own max_retries, where
\* self.retry would raise instead of publishing and nobody would report.
RetryBudget == \A m \in Message : queue[m] > 0 => m.retries < CloudJobAttempts

\* Its inductive form, with the messages the workers hold.
BudgetInv ==
    /\ RetryBudget
    /\ \A w \in Worker : msg[w].retries < CloudJobAttempts
    /\ \A w \in Worker : pc[w] = "retry" => msg[w].retries < CloudJobAttempts - 1

\* A message that carries a resume token never makes anyone queue a fresh
\* transcription: the cloud jobs are at most those the attempts of the first
\* delivery and of its redeliveries can submit (TranscriptJobPending).
Submitted == {c \in CloudId : cloud[c] # "none"}
BoundedSubmissions == Cardinality(Submitted) <= RetryAttempts * (1 + crashes)

\* Its inductive form.  A message without a token is the first one, queued or
\* held once; whoever holds any other knows its cloud job, and submits none.
HoldsFirst(w) == pc[w] # "idle" /\ msg[w].token = NoToken

TokensKept ==
    /\ \A m \in Message : queue[m] > 0 /\ m.token = NoToken => m = FreshMessage
    /\ \A w \in Worker :
          /\ msg[w].token = NoToken => msg[w] = FreshMessage
          /\ pc[w] \in {"captions", "leaf"} => msg[w].token = NoToken
          /\ pc[w] \in {"poll", "pending", "retry"} => token[w] # NoToken
          /\ msg[w].token # NoToken => token[w] # NoToken

FirstOnce ==
    /\ queue[FreshMessage] <= 1
    /\ \A w \in Worker : HoldsFirst(w) =>
          queue[FreshMessage] = 0 /\ \A v \in Worker \ {w} : ~HoldsFirst(v)

\* The phases before a run may have submitted, or submits again.
Opening == {"load", "advance", "lookup", "media", "captions", "leaf"}

\* Each crash so far has used up the attempts of one delivery of the first
\* message; of its last one, those are used that its holder has made.
AttemptsCounted ==
    LET spent == RetryAttempts * crashes IN
    /\ IsFiniteSet(Submitted)
    /\ Cardinality(Submitted) <= spent + RetryAttempts
    /\ queue[FreshMessage] > 0 => Cardinality(Submitted) <= spent
    /\ \A w \in Worker : HoldsFirst(w) =>
          /\ Cardinality(Submitted) <= spent + attempt[w]
          /\ pc[w] \in Opening => Cardinality(Submitted) < spent + attempt[w]

\* A completed job stays completed, as long as one run at a time holds it: no
\* webhook can start a second run, no crash has repeated one, and no lost
\* answer made the pipeline take its own completion for a failure.
CompletedStays ==
    [][ status = "completed" /\ status' # "completed" =>
          webhook \/ crashes > 0 \/ "answer_lost" \in mishaps ]_vars

\* Why: without webhooks and crashes there is one message or one run at a time
\* (a retry publishes its message when it no longer works on the job), and
\* none once a run has completed the job and knows it.
RunsAlone ==
    ~webhook /\ crashes = 0 =>
        /\ \A c \in CloudId : hook[c] = "off"
        /\ \A m, n \in Message : queue[m] > 0 /\ queue[n] > 0 => m = n /\ queue[m] = 1
        /\ \A w \in Worker : pc[w] \in Running =>
              /\ \A m \in Message : queue[m] = 0
              /\ \A v \in Worker \ {w} : pc[v] \notin Running
        /\ status = "completed" /\ "answer_lost" \notin mishaps =>
              /\ \A m \in Message : queue[m] = 0
              /\ \A w \in Worker : pc[w] \notin Running

\* What the worker promises the backend about a job.
Lifecycle == INSTANCE JobLifecycle
LifecycleSpec == Lifecycle!Spec

\* Why it keeps that promise: as long as the job is pending its first message
\* is the only one, in the queue or in the hands of one worker; and the phases
\* of a run follow what it has reported.
ServedOnce ==
    status = "pending" =>
        /\ \A c \in CloudId : hook[c] = "off"
        /\ \A m \in Message : queue[m] = 0 \/ (m = FreshMessage /\ queue[m] = 1)
        /\ \A w \in Worker : pc[w] # "idle" =>
              /\ msg[w] = FreshMessage
              /\ \A m \in Message : queue[m] = 0
              /\ \A v \in Worker \ {w} : pc[v] = "idle"

PhasesReported ==
    \A w \in Worker :
        /\ pc[w] = "advance" => status = "pending"
        /\ pc[w] \in Running \ {"load", "advance", "fail"} => status # "pending"
        /\ pc[w] = "complete" => stored

\* The inductive invariant of the module's safety properties.
JobInv ==
    /\ Carried /\ BudgetInv /\ ServedOnce /\ PhasesReported
    /\ TokensKept /\ FirstOnce /\ AttemptsCounted /\ RunsAlone

\* A job eventually has an end reported, or a loss no report survives.
JobSettles == <>(status \in Terminal \/ "loss" \in mishaps)

\* The chain of retries and callbacks dies out.
RunsEnd == <>[]Quiet

=============================================================================
