# TLA+ models of the JumpTo worker

The worker (`src/app`) is a Celery application that turns videos into
transcripts, downloads and lecture notes. It keeps no database of its own: a
job lives in the JumpTo backend, in the messages of a broker, in a few files on
the worker's disk and in the cloud jobs of a speech-to-text service, and the
worker moves it along with HTTP calls any of which may fail or lose its answer.
What is hard to get right is therefore spread over processes: who still carries
a job, who owns a file, who reports an end, and how often something is done.

The modules here are translated from the code. TLC checks them on small
instances; for each component TLAPS proves the safety properties and the
refinements the runs check, for every value of the constants. What is left to TLC
alone is liveness. Paths below are relative to the repository (`src/`).

## 1. Inventory

| component | state it keeps | operations | interacts with |
|---|---|---|---|
| Transcription task and pipeline (`app/tasks/transcription.py`, `app/services/{pipeline,jobs,submissions,webhooks}.py`) | none of its own: message (retry count, resume token), backend status, stored transcript | load and advance a job, run a strategy under `wait_for`, store and complete, fail, `self.retry`, end on an armed webhook | broker, backend, strategies |
| Strategies (`app/providers/{youtube,drive,local,audio_jobs,registry}.py`) | per-run workspace, transcript and media caches | cache lookup, captions, media, attempt loops, resume | leaves, cache, audio file |
| Shared audio file (`app/providers/audio.py`) | one file per video in the cache directory, temporary files and yt-dlp's `.part`, the lease of each job, with or without a video id | sweep of the whole directory, probe, download, rename, release, close | strategies, threads of `asyncio.to_thread`, jobs of other videos |
| Speech-to-text leaves (`app/speech_to_text`) | cloud jobs and their callbacks | submit, poll, transcribe | Assembly, Deepgram |
| Cookie refresh (`scripts/cookies-refresh.sh`, `scripts/refresh_cookies.py`, `scripts/redeploy_cookies.sh`, `scripts/jumpto-cookie-auto.sh`, `app/integrations/ytdlp.py`) | marker, `fresh-cookies.txt`, `cookies.txt`, the container's mount | touch, export, check, `mv`, `rm`; a deploy's `cp` | worker, host cron and another machine's deploys, through files only and without a lock |
| Cookie copies (`app/integrations/ytdlp.py`) | per process: the cache of temporary copies and the registry of those to remove at exit | stat, look up, evict, copy, register, release; yt-dlp's load and save | the yt-dlp runs of a child, which overlap; the cookie file |
| Backend client (`app/client`) | connection pools, the try of a request | up to three tries of a call, each sent, answered, refused or given up | backend, which may apply a request nobody waits for any more |
| Celery application, event loop, limits (`app/tasks/celery_app.py`, `app/services/event_loop.py`, `app/core/timeouts.py`) | a persistent loop per child, its coroutines and thread pool; the clocks of the pipeline timeout, the soft and the hard limit | run a coroutine, strike, recycle a child | every task |
| Downloads, formats, notes tasks (`app/services/{downloads,notes}.py`, `app/tasks/{downloads,formats,notes}.py`) | download directory, backend status | produce, upload, report, clean up | threads, blob store, backend |
| Lecture notes document (`app/services/notes.py`, `app/integrations/equation_review.py`) | the blocks written so far | windows, AI answers, equation review, fallback, numbering | AI services |
| Transcript cache store (`app/storage/cache.py`) | one entry per video, fail-open | read, write, expire | strategies |
| Caption fast path (`app/providers/{media,transcript}.py`, `app/services/submissions.py`, `app/utils/text.py`) | a cookie copy and a temporary directory per download | metadata attempts, choice of the tracks, downloads, parsing, numbering | cookie copies, strategies |
| Video sources (`app/sources`) | the files of a Drive fetch | identify a URL; open, stream and extract a Drive file | Drive strategy |
| PDF and LaTeX, configuration, logging | none that a property could be about | I/O and formatting | |
| Other scripts (`scripts/{mac_export_cookies,debug_worker,sentry_test}.py`, `scripts/cookie_health.sh`) | files of their own | export on another machine, probe, check by hand | none writes what the worker reads |

Behaviours that are hard to test: interleavings of a retry, a callback and a
redelivery of one job; threads that a cancelled coroutine leaves running;
files shared by name between processes; soft limits raised anywhere in the main
thread; answers lost after their call was applied; children killed alone
(message acknowledged) and nodes killed whole (message redelivered). Each of
them is listed at its line in `PROJECT.json` under `hazards`, with the
properties aimed at it.

What makes each component correct:

* task: an unfinished job is always carried by a worker, a message or a
  callback; retries stop inside their budget and are reported; a resume never
  submits again; a job never goes back from an end to work;
* audio file: no reader sees part of a download, nothing is left on disk but by
  jobs that never settled and in a few named cases, a job alone with its video
  keeps its file until the TTL;
* Drive workspace: owned by one run, removed on every way out that can remove
  it, and there as long as an attempt needs it;
* loop and limits: no task ends without a report, ends are not taken back,
  directories are removed;
* backend calls: one that returned well has been applied, and only a request
  that was given up can be applied after it;
* watchdogs: the pipeline timeout strikes before the soft limit and that before
  the hard one, with room for the report;
* cookies: what replaces `cookies.txt` is whole and newer as long as writers do not
  overlap, and whatever they do to it does not last; a yt-dlp run gets cookies no
  older than the file it asked for, and gets them whole unless a named
  disturbance is to blame;
* captions: the original language, exactly the words the captions give, each once
  and in order, nothing left on disk;
* notes: no line and no equation is lost, topics are numbered without gaps.

## 2. Modules

```
 abstract                                  detailed                    proved in

 JobLifecycle   <--- implements ---   TranscriptionJob        TranscriptionJobProofs
                                        the steps inside its phases "leaf", "media":
                                      AudioCache              AudioCacheProofs
                                      DriveWorkspace          DriveWorkspaceProofs
 BackendCalls   <--- implements ---   BackendRequest          WatchdogsProofs
                                        extended by
                                      Watchdogs               WatchdogsProofs
                                      WorkerLoop              WorkerLoopProofs
                                      NotesDocument           NotesDocumentProofs
                                      CookieRefresh           CookieRefreshProofs
                                        extended by
                                      CookieMount
                                      CookieCopies and TranscriptWords
                                        both extended by
                                      Captions                CaptionsProofs
```

Two abstract modules say what one side promises and the other relies on.
`JobLifecycle` is what the task promises the backend. `BackendCalls` is what
every caller of the backend may rely on, and `Watchdogs` runs the real calls of
`BackendRequest` under the clock.

The cookie file has no such module, because the host promises the worker little:
`CookieRefresh` says what it does promise. `CookieCopies` takes the file as a
sequence of states, numbered as they come, any of which may be half written or
of an older export, and assumes only that a change shows in the file's mtime or
size, which is what its key consists of.

Elsewhere the modules meet at named phases instead of being multiplied:
TranscriptionJob takes the acquisition of audio as one step of a run, AudioCache
and DriveWorkspace open that step for several runs at once; WorkerLoop takes a
whole strategy as one wait. `MC*` modules only add a symmetry set or a constant.
Operators called "Faulty variant" are plausible bugs next to the definition they
would replace; no specification uses them. They show that each property fails
when the code is wrong.

### JobLifecycle

The abstract promise to the backend: `pending` is left once and for good, a job
is completed only with its transcript stored, and never goes back to work after
an end. An end may be reported twice and contradict itself: the worker does not
read the status before it reports.

### TranscriptionJob

One job, any number of prefork children, cloud jobs and messages. Jobs share
nothing in the broker or the backend, so one shows every interleaving.

| state | code |
|---|---|
| `queue`, `msg` | the messages of `download_and_transcribe`: `self.request.retries` and `resume_token`; unacknowledged ones are kept (`task_acks_late`) |
| `pc`, `attempt`, `token` | where `run_pipeline` is, the attempt of `run_transcription_attempts`, the cloud job it polls |
| `cloud`, `hook` | Assembly's jobs and their completion callbacks |
| `status`, `stored` | the last lifecycle call the backend applied, the stored transcript |
| `cached` | the transcript cache, which another job may have filled |
| `leaf`, `webhook` | settings, free in the initial state |
| `mishaps` | observed: a lost report, publish or child; a lost answer to a completion |

`LoadJob`, `AdvanceJob`, `StoreTranscript`, `CompleteJob` and `FailJob` are the
calls of `services/jobs.py`; `LookupCache`, `FetchMedia`, `TryCaptions` the
strategy; `TranscribeNow`, `SubmitAudio`, `SubmitNothing`, `PollJob` one attempt
over a leaf; `DecidePending` and `Retry` the task's handler of
`TranscriptJobPending`; `Timeout` is `wait_for`; `ChildLost` and `NodeCrash` are
what acknowledgement late and `task_reject_on_worker_lost = False` mean;
`FireWebhook` is Assembly and the backend together.

### AudioCache

`download_audio` step by step in a job's thread (`Sweep`, `Unlink`, `Probe`,
`Size`, `Begin`, `Fetch`, `Install`), the lease (`Acquire`, `Remove`, `Close`) and
the attempt loop (`OpenAudio`, `Transcribe`, `Poll`), for several jobs without a
lock. `keyed` are the jobs with a video id; the others have an unkeyed lease, go
straight to a temp file and own it once the download has returned
(`OwnsTemp`), until `aclose` removes it (`Leave`, `Close`). `Timeout` ends a job
and leaves its thread, unless the executor has not begun the call (`Queued`), and
still runs the `finally` of an unkeyed lease; `Crash` ends both.

`_sweep_stale_audio` goes over the whole directory, so jobs of other videos meet
this file too: `OtherSweep` finds it stale (`doomed`), and `OtherUnlink` unlinks
its name at any later time. They need no state of their own, and stand for any
number of jobs. `Age` is the passing of the TTL; a file may be there from the
start, stale or yet to become so. `temp` is the job's temp file, `part` the
`.part` of yt-dlp that a failed download leaves.

### DriveWorkspace

Runs of `DriveProvider` for one file. `thread` is `prepare_audio`, which goes on
after a cancellation: it opens the file over the API or the web
(`OpenDownload`), streams it (`Stream`) and extracts the audio (`Extract`), and
each of the three may fail in a way that is tried again or in one that is not.
`dir` and `files` are the workspace and what it holds: the part, the media file,
the audio. `transcript` and `media` are the two cache entries, which may lose a
write, miss a read or expire; `pending` are cloud jobs whose retry comes with a
resume token; `name` is the name the file was uploaded under.

### BackendCalls and BackendRequest

`BackendRequest` is `BackendClient._request` for one task: a call is sent, and
answered, refused with a status that is not retried (or a body that does not
parse), or its try fails; a failed try is repeated after a delay, up to
`MaxRetries` tries. Giving a try up does not stop its request: `flight` are the
calls with a request still on its way, which `ReachLate` applies at any time,
perhaps more than once. `Cut` is a limit or a cancellation that ends the waiting.

`BackendCalls` keeps of that a call in progress, what the last one returned, and
the late requests of calls that are over. The mapping hides the tries: a try
that fails and is repeated is a stutter, and a late request of the *current*
call is an arrival like any other.

### Watchdogs

One task against the clock. It loads its job (one or two calls), works, and
submits or reports; `now` counts from its start, `until` is when the wait it is
in ends at the latest. The pipeline timeout counts from the end of the load and
around a transcription's work only (`StartWork`), the soft and the hard limit
from the start of the task. `Ask` and the following actions are the calls of
BackendRequest with their time: httpx's timeout for a try, the back-off between
two. Work may take any time, for ever included. `kind` is a transcription or
another request; notes, for which `NOTES_TIMEOUT_SECONDS` is read nowhere, run
under the same limits as a download.

### WorkerLoop

One child's main thread (`main`, `cur`, `soft`), the coroutine of every job on
the loop (`pc`, `out`), its `to_thread` call (`thread`) in a bounded pool, its
directory and the report of its task function (`rep`). A soft limit is an
exception in the main thread: in a coroutine's code it is that coroutine's
(`SoftLimitInside`, `SoftLimitInReport`), in the loop's own code it leaves
`run_until_complete` (`SoftLimit`) and the coroutine stays on the loop until the
next task runs it. `HardLimit`, `Recycle` and `NodeCrash` drop the process.

### NotesDocument

The document of a notes request as a sequence of blocks, for an AI that answers
anything `blocks_from_payload` accepts and fails anywhere. A window is what the
AI answers for (`CleanChunk`) or fails on (`CleanFails`). Every loop of the code
that writes blocks is a loop of steps, `position` being where it stands and
`result` (`doc` for the numbering) what it has written:

| loop of the code | begins | a turn | ends |
|---|---|---|---|
| `apply_reviews` over an answer | `ReviewEquations` | `ApplyReview` | `EndReview` |
| `_fallback_blocks` over a window | `CleanFails` | `CloseParagraph` | `EndRawWindow` |
| `_fallback_blocks` over all lines | `FallbackContent` | `CloseParagraph` | `EndTranscript` |
| `_renumber_topics` over the blocks | `Overview` | `RenumberTopic` | `Finish` |

A paragraph of raw transcript may close after any of its lines, which stands for
lines of any length; texts are reduced to what the code compares. The document
is one task's, so the steps of a loop are not interleaved with anything: they are
steps so that what the loops keep is an invariant, for any number of turns.

### CookieRefresh and CookieMount

Files are inodes, so that a rename, a write in place and a bind mount of a
single file behave as they do on the host. A write is two steps, `Truncate` and
`Put`, and two writers of one inode may mix. Runs of the script (`Cron`) may
overlap, since nothing locks it, and may be forced (`Wake`, `Forced`): each
fetches, opens and writes the shared `fresh-cookies.txt`, checks, moves and clears,
and fails at any of the export's steps (`ExportFails`, `CheckFails`); an `mv` whose
file another run has taken is passed over, as `set -u` without `-e` does. Deploys
(`Deploy`) truncate and write `cookies.txt` in place, with an export of any age,
or fail in between. `Touch` may happen with any cookies and need not happen with
outdated ones. `crossed` observes whether the runs now going on have met another
writer; `Undisturbed` is that they have not, and that no deploy has the file open.

`CookieMount` adds the container: the inode it has mounted, and `Restart`.

### CookieCopies, TranscriptWords and Captions

`CookieCopies` is `build_ydlp_options`, `_evict_cookie_copy` and
`release_temp_cookie` step by step for every thread of a process that runs
yt-dlp: the stat that keys a copy (`Stat`), the look into the cache, the
eviction, the copy and its two failures (`MakeFails` for an `OSError`,
`MakeUndecoded` for a `UnicodeDecodeError`, which the `except` clause does not
name), the registration. Then comes yt-dlp, in four steps, because nothing locks a
shared copy: it opens its cookie jar (`Load`), has read it (`Open`), empties the
file (`Empty`) and writes it back (`Close`), and so brings an evicted copy back to
life. A run that opens or saves while another one is saving, or saves while
another one is reading, may end up with a part of the cookies (`Torn`); `spoilt`
observes in which copies that has happened. A file that loses its name while a
run writes it keeps its writer (`Stray`, the phase `lost`). `Replace` is anything
the host does to the cookie file.

`TranscriptWords` are pure operators from a caption file to numbered words:
`ParseVtt` (stamped words alone, if there are any, else every cue),
`CloseTimes` and `BuildSubmission`. Each of them filters what it reads and keeps
the order; `InOrder` says that without recursion, so that it can be proved
about: the elements of a set in a given order, each at the place that counts
those before it. A caption file is given by what was spoken (the constant
`Spoken`: lines of words, numbered as they are said) and whether it is a human
caption (`ManualCues`) or one of YouTube's rolling ones (`RollingCues`), which
repeat each line and stamp all its words but the first.

`Captions` is the fast path in its thread: metadata attempts over one copy, the
choice of the tracks (`CaptionTargets`), a download per target with a temporary
directory and a copy of its own, and the submission, beside another yt-dlp run
of the process. `Given` says what should be submitted: of a human caption every
word, of a rolling one every word but the first of each line. A line of one word
is therefore lost whole; `WordsOnce` states that loss exactly, and no other.

## 3. Runs

| run | instance | checks |
|---|---|---|
| `job_safety` | 2 workers, 3 cloud jobs, 2 deliveries of 2 attempts, 1 crash; symmetric | `NoLostJob`, `RetryBudget`, `BoundedSubmissions`, `CompletedStays`, the inductive `JobInv`, `LifecycleSpec` (refinement of JobLifecycle) |
| `job_liveness` | 2 workers, 2 cloud jobs, no crash; fair | `JobSettles`, `RunsEnd` |
| `audio_cache` | 2 jobs, each with the video id or without, 3 attempts; symmetric | `OpensWhole`, `Stragglers`, `TempsReclaimed`, `SoleHolderKeepsFile` |
| `audio_shared` | the same, 2 attempts | `KeepsItsFile` is violated |
| `drive_workspace` | 3 runs, 2 attempts; symmetric | `WorkspaceOwned`, `AudioAtHand` |
| `drive_resume` | 2 runs | `ResumeSkipsAcquisition` is violated |
| `worker_loop` | 2 tasks of any kinds, 1 thread, 1 crash; fair | `NothingDropped`, `EndStays`, `WorkspaceReclaimed`, `EndReported` |
| `watchdogs` | a budget and a margin of 2 ticks, requests of 3, graces of 1 and 4, 2 tries | `Acknowledged`, `CallsSpec` (refinement of BackendCalls), `PipelineFirst`, `ReportFits` |
| `notes_document` | 4 transcripts, 3 blocks from the AI, 3 topics | `TopicsNumbered`, `EquationsKept`, `MarkersPlaced`, `TranscriptKept` |
| `cookie_refresh` | 2 overlapping script runs, 1 deploy, 1 rotation, 3 inodes; fair | `ReplacedWhole`, `Recovers` |
| `cookie_mount` | 1 script run, 1 deploy, 1 rotation, 4 inodes | `SwapSeen` is violated |
| `captions` | the fast path beside one other run, 2 names of copies, one change of the file, 2 metadata attempts, 5 tracks in 2 languages, up to 2 lines of 2 words | `FilesReclaimed`, `CurrentCookies`, `WordsOnce`, `OriginalLanguage` |

Every passing run also checks its module's type invariant, except
`job_liveness`, which is the smaller twin of `job_safety`.

**Why the bounds are enough.** Two workers are what a callback, a redelivery or
a retry needs to overlap with the run that caused it; a budget of two
deliveries of two attempts has a first, a last and an "in between" boundary on
either counter, and a third cloud job is one more than a single delivery can
submit, so a token that is dropped shows. (When the set of cloud ids is used up a further
submission is not modelled: a bound of the run.) Two jobs for a video are one to
hold the file and one to remove or replace it, in every combination of keyed and
unkeyed leases; what a third job could do to the file, the sweeps of other
videos and a thread that outlives its job do as well. Three attempts are those
of the code; two tasks with one thread are the smallest pool that can be full. Transcripts of up to four lines and three
windows have an empty transcript, a line on a boundary, lines out of order and
windows that are cut into paragraphs in every way; three blocks from the AI hold
an equation between two neighbours, or a doubtful one in each of two windows. Two runs of the cookie script are what it takes to overlap, and
a deploy beside them meets either; one rotation tells an old export from a new
one; three inodes are the file, its successor and one that a slow writer still
has. (A run that finds no free inode waits for that writer: a bound of the run.
In `cookie_mount` the mount pins a fourth.) In `watchdogs` a request (3 ticks) takes longer than the margin (2),
so that a load can use the margin up, and the two graces put the hard limit
before and after the soft one; two tries are a first and a last. In `captions`
two names of copies are one for each of the two runs, to share or not, and a name
is taken again once its file is gone and nobody knows it; the tracks hold every form the choice tells apart; two lines of two
words have a first and a stamped word, a repeated line, and a word that
normalisation empties at either place. `MaxCrashes`, `MaxRotations`, `Inodes`, `Version`, `Copy`,
`MetadataAttempts` (3 in the code), `MaxBlocks` and `Spoken` bound what the environment does and no code
path. The proofs of section 4 drop all these bounds.

`CHECK_DEADLOCK FALSE` is set where jobs end and nothing is left to do; in
CookieRefresh and Captions, where the worker never stops asking for cookies,
deadlock is checked.

**Fairness.** TranscriptionJob: a worker keeps running the task it holds and
keeps consuming (Celery does, HTTP calls time out); Assembly finishes the jobs
whose callback is armed and calls it. A *polled* job may stay unfinished for
ever, since it is the code's retry budget that has to end the wait. Nothing is
assumed of timeouts, losses or crashes. WorkerLoop: the loop serves ready
coroutines, and Celery's limits strike, which is what they are for; a thread may
hang for ever. CookieRefresh: cron keeps starting the script while the marker is
there, a run goes on to its end, and an export that is tried again and again
succeeds again and again (strong fairness of its two steps). Nothing is assumed
of the worker or of deploys. What `Recovers` needs of them is in its statement: that
overlaps and half-written deploys cease, and that the marker keeps coming back
as long as the file is not current. Either may fail in the code (a run with old
cookies may end by another error, and an `OSError` leaves no marker), and then
the file may stay old.

### Disagreements found

* `audio_shared` — `AudioFileLease.release` (`app/providers/audio.py`) removes
  the per-video file by name, so a second job for the video can find it gone when
  it opens it, for its first attempt or a later one, and fails with an error no
  attempt loop retries, where the class promises that a failed transcription
  re-submits the same file. (The TTL, which may do the same, is excused.)
* `drive_resume` — title and duration are cached after the finished transcript,
  not "ahead of Assembly submission" (`app/storage/cache.py:132`), so the first
  resume fetches the whole Drive file again.
* `cookie_mount` — `cookies.txt` is bind-mounted as a single file and replaced
  by `mv`: the running container keeps the old inode, and a swap "forces a fresh
  copy" (`app/integrations/ytdlp.py:25`) only after a restart.

Disagreements that need no run of their own:

* `app/core/timeouts.py:14` says the soft limit is what interrupts a blocked
  `to_thread` call. It is raised in the main thread; the call runs on beside the
  child's next tasks (WorkerLoop's threads).
* The same docstring has "pipeline < soft < hard" enforced by construction.
  `config.py` accepts any grace from 1 s, and one of 5 s or less puts the hard
  limit before the soft one; a load slower than the 5 s margin lets the soft
  limit strike before the pipeline timeout, at any settings. `PipelineFirst` and
  `ReportFits` are stated for the rest. A transcription left in the loop by the
  soft limit is reported only when its child runs the loop again.
* `app/integrations/ytdlp.py:144` says the cached copy is kept for later runs.
  The eviction of a second run that overlaps removes it whoever is about to
  open it; of two copies made at once the first is forgotten until the process
  exits (`raced`), if Celery's child gets to run its exit handlers then.
* `app/core/exceptions.py:25` counts network failures among
  `ExternalServiceError`. A connection that breaks in a Drive download raises an
  httpx error, which is none, so it is not tried again; the web endpoint does
  not look at the status it is answered with.

Observed in the models and excused in the properties, by name: a Drive workspace
stays behind when a timeout cancels the acquisition (`CancelledError` is no
`Exception`; `cut` in `WorkspaceOwned`); a completion whose answers are lost is
followed by a failure report (`answer_lost`); a keyed lease that fell back to a
temporary file does not own it, an unkeyed lease does not own one whose download
a timeout has cut off, and a failed download leaves yt-dlp's `.part`, which nothing
removes from the temp directory (all in `TempsReclaimed`); a sweep unlinks a file
older than the TTL although its job is about to open it (`doomed` in
`SoleHolderKeepsFile`); the temporary directory of a
caption download stays when the copy of the cookies fails, and so does a copy
whose source does not decode (`Undecoded` in `FilesReclaimed`); a run whose copy
another run evicts may have no cookies, and one that meets another's save may have
a part of them, as may every later run of that copy (`sure` and `spoilt` in
`CurrentCookies`); runs of the cookie script that overlap, and deploys, may leave
`cookies.txt` half written or older (`Undisturbed` in `ReplacedWhole`); the first
word of every line of a rolling caption is not submitted, so that a line of one
word is lost whole (a test asserts the missing first word), and a rolling caption
without a second word in any line is submitted twice (`WordsOnce`); a download's report may be ended by the soft limit
(`ReportFits`).

Observed and stated nowhere: only the first block of the first window can lose a
title of the AI's own; an answer without a block counts as a cleaned window; of
two neighbouring equations the second may share the first one's marker; a Drive
file uploaded as `audio.m4a` is the output of its own extraction and is never
transcribed; the words of one human cue all begin with it and all but the last
have no length.

## 4. Proofs

Each module below proves its theorems for any constants that satisfy the
assumption named with it, and assumes nothing else: sets of jobs, runs, threads
and workers may be infinite, and every number is any number. None of the
properties is inductive as it stands, but for the type invariants; the table
names the invariant each rests on. What the proofs take as given is the
model itself: a backend call of TranscriptionJob is one step with three outcomes
(applied, applied but unanswered, not applied), the broker neither drops nor
invents messages, and the backend publishes a job once.

### TranscriptionJobProofs (`ConstantsAssumption`)

| theorem | statement | rests on |
|---|---|---|
| `TypeCorrect` | `Spec => []TypeOK` | one step per action |
| `BudgetRespected` | `Spec => []RetryBudget` | `BudgetInv` |
| `NothingLost` | `Spec => []NoLostJob` | `Carried`, with `BudgetInv` |
| `SubmissionsBounded` | `Spec => []BoundedSubmissions` | `AttemptsCounted`, with `TokensKept` and `FirstOnce` |
| `CompletionStays` | `Spec => CompletedStays` | `RunsAlone` |
| `JobInvariant` | `Spec => []JobInv` | all the conjuncts together |
| `ImplementsLifecycle` | `Spec => Lifecycle!Spec` | `ServedOnce`, `PhasesReported` |

The strengthenings are the eight conjuncts of `JobInv`, which `job_safety`
checks.

* `RetryBudget` speaks of queued messages, and a message is published from one a
  worker holds: `BudgetInv` adds those, and that a worker about to retry has one
  delivery left.
* `NoLostJob` speaks of quiet states. `Carried` says who carries an unfinished
  job in every state. The step that matters is the hand-over: a run that has
  submitted with a webhook may still end on it silently, so it stops counting as
  a carrier at `poll`, and from the same step on the armed callback (then the
  message it publishes) takes its place. A dying node puts its message back; a
  dying child is a loss.
* `BoundedSubmissions` counts cloud jobs over the whole life of a job, so the
  count has to be charged to something. Only the first message comes without a
  resume token (`TokensKept`), a run that holds a token never submits, and the
  first message is in one place at a time (`FirstOnce`): so all submissions are
  those of the deliveries of one message, its attempts, and only a crash
  delivers it once more. `AttemptsCounted` keeps that account in every state,
  and that the cloud jobs submitted so far are finitely many.
* `CompletedStays` excuses webhooks, crashes and lost answers. `RunsAlone` says
  why nothing else can break it: without webhook and crash no callback is armed,
  and there is one queued message or one run at a time; `Retry` publishes its
  message in the step it stops working, and once a run knows that it has
  completed the job there is neither.
* The refinement maps `status` and `stored` to themselves. `AdvanceJob` trusts a
  read made in an earlier step, and is an `Advance` of the lifecycle only because
  `ServedOnce` holds: as long as the job is pending, its first message is the
  only one, in the queue or with a single worker, so nobody can have moved the
  job in between. `PhasesReported` ties the later phases to what was reported
  (`CompleteJob` happens with the transcript stored). Each action is then a step
  of the lifecycle or a stutter.

### AudioCacheProofs (`AudioAssumption`)

| theorem | statement | rests on |
|---|---|---|
| `AudioTypes` | `Spec => []TypeOK` | one step per action |
| `LeavesOpenWhole` | `Spec => OpensWhole` | `FileInv`, `Whole` |
| `StragglersExplained` | `Spec => []Stragglers` | `FileInv` |
| `DownloadTempsReclaimed` | `Spec => []TempsReclaimed` | `Temps` |
| `SoleHolder` | `Spec => []SoleHolderKeepsFile` | `Sole` |

`CacheInv` is `FileInv` about the file all jobs share and, for each job,
`Places` (where its thread and its lease may be in each phase), `Unkeyed` (a job
without a video id never comes near the shared file), `Whole` (what it
installs or opens is a whole file), `Temps` (who will remove its temporary file, or
which of the named cases it is) and `Sole` (as long as the others of its video
have not begun and no other video's job has found the file stale, it never finds
it gone).
A job's actions change its own entries only (`OwnState`), so `Places`, `Unkeyed`,
`Whole` and `Temps` need a proof for its own steps alone. The file is changed by all of them: a part of a
download never gets its name (it is installed by a rename), and a downloaded one
always has a job that `Owes` it, one that holds it, is removing it, or will never
settle. That is what `Stragglers` lacks to be inductive: it speaks of the moment
when nobody works, and the debt has to be followed there.

### DriveWorkspaceProofs (`DriveAssumption`)

| theorem | statement | rests on |
|---|---|---|
| `DriveTypes` | `Spec => []TypeOK` | `TypeInv`: the runs that ended are finitely many |
| `WorkspacesOwned` | `Spec => []WorkspaceOwned` | `Owned`, `Configured` |
| `AudioStaysAtHand` | `Spec => []AudioAtHand` | `Transcribing`, `Cleared`, `Acquiring` |

The hard part of `AudioAtHand` is what a thread leaves: it goes on when its run
is cancelled, and starts again in the same directory when a fetch is repeated.
`Cleared` says that an extraction works without a part, and that a finished
thread leaves the audio alone as long as its run can use it.

### WatchdogsProofs (`RequestAssumption`, `ClockAssumption`)

BackendRequest, for any calls and any number of tries, and the same calls under
the clock, for any budget, margin, set of graces, request timeout and delay:

| theorem | statement | rests on |
|---|---|---|
| `RequestCorrect` | `Spec => [](TypeOK /\ RequestInv)` | one step per action |
| `CallsAcknowledged` | `Spec => []Acknowledged` | `RequestInv` |
| `ImplementsCalls` | `Spec => Abstract!Spec` (BackendCalls) | `RequestInv`, `CallsStep` |
| `CallsOfClock` | `ClockSpec => Spec` | each step of the task makes at most one of its call |
| `ClockCorrect` | `ClockSpec => [](ClockTypeOK /\ PhaseInv /\ TimeInv)` | one step per action |
| `PipelineStrikesFirst` | `ClockSpec => PipelineFirst` | `TimeInv` |
| `EndIsReported` | `ClockSpec => []ReportFits` | `ReportInv`, with all of the above |

`Acknowledged` says nothing while a call is in progress, so `RequestInv` adds what
holds then: a try that has reached the backend is applied, and is the last thing
applied unless a late request came after it. That a try is left for the delay
only with another one to come keeps the counter in its bound. For the
refinement, `flight \subseteq issued` is what makes a new call's requests its own.

Under the clock the argument is bookkeeping of time. As long as less than the
margin went on calls, a load has taken exactly the time it waited for them
(`now = slow`), the work of a transcription is over within the budget after that,
and nothing but waiting follows the soft limit (`now <= Soft + slow`). So the soft
limit cannot find a transcription at work, and the hard limit finds nobody at all
while the calls also fit between the two. `ReportInv` then follows the report:
only the report of an end can have been given up, so whatever arrives late is one
too. Through `CallsOfClock`, the theorems of BackendRequest hold under the clock.

### WorkerLoopProofs (`LoopAssumption`)

| theorem | statement | rests on |
|---|---|---|
| `LoopTypes` | `Spec => []TypeOK` | `TypeInv`: the busy threads are finitely many, and no more than the pool has |
| `NothingIsDropped` | `Spec => []NothingDropped` | `Covered`, with `FailsInside`, `ReportsOutside`, `Returned` |
| `DirectoriesReclaimed` | `Spec => []WorkspaceReclaimed` | `Directory` |
| `EndsStay` | `Spec => EndStays` | `Silent` |

`LoopInv` says of each job who is responsible for its report. A transcription
reports inside its coroutine (`FailsInside`), every other task after it, in its
task function (`ReportsOutside`), and a coroutine returns well only when the end
is with the backend (`Returned`); so when the main thread lets go of a job
(`Finish`, `FinishReport`, `SoftLimit`) one of the two still has it. `Silent` is
what `EndStays` needs: a job that has ended, undisturbed, has nobody left who
could speak for it. Most steps are a single job's and leave the others as they
are (`OwnState`, `OwnStep`); those of the main thread and of the process have a
lemma each.

### CaptionsProofs (`CaptionsAssumption`, `CopiesAssumption`, `SpokenAssumption`)

| theorem | statement | rests on |
|---|---|---|
| `CopiesTypes` | `CaptionSpec => []CopiesTypeOK` | `Types` |
| `CookiesAreCurrent` | `CaptionSpec => []CurrentCookies` | `FloorInv`, `SureInv`, `WholeInv`, `CachedInv` |
| `FilesAreReclaimed` | `CaptionSpec => []FilesReclaimed` | `CopiesReclaimed`, with `AloneInv` and `DecodedInv`; `FetchInv` |
| `FetchKeepsTypes` | `CaptionSpec => []FetchTypes` | `TargetShape` |
| `OnlyTheOriginalLanguage` | `CaptionSpec => OriginalLanguage` | `TargetShape`, `RestrictedAllowed`, `BestUnbeaten` |
| `WordsAreOnce` | `CaptionSpec => []WordsOnce` | `WordsInv`: `Submitted`, from `InOrderLists` |
| `CaptionTypes` | `CaptionSpec => []CaptionTypeOK` | `CopiesTypes`, `FetchKeepsTypes`, `WordsInv` |

`CopiesInv` holds for any number of overlapping yt-dlp runs, copies and states
of the file, whatever is built on them (`CopiesNext`); the fast path is one such
use (`CaptionsAreRuns`). That cookies are never older than the identity they were
asked for is `FloorInv`: a copy, on disk or in a yt-dlp's memory, is of a state no
earlier than the key of any run that holds it, and than the one it is cached
under. It is kept because the file is read after the stat, never before. That a run
is `sure` of its cookies needs the cache: what is cached exists (`CachedInv`), a copy
being registered is nobody else's and whole (`FreshInv`), and while a sure run is
on its way nobody is in a position to evict its copy (`SureInv`).

That they are also whole is `WholeInv`, of the copy cached for the file as it is. A
save empties it, so the copy alone cannot be said to be whole. But until a run
meets another one's save in it (`spoilt`), it is whole except while somebody is
saving it, and so is everything its runs have loaded from it, which is what they
will write back. The step that matters is `Empty`: from then on whoever loads the
copy, or saves it too, spoils it, and that step itself does if somebody is loading
or saving it. `AloneInv` gives the other half of `CopiesReclaimed`: as long as no two
copies were made at once, whoever makes one has emptied the cache; `DecodedInv`
says that nobody has a copy that was given up.

The choice of the tracks is proved as a function of the metadata: the lists the
code restricts to a language hold allowed tracks alone (`RestrictedAllowed`), the
best of a set is beaten by none of it (`BestUnbeaten`), and the targets are none,
one, or one and its plain form (`TargetShape`).

The words are proved for any number of lines of any length. Everything the parser
does is a selection in reading order, so it rests on one lemma: `InOrder` lists
every element of a finite, strictly ordered set once and in order
(`InOrderLists`). Elements of a strict order have different counts of
predecessors, all below the size of the set, and by the pigeonhole principle
every such count is taken. With it the stamped words of a file are those of its
stamped tokens (`Stamps`), and the words of the cues those of all tokens
(`CueTimes`). `RollingFile` then shows that a rolling file stamps exactly the
words of a cue's own line but the first, and none of what it repeats, which is
why nothing is submitted twice; `ManualFile`, that a human one stamps none. Either
way the words and their starts are in order (`Heard`), and then so are the times
once each word is closed on the next one's start (`Closed`), also after the empty
ones are dropped (`Built`). The submitted words are then exactly those of
`Given`. `WordsOnce` excuses a rolling caption no line of which has a second word: there `ParseVtt` falls back to the cues and their repetitions.

### CookieRefreshProofs (`CookieAssumption`)

| theorem | statement | rests on |
|---|---|---|
| `CookieTypes` | `Spec => []TypeOK` | one step per action |
| `ReplacesWhole` | `Spec => ReplacedWhole` | `AloneInv`, `AgeInv`, `RunInv` |

Any number of script runs and deploys may overlap, fail and mix what they write,
for any rotations and inodes. `ReplacedWhole` is about the steps between two
undisturbed states, but the files may hold anything that earlier overlaps have left
in them, `fresh-cookies.txt` included. `AloneInv` says what `crossed` observes: until
it is set there is one run, no deploy beside it, and nobody but a writer has a file
open. `RunInv` follows that run: its export is no older than what it will replace
(`AgeInv`: nothing is from a session to come, and rotations only grow), and from the
truncation of `fresh-cookies.txt` on that file is its own. So what it moves is
whole, and what it writes has no other reader.

`Recovers` is liveness and stays with TLC, as does the violation of `CookieMount`.

### NotesDocumentProofs (`NotesAssumption`)

| theorem | statement | rests on |
|---|---|---|
| `TypeCorrect` | `Spec => []TypeOK` | `ChunkInv`, `WindowsInv` |
| `TopicsAreNumbered` | `Spec => []TopicsNumbered` | `NumberingInv` |
| `EquationsAreKept` | `Spec => []EquationsKept` | `NotesOf`, `Numbered` |
| `MarkersArePlaced` | `Spec => []MarkersPlaced` | `NotesOf`, from `ReviewPlaced` |
| `TranscriptIsKept` | `Spec => []TranscriptKept` | `NotesOf`, `WindowsInv`, `RawOnce` |

Any transcript, windows of any length, any number of blocks from the AI. The
properties speak of the finished document and compare it with what the AI was
given and answered; the invariant `NotesInv` carries that comparison through
every loop.

* `NotesOf(s, windows)` is what a sequence of blocks owes to some windows: each
  equation as its review left it, the markers where they belong, every line of a
  window the AI failed on in a paragraph, all of it in the order of the lecture
  and of the answers, and nothing else of these kinds. It is an invariant of
  `blocks` and the windows that were written (`said`).
* `WindowsInv` says that these follow one another without a gap up to the next
  one, and `ChunkInv` that the one being written begins there. So a window's
  blocks come after all others, and every line is in one window.
* `LoopInv` is the account of the loop that runs. `Applied` counts the answer's
  blocks, each of them once, and an equation's added marker just behind it: a
  marker is added only where no neighbour in the *answer* is one, and
  `ReviewPlaced` shows that this is enough for the *result*, whose neighbours are
  others. `RawNotes` says that the paragraphs so far cover the lines so far, once.
  At the end of the loop both give `NotesOf` for the one window (`ReviewNotes`,
  `RawWindow`).
* `Join` puts that behind the other blocks, and `Drop` allows the first of them to
  go if it is a heading, which is all that `DedupeHeadings` and
  `WithoutModelTitle` may take: a heading is neither an equation nor a marker,
  and the first block of a window stands between no two others of it.
* `Numbered` carries the blocks to the document: the numbering changes and drops
  headings only, and keeps the order. `NumberingInv` adds that `number` is how many
  topics the document has, and that the last of them has the text `topic`; a turn
  then keeps the document, appends a block that is no topic, or appends the topic
  with the next number.

### What stays with TLC

Liveness alone: `JobSettles`, `RunsEnd`, `EndReported` and `Recovers`. Fairness and
`ENABLED` are out of the prover's reach. Every other property of a passing run is
stated by a theorem. `TranscriptWords` and `NotesDocument` are written so that this
needs no induction over data: a loop of the code is either a loop of steps, whose
invariant is proved step by step, or a selection in order (`InOrder`).

## 5. Abstractions and what is not modelled

* Time is a clock in Watchdogs alone; in the other modules a timeout or a limit
  may strike at any step, which allows every order the clock could give.
  httpx's timeout is per operation; the model's is one deadline for a try.
  Watchdogs leaves out a transcription that ends pending, whose hand-over is
  TranscriptionJob's subject.
* TranscriptionJob takes a backend call as one step. A late request of a call
  that is over, which BackendCalls shows to be possible, is therefore not among
  what `CompletedStays` is checked against.
* The three tries of an AI call are one outcome in NotesDocument; headers,
  bodies, compression and what is serialised into the cache are left out.
* A soft limit that asyncio's own callback code swallows, and coroutines a child
  might still run while it is replaced.
* TranscriptionJob's `DecidePending` leaves out `not exc.resumable`
  (`app/tasks/transcription.py:61`): no leaf of the repository raises a pending
  job that cannot be resumed.
* WorkerLoop's reports are single steps too: a request a task gave up that the
  backend applies after the task is over is BackendRequest's subject, and not
  among what `EndStays` is checked against.
* The cleanup a cancelled coroutine does before `wait_for` returns takes no time in
  Watchdogs: `PipelineFirst` and `ReportFits` hold as far as it is short.
* AudioCache: a job removes a file of its own without failing (`remove_file`
  ignores an `OSError`, so a file system that refuses leaves it behind).
* CookieRefresh: an exporter is over when its `docker exec` is; a deploy is the
  `cp`, whose uploaded file may be of any age, or mixed by another deploy. A key
  that repeats after a change (same mtime and size) is not in CookieCopies.
* A worker without a cookie file: it makes no copy.
* The regular expressions that read a caption file are abstracted to the tokens
  they find; punctuation is a word that normalisation empties.
* Identifying a URL, the sections of a download and the duration probe of
  `app/sources` are pure or I/O only. PDF and LaTeX, logging, Sentry and the
  remaining scripts are formatting or I/O. Settings that select a branch are
  constants or free variables of the models.
* The log context bound around a task (`core/job_context.py`): no property of the
  system depends on it.

## 6. Plan

1. *(done)* TranscriptionJob with JobLifecycle, then AudioCache, CookieRefresh,
   WorkerLoop, NotesDocument, DriveWorkspace; the first five theorems.
2. *(done)* BackendRequest with BackendCalls, Watchdogs, CookieCopies,
   TranscriptWords, Captions; the steps of a Drive fetch; the
   proofs of BackendRequest, Watchdogs and CookieRefresh.
3. *(done)* The inductive invariants of AudioCache, DriveWorkspace, WorkerLoop,
   CookieCopies and Captions; the numbering of NotesDocument; `BoundedSubmissions`
   and `CompletedStays` of TranscriptionJob.
4. *(done)* The loops of NotesDocument as steps, and the proofs of `EquationsKept`,
   `MarkersPlaced` and `TranscriptKept`; the words of Captions without recursion,
   and the proof of `WordsOnce`.
5. *(done)* Unkeyed leases, yt-dlp's `.part` and the sweeps of other videos in
   AudioCache; overlapping script runs and deploys in CookieRefresh; saves of a
   shared copy in two steps in CookieCopies; the exact loss of words.
6. Let TranscriptionJob's calls be those of BackendCalls, late requests included,
   and see what that leaves of `CompletedStays`; the tries of an AI call.

## 7. Running

    tlc -workers 2 -config JobSafety.cfg MCTranscriptionJob
    tlapm TranscriptionJobProofs.tla      (and the other *Proofs modules)

`PROJECT.json` lists the module and configuration of each run, the source lines
of every definition (`map`), and for each property a faulty variant that
violates it (`mutants`).
