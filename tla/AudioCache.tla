----------------------------- MODULE AudioCache -----------------------------
(***************************************************************************)
(* The audio file several jobs for one YouTube video share: download_audio *)
(* of providers/audio.py, the AudioFileLease each job holds, the attempt   *)
(* loop of providers/audio_jobs.py around it and the transcript cache      *)
(* after it, without any lock between the jobs.                            *)
(*                                                                         *)
(* Each job runs once, as a new transcription or as the resume of a cloud  *)
(* job, in a worker of its own.  download_audio and the removal of a file  *)
(* run in threads: a job that its pipeline timeout cancels leaves its      *)
(* thread running.                                                         *)
(*                                                                         *)
(* Two kinds of job are beside them: those of other videos, whose sweeps   *)
(* of the shared directory meet this file too, and those without a video   *)
(* id (an unkeyed lease), which share nothing and own a temp file instead. *)
(***************************************************************************)
EXTENDS Naturals, FiniteSets

CONSTANTS
    Job,            \* the jobs
    RetryAttempts   \* _RETRY_ATTEMPTS of providers/audio_jobs.py (3)

ASSUME AudioAssumption == RetryAttempts \in Nat \ {0}

VARIABLES
    keyed,      \* the jobs that know the video's id (_keyed of their lease)
    file,       \* the file at audio_cache_path(video_id)
    cached,     \* whether the transcript cache holds the video
    pc,         \* where each job is
    attempt,    \* its attempt of run_transcription_attempts
    path,       \* what its lease holds: nothing, the shared path or a temp file
    thread,     \* where its to_thread call is, "none" without one
    target,     \* where its download goes: the shared path or the temp file
    temp,       \* its mkstemp file, "partial" while yt-dlp writes its .part
    part,       \* whether a failed download has left its .part behind
    doomed,     \* whether a job of another video has found the file stale
    result      \* how the job ended

job == <<pc, attempt, path, result>>
temps == <<temp, part>>
disk == <<file, doomed, temps>>
vars == <<keyed, disk, cached, job, thread, target>>

\* "partial" is a file somebody is still writing, "left" one that an earlier
\* job left less than _AUDIO_STALE_TTL_SECONDS ago.
Files == {"none", "partial", "left", "fresh", "stale"}

TypeOK ==
    /\ keyed \subseteq Job
    /\ file \in Files
    /\ cached \in BOOLEAN
    /\ pc \in [Job -> {"idle", "acquire", "await", "open", "stream", "poll",
                       "release", "close", "cache", "done"}]
    /\ attempt \in [Job -> 1 .. RetryAttempts]
    /\ path \in [Job -> {"none", "shared", "temp"}]
    /\ thread \in [Job -> {"none", "sweep", "unlink", "probe", "size", "begin",
                           "fetch", "install", "remove", "close"}]
    /\ target \in [Job -> {"shared", "temp"}]
    /\ temp \in [Job -> {"none", "partial", "whole"}]
    /\ part \in [Job -> BOOLEAN]
    /\ doomed \in BOOLEAN
    /\ result \in [Job -> {"none", "transcript", "exhausted", "pending",
                           "permanent", "gone", "timeout", "crash"}]

Init ==
    /\ keyed \in SUBSET Job
    /\ file \in {"none", "left", "stale"}   \* what earlier jobs left
    /\ cached = FALSE
    /\ pc = [j \in Job |-> "idle"]
    /\ attempt = [j \in Job |-> 1]
    /\ path = [j \in Job |-> "none"]
    /\ thread = [j \in Job |-> "none"]
    /\ target = [j \in Job |-> IF j \in keyed THEN "shared" ELSE "temp"]
    /\ temp = [j \in Job |-> "none"]
    /\ part = [j \in Job |-> FALSE]
    /\ doomed = FALSE
    /\ result = [j \in Job |-> "none"]

Goto(j, phase) == pc' = [pc EXCEPT ![j] = phase]
Step(j, phase) == thread' = [thread EXCEPT ![j] = phase]
End(j, how) == Goto(j, "done") /\ result' = [result EXCEPT ![j] = how]

\* _owned_temp: what an unkeyed lease downloaded, until aclose deletes it.
OwnsTemp(j) == j \notin keyed /\ path[j] = "temp"

\* The attempt loop is left: aclose in its finally.
Leave(j, how) ==
    IF OwnsTemp(j)
    THEN /\ Goto(j, "close")
         /\ Step(j, "close")
         /\ result' = [result EXCEPT ![j] = how]
    ELSE End(j, how) /\ Step(j, "none")

\* The job is settled: a keyed lease releases the shared file first.
Settle(j, how) ==
    IF j \in keyed
    THEN /\ Goto(j, "release")
         /\ Step(j, "remove")
         /\ result' = [result EXCEPT ![j] = how]
    ELSE Leave(j, how)

-----------------------------------------------------------------------------
(* The job: fetch of the youtube strategy, the attempt loop, the lease. *)

\* A cached transcript ends the job before it touches the audio; a resume never
\* downloads: a keyed lease hands it the shared path, an unkeyed one nothing.
Start(j) ==
    /\ pc[j] = "idle"
    /\ \/ j \in keyed /\ cached /\ End(j, "transcript") /\ UNCHANGED path
       \/ ~(j \in keyed /\ cached) /\ Goto(j, "acquire") /\ UNCHANGED <<path, result>>
       \/ /\ ~(j \in keyed /\ cached)
          /\ Goto(j, "poll")
          /\ path' = [path EXCEPT ![j] = IF j \in keyed THEN "shared" ELSE @]
          /\ UNCHANGED result
    /\ UNCHANGED <<disk, keyed, cached, attempt, thread, target>>

\* AudioFileLease.acquire: download on first use only; without a video id
\* download_audio goes straight to a temp file.
Acquire(j) ==
    /\ pc[j] = "acquire"
    /\ IF path[j] = "none"
       THEN /\ Goto(j, "await")
            /\ Step(j, IF j \in keyed THEN "sweep" ELSE "begin")
            /\ target' = [target EXCEPT ![j] = IF j \in keyed THEN "shared" ELSE "temp"]
       ELSE Goto(j, "open") /\ UNCHANGED <<thread, target>>
    /\ UNCHANGED <<disk, keyed, cached, attempt, path, result>>

\* Faulty variant: the last attempt is followed by another.
SoftFailureOffByOne(j) ==
    /\ IF attempt[j] <= RetryAttempts
       THEN /\ attempt' = [attempt EXCEPT ![j] = @ + 1]
            /\ Goto(j, "acquire")
            /\ UNCHANGED result
       ELSE End(j, "exhausted") /\ UNCHANGED attempt
    /\ Step(j, "none")
    /\ UNCHANGED file

\* Faulty variant: every failed attempt gives the file back.
SoftFailureReleasing(j) ==
    /\ IF attempt[j] < RetryAttempts
       THEN /\ attempt' = [attempt EXCEPT ![j] = @ + 1]
            /\ Goto(j, IF pc[j] = "poll" THEN "poll" ELSE "acquire")
            /\ UNCHANGED <<thread, result>>
       ELSE End(j, "exhausted") /\ Step(j, "remove") /\ UNCHANGED attempt
    /\ file' = IF pc[j] = "stream" THEN "none" ELSE file

\* Faulty variant: a spent budget ends the job without a release.
SoftFailureKeeping(j) ==
    /\ IF attempt[j] < RetryAttempts
       THEN /\ attempt' = [attempt EXCEPT ![j] = @ + 1]
            /\ Goto(j, IF pc[j] = "poll" THEN "poll" ELSE "acquire")
            /\ UNCHANGED result
       ELSE End(j, "exhausted") /\ UNCHANGED attempt
    /\ Step(j, "none")
    /\ UNCHANGED file

\* An ExternalServiceError reached the attempt loop: try again, or release the
\* file and fail.
SoftFailure(j) ==
    /\ IF attempt[j] < RetryAttempts
       THEN /\ attempt' = [attempt EXCEPT ![j] = @ + 1]
            /\ Goto(j, IF pc[j] = "poll" THEN "poll" ELSE "acquire")
            /\ Step(j, "none")
            /\ UNCHANGED result
       ELSE Settle(j, "exhausted") /\ UNCHANGED attempt
    /\ UNCHANGED file

\* The leaf stats and opens its path.  A file that is gone raises an OSError
\* the attempt loop does not catch: the job fails at once.
OpenAudio(j) ==
    /\ pc[j] = "open"
    /\ IF path[j] = "temp" \/ file # "none"
       THEN Goto(j, "stream") /\ UNCHANGED result
       ELSE End(j, "gone")
    /\ UNCHANGED <<disk, keyed, cached, attempt, path, thread, target>>

\* The transcript is there: the lease is released before it is cached.
Transcribed(j) == Settle(j, "transcript") /\ UNCHANGED <<file, attempt>>

\* What the leaf makes of the file: a transcript, a transient failure, a cloud
\* job still pending, or an error the loop does not catch.  Deepgram's second
\* request, with the general model, opens the file again.
Transcribe(j) ==
    /\ pc[j] = "stream"
    /\ \/ Transcribed(j)
       \/ SoftFailure(j)
       \/ /\ path[j] = "shared" /\ file = "none"
          /\ Leave(j, "gone")
          /\ UNCHANGED <<file, attempt>>
       \/ \E how \in {"pending", "permanent"} :
             Leave(j, how) /\ UNCHANGED <<file, attempt>>
    /\ UNCHANGED <<temps, doomed, keyed, cached, path, target>>

\* A resume asks for its cloud job.
Poll(j) ==
    /\ pc[j] = "poll"
    /\ \/ Transcribed(j)
       \/ SoftFailure(j)
       \/ \E how \in {"pending", "permanent"} :
             Leave(j, how) /\ UNCHANGED <<file, attempt>>
    /\ UNCHANGED <<temps, doomed, keyed, cached, path, target>>

\* _write_cache, best-effort.
WriteCache(j) ==
    /\ pc[j] = "cache"
    /\ Goto(j, "done")
    /\ cached' \in {cached, TRUE}
    /\ UNCHANGED <<keyed, disk, attempt, path, thread, target, result>>

\* A to_thread call that waits for a free thread of the executor.
Queued(j) ==
    \/ thread[j] \in {"sweep", "remove", "close"}
    \/ thread[j] = "begin" /\ j \notin keyed

\* wait_for cancels the job: the finally of the attempt loop still deletes a
\* temp file it owns.  A call that no thread has begun is never made, one that
\* is under way goes on.
Timeout(j) ==
    /\ pc[j] \notin {"idle", "done"}
    /\ \/ OwnsTemp(j) /\ pc[j] # "close" /\ Leave(j, "timeout")
       \/ /\ ~OwnsTemp(j) \/ pc[j] = "close"
          /\ End(j, "timeout")
          /\ UNCHANGED thread \/ (Queued(j) /\ Step(j, "none"))
    /\ UNCHANGED <<disk, keyed, cached, attempt, path, target>>

\* The worker process dies, with the threads an ended job left in it.
Crash(j) ==
    /\ pc[j] \notin {"idle", "done"} \/ thread[j] # "none"
    /\ End(j, "crash")
    /\ Step(j, "none")
    /\ UNCHANGED <<disk, keyed, cached, attempt, path, target>>

-----------------------------------------------------------------------------
(* download_audio and remove_audio_cache, in the job's thread. *)

\* _sweep_stale_audio reads the file's age; an OSError of the directory makes
\* the caller fall back on a temp file.
Sweep(j) ==
    /\ thread[j] = "sweep"
    /\ \/ Step(j, IF file = "stale" THEN "unlink" ELSE "probe") /\ UNCHANGED target
       \/ Step(j, "begin") /\ target' = [target EXCEPT ![j] = "temp"]
    /\ UNCHANGED <<disk, keyed, cached, job>>

\* It unlinks what it found stale, by name.
Unlink(j) ==
    /\ thread[j] = "unlink"
    /\ file' = "none"
    /\ Step(j, "probe")
    /\ UNCHANGED <<temps, doomed, keyed, cached, job, target>>

\* cached.is_file() ...
Probe(j) ==
    /\ thread[j] = "probe"
    /\ Step(j, IF file = "none" THEN "begin" ELSE "size")
    /\ UNCHANGED <<disk, keyed, cached, job, target>>

\* download_audio returns to the job, if it still waits.
Return(j, held) ==
    /\ Step(j, "none")
    /\ IF pc[j] = "await"
       THEN path' = [path EXCEPT ![j] = held] /\ Goto(j, "open")
       ELSE UNCHANGED <<path, pc>>

\* ... then its size: a file that went in between is an OSError again.
Size(j) ==
    /\ thread[j] = "size"
    /\ IF file # "none"
       THEN Return(j, "shared") /\ UNCHANGED target
       ELSE /\ Step(j, "begin")
            /\ target' = [target EXCEPT ![j] = "temp"]
            /\ UNCHANGED <<path, pc>>
    /\ UNCHANGED <<disk, keyed, cached, attempt, result>>

\* Faulty variant: the download writes to the shared path itself.
BeginInPlace(j) ==
    /\ thread[j] = "begin"
    /\ temp' = [temp EXCEPT ![j] = "partial"]
    /\ file' = IF target[j] = "shared" THEN "partial" ELSE file
    /\ Step(j, "fetch")
    /\ UNCHANGED <<part, doomed, keyed, cached, job, target>>

\* yt-dlp starts writing the .part of a fresh mkstemp name.
Begin(j) ==
    /\ thread[j] = "begin"
    /\ temp' = [temp EXCEPT ![j] = "partial"]
    /\ Step(j, "fetch")
    /\ UNCHANGED <<file, part, doomed, keyed, cached, job, target>>

\* The job learns that its download failed, if it still waits.
Failed(j) ==
    /\ IF pc[j] = "await"
       THEN SoftFailure(j)
       ELSE Step(j, "none") /\ UNCHANGED <<file, attempt, pc, result>>
    /\ UNCHANGED <<doomed, keyed, cached, path, target>>

\* Faulty variant: a failed download keeps its temp file.
DownloadFailedKept(j) == Failed(j) /\ UNCHANGED temp

\* Any failure removes the temp file, by its own name, and is an
\* ExternalServiceError.
DownloadFailed(j) == Failed(j) /\ temp' = [temp EXCEPT ![j] = "none"]

\* yt-dlp renames its .part to the temp file, or fails and leaves it.
Fetch(j) ==
    /\ thread[j] = "fetch"
    /\ \/ /\ temp' = [temp EXCEPT ![j] = "whole"]
          /\ Step(j, "install")
          /\ UNCHANGED <<file, part, doomed, keyed, cached, job, target>>
       \/ /\ DownloadFailed(j)
          /\ \E left \in BOOLEAN : part' = [part EXCEPT ![j] = @ \/ left]

\* The rename onto the shared path, or the temp path itself.
Install(j) ==
    /\ thread[j] = "install"
    /\ \/ /\ target[j] = "shared"
          /\ file' = "fresh"
          /\ temp' = [temp EXCEPT ![j] = "none"]
          /\ Return(j, "shared")
          /\ UNCHANGED <<part, doomed, keyed, cached, attempt, target, result>>
       \/ /\ target[j] = "temp"
          /\ Return(j, "temp")
          /\ UNCHANGED <<disk, keyed, cached, attempt, target, result>>
       \/ target[j] = "shared" /\ DownloadFailed(j) /\ UNCHANGED part

\* remove_audio_cache: by name, whoever put the file there.
Remove(j) ==
    /\ thread[j] = "remove"
    /\ file' = "none"
    /\ Step(j, "none")
    /\ IF pc[j] = "release"
       THEN Goto(j, IF result[j] = "transcript" THEN "cache" ELSE "done")
       ELSE UNCHANGED pc
    /\ UNCHANGED <<temps, doomed, keyed, cached, attempt, path, target, result>>

\* AudioFileLease.aclose.
Close(j) ==
    /\ thread[j] = "close"
    /\ temp' = [temp EXCEPT ![j] = "none"]
    /\ Step(j, "none")
    /\ IF pc[j] = "close" THEN Goto(j, "done") ELSE UNCHANGED pc
    /\ UNCHANGED <<file, part, doomed, keyed, cached, attempt, path, target, result>>

-----------------------------------------------------------------------------
(* The rest of the machine. *)

\* _AUDIO_STALE_TTL_SECONDS pass.
Age ==
    /\ file \in {"left", "fresh"}
    /\ file' = "stale"
    /\ UNCHANGED <<temps, doomed, keyed, cached, job, thread, target>>

\* _sweep_stale_audio goes over the whole directory: a job of another video,
\* of which there are any number, finds this file stale ...
OtherSweep ==
    /\ file = "stale"
    /\ doomed' = TRUE
    /\ UNCHANGED <<file, temps, keyed, cached, job, thread, target>>

\* ... and unlinks it by name, whatever has its name by then.
OtherUnlink ==
    /\ doomed
    /\ file' = "none"
    /\ UNCHANGED <<temps, doomed, keyed, cached, job, thread, target>>

Thread(j) ==
    \/ Sweep(j)
    \/ Unlink(j)
    \/ Probe(j)
    \/ Size(j)
    \/ Begin(j)
    \/ Fetch(j)
    \/ Install(j)
    \/ Remove(j)
    \/ Close(j)

Run(j) ==
    \/ Start(j)
    \/ Acquire(j)
    \/ OpenAudio(j)
    \/ Transcribe(j)
    \/ Poll(j)
    \/ WriteCache(j)

Next ==
    \/ \E j \in Job : Run(j) \/ Thread(j) \/ Timeout(j) \/ Crash(j)
    \/ Age
    \/ OtherSweep
    \/ OtherUnlink

Spec == Init /\ [][Next]_vars

-----------------------------------------------------------------------------
(* Properties. *)

\* "Concurrent callers never observe a partial file" (download_audio): no
\* leaf opens one, whoever is downloading and whoever was cancelled.
OpensWhole ==
    [][ \A j \in Job : pc[j] = "open" /\ pc'[j] = "stream" =>
          IF path[j] = "temp" THEN temp[j] = "whole" ELSE file # "partial" ]_vars

Settled == {"none", "transcript", "exhausted", "gone"}
Quiet == \A j \in Job : pc[j] \in {"idle", "done"} /\ thread[j] = "none"

\* Only jobs that never settled leave audio behind for the TTL sweep: when
\* nobody works, a file one of the jobs downloaded is there because of one that
\* crashed, timed out, failed for good or is still pending.
Stragglers ==
    Quiet /\ file = "fresh" => \E j \in keyed : result[j] \notin Settled

\* What the downloads of a job leave in the temp directory when it is over.
\* The mkstemp file: only in a crash, when a keyed lease fell back on one (it
\* deletes none), or when the pipeline timeout cancelled a job whose unkeyed
\* lease did not have it yet.  The .part of a failed download, which
\* download_audio does not delete: only after such a failure, so that a job
\* through on its first attempt leaves none.
TempsReclaimed ==
    \A j \in Job : pc[j] = "done" /\ thread[j] = "none" =>
        /\ temp[j] # "none" => \/ result[j] = "crash"
                               \/ j \in keyed /\ target[j] = "temp"
                               \/ j \notin keyed /\ result[j] = "timeout"
        /\ part[j] => attempt[j] > 1 \/ result[j] \in {"exhausted", "timeout", "crash"}

\* A job alone with its video loses the file between two attempts only to the
\* TTL: a job of another video has found the file older than that.
SoleHolderKeepsFile ==
    \A j \in Job : result[j] = "gone" =>
        doomed \/ \E k \in keyed \ {j} : pc[k] # "idle"

\* "A failed transcription re-submits the same file" (AudioFileLease), so no
\* job fails because its file is gone before the TTL has passed.
KeepsItsFile == \A j \in Job : result[j] = "gone" => doomed

=============================================================================
