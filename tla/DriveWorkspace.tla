--------------------------- MODULE DriveWorkspace ---------------------------
(***************************************************************************)
(* The Drive strategy (providers/drive.py): runs of it for one Drive file, *)
(* by any number of jobs and by the retries that resume a pending cloud    *)
(* job.  A run fetches the file and its audio into a workspace of its own, *)
(* has the audio transcribed, removes the workspace and writes the caches  *)
(* the runs share.                                                         *)
(*                                                                         *)
(* A pipeline timeout cancels the run's coroutine wherever it waits, which *)
(* no "except Exception" catches and every "finally" sees; the thread that *)
(* fetches goes on.  The cache is fail-open: a write may be lost, a read   *)
(* may miss, an entry may expire.                                          *)
(***************************************************************************)
EXTENDS Naturals, FiniteSets

CONSTANTS
    Run,            \* runs of the strategy
    Attempts        \* _RETRY_ATTEMPTS, of a download and of a transcription

ASSUME DriveAssumption == Attempts \in Nat \ {0}

VARIABLES
    configured,     \* whether there is an audio leaf
    name,           \* the name the file was uploaded under
    pc,             \* where each run's coroutine is
    resume,         \* whether it came with a resume token
    tries,          \* attempts of the loop it is in
    result,         \* what the loop came to
    thread,         \* its prepare_audio call
    dir,            \* whether its workspace exists
    files,          \* what that holds: the part, the media file, the audio
    pending,        \* cloud jobs waiting for a resume
    transcript,     \* whether the transcript is cached
    media,          \* whether title and duration are
    cut,            \* observed: runs a timeout or a kill cut short
    cacheFault      \* observed: whether the cache ever lost anything

caches == <<transcript, media, cacheFault>>
setting == <<configured, name>>
vars == <<setting, pc, resume, tries, result, thread, dir, files, pending, caches, cut>>

Phase == {"none", "lookup", "media", "acquire", "discard", "transcribe", "clean",
          "write", "writeMedia", "end"}
Started == {r \in Run : pc[r] \notin {"none", "end"}}

\* Phases of a run that may hold a workspace.
Holding == {"acquire", "discard", "transcribe", "clean"}

\* Runs that are over; each may have left one cloud job pending.
Ended == {r \in Run : pc[r] = "end"}

TypeOK ==
    /\ configured \in BOOLEAN
    /\ name \in {"audio.m4a", "other"}
    /\ pc \in [Run -> Phase]
    /\ resume \in [Run -> BOOLEAN]
    /\ tries \in [Run -> 0 .. Attempts - 1]
    /\ result \in [Run -> {"none", "transcript", "pending", "error", "timeout"}]
    /\ thread \in [Run -> {"none", "open", "stream", "extract", "done", "failed", "rejected"}]
    /\ dir \in [Run -> BOOLEAN]
    /\ files \in [Run -> SUBSET {"part", "media", "audio"}]
    /\ pending \in 0 .. Cardinality(Ended)
    /\ transcript \in BOOLEAN
    /\ media \in BOOLEAN
    /\ cacheFault \in BOOLEAN
    /\ cut \subseteq Run

Init ==
    /\ configured \in BOOLEAN
    /\ name \in {"audio.m4a", "other"}
    /\ pc = [r \in Run |-> "none"]
    /\ resume = [r \in Run |-> FALSE]
    /\ tries = [r \in Run |-> 0]
    /\ result = [r \in Run |-> "none"]
    /\ thread = [r \in Run |-> "none"]
    /\ dir = [r \in Run |-> FALSE]
    /\ files = [r \in Run |-> {}]
    /\ pending = 0
    /\ transcript = FALSE
    /\ media = FALSE
    /\ cut = {}
    /\ cacheFault = FALSE

Goto(r, phase) == pc' = [pc EXCEPT ![r] = phase]

-----------------------------------------------------------------------------
(* Looking things up. *)

\* A new job for the file, or a retry with the token of a pending one.
Start(r) ==
    /\ pc[r] = "none"
    /\ Goto(r, "lookup")
    /\ \/ UNCHANGED <<resume, pending>>
       \/ /\ pending > 0
          /\ pending' = pending - 1
          /\ resume' = [resume EXCEPT ![r] = TRUE]
    /\ UNCHANGED <<setting, tries, result, thread, dir, files, caches, cut>>

\* _acquire_audio begins: the workspace is made and the thread is sent off.
BeginAcquire(r) ==
    /\ Goto(r, "acquire")
    /\ dir' = [dir EXCEPT ![r] = TRUE]
    /\ thread' = [thread EXCEPT ![r] = "open"]

\* A cached transcript ends the run, and so does a missing audio leaf.
ReadCache(r) ==
    /\ pc[r] = "lookup"
    /\ \/ transcript /\ Goto(r, "end") /\ UNCHANGED <<dir, thread, cacheFault>>
       \/ /\ cacheFault' = (cacheFault \/ transcript)
          /\ \/ ~configured /\ Goto(r, "end") /\ UNCHANGED <<dir, thread>>
             \/ configured /\ resume[r] /\ Goto(r, "media") /\ UNCHANGED <<dir, thread>>
             \/ configured /\ ~resume[r] /\ BeginAcquire(r)
    /\ UNCHANGED <<setting, resume, tries, result, files, pending, transcript, media, cut>>

\* A resume that finds title and duration needs no audio.
ReadMedia(r) ==
    /\ pc[r] = "media"
    /\ \/ media /\ Goto(r, "transcribe") /\ UNCHANGED <<dir, thread, cacheFault>>
       \/ BeginAcquire(r) /\ cacheFault' = (cacheFault \/ media)
    /\ UNCHANGED <<setting, resume, tries, result, files, pending, transcript, media, cut>>

-----------------------------------------------------------------------------
(* Fetching the file and its audio. *)

\* The thread goes on, whether or not the run still waits for it.
Continue(r, phase, holds) ==
    /\ thread' = [thread EXCEPT ![r] = phase]
    /\ files' = [files EXCEPT ![r] = holds]
    /\ UNCHANGED <<setting, pc, resume, tries, result, dir, pending, caches, cut>>

\* The API's media endpoint or, without a key, the web's: a file, a status to
\* try again after, or what no attempt gets past: a missing or closed file, a
\* rejected key, a page that is no confirm form, and a connection that breaks,
\* for httpx's errors are no ExternalServiceError.
OpenDownload(r) ==
    /\ thread[r] = "open"
    /\ \/ Continue(r, "stream", files[r] \cup {"part"})
       \/ \E failure \in {"failed", "rejected"} : Continue(r, failure, files[r])

\* The whole body is renamed to the name it was uploaded under; an empty one
\* is tried again, a broken one is not.
Stream(r) ==
    /\ thread[r] = "stream"
    /\ \/ Continue(r, "extract", (files[r] \ {"part"}) \cup {"media"})
       \/ \E failure \in {"failed", "rejected"} : Continue(r, failure, files[r])

\* The media file goes, whether or not ffmpeg could extract its audio, some of
\* which a failure may leave.  Over a file of the audio's own name it cannot.
Extract(r) ==
    /\ thread[r] = "extract"
    /\ LET kept == files[r] \ {"media"} IN
       \/ Continue(r, "failed", kept)
       \/ /\ name # "audio.m4a"
          /\ \E phase \in {"done", "failed"} : Continue(r, phase, kept \cup {"audio"})

Prepare(r) == OpenDownload(r) \/ Stream(r) \/ Extract(r)

\* Faulty variant: one attempt too many.
AcquireOffByOne(r) ==
    /\ pc[r] = "acquire"
    /\ thread[r] = "failed"
    /\ tries' = [tries EXCEPT ![r] = @ + 1]
    /\ IF tries[r] < Attempts
       THEN thread' = [thread EXCEPT ![r] = "open"] /\ UNCHANGED pc
       ELSE Goto(r, "discard") /\ UNCHANGED thread
    /\ UNCHANGED <<setting, resume, result, dir, files, pending, caches, cut>>

\* run_download_attempts: a failed download is tried again, in the same
\* workspace; a rejected one is not.
Acquire(r) ==
    /\ pc[r] = "acquire"
    /\ \/ /\ thread[r] = "done"
          /\ Goto(r, "transcribe")
          /\ tries' = [tries EXCEPT ![r] = 0]
          /\ UNCHANGED thread
       \/ /\ thread[r] = "failed"
          /\ tries[r] + 1 < Attempts
          /\ tries' = [tries EXCEPT ![r] = @ + 1]
          /\ thread' = [thread EXCEPT ![r] = "open"]
          /\ UNCHANGED pc
       \/ /\ thread[r] = "rejected" \/ (thread[r] = "failed" /\ tries[r] + 1 = Attempts)
          /\ Goto(r, "discard")
          /\ UNCHANGED <<tries, thread>>
    /\ UNCHANGED <<setting, resume, result, dir, files, pending, caches, cut>>

\* Its workspace goes, and the acquisition's exception with it.
Discard(r) ==
    /\ pc[r] = "discard"
    /\ dir' = [dir EXCEPT ![r] = FALSE]
    /\ files' = [files EXCEPT ![r] = {}]
    /\ Goto(r, "end")
    /\ UNCHANGED <<setting, resume, tries, result, thread, pending, caches, cut>>

-----------------------------------------------------------------------------
(* Transcribing it. *)

Settle(r, what) ==
    /\ Goto(r, "clean")
    /\ result' = [result EXCEPT ![r] = what]

\* Faulty variant: the workspace is removed between two attempts.
TranscribeCleaning(r) ==
    /\ pc[r] = "transcribe"
    /\ tries[r] + 1 < Attempts
    /\ tries' = [tries EXCEPT ![r] = @ + 1]
    /\ dir' = [dir EXCEPT ![r] = FALSE]
    /\ files' = [files EXCEPT ![r] = {}]
    /\ UNCHANGED <<setting, pc, resume, result, thread, pending, caches, cut>>

\* One attempt of run_transcription_attempts, with the workspace's audio or,
\* on a resume that skipped it, none: a transcript, a pending cloud job, an
\* error that ends the loop or one to try again after.
Transcribe(r) ==
    /\ pc[r] = "transcribe"
    /\ \/ \E what \in {"transcript", "pending", "error"} :
             Settle(r, what) /\ UNCHANGED tries
       \/ /\ tries[r] + 1 < Attempts
          /\ tries' = [tries EXCEPT ![r] = @ + 1]
          /\ UNCHANGED <<pc, result>>
    /\ UNCHANGED <<setting, resume, thread, dir, files, pending, caches, cut>>

\* Faulty variant: the removal is no finally clause, and a pending job
\* passes it by.
CleanSettledOnly(r) ==
    /\ pc[r] = "clean"
    /\ IF result[r] = "transcript"
       THEN dir' = [dir EXCEPT ![r] = FALSE] /\ Goto(r, "write")
       ELSE Goto(r, "end") /\ UNCHANGED dir
    /\ UNCHANGED <<setting, resume, tries, result, thread, files, pending, caches, cut>>

\* The finally clause removes the workspace, if the run has one; a pending
\* job is then handed to the task.
Clean(r) ==
    /\ pc[r] = "clean"
    /\ dir' = [dir EXCEPT ![r] = FALSE]
    /\ files' = [files EXCEPT ![r] = {}]
    /\ Goto(r, IF result[r] = "transcript" THEN "write" ELSE "end")
    /\ pending' = IF result[r] = "pending" THEN pending + 1 ELSE pending
    /\ UNCHANGED <<setting, resume, tries, result, thread, caches, cut>>

\* The transcript is cached, then its metadata.
WriteCache(r) ==
    /\ pc[r] = "write"
    /\ Goto(r, "writeMedia")
    /\ \/ transcript' = TRUE /\ UNCHANGED cacheFault
       \/ cacheFault' = TRUE /\ UNCHANGED transcript
    /\ UNCHANGED <<setting, resume, tries, result, thread, dir, files, pending, media, cut>>

WriteMedia(r) ==
    /\ pc[r] = "writeMedia"
    /\ Goto(r, "end")
    /\ \/ media' = TRUE /\ UNCHANGED cacheFault
       \/ cacheFault' = TRUE /\ UNCHANGED media
    /\ UNCHANGED <<setting, resume, tries, result, thread, dir, files, pending, transcript, cut>>

-----------------------------------------------------------------------------
(* What befalls a run and the cache. *)

\* The pipeline timeout: an acquisition ends as it is, a transcription after
\* its finally clause, and a removal may have been left in the pool's queue.
Timeout(r) ==
    /\ r \in Started
    /\ result[r] # "timeout"
    /\ \/ /\ pc[r] = "transcribe"
          /\ Settle(r, "timeout")
          /\ UNCHANGED <<dir, files, cut>>
       \/ /\ pc[r] # "transcribe"
          /\ Goto(r, "end")
          /\ cut' = cut \cup {r}
          /\ \/ UNCHANGED <<dir, files>>
             \/ /\ pc[r] \in {"discard", "clean"}
                /\ dir' = [dir EXCEPT ![r] = FALSE]
                /\ files' = [files EXCEPT ![r] = {}]
          /\ UNCHANGED result
    /\ UNCHANGED <<setting, resume, tries, thread, pending, caches>>

\* A killed child or a crash: nothing of the run is left but its files.
Kill(r) ==
    /\ r \in Started
    /\ Goto(r, "end")
    /\ thread' = [thread EXCEPT ![r] = "none"]
    /\ cut' = cut \cup {r}
    /\ UNCHANGED <<setting, resume, tries, result, dir, files, pending, caches>>

\* A cache entry expires or is evicted.
Expire ==
    /\ \/ transcript /\ transcript' = FALSE /\ UNCHANGED media
       \/ media /\ media' = FALSE /\ UNCHANGED transcript
    /\ cacheFault' = TRUE
    /\ UNCHANGED <<setting, pc, resume, tries, result, thread, dir, files, pending, cut>>

-----------------------------------------------------------------------------

Coroutine(r) ==
    \/ ReadCache(r)
    \/ ReadMedia(r)
    \/ Acquire(r)
    \/ Discard(r)
    \/ Transcribe(r)
    \/ Clean(r)
    \/ WriteCache(r)
    \/ WriteMedia(r)

Next ==
    \/ \E r \in Run : Start(r)
    \/ \E r \in Run : Coroutine(r)
    \/ \E r \in Run : Prepare(r)
    \/ \E r \in Run : Timeout(r)
    \/ \E r \in Run : Kill(r)
    \/ Expire

Spec == Init /\ [][Next]_vars

-----------------------------------------------------------------------------
(* Properties. *)

\* A workspace belongs to a run in progress or was left by one that a timeout
\* or a kill cut short; without an audio leaf "fails fast and fetches nothing".
WorkspaceOwned ==
    \A r \in Run : dir[r] =>
        /\ pc[r] \in Holding \/ r \in cut
        /\ configured

\* "Reused across transcription retries": a transcription with a workspace
\* finds its audio there, in every attempt, and nothing else, whatever earlier
\* attempts to fetch it have left; only a resume goes without.
AudioAtHand ==
    \A r \in Run : pc[r] = "transcribe" =>
        IF dir[r] THEN files[r] = {"audio"} /\ thread[r] = "done"
        ELSE resume[r] /\ thread[r] = "none"

\* "A resume skips acquisition entirely (title/duration come from the media
\* cache)", unless the cache has lost something.
ResumeSkipsAcquisition ==
    \A r \in Run : resume[r] /\ dir[r] => cacheFault

=============================================================================
