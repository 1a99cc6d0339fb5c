-------------------------- MODULE AudioCacheProofs --------------------------
(***************************************************************************)
(* Proofs about AudioCache: any number of jobs, with the video's id or     *)
(* without one, any number of attempts each.                               *)
(***************************************************************************)
EXTENDS AudioCache, TLAPS

\* The steps of download_audio.
Downloading == {"sweep", "unlink", "probe", "size", "begin", "fetch", "install"}

\* A job waits for its thread or has none; only a timeout leaves a job that is
\* over with a thread that goes on.
Places(j) ==
    /\ pc[j] \in {"idle", "acquire", "open", "stream", "poll", "cache"} => thread[j] = "none"
    /\ pc[j] = "idle" => path[j] = "none"
    /\ pc[j] = "poll" => path[j] # "temp"
    /\ pc[j] = "await" => thread[j] \in Downloading /\ path[j] = "none"
    /\ pc[j] = "release" => thread[j] = "remove"
    /\ pc[j] = "close" => thread[j] = "close"
    /\ pc[j] = "done" /\ thread[j] # "none" => result[j] = "timeout"
    /\ pc[j] \in {"open", "stream"} => path[j] # "none"
    /\ result[j] \notin Settled => pc[j] \in {"close", "done"}
    /\ result[j] # "none" => pc[j] \in {"release", "close", "cache", "done"}

\* A job without the video's id never comes near the shared file, and only
\* such a job deletes a temp file.
Unkeyed(j) ==
    /\ j \notin keyed => /\ target[j] = "temp"
                         /\ path[j] # "shared"
                         /\ thread[j] \in {"none", "begin", "fetch", "install", "close"}
    /\ j \in keyed => thread[j] # "close"

\* What is installed is whole, and the temp file a lease holds stays so.
Whole(j) ==
    /\ thread[j] = "install" => temp[j] = "whole"
    /\ path[j] = "temp" /\ pc[j] \in {"acquire", "open", "stream"} => temp[j] = "whole"

\* The temp file is the download's, the fallback's, the lease's that owns it,
\* or that of a job that crashed or was cancelled; a job that downloads again
\* has none.  A .part is there after a failed attempt.
Temps(j) ==
    /\ temp[j] # "none" =>
         \/ thread[j] \in {"fetch", "install"}
         \/ j \in keyed /\ target[j] = "temp"
         \/ result[j] = "crash"
         \/ /\ j \notin keyed
            /\ \/ result[j] = "timeout"
               \/ pc[j] = "close"
               \/ path[j] = "temp" /\ pc[j] \in {"acquire", "open", "stream"}
    /\ pc[j] \in {"idle", "poll"} \/ (pc[j] = "acquire" /\ path[j] = "none") => temp[j] = "none"
    /\ part[j] => attempt[j] > 1 \/ result[j] \in {"exhausted", "timeout", "crash"}

\* While all other jobs of the video are yet to come and no other video's job
\* has found the file stale, nobody removes the file of this one.
Sole(j) ==
    (~doomed /\ \A k \in keyed \ {j} : pc[k] = "idle")
    => /\ result[j] # "gone"
       /\ path[j] = "shared" /\ pc[j] \in {"acquire", "open", "stream"} => file # "none"

Own(j) == Places(j) /\ Unkeyed(j) /\ Whole(j) /\ Temps(j)

JobInv(j) == Own(j) /\ Sole(j)

\* A downloaded file has a job that will remove it, or one that never settled.
Owes(j) ==
    \/ result[j] \notin Settled
    \/ thread[j] = "remove"
    \/ path[j] = "shared" /\ pc[j] \in {"acquire", "open", "stream", "poll"}

FileInv ==
    /\ file # "partial"
    /\ file = "fresh" => \E j \in keyed : Owes(j)

CacheInv == FileInv /\ \A j \in Job : JobInv(j)

\* One job's step.
StepOf(j) == Run(j) \/ Thread(j) \/ Timeout(j) \/ Crash(j)

-----------------------------------------------------------------------------

LEMMA AudioInit == Init => TypeOK /\ CacheInv
<1> SUFFICES ASSUME Init PROVE TypeOK /\ CacheInv
  OBVIOUS
<1>1. 1 \in 1 .. RetryAttempts
  BY AudioAssumption
<1>2. TypeOK
  BY <1>1 DEF Init, TypeOK, Files
<1>3. CacheInv
  BY DEF Init, CacheInv, FileInv, JobInv, Own, Places, Unkeyed, Whole, Temps, Sole, Settled
<1>4. QED
  BY <1>2, <1>3

\* A mark set on one job is a mark.
LEMMA MarkTypes ==
    ASSUME NEW f \in [Job -> BOOLEAN], NEW j \in Job, NEW b \in BOOLEAN
    PROVE  [f EXCEPT ![j] = @ \/ b] \in [Job -> BOOLEAN]
  BY Zenon

\* What is typed after an attempt has failed.
LEMMA FailureTypes ==
    ASSUME TypeOK, NEW j \in Job, SoftFailure(j) \/ Failed(j)
    PROVE  /\ pc' \in [Job -> {"idle", "acquire", "await", "open", "stream", "poll",
                               "release", "close", "cache", "done"}]
           /\ thread' \in [Job -> {"none", "sweep", "unlink", "probe", "size", "begin",
                                   "fetch", "install", "remove", "close"}]
           /\ attempt' \in [Job -> 1 .. RetryAttempts]
           /\ result' \in [Job -> {"none", "transcript", "exhausted", "pending",
                                   "permanent", "gone", "timeout", "crash"}]
           /\ file' = file
<1> USE AudioAssumption DEF TypeOK, Goto, Step, End, Leave, Settle
<1>1. CASE SoftFailure(j)
  <2>1. CASE attempt[j] < RetryAttempts
    BY <1>1, <2>1 DEF SoftFailure
  <2>2. CASE ~(attempt[j] < RetryAttempts)
    BY <1>1, <2>2 DEF SoftFailure
  <2>3. QED
    BY <2>1, <2>2
<1>2. CASE Failed(j) /\ ~SoftFailure(j)
  BY <1>2 DEF Failed
<1>3. QED
  BY <1>1, <1>2

LEMMA AudioTypeStep == TypeOK /\ [Next]_vars => TypeOK'
<1> SUFFICES ASSUME TypeOK, [Next]_vars PROVE TypeOK'
  OBVIOUS
<1> USE AudioAssumption DEF TypeOK, Files, disk, temps, job, Goto, Step, End, Leave, Settle
<1>1. ASSUME NEW j \in Job, Start(j) \/ Acquire(j) \/ OpenAudio(j)
      PROVE  TypeOK'
  BY <1>1 DEF Start, Acquire, OpenAudio
<1>2. ASSUME NEW j \in Job, WriteCache(j)
      PROVE  TypeOK'
  <2>1. cached' \in BOOLEAN
    BY <1>2 DEF WriteCache
  <2>2. QED
    BY <1>2, <2>1 DEF WriteCache
<1>3. ASSUME NEW j \in Job, Transcribe(j) \/ Poll(j)
      PROVE  TypeOK'
  <2>1. CASE SoftFailure(j)
    BY <1>3, <2>1, FailureTypes DEF Transcribe, Poll
  <2>2. CASE ~SoftFailure(j)
    BY <1>3, <2>2 DEF Transcribe, Poll, Transcribed
  <2>3. QED
    BY <2>1, <2>2
<1>4. ASSUME NEW j \in Job, Timeout(j) \/ Crash(j)
      PROVE  TypeOK'
  BY <1>4 DEF Timeout, Crash
<1>5. ASSUME NEW j \in Job, Sweep(j) \/ Unlink(j) \/ Probe(j) \/ Size(j)
      PROVE  TypeOK'
  BY <1>5 DEF Sweep, Unlink, Probe, Size, Return
<1>6. ASSUME NEW j \in Job, Begin(j)
      PROVE  TypeOK'
  BY <1>6 DEF Begin
<1>7. ASSUME NEW j \in Job, Fetch(j)
      PROVE  TypeOK'
  <2>1. part' \in [Job -> BOOLEAN]
    <3>1. part' = part \/ \E b \in BOOLEAN : part' = [part EXCEPT ![j] = @ \/ b]
      BY <1>7 DEF Fetch
    <3>2. part \in [Job -> BOOLEAN]
      OBVIOUS
    <3>3. QED
      BY <3>1, <3>2, MarkTypes
  <2>2. QED
    <3>1. CASE DownloadFailed(j)
      BY <1>7, <2>1, <3>1, FailureTypes DEF Fetch, DownloadFailed, Failed
    <3>2. CASE ~DownloadFailed(j)
      BY <1>7, <2>1, <3>2 DEF Fetch
    <3>3. QED
      BY <3>1, <3>2
<1>8. ASSUME NEW j \in Job, Install(j)
      PROVE  TypeOK'
  <2>1. CASE DownloadFailed(j) /\ UNCHANGED part
    BY <1>8, <2>1, FailureTypes DEF Install, DownloadFailed, Failed
  <2>2. CASE ~(DownloadFailed(j) /\ UNCHANGED part)
    BY <1>8, <2>2 DEF Install, Return
  <2>3. QED
    BY <2>1, <2>2
<1>9. ASSUME NEW j \in Job, Remove(j) \/ Close(j)
      PROVE  TypeOK'
  BY <1>9 DEF Remove, Close
<1>10. CASE Age \/ OtherSweep \/ OtherUnlink \/ UNCHANGED vars
  <2>1. CASE Age
    BY <2>1 DEF Age
  <2>2. CASE OtherSweep
    BY <2>2 DEF OtherSweep
  <2>3. CASE OtherUnlink
    BY <2>3 DEF OtherUnlink
  <2>4. CASE UNCHANGED vars
    BY <2>4 DEF vars
  <2>5. QED
    BY <1>10, <2>1, <2>2, <2>3, <2>4
<1> HIDE DEF TypeOK, Files, disk, temps, job, Goto, Step, End, Leave, Settle
<1>11. QED
  BY <1>1, <1>2, <1>3, <1>4, <1>5, <1>6, <1>7, <1>8, <1>9, <1>10 DEF Next, Run, Thread

\* A job's step changes nothing of another job's.
LEMMA OwnState ==
    ASSUME TypeOK, NEW j \in Job, StepOf(j), NEW k \in Job \ {j}
    PROVE  /\ pc'[k] = pc[k] /\ thread'[k] = thread[k] /\ path'[k] = path[k]
           /\ target'[k] = target[k] /\ temp'[k] = temp[k] /\ result'[k] = result[k]
           /\ part'[k] = part[k] /\ attempt'[k] = attempt[k]
<1> USE DEF TypeOK, disk, temps, job, Goto, Step, End, Leave, Settle
<1>1. CASE Run(j)
  <2>1. CASE Start(j) \/ Acquire(j) \/ OpenAudio(j) \/ WriteCache(j)
    BY <2>1, ZenonT(60) DEF Start, Acquire, OpenAudio, WriteCache
  <2>2. CASE Transcribe(j) \/ Poll(j)
    BY <2>2 DEF Transcribe, Poll, Transcribed, SoftFailure
  <2>3. QED
    BY <1>1, <2>1, <2>2 DEF Run
<1>2. CASE Sweep(j) \/ Unlink(j) \/ Probe(j) \/ Size(j) \/ Begin(j) \/ Remove(j) \/ Close(j)
  BY <1>2 DEF Sweep, Unlink, Probe, Size, Begin, Remove, Close, Return
<1>3. CASE Fetch(j)
  BY <1>3 DEF Fetch, DownloadFailed, Failed, SoftFailure
<1>4. CASE Install(j)
  BY <1>4 DEF Install, Return, DownloadFailed, Failed, SoftFailure
<1>5. CASE Timeout(j) \/ Crash(j)
  BY <1>5 DEF Timeout, Crash
<1>6. QED
  BY <1>1, <1>2, <1>3, <1>4, <1>5 DEF StepOf, Thread

\* A job's step leaves who is keyed and what other videos' jobs found alone.
LEMMA Given ==
    ASSUME NEW j \in Job, StepOf(j)
    PROVE  keyed' = keyed /\ doomed' = doomed
<1> USE DEF disk
<1>1. CASE Run(j)
  BY <1>1 DEF Run, Start, Acquire, OpenAudio, Transcribe, Poll, WriteCache
<1>2. CASE Thread(j)
  BY <1>2 DEF Thread, Sweep, Unlink, Probe, Size, Begin, Fetch, Install, Remove, Close,
              DownloadFailed, Failed
<1>3. CASE Timeout(j) \/ Crash(j)
  BY <1>3 DEF Timeout, Crash
<1>4. QED
  BY <1>1, <1>2, <1>3 DEF StepOf

\* A step of a job preserves what holds of the job itself, but for what the
\* other jobs can do to its file.
LEMMA OwnStep ==
    ASSUME TypeOK, NEW j \in Job, Own(j), StepOf(j)
    PROVE  Own(j)'
<1>0. keyed' = keyed
  BY Given
<1> USE <1>0 DEF TypeOK, Own, Settled, Downloading, disk, temps, job, Goto, Step, End, Leave,
        Settle, OwnsTemp
<1>1. CASE Start(j)
  <2> USE <1>1 DEF Start
  <2>1. Places(j)'
    BY DEF Places
  <2>2. Unkeyed(j)'
    BY DEF Unkeyed, Places
  <2>3. Whole(j)'
    BY DEF Whole, Places
  <2>4. Temps(j)'
    BY DEF Temps, Places, Unkeyed
  <2>5. QED
    BY <2>1, <2>2, <2>3, <2>4
<1>2. CASE OpenAudio(j)
  <2> USE <1>2 DEF OpenAudio
  <2>1. Places(j)'
    BY DEF Places
  <2>2. Unkeyed(j)'
    BY DEF Unkeyed, Places
  <2>3. Whole(j)'
    BY DEF Whole, Places
  <2>4. Temps(j)'
    BY DEF Temps, Places, Unkeyed
  <2>5. QED
    BY <2>1, <2>2, <2>3, <2>4
<1>3. CASE WriteCache(j)
  BY <1>3 DEF WriteCache, Places, Unkeyed, Whole, Temps
<1>4. CASE Acquire(j)
  BY <1>4 DEF Acquire, Places, Unkeyed, Whole, Temps
<1>5. CASE Transcribe(j)
  <2> USE <1>5 DEF Transcribe, Transcribed, SoftFailure
  <2>1. Places(j)'
    BY DEF Places
  <2>2. Unkeyed(j)'
    BY DEF Unkeyed, Places
  <2>3. Whole(j)'
    BY DEF Whole, Places
  <2>4. Temps(j)'
    BY DEF Temps, Places, Unkeyed
  <2>5. QED
    BY <2>1, <2>2, <2>3, <2>4
<1>6. CASE Poll(j)
  <2> USE <1>6 DEF Poll, Transcribed, SoftFailure
  <2>1. Places(j)'
    BY DEF Places
  <2>2. Unkeyed(j)'
    BY DEF Unkeyed, Places
  <2>3. Whole(j)'
    BY DEF Whole, Places
  <2>4. Temps(j)'
    BY DEF Temps, Places, Unkeyed
  <2>5. QED
    BY <2>1, <2>2, <2>3, <2>4
<1>7. CASE Timeout(j)
  <2> USE <1>7 DEF Timeout, Queued
  <2>1. Places(j)'
    BY DEF Places
  <2>2. Unkeyed(j)'
    BY DEF Unkeyed, Places
  <2>3. Whole(j)'
    BY DEF Whole, Places
  <2>4. Temps(j)'
    BY DEF Temps, Places, Unkeyed
  <2>5. QED
    BY <2>1, <2>2, <2>3, <2>4
<1>8. CASE Crash(j)
  BY <1>8 DEF Crash, Places, Unkeyed, Whole, Temps
<1>9. CASE Sweep(j) \/ Unlink(j) \/ Probe(j)
  BY <1>9 DEF Sweep, Unlink, Probe, Places, Unkeyed, Whole, Temps
<1>10. CASE Size(j)
  BY <1>10 DEF Size, Return, Places, Unkeyed, Whole, Temps
<1>11. CASE Begin(j)
  BY <1>11 DEF Begin, Places, Unkeyed, Whole, Temps
<1>12. CASE Fetch(j)
  <2> USE <1>12 DEF Fetch, DownloadFailed, Failed, SoftFailure
  <2>1. Places(j)'
    BY DEF Places
  <2>2. Unkeyed(j)'
    BY DEF Unkeyed, Places
  <2>3. Whole(j)'
    BY DEF Whole, Places
  <2>4. Temps(j)'
    BY DEF Temps, Places, Unkeyed
  <2>5. QED
    BY <2>1, <2>2, <2>3, <2>4
<1>13. CASE Install(j)
  <2> USE <1>13 DEF Install, Return, DownloadFailed, Failed, SoftFailure
  <2>1. Places(j)'
    BY DEF Places
  <2>2. Unkeyed(j)'
    BY DEF Unkeyed, Places
  <2>3. Whole(j)'
    BY DEF Whole, Places
  <2>4. Temps(j)'
    BY DEF Temps, Places, Unkeyed
  <2>5. QED
    BY <2>1, <2>2, <2>3, <2>4
<1>14. CASE Remove(j) \/ Close(j)
  BY <1>14 DEF Remove, Close, Places, Unkeyed, Whole, Temps
<1>15. QED
  BY <1>1, <1>2, <1>3, <1>4, <1>5, <1>6, <1>7, <1>8, <1>9, <1>10, <1>11, <1>12, <1>13, <1>14
     DEF StepOf, Run, Thread

\* Only the threads change the file: two remove it, one installs it.
LEMMA FileStep ==
    ASSUME NEW j \in Job, StepOf(j)
    PROVE  \/ file' = file
           \/ file' = "none" /\ thread[j] \in {"unlink", "remove"}
           \/ file' = "fresh" /\ Install(j) /\ target[j] = "shared"
<1> USE DEF disk, temps
<1>1. CASE Run(j) \/ Timeout(j) \/ Crash(j)
  BY <1>1 DEF Run, Start, Acquire, OpenAudio, WriteCache, Transcribe, Poll, Transcribed,
              SoftFailure, Timeout, Crash
<1>2. CASE Sweep(j) \/ Probe(j) \/ Size(j) \/ Begin(j) \/ Fetch(j) \/ Close(j)
  BY <1>2 DEF Sweep, Probe, Size, Begin, Fetch, Close, DownloadFailed, Failed, SoftFailure
<1>3. CASE Unlink(j) \/ Remove(j)
  BY <1>3 DEF Unlink, Remove
<1>4. CASE Install(j)
  BY <1>4 DEF Install, DownloadFailed, Failed, SoftFailure
<1>5. QED
  BY <1>1, <1>2, <1>3, <1>4 DEF StepOf, Thread

\* No job is idle after a step of its own.
LEMMA NeverIdle ==
    ASSUME TypeOK, NEW k \in Job, Places(k), StepOf(k), pc'[k] = "idle"
    PROVE  FALSE
<1>1. pc[k] = "idle" => thread[k] = "none"
  BY DEF Places
<1>2. CASE Run(k)
  <2> USE DEF TypeOK, Goto, End, Leave, Settle
  <2>1. CASE Start(k) \/ Acquire(k) \/ OpenAudio(k) \/ WriteCache(k)
    BY <2>1, ZenonT(60) DEF Start, Acquire, OpenAudio, WriteCache
  <2>2. CASE Transcribe(k) \/ Poll(k)
    BY <2>2 DEF Transcribe, Poll, Transcribed, SoftFailure
  <2>3. QED
    BY <1>2, <2>1, <2>2 DEF Run
<1>3. CASE Timeout(k) \/ Crash(k)
  BY <1>3 DEF Timeout, Crash, TypeOK, Goto, End, Leave
<1>4. CASE Thread(k)
  <2>1. thread[k] # "none"
    BY <1>4 DEF Thread, Sweep, Unlink, Probe, Size, Begin, Fetch, Install, Remove, Close
  <2> USE DEF TypeOK, Goto, End, Leave, Settle, Return, job
  <2>2. CASE Sweep(k) \/ Unlink(k) \/ Probe(k) \/ Size(k) \/ Begin(k)
    BY <1>1, <2>1, <2>2 DEF Sweep, Unlink, Probe, Size, Begin
  <2>3. CASE Remove(k) \/ Close(k)
    BY <1>1, <2>1, <2>3 DEF Remove, Close
  <2>4. CASE Fetch(k) \/ Install(k)
    BY <1>1, <2>1, <2>4 DEF Fetch, Install, DownloadFailed, Failed, SoftFailure
  <2>5. QED
    BY <1>4, <2>2, <2>3, <2>4 DEF Thread
<1>5. QED
  BY <1>2, <1>3, <1>4 DEF StepOf

\* Before the video's other jobs have begun, its only job's file stays until it
\* lets go, or until it is found stale.
LEMMA SoleStep ==
    ASSUME TypeOK, NEW j \in Job, \A k \in Job : JobInv(k), NEW k \in Job, StepOf(k)
    PROVE  Sole(j)'
<1>0. Own(j) /\ Sole(j) /\ Own(k) /\ Own(j)'
  <2>1. Own(j) /\ Sole(j) /\ Own(k)
    BY DEF JobInv
  <2>2. CASE k = j
    BY <2>1, <2>2, OwnStep
  <2>3. CASE k # j
    <3>1. /\ pc'[j] = pc[j] /\ thread'[j] = thread[j] /\ path'[j] = path[j]
          /\ target'[j] = target[j] /\ temp'[j] = temp[j] /\ result'[j] = result[j]
          /\ part'[j] = part[j] /\ attempt'[j] = attempt[j]
      BY <2>3, OwnState
    <3>2. keyed' = keyed
      BY Given
    <3>3. QED
      BY <2>1, <3>1, <3>2 DEF Own, Places, Unkeyed, Whole, Temps
  <2>4. QED
    BY <2>1, <2>2, <2>3
<1>1. keyed' = keyed /\ doomed' = doomed
  BY Given
<1> SUFFICES ASSUME ~doomed', \A i \in keyed' \ {j} : pc'[i] = "idle"
             PROVE  /\ result'[j] # "gone"
                    /\ path'[j] = "shared" /\ pc'[j] \in {"acquire", "open", "stream"}
                         => file' # "none"
  BY DEF Sole
<1>2. CASE k # j
  <2>1. k \notin keyed
    BY <1>0, <1>1, <1>2, NeverIdle DEF Own
  <2>2. file' = file
    BY <1>0, <2>1, FileStep DEF Own, Unkeyed
  <2>3. \A i \in keyed \ {j} : pc[i] = "idle"
    <3> SUFFICES ASSUME NEW i \in keyed \ {j} PROVE pc[i] = "idle"
      OBVIOUS
    <3>1. i \in Job \ {k} /\ pc'[i] = "idle"
      BY <1>1, <2>1 DEF TypeOK
    <3>2. QED
      BY <3>1, OwnState
  <2>4. pc'[j] = pc[j] /\ path'[j] = path[j] /\ result'[j] = result[j]
    BY <1>2, OwnState
  <2>5. QED
    BY <1>0, <1>1, <2>2, <2>3, <2>4 DEF Sole
<1>3. CASE k = j
  <2>1. \A i \in keyed \ {j} : pc[i] = "idle"
    BY <1>1, <1>3, OwnState DEF TypeOK
  <2>2. /\ result[j] # "gone"
        /\ path[j] = "shared" /\ pc[j] \in {"acquire", "open", "stream"} => file # "none"
    BY <1>0, <1>1, <2>1 DEF Sole
  <2> USE <1>0, <1>3, <2>2 DEF Own, Places, TypeOK, disk, temps, job, Goto, Step, End, Leave,
          Settle, Downloading
  <2>3. CASE Start(j)
    BY <2>3 DEF Start
  <2>4. CASE Acquire(j) \/ WriteCache(j)
    BY <2>4 DEF Acquire, WriteCache
  <2>5. CASE OpenAudio(j)
    BY <2>5 DEF OpenAudio
  <2>6. CASE Transcribe(j)
    BY <2>6 DEF Transcribe, Transcribed, SoftFailure
  <2>7. CASE Poll(j)
    BY <2>7 DEF Poll, Transcribed, SoftFailure
  <2>8. CASE Timeout(j) \/ Crash(j)
    BY <2>8 DEF Timeout, Crash
  <2>9. CASE Sweep(j) \/ Unlink(j) \/ Probe(j) \/ Begin(j) \/ Remove(j) \/ Close(j)
    BY <2>9 DEF Sweep, Unlink, Probe, Begin, Remove, Close
  <2>10. CASE Size(j)
    BY <2>10 DEF Size, Return
  <2>11. CASE Fetch(j)
    BY <2>11 DEF Fetch, DownloadFailed, Failed, SoftFailure
  <2>12. CASE Install(j)
    BY <2>12 DEF Install, Return, DownloadFailed, Failed, SoftFailure
  <2>13. QED
    BY <2>3, <2>4, <2>5, <2>6, <2>7, <2>8, <2>9, <2>10, <2>11, <2>12
       DEF StepOf, Run, Thread
<1>4. QED
  BY <1>2, <1>3

\* The others' steps leave a job its places and its temp file.
LEMMA JobStep ==
    ASSUME TypeOK, NEW j \in Job, \A k \in Job : JobInv(k), NEW k \in Job, StepOf(k)
    PROVE  JobInv(j)'
<1>1. Own(j)
  BY DEF JobInv
<1>2. Sole(j)'
  BY SoleStep
<1>3. CASE k = j
  BY <1>1, <1>2, <1>3, OwnStep DEF JobInv
<1>4. CASE k # j
  <2>1. /\ pc'[j] = pc[j] /\ thread'[j] = thread[j] /\ path'[j] = path[j]
        /\ target'[j] = target[j] /\ temp'[j] = temp[j] /\ result'[j] = result[j]
        /\ part'[j] = part[j] /\ attempt'[j] = attempt[j]
    BY <1>4, OwnState
  <2>2. keyed' = keyed
    BY Given
  <2>3. Own(j)'
    BY <1>1, <2>1, <2>2 DEF Own, Places, Unkeyed, Whole, Temps
  <2>4. QED
    BY <1>2, <2>3 DEF JobInv
<1>5. QED
  BY <1>3, <1>4

\* A job that owes the removal of the file goes on owing it until a removal,
\* and one that installs a file owes its removal.
LEMMA OwingStep ==
    ASSUME TypeOK, NEW j \in keyed, Own(j), StepOf(j), file' = "fresh",
           Owes(j) \/ file' # file
    PROVE  Owes(j)'
<1> USE DEF TypeOK, Own, Places, Unkeyed, Owes, Settled, Downloading, disk, temps, job, Goto,
        Step, End, Leave, Settle, OwnsTemp
<1>0. j \in Job
  OBVIOUS
<1>1. file' # file => Install(j) /\ target[j] = "shared"
  BY FileStep, <1>0
<1>2. CASE Start(j) \/ WriteCache(j)
  BY <1>1, <1>2 DEF Start, WriteCache
<1>3. CASE Acquire(j) \/ OpenAudio(j)
  BY <1>1, <1>3 DEF Acquire, OpenAudio
<1>4. CASE Transcribe(j)
  BY <1>1, <1>4 DEF Transcribe, Transcribed, SoftFailure
<1>5. CASE Poll(j)
  BY <1>1, <1>5 DEF Poll, Transcribed, SoftFailure
<1>6. CASE Timeout(j) \/ Crash(j)
  BY <1>6 DEF Timeout, Crash
<1>7. CASE Sweep(j) \/ Unlink(j) \/ Probe(j) \/ Begin(j) \/ Remove(j) \/ Close(j)
  BY <1>1, <1>7 DEF Sweep, Unlink, Probe, Begin, Remove, Close
<1>8. CASE Size(j)
  BY <1>1, <1>8 DEF Size, Return
<1>9. CASE Fetch(j)
  BY <1>1, <1>9 DEF Fetch, DownloadFailed, Failed, SoftFailure
<1>10. CASE Install(j)
  BY <1>1, <1>10 DEF Install, Return, DownloadFailed, Failed, SoftFailure
<1>11. QED
  BY <1>0, <1>2, <1>3, <1>4, <1>5, <1>6, <1>7, <1>8, <1>9, <1>10 DEF StepOf, Run, Thread

LEMMA AudioStep == TypeOK /\ CacheInv /\ [Next]_vars => CacheInv'
<1> SUFFICES ASSUME TypeOK, CacheInv, [Next]_vars PROVE CacheInv'
  OBVIOUS
<1>0. file # "partial" /\ \A j \in Job : JobInv(j) /\ Own(j)
  BY DEF CacheInv, FileInv, JobInv
<1>1. ASSUME NEW k \in Job, StepOf(k)
      PROVE  CacheInv'
  <2>1. \A j \in Job : JobInv(j)'
    BY <1>0, <1>1, JobStep
  <2>2. file' # "partial"
    BY <1>0, <1>1, FileStep
  <2>3. keyed' = keyed /\ keyed \subseteq Job
    BY <1>1, Given DEF TypeOK
  <2>4. ASSUME file' = "fresh" PROVE \E j \in keyed : Owes(j)'
    <3>1. CASE file' # file
      <4>1. Install(k) /\ target[k] = "shared"
        BY <1>1, <2>4, <3>1, FileStep
      <4>2. k \in keyed
        BY <1>0, <4>1 DEF Own, Unkeyed
      <4>3. QED
        BY <1>0, <1>1, <2>4, <3>1, <4>2, OwingStep
    <3>2. CASE file' = file
      <4>1. PICK j \in keyed : Owes(j)
        BY <2>4, <3>2 DEF CacheInv, FileInv
      <4>2. CASE j = k
        BY <1>0, <1>1, <2>4, <4>1, <4>2, OwingStep
      <4>3. CASE j # k
        <5>1. UNCHANGED <<pc[j], thread[j], path[j], result[j]>>
          BY <1>1, <2>3, <4>3, OwnState
        <5>2. QED
          BY <4>1, <5>1 DEF Owes
      <4>4. QED
        BY <4>2, <4>3
    <3>3. QED
      BY <3>1, <3>2
  <2>5. QED
    BY <2>1, <2>2, <2>3, <2>4 DEF CacheInv, FileInv
<1>2. CASE Age \/ OtherSweep \/ OtherUnlink \/ UNCHANGED vars
  <2>1. /\ UNCHANGED <<keyed, pc, attempt, path, thread, target, temp, part, result>>
        /\ file' = file \/ file' = "stale" \/ (doomed' /\ file' = "none")
        /\ doomed' = doomed \/ doomed'
    BY <1>2 DEF Age, OtherSweep, OtherUnlink, vars, disk, temps, job
  <2>2. ASSUME NEW j \in Job PROVE JobInv(j)'
    <3>1. Own(j)'
      BY <1>0, <2>1 DEF Own, Places, Unkeyed, Whole, Temps
    <3>2. Sole(j)'
      BY <1>0, <2>1 DEF JobInv, Sole
    <3>3. QED
      BY <3>1, <3>2 DEF JobInv
  <2>3. FileInv'
    BY <2>1 DEF CacheInv, FileInv, Owes
  <2>4. QED
    BY <2>2, <2>3 DEF CacheInv
<1>3. QED
  BY <1>1, <1>2 DEF Next, StepOf

-----------------------------------------------------------------------------
(* Theorems. *)

\* Whatever the jobs' threads, timeouts and crashes do in between, every job's
\* place, lease and file are well typed, and no loop exceeds its attempts.
THEOREM AudioTypes == Spec => []TypeOK
<1>1. Init => TypeOK
  BY AudioInit
<1>2. QED
  BY <1>1, AudioTypeStep, PTL DEF Spec

LEMMA CacheInvariant == Spec => []CacheInv
<1>1. Init => CacheInv
  BY AudioInit
<1>2. QED
  BY <1>1, AudioStep, AudioTypes, PTL DEF Spec

\* Without any lock between the jobs, no speech-to-text leaf ever opens a file
\* that is still being written: not the shared one, nor a fallback of its own.
THEOREM LeavesOpenWhole == Spec => OpensWhole
<1>1. ASSUME CacheInv, NEW j \in Job, pc[j] = "open"
      PROVE  IF path[j] = "temp" THEN temp[j] = "whole" ELSE file # "partial"
  BY <1>1 DEF CacheInv, FileInv, JobInv, Own, Whole
<1>2. CacheInv /\ [Next]_vars =>
        [ \A j \in Job : pc[j] = "open" /\ pc'[j] = "stream" =>
            IF path[j] = "temp" THEN temp[j] = "whole" ELSE file # "partial" ]_vars
  BY <1>1
<1>3. QED
  BY <1>2, CacheInvariant, PTL DEF Spec, OpensWhole

\* When nobody works for the video, a file some job downloaded is there only
\* because of a job that never settled.
THEOREM StragglersExplained == Spec => []Stragglers
<1>1. TypeOK /\ CacheInv => Stragglers
  <2> SUFFICES ASSUME TypeOK, CacheInv, Quiet, file = "fresh"
               PROVE  \E j \in keyed : result[j] \notin Settled
    BY DEF Stragglers
  <2>1. PICK j \in keyed : Owes(j)
    BY DEF CacheInv, FileInv
  <2>2. j \in Job
    BY <2>1 DEF TypeOK
  <2>3. QED
    BY <2>1, <2>2 DEF Owes, Quiet
<1>2. QED
  BY <1>1, AudioTypes, CacheInvariant, PTL

\* When a job is over, its temp file is there only after a crash, a keyed
\* fallback or the cancellation of an unkeyed download, and a .part only after a
\* failed attempt.
THEOREM DownloadTempsReclaimed == Spec => []TempsReclaimed
<1>1. CacheInv => TempsReclaimed
  BY DEF CacheInv, JobInv, Own, Temps, TempsReclaimed
<1>2. QED
  BY <1>1, CacheInvariant, PTL

\* A job fails for a missing file only if another job for the video has begun,
\* or if another video's job found the file older than the TTL.
THEOREM SoleHolder == Spec => []SoleHolderKeepsFile
<1>1. CacheInv => SoleHolderKeepsFile
  BY DEF CacheInv, JobInv, Sole, SoleHolderKeepsFile
<1>2. QED
  BY <1>1, CacheInvariant, PTL

=============================================================================
