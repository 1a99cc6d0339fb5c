-------------------------- MODULE WorkerLoopProofs --------------------------
(***************************************************************************)
(* Proofs about WorkerLoop: any tasks of any kinds in one child, any       *)
(* number of threads and crashes.                                          *)
(***************************************************************************)
EXTENDS WorkerLoop, FiniteSetTheorems, TLAPS

\* A thread of the pool serves one call each, and the main thread one job.
TypeInv ==
    /\ TypeOK
    /\ IsFiniteSet(Busy)
    /\ main # "idle" => cur \in Job

\* The coroutine of a task is there until it is collected; a message that
\* waits has none.
Serving == main = "task" => pc[cur] # "none"

Waiting(j) == j \in queue => pc[j] = "none"

\* Only a transcription fails its job in its coroutine, and when that has
\* ended the backend knows or the report was lost.
FailsInside(j) ==
    /\ pc[j] = "fail" => kind[j] = "transcription"
    /\ pc[j] = "end" /\ kind[j] = "transcription" => status[j] \in Ends \/ "lost" \in mishap[j]

\* The coroutine of a download or of notes is its task's, or the task has
\* begun to report for it: one the soft limit leaves behind is reported first.
ReportsOutside(j) ==
    kind[j] \in Reporting /\ pc[j] # "none" => (main = "task" /\ cur = j) \/ rep[j] # "none"

\* A coroutine that returns has told the backend its result.
Returned(j) == out[j] = "ok" => pc[j] = "end" /\ status[j] \in Ends

\* Only a download has a directory, and its removal comes before the end.
Directory(j) ==
    /\ dir[j] => kind[j] = "download"
    /\ dir[j] /\ pc[j] = "clean" => thread[j] # "done"
    /\ dir[j] => pc[j] \in Threaded \/ mishap[j] # {}

\* Unless it was disturbed, nobody is left to speak of a job whose end the
\* backend knows, and a report comes after the coroutine.
Silent(j) ==
    "disturbed" \notin mishap[j] =>
        /\ status[j] \in Ends => /\ j \notin queue
                                 /\ ~Live(j)
                                 /\ rep[j] # "calling"
                                 /\ pc[j] = "end" /\ kind[j] \in Reporting => out[j] = "ok"
        /\ rep[j] = "calling" => pc[j] = "none" /\ j \notin queue

\* NothingDropped, of one job.
Covered(j) ==
    \/ j \in queue
    \/ main # "idle" /\ cur = j
    \/ Live(j)
    \/ rep[j] # "none"
    \/ status[j] \in Ends
    \/ "lost" \in mishap[j]
    \/ kind[j] = "probe"

JobInv(j) ==
    /\ Waiting(j)
    /\ FailsInside(j)
    /\ ReportsOutside(j)
    /\ Returned(j)
    /\ Directory(j)
    /\ Silent(j)
    /\ Covered(j)

LoopInv == Serving /\ \A j \in Job : JobInv(j)

\* The steps of one job on the loop and in its thread.
JobStep(j) ==
    \/ Coroutine(j)
    \/ Timeout(j)
    \/ Report(j)
    \/ StartThread(j)
    \/ EndThread(j)
    \/ SoftLimitInside(j)
    \/ SoftLimitInReport(j)

-----------------------------------------------------------------------------
(* Types. *)

LEMMA LoopInit == Init => TypeInv /\ LoopInv
<1> SUFFICES ASSUME Init PROVE TypeInv /\ LoopInv
  OBVIOUS
<1>1. Busy = {}
  BY DEF Init, Busy
<1>2. IsFiniteSet(Busy) /\ Cardinality(Busy) = 0
  BY <1>1, FS_EmptySet
<1>3. 0 <= Threads /\ 0 \in 0 .. MaxCrashes /\ kind \in [Job -> Kind]
  BY LoopAssumption DEF Init
<1>4. TypeOK
  BY <1>2, <1>3 DEF Init, TypeOK, Phase, Threaded
<1>5. LoopInv
  BY DEF Init, LoopInv, Serving, JobInv, Waiting, FailsInside, ReportsOutside, Returned,
         Directory, Silent, Covered, Ends
<1>6. QED
  BY <1>2, <1>4, <1>5 DEF TypeInv, Init

\* Only StartThread takes a thread of the pool.
LEMMA BusyShrinks ==
    ASSUME TypeInv, [Next]_vars, \A j \in Job : ~StartThread(j)
    PROVE  Busy' \subseteq Busy
<1> SUFFICES ASSUME NEW i \in Job, thread'[i] = "running"
             PROVE  thread[i] = "running"
  BY DEF Busy
<1> USE DEF TypeInv, TypeOK, coro, Proceed, Raise
<1>1. CASE Shell
  BY <1>1 DEF Shell, Finish, FinishReport, Take
<1>2. ASSUME NEW j \in Job, Coroutine(j)
      PROVE  thread[i] = "running"
  BY <1>2 DEF Coroutine, Get, Advance, Resume, MarkReady, FailInside
<1>3. ASSUME NEW j \in Job, Timeout(j) \/ Report(j) \/ EndThread(j)
      PROVE  thread[i] = "running"
  BY <1>3 DEF Timeout, Report, EndThread
<1>4. ASSUME NEW j \in Job, SoftLimitInside(j) \/ SoftLimitInReport(j)
      PROVE  thread[i] = "running"
  BY <1>4 DEF SoftLimitInside, SoftLimitInReport
<1>5. CASE SoftLimit \/ UNCHANGED vars
  BY <1>5 DEF SoftLimit, vars
<1>6. CASE HardLimit \/ Recycle \/ NodeCrash
  BY <1>6 DEF HardLimit, Recycle, NodeCrash, NewProcess
<1>7. QED
  BY <1>1, <1>2, <1>3, <1>4, <1>5, <1>6 DEF Next

LEMMA PoolStep == TypeInv /\ [Next]_vars => (IsFiniteSet(Busy) /\ Cardinality(Busy) <= Threads)'
<1> SUFFICES ASSUME TypeInv, [Next]_vars
             PROVE  IsFiniteSet(Busy') /\ Cardinality(Busy') <= Threads
  OBVIOUS
<1>1. /\ IsFiniteSet(Busy) /\ Cardinality(Busy) \in Nat /\ Cardinality(Busy) <= Threads
      /\ Threads \in Nat
  BY FS_CardinalityType, LoopAssumption DEF TypeInv, TypeOK
<1>2. ASSUME NEW j \in Job, StartThread(j)
      PROVE  IsFiniteSet(Busy') /\ Cardinality(Busy') <= Threads
  <2>1. Busy' = Busy \cup {j} /\ j \notin Busy /\ Cardinality(Busy) < Threads
    BY <1>2 DEF StartThread, Busy, TypeInv, TypeOK
  <2>2. IsFiniteSet(Busy') /\ Cardinality(Busy') = Cardinality(Busy) + 1
    BY <1>1, <2>1, FS_AddElement
  <2>3. QED
    BY <1>1, <2>1, <2>2
<1>3. CASE \A j \in Job : ~StartThread(j)
  <2>1. Busy' \subseteq Busy
    BY <1>3, BusyShrinks
  <2>2. IsFiniteSet(Busy') /\ Cardinality(Busy') <= Cardinality(Busy)
    BY <1>1, <2>1, FS_Subset
  <2>3. Cardinality(Busy') \in Nat
    BY <2>2, FS_CardinalityType
  <2>4. QED
    BY <1>1, <2>2, <2>3
<1>4. QED
  BY <1>2, <1>3

LEMMA LoopTypeStep == TypeInv /\ [Next]_vars => TypeInv'
<1> SUFFICES ASSUME TypeInv, [Next]_vars PROVE TypeInv'
  OBVIOUS
<1>0. TypeOK /\ IsFiniteSet(Busy') /\ Cardinality(Busy') <= Threads
  BY PoolStep DEF TypeInv
<1> USE <1>0 DEF TypeInv, TypeOK, loop, coro, Phase, Threaded, Ends, Proceed, Raise, Leave,
        Tell, Flag
<1>1. ASSUME NEW j \in Job, Take(j) PROVE TypeInv'
  BY <1>1 DEF Take
<1>2. CASE Finish
  BY <1>2 DEF Finish, Collect, ShellFails
<1>3. CASE FinishReport
  BY <1>3 DEF FinishReport
<1>4. ASSUME NEW j \in Job, Get(j) \/ Resume(j) PROVE TypeInv'
  BY <1>4 DEF Get, Resume, After
<1>5. ASSUME NEW j \in Job, Advance(j) PROVE TypeInv'
  BY <1>5, ZenonT(60) DEF Advance
<1>6. ASSUME NEW j \in Job, MarkReady(j) \/ FailInside(j) PROVE TypeInv'
  BY <1>6 DEF MarkReady, FailInside
<1>7. ASSUME NEW j \in Job, Timeout(j) \/ Report(j) PROVE TypeInv'
  BY <1>7 DEF Timeout, Report
<1>8. ASSUME NEW j \in Job, StartThread(j) \/ EndThread(j) PROVE TypeInv'
  <2>1. dir' \in [Job -> BOOLEAN]
    BY <1>8 DEF StartThread, EndThread
  <2>2. thread' \in [Job -> {"none", "queued", "running", "done", "failed"}]
    BY <1>8 DEF StartThread, EndThread
  <2>3. QED
    BY <1>8, <2>1, <2>2 DEF StartThread, EndThread
<1>9. CASE SoftLimit
  <2>1. /\ UNCHANGED <<kind, queue, pc, out, thread, dir, status, crashes>>
        /\ mishap' \in [Job -> SUBSET {"disturbed", "lost"}]
    BY <1>9 DEF SoftLimit
  <2>2. \/ Leave /\ UNCHANGED rep
        \/ /\ main # "idle" /\ main' = "report" /\ cur' = cur /\ soft' = TRUE
           /\ rep' = [rep EXCEPT ![cur] = "calling"]
    BY <1>9 DEF SoftLimit, ShellFails, InLoop
  <2>3. QED
    BY <2>1, <2>2
<1>10. ASSUME NEW j \in Job, SoftLimitInside(j) PROVE TypeInv'
  BY <1>10, ZenonT(60) DEF SoftLimitInside
<1>11. ASSUME NEW j \in Job, SoftLimitInReport(j) PROVE TypeInv'
  BY <1>11 DEF SoftLimitInReport
<1>12. ASSUME NewProcess PROVE /\ UNCHANGED <<kind, dir, status>>
                               /\ main' = "idle" /\ cur' = None /\ soft' = FALSE
                               /\ pc' \in [Job -> {"none"}] /\ out' \in [Job -> {"none"}]
                               /\ thread' \in [Job -> {"none"}]
                               /\ rep' \in [Job -> {"none", "calling", "done"}]
  BY <1>12 DEF NewProcess
<1>13. CASE HardLimit \/ Recycle
  <2>1. mishap' \in [Job -> SUBSET {"disturbed", "lost"}]
    BY <1>13 DEF HardLimit, Recycle
  <2>2. NewProcess /\ UNCHANGED <<queue, crashes>>
    BY <1>13 DEF HardLimit, Recycle
  <2>3. QED
    BY <1>12, <2>1, <2>2
<1>14. CASE NodeCrash
  <2>1. mishap' \in [Job -> SUBSET {"disturbed", "lost"}]
    BY <1>14 DEF NodeCrash
  <2>2. NewProcess /\ queue' \subseteq Job /\ crashes' \in 0 .. MaxCrashes
    BY <1>14, LoopAssumption DEF NodeCrash, InLoop
  <2>3. QED
    BY <1>12, <2>1, <2>2
<1>15. CASE UNCHANGED vars
  BY <1>15 DEF vars
<1>16. QED
  BY <1>1, <1>2, <1>3, <1>4, <1>5, <1>6, <1>7, <1>8, <1>9, <1>10, <1>11, <1>12, <1>13,
    <1>14, <1>15
     DEF Next, Shell, Coroutine

-----------------------------------------------------------------------------
(* The steps of a job. *)

\* They change nothing of another job's, and leave the main thread to its task.
LEMMA OwnState ==
    ASSUME TypeInv, NEW k \in Job, JobStep(k), NEW j \in Job \ {k}
    PROVE  /\ pc'[j] = pc[j] /\ out'[j] = out[j] /\ thread'[j] = thread[j]
           /\ dir'[j] = dir[j] /\ rep'[j] = rep[j] /\ status'[j] = status[j]
           /\ mishap'[j] = mishap[j]
<1> USE DEF TypeInv, TypeOK, coro, Proceed, Raise, Tell, Flag
<1>1. CASE Coroutine(k)
  BY <1>1 DEF Coroutine, Get, Advance, Resume, MarkReady, FailInside
<1>2. CASE Timeout(k) \/ Report(k) \/ StartThread(k) \/ EndThread(k)
  BY <1>2 DEF Timeout, Report, StartThread, EndThread
<1>3. CASE SoftLimitInside(k) \/ SoftLimitInReport(k)
  BY <1>3 DEF SoftLimitInside, SoftLimitInReport
<1>4. QED
  BY <1>1, <1>2, <1>3 DEF JobStep

LEMMA MainStays ==
    ASSUME NEW k \in Job, JobStep(k)
    PROVE  UNCHANGED <<kind, queue, main, cur>>
<1>1. CASE Coroutine(k)
  BY <1>1 DEF Coroutine, Get, Advance, Resume, MarkReady, FailInside, loop
<1>2. CASE Timeout(k) \/ Report(k) \/ StartThread(k) \/ EndThread(k)
  BY <1>2 DEF Timeout, Report, StartThread, EndThread, loop
<1>3. CASE SoftLimitInside(k) \/ SoftLimitInReport(k)
  BY <1>3 DEF SoftLimitInside, SoftLimitInReport
<1>4. QED
  BY <1>1, <1>2, <1>3 DEF JobStep

\* Coroutines appear and vanish only when a message is taken, when they are
\* collected and with the process.
LEMMA CoroutineStays ==
    ASSUME TypeInv, NEW k \in Job, JobStep(k)
    PROVE  pc'[k] = "none" <=> pc[k] = "none"
<1> USE DEF TypeInv, TypeOK, coro, Proceed, Raise
<1>1. CASE Coroutine(k)
  BY <1>1 DEF Coroutine, Get, Advance, Resume, After, MarkReady, FailInside, Threaded
<1>2. CASE Timeout(k) \/ Report(k) \/ StartThread(k) \/ EndThread(k)
  BY <1>2 DEF Timeout, Report, StartThread, EndThread
<1>3. CASE SoftLimitInside(k) \/ SoftLimitInReport(k)
  BY <1>3 DEF SoftLimitInside, SoftLimitInReport, Live
<1>4. QED
  BY <1>1, <1>2, <1>3 DEF JobStep

LEMMA OwnStep ==
    ASSUME TypeInv, NEW j \in Job, JobInv(j), JobStep(j)
    PROVE  /\ JobInv(j)'
           /\ status[j] \in Ends /\ status'[j] # status[j] => "disturbed" \in mishap'[j]
<1>0. pc'[j] = "none" <=> pc[j] = "none"
  BY CoroutineStays
<1>a. UNCHANGED <<kind, queue, main, cur>>
  BY MainStays
<1> USE <1>0, <1>a
    DEF TypeInv, TypeOK, JobInv, Waiting, FailsInside, ReportsOutside, Returned, Directory,
        Silent, Covered, Live, Ends, Reporting, Threaded, Phase, Kind, Proceed, Raise,
        Tell, Flag, coro
<1>1. CASE Get(j)
  BY <1>1 DEF Get
<1>2. CASE Advance(j)
  BY <1>2 DEF Advance, Skips
<1>3. CASE Resume(j)
  BY <1>3 DEF Resume, After
<1>4. CASE MarkReady(j)
  BY <1>4 DEF MarkReady
<1>5. CASE FailInside(j)
  BY <1>5 DEF FailInside
<1>6. CASE Timeout(j)
  BY <1>6 DEF Timeout
<1>7. CASE Report(j)
  BY <1>7 DEF Report
<1>8. CASE StartThread(j)
  BY <1>8 DEF StartThread
<1>9. CASE EndThread(j)
  BY <1>9 DEF EndThread
<1>10. CASE SoftLimitInside(j)
  BY <1>10 DEF SoftLimitInside, Skips
<1>11. CASE SoftLimitInReport(j)
  BY <1>11 DEF SoftLimitInReport
<1>12. QED
  BY <1>1, <1>2, <1>3, <1>4, <1>5, <1>6, <1>7, <1>8, <1>9, <1>10, <1>11
     DEF JobStep, Coroutine

-----------------------------------------------------------------------------
(* The steps of the main thread and of the process. *)

LEMMA TakeStep ==
    ASSUME TypeInv, LoopInv, NEW k \in Job, Take(k)
    PROVE  LoopInv'
<1>1. Serving'
  BY DEF Take, Serving, TypeInv, TypeOK
<1>2. ASSUME NEW j \in Job PROVE JobInv(j)'
  <2>1. JobInv(j)
    BY DEF LoopInv
  <2> USE DEF Take, TypeInv, TypeOK, Waiting, FailsInside, ReportsOutside, Returned, Directory,
              Silent, Covered, Live, Ends, Threaded
  <2>2. CASE j = k
    BY <2>1, <2>2 DEF JobInv
  <2>3. CASE j # k
    BY <2>1, <2>3 DEF JobInv
  <2>4. QED
    BY <2>2, <2>3
<1>3. QED
  BY <1>1, <1>2 DEF LoopInv

\* What ShellFails comes to: a report begins, or the task ends without one.
LEMMA ShellFailure ==
    ASSUME TypeInv, NEW struck, ShellFails(struck), main # "idle"
    PROVE  \/ /\ kind[cur] \in Reporting /\ main' = "report" /\ cur' = cur
              /\ rep' = [rep EXCEPT ![cur] = "calling"]
           \/ kind[cur] \notin Reporting /\ main' = "idle" /\ UNCHANGED rep
BY DEF ShellFails, Leave

LEMMA FinishStep == ASSUME TypeInv, LoopInv, Finish PROVE LoopInv'
<1>1. /\ main = "task" /\ cur \in Job /\ pc[cur] = "end"
      /\ pc' = [pc EXCEPT ![cur] = "none"] /\ out' = [out EXCEPT ![cur] = "none"]
      /\ UNCHANGED <<kind, queue, thread, dir, status, mishap>>
  BY DEF Finish, Collect, TypeInv
<1>2. \/ /\ kind[cur] \in Reporting /\ main' = "report" /\ cur' = cur /\ out[cur] # "ok"
         /\ rep' = [rep EXCEPT ![cur] = "calling"]
      \/ main' = "idle" /\ UNCHANGED rep /\ (out[cur] = "ok" \/ kind[cur] \notin Reporting)
  BY <1>1, ShellFailure DEF Finish, Leave
<1>3. Serving'
  BY <1>2 DEF Serving
<1>4. ASSUME NEW j \in Job PROVE JobInv(j)'
  <2>1. JobInv(j)
    BY DEF LoopInv
  <2> USE <1>1, <1>2 DEF TypeInv, TypeOK, Waiting, FailsInside, ReportsOutside, Returned,
              Directory, Silent, Covered, Live, Ends, Threaded, Kind, Reporting
  <2>2. CASE j = cur
    BY <2>1, <2>2 DEF JobInv
  <2>3. CASE j # cur
    BY <2>1, <2>3 DEF JobInv
  <2>4. QED
    BY <2>2, <2>3
<1>5. QED
  BY <1>3, <1>4 DEF LoopInv

LEMMA FinishReportStep == ASSUME TypeInv, LoopInv, FinishReport PROVE LoopInv'
<1>1. /\ main = "report" /\ rep[cur] = "done" /\ main' = "idle"
      /\ UNCHANGED <<kind, queue, pc, out, thread, dir, rep, status, mishap>>
  BY DEF FinishReport, Leave, coro
<1>2. Serving'
  BY <1>1 DEF Serving
<1>3. ASSUME NEW j \in Job PROVE JobInv(j)'
  BY <1>1 DEF LoopInv, JobInv, TypeInv, TypeOK, Waiting, FailsInside, ReportsOutside,
    Returned,
              Directory, Silent, Covered, Live
<1>4. QED
  BY <1>2, <1>3 DEF LoopInv

LEMMA SoftLimitStep == ASSUME TypeInv, LoopInv, SoftLimit PROVE LoopInv'
<1>1. /\ main # "idle" /\ cur \in Job
      /\ UNCHANGED <<kind, queue, pc, out, thread, dir, status>>
      /\ mishap' = [mishap EXCEPT ![cur] =
            @ \cup {IF main = "report" THEN "lost" ELSE "disturbed"}]
  BY DEF SoftLimit, InLoop, Flag, TypeInv, coro
<1>2. \/ /\ main = "task" /\ kind[cur] \in Reporting /\ main' = "report" /\ cur' = cur
         /\ rep' = [rep EXCEPT ![cur] = "calling"]
      \/ /\ main' = "idle" /\ UNCHANGED rep
         /\ main = "report" \/ (main = "task" /\ kind[cur] \notin Reporting)
  BY <1>1, ShellFailure DEF SoftLimit, Leave, TypeInv, TypeOK
<1>3. Serving'
  BY <1>2 DEF Serving
<1>4. ASSUME NEW j \in Job PROVE JobInv(j)'
  <2>1. JobInv(j) /\ (main = "task" => pc[cur] # "none")
    BY DEF LoopInv, Serving
  <2> USE <1>1, <1>2 DEF TypeInv, TypeOK, Waiting, FailsInside, ReportsOutside, Returned,
              Directory, Silent, Covered, Live, Ends, Threaded, Phase, Kind, Reporting
  <2>2. CASE j = cur
    BY <2>1, <2>2 DEF JobInv
  <2>3. CASE j # cur
    BY <2>1, <2>3 DEF JobInv
  <2>4. QED
    BY <2>2, <2>3
<1>5. QED
  BY <1>3, <1>4 DEF LoopInv

\* Whatever ends the process, it flags every job it drops.
LEMMA ProcessStep ==
    ASSUME TypeInv, LoopInv, HardLimit \/ Recycle \/ NodeCrash
    PROVE  LoopInv'
<1>1. /\ main' = "idle"
      /\ UNCHANGED <<kind, dir, status>>
      /\ pc' = [j \in Job |-> "none"] /\ out' = [j \in Job |-> "none"]
      /\ rep' = [j \in Job |-> IF rep[j] = "calling" THEN "none" ELSE rep[j]]
  BY DEF HardLimit, Recycle, NodeCrash, NewProcess, Leave
<1>2. ASSUME NEW j \in Job
      PROVE  \/ /\ main # "idle" /\ cur = j
                /\ \/ mishap'[j] = mishap[j] \cup {"lost"} /\ queue' = queue
                   \/ mishap'[j] = mishap[j] \cup {"disturbed"} /\ j \in queue'
             \/ /\ ~(main # "idle" /\ cur = j)
                /\ (j \in queue' <=> j \in queue)
                /\ mishap'[j] = mishap[j] \cup
                       IF Live(j) \/ rep[j] = "calling" THEN {"lost"} ELSE {}
  <2>1. CASE HardLimit
    BY <2>1 DEF HardLimit, InLoop, Dropped
  <2>2. CASE Recycle
    BY <2>2 DEF Recycle, Dropped
  <2>3. CASE NodeCrash
    BY <2>3 DEF NodeCrash, InLoop, Dropped
  <2>4. QED
    BY <2>1, <2>2, <2>3
<1>3. Serving'
  BY <1>1 DEF Serving
<1>4. ASSUME NEW j \in Job PROVE JobInv(j)'
  <2>1. JobInv(j)
    BY DEF LoopInv
  <2> USE <1>1, <2>1 DEF TypeInv, TypeOK, JobInv, Waiting, FailsInside, ReportsOutside, Returned,
              Directory, Silent, Covered, Live, Ends, Threaded
  <2>2. CASE main # "idle" /\ cur = j
    BY <1>2, <2>2
  <2>3. CASE ~(main # "idle" /\ cur = j)
    BY <1>2, <2>3, SMTT(30)
  <2>4. QED
    BY <2>2, <2>3
<1>5. QED
  BY <1>3, <1>4 DEF LoopInv

LEMMA LoopStep == TypeInv /\ LoopInv /\ [Next]_vars => LoopInv'
<1> SUFFICES ASSUME TypeInv, LoopInv, [Next]_vars PROVE LoopInv'
  OBVIOUS
<1>1. ASSUME NEW k \in Job, JobStep(k) PROVE LoopInv'
  <2>1. UNCHANGED <<kind, queue, main, cur>>
    BY <1>1, MainStays
  <2>2. Serving'
    <3>1. CASE main = "task"
      BY <1>1, <2>1, <3>1, CoroutineStays, OwnState DEF LoopInv, Serving, TypeInv
    <3>2. CASE main # "task"
      BY <2>1, <3>2 DEF Serving
    <3>3. QED
      BY <3>1, <3>2
  <2>3. ASSUME NEW j \in Job PROVE JobInv(j)'
    <3>1. JobInv(j)
      BY DEF LoopInv
    <3>2. CASE j = k
      BY <1>1, <3>1, <3>2, OwnStep
    <3>3. CASE j # k
      <4>1. /\ pc'[j] = pc[j] /\ out'[j] = out[j] /\ thread'[j] = thread[j]
            /\ dir'[j] = dir[j] /\ rep'[j] = rep[j] /\ status'[j] = status[j]
            /\ mishap'[j] = mishap[j]
        BY <1>1, <3>3, OwnState
      <4>2. QED
        BY <2>1, <3>1, <4>1 DEF JobInv, Waiting, FailsInside, ReportsOutside, Returned,
                                Directory, Silent, Covered, Live
    <3>4. QED
      BY <3>2, <3>3
  <2>4. QED
    BY <2>2, <2>3 DEF LoopInv
<1>2. CASE UNCHANGED vars
  BY <1>2 DEF vars, loop, coro, LoopInv, Serving, JobInv, Waiting, FailsInside,
    ReportsOutside,
              Returned, Directory, Silent, Covered, Live
<1>3. QED
  BY <1>1, <1>2, TakeStep, FinishStep, FinishReportStep, SoftLimitStep, ProcessStep
     DEF Next, Shell, JobStep

-----------------------------------------------------------------------------
(* Theorems. *)

\* Whatever strikes and whenever, the state of the loop is well typed and the
\* pool never runs more calls than it has threads.
THEOREM LoopTypes == Spec => []TypeOK
<1>1. Init => TypeInv
  BY LoopInit
<1>2. TypeInv => TypeOK
  BY DEF TypeInv
<1>3. QED
  BY <1>1, <1>2, LoopTypeStep, PTL DEF Spec

LEMMA LoopInvariant == Spec => [](TypeInv /\ LoopInv)
<1>1. Init => TypeInv /\ LoopInv
  BY LoopInit
<1>2. QED
  BY <1>1, LoopTypeStep, LoopStep, PTL DEF Spec

\* No task ends unreported: a job whose message was taken is worked on, or the
\* backend knows its end, or a report got lost.
THEOREM NothingIsDropped == Spec => []NothingDropped
<1>1. LoopInv => NothingDropped
  BY DEF LoopInv, JobInv, Covered, NothingDropped
<1>2. QED
  BY <1>1, LoopInvariant, PTL

\* Only the limits and crashes leave a download directory behind.
THEOREM DirectoriesReclaimed == Spec => []WorkspaceReclaimed
<1>1. LoopInv => WorkspaceReclaimed
  BY DEF LoopInv, JobInv, Directory, WorkspaceReclaimed
<1>2. QED
  BY <1>1, LoopInvariant, PTL

\* The end a job was given is taken back only if the soft limit, a lost answer
\* or a crash disturbed it.
THEOREM EndsStay == Spec => EndStays
<1>1. TypeInv /\ LoopInv /\ [Next]_vars =>
        [ \A j \in Job : status[j] \in Ends /\ status'[j] # status[j] =>
            "disturbed" \in mishap'[j] ]_vars
  <2> SUFFICES ASSUME TypeInv, LoopInv, Next, NEW j \in Job, status[j] \in Ends,
                      status'[j] # status[j]
               PROVE  "disturbed" \in mishap'[j]
    OBVIOUS
  <2>1. ASSUME NEW k \in Job, JobStep(k) PROVE "disturbed" \in mishap'[j]
    <3>1. k = j
      BY <2>1, OwnState
    <3>2. QED
      BY <2>1, <3>1, OwnStep DEF LoopInv
  <2>2. ~Shell /\ ~SoftLimit /\ ~HardLimit /\ ~Recycle /\ ~NodeCrash
    BY DEF Shell, Take, Finish, FinishReport, SoftLimit, HardLimit, Recycle, NodeCrash,
           NewProcess
  <2>3. QED
    BY <2>1, <2>2 DEF Next, JobStep
<1>2. QED
  BY <1>1, LoopInvariant, PTL DEF Spec, EndStays

=============================================================================
