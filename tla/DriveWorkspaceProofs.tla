------------------------ MODULE DriveWorkspaceProofs ------------------------
(***************************************************************************)
(* Proofs about DriveWorkspace: any number of runs of the Drive strategy,  *)
(* any number of attempts in their loops.                                  *)
(***************************************************************************)
EXTENDS DriveWorkspace, FiniteSetTheorems, TLAPS

\* Only finitely many runs are ever over, so counting them makes sense even
\* where the set of runs is not finite.
TypeInv == TypeOK /\ IsFiniteSet(Ended)

\* A run that has not begun to acquire has no workspace and no thread; one
\* that acquires has both.
Untouched(r) ==
    pc[r] \in {"none", "lookup", "media"} => ~dir[r] /\ thread[r] = "none"

Acquiring(r) ==
    pc[r] = "acquire" => dir[r] /\ thread[r] # "none"

\* Only a configured run gets past the look into the transcript cache, and
\* only a resume asks for title and duration.
Configured(r) ==
    /\ dir[r] \/ pc[r] = "media" => configured
    /\ pc[r] = "media" => resume[r]

Owned(r) ==
    dir[r] => pc[r] \in Holding \/ r \in cut

\* The renamed part is gone when ffmpeg starts, the media file when it ends:
\* what an earlier attempt left is replaced or removed before a run goes on.
Cleared(r) ==
    /\ thread[r] = "extract" => "part" \notin files[r]
    /\ thread[r] = "done" /\ pc[r] \in {"acquire", "transcribe"} => files[r] = {"audio"}

\* A transcription with a workspace has seen the thread's last step, one
\* without is a resume that never had a thread.
Transcribing(r) ==
    pc[r] = "transcribe" =>
        IF dir[r] THEN thread[r] = "done" ELSE resume[r] /\ thread[r] = "none"

RunInv(r) ==
    /\ Untouched(r)
    /\ Acquiring(r)
    /\ Configured(r)
    /\ Owned(r)
    /\ Cleared(r)
    /\ Transcribing(r)

WorkspaceInv == \A r \in Run : RunInv(r)

-----------------------------------------------------------------------------
(* Types. *)

LEMMA DriveInit == Init => TypeInv /\ WorkspaceInv
<1> SUFFICES ASSUME Init PROVE TypeInv /\ WorkspaceInv
  OBVIOUS
<1>1. Ended = {}
  BY DEF Init, Ended
<1>2. IsFiniteSet(Ended) /\ Cardinality(Ended) = 0
  BY <1>1, FS_EmptySet
<1>3. 0 \in 0 .. Attempts - 1 /\ 0 \in 0 .. Cardinality(Ended)
  BY <1>2, DriveAssumption
<1>4. TypeOK
  BY <1>3 DEF Init, TypeOK, Phase
<1>5. WorkspaceInv
  BY DEF Init, WorkspaceInv, RunInv, Untouched, Acquiring, Configured, Owned, Cleared,
         Transcribing
<1>6. QED
  BY <1>2, <1>4, <1>5 DEF TypeInv

\* A step of one run ends at most that run, and no run starts over.
LEMMA EndedGrows ==
    ASSUME TypeInv, NEW r \in Run, NEW phase \in Phase, pc[r] # "end", Goto(r, phase)
    PROVE  /\ pc' \in [Run -> Phase]
           /\ IsFiniteSet(Ended')
           /\ Cardinality(Ended) \in Nat
           /\ Cardinality(Ended') = IF phase = "end" THEN Cardinality(Ended) + 1
                                    ELSE Cardinality(Ended)
<1>1. IsFiniteSet(Ended) /\ r \notin Ended
  BY DEF TypeInv, Ended
<1>2. Ended' = IF phase = "end" THEN Ended \cup {r} ELSE Ended
  BY DEF TypeInv, TypeOK, Ended, Goto
<1>3. Cardinality(Ended) \in Nat
  BY <1>1, FS_CardinalityType
<1>4. IsFiniteSet(Ended \cup {r}) /\ Cardinality(Ended \cup {r}) = Cardinality(Ended) + 1
  BY <1>1, FS_AddElement
<1>5. pc' \in [Run -> Phase]
  BY DEF TypeInv, TypeOK, Goto
<1>6. QED
  BY <1>1, <1>2, <1>3, <1>4, <1>5

LEMMA DriveTypeStep == TypeInv /\ [Next]_vars => TypeInv'
<1> SUFFICES ASSUME TypeInv, [Next]_vars PROVE TypeInv'
  OBVIOUS
<1>a. TypeOK /\ IsFiniteSet(Ended) /\ Cardinality(Ended) \in Nat
  BY FS_CardinalityType DEF TypeInv
<1>b. UNCHANGED pc => Ended' = Ended
  BY DEF Ended
<1>c. DriveAssumption
  BY DriveAssumption
<1> USE <1>a, <1>b, <1>c DEF TypeInv, TypeOK, setting, caches
<1>1. ASSUME NEW r \in Run, Start(r) PROVE TypeInv'
  <2>1. pc[r] # "end" /\ Goto(r, "lookup") /\ "lookup" \in Phase
    BY <1>1 DEF Start, Phase
  <2>2. pc' \in [Run -> Phase] /\ IsFiniteSet(Ended') /\ Cardinality(Ended') = Cardinality(Ended)
    BY <2>1, EndedGrows
  <2>3. pending' \in 0 .. Cardinality(Ended')
    BY <1>1, <2>2 DEF Start
  <2>4. QED
    BY <1>1, <2>2, <2>3 DEF Start
<1>2. ASSUME NEW r \in Run, Coroutine(r) \/ Timeout(r) \/ Kill(r) PROVE TypeInv'
  <2>1. pc[r] # "end"
    BY <1>2 DEF Coroutine, ReadCache, ReadMedia, Acquire, Discard, Transcribe, Clean,
                WriteCache, WriteMedia, Timeout, Kill, Started
  <2>2. ASSUME NEW phase \in Phase, Goto(r, phase)
        PROVE  /\ pc' \in [Run -> Phase] /\ IsFiniteSet(Ended')
               /\ 0 .. Cardinality(Ended) \subseteq 0 .. Cardinality(Ended')
               /\ phase = "end" => \A n \in 0 .. Cardinality(Ended) :
                                      n + 1 \in 0 .. Cardinality(Ended')
    BY <2>1, <2>2, EndedGrows
  <2>3. UNCHANGED pc \/ \E phase \in Phase : Goto(r, phase)
    BY <1>2 DEF Coroutine, ReadCache, ReadMedia, BeginAcquire, Acquire, Discard, Transcribe,
                Settle, Clean, WriteCache, WriteMedia, Timeout, Kill, Phase
  <2>4. /\ pc' \in [Run -> Phase] /\ IsFiniteSet(Ended')
        /\ 0 .. Cardinality(Ended) \subseteq 0 .. Cardinality(Ended')
    BY <2>2, <2>3
  <2>5. pending' \in 0 .. Cardinality(Ended')
    <3>1. CASE Clean(r)
      <4>1. CASE result[r] = "pending"
        <5>1. Goto(r, "end") /\ "end" \in Phase /\ pending' = pending + 1
          BY <3>1, <4>1 DEF Clean, Phase
        <5>2. QED
          BY <2>2, <5>1
      <4>2. CASE result[r] # "pending"
        BY <2>4, <3>1, <4>2 DEF Clean
      <4>3. QED
        BY <4>1, <4>2
    <3>2. CASE ~Clean(r)
      BY <1>2, <2>4, <3>2 DEF Coroutine, ReadCache, ReadMedia, Acquire, Discard, Transcribe,
                              WriteCache, WriteMedia, Timeout, Kill
    <3>3. QED
      BY <3>1, <3>2
  <2>6. CASE ReadCache(r) \/ ReadMedia(r)
    BY <2>4, <2>5, <2>6 DEF ReadCache, ReadMedia, BeginAcquire
  <2>7. CASE Acquire(r)
    BY <2>4, <2>5, <2>7 DEF Acquire
  <2>8. CASE Discard(r) \/ Clean(r)
    BY <2>4, <2>5, <2>8 DEF Discard, Clean
  <2>9. CASE Transcribe(r)
    BY <2>4, <2>5, <2>9 DEF Transcribe, Settle
  <2>10. CASE WriteCache(r) \/ WriteMedia(r)
    BY <2>4, <2>5, <2>10 DEF WriteCache, WriteMedia
  <2>11. CASE Timeout(r)
    <3>1. cut' \subseteq Run
      BY <2>11 DEF Timeout
    <3>2. QED
      BY <2>4, <2>5, <2>11, <3>1 DEF Timeout, Settle
  <2>12. CASE Kill(r)
    BY <2>4, <2>5, <2>12 DEF Kill
  <2>13. QED
    BY <1>2, <2>6, <2>7, <2>8, <2>9, <2>10, <2>11, <2>12 DEF Coroutine
<1>3. ASSUME NEW r \in Run, Prepare(r) PROVE TypeInv'
  BY <1>3 DEF Prepare, OpenDownload, Stream, Extract, Continue
<1>4. CASE Expire
  BY <1>4 DEF Expire
<1>5. CASE UNCHANGED vars
  BY <1>5 DEF vars
<1>6. QED
  BY <1>1, <1>2, <1>3, <1>4, <1>5 DEF Next

-----------------------------------------------------------------------------
(* The workspaces. *)

\* The step of one run leaves the others' state alone.
LEMMA OtherRuns ==
    ASSUME TypeOK, NEW s \in Run, NEW r \in Run \ {s}, RunInv(r),
           Start(s) \/ Coroutine(s) \/ Prepare(s) \/ Timeout(s) \/ Kill(s)
    PROVE  RunInv(r)'
<1>1. /\ UNCHANGED configured
      /\ pc'[r] = pc[r] /\ dir'[r] = dir[r] /\ thread'[r] = thread[r]
      /\ files'[r] = files[r] /\ resume'[r] = resume[r]
      /\ cut \subseteq cut'
  <2> USE DEF TypeOK, Goto, setting, caches
  <2>1. CASE Start(s) \/ Kill(s)
    BY <2>1 DEF Start, Kill
  <2>2. CASE Coroutine(s)
    BY <2>2 DEF Coroutine, ReadCache, ReadMedia, BeginAcquire, Acquire, Discard,
                Transcribe, Settle, Clean, WriteCache, WriteMedia
  <2>3. CASE Prepare(s)
    BY <2>3 DEF Prepare, OpenDownload, Stream, Extract, Continue
  <2>4. CASE Timeout(s)
    BY <2>4 DEF Timeout, Settle
  <2>5. QED
    BY <2>1, <2>2, <2>3, <2>4
<1>2. QED
  BY <1>1 DEF RunInv, Untouched, Acquiring, Configured, Owned, Cleared, Transcribing

LEMMA RunStep ==
    ASSUME TypeOK, NEW r \in Run, RunInv(r),
           Start(r) \/ Coroutine(r) \/ Prepare(r) \/ Timeout(r) \/ Kill(r)
    PROVE  RunInv(r)'
<1> USE DEF TypeOK, RunInv, Untouched, Acquiring, Configured, Owned, Cleared, Transcribing,
            Holding, Goto, setting, caches
<1>1. CASE Start(r)
  BY <1>1 DEF Start
<1>2. CASE ReadCache(r) \/ ReadMedia(r)
  <2>1. CASE pc'[r] = "acquire"
    BY <1>2, <2>1 DEF ReadCache, ReadMedia, BeginAcquire
  <2>2. CASE pc'[r] # "acquire"
    BY <1>2, <2>2 DEF ReadCache, ReadMedia, BeginAcquire
  <2>3. QED
    BY <2>1, <2>2
<1>3. CASE Acquire(r)
  BY <1>3 DEF Acquire
<1>4. CASE Discard(r) \/ Clean(r)
  BY <1>4 DEF Discard, Clean
<1>5. CASE Transcribe(r)
  BY <1>5 DEF Transcribe, Settle
<1>6. CASE WriteCache(r) \/ WriteMedia(r)
  BY <1>6 DEF WriteCache, WriteMedia
<1>7. CASE OpenDownload(r)
  BY <1>7 DEF OpenDownload, Continue
<1>8. CASE Stream(r)
  BY <1>8 DEF Stream, Continue
<1>9. CASE Extract(r)
  <2>1. files[r] \ {"media"} \subseteq {"audio"}
    BY <1>9 DEF Extract
  <2>2. /\ UNCHANGED <<configured, pc, dir, resume, cut>>
        /\ thread'[r] \in {"done", "failed"}
        /\ thread'[r] = "done" => files'[r] = {"audio"}
    BY <1>9, <2>1 DEF Extract, Continue
  <2>3. QED
    BY <1>9, <2>2 DEF Extract
<1>10. CASE Timeout(r)
  BY <1>10 DEF Timeout, Settle, Started
<1>11. CASE Kill(r)
  BY <1>11 DEF Kill, Started
<1>12. QED
  BY <1>1, <1>2, <1>3, <1>4, <1>5, <1>6, <1>7, <1>8, <1>9, <1>10, <1>11
     DEF Coroutine, Prepare

LEMMA WorkspaceStep == TypeOK /\ WorkspaceInv /\ [Next]_vars => WorkspaceInv'
<1> SUFFICES ASSUME TypeOK, WorkspaceInv, [Next]_vars, NEW r \in Run PROVE RunInv(r)'
  BY DEF WorkspaceInv
<1>0. RunInv(r)
  BY DEF WorkspaceInv
<1>1. ASSUME NEW s \in Run, Start(s) \/ Coroutine(s) \/ Prepare(s) \/ Timeout(s) \/ Kill(s)
      PROVE  RunInv(r)'
  <2>1. CASE s = r
    BY <1>0, <1>1, <2>1, RunStep
  <2>2. CASE s # r
    BY <1>0, <1>1, <2>2, OtherRuns
  <2>3. QED
    BY <2>1, <2>2
<1>2. CASE Expire \/ UNCHANGED vars
  <2>1. UNCHANGED <<configured, pc, dir, thread, files, resume, cut>>
    BY <1>2 DEF Expire, vars, setting
  <2>2. QED
    BY <1>0, <2>1 DEF RunInv, Untouched, Acquiring, Configured, Owned, Cleared,
                      Transcribing
<1>3. QED
  BY <1>1, <1>2 DEF Next

-----------------------------------------------------------------------------
(* Theorems. *)

\* Whatever timeouts, kills, retries and the cache do, the runs' state is well
\* typed, no loop makes more than Attempts attempts, and no more cloud jobs
\* wait for a resume than runs have ended.
THEOREM DriveTypes == Spec => []TypeOK
<1>1. Init => TypeInv
  BY DriveInit
<1>2. TypeInv => TypeOK
  BY DEF TypeInv
<1>3. QED
  BY <1>1, <1>2, DriveTypeStep, PTL DEF Spec

LEMMA WorkspaceInvariant == Spec => []WorkspaceInv
<1>1. Init => WorkspaceInv
  BY DriveInit
<1>2. QED
  BY <1>1, WorkspaceStep, DriveTypes, PTL DEF Spec

\* A workspace on disk belongs to a run in progress or to one a timeout or a
\* kill cut short, and without an audio leaf there is none.
THEOREM WorkspacesOwned == Spec => []WorkspaceOwned
<1>1. WorkspaceInv => WorkspaceOwned
  BY DEF WorkspaceInv, RunInv, Configured, Owned, WorkspaceOwned
<1>2. QED
  BY <1>1, WorkspaceInvariant, PTL

\* Every attempt of a transcription finds the audio in its workspace, and
\* nothing an earlier attempt to fetch it has left; only a resume has none.
THEOREM AudioStaysAtHand == Spec => []AudioAtHand
<1>1. WorkspaceInv => AudioAtHand
  BY DEF WorkspaceInv, RunInv, Cleared, Transcribing, AudioAtHand
<1>2. QED
  BY <1>1, WorkspaceInvariant, PTL

=============================================================================
