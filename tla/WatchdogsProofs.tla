--------------------------- MODULE WatchdogsProofs ---------------------------
(***************************************************************************)
(* Proofs about Watchdogs and the BackendRequest beneath it: any calls,    *)
(* tries, limits, graces and waits.                                        *)
(***************************************************************************)
EXTENDS Watchdogs, TLAPS

-----------------------------------------------------------------------------
(* The calls of BackendRequest. *)

\* What ties the call in progress to the backend: it was made; a try that has
\* reached the backend is applied, and is the last thing applied unless a late
\* request came after it; a try is left before the next is waited for; and no
\* call is in progress once one returned well.
RequestInv ==
    /\ phase # "idle" => call \in issued
    /\ phase = "backoff" => attempt < MaxRetries
    /\ reached => call \in applied /\ (last = call \/ last \in given)
    /\ result = "ok" => phase = "idle"
    /\ Acknowledged

LEMMA RequestInit == Init => TypeOK /\ RequestInv
<1> SUFFICES ASSUME Init PROVE TypeOK /\ RequestInv
  OBVIOUS
<1>1. attempt \in 0 .. MaxRetries
  BY RequestAssumption DEF Init
<1>2. TypeOK
  BY <1>1 DEF Init, TypeOK
<1>3. RequestInv
  BY DEF Init, RequestInv, Acknowledged
<1>4. QED
  BY <1>2, <1>3

\* What giving a try up leaves on its way.
LEMMA GiveUpKeeps ==
    ASSUME TypeOK, call \in issued, GiveUp
    PROVE  /\ given \subseteq given' /\ given' \subseteq issued
           /\ flight' \subseteq given'
           /\ flight' = flight \/ flight' = flight \cup {call}
BY DEF TypeOK, GiveUp

\* What the call leaves of itself when it returns.
LEMMA ReturnType ==
    ASSUME TypeOK, NEW answer \in {"ok", "error"}, Return(answer)
    PROVE  /\ call' \in Call \cup {None}
           /\ phase' \in {"idle", "sent", "backoff"}
           /\ attempt' \in 0 .. MaxRetries
           /\ reached' \in BOOLEAN
           /\ result' \in {"none", "ok", "error"}
<1>1. 0 \in 0 .. MaxRetries
  BY RequestAssumption
<1>2. QED
  BY <1>1 DEF TypeOK, Return

\* The counter of tries stays in its bound, and no request is on its way but
\* of a call that was made and had a try given up.
LEMMA TypeStep == TypeOK /\ RequestInv /\ [Next]_calls => TypeOK'
<1> SUFFICES ASSUME TypeOK, RequestInv, [Next]_calls
             PROVE  TypeOK'
  OBVIOUS
<1>1. ASSUME NEW c \in Call, Issue(c)
      PROVE  TypeOK'
  <2>1. 1 \in 0 .. MaxRetries
    BY RequestAssumption
  <2>2. QED
    BY <1>1, <2>1 DEF TypeOK, Issue, Send, backend
<1>2. CASE Reach
  BY <1>2 DEF TypeOK, RequestInv, Reach, Apply
<1>3. CASE ReachLate
  <2>1. PICK c \in flight : /\ flight' \in {flight, flight \ {c}}
                            /\ Apply(c)
                            /\ UNCHANGED <<request, given, issued>>
    BY <1>3 DEF ReachLate
  <2>2. c \in Call
    BY DEF TypeOK
  <2>3. QED
    BY <2>1, <2>2 DEF TypeOK, Apply, request
<1>4. CASE Answer \/ Refuse
  <2>1. PICK answer \in {"ok", "error"} : Return(answer)
    BY <1>4 DEF Answer, Refuse
  <2>2. UNCHANGED <<given, flight, applied, last, issued>>
    BY <1>4 DEF Answer, Refuse, backend
  <2>3. QED
    BY <2>1, <2>2, ReturnType DEF TypeOK
<1>5. CASE TryFails
  <2>1. call \in issued
    BY <1>5 DEF TryFails, RequestInv
  <2>2. given' \subseteq issued /\ flight' \subseteq given'
    BY <1>5, <2>1, GiveUpKeeps DEF TryFails
  <2>3. CASE attempt < MaxRetries
    BY <1>5, <2>2, <2>3 DEF TypeOK, TryFails
  <2>4. CASE ~(attempt < MaxRetries)
    <3>1. Return("error") /\ UNCHANGED <<applied, last, issued>>
      BY <1>5, <2>4 DEF TryFails
    <3>2. QED
      BY <2>2, <3>1, ReturnType DEF TypeOK
  <2>5. QED
    BY <2>3, <2>4
<1>6. CASE Resend
  <2>1. attempt + 1 \in 0 .. MaxRetries
    BY <1>6, RequestAssumption DEF TypeOK, RequestInv, Resend
  <2>2. QED
    BY <1>6, <2>1 DEF TypeOK, Resend, Send, backend
<1>7. CASE Cut
  <2>1. given' \subseteq issued /\ flight' \subseteq given'
    BY <1>7, GiveUpKeeps DEF TypeOK, RequestInv, Cut
  <2>2. CASE phase = "idle"
    BY <1>7, <2>1, <2>2 DEF TypeOK, Cut, request
  <2>3. CASE phase # "idle"
    <3>1. Return("error") /\ UNCHANGED <<applied, last, issued>>
      BY <1>7, <2>3 DEF Cut
    <3>2. QED
      BY <2>1, <3>1, ReturnType DEF TypeOK
  <2>4. QED
    BY <2>2, <2>3
<1>8. CASE UNCHANGED calls
  BY <1>8 DEF TypeOK, calls, request, backend
<1>9. QED
  BY <1>1, <1>2, <1>3, <1>4, <1>5, <1>6, <1>7, <1>8 DEF Next

\* The invariant's own conjuncts; a request that arrives late is of a call
\* that had a try given up, which is what excuses Acknowledged.
LEMMA RequestStep == TypeOK /\ RequestInv /\ [Next]_calls => RequestInv'
<1> SUFFICES ASSUME TypeOK, RequestInv, [Next]_calls
             PROVE  RequestInv'
  OBVIOUS
<1> USE DEF RequestInv, Acknowledged
<1>1. ASSUME NEW c \in Call, Issue(c)
      PROVE  RequestInv'
  BY <1>1 DEF Issue, Send, backend
<1>2. CASE Reach
  BY <1>2 DEF Reach, Apply
<1>3. CASE ReachLate
  <2>1. PICK c \in flight : Apply(c) /\ UNCHANGED <<request, given, issued>>
    BY <1>3 DEF ReachLate
  <2>2. c \in given
    BY DEF TypeOK
  <2>3. QED
    BY <2>1, <2>2 DEF Apply, request
<1>4. CASE Answer
  BY <1>4 DEF Answer, Return, backend
<1>5. CASE Refuse
  BY <1>5 DEF Refuse, Return, backend
<1>6. CASE TryFails
  <2>1. call \in issued /\ given \subseteq given'
    BY <1>6, GiveUpKeeps DEF TryFails
  <2>2. CASE attempt < MaxRetries
    BY <1>6, <2>1, <2>2 DEF TryFails
  <2>3. CASE ~(attempt < MaxRetries)
    BY <1>6, <2>1, <2>3 DEF TryFails, Return
  <2>4. QED
    BY <2>2, <2>3
<1>7. CASE Resend
  BY <1>7 DEF Resend, Send, backend
<1>8. CASE Cut
  BY <1>8 DEF Cut, Return, request
<1>9. CASE UNCHANGED calls
  BY <1>9 DEF calls, request, backend
<1>10. QED
  BY <1>1, <1>2, <1>3, <1>4, <1>5, <1>6, <1>7, <1>8, <1>9 DEF Next

\* In every reachable state the calls are well typed and tied to the backend.
THEOREM RequestCorrect == Spec => [](TypeOK /\ RequestInv)
<1>1. QED
  BY RequestInit, TypeStep, RequestStep, PTL DEF Spec

\* A call of BackendClient that returned well is the last the backend applied,
\* unless a request the client had given up came after it.
THEOREM CallsAcknowledged == Spec => []Acknowledged
<1>1. RequestInv => Acknowledged
  BY DEF RequestInv
<1>2. QED
  BY <1>1, RequestCorrect, PTL

\* Each step of a call is one its callers reckon with: a try, a pause and a
\* request that is given up change nothing they know of, until the call ends.
LEMMA CallsStep ==
    TypeOK /\ RequestInv /\ [Next]_calls => [Abstract!Next]_(Abstract!vars)
<1> SUFFICES ASSUME TypeOK, RequestInv, [Next]_calls
             PROVE  [Abstract!Next]_(Abstract!vars)
  OBVIOUS
<1> DEFINE Open == IF phase = "idle" THEN None ELSE call
<1> DEFINE Loose == flight \ (IF phase = "idle" THEN {} ELSE {call})
<1>1. ASSUME NEW c \in Call, Issue(c)
      PROVE  Abstract!Issue(c)
  <2>1. c \notin flight
    BY <1>1 DEF Issue, TypeOK
  <2>2. Open = None /\ Open' = c /\ Loose' = Loose
    BY <1>1, <2>1 DEF Issue, Send, backend
  <2>3. QED
    BY <1>1, <2>2 DEF Issue, backend, Abstract!Issue
<1>2. CASE Reach
  BY <1>2, RequestAssumption
  DEF Reach, Apply, TypeOK, RequestInv, Abstract!Next, Abstract!Arrive, Abstract!Apply
<1>3. CASE ReachLate
  <2>1. PICK c \in flight : /\ flight' \in {flight, flight \ {c}}
                            /\ Apply(c)
                            /\ UNCHANGED <<request, given, issued>>
    BY <1>3 DEF ReachLate
  <2>2. Open' = Open
    BY <2>1 DEF request
  <2>3. CASE phase # "idle" /\ c = call
    <3>1. Open = c /\ Open # None /\ Loose' = Loose
      BY <2>1, <2>3, RequestAssumption DEF request, TypeOK
    <3>2. QED
      BY <2>1, <2>2, <3>1 DEF Apply, request, Abstract!Next, Abstract!Arrive, Abstract!Apply
  <2>4. CASE ~(phase # "idle" /\ c = call)
    <3>1. c \in Loose /\ Loose' \in {Loose, Loose \ {c}}
      BY <2>1, <2>4 DEF request
    <3>2. QED
      BY <2>1, <2>2, <3>1 DEF Apply, request, Abstract!Next, Abstract!Arrive, Abstract!Apply
  <2>5. QED
    BY <2>3, <2>4
<1>4. ASSUME NEW answer, phase # "idle", Return(answer),
             flight' = flight \/ flight' = flight \cup {call},
             UNCHANGED <<applied, last, issued>>
      PROVE  Abstract!Return(answer)
  <2>1. Open = call /\ call # None /\ Open' = None
    BY <1>4, RequestAssumption DEF Return, TypeOK, RequestInv
  <2>2. Loose' \in {Loose, Loose \cup {call}}
    BY <1>4 DEF Return
  <2>3. QED
    BY <1>4, <2>1, <2>2 DEF Return, Abstract!Return
<1>5. CASE Answer
  <2>1. Abstract!Return("ok")
    BY <1>4, <1>5 DEF Answer, backend
  <2>2. Open \in applied
    BY <1>5 DEF Answer, RequestInv
  <2>3. QED
    BY <2>1, <2>2 DEF Abstract!Next, Abstract!Succeed
<1>6. CASE Refuse
  <2>1. Abstract!Return("error")
    BY <1>4, <1>6 DEF Refuse, backend
  <2>2. QED
    BY <2>1 DEF Abstract!Next, Abstract!Fail
<1>7. CASE TryFails
  <2>1. flight' = flight \/ flight' = flight \cup {call}
    BY <1>7, GiveUpKeeps DEF TryFails, RequestInv
  <2>2. CASE attempt < MaxRetries
    BY <1>7, <2>1, <2>2 DEF TryFails, Abstract!vars
  <2>3. CASE ~(attempt < MaxRetries)
    <3>1. Abstract!Return("error")
      BY <1>4, <1>7, <2>1, <2>3 DEF TryFails
    <3>2. QED
      BY <3>1 DEF Abstract!Next, Abstract!Fail
  <2>4. QED
    BY <2>2, <2>3
<1>8. CASE Resend
  BY <1>8 DEF Resend, Send, backend, Abstract!vars
<1>9. CASE Cut
  <2>1. CASE phase = "idle"
    BY <1>9, <2>1 DEF Cut, request, Abstract!vars
  <2>2. CASE phase # "idle"
    <3>1. flight' = flight \/ flight' = flight \cup {call}
      BY <1>9, GiveUpKeeps DEF Cut, RequestInv
    <3>2. Abstract!Return("error")
      BY <1>4, <1>9, <2>2, <3>1 DEF Cut
    <3>3. QED
      BY <3>2 DEF Abstract!Next, Abstract!Fail
  <2>3. QED
    BY <2>1, <2>2
<1>10. CASE UNCHANGED calls
  BY <1>10 DEF calls, request, backend, Abstract!vars
<1>11. QED
  BY <1>1, <1>2, <1>3, <1>5, <1>6, <1>7, <1>8, <1>9, <1>10
  DEF Next, Abstract!Next

\* BackendClient implements BackendCalls, for any calls and any number of
\* tries: its callers see one call at a time, applied if it returned well and
\* perhaps if it did not, and requests of calls that are over coming late.
THEOREM ImplementsCalls == Spec => CallsSpec
<1>1. Init => Abstract!Init
  BY DEF Init, Abstract!Init
<1>2. QED
  BY <1>1, RequestCorrect, CallsStep, PTL DEF Spec, CallsSpec, Abstract!Spec

-----------------------------------------------------------------------------
(* The task against the clock. *)

\* A task waits for one call at a time, and for which one its step tells.
PhaseInv ==
    /\ end # "running" \/ step = "work" => phase = "idle"
    /\ step = "submit" /\ phase # "idle" => call = "complete" \/ kind = "transcription"
    /\ step = "fail" /\ phase # "idle" => call = "fail"
    /\ call = "fail" => step = "fail"
    /\ end = "running" /\ struck => step = "fail"

\* Where the clock stands.  The load is all waiting; the work of a
\* transcription ends within the budget after it; the soft limit strikes on
\* time, and what follows it is all waiting again.
TimeInv ==
    /\ slow < Margin /\ step = "load" => now = slow
    /\ slow < Margin /\ kind = "transcription" => now <= slow + Budget
    /\ slow < Margin /\ kind = "transcription" /\ step = "work" /\ end = "running"
         => until <= slow + Budget
    /\ ~struck => now <= Soft
    /\ slow < Margin /\ struck => now <= Soft + slow

\* The task has had no trouble, and its calls have fitted in the slack so far.
InTime == ~trouble /\ slow < Slack

\* Then only the report of an end was ever given up, the failure report cannot
\* have failed, and the end is known, but for the report that was cut.
ReportInv ==
    InTime =>
        /\ given \subseteq {"complete", "fail"}
        /\ call = "fail" /\ end = "running" => result # "error"
        /\ end # "running" => \/ last \in {"complete", "fail"}
                              \/ kind = "download" /\ end = "left" /\ step = "fail"

-----------------------------------------------------------------------------
(* The calls of the task are those of BackendRequest. *)

\* A step of the task makes at most one step of its call.
LEMMA CallsOfTask == [ClockNext]_vars => [Next]_calls
<1> SUFFICES ASSUME [ClockNext]_vars PROVE [Next]_calls
  OBVIOUS
<1>1. ASSUME NEW c \in Call, Ask(c)
      PROVE  [Next]_calls
  BY <1>1 DEF Ask, Next
<1>2. CASE Arrive \/ Answered \/ Failed \/ Again
  BY <1>2 DEF Arrive, Answered, Failed, Again, Next
<1>3. CASE StartWork \/ EndWork \/ PipelineTimeout \/ CallFailed \/ Finish \/ Tick
  BY <1>3 DEF StartWork, EndWork, PipelineTimeout, CallFailed, Go, Finish, Tick
<1>4. CASE SoftLimit \/ HardLimit
  BY <1>4 DEF SoftLimit, HardLimit, Next
<1>5. CASE UNCHANGED vars
  BY <1>5 DEF vars
<1>6. QED
  BY <1>1, <1>2, <1>3, <1>4, <1>5 DEF ClockNext

\* Every behaviour of the task is one of its calls.
THEOREM CallsOfClock == ClockSpec => Spec
<1>1. ClockInit => Init
  BY DEF ClockInit
<1>2. QED
  BY <1>1, CallsOfTask, PTL DEF ClockSpec, Spec

\* Cut by a limit, a call is over.
LEMMA CutEnds ==
    ASSUME Cut
    PROVE  /\ phase' = "idle" /\ call' = call
           /\ given' = given \/ (phase # "idle" /\ given' = given \cup {call})
           /\ result' = result \/ (phase # "idle" /\ result' = "error")
           /\ last' = last
BY DEF Cut, GiveUp, Return, request

-----------------------------------------------------------------------------
(* Types. *)

LEMMA LimitsType ==
    ASSUME ClockTypeOK
    PROVE  /\ grace \in Nat \ {0} /\ Soft \in Nat \ {0} /\ Hard \in Nat \ {0}
           /\ NoLimit \in Nat
           /\ now \in Nat /\ until \in Nat /\ slow \in Nat
BY ClockAssumption DEF ClockTypeOK, Soft, Hard, NoLimit

\* Deadlines stay below NoLimit and the clock stops at the hard limit.
LEMMA ClockTypeStep ==
    ClockTypeOK /\ RequestInv /\ [ClockNext]_vars => ClockTypeOK'
<1> SUFFICES ASSUME ClockTypeOK, RequestInv, [ClockNext]_vars
             PROVE  ClockTypeOK'
  OBVIOUS
<1>1. TypeOK'
  BY CallsOfTask, TypeStep DEF ClockTypeOK
<1>2. kind' = kind /\ grace' = grace /\ Hard' = Hard /\ NoLimit' = NoLimit
  <2>1. UNCHANGED setting
    BY DEF ClockNext, Ask, Arrive, Answered, Failed, Again, StartWork, EndWork,
      PipelineTimeout, CallFailed, Finish, SoftLimit, HardLimit, Tick, Go, Over, Quiet,
      vars, setting
  <2>2. QED
    BY <2>1 DEF setting, Hard, NoLimit
<1> DEFINE Rest == /\ step' \in {"load", "work", "submit", "fail"}
                   /\ end' \in {"running", "completed", "failed", "left", "killed"}
                   /\ struck' \in BOOLEAN
                   /\ now' \in 0 .. Hard
                   /\ until' \in 0 .. NoLimit
                   /\ slow' \in 0 .. Margin
                   /\ trouble' \in BOOLEAN
<1>3. SUFFICES Rest
  BY <1>1, <1>2 DEF ClockTypeOK
<1>4. /\ now + Timeout \in 0 .. NoLimit /\ now + Delay \in 0 .. NoLimit
      /\ now + Budget \in 0 .. NoLimit /\ NoLimit \in 0 .. NoLimit
  BY ClockAssumption, LimitsType DEF ClockTypeOK, NoLimit
<1>5. ASSUME NEW c \in Call, Ask(c)
      PROVE  Rest
  BY <1>4, <1>5 DEF Ask, ClockTypeOK, Quiet
<1>6. CASE Arrive
  BY <1>6 DEF Arrive, ClockTypeOK, clock
<1>7. CASE Answered \/ Failed \/ Again
  BY <1>4, <1>7 DEF Answered, Failed, Again, ClockTypeOK, Quiet
<1>8. CASE StartWork \/ EndWork \/ PipelineTimeout \/ CallFailed
  BY <1>4, <1>8 DEF StartWork, EndWork, PipelineTimeout, CallFailed, Go, ClockTypeOK, Quiet
<1>9. CASE Finish
  BY <1>4, <1>9 DEF Finish, Over, ClockTypeOK
<1>10. CASE SoftLimit
  BY <1>4, <1>10 DEF SoftLimit, Over, ClockTypeOK
<1>11. CASE HardLimit
  BY <1>4, <1>11 DEF HardLimit, Over, ClockTypeOK
<1>12. CASE Tick
  <2>1. now' \in 0 .. Hard /\ slow' \in 0 .. Margin
    BY <1>12, ClockAssumption, LimitsType DEF Tick, ClockTypeOK
  <2>2. QED
    BY <1>12, <2>1 DEF Tick, ClockTypeOK
<1>13. CASE UNCHANGED vars
  BY <1>13 DEF vars, clock, ClockTypeOK
<1>14. QED
  BY <1>5, <1>6, <1>7, <1>8, <1>9, <1>10, <1>11, <1>12, <1>13 DEF ClockNext

LEMMA ClockTypeInit == ClockInit => ClockTypeOK
<1> SUFFICES ASSUME ClockInit PROVE ClockTypeOK
  OBVIOUS
<1>1. TypeOK
  BY RequestInit DEF ClockInit
<1>2. grace \in Nat
  BY ClockAssumption DEF ClockInit
<1>3. 0 \in 0 .. Hard /\ NoLimit \in 0 .. NoLimit /\ 0 \in 0 .. Margin
  BY <1>2, ClockAssumption DEF Hard, NoLimit
<1>4. QED
  BY <1>1, <1>3 DEF ClockInit, ClockTypeOK

-----------------------------------------------------------------------------
(* What a step waits for. *)

LEMMA PhaseStep == PhaseInv /\ [ClockNext]_vars => PhaseInv'
<1> SUFFICES ASSUME PhaseInv, [ClockNext]_vars PROVE PhaseInv'
  OBVIOUS
<1> USE DEF PhaseInv
<1>1. ASSUME NEW c \in Call, Ask(c)
      PROVE  PhaseInv'
  BY <1>1 DEF Ask, NextCall, Issue, Send, Quiet, setting, Running
<1>2. CASE Arrive
  BY <1>2 DEF Arrive, Reach, ReachLate, request, setting
<1>3. CASE Answered \/ Failed \/ Again
  BY <1>3 DEF Answered, Failed, Again, Answer, TryFails, Refuse, Resend, Send, Return,
    Quiet, setting, Running
<1>4. CASE StartWork \/ EndWork \/ PipelineTimeout \/ CallFailed
  BY <1>4 DEF StartWork, EndWork, PipelineTimeout, CallFailed, Loaded, Go, Quiet, setting,
    calls, request, Running
<1>5. CASE Finish
  BY <1>5 DEF Finish, Over, setting, calls, request, Running
<1>6. CASE SoftLimit
  BY <1>6, CutEnds DEF SoftLimit, Over, setting, Running
<1>7. CASE HardLimit
  BY <1>7, CutEnds DEF HardLimit, Over, setting, Running
<1>8. CASE Tick
  BY <1>8 DEF Tick, setting, calls, request
<1>9. CASE UNCHANGED vars
  BY <1>9 DEF vars, setting, calls, request
<1>10. QED
  BY <1>1, <1>2, <1>3, <1>4, <1>5, <1>6, <1>7, <1>8, <1>9 DEF ClockNext

-----------------------------------------------------------------------------
(* The clock. *)

\* As long as less than the margin went on calls.
LEMMA TimeStep == ClockTypeOK /\ PhaseInv /\ TimeInv /\ [ClockNext]_vars => TimeInv'
<1> SUFFICES ASSUME ClockTypeOK, PhaseInv, TimeInv, [ClockNext]_vars
             PROVE  TimeInv'
  OBVIOUS
<1> USE ClockAssumption, LimitsType DEF TimeInv, Soft
<1>1. ASSUME NEW c \in Call, Ask(c)
      PROVE  TimeInv'
  <2>1. step # "work"
    BY <1>1 DEF Ask, NextCall
  <2>2. QED
    BY <1>1, <2>1 DEF Ask, Quiet, setting
<1>2. CASE Arrive
  BY <1>2 DEF Arrive, setting, clock
<1>3. CASE Answered \/ Failed \/ Again
  <2>1. step # "work"
    BY <1>3 DEF Answered, Failed, Again, Answer, TryFails, Refuse, Resend, PhaseInv
  <2>2. QED
    BY <1>3, <2>1 DEF Answered, Failed, Again, Quiet, setting
<1>4. CASE StartWork
  BY <1>4 DEF StartWork, Loaded, Go, Quiet, setting
<1>5. CASE EndWork \/ PipelineTimeout \/ CallFailed
  BY <1>5 DEF EndWork, PipelineTimeout, CallFailed, Go, Quiet, setting
<1>6. CASE Finish
  BY <1>6 DEF Finish, Over, setting
<1>7. CASE SoftLimit
  <2>1. now = Soft /\ now' = now /\ slow' = slow
    BY <1>7 DEF SoftLimit, Over
  <2>2. step' = step \/ step' = "fail"
    BY <1>7 DEF SoftLimit, Over
  <2>3. kind' = kind /\ struck' = TRUE
    BY <1>7 DEF SoftLimit, Over, setting
  <2>4. step' = "work" => end' # "running"
    BY <1>7 DEF SoftLimit, Over
  <2>5. QED
    BY <2>1, <2>2, <2>3, <2>4
<1>8. CASE HardLimit
  BY <1>8 DEF HardLimit, Over, setting
<1>9. CASE Tick
  <2>1. CASE phase # "idle" /\ slow < Margin
    <3>1. step # "work" /\ slow' = slow + 1 /\ now' = now + 1
      BY <1>9, <2>1 DEF Tick, PhaseInv
    <3>2. QED
      BY <1>9, <3>1 DEF Tick, setting
  <2>2. CASE ~(slow < Margin)
    BY <1>9, <2>2 DEF Tick, setting
  <2>3. CASE phase = "idle" /\ slow < Margin
    <3>1. step = "work" /\ slow' = slow /\ now' = now + 1 /\ now < until
      BY <1>9, <2>3 DEF Tick
    <3>2. ~struck
      BY <1>9, <3>1 DEF Tick, Running, PhaseInv
    <3>3. QED
      BY <1>9, <2>3, <3>1, <3>2 DEF Tick, setting, Running
  <2>4. QED
    BY <2>1, <2>2, <2>3
<1>10. CASE UNCHANGED vars
  BY <1>10 DEF vars, setting, clock
<1>11. QED
  BY <1>1, <1>2, <1>3, <1>4, <1>5, <1>6, <1>7, <1>8, <1>9, <1>10 DEF ClockNext

\* In every reachable state the clock is well typed and stands where the
\* task's waits have left it.
THEOREM ClockCorrect == ClockSpec => [](ClockTypeOK /\ PhaseInv /\ TimeInv)
<1>1. ClockInit => PhaseInv /\ TimeInv
  <2> SUFFICES ASSUME ClockInit PROVE PhaseInv /\ TimeInv
    OBVIOUS
  <2>1. PhaseInv
    BY RequestAssumption, ClockAssumption DEF ClockInit, Init, PhaseInv
  <2>2. TimeInv
    BY ClockAssumption DEF ClockInit, TimeInv, Soft
  <2>3. QED
    BY <2>1, <2>2
<1>2. QED
  BY <1>1, ClockTypeInit, CallsOfClock, RequestCorrect, ClockTypeStep, PhaseStep, TimeStep,
    PTL DEF ClockSpec

\* The pipeline timeout is the first limit to end a transcription's work,
\* whatever the limits are, unless the load has taken up the margin.
THEOREM PipelineStrikesFirst == ClockSpec => PipelineFirst
<1>1. ASSUME ClockTypeOK, TimeInv, [ClockNext]_vars,
             struck', ~struck, kind = "transcription", step = "work"
      PROVE  slow >= Margin
  <2>1. SoftLimit
    BY <1>1 DEF ClockNext, Ask, Arrive, Answered, Failed, Again, StartWork, EndWork,
      PipelineTimeout, CallFailed, Finish, HardLimit, Tick, Go, Quiet, vars
  <2>2. now >= Soft
    BY <2>1 DEF SoftLimit
  <2>3. now <= slow + Budget \/ ~(slow < Margin)
    BY <1>1 DEF TimeInv
  <2>4. QED
    BY <1>1, <2>2, <2>3, ClockAssumption, LimitsType DEF Soft
<1>2. QED
  BY <1>1, ClockCorrect, PTL DEF ClockSpec, PipelineFirst

-----------------------------------------------------------------------------
(* The report of the end. *)

\* In time, the limits come in their order: the soft limit strikes a download
\* that is loaded, and the hard limit is not reached.
LEMMA LimitsInTime ==
    ASSUME ClockTypeOK, PhaseInv, TimeInv, InTime
    PROVE  /\ now >= Soft => kind = "download" /\ step # "load"
           /\ now < Hard
<1>1. slow < Margin /\ slow < grace - Margin
  BY ClockAssumption, LimitsType DEF InTime, Slack
<1>2. QED
  BY <1>1, ClockAssumption, LimitsType DEF ClockTypeOK, TimeInv, Soft, Hard

LEMMA ReportStep ==
    /\ ClockTypeOK /\ RequestInv /\ PhaseInv /\ TimeInv /\ ReportInv
    /\ [ClockNext]_vars
    => ReportInv'
<1> SUFFICES ASSUME ClockTypeOK, RequestInv, PhaseInv, TimeInv, ReportInv,
                    [ClockNext]_vars, InTime'
             PROVE  ReportInv'
  BY DEF ReportInv
<1>1. InTime
  <2>1. (trouble => trouble') /\ slow' >= slow /\ Slack' = Slack
    <3>1. trouble' = trouble \/ trouble' = TRUE
      BY DEF ClockNext, Ask, Arrive, Answered, Failed, Again, StartWork, EndWork,
        PipelineTimeout, CallFailed, Finish, SoftLimit, HardLimit, Tick, Go, Over, vars
    <3>2. slow' = slow \/ slow' = slow + 1
      BY DEF ClockNext, Ask, Arrive, Answered, Failed, Again, StartWork, EndWork,
        PipelineTimeout, CallFailed, Finish, SoftLimit, HardLimit, Tick, Go, Over, Quiet,
        vars, clock
    <3>3. grace' = grace
      BY DEF ClockNext, Ask, Arrive, Answered, Failed, Again, StartWork, EndWork,
        PipelineTimeout, CallFailed, Finish, SoftLimit, HardLimit, Tick, Go, Over, Quiet,
        vars, setting
    <3>4. QED
      BY <3>1, <3>2, <3>3, LimitsType DEF Slack
  <2>2. Slack \in Int /\ slow' \in Int
    BY <2>1, ClockTypeStep, ClockAssumption, LimitsType DEF Slack, ClockTypeOK
  <2>3. QED
    BY <2>1, <2>2, LimitsType DEF InTime
<1>2. /\ given \subseteq {"complete", "fail"}
      /\ call = "fail" /\ end = "running" => result # "error"
      /\ end # "running" => \/ last \in {"complete", "fail"}
                            \/ kind = "download" /\ end = "left" /\ step = "fail"
  BY <1>1 DEF ReportInv
<1>3. ASSUME NEW c \in Call, Ask(c)
      PROVE  ReportInv'
  BY <1>2, <1>3 DEF ReportInv, Ask, Issue, backend, Running
<1>4. CASE Arrive
  <2>1. end # "running" => ~Reach
    BY DEF Reach, PhaseInv
  <2>2. \A c \in flight : c \in {"complete", "fail"}
    BY <1>2 DEF ClockTypeOK, TypeOK
  <2>3. QED
    BY <1>2, <1>4, <2>1, <2>2
    DEF ReportInv, Arrive, Reach, ReachLate, Apply, request, setting
<1>5. CASE Answered \/ Again
  BY <1>2, <1>5 DEF ReportInv, Answered, Again, Answer, Resend, Return, backend, Running
<1>6. CASE Failed
  BY <1>6 DEF Failed, InTime
<1>7. CASE StartWork \/ EndWork \/ PipelineTimeout \/ CallFailed
  BY <1>2, <1>7 DEF ReportInv, StartWork, EndWork, PipelineTimeout, CallFailed, Go, calls,
    request, backend, Running
<1>8. CASE Finish
  <2>1. result = "ok" /\ call \in {"complete", "fail"}
    BY <1>2, <1>8 DEF Finish, Running, ClockTypeOK, TypeOK
  <2>2. last \in {"complete", "fail"}
    BY <1>2, <2>1 DEF RequestInv, Acknowledged
  <2>3. QED
    BY <1>2, <1>8, <2>2 DEF ReportInv, Finish, Over, calls, request, backend, Running
<1>9. CASE SoftLimit
  <2>1. kind = "download" /\ step # "load" /\ end = "running"
    BY <1>1, <1>9, LimitsInTime DEF SoftLimit, Running
  <2>2. phase # "idle" => call \in {"complete", "fail"}
    BY <2>1 DEF PhaseInv, ClockTypeOK
  <2>3. given' \subseteq {"complete", "fail"}
    BY <1>2, <1>9, <2>2, CutEnds DEF SoftLimit
  <2>4. end' # "running" => kind' = "download" /\ end' = "left" /\ step' = "fail"
    BY <1>9, <2>1 DEF SoftLimit, Over, setting, Running
  <2>5. call' = "fail" /\ end' = "running" => result' # "error"
    BY <1>2, <1>9, <2>1, CutEnds DEF SoftLimit, Over, PhaseInv
  <2>6. QED
    BY <2>3, <2>4, <2>5 DEF ReportInv
<1>10. CASE HardLimit
  BY <1>1, <1>10, LimitsInTime, LimitsType DEF HardLimit
<1>11. CASE Tick
  BY <1>2, <1>11 DEF ReportInv, Tick, calls, request, backend, Running
<1>12. CASE UNCHANGED vars
  BY <1>2, <1>12 DEF ReportInv, vars, calls, request, backend, setting
<1>13. QED
  BY <1>3, <1>4, <1>5, <1>6, <1>7, <1>8, <1>9, <1>10, <1>11, <1>12 DEF ClockNext

\* Whatever a task's work does and whichever limit ends it, the backend is told
\* of an end when no try fails and the calls fit in the slack the limits leave,
\* but for a download whose report the soft limit finds under way.
THEOREM EndIsReported == ClockSpec => []ReportFits
<1>1. ClockInit => ReportInv
  BY RequestAssumption DEF ClockInit, Init, ReportInv
<1>2. ReportInv => ReportFits
  BY DEF ReportInv, InTime, ReportFits
<1>3. QED
  BY <1>1, <1>2, ReportStep, ClockCorrect, CallsOfClock, RequestCorrect,
    PTL DEF ClockSpec

=============================================================================
