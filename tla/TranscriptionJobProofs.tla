----------------------- MODULE TranscriptionJobProofs -----------------------
(***************************************************************************)
(* Proofs about TranscriptionJob, for any number of workers and cloud      *)
(* jobs, any retry budgets and any number of crashes.                      *)
(***************************************************************************)
EXTENDS TranscriptionJob, FiniteSetTheorems, TLAPS

\* The first message is a message.
LEMMA FreshType == FreshMessage \in Message
BY ConstantsAssumption DEF FreshMessage, Message, Token

\* What the helpers of the actions keep.
LEMMA PublishType ==
    ASSUME TypeOK, NEW m \in Message, Publish(m)
    PROVE  queue' \in [Message -> Nat]
BY DEF TypeOK, Publish

LEMMA IdleType ==
    ASSUME TypeOK, NEW w \in Worker, Idle(w)
    PROVE  /\ pc' \in [Worker -> Phase]
           /\ msg' \in [Worker -> Message]
           /\ attempt' \in [Worker -> 1 .. RetryAttempts]
           /\ token' \in [Worker -> Token]
<1>1. 1 \in 1 .. RetryAttempts
  BY ConstantsAssumption
<1>2. "idle" \in Phase /\ NoToken \in Token
  BY DEF Phase, Token
<1>3. QED
  BY <1>1, <1>2, FreshType DEF TypeOK, Idle, Goto

LEMMA SoftFailureType ==
    ASSUME TypeOK, NEW w \in Worker, SoftFailure(w)
    PROVE  /\ pc' \in [Worker -> Phase]
           /\ attempt' \in [Worker -> 1 .. RetryAttempts]
<1>1. {"leaf", "poll", "fail"} \subseteq Phase
  BY DEF Phase, Running, Timed
<1>2. pc' \in [Worker -> Phase]
  BY <1>1 DEF TypeOK, SoftFailure, Goto
<1>3. attempt' \in [Worker -> 1 .. RetryAttempts]
  <2>1. CASE attempt[w] < RetryAttempts
    <3>1. attempt[w] + 1 \in 1 .. RetryAttempts
      BY <2>1, ConstantsAssumption DEF TypeOK
    <3>2. QED
      BY <2>1, <3>1 DEF TypeOK, SoftFailure
  <2>2. CASE ~(attempt[w] < RetryAttempts)
    BY <2>2 DEF TypeOK, SoftFailure
  <2>3. QED
    BY <2>1, <2>2
<1>4. QED
  BY <1>2, <1>3

\* Every variable keeps its type: in particular no attempt counter leaves the
\* retry budget of run_transcription_attempts, and Celery is never asked for a
\* retry beyond max_retries.
LEMMA TypeInit == Init => TypeOK
<1> SUFFICES ASSUME Init PROVE TypeOK
  OBVIOUS
<1>1. queue \in [Message -> Nat]
  BY DEF Init
<1>2. attempt \in [Worker -> 1 .. RetryAttempts]
  BY ConstantsAssumption DEF Init
<1>3. msg \in [Worker -> Message]
  BY FreshType DEF Init
<1>4. token \in [Worker -> Token] /\ pc \in [Worker -> Phase]
  BY DEF Init, Token, Phase
<1>5. crashes \in 0 .. MaxCrashes
  BY ConstantsAssumption DEF Init
<1>6. QED
  BY <1>1, <1>2, <1>3, <1>4, <1>5 DEF Init, TypeOK

LEMMA TypeStep == TypeOK /\ [Next]_vars => TypeOK'
<1> SUFFICES ASSUME TypeOK, [Next]_vars PROVE TypeOK'
  OBVIOUS
<1> USE FreshType, ConstantsAssumption
    DEF TypeOK, Phase, Running, Timed, Terminal, config, process, clouds, backend
<1>1. ASSUME NEW w \in Worker, Ack(w) PROVE TypeOK'
  BY <1>1, IdleType DEF Ack
<1>2. ASSUME NEW w \in Worker, LoadJob(w) PROVE TypeOK'
  BY <1>2 DEF LoadJob, Goto
<1>3. ASSUME NEW w \in Worker, AdvanceJob(w) PROVE TypeOK'
  BY <1>3 DEF AdvanceJob, Goto
<1>4. ASSUME NEW w \in Worker, LookupCache(w) PROVE TypeOK'
  BY <1>4 DEF LookupCache, Goto
<1>5. ASSUME NEW w \in Worker, FetchMedia(w) PROVE TypeOK'
  BY <1>5 DEF FetchMedia, Goto
<1>6. ASSUME NEW w \in Worker, TryCaptions(w) PROVE TypeOK'
  BY <1>6 DEF TryCaptions, Transcribed, Goto
<1>7. ASSUME NEW w \in Worker, TranscribeNow(w) PROVE TypeOK'
  BY <1>7, SoftFailureType DEF TranscribeNow, Transcribed, Goto
<1>8. ASSUME NEW w \in Worker, SubmitNothing(w) PROVE TypeOK'
  BY <1>8, SoftFailureType DEF SubmitNothing, Goto
<1>9. ASSUME NEW w \in Worker, PollJob(w) PROVE TypeOK'
  BY <1>9, SoftFailureType DEF PollJob, Transcribed, Goto
<1>10. ASSUME NEW w \in Worker, StoreTranscript(w) PROVE TypeOK'
  BY <1>10 DEF StoreTranscript, Goto
<1>11. ASSUME NEW w \in Worker, CompleteJob(w) PROVE TypeOK'
  BY <1>11 DEF CompleteJob, Goto
<1>12. ASSUME NEW w \in Worker, DecidePending(w) PROVE TypeOK'
  BY <1>12 DEF DecidePending, Goto
<1>13. ASSUME NEW w \in Worker, Retry(w) PROVE TypeOK'
  <2>1. msg[w].retries < CloudJobAttempts =>
          [retries |-> msg[w].retries + 1, token |-> token[w]] \in Message
    BY DEF Message
  <2>2. queue' \in [Message -> Nat]
    BY <1>13, <2>1, PublishType DEF Retry
  <2>3. QED
    BY <1>13, <2>2 DEF Retry, Goto
<1>14. ASSUME NEW w \in Worker, FailJob(w) PROVE TypeOK'
  BY <1>14 DEF FailJob, Goto
<1>15. ASSUME NEW w \in Worker, Timeout(w) PROVE TypeOK'
  BY <1>15 DEF Timeout, Goto
<1>16. ASSUME NEW w \in Worker, ChildLost(w) PROVE TypeOK'
  BY <1>16, IdleType DEF ChildLost
<1>17. ASSUME NEW w \in Worker, NodeCrash(w) PROVE TypeOK'
  <2>1. queue' \in [Message -> Nat]
    BY <1>17, PublishType DEF NodeCrash
  <2>2. crashes' \in 0 .. MaxCrashes
    BY <1>17 DEF NodeCrash
  <2>3. QED
    BY <1>17, <2>1, <2>2, IdleType DEF NodeCrash
<1>18. ASSUME NEW w \in Worker, NEW m \in Message, Deliver(w, m) PROVE TypeOK'
  <2>1. queue' \in [Message -> Nat]
    <3>1. queue[m] - 1 \in Nat
      BY <1>18 DEF Deliver
    <3>2. QED
      BY <1>18, <3>1 DEF Deliver
  <2>2. m.token \in Token /\ 1 \in 1 .. RetryAttempts
    BY DEF Message
  <2>3. /\ msg' \in [Worker -> Message]
        /\ attempt' \in [Worker -> 1 .. RetryAttempts]
        /\ token' \in [Worker -> Token]
    BY <1>18, <2>2 DEF Deliver
  <2>4. QED
    BY <1>18, <2>1, <2>3 DEF Deliver, Goto
<1>19. ASSUME NEW w \in Worker, NEW c \in CloudId, SubmitAudio(w, c) PROVE TypeOK'
  <2>1. /\ cloud' \in [CloudId -> {"none", "processing", "completed", "error"}]
        /\ hook' \in [CloudId -> {"off", "armed", "fired"}]
    BY <1>19 DEF SubmitAudio
  <2>2. pc' \in [Worker -> Phase] /\ attempt' \in [Worker -> 1 .. RetryAttempts]
    BY <1>19, SoftFailureType DEF SubmitAudio, Goto
  <2>3. token' \in [Worker -> Token]
    BY <1>19 DEF SubmitAudio, Token
  <2>4. QED
    BY <1>19, <2>1, <2>2, <2>3 DEF SubmitAudio
<1>20. ASSUME NEW c \in CloudId, CloudSettle(c) PROVE TypeOK'
  BY <1>20 DEF CloudSettle
<1>21. ASSUME NEW c \in CloudId, FireWebhook(c) PROVE TypeOK'
  <2>1. [retries |-> 0, token |-> c] \in Message
    BY DEF Message, Token
  <2>2. queue' \in [Message -> Nat]
    BY <1>21, <2>1, PublishType DEF FireWebhook
  <2>3. QED
    BY <1>21, <2>2 DEF FireWebhook
<1>22. CASE UNCHANGED vars
  BY <1>22 DEF vars
<1>23. QED
  BY <1>1, <1>2, <1>3, <1>4, <1>5, <1>6, <1>7, <1>8, <1>9, <1>10, <1>11, <1>12, <1>13,
    <1>14, <1>15, <1>16, <1>17, <1>18, <1>19, <1>20, <1>21, <1>22 DEF Next, Task, Pipeline

THEOREM TypeCorrect == Spec => []TypeOK
<1>1. QED
  BY TypeInit, TypeStep, PTL DEF Spec


-----------------------------------------------------------------------------
(* The retry budget. *)

\* self.retry never publishes a message whose execution could ask for a retry
\* past max_retries: the last delivery fails the job itself.
LEMMA BudgetInit == Init => BudgetInv
<1> SUFFICES ASSUME Init PROVE BudgetInv
  OBVIOUS
<1>1. FreshMessage.retries = 0 /\ 0 < CloudJobAttempts
  BY ConstantsAssumption DEF FreshMessage
<1>2. QED
  BY <1>1, FreshType DEF Init, BudgetInv, RetryBudget

LEMMA BudgetStep == TypeOK /\ BudgetInv /\ [Next]_vars => BudgetInv'
<1> SUFFICES ASSUME TypeOK, BudgetInv, [Next]_vars PROVE BudgetInv'
  OBVIOUS
<1>0. FreshMessage.retries = 0 /\ 0 < CloudJobAttempts /\ CloudJobAttempts \in Nat
  BY ConstantsAssumption DEF FreshMessage
<1> USE DEF TypeOK, BudgetInv, RetryBudget
<1>1. ASSUME NEW w \in Worker, LoadJob(w) PROVE BudgetInv'
  BY <1>1 DEF LoadJob, Goto
<1>2. ASSUME NEW w \in Worker, AdvanceJob(w) PROVE BudgetInv'
  BY <1>2 DEF AdvanceJob, Goto
<1>3. ASSUME NEW w \in Worker, LookupCache(w) PROVE BudgetInv'
  BY <1>3 DEF LookupCache, Goto
<1>4. ASSUME NEW w \in Worker, FetchMedia(w) PROVE BudgetInv'
  BY <1>4 DEF FetchMedia, Goto
<1>5. ASSUME NEW w \in Worker, TryCaptions(w) PROVE BudgetInv'
  BY <1>5 DEF TryCaptions, Transcribed, Goto
<1>6. ASSUME NEW w \in Worker, TranscribeNow(w) PROVE BudgetInv'
  BY <1>6 DEF TranscribeNow, Transcribed, SoftFailure, Goto
<1>7. ASSUME NEW w \in Worker, SubmitNothing(w) PROVE BudgetInv'
  BY <1>7 DEF SubmitNothing, SoftFailure, Goto
<1>8. ASSUME NEW w \in Worker, PollJob(w) PROVE BudgetInv'
  BY <1>8 DEF PollJob, Transcribed, SoftFailure, Goto
<1>9. ASSUME NEW w \in Worker, StoreTranscript(w) PROVE BudgetInv'
  BY <1>9 DEF StoreTranscript, Goto
<1>10. ASSUME NEW w \in Worker, CompleteJob(w) PROVE BudgetInv'
  BY <1>10 DEF CompleteJob, Goto
<1>11. ASSUME NEW w \in Worker, FailJob(w) PROVE BudgetInv'
  BY <1>11 DEF FailJob, Goto
<1>12. ASSUME NEW w \in Worker, Timeout(w) PROVE BudgetInv'
  BY <1>12 DEF Timeout, Goto
<1>13. ASSUME NEW w \in Worker, DecidePending(w) PROVE BudgetInv'
  <2>1. msg[w].retries \in Nat
    BY DEF Message
  <2>2. QED
    BY <1>0, <1>13, <2>1 DEF DecidePending, Goto
<1>14. ASSUME NEW w \in Worker, Retry(w) PROVE BudgetInv'
  <2>1. msg[w].retries \in Nat /\ msg[w].retries + 1 < CloudJobAttempts
    BY <1>0, <1>14 DEF Retry, Message
  <2>2. ASSUME NEW m \in Message, queue'[m] > 0
        PROVE  m.retries < CloudJobAttempts
    BY <1>0, <1>14, <2>1, <2>2 DEF Retry, Publish
  <2>3. QED
    BY <1>14, <2>2 DEF Retry, Goto
<1>15. ASSUME NEW w \in Worker, Ack(w) PROVE BudgetInv'
  BY <1>0, <1>15 DEF Ack, Idle, Goto
<1>16. ASSUME NEW w \in Worker, ChildLost(w) PROVE BudgetInv'
  BY <1>0, <1>16 DEF ChildLost, Idle, Goto
<1>17. ASSUME NEW w \in Worker, NodeCrash(w) PROVE BudgetInv'
  <2>1. ASSUME NEW m \in Message, queue'[m] > 0
        PROVE  m.retries < CloudJobAttempts
    BY <1>17, <2>1 DEF NodeCrash, Publish
  <2>2. QED
    BY <1>0, <1>17, <2>1 DEF NodeCrash, Idle, Goto
<1>18. ASSUME NEW w \in Worker, NEW m \in Message, Deliver(w, m) PROVE BudgetInv'
  <2>1. ASSUME NEW k \in Message, queue'[k] > 0
        PROVE  k.retries < CloudJobAttempts
    BY <1>18, <2>1 DEF Deliver
  <2>2. QED
    BY <1>18, <2>1 DEF Deliver, Goto
<1>19. ASSUME NEW w \in Worker, NEW c \in CloudId, SubmitAudio(w, c) PROVE BudgetInv'
  BY <1>19 DEF SubmitAudio, SoftFailure, Goto
<1>20. ASSUME NEW c \in CloudId, CloudSettle(c) PROVE BudgetInv'
  BY <1>20 DEF CloudSettle, process
<1>21. ASSUME NEW c \in CloudId, FireWebhook(c) PROVE BudgetInv'
  <2>1. ASSUME NEW m \in Message, queue'[m] > 0
        PROVE  m.retries < CloudJobAttempts
    BY <1>0, <1>21, <2>1 DEF FireWebhook, Publish
  <2>2. QED
    BY <1>21, <2>1 DEF FireWebhook, process
<1>22. CASE UNCHANGED vars
  BY <1>22 DEF vars, process
<1>23. QED
  BY <1>1, <1>2, <1>3, <1>4, <1>5, <1>6, <1>7, <1>8, <1>9, <1>10, <1>11, <1>12, <1>13,
    <1>14, <1>15, <1>16, <1>17, <1>18, <1>19, <1>20, <1>21, <1>22 DEF Next, Task, Pipeline

\* RetryBudget for every budget: nobody is ever left without a report because
\* Celery refused to publish.
THEOREM BudgetRespected == Spec => []RetryBudget
<1>1. BudgetInv => RetryBudget
  BY DEF BudgetInv
<1>2. QED
  BY <1>1, BudgetInit, BudgetStep, TypeCorrect, PTL DEF Spec

-----------------------------------------------------------------------------
(* No job is abandoned in silence. *)

LEMMA CarriedInit == Init => Carried
<1> SUFFICES ASSUME Init PROVE Carried
  OBVIOUS
<1>1. queue[FreshMessage] > 0
  BY FreshType DEF Init
<1>2. QED
  BY <1>1, FreshType DEF Carried

\* A worker that carries the job after a step keeps it carried ...
LEMMA CarriesOn ==
    ASSUME NEW w \in Worker, Carries(w)'
    PROVE  Carried'
BY DEF Carried

\* ... and so does the step of one that did not carry it and takes nothing away.
LEMMA OthersCarry ==
    ASSUME TypeOK, Carried, NEW w \in Worker, ~Carries(w),
           UNCHANGED <<webhook, queue, hook, status, mishaps>>,
           \A v \in Worker \ {w} : pc'[v] = pc[v] /\ msg'[v] = msg[v]
    PROVE  Carried'
<1>1. CASE \E v \in Worker : Carries(v)
  <2>1. PICK v \in Worker : Carries(v)
    BY <1>1
  <2>2. v \in Worker \ {w}
    BY <2>1
  <2>3. Carries(v)'
    BY <2>1, <2>2 DEF Carries, Armed, ResumeToken
  <2>4. QED
    BY <2>3, CarriesOn
<1>2. CASE ~\E v \in Worker : Carries(v)
  BY <1>2 DEF Carried
<1>3. QED
  BY <1>1, <1>2

LEMMA CarriedStep == TypeOK /\ BudgetInv /\ Carried /\ [Next]_vars => Carried'
<1> SUFFICES ASSUME TypeOK, BudgetInv, Carried, [Next]_vars PROVE Carried'
  OBVIOUS
<1>1. ASSUME NEW w \in Worker, LoadJob(w) PROVE Carried'
  <2>1. Carries(w)'
    BY <1>1 DEF LoadJob, Goto, TypeOK, Carries, Running, Timed, Armed, ResumeToken, config
  <2>2. QED
    BY <2>1, CarriesOn
<1>2. ASSUME NEW w \in Worker, AdvanceJob(w) PROVE Carried'
  <2>1. Carries(w)'
    BY <1>2 DEF AdvanceJob, Goto, TypeOK, Carries, Running, Timed, Armed, ResumeToken,
      config
  <2>2. QED
    BY <2>1, CarriesOn
<1>3. ASSUME NEW w \in Worker, LookupCache(w) PROVE Carried'
  <2>1. Carries(w)'
    BY <1>3 DEF LookupCache, Goto, TypeOK, Carries, Running, Timed, Armed, ResumeToken,
      config
  <2>2. QED
    BY <2>1, CarriesOn
<1>4. ASSUME NEW w \in Worker, FetchMedia(w) PROVE Carried'
  <2>1. Carries(w)'
    BY <1>4 DEF FetchMedia, Goto, TypeOK, Carries, Running, Timed, Armed, ResumeToken,
      config
  <2>2. QED
    BY <2>1, CarriesOn
<1>5. ASSUME NEW w \in Worker, TryCaptions(w) PROVE Carried'
  <2>1. Carries(w)'
    BY <1>5 DEF TryCaptions, Transcribed, Goto, TypeOK, Carries, Running, Timed, Armed,
      ResumeToken, config
  <2>2. QED
    BY <2>1, CarriesOn
<1>6. ASSUME NEW w \in Worker, TranscribeNow(w) PROVE Carried'
  <2>1. Carries(w)'
    BY <1>6 DEF TranscribeNow, Transcribed, SoftFailure, Goto, TypeOK, Carries, Running,
      Timed, Armed, ResumeToken, config
  <2>2. QED
    BY <2>1, CarriesOn
<1>7. ASSUME NEW w \in Worker, SubmitNothing(w) PROVE Carried'
  <2>1. Carries(w)'
    BY <1>7 DEF SubmitNothing, SoftFailure, Goto, TypeOK, Carries, Running, Timed, Armed,
      ResumeToken, config
  <2>2. QED
    BY <2>1, CarriesOn
<1>8. ASSUME NEW w \in Worker, StoreTranscript(w) PROVE Carried'
  <2>1. Carries(w)'
    BY <1>8 DEF StoreTranscript, Goto, TypeOK, Carries, Running, Timed, Armed, ResumeToken,
      config
  <2>2. QED
    BY <2>1, CarriesOn
<1>9. ASSUME NEW w \in Worker, Timeout(w) PROVE Carried'
  <2>1. Carries(w)'
    BY <1>9 DEF Timeout, Goto, TypeOK, Carries, Running, Timed, Armed, ResumeToken, config
  <2>2. QED
    BY <2>1, CarriesOn
<1>10. ASSUME NEW w \in Worker, PollJob(w) PROVE Carried'
  <2>1. CASE Carries(w)'
    BY <2>1, CarriesOn
  <2>2. CASE ~Carries(w)'
    <3>1. Armed(w) /\ ~Carries(w)
      BY <1>10, <2>2 DEF PollJob, Transcribed, SoftFailure, Goto, TypeOK, Carries,
        Running, Timed, Armed, ResumeToken, config
    <3>2. \A v \in Worker \ {w} : pc'[v] = pc[v] /\ msg'[v] = msg[v]
      BY <1>10 DEF PollJob, Transcribed, SoftFailure, Goto, TypeOK
    <3>3. QED
      BY <1>10, <3>1, <3>2, OthersCarry DEF PollJob, config, clouds, backend
  <2>3. QED
    BY <2>1, <2>2
<1>11. ASSUME NEW w \in Worker, DecidePending(w) PROVE Carried'
  <2>1. CASE Armed(w)
    <3>1. ~Carries(w)
      BY <1>11, <2>1 DEF DecidePending, Carries
    <3>2. \A v \in Worker \ {w} : pc'[v] = pc[v] /\ msg'[v] = msg[v]
      BY <1>11 DEF DecidePending, Goto, TypeOK
    <3>3. QED
      BY <1>11, <3>1, <3>2, OthersCarry DEF DecidePending, config, clouds, backend
  <2>2. CASE ~Armed(w)
    <3>1. Carries(w)'
      BY <1>11, <2>2 DEF DecidePending, Goto, TypeOK, Carries, Running, Armed,
        ResumeToken, config
    <3>2. QED
      BY <3>1, CarriesOn
  <2>3. QED
    BY <2>1, <2>2
<1>12. ASSUME NEW w \in Worker, Retry(w) PROVE Carried'
  <2>1. CASE mishaps' = mishaps \cup {"loss"}
    BY <2>1 DEF Carried
  <2>2. CASE ~(mishaps' = mishaps \cup {"loss"})
    <3> DEFINE m == [retries |-> msg[w].retries + 1, token |-> token[w]]
    <3>1. msg[w].retries < CloudJobAttempts - 1
      BY <1>12 DEF Retry, BudgetInv
    <3>2. msg[w].retries \in Nat /\ token[w] \in Token /\ CloudJobAttempts \in Nat
      BY ConstantsAssumption DEF TypeOK, Message
    <3>3. m \in Message
      BY <3>1, <3>2 DEF Message
    <3>4. Publish(m)
      BY <1>12, <2>2, <3>1, <3>2 DEF Retry
    <3>5. queue'[m] > 0
      BY <3>3, <3>4 DEF Publish, TypeOK
    <3>6. QED
      BY <3>3, <3>5 DEF Carried
  <2>3. QED
    BY <2>1, <2>2
<1>13. ASSUME NEW w \in Worker, CompleteJob(w) PROVE Carried'
  <2>1. CASE status' = "completed"
    BY <2>1 DEF Carried, Terminal
  <2>2. CASE ~(status' = "completed")
    <3>1. Carries(w)'
      BY <1>13, <2>2 DEF CompleteJob, Goto, TypeOK, Carries, Running
    <3>2. QED
      BY <3>1, CarriesOn
  <2>3. QED
    BY <2>1, <2>2
<1>14. ASSUME NEW w \in Worker, FailJob(w) PROVE Carried'
  BY <1>14 DEF FailJob, Carried, Terminal
<1>15. ASSUME NEW w \in Worker, Ack(w) PROVE Carried'
  <2>1. ~Carries(w)
    BY <1>15 DEF Ack, Carries, Running, Timed
  <2>2. \A v \in Worker \ {w} : pc'[v] = pc[v] /\ msg'[v] = msg[v]
    BY <1>15 DEF Ack, Idle, Goto, TypeOK
  <2>3. QED
    BY <1>15, <2>1, <2>2, OthersCarry DEF Ack, config, clouds, backend
<1>16. ASSUME NEW w \in Worker, ChildLost(w) PROVE Carried'
  BY <1>16 DEF ChildLost, Carried
<1>17. ASSUME NEW w \in Worker, NodeCrash(w) PROVE Carried'
  <2>1. msg[w] \in Message /\ queue'[msg[w]] > 0
    BY <1>17 DEF NodeCrash, Publish, TypeOK
  <2>2. QED
    BY <2>1 DEF Carried
<1>18. ASSUME NEW w \in Worker, NEW m \in Message, Deliver(w, m) PROVE Carried'
  <2>1. Carries(w)'
    BY <1>18 DEF Deliver, Goto, TypeOK, Carries, Running
  <2>2. QED
    BY <2>1, CarriesOn
<1>19. ASSUME NEW w \in Worker, NEW c \in CloudId, SubmitAudio(w, c) PROVE Carried'
  <2>1. CASE webhook
    <3>1. hook'[c] = "armed"
      BY <1>19, <2>1 DEF SubmitAudio, TypeOK
    <3>2. QED
      BY <3>1 DEF Carried
  <2>2. CASE ~webhook
    <3>1. Carries(w)'
      BY <1>19, <2>2 DEF SubmitAudio, SoftFailure, Goto, TypeOK, Carries, Running,
        Timed, Armed, config
    <3>2. QED
      BY <3>1, CarriesOn
  <2>3. QED
    BY <2>1, <2>2
<1>20. ASSUME NEW c \in CloudId, CloudSettle(c) PROVE Carried'
  <2>1. \A w \in Worker : Carries(w)' = Carries(w)
    BY <1>20 DEF CloudSettle, Carries, Armed, ResumeToken, config, process
  <2>2. QED
    BY <1>20, <2>1 DEF CloudSettle, Carried, backend
<1>21. ASSUME NEW c \in CloudId, FireWebhook(c) PROVE Carried'
  <2> DEFINE m == [retries |-> 0, token |-> c]
  <2>1. m \in Message
    BY ConstantsAssumption DEF Message, Token
  <2>2. queue'[m] > 0
    BY <1>21, <2>1 DEF FireWebhook, Publish, TypeOK
  <2>3. QED
    BY <2>1, <2>2 DEF Carried
<1>22. CASE UNCHANGED vars
  <2>1. \A w \in Worker : Carries(w)' = Carries(w)
    BY <1>22 DEF vars, Carries, Armed, ResumeToken, config, process
  <2>2. QED
    BY <1>22, <2>1 DEF vars, Carried, backend, clouds
<1>23. QED
  BY <1>1, <1>2, <1>3, <1>4, <1>5, <1>6, <1>7, <1>8, <1>9, <1>10, <1>11, <1>12, <1>13,
    <1>14, <1>15, <1>16, <1>17, <1>18, <1>19, <1>20, <1>21, <1>22 DEF Next, Task, Pipeline

\* NoLostJob: when nobody runs, nothing is queued and no callback is awaited,
\* the job has an end or a report, a publish or a child was lost.
THEOREM NothingLost == Spec => []NoLostJob
<1>1. Carried => NoLostJob
  BY DEF Carried, NoLostJob, Quiet, Carries, Running, Timed
<1>2. QED
  BY <1>1, CarriedInit, CarriedStep, BudgetInit, BudgetStep, TypeCorrect, PTL
  DEF Spec


-----------------------------------------------------------------------------
(* The job's lifecycle. *)

LEMMA ReportInit == Init => ServedOnce /\ PhasesReported
BY FreshType DEF Init, ServedOnce, PhasesReported, Running, Timed

\* What a step of worker w needs to know while the job is pending: it alone
\* holds a message, the first one.
LEMMA Alone ==
    ASSUME ServedOnce, status = "pending", NEW w \in Worker, pc[w] # "idle"
    PROVE  /\ msg[w] = FreshMessage
           /\ \A m \in Message : queue[m] = 0
           /\ \A c \in CloudId : hook[c] = "off"
           /\ \A v \in Worker \ {w} : pc[v] = "idle"
BY DEF ServedOnce

\* Past the lifecycle calls that open a run, moving on disturbs neither part.
LEMMA Moved ==
    ASSUME TypeOK, PhasesReported, status # "pending", UNCHANGED status,
           stored => stored', NEW w \in Worker,
           \E p \in Phase \ {"advance"} :
              Goto(w, p) /\ (p = "complete" => stored')
    PROVE  ServedOnce' /\ PhasesReported'
<1> PICK p \in Phase \ {"advance"} : Goto(w, p) /\ (p = "complete" => stored')
  OBVIOUS
<1>1. \A v \in Worker : pc'[v] = IF v = w THEN p ELSE pc[v]
  BY DEF TypeOK, Goto
<1>2. PhasesReported'
  BY <1>1 DEF PhasesReported
<1>3. QED
  BY <1>2 DEF ServedOnce

LEMMA ReportStep ==
    TypeOK /\ ServedOnce /\ PhasesReported /\ [Next]_vars
      => ServedOnce' /\ PhasesReported'
<1> SUFFICES ASSUME TypeOK, ServedOnce, PhasesReported, [Next]_vars
             PROVE  ServedOnce' /\ PhasesReported'
  OBVIOUS
<1>1. ASSUME NEW w \in Worker, LoadJob(w)
     PROVE  ServedOnce' /\ PhasesReported'
  <2>1. PhasesReported'
    BY <1>1, Alone DEF LoadJob, Goto, TypeOK, PhasesReported, Running, Timed, backend
  <2>2. ServedOnce'
    BY <1>1, Alone DEF LoadJob, Goto, TypeOK, ServedOnce, Running, Timed, backend,
      clouds, Terminal
  <2>3. QED
    BY <2>1, <2>2
<1>2. ASSUME NEW w \in Worker, AdvanceJob(w)
     PROVE  ServedOnce' /\ PhasesReported'
  <2>1. PhasesReported'
    BY <1>2, Alone DEF AdvanceJob, Goto, TypeOK, PhasesReported, Running, Timed, backend
  <2>2. ServedOnce'
    BY <1>2, Alone DEF AdvanceJob, Goto, TypeOK, ServedOnce, Running, Timed, backend,
      clouds, Terminal
  <2>3. QED
    BY <2>1, <2>2
<1>3. ASSUME NEW w \in Worker, FailJob(w)
     PROVE  ServedOnce' /\ PhasesReported'
  <2>1. PhasesReported'
    BY <1>3, Alone DEF FailJob, Goto, TypeOK, PhasesReported, Running, Timed, backend
  <2>2. ServedOnce'
    BY <1>3, Alone DEF FailJob, Goto, TypeOK, ServedOnce, Running, Timed, backend,
      clouds, Terminal
  <2>3. QED
    BY <2>1, <2>2
<1>4. ASSUME NEW w \in Worker, CompleteJob(w)
     PROVE  ServedOnce' /\ PhasesReported'
  <2>1. PhasesReported'
    BY <1>4, Alone DEF CompleteJob, Goto, TypeOK, PhasesReported, Running, Timed, backend
  <2>2. ServedOnce'
    BY <1>4, Alone DEF CompleteJob, Goto, TypeOK, ServedOnce, Running, Timed, backend,
      clouds, Terminal
  <2>3. QED
    BY <2>1, <2>2
<1>5. ASSUME NEW w \in Worker, LookupCache(w)
     PROVE  ServedOnce' /\ PhasesReported'
  <2>1. status # "pending" /\ UNCHANGED status /\ (stored => stored')
    BY <1>5 DEF LookupCache, PhasesReported, Running, Timed, backend
  <2>2. \E p \in Phase \ {"advance"} : Goto(w, p) /\ (p = "complete" => stored')
    BY <1>5 DEF LookupCache, Phase, Running, Timed
  <2>3. QED
    BY <2>1, <2>2, Moved
<1>6. ASSUME NEW w \in Worker, FetchMedia(w)
     PROVE  ServedOnce' /\ PhasesReported'
  <2>1. status # "pending" /\ UNCHANGED status /\ (stored => stored')
    BY <1>6 DEF FetchMedia, PhasesReported, Running, Timed, backend
  <2>2. \E p \in Phase \ {"advance"} : Goto(w, p) /\ (p = "complete" => stored')
    BY <1>6 DEF FetchMedia, Phase, Running, Timed
  <2>3. QED
    BY <2>1, <2>2, Moved
<1>7. ASSUME NEW w \in Worker, TryCaptions(w)
     PROVE  ServedOnce' /\ PhasesReported'
  <2>1. status # "pending" /\ UNCHANGED status /\ (stored => stored')
    BY <1>7 DEF TryCaptions, PhasesReported, Running, Timed, backend
  <2>2. Goto(w, "store") \/ Goto(w, "leaf") \/ Goto(w, "fail")
    BY <1>7 DEF TryCaptions, Transcribed
  <2>3. \E p \in Phase \ {"advance"} : Goto(w, p) /\ (p = "complete" => stored')
    BY <2>2 DEF Phase, Running, Timed
  <2>4. QED
    BY <2>1, <2>3, Moved
<1>8. ASSUME NEW w \in Worker, TranscribeNow(w)
     PROVE  ServedOnce' /\ PhasesReported'
  <2>1. status # "pending" /\ UNCHANGED status /\ (stored => stored')
    BY <1>8 DEF TranscribeNow, PhasesReported, Running, Timed, backend
  <2>2. Goto(w, "store") \/ Goto(w, "leaf") \/ Goto(w, "poll") \/ Goto(w, "fail")
    BY <1>8 DEF TranscribeNow, Transcribed, SoftFailure
  <2>3. \E p \in Phase \ {"advance"} : Goto(w, p) /\ (p = "complete" => stored')
    BY <2>2 DEF Phase, Running, Timed
  <2>4. QED
    BY <2>1, <2>3, Moved
<1>9. ASSUME NEW w \in Worker, SubmitNothing(w)
     PROVE  ServedOnce' /\ PhasesReported'
  <2>1. status # "pending" /\ UNCHANGED status /\ (stored => stored')
    BY <1>9 DEF SubmitNothing, PhasesReported, Running, Timed, backend
  <2>2. \E p \in Phase \ {"advance"} : Goto(w, p) /\ (p = "complete" => stored')
    BY <1>9 DEF SubmitNothing, SoftFailure, Phase, Running, Timed
  <2>3. QED
    BY <2>1, <2>2, Moved
<1>10. ASSUME NEW w \in Worker, PollJob(w)
     PROVE  ServedOnce' /\ PhasesReported'
  <2>1. status # "pending" /\ UNCHANGED status /\ (stored => stored')
    BY <1>10 DEF PollJob, PhasesReported, Running, Timed, backend
  <2>2. \E p \in {"store", "pending", "leaf", "poll", "fail"} : Goto(w, p)
    BY <1>10 DEF PollJob, Transcribed, SoftFailure
  <2>3. \E p \in Phase \ {"advance"} : Goto(w, p) /\ (p = "complete" => stored')
    BY <2>2 DEF Phase, Running, Timed
  <2>4. QED
    BY <2>1, <2>3, Moved
<1>11. ASSUME NEW w \in Worker, StoreTranscript(w)
     PROVE  ServedOnce' /\ PhasesReported'
  <2>1. status # "pending" /\ UNCHANGED status
    BY <1>11 DEF StoreTranscript, PhasesReported, Running, Timed
  <2>2. stored => stored'
    <3>1. stored' = TRUE \/ stored' \in {stored, TRUE}
      BY <1>11 DEF StoreTranscript
    <3>2. QED
      BY <3>1
  <2>3. \E p \in Phase \ {"advance"} : Goto(w, p) /\ (p = "complete" => stored')
    BY <1>11 DEF StoreTranscript, Phase, Running, Timed
  <2>4. QED
    BY <2>1, <2>2, <2>3, Moved
<1>12. ASSUME NEW w \in Worker, DecidePending(w)
     PROVE  ServedOnce' /\ PhasesReported'
  <2>1. status # "pending" /\ UNCHANGED status /\ (stored => stored')
    BY <1>12 DEF DecidePending, PhasesReported, Running, Timed, backend
  <2>2. \E p \in Phase \ {"advance"} : Goto(w, p) /\ (p = "complete" => stored')
    BY <1>12 DEF DecidePending, Phase, Running, Timed
  <2>3. QED
    BY <2>1, <2>2, Moved
<1>13. ASSUME NEW w \in Worker, Timeout(w)
     PROVE  ServedOnce' /\ PhasesReported'
  <2>1. status # "pending" /\ UNCHANGED status /\ (stored => stored')
    BY <1>13 DEF Timeout, PhasesReported, Running, Timed, backend
  <2>2. \E p \in Phase \ {"advance"} : Goto(w, p) /\ (p = "complete" => stored')
    BY <1>13 DEF Timeout, Phase, Running, Timed
  <2>3. QED
    BY <2>1, <2>2, Moved
<1>14. ASSUME NEW w \in Worker, Retry(w)
     PROVE  ServedOnce' /\ PhasesReported'
  <2>1. status # "pending" /\ UNCHANGED status /\ (stored => stored')
    BY <1>14 DEF Retry, PhasesReported, Running, Timed, backend
  <2>2. \E p \in Phase \ {"advance"} : Goto(w, p) /\ (p = "complete" => stored')
    BY <1>14 DEF Retry, Phase, Running, Timed
  <2>3. QED
    BY <2>1, <2>2, Moved
<1>15. ASSUME NEW w \in Worker, Ack(w)
     PROVE  ServedOnce' /\ PhasesReported'
  <2>1. PhasesReported'
    BY <1>15, Alone DEF Ack, Idle, Goto, TypeOK, PhasesReported, Running, Timed, backend
  <2>2. ServedOnce'
    BY <1>15, Alone DEF Ack, Idle, Goto, TypeOK, ServedOnce, backend, clouds
  <2>3. QED
    BY <2>1, <2>2
<1>16. ASSUME NEW w \in Worker, ChildLost(w)
     PROVE  ServedOnce' /\ PhasesReported'
  <2>1. PhasesReported'
    BY <1>16, Alone DEF ChildLost, Idle, Goto, TypeOK, PhasesReported, Running, Timed,
      backend
  <2>2. ServedOnce'
    BY <1>16, Alone DEF ChildLost, Idle, Goto, TypeOK, ServedOnce, backend, clouds
  <2>3. QED
    BY <2>1, <2>2
<1>17. ASSUME NEW w \in Worker, NodeCrash(w)
     PROVE  ServedOnce' /\ PhasesReported'
  <2>1. PhasesReported'
    BY <1>17, Alone DEF NodeCrash, Idle, Goto, TypeOK, PhasesReported, Running, Timed,
      backend
  <2>2. ASSUME status = "pending" PROVE ServedOnce'
    <3>1. msg[w] = FreshMessage /\ \A m \in Message : queue[m] = 0
      BY <1>17, <2>2, Alone DEF NodeCrash
    <3>2. \A m \in Message : queue'[m] = 0 \/ (m = FreshMessage /\ queue'[m] = 1)
      BY <1>17, <3>1, FreshType DEF NodeCrash, Publish, TypeOK
    <3>3. \A v \in Worker : pc'[v] = "idle"
      BY <1>17, <2>2, Alone DEF NodeCrash, Idle, Goto, TypeOK
    <3>4. \A c \in CloudId : hook'[c] = "off"
      BY <1>17, <2>2, Alone DEF NodeCrash, clouds
    <3>5. QED
      BY <3>2, <3>3, <3>4 DEF ServedOnce
  <2>3. ASSUME status # "pending" PROVE ServedOnce'
    BY <1>17, <2>3 DEF NodeCrash, ServedOnce, backend
  <2>4. QED
    BY <2>1, <2>2, <2>3
<1>18. ASSUME NEW w \in Worker, NEW m \in Message, Deliver(w, m)
     PROVE  ServedOnce' /\ PhasesReported'
  <2>1. PhasesReported'
    BY <1>18 DEF Deliver, Goto, TypeOK, PhasesReported, Running, Timed, backend
  <2>2. ASSUME status = "pending" PROVE ServedOnce'
    <3>1. m = FreshMessage /\ queue[m] = 1
      BY <1>18, <2>2 DEF Deliver, ServedOnce
    <3>2. \A v \in Worker : pc[v] = "idle"
      BY <2>2, <3>1 DEF ServedOnce
    <3>3. \A k \in Message : queue'[k] = 0
      BY <1>18, <2>2, <3>1 DEF Deliver, ServedOnce, TypeOK
    <3>4. \A v \in Worker \ {w} : pc'[v] = "idle"
      BY <1>18, <3>2 DEF Deliver, Goto, TypeOK
    <3>5. msg'[w] = FreshMessage
      BY <1>18, <3>1 DEF Deliver, TypeOK
    <3>6. QED
      BY <1>18, <2>2, <3>3, <3>4, <3>5 DEF Deliver, ServedOnce, clouds
  <2>3. ASSUME status # "pending" PROVE ServedOnce'
    BY <1>18, <2>3 DEF Deliver, ServedOnce, backend
  <2>4. QED
    BY <2>1, <2>2, <2>3
<1>19. ASSUME NEW w \in Worker, NEW c \in CloudId, SubmitAudio(w, c)
     PROVE  ServedOnce' /\ PhasesReported'
  <2>1. status # "pending" /\ UNCHANGED status /\ (stored => stored')
    BY <1>19 DEF SubmitAudio, PhasesReported, Running, Timed, backend
  <2>2. \E p \in Phase \ {"advance"} : Goto(w, p) /\ (p = "complete" => stored')
    BY <1>19 DEF SubmitAudio, SoftFailure, Phase, Running, Timed
  <2>3. QED
    BY <2>1, <2>2, Moved
<1>20. ASSUME NEW c \in CloudId, CloudSettle(c)
     PROVE  ServedOnce' /\ PhasesReported'
  BY <1>20 DEF CloudSettle, ServedOnce, PhasesReported, process, backend
<1>21. ASSUME NEW c \in CloudId, FireWebhook(c)
     PROVE  ServedOnce' /\ PhasesReported'
  <2>1. status # "pending" /\ status' = status
    BY <1>21 DEF FireWebhook, ServedOnce, backend
  <2>2. QED
    BY <1>21, <2>1 DEF FireWebhook, ServedOnce, PhasesReported, process, backend
<1>22. CASE UNCHANGED vars
  BY <1>22 DEF vars, ServedOnce, PhasesReported, process, clouds, backend
<1>23. QED
  BY <1>1, <1>2, <1>3, <1>4, <1>5, <1>6, <1>7, <1>8, <1>9, <1>10, <1>11, <1>12, <1>13,
    <1>14, <1>15, <1>16, <1>17, <1>18, <1>19, <1>20, <1>21, <1>22 DEF Next, Task, Pipeline

-----------------------------------------------------------------------------
(* What the cloud jobs cost, and what a completion is worth. *)

\* Only the first message has no token; who holds another knows its cloud job.
LEMMA TokensStep == TypeOK /\ TokensKept /\ [Next]_vars => TokensKept'
<1> SUFFICES ASSUME TypeOK, TokensKept, [Next]_vars PROVE TokensKept'
  OBVIOUS
<1>0. FreshMessage \in Message /\ FreshMessage.token = NoToken /\ NoToken \notin CloudId
  BY FreshType, ConstantsAssumption DEF FreshMessage
<1> USE <1>0 DEF TypeOK, TokensKept, config, process, clouds, backend
<1>1. ASSUME NEW w \in Worker, LoadJob(w) PROVE TokensKept'
  BY <1>1 DEF LoadJob, Goto
<1>2. ASSUME NEW w \in Worker, AdvanceJob(w) PROVE TokensKept'
  BY <1>2 DEF AdvanceJob, Goto
<1>3. ASSUME NEW w \in Worker, LookupCache(w) PROVE TokensKept'
  BY <1>3 DEF LookupCache, Goto
<1>4. ASSUME NEW w \in Worker, FetchMedia(w) PROVE TokensKept'
  BY <1>4 DEF FetchMedia, Goto, ResumeToken
<1>5. ASSUME NEW w \in Worker, TryCaptions(w) PROVE TokensKept'
  BY <1>5, ZenonT(60) DEF TryCaptions, Transcribed, Goto
<1>6. ASSUME NEW w \in Worker, TranscribeNow(w) PROVE TokensKept'
  BY <1>6, ZenonT(60) DEF TranscribeNow, Transcribed, SoftFailure, ResumeToken, Goto
<1>7. ASSUME NEW w \in Worker, SubmitNothing(w) PROVE TokensKept'
  BY <1>7 DEF SubmitNothing, SoftFailure, ResumeToken, Goto
<1>8. ASSUME NEW w \in Worker, PollJob(w) PROVE TokensKept'
  BY <1>8, ZenonT(60) DEF PollJob, Transcribed, SoftFailure, ResumeToken, Goto
<1>9. ASSUME NEW w \in Worker, StoreTranscript(w) PROVE TokensKept'
  BY <1>9, ZenonT(60) DEF StoreTranscript, Goto
<1>10. ASSUME NEW w \in Worker, CompleteJob(w) PROVE TokensKept'
  BY <1>10 DEF CompleteJob, Goto
<1>11. ASSUME NEW w \in Worker, FailJob(w) PROVE TokensKept'
  BY <1>11 DEF FailJob, Goto
<1>12. ASSUME NEW w \in Worker, Timeout(w) PROVE TokensKept'
  BY <1>12 DEF Timeout, Goto
<1>13. ASSUME NEW w \in Worker, DecidePending(w) PROVE TokensKept'
  BY <1>13 DEF DecidePending, Goto
<1>14. ASSUME NEW w \in Worker, Retry(w) PROVE TokensKept'
  <2>1. token[w] # NoToken /\ token[w] \in Token
    BY <1>14 DEF Retry
  <2>2. \A m \in Message : queue'[m] > 0 /\ m.token = NoToken => queue[m] > 0
    BY <1>14, <2>1 DEF Retry, Publish
  <2>3. QED
    BY <1>14, <2>2 DEF Retry, Goto
<1>15. ASSUME NEW w \in Worker, Ack(w) PROVE TokensKept'
  BY <1>15 DEF Ack, Idle, Goto
<1>16. ASSUME NEW w \in Worker, ChildLost(w) PROVE TokensKept'
  BY <1>16 DEF ChildLost, Idle, Goto
<1>17. ASSUME NEW w \in Worker, NodeCrash(w) PROVE TokensKept'
  <2>1. \A m \in Message : queue'[m] > 0 => queue[m] > 0 \/ m = msg[w]
    BY <1>17 DEF NodeCrash, Publish
  <2>2. QED
    BY <1>17, <2>1 DEF NodeCrash, Idle, Goto
<1>18. ASSUME NEW w \in Worker, NEW m \in Message, Deliver(w, m) PROVE TokensKept'
  <2>1. \A k \in Message : queue'[k] > 0 => queue[k] > 0
    BY <1>18 DEF Deliver
  <2>2. QED
    BY <1>18, <2>1 DEF Deliver, Goto
<1>19. ASSUME NEW w \in Worker, NEW c \in CloudId, SubmitAudio(w, c) PROVE TokensKept'
  BY <1>19 DEF SubmitAudio, SoftFailure, ResumeToken, Goto
<1>20. ASSUME NEW c \in CloudId, CloudSettle(c) PROVE TokensKept'
  BY <1>20 DEF CloudSettle
<1>21. ASSUME NEW c \in CloudId, FireWebhook(c) PROVE TokensKept'
  <2>1. \A m \in Message : queue'[m] > 0 /\ m.token = NoToken => queue[m] > 0
    BY <1>21 DEF FireWebhook, Publish
  <2>2. QED
    BY <1>21, <2>1 DEF FireWebhook
<1>22. CASE UNCHANGED vars
  BY <1>22 DEF vars
<1>23. QED
  BY <1>1, <1>2, <1>3, <1>4, <1>5, <1>6, <1>7, <1>8, <1>9, <1>10, <1>11, <1>12, <1>13,
    <1>14, <1>15, <1>16, <1>17, <1>18, <1>19, <1>20, <1>21, <1>22
  DEF Next, Task, Pipeline

\* The first message is queued or held once, whatever else the broker carries.
LEMMA FirstStep == TypeOK /\ TokensKept /\ FirstOnce /\ [Next]_vars => FirstOnce'
<1> SUFFICES ASSUME TypeOK, TokensKept, FirstOnce, [Next]_vars PROVE FirstOnce'
  OBVIOUS
<1>0. FreshMessage \in Message /\ FreshMessage.token = NoToken /\ NoToken \notin CloudId
  BY FreshType, ConstantsAssumption DEF FreshMessage
<1> USE <1>0 DEF TypeOK, FirstOnce, HoldsFirst, config, process, clouds, backend
<1>1. ASSUME NEW w \in Worker, LoadJob(w) PROVE FirstOnce'
  BY <1>1 DEF LoadJob, Goto
<1>2. ASSUME NEW w \in Worker, AdvanceJob(w) PROVE FirstOnce'
  BY <1>2 DEF AdvanceJob, Goto
<1>3. ASSUME NEW w \in Worker, LookupCache(w) PROVE FirstOnce'
  BY <1>3 DEF LookupCache, Goto
<1>4. ASSUME NEW w \in Worker, FetchMedia(w) PROVE FirstOnce'
  BY <1>4 DEF FetchMedia, Goto, ResumeToken
<1>5. ASSUME NEW w \in Worker, TryCaptions(w) PROVE FirstOnce'
  BY <1>5, ZenonT(60) DEF TryCaptions, Transcribed, Goto
<1>6. ASSUME NEW w \in Worker, TranscribeNow(w) PROVE FirstOnce'
  BY <1>6, ZenonT(60) DEF TranscribeNow, Transcribed, SoftFailure, ResumeToken, Goto
<1>7. ASSUME NEW w \in Worker, SubmitNothing(w) PROVE FirstOnce'
  BY <1>7 DEF SubmitNothing, SoftFailure, ResumeToken, Goto
<1>8. ASSUME NEW w \in Worker, PollJob(w) PROVE FirstOnce'
  BY <1>8, ZenonT(60) DEF PollJob, Transcribed, SoftFailure, ResumeToken, Goto
<1>9. ASSUME NEW w \in Worker, StoreTranscript(w) PROVE FirstOnce'
  BY <1>9 DEF StoreTranscript, Goto
<1>10. ASSUME NEW w \in Worker, CompleteJob(w) PROVE FirstOnce'
  BY <1>10 DEF CompleteJob, Goto
<1>11. ASSUME NEW w \in Worker, FailJob(w) PROVE FirstOnce'
  BY <1>11 DEF FailJob, Goto
<1>12. ASSUME NEW w \in Worker, Timeout(w) PROVE FirstOnce'
  BY <1>12 DEF Timeout, Timed, Goto
<1>13. ASSUME NEW w \in Worker, DecidePending(w) PROVE FirstOnce'
  BY <1>13 DEF DecidePending, Goto
<1>14. ASSUME NEW w \in Worker, Retry(w) PROVE FirstOnce'
  <2>1. token[w] # NoToken
    BY <1>14 DEF Retry, TokensKept
  <2>2. queue'[FreshMessage] = queue[FreshMessage]
    BY <1>14, <2>1 DEF Retry, Publish
  <2>3. QED
    BY <1>14, <2>2 DEF Retry, Goto
<1>15. ASSUME NEW w \in Worker, Ack(w) PROVE FirstOnce'
  BY <1>15 DEF Ack, Idle, Goto
<1>16. ASSUME NEW w \in Worker, ChildLost(w) PROVE FirstOnce'
  BY <1>16 DEF ChildLost, Idle, Goto
<1>17. ASSUME NEW w \in Worker, NodeCrash(w) PROVE FirstOnce'
  <2>1. \A v \in Worker : HoldsFirst(v)' <=> v # w /\ HoldsFirst(v)
    BY <1>17 DEF NodeCrash, Idle, Goto
  <2>2. CASE msg[w].token = NoToken
    <3>1. HoldsFirst(w) /\ msg[w] = FreshMessage
      BY <1>17, <2>2 DEF NodeCrash, TokensKept
    <3>2. queue'[FreshMessage] = 1
      BY <1>17, <3>1 DEF NodeCrash, Publish
    <3>3. \A v \in Worker : ~HoldsFirst(v)'
      BY <2>1, <3>1
    <3>4. QED
      BY <3>2, <3>3
  <2>3. CASE msg[w].token # NoToken
    <3>1. queue'[FreshMessage] = queue[FreshMessage]
      BY <1>17, <2>3 DEF NodeCrash, Publish
    <3>2. QED
      BY <2>1, <3>1
  <2>4. QED
    BY <2>2, <2>3
<1>18. ASSUME NEW w \in Worker, NEW m \in Message, Deliver(w, m) PROVE FirstOnce'
  <2>1. \A v \in Worker \ {w} : HoldsFirst(v)' <=> HoldsFirst(v)
    BY <1>18 DEF Deliver, Goto
  <2>2. HoldsFirst(w)' <=> m.token = NoToken
    BY <1>18 DEF Deliver, Goto
  <2>3. CASE m.token = NoToken
    <3>1. m = FreshMessage /\ queue[m] = 1 /\ queue'[m] = 0
      BY <1>18, <2>3 DEF Deliver, TokensKept
    <3>2. \A v \in Worker : ~HoldsFirst(v)
      BY <3>1
    <3>3. QED
      BY <2>1, <3>1, <3>2
  <2>4. CASE m.token # NoToken
    <3>1. queue'[FreshMessage] = queue[FreshMessage] /\ ~HoldsFirst(w)'
      BY <1>18, <2>2, <2>4 DEF Deliver
    <3>2. QED
      BY <2>1, <3>1
  <2>5. QED
    BY <2>3, <2>4
<1>19. ASSUME NEW w \in Worker, NEW c \in CloudId, SubmitAudio(w, c) PROVE FirstOnce'
  BY <1>19 DEF SubmitAudio, SoftFailure, ResumeToken, Goto
<1>20. ASSUME NEW c \in CloudId, CloudSettle(c) PROVE FirstOnce'
  BY <1>20 DEF CloudSettle
<1>21. ASSUME NEW c \in CloudId, FireWebhook(c) PROVE FirstOnce'
  <2>1. queue'[FreshMessage] = queue[FreshMessage]
    BY <1>21 DEF FireWebhook, Publish
  <2>2. QED
    BY <1>21, <2>1 DEF FireWebhook
<1>22. CASE UNCHANGED vars
  BY <1>22 DEF vars
<1>23. QED
  BY <1>1, <1>2, <1>3, <1>4, <1>5, <1>6, <1>7, <1>8, <1>9, <1>10, <1>11, <1>12, <1>13,
    <1>14, <1>15, <1>16, <1>17, <1>18, <1>19, <1>20, <1>21, <1>22
  DEF Next, Task, Pipeline

\* A run that goes on alone is alone.
LEMMA RunGoesOn ==
    ASSUME TypeOK, RunsAlone, NEW w \in Worker, pc[w] \in Running, NEW p, Goto(w, p),
           UNCHANGED <<config, queue, hook, status, crashes, mishaps>>
    PROVE  RunsAlone'
BY DEF TypeOK, RunsAlone, Goto, config

\* Without webhooks and crashes runs follow one another, and end with the one
\* that knows the job completed.
LEMMA RunsStep == TypeOK /\ RunsAlone /\ [Next]_vars => RunsAlone'
<1> SUFFICES ASSUME TypeOK, RunsAlone, [Next]_vars PROVE RunsAlone'
  OBVIOUS
<1> USE DEF TypeOK, RunsAlone, Running, Timed, config, process, clouds, backend
<1>1. ASSUME NEW w \in Worker, LoadJob(w) PROVE RunsAlone'
  BY <1>1 DEF LoadJob, Goto
<1>2. ASSUME NEW w \in Worker, AdvanceJob(w) PROVE RunsAlone'
  BY <1>2 DEF AdvanceJob, Goto
<1>3. ASSUME NEW w \in Worker, LookupCache(w) PROVE RunsAlone'
  BY <1>3 DEF LookupCache, Goto
<1>4. ASSUME NEW w \in Worker, FetchMedia(w) PROVE RunsAlone'
  BY <1>4 DEF FetchMedia, Goto, ResumeToken
<1>5. ASSUME NEW w \in Worker, TryCaptions(w) PROVE RunsAlone'
  <2>1. Goto(w, "store") \/ Goto(w, "leaf") \/ Goto(w, "fail")
    BY <1>5 DEF TryCaptions, Transcribed
  <2>2. QED
    BY <1>5, <2>1, RunGoesOn DEF TryCaptions
<1>6. ASSUME NEW w \in Worker, TranscribeNow(w) PROVE RunsAlone'
  <2>1. Goto(w, "store") \/ Goto(w, "leaf") \/ Goto(w, "poll") \/ Goto(w, "fail")
    BY <1>6 DEF TranscribeNow, Transcribed, SoftFailure
  <2>2. QED
    BY <1>6, <2>1, RunGoesOn DEF TranscribeNow
<1>7. ASSUME NEW w \in Worker, SubmitNothing(w) PROVE RunsAlone'
  BY <1>7 DEF SubmitNothing, SoftFailure, ResumeToken, Goto
<1>8. ASSUME NEW w \in Worker, PollJob(w) PROVE RunsAlone'
  <2>1. \E p \in {"store", "pending", "leaf", "poll", "fail"} : Goto(w, p)
    BY <1>8 DEF PollJob, Transcribed, SoftFailure
  <2>2. QED
    BY <1>8, <2>1, RunGoesOn DEF PollJob
<1>9. ASSUME NEW w \in Worker, StoreTranscript(w) PROVE RunsAlone'
  <2>1. Goto(w, "complete") \/ Goto(w, "fail")
    BY <1>9 DEF StoreTranscript
  <2>2. QED
    BY <1>9, <2>1, RunGoesOn DEF StoreTranscript
<1>10. ASSUME NEW w \in Worker, CompleteJob(w) PROVE RunsAlone'
  BY <1>10 DEF CompleteJob, Goto
<1>11. ASSUME NEW w \in Worker, FailJob(w) PROVE RunsAlone'
  BY <1>11 DEF FailJob, Goto
<1>12. ASSUME NEW w \in Worker, Timeout(w) PROVE RunsAlone'
  BY <1>12 DEF Timeout, Goto
<1>13. ASSUME NEW w \in Worker, DecidePending(w) PROVE RunsAlone'
  BY <1>13 DEF DecidePending, Goto
<1>14. ASSUME NEW w \in Worker, Retry(w) PROVE RunsAlone'
  <2>1. \A m \in Message : queue'[m] > 0 => queue[m] > 0
             \/ m = [retries |-> msg[w].retries + 1, token |-> token[w]]
    BY <1>14 DEF Retry, Publish
  <2>2. QED
    BY <1>14, <2>1 DEF Retry, Goto, Publish
<1>15. ASSUME NEW w \in Worker, Ack(w) PROVE RunsAlone'
  BY <1>15 DEF Ack, Idle, Goto
<1>16. ASSUME NEW w \in Worker, ChildLost(w) PROVE RunsAlone'
  BY <1>16 DEF ChildLost, Idle, Goto
<1>17. ASSUME NEW w \in Worker, NodeCrash(w) PROVE RunsAlone'
  BY <1>17 DEF NodeCrash
<1>18. ASSUME NEW w \in Worker, NEW m \in Message, Deliver(w, m) PROVE RunsAlone'
  BY <1>18 DEF Deliver, Goto
<1>19. ASSUME NEW w \in Worker, NEW c \in CloudId, SubmitAudio(w, c) PROVE RunsAlone'
  BY <1>19 DEF SubmitAudio, SoftFailure, ResumeToken, Goto
<1>20. ASSUME NEW c \in CloudId, CloudSettle(c) PROVE RunsAlone'
  BY <1>20 DEF CloudSettle
<1>21. ASSUME NEW c \in CloudId, FireWebhook(c) PROVE RunsAlone'
  BY <1>21 DEF FireWebhook
<1>22. CASE UNCHANGED vars
  BY <1>22 DEF vars
<1>23. QED
  BY <1>1, <1>2, <1>3, <1>4, <1>5, <1>6, <1>7, <1>8, <1>9, <1>10, <1>11, <1>12, <1>13,
    <1>14, <1>15, <1>16, <1>17, <1>18, <1>19, <1>20, <1>21, <1>22
  DEF Next, Task, Pipeline

\* The attempts there have been: what a step adds to them, and to the budget.
LEMMA Counts ==
    ASSUME TypeOK
    PROVE  /\ RetryAttempts \in Nat /\ crashes \in Nat
           /\ RetryAttempts * crashes \in Nat
           /\ RetryAttempts * (1 + crashes) = RetryAttempts * crashes + RetryAttempts
<1>1. RetryAttempts \in Nat /\ crashes \in Nat
  BY ConstantsAssumption DEF TypeOK
<1>2. QED
  BY <1>1

\* A step that submits nothing and crashes nothing moves a run on, which opens
\* again only with another attempt.
LEMMA CountKept ==
    ASSUME TypeOK, TypeOK', AttemptsCounted, Submitted' = Submitted, UNCHANGED crashes,
           queue'[FreshMessage] > 0 => queue[FreshMessage] > 0,
           \A w \in Worker : HoldsFirst(w)' =>
               /\ HoldsFirst(w)
               /\ attempt'[w] >= attempt[w]
               /\ pc'[w] \in Opening => pc[w] \in Opening \/ attempt'[w] > attempt[w]
    PROVE  AttemptsCounted'
<1> DEFINE n == Cardinality(Submitted)
           spent == RetryAttempts * crashes
<1>1. spent \in Nat /\ RetryAttempts \in Nat
  BY Counts
<1>2. n \in Nat /\ IsFiniteSet(Submitted)
  BY FS_CardinalityType DEF AttemptsCounted
<1>3. \A w \in Worker : attempt[w] \in Nat /\ attempt'[w] \in Nat
  BY DEF TypeOK
<1>4. /\ n <= spent + RetryAttempts
      /\ queue[FreshMessage] > 0 => n <= spent
      /\ \A w \in Worker : HoldsFirst(w) =>
            n <= spent + attempt[w] /\ (pc[w] \in Opening => n < spent + attempt[w])
  BY DEF AttemptsCounted
<1>5. n' = n /\ spent' = spent
  OBVIOUS
<1> HIDE DEF n, spent
<1>6. /\ n <= spent + RetryAttempts
      /\ queue'[FreshMessage] > 0 => n <= spent
      /\ \A w \in Worker : HoldsFirst(w)' =>
            n <= spent + attempt'[w] /\ (pc'[w] \in Opening => n < spent + attempt'[w])
  BY <1>1, <1>2, <1>3, <1>4
<1>7. QED
  BY <1>2, <1>5, <1>6 DEF AttemptsCounted, n, spent

\* In particular, when a worker goes on with the message it holds.
LEMMA RunCounts ==
    ASSUME TypeOK, TypeOK', AttemptsCounted, UNCHANGED <<cloud, queue, msg, attempt, crashes>>,
           NEW w \in Worker, NEW p, Goto(w, p), pc[w] # "idle",
           p \in Opening => pc[w] \in Opening
    PROVE  AttemptsCounted'
<1>1. Submitted' = Submitted
  BY DEF Submitted
<1>2. \A v \in Worker : /\ HoldsFirst(v)' => HoldsFirst(v)
                        /\ pc'[v] \in Opening => pc[v] \in Opening
  BY DEF HoldsFirst, Goto, TypeOK
<1>3. \A v \in Worker : attempt'[v] >= attempt[v]
  BY DEF TypeOK
<1>4. QED
  BY <1>1, <1>2, <1>3, CountKept

\* Or makes another attempt.
LEMMA SoftFailureCounts ==
    ASSUME TypeOK, TypeOK', AttemptsCounted, UNCHANGED <<cloud, queue, msg, crashes>>,
           NEW w \in Worker, SoftFailure(w), pc[w] # "idle"
    PROVE  AttemptsCounted'
<1>1. Submitted' = Submitted
  BY DEF Submitted
<1>2. \A v \in Worker : /\ HoldsFirst(v)' => HoldsFirst(v)
                        /\ attempt'[v] >= attempt[v]
                        /\ pc'[v] \in Opening => pc[v] \in Opening \/ attempt'[v] > attempt[v]
  BY DEF HoldsFirst, Goto, TypeOK, SoftFailure, Opening
<1>3. QED
  BY <1>1, <1>2, CountKept

LEMMA AttemptsStep ==
    TypeOK /\ TokensKept /\ FirstOnce /\ AttemptsCounted /\ [Next]_vars => AttemptsCounted'
<1> SUFFICES ASSUME TypeOK, TokensKept, FirstOnce, AttemptsCounted, [Next]_vars
             PROVE  AttemptsCounted'
  OBVIOUS
<1>0. /\ TypeOK'
      /\ FreshMessage \in Message /\ FreshMessage.token = NoToken /\ NoToken \notin CloudId
  BY TypeStep, FreshType, ConstantsAssumption DEF FreshMessage
<1>1. ASSUME NEW w \in Worker, LoadJob(w) PROVE AttemptsCounted'
  <2>1. Goto(w, "advance") \/ Goto(w, "lookup") \/ Goto(w, "fail")
    BY <1>1 DEF LoadJob
  <2>2. QED
    BY <1>0, <1>1, <2>1, RunCounts DEF LoadJob, Opening, config, process, clouds, backend
<1>2. ASSUME NEW w \in Worker, AdvanceJob(w) PROVE AttemptsCounted'
  <2>1. Goto(w, "lookup") \/ Goto(w, "fail")
    BY <1>2 DEF AdvanceJob
  <2>2. QED
    BY <1>0, <1>2, <2>1, RunCounts DEF AdvanceJob, Opening, config, process, clouds, backend
<1>3. ASSUME NEW w \in Worker, LookupCache(w) PROVE AttemptsCounted'
  <2>1. Goto(w, "store") \/ Goto(w, "media") \/ Goto(w, "fail")
    BY <1>3 DEF LookupCache
  <2>2. QED
    BY <1>0, <1>3, <2>1, RunCounts DEF LookupCache, Opening, config, process, clouds,
      backend
<1>4. ASSUME NEW w \in Worker, FetchMedia(w) PROVE AttemptsCounted'
  <2>1. Goto(w, "captions") \/ Goto(w, "poll") \/ Goto(w, "fail")
    BY <1>4 DEF FetchMedia
  <2>2. QED
    BY <1>0, <1>4, <2>1, RunCounts DEF FetchMedia, Opening, config, process, clouds, backend
<1>5. ASSUME NEW w \in Worker, TryCaptions(w) PROVE AttemptsCounted'
  <2>1. Goto(w, "store") \/ Goto(w, "leaf") \/ Goto(w, "fail")
    BY <1>5 DEF TryCaptions, Transcribed
  <2>2. QED
    BY <1>0, <1>5, <2>1, RunCounts DEF TryCaptions, Opening, config, process, clouds,
      backend
<1>6. ASSUME NEW w \in Worker, TranscribeNow(w) PROVE AttemptsCounted'
  <2>1. CASE SoftFailure(w)
    BY <1>0, <1>6, <2>1, SoftFailureCounts DEF TranscribeNow, clouds
  <2>2. CASE ~SoftFailure(w)
    <3>1. UNCHANGED attempt /\ (Goto(w, "store") \/ Goto(w, "fail"))
      BY <1>6, <2>2 DEF TranscribeNow, Transcribed
    <3>2. QED
      BY <1>0, <1>6, <3>1, RunCounts DEF TranscribeNow, Opening, clouds
  <2>3. QED
    BY <2>1, <2>2
<1>7. ASSUME NEW w \in Worker, SubmitNothing(w) PROVE AttemptsCounted'
  <2>1. CASE SoftFailure(w)
    BY <1>0, <1>7, <2>1, SoftFailureCounts DEF SubmitNothing, clouds
  <2>2. CASE ~SoftFailure(w)
    <3>1. UNCHANGED attempt /\ (Goto(w, "fail"))
      BY <1>7, <2>2 DEF SubmitNothing
    <3>2. QED
      BY <1>0, <1>7, <3>1, RunCounts DEF SubmitNothing, Opening, clouds
  <2>3. QED
    BY <2>1, <2>2
<1>8. ASSUME NEW w \in Worker, PollJob(w) PROVE AttemptsCounted'
  <2>1. CASE SoftFailure(w)
    BY <1>0, <1>8, <2>1, SoftFailureCounts DEF PollJob, clouds
  <2>2. CASE ~SoftFailure(w)
    <3>1. UNCHANGED attempt /\ (Goto(w, "store") \/ Goto(w, "pending") \/ Goto(w, "fail"))
      BY <1>8, <2>2 DEF PollJob, Transcribed
    <3>2. QED
      BY <1>0, <1>8, <3>1, RunCounts DEF PollJob, Opening, clouds
  <2>3. QED
    BY <2>1, <2>2
<1>9. ASSUME NEW w \in Worker, StoreTranscript(w) PROVE AttemptsCounted'
  <2>1. Goto(w, "complete") \/ Goto(w, "fail")
    BY <1>9 DEF StoreTranscript
  <2>2. QED
    BY <1>0, <1>9, <2>1, RunCounts DEF StoreTranscript, Opening, config, process, clouds,
      backend
<1>10. ASSUME NEW w \in Worker, CompleteJob(w) PROVE AttemptsCounted'
  <2>1. Goto(w, "ack") \/ Goto(w, "fail")
    BY <1>10 DEF CompleteJob
  <2>2. QED
    BY <1>0, <1>10, <2>1, RunCounts DEF CompleteJob, Opening, config, process, clouds,
      backend
<1>11. ASSUME NEW w \in Worker, FailJob(w) PROVE AttemptsCounted'
  <2>1. Goto(w, "ack")
    BY <1>11 DEF FailJob
  <2>2. QED
    BY <1>0, <1>11, <2>1, RunCounts DEF FailJob, Opening, config, process, clouds, backend
<1>12. ASSUME NEW w \in Worker, Timeout(w) PROVE AttemptsCounted'
  <2>1. Goto(w, "fail")
    BY <1>12 DEF Timeout
  <2>2. QED
    BY <1>0, <1>12, <2>1, RunCounts DEF Timeout, Opening, Timed, config, process, clouds,
      backend
<1>13. ASSUME NEW w \in Worker, DecidePending(w) PROVE AttemptsCounted'
  <2>1. Goto(w, "ack") \/ Goto(w, "fail") \/ Goto(w, "retry")
    BY <1>13 DEF DecidePending
  <2>2. QED
    BY <1>0, <1>13, <2>1, RunCounts DEF DecidePending, Opening, config, process, clouds,
      backend
<1>14. ASSUME NEW w \in Worker, Retry(w) PROVE AttemptsCounted'
  <2>1. Submitted' = Submitted
    BY <1>14 DEF Retry, Submitted, clouds
  <2>2. queue'[FreshMessage] = queue[FreshMessage]
    BY <1>0, <1>14 DEF Retry, Publish, TokensKept, TypeOK
  <2>3. \A v \in Worker : /\ HoldsFirst(v)' => HoldsFirst(v)
                          /\ attempt'[v] >= attempt[v]
                          /\ pc'[v] \in Opening => pc[v] \in Opening
    BY <1>14 DEF Retry, Goto, HoldsFirst, Opening, TypeOK
  <2>4. QED
    BY <1>0, <1>14, <2>1, <2>2, <2>3, CountKept DEF Retry
<1>15. ASSUME NEW w \in Worker, Ack(w) PROVE AttemptsCounted'
  <2>1. Submitted' = Submitted
    BY <1>15 DEF Ack, Submitted, clouds
  <2>2. \A v \in Worker : HoldsFirst(v)' => /\ HoldsFirst(v)
                                            /\ attempt'[v] >= attempt[v]
                                            /\ pc'[v] \in Opening => pc[v] \in Opening
    BY <1>15 DEF Ack, Idle, Goto, HoldsFirst, TypeOK
  <2>3. QED
    BY <1>0, <1>15, <2>1, <2>2, CountKept DEF Ack
<1>16. ASSUME NEW w \in Worker, ChildLost(w) PROVE AttemptsCounted'
  <2>1. Submitted' = Submitted
    BY <1>16 DEF ChildLost, Submitted, clouds
  <2>2. \A v \in Worker : HoldsFirst(v)' => /\ HoldsFirst(v)
                                            /\ attempt'[v] >= attempt[v]
                                            /\ pc'[v] \in Opening => pc[v] \in Opening
    BY <1>16 DEF ChildLost, Idle, Goto, HoldsFirst, TypeOK
  <2>3. QED
    BY <1>0, <1>16, <2>1, <2>2, CountKept DEF ChildLost
<1>17. ASSUME NEW w \in Worker, NodeCrash(w) PROVE AttemptsCounted'
  <2> DEFINE n == Cardinality(Submitted)
             spent == RetryAttempts * crashes
  <2>1. /\ n \in Nat /\ IsFiniteSet(Submitted)
        /\ n <= spent + RetryAttempts
    BY FS_CardinalityType DEF AttemptsCounted
  <2>2. n' = n /\ Submitted' = Submitted
    BY <1>17 DEF NodeCrash, Submitted, clouds
  <2>3. spent' = spent + RetryAttempts /\ spent \in Nat /\ RetryAttempts \in Nat
    <3>1. crashes' = 1 + crashes
      BY <1>17, Counts DEF NodeCrash
    <3>2. QED
      BY <3>1, Counts
  <2>4. \A v \in Worker : attempt'[v] \in Nat /\ attempt'[v] > 0
    BY <1>0 DEF TypeOK
  <2> HIDE DEF n, spent
  <2>5. n' <= spent' /\ n' \in Nat /\ spent' \in Nat
    BY <2>1, <2>2, <2>3
  <2>6. /\ n' <= spent' + RetryAttempts
        /\ \A v \in Worker : n' < spent' + attempt'[v]
    BY <2>3, <2>4, <2>5
  <2>7. QED
    BY <2>1, <2>2, <2>4, <2>5, <2>6 DEF AttemptsCounted, n, spent
<1>18. ASSUME NEW w \in Worker, NEW m \in Message, Deliver(w, m) PROVE AttemptsCounted'
  <2> DEFINE n == Cardinality(Submitted)
             spent == RetryAttempts * crashes
  <2>1. Submitted' = Submitted /\ n' = n /\ spent' = spent
    BY <1>18 DEF Deliver, Submitted, clouds
  <2>2. /\ spent \in Nat /\ n \in Nat
        /\ IsFiniteSet(Submitted)
        /\ n <= spent + RetryAttempts
        /\ queue[FreshMessage] > 0 => n <= spent
        /\ \A v \in Worker : HoldsFirst(v) =>
              n <= spent + attempt[v] /\ (pc[v] \in Opening => n < spent + attempt[v])
    BY Counts, FS_CardinalityType DEF AttemptsCounted
  <2>3. \A v \in Worker \ {w} :
          attempt'[v] = attempt[v] /\ pc'[v] = pc[v] /\ (HoldsFirst(v)' <=> HoldsFirst(v))
    BY <1>18 DEF Deliver, Goto, HoldsFirst, TypeOK
  <2>4. attempt'[w] = 1
    BY <1>18 DEF Deliver, TypeOK
  <2>5. queue'[FreshMessage] > 0 => queue[FreshMessage] > 0
    BY <1>0, <1>18 DEF Deliver, TypeOK
  <2>6. HoldsFirst(w)' => n <= spent
    <3>1. HoldsFirst(w)' => m.token = NoToken
      BY <1>18 DEF Deliver, HoldsFirst, TypeOK
    <3>2. QED
      BY <1>18, <2>2, <3>1 DEF Deliver, TokensKept
  <2> HIDE DEF n, spent
  <2>7. \A v \in Worker : HoldsFirst(v)' =>
          n <= spent + attempt'[v] /\ (pc'[v] \in Opening => n < spent + attempt'[v])
    BY <2>2, <2>3, <2>4, <2>6
  <2>8. QED
    BY <2>1, <2>2, <2>5, <2>7 DEF AttemptsCounted, n, spent
<1>19. ASSUME NEW w \in Worker, NEW c \in CloudId, SubmitAudio(w, c) PROVE AttemptsCounted'
  <2> DEFINE n == Cardinality(Submitted)
             spent == RetryAttempts * crashes
  <2>1. /\ spent \in Nat /\ n \in Nat /\ RetryAttempts \in Nat
        /\ IsFiniteSet(Submitted)
        /\ \A v \in Worker : HoldsFirst(v) /\ pc[v] \in Opening => n < spent + attempt[v]
    BY Counts, FS_CardinalityType DEF AttemptsCounted
  <2>2. HoldsFirst(w) /\ pc[w] \in Opening
    BY <1>19 DEF SubmitAudio, TokensKept, HoldsFirst, Opening
  <2>3. queue'[FreshMessage] = 0 /\ \A v \in Worker \ {w} : ~HoldsFirst(v)'
    BY <1>19, <2>2 DEF SubmitAudio, SoftFailure, Goto, FirstOnce, HoldsFirst, TypeOK
  <2>4. Submitted' = Submitted \cup {c} /\ c \notin Submitted
    BY <1>19 DEF SubmitAudio, Submitted, TypeOK
  <2>5. IsFiniteSet(Submitted') /\ n' = n + 1
    BY <2>1, <2>4, FS_AddElement
  <2>6. spent' = spent
    BY <1>19 DEF SubmitAudio
  <2>7. /\ attempt[w] \in Nat /\ attempt'[w] \in Nat
        /\ attempt[w] <= RetryAttempts
        /\ attempt'[w] >= attempt[w]
        /\ pc'[w] \in Opening => attempt'[w] > attempt[w]
    BY <1>0, <1>19 DEF SubmitAudio, SoftFailure, Goto, TypeOK, Opening
  <2> HIDE DEF n, spent
  <2>8. /\ n' <= spent' + RetryAttempts
        /\ n' <= spent' + attempt'[w]
        /\ pc'[w] \in Opening => n' < spent' + attempt'[w]
    BY <2>1, <2>2, <2>5, <2>6, <2>7
  <2>9. QED
    BY <2>3, <2>5, <2>8 DEF AttemptsCounted, n, spent
<1>20. ASSUME NEW c \in CloudId, CloudSettle(c) PROVE AttemptsCounted'
  <2>1. Submitted' = Submitted
    BY <1>20 DEF CloudSettle, Submitted, TypeOK
  <2>2. \A w \in Worker : attempt'[w] >= attempt[w] /\ (HoldsFirst(w)' <=> HoldsFirst(w))
    BY <1>20 DEF CloudSettle, process, HoldsFirst, TypeOK
  <2>3. QED
    BY <1>0, <1>20, <2>1, <2>2, CountKept DEF CloudSettle, process
<1>21. ASSUME NEW c \in CloudId, FireWebhook(c) PROVE AttemptsCounted'
  <2>1. Submitted' = Submitted
    BY <1>21 DEF FireWebhook, Submitted
  <2>2. queue'[FreshMessage] = queue[FreshMessage]
    BY <1>0, <1>21 DEF FireWebhook, Publish, TypeOK
  <2>3. \A w \in Worker : attempt'[w] >= attempt[w] /\ (HoldsFirst(w)' <=> HoldsFirst(w))
    BY <1>21 DEF FireWebhook, process, HoldsFirst, TypeOK
  <2>4. QED
    BY <1>0, <1>21, <2>1, <2>2, <2>3, CountKept DEF FireWebhook, process
<1>22. CASE UNCHANGED vars
  <2>1. Submitted' = Submitted
    BY <1>22 DEF vars, clouds, Submitted
  <2>2. \A w \in Worker : attempt'[w] >= attempt[w] /\ (HoldsFirst(w)' <=> HoldsFirst(w))
    BY <1>22 DEF vars, process, HoldsFirst, TypeOK
  <2>3. QED
    BY <1>0, <1>22, <2>1, <2>2, CountKept DEF vars, process
<1>23. QED
  BY <1>1, <1>2, <1>3, <1>4, <1>5, <1>6, <1>7, <1>8, <1>9, <1>10, <1>11, <1>12, <1>13,
    <1>14, <1>15, <1>16, <1>17, <1>18, <1>19, <1>20, <1>21, <1>22
  DEF Next, Task, Pipeline

LEMMA RunsInit == Init => TokensKept /\ FirstOnce /\ AttemptsCounted /\ RunsAlone
<1> SUFFICES ASSUME Init PROVE TokensKept /\ FirstOnce /\ AttemptsCounted /\ RunsAlone
  OBVIOUS
<1>1. FreshMessage \in Message /\ FreshMessage.token = NoToken
  BY FreshType DEF FreshMessage
<1>2. TokensKept /\ FirstOnce
  BY <1>1 DEF Init, TokensKept, FirstOnce, HoldsFirst
<1>3. RunsAlone
  BY <1>1 DEF Init, RunsAlone, Running, Timed
<1>4. AttemptsCounted
  <2>1. Submitted = {} /\ IsFiniteSet(Submitted) /\ Cardinality(Submitted) = 0
    BY FS_EmptySet DEF Init, Submitted
  <2>2. RetryAttempts * crashes \in Nat /\ RetryAttempts \in Nat
    BY TypeInit, Counts
  <2>3. \A w \in Worker : ~HoldsFirst(w)
    BY DEF Init, HoldsFirst
  <2>4. QED
    BY <2>1, <2>2, <2>3 DEF AttemptsCounted
<1>5. QED
  BY <1>2, <1>3, <1>4

-----------------------------------------------------------------------------
(* The lifecycle the backend is promised. *)

\* Each lifecycle call a step makes is one the promise allows.
LEMMA LifecycleStep ==
    TypeOK /\ PhasesReported /\ [Next]_vars => [Lifecycle!Next]_(Lifecycle!vars)
<1> SUFFICES ASSUME TypeOK, PhasesReported, [Next]_vars
             PROVE  [Lifecycle!Next]_(Lifecycle!vars)
  OBVIOUS
<1> USE DEF Lifecycle!Next, Lifecycle!vars, Lifecycle!Advance, Lifecycle!Store,
            Lifecycle!Complete, Lifecycle!Fail
<1>1. CASE UNCHANGED backend
  BY <1>1 DEF backend
<1>2. ASSUME NEW w \in Worker, AdvanceJob(w)
      PROVE  [Lifecycle!Next]_(Lifecycle!vars)
  BY <1>2 DEF AdvanceJob, PhasesReported
<1>3. ASSUME NEW w \in Worker, StoreTranscript(w)
      PROVE  [Lifecycle!Next]_(Lifecycle!vars)
  BY <1>3 DEF StoreTranscript, PhasesReported, Running, TypeOK
<1>4. ASSUME NEW w \in Worker, CompleteJob(w)
      PROVE  [Lifecycle!Next]_(Lifecycle!vars)
  BY <1>4 DEF CompleteJob, PhasesReported, Running
<1>5. ASSUME NEW w \in Worker, FailJob(w)
      PROVE  [Lifecycle!Next]_(Lifecycle!vars)
  BY <1>5 DEF FailJob
<1>6. ASSUME ~UNCHANGED backend
      PROVE  \E w \in Worker : \/ AdvanceJob(w)
                                \/ StoreTranscript(w)
                                \/ CompleteJob(w)
                                \/ FailJob(w)
  BY <1>6 DEF Next, Task, Pipeline, vars, Deliver, DecidePending, Retry, Ack,
    LoadJob, LookupCache, FetchMedia, TryCaptions, TranscribeNow, SubmitNothing,
    SubmitAudio, PollJob, Timeout, ChildLost, NodeCrash, CloudSettle, FireWebhook
<1>7. QED
  BY <1>1, <1>2, <1>3, <1>4, <1>5, <1>6

\* The inductive invariant as a whole: in every reachable state an unfinished
\* job is carried, messages are within the budget, a pending job is served
\* once, and the phases of a run follow what it has reported.
THEOREM JobInvariant == Spec => []JobInv
<1>1. Init => JobInv
  BY CarriedInit, BudgetInit, ReportInit, RunsInit DEF JobInv
<1>2. TypeOK /\ JobInv /\ [Next]_vars => JobInv'
  BY CarriedStep, BudgetStep, ReportStep, TokensStep, FirstStep, AttemptsStep, RunsStep
  DEF JobInv
<1>3. QED
  BY <1>1, <1>2, TypeCorrect, PTL DEF Spec

\* However often its messages are retried, resumed or redelivered, a job makes
\* no more cloud jobs than the attempts of its first message allow, once for
\* that message and once for each crash.
THEOREM SubmissionsBounded == Spec => []BoundedSubmissions
<1>1. TypeOK /\ JobInv => BoundedSubmissions
  BY Counts DEF JobInv, AttemptsCounted, BoundedSubmissions
<1>2. QED
  BY <1>1, TypeCorrect, JobInvariant, PTL

\* What a step does to a completed job.
LEMMA CompletionStep ==
    ASSUME TypeOK, RunsAlone, [Next]_vars, status = "completed", status' # "completed"
    PROVE  webhook \/ crashes > 0 \/ "answer_lost" \in mishaps
<1>1. \E w \in Worker : AdvanceJob(w) \/ CompleteJob(w) \/ FailJob(w)
  BY DEF Next, Task, Pipeline, vars, backend, Deliver, DecidePending, Retry, Ack,
    LoadJob, LookupCache, FetchMedia, TryCaptions, TranscribeNow, SubmitNothing,
    SubmitAudio, PollJob, StoreTranscript, Timeout, ChildLost, NodeCrash, CloudSettle,
    FireWebhook
<1>2. PICK w \in Worker : pc[w] \in Running
  BY <1>1 DEF AdvanceJob, CompleteJob, FailJob, Running
<1>3. crashes = 0 \/ crashes > 0
  BY DEF TypeOK
<1>4. QED
  BY <1>2, <1>3 DEF RunsAlone

\* Without webhooks, crashes and lost answers nobody takes a completion back.
THEOREM CompletionStays == Spec => CompletedStays
<1>1. TypeOK /\ JobInv /\ [Next]_vars =>
        [ status = "completed" /\ status' # "completed" =>
            webhook \/ crashes > 0 \/ "answer_lost" \in mishaps ]_vars
  BY CompletionStep DEF JobInv
<1>2. QED
  BY <1>1, TypeCorrect, JobInvariant, PTL DEF Spec, CompletedStays

\* TranscriptionJob implements JobLifecycle: for any crashes, redeliveries and
\* late callbacks, a job is advanced once, never completed before its
\* transcript is stored, and never sent back to work after an end.
THEOREM ImplementsLifecycle == Spec => LifecycleSpec
<1>1. Init => Lifecycle!Init
  BY DEF Init, Lifecycle!Init
<1>2. QED
  BY <1>1, TypeCorrect, ReportInit, ReportStep, LifecycleStep, PTL
  DEF Spec, LifecycleSpec, Lifecycle!Spec

=============================================================================
