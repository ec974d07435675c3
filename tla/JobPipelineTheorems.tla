------------------------- MODULE JobPipelineTheorems -------------------------
(***************************************************************************)
(* Theorems about the job pipeline, for any number of jobs, tasks, results *)
(* and failures of every kind.  The second half is about what the liveness *)
(* properties rest on: that there is always somebody to go on with a job,  *)
(* except after failures that are listed.                                  *)
(***************************************************************************)
EXTENDS JobPipeline, RedisListTheorems

\* What a lost reply does is part of the steps it happens in.
USE DEF PublishFails, JobRemovalLost, CallbackRemovalLost

WFree == wpc \in {"down", "recover", "idle"}
CFree == cpc \in {"down", "recover", "idle"}
HoldsCopy == cpc \in {"store", "save", "announce", "fail"}

\* Types, strengthened: the queues are sorted, and a consumer that is at work has
\* the message, and beyond the lookup the job, it works on.
QueuesTyped ==
    /\ jobQ \in Sorted(Jobs, MaxAttempts)
    /\ cbQ \in Sorted(Callbacks, MaxAttempts)

SharedTyped ==
    /\ jobs \in [Jobs -> Rows]
    /\ tracks \in [Jobs -> SUBSET Audios]
    /\ events \in [Jobs -> Nat]
    /\ sjob \in Jobs \cup {NoJob}
    /\ sstatus \in Statuses \cup {"absent"}
    /\ pushed \in [Jobs -> Views]
    /\ api \in [Jobs -> {"new", "inserted", "undo", "done", "dead"}]
    /\ faults \in Nat

SunoTyped ==
    /\ suno \in [Tasks -> {"unused", "running", "done", "broken"}]
    /\ sent \in Nat
    /\ owner \in [Tasks -> Jobs \cup {NoJob}]
    /\ poll \in [Tasks -> {"off", "tick", "fetch"}]

WorkerTyped ==
    /\ wpc \in WorkerLabels
    /\ wmsg \in Fresh(Jobs, MaxAttempts) \cup {NoMsg}
    /\ ~WFree => wmsg \in Fresh(Jobs, MaxAttempts)
    /\ wrow \in Rows
    /\ wtask \in Tasks \cup {NoTask}

CallbackTyped ==
    /\ cpc \in CallbackLabels
    /\ cmsg \in Fresh(Callbacks, MaxAttempts) \cup {NoMsg}
    /\ ~CFree => cmsg \in Fresh(Callbacks, MaxAttempts)
    /\ cjob \in Jobs \cup {NoJob}
    /\ HoldsCopy => cjob \in Jobs
    /\ crow \in Rows
    /\ cleft \in SUBSET Audios

TypeInv == QueuesTyped /\ SharedTyped /\ SunoTyped /\ WorkerTyped /\ CallbackTyped

-----------------------------------------------------------------------------
\* The rows the operations make are rows.
LEMMA RowOperations ==
    /\ NoRow \in Rows /\ NewJob \in Rows
    /\ \A row \in Rows : MarkFailed(row) \in Rows /\ MarkReady(row) \in Rows
    /\ \A row \in Rows, t \in Tasks \cup {NoTask} : MarkProcessing(row, t) \in Rows
  BY DEF NoRow, NewJob, Rows, Statuses, MarkFailed, MarkReady, MarkProcessing

LEMMA FirstServing ==
    ASSUME NEW P, NEW p \in P
    PROVE  [payload |-> p, attempts |-> 0] \in Fresh(P, MaxAttempts)
  BY PipelineAssumption DEF Fresh

LEMMA TypeInit == Init => TypeInv
  <1> SUFFICES ASSUME Init PROVE TypeInv
    OBVIOUS
  <1>1. QueuesTyped
    BY EmptyIsSorted, PipelineAssumption DEF Init, QueuesTyped
  <1>2. SharedTyped
    BY RowOperations DEF Init, SharedTyped, NoView, Views
  <1>3. SunoTyped
    BY DEF Init, SunoTyped
  <1>4. WorkerTyped /\ CallbackTyped
    BY RowOperations DEF Init, WorkerTyped, CallbackTyped, WorkerLabels, CallbackLabels, WFree, CFree, HoldsCopy
  <1>5. QED
    BY <1>1, <1>2, <1>3, <1>4 DEF TypeInv

-----------------------------------------------------------------------------
\* The API process touches no consumer.
LEMMA ApiKeepsTypes ==
    ASSUME TypeInv,
           \/ ApiCrash
           \/ SubscriberStep
           \/ \E j \in Jobs : CreateJob(j)
    PROVE  TypeInv'
  <1> USE DEF dbVars, pushVars, apiVars, sunoVars, wVars, cVars, WriteRow, WriteRowFails, Fault, NoFault
  <1>1. UNCHANGED <<suno, sent, owner, poll, wVars, cVars, cbQ>>
    BY DEF ApiCrash, CreateJob, InsertJob, EnqueueJob, UndoCreate, SubscriberStep, ReadUpdatedJob, PushJob, TypeInv
  <1>2. SharedTyped'
    <2> USE DEF TypeInv, SharedTyped
    <2>1. CASE ApiCrash
      BY <2>1 DEF ApiCrash, SubscriberIdle
    <2>2. ASSUME NEW j \in Jobs, InsertJob(j) PROVE SharedTyped'
      BY <2>2, RowOperations DEF InsertJob
    <2>3. ASSUME NEW j \in Jobs, EnqueueJob(j) PROVE SharedTyped'
      BY <2>3 DEF EnqueueJob
    <2>4. ASSUME NEW j \in Jobs, UndoCreate(j) PROVE SharedTyped'
      BY <2>4, RowOperations DEF UndoCreate
    <2>5. ASSUME NEW j \in Jobs, ReadUpdatedJob(j) PROVE SharedTyped'
      BY <2>5 DEF ReadUpdatedJob, Rows
    <2>6. CASE PushJob
      <3>1. AttachTracks(sjob, sstatus) \in Views
        BY <2>6 DEF PushJob, AttachTracks, Views
      <3>2. QED
        BY <2>6, <3>1 DEF PushJob, SubscriberIdle
    <2>7. QED
      BY <2>1, <2>2, <2>3, <2>4, <2>5, <2>6 DEF CreateJob, SubscriberStep
  <1>3. jobQ' \in Sorted(Jobs, MaxAttempts)
    <2>1. \A j \in Jobs : PushMain(jobQ, [payload |-> j, attempts |-> 0]) \in Sorted(Jobs, MaxAttempts)
      BY CommandsKeepSorted, FirstServing, PipelineAssumption DEF TypeInv, QueuesTyped
    <2>2. QED
      BY <2>1 DEF ApiCrash, CreateJob, InsertJob, EnqueueJob, UndoCreate, SubscriberStep, ReadUpdatedJob, PushJob, TypeInv, QueuesTyped
  <1>4. QED
    BY <1>1, <1>2, <1>3 DEF TypeInv, QueuesTyped, SunoTyped, WorkerTyped, CallbackTyped, WFree, CFree, HoldsCopy

-----------------------------------------------------------------------------
\* What the job consumer does to its queue.
LEMMA JobQueueCommands ==
    ASSUME TypeInv
    PROVE  /\ jobQ.main # <<>> => /\ ReservedMessage(jobQ) \in Fresh(Jobs, MaxAttempts)
                                  /\ Reserve(jobQ) \in Sorted(Jobs, MaxAttempts)
           /\ jobQ.processing # <<>> => RecoverLast(jobQ) \in Sorted(Jobs, MaxAttempts)
           /\ RemoveReserved(jobQ, wmsg) \in Sorted(Jobs, MaxAttempts)
           /\ ~WFree => PushRetried(jobQ, wmsg, MaxAttempts) \in Sorted(Jobs, MaxAttempts)
  BY CommandsKeepSorted, RetryKeepsSorted, PipelineAssumption DEF TypeInv, QueuesTyped, WorkerTyped

LEMMA CallbackQueueCommands ==
    ASSUME TypeInv
    PROVE  /\ cbQ.main # <<>> => /\ ReservedMessage(cbQ) \in Fresh(Callbacks, MaxAttempts)
                                 /\ Reserve(cbQ) \in Sorted(Callbacks, MaxAttempts)
           /\ cbQ.processing # <<>> => RecoverLast(cbQ) \in Sorted(Callbacks, MaxAttempts)
           /\ RemoveReserved(cbQ, cmsg) \in Sorted(Callbacks, MaxAttempts)
           /\ ~CFree => PushRetried(cbQ, cmsg, MaxAttempts) \in Sorted(Callbacks, MaxAttempts)
           /\ \A t \in Tasks, type \in CallbackTypes :
                PushMain(cbQ, [payload |-> [task |-> t, type |-> type], attempts |-> 0])
                    \in Sorted(Callbacks, MaxAttempts)
  <1>1. \A t \in Tasks, type \in CallbackTypes :
            [payload |-> [task |-> t, type |-> type], attempts |-> 0] \in Fresh(Callbacks, MaxAttempts)
    BY FirstServing DEF Callbacks
  <1>2. QED
    BY <1>1, CommandsKeepSorted, RetryKeepsSorted, PipelineAssumption
       DEF TypeInv, QueuesTyped, CallbackTyped

LEMMA JobStepKeepsTypes ==
    ASSUME TypeInv, JobStep
    PROVE  TypeInv'
  <1> USE DEF dbVars, pushVars, apiVars, sunoVars, wVars, cVars, WriteRow, WriteRowFails, Fault, NoFault,
              WGoto, WIdle, Publish
  <1>1. UNCHANGED <<tracks, pushVars, api, sent, cbQ, cVars>>
    BY DEF JobStep, RecoverJobs, DequeueJob, LoadJob, GenerateMusic, StartTask, SaveProcessing,
           AnnounceProcessing, SaveRefused, AnnounceRefused, AckJob, RetryJob, RequeueJob,
           LoadExhausted, SaveExhausted, AnnounceExhausted
  <1>2. jobQ' \in Sorted(Jobs, MaxAttempts)
    BY JobQueueCommands
       DEF JobStep, RecoverJobs, DequeueJob, LoadJob, GenerateMusic, SaveProcessing,
           AnnounceProcessing, SaveRefused, AnnounceRefused, AckJob, RetryJob, RequeueJob,
           LoadExhausted, SaveExhausted, AnnounceExhausted, TypeInv, QueuesTyped, WFree
  <1>3. /\ jobs' \in [Jobs -> Rows]
        /\ events' \in [Jobs -> Nat]
        /\ faults' \in Nat
    BY RowOperations, SMTT(30)
       DEF JobStep, RecoverJobs, DequeueJob, LoadJob, GenerateMusic, SaveProcessing,
           AnnounceProcessing, SaveRefused, AnnounceRefused, AckJob, RetryJob, RequeueJob,
           LoadExhausted, SaveExhausted, AnnounceExhausted, TypeInv, SharedTyped, WorkerTyped
  <1>4. SunoTyped' /\ WorkerTyped'
    <2> USE DEF TypeInv, WorkerTyped, SunoTyped, WFree, WorkerLabels
    <2>1. CASE RecoverJobs
      BY <2>1, RowOperations DEF RecoverJobs
    <2>2. CASE DequeueJob
      BY <2>2, JobQueueCommands DEF DequeueJob
    <2>3. CASE LoadJob
      <3>1. jobs[theJob] \in Rows
        BY <2>3 DEF LoadJob, SharedTyped, theJob, Fresh
      <3>2. QED
        BY <2>3, <3>1 DEF LoadJob
    <2>4. CASE GenerateMusic
      <3>1. theJob \in Jobs
        BY <2>4 DEF GenerateMusic, theJob, Fresh
      <3>2. SunoTyped'
        BY <2>4, <3>1 DEF GenerateMusic, StartTask
      <3>3. WorkerTyped'
        BY <2>4 DEF GenerateMusic
      <3>4. QED
        BY <3>2, <3>3
    <2>5. CASE SaveProcessing
      BY <2>5 DEF SaveProcessing
    <2>6. CASE AnnounceProcessing
      BY <2>6 DEF AnnounceProcessing
    <2>7. CASE SaveRefused \/ AnnounceRefused
      BY <2>7 DEF SaveRefused, AnnounceRefused
    <2>8. CASE AckJob \/ RetryJob \/ RequeueJob
      BY <2>8, RowOperations DEF AckJob, RetryJob, RequeueJob
    <2>9. CASE LoadExhausted
      <3>1. jobs[theJob] \in Rows
        BY <2>9 DEF LoadExhausted, SharedTyped, theJob, Fresh
      <3>2. QED
        BY <2>9, <3>1, RowOperations DEF LoadExhausted
    <2>10. CASE SaveExhausted \/ AnnounceExhausted
      BY <2>10, RowOperations DEF SaveExhausted, AnnounceExhausted
    <2>11. QED
      BY <2>1, <2>2, <2>3, <2>4, <2>5, <2>6, <2>7, <2>8, <2>9, <2>10 DEF JobStep
  <1>5. QED
    BY <1>1, <1>2, <1>3, <1>4 DEF TypeInv, QueuesTyped, SharedTyped, CallbackTyped, CFree, HoldsCopy

-----------------------------------------------------------------------------
LEMMA CallbackStepKeepsTypes ==
    ASSUME TypeInv, CallbackStep
    PROVE  TypeInv'
  <1> USE DEF dbVars, pushVars, apiVars, sunoVars, wVars, cVars, WriteRow, WriteRowFails, Fault, NoFault,
              CGoto, CIdle, Publish
  <1>1. UNCHANGED <<pushVars, api, sunoVars, poll, jobQ, wVars>>
    BY DEF CallbackStep, RecoverCallbacks, DequeueCallback, LoadCallbackJob, StoreTrack,
           MarkCopyReady, SaveReady, AnnounceReady, SaveFailed, AckCallback, RetryCallback,
           RequeueCallback
  <1>2. cbQ' \in Sorted(Callbacks, MaxAttempts)
    BY CallbackQueueCommands
       DEF CallbackStep, RecoverCallbacks, DequeueCallback, LoadCallbackJob, StoreTrack,
           MarkCopyReady, SaveReady, AnnounceReady, SaveFailed, AckCallback, RetryCallback,
           RequeueCallback, TypeInv, QueuesTyped, CFree
  <1>3. /\ jobs' \in [Jobs -> Rows]
        /\ tracks' \in [Jobs -> SUBSET Audios]
        /\ events' \in [Jobs -> Nat]
        /\ faults' \in Nat
    BY RowOperations, SMTT(30)
       DEF CallbackStep, RecoverCallbacks, DequeueCallback, LoadCallbackJob, StoreTrack,
           MarkCopyReady, SaveReady, AnnounceReady, SaveFailed, AckCallback, RetryCallback,
           RequeueCallback, TypeInv, SharedTyped, CallbackTyped
  <1>4. CallbackTyped'
    <2> USE DEF TypeInv, CallbackTyped, CFree, HoldsCopy, CallbackLabels
    <2>1. CASE RecoverCallbacks
      BY <2>1, RowOperations DEF RecoverCallbacks
    <2>2. CASE DequeueCallback
      BY <2>2, CallbackQueueCommands DEF DequeueCallback
    <2>3. CASE LoadCallbackJob
      <3>1. cmsg.payload.type \in CallbackTypes
        BY <2>3 DEF LoadCallbackJob, Fresh, Callbacks
      <3>2. \A row \in Rows : HandleNext(cmsg.payload.type, row) \in {"ack", "store", "fail"}
        BY <3>1 DEF HandleNext, CallbackTypes
      <3>3. \A j \in JobsOfTask(cmsg.payload.task) : j \in Jobs /\ jobs[j] \in Rows
        BY DEF JobsOfTask, SharedTyped
      <3>4. QED
        BY <2>3, <3>2, <3>3 DEF LoadCallbackJob
    <2>4. CASE StoreTrack
      BY <2>4 DEF StoreTrack
    <2>5. CASE MarkCopyReady \/ SaveReady \/ AnnounceReady \/ SaveFailed
      BY <2>5 DEF MarkCopyReady, SaveReady, AnnounceReady, SaveFailed
    <2>6. CASE AckCallback \/ RetryCallback \/ RequeueCallback
      BY <2>6, RowOperations DEF AckCallback, RetryCallback, RequeueCallback
    <2>7. QED
      BY <2>1, <2>2, <2>3, <2>4, <2>5, <2>6 DEF CallbackStep
  <1>5. QED
    BY <1>1, <1>2, <1>3, <1>4 DEF TypeInv, QueuesTyped, SharedTyped, SunoTyped, WorkerTyped, WFree

-----------------------------------------------------------------------------
LEMMA OthersKeepTypes ==
    ASSUME TypeInv,
           \/ \E t \in Tasks : PollTick(t) \/ PollFetch(t) \/ PollTimeout(t)
           \/ \E t \in Tasks : SunoFinish(t) \/ SunoCallback(t)
           \/ WorkerCrash
           \/ WorkerRestart
    PROVE  TypeInv'
  <1> USE DEF dbVars, pushVars, apiVars, sunoVars, wVars, cVars, Fault, NoFault, WGoto, CGoto
  <1>1. ASSUME NEW t \in Tasks, PollTick(t) \/ PollTimeout(t) PROVE TypeInv'
    BY <1>1 DEF PollTick, PollTimeout, TypeInv, QueuesTyped, SharedTyped, SunoTyped, WorkerTyped,
                CallbackTyped, WFree, CFree, HoldsCopy
  <1>2. ASSUME NEW t \in Tasks, PollFetch(t) PROVE TypeInv'
    <2>1. \A state : DetailsCallbacks(state) \subseteq CallbackTypes
      BY DEF DetailsCallbacks, CallbackTypes
    <2>2. cbQ' \in Sorted(Callbacks, MaxAttempts)
      BY <1>2, <2>1, CallbackQueueCommands DEF PollFetch, TypeInv, QueuesTyped
    <2>3. QED
      BY <1>2, <2>2 DEF PollFetch, TypeInv, QueuesTyped, SharedTyped, SunoTyped, WorkerTyped,
                        CallbackTyped, WFree, CFree, HoldsCopy
  <1>3. ASSUME NEW t \in Tasks, SunoFinish(t) PROVE TypeInv'
    BY <1>3 DEF SunoFinish, TypeInv, QueuesTyped, SharedTyped, SunoTyped, WorkerTyped,
                CallbackTyped, WFree, CFree, HoldsCopy
  <1>4. ASSUME NEW t \in Tasks, SunoCallback(t) PROVE TypeInv'
    <2>1. \A state : SunoCallbackType(state) \in CallbackTypes
      BY DEF SunoCallbackType, CallbackTypes
    <2>2. cbQ' \in Sorted(Callbacks, MaxAttempts)
      BY <1>4, <2>1, CallbackQueueCommands DEF SunoCallback, ReceiveCallback
    <2>3. QED
      BY <1>4, <2>2 DEF SunoCallback, TypeInv, QueuesTyped, SharedTyped, SunoTyped, WorkerTyped,
                        CallbackTyped, WFree, CFree, HoldsCopy
  <1>5. CASE WorkerCrash
    BY <1>5, RowOperations
       DEF WorkerCrash, TypeInv, QueuesTyped, SharedTyped, SunoTyped, WorkerTyped, CallbackTyped,
           WorkerLabels, CallbackLabels, WFree, CFree, HoldsCopy
  <1>6. CASE WorkerRestart
    BY <1>6 DEF WorkerRestart, TypeInv, QueuesTyped, SharedTyped, SunoTyped, WorkerTyped,
                CallbackTyped, WorkerLabels, CallbackLabels, WFree, CFree, HoldsCopy
  <1>7. QED
    BY <1>1, <1>2, <1>3, <1>4, <1>5, <1>6

LEMMA TypeNext == TypeInv /\ [Next]_vars => TypeInv'
  <1> SUFFICES ASSUME TypeInv, [Next]_vars PROVE TypeInv'
    OBVIOUS
  <1>1. CASE UNCHANGED vars
    BY <1>1 DEF vars, TypeInv, QueuesTyped, SharedTyped, SunoTyped, WorkerTyped, CallbackTyped,
                WFree, CFree, HoldsCopy
  <1>2. QED
    BY <1>1, ApiKeepsTypes, JobStepKeepsTypes, CallbackStepKeepsTypes, OthersKeepTypes DEF Next

\* The pipeline keeps its types, whatever fails.
THEOREM PipelineTypeCorrect == Spec => []TypeOK
  <1>1. TypeInv => TypeOK
    <2>1. /\ Sorted(Jobs, MaxAttempts) \subseteq QueueOf(JobMessages)
          /\ Sorted(Callbacks, MaxAttempts) \subseteq QueueOf(CallbackMessages)
      BY SortedIsQueue, PipelineAssumption DEF JobMessages, CallbackMessages
    <2>2. \A P : Fresh(P, MaxAttempts) \subseteq [payload : P, attempts : 0..MaxAttempts]
      BY PipelineAssumption DEF Fresh
    <2>3. QED
      BY <2>1, <2>2 DEF TypeInv, QueuesTyped, SharedTyped, SunoTyped, WorkerTyped, CallbackTyped,
                        TypeOK, JobMessages, CallbackMessages
  <1>2. QED
    BY <1>1, TypeInit, TypeNext, PTL DEF Spec

-----------------------------------------------------------------------------
\* Ready means complete.  The callback consumer marks a copy ready only after every
\* result is stored, and the job consumer marks only a queued copy.
Stored ==
    /\ ReadyHasTracks
    /\ wpc \in {"generate", "save"} => wrow.status = "queued"
    /\ cpc = "store" => Audios \ cleft \subseteq tracks[cjob]
    /\ cpc = "save" => tracks[cjob] = Audios

LEMMA StoredNext == TypeInv /\ Stored /\ [Next]_vars => Stored'
  <1> SUFFICES ASSUME TypeInv, Stored, [Next]_vars PROVE Stored'
    OBVIOUS
  <1> USE DEF dbVars, pushVars, apiVars, sunoVars, wVars, cVars, WriteRow, WriteRowFails, WGoto, WIdle, CGoto,
              CIdle, TypeInv, Stored, ReadyHasTracks
  <1>1. CASE UNCHANGED vars
    BY <1>1 DEF vars
  <1>2. ASSUME NEW j \in Jobs, CreateJob(j) PROVE Stored'
    BY <1>2 DEF CreateJob, InsertJob, EnqueueJob, UndoCreate, SharedTyped, NewJob, MarkFailed, theJob
  <1>3. CASE SubscriberStep
    BY <1>3 DEF SubscriberStep, ReadUpdatedJob, PushJob
  <1>4. CASE ApiCrash
    BY <1>4 DEF ApiCrash
  <1>5. CASE JobStep
    <2>1. CASE RecoverJobs \/ DequeueJob \/ AckJob \/ RetryJob \/ RequeueJob
      BY <2>1 DEF RecoverJobs, DequeueJob, AckJob, RetryJob, RequeueJob
    <2>2. CASE LoadJob \/ GenerateMusic \/ AnnounceProcessing \/ AnnounceRefused \/ LoadExhausted
               \/ AnnounceExhausted
      BY <2>2 DEF LoadJob, GenerateMusic, AnnounceProcessing, AnnounceRefused, LoadExhausted,
                  AnnounceExhausted
    <2>3. CASE SaveProcessing
      <3>1. MarkProcessing(wrow, wtask).status = "processing"
        BY <2>3 DEF SaveProcessing, MarkProcessing
      <3>2. QED
        BY <2>3, <3>1 DEF SaveProcessing, SharedTyped
    <2>4. CASE SaveRefused \/ SaveExhausted
      <3>1. MarkFailed(wrow).status = "failed"
        BY DEF MarkFailed, WorkerTyped, Rows
      <3>2. QED
        BY <2>4, <3>1 DEF SaveRefused, SaveExhausted, SharedTyped
    <2>5. QED
      BY <1>5, <2>1, <2>2, <2>3, <2>4 DEF JobStep
  <1>6. CASE CallbackStep
    <2>1. CASE RecoverCallbacks \/ DequeueCallback \/ AckCallback \/ RetryCallback \/ RequeueCallback
      BY <2>1 DEF RecoverCallbacks, DequeueCallback, AckCallback, RetryCallback, RequeueCallback
    <2>2. CASE LoadCallbackJob
      <3>1. cmsg.payload.type \in CallbackTypes
        BY <2>2 DEF LoadCallbackJob, CallbackTyped, CFree, Fresh, Callbacks
      <3>2. \A row \in Rows : HandleNext(cmsg.payload.type, row) # "save"
        BY <3>1 DEF HandleNext, CallbackTypes
      <3>3. \A j \in JobsOfTask(cmsg.payload.task) : jobs[j] \in Rows
        BY DEF JobsOfTask, SharedTyped
      <3>4. QED
        BY <2>2, <3>2, <3>3 DEF LoadCallbackJob
    <2>3. CASE StoreTrack
      <3>1. PICK a \in cleft :
                \/ tracks' = [tracks EXCEPT ![cjob] = @ \cup {a}] /\ cleft' = cleft \ {a} /\ cpc' = cpc
                \/ UNCHANGED tracks /\ cpc' = "retry"
        BY <2>3 DEF StoreTrack
      <3>2. cpc = "store" /\ cjob \in Jobs /\ a \in Audios /\ UNCHANGED <<jobs, wpc, wrow, cjob>>
        BY <2>3 DEF StoreTrack, CallbackTyped, HoldsCopy
      <3>3. tracks' \in [Jobs -> SUBSET Audios] /\ (\A j \in Jobs : tracks[j] \subseteq tracks'[j])
        BY <3>1, <3>2 DEF SharedTyped
      <3>4. ASSUME NEW j \in Jobs, jobs'[j].status = "ready" PROVE tracks'[j] = Audios
        <4>1. tracks[j] = Audios
          BY <3>2, <3>4
        <4>2. tracks[j] \subseteq tracks'[j] /\ tracks'[j] \subseteq Audios
          BY <3>3
        <4>3. QED
          BY <4>1, <4>2
      <3>5. cpc' = "store" => Audios \ cleft' \subseteq tracks'[cjob]
        BY <3>1, <3>2 DEF SharedTyped
      <3>6. QED
        BY <3>1, <3>2, <3>4, <3>5
    <2>4. CASE MarkCopyReady
      <3>1. tracks[cjob] = Audios
        BY <2>4 DEF MarkCopyReady, SharedTyped, CallbackTyped, HoldsCopy
      <3>2. QED
        BY <2>4, <3>1 DEF MarkCopyReady
    <2>5. CASE SaveReady
      BY <2>5 DEF SaveReady, SharedTyped
    <2>6. CASE AnnounceReady
      BY <2>6 DEF AnnounceReady
    <2>7. CASE SaveFailed
      <3>1. MarkFailed(crow).status = "failed"
        BY DEF MarkFailed, CallbackTyped, Rows
      <3>2. QED
        BY <2>7, <3>1 DEF SaveFailed, SharedTyped
    <2>8. QED
      BY <1>6, <2>1, <2>2, <2>3, <2>4, <2>5, <2>6, <2>7 DEF CallbackStep
  <1>7. ASSUME NEW t \in Tasks, PollTick(t) \/ PollFetch(t) \/ PollTimeout(t) PROVE Stored'
    BY <1>7 DEF PollTick, PollFetch, PollTimeout
  <1>8. ASSUME NEW t \in Tasks, SunoFinish(t) \/ SunoCallback(t) PROVE Stored'
    BY <1>8 DEF SunoFinish, SunoCallback
  <1>9. CASE WorkerCrash \/ WorkerRestart
    BY <1>9 DEF WorkerCrash, WorkerRestart
  <1>10. QED
    BY <1>1, <1>2, <1>3, <1>4, <1>5, <1>6, <1>7, <1>8, <1>9 DEF Next

\* Whatever fails, is retried or handled twice: a ready job has all of its results.
THEOREM ReadyIsComplete == Spec => []ReadyHasTracks
  <1>1. Init => Stored
    BY DEF Init, Stored, ReadyHasTracks, NoRow
  <1>2. Stored => ReadyHasTracks
    BY DEF Stored
  <1>3. QED
    BY <1>1, <1>2, TypeInit, TypeNext, StoredNext, PTL DEF Spec

-----------------------------------------------------------------------------
\* What is pushed as ready was read from a ready row, and tracks are only added.
ViewsComplete ==
    /\ PushIsComplete
    /\ sjob # NoJob /\ sstatus = "ready" => tracks[sjob] = Audios

LEMMA TracksGrow ==
    ASSUME TypeInv, [Next]_vars, NEW j \in Jobs
    PROVE  tracks[j] \subseteq tracks'[j]
  <1>1. CASE StoreTrack
    BY <1>1 DEF StoreTrack, TypeInv, SharedTyped
  <1>2. CASE UNCHANGED tracks
    BY <1>2
  <1>3. QED
    BY <1>1, <1>2
       DEF Next, vars, CreateJob, InsertJob, EnqueueJob, UndoCreate, SubscriberStep, ReadUpdatedJob,
           PushJob, ApiCrash, JobStep, RecoverJobs, DequeueJob, LoadJob, GenerateMusic, SaveProcessing,
           AnnounceProcessing, SaveRefused, AnnounceRefused, AckJob, RetryJob, RequeueJob,
           LoadExhausted, SaveExhausted, AnnounceExhausted, CallbackStep, RecoverCallbacks,
           DequeueCallback, LoadCallbackJob, MarkCopyReady, SaveReady, AnnounceReady, SaveFailed,
           AckCallback, RetryCallback, RequeueCallback, PollTick, PollFetch, PollTimeout, SunoFinish,
           SunoCallback, WorkerCrash, WorkerRestart, dbVars

\* The steps that leave the subscriber and what it has pushed alone.
LEMMA SubscriberMoves ==
    ASSUME [Next]_vars
    PROVE  \/ UNCHANGED <<sjob, sstatus, pushed>>
           \/ sjob' = NoJob /\ UNCHANGED pushed
           \/ \E j \in Jobs : ReadUpdatedJob(j)
           \/ PushJob
  BY DEF Next, vars, CreateJob, InsertJob, EnqueueJob, UndoCreate, SubscriberStep, SubscriberIdle,
         ApiCrash, JobStep, RecoverJobs, DequeueJob, LoadJob, GenerateMusic, SaveProcessing,
         AnnounceProcessing, SaveRefused, AnnounceRefused, AckJob, RetryJob, RequeueJob,
         LoadExhausted, SaveExhausted, AnnounceExhausted, CallbackStep, RecoverCallbacks,
         DequeueCallback, LoadCallbackJob, StoreTrack, MarkCopyReady, SaveReady, AnnounceReady,
         SaveFailed, AckCallback, RetryCallback, RequeueCallback, PollTick, PollFetch, PollTimeout,
         SunoFinish, SunoCallback, WorkerCrash, WorkerRestart, apiVars, pushVars

LEMMA ViewsCompleteNext ==
    ASSUME TypeInv, TypeInv', ReadyHasTracks, ViewsComplete, [Next]_vars
    PROVE  ViewsComplete'
  <1> USE DEF ViewsComplete, PushIsComplete, TypeInv, SharedTyped
  <1>1. \A j \in Jobs : tracks[j] = Audios => tracks'[j] = Audios
    <2>1. \A j \in Jobs : tracks[j] \subseteq tracks'[j]
      BY TracksGrow
    <2>2. \A j \in Jobs : tracks'[j] \in SUBSET Audios
      BY DEF TypeInv, SharedTyped
    <2>3. QED
      BY <2>1, <2>2
  <1>2. CASE UNCHANGED <<sjob, sstatus, pushed>>
    BY <1>1, <1>2
  <1>3. CASE sjob' = NoJob /\ UNCHANGED pushed
    BY <1>3
  <1>4. ASSUME NEW j \in Jobs, ReadUpdatedJob(j) PROVE ViewsComplete'
    BY <1>1, <1>4 DEF ReadUpdatedJob, ReadyHasTracks, dbVars
  <1>5. CASE PushJob
    BY <1>5 DEF PushJob, AttachTracks, SubscriberIdle, dbVars
  <1>6. QED
    BY <1>2, <1>3, <1>4, <1>5, SubscriberMoves

\* Whoever is told that a job is ready is told of all of its results, whatever fails.
THEOREM PushedReadyIsComplete == Spec => []PushIsComplete
  <1>1. Init => Stored /\ ViewsComplete
    BY DEF Init, Stored, ReadyHasTracks, NoRow, ViewsComplete, PushIsComplete, NoView
  <1>2. Stored => ReadyHasTracks
    BY DEF Stored
  <1>3. ViewsComplete => PushIsComplete
    BY DEF ViewsComplete
  <1>4. QED
    BY <1>1, <1>2, <1>3, TypeInit, TypeNext, StoredNext, ViewsCompleteNext, PTL DEF Spec

-----------------------------------------------------------------------------
\* Paid once.  A row that is still queued has never been bound to a task, and while
\* the job consumer asks Suno for a job, nobody holds a copy of its row that could
\* bind it.
Unbound ==
    /\ \A j \in Jobs : api[j] = "new" => jobs[j].status = "absent"
    /\ \A j \in Jobs : jobs[j].status \in {"absent", "queued"} => jobs[j].task = NoTask
    /\ HoldsCopy => jobs[cjob].status \notin {"absent", "queued"}
    /\ wpc \in {"generate", "save", "refuse", "bury"} => jobs[theJob].status # "absent"
    /\ wpc \in {"generate", "save"} =>
          /\ wrow.status = "queued"
          /\ jobs[theJob].task = NoTask
          /\ HoldsCopy => cjob # theJob

\* A statement that writes a row, and fails or not, leaves the other rows alone.
LEMMA RowWritten ==
    ASSUME jobs \in [Jobs -> Rows], NEW j \in Jobs, NEW row,
           \/ WriteRow(j, row)
           \/ WriteRowFails(j, row)
    PROVE  /\ \A k \in Jobs : k # j => jobs'[k] = jobs[k]
           /\ jobs'[j] \in {jobs[j], row}
  BY DEF WriteRow, WriteRowFails

LEMMA UnboundNext == TypeInv /\ Unbound /\ [Next]_vars => Unbound'
  <1> SUFFICES ASSUME TypeInv, Unbound, [Next]_vars PROVE Unbound'
    OBVIOUS
  <1> USE DEF dbVars, pushVars, apiVars, sunoVars, wVars, cVars, WriteRow, WriteRowFails, WGoto, WIdle, CGoto,
              CIdle, TypeInv, Unbound, HoldsCopy, theJob
  <1>1. CASE UNCHANGED vars
    BY <1>1 DEF vars
  <1>2. ASSUME NEW j \in Jobs, CreateJob(j) PROVE Unbound'
    <2>1. CASE InsertJob(j)
      <3>1. /\ \A k \in Jobs : k # j => jobs'[k] = jobs[k] /\ (api'[k] = "new" => api[k] = "new")
            /\ jobs'[j] \in {jobs[j], NewJob}
            /\ jobs[j].status = "absent" /\ api'[j] # "new"
        BY <2>1, RowWritten DEF InsertJob, SharedTyped
      <3>2. UNCHANGED <<wVars, cVars>>
        BY <2>1 DEF InsertJob
      <3>3. NewJob.status = "queued" /\ NewJob.task = NoTask
        BY DEF NewJob
      <3>4. wpc \in {"generate", "save", "refuse", "bury"} => theJob \in Jobs
        BY DEF WorkerTyped, WFree, Fresh
      <3>5. HoldsCopy => cjob \in Jobs
        BY DEF CallbackTyped
      <3>6. QED
        BY <3>1, <3>2, <3>3, <3>4, <3>5
    <2>2. CASE EnqueueJob(j)
      BY <2>2 DEF EnqueueJob, SharedTyped
    <2>3. CASE UndoCreate(j)
      <3>1. /\ \A k \in Jobs : k # j => jobs'[k] = jobs[k] /\ (api'[k] = "new" => api[k] = "new")
            /\ jobs'[j] \in {jobs[j], MarkFailed(NewJob)}
            /\ api'[j] # "new"
        BY <2>3, RowWritten DEF UndoCreate, SharedTyped
      <3>2. UNCHANGED <<wVars, cVars>>
        BY <2>3 DEF UndoCreate
      <3>3. MarkFailed(NewJob).status = "failed" /\ MarkFailed(NewJob).task = NoTask
        BY DEF NewJob, MarkFailed
      <3>4. wpc \in {"generate", "save", "refuse", "bury"} => theJob \in Jobs
        BY DEF WorkerTyped, WFree, Fresh
      <3>5. HoldsCopy => cjob \in Jobs
        BY DEF CallbackTyped
      <3>6. QED
        BY <3>1, <3>2, <3>3, <3>4, <3>5
    <2>4. QED
      BY <1>2, <2>1, <2>2, <2>3 DEF CreateJob
  <1>3. CASE SubscriberStep
    BY <1>3 DEF SubscriberStep, ReadUpdatedJob, PushJob
  <1>4. CASE ApiCrash
    BY <1>4 DEF ApiCrash, SharedTyped
  <1>5. CASE JobStep
    <2>1. CASE RecoverJobs \/ DequeueJob \/ AckJob \/ RetryJob \/ RequeueJob
      BY <2>1 DEF RecoverJobs, DequeueJob, AckJob, RetryJob, RequeueJob
    <2>2. CASE LoadJob
      BY <2>2 DEF LoadJob, WorkerTyped, WFree, Fresh
    <2>3. CASE GenerateMusic \/ AnnounceProcessing \/ AnnounceRefused \/ LoadExhausted
               \/ AnnounceExhausted
      BY <2>3 DEF GenerateMusic, AnnounceProcessing, AnnounceRefused, LoadExhausted, AnnounceExhausted,
                  MayMarkFailed
    <2>4. CASE SaveProcessing
      <3>1. MarkProcessing(wrow, wtask).status = "processing"
        BY <2>4 DEF SaveProcessing, MarkProcessing
      <3>2. theJob \in Jobs /\ UNCHANGED <<api, cVars, wmsg>> /\ wpc' \in {"announce", "retry"}
        BY <2>4 DEF SaveProcessing, WorkerTyped, WFree, Fresh
      <3>3. /\ \A k \in Jobs : k # theJob => jobs'[k] = jobs[k]
            /\ jobs'[theJob] \in {jobs[theJob], MarkProcessing(wrow, wtask)}
            /\ jobs[theJob].status # "absent"
        BY <2>4, <3>2, RowWritten DEF SaveProcessing, SharedTyped
      <3>4. QED
        BY <3>1, <3>2, <3>3 DEF CallbackTyped
    <2>5. CASE SaveRefused \/ SaveExhausted
      <3>1. MarkFailed(wrow).status = "failed"
        BY DEF MarkFailed, WorkerTyped, Rows
      <3>2. /\ theJob \in Jobs /\ UNCHANGED <<api, cVars>>
            /\ wpc' \in {"announceRefusal", "announceBurial", "retry", "idle"}
        BY <2>5 DEF SaveRefused, SaveExhausted, WorkerTyped, WFree, Fresh
      <3>3. /\ \A k \in Jobs : k # theJob => jobs'[k] = jobs[k]
            /\ jobs'[theJob] \in {jobs[theJob], MarkFailed(wrow)}
            /\ jobs[theJob].status # "absent"
        BY <2>5, <3>2, RowWritten DEF SaveRefused, SaveExhausted, SharedTyped
      <3>4. QED
        BY <3>1, <3>2, <3>3 DEF CallbackTyped
    <2>6. QED
      BY <1>5, <2>1, <2>2, <2>3, <2>4, <2>5 DEF JobStep
  <1>6. CASE CallbackStep
    <2>1. CASE RecoverCallbacks \/ DequeueCallback \/ AckCallback \/ RetryCallback \/ RequeueCallback
      BY <2>1 DEF RecoverCallbacks, DequeueCallback, AckCallback, RetryCallback, RequeueCallback
    <2>2. CASE LoadCallbackJob
      <3>1. cmsg.payload.task \in Tasks /\ NoTask \notin Tasks
        BY <2>2, PipelineAssumption DEF LoadCallbackJob, CallbackTyped, CFree, Fresh, Callbacks
      <3>2. QED
        BY <2>2, <3>1 DEF LoadCallbackJob, JobsOfTask
    <2>3. CASE StoreTrack \/ MarkCopyReady \/ AnnounceReady
      BY <2>3 DEF StoreTrack, MarkCopyReady, AnnounceReady
    <2>4. CASE SaveReady
      <3>1. MarkReady(crow).status = "ready"
        BY DEF MarkReady, CallbackTyped, Rows
      <3>2. /\ cjob \in Jobs /\ HoldsCopy /\ UNCHANGED <<api, wVars, cjob>>
        BY <2>4 DEF SaveReady, CallbackTyped
      <3>3. /\ \A k \in Jobs : k # cjob => jobs'[k] = jobs[k]
            /\ jobs'[cjob] \in {jobs[cjob], MarkReady(crow)}
        BY <2>4, <3>2, RowWritten DEF SaveReady, SharedTyped
      <3>4. wpc \in {"generate", "save", "refuse", "bury"} => theJob \in Jobs
        BY DEF WorkerTyped, WFree, Fresh
      <3>5. QED
        BY <3>1, <3>2, <3>3, <3>4
    <2>5. CASE SaveFailed
      <3>1. MarkFailed(crow).status = "failed"
        BY DEF MarkFailed, CallbackTyped, Rows
      <3>2. /\ cjob \in Jobs /\ HoldsCopy /\ UNCHANGED <<api, wVars, cjob>>
        BY <2>5 DEF SaveFailed, CallbackTyped
      <3>3. /\ \A k \in Jobs : k # cjob => jobs'[k] = jobs[k]
            /\ jobs'[cjob] \in {jobs[cjob], MarkFailed(crow)}
        BY <2>5, <3>2, RowWritten DEF SaveFailed, SharedTyped
      <3>4. wpc \in {"generate", "save", "refuse", "bury"} => theJob \in Jobs
        BY DEF WorkerTyped, WFree, Fresh
      <3>5. QED
        BY <3>1, <3>2, <3>3, <3>4
    <2>6. QED
      BY <1>6, <2>1, <2>2, <2>3, <2>4, <2>5 DEF CallbackStep
  <1>7. ASSUME NEW t \in Tasks, PollTick(t) \/ PollFetch(t) \/ PollTimeout(t) PROVE Unbound'
    BY <1>7 DEF PollTick, PollFetch, PollTimeout
  <1>8. ASSUME NEW t \in Tasks, SunoFinish(t) \/ SunoCallback(t) PROVE Unbound'
    BY <1>8 DEF SunoFinish, SunoCallback
  <1>9. CASE WorkerCrash \/ WorkerRestart
    BY <1>9 DEF WorkerCrash, WorkerRestart
  <1>10. QED
    BY <1>1, <1>2, <1>3, <1>4, <1>5, <1>6, <1>7, <1>8, <1>9 DEF Next

\* A job whose row carries a task is never given to Suno again.
THEOREM GeneratedOnce == Spec => GenerateOnce
  <1> DEFINE Once == \A t \in Tasks : owner'[t] # owner[t] => jobs[owner'[t]].task = NoTask
  <1>1. Init => Unbound
    BY DEF Init, Unbound, NoRow, HoldsCopy
  <1>2. TypeInv /\ Unbound /\ [Next]_vars => [Once]_vars
    <2> SUFFICES ASSUME TypeInv, Unbound, Next PROVE Once
      BY DEF vars
    <2>1. CASE GenerateMusic
      BY <2>1 DEF GenerateMusic, StartTask, sunoVars, Unbound, TypeInv, SunoTyped
    <2>2. CASE UNCHANGED owner
      BY <2>2
    <2>3. QED
      BY <2>1, <2>2
         DEF Next, CreateJob, InsertJob, EnqueueJob, UndoCreate, SubscriberStep, ReadUpdatedJob, PushJob, ApiCrash, JobStep,
             RecoverJobs, DequeueJob, LoadJob, SaveProcessing, AnnounceProcessing, SaveRefused,
             AnnounceRefused, AckJob, RetryJob, RequeueJob, LoadExhausted, SaveExhausted,
             AnnounceExhausted, CallbackStep, RecoverCallbacks, DequeueCallback, LoadCallbackJob,
             StoreTrack, MarkCopyReady, SaveReady, AnnounceReady, SaveFailed, AckCallback,
             RetryCallback, RequeueCallback, PollTick, PollFetch, PollTimeout, SunoFinish,
             SunoCallback, WorkerCrash, WorkerRestart, sunoVars
  <1>3. QED
    BY <1>1, <1>2, TypeInit, TypeNext, UnboundNext, PTL DEF Spec, GenerateOnce

-----------------------------------------------------------------------------
\* One task, one job.  A row and every copy of it carry, if any, a task that Suno
\* started for this very job.
Carries(row, j) ==
    row.task # NoTask => suno[row.task] # "unused" /\ owner[row.task] = j

\* What the row carries, it carries after the step.
StillCarries(row, j) ==
    row.task # NoTask => suno'[row.task] # "unused" /\ owner'[row.task] = j

Owned ==
    /\ \A j \in Jobs : Carries(jobs[j], j)
    /\ wpc \in {"generate", "save", "refuse", "bury"} => Carries(wrow, theJob)
    /\ wpc = "save" => wtask \in Tasks /\ suno[wtask] # "unused" /\ owner[wtask] = theJob
    /\ HoldsCopy => Carries(crow, cjob)

\* A task that was started is never started again.
LEMMA StartedTaskStays ==
    ASSUME TypeInv, Next, NEW t \in Tasks, suno[t] # "unused"
    PROVE  suno'[t] # "unused" /\ owner'[t] = owner[t]
  <1>1. CASE GenerateMusic
    BY <1>1 DEF GenerateMusic, StartTask, sunoVars, TypeInv, SunoTyped
  <1>2. ASSUME NEW u \in Tasks, SunoFinish(u) PROVE suno'[t] # "unused" /\ owner'[t] = owner[t]
    BY <1>2 DEF SunoFinish, TypeInv, SunoTyped
  <1>3. CASE UNCHANGED <<suno, owner>>
    BY <1>3
  <1>4. QED
    BY <1>1, <1>2, <1>3
       DEF Next, CreateJob, InsertJob, EnqueueJob, UndoCreate, SubscriberStep, ReadUpdatedJob, PushJob, ApiCrash, JobStep,
           RecoverJobs, DequeueJob, LoadJob, SaveProcessing, AnnounceProcessing, SaveRefused,
           AnnounceRefused, AckJob, RetryJob, RequeueJob, LoadExhausted, SaveExhausted,
           AnnounceExhausted, CallbackStep, RecoverCallbacks, DequeueCallback, LoadCallbackJob,
           StoreTrack, MarkCopyReady, SaveReady, AnnounceReady, SaveFailed, AckCallback,
           RetryCallback, RequeueCallback, PollTick, PollFetch, PollTimeout,
           SunoCallback, WorkerCrash, WorkerRestart, sunoVars

\* So what a row carries, it goes on to carry.
LEMMA CarriedStays ==
    ASSUME TypeInv, Next, NEW row \in Rows, NEW j \in Jobs, Carries(row, j)
    PROVE  StillCarries(row, j)
  <1>1. row.task \in Tasks \cup {NoTask}
    BY DEF Rows
  <1>2. QED
    BY <1>1, StartedTaskStays DEF Carries, StillCarries

\* Marking a copy ready or failed leaves its task alone.
LEMMA MarkedCarries ==
    ASSUME NEW row \in Rows, NEW j, Carries(row, j)
    PROVE  Carries(MarkReady(row), j) /\ Carries(MarkFailed(row), j) /\ Carries(NewJob, j)
  BY DEF Carries, MarkReady, MarkFailed, NewJob, Rows

LEMMA OwnedNext == TypeInv /\ Owned /\ [Next]_vars => Owned'
  <1> SUFFICES ASSUME TypeInv, Owned, [Next]_vars PROVE Owned'
    OBVIOUS
  <1>1. CASE UNCHANGED vars
    BY <1>1 DEF vars, Owned, Carries, HoldsCopy, theJob
  <1>a. SUFFICES ASSUME Next PROVE Owned'
    BY <1>1, <1>a
  <1> DEFINE Kept(row, j) == row \in Rows /\ Carries(row, j)
  <1>2. wpc \in {"load", "generate", "save", "refuse", "exhaust", "bury"} => theJob \in Jobs
    BY DEF TypeInv, WorkerTyped, WFree, Fresh, theJob
  <1>3. HoldsCopy => cjob \in Jobs
    BY DEF TypeInv, CallbackTyped
  <1>4. \A row, j : j \in Jobs /\ Kept(row, j) => StillCarries(row, j)
    BY <1>a, CarriedStays DEF Kept
  <1>5. \A j \in Jobs : Kept(jobs[j], j)
    BY DEF Owned, TypeInv, SharedTyped, Kept
  <1>6. wpc \in {"generate", "save", "refuse", "bury"} => Kept(wrow, theJob)
    BY DEF Owned, TypeInv, WorkerTyped, Kept
  <1>7. HoldsCopy => Kept(crow, cjob)
    BY SMTT(30) DEF Owned, TypeInv, CallbackTyped, Kept
  <1> HIDE DEF Kept
  <1>8. \A j \in Jobs : jobs'[j] = jobs[j] \/ StillCarries(jobs'[j], j)
    <2>1. ASSUME NEW j \in Jobs, InsertJob(j) \/ UndoCreate(j) 
          PROVE  \A k \in Jobs : jobs'[k] = jobs[k] \/ StillCarries(jobs'[k], k)
      <3>1. NewJob.task = NoTask /\ MarkFailed(NewJob).task = NoTask
        BY DEF NewJob, MarkFailed
      <3>2. \A k \in Jobs : jobs'[k] = jobs[k] \/ jobs'[k].task = NoTask
        BY <2>1, <3>1, RowWritten DEF InsertJob, UndoCreate, TypeInv, SharedTyped
      <3>3. QED
        BY <3>2 DEF StillCarries
    <2>2. CASE SaveProcessing
      <3>1. theJob \in Jobs /\ wrow \in Rows /\ wtask \in Tasks
        BY <2>2, <1>2 DEF SaveProcessing, Owned, TypeInv, WorkerTyped
      <3>2. MarkProcessing(wrow, wtask).task \in {wrow.task, wtask}
        BY DEF MarkProcessing
      <3>3. Carries(wrow, theJob) /\ suno[wtask] # "unused" /\ owner[wtask] = theJob
        BY <2>2 DEF SaveProcessing, Owned
      <3>4. UNCHANGED <<suno, owner>>
        BY <2>2 DEF SaveProcessing, sunoVars
      <3>5. /\ \A k \in Jobs : k # theJob => jobs'[k] = jobs[k]
            /\ jobs'[theJob] \in {jobs[theJob], MarkProcessing(wrow, wtask)}
        BY <2>2, <3>1, RowWritten DEF SaveProcessing, TypeInv, SharedTyped
      <3>6. QED
        BY <3>2, <3>3, <3>4, <3>5 DEF Carries, StillCarries
    <2>3. CASE SaveRefused \/ SaveExhausted
      <3>1. theJob \in Jobs /\ Kept(wrow, theJob)
        BY <2>3, <1>2, <1>6 DEF SaveRefused, SaveExhausted
      <3>2. Kept(MarkFailed(wrow), theJob)
        BY <3>1, MarkedCarries, RowOperations DEF Kept
      <3>3. /\ \A k \in Jobs : k # theJob => jobs'[k] = jobs[k]
            /\ jobs'[theJob] \in {jobs[theJob], MarkFailed(wrow)}
        BY <2>3, <3>1, RowWritten DEF SaveRefused, SaveExhausted, TypeInv, SharedTyped
      <3>5. UNCHANGED <<suno, owner>>
        BY <2>3 DEF SaveRefused, SaveExhausted, sunoVars
      <3>6. QED
        BY <3>2, <3>3, <3>5 DEF Carries, StillCarries, Kept
    <2>4. CASE SaveReady \/ SaveFailed
      <3>1. cjob \in Jobs /\ Kept(crow, cjob)
        BY <2>4, <1>3, <1>7 DEF SaveReady, SaveFailed, HoldsCopy
      <3>2. Kept(MarkFailed(crow), cjob) /\ Kept(MarkReady(crow), cjob)
        BY <3>1, MarkedCarries, RowOperations DEF Kept
      <3>3. /\ \A k \in Jobs : k # cjob => jobs'[k] = jobs[k]
            /\ jobs'[cjob] \in {jobs[cjob], MarkFailed(crow), MarkReady(crow)}
        BY <2>4, <3>1, RowWritten DEF SaveReady, SaveFailed, TypeInv, SharedTyped
      <3>5. UNCHANGED <<suno, owner>>
        BY <2>4 DEF SaveReady, SaveFailed, sunoVars
      <3>6. QED
        BY <3>2, <3>3, <3>5 DEF Carries, StillCarries, Kept
    <2>5. CASE UNCHANGED jobs
      BY <2>5
    <2>6. QED
      BY <1>a, <2>1, <2>2, <2>3, <2>4, <2>5
         DEF Next, CreateJob, EnqueueJob, SubscriberStep, ReadUpdatedJob, PushJob, ApiCrash, JobStep,
             RecoverJobs, DequeueJob, LoadJob, GenerateMusic, AnnounceProcessing,
             AnnounceRefused, AckJob, RetryJob, RequeueJob, LoadExhausted,
             AnnounceExhausted, CallbackStep, RecoverCallbacks, DequeueCallback, LoadCallbackJob,
             StoreTrack, MarkCopyReady, AnnounceReady, AckCallback,
             RetryCallback, RequeueCallback, PollTick, PollFetch, PollTimeout, SunoFinish,
             SunoCallback, WorkerCrash, WorkerRestart, dbVars
  <1>9. (\A j \in Jobs : Carries(jobs[j], j))'
    <2>1. \A j \in Jobs : StillCarries(jobs'[j], j)
      BY <1>8, <1>4, <1>5, SMTT(30)
    <2>2. QED
      BY <2>1 DEF Carries, StillCarries
  <1>10. \/ UNCHANGED <<wpc, wmsg, wrow, wtask>>
         \/ wpc' \notin {"generate", "save", "refuse", "bury"}
         \/ wpc \in {"load", "exhaust"} /\ UNCHANGED wmsg /\ wrow' = jobs[theJob] /\ wpc' # "save"
         \/ wpc = "generate" /\ UNCHANGED <<wmsg, wrow>> /\ wpc' = "refuse"
         \/ /\ wpc = "generate" /\ UNCHANGED <<wmsg, wrow>>
            /\ wtask' \in Tasks /\ suno'[wtask'] # "unused" /\ owner'[wtask'] = theJob
    BY <1>a, ZenonT(60)
       DEF Next, CreateJob, InsertJob, EnqueueJob, UndoCreate, SubscriberStep, ReadUpdatedJob, PushJob, ApiCrash, JobStep,
           RecoverJobs, DequeueJob, LoadJob, GenerateMusic, StartTask, SaveProcessing,
           AnnounceProcessing, SaveRefused,
           AnnounceRefused, AckJob, RetryJob, RequeueJob, LoadExhausted, SaveExhausted,
           AnnounceExhausted, CallbackStep, RecoverCallbacks, DequeueCallback, LoadCallbackJob,
           StoreTrack, MarkCopyReady, SaveReady, AnnounceReady, SaveFailed, AckCallback,
           RetryCallback, RequeueCallback, PollTick, PollFetch, PollTimeout, SunoFinish,
           SunoCallback, WorkerCrash, WorkerRestart, wVars, WGoto, WIdle, TypeInv, SunoTyped
  <1>11. /\ wpc' \in {"generate", "save", "refuse", "bury"} => StillCarries(wrow', theJob')
         /\ wpc' = "save" => wtask' \in Tasks /\ suno'[wtask'] # "unused" /\ owner'[wtask'] = theJob'
    <2>1. wpc \in {"generate", "save", "refuse", "bury"} => StillCarries(wrow, theJob)
      BY <1>2, <1>4, <1>6
    <2>2. wpc \in {"load", "exhaust"} => StillCarries(jobs[theJob], theJob)
      BY <1>2, <1>4, <1>5
    <2>3. wpc = "save" => wtask \in Tasks /\ suno'[wtask] # "unused" /\ owner'[wtask] = theJob
      BY <1>a, StartedTaskStays DEF Owned
    <2>4. UNCHANGED wmsg => theJob' = theJob
      BY DEF theJob
    <2>5. QED
      BY <1>10, <2>1, <2>2, <2>3, <2>4
  <1>12. \/ HoldsCopy /\ UNCHANGED <<cjob, crow>>
         \/ cpc' \notin {"store", "save", "announce", "fail"}
         \/ cjob' \in Jobs /\ crow' = jobs[cjob']
    BY <1>a, ZenonT(60)
       DEF Next, CreateJob, InsertJob, EnqueueJob, UndoCreate, SubscriberStep, ReadUpdatedJob, PushJob, ApiCrash, JobStep,
           RecoverJobs, DequeueJob, LoadJob, GenerateMusic, SaveProcessing,
           AnnounceProcessing, SaveRefused,
           AnnounceRefused, AckJob, RetryJob, RequeueJob, LoadExhausted, SaveExhausted,
           AnnounceExhausted, CallbackStep, RecoverCallbacks, DequeueCallback, LoadCallbackJob,
           JobsOfTask, StoreTrack, MarkCopyReady, SaveReady, AnnounceReady, SaveFailed, AckCallback,
           RetryCallback, RequeueCallback, PollTick, PollFetch, PollTimeout, SunoFinish,
           SunoCallback, WorkerCrash, WorkerRestart, cVars, CGoto, CIdle, HoldsCopy
  <1>13. cpc' \in {"store", "save", "announce", "fail"} => StillCarries(crow', cjob')
    <2>1. HoldsCopy => StillCarries(crow, cjob)
      BY <1>3, <1>4, <1>7
    <2>2. \A j \in Jobs : StillCarries(jobs[j], j)
      BY <1>4, <1>5
    <2>3. QED
      BY <1>12, <2>1, <2>2
  <1>14. QED
    BY <1>9, <1>11, <1>13 DEF Owned, Carries, StillCarries, HoldsCopy

\* No two jobs share a task, and a job carries only a task generated for it: a
\* callback is applied to the one job its task was started for, whatever fails.
THEOREM TasksAreNotMixedUp == Spec => []TaskBelongsToJob
  <1>1. Init => Owned
    BY DEF Init, Owned, Carries, NoRow, HoldsCopy
  <1>2. Owned => TaskBelongsToJob
    BY DEF Owned, Carries, TaskBelongsToJob
  <1>3. QED
    BY <1>1, <1>2, TypeInit, TypeNext, OwnedNext, PTL DEF Spec

-----------------------------------------------------------------------------
\* Which jobs the queue and its consumer know: the messages are about jobs of P.
LEMMA SortedGrows ==
    ASSUME NEW P, NEW Q, P \subseteq Q
    PROVE  /\ Fresh(P, MaxAttempts) \subseteq Fresh(Q, MaxAttempts)
           /\ Sorted(P, MaxAttempts) \subseteq Sorted(Q, MaxAttempts)
  <1>1. /\ Fresh(P, MaxAttempts) \subseteq Fresh(Q, MaxAttempts)
        /\ Spent(P, MaxAttempts) \subseteq Spent(Q, MaxAttempts)
    BY DEF Fresh, Spent
  <1>2. /\ Seq(Fresh(P, MaxAttempts)) \subseteq Seq(Fresh(Q, MaxAttempts))
        /\ Seq(Spent(P, MaxAttempts)) \subseteq Seq(Spent(Q, MaxAttempts))
    BY <1>1, SeqMonotonic
  <1>3. QED
    BY <1>1, <1>2 DEF Sorted


LEMMA MessagesStayAbout ==
    ASSUME TypeInv, [Next]_vars, NEW P, NEW Q, P \subseteq Q,
           jobQ \in Sorted(P, MaxAttempts), ~WFree => wmsg \in Fresh(P, MaxAttempts),
           \A j \in Jobs : EnqueueJob(j) /\ jobQ' # jobQ => j \in Q
    PROVE  /\ jobQ' \in Sorted(Q, MaxAttempts)
           /\ wpc' \notin {"down", "recover", "idle"} => wmsg' \in Fresh(Q, MaxAttempts)
  <1> USE DEF dbVars, pushVars, apiVars, sunoVars, wVars, cVars, NoFault, WGoto, WIdle
  <1>1. /\ Sorted(P, MaxAttempts) \subseteq Sorted(Q, MaxAttempts)
        /\ Fresh(P, MaxAttempts) \subseteq Fresh(Q, MaxAttempts)
    BY SortedGrows
  <1>2. /\ jobQ.main # <<>> => /\ ReservedMessage(jobQ) \in Fresh(P, MaxAttempts)
                              /\ Reserve(jobQ) \in Sorted(P, MaxAttempts)
        /\ jobQ.processing # <<>> => RecoverLast(jobQ) \in Sorted(P, MaxAttempts)
        /\ RemoveReserved(jobQ, wmsg) \in Sorted(P, MaxAttempts)
        /\ ~WFree => PushRetried(jobQ, wmsg, MaxAttempts) \in Sorted(P, MaxAttempts)
    BY CommandsKeepSorted, RetryKeepsSorted, PipelineAssumption
  <1> DEFINE Goal == /\ jobQ' \in Sorted(Q, MaxAttempts)
                     /\ wpc' \notin {"down", "recover", "idle"} => wmsg' \in Fresh(Q, MaxAttempts)
  <1> USE DEF WFree
  <1>3. CASE UNCHANGED <<jobQ, wmsg, wpc>>
    BY <1>1, <1>3
  <1>4. ASSUME NEW j \in Jobs, EnqueueJob(j) PROVE Goal
    <2>1. UNCHANGED <<wmsg, wpc>>
      BY <1>4 DEF EnqueueJob
    <2>2. jobQ' = jobQ \/ jobQ' = PushMain(jobQ, [payload |-> j, attempts |-> 0])
      BY <1>4 DEF EnqueueJob
    <2>3. jobQ' # jobQ => PushMain(jobQ, [payload |-> j, attempts |-> 0]) \in Sorted(Q, MaxAttempts)
      BY <1>1, <1>4, CommandsKeepSorted, FirstServing, PipelineAssumption
    <2>4. QED
      BY <1>1, <2>1, <2>2, <2>3
  <1>5. CASE JobStep
    <2>1. CASE RecoverJobs \/ DequeueJob
      BY <2>1, <1>1, <1>2 DEF RecoverJobs, DequeueJob
    <2>2. CASE AckJob \/ RetryJob \/ RequeueJob
      BY <2>2, <1>1, <1>2 DEF AckJob, RetryJob, RequeueJob
    <2>3. CASE /\ ~WFree
               /\ UNCHANGED jobQ
               /\ UNCHANGED wmsg \/ wpc' = "idle"
      BY <2>3, <1>1
    <2>4. QED
      BY <1>5, <2>1, <2>2, <2>3
         DEF JobStep, LoadJob, GenerateMusic, SaveProcessing, AnnounceProcessing, SaveRefused,
             AnnounceRefused, LoadExhausted, SaveExhausted, AnnounceExhausted
  <1>6. CASE WorkerCrash \/ WorkerRestart
    BY <1>6, <1>1 DEF WorkerCrash, WorkerRestart
  <1>7. QED
    BY <1>3, <1>4, <1>5, <1>6
       DEF Next, vars, CreateJob, InsertJob, UndoCreate, SubscriberStep, ReadUpdatedJob, PushJob,
           ApiCrash, CallbackStep, RecoverCallbacks, DequeueCallback,
           LoadCallbackJob, StoreTrack, MarkCopyReady, SaveReady, AnnounceReady, SaveFailed,
           AckCallback, RetryCallback, RequeueCallback, PollTick, PollFetch, PollTimeout,
           SunoFinish, SunoCallback

\* What a step can do to the row of a job: it is created by its request, marked
\* processing by the job consumer or ready by the callback consumer, each at its
\* save, or marked failed by one of them or its request.
RowChanges(j) ==
    \/ jobs'[j] = jobs[j]
    \/ api[j] = "new" /\ api'[j] \in {"inserted", "dead"} /\ jobs'[j] = NewJob
    \/ jobs'[j].status = "failed"
    \/ /\ wpc = "save" /\ wpc' \in {"announce", "retry"} /\ theJob = j
       /\ UNCHANGED <<wmsg, wtask, suno, owner>>
       /\ jobs'[j] = MarkProcessing(wrow, wtask)
    \/ /\ cpc = "save" /\ cpc' \in {"announce", "retry"} /\ cjob = j /\ UNCHANGED cjob
       /\ jobs'[j].status = "ready"

LEMMA RowsChange ==
    ASSUME TypeInv, [Next]_vars, NEW j \in Jobs
    PROVE  RowChanges(j)
  <1>1. ASSUME NEW i \in Jobs, InsertJob(i) PROVE RowChanges(j)
    BY <1>1, RowWritten DEF InsertJob, TypeInv, SharedTyped, RowChanges
  <1>2. ASSUME NEW i \in Jobs, UndoCreate(i) PROVE RowChanges(j)
    <2>1. MarkFailed(NewJob).status = "failed"
      BY DEF MarkFailed, NewJob
    <2>2. QED
      BY <1>2, <2>1, RowWritten DEF UndoCreate, TypeInv, SharedTyped, RowChanges
  <1>3. CASE SaveProcessing
    <2>1. theJob \in Jobs
      BY <1>3 DEF SaveProcessing, TypeInv, WorkerTyped, WFree, Fresh, theJob
    <2>2. QED
      BY <1>3, <2>1, RowWritten DEF SaveProcessing, WGoto, sunoVars, TypeInv, SharedTyped, RowChanges
  <1>4. CASE SaveRefused \/ SaveExhausted
    <2>1. theJob \in Jobs
      BY <1>4 DEF SaveRefused, SaveExhausted, TypeInv, WorkerTyped, WFree, Fresh, theJob
    <2>2. MarkFailed(wrow).status = "failed"
      BY DEF MarkFailed, TypeInv, WorkerTyped, Rows
    <2>3. QED
      BY <1>4, <2>1, <2>2, RowWritten
         DEF SaveRefused, SaveExhausted, TypeInv, SharedTyped, RowChanges
  <1>5. CASE SaveReady
    <2>1. cjob \in Jobs
      BY <1>5 DEF SaveReady, TypeInv, CallbackTyped, HoldsCopy
    <2>2. MarkReady(crow).status = "ready"
      BY DEF MarkReady, TypeInv, CallbackTyped, Rows
    <2>3. QED
      BY <1>5, <2>1, <2>2, RowWritten DEF SaveReady, CGoto, TypeInv, SharedTyped, RowChanges
  <1>6. CASE SaveFailed
    <2>1. cjob \in Jobs
      BY <1>6 DEF SaveFailed, TypeInv, CallbackTyped, HoldsCopy
    <2>2. MarkFailed(crow).status = "failed"
      BY DEF MarkFailed, TypeInv, CallbackTyped, Rows
    <2>3. QED
      BY <1>6, <2>1, <2>2, RowWritten DEF SaveFailed, TypeInv, SharedTyped, RowChanges
  <1>7. CASE UNCHANGED jobs
    BY <1>7 DEF RowChanges
  <1>8. QED
    BY <1>1, <1>2, <1>3, <1>4, <1>5, <1>6, <1>7
       DEF Next, vars, CreateJob, EnqueueJob, SubscriberStep, ReadUpdatedJob, PushJob, ApiCrash, JobStep,
           RecoverJobs, DequeueJob, LoadJob, GenerateMusic, AnnounceProcessing,
           AnnounceRefused, AckJob, RetryJob, RequeueJob, LoadExhausted,
           AnnounceExhausted, CallbackStep, RecoverCallbacks, DequeueCallback, LoadCallbackJob,
           StoreTrack, MarkCopyReady, AnnounceReady, AckCallback,
           RetryCallback, RequeueCallback, PollTick, PollFetch, PollTimeout, SunoFinish,
           SunoCallback, WorkerCrash, WorkerRestart, dbVars

-----------------------------------------------------------------------------
\* No queued job is left behind.  It is in hand while its request goes on, while a
\* message about it waits, and while the job consumer has it between two lists.
MessagesOf(j) == {m \in JobMessages : m.payload = j}

InHand(j) ==
    \/ api[j] \in {"inserted", "undo"}
    \/ Waiting(jobQ, MessagesOf(j)) > 0
    \/ wpc \in {"requeue", "exhaust", "bury"} /\ theJob = j

QueuedIsInHand == \A j \in Jobs : jobs[j].status = "queued" => InHand(j)

\* The ways to leave a queued job behind: its request ends after the INSERT, by a
\* crash or because the row could not be read back; its undo after a failed enqueue is
\* not written; LREM of a retry is applied, but its reply is lost; the RPUSH after it
\* does not happen, or leads to the dead letters and nobody goes on; and Exhausted
\* ends before the row is failed.
LeavesQueued ==
    \/ \E j \in Jobs : api[j] # "dead" /\ api'[j] = "dead" /\ jobs'[j].status = "queued"
    \/ \E j \in Jobs : UndoCreate(j) /\ jobs'[j].status = "queued"
    \/ /\ jobs[theJob].status = "queued" /\ jobs'[theJob].status = "queued"
       /\ \/ wpc = "retry" /\ wpc' = "idle" /\ jobQ' # jobQ
          \/ wpc = "requeue" /\ wpc' \in {"idle", "down"} /\ jobQ'.main = jobQ.main
          \/ wpc \in {"exhaust", "bury"} /\ wpc' \in {"idle", "down"}

\* Messages are about jobs that exist, as the request enqueues what it has inserted.
Present == {j \in Jobs : jobs[j].status # "absent"}

Named ==
    /\ jobQ \in Sorted(Present, MaxAttempts)
    /\ ~WFree => wmsg \in Fresh(Present, MaxAttempts)
    /\ \A j \in Jobs : api[j] \in {"inserted", "undo"} => j \in Present

\* A job whose message is about to be acknowledged, or was buried, is not queued.
Begun == wpc \in {"announce", "ack", "announceRefusal", "announceBurial"}
            => jobs[theJob].status # "queued"

\* A row that exists stays, and only the request that inserts a row writes it queued.
LEMMA RowsStay ==
    ASSUME TypeInv, Unbound, [Next]_vars, NEW j \in Jobs
    PROVE  /\ jobs[j].status # "absent" => jobs'[j].status # "absent"
           /\ jobs'[j].status = "queued" => \/ jobs'[j] = jobs[j]
                                            \/ api[j] = "new" /\ api'[j] \in {"inserted", "dead"}
  <1>1. NewJob.status = "queued"
    BY DEF NewJob
  <1>2. wpc = "save" => MarkProcessing(wrow, wtask).status = "processing"
    BY DEF Unbound, MarkProcessing
  <1>3. QED
    BY <1>1, <1>2, RowsChange DEF RowChanges

\* The progress of the requests.
LEMMA RequestMoves ==
    ASSUME [Next]_vars
    PROVE  \/ UNCHANGED api
           \/ \E j \in Jobs : CreateJob(j)
           \/ ApiCrash
  BY DEF Next, vars, SubscriberStep, ReadUpdatedJob, PushJob,
         JobStep, RecoverJobs, DequeueJob, LoadJob, GenerateMusic, SaveProcessing,
         AnnounceProcessing, SaveRefused, AnnounceRefused, AckJob, RetryJob, RequeueJob,
         LoadExhausted, SaveExhausted, AnnounceExhausted, CallbackStep, RecoverCallbacks,
         DequeueCallback, LoadCallbackJob, StoreTrack, MarkCopyReady, SaveReady, AnnounceReady,
         SaveFailed, AckCallback, RetryCallback, RequeueCallback, PollTick, PollFetch, PollTimeout,
         SunoFinish, SunoCallback, WorkerCrash, WorkerRestart, apiVars

\* The steps that touch the job queue or move its consumer.
LEMMA ConsumerMoves ==
    ASSUME [Next]_vars
    PROVE  \/ UNCHANGED <<jobQ, wVars>>
           \/ \E j \in Jobs : EnqueueJob(j)
           \/ JobStep
           \/ WorkerCrash
           \/ WorkerRestart
  BY DEF Next, vars, CreateJob, InsertJob, UndoCreate, SubscriberStep, ReadUpdatedJob, PushJob, ApiCrash,
         CallbackStep, RecoverCallbacks,
         DequeueCallback, LoadCallbackJob, StoreTrack, MarkCopyReady, SaveReady, AnnounceReady,
         SaveFailed, AckCallback, RetryCallback, RequeueCallback, PollTick, PollFetch, PollTimeout,
         SunoFinish, SunoCallback, wVars

LEMMA NamedNext ==
    ASSUME TypeInv, Unbound, Named, [Next]_vars
    PROVE  Named'
  <1>1. Present \subseteq Present'
    BY RowsStay DEF Present
  <1>2. \A j \in Jobs : EnqueueJob(j) /\ jobQ' # jobQ => j \in Present'
    BY <1>1 DEF EnqueueJob, Named
  <1>3. ASSUME NEW j \in Jobs, api'[j] \in {"inserted", "undo"}
        PROVE  j \in Present'
    <2>1. CASE api[j] \in {"inserted", "undo"}
      BY <1>1, <2>1 DEF Named
    <2>2. CASE api[j] \notin {"inserted", "undo"}
      <3>1. InsertJob(j)
        BY <2>2, <1>3, RequestMoves
           DEF CreateJob, InsertJob, EnqueueJob, UndoCreate, ApiCrash, TypeInv, SharedTyped
      <3>2. jobs'[j] = NewJob
        BY <3>1, <1>3 DEF InsertJob, WriteRow, TypeInv, SharedTyped
      <3>3. QED
        BY <3>2 DEF NewJob, Present
    <2>3. QED
      BY <2>1, <2>2
  <1>4. QED
    BY <1>1, <1>2, <1>3, MessagesStayAbout DEF Named, WFree

LEMMA BegunNext ==
    ASSUME TypeInv, Unbound, Named, Begun, [Next]_vars
    PROVE  Begun'
  <1> DEFINE after == {"announce", "ack", "announceRefusal", "announceBurial"}
  <1> SUFFICES ASSUME wpc' \in after PROVE jobs'[theJob'].status # "queued"
    BY DEF Begun
  <1> USE DEF wVars, WGoto, WIdle
  <1>1. ~WFree => theJob \in Jobs /\ api[theJob] # "new"
    BY DEF Named, Present, Fresh, theJob, Unbound
  <1>2. ASSUME ~WFree, jobs[theJob].status # "queued"
        PROVE  jobs'[theJob].status # "queued"
    BY <1>1, <1>2, RowsStay
  <1>3. CASE UNCHANGED wVars
    BY <1>2, <1>3 DEF Begun, WFree, theJob
  <1>4. CASE JobStep
    <2>1. CASE RecoverJobs \/ DequeueJob \/ RetryJob \/ RequeueJob
      BY <2>1 DEF RecoverJobs, DequeueJob, RetryJob, RequeueJob
    <2>2. CASE LoadJob
      BY <2>2, <1>2 DEF LoadJob, theJob, WFree
    <2>3. CASE GenerateMusic
      BY <2>3 DEF GenerateMusic, Unbound, MayMarkProcessing
    <2>4. CASE SaveProcessing
      <3>1. MarkProcessing(wrow, wtask).status = "processing"
        BY <2>4 DEF SaveProcessing, Unbound, MarkProcessing
      <3>2. QED
        BY <2>4, <3>1, <1>1 DEF SaveProcessing, WriteRow, theJob, WFree, TypeInv, SharedTyped
    <2>5. CASE AnnounceProcessing \/ AnnounceRefused
      BY <2>5, <1>2 DEF AnnounceProcessing, AnnounceRefused, Begun, theJob, WFree
    <2>6. CASE SaveRefused \/ SaveExhausted
      <3>1. MarkFailed(wrow).status = "failed"
        BY DEF MarkFailed, TypeInv, WorkerTyped, Rows
      <3>2. QED
        BY <2>6, <3>1, <1>1
           DEF SaveRefused, SaveExhausted, WriteRow, theJob, WFree, TypeInv, SharedTyped
    <2>7. CASE AckJob \/ LoadExhausted \/ AnnounceExhausted
      BY <1>3, <2>7 DEF AckJob, LoadExhausted, AnnounceExhausted
    <2>8. QED
      BY <1>4, <2>1, <2>2, <2>3, <2>4, <2>5, <2>6, <2>7 DEF JobStep
  <1>5. CASE (\E j \in Jobs : EnqueueJob(j)) \/ WorkerCrash \/ WorkerRestart
    BY <1>5, <1>3 DEF EnqueueJob, WorkerCrash, WorkerRestart
  <1>6. QED
    BY <1>3, <1>4, <1>5, ConsumerMoves

\* What the commands of the job queue do to the number of messages about one job.
LEMMA JobMessagesWaiting ==
    ASSUME TypeInv, NEW j \in Jobs
    PROVE  /\ Waiting(jobQ, MessagesOf(j)) \in Nat
           /\ \A k \in Jobs :
                Waiting(PushMain(jobQ, [payload |-> k, attempts |-> 0]), MessagesOf(j))
                    = Waiting(jobQ, MessagesOf(j)) + Bit(k = j)
           /\ jobQ.main # <<>> =>
                Waiting(Reserve(jobQ), MessagesOf(j)) = Waiting(jobQ, MessagesOf(j))
           /\ jobQ.processing # <<>> =>
                Waiting(RecoverLast(jobQ), MessagesOf(j)) = Waiting(jobQ, MessagesOf(j))
           /\ ~WFree =>
                /\ theJob # j => Waiting(RemoveReserved(jobQ, wmsg), MessagesOf(j))
                                    = Waiting(jobQ, MessagesOf(j))
                /\ MovesToDLQ(wmsg, MaxAttempts) =>
                      /\ PushRetried(jobQ, wmsg, MaxAttempts).main = jobQ.main
                      /\ Waiting(PushRetried(jobQ, wmsg, MaxAttempts), MessagesOf(j))
                            = Waiting(jobQ, MessagesOf(j))
                /\ ~MovesToDLQ(wmsg, MaxAttempts) =>
                      Waiting(PushRetried(jobQ, wmsg, MaxAttempts), MessagesOf(j))
                            = Waiting(jobQ, MessagesOf(j)) + Bit(theJob = j)
  <1>1. About(Jobs, MaxAttempts, MessagesOf(j), {j})
    BY PipelineAssumption DEF About, Fresh, MessagesOf, JobMessages
  <1>2. jobQ \in Sorted(Jobs, MaxAttempts) /\ (~WFree => wmsg \in Fresh(Jobs, MaxAttempts))
    BY DEF TypeInv, QueuesTyped, WorkerTyped
  <1>3. /\ Waiting(jobQ, MessagesOf(j)) \in Nat
        /\ \A k \in Jobs :
              Waiting(PushMain(jobQ, [payload |-> k, attempts |-> 0]), MessagesOf(j))
                  = Waiting(jobQ, MessagesOf(j)) + Bit(k \in {j})
        /\ jobQ.main # <<>> =>
              Waiting(Reserve(jobQ), MessagesOf(j)) = Waiting(jobQ, MessagesOf(j))
        /\ jobQ.processing # <<>> =>
              Waiting(RecoverLast(jobQ), MessagesOf(j)) = Waiting(jobQ, MessagesOf(j))
        /\ \A m \in Fresh(Jobs, MaxAttempts) :
              /\ m.payload \notin {j} =>
                    Waiting(RemoveReserved(jobQ, m), MessagesOf(j))
                        = Waiting(jobQ, MessagesOf(j))
              /\ MovesToDLQ(m, MaxAttempts) =>
                    /\ PushRetried(jobQ, m, MaxAttempts).main = jobQ.main
                    /\ Waiting(PushRetried(jobQ, m, MaxAttempts), MessagesOf(j))
                          = Waiting(jobQ, MessagesOf(j))
              /\ ~MovesToDLQ(m, MaxAttempts) =>
                    Waiting(PushRetried(jobQ, m, MaxAttempts), MessagesOf(j))
                        = Waiting(jobQ, MessagesOf(j)) + Bit(m.payload \in {j})
    BY <1>1, <1>2, WaitingAbout, PipelineAssumption
  <1>4. QED
    BY <1>2, <1>3 DEF theJob, Bit

LEMMA QueuedIsInHandNext ==
    ASSUME TypeInv, Unbound, Named, Begun, QueuedIsInHand, [Next]_vars, ~LeavesQueued
    PROVE  QueuedIsInHand'
  <1> SUFFICES ASSUME NEW j \in Jobs, jobs'[j].status = "queued"
               PROVE  \/ api'[j] \in {"inserted", "undo"}
                      \/ Waiting(jobQ', MessagesOf(j)) > 0
                      \/ wpc' \in {"requeue", "exhaust", "bury"} /\ theJob' = j
    BY DEF QueuedIsInHand, InHand
  <1> DEFINE waiting == Waiting(jobQ, MessagesOf(j))
             Goal == \/ api'[j] \in {"inserted", "undo"}
                     \/ Waiting(jobQ', MessagesOf(j)) > 0
                     \/ wpc' \in {"requeue", "exhaust", "bury"} /\ theJob' = j
  <1>1. CASE api[j] = "new" /\ api'[j] \in {"inserted", "dead"}
    BY <1>1 DEF LeavesQueued
  <1>a. SUFFICES ASSUME jobs[j].status = "queued" PROVE Goal
    BY <1>1, RowsStay
  <1>2. InHand(j)
    BY <1>a DEF QueuedIsInHand
  <1>3. waiting \in Nat
    BY JobMessagesWaiting
  <1> USE DEF WGoto, WIdle, wVars
  <1>4. CASE api[j] \in {"inserted", "undo"}
    <2>1. CASE ApiCrash
      BY <1>4, <2>1 DEF ApiCrash, LeavesQueued, TypeInv, SharedTyped
    <2>2. ASSUME NEW k \in Jobs, CreateJob(k) PROVE Goal
      <3>1. CASE k = j /\ EnqueueJob(j)
        <4>1. CASE api'[j] = "undo"
          BY <4>1
        <4>2. CASE jobQ' = PushMain(jobQ, [payload |-> j, attempts |-> 0])
          BY <1>3, <4>2, JobMessagesWaiting DEF Bit
        <4>3. QED
          BY <3>1, <4>1, <4>2 DEF EnqueueJob, TypeInv, SharedTyped
      <3>2. CASE k = j /\ UndoCreate(j)
        BY <3>2 DEF LeavesQueued
      <3>3. CASE k = j /\ InsertJob(j)
        BY <1>4, <3>3 DEF InsertJob
      <3>4. CASE k # j
        BY <1>4, <2>2, <3>4 DEF CreateJob, InsertJob, EnqueueJob, UndoCreate, TypeInv, SharedTyped
      <3>5. QED
        BY <2>2, <3>1, <3>2, <3>3, <3>4 DEF CreateJob
    <2>3. QED
      BY <1>4, <2>1, <2>2, RequestMoves
  <1>5. CASE waiting > 0
    <2>1. CASE UNCHANGED jobQ
      BY <1>5, <2>1
    <2>2. ASSUME NEW k \in Jobs, EnqueueJob(k) PROVE Goal
      <3>1. CASE jobQ' = PushMain(jobQ, [payload |-> k, attempts |-> 0])
        BY <1>3, <1>5, <3>1, JobMessagesWaiting DEF Bit
      <3>2. QED
        BY <2>1, <2>2, <3>1 DEF EnqueueJob
    <2>3. CASE RecoverJobs \/ DequeueJob
      BY <1>5, <2>1, <2>3, JobMessagesWaiting DEF RecoverJobs, DequeueJob
    <2>4. CASE AckJob
      <3>1. theJob # j
        BY <1>a, <2>4 DEF AckJob, Begun
      <3>2. QED
        BY <1>5, <2>1, <2>4, <3>1, JobMessagesWaiting DEF AckJob, WFree
    <2>5. CASE RetryJob
      <3>1. CASE theJob = j
        <4>1. CASE JobRemovalLost /\ UNCHANGED wVars
          <5>1. wmsg \in MessagesOf(j)
            BY <2>5, <3>1, PipelineAssumption
               DEF RetryJob, theJob, TypeInv, WorkerTyped, WFree, Fresh, MessagesOf, JobMessages
          <5>2. jobQ' \in Sorted(Jobs, MaxAttempts) /\ Holds(jobQ', wmsg)
            BY <4>1, JobQueueCommands, <2>5 DEF JobRemovalLost, RetryJob
          <5>3. QED
            BY <5>1, <5>2, HeldWaits DEF Sorted
        <4>2. QED
          BY <1>a, <2>1, <2>5, <3>1, <4>1 DEF RetryJob, LeavesQueued, theJob
      <3>2. CASE theJob # j
        BY <1>5, <2>1, <2>5, <3>2, JobMessagesWaiting DEF RetryJob, WFree
      <3>3. QED
        BY <3>1, <3>2
    <2>6. CASE RequeueJob
      BY <1>3, <1>5, <2>1, <2>6, JobMessagesWaiting DEF RequeueJob, WFree, Bit
    <2>7. QED
      BY <2>1, <2>2, <2>3, <2>4, <2>5, <2>6, ConsumerMoves
         DEF JobStep, LoadJob, GenerateMusic, SaveProcessing, AnnounceProcessing, SaveRefused,
             AnnounceRefused, LoadExhausted, SaveExhausted, AnnounceExhausted, WorkerCrash,
             WorkerRestart
  <1>6. CASE wpc \in {"requeue", "exhaust", "bury"} /\ theJob = j
    <2>1. CASE UNCHANGED <<wpc, wmsg>>
      BY <1>6, <2>1 DEF theJob
    <2>2. CASE WorkerCrash
      BY <1>6, <1>a, <2>2 DEF WorkerCrash, LeavesQueued
    <2>3. CASE RequeueJob
      <3>1. CASE jobQ' = jobQ
        BY <1>6, <1>a, <2>3, <3>1 DEF RequeueJob, LeavesQueued, dbVars, theJob
      <3>2. CASE jobQ' = PushRetried(jobQ, wmsg, MaxAttempts)
        <4>1. CASE MovesToDLQ(wmsg, MaxAttempts)
          <5>1. jobQ'.main = jobQ.main
            BY <2>3, <3>2, <4>1, JobMessagesWaiting DEF RequeueJob, WFree
          <5>2. QED
            BY <1>6, <1>a, <2>3, <4>1, <5>1 DEF RequeueJob, LeavesQueued, dbVars, theJob
        <4>2. CASE ~MovesToDLQ(wmsg, MaxAttempts)
          BY <1>3, <1>6, <3>2, <4>2, JobMessagesWaiting DEF WFree, Bit
        <4>3. QED
          BY <4>1, <4>2
      <3>3. QED
        BY <2>3, <3>1, <3>2 DEF RequeueJob
    <2>4. CASE LoadExhausted
      BY <1>6, <1>a, <2>4 DEF LoadExhausted, LeavesQueued, dbVars, theJob
    <2>5. CASE SaveExhausted
      <3>1. wpc' = "idle" => LeavesQueued
        BY <1>6, <1>a, <2>5 DEF SaveExhausted, LeavesQueued
      <3>2. wpc' # "idle" => jobs' = [jobs EXCEPT ![j] = MarkFailed(wrow)]
        BY <1>6, <2>5 DEF SaveExhausted, WriteRow
      <3>3. MarkFailed(wrow).status = "failed"
        BY DEF MarkFailed, TypeInv, WorkerTyped, Rows
      <3>4. QED
        BY <3>1, <3>2, <3>3 DEF TypeInv, SharedTyped
    <2>6. QED
      BY <1>6, <2>1, <2>2, <2>3, <2>4, <2>5, ConsumerMoves
         DEF JobStep, RecoverJobs, DequeueJob, LoadJob, GenerateMusic, SaveProcessing,
             AnnounceProcessing, SaveRefused, AnnounceRefused, AckJob, RetryJob, AnnounceExhausted,
             EnqueueJob, WorkerRestart
  <1>7. QED
    BY <1>2, <1>4, <1>5, <1>6 DEF InHand

\* Unless one of the failures of LeavesQueued happens, a queued job is in hand, whatever
\* else fails and however often: the list of ways to lose a job before it is started
\* is complete.
THEOREM NoQueuedJobIsLeft == Spec /\ [][~LeavesQueued]_vars => []QueuedIsInHand
  <1> DEFINE I == TypeInv /\ Unbound /\ Named /\ Begun /\ QueuedIsInHand
  <1>1. Init => I
    <2>1. Init => Named
      <3>1. EmptyQueue \in Sorted(Present, MaxAttempts)
        BY EmptyIsSorted, PipelineAssumption
      <3>2. QED
        BY <3>1 DEF Init, Named, WFree
    <2>2. Init => Unbound /\ Begun /\ QueuedIsInHand
      BY DEF Init, Unbound, Begun, QueuedIsInHand, NoRow, HoldsCopy
    <2>3. QED
      BY <2>1, <2>2, TypeInit
  <1>2. I /\ [Next]_vars /\ [~LeavesQueued]_vars => I'
    <2>1. CASE UNCHANGED vars
      <3>1. Present' = Present /\ (I => TypeInv')
        BY <2>1, TypeNext DEF vars, Present
      <3>2. QED
        BY <2>1, <3>1
           DEF vars, Unbound, Named, Begun, QueuedIsInHand, InHand, HoldsCopy, WFree, theJob
    <2>2. CASE ~LeavesQueued
      BY <2>2, TypeNext, UnboundNext, NamedNext, BegunNext, QueuedIsInHandNext
    <2>3. QED
      BY <2>1, <2>2
  <1>3. I => QueuedIsInHand
    OBVIOUS
  <1> HIDE DEF I
  <1>4. QED
    BY <1>1, <1>2, <1>3, PTL DEF Spec

-----------------------------------------------------------------------------
\* Nobody waits for news that will not come.  The owner of a ready job has been shown
\* that it is ready, or will be: an event about it is in the channel, or about to be
\* published, or the subscriber has read the ready row.
Told(j) ==
    \/ events[j] > 0
    \/ cpc = "announce" /\ cjob = j
    \/ IF sjob = j THEN sstatus = "ready" ELSE pushed[j].status = "ready"

ReadyIsTold == \A j \in Jobs : jobs[j].status = "ready" => Told(j)

\* The ways to lose the news: the ready row is written and its read-back fails, after
\* which the callback finds a ready job and publishes nothing; PUBLISH fails, or the
\* worker dies before it; the subscriber drops an event; the API process dies with
\* events to push.
LosesNews ==
    \/ cpc = "save" /\ cpc' = "retry" /\ jobs' # jobs
    \/ cpc = "announce" /\ cpc' # "announce" /\ UNCHANGED events
    \/ SubscriberStep /\ faults' # faults
    \/ ApiCrash /\ (sjob # NoJob \/ \E j \in Jobs : events[j] > 0)

\* Events are taken by the subscriber only, and go down with the API process.
LEMMA EventsStay ==
    ASSUME TypeInv, [Next]_vars, NEW j \in Jobs, events[j] > 0
    PROVE  \/ events'[j] > 0
           \/ ReadUpdatedJob(j)
           \/ ApiCrash
  <1> USE DEF TypeInv, SharedTyped, Publish
  <1>1. CASE UNCHANGED events
    BY <1>1
  <1>2. ASSUME NEW k \in Jobs, ReadUpdatedJob(k)
        PROVE  events'[j] > 0 \/ ReadUpdatedJob(j)
    BY <1>2 DEF ReadUpdatedJob
  <1>3. CASE AnnounceProcessing \/ AnnounceRefused \/ AnnounceExhausted
    <2>1. UNCHANGED events \/ events' = [events EXCEPT ![theJob] = @ + 1]
      BY <1>3 DEF AnnounceProcessing, AnnounceRefused, AnnounceExhausted
    <2>2. QED
      BY <2>1
  <1>4. CASE AnnounceReady
    <2>1. UNCHANGED events \/ events' = [events EXCEPT ![cjob] = @ + 1]
      BY <1>4 DEF AnnounceReady
    <2>2. QED
      BY <2>1
  <1>5. QED
    BY <1>1, <1>2, <1>3, <1>4
       DEF Next, vars, CreateJob, InsertJob, EnqueueJob, UndoCreate, SubscriberStep, PushJob, JobStep,
           RecoverJobs, DequeueJob, LoadJob, GenerateMusic, SaveProcessing,
           SaveRefused, AckJob, RetryJob, RequeueJob,
           LoadExhausted, SaveExhausted, CallbackStep, RecoverCallbacks,
           DequeueCallback, LoadCallbackJob, StoreTrack, MarkCopyReady, SaveReady, SaveFailed,
           AckCallback, RetryCallback, RequeueCallback, PollTick, PollFetch, PollTimeout, SunoFinish,
           SunoCallback, WorkerCrash, WorkerRestart, apiVars

\* The steps that move the callback consumer.
LEMMA CallbackConsumerMoves ==
    ASSUME [Next]_vars
    PROVE  \/ UNCHANGED cVars
           \/ CallbackStep
           \/ WorkerCrash
           \/ WorkerRestart
  BY DEF Next, vars, CreateJob, InsertJob, EnqueueJob, UndoCreate, SubscriberStep, ReadUpdatedJob, PushJob,
         ApiCrash, JobStep, RecoverJobs, DequeueJob, LoadJob, GenerateMusic, SaveProcessing,
         AnnounceProcessing, SaveRefused, AnnounceRefused, AckJob, RetryJob, RequeueJob,
         LoadExhausted, SaveExhausted, AnnounceExhausted, PollTick, PollFetch, PollTimeout,
         SunoFinish, SunoCallback, cVars

\* Both consumers live in one process.
Together == wpc = "down" <=> cpc = "down"

LEMMA TogetherNext == TypeInv /\ Together /\ [Next]_vars => Together'
  <1> SUFFICES ASSUME TypeInv, Together, [Next]_vars PROVE Together'
    OBVIOUS
  <1> USE DEF Together, wVars, cVars, WGoto, WIdle, CGoto, CIdle
  <1>1. CASE UNCHANGED wVars /\ UNCHANGED cVars
    BY <1>1
  <1>2. CASE JobStep
    BY <1>2
       DEF JobStep, RecoverJobs, DequeueJob, LoadJob, GenerateMusic, SaveProcessing,
           AnnounceProcessing, SaveRefused, AnnounceRefused, AckJob, RetryJob, RequeueJob,
           LoadExhausted, SaveExhausted, AnnounceExhausted
  <1>3. CASE CallbackStep
    <2>1. cpc = "load" => cmsg.payload.type \in CallbackTypes
      BY DEF TypeInv, CallbackTyped, CFree, Fresh, Callbacks
    <2>2. \A type \in CallbackTypes : \A row : HandleNext(type, row) # "down"
      BY DEF HandleNext, CallbackTypes
    <2>3. QED
      BY <1>3, <2>1, <2>2
         DEF CallbackStep, RecoverCallbacks, DequeueCallback, LoadCallbackJob, StoreTrack,
             MarkCopyReady, SaveReady, AnnounceReady, SaveFailed, AckCallback, RetryCallback,
             RequeueCallback
  <1>4. CASE WorkerCrash \/ WorkerRestart
    BY <1>4 DEF WorkerCrash, WorkerRestart
  <1>5. QED
    BY <1>1, <1>2, <1>3, <1>4, ConsumerMoves, CallbackConsumerMoves DEF EnqueueJob

LEMMA ReadyIsToldNext ==
    ASSUME TypeInv, Unbound, Together, ReadyIsTold, [Next]_vars, ~LosesNews
    PROVE  ReadyIsTold'
  <1> SUFFICES ASSUME NEW j \in Jobs, jobs'[j].status = "ready"
               PROVE  \/ events'[j] > 0
                      \/ cpc' = "announce" /\ cjob' = j
                      \/ IF sjob' = j THEN sstatus' = "ready" ELSE pushed'[j].status = "ready"
    BY DEF ReadyIsTold, Told
  <1> DEFINE Goal == \/ events'[j] > 0
                     \/ cpc' = "announce" /\ cjob' = j
                     \/ IF sjob' = j THEN sstatus' = "ready" ELSE pushed'[j].status = "ready"
  <1>1. CASE jobs'[j] # jobs[j]
    <2>1. NewJob.status = "queued" /\ (wpc = "save" => MarkProcessing(wrow, wtask).status = "processing")
      BY DEF NewJob, Unbound, MarkProcessing
    <2>2. cpc = "save" /\ cpc' \in {"announce", "retry"} /\ cjob' = j
      BY <1>1, <2>1, RowsChange DEF RowChanges
    <2>3. QED
      BY <1>1, <2>2 DEF LosesNews
  <1>a. SUFFICES ASSUME jobs'[j] = jobs[j] PROVE Goal
    BY <1>1
  <1>2. Told(j)
    BY <1>a DEF ReadyIsTold
  <1>3. j # NoJob
    BY PipelineAssumption
  <1>4. CASE events[j] > 0
    <2>1. CASE ReadUpdatedJob(j)
      <3>1. faults' = faults
        BY <2>1 DEF LosesNews, SubscriberStep
      <3>2. sjob' = j /\ sstatus' = jobs[j].status
        BY <2>1, <3>1 DEF ReadUpdatedJob, Fault, TypeInv, SharedTyped
      <3>3. QED
        BY <1>a, <2>1, <3>2 DEF ReadUpdatedJob, dbVars
    <2>2. CASE ApiCrash
      BY <1>4, <2>2 DEF LosesNews
    <2>3. QED
      BY <1>4, <2>1, <2>2, EventsStay
  <1>5. CASE cpc = "announce" /\ cjob = j
    <2>1. CASE UNCHANGED cVars
      BY <1>5, <2>1 DEF cVars
    <2>2. CASE AnnounceReady
      BY <1>5, <2>2 DEF AnnounceReady, LosesNews, Publish, CGoto, TypeInv, SharedTyped
    <2>3. CASE WorkerCrash
      BY <1>5, <2>3 DEF WorkerCrash, apiVars, LosesNews
    <2>4. QED
      BY <1>5, <2>1, <2>2, <2>3, CallbackConsumerMoves
         DEF CallbackStep, RecoverCallbacks, DequeueCallback, LoadCallbackJob, StoreTrack,
             MarkCopyReady, SaveReady, SaveFailed, AckCallback, RetryCallback, RequeueCallback,
             WorkerRestart, Together
  <1>6. CASE IF sjob = j THEN sstatus = "ready" ELSE pushed[j].status = "ready"
    <2>1. CASE UNCHANGED <<sjob, sstatus, pushed>>
      BY <1>6, <2>1
    <2>2. ASSUME NEW k \in Jobs, ReadUpdatedJob(k) PROVE Goal
      <3>1. CASE UNCHANGED <<sjob, sstatus>>
        BY <1>6, <2>2, <3>1 DEF ReadUpdatedJob
      <3>2. CASE sjob' = k /\ sstatus' = jobs[k].status
        BY <1>3, <1>6, <1>a, <2>2, <3>2 DEF ReadUpdatedJob
      <3>3. QED
        BY <2>2, <3>1, <3>2 DEF ReadUpdatedJob
    <2>3. CASE PushJob
      <3>1. pushed' = [pushed EXCEPT ![sjob] = AttachTracks(sjob, sstatus)] /\ sjob' = NoJob
        BY <2>3 DEF PushJob, SubscriberIdle, SubscriberStep, LosesNews, Fault, NoFault, TypeInv, SharedTyped
      <3>2. QED
        BY <1>3, <1>6, <3>1 DEF AttachTracks, TypeInv, SharedTyped
    <2>4. CASE ApiCrash
      BY <1>3, <1>6, <2>4 DEF ApiCrash, SubscriberIdle, LosesNews
    <2>5. QED
      BY <2>1, <2>2, <2>3, <2>4
         DEF Next, vars, CreateJob, InsertJob, EnqueueJob, UndoCreate, SubscriberStep,
             JobStep, RecoverJobs, DequeueJob, LoadJob, GenerateMusic, SaveProcessing,
             AnnounceProcessing, SaveRefused, AnnounceRefused, AckJob, RetryJob, RequeueJob,
             LoadExhausted, SaveExhausted, AnnounceExhausted, CallbackStep, RecoverCallbacks,
             DequeueCallback, LoadCallbackJob, StoreTrack, MarkCopyReady, SaveReady, AnnounceReady,
             SaveFailed, AckCallback, RetryCallback, RequeueCallback, PollTick, PollFetch, PollTimeout,
             SunoFinish, SunoCallback, WorkerCrash, WorkerRestart, apiVars, pushVars
  <1>7. QED
    BY <1>2, <1>4, <1>5, <1>6 DEF Told

\* Unless the news is lost in one of these ways, the owner of a ready job has it or will
\* get it, whatever else fails: events that overtake each other, and rows read
\* long before the push, lose nothing.
THEOREM NoReadyJobIsSilent == Spec /\ [][~LosesNews]_vars => []ReadyIsTold
  <1> DEFINE I == TypeInv /\ Unbound /\ Together /\ ReadyIsTold
  <1>1. Init => I
    BY TypeInit DEF Init, Unbound, Together, ReadyIsTold, NoRow, HoldsCopy
  <1>2. I /\ [Next]_vars /\ [~LosesNews]_vars => I'
    <2>1. CASE UNCHANGED vars
      <3>1. I => TypeInv'
        BY <2>1, TypeNext
      <3>2. QED
        BY <2>1, <3>1 DEF vars, Unbound, Together, ReadyIsTold, Told, HoldsCopy, theJob
    <2>2. CASE ~LosesNews
      BY <2>2, TypeNext, UnboundNext, TogetherNext, ReadyIsToldNext
    <2>3. QED
      BY <2>1, <2>2
  <1>3. I => ReadyIsTold
    OBVIOUS
  <1> HIDE DEF I
  <1>4. QED
    BY <1>1, <1>2, <1>3, PTL DEF Spec

-----------------------------------------------------------------------------
\* No generation is forgotten.  The reports that end a task, and who sees to it that a
\* task ends: the job consumer, which is about to start a poller, the poller, a report
\* that waits, or the callback consumer, which has one between two lists.
Reports(t) == {m \in CallbackMessages :
                  m.payload.task = t /\ m.payload.type \in {"complete", "error"}}

Watched(t) ==
    \/ wpc = "announce" /\ wtask = t
    \/ poll[t] # "off"
    \/ Waiting(cbQ, Reports(t)) > 0
    \/ cpc = "requeue" /\ cmsg \in Reports(t)

ProcessingIsWatched ==
    \A j \in Jobs : jobs[j].status = "processing" =>
        jobs[j].task \in Tasks /\ Watched(jobs[j].task)

\* The ways to forget a generation: the row that names it is written and its read-back
\* fails; the event cannot be published, and so no poller is started; the worker
\* dies with a poller, or just before or instead of one; a poller gives up; LREM of
\* a report is applied, but its reply is lost; and the RPUSH after it does not happen,
\* or leads to the dead letters.
ForgetsTask ==
    \/ wpc = "save" /\ wpc' = "retry" /\ jobs' # jobs
    \/ wpc = "announce" /\ wpc' # "announce" /\ UNCHANGED poll
    \/ WorkerCrash /\ (wpc = "announce" \/ cpc = "requeue" \/ \E t \in Tasks : poll[t] # "off")
    \/ \E t \in Tasks : PollTimeout(t)
    \/ /\ \/ cpc = "retry" /\ cpc' = "idle" /\ cbQ' # cbQ
          \/ cpc = "requeue" /\ cpc' = "idle" /\ cbQ'.main = cbQ.main
       /\ cmsg.payload.type # "progress"

\* What the callback commands do to the number of reports of one task.
LEMMA ReportsWaiting ==
    ASSUME TypeInv, NEW t \in Tasks
    PROVE  /\ Waiting(cbQ, Reports(t)) \in Nat
           /\ \A u \in Tasks, type \in CallbackTypes :
                Waiting(PushMain(cbQ, [payload |-> [task |-> u, type |-> type], attempts |-> 0]),
                        Reports(t))
                    = Waiting(cbQ, Reports(t)) + Bit(u = t /\ type # "progress")
           /\ cbQ.main # <<>> => Waiting(Reserve(cbQ), Reports(t)) = Waiting(cbQ, Reports(t))
           /\ cbQ.processing # <<>> =>
                Waiting(RecoverLast(cbQ), Reports(t)) = Waiting(cbQ, Reports(t))
           /\ ~CFree =>
                /\ cmsg \in Reports(t) <=> cmsg.payload.task = t /\ cmsg.payload.type # "progress"
                /\ cmsg \notin Reports(t) =>
                      Waiting(RemoveReserved(cbQ, cmsg), Reports(t)) = Waiting(cbQ, Reports(t))
                /\ MovesToDLQ(cmsg, MaxAttempts) =>
                      /\ PushRetried(cbQ, cmsg, MaxAttempts).main = cbQ.main
                      /\ Waiting(PushRetried(cbQ, cmsg, MaxAttempts), Reports(t))
                            = Waiting(cbQ, Reports(t))
                /\ ~MovesToDLQ(cmsg, MaxAttempts) =>
                      Waiting(PushRetried(cbQ, cmsg, MaxAttempts), Reports(t))
                            = Waiting(cbQ, Reports(t)) + Bit(cmsg \in Reports(t))
  <1> DEFINE Y == {c \in Callbacks : c.task = t /\ c.type # "progress"}
  <1>1. About(Callbacks, MaxAttempts, Reports(t), Y)
    BY PipelineAssumption DEF About, Fresh, Reports, CallbackMessages, Callbacks, CallbackTypes
  <1>2. /\ cbQ \in Sorted(Callbacks, MaxAttempts)
        /\ ~CFree => cmsg \in Fresh(Callbacks, MaxAttempts)
    BY DEF TypeInv, QueuesTyped, CallbackTyped
  <1>3. \A u \in Tasks, type \in CallbackTypes :
            /\ [task |-> u, type |-> type] \in Callbacks
            /\ [task |-> u, type |-> type] \in Y <=> u = t /\ type # "progress"
    BY DEF Callbacks
  <1>4. \A c \in Callbacks : c \in Y <=> c.task = t /\ c.type # "progress"
    OBVIOUS
  <1> HIDE DEF Y
  <1>5. /\ Waiting(cbQ, Reports(t)) \in Nat
        /\ \A p \in Callbacks :
              Waiting(PushMain(cbQ, [payload |-> p, attempts |-> 0]), Reports(t))
                  = Waiting(cbQ, Reports(t)) + Bit(p \in Y)
        /\ cbQ.main # <<>> => Waiting(Reserve(cbQ), Reports(t)) = Waiting(cbQ, Reports(t))
        /\ cbQ.processing # <<>> =>
              Waiting(RecoverLast(cbQ), Reports(t)) = Waiting(cbQ, Reports(t))
        /\ \A m \in Fresh(Callbacks, MaxAttempts) :
              /\ m.payload \notin Y =>
                    Waiting(RemoveReserved(cbQ, m), Reports(t)) = Waiting(cbQ, Reports(t))
              /\ MovesToDLQ(m, MaxAttempts) =>
                    /\ PushRetried(cbQ, m, MaxAttempts).main = cbQ.main
                    /\ Waiting(PushRetried(cbQ, m, MaxAttempts), Reports(t))
                          = Waiting(cbQ, Reports(t))
              /\ ~MovesToDLQ(m, MaxAttempts) =>
                    Waiting(PushRetried(cbQ, m, MaxAttempts), Reports(t))
                        = Waiting(cbQ, Reports(t)) + Bit(m.payload \in Y)
    BY <1>1, <1>2, WaitingAbout, PipelineAssumption
  <1>6. ASSUME NEW u \in Tasks, NEW type \in CallbackTypes
        PROVE  Waiting(PushMain(cbQ, [payload |-> [task |-> u, type |-> type], attempts |-> 0]),
                       Reports(t))
                  = Waiting(cbQ, Reports(t)) + Bit(u = t /\ type # "progress")
    <2> DEFINE c == [task |-> u, type |-> type]
    <2>1. c \in Callbacks /\ (c \in Y <=> u = t /\ type # "progress")
      BY <1>3
    <2> HIDE DEF c
    <2>2. Waiting(PushMain(cbQ, [payload |-> c, attempts |-> 0]), Reports(t))
              = Waiting(cbQ, Reports(t)) + Bit(u = t /\ type # "progress")
      BY <1>5, <2>1 DEF Bit
    <2>3. QED
      BY <2>2 DEF c
  <1>7. ASSUME ~CFree
        PROVE  /\ cmsg \in Reports(t) <=> cmsg.payload.task = t /\ cmsg.payload.type # "progress"
               /\ cmsg \in Reports(t) <=> cmsg.payload \in Y
    <2>1. cmsg \in Fresh(Callbacks, MaxAttempts) /\ cmsg.payload \in Callbacks
      BY <1>2, <1>7 DEF Fresh
    <2>2. QED
      BY <1>1, <1>4, <2>1 DEF About
  <1>8. QED
    BY <1>2, <1>5, <1>6, <1>7 DEF Bit

\* The copy of a row the callback consumer works on is of the job its callback names,
\* and processing if the job still is; what the job consumer has asked Suno for has no
\* task yet.
CopyTrue ==
    /\ HoldsCopy => crow.task = cmsg.payload.task
    /\ HoldsCopy /\ crow.status # "processing" => jobs[cjob].status # "processing"
    /\ cpc = "announce" => jobs[cjob].status # "processing"
    /\ wpc \in {"generate", "save"} => wrow.task = NoTask

\* A report that is about to be acknowledged has ended its job for good.
Ended(t) == \A j \in Jobs : jobs[j].task = t => jobs[j].status # "processing"

Settled ==
    cpc = "ack" /\ cmsg.payload.type # "progress" =>
        /\ Ended(cmsg.payload.task)
        /\ suno[cmsg.payload.task] # "unused"
        /\ ~(wpc = "save" /\ wtask = cmsg.payload.task)

\* Only the job consumer makes a row processing, and binds it to its task.
LEMMA BecomesProcessing ==
    ASSUME TypeInv, Unbound, CopyTrue, [Next]_vars, NEW j \in Jobs,
           jobs'[j].status = "processing"
    PROVE  \/ jobs'[j] = jobs[j]
           \/ /\ wpc = "save" /\ wpc' \in {"announce", "retry"} /\ UNCHANGED wtask
              /\ theJob = j
              /\ jobs'[j].task = wtask
  <1>1. NewJob.status = "queued"
    BY DEF NewJob
  <1>2. wpc = "save" => MarkProcessing(wrow, wtask).task = wtask
    BY DEF Unbound, CopyTrue, MarkProcessing
  <1>3. QED
    BY <1>1, <1>2, RowsChange DEF RowChanges

\* How the job consumer gets to ask Suno, and to a task it has yet to save.
LEMMA ConsumerAsks ==
    ASSUME [Next]_vars
    PROVE  /\ wpc' = "generate" => UNCHANGED wVars \/ LoadJob
           /\ wpc' = "save" => \/ UNCHANGED wVars
                               \/ GenerateMusic /\ suno[wtask'] = "unused"
  <1>1. CASE JobStep
    BY <1>1
       DEF JobStep, RecoverJobs, DequeueJob, LoadJob, GenerateMusic, StartTask, SaveProcessing,
           AnnounceProcessing, SaveRefused, AnnounceRefused, AckJob, RetryJob, RequeueJob,
           LoadExhausted, SaveExhausted, AnnounceExhausted, WGoto, WIdle, wVars
  <1>2. CASE (\E j \in Jobs : EnqueueJob(j)) \/ WorkerCrash \/ WorkerRestart
    BY <1>2 DEF EnqueueJob, WorkerCrash, WorkerRestart, WGoto
  <1>3. QED
    BY <1>1, <1>2, ConsumerMoves

\* What a step of the callback consumer does to its own state.
LEMMA CopyTrueNext ==
    ASSUME TypeInv, Unbound, Owned, CopyTrue, [Next]_vars
    PROVE  CopyTrue'
  <1> DEFINE Copy == /\ HoldsCopy => crow.task = cmsg.payload.task
                     /\ HoldsCopy /\ crow.status # "processing" => jobs[cjob].status # "processing"
                     /\ cpc = "announce" => jobs[cjob].status # "processing"
  <1>1. (wpc \in {"generate", "save"} => wrow.task = NoTask)'
    <2>1. CASE UNCHANGED wVars
      BY <2>1 DEF CopyTrue, wVars
    <2>2. CASE LoadJob /\ wpc' = "generate"
      <3>1. jobs[theJob].status = "queued" /\ wrow' = jobs[theJob] /\ theJob \in Jobs
        BY <2>2 DEF LoadJob, theJob, TypeInv, WorkerTyped, WFree, Fresh
      <3>2. QED
        BY <3>1 DEF Unbound
    <2>3. CASE GenerateMusic
      BY <2>3 DEF GenerateMusic, CopyTrue
    <2>4. QED
      BY <2>1, <2>2, <2>3, ConsumerAsks
  <1>2. CASE UNCHANGED cVars
    <2>1. HoldsCopy => cjob \in Jobs
      BY DEF TypeInv, CallbackTyped
    <2>2. HoldsCopy /\ jobs[cjob].status # "processing" => jobs'[cjob].status # "processing"
      BY <2>1, BecomesProcessing DEF Unbound
    <2>3. Copy'
      BY <1>2, <2>2 DEF CopyTrue, HoldsCopy, cVars
    <2>4. QED
      BY <1>1, <2>3 DEF CopyTrue
  <1>3. CASE CallbackStep
    <2> USE DEF CopyTrue, HoldsCopy, CGoto, CIdle, dbVars
    <2>1. CASE RecoverCallbacks \/ DequeueCallback \/ AckCallback \/ RetryCallback \/ RequeueCallback
      <3>1. cpc' \notin {"store", "save", "announce", "fail"}
        BY <2>1 DEF RecoverCallbacks, DequeueCallback, AckCallback, RetryCallback, RequeueCallback, cVars
      <3>2. QED
        BY <1>1, <3>1
    <2>2. CASE LoadCallbackJob
      <3>1. /\ jobs' = jobs /\ cmsg' = cmsg
            /\ \/ cpc' = "retry"
               \/ /\ crow' = jobs[cjob'] /\ jobs[cjob'].task = cmsg.payload.task
                  /\ cpc' = HandleNext(cmsg.payload.type, crow')
        BY <2>2 DEF LoadCallbackJob, JobsOfTask
      <3>2. cmsg.payload.type \in CallbackTypes
        BY <2>2 DEF LoadCallbackJob, TypeInv, CallbackTyped, CFree, Fresh, Callbacks
      <3>3. \A type \in CallbackTypes : \A row : HandleNext(type, row) # "announce"
        BY DEF HandleNext, CallbackTypes
      <3>4. QED
        BY <1>1, <3>1, <3>2, <3>3
    <2>3. CASE StoreTrack \/ MarkCopyReady
      BY <1>1, <2>3 DEF StoreTrack, MarkCopyReady
    <2>4. CASE SaveReady
      <3>1. MarkReady(crow).status = "ready" /\ cjob \in Jobs
        BY <2>4 DEF SaveReady, MarkReady, TypeInv, CallbackTyped, Rows
      <3>2. QED
        BY <1>1, <2>4, <3>1 DEF SaveReady, WriteRow, TypeInv, SharedTyped
    <2>5. CASE AnnounceReady \/ SaveFailed
      <3>1. cpc' \in {"ack", "retry"} \/ UNCHANGED cVars
        BY <2>5 DEF AnnounceReady, SaveFailed
      <3>2. QED
        BY <1>1, <1>2, <3>1
    <2>6. QED
      BY <1>3, <2>1, <2>2, <2>3, <2>4, <2>5 DEF CallbackStep
  <1>4. CASE WorkerCrash \/ WorkerRestart
    BY <1>1, <1>4 DEF WorkerCrash, WorkerRestart, CGoto, CopyTrue, HoldsCopy
  <1>5. QED
    BY <1>2, <1>3, <1>4, CallbackConsumerMoves

\* The consumer gets to the acknowledgement of a report by a row that is final, which
\* it has read, or written itself; the task it names is not about to be saved.
LEMMA SettledNext ==
    ASSUME TypeInv, Unbound, Owned, CopyTrue, Settled, [Next]_vars
    PROVE  Settled'
  <1> DEFINE t == cmsg.payload.task
  <1>1. ASSUME NEW i \in Jobs, UNCHANGED <<cmsg, wVars, suno>>, t \in Tasks,
               suno[t] # "unused", owner[t] = i, wpc = "save" => theJob # i,
               jobs'[i].status # "processing", \A j \in Jobs : j # i => jobs'[j] = jobs[j]
        PROVE  Settled'
    <2>1. \A j \in Jobs : jobs[j].task = t => j = i
      BY <1>1, PipelineAssumption DEF Owned, Carries
    <2>2. \A j \in Jobs : jobs'[j].task = t => jobs'[j].status # "processing"
      BY <1>1, <2>1
    <2>3. ~(wpc = "save" /\ wtask = t)
      BY <1>1 DEF Owned
    <2>4. QED
      BY <1>1, <2>2, <2>3 DEF Settled, Ended, wVars
  <1>2. HoldsCopy => /\ cjob \in Jobs /\ t \in Tasks /\ suno[t] # "unused" /\ owner[t] = cjob
                     /\ wpc = "save" => theJob # cjob
    <2>1. HoldsCopy => cjob \in Jobs /\ t \in Tasks /\ crow.task = t
      BY DEF TypeInv, CallbackTyped, CFree, HoldsCopy, Fresh, Callbacks, CopyTrue
    <2>2. QED
      BY <2>1, PipelineAssumption DEF Owned, Carries, Unbound
  <1>3. CASE UNCHANGED cVars
    <2>1. CASE cpc = "ack" /\ cmsg.payload.type # "progress"
      <3>1. t \in Tasks /\ suno[t] # "unused" /\ Ended(t) /\ ~(wpc = "save" /\ wtask = t)
        BY <2>1 DEF Settled, TypeInv, CallbackTyped, CFree, Fresh, Callbacks
      <3>2. suno'[t] # "unused"
        BY <3>1, StartedTaskStays DEF vars
      <3>3. \A j \in Jobs : jobs'[j].task = t => jobs'[j].status # "processing"
        BY <3>1, BecomesProcessing DEF Ended
      <3>4. ~(wpc' = "save" /\ wtask' = t)
        BY <3>1, ConsumerAsks DEF wVars
      <3>5. QED
        BY <1>3, <3>2, <3>3, <3>4 DEF Settled, Ended, cVars
    <2>2. QED
      BY <1>3, <2>1 DEF Settled, cVars
  <1>4. CASE CallbackStep
    <2> USE DEF CGoto, CIdle, dbVars, sunoVars, HoldsCopy
    <2>1. CASE cpc' # "ack"
      BY <2>1 DEF Settled
    <2>2. CASE LoadCallbackJob /\ cpc' = "ack" /\ cmsg.payload.type # "progress"
      <3>1. /\ UNCHANGED <<jobs, cmsg, wVars, suno, owner>>
            /\ cjob' \in Jobs /\ jobs[cjob'].task = t
            /\ HandleNext(cmsg.payload.type, jobs[cjob']) = "ack"
        BY <2>2 DEF LoadCallbackJob, JobsOfTask
      <3>2. t \in Tasks /\ cmsg.payload.type \in {"complete", "error"}
        BY <2>2 DEF LoadCallbackJob, TypeInv, CallbackTyped, CFree, Fresh, Callbacks, CallbackTypes
      <3>3. jobs[cjob'].status # "processing"
        BY <3>1, <3>2 DEF HandleNext, MayMarkFailed
      <3>4. suno[t] # "unused" /\ owner[t] = cjob' /\ (wpc = "save" => theJob # cjob')
        BY <3>1, <3>2, PipelineAssumption DEF Owned, Carries, Unbound
      <3>5. QED
        BY <1>1, <3>1, <3>2, <3>3, <3>4
    <2>3. CASE MarkCopyReady /\ cpc' = "ack"
      <3>1. UNCHANGED <<jobs, cmsg, wVars, suno>> /\ crow.status # "processing" /\ cpc = "store"
        BY <2>3 DEF MarkCopyReady, MayMarkReady
      <3>2. jobs[cjob].status # "processing"
        BY <3>1 DEF CopyTrue
      <3>3. QED
        BY <1>1, <1>2, <3>1, <3>2
    <2>4. CASE AnnounceReady /\ cpc' = "ack"
      <3>1. UNCHANGED <<jobs, cmsg, wVars, suno>> /\ cpc = "announce"
        BY <2>4 DEF AnnounceReady, cVars
      <3>2. jobs[cjob].status # "processing"
        BY <3>1 DEF CopyTrue
      <3>3. QED
        BY <1>1, <1>2, <3>1, <3>2
    <2>5. CASE SaveFailed /\ cpc' = "ack"
      <3>1. UNCHANGED <<cmsg, wVars, suno>> /\ cpc = "fail" /\ WriteRow(cjob, MarkFailed(crow))
        BY <2>5 DEF SaveFailed
      <3>2. MarkFailed(crow).status = "failed" /\ cjob \in Jobs
        BY <1>2, <3>1 DEF MarkFailed, TypeInv, CallbackTyped, Rows
      <3>3. /\ jobs'[cjob].status # "processing"
            /\ \A j \in Jobs : j # cjob => jobs'[j] = jobs[j]
        BY <3>1, <3>2 DEF WriteRow, TypeInv, SharedTyped
      <3>4. QED
        BY <1>1, <1>2, <3>1, <3>2, <3>3
    <2>6. CASE LoadCallbackJob /\ cmsg.payload.type = "progress"
      BY <2>6 DEF LoadCallbackJob, Settled
    <2>7. QED
      BY <1>3, <1>4, <2>1, <2>2, <2>3, <2>4, <2>5, <2>6
         DEF CallbackStep, RecoverCallbacks, DequeueCallback, StoreTrack, SaveReady, AckCallback,
             RetryCallback, RequeueCallback, cVars
  <1>5. CASE WorkerCrash \/ WorkerRestart
    BY <1>5 DEF WorkerCrash, WorkerRestart, CGoto, Settled
  <1>6. QED
    BY <1>3, <1>4, <1>5, CallbackConsumerMoves

\* The steps that touch the callback queue.
LEMMA CallbackQueueMoves ==
    ASSUME [Next]_vars
    PROVE  \/ UNCHANGED cbQ
           \/ CallbackStep
           \/ \E t \in Tasks : PollFetch(t)
           \/ \E t \in Tasks : SunoCallback(t)
  BY DEF Next, vars, CreateJob, InsertJob, EnqueueJob, UndoCreate, SubscriberStep, ReadUpdatedJob, PushJob,
         ApiCrash, JobStep, RecoverJobs, DequeueJob, LoadJob, GenerateMusic, SaveProcessing,
         AnnounceProcessing, SaveRefused, AnnounceRefused, AckJob, RetryJob, RequeueJob,
         LoadExhausted, SaveExhausted, AnnounceExhausted, PollTick, PollTimeout,
         SunoFinish, WorkerCrash, WorkerRestart

\* A poller stops by itself only when it is done.
LEMMA PollerStays ==
    ASSUME TypeInv, PollFallback, [Next]_vars, NEW t \in Tasks, poll[t] # "off"
    PROVE  \/ poll'[t] # "off"
           \/ PollTick(t) \/ PollFetch(t) \/ PollTimeout(t)
           \/ WorkerCrash
  <1>1. CASE AnnounceProcessing
    BY <1>1 DEF AnnounceProcessing, TypeInv, SunoTyped
  <1>2. ASSUME NEW u \in Tasks, PollTick(u) \/ PollFetch(u) \/ PollTimeout(u), u # t
        PROVE  poll'[t] # "off"
    BY <1>2 DEF PollTick, PollFetch, PollTimeout, TypeInv, SunoTyped
  <1>3. CASE UNCHANGED poll
    BY <1>3
  <1>4. QED
    BY <1>1, <1>2, <1>3
       DEF Next, vars, CreateJob, InsertJob, EnqueueJob, UndoCreate, SubscriberStep, ReadUpdatedJob,
           PushJob, ApiCrash, JobStep, RecoverJobs, DequeueJob, LoadJob, GenerateMusic, SaveProcessing,
           SaveRefused, AnnounceRefused, AckJob, RetryJob, RequeueJob,
           LoadExhausted, SaveExhausted, AnnounceExhausted, CallbackStep, RecoverCallbacks,
           DequeueCallback, LoadCallbackJob, StoreTrack, MarkCopyReady, SaveReady, AnnounceReady,
           SaveFailed, AckCallback, RetryCallback, RequeueCallback,
           SunoFinish, SunoCallback, WorkerRestart

\* Who watches over a task hands it on to the next, until its job is final.
LEMMA WatchStays ==
    ASSUME TypeInv, Owned, Together, Settled, PollFallback, [Next]_vars, ~ForgetsTask,
           NEW t \in Tasks, NEW j \in Jobs, jobs[j].status = "processing", jobs[j].task = t,
           Watched(t)
    PROVE  Watched(t)'
  <1> USE DEF CGoto, CIdle, WGoto, WIdle
  <1>1. CASE wpc = "announce" /\ wtask = t
    <2>1. CASE UNCHANGED wVars
      BY <1>1, <2>1 DEF wVars, Watched
    <2>2. CASE AnnounceProcessing
      <3>1. ~UNCHANGED poll \/ UNCHANGED wVars
        BY <2>2 DEF AnnounceProcessing, ForgetsTask
      <3>2. ~UNCHANGED poll => poll'[t] = "tick"
        BY <1>1, <2>2 DEF AnnounceProcessing, TypeInv, SunoTyped
      <3>3. QED
        BY <2>1, <3>1, <3>2 DEF Watched
    <2>3. CASE WorkerCrash
      BY <1>1, <2>3 DEF ForgetsTask
    <2>4. QED
      BY <1>1, <2>1, <2>2, <2>3, ConsumerMoves
         DEF EnqueueJob, WorkerRestart, JobStep, RecoverJobs, DequeueJob, LoadJob, GenerateMusic,
             SaveProcessing, SaveRefused, AnnounceRefused, AckJob, RetryJob, RequeueJob,
             LoadExhausted, SaveExhausted, AnnounceExhausted, wVars
  <1>2. CASE poll[t] # "off"
    <2>1. CASE poll'[t] # "off"
      BY <2>1 DEF Watched
    <2>2. CASE PollTick(t)
      <3>1. owner[t] = j
        BY PipelineAssumption DEF Owned, Carries
      <3>2. poll'[t] = "fetch"
        BY <2>2, <3>1 DEF PollTick, IsFinal, TypeInv, SunoTyped
      <3>3. QED
        BY <3>2 DEF Watched
    <2>3. CASE PollFetch(t) /\ poll'[t] = "off"
      <3>1. poll' # [poll EXCEPT ![t] = "tick"]
        BY <2>3 DEF TypeInv, SunoTyped
      <3>2. PICK type \in DetailsCallbacks(suno[t]) :
                cbQ' = PushMain(cbQ, [payload |-> [task |-> t, type |-> type], attempts |-> 0])
        BY <2>3, <3>1 DEF PollFetch
      <3>3. type \in {"complete", "error"}
        BY <3>2 DEF DetailsCallbacks
      <3>4. Waiting(cbQ', Reports(t)) = Waiting(cbQ, Reports(t)) + 1
        BY <3>2, <3>3, ReportsWaiting DEF CallbackTypes, Bit
      <3>5. Waiting(cbQ', Reports(t)) > 0
        BY <3>4, ReportsWaiting
      <3>6. QED
        BY <3>5 DEF Watched, Reports
    <2>4. CASE PollTimeout(t)
      BY <2>4 DEF ForgetsTask
    <2>5. CASE WorkerCrash
      BY <1>2, <2>5 DEF ForgetsTask
    <2>6. QED
      BY <1>2, <2>1, <2>2, <2>3, <2>4, <2>5, PollerStays
  <1>3. CASE Waiting(cbQ, Reports(t)) > 0
    <2>1. CASE Waiting(cbQ', Reports(t)) \in {Waiting(cbQ, Reports(t)), Waiting(cbQ, Reports(t)) + 1}
      <3>1. Waiting(cbQ', Reports(t)) > 0
        BY <1>3, <2>1, ReportsWaiting
      <3>2. QED
        BY <3>1 DEF Watched, Reports
    <2>2. CASE UNCHANGED cbQ
      BY <1>3, <2>2 DEF Watched, Reports
    <2>3. ASSUME NEW u \in Tasks, NEW type \in CallbackTypes,
                 cbQ' = PushMain(cbQ, [payload |-> [task |-> u, type |-> type], attempts |-> 0])
          PROVE  Watched(t)'
      BY <2>1, <2>3, ReportsWaiting DEF Bit
    <2>4. CASE RecoverCallbacks \/ DequeueCallback
      <3>1. \/ cbQ' = cbQ
            \/ cbQ.processing # <<>> /\ cbQ' = RecoverLast(cbQ)
            \/ cbQ.main # <<>> /\ cbQ' = Reserve(cbQ)
        BY <2>4 DEF RecoverCallbacks, DequeueCallback
      <3>2. QED
        BY <2>1, <2>2, <3>1, ReportsWaiting
    <2>5. CASE AckCallback
      <3>1. cpc = "ack" /\ cbQ' \in {cbQ, RemoveReserved(cbQ, cmsg)}
        BY <2>5 DEF AckCallback
      <3>2. cmsg \notin Reports(t)
        BY <3>1 DEF Settled, Ended, Reports
      <3>3. QED
        BY <2>1, <2>2, <3>1, <3>2, ReportsWaiting DEF CFree
    <2>6. CASE RetryCallback
      <3>1. /\ cpc = "retry" /\ cbQ' \in {cbQ, RemoveReserved(cbQ, cmsg)}
            /\ \/ cpc' = "requeue" /\ cmsg' = cmsg
               \/ cpc' = "idle"
               \/ cpc' = "retry" /\ cbQ' = RemoveReserved(cbQ, cmsg) /\ Holds(cbQ', cmsg)
        BY <2>6 DEF RetryCallback, cVars
      <3>2. CASE cmsg \notin Reports(t)
        BY <2>1, <2>2, <3>1, <3>2, ReportsWaiting DEF CFree
      <3>3. CASE cmsg \in Reports(t) /\ cpc' = "requeue"
        BY <3>1, <3>3 DEF Watched, Reports
      <3>4. CASE cmsg \in Reports(t) /\ cpc' = "idle"
        BY <2>2, <3>1, <3>4 DEF ForgetsTask, Reports
      <3>5. CASE cmsg \in Reports(t) /\ cpc' = "retry"
        <4>1. cbQ' \in Sorted(Callbacks, MaxAttempts) /\ Holds(cbQ', cmsg)
          BY <3>1, <3>5, CallbackQueueCommands
        <4>2. Waiting(cbQ', Reports(t)) > 0
          BY <3>5, <4>1, HeldWaits DEF Sorted
        <4>3. QED
          BY <4>2 DEF Watched, Reports
      <3>6. QED
        BY <3>1, <3>2, <3>3, <3>4, <3>5
    <2>7. CASE RequeueCallback
      <3>1. cpc = "requeue" /\ cbQ' \in {cbQ, PushRetried(cbQ, cmsg, MaxAttempts)}
        BY <2>7 DEF RequeueCallback
      <3>2. QED
        BY <2>1, <2>2, <3>1, ReportsWaiting DEF CFree, Bit
    <2>8. CASE CallbackStep
      BY <2>2, <2>4, <2>5, <2>6, <2>7, <2>8
         DEF CallbackStep, LoadCallbackJob, StoreTrack, MarkCopyReady, SaveReady, AnnounceReady,
             SaveFailed
    <2>9. ASSUME NEW u \in Tasks, PollFetch(u) PROVE Watched(t)'
      <3>1. DetailsCallbacks(suno[u]) \subseteq CallbackTypes
        BY DEF DetailsCallbacks, CallbackTypes
      <3>2. QED
        BY <2>2, <2>3, <2>9, <3>1 DEF PollFetch
    <2>10. ASSUME NEW u \in Tasks, SunoCallback(u) PROVE Watched(t)'
      <3>1. SunoCallbackType(suno[u]) \in CallbackTypes
        BY DEF SunoCallbackType, CallbackTypes
      <3>2. QED
        BY <2>3, <2>10, <3>1 DEF SunoCallback, ReceiveCallback
    <2>11. QED
      BY <2>2, <2>8, <2>9, <2>10, CallbackQueueMoves
  <1>4. CASE cpc = "requeue" /\ cmsg \in Reports(t)
    <2>1. CASE UNCHANGED cVars
      BY <1>4, <2>1 DEF cVars, Watched, Reports
    <2>2. CASE RequeueCallback
      <3> SUFFICES ASSUME ~UNCHANGED cVars PROVE Watched(t)'
        BY <2>1
      <3>1. cbQ'.main # cbQ.main
        BY <1>4, <2>2 DEF RequeueCallback, ForgetsTask, Reports
      <3>2. cbQ' = PushRetried(cbQ, cmsg, MaxAttempts)
        BY <2>2, <3>1 DEF RequeueCallback
      <3>3. ~MovesToDLQ(cmsg, MaxAttempts)
        BY <1>4, <3>1, <3>2, ReportsWaiting DEF CFree
      <3>4. Waiting(cbQ', Reports(t)) = Waiting(cbQ, Reports(t)) + 1
        BY <1>4, <3>2, <3>3, ReportsWaiting DEF CFree, Bit
      <3>5. Waiting(cbQ', Reports(t)) > 0
        BY <3>4, ReportsWaiting
      <3>6. QED
        BY <3>5 DEF Watched, Reports
    <2>3. CASE WorkerCrash
      BY <1>4, <2>3 DEF ForgetsTask
    <2>4. QED
      BY <1>4, <2>1, <2>2, <2>3, CallbackConsumerMoves
         DEF CallbackStep, RecoverCallbacks, DequeueCallback, LoadCallbackJob, StoreTrack,
             MarkCopyReady, SaveReady, AnnounceReady, SaveFailed, AckCallback, RetryCallback,
             WorkerRestart, Together
  <1>5. QED
    BY <1>1, <1>2, <1>3, <1>4 DEF Watched

LEMMA ProcessingIsWatchedNext ==
    ASSUME TypeInv, Unbound, Owned, Together, CopyTrue, Settled, ProcessingIsWatched,
           PollFallback, [Next]_vars, ~ForgetsTask
    PROVE  ProcessingIsWatched'
  <1> SUFFICES ASSUME NEW j \in Jobs, jobs'[j].status = "processing"
               PROVE  \E t \in Tasks : jobs'[j].task = t /\ Watched(t)'
    BY DEF ProcessingIsWatched, Watched, Reports
  <1>1. CASE jobs'[j] # jobs[j]
    <2>1. /\ wpc = "save" /\ wpc' \in {"announce", "retry"} /\ UNCHANGED wtask
          /\ jobs'[j].task = wtask
      BY <1>1, BecomesProcessing
    <2>2. wpc' = "announce" /\ wtask \in Tasks
      BY <1>1, <2>1 DEF ForgetsTask, Owned
    <2>3. QED
      BY <2>1, <2>2 DEF Watched
  <1>2. CASE jobs'[j] = jobs[j]
    <2>1. PICK t \in Tasks : jobs[j].task = t /\ Watched(t)
      BY <1>2 DEF ProcessingIsWatched
    <2>2. Watched(t)'
      BY <1>2, <2>1, WatchStays
    <2>3. QED
      BY <1>2, <2>1, <2>2
  <1>3. QED
    BY <1>1, <1>2

\* With the fallback pollers, and unless a generation is forgotten in one of these ways, a
\* job that is processing is watched, whatever else fails: callbacks that come before
\* the row is saved, twice or never, reports nobody can apply yet, and messages
\* recovered while they are handled.
THEOREM NoGenerationIsForgotten ==
    ASSUME PollFallback
    PROVE  Spec /\ [][~ForgetsTask]_vars => []ProcessingIsWatched
  <1> DEFINE I == TypeInv /\ Unbound /\ Owned /\ Together /\ CopyTrue /\ Settled
                    /\ ProcessingIsWatched
  <1>1. Init => I
    BY TypeInit DEF Init, Unbound, Owned, Carries, Together, CopyTrue, Settled, ProcessingIsWatched,
                    NoRow, HoldsCopy
  <1>2. I /\ [Next]_vars /\ [~ForgetsTask]_vars => I'
    <2>1. CASE UNCHANGED vars
      <3>1. I => TypeInv'
        BY <2>1, TypeNext
      <3>2. QED
        BY <2>1, <3>1 DEF vars, Unbound, Owned, Carries, Together, CopyTrue, Settled, Ended,
                          ProcessingIsWatched, Watched, Reports, HoldsCopy, theJob
    <2>2. CASE ~ForgetsTask
      BY <2>2, TypeNext, UnboundNext, OwnedNext, TogetherNext, CopyTrueNext, SettledNext,
         ProcessingIsWatchedNext
    <2>3. QED
      BY <2>1, <2>2
  <1>3. I => ProcessingIsWatched
    OBVIOUS
  <1> HIDE DEF I
  <1>4. QED
    BY <1>1, <1>2, <1>3, PTL DEF Spec

-----------------------------------------------------------------------------
\* No reservation is left behind.  From the dequeue to the LREM of the acknowledgement
\* or of the retry, a consumer has reserved the message it works on and no other;
\* the rest of the time nothing is reserved, until Recover has run again.
Reserving == {"load", "generate", "store", "save", "announce", "refuse", "announceRefusal",
              "fail", "ack", "retry"}

OneReserved(pc, msg, q) ==
    /\ pc \in Reserving => q.processing = <<msg>>
    /\ pc \notin Reserving \cup {"down", "recover"} => q.processing = <<>>

ReservedIsHandled == OneReserved(wpc, wmsg, jobQ) /\ OneReserved(cpc, cmsg, cbQ)

\* The ways to leave a reservation behind, for as long as the worker lives: Recover is
\* cut short by an error, the reply of a dequeue is lost, or LREM fails and removes
\* nothing.
CutsShort(pc, next, q, after) ==
    /\ next = "idle"
    /\ \/ pc = "recover" /\ q.processing # <<>>
       \/ pc = "idle" /\ after.processing # q.processing
       \/ pc \in {"ack", "retry"} /\ after.processing = q.processing

LeavesReserved == CutsShort(wpc, wpc', jobQ, jobQ') \/ CutsShort(cpc, cpc', cbQ, cbQ')

LEMMA JobReservationNext ==
    ASSUME TypeInv, OneReserved(wpc, wmsg, jobQ), [Next]_vars, ~CutsShort(wpc, wpc', jobQ, jobQ')
    PROVE  OneReserved(wpc, wmsg, jobQ)'
  <1> USE DEF WGoto, WIdle, wVars, OneReserved, Reserving
  <1>1. /\ jobQ \in [main : Seq(Fresh(Jobs, MaxAttempts)), processing : Seq(Fresh(Jobs, MaxAttempts)),
                     dlq : Seq(Spent(Jobs, MaxAttempts))]
        /\ wpc \in {"ack", "retry"} => wmsg \in Fresh(Jobs, MaxAttempts)
    BY DEF TypeInv, QueuesTyped, WorkerTyped, WFree, Sorted
  <1>2. CASE UNCHANGED <<jobQ, wVars>>
    BY <1>2
  <1>3. ASSUME NEW j \in Jobs, EnqueueJob(j)
        PROVE  OneReserved(wpc, wmsg, jobQ)'
    <2>1. UNCHANGED <<wpc, wmsg>> /\ jobQ'.processing = jobQ.processing
      BY <1>1, <1>3, OneReservation DEF EnqueueJob
    <2>2. QED
      BY <2>1
  <1>4. CASE JobStep
    <2>1. CASE RecoverJobs
      BY <2>1 DEF RecoverJobs, CutsShort
    <2>2. CASE DequeueJob
      <3>1. wpc = "idle" /\ jobQ'.processing = <<ReservedMessage(jobQ)>>
        BY <1>1, <2>2, OneReservation DEF DequeueJob
      <3>2. jobQ'.processing # jobQ.processing
        BY <3>1
      <3>3. wpc' = "load" /\ wmsg' = ReservedMessage(jobQ)
        BY <2>2, <3>1, <3>2 DEF DequeueJob, CutsShort
      <3>4. QED
        BY <3>1, <3>3
    <2>3. CASE AckJob \/ RetryJob
      <3>1. wpc \in {"ack", "retry"}
        BY <2>3 DEF AckJob, RetryJob
      <3>2. RemoveReserved(jobQ, wmsg).processing = <<>>
        BY <1>1, <3>1, OneReservation
      <3>3. ~Holds(RemoveReserved(jobQ, wmsg), wmsg)
        BY <3>2 DEF Holds, Contains
      <3>4. /\ wpc' \in {"idle", "requeue"}
            /\ jobQ' = jobQ \/ jobQ' = RemoveReserved(jobQ, wmsg)
            /\ wpc' = "requeue" => jobQ' = RemoveReserved(jobQ, wmsg)
        BY <2>3, <3>3 DEF AckJob, RetryJob
      <3>5. QED
        BY <3>1, <3>2, <3>4 DEF CutsShort
    <2>4. CASE RequeueJob
      <3>1. /\ wpc = "requeue" /\ wpc' \in {"idle", "exhaust", "requeue"}
            /\ jobQ' = jobQ \/ jobQ' = PushRetried(jobQ, wmsg, MaxAttempts)
        BY <2>4 DEF RequeueJob
      <3>2. jobQ'.processing = jobQ.processing
        BY <1>1, <3>1, OneReservation
      <3>3. QED
        BY <3>1, <3>2
    <2>5. CASE LoadJob \/ GenerateMusic \/ SaveProcessing \/ AnnounceProcessing \/ SaveRefused
               \/ AnnounceRefused
      BY <2>5 DEF LoadJob, GenerateMusic, SaveProcessing, AnnounceProcessing, SaveRefused,
                  AnnounceRefused
    <2>6. CASE LoadExhausted \/ SaveExhausted \/ AnnounceExhausted
      BY <2>6 DEF LoadExhausted, SaveExhausted, AnnounceExhausted
    <2>7. QED
      BY <1>4, <2>1, <2>2, <2>3, <2>4, <2>5, <2>6 DEF JobStep
  <1>5. CASE WorkerCrash \/ WorkerRestart
    BY <1>5 DEF WorkerCrash, WorkerRestart
  <1>6. QED
    BY <1>2, <1>3, <1>4, <1>5, ConsumerMoves

LEMMA CallbackReservationNext ==
    ASSUME TypeInv, OneReserved(cpc, cmsg, cbQ), [Next]_vars, ~CutsShort(cpc, cpc', cbQ, cbQ')
    PROVE  OneReserved(cpc, cmsg, cbQ)'
  <1> USE DEF CGoto, CIdle, cVars, OneReserved, Reserving
  <1>1. /\ cbQ \in [main : Seq(Fresh(Callbacks, MaxAttempts)),
                    processing : Seq(Fresh(Callbacks, MaxAttempts)),
                    dlq : Seq(Spent(Callbacks, MaxAttempts))]
        /\ cpc \in {"ack", "retry"} => cmsg \in Fresh(Callbacks, MaxAttempts)
    BY DEF TypeInv, QueuesTyped, CallbackTyped, CFree, Sorted
  <1>2. CASE UNCHANGED cbQ /\ UNCHANGED cVars
    BY <1>2
  <1>3. ASSUME NEW t \in Tasks, PollFetch(t) \/ SunoCallback(t)
        PROVE  OneReserved(cpc, cmsg, cbQ)'
    <2>1. cbQ' = cbQ \/ \E m : cbQ' = PushMain(cbQ, m)
      BY <1>3 DEF PollFetch, SunoCallback, ReceiveCallback
    <2>2. UNCHANGED <<cpc, cmsg>> /\ cbQ'.processing = cbQ.processing
      BY <1>1, <1>3, <2>1, OneReservation DEF PollFetch, SunoCallback
    <2>3. QED
      BY <2>2
  <1>4. CASE CallbackStep
    <2>1. CASE RecoverCallbacks
      BY <2>1 DEF RecoverCallbacks, CutsShort
    <2>2. CASE DequeueCallback
      <3>1. cpc = "idle" /\ cbQ'.processing = <<ReservedMessage(cbQ)>>
        BY <1>1, <2>2, OneReservation DEF DequeueCallback
      <3>2. cbQ'.processing # cbQ.processing
        BY <3>1
      <3>3. cpc' = "load" /\ cmsg' = ReservedMessage(cbQ)
        BY <2>2, <3>1, <3>2 DEF DequeueCallback, CutsShort
      <3>4. QED
        BY <3>1, <3>3
    <2>3. CASE AckCallback \/ RetryCallback
      <3>1. cpc \in {"ack", "retry"}
        BY <2>3 DEF AckCallback, RetryCallback
      <3>2. RemoveReserved(cbQ, cmsg).processing = <<>>
        BY <1>1, <3>1, OneReservation
      <3>3. ~Holds(RemoveReserved(cbQ, cmsg), cmsg)
        BY <3>2 DEF Holds, Contains
      <3>4. /\ cpc' \in {"idle", "requeue"}
            /\ cbQ' = cbQ \/ cbQ' = RemoveReserved(cbQ, cmsg)
            /\ cpc' = "requeue" => cbQ' = RemoveReserved(cbQ, cmsg)
        BY <2>3, <3>3 DEF AckCallback, RetryCallback
      <3>5. QED
        BY <3>1, <3>2, <3>4 DEF CutsShort
    <2>4. CASE RequeueCallback
      <3>1. /\ cpc = "requeue" /\ cpc' \in {"idle", "requeue"}
            /\ cbQ' = cbQ \/ cbQ' = PushRetried(cbQ, cmsg, MaxAttempts)
        BY <2>4 DEF RequeueCallback
      <3>2. cbQ'.processing = cbQ.processing
        BY <1>1, <3>1, OneReservation
      <3>3. QED
        BY <3>1, <3>2
    <2>5. CASE LoadCallbackJob
      <3>1. cmsg.payload.type \in CallbackTypes
        BY <2>5 DEF LoadCallbackJob, TypeInv, CallbackTyped, CFree, Fresh, Callbacks
      <3>2. \A type \in CallbackTypes : \A row : HandleNext(type, row) \in Reserving
        BY DEF HandleNext, CallbackTypes
      <3>3. cpc = "load" /\ cpc' \in Reserving /\ UNCHANGED <<cbQ, cmsg>>
        BY <2>5, <3>1, <3>2 DEF LoadCallbackJob
      <3>4. QED
        BY <3>3
    <2>6. CASE StoreTrack \/ MarkCopyReady \/ SaveReady \/ AnnounceReady \/ SaveFailed
      BY <2>6 DEF StoreTrack, MarkCopyReady, SaveReady, AnnounceReady, SaveFailed
    <2>7. QED
      BY <1>4, <2>1, <2>2, <2>3, <2>4, <2>5, <2>6 DEF CallbackStep
  <1>5. CASE WorkerCrash \/ WorkerRestart
    BY <1>5 DEF WorkerCrash, WorkerRestart
  <1>6. QED
    BY <1>2, <1>3, <1>4, <1>5, CallbackQueueMoves, CallbackConsumerMoves

\* As long as no command fails in one of these ways, each consumer has reserved exactly
\* what it works on, whatever else fails and however often the worker dies: a retry
\* and an acknowledgement find the message, and nothing waits for the next restart.
THEOREM NoReservationIsLeft == Spec /\ [][~LeavesReserved]_vars => []ReservedIsHandled
  <1> DEFINE I == TypeInv /\ ReservedIsHandled
  <1>1. Init => I
    BY TypeInit DEF Init, ReservedIsHandled, OneReserved, Reserving
  <1>2. I /\ [Next]_vars /\ [~LeavesReserved]_vars => I'
    <2>1. CASE UNCHANGED vars
      BY <2>1, TypeNext DEF vars, ReservedIsHandled, OneReserved
    <2>2. CASE ~LeavesReserved
      BY <2>2, TypeNext, JobReservationNext, CallbackReservationNext
         DEF LeavesReserved, ReservedIsHandled
    <2>3. QED
      BY <2>1, <2>2
  <1>3. I => ReservedIsHandled
    OBVIOUS
  <1> HIDE DEF I
  <1>4. QED
    BY <1>1, <1>2, <1>3, PTL DEF Spec

\* Who will start a queued job: its request, which has yet to enqueue it, the job
\* consumer, whose list has a message about it or which has it at work, or Recover,
\* which the worker is about to run, or running.
Startable(j) ==
    \/ api[j] \in {"inserted", "undo"}
    \/ \E i \in DOMAIN jobQ.main : jobQ.main[i].payload = j
    \/ ~WFree /\ theJob = j
    \/ /\ wpc \in {"down", "recover"}
       /\ \E i \in DOMAIN jobQ.processing : jobQ.processing[i].payload = j

QueuedIsStartable == \A j \in Jobs : jobs[j].status = "queued" => Startable(j)

\* The two together: unless a failure leaves a job or a reservation behind, a queued
\* job never waits for a restart that nobody has a reason to make.
THEOREM NoQueuedJobIsStuck ==
    Spec /\ [][~LeavesQueued]_vars /\ [][~LeavesReserved]_vars => []QueuedIsStartable
  <1>1. TypeInv /\ QueuedIsInHand /\ ReservedIsHandled => QueuedIsStartable
    <2> SUFFICES ASSUME TypeInv, QueuedIsInHand, ReservedIsHandled,
                        NEW j \in Jobs, jobs[j].status = "queued"
                 PROVE  Startable(j)
      BY DEF QueuedIsStartable
    <2> DEFINE X == MessagesOf(j)
    <2>1. /\ jobQ.main \in Seq(Fresh(Jobs, MaxAttempts))
          /\ jobQ.processing \in Seq(Fresh(Jobs, MaxAttempts))
      BY DEF TypeInv, QueuesTyped, Sorted
    <2>2. \A m \in X : m.payload = j
      BY DEF MessagesOf
    <2>3. Count(jobQ.main, X) \in Nat /\ Count(jobQ.processing, X) \in Nat
      BY <2>1, PlacesFinite
    <2> HIDE DEF X
    <2>4. CASE Count(jobQ.main, X) > 0
      <3>1. \E i \in DOMAIN jobQ.main : jobQ.main[i] \in X
        BY <2>1, <2>4, CountedIsThere
      <3>2. QED
        BY <2>2, <3>1 DEF Startable
    <2>5. CASE Count(jobQ.processing, X) > 0
      <3>1. PICK i \in DOMAIN jobQ.processing : jobQ.processing[i] \in X
        BY <2>1, <2>5, CountedIsThere
      <3>2. jobQ.processing # <<>>
        BY <3>1
      <3>3. CASE wpc \in {"down", "recover"}
        BY <2>2, <3>1, <3>3 DEF Startable
      <3>4. CASE wpc \notin {"down", "recover"}
        <4>1. wpc \in Reserving /\ jobQ.processing = <<wmsg>>
          BY <3>2, <3>4 DEF ReservedIsHandled, OneReserved
        <4>2. jobQ.processing[i] = wmsg
          BY <3>1, <4>1
        <4>3. ~WFree /\ theJob = j
          BY <2>2, <3>1, <4>1, <4>2 DEF WFree, Reserving, theJob
        <4>4. QED
          BY <4>3 DEF Startable
      <3>5. QED
        BY <3>3, <3>4
    <2>6. CASE wpc \in {"requeue", "exhaust", "bury"} /\ theJob = j
      BY <2>6 DEF Startable, WFree
    <2>7. CASE api[j] \in {"inserted", "undo"}
      BY <2>7 DEF Startable
    <2>8. InHand(j)
      BY DEF QueuedIsInHand
    <2>9. QED
      BY <2>3, <2>4, <2>5, <2>6, <2>7, <2>8 DEF InHand, Waiting, X
  <1>2. Spec => []TypeInv
    BY TypeInit, TypeNext, PTL DEF Spec
  <1>3. QED
    BY <1>1, <1>2, NoQueuedJobIsLeft, NoReservationIsLeft, PTL

-----------------------------------------------------------------------------
\* Nothing is left behind by itself.  What a consumer works on is among its
\* reservations, even if others are too.
Held ==
    /\ wpc \in Reserving => Holds(jobQ, wmsg)
    /\ cpc \in Reserving => Holds(cbQ, cmsg)

LEMMA JobHeldNext ==
    ASSUME TypeInv, Held, [Next]_vars
    PROVE  wpc' \in Reserving => Holds(jobQ', wmsg')
  <1> USE DEF WGoto, WIdle, wVars, Held, Reserving
  <1>1. jobQ \in [main : Seq(Fresh(Jobs, MaxAttempts)), processing : Seq(Fresh(Jobs, MaxAttempts)),
                   dlq : Seq(Spent(Jobs, MaxAttempts))]
    BY DEF TypeInv, QueuesTyped, Sorted
  <1>2. CASE UNCHANGED <<jobQ, wVars>>
    BY <1>2
  <1>3. ASSUME NEW j \in Jobs, EnqueueJob(j)
        PROVE  wpc' \in Reserving => Holds(jobQ', wmsg')
    <2>1. UNCHANGED <<wpc, wmsg>> /\ jobQ'.processing = jobQ.processing
      BY <1>1, <1>3, OneReservation DEF EnqueueJob
    <2>2. QED
      BY <2>1 DEF Holds
  <1>4. CASE JobStep
    <2>1. CASE DequeueJob
      BY <1>1, <2>1, CommandsChange DEF DequeueJob
    <2>2. CASE RecoverJobs \/ AckJob \/ RetryJob \/ RequeueJob
      BY <2>2 DEF RecoverJobs, AckJob, RetryJob, RequeueJob
    <2>3. CASE LoadJob \/ GenerateMusic \/ SaveProcessing \/ AnnounceProcessing \/ SaveRefused
               \/ AnnounceRefused
      BY <2>3 DEF LoadJob, GenerateMusic, SaveProcessing, AnnounceProcessing, SaveRefused,
                  AnnounceRefused
    <2>4. CASE LoadExhausted \/ SaveExhausted \/ AnnounceExhausted
      BY <2>4 DEF LoadExhausted, SaveExhausted, AnnounceExhausted
    <2>5. QED
      BY <1>4, <2>1, <2>2, <2>3, <2>4 DEF JobStep
  <1>5. CASE WorkerCrash \/ WorkerRestart
    BY <1>5 DEF WorkerCrash, WorkerRestart
  <1>6. QED
    BY <1>2, <1>3, <1>4, <1>5, ConsumerMoves

LEMMA CallbackHeldNext ==
    ASSUME TypeInv, Held, [Next]_vars
    PROVE  cpc' \in Reserving => Holds(cbQ', cmsg')
  <1> USE DEF CGoto, CIdle, cVars, Held, Reserving
  <1>1. cbQ \in [main : Seq(Fresh(Callbacks, MaxAttempts)),
                  processing : Seq(Fresh(Callbacks, MaxAttempts)),
                  dlq : Seq(Spent(Callbacks, MaxAttempts))]
    BY DEF TypeInv, QueuesTyped, Sorted
  <1>2. CASE UNCHANGED cbQ /\ UNCHANGED cVars
    BY <1>2
  <1>3. ASSUME NEW t \in Tasks, PollFetch(t) \/ SunoCallback(t)
        PROVE  cpc' \in Reserving => Holds(cbQ', cmsg')
    <2>1. cbQ' = cbQ \/ \E m : cbQ' = PushMain(cbQ, m)
      BY <1>3 DEF PollFetch, SunoCallback, ReceiveCallback
    <2>2. UNCHANGED <<cpc, cmsg>> /\ cbQ'.processing = cbQ.processing
      BY <1>1, <1>3, <2>1, OneReservation DEF PollFetch, SunoCallback
    <2>3. QED
      BY <2>2 DEF Holds
  <1>4. CASE CallbackStep
    <2>1. CASE DequeueCallback
      BY <1>1, <2>1, CommandsChange DEF DequeueCallback
    <2>2. CASE RecoverCallbacks \/ AckCallback \/ RetryCallback \/ RequeueCallback
      BY <2>2 DEF RecoverCallbacks, AckCallback, RetryCallback, RequeueCallback
    <2>3. CASE LoadCallbackJob
      BY <2>3 DEF LoadCallbackJob
    <2>4. CASE StoreTrack \/ MarkCopyReady \/ SaveReady \/ AnnounceReady \/ SaveFailed
      BY <2>4 DEF StoreTrack, MarkCopyReady, SaveReady, AnnounceReady, SaveFailed
    <2>5. QED
      BY <1>4, <2>1, <2>2, <2>3, <2>4 DEF CallbackStep
  <1>5. CASE WorkerCrash \/ WorkerRestart
    BY <1>5 DEF WorkerCrash, WorkerRestart
  <1>6. QED
    BY <1>2, <1>3, <1>4, <1>5, CallbackQueueMoves, CallbackConsumerMoves

\* A consumer that acknowledges or retries finds its message among the reservations,
\* whatever failed before: the branch of Retry that pushes nothing because LREM
\* removed nothing is never taken by a consumer that is alone, unless it was its own
\* LREM, whose reply was lost, that had removed the message.
THEOREM RetryFindsItsMessage == Spec => []Held
  <1> DEFINE I == TypeInv /\ Held
  <1>1. Init => I
    BY TypeInit DEF Init, Held, Reserving
  <1>2. I /\ [Next]_vars => I'
    BY TypeNext, JobHeldNext, CallbackHeldNext DEF Held
  <1>3. I => Held
    OBVIOUS
  <1> HIDE DEF I
  <1>4. QED
    BY <1>1, <1>2, <1>3, PTL DEF Spec

Fails == faults' = faults + 1

\* A queued job is left by a failure.
LEMMA QueuedIsLeftByFailure ==
    ASSUME TypeInv, [Next]_vars, LeavesQueued
    PROVE  Fails
  <1> USE DEF Fails, Fault, NoFault
  <1>1. ASSUME NEW j \in Jobs, api[j] # "dead", api'[j] = "dead", jobs'[j].status = "queued"
        PROVE  Fails
    <2>1. CASE ApiCrash
      BY <2>1 DEF ApiCrash
    <2>2. ASSUME NEW k \in Jobs, CreateJob(k)
          PROVE  Fails
      BY <1>1, <2>2
         DEF CreateJob, InsertJob, EnqueueJob, UndoCreate, WriteRowFails, TypeInv, SharedTyped
    <2>3. QED
      BY <1>1, <2>1, <2>2, RequestMoves
  <1>2. ASSUME NEW j \in Jobs, UndoCreate(j), jobs'[j].status = "queued"
        PROVE  Fails
    <2>1. MarkFailed(NewJob).status # "queued"
      BY DEF MarkFailed
    <2>2. WriteRow(j, MarkFailed(NewJob)) => jobs'[j] = MarkFailed(NewJob)
      BY DEF WriteRow, TypeInv, SharedTyped
    <2>3. QED
      BY <1>2, <2>1, <2>2 DEF UndoCreate, WriteRowFails
  <1>3. ASSUME wpc \in {"retry", "requeue", "exhaust", "bury"},
               jobs[theJob].status = "queued", jobs'[theJob].status = "queued",
               \/ wpc = "retry" /\ wpc' = "idle" /\ jobQ' # jobQ
               \/ wpc = "requeue" /\ wpc' \in {"idle", "down"} /\ jobQ'.main = jobQ.main
               \/ wpc \in {"exhaust", "bury"} /\ wpc' \in {"idle", "down"}
        PROVE  Fails
    <2> USE DEF WGoto
    <2>1. /\ jobQ \in [main : Seq(Fresh(Jobs, MaxAttempts)),
                       processing : Seq(Fresh(Jobs, MaxAttempts)),
                       dlq : Seq(Spent(Jobs, MaxAttempts))]
          /\ theJob \in Jobs
      BY <1>3 DEF TypeInv, QueuesTyped, WorkerTyped, WFree, Sorted, Fresh, theJob
    <2>2. CASE RetryJob
      BY <1>3, <2>2 DEF RetryJob
    <2>3. CASE RequeueJob
      BY <1>3, <2>1, <2>3, CommandsChange DEF RequeueJob
    <2>4. CASE LoadExhausted
      BY <1>3, <2>4 DEF LoadExhausted, MayMarkFailed
    <2>5. CASE SaveExhausted
      BY <1>3, <2>5 DEF SaveExhausted, WriteRowFails
    <2>6. CASE WorkerCrash
      BY <2>6 DEF WorkerCrash
    <2>7. CASE UNCHANGED wpc
      BY <1>3, <2>7
    <2>8. QED
      BY <1>3, <2>2, <2>3, <2>4, <2>5, <2>6, <2>7, ConsumerMoves
         DEF JobStep, RecoverJobs, DequeueJob, LoadJob, GenerateMusic, SaveProcessing,
             AnnounceProcessing, SaveRefused, AnnounceRefused, AckJob, AnnounceExhausted,
             EnqueueJob, WorkerRestart, wVars
  <1>4. QED
    BY <1>1, <1>2, <1>3 DEF LeavesQueued

\* News is lost by a failure.
LEMMA NewsIsLostByFailure ==
    ASSUME TypeInv, Together, [Next]_vars, LosesNews
    PROVE  Fails
  <1> USE DEF Fails, Fault, NoFault, CGoto
  <1>1. ASSUME \/ cpc = "save" /\ cpc' = "retry"
               \/ cpc = "announce" /\ cpc' # "announce" /\ UNCHANGED events
        PROVE  Fails
    <2>1. ASSUME cpc = "announce", Publish(cjob)
          PROVE  events' # events
      <3>1. cjob \in Jobs
        BY <2>1 DEF TypeInv, CallbackTyped, HoldsCopy
      <3>2. events'[cjob] = events[cjob] + 1 /\ events[cjob] \in Nat
        BY <2>1, <3>1 DEF Publish, TypeInv, SharedTyped
      <3>3. QED
        BY <3>2
    <2>2. CASE SaveReady
      BY <1>1, <2>2 DEF SaveReady, WriteRowFails
    <2>3. CASE AnnounceReady
      BY <1>1, <2>1, <2>3 DEF AnnounceReady
    <2>4. CASE WorkerCrash
      BY <2>4 DEF WorkerCrash
    <2>5. CASE UNCHANGED cpc
      BY <1>1, <2>5
    <2>6. QED
      BY <1>1, <2>2, <2>3, <2>4, <2>5, CallbackConsumerMoves
         DEF CallbackStep, RecoverCallbacks, DequeueCallback, LoadCallbackJob, StoreTrack,
             MarkCopyReady, SaveFailed, AckCallback, RetryCallback, RequeueCallback,
             WorkerRestart, Together, cVars
  <1>2. ASSUME SubscriberStep, faults' # faults
        PROVE  Fails
    BY <1>2 DEF SubscriberStep, ReadUpdatedJob, PushJob
  <1>3. CASE ApiCrash
    BY <1>3 DEF ApiCrash
  <1>4. QED
    BY <1>1, <1>2, <1>3 DEF LosesNews

\* A reservation is left by a failure.
LEMMA ReservationIsLeftByFailure ==
    ASSUME TypeInv, Held, [Next]_vars, LeavesReserved
    PROVE  Fails
  <1> USE DEF Fails, Fault, NoFault
  <1>1. ASSUME CutsShort(wpc, wpc', jobQ, jobQ')
        PROVE  Fails
    <2> USE DEF WGoto
    <2>1. /\ jobQ \in [main : Seq(Fresh(Jobs, MaxAttempts)),
                       processing : Seq(Fresh(Jobs, MaxAttempts)),
                       dlq : Seq(Spent(Jobs, MaxAttempts))]
          /\ wpc \in {"ack", "retry"} => wmsg \in Fresh(Jobs, MaxAttempts)
      BY DEF TypeInv, QueuesTyped, WorkerTyped, WFree, Sorted
    <2>2. wpc \in {"ack", "retry"} => RemoveReserved(jobQ, wmsg).processing # jobQ.processing
      BY <2>1, CommandsChange DEF Held, Reserving
    <2>3. /\ wpc \in {"recover", "idle", "ack", "retry"} /\ wpc' = "idle"
          /\ wpc = "recover" => jobQ.processing # <<>>
          /\ wpc = "idle" => jobQ'.processing # jobQ.processing
          /\ wpc \in {"ack", "retry"} => jobQ'.processing = jobQ.processing
      BY <1>1 DEF CutsShort
    <2>4. CASE RecoverJobs
      BY <2>3, <2>4 DEF RecoverJobs, wVars
    <2>5. CASE DequeueJob
      BY <2>3, <2>5 DEF DequeueJob
    <2>6. CASE AckJob
      BY <2>2, <2>3, <2>6 DEF AckJob
    <2>7. CASE RetryJob
      BY <2>2, <2>3, <2>7 DEF RetryJob, Held, Reserving
    <2>8. ASSUME NEW j \in Jobs, EnqueueJob(j)
          PROVE  Fails
      <3>1. UNCHANGED wpc /\ jobQ'.processing = jobQ.processing
        BY <2>1, <2>8, OneReservation DEF EnqueueJob, wVars
      <3>2. QED
        BY <2>3, <3>1
    <2>9. CASE UNCHANGED <<jobQ, wVars>>
      BY <2>3, <2>9 DEF wVars
    <2>10. QED
      BY <2>3, <2>4, <2>5, <2>6, <2>7, <2>8, <2>9, ConsumerMoves
         DEF JobStep, LoadJob, GenerateMusic, SaveProcessing,
             AnnounceProcessing, SaveRefused, AnnounceRefused, RequeueJob, LoadExhausted,
             SaveExhausted, AnnounceExhausted, WorkerCrash, WorkerRestart
  <1>2. ASSUME CutsShort(cpc, cpc', cbQ, cbQ')
        PROVE  Fails
    <2> USE DEF CGoto
    <2>1. /\ cbQ \in [main : Seq(Fresh(Callbacks, MaxAttempts)),
                      processing : Seq(Fresh(Callbacks, MaxAttempts)),
                      dlq : Seq(Spent(Callbacks, MaxAttempts))]
          /\ cpc \in {"ack", "retry"} => cmsg \in Fresh(Callbacks, MaxAttempts)
      BY DEF TypeInv, QueuesTyped, CallbackTyped, CFree, Sorted
    <2>2. cpc \in {"ack", "retry"} => RemoveReserved(cbQ, cmsg).processing # cbQ.processing
      BY <2>1, CommandsChange DEF Held, Reserving
    <2>3. /\ cpc \in {"recover", "idle", "ack", "retry"} /\ cpc' = "idle"
          /\ cpc = "recover" => cbQ.processing # <<>>
          /\ cpc = "idle" => cbQ'.processing # cbQ.processing
          /\ cpc \in {"ack", "retry"} => cbQ'.processing = cbQ.processing
      BY <1>2 DEF CutsShort
    <2>4. CASE RecoverCallbacks
      BY <2>3, <2>4 DEF RecoverCallbacks, cVars
    <2>5. CASE DequeueCallback
      BY <2>3, <2>5 DEF DequeueCallback
    <2>6. CASE AckCallback
      BY <2>2, <2>3, <2>6 DEF AckCallback
    <2>7. CASE RetryCallback
      BY <2>2, <2>3, <2>7 DEF RetryCallback, Held, Reserving
    <2>8. ASSUME NEW t \in Tasks, PollFetch(t) \/ SunoCallback(t)
          PROVE  Fails
      <3>1. cbQ' = cbQ \/ \E m : cbQ' = PushMain(cbQ, m)
        BY <2>8 DEF PollFetch, SunoCallback, ReceiveCallback
      <3>2. UNCHANGED cpc /\ cbQ'.processing = cbQ.processing
        BY <2>1, <2>8, <3>1, OneReservation DEF PollFetch, SunoCallback, cVars
      <3>3. QED
        BY <2>3, <3>2
    <2>9. CASE UNCHANGED cbQ /\ UNCHANGED cVars
      BY <2>3, <2>9 DEF cVars
    <2>10. QED
      BY <2>3, <2>4, <2>5, <2>6, <2>7, <2>8, <2>9, CallbackQueueMoves, CallbackConsumerMoves
         DEF CallbackStep, LoadCallbackJob, StoreTrack, MarkCopyReady, SaveReady, AnnounceReady,
             SaveFailed, RequeueCallback, WorkerCrash, WorkerRestart
  <1>3. QED
    BY <1>1, <1>2 DEF LeavesReserved

\* Each of these ways to leave something behind is a failure.  (ForgetsTask is not one
\* of them: a callback that comes before the worker has saved its task is retried,
\* and ends in the dead letters, without anything having failed.)
THEOREM OnlyFailuresLeave ==
    Spec => [][LeavesQueued \/ LosesNews \/ LeavesReserved => Fails]_vars
  <1> DEFINE I == TypeInv /\ Together /\ Held
  <1>1. Init => I
    BY TypeInit DEF Init, Together, Held, Reserving
  <1>2. I /\ [Next]_vars => I'
    <2>1. CASE UNCHANGED vars
      BY <2>1, TypeNext, JobHeldNext, CallbackHeldNext DEF vars, Together, Held
    <2>2. CASE Next
      BY <2>2, TypeNext, TogetherNext, JobHeldNext, CallbackHeldNext DEF Held
    <2>3. QED
      BY <2>1, <2>2
  <1>3. I /\ [Next]_vars => [LeavesQueued \/ LosesNews \/ LeavesReserved => Fails]_vars
    BY QueuedIsLeftByFailure, NewsIsLostByFailure, ReservationIsLeftByFailure
  <1> HIDE DEF I
  <1>4. QED
    BY <1>1, <1>2, <1>3, PTL DEF Spec

\* Failures are counted and never forgotten.
LEMMA FailuresAreCounted ==
    ASSUME TypeInv, [Next]_vars
    PROVE  faults' \in {faults, faults + 1}
  <1> USE DEF Fault, NoFault, WriteRowFails
  <1>1. CASE \E j \in Jobs : CreateJob(j)
    BY <1>1 DEF CreateJob, InsertJob, EnqueueJob, UndoCreate
  <1>2. CASE SubscriberStep \/ ApiCrash
    BY <1>2 DEF SubscriberStep, ReadUpdatedJob, PushJob, ApiCrash
  <1>3. CASE JobStep
    BY <1>3
       DEF JobStep, RecoverJobs, DequeueJob, LoadJob, GenerateMusic, SaveProcessing,
           AnnounceProcessing, SaveRefused, AnnounceRefused, AckJob, RetryJob, RequeueJob,
           LoadExhausted, SaveExhausted, AnnounceExhausted
  <1>4. CASE CallbackStep
    BY <1>4
       DEF CallbackStep, RecoverCallbacks, DequeueCallback, LoadCallbackJob, StoreTrack,
           MarkCopyReady, SaveReady, AnnounceReady, SaveFailed, AckCallback, RetryCallback,
           RequeueCallback
  <1>5. CASE \E t \in Tasks : PollTick(t) \/ PollFetch(t) \/ PollTimeout(t)
    BY <1>5 DEF PollTick, PollFetch, PollTimeout
  <1>6. CASE (\E t \in Tasks : SunoFinish(t) \/ SunoCallback(t)) \/ WorkerCrash \/ WorkerRestart
    BY <1>6 DEF SunoFinish, SunoCallback, WorkerCrash, WorkerRestart
  <1>7. CASE UNCHANGED vars
    BY <1>7 DEF vars
  <1>8. QED
    BY <1>1, <1>2, <1>3, <1>4, <1>5, <1>6, <1>7 DEF Next

\* The report the callback consumer has found no job for and is about to put back, or
\* to drop: nobody may count on it.
Doubtful(t) == cpc = "retry" /\ cmsg \in Reports(t)

\* Who sees to it that a task ends, without the report in doubt.
SafelyWatched(t) ==
    \/ wpc = "announce" /\ wtask = t
    \/ poll[t] # "off"
    \/ Waiting(cbQ, Reports(t)) > Bit(Doubtful(t))

ProcessingIsSafe ==
    \A j \in Jobs : jobs[j].status = "processing" =>
        jobs[j].task \in Tasks /\ SafelyWatched(jobs[j].task)

LEMMA SafeIsWatched ==
    ASSUME TypeInv, ProcessingIsSafe
    PROVE  ProcessingIsWatched
  <1>1. \A t \in Tasks : Waiting(cbQ, Reports(t)) \in Nat
    BY ReportsWaiting
  <1>2. \A t \in Tasks : SafelyWatched(t) => Watched(t)
    BY <1>1 DEF SafelyWatched, Watched, Bit
  <1>3. QED
    BY <1>2 DEF ProcessingIsSafe, ProcessingIsWatched

\* While nothing fails, no report of a task that a row carries comes into doubt.
LEMMA NoNewDoubt ==
    ASSUME TypeInv, [Next]_vars, faults' = faults,
           NEW t \in Tasks, NEW j \in Jobs, jobs[j].task = t, Doubtful(t)'
    PROVE  UNCHANGED cVars
  <1> USE DEF CGoto, CIdle, Fault, WriteRowFails
  <1>1. faults \in Nat /\ faults' # faults + 1
    BY DEF TypeInv, SharedTyped
  <1>2. cpc' = "retry" /\ cmsg'.payload.task = t
    BY DEF Doubtful, Reports
  <1>3. CASE LoadCallbackJob
    <2>1. cmsg' = cmsg /\ j \in JobsOfTask(cmsg.payload.task)
      BY <1>2, <1>3 DEF LoadCallbackJob, JobsOfTask
    <2>2. cpc = "load" => cmsg.payload.type \in CallbackTypes
      BY DEF TypeInv, CallbackTyped, CFree, Fresh, Callbacks
    <2>3. \A type \in CallbackTypes : \A row : HandleNext(type, row) # "retry"
      BY DEF HandleNext, CallbackTypes
    <2>4. QED
      BY <1>1, <1>2, <1>3, <2>1, <2>2, <2>3 DEF LoadCallbackJob
  <1>4. CASE WorkerCrash \/ WorkerRestart
    BY <1>2, <1>4 DEF WorkerCrash, WorkerRestart
  <1>5. CASE RecoverCallbacks \/ DequeueCallback \/ AckCallback \/ RetryCallback \/ RequeueCallback
    BY <1>2, <1>5
       DEF RecoverCallbacks, DequeueCallback, AckCallback, RetryCallback, RequeueCallback
  <1>6. CASE StoreTrack \/ MarkCopyReady \/ SaveReady \/ AnnounceReady \/ SaveFailed
    BY <1>1, <1>2, <1>6 DEF StoreTrack, MarkCopyReady, SaveReady, AnnounceReady, SaveFailed
  <1>7. QED
    BY <1>3, <1>4, <1>5, <1>6, CallbackConsumerMoves DEF CallbackStep

\* While nothing fails, who watches over a task hands it on without a gap, even if reports
\* that came before the row was saved are dropped.
LEMMA SafeWatchStays ==
    ASSUME TypeInv, Owned, Settled, Held, PollFallback, [Next]_vars, faults' = faults,
           NEW t \in Tasks, NEW j \in Jobs, jobs[j].status = "processing", jobs[j].task = t,
           SafelyWatched(t)
    PROVE  SafelyWatched(t)'
  <1> USE DEF CGoto, CIdle, WGoto, WIdle, Fault, NoFault
  <1> DEFINE waiting == Waiting(cbQ, Reports(t))
             after == Waiting(cbQ', Reports(t))
  <1>1. faults \in Nat /\ faults' # faults + 1
    BY DEF TypeInv, SharedTyped
  <1>2. SafelyWatched(t)' <=> \/ wpc' = "announce" /\ wtask' = t
                             \/ poll'[t] # "off"
                             \/ after > Bit(cpc' = "retry" /\ cmsg' \in Reports(t))
    BY DEF SafelyWatched, Doubtful, Reports, Bit
  <1>3. waiting \in Nat
    BY ReportsWaiting
  <1>4. cpc' = "retry" /\ cmsg' \in Reports(t) => UNCHANGED cVars
    BY NoNewDoubt DEF Doubtful, Reports
  <1>5. /\ cbQ \in [main : Seq(Fresh(Callbacks, MaxAttempts)),
                   processing : Seq(Fresh(Callbacks, MaxAttempts)),
                   dlq : Seq(Spent(Callbacks, MaxAttempts))]
        /\ \A m : RemoveReserved(cbQ, m) \in [main : Seq(Fresh(Callbacks, MaxAttempts)),
                                             processing : Seq(Fresh(Callbacks, MaxAttempts)),
                                             dlq : Seq(Spent(Callbacks, MaxAttempts))]
    BY QueueOperationsType DEF TypeInv, QueuesTyped, Sorted
  <1>6. \A m : /\ Waiting(RemoveReserved(cbQ, m), Reports(t))
                      = waiting - Bit(Holds(cbQ, m) /\ m \in Reports(t))
               /\ Waiting(RemoveReserved(cbQ, m), Reports(t)) \in Nat
    BY <1>5, WaitingCommands
  <1>7. waiting >= Bit(Doubtful(t))
    <2>1. CASE Doubtful(t)
      <3>1. Holds(cbQ, cmsg) /\ cmsg \in Reports(t)
        BY <2>1 DEF Doubtful, Held, Reserving
      <3>2. waiting - 1 \in Nat
        BY <1>6, <3>1 DEF Bit
      <3>3. QED
        BY <1>3, <3>2 DEF Bit
    <2>2. QED
      BY <1>3, <2>1 DEF Bit
  <1> HIDE DEF waiting
  <1>8. CASE wpc = "announce" /\ wtask = t
    <2>1. CASE UNCHANGED wVars
      BY <1>2, <1>8, <2>1 DEF wVars
    <2>2. CASE AnnounceProcessing
      <3>1. poll'[t] = "tick"
        BY <1>1, <1>8, <2>2 DEF AnnounceProcessing, TypeInv, SunoTyped
      <3>2. QED
        BY <1>2, <3>1
    <2>3. CASE WorkerCrash
      BY <1>1, <2>3 DEF WorkerCrash
    <2>4. QED
      BY <1>8, <2>1, <2>2, <2>3, ConsumerMoves
         DEF EnqueueJob, WorkerRestart, JobStep, RecoverJobs, DequeueJob, LoadJob, GenerateMusic,
             SaveProcessing, SaveRefused, AnnounceRefused, AckJob, RetryJob, RequeueJob,
             LoadExhausted, SaveExhausted, AnnounceExhausted, wVars
  <1>9. CASE poll[t] # "off"
    <2>1. CASE poll'[t] # "off"
      BY <1>2, <2>1
    <2>2. CASE PollTick(t)
      <3>1. owner[t] = j
        BY PipelineAssumption DEF Owned, Carries
      <3>2. poll'[t] = "fetch"
        BY <2>2, <3>1 DEF PollTick, IsFinal, TypeInv, SunoTyped
      <3>3. QED
        BY <1>2, <3>2
    <2>3. CASE PollFetch(t) /\ poll'[t] = "off"
      <3>1. poll' # [poll EXCEPT ![t] = "tick"]
        BY <2>3 DEF TypeInv, SunoTyped
      <3>2. PICK type \in DetailsCallbacks(suno[t]) :
                cbQ' = PushMain(cbQ, [payload |-> [task |-> t, type |-> type], attempts |-> 0])
        BY <2>3, <3>1 DEF PollFetch
      <3>3. type \in {"complete", "error"}
        BY <3>2 DEF DetailsCallbacks
      <3>4. after = waiting + 1
        BY <3>2, <3>3, ReportsWaiting DEF CallbackTypes, Bit, waiting
      <3>5. (cpc' = "retry" /\ cmsg' \in Reports(t)) <=> Doubtful(t)
        BY <2>3 DEF PollFetch, Doubtful, cVars
      <3>6. Bit(cpc' = "retry" /\ cmsg' \in Reports(t)) = Bit(Doubtful(t))
        BY <3>5 DEF Bit
      <3>7. after > Bit(Doubtful(t))
        BY <1>3, <1>7, <3>4 DEF Bit
      <3>8. QED
        BY <1>2, <3>6, <3>7
    <2>4. CASE PollTimeout(t) \/ WorkerCrash
      BY <1>1, <2>4 DEF PollTimeout, WorkerCrash
    <2>5. QED
      BY <1>9, <2>1, <2>2, <2>3, <2>4, PollerStays
  <1>10. CASE waiting > Bit(Doubtful(t))
    <2>1. waiting > 0
      BY <1>3, <1>10 DEF Bit
    <2>2. CASE UNCHANGED cVars /\ after \in {waiting, waiting + 1}
      <3>1. (cpc' = "retry" /\ cmsg' \in Reports(t)) <=> Doubtful(t)
        BY <2>2 DEF Doubtful, cVars
      <3>2. Bit(cpc' = "retry" /\ cmsg' \in Reports(t)) = Bit(Doubtful(t))
        BY <3>1 DEF Bit
      <3>3. after > Bit(Doubtful(t))
        BY <1>3, <1>10, <2>2 DEF Bit
      <3>4. QED
        BY <1>2, <3>2, <3>3
    <2>3. CASE ~(cpc' = "retry" /\ cmsg' \in Reports(t)) /\ after > 0
      BY <1>2, <2>3 DEF Bit
    <2>4. CASE ~UNCHANGED cVars /\ after \in {waiting, waiting + 1}
      <3>1. after > 0
        BY <1>3, <2>1, <2>4
      <3>2. QED
        BY <1>4, <2>3, <2>4, <3>1
    <2>5. CASE after \in {waiting, waiting + 1}
      BY <2>2, <2>4, <2>5
    <2>6. CASE UNCHANGED cbQ
      BY <2>5, <2>6 DEF waiting
    <2>7. ASSUME NEW u \in Tasks, NEW type \in CallbackTypes,
                 cbQ' = PushMain(cbQ, [payload |-> [task |-> u, type |-> type], attempts |-> 0])
          PROVE  SafelyWatched(t)'
      BY <2>5, <2>7, ReportsWaiting DEF Bit, waiting
    <2>8. CASE RecoverCallbacks \/ DequeueCallback
      <3>1. \/ cbQ' = cbQ
            \/ cbQ.processing # <<>> /\ cbQ' = RecoverLast(cbQ)
            \/ cbQ.main # <<>> /\ cbQ' = Reserve(cbQ)
        BY <2>8 DEF RecoverCallbacks, DequeueCallback
      <3>2. QED
        BY <2>5, <3>1, ReportsWaiting DEF waiting
    <2>9. CASE AckCallback
      <3>1. cpc = "ack" /\ cbQ' \in {cbQ, RemoveReserved(cbQ, cmsg)}
        BY <2>9 DEF AckCallback
      <3>2. cmsg \notin Reports(t)
        BY <3>1 DEF Settled, Ended, Reports
      <3>3. QED
        BY <2>5, <3>1, <3>2, ReportsWaiting DEF CFree, waiting
    <2>10. CASE RetryCallback
      <3>1. cpc = "retry" /\ Holds(cbQ, cmsg)
        BY <2>10 DEF RetryCallback, Held, Reserving
      <3>2. cbQ' = RemoveReserved(cbQ, cmsg) /\ cpc' = "requeue"
        BY <1>1, <2>10, <3>1 DEF RetryCallback
      <3>3. Doubtful(t) <=> cmsg \in Reports(t)
        BY <3>1 DEF Doubtful
      <3>4. after = waiting - Bit(Doubtful(t))
        BY <1>6, <3>1, <3>2, <3>3 DEF Bit
      <3>5. after > 0
        BY <1>3, <1>10, <3>4 DEF Bit
      <3>6. QED
        BY <2>3, <3>2, <3>5
    <2>11. CASE RequeueCallback
      <3>1. cpc = "requeue" /\ cbQ' \in {cbQ, PushRetried(cbQ, cmsg, MaxAttempts)}
        BY <2>11 DEF RequeueCallback
      <3>2. QED
        BY <2>5, <3>1, ReportsWaiting DEF CFree, Bit, waiting
    <2>12. CASE CallbackStep
      BY <2>6, <2>8, <2>9, <2>10, <2>11, <2>12
         DEF CallbackStep, LoadCallbackJob, StoreTrack, MarkCopyReady, SaveReady, AnnounceReady,
             SaveFailed
    <2>13. ASSUME NEW u \in Tasks, PollFetch(u) PROVE SafelyWatched(t)'
      <3>1. DetailsCallbacks(suno[u]) \subseteq CallbackTypes
        BY DEF DetailsCallbacks, CallbackTypes
      <3>2. QED
        BY <2>6, <2>7, <2>13, <3>1 DEF PollFetch
    <2>14. ASSUME NEW u \in Tasks, SunoCallback(u) PROVE SafelyWatched(t)'
      <3>1. SunoCallbackType(suno[u]) \in CallbackTypes
        BY DEF SunoCallbackType, CallbackTypes
      <3>2. QED
        BY <2>7, <2>14, <3>1 DEF SunoCallback, ReceiveCallback
    <2>15. QED
      BY <2>6, <2>12, <2>13, <2>14, CallbackQueueMoves
  <1>11. QED
    BY <1>8, <1>9, <1>10 DEF SafelyWatched, waiting

LEMMA ProcessingIsSafeNext ==
    ASSUME TypeInv, Unbound, Owned, CopyTrue, Settled, Held, ProcessingIsSafe,
           PollFallback, [Next]_vars, faults' = faults
    PROVE  ProcessingIsSafe'
  <1> SUFFICES ASSUME NEW j \in Jobs, jobs'[j].status = "processing"
               PROVE  \E t \in Tasks : jobs'[j].task = t /\ SafelyWatched(t)'
    BY DEF ProcessingIsSafe, SafelyWatched, Doubtful, Reports, Bit
  <1>1. CASE jobs'[j] # jobs[j]
    <2>1. /\ wpc = "save" /\ wpc' \in {"announce", "retry"} /\ UNCHANGED wtask
          /\ jobs'[j].task = wtask
      BY <1>1, BecomesProcessing
    <2>2. wpc' = "announce" /\ wtask \in Tasks
      <3>1. CASE SaveProcessing
        BY <1>1, <3>1
           DEF SaveProcessing, WriteRowFails, Fault, NoFault, WGoto, Owned, TypeInv, SharedTyped
      <3>2. CASE ~SaveProcessing
        BY <2>1, <3>2, ConsumerMoves
           DEF EnqueueJob, JobStep, RecoverJobs, DequeueJob, LoadJob, GenerateMusic,
               AnnounceProcessing, SaveRefused, AnnounceRefused, AckJob, RetryJob, RequeueJob,
               LoadExhausted, SaveExhausted, AnnounceExhausted, WorkerCrash, WorkerRestart, wVars
      <3>3. QED
        BY <3>1, <3>2
    <2>3. QED
      BY <2>1, <2>2 DEF SafelyWatched
  <1>2. CASE jobs'[j] = jobs[j]
    <2>1. PICK t \in Tasks : jobs[j].task = t /\ SafelyWatched(t)
      BY <1>2 DEF ProcessingIsSafe
    <2>2. SafelyWatched(t)'
      BY <1>2, <2>1, SafeWatchStays
    <2>3. QED
      BY <1>2, <2>1, <2>2
  <1>3. QED
    BY <1>1, <1>2

\* As long as nothing has failed nothing is left behind, in any order of the steps of
\* the processes: every queued job is in hand, the owner of every ready job is told,
\* each consumer has reserved exactly what it works on, and with the fallback pollers
\* every generation is watched, whatever becomes of the callbacks that come too early.
THEOREM NothingIsLeftByItself ==
    ASSUME PollFallback
    PROVE  Spec => [](faults = 0 => /\ QueuedIsInHand /\ ReadyIsTold
                                    /\ ReservedIsHandled /\ ProcessingIsWatched)
  <1> DEFINE J == QueuedIsInHand /\ ReadyIsTold /\ ReservedIsHandled /\ ProcessingIsSafe
             I == /\ TypeInv /\ Unbound /\ Together /\ Held /\ Owned /\ CopyTrue /\ Settled
                  /\ faults = 0 => Named /\ Begun /\ J
  <1>1. Init => I
    <2>1. Init => Named
      <3>1. EmptyQueue \in Sorted(Present, MaxAttempts)
        BY EmptyIsSorted, PipelineAssumption
      <3>2. QED
        BY <3>1 DEF Init, Named, WFree
    <2>2. Init => Unbound /\ Together /\ Held /\ Owned /\ CopyTrue /\ Settled
      BY TypeInit
         DEF Init, Unbound, Together, Held, Reserving, NoRow, HoldsCopy, Owned, Carries, CopyTrue,
             Settled
    <2>3. Init => Begun /\ QueuedIsInHand /\ ReadyIsTold
      BY DEF Init, Begun, QueuedIsInHand, ReadyIsTold, NoRow
    <2>4. Init => ReservedIsHandled /\ ProcessingIsSafe
      BY DEF Init, ReservedIsHandled, OneReserved, Reserving, ProcessingIsSafe, NoRow
    <2>5. QED
      BY <2>1, <2>2, <2>3, <2>4, TypeInit
  <1>2. I /\ [Next]_vars => I'
    <2> SUFFICES ASSUME I, [Next]_vars PROVE I'
      OBVIOUS
    <2>1. CASE UNCHANGED vars
      <3>1. Present' = Present /\ TypeInv'
        BY <2>1, TypeNext DEF vars, Present
      <3>2. (Unbound /\ Together /\ Held /\ Owned /\ CopyTrue /\ Settled)'
        BY <2>1, <3>1
           DEF vars, Unbound, Together, Held, Owned, Carries, CopyTrue, Settled, Ended, HoldsCopy,
               theJob
      <3>3. faults' = 0 => (Named /\ Begun /\ QueuedIsInHand /\ ReadyIsTold /\ ReservedIsHandled)'
        BY <2>1, <3>1
           DEF vars, Named, Begun, QueuedIsInHand, InHand, ReadyIsTold, Told, ReservedIsHandled,
               OneReserved, WFree, theJob
      <3>4. faults' = 0 => ProcessingIsSafe'
        BY <2>1 DEF vars, ProcessingIsSafe, SafelyWatched, Doubtful, Reports, Bit
      <3>5. QED
        BY <3>1, <3>2, <3>3, <3>4
    <2>2. CASE Next
      <3>1. (TypeInv /\ Unbound /\ Together /\ Held /\ Owned /\ CopyTrue /\ Settled)'
        BY <2>2, TypeNext, UnboundNext, TogetherNext, OwnedNext, CopyTrueNext, SettledNext,
           JobHeldNext, CallbackHeldNext
           DEF Held
      <3>2. ASSUME faults' = 0
            PROVE  (Named /\ Begun /\ J)'
        <4>1. faults = 0 /\ faults' = faults /\ ~Fails
          <5>1. faults' \in {faults, faults + 1} /\ faults \in Nat
            BY FailuresAreCounted DEF TypeInv, SharedTyped
          <5>2. QED
            BY <3>2, <5>1 DEF Fails
        <4>2. ~LeavesQueued /\ ~LosesNews /\ ~LeavesReserved
          BY <4>1, QueuedIsLeftByFailure, NewsIsLostByFailure, ReservationIsLeftByFailure
        <4>3. Named' /\ Begun' /\ QueuedIsInHand'
          BY <4>1, <4>2, NamedNext, BegunNext, QueuedIsInHandNext
        <4>4. ReadyIsTold'
          BY <4>1, <4>2, ReadyIsToldNext
        <4>5. ReservedIsHandled'
          BY <4>1, <4>2, JobReservationNext, CallbackReservationNext
             DEF LeavesReserved, ReservedIsHandled
        <4>6. ProcessingIsSafe'
          BY <4>1, ProcessingIsSafeNext
        <4>7. QED
          BY <4>3, <4>4, <4>5, <4>6
      <3>3. QED
        BY <3>1, <3>2
    <2>3. QED
      BY <2>1, <2>2
  <1>3. I => (faults = 0 => /\ QueuedIsInHand /\ ReadyIsTold
                            /\ ReservedIsHandled /\ ProcessingIsWatched)
    BY SafeIsWatched
  <1> HIDE DEF I, J
  <1>4. QED
    BY <1>1, <1>2, <1>3, PTL DEF Spec

=============================================================================
