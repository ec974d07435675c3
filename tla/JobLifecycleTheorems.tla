------------------------ MODULE JobLifecycleTheorems ------------------------
(***************************************************************************)
(* While every loaded row is in one pair of hands (InOneHand), the rows    *)
(* and tracks of the pipeline implement the job lifecycle: for any number  *)
(* of jobs, tasks and results, and any number of the failures that remain. *)
(* The last theorem needs no such condition: whatever fails, a generation  *)
(* is given up only with the last attempt of its message, or by the undo   *)
(* of a request whose message was taken up although its push had failed.   *)
(***************************************************************************)
EXTENDS JobPipelineTheorems

USE DEF PublishFails, JobRemovalLost, CallbackRemovalLost

\* The failures after which two hands can hold a row do not happen.
InOneHand == Faults \cap {"enqueue_ambiguous", "read", "readback", "notify"} = {}

\* The jobs whose request has been through the queue: no request writes their rows
\* any more.
Enqueued == {j \in Jobs : api[j] = "done"}

EnqueuedOnly ==
    /\ jobQ \in Sorted(Enqueued, MaxAttempts)
    /\ ~WFree => wmsg \in Fresh(Enqueued, MaxAttempts)

LEMMA EnqueuedNext ==
    ASSUME InOneHand, TypeInv, EnqueuedOnly, [Next]_vars
    PROVE  EnqueuedOnly'
  <1> USE DEF dbVars, pushVars, apiVars, sunoVars, wVars, cVars, NoFault, WGoto, WIdle, EnqueuedOnly
  <1>1. Enqueued \subseteq Enqueued'
    <2>1. UNCHANGED api => Enqueued' = Enqueued
      BY DEF Enqueued
    <2>2. ASSUME NEW j \in Jobs, CreateJob(j) PROVE Enqueued \subseteq Enqueued'
      BY <2>2 DEF CreateJob, InsertJob, EnqueueJob, UndoCreate, Enqueued, TypeInv, SharedTyped
    <2>3. CASE ApiCrash
      BY <2>3 DEF ApiCrash, Enqueued
    <2>4. QED
      BY <2>1, <2>2, <2>3
         DEF Next, vars, SubscriberStep, ReadUpdatedJob, PushJob, JobStep, RecoverJobs, DequeueJob, LoadJob, GenerateMusic,
             SaveProcessing, AnnounceProcessing, SaveRefused, AnnounceRefused, AckJob, RetryJob,
             RequeueJob, LoadExhausted, SaveExhausted, AnnounceExhausted, CallbackStep,
             RecoverCallbacks, DequeueCallback, LoadCallbackJob, StoreTrack, MarkCopyReady,
             SaveReady, AnnounceReady, SaveFailed, AckCallback, RetryCallback, RequeueCallback,
             PollTick, PollFetch, PollTimeout, SunoFinish, SunoCallback, WorkerCrash,
             WorkerRestart
  <1>2. \A j \in Jobs : EnqueueJob(j) /\ jobQ' # jobQ => j \in Enqueued'
    BY DEF EnqueueJob, Fault, InOneHand, Enqueued, TypeInv, SharedTyped
  <1>3. QED
    BY <1>1, <1>2, MessagesStayAbout DEF WFree

-----------------------------------------------------------------------------
\* Where the job consumer stands before its job has left the queue, and where it
\* will still write its copy.
BeforeStart == {"generate", "save", "refuse", "retry", "requeue", "exhaust", "bury"}
WithCopy == {"generate", "save", "refuse", "bury"}

\* A copy that will be written back is the row itself; a task is bound once.
OneHand ==
    /\ \A j \in Jobs : api[j] \in {"inserted", "undo"} => jobs[j] = NewJob
    /\ wpc \in BeforeStart => jobs[theJob] = NewJob
    /\ wpc \in WithCopy => wrow = NewJob
    /\ \A j \in Jobs : jobs[j].task # NoTask => suno[jobs[j].task] # "unused"
    /\ wpc = "save" => /\ wtask \in Tasks
                       /\ suno[wtask] # "unused"
                       /\ \A j \in Jobs : jobs[j].task # wtask
    /\ cpc \in {"store", "save", "fail"} => crow = jobs[cjob] /\ crow.task # NoTask
    /\ cpc = "save" => MayMarkReady(crow)
    /\ cpc = "fail" => crow.status = "processing"

\* Who writes a row meets nobody: the job consumer's job is enqueued and unbound,
\* the callback consumer's is bound, a request's is neither.
LEMMA HandsApart ==
    ASSUME TypeInv, EnqueuedOnly, Unbound, OneHand
    PROVE  /\ ~WFree => theJob \in Jobs /\ api[theJob] = "done"
           /\ HoldsCopy => /\ cjob \in Jobs
                           /\ jobs[cjob].status \notin {"absent", "queued"}
                           /\ api[cjob] \notin {"new", "inserted", "undo"}
           /\ wpc \in BeforeStart /\ HoldsCopy => cjob # theJob
           /\ BeforeStart \cap {"down", "recover", "idle"} = {}
           /\ NewJob.status = "queued" /\ NewJob.task = NoTask /\ NoTask \notin Tasks
  <1>1. ~WFree => theJob \in Jobs /\ api[theJob] = "done"
    BY DEF TypeInv, EnqueuedOnly, Enqueued, Fresh, theJob
  <1>2. NewJob.status = "queued" /\ NewJob.task = NoTask /\ NoTask \notin Tasks
    BY PipelineAssumption DEF NewJob
  <1>3. HoldsCopy => cjob \in Jobs /\ jobs[cjob].status \notin {"absent", "queued"}
    BY DEF TypeInv, CallbackTyped, Unbound
  <1>4. HoldsCopy => api[cjob] \notin {"new", "inserted", "undo"}
    BY <1>2, <1>3 DEF OneHand, Unbound
  <1>5. QED
    BY <1>1, <1>2, <1>3, <1>4 DEF BeforeStart, OneHand

\* A request writes a row, or lets it be.
LEMMA RequestKeepsOneHand ==
    ASSUME InOneHand, TypeInv, EnqueuedOnly, Unbound, OneHand, NEW j \in Jobs, CreateJob(j)
    PROVE  OneHand'
  <1>1. /\ UNCHANGED <<suno, wpc, wmsg, wrow, wtask, cpc, crow, cjob>>
        /\ api[j] \in {"new", "inserted", "undo"}
        /\ \A k \in Jobs : k # j => api'[k] = api[k]
    BY DEF CreateJob, InsertJob, EnqueueJob, UndoCreate, sunoVars, wVars, cVars, TypeInv, SharedTyped
  <1>2. /\ \A k \in Jobs : k # j => jobs'[k] = jobs[k]
        /\ jobs'[j].task = jobs[j].task \/ jobs'[j].task = NoTask
        /\ api'[j] \in {"inserted", "undo"} => jobs'[j] = NewJob
    <2>1. CASE InsertJob(j)
      BY <2>1 DEF InsertJob, WriteRow, WriteRowFails, Fault, InOneHand, TypeInv, SharedTyped, NewJob
    <2>2. CASE EnqueueJob(j)
      BY <2>2 DEF EnqueueJob, dbVars, OneHand, TypeInv, SharedTyped
    <2>3. CASE UndoCreate(j)
      BY <2>3 DEF UndoCreate, WriteRow, WriteRowFails, Fault, InOneHand, TypeInv, SharedTyped,
                  NewJob, MarkFailed
    <2>4. QED
      BY <2>1, <2>2, <2>3 DEF CreateJob
  <1>3. wpc \in BeforeStart => theJob \in Jobs /\ theJob # j
    BY <1>1, HandsApart DEF WFree
  <1>4. cpc \in {"store", "save", "fail"} => cjob \in Jobs /\ cjob # j
    BY <1>1, HandsApart DEF HoldsCopy
  <1>5. NoTask \notin Tasks
    BY HandsApart
  <1>6. QED
    BY <1>1, <1>2, <1>3, <1>4, <1>5 DEF OneHand, theJob, MayMarkReady

\* The job consumer: every way to its next statement.
LEMMA JobStepKeepsOneHand ==
    ASSUME InOneHand, TypeInv, EnqueuedOnly, Unbound, OneHand, JobStep
    PROVE  OneHand'
  <1> USE DEF dbVars, pushVars, apiVars, sunoVars, wVars, cVars, NoFault, WGoto, WIdle, BeforeStart, WithCopy
  <1>1. UNCHANGED <<api, crow, cjob, cpc>>
    BY DEF JobStep, RecoverJobs, DequeueJob, LoadJob, GenerateMusic, StartTask, SaveProcessing,
           AnnounceProcessing, SaveRefused, AnnounceRefused, AckJob, RetryJob, RequeueJob,
           LoadExhausted, SaveExhausted, AnnounceExhausted
  <1>2. CASE RecoverJobs \/ DequeueJob \/ AckJob \/ RetryJob \/ RequeueJob
    BY <1>1, <1>2 DEF RecoverJobs, DequeueJob, AckJob, RetryJob, RequeueJob, OneHand, theJob
  <1>3. CASE LoadJob
    <2>1. /\ wrow' = jobs[theJob]
          /\ wpc' \in {"generate", "ack"}
          /\ wpc' = "generate" => jobs[theJob].status = "queued"
          /\ UNCHANGED <<jobs, suno, wmsg>>
      BY <1>3 DEF LoadJob, Fault, InOneHand
    <2>2. theJob \in Jobs
      BY <1>3, HandsApart DEF LoadJob, WFree
    <2>3. jobs[theJob].status = "queued" => jobs[theJob] = NewJob
      BY <2>2 DEF Unbound, TypeInv, SharedTyped, Rows, NewJob
    <2>4. QED
      BY <1>1, <2>1, <2>3 DEF OneHand, theJob
  <1>4. CASE GenerateMusic
    <2>1. /\ UNCHANGED <<jobs, wmsg, wrow>>
          /\ \A t \in Tasks : suno[t] # "unused" => suno'[t] # "unused"
          /\ wpc' \in {"save", "ack", "retry", "refuse"}
          /\ wpc' = "save" => wtask' \in Tasks /\ suno[wtask'] = "unused" /\ suno'[wtask'] # "unused"
      BY <1>4 DEF GenerateMusic, StartTask, TypeInv, SunoTyped
    <2>2. \A j \in Jobs : jobs[j].task \in Tasks \cup {NoTask}
      BY DEF TypeInv, SharedTyped, Rows
    <2>3. wpc = "generate"
      BY <1>4 DEF GenerateMusic
    <2>4. NoTask \notin Tasks
      BY HandsApart
    <2>5. QED
      BY <1>1, <2>1, <2>2, <2>3, <2>4 DEF OneHand, theJob
  <1>5. CASE AnnounceProcessing \/ AnnounceRefused \/ AnnounceExhausted
    <2>1. wpc' \in {"ack", "idle"} /\ UNCHANGED <<jobs, suno>>
      BY <1>5 DEF AnnounceProcessing, AnnounceRefused, AnnounceExhausted, Fault, InOneHand
    <2>2. QED
      BY <1>1, <2>1 DEF OneHand
  <1>6. CASE LoadExhausted
    BY <1>1, <1>6 DEF LoadExhausted, OneHand, theJob
  <1>7. CASE SaveProcessing
    <2>1. /\ wpc = "save" /\ theJob \in Jobs /\ UNCHANGED <<suno, wmsg, wrow, wtask>>
          /\ api[theJob] = "done"
      BY <1>7, HandsApart DEF SaveProcessing, WFree
    <2>2. \/ UNCHANGED jobs /\ wpc' = "retry"
          \/ jobs' = [jobs EXCEPT ![theJob] = MarkProcessing(wrow, wtask)] /\ wpc' = "announce"
      BY <1>7 DEF SaveProcessing, WriteRow, WriteRowFails, Fault, InOneHand
    <2>3. MarkProcessing(wrow, wtask).task = wtask
      BY <2>1 DEF OneHand, MarkProcessing, NewJob
    <2>4. cpc \in {"store", "save", "fail"} => cjob \in Jobs /\ cjob # theJob
      BY <2>1, HandsApart DEF HoldsCopy
    <2>5. QED
      BY <1>1, <2>1, <2>2, <2>3, <2>4 DEF OneHand, TypeInv, SharedTyped, theJob
  <1>8. CASE SaveRefused \/ SaveExhausted
    <2>1. /\ wpc \in {"refuse", "bury"} /\ theJob \in Jobs /\ UNCHANGED suno
          /\ api[theJob] = "done"
      BY <1>8, HandsApart DEF SaveRefused, SaveExhausted, WFree
    <2>2. \/ UNCHANGED <<jobs, wmsg>> /\ wpc' \in {"retry", "idle"}
          \/ UNCHANGED jobs /\ wpc' = "idle"
          \/ /\ jobs' = [jobs EXCEPT ![theJob] = MarkFailed(wrow)]
             /\ wpc' \in {"announceRefusal", "announceBurial"}
      BY <1>8 DEF SaveRefused, SaveExhausted, WriteRow, WriteRowFails, Fault, InOneHand
    <2>3. MarkFailed(wrow).task = NoTask
      BY <2>1 DEF OneHand, MarkFailed, NewJob
    <2>4. cpc \in {"store", "save", "fail"} => cjob \in Jobs /\ cjob # theJob
      BY <2>1, HandsApart DEF HoldsCopy
    <2>5. QED
      BY <1>1, <2>1, <2>2, <2>3, <2>4 DEF OneHand, TypeInv, SharedTyped, theJob
  <1>9. QED
    BY <1>2, <1>3, <1>4, <1>5, <1>6, <1>7, <1>8 DEF JobStep

\* The callback consumer: only what it writes back could disturb a hand.
LEMMA CallbackStepKeepsOneHand ==
    ASSUME InOneHand, TypeInv, EnqueuedOnly, Unbound, OneHand, CallbackStep
    PROVE  OneHand'
  <1> USE DEF dbVars, pushVars, apiVars, sunoVars, wVars, cVars, NoFault, CGoto, CIdle
  <1>1. UNCHANGED <<api, suno, wpc, wmsg, wrow, wtask>>
    BY DEF CallbackStep, RecoverCallbacks, DequeueCallback, LoadCallbackJob, StoreTrack,
           MarkCopyReady, SaveReady, AnnounceReady, SaveFailed, AckCallback, RetryCallback,
           RequeueCallback
  <1>2. CASE \/ RecoverCallbacks \/ DequeueCallback \/ AckCallback \/ RetryCallback \/ RequeueCallback
             \/ AnnounceReady
    <2>1. CASE RecoverCallbacks \/ DequeueCallback
      BY <2>1 DEF RecoverCallbacks, DequeueCallback, OneHand, theJob
    <2>2. CASE AckCallback \/ RetryCallback
      <3>1. cpc' \in {"idle", "ack", "retry", "requeue"} /\ UNCHANGED jobs
        BY <2>2 DEF AckCallback, RetryCallback
      <3>2. QED
        BY <1>1, <3>1 DEF OneHand, theJob
    <2>3. CASE RequeueCallback
      <3>1. cpc' \in {"idle", "requeue"} /\ UNCHANGED jobs
        BY <2>3 DEF RequeueCallback
      <3>2. QED
        BY <1>1, <3>1 DEF OneHand, theJob
    <2>4. CASE AnnounceReady
      <3>1. cpc' \in {"ack", "retry"} /\ UNCHANGED jobs
        BY <2>4 DEF AnnounceReady, Fault, InOneHand
      <3>2. QED
        BY <1>1, <3>1 DEF OneHand, theJob
    <2>5. QED
      BY <1>2, <2>1, <2>2, <2>3, <2>4
  <1>3. CASE LoadCallbackJob
    <2>1. cmsg.payload.task \in Tasks /\ cmsg.payload.type \in CallbackTypes
      BY <1>3 DEF LoadCallbackJob, TypeInv, CallbackTyped, CFree, Fresh, Callbacks
    <2>2. CASE cpc' = "retry"
      BY <1>1, <1>3, <2>2 DEF LoadCallbackJob, OneHand, theJob
    <2>3. ASSUME NEW j \in JobsOfTask(cmsg.payload.task),
                 cjob' = j, crow' = jobs[j], cpc' = HandleNext(cmsg.payload.type, jobs[j])
          PROVE  OneHand'
      <3>1. /\ j \in Jobs /\ jobs[j].task \in Tasks
            /\ jobs[j].status \in {"processing", "ready", "failed"}
        BY <2>1, HandsApart DEF JobsOfTask, Unbound, TypeInv, SharedTyped, Rows, Statuses
      <3>2. /\ cpc' \in {"ack", "store", "fail"}
            /\ cpc' = "fail" => jobs[j].status = "processing"
        BY <2>1, <2>3, <3>1 DEF HandleNext, MayMarkFailed, CallbackTypes
      <3>3. UNCHANGED jobs /\ NoTask \notin Tasks
        BY <1>3, HandsApart DEF LoadCallbackJob
      <3>4. QED
        BY <1>1, <2>3, <3>1, <3>2, <3>3 DEF OneHand, theJob
    <2>4. QED
      BY <1>3, <2>2, <2>3 DEF LoadCallbackJob
  <1>4. CASE StoreTrack \/ MarkCopyReady
    BY <1>1, <1>4 DEF StoreTrack, MarkCopyReady, OneHand, theJob
  <1>5. CASE SaveReady \/ SaveFailed
    <2>1. /\ cpc \in {"save", "fail"} /\ cjob \in Jobs /\ cpc' \in {"announce", "ack", "retry"}
          /\ api[cjob] \notin {"inserted", "undo"}
          /\ wpc \in BeforeStart => theJob # cjob
      BY <1>5, HandsApart DEF SaveReady, SaveFailed, HoldsCopy
    <2>2. \E row \in {MarkReady(crow), MarkFailed(crow)} :
              jobs' = jobs \/ jobs' = [jobs EXCEPT ![cjob] = row]
      BY <1>5 DEF SaveReady, SaveFailed, WriteRow, WriteRowFails, Fault, InOneHand
    <2>3. crow = jobs[cjob] /\ MarkReady(crow).task = crow.task /\ MarkFailed(crow).task = crow.task
      BY <2>1 DEF OneHand, MarkReady, MarkFailed, TypeInv, CallbackTyped, Rows
    <2>4. /\ \A j \in Jobs : j # cjob => jobs'[j] = jobs[j]
          /\ \A j \in Jobs : jobs'[j].task = jobs[j].task
      BY <2>1, <2>2, <2>3 DEF TypeInv, SharedTyped
    <2>5. wpc \in BeforeStart => theJob \in Jobs
      BY HandsApart DEF WFree
    <2>6. QED
      BY <1>1, <2>1, <2>4, <2>5 DEF OneHand, theJob
  <1>6. QED
    BY <1>2, <1>3, <1>4, <1>5 DEF CallbackStep

LEMMA OneHandNext ==
    ASSUME InOneHand, TypeInv, EnqueuedOnly, Unbound, OneHand, [Next]_vars
    PROVE  OneHand'
  <1> USE DEF dbVars, pushVars, apiVars, sunoVars, wVars, cVars, WGoto, CGoto
  <1>1. CASE UNCHANGED vars
    BY <1>1 DEF vars, OneHand, theJob
  <1>2. CASE SubscriberStep
    BY <1>2 DEF SubscriberStep, ReadUpdatedJob, PushJob, OneHand, theJob
  <1>3. CASE ApiCrash
    BY <1>3 DEF ApiCrash, OneHand, theJob, TypeInv, SharedTyped
  <1>4. ASSUME NEW t \in Tasks, PollTick(t) \/ PollFetch(t) \/ PollTimeout(t) PROVE OneHand'
    BY <1>4 DEF PollTick, PollFetch, PollTimeout, OneHand, theJob
  <1>5. ASSUME NEW t \in Tasks, SunoFinish(t) \/ SunoCallback(t) PROVE OneHand'
    <2>1. \A s \in Tasks : suno[s] # "unused" => suno'[s] # "unused"
      BY <1>5 DEF SunoFinish, SunoCallback, TypeInv, SunoTyped
    <2>2. \A j \in Jobs : jobs[j].task \in Tasks \cup {NoTask}
      BY DEF TypeInv, SharedTyped, Rows
    <2>3. UNCHANGED <<jobs, api, wpc, wmsg, wrow, wtask, cpc, cjob, crow>>
      BY <1>5 DEF SunoFinish, SunoCallback
    <2>4. QED
      BY <2>1, <2>2, <2>3 DEF OneHand, theJob
  <1>6. CASE WorkerCrash \/ WorkerRestart
    BY <1>6 DEF WorkerCrash, WorkerRestart, OneHand, BeforeStart, WithCopy
  <1>7. QED
    BY <1>1, <1>2, <1>3, <1>4, <1>5, <1>6, RequestKeepsOneHand, JobStepKeepsOneHand,
       CallbackStepKeepsOneHand DEF Next

-----------------------------------------------------------------------------
\* One row written, read as the state of the lifecycle.
LEMMA RowIsJob ==
    ASSUME jobs \in [Jobs -> Rows], NEW j \in Jobs, NEW row, jobs' = [jobs EXCEPT ![j] = row]
    PROVE  /\ [k \in Jobs |-> jobs'[k].status] = [[k \in Jobs |-> jobs[k].status] EXCEPT ![j] = row.status]
           /\ [k \in Jobs |-> jobs'[k].task] = [[k \in Jobs |-> jobs[k].task] EXCEPT ![j] = row.task]
           /\ row.task = jobs[j].task =>
                  [k \in Jobs |-> jobs'[k].task] = [k \in Jobs |-> jobs[k].task]
           /\ row.status = jobs[j].status =>
                  [k \in Jobs |-> jobs'[k].status] = [k \in Jobs |-> jobs[k].status]
  <1>1. \A k \in Jobs : jobs'[k] = IF k = j THEN row ELSE jobs[k]
    OBVIOUS
  <1>2. [k \in Jobs |-> jobs'[k].status] = [[k \in Jobs |-> jobs[k].status] EXCEPT ![j] = row.status]
    BY <1>1
  <1>3. [k \in Jobs |-> jobs'[k].task] = [[k \in Jobs |-> jobs[k].task] EXCEPT ![j] = row.task]
    BY <1>1
  <1>4. ASSUME row.task = jobs[j].task
        PROVE  [k \in Jobs |-> jobs'[k].task] = [k \in Jobs |-> jobs[k].task]
    <2>1. \A k \in Jobs : jobs'[k].task = jobs[k].task
      BY <1>1, <1>4
    <2>2. QED
      BY <2>1
  <1>5. ASSUME row.status = jobs[j].status
        PROVE  [k \in Jobs |-> jobs'[k].status] = [k \in Jobs |-> jobs[k].status]
    <2>1. \A k \in Jobs : jobs'[k].status = jobs[k].status
      BY <1>1, <1>5
    <2>2. QED
      BY <2>1
  <1>6. QED
    BY <1>2, <1>3, <1>4, <1>5

\* A write to one row that the lifecycle allows, by the old and the new row.
Allowed(j, row) ==
    \/ row = jobs[j]
    \/ jobs[j].status = "absent" /\ row = NewJob /\ jobs[j].task = NoTask
    \/ jobs[j].status \in {"queued", "processing"} /\ row = MarkFailed(jobs[j])
    \/ jobs[j].status = "processing" /\ row = MarkReady(jobs[j]) /\ tracks[j] = Audios
    \/ /\ jobs[j].status = "queued" /\ row.status = "processing"
       /\ row.task \in Tasks /\ \A k \in Jobs : jobs[k].task # row.task

LEMMA AllowedIsLifecycle ==
    ASSUME jobs \in [Jobs -> Rows], NEW j \in Jobs, NEW row, Allowed(j, row),
           jobs' = [jobs EXCEPT ![j] = row], UNCHANGED tracks
    PROVE  [Lifecycle!Next]_(Lifecycle!lifeVars)
  <1> USE RowIsJob DEF Lifecycle!Next, Lifecycle!lifeVars, Lifecycle!Move
  <1>1. jobs[j] \in Rows
    OBVIOUS
  <1>2. CASE row = jobs[j]
    BY <1>2
  <1>3. CASE jobs[j].status = "absent" /\ row = NewJob /\ jobs[j].task = NoTask
    <2>1. row.status = "queued" /\ row.task = jobs[j].task
      BY <1>3 DEF NewJob
    <2>2. Lifecycle!Create(j)
      BY <1>3, <2>1 DEF Lifecycle!Create
    <2>3. QED
      BY <2>2
  <1>4. CASE jobs[j].status \in {"queued", "processing"} /\ row = MarkFailed(jobs[j])
    <2>1. row.status = "failed" /\ row.task = jobs[j].task
      BY <1>1, <1>4 DEF MarkFailed, Rows
    <2>2. Lifecycle!Fail(j)
      BY <1>4, <2>1 DEF Lifecycle!Fail
    <2>3. QED
      BY <2>2
  <1>5. CASE jobs[j].status = "processing" /\ row = MarkReady(jobs[j]) /\ tracks[j] = Audios
    <2>1. row.status = "ready" /\ row.task = jobs[j].task
      BY <1>1, <1>5 DEF MarkReady, Rows
    <2>2. Lifecycle!Finish(j)
      BY <1>5, <2>1 DEF Lifecycle!Finish
    <2>3. QED
      BY <2>2
  <1>6. CASE /\ jobs[j].status = "queued" /\ row.status = "processing"
             /\ row.task \in Tasks /\ \A k \in Jobs : jobs[k].task # row.task
    <2>1. Lifecycle!Start(j, row.task)
      BY <1>6 DEF Lifecycle!Start
    <2>2. QED
      BY <1>6, <2>1
  <1>7. QED
    BY <1>2, <1>3, <1>4, <1>5, <1>6 DEF Allowed

\* What a step does to the tables: nothing, one row, or one result.
RowStep ==
    /\ UNCHANGED tracks
    /\ \E j \in Jobs : \E row \in Rows : Allowed(j, row) /\ jobs' = [jobs EXCEPT ![j] = row]

ResultStep ==
    /\ UNCHANGED jobs
    /\ \E j \in Jobs, a \in Audios :
          jobs[j].task # NoTask /\ tracks' = [tracks EXCEPT ![j] = @ \cup {a}]

LEMMA StepOnTables ==
    ASSUME InOneHand, TypeInv, Stored, EnqueuedOnly, Unbound, OneHand, [Next]_vars
    PROVE  UNCHANGED dbVars \/ RowStep \/ ResultStep
  <1> USE DEF dbVars
  <1> USE DEF WriteRow, WriteRowFails, Fault, InOneHand
  <1>1. ASSUME NEW j \in Jobs, CreateJob(j) PROVE UNCHANGED dbVars \/ RowStep
    <2>1. CASE InsertJob(j)
      <3>1. jobs[j].status = "absent" /\ jobs[j] \in Rows
        BY <2>1 DEF InsertJob, Unbound, TypeInv, SharedTyped
      <3>2. jobs[j].task = NoTask
        BY <3>1 DEF Unbound
      <3>3. Allowed(j, NewJob)
        BY <3>1, <3>2 DEF Allowed
      <3>4. QED
        BY <2>1, <3>3, RowOperations DEF InsertJob, RowStep
    <2>2. CASE EnqueueJob(j)
      BY <2>2 DEF EnqueueJob
    <2>3. CASE UndoCreate(j)
      <3>1. jobs[j] = NewJob
        BY <2>3 DEF UndoCreate, OneHand
      <3>2. Allowed(j, MarkFailed(NewJob))
        BY <3>1 DEF Allowed, NewJob
      <3>3. QED
        BY <2>3, <3>2, RowOperations DEF UndoCreate, RowStep
    <2>4. QED
      BY <1>1, <2>1, <2>2, <2>3 DEF CreateJob
  <1>2. CASE SaveProcessing
    <2>1. /\ theJob \in Jobs /\ wrow = NewJob /\ jobs[theJob] = NewJob
          /\ wtask \in Tasks /\ \A j \in Jobs : jobs[j].task # wtask
      BY <1>2, HandsApart DEF SaveProcessing, OneHand, BeforeStart, WithCopy, WFree
    <2>2. /\ MarkProcessing(wrow, wtask).status = "processing"
          /\ MarkProcessing(wrow, wtask).task = wtask
      BY <2>1 DEF MarkProcessing, NewJob
    <2>3. Allowed(theJob, MarkProcessing(wrow, wtask))
      BY <2>1, <2>2 DEF Allowed, NewJob
    <2>4. MarkProcessing(wrow, wtask) \in Rows
      BY <2>1, RowOperations
    <2>5. QED
      BY <1>2, <2>1, <2>3, <2>4 DEF SaveProcessing, RowStep
  <1>3. CASE SaveRefused \/ SaveExhausted
    <2>1. theJob \in Jobs /\ wrow = NewJob /\ jobs[theJob] = NewJob
      BY <1>3, HandsApart DEF SaveRefused, SaveExhausted, OneHand, BeforeStart, WithCopy, WFree
    <2>2. Allowed(theJob, MarkFailed(wrow))
      BY <2>1 DEF Allowed, NewJob
    <2>3. MarkFailed(wrow) \in Rows
      BY <2>1, RowOperations
    <2>4. QED
      BY <1>3, <2>1, <2>2, <2>3 DEF SaveRefused, SaveExhausted, RowStep
  <1>4. CASE SaveReady
    <2>1. /\ cjob \in Jobs /\ crow = jobs[cjob] /\ MayMarkReady(jobs[cjob])
          /\ tracks[cjob] = Audios /\ jobs[cjob] \in Rows
      BY <1>4, HandsApart DEF SaveReady, HoldsCopy, OneHand, Stored, TypeInv, SharedTyped
    <2>2. jobs[cjob].status = "ready" => MarkReady(jobs[cjob]) = jobs[cjob]
      BY <2>1 DEF MarkReady, Rows
    <2>3. Allowed(cjob, MarkReady(crow))
      BY <2>1, <2>2 DEF Allowed, MayMarkReady
    <2>4. MarkReady(crow) \in Rows
      BY <2>1, RowOperations
    <2>5. QED
      BY <1>4, <2>1, <2>3, <2>4 DEF SaveReady, RowStep
  <1>5. CASE SaveFailed
    <2>1. /\ cjob \in Jobs /\ crow = jobs[cjob] /\ crow.status = "processing"
          /\ jobs[cjob] \in Rows
      BY <1>5, HandsApart DEF SaveFailed, HoldsCopy, OneHand, TypeInv, SharedTyped
    <2>2. Allowed(cjob, MarkFailed(crow))
      BY <2>1 DEF Allowed
    <2>3. MarkFailed(crow) \in Rows
      BY <2>1, RowOperations
    <2>4. QED
      BY <1>5, <2>1, <2>2, <2>3 DEF SaveFailed, RowStep
  <1>6. CASE StoreTrack
    <2>1. cjob \in Jobs /\ cleft \subseteq Audios
      BY <1>6, HandsApart DEF StoreTrack, HoldsCopy, TypeInv, CallbackTyped
    <2>2. jobs[cjob].task # NoTask
      BY <1>6 DEF StoreTrack, OneHand
    <2>3. QED
      BY <1>6, <2>1, <2>2 DEF StoreTrack, ResultStep
  <1>7. QED
    BY <1>1, <1>2, <1>3, <1>4, <1>5, <1>6
       DEF Next, vars, SubscriberStep, ReadUpdatedJob, PushJob, ApiCrash, JobStep, RecoverJobs, DequeueJob, LoadJob, GenerateMusic,
           AnnounceProcessing, AnnounceRefused, AckJob, RetryJob, RequeueJob, LoadExhausted,
           AnnounceExhausted, CallbackStep, RecoverCallbacks, DequeueCallback, LoadCallbackJob,
           MarkCopyReady, AnnounceReady, AckCallback, RetryCallback, RequeueCallback,
           PollTick, PollFetch, PollTimeout, SunoFinish, SunoCallback, WorkerCrash, WorkerRestart

LEMMA LifecycleStep ==
    ASSUME InOneHand, TypeInv, Stored, EnqueuedOnly, Unbound, OneHand, [Next]_vars
    PROVE  [Lifecycle!Next]_(Lifecycle!lifeVars)
  <1>1. CASE UNCHANGED dbVars
    BY <1>1 DEF dbVars, Lifecycle!lifeVars
  <1>2. CASE RowStep
    BY <1>2, AllowedIsLifecycle DEF RowStep, TypeInv, SharedTyped
  <1>3. CASE ResultStep
    <2>1. PICK j \in Jobs, a \in Audios :
              jobs[j].task # NoTask /\ tracks' = [tracks EXCEPT ![j] = @ \cup {a}]
      BY <1>3 DEF ResultStep
    <2>2. Lifecycle!Store(j, a)
      BY <1>3, <2>1 DEF ResultStep, Lifecycle!Store
    <2>3. QED
      BY <2>2 DEF Lifecycle!Next
  <1>4. QED
    BY <1>1, <1>2, <1>3, StepOnTables

LEMMA FinalStep ==
    ASSUME InOneHand, TypeInv, Stored, EnqueuedOnly, Unbound, OneHand, [Next]_vars,
           NEW k \in Jobs
    PROVE  /\ IsFinal(jobs[k].status) => jobs'[k].status = jobs[k].status
           /\ jobs[k].task # NoTask => jobs'[k].task = jobs[k].task
  <1>1. CASE jobs' = jobs
    BY <1>1
  <1>2. CASE RowStep
    <2>1. PICK j \in Jobs, row \in Rows : Allowed(j, row) /\ jobs' = [jobs EXCEPT ![j] = row]
      BY <1>2 DEF RowStep
    <2>2. /\ jobs[j] \in Rows
          /\ jobs[j].status = "queued" => jobs[j].task = NoTask
      BY DEF TypeInv, SharedTyped, Unbound
    <2>3. /\ IsFinal(jobs[j].status) => row = jobs[j]
          /\ jobs[j].task # NoTask => row.task = jobs[j].task
      BY <2>1, <2>2 DEF Allowed, IsFinal, Rows, MarkFailed, MarkReady
    <2>4. jobs'[k] = IF k = j THEN row ELSE jobs[k]
      BY <2>1 DEF TypeInv, SharedTyped
    <2>5. QED
      BY <2>3, <2>4
  <1>3. QED
    BY <1>1, <1>2, StepOnTables DEF dbVars, ResultStep

LEMMA LifecycleInvariant ==
    ASSUME InOneHand
    PROVE  Spec => [](TypeInv /\ Stored /\ Unbound /\ EnqueuedOnly /\ OneHand)
  <1> DEFINE IInv == TypeInv /\ Stored /\ Unbound /\ EnqueuedOnly /\ OneHand
  <1>1. Init => IInv
    <2> SUFFICES ASSUME Init PROVE IInv
      OBVIOUS
    <2>1. Stored /\ Unbound
      BY DEF Init, Stored, ReadyHasTracks, Unbound, NoRow, HoldsCopy
    <2>2. EnqueuedOnly
      BY EmptyIsSorted, PipelineAssumption DEF Init, EnqueuedOnly, WFree
    <2>3. OneHand
      BY DEF Init, OneHand, BeforeStart, WithCopy, NoRow
    <2>4. QED
      BY <2>1, <2>2, <2>3, TypeInit
  <1>2. IInv /\ [Next]_vars => IInv'
    BY InOneHand, TypeNext, StoredNext, UnboundNext, EnqueuedNext, OneHandNext
  <1>3. QED
    BY <1>1, <1>2, PTL DEF Spec

\* A final status is final and a bound task stays bound, although both consumers
\* write whole rows they loaded earlier: whatever is refused, retried, lost with a
\* worker or delivered twice, as long as no failure leaves a row in two hands.
THEOREM FinalIsFinal == ASSUME InOneHand PROVE Spec => FinalStays
  <1> DEFINE Stays == \A j \in Jobs :
                         /\ IsFinal(jobs[j].status) => jobs'[j].status = jobs[j].status
                         /\ jobs[j].task # NoTask => jobs'[j].task = jobs[j].task
  <1>1. TypeInv /\ Stored /\ Unbound /\ EnqueuedOnly /\ OneHand /\ [Next]_vars => [Stays]_vars
    BY FinalStep, InOneHand
  <1>2. QED
    BY <1>1, LifecycleInvariant, InOneHand, PTL DEF Spec, FinalStays

\* Under the same condition the pipeline is a job lifecycle: the status of a job only
\* moves forward, its task is bound once and belongs to no other job, and it is ready
\* only with all of its results.
THEOREM PipelineIsLifecycle == ASSUME InOneHand PROVE Spec => ImplementsLifecycle
  <1>1. Init => Lifecycle!Init
    BY DEF Init, Lifecycle!Init, NoRow
  <1>2. TypeInv /\ Stored /\ Unbound /\ EnqueuedOnly /\ OneHand /\ [Next]_vars
            => [Lifecycle!Next]_(Lifecycle!lifeVars)
    BY LifecycleStep, InOneHand
  <1>3. QED
    BY <1>1, <1>2, LifecycleInvariant, InOneHand, PTL DEF Spec, ImplementsLifecycle, Lifecycle!Spec

-----------------------------------------------------------------------------
\* What is shown follows what is: a status that was read or pushed is one the row has
\* had, and the row only goes on from there.
Precedes(a, b) == a = b \/ Stage(a) < Stage(b)

LEMMA StatusGoesOn ==
    ASSUME InOneHand, TypeInv, Stored, EnqueuedOnly, Unbound, OneHand, [Next]_vars,
           NEW k \in Jobs
    PROVE  Precedes(jobs[k].status, jobs'[k].status)
  <1>1. CASE jobs' = jobs
    BY <1>1 DEF Precedes
  <1>2. CASE RowStep
    <2>1. PICK j \in Jobs, row \in Rows : Allowed(j, row) /\ jobs' = [jobs EXCEPT ![j] = row]
      BY <1>2 DEF RowStep
    <2>2. jobs[j] \in Rows
      BY DEF TypeInv, SharedTyped
    <2>3. \/ row.status = jobs[j].status
          \/ jobs[j].status = "absent" /\ row.status = "queued"
          \/ jobs[j].status \in {"queued", "processing"} /\ row.status = "failed"
          \/ jobs[j].status = "processing" /\ row.status = "ready"
          \/ jobs[j].status = "queued" /\ row.status = "processing"
      BY <2>1, <2>2 DEF Allowed, Rows, MarkFailed, MarkReady, NewJob
    <2>4. Precedes(jobs[j].status, row.status)
      BY <2>3 DEF Precedes, Stage
    <2>5. jobs'[k] = IF k = j THEN row ELSE jobs[k]
      BY <2>1 DEF TypeInv, SharedTyped
    <2>6. QED
      BY <2>4, <2>5 DEF Precedes
  <1>3. QED
    BY <1>1, <1>2, StepOnTables DEF dbVars, ResultStep

LEMMA PrecedesTransitive ==
    ASSUME NEW a, NEW b, NEW c, Precedes(a, b), Precedes(b, c)
    PROVE  Precedes(a, c)
  <1>1. Stage(a) \in Nat /\ Stage(b) \in Nat /\ Stage(c) \in Nat
    BY DEF Stage
  <1>2. QED
    BY <1>1 DEF Precedes

ShownBehind ==
    /\ \A j \in Jobs : Precedes(pushed[j].status, jobs[j].status)
    /\ sjob # NoJob => /\ Precedes(pushed[sjob].status, sstatus)
                       /\ Precedes(sstatus, jobs[sjob].status)

LEMMA ShownBehindNext ==
    ASSUME InOneHand, TypeInv, Stored, EnqueuedOnly, Unbound, OneHand, ShownBehind, [Next]_vars
    PROVE  /\ ShownBehind'
           /\ \A j \in Jobs : Precedes(pushed[j].status, pushed'[j].status)
  <1> DEFINE Goal == /\ ShownBehind'
                     /\ \A j \in Jobs : Precedes(pushed[j].status, pushed'[j].status)
  <1>1. \A j \in Jobs : Precedes(pushed[j].status, jobs'[j].status)
    BY StatusGoesOn, PrecedesTransitive DEF ShownBehind
  <1>2. sjob # NoJob => sjob \in Jobs /\ Precedes(sstatus, jobs'[sjob].status)
    BY StatusGoesOn, PrecedesTransitive DEF ShownBehind, TypeInv, SharedTyped
  <1>3. CASE UNCHANGED <<sjob, sstatus, pushed>>
    BY <1>1, <1>2, <1>3 DEF ShownBehind, Precedes
  <1>4. CASE sjob' = NoJob /\ UNCHANGED pushed
    BY <1>1, <1>4 DEF ShownBehind, Precedes
  <1>5. ASSUME NEW j \in Jobs, ReadUpdatedJob(j) PROVE Goal
    <2>1. /\ UNCHANGED <<pushed, jobs>>
          /\ sjob = NoJob
          /\ \/ sjob' = j /\ sstatus' = jobs[j].status
             \/ UNCHANGED <<sjob, sstatus>>
      BY <1>5 DEF ReadUpdatedJob, dbVars
    <2>2. CASE UNCHANGED <<sjob, sstatus>>
      BY <1>3, <2>1, <2>2
    <2>3. CASE sjob' = j /\ sstatus' = jobs[j].status
      BY <1>1, <2>1, <2>3 DEF ShownBehind, Precedes
    <2>4. QED
      BY <2>1, <2>2, <2>3
  <1>6. CASE PushJob
    <2>1. sjob \in Jobs /\ sjob # NoJob /\ sjob' = NoJob
      BY <1>2, <1>6 DEF PushJob, SubscriberIdle
    <2>2. CASE UNCHANGED pushed
      BY <1>4, <2>1, <2>2
    <2>3. CASE pushed' = [pushed EXCEPT ![sjob] = AttachTracks(sjob, sstatus)]
      <3>1. \A j \in Jobs : pushed'[j].status = IF j = sjob THEN sstatus ELSE pushed[j].status
        BY <2>1, <2>3 DEF TypeInv, SharedTyped, AttachTracks
      <3>2. Precedes(pushed[sjob].status, sstatus) /\ Precedes(sstatus, jobs'[sjob].status)
        BY <1>2, <2>1 DEF ShownBehind
      <3>3. \A j \in Jobs : Precedes(pushed'[j].status, jobs'[j].status)
        BY <1>1, <3>1, <3>2
      <3>4. \A j \in Jobs : Precedes(pushed[j].status, pushed'[j].status)
        <4>1. \A j \in Jobs : Precedes(pushed[j].status, pushed[j].status)
          BY DEF Precedes
        <4>2. QED
          BY <3>1, <3>2, <4>1
      <3>5. ShownBehind'
        BY <2>1, <3>3 DEF ShownBehind, Precedes
      <3>6. QED
        BY <3>4, <3>5
    <2>4. QED
      BY <1>6, <2>2, <2>3 DEF PushJob
  <1>7. QED
    BY <1>3, <1>4, <1>5, <1>6, SubscriberMoves

\* The owner of a job never sees its status go back, nor a final one change.
THEOREM PushedForward == ASSUME InOneHand PROVE Spec => PushesMoveForward
  <1> DEFINE Forward == \A j \in Jobs : pushed'[j].status # pushed[j].status =>
                            Stage(pushed[j].status) < Stage(pushed'[j].status)
             IInv == TypeInv /\ Stored /\ Unbound /\ EnqueuedOnly /\ OneHand
  <1>1. Init => ShownBehind
    BY DEF Init, ShownBehind, Precedes, NoView, NoRow
  <1>2. IInv /\ ShownBehind /\ [Next]_vars => ShownBehind'
    BY InOneHand, ShownBehindNext
  <1>3. IInv /\ ShownBehind /\ [Next]_vars => [Forward]_vars
    BY InOneHand, ShownBehindNext DEF Precedes
  <1>4. QED
    BY <1>1, <1>2, <1>3, LifecycleInvariant, InOneHand, PTL DEF Spec, PushesMoveForward

-----------------------------------------------------------------------------
\* The job of a task was started with it: the poller of a task finds the row bound.
Followed(t) ==
    /\ suno[t] # "unused"
    /\ owner[t] \in Jobs
    /\ jobs[owner[t]].task = t
    /\ jobs[owner[t]].status \notin {"absent", "queued"}

Following ==
    /\ \A t \in Tasks : poll[t] # "off" => Followed(t)
    /\ wpc = "announce" => wtask \in Tasks /\ Followed(wtask)

LEMMA FollowedStays ==
    ASSUME InOneHand, TypeInv, Stored, EnqueuedOnly, Unbound, OneHand, Next,
           NEW t \in Tasks, Followed(t)
    PROVE  Followed(t)'
  <1> DEFINE j == owner[t]
  <1>1. suno'[t] # "unused" /\ owner'[t] = j /\ j \in Jobs
    BY StartedTaskStays DEF Followed
  <1>2. jobs'[j].task = t
    BY <1>1, FinalStep, PipelineAssumption DEF Followed
  <1>3. jobs'[j].status \notin {"absent", "queued"}
    <2>1. Precedes(jobs[j].status, jobs'[j].status)
      BY <1>1, StatusGoesOn
    <2>2. jobs[j].status \in {"processing", "ready", "failed"}
      BY <1>1 DEF Followed, TypeInv, SharedTyped, Rows, Statuses
    <2>3. QED
      BY <2>1, <2>2 DEF Precedes, Stage
  <1>4. QED
    BY <1>1, <1>2, <1>3 DEF Followed

\* The steps that start a poller, and those that lead to one.
LEMMA PollerMoves ==
    ASSUME TypeInv, Next
    PROVE  /\ \/ \A t \in Tasks : poll'[t] # "off" => poll[t] # "off"
              \/ AnnounceProcessing
           /\ \/ wpc' # "announce"
              \/ UNCHANGED <<wpc, wtask>>
              \/ SaveProcessing
  <1> USE DEF wVars, WGoto, WIdle
  <1>1. CASE AnnounceProcessing
    BY <1>1 DEF AnnounceProcessing
  <1>2. CASE SaveProcessing
    BY <1>2 DEF SaveProcessing
  <1>3. ASSUME NEW t \in Tasks, PollTick(t) \/ PollFetch(t) \/ PollTimeout(t)
        PROVE  /\ \A u \in Tasks : poll'[u] # "off" => poll[u] # "off"
               /\ UNCHANGED <<wpc, wtask>>
    BY <1>3 DEF PollTick, PollFetch, PollTimeout, TypeInv, SunoTyped
  <1>4. CASE WorkerCrash
    BY <1>4 DEF WorkerCrash
  <1>5. CASE UNCHANGED poll /\ (UNCHANGED <<wpc, wtask>> \/ wpc' # "announce")
    BY <1>5
  <1>6. CASE JobStep
    BY <1>1, <1>2, <1>5, <1>6
       DEF JobStep, RecoverJobs, DequeueJob, LoadJob, GenerateMusic, SaveRefused, AnnounceRefused,
           AckJob, RetryJob, RequeueJob, LoadExhausted, SaveExhausted, AnnounceExhausted
  <1>7. CASE CallbackStep
    BY <1>5, <1>7
       DEF CallbackStep, RecoverCallbacks, DequeueCallback, LoadCallbackJob, StoreTrack, MarkCopyReady,
           SaveReady, AnnounceReady, SaveFailed, AckCallback, RetryCallback, RequeueCallback
  <1>8. QED
    BY <1>3, <1>4, <1>5, <1>6, <1>7
       DEF Next, CreateJob, InsertJob, EnqueueJob, UndoCreate, SubscriberStep, ReadUpdatedJob, PushJob,
           ApiCrash, SunoFinish, SunoCallback, WorkerRestart

LEMMA FollowingNext ==
    ASSUME InOneHand, TypeInv, Stored, EnqueuedOnly, Unbound, OneHand, Owned, Following, [Next]_vars
    PROVE  Following'
  <1>1. CASE UNCHANGED vars
    BY <1>1 DEF vars, Following, Followed
  <1>2. CASE Next
    <2>1. \A t \in Tasks : Followed(t) => Followed(t)'
      BY <1>2, FollowedStays
    <2>2. \A t \in Tasks : poll'[t] # "off" => Followed(t)'
      <3>1. CASE AnnounceProcessing
        <4>1. wtask \in Tasks /\ Followed(wtask)
          BY <3>1 DEF AnnounceProcessing, Following
        <4>2. \A t \in Tasks : poll'[t] # "off" => t = wtask \/ poll[t] # "off"
          BY <3>1 DEF AnnounceProcessing, TypeInv, SunoTyped
        <4>3. QED
          BY <2>1, <4>1, <4>2 DEF Following
      <3>2. QED
        BY <1>2, <2>1, <3>1, PollerMoves DEF Following
    <2>3. wpc' = "announce" => wtask' \in Tasks /\ Followed(wtask)'
      <3>1. CASE UNCHANGED <<wpc, wtask>>
        BY <2>1, <3>1 DEF Following
      <3>2. CASE SaveProcessing /\ wpc' = "announce"
        <4>1. /\ theJob \in Jobs /\ wrow = NewJob /\ wtask \in Tasks
              /\ suno[wtask] # "unused" /\ owner[wtask] = theJob
          BY <3>2, HandsApart DEF SaveProcessing, OneHand, Owned, WithCopy, WFree
        <4>2. /\ MarkProcessing(wrow, wtask).status = "processing"
              /\ MarkProcessing(wrow, wtask).task = wtask
          BY <4>1 DEF MarkProcessing, NewJob
        <4>3. /\ jobs' = [jobs EXCEPT ![theJob] = MarkProcessing(wrow, wtask)]
              /\ UNCHANGED <<suno, owner, wtask>>
          BY <3>2 DEF SaveProcessing, WriteRow, WGoto, sunoVars
        <4>4. jobs'[theJob] = MarkProcessing(wrow, wtask)
          BY <4>1, <4>3 DEF TypeInv, SharedTyped
        <4>5. QED
          BY <4>1, <4>2, <4>3, <4>4 DEF Followed
      <3>3. QED
        BY <1>2, <3>1, <3>2, PollerMoves
    <2>4. QED
      BY <2>2, <2>3 DEF Following, Followed
  <1>3. QED
    BY <1>1, <1>2

\* A poller always finds the row of its job bound to its task and started.
THEOREM PollersFollow == ASSUME InOneHand PROVE Spec => []PollerFollowsJob
  <1> DEFINE IInv == TypeInv /\ Stored /\ Unbound /\ EnqueuedOnly /\ OneHand
  <1>1. Init => Owned /\ Following
    BY DEF Init, Owned, Carries, NoRow, HoldsCopy, Following
  <1>2. IInv /\ Owned /\ Following /\ [Next]_vars => Owned' /\ Following'
    BY InOneHand, OwnedNext, FollowingNext
  <1>3. Following => PollerFollowsJob
    BY DEF Following, Followed, PollerFollowsJob
  <1>4. QED
    BY <1>1, <1>2, <1>3, LifecycleInvariant, InOneHand, PTL DEF Spec

-----------------------------------------------------------------------------
\* The error callbacks on their way are about tasks that Suno is done with.
Over(t) == suno[t] \in {"done", "broken"}

Honest == {c \in Callbacks : c.type = "error" => Over(c.task)}

HonestErrors ==
    /\ cbQ \in Sorted(Honest, MaxAttempts)
    /\ ~CFree => cmsg \in Fresh(Honest, MaxAttempts)
    /\ cpc = "fail" => cmsg.payload.type = "error" /\ crow.task = cmsg.payload.task

LEMMA OverStays ==
    ASSUME TypeInv, [Next]_vars, NEW t \in Tasks, Over(t)
    PROVE  Over(t)'
  <1>1. CASE GenerateMusic
    BY <1>1 DEF GenerateMusic, StartTask, sunoVars, TypeInv, SunoTyped, Over
  <1>2. ASSUME NEW u \in Tasks, SunoFinish(u) PROVE Over(t)'
    BY <1>2 DEF SunoFinish, TypeInv, SunoTyped, Over
  <1>3. CASE UNCHANGED suno
    BY <1>3 DEF Over
  <1>4. QED
    BY <1>1, <1>2, <1>3
       DEF Next, vars, CreateJob, InsertJob, EnqueueJob, UndoCreate, SubscriberStep, ReadUpdatedJob,
           PushJob, ApiCrash, JobStep, RecoverJobs, DequeueJob, LoadJob, SaveProcessing,
           AnnounceProcessing, SaveRefused, AnnounceRefused, AckJob, RetryJob, RequeueJob,
           LoadExhausted, SaveExhausted, AnnounceExhausted, CallbackStep, RecoverCallbacks,
           DequeueCallback, LoadCallbackJob, StoreTrack, MarkCopyReady, SaveReady, AnnounceReady,
           SaveFailed, AckCallback, RetryCallback, RequeueCallback, PollTick, PollFetch, PollTimeout,
           SunoCallback, WorkerCrash, WorkerRestart, sunoVars

LEMMA HonestErrorsNext ==
    ASSUME TypeInv, HonestErrors, [Next]_vars
    PROVE  HonestErrors'
  <1> USE DEF dbVars, pushVars, apiVars, sunoVars, wVars, cVars, CGoto, CIdle
  <1>1. Honest \subseteq Honest'
    BY OverStays DEF Honest, Callbacks
  <1>2. /\ Sorted(Honest, MaxAttempts) \subseteq Sorted(Honest', MaxAttempts)
        /\ Fresh(Honest, MaxAttempts) \subseteq Fresh(Honest', MaxAttempts)
    BY <1>1, SortedGrows
  <1>3. /\ cbQ.main # <<>> => /\ ReservedMessage(cbQ) \in Fresh(Honest, MaxAttempts)
                              /\ Reserve(cbQ) \in Sorted(Honest, MaxAttempts)
        /\ cbQ.processing # <<>> => RecoverLast(cbQ) \in Sorted(Honest, MaxAttempts)
        /\ RemoveReserved(cbQ, cmsg) \in Sorted(Honest, MaxAttempts)
        /\ ~CFree => PushRetried(cbQ, cmsg, MaxAttempts) \in Sorted(Honest, MaxAttempts)
    BY CommandsKeepSorted, RetryKeepsSorted, PipelineAssumption DEF HonestErrors
  <1>4. ASSUME NEW t \in Tasks, NEW type \in CallbackTypes, type = "error" => Over(t)
        PROVE  PushMain(cbQ, [payload |-> [task |-> t, type |-> type], attempts |-> 0])
                   \in Sorted(Honest, MaxAttempts)
    <2>1. [task |-> t, type |-> type] \in Honest
      BY <1>4 DEF Honest, Callbacks
    <2>2. QED
      BY <2>1, CommandsKeepSorted, FirstServing, PipelineAssumption DEF HonestErrors
  <1>5. CASE UNCHANGED <<cbQ, cpc, cmsg, crow>>
    BY <1>2, <1>5 DEF HonestErrors, CFree
  <1>6. ASSUME NEW t \in Tasks, PollFetch(t) PROVE HonestErrors'
    <2>1. \A type \in DetailsCallbacks(suno[t]) : type \in CallbackTypes /\ Over(t)
      BY DEF DetailsCallbacks, CallbackTypes, Over
    <2>2. cbQ' \in Sorted(Honest, MaxAttempts)
      BY <1>4, <1>6, <2>1 DEF PollFetch, HonestErrors
    <2>3. QED
      BY <1>2, <1>6, <2>2 DEF PollFetch, HonestErrors, CFree
  <1>7. ASSUME NEW t \in Tasks, SunoCallback(t) PROVE HonestErrors'
    <2>1. /\ SunoCallbackType(suno[t]) \in CallbackTypes
          /\ SunoCallbackType(suno[t]) = "error" => Over(t)
      BY <1>7 DEF SunoCallback, SunoCallbackType, CallbackTypes, Over, TypeInv, SunoTyped
    <2>2. cbQ' \in Sorted(Honest, MaxAttempts)
      BY <1>4, <1>7, <2>1 DEF SunoCallback, ReceiveCallback
    <2>3. QED
      BY <1>2, <1>7, <2>2 DEF SunoCallback, HonestErrors, CFree
  <1>8. CASE CallbackStep
    <2>1. cbQ' \in Sorted(Honest, MaxAttempts)
      BY <1>3, <1>8
         DEF CallbackStep, RecoverCallbacks, DequeueCallback, LoadCallbackJob, StoreTrack,
             MarkCopyReady, SaveReady, AnnounceReady, SaveFailed, AckCallback, RetryCallback,
             RequeueCallback, HonestErrors, CFree
    <2>2. ~CFree' => cmsg' \in Fresh(Honest, MaxAttempts)
      BY <1>3, <1>8
         DEF CallbackStep, RecoverCallbacks, DequeueCallback, LoadCallbackJob, StoreTrack,
             MarkCopyReady, SaveReady, AnnounceReady, SaveFailed, AckCallback, RetryCallback,
             RequeueCallback, HonestErrors, CFree
    <2>3. cpc' = "fail" => cmsg'.payload.type = "error" /\ crow'.task = cmsg'.payload.task
      <3>1. CASE LoadCallbackJob
        <4>1. cmsg.payload.type \in CallbackTypes
          BY <3>1 DEF LoadCallbackJob, TypeInv, CallbackTyped, CFree, Fresh, Callbacks
        <4>2. \A row \in Rows : HandleNext(cmsg.payload.type, row) = "fail" => cmsg.payload.type = "error"
          BY <4>1 DEF HandleNext, CallbackTypes
        <4>3. \A j \in JobsOfTask(cmsg.payload.task) : jobs[j].task = cmsg.payload.task /\ jobs[j] \in Rows
          BY DEF JobsOfTask, TypeInv, SharedTyped
        <4>4. QED
          BY <3>1, <4>2, <4>3 DEF LoadCallbackJob
      <3>2. QED
        BY <1>8, <3>1
           DEF CallbackStep, RecoverCallbacks, DequeueCallback, StoreTrack, MarkCopyReady, SaveReady,
               AnnounceReady, SaveFailed, AckCallback, RetryCallback, RequeueCallback, HonestErrors
    <2>4. QED
      BY <1>2, <2>1, <2>2, <2>3 DEF HonestErrors, CFree
  <1>9. CASE WorkerCrash \/ WorkerRestart
    BY <1>2, <1>9 DEF WorkerCrash, WorkerRestart, HonestErrors, CFree
  <1>10. QED
    BY <1>5, <1>6, <1>7, <1>8, <1>9
       DEF Next, vars, CreateJob, InsertJob, EnqueueJob, UndoCreate, SubscriberStep, ReadUpdatedJob,
           PushJob, ApiCrash, JobStep, RecoverJobs, DequeueJob, LoadJob, GenerateMusic, SaveProcessing,
           AnnounceProcessing, SaveRefused, AnnounceRefused, AckJob, RetryJob, RequeueJob,
           LoadExhausted, SaveExhausted, AnnounceExhausted, PollTick, PollTimeout, SunoFinish

\* What the job consumer is about to fail carries no task when Suno has refused it, and
\* has a dead letter when its attempts are used up.
GivenUp ==
    /\ wpc = "refuse" => wrow.task = NoTask
    /\ wpc \in {"exhaust", "bury"} => OutOfAttempts(theJob)

LEMMA OutOfAttemptsStays ==
    ASSUME TypeInv, [Next]_vars, NEW j, OutOfAttempts(j)
    PROVE  OutOfAttempts(j)'
  <1> USE DEF OutOfAttempts
  <1> DEFINE dead == [payload |-> j, attempts |-> MaxAttempts]
  <1>1. jobQ \in [main : Seq(Fresh(Jobs, MaxAttempts)), processing : Seq(Fresh(Jobs, MaxAttempts)),
                   dlq : Seq(Spent(Jobs, MaxAttempts))]
    BY DEF TypeInv, QueuesTyped, Sorted
  <1> HIDE DEF dead
  <1>2. /\ dead \in ToSet(Reserve(jobQ).dlq)
        /\ dead \in ToSet(RecoverLast(jobQ).dlq)
        /\ \A m : dead \in ToSet(PushMain(jobQ, m).dlq) /\ dead \in ToSet(RemoveReserved(jobQ, m).dlq)
        /\ \A m, max : dead \in ToSet(PushRetried(jobQ, m, max).dlq)
    BY <1>1, DeadLettersGrow DEF dead
  <1>3. \/ jobQ' \in {jobQ, Reserve(jobQ), RecoverLast(jobQ), RemoveReserved(jobQ, wmsg),
                      PushRetried(jobQ, wmsg, MaxAttempts)}
        \/ \E m : jobQ' = PushMain(jobQ, m)
    BY ConsumerMoves
       DEF EnqueueJob, JobStep, RecoverJobs, DequeueJob, LoadJob, GenerateMusic, SaveProcessing,
           AnnounceProcessing, SaveRefused, AnnounceRefused, AckJob, RetryJob, RequeueJob,
           LoadExhausted, SaveExhausted, AnnounceExhausted, WorkerCrash, WorkerRestart
  <1>4. QED
    BY <1>2, <1>3 DEF dead

LEMMA GivenUpNext ==
    ASSUME TypeInv, CopyTrue, GivenUp, [Next]_vars
    PROVE  GivenUp'
  <1> USE DEF WGoto, WIdle, wVars
  <1>1. CASE UNCHANGED wVars
    BY <1>1, OutOfAttemptsStays DEF GivenUp, theJob
  <1>2. CASE RequeueJob
    <2>1. wpc' \notin {"refuse", "bury"}
      BY <1>2 DEF RequeueJob
    <2>2. ASSUME wpc' = "exhaust" PROVE OutOfAttempts(theJob)'
      <3>1. /\ wmsg' = wmsg /\ wmsg \in Fresh(Jobs, MaxAttempts) /\ MovesToDLQ(wmsg, MaxAttempts)
            /\ jobQ' = PushRetried(jobQ, wmsg, MaxAttempts)
        BY <1>2, <2>2 DEF RequeueJob, TypeInv, WorkerTyped, WFree
      <3>2. jobQ \in Sorted(Jobs, MaxAttempts)
        BY DEF TypeInv, QueuesTyped
      <3>3. QED
        BY <3>1, <3>2, SpentIsBuried, PipelineAssumption DEF OutOfAttempts, theJob
    <2>3. QED
      BY <2>1, <2>2 DEF GivenUp
  <1>3. CASE GenerateMusic
    BY <1>3 DEF GenerateMusic, CopyTrue, GivenUp
  <1>4. CASE LoadExhausted
    BY <1>4, OutOfAttemptsStays DEF LoadExhausted, GivenUp, theJob
  <1>5. CASE wpc' \notin {"refuse", "exhaust", "bury"}
    BY <1>5 DEF GivenUp
  <1>6. QED
    BY <1>1, <1>2, <1>3, <1>4, <1>5, ConsumerMoves
       DEF EnqueueJob, JobStep, RecoverJobs, DequeueJob, LoadJob, SaveProcessing, AnnounceProcessing,
           SaveRefused, AnnounceRefused, AckJob, RetryJob, SaveExhausted, AnnounceExhausted,
           WorkerCrash, WorkerRestart

\* A job gets one task: whoever holds a copy of a row that carries a task finds it in
\* the row, unless the row was overwritten by one without.  A job whose generation is
\* refused has none.
Bound(j, task) == jobs[j].task \in {NoTask, task}

OneTask ==
    /\ HoldsCopy => Bound(cjob, crow.task)
    /\ wpc = "bury" => wrow.task = NoTask \/ Bound(theJob, wrow.task)
    /\ wpc = "bury" /\ HoldsCopy /\ cjob = theJob => wrow.task \in {NoTask, crow.task}
    /\ wpc = "refuse" => jobs[theJob].task = NoTask /\ (HoldsCopy => cjob # theJob)

LEMMA OneTaskNext ==
    ASSUME TypeInv, Unbound, CopyTrue, GivenUp, OneTask, [Next]_vars
    PROVE  OneTask'
  <1> USE TypeInv DEF TypeInv, SharedTyped, OneTask, Bound
  <1>1. /\ HoldsCopy => cjob \in Jobs /\ crow \in Rows
        /\ wpc \in {"save", "refuse", "bury"} => theJob \in Jobs /\ wrow \in Rows
    BY DEF HoldsCopy, CallbackTyped, WorkerTyped, WFree, Fresh, theJob
  <1>2. CASE UNCHANGED <<jobs, wVars, cVars>>
    BY <1>1, <1>2 DEF HoldsCopy, theJob, wVars, cVars
  <1>3. CASE WorkerCrash \/ WorkerRestart
    BY <1>3 DEF WorkerCrash, WorkerRestart, WGoto, CGoto, HoldsCopy
  <1>4. CASE JobStep
    <2> USE DEF dbVars, pushVars, apiVars, sunoVars, wVars, cVars, WGoto, WIdle, HoldsCopy
    <2>1. CASE UNCHANGED jobs /\ wpc' \notin {"refuse", "bury"}
      <3>1. UNCHANGED cVars
        BY <1>4 DEF JobStep, RecoverJobs, DequeueJob, LoadJob, GenerateMusic, SaveProcessing,
                    AnnounceProcessing, SaveRefused, AnnounceRefused, AckJob, RetryJob, RequeueJob,
                    LoadExhausted, SaveExhausted, AnnounceExhausted
      <3>2. QED
        BY <2>1, <3>1
    <2>2. CASE GenerateMusic
      BY <2>2 DEF GenerateMusic, Unbound, theJob
    <2>3. CASE LoadExhausted
      BY <2>3 DEF LoadExhausted, theJob
    <2>4. CASE SaveProcessing
      <3>1. UNCHANGED cVars /\ wpc' \notin {"refuse", "bury"} /\ (HoldsCopy => cjob # theJob)
        BY <2>4 DEF SaveProcessing, Unbound
      <3>2. \A j \in Jobs : j # theJob => jobs'[j] = jobs[j]
        BY <1>1, <2>4, RowWritten DEF SaveProcessing
      <3>3. QED
        BY <1>1, <3>1, <3>2
    <2>5. CASE SaveRefused
      <3>1. UNCHANGED cVars /\ wpc' \notin {"refuse", "bury"} /\ (HoldsCopy => cjob # theJob)
        BY <2>5 DEF SaveRefused
      <3>2. \A j \in Jobs : j # theJob => jobs'[j] = jobs[j]
        BY <1>1, <2>5, RowWritten DEF SaveRefused
      <3>3. QED
        BY <1>1, <3>1, <3>2
    <2>6. CASE SaveExhausted
      <3>1. UNCHANGED cVars /\ wpc' \notin {"refuse", "bury"} /\ wpc = "bury"
        BY <2>6 DEF SaveExhausted
      <3>2. MarkFailed(wrow).task = wrow.task
        BY <1>1, <3>1 DEF MarkFailed, Rows
      <3>3. /\ \A j \in Jobs : j # theJob => jobs'[j] = jobs[j]
            /\ jobs'[theJob] \in {jobs[theJob], MarkFailed(wrow)}
        BY <1>1, <2>6, RowWritten DEF SaveExhausted
      <3>4. QED
        BY <1>1, <3>1, <3>2, <3>3
    <2>7. QED
      BY <1>4, <2>1, <2>2, <2>3, <2>4, <2>5, <2>6
         DEF JobStep, RecoverJobs, DequeueJob, LoadJob, AnnounceProcessing, AnnounceRefused, AckJob,
             RetryJob, RequeueJob, AnnounceExhausted
  <1>5. CASE CallbackStep
    <2> USE DEF dbVars, pushVars, apiVars, sunoVars, wVars, cVars, CGoto, CIdle, HoldsCopy
    <2>1. UNCHANGED wVars
      BY <1>5 DEF CallbackStep, RecoverCallbacks, DequeueCallback, LoadCallbackJob, StoreTrack,
                  MarkCopyReady, SaveReady, SaveFailed, AnnounceReady, AckCallback, RetryCallback,
                  RequeueCallback
    <2>2. CASE UNCHANGED jobs /\ ~HoldsCopy'
      BY <1>1, <2>1, <2>2 DEF theJob
    <2>3. CASE LoadCallbackJob /\ HoldsCopy'
      <3>1. cmsg.payload.task \in Tasks /\ NoTask \notin Tasks
        BY <2>3, PipelineAssumption DEF LoadCallbackJob, CallbackTyped, CFree, Fresh, Callbacks
      <3>2. cjob' \in Jobs /\ crow' = jobs[cjob'] /\ jobs[cjob'].task \in Tasks /\ UNCHANGED jobs
        BY <2>3, <3>1 DEF LoadCallbackJob, JobsOfTask
      <3>3. QED
        BY <1>1, <2>1, <3>1, <3>2 DEF theJob
    <2>4. CASE StoreTrack \/ MarkCopyReady \/ AnnounceReady
      <3>1. /\ UNCHANGED <<jobs, cjob>> \/ ~HoldsCopy'
            /\ UNCHANGED jobs
            /\ HoldsCopy /\ (HoldsCopy' => crow'.task = crow.task)
        BY <1>1, <2>4 DEF StoreTrack, MarkCopyReady, AnnounceReady, MarkReady, Rows
      <3>2. QED
        BY <1>1, <2>1, <3>1 DEF theJob
    <2>5. CASE SaveReady \/ SaveFailed
      <3>1. HoldsCopy /\ UNCHANGED <<cjob, crow>>
        BY <2>5 DEF SaveReady, SaveFailed
      <3>2. MarkReady(crow).task = crow.task /\ MarkFailed(crow).task = crow.task
        BY <1>1, <3>1 DEF MarkReady, MarkFailed, Rows
      <3>3. /\ \A j \in Jobs : j # cjob => jobs'[j] = jobs[j]
            /\ jobs'[cjob] \in {jobs[cjob], MarkReady(crow), MarkFailed(crow)}
        BY <1>1, <2>5, <3>1, RowWritten DEF SaveReady, SaveFailed
      <3>4. QED
        BY <1>1, <2>1, <3>1, <3>2, <3>3 DEF theJob
    <2>6. QED
      BY <1>5, <2>2, <2>3, <2>4, <2>5
         DEF CallbackStep, RecoverCallbacks, DequeueCallback, LoadCallbackJob, AckCallback,
             RetryCallback, RequeueCallback
  <1>6. ASSUME NEW i \in Jobs, CreateJob(i) PROVE OneTask'
    <2>1. UNCHANGED <<wVars, cVars>>
      BY <1>6 DEF CreateJob, InsertJob, EnqueueJob, UndoCreate
    <2>2. NewJob.task = NoTask /\ MarkFailed(NewJob).task = NoTask
      BY DEF NewJob, MarkFailed
    <2>3. jobs' = jobs \/ WriteRow(i, NewJob) \/ WriteRow(i, MarkFailed(NewJob))
      BY <1>6 DEF CreateJob, InsertJob, EnqueueJob, UndoCreate, WriteRowFails, dbVars
    <2>4. \A j \in Jobs : jobs'[j] = jobs[j] \/ jobs'[j].task = NoTask
      BY <2>2, <2>3 DEF WriteRow
    <2>5. QED
      BY <1>1, <2>1, <2>4 DEF HoldsCopy, theJob, wVars, cVars
  <1>7. CASE SubscriberStep \/ ApiCrash \/ UNCHANGED vars
    BY <1>2, <1>7 DEF SubscriberStep, ReadUpdatedJob, PushJob, ApiCrash, vars, dbVars, wVars, cVars
  <1>8. ASSUME NEW t \in Tasks, PollTick(t) \/ PollFetch(t) \/ PollTimeout(t) PROVE OneTask'
    BY <1>2, <1>8 DEF PollTick, PollFetch, PollTimeout, dbVars
  <1>9. ASSUME NEW t \in Tasks, SunoFinish(t) \/ SunoCallback(t) PROVE OneTask'
    BY <1>2, <1>9 DEF SunoFinish, SunoCallback, dbVars
  <1>10. QED
    BY <1>3, <1>4, <1>5, <1>6, <1>7, <1>8, <1>9 DEF Next

\* Whatever fails: a step that fails a job whose generation Suno is working on is
\* Exhausted, with the attempts of its message used up, or the undo of a request that
\* was told its message had not been enqueued.
THEOREM RunningIsGivenUpTwoWays == Spec => NoneAbandoned
  <1> DEFINE IInv == TypeInv /\ Unbound /\ Owned /\ CopyTrue /\ GivenUp /\ HonestErrors /\ OneTask
             Kept == \A j \in Jobs : Generating(j) /\ jobs'[j].status = "failed"
                                        => OutOfAttempts(j) \/ api[j] = "undo"
  <1>1. Init => IInv
    <2>1. Init => HonestErrors
      BY EmptyIsSorted, PipelineAssumption DEF Init, HonestErrors, CFree
    <2>2. Init => Unbound /\ Owned /\ CopyTrue /\ GivenUp /\ OneTask
      BY DEF Init, Unbound, Owned, Carries, CopyTrue, GivenUp, OneTask, NoRow, HoldsCopy
    <2>3. QED
      BY <2>1, <2>2, TypeInit
  <1>2. IInv /\ [Next]_vars => IInv'
    BY TypeNext, UnboundNext, OwnedNext, CopyTrueNext, GivenUpNext, HonestErrorsNext, OneTaskNext
  <1>3. IInv /\ [Next]_vars => [Kept]_vars
    <2> SUFFICES ASSUME IInv, Next, NEW k \in Jobs, Generating(k), jobs'[k].status = "failed"
                 PROVE  OutOfAttempts(k) \/ api[k] = "undo"
      OBVIOUS
    <2> USE DEF WriteRow, WriteRowFails, Fault, Generating
    <2> USE DEF TypeInv, SharedTyped
    <2>1. jobs[k].status # "failed" /\ jobs[k].task \in Tasks /\ jobs[k].task # NoTask
      BY DEF Rows
    <2>2. ASSUME NEW j \in Jobs, InsertJob(j) PROVE FALSE
      BY <2>1, <2>2 DEF InsertJob, NewJob
    <2>3. ASSUME NEW j \in Jobs, UndoCreate(j) PROVE api[k] = "undo"
      BY <2>1, <2>3 DEF UndoCreate
    <2>4. wpc \in {"save", "refuse", "bury"} => theJob \in Jobs
      BY DEF WorkerTyped, WFree, Fresh, theJob
    <2>5. CASE SaveProcessing
      <3>1. MarkProcessing(wrow, wtask).status = "processing"
        BY <2>5 DEF SaveProcessing, Unbound, MarkProcessing
      <3>2. QED
        BY <2>1, <2>4, <2>5, <3>1 DEF SaveProcessing
    <2>6. CASE SaveRefused
      BY <2>1, <2>4, <2>6 DEF SaveRefused, OneTask
    <2>7. CASE SaveExhausted
      BY <2>1, <2>4, <2>7 DEF SaveExhausted, GivenUp
    <2>8. CASE SaveReady
      <3>1. MarkReady(crow).status = "ready" /\ cjob \in Jobs
        BY <2>8 DEF SaveReady, HoldsCopy, MarkReady, CallbackTyped, Rows
      <3>2. QED
        BY <2>1, <2>8, <3>1 DEF SaveReady
    <2>9. CASE SaveFailed
      <3>1. /\ cjob \in Jobs /\ cmsg.payload \in Honest
            /\ cmsg.payload.type = "error" /\ crow.task = cmsg.payload.task
        BY <2>9 DEF SaveFailed, CallbackTyped, HoldsCopy, HonestErrors, CFree, Fresh
      <3>2. suno[crow.task] # "running" /\ jobs[cjob].task \in {NoTask, crow.task}
        BY <2>9, <3>1 DEF SaveFailed, Honest, Over, OneTask, Bound, HoldsCopy
      <3>3. k = cjob
        BY <2>1, <2>9, <3>1 DEF SaveFailed
      <3>4. QED
        BY <2>1, <3>2, <3>3
    <2>10. jobs' # jobs
      BY <2>1
    <2>11. CASE JobStep
      BY <2>5, <2>6, <2>7, <2>10, <2>11
         DEF JobStep, RecoverJobs, DequeueJob, LoadJob, GenerateMusic, AnnounceProcessing,
             AnnounceRefused, AckJob, RetryJob, RequeueJob, LoadExhausted, AnnounceExhausted, dbVars
    <2>12. CASE CallbackStep
      BY <2>8, <2>9, <2>10, <2>12
         DEF CallbackStep, RecoverCallbacks, DequeueCallback, LoadCallbackJob, StoreTrack,
             MarkCopyReady, AnnounceReady, AckCallback, RetryCallback, RequeueCallback, dbVars
    <2>13. QED
      BY <2>2, <2>3, <2>10, <2>11, <2>12
         DEF Next, CreateJob, EnqueueJob, SubscriberStep, ReadUpdatedJob, PushJob, ApiCrash,
             PollTick, PollFetch, PollTimeout, SunoFinish, SunoCallback, WorkerCrash,
             WorkerRestart, dbVars
  <1>4. QED
    BY <1>1, <1>2, <1>3, PTL DEF Spec, NoneAbandoned, Generating, OutOfAttempts

=============================================================================
