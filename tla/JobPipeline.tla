----------------------------- MODULE JobPipeline -----------------------------
(***************************************************************************)
(* The job pipeline: the API process, the worker process with its two      *)
(* consumers and its pollers, and the Suno service, over the shared state  *)
(* of PipelineState.                                                       *)
(***************************************************************************)
EXTENDS JobApi, JobWorker, CallbackWorker

-----------------------------------------------------------------------------
\* Suno finishes a task, well or badly.
SunoFinish(t) ==
    /\ suno[t] = "running"
    /\ \E state \in {"done", "broken"} : suno' = [suno EXCEPT ![t] = state]
    /\ UNCHANGED <<dbVars, jobQ, cbQ, apiVars, sent, owner, poll, wVars, cVars, faults>>

SunoCallbackType(state) ==
    CASE state = "running" -> "progress"
      [] state = "done"    -> "complete"
      [] OTHER             -> "error"

\* Suno posts a callback that fits the state of the task: at any time after the
\* task was started (so possibly before the worker has saved its id), possibly
\* more than once, possibly never.
SunoCallback(t) ==
    /\ sent < MaxCallbacks
    /\ suno[t] # "unused"
    /\ sent' = sent + 1
    /\ ReceiveCallback(t, SunoCallbackType(suno[t]))
    /\ UNCHANGED <<dbVars, jobQ, apiVars, suno, owner, poll, wVars, cVars, faults>>

\* The worker process dies, with both consumers and every poller.
WorkerCrash ==
    /\ wpc # "down"
    /\ Fault("worker_crash")
    /\ wpc' = "down" /\ wmsg' = NoMsg /\ wrow' = NoRow /\ wtask' = NoTask
    /\ cpc' = "down" /\ cmsg' = NoMsg /\ cjob' = NoJob /\ crow' = NoRow /\ cleft' = {}
    /\ poll' = [t \in Tasks |-> "off"]
    /\ UNCHANGED <<dbVars, jobQ, cbQ, apiVars, sunoVars>>

\* main starts both consumers again, each with its Recover; no poller is.
WorkerRestart ==
    /\ wpc = "down"
    /\ WGoto("recover")
    /\ CGoto("recover")
    /\ UNCHANGED <<dbVars, jobQ, cbQ, apiVars, sunoVars, poll, faults>>

-----------------------------------------------------------------------------
Next ==
    \/ \E j \in Jobs : CreateJob(j)
    \/ SubscriberStep
    \/ JobStep
    \/ CallbackStep
    \/ \E t \in Tasks : PollTick(t) \/ PollFetch(t) \/ PollTimeout(t)
    \/ \E t \in Tasks : SunoFinish(t) \/ SunoCallback(t)
    \/ ApiCrash
    \/ WorkerCrash
    \/ WorkerRestart

Spec == Init /\ [][Next]_vars

\* Goroutines that can take a step take it, dead processes are started again and
\* a request runs to its end; Suno finishes what it started.  Callbacks are not
\* fair: Suno may never post one.
Fairness ==
    /\ WF_vars(JobStep)
    /\ WF_vars(CallbackStep)
    /\ WF_vars(WorkerRestart)
    /\ \A j \in Jobs : WF_vars(EnqueueJob(j) \/ UndoCreate(j))
    /\ WF_vars(SubscriberStep)
    /\ \A t \in Tasks : WF_vars(PollTick(t) \/ PollFetch(t)) /\ WF_vars(SunoFinish(t))

FairSpec == Spec /\ Fairness

-----------------------------------------------------------------------------
WorkerLabels == {"down", "recover", "idle", "load", "generate", "save", "announce",
                 "refuse", "announceRefusal", "ack", "retry", "requeue",
                 "exhaust", "bury", "announceBurial"}

CallbackLabels == {"down", "recover", "idle", "load", "store", "save", "announce",
                   "fail", "ack", "retry", "requeue"}

TypeOK ==
    /\ jobs \in [Jobs -> Rows]
    /\ tracks \in [Jobs -> SUBSET Audios]
    /\ jobQ \in QueueOf(JobMessages)
    /\ cbQ \in QueueOf(CallbackMessages)
    /\ events \in [Jobs -> Nat]
    /\ sjob \in Jobs \cup {NoJob}
    /\ sstatus \in Statuses \cup {"absent"}
    /\ pushed \in [Jobs -> Views]
    /\ api \in [Jobs -> {"new", "inserted", "undo", "done", "dead"}]
    /\ suno \in [Tasks -> {"unused", "running", "done", "broken"}]
    /\ sent \in Nat
    /\ owner \in [Tasks -> Jobs \cup {NoJob}]
    /\ poll \in [Tasks -> {"off", "tick", "fetch"}]
    /\ wpc \in WorkerLabels
    /\ wmsg \in JobMessages \cup {NoMsg}
    /\ wrow \in Rows
    /\ wtask \in Tasks \cup {NoTask}
    /\ cpc \in CallbackLabels
    /\ cmsg \in CallbackMessages \cup {NoMsg}
    /\ cjob \in Jobs \cup {NoJob}
    /\ crow \in Rows
    /\ cleft \in SUBSET Audios
    /\ faults \in Nat

\* A job is ready only when every result of its generation is stored, whatever
\* failed, was retried or was handled twice on the way.
ReadyHasTracks == \A j \in Jobs : jobs[j].status = "ready" => tracks[j] = Audios

\* A view that says ready comes with every result, although the subscriber reads the
\* row first and the tracks later, while the consumers go on.
PushIsComplete ==
    \A j \in Jobs : pushed[j].status = "ready" => pushed[j].tracks = Audios

\* The message of job j is among the dead letters, its attempts used up.
OutOfAttempts(j) == [payload |-> j, attempts |-> MaxAttempts] \in ToSet(jobQ.dlq)

\* The row of job j names a task that Suno is still working on.
Generating(j) ==
    jobs[j].status # "failed" /\ jobs[j].task # NoTask /\ suno[jobs[j].task] = "running"

\* A generation Suno is still working on is given up in two ways only, whatever fails.
\* Exhausted fails its job when the task was saved and the last attempt failed all the
\* same, at the publish, the read-back or the read of the row; the message is a dead
\* letter by then.  And a request whose RPUSH was applied and reported as failed undoes a
\* job that the worker has already taken up.  No earlier attempt, no refusal and no
\* callback does.
NoneAbandoned ==
    [][\A j \in Jobs : Generating(j) /\ jobs'[j].status = "failed"
                            => OutOfAttempts(j) \/ api[j] = "undo"]_vars

\* A job carries only a task that was generated for it, and no two jobs share one,
\* so a callback is never applied to somebody else's job.
TaskBelongsToJob ==
    \A j \in Jobs : jobs[j].task # NoTask => owner[jobs[j].task] = j

\* A poller watches the task its job is bound to, and never a job that is still
\* in the queue: no generation is polled that the job has not been told about.
PollerFollowsJob ==
    \A t \in Tasks : poll[t] # "off" =>
        /\ jobs[owner[t]].task = t
        /\ jobs[owner[t]].status # "queued"

\* Paid generations: a job whose row carries its task is never given to Suno
\* again, however often its message comes back.
GenerateOnce ==
    [][\A t \in Tasks : owner'[t] # owner[t] => jobs[owner'[t]].task = NoTask]_vars

\* The rows, read as the promise to the owner of a job.
Lifecycle == INSTANCE JobLifecycle
                 WITH status  <- [j \in Jobs |-> jobs[j].status],
                      task    <- [j \in Jobs |-> jobs[j].task],
                      results <- tracks

\* Two consumers that load a row, work for minutes and write the whole row back
\* still move every job forward only, and bind it to one task.
ImplementsLifecycle == Lifecycle!Spec

\* How far along a status is.
Stage(status) ==
    CASE status = "absent"     -> 0
      [] status = "queued"     -> 1
      [] status = "processing" -> 2
      [] OTHER                 -> 3

\* What the owner of a job is shown never goes back, and a final status stays, although
\* what is pushed was read earlier.
PushesMoveForward ==
    [][\A j \in Jobs : pushed'[j].status # pushed[j].status =>
           Stage(pushed[j].status) < Stage(pushed'[j].status)]_vars

\* A final status is final, and the task of a job never changes.
FinalStays ==
    [][\A j \in Jobs :
          /\ IsFinal(jobs[j].status) => jobs'[j].status = jobs[j].status
          /\ jobs[j].task # NoTask => jobs'[j].task = jobs[j].task]_vars

\* Every job that reaches the queue ends ready or failed, unless the worker dies and
\* its pollers with it.
JobFinishes ==
    [](wpc # "down") => \A j \in Jobs : jobs[j].status = "queued" ~> IsFinal(jobs[j].status)

\* The owner of a job that becomes ready is told so, unless the worker dies just
\* then.
ReadyIsPushed ==
    [](wpc # "down") => \A j \in Jobs : jobs[j].status = "ready" ~> pushed[j].status = "ready"

\* One crash or failed call never strands a job in the queue: it is started or finished.
QueuedIsStarted ==
    \A j \in Jobs : jobs[j].status = "queued" ~> jobs[j].status # "queued"

\* The callback table of the API documentation: an error callback makes the job
\* failed and pushes that over the websocket.
FailureIsPushed ==
    \A j \in Jobs : jobs[j].status = "failed" ~> pushed[j].status = "failed"

=============================================================================
