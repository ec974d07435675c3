------------------------------ MODULE JobWorker ------------------------------
(***************************************************************************)
(* The job consumer of the worker process (worker/consumer.go) with the    *)
(* processor it calls (worker/processor.go), and the polling goroutine the *)
(* processor starts for every generation.                                  *)
(*                                                                         *)
(* wpc names the statement the consumer is at:                             *)
(*   recover, idle          Run before its loop, and the blocking dequeue  *)
(*   load .. announce       Process                                        *)
(*   refuse, announceRefusal   markFailed inside Process                   *)
(*   ack, retry, requeue    AckJob, RetryJob (two Redis commands)          *)
(*   exhaust, bury, announceBurial   Exhausted                             *)
(*   down                   the process is not running                     *)
(***************************************************************************)
EXTENDS PipelineState

theJob == wmsg.payload

WGoto(label) == wpc' = label /\ UNCHANGED <<wmsg, wrow, wtask>>

WIdle == wpc' = "idle" /\ wmsg' = NoMsg /\ wrow' = NoRow /\ wtask' = NoTask

-----------------------------------------------------------------------------
\* Mutant: the consumer starts without Recover.
SkipRecovery ==
    /\ wpc = "recover"
    /\ WIdle
    /\ UNCHANGED <<dbVars, jobQ, cbQ, apiVars, sunoVars, poll, cVars, faults>>

\* Run: Recover until the processing list is empty; an error ends Recover.
RecoverJobs ==
    /\ wpc = "recover"
    /\ \/ /\ jobQ.processing # <<>>
          /\ jobQ' = RecoverLast(jobQ)
          /\ NoFault /\ UNCHANGED wVars
       \/ /\ jobQ.processing = <<>>
          /\ WIdle
          /\ NoFault /\ UNCHANGED jobQ
       \/ /\ Fault("redis")
          /\ WIdle
          /\ UNCHANGED jobQ
    /\ UNCHANGED <<dbVars, cbQ, apiVars, sunoVars, poll, cVars>>

\* BRPOPLPUSH.  When its reply is lost, the message is reserved by nobody.
DequeueJob ==
    /\ wpc = "idle"
    /\ jobQ.main # <<>>
    /\ jobQ' = Reserve(jobQ)
    /\ \/ /\ NoFault
          /\ wmsg' = ReservedMessage(jobQ)
          /\ wpc' = "load"
          /\ UNCHANGED <<wrow, wtask>>
       \/ Fault("redis") /\ UNCHANGED wVars
    /\ UNCHANGED <<dbVars, cbQ, apiVars, sunoVars, poll, cVars>>

-----------------------------------------------------------------------------
\* Mutant: a job that is processing is given to Suno again.
LoadUnfinishedJob ==
    /\ wpc = "load"
    /\ wrow' = jobs[theJob]
    /\ wpc' = IF IsFinal(jobs[theJob].status) THEN "ack" ELSE "generate"
    /\ UNCHANGED <<dbVars, jobQ, cbQ, apiVars, sunoVars, poll, wmsg, wtask, cVars, faults>>

\* Process, GetJob: only a queued job goes on; ErrInvalidStatusTransition is
\* acknowledged, any other error is retried.
LoadJob ==
    /\ wpc = "load"
    /\ \/ /\ NoFault
          /\ wrow' = jobs[theJob]
          /\ wpc' = IF jobs[theJob].status = "queued" THEN "generate" ELSE "ack"
       \/ /\ Fault("read")
          /\ wpc' = "retry"
          /\ UNCHANGED wrow
    /\ UNCHANGED <<dbVars, jobQ, cbQ, apiVars, sunoVars, poll, wmsg, wtask, cVars>>

\* Suno starts a task for the job being processed.
StartTask(t) ==
    /\ suno[t] = "unused"
    /\ suno' = [suno EXCEPT ![t] = "running"]
    /\ owner' = [owner EXCEPT ![t] = theJob]
    /\ UNCHANGED sent

\* Process, GenerateMusic.  A retryable failure may hide a task Suno did start;
\* when the task ids of the model are used up, every call fails that way.
GenerateMusic ==
    /\ wpc = "generate"
    /\ \/ /\ NoFault
          /\ \E t \in Tasks : StartTask(t) /\ wtask' = t
          /\ wpc' = IF MayMarkProcessing(wrow) THEN "save" ELSE "ack"
       \/ /\ \/ Fault("generate") /\ (UNCHANGED sunoVars \/ \E t \in Tasks : StartTask(t))
             \/ NoFault /\ (\A t \in Tasks : suno[t] # "unused") /\ UNCHANGED sunoVars
          /\ wpc' = "retry"
          /\ UNCHANGED wtask
       \/ /\ Fault("reject")
          /\ wpc' = "refuse"
          /\ UNCHANGED <<sunoVars, wtask>>
    /\ UNCHANGED <<dbVars, jobQ, cbQ, apiVars, poll, wmsg, wrow, cVars>>

\* Process, UpdateJob with the row the consumer loaded, marked processing.
SaveProcessing ==
    /\ wpc = "save"
    /\ \/ NoFault /\ WriteRow(theJob, MarkProcessing(wrow, wtask)) /\ WGoto("announce")
       \/ WriteRowFails(theJob, MarkProcessing(wrow, wtask)) /\ WGoto("retry")
    /\ UNCHANGED <<tracks, jobQ, cbQ, apiVars, sunoVars, poll, cVars>>

\* Mutant: no poller is started.
AnnounceOnly ==
    /\ wpc = "announce"
    /\ Publish(theJob) /\ WGoto("ack")
    /\ UNCHANGED <<dbVars, jobQ, cbQ, pushVars, api, sunoVars, poll, cVars, faults>>

\* Process, publish.  Polling starts only if that succeeded; a failure is
\* retried like any other error.
AnnounceProcessing ==
    /\ wpc = "announce"
    /\ \/ /\ NoFault
          /\ Publish(theJob)
          /\ poll' = [poll EXCEPT ![wtask] = IF PollFallback THEN "tick" ELSE "off"]
          /\ WGoto("ack")
       \/ PublishFails(theJob, WGoto("retry"), wVars) /\ UNCHANGED poll
    /\ UNCHANGED <<dbVars, jobQ, cbQ, pushVars, api, sunoVars, cVars>>

\* Process, markFailed after Suno refused the request: UpdateJob, then publish.
\* Only when both succeed is the error non-retryable.
SaveRefused ==
    /\ wpc = "refuse"
    /\ \/ NoFault /\ WriteRow(theJob, MarkFailed(wrow)) /\ WGoto("announceRefusal")
       \/ WriteRowFails(theJob, MarkFailed(wrow)) /\ WGoto("retry")
    /\ UNCHANGED <<tracks, jobQ, cbQ, apiVars, sunoVars, poll, cVars>>

AnnounceRefused ==
    /\ wpc = "announceRefusal"
    /\ \/ NoFault /\ Publish(theJob) /\ WGoto("ack")
       \/ PublishFails(theJob, WGoto("retry"), wVars)
    /\ UNCHANGED <<dbVars, jobQ, cbQ, pushVars, api, sunoVars, poll, cVars>>

-----------------------------------------------------------------------------
\* The reply of LREM is lost; sent again, it removes another equal copy, if there
\* is one.
JobRemovalLost ==
    /\ Fault("redis")
    /\ jobQ' = RemoveReserved(jobQ, wmsg)
    /\ WIdle \/ (Holds(jobQ', wmsg) /\ UNCHANGED wVars)

\* AckJob: LREM, whatever it finds; a failure is only logged.
AckJob ==
    /\ wpc = "ack"
    /\ \/ NoFault /\ jobQ' = RemoveReserved(jobQ, wmsg) /\ WIdle
       \/ Fault("redis") /\ UNCHANGED jobQ /\ WIdle
       \/ JobRemovalLost
    /\ UNCHANGED <<dbVars, cbQ, apiVars, sunoVars, poll, cVars>>

\* RetryJob, LREM: without our copy in the processing list nothing is pushed.
RetryJob ==
    /\ wpc = "retry"
    /\ \/ /\ NoFault
          /\ Holds(jobQ, wmsg)
          /\ jobQ' = RemoveReserved(jobQ, wmsg)
          /\ WGoto("requeue")
       \/ /\ (~Holds(jobQ, wmsg) /\ NoFault) \/ Fault("redis")
          /\ WIdle
          /\ UNCHANGED jobQ
       \/ JobRemovalLost
    /\ UNCHANGED <<dbVars, cbQ, apiVars, sunoVars, poll, cVars>>

\* Mutant: Exhausted runs after every failed attempt.
ExhaustAtOnce ==
    /\ wpc = "requeue"
    /\ \/ /\ NoFault
          /\ jobQ' = PushRetried(jobQ, wmsg, MaxAttempts)
          /\ WGoto("exhaust")
       \/ Fault("redis") /\ UNCHANGED jobQ /\ WIdle
       \/ /\ Fault("redis")
          /\ jobQ' = PushRetried(jobQ, wmsg, MaxAttempts)
          /\ WIdle \/ UNCHANGED wVars
    /\ UNCHANGED <<dbVars, cbQ, apiVars, sunoVars, poll, cVars>>

\* RetryJob, RPUSH: back to the queue, or to the dead letters and on to
\* Exhausted.
RequeueJob ==
    /\ wpc = "requeue"
    /\ \/ /\ NoFault
          /\ jobQ' = PushRetried(jobQ, wmsg, MaxAttempts)
          /\ IF MovesToDLQ(wmsg, MaxAttempts) THEN WGoto("exhaust") ELSE WIdle
       \/ Fault("redis") /\ UNCHANGED jobQ /\ WIdle
       \/ /\ Fault("redis")
          /\ jobQ' = PushRetried(jobQ, wmsg, MaxAttempts)
          /\ WIdle \/ UNCHANGED wVars
    /\ UNCHANGED <<dbVars, cbQ, apiVars, sunoVars, poll, cVars>>

-----------------------------------------------------------------------------
\* Exhausted, GetJob: a ready job cannot be marked failed; errors are logged.
LoadExhausted ==
    /\ wpc = "exhaust"
    /\ \/ /\ NoFault
          /\ MayMarkFailed(jobs[theJob])
          /\ wrow' = jobs[theJob]
          /\ wpc' = "bury"
          /\ UNCHANGED <<wmsg, wtask>>
       \/ /\ (~MayMarkFailed(jobs[theJob]) /\ NoFault) \/ Fault("read")
          /\ WIdle
    /\ UNCHANGED <<dbVars, jobQ, cbQ, apiVars, sunoVars, poll, cVars>>

SaveExhausted ==
    /\ wpc = "bury"
    /\ \/ NoFault /\ WriteRow(theJob, MarkFailed(wrow)) /\ WGoto("announceBurial")
       \/ WriteRowFails(theJob, MarkFailed(wrow)) /\ WIdle
    /\ UNCHANGED <<tracks, jobQ, cbQ, apiVars, sunoVars, poll, cVars>>

AnnounceExhausted ==
    /\ wpc = "announceBurial"
    /\ \/ NoFault /\ Publish(theJob) /\ WIdle
       \/ PublishFails(theJob, WIdle, wVars)
    /\ UNCHANGED <<dbVars, jobQ, cbQ, pushVars, api, sunoVars, poll, cVars>>

JobStep ==
    \/ RecoverJobs \/ DequeueJob
    \/ LoadJob \/ GenerateMusic \/ SaveProcessing \/ AnnounceProcessing
    \/ SaveRefused \/ AnnounceRefused
    \/ AckJob \/ RetryJob \/ RequeueJob
    \/ LoadExhausted \/ SaveExhausted \/ AnnounceExhausted

-----------------------------------------------------------------------------
\* The poller of task t, on a tick: shouldContinuePolling.  A failing read keeps
\* polling.
PollTick(t) ==
    /\ poll[t] = "tick"
    /\ \/ NoFault /\ poll' = [poll EXCEPT ![t] = IF IsFinal(jobs[owner[t]].status)
                                                 THEN "off" ELSE "fetch"]
       \/ Fault("read") /\ poll' = [poll EXCEPT ![t] = "fetch"]
    /\ UNCHANGED <<dbVars, jobQ, cbQ, apiVars, sunoVars, wVars, cVars>>

\* Mutant: Suno's status is passed on as the callback type.
RawDetails(state) == IF state \in {"done", "broken"} THEN {state} ELSE {}

\* callbackRequestFromDetails: the terminal callbacks the status reports of a task
\* can be turned into.  A task that went well is reported as SUCCESS, or as
\* CALLBACK_EXCEPTION when Suno could not deliver its own callback; the latter
\* without results becomes an error.
DetailsCallbacks(state) ==
    CASE state = "done"   -> {"complete", "error"}
      [] state = "broken" -> {"error"}
      [] OTHER            -> {}

\* GetGenerationDetails: a terminal report becomes a callback in the queue and ends
\* the poller; anything else waits for the next tick.  When the reply of that RPUSH
\* is lost, it is sent again, or taken for a failure.
PollFetch(t) ==
    /\ poll[t] = "fetch"
    /\ \/ /\ NoFault
          /\ \E type \in DetailsCallbacks(suno[t]) :
                cbQ' = PushMain(cbQ, [payload |-> [task |-> t, type |-> type], attempts |-> 0])
          /\ poll' = [poll EXCEPT ![t] = "off"]
       \/ /\ Fault("poll")
          /\ \E type \in DetailsCallbacks(suno[t]) :
                cbQ' = PushMain(cbQ, [payload |-> [task |-> t, type |-> type], attempts |-> 0])
          /\ \E after \in {"fetch", "tick"} : poll' = [poll EXCEPT ![t] = after]
       \/ /\ (suno[t] = "running" /\ NoFault) \/ Fault("poll")
          /\ poll' = [poll EXCEPT ![t] = "tick"]
          /\ UNCHANGED cbQ
    /\ UNCHANGED <<dbVars, jobQ, apiVars, sunoVars, wVars, cVars>>

\* The poll timeout: the goroutine ends and leaves the job as it is.
PollTimeout(t) ==
    /\ poll[t] # "off"
    /\ Fault("poll")
    /\ poll' = [poll EXCEPT ![t] = "off"]
    /\ UNCHANGED <<dbVars, jobQ, cbQ, apiVars, sunoVars, wVars, cVars>>

=============================================================================
