---------------------------- MODULE CallbackWorker ----------------------------
(***************************************************************************)
(* The callback consumer of the worker process                             *)
(* (worker/suno_callback_consumer.go) and the service that applies a       *)
(* callback to its job (service/suno_callback_service.go).                 *)
(*                                                                         *)
(* cpc names the statement the consumer is at:                             *)
(*   recover, idle     Run before its loop, and the blocking dequeue       *)
(*   load              GetJobBySunoTaskID                                  *)
(*   store, save, announce   handleComplete                                *)
(*   fail              handleError                                         *)
(*   ack, retry, requeue     Ack, Retry (two Redis commands)               *)
(*   down              the process is not running                          *)
(***************************************************************************)
EXTENDS PipelineState

CGoto(label) == cpc' = label /\ UNCHANGED <<cmsg, cjob, crow, cleft>>

CIdle == cpc' = "idle" /\ cmsg' = NoMsg /\ cjob' = NoJob /\ crow' = NoRow /\ cleft' = {}

RecoverCallbacks ==
    /\ cpc = "recover"
    /\ \/ /\ cbQ.processing # <<>>
          /\ cbQ' = RecoverLast(cbQ)
          /\ NoFault /\ UNCHANGED cVars
       \/ /\ cbQ.processing = <<>>
          /\ CIdle
          /\ NoFault /\ UNCHANGED cbQ
       \/ /\ Fault("redis")
          /\ CIdle
          /\ UNCHANGED cbQ
    /\ UNCHANGED <<dbVars, jobQ, apiVars, sunoVars, poll, wVars>>

DequeueCallback ==
    /\ cpc = "idle"
    /\ cbQ.main # <<>>
    /\ cbQ' = Reserve(cbQ)
    /\ \/ /\ NoFault
          /\ cmsg' = ReservedMessage(cbQ)
          /\ cpc' = "load"
          /\ UNCHANGED <<cjob, crow, cleft>>
       \/ Fault("redis") /\ UNCHANGED cVars
    /\ UNCHANGED <<dbVars, jobQ, apiVars, sunoVars, poll, wVars>>

-----------------------------------------------------------------------------
JobsOfTask(t) == {j \in Jobs : jobs[j].task = t}

\* Mutant: an error also fails a ready job.
HandleAnyError(type, row) ==
    CASE type = "progress" -> "ack"
      [] type = "complete" -> IF row.status = "ready" THEN "ack" ELSE "store"
      [] type = "error"    -> IF row.status # "failed" THEN "fail" ELSE "ack"

\* Where Handle goes once it has the job: progress callbacks change nothing, a
\* complete is ignored by a ready job, an error by a failed one, and an error for
\* a ready job is an invalid transition.
HandleNext(type, row) ==
    CASE type = "progress" -> "ack"
      [] type = "complete" -> IF row.status = "ready" THEN "ack" ELSE "store"
      [] type = "error"    -> IF row.status # "failed" /\ MayMarkFailed(row)
                              THEN "fail" ELSE "ack"

\* Handle, GetJobBySunoTaskID.  A task no job carries (yet) is retried.
LoadCallbackJob ==
    /\ cpc = "load"
    /\ \/ /\ NoFault
          /\ \E j \in JobsOfTask(cmsg.payload.task) :
                /\ cjob' = j
                /\ crow' = jobs[j]
                /\ cpc' = HandleNext(cmsg.payload.type, jobs[j])
                /\ cleft' = IF cpc' = "store" THEN Audios ELSE {}
       \/ /\ (JobsOfTask(cmsg.payload.task) = {} /\ NoFault) \/ Fault("read")
          /\ cpc' = "retry"
          /\ UNCHANGED <<cjob, crow, cleft>>
    /\ UNCHANGED <<dbVars, jobQ, cbQ, apiVars, sunoVars, poll, wVars, cmsg>>

\* Mutant: a result that cannot be stored is skipped.
StoreOrSkip ==
    /\ cpc = "store"
    /\ \E a \in cleft :
        /\ \/ NoFault /\ tracks' = [tracks EXCEPT ![cjob] = @ \cup {a}]
           \/ Fault("storage") /\ UNCHANGED tracks
        /\ cleft' = cleft \ {a}
    /\ UNCHANGED <<jobs, jobQ, cbQ, apiVars, sunoVars, poll, wVars, cpc, cmsg, cjob, crow>>

\* handleComplete, one result: copy the audio to the object store and upsert its
\* row.  The first failure ends the attempt.
StoreTrack ==
    /\ cpc = "store"
    /\ \E a \in cleft :
        \/ /\ NoFault
           /\ tracks' = [tracks EXCEPT ![cjob] = @ \cup {a}]
           /\ cleft' = cleft \ {a}
           /\ UNCHANGED <<cpc, cmsg, cjob, crow>>
        \/ /\ Fault("storage")
           /\ UNCHANGED tracks
           /\ CGoto("retry")
    /\ UNCHANGED <<jobs, jobQ, cbQ, apiVars, sunoVars, poll, wVars>>

\* Mutant: the status of the copy is not looked at.
MarkAnyReady ==
    /\ cpc = "store"
    /\ cleft = {}
    /\ CGoto("save")
    /\ UNCHANGED <<dbVars, jobQ, cbQ, apiVars, sunoVars, poll, wVars, faults>>

\* handleComplete, MarkReady on the copy loaded before the uploads.
MarkCopyReady ==
    /\ cpc = "store"
    /\ cleft = {}
    /\ CGoto(IF MayMarkReady(crow) THEN "save" ELSE "ack")
    /\ UNCHANGED <<dbVars, jobQ, cbQ, apiVars, sunoVars, poll, wVars, faults>>

SaveReady ==
    /\ cpc = "save"
    /\ \/ NoFault /\ WriteRow(cjob, MarkReady(crow)) /\ CGoto("announce")
       \/ WriteRowFails(cjob, MarkReady(crow)) /\ CGoto("retry")
    /\ UNCHANGED <<tracks, jobQ, cbQ, apiVars, sunoVars, poll, wVars>>

\* Mutant: nothing is published.
ReadyUnannounced ==
    /\ cpc = "announce"
    /\ CGoto("ack")
    /\ UNCHANGED <<dbVars, jobQ, cbQ, apiVars, sunoVars, poll, wVars, faults>>

AnnounceReady ==
    /\ cpc = "announce"
    /\ \/ NoFault /\ Publish(cjob) /\ CGoto("ack")
       \/ PublishFails(cjob, CGoto("retry"), cVars)
    /\ UNCHANGED <<dbVars, jobQ, cbQ, pushVars, api, sunoVars, poll, wVars>>

\* handleError: the copy is marked failed and written; nothing is published.
SaveFailed ==
    /\ cpc = "fail"
    /\ \/ NoFault /\ WriteRow(cjob, MarkFailed(crow)) /\ CGoto("ack")
       \/ WriteRowFails(cjob, MarkFailed(crow)) /\ CGoto("retry")
    /\ UNCHANGED <<tracks, jobQ, cbQ, apiVars, sunoVars, poll, wVars>>

-----------------------------------------------------------------------------
\* The reply of LREM is lost, and it may be sent again.
CallbackRemovalLost ==
    /\ Fault("redis")
    /\ cbQ' = RemoveReserved(cbQ, cmsg)
    /\ CIdle \/ (Holds(cbQ', cmsg) /\ UNCHANGED cVars)

AckCallback ==
    /\ cpc = "ack"
    /\ \/ NoFault /\ cbQ' = RemoveReserved(cbQ, cmsg) /\ CIdle
       \/ Fault("redis") /\ UNCHANGED cbQ /\ CIdle
       \/ CallbackRemovalLost
    /\ UNCHANGED <<dbVars, jobQ, apiVars, sunoVars, poll, wVars>>

RetryCallback ==
    /\ cpc = "retry"
    /\ \/ /\ NoFault
          /\ Holds(cbQ, cmsg)
          /\ cbQ' = RemoveReserved(cbQ, cmsg)
          /\ CGoto("requeue")
       \/ /\ (~Holds(cbQ, cmsg) /\ NoFault) \/ Fault("redis")
          /\ CIdle
          /\ UNCHANGED cbQ
       \/ CallbackRemovalLost
    /\ UNCHANGED <<dbVars, jobQ, apiVars, sunoVars, poll, wVars>>

\* Back to the queue, or to the dead letters, where a callback ends for good.
RequeueCallback ==
    /\ cpc = "requeue"
    /\ \/ NoFault /\ cbQ' = PushRetried(cbQ, cmsg, MaxAttempts) /\ CIdle
       \/ Fault("redis") /\ UNCHANGED cbQ /\ CIdle
       \/ /\ Fault("redis")
          /\ cbQ' = PushRetried(cbQ, cmsg, MaxAttempts)
          /\ CIdle \/ UNCHANGED cVars
    /\ UNCHANGED <<dbVars, jobQ, apiVars, sunoVars, poll, wVars>>

CallbackStep ==
    \/ RecoverCallbacks \/ DequeueCallback
    \/ LoadCallbackJob \/ StoreTrack \/ MarkCopyReady \/ SaveReady \/ AnnounceReady
    \/ SaveFailed
    \/ AckCallback \/ RetryCallback \/ RequeueCallback

=============================================================================
