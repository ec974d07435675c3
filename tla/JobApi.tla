-------------------------------- MODULE JobApi --------------------------------
(***************************************************************************)
(* The API process: POST /jobs (service/job_service.go), the Suno callback *)
(* endpoint (handlers/suno_callback.go) and the subscriber that turns      *)
(* job_updated events into websocket pushes (realtime/subscriber.go).      *)
(***************************************************************************)
EXTENDS PipelineState

\* CreateJob, 1: INSERT the job and read it back.  If either fails the request
\* ends there; in the second case the row stays, queued, and is never enqueued.
InsertJob(j) ==
    /\ api[j] = "new"
    /\ \/ NoFault /\ WriteRow(j, NewJob) /\ api' = [api EXCEPT ![j] = "inserted"]
       \/ WriteRowFails(j, NewJob) /\ api' = [api EXCEPT ![j] = "dead"]
    /\ UNCHANGED <<tracks, jobQ, cbQ, events, pushVars, sunoVars, poll, wVars, cVars>>

\* CreateJob, 2: put it in the queue.  The request fails if RPUSH reports an
\* error, whether or not Redis applied it; a lost reply is such an error, or the
\* message is sent again.
EnqueueJob(j) ==
    /\ api[j] = "inserted"
    /\ \/ /\ NoFault
          /\ jobQ' = PushMain(jobQ, [payload |-> j, attempts |-> 0])
          /\ api' = [api EXCEPT ![j] = "done"]
       \/ /\ Fault("enqueue_refused")
          /\ UNCHANGED jobQ
          /\ api' = [api EXCEPT ![j] = "undo"]
       \/ /\ Fault("enqueue_ambiguous")
          /\ jobQ' = PushMain(jobQ, [payload |-> j, attempts |-> 0])
          /\ \E after \in {"undo", "inserted"} : api' = [api EXCEPT ![j] = after]
    /\ UNCHANGED <<dbVars, cbQ, events, pushVars, sunoVars, poll, wVars, cVars>>

\* CreateJob, 3, after a failed enqueue: the copy made at the INSERT is marked
\* failed and written back.
UndoCreate(j) ==
    /\ api[j] = "undo"
    /\ api' = [api EXCEPT ![j] = "done"]
    /\ \/ NoFault /\ WriteRow(j, MarkFailed(NewJob))
       \/ WriteRowFails(j, MarkFailed(NewJob))
    /\ UNCHANGED <<tracks, jobQ, cbQ, events, pushVars, sunoVars, poll, wVars, cVars>>

CreateJob(j) == InsertJob(j) \/ EnqueueJob(j) \/ UndoCreate(j)

\* POST callback: a valid request is enqueued and answered with 200.
ReceiveCallback(task, type) ==
    cbQ' = PushMain(cbQ, [payload |-> [task |-> task, type |-> type], attempts |-> 0])

\* handleMessage, 1: the subscriber takes one event and reads the job, GetJob in
\* GetJobForUser.  An error is logged and the event is gone.
ReadUpdatedJob(j) ==
    /\ sjob = NoJob
    /\ events[j] > 0
    /\ events' = [events EXCEPT ![j] = @ - 1]
    /\ \/ NoFault /\ sjob' = j /\ sstatus' = jobs[j].status
       \/ Fault("push") /\ UNCHANGED <<sjob, sstatus>>
    /\ UNCHANGED <<dbVars, jobQ, cbQ, api, pushed, sunoVars, poll, wVars, cVars>>

\* attachTracks: the tracks are listed when the row has long been read, and each gets
\* its URLs.
AttachTracks(j, status) == [status |-> status, tracks |-> tracks[j]]

SubscriberIdle == sjob' = NoJob /\ sstatus' = "absent"

\* Mutant: an error of attachTracks is ignored, the view goes out without tracks.
PushJobAnyhow ==
    /\ sjob # NoJob
    /\ \/ /\ NoFault
          /\ pushed' = [pushed EXCEPT ![sjob] = AttachTracks(sjob, sstatus)]
       \/ /\ Fault("push")
          /\ pushed' = [pushed EXCEPT ![sjob] = [status |-> sstatus, tracks |-> {}]]
    /\ SubscriberIdle
    /\ UNCHANGED <<dbVars, jobQ, cbQ, api, events, sunoVars, poll, wVars, cVars>>

\* handleMessage, 2: attach the tracks and broadcast the view, or log an error.
PushJob ==
    /\ sjob # NoJob
    /\ \/ /\ NoFault
          /\ pushed' = [pushed EXCEPT ![sjob] = AttachTracks(sjob, sstatus)]
       \/ Fault("push") /\ UNCHANGED pushed
    /\ SubscriberIdle
    /\ UNCHANGED <<dbVars, jobQ, cbQ, api, events, sunoVars, poll, wVars, cVars>>

SubscriberStep == PushJob \/ \E j \in Jobs : ReadUpdatedJob(j)

\* The API process dies: requests and the subscriber stop where they are, and the
\* events in the channel reach nobody.
ApiCrash ==
    /\ Fault("api_crash")
    /\ api' = [j \in Jobs |-> IF api[j] \in {"inserted", "undo"} THEN "dead" ELSE api[j]]
    /\ events' = [j \in Jobs |-> 0]
    /\ SubscriberIdle
    /\ UNCHANGED <<dbVars, jobQ, cbQ, pushed, sunoVars, poll, wVars, cVars>>

=============================================================================
