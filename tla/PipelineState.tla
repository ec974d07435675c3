---------------------------- MODULE PipelineState ----------------------------
(***************************************************************************)
(* The state the processes of the backend share or keep while a job makes  *)
(* its way from POST /jobs to a final status: the Postgres tables, the two *)
(* Redis queues, the Pub/Sub channel, the Suno service, and the local      *)
(* variables of the API requests, of the two consumer goroutines of the    *)
(* worker process and of its polling goroutines.                           *)
(*                                                                         *)
(* Every statement that leaves the process (a SQL statement, a Redis       *)
(* command, an HTTP call) is one step; code between two of them touches    *)
(* only local variables and joins the step before it.                      *)
(*                                                                         *)
(* A Redis command whose reply is lost was applied all the same.  The      *)
(* client both mains create (cmd/api/main.go:39, cmd/worker/main.go:66)    *)
(* sends it again, which is the process still standing at that command, or *)
(* gives up and reports a failure; the model allows both.                  *)
(***************************************************************************)
EXTENDS RedisList, JobDomain, FiniteSets

CONSTANTS
    Jobs,          (* the jobs clients create                                *)
    Audios,        (* the results of one completed generation                *)
    MaxAttempts,   (* defaultMaxQueueAttempts of both queues                 *)
    MaxCallbacks,  (* bound: callbacks Suno posts                            *)
    PollFallback,  (* pollingFallbackEnabled: pollers run beside the webhook *)
    Faults,        (* the kinds of failure that may happen                   *)
    MaxFaults,     (* bound: failures in one behaviour                       *)
    NoJob,         (* no job loaded                                          *)
    NoMsg          (* no message reserved                                    *)

FaultKinds == {
    "api_crash",         \* the API process dies and restarts
    "worker_crash",      \* the worker process dies and restarts
    "enqueue_refused",   \* RPUSH of a new job fails
    "enqueue_ambiguous", \* RPUSH of a new job is applied, its reply lost
    "redis",             \* a queue command of a consumer fails, or its reply is lost
    "read",              \* a SELECT on jobs fails
    "write",             \* an INSERT or UPDATE of jobs fails
    "readback",          \* it is applied, the SELECT after it fails
    "generate",          \* GenerateMusic fails with a retryable error
    "reject",            \* GenerateMusic is refused for good
    "notify",            \* PUBLISH fails, or its reply is lost
    "storage",           \* an upload or the upsert of a track fails
    "push",              \* an event is lost, or a read of the subscriber fails
    "poll" }             \* a status request or the RPUSH after it fails, or
                         \* the reply of that RPUSH is lost, or polling times out

ASSUME PipelineAssumption ==
    /\ MaxAttempts \in Nat \ {0}
    /\ MaxCallbacks \in Nat
    /\ MaxFaults \in Nat
    /\ PollFallback \in BOOLEAN
    /\ Faults \subseteq FaultKinds
    /\ Audios # {}
    /\ NoTask \notin Tasks
    /\ NoJob \notin Jobs

CallbackTypes == {"progress", "complete", "error"}

Callbacks == [task : Tasks, type : CallbackTypes]

JobMessages == [payload : Jobs, attempts : 0..MaxAttempts]
CallbackMessages == [payload : Callbacks, attempts : 0..MaxAttempts]

ASSUME NoMsgAssumption == NoMsg \notin JobMessages \cup CallbackMessages

(* What the owner of a job is shown of it: its status, and the results it can      *)
(* play.  "absent": nothing yet.                                           *)
Views == [status : Statuses \cup {"absent"}, tracks : SUBSET Audios]

NoView == [status |-> "absent", tracks |-> {}]

VARIABLES
    jobs,     (* the jobs table                                              *)
    tracks,   (* the tracks table: the results stored for each job           *)
    jobQ,     (* Redis lists "jobs"                                          *)
    cbQ,      (* Redis lists "suno_callbacks"                                *)
    events,   (* job_updated events published and not yet consumed, per job  *)
    sjob, sstatus, (* subscriber: the job it is handling, the status it has read *)
    pushed,   (* the last view of each job pushed to its owner               *)
    api,      (* progress of the POST /jobs request of each job              *)
    suno,     (* the state of each task at Suno                              *)
    sent,     (* callbacks Suno has posted                                   *)
    owner,    (* the job a task was generated for                            *)
    poll,     (* the polling goroutine of each task                          *)
    wpc, wmsg, wrow, wtask,        (* job consumer: position, message, copy of the row, task id *)
    cpc, cmsg, cjob, crow, cleft,  (* callback consumer: position, message, job id, copy of the row, results to store *)
    faults    (* failures so far                                             *)

dbVars   == <<jobs, tracks>>
pushVars == <<sjob, sstatus, pushed>>
apiVars  == <<api, events, pushVars>>
sunoVars == <<suno, sent, owner>>
wVars    == <<wpc, wmsg, wrow, wtask>>
cVars    == <<cpc, cmsg, cjob, crow, cleft>>
vars     == <<jobs, tracks, jobQ, cbQ, events, sjob, sstatus, pushed, api, suno, sent,
              owner, poll, wpc, wmsg, wrow, wtask, cpc, cmsg, cjob, crow, cleft, faults>>

-----------------------------------------------------------------------------
Init ==
    /\ jobs = [j \in Jobs |-> NoRow]
    /\ tracks = [j \in Jobs |-> {}]
    /\ jobQ = EmptyQueue
    /\ cbQ = EmptyQueue
    /\ events = [j \in Jobs |-> 0]
    /\ sjob = NoJob /\ sstatus = "absent"
    /\ pushed = [j \in Jobs |-> NoView]
    /\ api = [j \in Jobs |-> "new"]
    /\ suno = [t \in Tasks |-> "unused"]
    /\ sent = 0
    /\ owner = [t \in Tasks |-> NoJob]
    /\ poll = [t \in Tasks |-> "off"]
    /\ wpc = "recover" /\ wmsg = NoMsg /\ wrow = NoRow /\ wtask = NoTask
    /\ cpc = "recover" /\ cmsg = NoMsg /\ cjob = NoJob /\ crow = NoRow /\ cleft = {}
    /\ faults = 0

\* A step that goes wrong in the given way, and one in which nothing goes wrong.
Fault(kind) ==
    /\ kind \in Faults
    /\ faults < MaxFaults
    /\ faults' = faults + 1

NoFault == UNCHANGED faults

\* CreateJob and UpdateJob of the repository: the whole row is written, whatever it
\* holds now.
WriteRow(j, row) == jobs' = [jobs EXCEPT ![j] = row]

\* They fail before or after the statement took effect.
WriteRowFails(j, row) ==
    \/ Fault("write") /\ UNCHANGED jobs
    \/ Fault("readback") /\ WriteRow(j, row)

\* JobUpdated: PUBLISH of a job_updated event.
Publish(j) == events' = [events EXCEPT ![j] = @ + 1]

\* It fails, or the event goes out and the reply is lost: the caller gives up, or
\* stays where it is and publishes again.
PublishFails(j, GiveUp, local) ==
    /\ Fault("notify")
    /\ \/ UNCHANGED events /\ GiveUp
       \/ Publish(j) /\ (GiveUp \/ UNCHANGED local)

=============================================================================
