----------------------------- MODULE JobLifecycle -----------------------------
(***************************************************************************)
(* What the owner of a job is promised, whatever the processes do in       *)
(* between: the status only moves forward, a task is bound once and to one *)
(* job, results appear only for a job that was given to Suno, and a job is *)
(* ready only with all of its results.                                     *)
(***************************************************************************)
CONSTANTS
    Jobs,     (* the jobs clients create                                     *)
    Tasks,    (* Suno task ids                                               *)
    Audios,   (* the results of a generation                                 *)
    NoTask    (* the job has no task                                         *)

VARIABLES
    status,   (* the status of each job; "absent" before it is created       *)
    task,     (* the task bound to each job                                  *)
    results   (* the results stored for each job                             *)

lifeVars == <<status, task, results>>

Init ==
    /\ status = [j \in Jobs |-> "absent"]
    /\ task = [j \in Jobs |-> NoTask]
    /\ results = [j \in Jobs |-> {}]

Move(j, from, to) ==
    /\ status[j] \in from
    /\ status' = [status EXCEPT ![j] = to]

Create(j) == Move(j, {"absent"}, "queued") /\ UNCHANGED <<task, results>>

Start(j, t) ==
    /\ \A k \in Jobs : task[k] # t
    /\ Move(j, {"queued"}, "processing")
    /\ task' = [task EXCEPT ![j] = t]
    /\ UNCHANGED results

Store(j, a) ==
    /\ task[j] # NoTask
    /\ results' = [results EXCEPT ![j] = @ \cup {a}]
    /\ UNCHANGED <<status, task>>

Finish(j) ==
    /\ results[j] = Audios
    /\ Move(j, {"processing"}, "ready")
    /\ UNCHANGED <<task, results>>

Fail(j) == Move(j, {"queued", "processing"}, "failed") /\ UNCHANGED <<task, results>>

Next == \E j \in Jobs :
    \/ Create(j)
    \/ \E t \in Tasks : Start(j, t)
    \/ \E a \in Audios : Store(j, a)
    \/ Finish(j)
    \/ Fail(j)

Spec == Init /\ [][Next]_lifeVars

=============================================================================
