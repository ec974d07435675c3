------------------------------ MODULE JobDomain ------------------------------
(***************************************************************************)
(* The job entity of domain/job.go: a row of the jobs table, and the three *)
(* status transitions the code makes on an in-memory copy of a row before  *)
(* it writes the whole row back.  Fields no transition depends on          *)
(* (parameters, timestamps, error text, the attempts statistic) are left   *)
(* out.                                                                    *)
(***************************************************************************)
CONSTANTS
    Tasks,    (* the task ids Suno can hand out                              *)
    NoTask    (* suno_task_id IS NULL                                        *)

Statuses == {"queued", "processing", "ready", "failed"}

IsFinal(status) == status \in {"ready", "failed"}

\* "absent": no row with this id yet.
Rows == [status : Statuses \cup {"absent"}, task : Tasks \cup {NoTask}]

NoRow == [status |-> "absent", task |-> NoTask]

\* NewJob: what a job is created as.
NewJob == [status |-> "queued", task |-> NoTask]

\* Each Mark operation accepts its source statuses and, as a no-op, its target;
\* anything else is ErrInvalidStatusTransition.
MayMarkProcessing(row) == row.status \in {"queued", "processing"}

MarkProcessing(row, task) ==
    IF row.status = "queued"
    THEN [status |-> "processing",
          task   |-> IF row.task = NoTask THEN task ELSE row.task]
    ELSE row

MayMarkReady(row) == row.status \in {"processing", "ready"}

MarkReady(row) == [row EXCEPT !.status = "ready"]

MayMarkFailed(row) == row.status \in {"queued", "processing", "failed"}

MarkFailed(row) == [row EXCEPT !.status = "failed"]

=============================================================================
