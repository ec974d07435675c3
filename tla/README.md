# A verification project for Ai-Music-App

This directory holds TLA+ models of the Ai-Music-App backend and of the generation
flow and the player of its mobile app, the TLC configurations that check them on small instances, and theorems about them that
the TLA+ proof system (TLAPS) checks for every value of the constants.
Paths below are relative to `services/internal/` unless they start with
`apps/`, `services/` or `docs/`.

Contents: 1 the system, 2 the models, 3 the runs, 4 fairness, 5 the proofs,
6 where the code and its documents disagree, 7 what is not modelled,
8 the plan, 9 running the tools.

## 1. The system

A Flutter client asks for a piece of music with `POST /jobs`. The API process
stores a job in Postgres and puts its id into a Redis queue. A worker process
takes it from there, asks the Suno service for a generation, and hears of the
results from Suno's webhook, from its own polling, or from both; either way the
report goes through a second Redis queue to a second consumer of the same
worker process, which copies the audio into an object store, stores the tracks
and completes the job. Status changes are published over Redis Pub/Sub to the
API process, which pushes them over websockets to the client.

| Component | Code | State | Operations | Talks to |
|---|---|---|---|---|
| Redis queues | `queue/redis_job_queue.go`, `queue/redis_suno_callback_queue.go` | lists main, processing, dlq per queue | Enqueue, Dequeue (BRPOPLPUSH), Ack (LREM), Retry (LREM, then RPUSH), Recover (RPOPLPUSH until empty) | API pushes, worker consumes |
| Queue consumers | `worker/consumer.go`, `worker/suno_callback_consumer.go` | the reserved message and its text, which is the receipt | Run: Recover, then a loop of Dequeue, process, Ack or Retry | processor, callback service |
| Job entity | `domain/job.go` | status, task id, parameters, timestamps | NewJob, MarkProcessing, MarkReady, MarkFailed, Normalize, Validate | everybody |
| Processor, pollers | `worker/processor.go` | a copy of the row; one goroutine per generation | Process, Exhausted, markFailed, pollUntilComplete | repository, Suno, notifier, callback queue |
| Callback service | `service/suno_callback_service.go` | a copy of the row | Handle: handleComplete, handleError | repository, object store, notifier |
| Job creation | `service/job_service.go` | none | CreateJob: INSERT, enqueue, undo | repository, queue |
| Job reads | `service/job_read_service.go` | none | GetJob, ListJobs, attachTracks | repository, object store |
| Repositories | `repo/postgres/*.go` | tables users, jobs, tracks | whole-row UPDATE with read-back; track upsert; paging by limit and offset | Postgres |
| Notifications | `notify/redis_notifier.go`, `realtime/subscriber.go` | events in the channel | PUBLISH; read the job afresh and broadcast it | hub |
| Websocket hub | `realtime/hub.go` | clients per user, a buffer of 16 per client | register, unregister, broadcast, readPump, writePump | subscriber, clients |
| Track service | `service/track_service.go` | none | list, delete (row, then objects), favourite, download URL | repository, object store |
| Callback endpoint | `httpapi/handlers/suno_callback.go` | none | validate, enqueue, answer 200 | callback queue |
| Suno client | `suno/client.go` | none | GenerateMusic, GetGenerationDetails, classification of errors | Suno |
| Wiring | `services/cmd/api`, `services/cmd/worker` | configuration | start and stop | everything |
| Flutter generation flow | `apps/mobile_flutter/lib/features/generation`, `core/network` | form, routes, websocket | submit, listen, show the outcome | API, hub |
| Flutter player | `.../features/player`, `features/library/data`, `core/cache` | one controller per song for the life of the app, one audio player per screen, memoised downloads | play, pause, seek, like, rename, follow the position | API, audio library |
| Flutter library | `.../features/library`, `core/device_id` | lists, playlists in memory, the device id | list, delete, rename | API |

What is hard here:

* **Whole-row writes of stale copies.** `UpdateJob` writes every column of a row
  loaded before an HTTP call or minutes of uploads. Two consumers and the API
  do this on the same row, without locks, versions or transactions.
* **At-least-once messages.** A message may be processed again after a crash, a
  failed command or a failed step of its handler; callbacks may come twice, from
  two sources, in contradiction, or before the task id they name is saved.
* **Crashes between two steps** of CreateJob, Process, handleComplete, RetryJob.
* **Lost replies.** A SQL statement takes effect and is reported as failed. A Redis command that takes effect
  and is not answered is sent again by the client library, up to three times: both processes create it with its default
  options (`services/cmd/worker/main.go:66`, `services/cmd/api/main.go:39`). An RPUSH then puts a message into a list
  twice, and an LREM finds nothing left or takes an equal copy; the caller sees the last answer only.
* **Timeouts and lost pollers.** Pollers live in memory and are bounded in time.
* **Several workers.** They share one processing list, and Recover empties it.
* **Buffers, pings and closing** in the websocket hub.
* **A client that waits on a lossy channel.** The app listens only after the answer
  to `POST /jobs`, over a connection that breaks, doubles and never reads the job again;
  its dialog, its player and its button live on one navigator with other screens.
* **Callbacks of the player that overlap.** Every change of the controller's state, each
  position of the audio player included, starts another `_syncAudioState`, which waits up to three times
  with a state in hand that may be old; so do likes. Calls fail, and some never try again.
* **Limits in two units.** The app counts characters, the API bytes.

What makes each component correct:

* Queues: a message is in one place, is served at most MaxAttempts times, and
  ends acknowledged or dead unless Redis or the process fails in the middle of
  RetryJob. Only an RPUSH that was not answered makes a copy too many, one each time.
* Jobs: the status only moves forward; ready means that every result is stored;
  a task belongs to one job; one job is not generated twice once it is bound to
  a task; a job ends.
* Notifications: the owner of a job that becomes ready hears of it, with every result, and is never
  shown an older status after a newer one.
* Hub: a client is closed once, no one writes to a closed client, a slow client
  does not hold up the others.
* Tracks: a deleted track stays deleted, what is answered as deleted is gone, a favourite survives a
  repeated callback.
* Player: a page that was left is silent, the source is set once, the last pause is obeyed, an error page
  of a song that sounds passes, the heart settles on what the server has.
* Client: it says that it waits exactly while something is under way, shows one
  outcome per submission, closes its own dialog and nothing else, and stops waiting
  when it hears the end.
* Parameters: what the app can send, the API refuses for its length only.

## 2. The models

```
AtLeastOnceQueue  <--implements--  RedisQueue ---\
                                                  >-- RedisList (the three lists)
JobLifecycle      <--implements--  JobPipeline --/
                                     |-- JobApi           API process
                                     |-- JobWorker        job consumer, pollers
                                     |-- CallbackWorker   callback consumer
                                     all over PipelineState, JobDomain

Hub         websocket connections of one user   (JobPipeline: one atomic push)
TrackStore  rows and objects of one job         (JobPipeline: a set of stored results)

GenerationClient  the app's form, websocket and screen, the API seen as a
     |            job that changes its status     (JobPipeline: not there)
     |-- JobParams   what may be sent and what is accepted

Player            one song: controller, screen, audio player, likes
                                                  (GenerationClient: a route)
```

**RedisList** gives each queue command as an operator on the record `[main,
processing, dlq]`. RPUSH appends at the right end, which is the end BRPOPLPUSH
pops; it pushes at the left end of processing. LREM removes the first equal
entry. A message is its payload and its attempts: the code marshals exactly
these two, so equal messages have equal texts and share a receipt.

**RedisQueue** is one queue with its consumers as processes: `pc[w]` says where
worker w is in `Run` (recover, idle, process, push, down), `held[w]` what it
holds. What processing does is a choice between success and failure. `RedisError`
is a command that fails without effect or is given up, `Crash` and `Restart` are the process. `ReplyLost` is a command
that was applied and not answered: its effect happens and the worker stays at that
command (`"acking"` and `"removing"` are an LREM that may have been applied already), so that the next step is the client's repetition, with the
answer Redis then gives, another lost reply, or `RedisError`; other processes may take steps in between. `EnqueueReplyLost` is the same for the RPUSH of
EnqueueJob. The counters `acked`, `lost` and `unanswered` (copies pushed by an RPUSH without an answer) are history:
they count copies per payload and appear in no guard, as `enqueued` does in the bound alone.

**AtLeastOnceQueue** is the promise. It counts the copies of each payload: how
many are open after n rejections, how many are done, dead or lost. A copy is
enqueued with no rejection, and from there is acknowledged, rejected once more,
buried when its rejections are used up, or lost by a worker. A push that is made again leaves a copy too many
and is counted in `doubled` (`SubmitTwice`, `RejectTwice`, `BuryTwice`): nothing else may add a copy. There are no
lists and no positions in it.

**JobDomain** has the row `[status, task]` and the three Mark operations with
their guards. `MarkProcessing` keeps a task id that is already there.

**PipelineState** declares the shared state and the local variables of every
goroutine, the kinds of failure, and the writes `WriteRow`, `WriteRowFails`
and `Publish`. A Redis command that was applied and not answered leaves the process where it is, to send it
again, or fails: `PublishFails`, `JobRemovalLost` and `CallbackRemovalLost` (LREM), and the failing branches of `EnqueueJob`,
`ReceiveCallback`, `RequeueJob`, `RequeueCallback` and `PollFetch` (RPUSH). One statement that leaves the process (SQL, Redis, HTTP) is one step; the code
between two of them touches local variables only and is part of the step before.

**JobApi**: `InsertJob`, `EnqueueJob`, `UndoCreate` are the three steps of
CreateJob, `ReceiveCallback` the callback endpoint, `ApiCrash` the process. The subscriber takes one event at
a time: `ReadUpdatedJob` reads its row, `AttachTracks` its tracks in a second statement, and `PushJob`
hands the view to the hub; either read may fail, and then the event is dropped.

**JobWorker**: the position `wpc` goes through Recover, BRPOPLPUSH, `LoadJob`,
`GenerateMusic`, `SaveProcessing`, `AnnounceProcessing`, then `AckJob`; the error
paths are `SaveRefused`/`AnnounceRefused` (markFailed inside Process),
`RetryJob`/`RequeueJob` (the two commands of RetryJob) and `LoadExhausted`/
`SaveExhausted`/`AnnounceExhausted`. `PollTick`, `PollFetch`, `PollTimeout` are a
polling goroutine: the two statements of one tick, and its deadline.

**CallbackWorker**: `cpc` goes through `LoadCallbackJob`, one `StoreTrack` per
result, `MarkCopyReady`, `SaveReady`, `AnnounceReady`, or through `SaveFailed`.
The results are stored in any order, which is weaker than the code's order and
so includes it.

**JobPipeline** puts the processes together with the Suno service (external,
known from how the code uses it) and the crashes, and states the properties.

**JobLifecycle** is the promise to the owner of a job; the mapping reads status
and task from the rows and the results from the tracks table.

**Hub** is what `PushJob` calls. Of one connection, `reader` and `writer` say
where readPump and writePump are, `send` and `closed` are its channel, `conn`
the socket, `once` the progress of `client.close`, `doomed` the clients with a
`go c.close()` of a broadcast still running. The broadcaster is one goroutine and
holds the mutex while `left`, the clients it has still to serve, is not empty; so
`ServeWS` and `Unregister` wait for `left = {}` and `SendPong` and `SendError`,
which take no mutex, do not. A panic is a state (`panic`) in which
the process has ended. `since` and `written` are history.

**TrackStore** refines "the tracks stored for a job" into the two stores they are
in: `rows` in Postgres, `audio` and `images` in MinIO. `cpc` is the
position of handleComplete (`UploadAudio`, `UploadCover`, `UpsertTrack` per
result, then `FinishComplete`), which is repeated after any failure until the
job is ready; `dpc[r]` is the position of a DELETE request (`LoadTrack`,
`DeleteRow`, `DeleteAudio`, `DeleteImage`), with the row it `loaded`.
`SetFavorite` is one UPDATE. Every statement may fail with or without effect; a request is
`Answered` with 204 or `Refused` with an error. `early` (results deleted before the job was ready), `settled` (requests that loaded
their row from a ready job) and `gone[r]` (the cover of the row that request r deleted) are history.

**JobParams** is `Normalize` and `Validate` of a job's parameters and the check the app
makes before it sends them. A text is `[chars, bytes, padded]`: its characters and bytes without the white
space around it, and whether there is any; nothing else of it decides anything. `Valid` is the conjunction
`CustomFields` or `PlainFields` (which fields a mode asks for and forbids) with
`FitsLimits`; which of its errors Validate returns first makes no difference to a caller.

**GenerationClient** is `submit()` with what surrounds it. `phase` is where it is suspended (reading
the device id, posting), `listening` the job its subscription waits for. Dart
runs one callback at a time, so the code between two awaits is one step,
and a new controller state runs the screen's listener (`ShowError`, `ShowTrack`)
in it, if that screen is mounted. `routes` is what lies over the tabs: the
loading dialog or a player; `screen` is the tab, "library" standing for every other one. The websocket has
connections `chan` with the updates on their way, `inbox`, and `timers` for reconnections that are due;
a connection that could not be made is replaced by two, as `onError` and `onDone`
both reconnect. The API is `job`, `tracks` and `bus`, moved by
`JobAdvances` and `Broadcast`: a status that changes is published or not, and what is broadcast is
the job as it is read then. A user deletes a track from the player in two steps (`AskDeletion`,
`DeleteTracks`), in between of which anything may happen. The job of submission n is called n, although
it may never be created, or be created and never be heard of. `shown` and `missed` are history.

**Player** is one song. `view` is the controller's AsyncValue: loading, data, an error that has or
lacks a value (`"error"`, `"failed"`). It outlives the screen, whose audio player is `source` (the
URL `_syncAudioState` remembers), `ready` and `playing`. `Show` is a new value of the controller: it runs the listener of an
open screen, that is `Sync`, up to its first await in the same step; `syncs` are the calls that wait (for the
cached file, setSource, resume or pause) with the `isPlaying` each was made with. `Stands` is the code between two awaits.
`likes` are the presses of the heart that wait, each with the state it will merge its answer into. `seeking` and
`seeks` are `_isSeeking` and the seeks under way. `audio` is what is known of the file to play: on Linux
`cachedAudioProvider`, elsewhere always usable. The audio library is external: its position events come while it
plays (and once more after a pause or a seek), its calls return or throw. `loads` and `heart` are history. A track's duration
is positive, which the callback service checks.

A mutant operator (marked as such in its comment, placed before the definition
it varies) is a plausible bug; it is used by nothing. For every property there is one
that violates it.

Failures of the pipeline are a constant. `Faults` says which kinds may happen, `MaxFaults` how
many in one behaviour, so that a run can say exactly what it tolerates.

## 3. The runs

| Run | Question | Bounds |
|---|---|---|
| queue_workers | Are messages dropped, served too often, or dropped from the dead letters, or duplicated but by an RPUSH that was sent again? Do the lists and their consumers implement the abstract queue? | 2 payloads, each enqueued once, 2 workers, 3 attempts, a crash, two Redis commands that fail or are not answered |
| queue_single | With the one worker of the deployment: is what is processed reserved, and is everything settled in the end? | 2 payloads, each enqueued up to twice, 1 worker, 3 attempts, a crash |
| queue_scaled | May two workers share the queue, as the architecture document says? (violated) | 1 payload, 2 workers |
| pipeline_faults | Whatever goes wrong: is ready true, is what says ready complete, is nothing generated twice, and how is a running generation given up? | 1 job, 2 tasks, 2 results, every kind of failure, any 2 |
| pipeline_retries | While nobody acts on a row in other hands: do the rows and what is pushed move as promised, does a job still end, and does its owner hear of it, after one failed call or a crash? | 1 job, 2 tasks, 2 results; a worker crash or a failure of Suno, database or storage; callbacks |
| pipeline_error_push | Is a failure pushed, as the API document says? (violated) | 1 job, no failure on our side |
| hub | Does the hub survive every order of sending and closing, and do its clients miss nothing silently? | 1 connection, a buffer of 2, 4 updates |
| hub_ping | Is every ping answered? (violated) | 1 connection, a buffer of 1 |
| track_store | Do rows and objects stay together, is what is answered as deleted gone, and do deletions and favourites last, under repeated callbacks? | 2 results, 2 covers, 2 deletions, 2 attempts |
| client | Does the app wait for what is under way and only for that, show each outcome once, close only its dialog, send nothing malformed, and stop waiting when it is told? | 3 forms, 2 submissions, 2 connections |
| player | Do overlapping calls, likes and seeks leave the audio player, the page and the heart right in the end? | Linux, 2 likes, 2 calls and 1 seek waiting at a time |
| client_wait | Is an update that was missed made up for, as the API document says? (violated) | 3 forms, 1 submission, 1 connection |

Why the bounds are enough to be interesting:

* Two workers and two payloads give every collision of receipts and of Recover
  with a busy worker; three attempts let the limit be reached. Equal texts in one list come from an RPUSH
  that is sent again in `queue_workers`, from a payload that is enqueued twice in `queue_single`. Two commands that
  fail or are not answered are one in the repetition of the other, and one on each worker.
* That the client sends a command at most four times is not counted: every one of the `MaxErrors` (in the pipeline, `MaxFaults`) lost replies may
  be followed by another try. The models therefore allow more than the code does.
* One job with two tasks is where the pipeline's races are: the job's message
  and the callbacks of its task are handled by different goroutines, and a second
  task is a repeated generation. Two jobs interact only through queue order and
  through the tasks; the theorems of section 5 hold for any number of them.
* Two results are the least for which a generation can be half stored.
* Two failures: the interesting sequences are a failure and a second one
  in the recovery from it. The theorems bound neither number nor kind.
* `MaxCallbacks` bounds what Suno posts; with the poller a task then has up to
  two reports, possibly contradictory, and more when a push of one is sent again. Suno posting a report twice has the same
  effect as the push of one being sent again.
* Clients of the hub meet only at the mutex and in the order of one broadcast.
  What another client does to the mutex, a broadcast to the client itself does
  as well, and so one connection shows the races of its goroutines, its closers and the
  broadcaster; `HubIsSafe` is proved for any number. A buffer of two is full,
  half full and empty; four updates overflow it while one is being written.
* Two submissions are the least for which the updates of one can be taken for the other's; two connections
  deliver one update twice. Of the forms one is empty, one has characters that fit and bytes that do not,
  one uses the advanced options. One deletion is under way at a time, and
  the form is edited only as long as it may still be sent.
* In the player, two calls that wait at a time are a pause and the resume it overtakes, or two that both find no
  source; two likes cross each other; a seek that throws with none left jams the screen. A page is opened, left and
  opened again without bound. Linux has the longer paths: elsewhere the player is in the states with the
  audio usable from the start; the theorems are about both.
* Two deletions may aim at the same track, in its first and in its second life;
  two attempts are a first one and a repetition.

`pipeline_retries` leaves out four kinds of failure (`InOneHand` in `JobLifecycleTheorems`), after which a
row can be in two pairs of hands, so that the later write undoes the earlier one:

* `enqueue_ambiguous`: the API marks the job failed while the worker runs it;
* `readback`: an UPDATE takes effect and is retried as if it had not, or the job is dead-lettered from
  Process while its callback is already being handled;
* `read`, `notify`: the last attempt of Process can fail after the job was saved, so Exhausted
  loads a processing job while a callback completes it.

Under these the status does go backwards (a ready job becomes failed, a failed
one ready). No document promises otherwise, so this is recorded as a
hazard and `FinalStays` and `PushesMoveForward` are checked without them; `ReadyHasTracks`, `PushIsComplete` and
`GenerateOnce` are checked with every kind of failure, and so is `NoneAbandoned`. It says in which ways a generation
that Suno is still working on is given up after all: by Exhausted, when the last attempt failed although it, or one before it, had saved the
task (the publish, the read-back or the read of the row), and by the undo of a request whose RPUSH was applied and reported as failed. Both are what
the code does, and in both what Suno delivers later finds a failed job; an earlier attempt, a refusal and a callback never do this.

What strands a job is written down in `JobPipelineTheorems` as actions, `LeavesQueued`, `ForgetsTask`,
`LosesNews` and `LeavesReserved`, and proved to be all there is (section 5):

* a queued job is left behind by an API crash or a failed read-back between INSERT and RPUSH, by an undo that is not
  written, by LREM of a retry applied and reported as failed, by a failure or a crash between LREM and RPUSH, and by
  one between the dead letters and the end of Exhausted;
* a processing job is forgotten, if the webhook never comes, by a failed read-back of the row, a failed publish, a
  worker crash or a poll timeout (no poller is started again), and by the same failures of a retry of its report, or
  the dead letters;
* the owner of a ready job is not told when the read-back of the row fails (the repeated callback finds a ready job and publishes nothing),
  when the publish fails or the worker dies before it, when the subscriber fails on the event, and when the API dies with it;
* a reservation waits for the next start of the worker when the reply of BRPOPLPUSH is lost, LREM fails, or an error ends Recover.

The liveness runs exclude these as far as they must. `JobFinishes` and `ReadyIsPushed` are conditional on a worker
that stays up. `QueuedIsStarted` is not, as in its run one thing fails: a single crash strands no queued
job, a crash in the middle of a retry (a second failure) does. Polling is on in every run
(`PollFallback`): with it off and no webhook nothing can finish a job.

Deadlock checking is off in the runs but `player`: every other one of them ends where
nothing is left to do, which is what the system does when its clients are quiet. A page can always be
opened or left.

## 4. Fairness

* A consumer goroutine that can take a step takes it (`WF` on `JobStep`,
  `CallbackStep`, `WorkerStep(w)`): they are loops without a condition to wait
  for but the blocking pop.
* A dead worker is started again (docker's restart policy), a request runs to its
  end, the subscriber goes on with its event and takes the next (`WF` on `SubscriberStep`).
* Each poller runs on its ticker. Its timeout is a failure and not fair.
* Suno finishes what it started. Its webhook is not fair: Suno may never call.
* No failure and no crash is fair.
* In the hub, goroutines run and a write ends within its deadline. `Unregister` has
  strong fairness: it waits for the write lock while broadcasts take the read
  lock again and again, and Go's `RWMutex` lets no new reader in while a
  writer waits. `ReadMessage` is fair only once the connection is closed: an open and
  silent peer makes it wait, for up to pongWait. A failing ping frame is not fair.

* In the client a submission goes on, a job ends (the pipeline's business), an event is
  broadcast, and an update that has arrived is handled. Nothing is assumed of
  the user, of a connection coming up, or of deletions.

* In the player, an audio player that plays reports its position again and again, a call of it or a seek
  returns or throws, and a pause that is asked for again and again succeeds at last: strong fairness of
  `Paused(s)`, as failures of a pause are what the positions that follow repair. Nothing is assumed of
  downloads, which have no timeout, of requests or of the user.

In `RedisQueue` fairness is per worker, and per outcome nothing is assumed:
processing may fail every time. The safety runs (`Spec`) need no fairness.

## 5. The proofs

All of them hold for every value of the constants that the named assumptions
(`QueueAssumption`, `PipelineAssumption`, `HubAssumption`, `TrackAssumption`,
`ClientAssumption`, `PlayerAssumption` and the assumptions that the null values are not values) allow. TLC evaluates
these assumptions in the runs.

`RedisListTheorems` proves what Append, Front, Cons and RemoveFirst do to the number of a
list's entries that lie in a given set (`Count`): the messages with one payload are one such set, a single message
is another. The count is the cardinality of a set of positions and so the proofs build bijections
between positions. `Waiting` counts the messages about something (a job, the reports on a task) that wait in main or are reserved, whatever
their attempts; `WaitingAbout` is what each command does to it. `CommandsChange` and `OneReservation` are about the processing list of a
consumer that is alone.

`RedisQueueTheorems`:

* `TypeCorrect`: `Spec => []TypeOK`.
* `AttemptsNeverOvershoot`: `Spec => []AttemptsLeft`. The invariant `TypeInv` strengthens the
  type with *Servable* (what is in main, in processing or in hands has an
  attempt left) and *Exhausted* (what is dead has none): alone, `AttemptsLeft` says
  nothing of a message in a worker's hands, from which both lists are refilled.
* `CopiesAreConserved`: `Spec => []Conservation`: what was enqueued, with one copy more for each RPUSH that was not answered, is what is in
  the lists and on its way between LREM and RPUSH, acknowledged or lost. Inductive with `TypeInv`; each
  action is one use of a list lemma plus arithmetic.
* `SingleWorkerBacked`: with one worker, `Spec => []ReservationBacked`. With two
  it is false, which is what `queue_scaled` shows.
* `DeadLettersAreKept`: `Spec => DeadLettersStay`; of all commands only PushRetried touches the dead letters, and it appends.
* `QueueKeepsPromise`: `Spec => ImplementsPromise`, the queue refines `AtLeastOnceQueue`. `WorkerChanges` says of each
  step of a worker which message has one open copy less after it and which has one more, if any; since the
  promise looks only at the numbers of open copies, such a step is one of its Settle, Reject, Submit and their Twice forms
  (`TakenFrom`, `MovedOn`, `EnqueueAdds`), or a stutter (`LeftAlone`). Which of the equal copies LREM takes does not
  matter, as the proof never asks whose it was; that one was there does (`Holds` in Ack and RetryRemove).
* `NoReservationIsLeftOver`: `Spec /\ [][~LeavesReserved]_vars => []ReservedIsHeld`, the safety half of `EventuallySettled`: unless a
  command fails in one of three ways, the reserved copies of each message are as many as the busy workers that hold
  it, or some worker is down or recovering. It counts workers (`InHands`) against positions of the list, message by message, as
  equal messages cannot be told apart.

`JobPipelineTheorems`, under any number of failures of every kind:

* `PipelineTypeCorrect`: `TypeInv` strengthens the types as above, and says that a
  consumer at work has a message, and one that writes a row has a job.
* `ReadyIsComplete`: `Spec => []ReadyHasTracks`, by the invariant `Stored`: while the
  callback consumer stores results, what it has crossed off its list is in the
  table, and the job consumer marks only a copy that was queued, so that
  neither can write a ready row that is not complete.
* `GeneratedOnce`: `Spec => GenerateOnce`, by `Unbound`: a queued row carries no task, and while
  the job consumer asks Suno for a job no other copy of its row could bind it.
* `PushedReadyIsComplete`: `Spec => []PushIsComplete`, by `ViewsComplete`: a row that is in the subscriber's hands and says ready was read after the
  results were stored, and stored results stay, so the tracks read after it are complete.
* `TasksAreNotMixedUp`: `Spec => []TaskBelongsToJob`, by `Owned`: every row and every copy
  of a row in a consumer's hands carries only a task that Suno started for that
  job, and a started task is not started again. A callback therefore reaches at most
  one job.

The same module proves the safety halves of `JobFinishes`, `QueuedIsStarted` and `ReadyIsPushed`. TLC shows on one job that work is finished; that
there is always somebody to go on with it is an invariant, and it holds for every number of jobs and failures except after steps that
are listed. Each list is an action (section 3), and the theorem says that it is complete:

* `NoQueuedJobIsLeft`: without `LeavesQueued`, a queued job has its request still to enqueue it, a message that waits or is
  reserved, or a consumer between LREM and the end of its retry (`QueuedIsInHand`). It rests on *Named* (messages are about rows that exist) and *Begun* (who acknowledges has begun
  the job).
* `NoReservationIsLeft`: without `LeavesReserved`, from BRPOPLPUSH to LREM the processing list is exactly the consumer's message, and
  empty otherwise. `NoQueuedJobIsStuck` combines both: a queued job can then be started without a restart.
* `NoGenerationIsForgotten`: with the pollers, and without `ForgetsTask`, a processing job is about to be polled for, is polled for, or has a terminal
  report waiting or in hands. *CopyTrue* and *Settled* say that a report is acknowledged only when its job has ended, which needs that the copy the
  callback consumer works on is of the right job and not older than its end.
* `NoReadyJobIsSilent`: without `LosesNews`, the owner of a ready job has been shown it, or an event, a read or a publish that will show
  it is under way. The subscriber may have read a row long ago; the last thing under way is what counts.
* `RetryFindsItsMessage`, under any failures: a consumer at work has its message among the reservations, so that with one worker LREM never finds nothing.
* `OnlyFailuresLeave`: every step of `LeavesQueued`, `LosesNews` and `LeavesReserved` is a failure. `ForgetsTask` is not in it, since a
  callback that comes before the task is saved can be dead-lettered though nothing failed.
* `NothingIsLeftByItself` closes that gap: as long as nothing has failed, all four invariants hold, in every interleaving and
  with any webhooks. The step from the third one to *ProcessingIsSafe* does not count the report that the callback consumer has found no job for (*Doubtful*); when
  the poller of a task ends, another one waits.

`JobLifecycleTheorems`, the first four of its theorems under `InOneHand` (`Faults` without the four kinds of section 3):

* `FinalIsFinal`: `Spec => FinalStays`; `PipelineIsLifecycle`: `Spec => ImplementsLifecycle`.
  The invariant `OneHand` says who may be about to write a row: a request only a
  row that is still as it was created and was never enqueued, the job consumer only one whose message was
  enqueued and that carries no task, the callback consumer only one that
  carries a task; and the copy in each hand still equals the row. `EnqueuedOnly` is the part about messages. Then each step is reduced to what it does to
  the two tables (`StepOnTables`), and that to a step of the lifecycle or a stutter
  (`AllowedIsLifecycle`).

* `PushedForward`: `Spec => PushesMoveForward`, by `ShownBehind`: what the subscriber has in hand and what was pushed is never ahead of the row, and the
  subscriber has one event in hand at a time.
* `PollersFollow`: `Spec => []PollerFollowsJob`.

and, under failures of every kind:

* `RunningIsGivenUpTwoWays`: `Spec => NoneAbandoned`, by *GivenUp* (Exhausted is at work only when the message is a dead letter, and a refusal only on a
  row without a task), *HonestErrors* (an error report is about a task that Suno has ended) and *OneTask* (whoever holds a
  copy with a task finds no other task in the row).

`HubTheorems`, for any number of connections and any buffer:

* `HubIsSafe`: `Spec => []HubNeverPanics`. The invariant ties the channel to the mutex: a closed
  channel belongs to a client that is not in the map and so not in `left`, and only
  the one caller that `once` let in closes it.
* `HubTypeCorrect`: `Spec => []TypeOK`; a channel never holds more than its buffer.
* `NothingIsMissed`: `Spec => []NoSilentGap`. Every step leaves the stream of a client (what it was sent, what is
  being written, what is in its channel) as it is, appends one message, or drops the one in writePump's hands: a pong or an error
  that was written, or a message that could not be, and then writePump is closing; an update is appended only by the broadcast that issued it, which is later than all in the stream. The
  invariant `GapInv` adds to `NoSilentGap` where a client is that is not in the map (*Placed*), so that a client
  that is still healthy is one the broadcast serves.

`TrackStoreTheorems`, for any number of results, deletions and attempts:

* `TracksTypeCorrect`, `TracksUpdatedInPlace`, `TracksStayDeleted`, and `TracksResolve`:
  `Spec => []RowsResolve`. The invariant `Ordered` orders the two stores: what is about to get a
  row has its objects, and a request that is about to remove objects has removed their row, either
  while the job was not ready (`early`) or for good. No result is stored once the job is ready.

* `DeletionIsComplete`: `Spec => []DeletedIsGone`. A request that loaded its row from a ready job and answered 204 leaves neither the audio nor the cover
  of the row it deleted, by *CoverSettled*: the row it loaded keeps its cover until it is deleted. One that loaded it earlier, and whose row
  was not stored again behind it, leaves no audio, and no cover unless that was replaced in between (section 6). By *Erased* what a request has
  passed is gone; nothing that is stored once the job is ready could bring it back.

`PlayerTheorems`, for any number of overlapping calls, likes and seeks, on Linux and elsewhere:

* `ClosedIsSilent`: `Spec => []TypeOK`, with the clause that a page that was left has no playing audio player and no
  call waiting.
* `OneSource`: `Spec => []SetOnce`, by *Remembered*: a call that waits for setSource has left its URL behind, so that the next one sees it.
* `LikesAreRepaired`: `Spec => []HeartIsRepaired`, by *HeartInv*: while the heart is known nothing is on its way, and a press
  that was alone from its start to its answer has read and written what nobody else changed.
* `SoundKeepsItsPage`, `PositionStopsSound`: the safety half of `PauseIsObeyed` and `ErrorPagePasses`. A song that sounds has a page
  with a value, though perhaps under an error; and a position that is reported while that page says paused puts the value
  back on it and leaves a call that waits for the pause, whatever other calls have overtaken each other. By *Controlled*: what is ready
  has its source, the source was set for a page with a value and from something that can be played, and so were the calls that wait to resume or pause.

`GenerationClientTheorems`, for any forms, submissions and connections:

* `ClientTypeCorrect`, `SubmissionIsBacked`, `DialogCloses`, `OneOutcomeIsShown`,
  `PlayerIsLeftAlone`: the five properties of the screen, by the invariant `Inv`. None of them is inductive alone:
  a submission ends in one of four places, and that the listener then closes the right thing depends on what lies on top,
  on who still listens, and on what an update under way can say. *OnTop* says that a dialog lies over
  the screen that waits, and a player over the generation screen only where nothing is awaited; *Waiting* and *Counted*
  that only the last submission is awaited and that none of a later one exists; *Fresh* that a submission starts
  with no error and no track left, so that its outcome is new to the listener; *News* that, while the dialog is up, the job
  if ready and every update that says so have a track (a deletion of it would have started in a player), so
  that the dialog is closed by a track or by an error and never by neither.
* `WaitHasAnOutcome`: `Spec => []OutcomeInSight`, the safety half of `ToldWaitEnds`: an app that waits and has missed nothing listens for its
  job, and that job still runs, is on the bus, or has its final update on a connection that is open. *Connections* says which connections
  may carry updates, *Created* that the job of the submission exists, *EndIsAhead* that behind every older update there is the end.
* `RefusalIsAboutLength`: by *Asked* (what is being sent was built from some form) and a lemma on
  `BuildRequest`, which is about all forms and not only the three of the run.

Only model-checked: everything temporal beyond invariants and steps (liveness
and ENABLED are beyond the prover). Of the liveness properties the safety half is
proved, as said above: while the promise is open, something is left that fairness makes happen (of the player: what such a step does).
That it happens is TLC's part. Every invariant, action property and refinement of a passing run is the
statement of a theorem; `PollerFollowsJob` is proved only, no run checks it by itself.

## 6. Where code and documents disagree

* `docs/startingArchitecture.md:79` says worker and API can be scaled independently; a second
  worker's Recover takes messages from the first (`queue_scaled`).
* `docs/openapi1.yml:48` says an error callback is pushed over the websocket; handleError
  publishes nothing (`pipeline_error_push`).
* `docs/openapi1.yml:344` says a ping is answered with a pong. readPump sends the pong without
  the hub's mutex (`realtime/hub.go:156`); if the connection is being closed by writePump or a
  broadcast at that moment, the channel is closed and the send panics (`hub_ping`).
* `docs/openapi1.yml:465` calls `GET /jobs/{id}` the fallback for an update that was missed. `submit()` waits on the
  websocket alone (`generation_controller.dart:321`), which it opens after `POST /jobs` has answered and which reads nothing
  after a reconnection, so a job that ends in between is awaited for ever (`client_wait`).

Without a run:

* `domain/job.go:177` says tracks are filled in when the job is ready; attachTracks adds them
  whatever the status, so a job whose generation is half stored shows half of its tracks.
* `domain/track.go:25` says the coordinates in a track's row do not go stale. DeleteTrack
  removes the row and then the objects (`service/track_service.go:104`); a callback that is
  retried in between stores both again, and the deletion removes the objects of
  the new row. `RowsResolve` therefore leaves such rows out.
* A cover that is replaced by one with another extension, and a deletion that fails after its row is gone, leave
  objects nobody refers to (`service/track_service.go:104`, `service/suno_callback_service.go:208`). So does a deletion that is
  answered with 204: it removes the cover of the row it read (`service/track_service.go:95`), and a repeated callback may give
  the row another one before it is deleted (`service/track_service.go:100`); that one stays in the store. It takes a job that is not ready
  yet, so `DeletedIsGone` promises the cover of the deleted row (`gone`) for rows read from a ready job, and otherwise only where it was not replaced.
* A generation that Suno is still working on can be given up in the two ways of section 3 (`NoneAbandoned`); it was paid for, and its results are
  not stored.
* In the player (`features/player`): the answer to a like is merged into the state from before the request
  (`player_controller.dart:91`), so that it undoes a pause, a seek or a new title chosen meanwhile; a seek that throws
  leaves `_isSeeking` set and the page deaf to positions until it is left (`player_screen.dart:148`), which is why
  `PauseIsObeyed` and `ErrorPagePasses` leave a jammed page out; a failed load, or a failed like on a song that is
  paused, shows "Could not load song" until the app is started again, as the controller is never disposed; a
  play pressed while a pause is under way, or a page that is opened again while its state says playing, may stay silent
  until the next change; a setSource that failed is not tried again on its page; a download that failed
  is not tried again by the app (`local_media_cache_provider.dart:13`). A song past the first hundred favourites
  opens without its heart (`song_repository_impl.dart:46`) until it is pressed.
* `docs/openapi1.yml:137-191` gives the limits of a request in characters, as does the app; `domain/job.go:130` counts bytes with
  `len`, so that a Cyrillic prompt of more than half the limit is refused. This is
  why `RefusedOnlyForLength` does not say that what the app sends is accepted.

## 7. Not modelled

* Postgres, Redis, MinIO and Suno themselves: only what the code relies on.
* Validation of callbacks and dates, presigned URLs, paging, users:
  no state that outlives the call.
* `UpdatedAt`, `ErrorMessage` and the attempts statistic of a row: no branch
  reads them.
* Cancellation on shutdown: a stop is a crash here, which is worse.
* The other columns of a track (title, style, duration): written by the same upsert as the cover.
* Flutter: layout and wording. The library reads its lists again after every change, and an answer that comes late
  may replace a newer list until the next change; playlists live in memory; the device id is read as stored. In the
  player: titles and progress (a change of either is a new value of the controller, which is what
  `RenameSong`, `Seek` and `Tick` are), images and clearing of the cache, downloads to the user's disk, a like that
  reaches the server after the app gave up waiting for it.

## 8. The plan

Order: what loses or corrupts the work of a user first.

1. *Done.* The queues, their promise, their proofs.
2. *Done.* The job pipeline and its promise; type correctness, `ReadyHasTracks`, `GenerateOnce`,
   `TaskBelongsToJob`, `FinalStays` and the refinement of `JobLifecycle` proved.
3. *Done.* `Hub`, with its safety proved.
4. *Done.* `TrackStore`, with its properties proved.
5. *Done.* `GenerationClient` with `JobParams`, with its safety proved.
6. *Done.* The subscriber in its two reads, with `PushIsComplete` and `PushesMoveForward`; the proofs of
   `PollerFollowsJob`, and of `NoneAbandoned` with every kind of failure.
7. *Done.* The answers of a deletion, with `DeletedIsGone` proved.
8. *Done.* `Player`, with its safety proved. Of the media cache its memo is part of it: files are named by presigned URLs, which are
   new with every load, so that a partial file is practically never found again.
9. *Done.* The proofs of the queue refinement (`ImplementsPromise`), of `DeadLettersStay` and of `NoSilentGap`.
10. *Done.* What of the liveness properties is safety: `RedisQueue` (`NoReservationIsLeftOver`), `JobPipeline` (the lists of what is left
    behind, `RetryFindsItsMessage`, `OnlyFailuresLeave`, `NothingIsLeftByItself`), `Hub` (`MissedMeansLeaving`, `ClosedMeansCleared`),
    `GenerationClient` (`WaitHasAnOutcome`), `Player` (`SoundKeepsItsPage`, `PositionStopsSound`).
11. A promise of `TrackStore` alone (a track is whole, or it goes), with the step-by-step refinement proved.
12. Offset paging of ListTracks and ListJobs while rows come and go; lists of the library that overtake each
    other; the device id of the Flutter client.

## 9. Running the tools

```
tlc -config RedisQueueWorkers.cfg MCRedisQueue.tla
tlc -config PipelineFaults.cfg    MCJobPipeline.tla
tlc -config Hub.cfg               MCHub.tla
tlc -config TrackStore.cfg        MCTrackStore.tla
tlc -config Client.cfg            MCGenerationClient.tla
tlc -config Player.cfg            Player.tla
tlapm RedisListTheorems.tla       (and the other *Theorems.tla)
```

`PROJECT.json` lists the components, the runs, the mutants, the source
lines behind every definition, the hazards and the theorems.
