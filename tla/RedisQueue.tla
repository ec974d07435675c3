----------------------------- MODULE RedisQueue -----------------------------
(***************************************************************************)
(* One reliable Redis queue and the workers that consume it: the queue     *)
(* operations of redis_job_queue.go, driven by the loop of consumer.go     *)
(* (redis_suno_callback_queue.go and suno_callback_consumer.go have the    *)
(* same shape).  What processing a message does is left open: a busy       *)
(* worker may acknowledge its message or hand it back for a retry.         *)
(*                                                                         *)
(* Every Redis command is one atomic step; RetryJob is two of them.  A     *)
(* command whose reply is lost is sent again by the client library: the    *)
(* clients are created with its default options (cmd/worker/main.go:66,    *)
(* cmd/api/main.go:39), which retry a command up to three times.           *)
(***************************************************************************)
EXTENDS RedisList, FiniteSets

CONSTANTS
    Payloads,      (* the job ids (or callback requests) that get enqueued   *)
    Workers,       (* consumer goroutines, one per worker process            *)
    MaxAttempts,   (* defaultMaxQueueAttempts                                *)
    MaxEnqueues,   (* how often one payload is enqueued: 1 for jobs, more    *)
                   (* for callbacks, which the sender may repeat             *)
    MaxCrashes,    (* bound: worker crashes in one behaviour                 *)
    MaxErrors,     (* bound: Redis commands that fail, or whose reply is     *)
                   (* lost, in one behaviour                                 *)
    NoMsg          (* the worker holds no message                            *)

ASSUME QueueAssumption ==
    /\ IsFiniteSet(Workers)
    /\ MaxAttempts \in Nat \ {0}
    /\ MaxEnqueues \in Nat
    /\ MaxCrashes \in Nat
    /\ MaxErrors \in Nat

Messages == [payload : Payloads, attempts : 0..MaxAttempts]

ASSUME NoMsgAssumption == NoMsg \notin Messages

VARIABLES
    q,         (* the three Redis lists                                      *)
    pc,        (* what each worker is doing                                  *)
    held,      (* the message each worker has reserved (its receipt)         *)
    enqueued,  (* history: how often each payload was enqueued               *)
    acked,     (* history: how often a copy of it was acknowledged           *)
    lost,      (* history: copies dropped between LREM and RPUSH, or removed *)
               (* by an LREM that was sent again                             *)
    unanswered,(* history: copies pushed by an RPUSH whose reply was lost    *)
    crashes,   (* crashes so far                                             *)
    errors     (* Redis commands failed, or their reply lost, so far         *)

vars == <<q, pc, held, enqueued, acked, lost, unanswered, crashes, errors>>

-----------------------------------------------------------------------------
Init ==
    /\ q = EmptyQueue
    /\ pc = [w \in Workers |-> "recover"]
    /\ held = [w \in Workers |-> NoMsg]
    /\ enqueued = [p \in Payloads |-> 0]
    /\ acked = [p \in Payloads |-> 0]
    /\ lost = [p \in Payloads |-> 0]
    /\ unanswered = [p \in Payloads |-> 0]
    /\ crashes = 0
    /\ errors = 0

Goto(w, label) == pc' = [pc EXCEPT ![w] = label]

BackToLoop(w) == Goto(w, "idle") /\ held' = [held EXCEPT ![w] = NoMsg]

\* EnqueueJob: RPUSH of a fresh message (attempts 0).
Enqueue(p) ==
    /\ enqueued[p] < MaxEnqueues
    /\ q' = PushMain(q, [payload |-> p, attempts |-> 0])
    /\ enqueued' = [enqueued EXCEPT ![p] = @ + 1]
    /\ UNCHANGED <<pc, held, acked, lost, unanswered, crashes, errors>>

\* Mutant: Run starts its loop without Recover.
NoRecover(w) ==
    /\ pc[w] = "recover"
    /\ Goto(w, "idle")
    /\ UNCHANGED <<q, held, enqueued, acked, lost, unanswered, crashes, errors>>

\* Recover, one RPOPLPUSH per step, until the processing list is empty.
Recover(w) ==
    /\ pc[w] = "recover"
    /\ \/ /\ q.processing # <<>>
          /\ q' = RecoverLast(q)
          /\ UNCHANGED pc
       \/ /\ q.processing = <<>>
          /\ Goto(w, "idle")
          /\ UNCHANGED q
    /\ UNCHANGED <<held, enqueued, acked, lost, unanswered, crashes, errors>>

\* DequeueJob: BRPOPLPUSH blocks until main has a message.
Dequeue(w) ==
    /\ pc[w] = "idle"
    /\ q.main # <<>>
    /\ q' = Reserve(q)
    /\ held' = [held EXCEPT ![w] = ReservedMessage(q)]
    /\ Goto(w, "busy")
    /\ UNCHANGED <<enqueued, acked, lost, unanswered, crashes, errors>>

\* A copy that an LREM of AckJob removed: the first is acknowledged; an equal one
\* that the LREM sweeps away when it is sent again is lost.
Acknowledge(w) ==
    \/ /\ pc[w] = "busy"
       /\ acked' = [acked EXCEPT ![held[w].payload] = @ + 1]
       /\ UNCHANGED lost
    \/ /\ pc[w] = "acking"
       /\ lost' = [lost EXCEPT ![held[w].payload] = @ + 1]
       /\ UNCHANGED acked

\* AckJob after Process succeeded or failed for good.  When LREM finds no copy
\* the consumer only logs ErrQueueAckFailed.
Ack(w) ==
    /\ pc[w] \in {"busy", "acking"}
    /\ IF Holds(q, held[w])
       THEN q' = RemoveReserved(q, held[w]) /\ Acknowledge(w)
       ELSE UNCHANGED <<q, acked, lost>>
    /\ BackToLoop(w)
    /\ UNCHANGED <<enqueued, unanswered, crashes, errors>>

\* Mutant: the reply of LREM is not looked at.
RetryUnchecked(w) ==
    /\ pc[w] \in {"busy", "removing"}
    /\ q' = RemoveReserved(q, held[w])
    /\ Goto(w, "retry")
    /\ UNCHANGED <<held, enqueued, acked, lost, unanswered, crashes, errors>>

\* RetryJob, first command: give up unless LREM removed our copy.
RetryRemove(w) ==
    /\ pc[w] \in {"busy", "removing"}
    /\ IF Holds(q, held[w])
       THEN /\ q' = RemoveReserved(q, held[w])
            /\ Goto(w, "retry")
            /\ UNCHANGED held
       ELSE /\ BackToLoop(w)
            /\ UNCHANGED q
    /\ UNCHANGED <<enqueued, acked, lost, unanswered, crashes, errors>>

\* RetryJob, second command: RPUSH to main or to the dead letter queue.
RetryPush(w) ==
    /\ pc[w] = "retry"
    /\ q' = PushRetried(q, held[w], MaxAttempts)
    /\ BackToLoop(w)
    /\ UNCHANGED <<enqueued, acked, lost, unanswered, crashes, errors>>

WorkerStep(w) ==
    Recover(w) \/ Dequeue(w) \/ Ack(w) \/ RetryRemove(w) \/ RetryPush(w)

-----------------------------------------------------------------------------
\* A Redis command of a worker fails without effect, or is given up after its last
\* repetition: the consumer logs it and returns to its loop.  A failed Recover leaves
\* reservations where they are; a failed LREM leaves the message reserved; a failed
\* RPUSH drops the message.
RedisError(w) ==
    /\ errors < MaxErrors
    /\ errors' = errors + 1
    /\ pc[w] \in {"recover", "busy", "acking", "removing", "retry"}
    /\ BackToLoop(w)
    /\ lost' = IF pc[w] = "retry"
               THEN [lost EXCEPT ![held[w].payload] = @ + 1]
               ELSE lost
    /\ UNCHANGED <<q, enqueued, acked, unanswered, crashes>>

\* EnqueueJob's RPUSH is applied but its reply is lost: the client sends it again
\* (Enqueue) or gives up, and the caller hears of a failure.
EnqueueReplyLost(p) ==
    /\ enqueued[p] < MaxEnqueues
    /\ errors < MaxErrors
    /\ errors' = errors + 1
    /\ q' = PushMain(q, [payload |-> p, attempts |-> 0])
    /\ unanswered' = [unanswered EXCEPT ![p] = @ + 1]
    /\ UNCHANGED <<pc, held, enqueued, acked, lost, crashes>>

\* Redis applies a command of a worker but the reply is lost.  The worker is still at
\* that command: its client sends it again, until it is answered (a WorkerStep) or
\* given up (RedisError), while the other processes go on.
RecoverAgain(w) ==
    /\ pc[w] = "recover"
    /\ q.processing # <<>>
    /\ q' = RecoverLast(q)
    /\ UNCHANGED <<pc, acked, lost, unanswered>>

\* The message reserved first is in nobody's hands.
DequeueAgain(w) ==
    /\ pc[w] = "idle"
    /\ q.main # <<>>
    /\ q' = Reserve(q)
    /\ UNCHANGED <<pc, acked, lost, unanswered>>

AckAgain(w) ==
    /\ pc[w] \in {"busy", "acking"}
    /\ Holds(q, held[w])
    /\ q' = RemoveReserved(q, held[w])
    /\ Acknowledge(w)
    /\ Goto(w, "acking")
    /\ UNCHANGED unanswered

\* The copy is gone for nothing unless the repeated LREM finds an equal one.
RetryRemoveAgain(w) ==
    /\ pc[w] \in {"busy", "removing"}
    /\ Holds(q, held[w])
    /\ q' = RemoveReserved(q, held[w])
    /\ lost' = [lost EXCEPT ![held[w].payload] = @ + 1]
    /\ Goto(w, "removing")
    /\ UNCHANGED <<acked, unanswered>>

RetryPushAgain(w) ==
    /\ pc[w] = "retry"
    /\ q' = PushRetried(q, held[w], MaxAttempts)
    /\ unanswered' = [unanswered EXCEPT ![held[w].payload] = @ + 1]
    /\ UNCHANGED <<pc, acked, lost>>

ReplyLost(w) ==
    /\ errors < MaxErrors
    /\ errors' = errors + 1
    /\ \/ RecoverAgain(w)
       \/ DequeueAgain(w)
       \/ AckAgain(w)
       \/ RetryRemoveAgain(w)
       \/ RetryPushAgain(w)
    /\ UNCHANGED <<held, enqueued, crashes>>

\* The worker process dies; its lists stay in Redis, a message between the two
\* commands of RetryJob does not.
Crash(w) ==
    /\ crashes < MaxCrashes
    /\ crashes' = crashes + 1
    /\ pc[w] # "down"
    /\ Goto(w, "down")
    /\ held' = [held EXCEPT ![w] = NoMsg]
    /\ lost' = IF pc[w] = "retry"
               THEN [lost EXCEPT ![held[w].payload] = @ + 1]
               ELSE lost
    /\ UNCHANGED <<q, enqueued, acked, unanswered, errors>>

\* The process starts again; Run begins with Recover.
Restart(w) ==
    /\ pc[w] = "down"
    /\ Goto(w, "recover")
    /\ UNCHANGED <<q, held, enqueued, acked, lost, unanswered, crashes, errors>>

-----------------------------------------------------------------------------
Next ==
    \/ \E p \in Payloads : Enqueue(p) \/ EnqueueReplyLost(p)
    \/ \E w \in Workers : \/ WorkerStep(w)
                          \/ RedisError(w)
                          \/ ReplyLost(w)
                          \/ Crash(w)
                          \/ Restart(w)

Spec == Init /\ [][Next]_vars

\* A worker that can take a step takes it, and a dead process is started again.
Fairness == \A w \in Workers : WF_vars(WorkerStep(w)) /\ WF_vars(Restart(w))

FairSpec == Spec /\ Fairness

-----------------------------------------------------------------------------
TypeOK ==
    /\ q \in QueueOf(Messages)
    /\ pc \in [Workers -> {"recover", "idle", "busy", "acking", "removing", "retry",
                          "down"}]
    /\ held \in [Workers -> Messages \cup {NoMsg}]
    /\ \A w \in Workers :
           pc[w] \in {"busy", "acking", "removing", "retry"} <=> held[w] # NoMsg
    /\ enqueued \in [Payloads -> 0..MaxEnqueues]
    /\ acked \in [Payloads -> Nat]
    /\ lost \in [Payloads -> Nat]
    /\ unanswered \in [Payloads -> Nat]
    /\ crashes \in 0..MaxCrashes
    /\ errors \in 0..MaxErrors

\* Workers between the two commands of RetryJob with a message for p in hand.
InHand(p) == {w \in Workers : pc[w] = "retry" /\ held[w].payload = p}

InTransit(p) == Cardinality(InHand(p))

\* Conservation.  Every copy of a payload ever pushed, by an enqueue or besides it
\* by an RPUSH whose reply was lost, is in exactly one of main, processing, dlq, the
\* hands of a worker between LREM and RPUSH, or it was acknowledged, or it was
\* dropped.  However many workers recover, acknowledge and retry the same message,
\* they make no copy vanish, and nothing but a lost reply makes a second one.
Conservation ==
    \A p \in Payloads :
        /\ enqueued[p] + unanswered[p]
              = Copies(q.main, p) + Copies(q.processing, p)
                + Copies(q.dlq, p) + InTransit(p) + acked[p] + lost[p]
        /\ unanswered[p] <= errors

\* A message that can still be served has attempts left, and a message is dead
\* exactly when it has none: no retry path overshoots the limit or gives up early.
AttemptsLeft ==
    /\ \A i \in DOMAIN q.main : q.main[i].attempts < MaxAttempts
    /\ \A i \in DOMAIN q.processing : q.processing[i].attempts < MaxAttempts
    /\ \A i \in DOMAIN q.dlq : q.dlq[i].attempts = MaxAttempts

\* The message a worker is processing is reserved in the processing list, so that
\* a crash leaves it recoverable and its acknowledgement finds it.
ReservationBacked ==
    \A w \in Workers : pc[w] = "busy" => Holds(q, held[w])

\* Two workers never process the same message at once.
ExclusiveReservation ==
    \A v, w \in Workers :
        v # w /\ pc[v] = "busy" /\ pc[w] = "busy" => held[v].payload # held[w].payload

\* The dead letter queue only grows: nothing takes a message out of it.
DeadLettersStay == [][IsPrefix(q.dlq, q'.dlq)]_vars

\* The copies of a message that are still to be served: waiting, reserved, or in the
\* hands of a worker that retries.
Open(m) ==
    Cardinality({i \in DOMAIN q.main : q.main[i] = m})
    + Cardinality({i \in DOMAIN q.processing : q.processing[i] = m})
    + Cardinality({w \in Workers : pc[w] = "retry" /\ held[w] = m})

Promise == INSTANCE AtLeastOnceQueue
               WITH open <- [p \in Payloads |->
                                [n \in 0..(MaxAttempts - 1) |->
                                    Open([payload |-> p, attempts |-> n])]],
                    done <- acked,
                    doubled <- unanswered,
                    dead <- [p \in Payloads |-> Copies(q.dlq, p)]

\* The lists and their consumers implement the at-least-once promise: no
\* interleaving of Recover, Ack and the two halves of RetryJob, each sent once or
\* again, revives a settled copy or lowers its attempts, although equal messages
\* share their receipt; and a copy is doubled only where an RPUSH is repeated.
ImplementsPromise == Promise!Spec

\* Everything enqueued is eventually settled (acknowledged, dead or dropped by a
\* crash inside RetryJob), even when workers die while they hold messages.
EventuallySettled ==
    \A p \in Payloads :
        enqueued[p] > 0
            ~> Copies(q.main, p) = 0 /\ Copies(q.processing, p) = 0

=============================================================================
