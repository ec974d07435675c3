------------------------------ MODULE RedisList ------------------------------
(***************************************************************************)
(* The reliable-list pattern both Redis queues of the backend are built    *)
(* from (queue/redis_job_queue.go, queue/redis_suno_callback_queue.go).    *)
(*                                                                         *)
(* A queue is three Redis lists: main (the key itself), processing         *)
(* (messages a consumer has reserved) and dlq (messages out of attempts).  *)
(* Index 1 of a sequence is the head (left end) of the Redis list.  A      *)
(* message is the JSON text of a payload and its attempts counter; two     *)
(* messages with equal fields are the same text, hence the same value, and *)
(* the receipt the consumer keeps is that text.                            *)
(***************************************************************************)
EXTENDS Integers, Sequences, FiniteSets, SequencesExt

EmptyQueue == [main |-> <<>>, processing |-> <<>>, dlq |-> <<>>]

QueueOf(M) == [main : Seq(M), processing : Seq(M), dlq : Seq(M)]

\* RPUSH key raw: a new message joins main at its tail.
PushMain(q, m) == [q EXCEPT !.main = Append(@, m)]

\* Mutant: BRPOP, the message is reserved nowhere.
PopOnly(q) == [q EXCEPT !.main = Front(@)]

\* BRPOPLPUSH key key:processing: the message leaves the TAIL of main (the
\* end RPUSH feeds) and enters the head of processing.
ReservedMessage(q) == Last(q.main)

Reserve(q) == [q EXCEPT !.main = Front(@),
                        !.processing = Cons(ReservedMessage(q), @)]

\* LREM key:processing 1 receipt: the copy nearest the head goes; the reply
\* says whether there was one.
Holds(q, m) == Contains(q.processing, m)

\* Mutant: LREM with count 0 removes every equal copy.
RemoveEqual(q, m) == [q EXCEPT !.processing = SelectSeq(@, LAMBDA x : x # m)]

RemoveReserved(q, m) == [q EXCEPT !.processing = RemoveFirst(@, m)]

\* RPUSH of the message with one more attempt, to main or to the dead letter
\* queue when the attempts are used up.
\* Mutants: the limit one attempt late, and one early.
MovesLate(m, max) == m.attempts + 1 > max
MovesEarly(m, max) == m.attempts + 2 >= max

MovesToDLQ(m, max) == m.attempts + 1 >= max

\* Mutant: SET of the dead letters instead of RPUSH.
PushOverwrites(q, m, max) ==
    LET retried == [m EXCEPT !.attempts = @ + 1]
    IN  IF MovesToDLQ(m, max)
        THEN [q EXCEPT !.dlq = <<retried>>]
        ELSE PushMain(q, retried)

PushRetried(q, m, max) ==
    LET retried == [m EXCEPT !.attempts = @ + 1]
    IN  IF MovesToDLQ(m, max)
        THEN [q EXCEPT !.dlq = Append(@, retried)]
        ELSE PushMain(q, retried)

\* RPOPLPUSH key:processing key: the oldest reservation returns to the HEAD of
\* main.
RecoverLast(q) == [q EXCEPT !.processing = Front(@),
                            !.main = Cons(Last(q.processing), @)]

-----------------------------------------------------------------------------
\* How many messages of a list carry payload p.
Positions(list, p) == {i \in 1..Len(list) : list[i].payload = p}

Copies(list, p) == Cardinality(Positions(list, p))

=============================================================================
