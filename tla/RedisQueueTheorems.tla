-------------------------- MODULE RedisQueueTheorems --------------------------
(* What holds of RedisQueue for any number of workers, payloads, attempts,    *)
(* crashes and failing commands.                                              *)
EXTENDS RedisQueue, RedisListTheorems

\* Messages a consumer may still serve, and messages out of attempts.
Servable == {m \in Messages : m.attempts < MaxAttempts}
Exhausted == {m \in Messages : m.attempts = MaxAttempts}

TypedLists == [main : Seq(Servable), processing : Seq(Servable), dlq : Seq(Exhausted)]

QueueTyped == q \in TypedLists

HeldTyped == held \in [Workers -> Servable \cup {NoMsg}]

\* Typing, strengthened: what is in a list, or in the hands of a worker, has
\* attempts left, and only what is dead has none.
TypeInv ==
    /\ TypeOK
    /\ QueueTyped
    /\ HeldTyped

\* A retried message is servable again or exhausted, according to the list it is
\* pushed to.
LEMMA PushRetriedType ==
    ASSUME QueueTyped, NEW m \in Servable
    PROVE  /\ PushRetried(q, m, MaxAttempts) \in TypedLists
           /\ [m EXCEPT !.attempts = @ + 1].payload = m.payload
           /\ MovesToDLQ(m, MaxAttempts) => [m EXCEPT !.attempts = @ + 1] \in Exhausted
           /\ ~MovesToDLQ(m, MaxAttempts) => [m EXCEPT !.attempts = @ + 1] \in Servable
  <1> DEFINE retried == [m EXCEPT !.attempts = @ + 1]
  <1>1. /\ MaxAttempts \in Nat /\ m.attempts \in Nat /\ m.attempts < MaxAttempts
        /\ m.payload \in Payloads /\ m \in Messages
    BY QueueAssumption DEF Servable, Messages
  <1>2. retried = [payload |-> m.payload, attempts |-> m.attempts + 1]
    BY <1>1 DEF Messages
  <1>3. CASE MovesToDLQ(m, MaxAttempts)
    <2>1. m.attempts + 1 = MaxAttempts
      BY <1>1, <1>3 DEF MovesToDLQ
    <2>2. retried \in Exhausted
      BY <1>1, <1>2, <2>1 DEF Exhausted, Messages
    <2>3. Append(q.dlq, retried) \in Seq(Exhausted)
      BY <2>2, AppendProperties DEF QueueTyped, TypedLists
    <2>4. PushRetried(q, m, MaxAttempts) = [q EXCEPT !.dlq = Append(@, retried)]
      BY <1>3 DEF PushRetried
    <2>5. QED
      BY <2>2, <2>3, <2>4, <1>2, <1>3 DEF QueueTyped, TypedLists
  <1>4. CASE ~MovesToDLQ(m, MaxAttempts)
    <2>1. m.attempts + 1 < MaxAttempts
      BY <1>1, <1>4 DEF MovesToDLQ
    <2>2. retried \in Servable
      BY <1>1, <1>2, <2>1 DEF Servable, Messages
    <2>3. Append(q.main, retried) \in Seq(Servable)
      BY <2>2, AppendProperties DEF QueueTyped, TypedLists
    <2>4. PushRetried(q, m, MaxAttempts) = [q EXCEPT !.main = Append(@, retried)]
      BY <1>4 DEF PushRetried, PushMain
    <2>5. QED
      BY <2>2, <2>3, <2>4, <1>2, <1>4 DEF QueueTyped, TypedLists
  <1>5. QED
    BY <1>3, <1>4

LEMMA TypedListsAreQueues == TypedLists \subseteq QueueOf(Messages)
  <1>1. Servable \subseteq Messages /\ Exhausted \subseteq Messages
    BY DEF Servable, Exhausted
  <1>2. Seq(Servable) \subseteq Seq(Messages) /\ Seq(Exhausted) \subseteq Seq(Messages)
    BY <1>1, SeqMonotonic
  <1>3. QED
    BY <1>2 DEF TypedLists, QueueOf

\* The queue operations of a worker keep the lists typed.
LEMMA OperationsTyped ==
    ASSUME QueueTyped
    PROVE  /\ \A m \in Servable : PushMain(q, m) \in TypedLists
           /\ q.main # <<>> =>
                ReservedMessage(q) \in Servable /\ Reserve(q) \in TypedLists
           /\ q.processing # <<>> => RecoverLast(q) \in TypedLists
           /\ \A m : RemoveReserved(q, m) \in TypedLists
  BY QueueOperationsType DEF QueueTyped, TypedLists

\* A worker at a command of AckJob or RetryJob holds a message.
LEMMA HeldPayload ==
    ASSUME TypeOK, NEW w \in Workers, pc[w] \in {"busy", "acking", "removing", "retry"}
    PROVE  held[w] \in Messages /\ held[w].payload \in Payloads
  BY DEF TypeOK, Messages

LEMMA TypeInvInit == Init => TypeInv
  <1> SUFFICES ASSUME Init PROVE TypeInv
    OBVIOUS
  <1>1. QueueTyped
    BY EmptySeq DEF Init, EmptyQueue, QueueTyped, TypedLists
  <1>2. TypeOK
    BY <1>1, TypedListsAreQueues, QueueAssumption, NoMsgAssumption DEF Init, TypeOK, QueueTyped
  <1>3. QED
    BY <1>1, <1>2 DEF TypeInv, HeldTyped, Init

LEMMA TypeInvStep == TypeInv /\ [Next]_vars => TypeInv'
  <1> SUFFICES ASSUME TypeInv, [Next]_vars PROVE TypeInv'
    OBVIOUS
  <1> USE QueueAssumption, NoMsgAssumption DEF TypeInv
  <1>1. QueueTyped'
    <2>1. ASSUME NEW p \in Payloads, Enqueue(p) PROVE QueueTyped'
      <3>1. [payload |-> p, attempts |-> 0] \in Servable
        BY DEF Servable, Messages
      <3>2. QED
        BY <2>1, <3>1, OperationsTyped DEF Enqueue, QueueTyped
    <2>13. ASSUME NEW p \in Payloads, EnqueueReplyLost(p) PROVE QueueTyped'
      <3>1. [payload |-> p, attempts |-> 0] \in Servable
        BY DEF Servable, Messages
      <3>2. QED
        BY <2>13, <3>1, OperationsTyped DEF EnqueueReplyLost, QueueTyped
    <2>2. ASSUME NEW w \in Workers, Recover(w) PROVE QueueTyped'
      BY <2>2, OperationsTyped DEF Recover, QueueTyped
    <2>3. ASSUME NEW w \in Workers, Dequeue(w) PROVE QueueTyped'
      BY <2>3, OperationsTyped DEF Dequeue, QueueTyped
    <2>4. ASSUME NEW w \in Workers, Ack(w) PROVE QueueTyped'
      BY <2>4, OperationsTyped DEF Ack, QueueTyped
    <2>5. ASSUME NEW w \in Workers, RetryRemove(w) PROVE QueueTyped'
      BY <2>5, OperationsTyped DEF RetryRemove, QueueTyped
    <2>6. ASSUME NEW w \in Workers, RetryPush(w) PROVE QueueTyped'
      <3>1. held[w] \in Servable
        BY <2>6 DEF RetryPush, TypeOK, HeldTyped
      <3>2. QED
        BY <2>6, <3>1, PushRetriedType DEF RetryPush, QueueTyped
    <2>12. ASSUME NEW w \in Workers, ReplyLost(w) PROVE QueueTyped'
      <3>1. pc[w] = "retry" => held[w] \in Servable
        BY DEF TypeOK, HeldTyped
      <3>2. QED
        BY <2>12, <3>1, OperationsTyped, PushRetriedType
           DEF ReplyLost, RecoverAgain, DequeueAgain, AckAgain, RetryRemoveAgain,
               RetryPushAgain, QueueTyped
    <2>7. ASSUME NEW w \in Workers, RedisError(w) \/ Crash(w) \/ Restart(w) PROVE QueueTyped'
      BY <2>7 DEF RedisError, Crash, Restart, QueueTyped
    <2>8. CASE UNCHANGED vars
      BY <2>8 DEF vars, QueueTyped
    <2>9. QED
      BY <2>1, <2>2, <2>3, <2>4, <2>5, <2>6, <2>12, <2>13, <2>7, <2>8 DEF Next, WorkerStep
  <1>2. q' \in QueueOf(Messages)
    BY <1>1, TypedListsAreQueues DEF QueueTyped
  <1>3. TypeOK' /\ HeldTyped'
    <2>1. ASSUME NEW p \in Payloads, Enqueue(p)
          PROVE  TypeOK' /\ HeldTyped'
      BY <2>1, <1>2 DEF Enqueue, TypeOK, HeldTyped
    <2>13. ASSUME NEW p \in Payloads, EnqueueReplyLost(p)
          PROVE  TypeOK' /\ HeldTyped'
      BY <2>13, <1>2 DEF EnqueueReplyLost, TypeOK, HeldTyped
    <2>2. ASSUME NEW w \in Workers, Recover(w)
          PROVE  TypeOK' /\ HeldTyped'
      BY <2>2, <1>2 DEF Recover, Goto, TypeOK, HeldTyped
    <2>3. ASSUME NEW w \in Workers, Dequeue(w)
          PROVE  TypeOK' /\ HeldTyped'
      <3>1. ReservedMessage(q) \in Servable
        BY <2>3, OperationsTyped DEF Dequeue, QueueTyped
      <3>2. ReservedMessage(q) \in Messages /\ ReservedMessage(q) # NoMsg
        BY <3>1 DEF Servable
      <3>3. QED
        BY <2>3, <1>2, <3>1, <3>2 DEF Dequeue, Goto, TypeOK, HeldTyped
    <2>4. ASSUME NEW w \in Workers, Ack(w)
          PROVE  TypeOK' /\ HeldTyped'
      <3>1. acked' \in [Payloads -> Nat] /\ lost' \in [Payloads -> Nat]
        BY <2>4, HeldPayload DEF Ack, Acknowledge, TypeOK
      <3>2. QED
        BY <2>4, <1>2, <3>1 DEF Ack, BackToLoop, Goto, TypeOK, HeldTyped
    <2>5. ASSUME NEW w \in Workers, RetryRemove(w)
          PROVE  TypeOK' /\ HeldTyped'
      BY <2>5, <1>2 DEF RetryRemove, BackToLoop, Goto, TypeOK, HeldTyped
    <2>6. ASSUME NEW w \in Workers, RetryPush(w)
          PROVE  TypeOK' /\ HeldTyped'
      BY <2>6, <1>2 DEF RetryPush, BackToLoop, Goto, TypeOK, HeldTyped
    <2>7. ASSUME NEW w \in Workers, RedisError(w)
          PROVE  TypeOK' /\ HeldTyped'
      <3>1. lost' \in [Payloads -> Nat]
        BY <2>7, HeldPayload DEF RedisError, TypeOK, HeldTyped
      <3>2. QED
        BY <2>7, <1>2, <3>1 DEF RedisError, BackToLoop, Goto, TypeOK, HeldTyped
    <2>12. ASSUME NEW w \in Workers, ReplyLost(w)
          PROVE  TypeOK' /\ HeldTyped'
      <3>1. errors' \in 0..MaxErrors /\ UNCHANGED <<held, enqueued, crashes>>
        BY <2>12 DEF ReplyLost, TypeOK
      <3>2. CASE RecoverAgain(w) \/ DequeueAgain(w)
        BY <1>2, <3>1, <3>2 DEF RecoverAgain, DequeueAgain, TypeOK, HeldTyped
      <3>3. CASE AckAgain(w)
        <4>1. acked' \in [Payloads -> Nat] /\ lost' \in [Payloads -> Nat]
          BY <3>3, HeldPayload DEF AckAgain, Acknowledge, TypeOK
        <4>2. QED
          BY <1>2, <3>1, <3>3, <4>1 DEF AckAgain, Goto, TypeOK, HeldTyped
      <3>4. CASE RetryRemoveAgain(w)
        <4>1. lost' \in [Payloads -> Nat]
          BY <3>4, HeldPayload DEF RetryRemoveAgain, TypeOK
        <4>2. QED
          BY <1>2, <3>1, <3>4, <4>1 DEF RetryRemoveAgain, Goto, TypeOK, HeldTyped
      <3>5. CASE RetryPushAgain(w)
        <4>1. unanswered' \in [Payloads -> Nat]
          BY <3>5, HeldPayload DEF RetryPushAgain, TypeOK
        <4>2. QED
          BY <1>2, <3>1, <3>5, <4>1 DEF RetryPushAgain, TypeOK, HeldTyped
      <3>6. QED
        BY <2>12, <3>2, <3>3, <3>4, <3>5 DEF ReplyLost
    <2>8. ASSUME NEW w \in Workers, Crash(w)
          PROVE  TypeOK' /\ HeldTyped'
      <3>1. lost' \in [Payloads -> Nat]
        BY <2>8, HeldPayload DEF Crash, TypeOK, HeldTyped
      <3>2. QED
        BY <2>8, <1>2, <3>1 DEF Crash, Goto, TypeOK, HeldTyped
    <2>9. ASSUME NEW w \in Workers, Restart(w)
          PROVE  TypeOK' /\ HeldTyped'
      BY <2>9, <1>2 DEF Restart, Goto, TypeOK, HeldTyped
    <2>10. CASE UNCHANGED vars
      BY <2>10 DEF vars, TypeOK, HeldTyped
    <2>11. QED
      BY <2>1, <2>2, <2>3, <2>4, <2>5, <2>6, <2>7, <2>12, <2>13, <2>8, <2>9, <2>10
         DEF Next, WorkerStep
  <1>4. QED
    BY <1>1, <1>3

\* Type correctness of the queue and its consumers.
THEOREM TypeCorrect == Spec => []TypeOK
  <1>1. TypeInv => TypeOK
    BY DEF TypeInv
  <1>2. QED
    BY <1>1, TypeInvInit, TypeInvStep, PTL DEF Spec

\* A message that can still be served has attempts left, and a dead one has none:
\* the retry limit is neither overshot nor applied early.
THEOREM AttemptsNeverOvershoot == Spec => []AttemptsLeft
  <1>1. TypeInv => AttemptsLeft
    <2> SUFFICES ASSUME QueueTyped PROVE AttemptsLeft
      BY DEF TypeInv
    <2>1. \A i \in 1..Len(q.main) : q.main[i] \in Servable
      BY ElementOfSeq DEF QueueTyped, TypedLists
    <2>2. \A i \in 1..Len(q.processing) : q.processing[i] \in Servable
      BY ElementOfSeq DEF QueueTyped, TypedLists
    <2>3. \A i \in 1..Len(q.dlq) : q.dlq[i] \in Exhausted
      BY ElementOfSeq DEF QueueTyped, TypedLists
    <2>4. /\ DOMAIN q.main = 1..Len(q.main)
          /\ DOMAIN q.processing = 1..Len(q.processing)
          /\ DOMAIN q.dlq = 1..Len(q.dlq)
      BY LenProperties DEF QueueTyped, TypedLists
    <2>5. QED
      BY <2>1, <2>2, <2>3, <2>4 DEF AttemptsLeft, Servable, Exhausted
  <1>2. QED
    BY <1>1, TypeInvInit, TypeInvStep, PTL DEF Spec

-----------------------------------------------------------------------------
(* Conservation: the copies of a payload are counted list by list.            *)

OnHand(w, p) == pc[w] = "retry" /\ held[w].payload = p

\* The finite set S, counted as its members other than w plus w itself.
LEMMA CountWithout ==
    ASSUME NEW S, IsFiniteSet(S), NEW w
    PROVE  /\ Cardinality(S \ {w}) \in Nat
           /\ Cardinality(S) = Cardinality(S \ {w}) + Bit(w \in S)
  <1>1. IsFiniteSet(S \ {w})
    BY FS_Subset
  <1>2. Cardinality(S) \in Nat /\ Cardinality(S \ {w}) \in Nat
    BY <1>1, FS_CardinalityType
  <1>3. CASE w \in S
    BY <1>2, <1>3, FS_RemoveElement DEF Bit
  <1>4. CASE w \notin S
    <2>1. S \ {w} = S
      BY <1>4
    <2>2. QED
      BY <1>2, <1>4, <2>1 DEF Bit
  <1>5. QED
    BY <1>2, <1>3, <1>4

LEMMA TransitIsNatural ==
    ASSUME NEW p
    PROVE  IsFiniteSet(InHand(p)) /\ InTransit(p) \in Nat
  <1>1. InHand(p) \subseteq Workers
    BY DEF InHand
  <1>2. IsFiniteSet(InHand(p))
    BY <1>1, FS_Subset, QueueAssumption
  <1>3. QED
    BY <1>2, FS_CardinalityType DEF InTransit

\* When one worker moves, the copies in the hands of the others stay.
LEMMA TransitChange ==
    ASSUME NEW w \in Workers, NEW p,
           \A v \in Workers \ {w} : pc'[v] = pc[v] /\ held'[v] = held[v]
    PROVE  InTransit(p)' = InTransit(p) - Bit(OnHand(w, p)) + Bit(OnHand(w, p)')
  <1>1. InHand(p) \subseteq Workers /\ InHand(p)' \subseteq Workers
    BY DEF InHand
  <1>2. IsFiniteSet(InHand(p)) /\ IsFiniteSet(InHand(p)')
    BY <1>1, FS_Subset, QueueAssumption
  <1>3. InHand(p)' \ {w} = InHand(p) \ {w}
    BY DEF InHand
  <1>4. (w \in InHand(p) <=> OnHand(w, p)) /\ (w \in InHand(p)' <=> OnHand(w, p)')
    BY DEF InHand, OnHand
  <1>5. /\ Cardinality(InHand(p)) = Cardinality(InHand(p) \ {w}) + Bit(w \in InHand(p))
        /\ Cardinality(InHand(p)') = Cardinality(InHand(p) \ {w}) + Bit(w \in InHand(p)')
        /\ Cardinality(InHand(p) \ {w}) \in Nat
    BY <1>2, <1>3, CountWithout
  <1>6. QED
    BY <1>4, <1>5 DEF InTransit, Bit

LEMMA UnsettledIsNatural ==
    ASSUME TypeOK, NEW p
    PROVE  /\ Copies(q.main, p) \in Nat /\ Copies(q.processing, p) \in Nat
           /\ Copies(q.dlq, p) \in Nat /\ InTransit(p) \in Nat
  <1>1. q.main \in Seq(Messages) /\ q.processing \in Seq(Messages) /\ q.dlq \in Seq(Messages)
    BY DEF TypeOK, QueueOf
  <1>2. QED
    BY <1>1, CopiesAreNatural, TransitIsNatural

\* What each operation does to the copies of p in the lists.
LEMMA OperationsCount ==
    ASSUME TypeOK, NEW p
    PROVE  /\ \A m \in Messages :
                Copies(PushMain(q, m).main, p) = Copies(q.main, p) + Bit(m.payload = p)
           /\ q.main # <<>> =>
                /\ Copies(Reserve(q).main, p)
                     = Copies(q.main, p) - Bit(ReservedMessage(q).payload = p)
                /\ Copies(Reserve(q).processing, p)
                     = Copies(q.processing, p) + Bit(ReservedMessage(q).payload = p)
           /\ q.processing # <<>> =>
                Copies(RecoverLast(q).main, p) + Copies(RecoverLast(q).processing, p)
                  = Copies(q.main, p) + Copies(q.processing, p)
           /\ \A m : Holds(q, m) =>
                Copies(RemoveReserved(q, m).processing, p)
                  = Copies(q.processing, p) - Bit(m.payload = p)
           /\ \A m \in Messages :
                Copies(PushRetried(q, m, MaxAttempts).main, p)
                  + Copies(PushRetried(q, m, MaxAttempts).dlq, p)
                  = Copies(q.main, p) + Copies(q.dlq, p) + Bit(m.payload = p)
  <1>1. q.main \in Seq(Messages) /\ q.processing \in Seq(Messages) /\ q.dlq \in Seq(Messages)
    BY DEF TypeOK, QueueOf
  <1>18. q \in [main : Seq(Messages), processing : Seq(Messages), dlq : Seq(Messages)]
    BY DEF TypeOK, QueueOf
  <1>19. /\ Copies(q.main, p) \in Nat /\ Copies(q.processing, p) \in Nat
        /\ Copies(q.dlq, p) \in Nat
    BY UnsettledIsNatural
  <1>2. ASSUME NEW m \in Messages
        PROVE  Copies(PushMain(q, m).main, p) = Copies(q.main, p) + Bit(m.payload = p)
    BY <1>1, <1>18, CopiesAppend DEF PushMain
  <1>3. ASSUME q.main # <<>>
        PROVE  /\ Copies(Reserve(q).main, p)
                     = Copies(q.main, p) - Bit(ReservedMessage(q).payload = p)
               /\ Copies(Reserve(q).processing, p)
                     = Copies(q.processing, p) + Bit(ReservedMessage(q).payload = p)
    <2>1. ReservedMessage(q) \in Messages
      BY <1>1, <1>3, FrontProperties DEF ReservedMessage
    <2>2. /\ Reserve(q).main = Front(q.main)
          /\ Reserve(q).processing = Cons(ReservedMessage(q), q.processing)
      BY <1>18 DEF Reserve
    <2>3. QED
      BY <1>1, <1>3, <2>1, <2>2, CopiesFront, CopiesCons DEF ReservedMessage
  <1>4. ASSUME q.processing # <<>>
        PROVE  Copies(RecoverLast(q).main, p) + Copies(RecoverLast(q).processing, p)
                  = Copies(q.main, p) + Copies(q.processing, p)
    <2> DEFINE m == Last(q.processing)
    <2>1. m \in Messages
      BY <1>1, <1>4, FrontProperties
    <2>2. /\ RecoverLast(q).main = Cons(m, q.main)
          /\ RecoverLast(q).processing = Front(q.processing)
      BY <1>18 DEF RecoverLast
    <2>3. /\ Copies(Cons(m, q.main), p) = Copies(q.main, p) + Bit(m.payload = p)
          /\ Copies(Front(q.processing), p) = Copies(q.processing, p) - Bit(m.payload = p)
      BY <1>1, <1>4, <2>1, CopiesFront, CopiesCons
    <2>4. QED
      BY <1>19, <2>2, <2>3 DEF Bit
  <1>5. ASSUME NEW m, Holds(q, m)
        PROVE  Copies(RemoveReserved(q, m).processing, p)
                  = Copies(q.processing, p) - Bit(m.payload = p)
    <2>1. RemoveReserved(q, m).processing = RemoveFirst(q.processing, m)
      BY <1>18 DEF RemoveReserved
    <2>2. QED
      BY <1>1, <1>5, <2>1, CopiesRemoveFirst DEF Holds
  <1>6. ASSUME NEW m \in Messages
        PROVE  Copies(PushRetried(q, m, MaxAttempts).main, p)
                  + Copies(PushRetried(q, m, MaxAttempts).dlq, p)
                  = Copies(q.main, p) + Copies(q.dlq, p) + Bit(m.payload = p)
    <2> DEFINE retried == [m EXCEPT !.attempts = @ + 1]
               Wide == [payload : Payloads, attempts : Nat]
    <2>1. /\ retried \in Wide /\ retried.payload = m.payload
          /\ q.main \in Seq(Wide) /\ q.dlq \in Seq(Wide)
      <3>1. Messages \subseteq Wide
        BY QueueAssumption DEF Messages
      <3>2. Seq(Messages) \subseteq Seq(Wide)
        BY <3>1, SeqMonotonic
      <3>3. retried = [payload |-> m.payload, attempts |-> m.attempts + 1]
        BY DEF Messages
      <3>4. retried \in Wide /\ retried.payload = m.payload
        BY <3>1, <3>3
      <3>5. q.main \in Seq(Wide) /\ q.dlq \in Seq(Wide)
        BY <1>1, <3>2
      <3>6. QED
        BY <3>4, <3>5
    <2>2. \/ /\ PushRetried(q, m, MaxAttempts).main = q.main
             /\ PushRetried(q, m, MaxAttempts).dlq = Append(q.dlq, retried)
          \/ /\ PushRetried(q, m, MaxAttempts).main = Append(q.main, retried)
             /\ PushRetried(q, m, MaxAttempts).dlq = q.dlq
      BY <1>18 DEF PushRetried, PushMain
    <2> HIDE DEF retried, Wide
    <2>3. /\ Copies(Append(q.main, retried), p) = Copies(q.main, p) + Bit(m.payload = p)
          /\ Copies(Append(q.dlq, retried), p) = Copies(q.dlq, p) + Bit(m.payload = p)
      BY <2>1, CopiesAppend
    <2>4. Bit(m.payload = p) \in Nat
      BY DEF Bit
    <2>5. CASE /\ PushRetried(q, m, MaxAttempts).main = q.main
               /\ PushRetried(q, m, MaxAttempts).dlq = Append(q.dlq, retried)
      BY <1>19, <2>3, <2>4, <2>5
    <2>6. CASE /\ PushRetried(q, m, MaxAttempts).main = Append(q.main, retried)
               /\ PushRetried(q, m, MaxAttempts).dlq = q.dlq
      BY <1>19, <2>3, <2>4, <2>6
    <2>7. QED
      BY <2>2, <2>5, <2>6
  <1>7. QED
    BY <1>2, <1>3, <1>4, <1>5, <1>6

\* Every copy of p ever pushed is in one place.
Counted(p) ==
    enqueued[p] + unanswered[p]
        = Copies(q.main, p) + Copies(q.processing, p) + Copies(q.dlq, p)
          + InTransit(p) + acked[p] + lost[p]

\* Every copy pushed by an unanswered RPUSH took a lost reply.
LEMMA UnansweredIsBounded ==
    ASSUME TypeInv, [Next]_vars, NEW p \in Payloads, unanswered[p] <= errors
    PROVE  unanswered'[p] <= errors'
  <1>1. unanswered \in [Payloads -> Nat] /\ errors \in Nat
    BY QueueAssumption DEF TypeInv, TypeOK
  <1>2. \/ UNCHANGED unanswered /\ (errors' = errors \/ errors' = errors + 1)
        \/ /\ \E e \in Payloads : unanswered' = [unanswered EXCEPT ![e] = @ + 1]
           /\ errors' = errors + 1
    <2>1. ASSUME NEW w \in Workers, RetryPushAgain(w), errors' = errors + 1
          PROVE  <1>2
      BY <2>1, HeldPayload DEF RetryPushAgain, TypeInv
    <2>2. QED
      BY <2>1 DEF Next, vars, Enqueue, EnqueueReplyLost, WorkerStep, Recover, Dequeue, Ack,
                  RetryRemove, RetryPush, RedisError, ReplyLost, RecoverAgain, DequeueAgain,
                  AckAgain, RetryRemoveAgain, Crash, Restart
  <1>3. QED
    BY <1>1, <1>2

LEMMA ConservationInit == Init => Conservation
  <1> SUFFICES ASSUME Init, NEW p \in Payloads
               PROVE  Counted(p) /\ unanswered[p] <= errors
    BY DEF Conservation, Counted
  <1>1. InHand(p) = {}
    BY DEF Init, InHand
  <1>2. Positions(<<>>, p) = {}
    BY DEF Positions
  <1>3. InTransit(p) = 0 /\ Copies(<<>>, p) = 0
    BY <1>1, <1>2, FS_EmptySet DEF InTransit, Copies
  <1>4. QED
    BY <1>3 DEF Init, EmptyQueue, Counted

LEMMA ConservationStep == TypeInv /\ Conservation /\ [Next]_vars => Conservation'
  <1> SUFFICES ASSUME TypeInv, Conservation, [Next]_vars, NEW p \in Payloads
               PROVE  Counted(p)' /\ (unanswered[p] <= errors)'
    BY DEF Conservation, Counted
  <1>0. TypeOK
    BY DEF TypeInv
  <1>1. /\ Counted(p) /\ unanswered[p] <= errors
        /\ acked[p] \in Nat /\ lost[p] \in Nat /\ enqueued[p] \in Nat
        /\ unanswered[p] \in Nat
    BY <1>0, QueueAssumption DEF Conservation, Counted, TypeOK
  <1> USE DEF Counted
  <1>18. q \in [main : Seq(Messages), processing : Seq(Messages), dlq : Seq(Messages)]
    BY <1>0 DEF TypeOK, QueueOf
  <1>2. /\ Copies(q.main, p) \in Nat /\ Copies(q.processing, p) \in Nat
        /\ Copies(q.dlq, p) \in Nat /\ InTransit(p) \in Nat
    BY <1>0, UnsettledIsNatural
  <1>3. ASSUME NEW c PROVE Bit(c) \in Nat
    BY DEF Bit
  <1>4. ASSUME NEW w \in Workers, WorkerStep(w) \/ RedisError(w) \/ ReplyLost(w) \/ Crash(w) \/ Restart(w)
        PROVE  \A v \in Workers \ {w} : pc'[v] = pc[v] /\ held'[v] = held[v]
    BY <1>0, <1>4 DEF TypeOK, WorkerStep, Recover, Dequeue, Ack, RetryRemove, RetryPush,
                      RedisError, ReplyLost, RecoverAgain, DequeueAgain, AckAgain,
                      RetryRemoveAgain, RetryPushAgain, Crash, Restart, BackToLoop, Goto
  <1>5. ASSUME NEW w \in Workers, WorkerStep(w) \/ RedisError(w) \/ ReplyLost(w) \/ Crash(w) \/ Restart(w)
        PROVE  InTransit(p)' = InTransit(p) - Bit(OnHand(w, p)) + Bit(OnHand(w, p)')
    BY <1>4, <1>5, TransitChange
  <1>6. ASSUME UNCHANGED <<pc, held>> PROVE InTransit(p)' = InTransit(p)
    BY <1>6 DEF InTransit, InHand
  <1>7. ASSUME NEW e \in Payloads, Enqueue(e) PROVE Counted(p)'
    <2> DEFINE m == [payload |-> e, attempts |-> 0]
               b == Bit(e = p)
    <2>1. m \in Messages
      BY QueueAssumption DEF Messages
    <2>2. /\ Copies(q'.main, p) = Copies(q.main, p) + b
          /\ q'.processing = q.processing /\ q'.dlq = q.dlq
      BY <1>0, <1>18, <1>7, <2>1, OperationsCount DEF Enqueue, PushMain
    <2>3. enqueued'[p] = enqueued[p] + b
      BY <1>0, <1>1, <1>7 DEF Enqueue, TypeOK, Bit
    <2>4. InTransit(p)' = InTransit(p) /\ UNCHANGED <<acked, lost, unanswered>>
      BY <1>6, <1>7 DEF Enqueue
    <2>5. b \in Nat
      BY <1>3
    <2>6. /\ Copies(q'.processing, p) = Copies(q.processing, p)
          /\ Copies(q'.dlq, p) = Copies(q.dlq, p)
          /\ acked'[p] = acked[p] /\ lost'[p] = lost[p] /\ unanswered'[p] = unanswered[p]
      BY <2>2, <2>4
    <2> HIDE DEF m, b
    <2>7. QED
      BY <1>1, <1>2, <2>2, <2>3, <2>4, <2>5, <2>6
  <1>19. ASSUME NEW e \in Payloads, EnqueueReplyLost(e) PROVE Counted(p)'
    <2> DEFINE m == [payload |-> e, attempts |-> 0]
               b == Bit(e = p)
    <2>1. m \in Messages
      BY QueueAssumption DEF Messages
    <2>2. /\ Copies(q'.main, p) = Copies(q.main, p) + b
          /\ q'.processing = q.processing /\ q'.dlq = q.dlq
      BY <1>0, <1>18, <1>19, <2>1, OperationsCount DEF EnqueueReplyLost, PushMain
    <2>3. unanswered'[p] = unanswered[p] + b
      BY <1>0, <1>1, <1>19 DEF EnqueueReplyLost, TypeOK, Bit
    <2>4. InTransit(p)' = InTransit(p) /\ UNCHANGED <<acked, lost, enqueued>>
      BY <1>6, <1>19 DEF EnqueueReplyLost
    <2>5. b \in Nat
      BY <1>3
    <2>6. /\ Copies(q'.processing, p) = Copies(q.processing, p)
          /\ Copies(q'.dlq, p) = Copies(q.dlq, p)
          /\ acked'[p] = acked[p] /\ lost'[p] = lost[p] /\ enqueued'[p] = enqueued[p]
      BY <2>2, <2>4
    <2> HIDE DEF m, b
    <2>7. QED
      BY <1>1, <1>2, <2>2, <2>3, <2>4, <2>5, <2>6
  <1>8. ASSUME NEW w \in Workers, Recover(w) PROVE Counted(p)'
    <2>1. InTransit(p)' = InTransit(p)
      <3>1. OnHand(w, p) = FALSE /\ OnHand(w, p)' = FALSE
        BY <1>0, <1>8 DEF Recover, Goto, OnHand, TypeOK
      <3>2. QED
        BY <1>2, <1>5, <1>8, <3>1 DEF WorkerStep, Bit
    <2>2. Copies(q'.main, p) + Copies(q'.processing, p)
            = Copies(q.main, p) + Copies(q.processing, p) /\ q'.dlq = q.dlq
      BY <1>0, <1>18, <1>8, OperationsCount, ZenonT(40) DEF Recover, RecoverLast
    <2>3. /\ Copies(q'.main, p) \in Nat /\ Copies(q'.processing, p) \in Nat
      <3>1. q'.main \in Seq(Messages) /\ q'.processing \in Seq(Messages)
        BY TypeInvStep DEF TypeInv, TypeOK, QueueOf
      <3>2. QED
        BY <3>1, CopiesAreNatural
    <2>4. QED
      BY <1>1, <1>2, <1>8, <2>1, <2>2, <2>3 DEF Recover
  <1>9. ASSUME NEW w \in Workers, Dequeue(w) PROVE Counted(p)'
    <2>1. InTransit(p)' = InTransit(p)
      <3>1. OnHand(w, p) = FALSE /\ OnHand(w, p)' = FALSE
        BY <1>0, <1>9 DEF Dequeue, Goto, OnHand, TypeOK
      <3>2. QED
        BY <1>2, <1>5, <1>9, <3>1 DEF WorkerStep, Bit
    <2>2. /\ Copies(q'.main, p) = Copies(q.main, p) - Bit(ReservedMessage(q).payload = p)
          /\ Copies(q'.processing, p)
               = Copies(q.processing, p) + Bit(ReservedMessage(q).payload = p)
          /\ q'.dlq = q.dlq
      BY <1>0, <1>18, <1>9, OperationsCount DEF Dequeue, Reserve
    <2>3. QED
      BY <1>1, <1>2, <1>3, <1>9, <2>1, <2>2 DEF Dequeue
  <1>10. ASSUME NEW w \in Workers, Ack(w) PROVE Counted(p)'
    <2>1. InTransit(p)' = InTransit(p)
      <3>1. OnHand(w, p) = FALSE /\ OnHand(w, p)' = FALSE
        BY <1>0, <1>10 DEF Ack, BackToLoop, Goto, OnHand, TypeOK
      <3>2. QED
        BY <1>2, <1>5, <1>10, <3>1 DEF WorkerStep, Bit
    <2>2. CASE Holds(q, held[w])
      <3>1. /\ Copies(q'.processing, p)
                 = Copies(q.processing, p) - Bit(held[w].payload = p)
            /\ q'.main = q.main /\ q'.dlq = q.dlq
        BY <1>0, <1>18, <1>10, <2>2, OperationsCount DEF Ack, RemoveReserved
      <3>2. \/ acked'[p] = acked[p] + Bit(held[w].payload = p) /\ lost' = lost
            \/ lost'[p] = lost[p] + Bit(held[w].payload = p) /\ acked' = acked
        BY <1>0, <1>1, <1>10, <2>2 DEF Ack, Acknowledge, TypeOK, Bit
      <3>3. QED
        BY <1>1, <1>2, <1>3, <1>10, <2>1, <3>1, <3>2 DEF Ack
    <2>3. CASE ~Holds(q, held[w])
      BY <1>1, <1>10, <2>1, <2>3 DEF Ack
    <2>4. QED
      BY <2>2, <2>3
  <1>11. ASSUME NEW w \in Workers, RetryRemove(w) PROVE Counted(p)'
    <2>1. OnHand(w, p) = FALSE
      BY <1>11 DEF RetryRemove, OnHand
    <2>2. CASE Holds(q, held[w])
      <3>1. OnHand(w, p)' <=> held[w].payload = p
        BY <1>0, <1>11, <2>2 DEF RetryRemove, Goto, OnHand, TypeOK
      <3>2. InTransit(p)' = InTransit(p) + Bit(held[w].payload = p)
        BY <1>2, <1>5, <1>11, <2>1, <3>1 DEF WorkerStep, Bit
      <3>3. /\ Copies(q'.processing, p)
                 = Copies(q.processing, p) - Bit(held[w].payload = p)
            /\ q'.main = q.main /\ q'.dlq = q.dlq
        BY <1>0, <1>18, <1>11, <2>2, OperationsCount DEF RetryRemove, RemoveReserved
      <3>4. QED
        BY <1>1, <1>2, <1>3, <1>11, <3>2, <3>3 DEF RetryRemove
    <2>3. CASE ~Holds(q, held[w])
      <3>1. OnHand(w, p)' = FALSE
        BY <1>0, <1>11, <2>3 DEF RetryRemove, BackToLoop, Goto, OnHand, TypeOK
      <3>2. InTransit(p)' = InTransit(p)
        BY <1>2, <1>5, <1>11, <2>1, <3>1 DEF WorkerStep, Bit
      <3>3. QED
        BY <1>1, <1>11, <2>3, <3>2 DEF RetryRemove
    <2>4. QED
      BY <2>2, <2>3
  <1>12. ASSUME NEW w \in Workers, RetryPush(w) PROVE Counted(p)'
    <2> DEFINE b == Bit(held[w].payload = p)
    <2>1. held[w] \in Messages
      BY <1>0, <1>12, HeldPayload DEF RetryPush
    <2>2. (OnHand(w, p) <=> held[w].payload = p) /\ OnHand(w, p)' = FALSE
      BY <1>0, <1>12 DEF RetryPush, BackToLoop, Goto, OnHand, TypeOK
    <2>3. InTransit(p)' = InTransit(p) - b
      BY <1>2, <1>5, <1>12, <2>2 DEF WorkerStep, Bit
    <2>4. /\ Copies(q'.main, p) + Copies(q'.dlq, p)
               = Copies(q.main, p) + Copies(q.dlq, p) + b
          /\ q'.processing = q.processing
      BY <1>0, <1>18, <1>12, <2>1, OperationsCount DEF RetryPush, PushRetried, PushMain
    <2>5. Copies(q'.main, p) \in Nat /\ Copies(q'.dlq, p) \in Nat
      <3>1. q'.main \in Seq(Messages) /\ q'.dlq \in Seq(Messages)
        BY TypeInvStep DEF TypeInv, TypeOK, QueueOf
      <3>2. QED
        BY <3>1, CopiesAreNatural
    <2>6. UNCHANGED <<acked, lost, enqueued, unanswered>>
      BY <1>12 DEF RetryPush
    <2>7. b \in Nat
      BY <1>3
    <2>8. /\ Copies(q'.processing, p) = Copies(q.processing, p)
          /\ acked'[p] = acked[p] /\ lost'[p] = lost[p]
          /\ enqueued'[p] = enqueued[p] /\ unanswered'[p] = unanswered[p]
      BY <2>4, <2>6
    <2> HIDE DEF b
    <2>9. QED
      BY <1>1, <1>2, <2>3, <2>4, <2>5, <2>6, <2>7, <2>8
  <1>13. ASSUME NEW w \in Workers, RedisError(w) \/ Crash(w) PROVE Counted(p)'
    <2>1. OnHand(w, p)' = FALSE
      BY <1>0, <1>13 DEF RedisError, Crash, BackToLoop, Goto, OnHand, TypeOK
    <2>2. lost'[p] = lost[p] + Bit(OnHand(w, p))
      BY <1>0, <1>1, <1>13 DEF RedisError, Crash, OnHand, TypeOK, Bit
    <2>3. InTransit(p)' = InTransit(p) - Bit(OnHand(w, p))
      BY <1>2, <1>3, <1>5, <1>13, <2>1 DEF Bit
    <2>4. UNCHANGED <<q, acked, enqueued, unanswered>>
      BY <1>13 DEF RedisError, Crash
    <2>5. Bit(OnHand(w, p)) \in Nat
      BY <1>3
    <2>6. QED
      BY <1>1, <1>2, <2>2, <2>3, <2>4, <2>5
  <1>14. ASSUME NEW w \in Workers, Restart(w) PROVE Counted(p)'
    <2>1. OnHand(w, p) = FALSE /\ OnHand(w, p)' = FALSE
      BY <1>0, <1>14 DEF Restart, Goto, OnHand, TypeOK
    <2>2. InTransit(p)' = InTransit(p)
      BY <1>2, <1>5, <1>14, <2>1 DEF Bit
    <2>3. QED
      BY <1>1, <1>14, <2>2 DEF Restart
  <1>17. ASSUME NEW w \in Workers, ReplyLost(w) PROVE Counted(p)'
    <2> DEFINE b == Bit(held[w].payload = p)
    <2>1. OnHand(w, p)' <=> OnHand(w, p)
      BY <1>0, <1>17 DEF ReplyLost, RecoverAgain, DequeueAgain, AckAgain, RetryRemoveAgain,
                         RetryPushAgain, Goto, OnHand, TypeOK
    <2>2. InTransit(p)' = InTransit(p) /\ enqueued' = enqueued
      BY <1>2, <1>5, <1>17, <2>1 DEF Bit, ReplyLost
    <2>8. b \in Nat
      BY <1>3
    <2>3. CASE RecoverAgain(w)
      <3>1. /\ q.processing # <<>> /\ q' = RecoverLast(q)
            /\ UNCHANGED <<acked, lost, unanswered>>
        BY <2>3 DEF RecoverAgain
      <3>2. /\ Copies(q'.main, p) + Copies(q'.processing, p)
                 = Copies(q.main, p) + Copies(q.processing, p)
            /\ q'.dlq = q.dlq
        BY <1>0, <1>18, <3>1, OperationsCount DEF RecoverLast
      <3>3. /\ Copies(q'.main, p) \in Nat /\ Copies(q'.processing, p) \in Nat
        <4>1. q'.main \in Seq(Messages) /\ q'.processing \in Seq(Messages)
          BY TypeInvStep DEF TypeInv, TypeOK, QueueOf
        <4>2. QED
          BY <4>1, CopiesAreNatural
      <3>4. QED
        BY <1>1, <1>2, <2>2, <3>1, <3>2, <3>3
    <2>4. CASE DequeueAgain(w)
      <3>1. q.main # <<>> /\ q' = Reserve(q) /\ UNCHANGED <<acked, lost, unanswered>>
        BY <2>4 DEF DequeueAgain
      <3>2. /\ Copies(q'.main, p) = Copies(q.main, p) - Bit(ReservedMessage(q).payload = p)
            /\ Copies(q'.processing, p)
                 = Copies(q.processing, p) + Bit(ReservedMessage(q).payload = p)
            /\ q'.dlq = q.dlq
        BY <1>0, <1>18, <3>1, OperationsCount DEF Reserve
      <3>3. QED
        BY <1>1, <1>2, <1>3, <2>2, <3>1, <3>2
    <2>5. CASE AckAgain(w) \/ RetryRemoveAgain(w)
      <3>1. /\ Holds(q, held[w]) /\ q' = RemoveReserved(q, held[w])
            /\ UNCHANGED unanswered
        BY <2>5 DEF AckAgain, RetryRemoveAgain
      <3>2. /\ Copies(q'.processing, p) = Copies(q.processing, p) - b
            /\ q'.main = q.main /\ q'.dlq = q.dlq
        BY <1>0, <1>18, <3>1, OperationsCount DEF RemoveReserved
      <3>3. \/ acked'[p] = acked[p] + b /\ lost' = lost
            \/ lost'[p] = lost[p] + b /\ acked' = acked
        BY <1>0, <1>1, <2>5 DEF AckAgain, Acknowledge, RetryRemoveAgain, TypeOK, Bit
      <3> HIDE DEF b
      <3>5. QED
        BY <1>1, <1>2, <2>2, <2>8, <3>1, <3>2, <3>3
    <2>6. CASE RetryPushAgain(w)
      <3>1. /\ q' = PushRetried(q, held[w], MaxAttempts)
            /\ UNCHANGED <<acked, lost>>
        BY <2>6 DEF RetryPushAgain
      <3>2. held[w] \in Messages
        BY <1>0, <2>6, HeldPayload DEF RetryPushAgain
      <3>3. /\ Copies(q'.main, p) + Copies(q'.dlq, p)
                 = Copies(q.main, p) + Copies(q.dlq, p) + b
            /\ q'.processing = q.processing
        BY <1>0, <1>18, <3>1, <3>2, OperationsCount DEF PushRetried, PushMain
      <3>4. unanswered'[p] = unanswered[p] + b
        BY <1>0, <1>1, <2>6 DEF RetryPushAgain, TypeOK, Bit
      <3>5. Copies(q'.main, p) \in Nat /\ Copies(q'.dlq, p) \in Nat
        <4>1. q'.main \in Seq(Messages) /\ q'.dlq \in Seq(Messages)
          BY TypeInvStep DEF TypeInv, TypeOK, QueueOf
        <4>2. QED
          BY <4>1, CopiesAreNatural
      <3>6. /\ Copies(q'.processing, p) = Copies(q.processing, p)
            /\ acked'[p] = acked[p] /\ lost'[p] = lost[p] /\ enqueued'[p] = enqueued[p]
        BY <2>2, <3>1, <3>3
      <3> HIDE DEF b
      <3>7. QED
        BY <1>1, <1>2, <2>2, <2>8, <3>3, <3>4, <3>5, <3>6
    <2>7. QED
      BY <1>17, <2>3, <2>4, <2>5, <2>6 DEF ReplyLost
  <1>15. CASE UNCHANGED vars
    BY <1>1, <1>6, <1>15 DEF vars
  <1>20. Counted(p)'
    BY <1>7, <1>19, <1>8, <1>9, <1>10, <1>11, <1>12, <1>13, <1>17, <1>14, <1>15
       DEF Next, WorkerStep
  <1>16. QED
    BY <1>1, <1>20, UnansweredIsBounded

\* No interleaving of recoveries, acknowledgements and split retries, with any number
\* of workers, crashes, failing commands and lost replies, makes a copy of a payload
\* vanish unaccounted for; and every copy too many was pushed by an RPUSH whose reply
\* was lost.
THEOREM CopiesAreConserved == Spec => []Conservation
  <1>1. TypeInv /\ Conservation /\ [Next]_vars => (TypeInv /\ Conservation)'
    BY TypeInvStep, ConservationStep
  <1>2. QED
    BY <1>1, TypeInvInit, ConservationInit, PTL DEF Spec

-----------------------------------------------------------------------------
LEMMA AppendKeepsPrefix ==
    ASSUME NEW S, NEW s \in Seq(S), NEW m \in S
    PROVE  IsPrefix(s, s) /\ IsPrefix(s, Append(s, m))
  BY DEF IsPrefix

\* What is out of attempts stays on record: no command of any worker, also none
\* that fails or whose reply is lost, takes a message out of the dead letters.
THEOREM DeadLettersAreKept == Spec => DeadLettersStay
  <1>1. TypeInv /\ [Next]_vars => [IsPrefix(q.dlq, q'.dlq)]_vars
    <2> SUFFICES ASSUME TypeInv, [Next]_vars PROVE IsPrefix(q.dlq, q'.dlq)
      OBVIOUS
    <2>1. /\ q \in [main : Seq(Messages), processing : Seq(Messages), dlq : Seq(Messages)]
          /\ q.dlq \in Seq(Exhausted)
      BY DEF TypeInv, TypeOK, QueueOf, QueueTyped, TypedLists
    <2>2. q'.dlq = q.dlq => IsPrefix(q.dlq, q'.dlq)
      BY <2>1 DEF IsPrefix
    <2>3. \A m : /\ PushMain(q, m).dlq = q.dlq
                 /\ Reserve(q).dlq = q.dlq
                 /\ RemoveReserved(q, m).dlq = q.dlq
                 /\ RecoverLast(q).dlq = q.dlq
      BY <2>1 DEF PushMain, Reserve, RemoveReserved, RecoverLast
    <2>4. ASSUME NEW m \in Servable
          PROVE  IsPrefix(q.dlq, PushRetried(q, m, MaxAttempts).dlq)
      <3> DEFINE retried == [m EXCEPT !.attempts = @ + 1]
      <3>1. CASE MovesToDLQ(m, MaxAttempts)
        <4>1. PushRetried(q, m, MaxAttempts).dlq = Append(q.dlq, retried)
          BY <2>1, <3>1 DEF PushRetried
        <4>2. retried \in Exhausted
          BY <3>1, PushRetriedType DEF TypeInv
        <4>3. QED
          BY <2>1, <4>1, <4>2, AppendKeepsPrefix
      <3>2. CASE ~MovesToDLQ(m, MaxAttempts)
        <4>1. PushRetried(q, m, MaxAttempts).dlq = q.dlq
          BY <2>1, <3>2 DEF PushRetried, PushMain
        <4>2. QED
          BY <2>1, <4>1 DEF IsPrefix
      <3>3. QED
        BY <3>1, <3>2
    <2>5. ASSUME NEW w \in Workers, pc[w] = "retry" PROVE held[w] \in Servable
      BY <2>5 DEF TypeInv, TypeOK, HeldTyped
    <2>6. ASSUME NEW p \in Payloads, Enqueue(p) \/ EnqueueReplyLost(p)
          PROVE  q'.dlq = q.dlq
      BY <2>3, <2>6 DEF Enqueue, EnqueueReplyLost
    <2>7. ASSUME NEW w \in Workers, RetryPush(w) PROVE IsPrefix(q.dlq, q'.dlq)
      BY <2>4, <2>5, <2>7 DEF RetryPush
    <2>8. ASSUME NEW w \in Workers, ReplyLost(w) PROVE IsPrefix(q.dlq, q'.dlq)
      BY <2>2, <2>3, <2>4, <2>5, <2>8
         DEF ReplyLost, RecoverAgain, DequeueAgain, AckAgain, RetryRemoveAgain,
             RetryPushAgain
    <2>9. ASSUME NEW w \in Workers,
                 \/ Recover(w) \/ Dequeue(w) \/ Ack(w) \/ RetryRemove(w)
                 \/ RedisError(w) \/ Crash(w) \/ Restart(w)
          PROVE  q'.dlq = q.dlq
      BY <2>3, <2>9 DEF Recover, Dequeue, Ack, RetryRemove, RedisError, Crash, Restart
    <2>10. CASE UNCHANGED vars
      BY <2>2, <2>10 DEF vars
    <2>11. QED
      BY <2>2, <2>6, <2>7, <2>8, <2>9, <2>10 DEF Next, WorkerStep
  <1>2. QED
    BY <1>1, TypeInvInit, TypeInvStep, PTL DEF Spec, DeadLettersStay

-----------------------------------------------------------------------------
\* With a single worker process, the message being processed is always reserved:
\* a crash loses no work and its acknowledgement always finds it.  (A second
\* worker breaks this: its Recover moves the reservation back to main.)
THEOREM SingleWorkerBacked ==
    ASSUME \A v, w \in Workers : v = w
    PROVE  Spec => []ReservationBacked
  <1>1. Init => ReservationBacked
    BY DEF Init, ReservationBacked
  <1>2. TypeInv /\ ReservationBacked /\ [Next]_vars => ReservationBacked'
    <2> SUFFICES ASSUME TypeInv, ReservationBacked, [Next]_vars
                 PROVE  ReservationBacked'
      OBVIOUS
    <2>1. /\ TypeOK
          /\ q.main \in Seq(Messages) /\ q.processing \in Seq(Messages)
          /\ q \in [main : Seq(Messages), processing : Seq(Messages), dlq : Seq(Messages)]
      BY DEF TypeInv, TypeOK, QueueOf
    <2>2. ASSUME NEW p \in Payloads, Enqueue(p) \/ EnqueueReplyLost(p)
          PROVE  ReservationBacked'
      <3>1. q'.processing = q.processing
        BY <2>1, <2>2 DEF Enqueue, EnqueueReplyLost, PushMain
      <3>2. QED
        BY <2>2, <3>1 DEF ReservationBacked, Holds, Enqueue, EnqueueReplyLost
    <2>3. ASSUME NEW w \in Workers, Dequeue(w) PROVE ReservationBacked'
      <3>1. ReservedMessage(q) \in Messages
        BY <2>1, <2>3, FrontProperties DEF Dequeue, ReservedMessage
      <3>2. /\ Len(q'.processing) = Len(q.processing) + 1
            /\ q'.processing[1] = ReservedMessage(q)
        BY <2>1, <2>3, <3>1, ConsProperties DEF Dequeue, Reserve
      <3>3. Len(q.processing) \in Nat
        BY <2>1, LenProperties
      <3>4. \E i \in 1..Len(q'.processing) : q'.processing[i] = ReservedMessage(q)
        BY <3>2, <3>3
      <3>5. Contains(q'.processing, ReservedMessage(q))
        BY <3>4 DEF Contains
      <3>6. held'[w] = ReservedMessage(q)
        BY <2>1, <2>3 DEF Dequeue, TypeOK
      <3>7. QED
        BY <3>5, <3>6 DEF ReservationBacked, Holds
    <2>4. ASSUME NEW w \in Workers, pc'[w] # "busy" PROVE ReservationBacked'
      BY <2>4 DEF ReservationBacked
    <2>5. ASSUME NEW w \in Workers,
                 Recover(w) \/ Ack(w) \/ RetryRemove(w) \/ RetryPush(w)
                   \/ RedisError(w) \/ ReplyLost(w) \/ Crash(w) \/ Restart(w)
          PROVE  ReservationBacked'
      <3>1. pc'[w] # "busy"
        BY <2>1, <2>5 DEF TypeOK, Recover, Ack, RetryRemove, RetryPush, RedisError,
                          ReplyLost, RecoverAgain, DequeueAgain, AckAgain,
                          RetryRemoveAgain, RetryPushAgain, Crash, Restart, BackToLoop,
                          Goto
      <3>2. QED
        BY <2>4, <3>1
    <2>6. CASE UNCHANGED vars
      BY <2>6 DEF vars, ReservationBacked
    <2>7. QED
      BY <2>2, <2>3, <2>5, <2>6 DEF Next, WorkerStep
  <1>3. QED
    BY <1>1, <1>2, TypeInvInit, TypeInvStep, PTL DEF Spec

-----------------------------------------------------------------------------
(* The promise.  The copies of one message are counted as those of one payload were; *)
(* every step then takes one open copy of one message, turns it into another, or     *)
(* leaves the open copies alone.                                                     *)

Hand(m) == {w \in Workers : pc[w] = "retry" /\ held[w] = m}

Holding(w, m) == pc[w] = "retry" /\ held[w] = m

LEMMA HandIsFinite ==
    ASSUME NEW m
    PROVE  IsFiniteSet(Hand(m)) /\ Cardinality(Hand(m)) \in Nat
  <1>1. Hand(m) \subseteq Workers
    BY DEF Hand
  <1>2. IsFiniteSet(Hand(m))
    BY <1>1, FS_Subset, QueueAssumption
  <1>3. QED
    BY <1>2, FS_CardinalityType

\* When one worker moves, the hands of the others hold what they held.
LEMMA HandChange ==
    ASSUME NEW w \in Workers, NEW m,
           \A v \in Workers \ {w} : pc'[v] = pc[v] /\ held'[v] = held[v]
    PROVE  Cardinality(Hand(m))'
               = Cardinality(Hand(m)) - Bit(Holding(w, m)) + Bit(Holding(w, m)')
  <1>1. Hand(m) \subseteq Workers /\ Hand(m)' \subseteq Workers
    BY DEF Hand
  <1>2. IsFiniteSet(Hand(m)) /\ IsFiniteSet(Hand(m)')
    BY <1>1, FS_Subset, QueueAssumption
  <1>3. Hand(m)' \ {w} = Hand(m) \ {w}
    BY DEF Hand
  <1>4. (w \in Hand(m) <=> Holding(w, m)) /\ (w \in Hand(m)' <=> Holding(w, m)')
    BY DEF Hand, Holding
  <1>5. /\ Cardinality(Hand(m)) = Cardinality(Hand(m) \ {w}) + Bit(w \in Hand(m))
        /\ Cardinality(Hand(m)') = Cardinality(Hand(m) \ {w}) + Bit(w \in Hand(m)')
        /\ Cardinality(Hand(m) \ {w}) \in Nat
    BY <1>2, <1>3, CountWithout
  <1>6. QED
    BY <1>4, <1>5 DEF Bit

LEMMA OpenIsCounted ==
    ASSUME q \in QueueOf(Messages), NEW m
    PROVE  /\ Open(m) = Count(q.main, {m}) + Count(q.processing, {m}) + Cardinality(Hand(m))
           /\ Count(q.main, {m}) \in Nat /\ Count(q.processing, {m}) \in Nat
           /\ Cardinality(Hand(m)) \in Nat
           /\ Open(m) \in Nat
  <1>1. q.main \in Seq(Messages) /\ q.processing \in Seq(Messages)
    BY DEF QueueOf
  <1>2. DOMAIN q.main = 1..Len(q.main) /\ DOMAIN q.processing = 1..Len(q.processing)
    BY <1>1, LenProperties
  <1>3. /\ {i \in DOMAIN q.main : q.main[i] = m} = Places(q.main, {m})
        /\ {i \in DOMAIN q.processing : q.processing[i] = m} = Places(q.processing, {m})
    BY <1>2 DEF Places
  <1>4. /\ Count(q.main, {m}) \in Nat /\ Count(q.processing, {m}) \in Nat
        /\ Cardinality(Hand(m)) \in Nat
    BY <1>1, PlacesFinite, HandIsFinite
  <1>5. QED
    BY <1>3, <1>4 DEF Open, Count, Hand

\* What each operation does to the copies of one message.
LEMMA OperationsCountMessages ==
    ASSUME q \in QueueOf(Messages), NEW m
    PROVE  /\ \A x \in Messages :
                /\ Count(PushMain(q, x).main, {m}) = Count(q.main, {m}) + Bit(x = m)
                /\ PushMain(q, x).processing = q.processing
           /\ q.main # <<>> =>
                Count(Reserve(q).main, {m}) + Count(Reserve(q).processing, {m})
                  = Count(q.main, {m}) + Count(q.processing, {m})
           /\ q.processing # <<>> =>
                Count(RecoverLast(q).main, {m}) + Count(RecoverLast(q).processing, {m})
                  = Count(q.main, {m}) + Count(q.processing, {m})
           /\ \A x : Holds(q, x) =>
                /\ Count(RemoveReserved(q, x).processing, {m})
                     = Count(q.processing, {m}) - Bit(x = m)
                /\ RemoveReserved(q, x).main = q.main
  <1>1. /\ q.main \in Seq(Messages) /\ q.processing \in Seq(Messages)
        /\ q \in [main : Seq(Messages), processing : Seq(Messages), dlq : Seq(Messages)]
    BY DEF QueueOf
  <1>2. Count(q.main, {m}) \in Nat /\ Count(q.processing, {m}) \in Nat
    BY <1>1, PlacesFinite
  <1>3. \A x : Bit(x \in {m}) = Bit(x = m) /\ Bit(x = m) \in Nat
    BY DEF Bit
  <1>4. ASSUME NEW x \in Messages
        PROVE  /\ Count(PushMain(q, x).main, {m}) = Count(q.main, {m}) + Bit(x = m)
               /\ PushMain(q, x).processing = q.processing
    <2>1. /\ PushMain(q, x).main = Append(q.main, x)
          /\ PushMain(q, x).processing = q.processing
      BY <1>1 DEF PushMain
    <2>2. Count(Append(q.main, x), {m}) = Count(q.main, {m}) + Bit(x \in {m})
      BY <1>1, CountAppend
    <2>3. QED
      BY <1>3, <2>1, <2>2
  <1>5. ASSUME q.main # <<>>
        PROVE  Count(Reserve(q).main, {m}) + Count(Reserve(q).processing, {m})
                  = Count(q.main, {m}) + Count(q.processing, {m})
    <2> DEFINE x == Last(q.main)
    <2>1. /\ Reserve(q).main = Front(q.main)
          /\ Reserve(q).processing = Cons(x, q.processing)
          /\ x \in Messages
      BY <1>1, <1>5, FrontProperties DEF Reserve, ReservedMessage
    <2>2. Count(Front(q.main), {m}) = Count(q.main, {m}) - Bit(x \in {m})
      BY <1>1, <1>5, CountFront
    <2>3. Count(Cons(x, q.processing), {m}) = Count(q.processing, {m}) + Bit(x \in {m})
      BY <1>1, <2>1, CountCons
    <2>4. QED
      BY <1>2, <2>1, <2>2, <2>3 DEF Bit
  <1>6. ASSUME q.processing # <<>>
        PROVE  Count(RecoverLast(q).main, {m}) + Count(RecoverLast(q).processing, {m})
                  = Count(q.main, {m}) + Count(q.processing, {m})
    <2> DEFINE x == Last(q.processing)
    <2>1. /\ RecoverLast(q).main = Cons(x, q.main)
          /\ RecoverLast(q).processing = Front(q.processing)
          /\ x \in Messages
      BY <1>1, <1>6, FrontProperties DEF RecoverLast
    <2>2. Count(Front(q.processing), {m}) = Count(q.processing, {m}) - Bit(x \in {m})
      BY <1>1, <1>6, CountFront
    <2>3. Count(Cons(x, q.main), {m}) = Count(q.main, {m}) + Bit(x \in {m})
      BY <1>1, <2>1, CountCons
    <2>4. QED
      BY <1>2, <2>1, <2>2, <2>3 DEF Bit
  <1>7. ASSUME NEW x, Holds(q, x)
        PROVE  /\ Count(RemoveReserved(q, x).processing, {m})
                     = Count(q.processing, {m}) - Bit(x = m)
               /\ RemoveReserved(q, x).main = q.main
    <2>1. /\ RemoveReserved(q, x).processing = RemoveFirst(q.processing, x)
          /\ RemoveReserved(q, x).main = q.main
      BY <1>1 DEF RemoveReserved
    <2>2. Count(RemoveFirst(q.processing, x), {m}) = Count(q.processing, {m}) - Bit(x \in {m})
      BY <1>1, <1>7, CountRemoveFirst DEF Holds
    <2>3. QED
      BY <1>3, <2>1, <2>2
  <1>8. QED
    BY <1>4, <1>5, <1>6, <1>7

\* The open copies of a message after a step: one less if it is in gone, one more
\* if it is in come.
Changed(m, gone, come) == Open(m)' = Open(m) - Bit(m \in gone) + Bit(m \in come)

LEMMA WorkerRecount ==
    ASSUME q \in QueueOf(Messages), q' \in QueueOf(Messages), NEW w \in Workers, NEW m,
           \A v \in Workers \ {w} : pc'[v] = pc[v] /\ held'[v] = held[v]
    PROVE  /\ Open(m) = Count(q.main, {m}) + Count(q.processing, {m}) + Cardinality(Hand(m))
           /\ Open(m)' = Count(q'.main, {m}) + Count(q'.processing, {m})
                         + (Cardinality(Hand(m)) - Bit(Holding(w, m)) + Bit(Holding(w, m)'))
           /\ Count(q.main, {m}) \in Nat /\ Count(q.processing, {m}) \in Nat
           /\ Count(q'.main, {m}) \in Nat /\ Count(q'.processing, {m}) \in Nat
           /\ Cardinality(Hand(m)) \in Nat
  <1>1. /\ q'.main \in Seq(Messages) /\ q'.processing \in Seq(Messages)
    BY DEF QueueOf
  <1>2. DOMAIN q'.main = 1..Len(q'.main) /\ DOMAIN q'.processing = 1..Len(q'.processing)
    BY <1>1, LenProperties
  <1>3. /\ {i \in DOMAIN q'.main : q'.main[i] = m} = Places(q'.main, {m})
        /\ {i \in DOMAIN q'.processing : q'.processing[i] = m} = Places(q'.processing, {m})
    BY <1>2 DEF Places
  <1>4. Count(q'.main, {m}) \in Nat /\ Count(q'.processing, {m}) \in Nat
    BY <1>1, PlacesFinite
  <1>5. Open(m)' = Count(q'.main, {m}) + Count(q'.processing, {m}) + Cardinality(Hand(m))'
    BY <1>3 DEF Open, Count, Hand
  <1>6. QED
    BY <1>4, <1>5, OpenIsCounted, HandChange

Retried(x) == [x EXCEPT !.attempts = @ + 1]

\* The lists after the second half of a retry.
LEMMA RetryPushCounts ==
    ASSUME q \in QueueOf(Messages), NEW x \in Servable, NEW m
    PROVE  /\ PushRetried(q, x, MaxAttempts).processing = q.processing
           /\ MovesToDLQ(x, MaxAttempts) =>
                PushRetried(q, x, MaxAttempts).main = q.main
           /\ ~MovesToDLQ(x, MaxAttempts) =>
                Count(PushRetried(q, x, MaxAttempts).main, {m})
                  = Count(q.main, {m}) + Bit(Retried(x) = m)
  <1>1. q \in [main : Seq(Messages), processing : Seq(Messages), dlq : Seq(Messages)]
    BY DEF QueueOf
  <1>2. CASE MovesToDLQ(x, MaxAttempts)
    BY <1>1, <1>2 DEF PushRetried
  <1>3. CASE ~MovesToDLQ(x, MaxAttempts)
    <2>1. PushRetried(q, x, MaxAttempts) = PushMain(q, Retried(x))
      BY <1>3 DEF PushRetried, Retried
    <2>2. Retried(x) \in Messages
      <3>1. /\ MaxAttempts \in Nat /\ x.attempts \in Nat /\ x.attempts < MaxAttempts
            /\ x.payload \in Payloads /\ x \in Messages
        BY QueueAssumption DEF Servable, Messages
      <3>2. Retried(x) = [payload |-> x.payload, attempts |-> x.attempts + 1]
        BY <3>1 DEF Messages, Retried
      <3>3. QED
        BY <3>1, <3>2 DEF Messages
    <2>3. /\ Count(PushMain(q, Retried(x)).main, {m}) = Count(q.main, {m}) + Bit(Retried(x) = m)
          /\ PushMain(q, Retried(x)).processing = q.processing
      BY <2>2, OperationsCountMessages
    <2>4. QED
      BY <1>3, <2>1, <2>3
  <1>4. QED
    BY <1>2, <1>3

\* What each step of a worker does to the open copies.
LEMMA WorkerChanges ==
    ASSUME TypeInv, TypeInv', NEW w \in Workers, NEW m \in Messages
    PROVE  /\ Recover(w) \/ Dequeue(w) \/ RetryRemove(w) \/ Restart(w) => Changed(m, {}, {})
           /\ Ack(w) => Changed(m, IF Holds(q, held[w]) THEN {held[w]} ELSE {}, {})
           /\ RetryPush(w) =>
                Changed(m, {held[w]},
                        IF MovesToDLQ(held[w], MaxAttempts) THEN {}
                        ELSE {Retried(held[w])})
           /\ RedisError(w) \/ Crash(w) =>
                Changed(m, IF pc[w] = "retry" THEN {held[w]} ELSE {}, {})
           /\ ReplyLost(w) /\ (RecoverAgain(w) \/ DequeueAgain(w)) => Changed(m, {}, {})
           /\ ReplyLost(w) /\ (AckAgain(w) \/ RetryRemoveAgain(w)) => Changed(m, {held[w]}, {})
           /\ ReplyLost(w) /\ RetryPushAgain(w) =>
                Changed(m, {}, IF MovesToDLQ(held[w], MaxAttempts) THEN {}
                               ELSE {Retried(held[w])})
  <1>1. /\ q \in QueueOf(Messages) /\ q' \in QueueOf(Messages)
        /\ q \in [main : Seq(Messages), processing : Seq(Messages), dlq : Seq(Messages)]
        /\ pc \in [Workers -> {"recover", "idle", "busy", "acking", "removing", "retry", "down"}]
        /\ held \in [Workers -> Servable \cup {NoMsg}]
        /\ pc[w] = "retry" => held[w] \in Servable
    BY DEF TypeInv, TypeOK, QueueOf, HeldTyped
  <1>2. ASSUME \A v \in Workers \ {w} : pc'[v] = pc[v] /\ held'[v] = held[v]
        PROVE  /\ Open(m) = Count(q.main, {m}) + Count(q.processing, {m}) + Cardinality(Hand(m))
               /\ Open(m)' = Count(q'.main, {m}) + Count(q'.processing, {m})
                             + (Cardinality(Hand(m)) - Bit(Holding(w, m)) + Bit(Holding(w, m)'))
               /\ Count(q.main, {m}) \in Nat /\ Count(q.processing, {m}) \in Nat
               /\ Count(q'.main, {m}) \in Nat /\ Count(q'.processing, {m}) \in Nat
               /\ Cardinality(Hand(m)) \in Nat
    BY <1>1, <1>2, WorkerRecount
  <1>3. ASSUME \/ Recover(w) \/ Dequeue(w)
               \/ ReplyLost(w) /\ (RecoverAgain(w) \/ DequeueAgain(w))
        PROVE  Open(m)' = Open(m)
    <2>1. /\ \A v \in Workers \ {w} : pc'[v] = pc[v] /\ held'[v] = held[v]
          /\ ~Holding(w, m) /\ ~Holding(w, m)'
      BY <1>1, <1>3 DEF Recover, Dequeue, ReplyLost, RecoverAgain, DequeueAgain, Goto, Holding
    <2>2. Count(q'.main, {m}) + Count(q'.processing, {m})
              = Count(q.main, {m}) + Count(q.processing, {m})
      BY <1>1, <1>3, OperationsCountMessages
         DEF Recover, Dequeue, RecoverAgain, DequeueAgain
    <2>3. QED
      BY <1>2, <2>1, <2>2 DEF Bit
  <1>4. ASSUME RetryRemove(w) PROVE Open(m)' = Open(m)
    <2>1. CASE Holds(q, held[w])
      <3>1. /\ \A v \in Workers \ {w} : pc'[v] = pc[v] /\ held'[v] = held[v]
            /\ ~Holding(w, m) /\ (Holding(w, m)' <=> held[w] = m)
            /\ q' = RemoveReserved(q, held[w])
        BY <1>1, <1>4, <2>1 DEF RetryRemove, Goto, Holding
      <3>2. /\ Count(q'.processing, {m}) = Count(q.processing, {m}) - Bit(held[w] = m)
            /\ q'.main = q.main
        BY <1>1, <2>1, <3>1, OperationsCountMessages
      <3>3. QED
        BY <1>2, <3>1, <3>2 DEF Bit
    <2>2. CASE ~Holds(q, held[w])
      <3>1. /\ \A v \in Workers \ {w} : pc'[v] = pc[v] /\ held'[v] = held[v]
            /\ ~Holding(w, m) /\ ~Holding(w, m)' /\ q' = q
        BY <1>1, <1>4, <2>2 DEF RetryRemove, BackToLoop, Goto, Holding
      <3>2. QED
        BY <1>2, <3>1 DEF Bit
    <2>3. QED
      BY <2>1, <2>2
  <1>5. ASSUME Ack(w) \/ (ReplyLost(w) /\ (AckAgain(w) \/ RetryRemoveAgain(w)))
        PROVE  Open(m)' = Open(m) - Bit(Holds(q, held[w]) /\ held[w] = m)
    <2>1. /\ \A v \in Workers \ {w} : pc'[v] = pc[v] /\ held'[v] = held[v]
          /\ ~Holding(w, m) /\ ~Holding(w, m)'
          /\ q' = IF Holds(q, held[w]) THEN RemoveReserved(q, held[w]) ELSE q
      BY <1>1, <1>5 DEF Ack, ReplyLost, AckAgain, RetryRemoveAgain, Goto, BackToLoop, Holding
    <2>2. Holds(q, held[w]) =>
            /\ Count(q'.processing, {m}) = Count(q.processing, {m}) - Bit(held[w] = m)
            /\ q'.main = q.main
      BY <1>1, <2>1, OperationsCountMessages
    <2>3. QED
      BY <1>2, <2>1, <2>2 DEF Bit
  <1>6. ASSUME RetryPush(w) \/ (ReplyLost(w) /\ RetryPushAgain(w))
        PROVE  Open(m)' = Open(m) - Bit(RetryPush(w) /\ held[w] = m)
                    + Bit(~MovesToDLQ(held[w], MaxAttempts)
                          /\ Retried(held[w]) = m)
    <2>1. /\ \A v \in Workers \ {w} : pc'[v] = pc[v] /\ held'[v] = held[v]
          /\ (Holding(w, m) <=> held[w] = m)
          /\ q' = PushRetried(q, held[w], MaxAttempts)
          /\ held[w] \in Servable
      BY <1>1, <1>6 DEF RetryPush, ReplyLost, RetryPushAgain, Goto, BackToLoop, Holding
    <2>4. Holding(w, m)' <=> Holding(w, m) /\ ~RetryPush(w)
      <3>1. CASE RetryPush(w)
        BY <1>1, <3>1 DEF RetryPush, Goto, BackToLoop, Holding
      <3>2. CASE ~RetryPush(w)
        BY <1>6, <3>2 DEF ReplyLost, RetryPushAgain, Holding
      <3>3. QED
        BY <3>1, <3>2
    <2>2. /\ q'.processing = q.processing
          /\ MovesToDLQ(held[w], MaxAttempts) => q'.main = q.main
          /\ ~MovesToDLQ(held[w], MaxAttempts) =>
               Count(q'.main, {m}) = Count(q.main, {m}) + Bit(Retried(held[w]) = m)
      BY <1>1, <2>1, RetryPushCounts
    <2>3. QED
      BY <1>2, <2>1, <2>2, <2>4 DEF Bit
  <1>7. ASSUME RedisError(w) \/ Crash(w) \/ Restart(w)
        PROVE  Open(m)' = Open(m) - Bit(pc[w] = "retry" /\ held[w] = m)
    <2>1. /\ \A v \in Workers \ {w} : pc'[v] = pc[v] /\ held'[v] = held[v]
          /\ (Holding(w, m) <=> pc[w] = "retry" /\ held[w] = m) /\ ~Holding(w, m)'
          /\ q' = q
      BY <1>1, <1>7 DEF RedisError, Crash, Restart, Goto, BackToLoop, Holding
    <2>2. QED
      BY <1>2, <2>1 DEF Bit
  <1>8. Open(m) \in Nat
    BY <1>1, OpenIsCounted
  <1>9. ASSUME RetryPushAgain(w), ReplyLost(w) PROVE ~RetryPush(w)
    BY <1>1, <1>9 DEF RetryPushAgain, RetryPush, BackToLoop, Goto
  <1>10. ASSUME ReplyLost(w), AckAgain(w) \/ RetryRemoveAgain(w) PROVE Holds(q, held[w])
    BY <1>10 DEF AckAgain, RetryRemoveAgain
  <1>11. QED
    BY <1>3, <1>4, <1>5, <1>6, <1>7, <1>8, <1>9, <1>10 DEF Changed, Bit, Restart

-----------------------------------------------------------------------------
\* The open copies of all messages, and what the promise sees of them.
OpenCopies == [m \in Messages |-> Open(m)]

Message(p, n) == [payload |-> p, attempts |-> n]

Served(F) == [p \in Payloads |-> [n \in 0..(MaxAttempts - 1) |-> F[Message(p, n)]]]

LEMMA OpenCopiesAt ==
    ASSUME NEW m \in Messages
    PROVE  OpenCopies[m] = Open(m) /\ OpenCopies'[m] = Open(m)'
  BY DEF OpenCopies

LEMMA ServableIsMessage ==
    /\ \A p \in Payloads, n \in 0..(MaxAttempts - 1) :
         Message(p, n) \in Messages /\ Message(p, n) \in Servable
    /\ \A p, r \in Payloads, n, k \in 0..(MaxAttempts - 1) :
         Message(p, n) = Message(r, k) <=> p = r /\ n = k
    /\ \A x \in Servable :
         /\ x \in Messages /\ x = Message(x.payload, x.attempts)
         /\ x.payload \in Payloads /\ x.attempts \in 0..(MaxAttempts - 1)
  <1>1. \A p \in Payloads, n \in 0..(MaxAttempts - 1) :
          Message(p, n) \in Messages /\ Message(p, n) \in Servable
    BY QueueAssumption DEF Message, Messages, Servable
  <1>2. \A p, r \in Payloads, n, k \in 0..(MaxAttempts - 1) :
          Message(p, n) = Message(r, k) <=> p = r /\ n = k
    BY DEF Message
  <1>3. ASSUME NEW x \in Servable
        PROVE  /\ x \in Messages /\ x = Message(x.payload, x.attempts)
               /\ x.payload \in Payloads /\ x.attempts \in 0..(MaxAttempts - 1)
    BY QueueAssumption DEF Message, Messages, Servable
  <1>4. QED
    BY <1>1, <1>2, <1>3

LEMMA PromiseOpen ==
    /\ [p \in Payloads |-> [n \in 0..(MaxAttempts - 1) |-> Open([payload |-> p, attempts |-> n])]]
         = Served(OpenCopies)
    /\ [p \in Payloads |-> [n \in 0..(MaxAttempts - 1) |-> Open([payload |-> p, attempts |-> n])]]'
         = Served(OpenCopies')
  <1>1. ASSUME NEW p \in Payloads, NEW n \in 0..(MaxAttempts - 1)
        PROVE  /\ Open([payload |-> p, attempts |-> n]) = OpenCopies[Message(p, n)]
               /\ Open([payload |-> p, attempts |-> n])' = OpenCopies'[Message(p, n)]
    BY ServableIsMessage, OpenCopiesAt DEF Message
  <1>2. QED
    BY <1>1 DEF Served

Counts == [Messages -> Nat]

\* Two tables with the same entries are equal.
LEMMA SameTable ==
    ASSUME NEW P, NEW N, NEW A \in [P -> [N -> Int]], NEW B \in [P -> [N -> Int]],
           \A r \in P, k \in N : A[r][k] = B[r][k]
    PROVE  A = B
  <1>1. ASSUME NEW r \in P PROVE A[r] = B[r]
    OBVIOUS
  <1>2. QED
    BY <1>1

LEMMA ServedType ==
    ASSUME NEW F \in Counts
    PROVE  /\ Served(F) \in [Payloads -> [0..(MaxAttempts - 1) -> Int]]
           /\ \A p \in Payloads, n \in 0..(MaxAttempts - 1) :
                Served(F)[p][n] = F[Message(p, n)] /\ F[Message(p, n)] \in Nat
  BY ServableIsMessage DEF Served, Counts

\* The three ways the open copies change, as the promise writes them.
LEMMA OneLess ==
    ASSUME NEW F \in Counts, NEW G \in Counts, NEW x \in Servable,
           \A m \in Messages : G[m] = F[m] - Bit(m = x)
    PROVE  /\ Served(F)[x.payload][x.attempts] > 0
           /\ Served(G) = [Served(F) EXCEPT ![x.payload][x.attempts] = @ - 1]
  <1> DEFINE p == x.payload
             n == x.attempts
             H == Served(F)
             v == H[p][n] - 1
             D == 0..(MaxAttempts - 1)
             A == [H EXCEPT ![p][n] = v]
  <1>1. p \in Payloads /\ n \in 0..(MaxAttempts - 1) /\ x = Message(p, n) /\ x \in Messages
    BY ServableIsMessage
  <1>2. /\ H \in [Payloads -> [0..(MaxAttempts - 1) -> Int]]
        /\ H[p][n] = F[x] /\ F[x] = G[x] + 1 /\ G[x] \in Nat /\ v = G[x] /\ v \in Int
    BY <1>1, ServedType DEF Counts, Bit
  <1>3. p \in Payloads /\ n \in D /\ H \in [Payloads -> [D -> Int]]
    BY <1>1, <1>2
  <1> HIDE DEF p, n, H, v, D
  <1>4. /\ A \in [Payloads -> [D -> Int]]
        /\ \A r \in Payloads, k \in D : A[r][k] = IF r = p /\ k = n THEN v ELSE H[r][k]
    BY <1>2, <1>3
  <1> HIDE DEF A
  <1>5. ASSUME NEW r \in Payloads, NEW k \in D
        PROVE  G[Message(r, k)] = IF r = p /\ k = n THEN v ELSE H[r][k]
    <2>1. Message(r, k) \in Messages /\ (Message(r, k) = x <=> r = p /\ k = n)
      BY <1>1, ServableIsMessage DEF D
    <2>2. H[r][k] = F[Message(r, k)] /\ F[Message(r, k)] \in Nat
      BY ServedType DEF H, D
    <2>3. QED
      BY <1>1, <1>2, <2>1, <2>2 DEF Bit
  <1>6. Served(G) = A
    <2>1. Served(G) \in [Payloads -> [D -> Int]]
      BY ServedType DEF D
    <2>2. \A r \in Payloads, k \in D : Served(G)[r][k] = A[r][k]
      BY <1>4, <1>5, ServedType DEF D
    <2>3. QED
      BY <1>4, <2>1, <2>2, SameTable
  <1>7. Served(F)[x.payload][x.attempts] > 0
    BY <1>2 DEF H, p, n
  <1>8. QED
    BY <1>6, <1>7 DEF p, n, H, v, A

LEMMA OneMore ==
    ASSUME NEW F \in Counts, NEW G \in Counts, NEW p \in Payloads,
           NEW n \in 0..(MaxAttempts - 1),
           \A m \in Messages : G[m] = F[m] + Bit(m = Message(p, n))
    PROVE  Served(G) = [Served(F) EXCEPT ![p][n] = @ + 1]
  <1> DEFINE H == Served(F)
             v == H[p][n] + 1
             D == 0..(MaxAttempts - 1)
             A == [H EXCEPT ![p][n] = v]
  <1>1. n \in 0..(MaxAttempts - 1)
    OBVIOUS
  <1>2. /\ H \in [Payloads -> [0..(MaxAttempts - 1) -> Int]]
        /\ H[p][n] = F[Message(p, n)] /\ F[Message(p, n)] \in Nat /\ v \in Int
        /\ v = F[Message(p, n)] + 1
    BY <1>1, ServedType
  <1>3. n \in D /\ H \in [Payloads -> [D -> Int]]
    BY <1>1, <1>2
  <1> HIDE DEF H, v, D
  <1>4. /\ A \in [Payloads -> [D -> Int]]
        /\ \A r \in Payloads, k \in D : A[r][k] = IF r = p /\ k = n THEN v ELSE H[r][k]
    BY <1>2, <1>3
  <1> HIDE DEF A
  <1>5. ASSUME NEW r \in Payloads, NEW k \in D
        PROVE  G[Message(r, k)] = IF r = p /\ k = n THEN v ELSE H[r][k]
    <2>1. Message(r, k) \in Messages /\ (Message(r, k) = Message(p, n) <=> r = p /\ k = n)
      BY <1>1, ServableIsMessage DEF D
    <2>2. H[r][k] = F[Message(r, k)] /\ F[Message(r, k)] \in Nat
      BY ServedType DEF H, D
    <2>3. QED
      BY <1>2, <2>1, <2>2 DEF Bit
  <1>6. Served(G) = A
    <2>1. Served(G) \in [Payloads -> [D -> Int]]
      BY ServedType DEF D
    <2>2. \A r \in Payloads, k \in D : Served(G)[r][k] = A[r][k]
      BY <1>4, <1>5, ServedType DEF D
    <2>3. QED
      BY <1>4, <2>1, <2>2, SameTable
  <1>7. QED
    BY <1>6 DEF H, v, A

LEMMA OneRejected ==
    ASSUME NEW F \in Counts, NEW G \in Counts, NEW x \in Servable,
           x.attempts + 1 \in 0..(MaxAttempts - 1),
           \A m \in Messages :
               G[m] = F[m] - Bit(m = x) + Bit(m = Message(x.payload, x.attempts + 1))
    PROVE  /\ Served(F)[x.payload][x.attempts] > 0
           /\ Served(G) = [Served(F) EXCEPT ![x.payload][x.attempts] = @ - 1,
                                            ![x.payload][x.attempts + 1] = @ + 1]
  <1> DEFINE p == x.payload
             n == x.attempts
             H == Served(F)
             v == H[p][n] - 1
             A == [H EXCEPT ![p][n] = v]
             u == H[p][n + 1] + 1
             D == 0..(MaxAttempts - 1)
             B == [A EXCEPT ![p][n + 1] = u]
  <1>1. /\ p \in Payloads /\ n \in 0..(MaxAttempts - 1) /\ n + 1 \in 0..(MaxAttempts - 1)
        /\ n # n + 1 /\ x = Message(p, n) /\ x \in Messages
    BY ServableIsMessage, QueueAssumption
  <1>2. x # Message(p, n + 1) /\ Message(p, n + 1) \in Messages
    BY <1>1, ServableIsMessage
  <1>3. /\ H \in [Payloads -> [0..(MaxAttempts - 1) -> Int]]
        /\ H[p][n] = F[x] /\ F[x] = G[x] + 1 /\ G[x] \in Nat /\ v = F[x] - 1 /\ v \in Int
    BY <1>1, <1>2, ServedType DEF Counts, Bit
  <1>4. x = Message(x.payload, x.attempts)
    BY ServableIsMessage
  <1>5. \A m \in Messages : G[m] = F[m] - Bit(m = x) + Bit(m = Message(p, n + 1))
    OBVIOUS
  <1>6. u = F[Message(p, n + 1)] + 1 /\ u \in Int
    BY <1>1, ServedType
  <1>7. p \in Payloads /\ n \in D /\ n + 1 \in D /\ H \in [Payloads -> [D -> Int]]
    BY <1>1, <1>3
  <1> HIDE DEF p, n, H, v, u, D
  <1>8. /\ A \in [Payloads -> [D -> Int]]
        /\ \A r \in Payloads, k \in D : A[r][k] = IF r = p /\ k = n THEN v ELSE H[r][k]
    BY <1>3, <1>7
  <1> HIDE DEF A
  <1>9. /\ B \in [Payloads -> [D -> Int]]
        /\ \A r \in Payloads, k \in D : B[r][k] = IF r = p /\ k = n + 1 THEN u ELSE A[r][k]
    BY <1>8, <1>6, <1>7
  <1> HIDE DEF B
  <1>10. ASSUME NEW r \in Payloads, NEW k \in D
        PROVE  Served(G)[r][k] = B[r][k]
    <2>1. /\ Message(r, k) \in Messages
          /\ Message(r, k) = x <=> r = p /\ k = n
          /\ Message(r, k) = Message(p, n + 1) <=> r = p /\ k = n + 1
      BY <1>1, ServableIsMessage DEF D
    <2>2. H[r][k] = F[Message(r, k)] /\ F[Message(r, k)] \in Nat
      BY ServedType DEF H, D
    <2>3. Served(G)[r][k] = G[Message(r, k)]
      BY ServedType DEF D
    <2>4. G[Message(r, k)] = F[Message(r, k)] - Bit(r = p /\ k = n) + Bit(r = p /\ k = n + 1)
      BY <1>5, <2>1 DEF Bit
    <2>5. B[r][k] = IF r = p /\ k = n + 1 THEN u ELSE IF r = p /\ k = n THEN v ELSE H[r][k]
      BY <1>8, <1>9
    <2>6. CASE r = p /\ k = n
      BY <1>1, <1>3, <2>2, <2>3, <2>4, <2>5, <2>6 DEF Bit
    <2>7. CASE r = p /\ k = n + 1
      BY <1>1, <1>6, <2>2, <2>3, <2>4, <2>5, <2>7 DEF Bit
    <2>8. CASE ~(r = p /\ k = n) /\ ~(r = p /\ k = n + 1)
      BY <2>2, <2>3, <2>4, <2>5, <2>8 DEF Bit
    <2>9. QED
      BY <2>6, <2>7, <2>8
  <1>11. Served(G) = B
    <2>1. Served(G) \in [Payloads -> [D -> Int]]
      BY ServedType DEF D
    <2>2. QED
      BY <1>9, <1>10, <2>1, SameTable
  <1>12. Served(F)[x.payload][x.attempts] > 0
    BY <1>3 DEF H, p, n
  <1>13. QED
    BY <1>11, <1>12 DEF p, n, H, v, A, u, B

\* The dead letters, as the promise counts them.
Dead == [p \in Payloads |-> Copies(q.dlq, p)]

LEMMA BuriedOne ==
    ASSUME TypeInv, NEW x \in Servable, MovesToDLQ(x, MaxAttempts),
           q' = PushRetried(q, x, MaxAttempts)
    PROVE  Dead' = [Dead EXCEPT ![x.payload] = @ + 1]
  <1> DEFINE retried == [x EXCEPT !.attempts = @ + 1]
  <1>1. /\ q \in [main : Seq(Messages), processing : Seq(Messages), dlq : Seq(Messages)]
        /\ q.dlq \in Seq(Messages)
    BY DEF TypeInv, TypeOK, QueueOf
  <1>2. retried \in Messages /\ retried.payload = x.payload /\ x.payload \in Payloads
    BY PushRetriedType, ServableIsMessage DEF TypeInv, Exhausted
  <1>3. q'.dlq = Append(q.dlq, retried)
    BY <1>1 DEF PushRetried
  <1> HIDE DEF retried
  <1>4. ASSUME NEW p \in Payloads
        PROVE  Copies(q'.dlq, p) = Copies(q.dlq, p) + Bit(x.payload = p)
               /\ Copies(q.dlq, p) \in Nat
    BY <1>1, <1>2, <1>3, CopiesAppend, CopiesAreNatural
  <1>5. ASSUME NEW p \in Payloads
        PROVE  Copies(q'.dlq, p) = [Dead EXCEPT ![x.payload] = @ + 1][p]
    BY <1>2, <1>4 DEF Dead, Bit
  <1>6. QED
    BY <1>5 DEF Dead

LEMMA LettersOf ==
    ASSUME TypeInv
    PROVE  /\ \A m : /\ PushMain(q, m).dlq = q.dlq
                     /\ Reserve(q).dlq = q.dlq
                     /\ RemoveReserved(q, m).dlq = q.dlq
                     /\ RecoverLast(q).dlq = q.dlq
           /\ \A m \in Servable :
                ~MovesToDLQ(m, MaxAttempts) => PushRetried(q, m, MaxAttempts).dlq = q.dlq
           /\ q'.dlq = q.dlq => Dead' = Dead
  <1>1. q \in [main : Seq(Messages), processing : Seq(Messages), dlq : Seq(Messages)]
    BY DEF TypeInv, TypeOK, QueueOf
  <1>2. \A m : /\ PushMain(q, m).dlq = q.dlq
               /\ Reserve(q).dlq = q.dlq
               /\ RemoveReserved(q, m).dlq = q.dlq
               /\ RecoverLast(q).dlq = q.dlq
    BY <1>1 DEF PushMain, Reserve, RemoveReserved, RecoverLast
  <1>3. \A m \in Servable :
            ~MovesToDLQ(m, MaxAttempts) => PushRetried(q, m, MaxAttempts).dlq = q.dlq
    BY <1>1 DEF PushRetried, PushMain
  <1>4. q'.dlq = q.dlq => Dead' = Dead
    BY DEF Dead
  <1>5. QED
    BY <1>2, <1>3, <1>4

\* Open copies are natural numbers before and after a step.
LEMMA OpenCopiesCount ==
    ASSUME TypeInv, TypeInv'
    PROVE  OpenCopies \in Counts /\ OpenCopies' \in Counts
  <1>1. q \in QueueOf(Messages) /\ q' \in QueueOf(Messages)
    BY DEF TypeInv, TypeOK
  <1>2. ASSUME NEW m \in Messages PROVE Open(m) \in Nat
    BY <1>1, OpenIsCounted
  <1>3. ASSUME NEW m \in Messages PROVE Open(m)' \in Nat
    <2>2. /\ q'.main \in Seq(Messages) /\ q'.processing \in Seq(Messages)
      BY <1>1 DEF QueueOf
    <2>3. DOMAIN q'.main = 1..Len(q'.main) /\ DOMAIN q'.processing = 1..Len(q'.processing)
      BY <2>2, LenProperties
    <2>4. /\ {i \in DOMAIN q'.main : q'.main[i] = m} = Places(q'.main, {m})
          /\ {i \in DOMAIN q'.processing : q'.processing[i] = m} = Places(q'.processing, {m})
      BY <2>3 DEF Places
    <2>5. Count(q'.main, {m}) \in Nat /\ Count(q'.processing, {m}) \in Nat
      BY <2>2, PlacesFinite
    <2>6. Cardinality(Hand(m))' \in Nat
      <3>1. Hand(m)' \subseteq Workers
        BY DEF Hand
      <3>2. IsFiniteSet(Hand(m)')
        BY <3>1, FS_Subset, QueueAssumption
      <3>3. QED
        BY <3>2, FS_CardinalityType
    <2>7. Open(m)' = Count(q'.main, {m}) + Count(q'.processing, {m}) + Cardinality(Hand(m))'
      BY <2>4 DEF Open, Count, Hand
    <2>8. QED
      BY <2>5, <2>6, <2>7
  <1>4. QED
    BY <1>2, <1>3 DEF OpenCopies, Counts

\* The effect of a worker's step, read off for all messages at once.
LEMMA TakenFrom ==
    ASSUME TypeInv, TypeInv', NEW x \in Servable,
           \A m \in Messages : Changed(m, {x}, {})
    PROVE  /\ Served(OpenCopies)[x.payload][x.attempts] > 0
           /\ Served(OpenCopies') = [Served(OpenCopies) EXCEPT ![x.payload][x.attempts] = @ - 1]
  <1>1. OpenCopies \in Counts /\ OpenCopies' \in Counts
    BY OpenCopiesCount
  <1>2. ASSUME NEW m \in Messages
        PROVE  OpenCopies'[m] = OpenCopies[m] - Bit(m = x)
    <2>1. Open(m)' = Open(m) - Bit(m \in {x}) + Bit(m \in {})
      BY DEF Changed
    <2>2. OpenCopies[m] = Open(m) /\ OpenCopies'[m] = Open(m)'
      BY OpenCopiesAt
    <2>3. OpenCopies[m] \in Nat
      BY <1>1 DEF Counts
    <2>4. QED
      BY <2>1, <2>2, <2>3 DEF Bit
  <1>3. QED
    BY <1>1, <1>2, OneLess

LEMMA MovedOn ==
    ASSUME TypeInv, TypeInv', NEW x \in Servable, x.attempts + 1 \in 0..(MaxAttempts - 1),
           \A m \in Messages : Changed(m, {x}, {Retried(x)})
    PROVE  /\ Served(OpenCopies)[x.payload][x.attempts] > 0
           /\ Served(OpenCopies') = [Served(OpenCopies) EXCEPT
                                        ![x.payload][x.attempts] = @ - 1,
                                        ![x.payload][x.attempts + 1] = @ + 1]
  <1>1. OpenCopies \in Counts /\ OpenCopies' \in Counts
    BY OpenCopiesCount
  <1>2. Retried(x) = Message(x.payload, x.attempts + 1)
    BY QueueAssumption DEF Retried, Message, Messages, Servable
  <1>3. ASSUME NEW m \in Messages
        PROVE  OpenCopies'[m] = OpenCopies[m] - Bit(m = x)
                                + Bit(m = Message(x.payload, x.attempts + 1))
    <2>1. Open(m)' = Open(m) - Bit(m \in {x}) + Bit(m \in {Message(x.payload, x.attempts + 1)})
      BY <1>2 DEF Changed
    <2>2. OpenCopies[m] = Open(m) /\ OpenCopies'[m] = Open(m)'
      BY OpenCopiesAt
    <2>3. OpenCopies[m] \in Nat
      BY <1>1 DEF Counts
    <2>4. QED
      BY <2>1, <2>2, <2>3 DEF Bit
  <1>4. QED
    BY <1>1, <1>3, OneRejected

LEMMA AddedTo ==
    ASSUME TypeInv, TypeInv', NEW x \in Servable, x.attempts + 1 \in 0..(MaxAttempts - 1),
           \A m \in Messages : Changed(m, {}, {Retried(x)})
    PROVE  Served(OpenCopies') = [Served(OpenCopies) EXCEPT
                                      ![x.payload][x.attempts + 1] = @ + 1]
  <1>1. OpenCopies \in Counts /\ OpenCopies' \in Counts
    BY OpenCopiesCount
  <1>2. Retried(x) = Message(x.payload, x.attempts + 1) /\ x.payload \in Payloads
    BY QueueAssumption DEF Retried, Message, Messages, Servable
  <1>3. ASSUME NEW m \in Messages
        PROVE  OpenCopies'[m] = OpenCopies[m] + Bit(m = Message(x.payload, x.attempts + 1))
    <2>1. Open(m)' = Open(m) - Bit(m \in {}) + Bit(m \in {Message(x.payload, x.attempts + 1)})
      BY <1>2 DEF Changed
    <2>2. OpenCopies[m] = Open(m) /\ OpenCopies'[m] = Open(m)'
      BY OpenCopiesAt
    <2>3. OpenCopies[m] \in Nat
      BY <1>1 DEF Counts
    <2>4. QED
      BY <2>1, <2>2, <2>3 DEF Bit
  <1>4. QED
    BY <1>1, <1>2, <1>3, OneMore

\* A message in the hands of a worker that retries is open.
LEMMA OpenInHand ==
    ASSUME TypeInv, NEW w \in Workers, pc[w] = "retry", held[w] \in Servable
    PROVE  Served(OpenCopies)[held[w].payload][held[w].attempts] > 0
  <1> DEFINE x == held[w]
  <1>1. /\ x.payload \in Payloads /\ x.attempts \in 0..(MaxAttempts - 1)
        /\ x = Message(x.payload, x.attempts) /\ x \in Messages
    BY ServableIsMessage
  <1>2. w \in Hand(x) /\ IsFiniteSet(Hand(x))
    BY HandIsFinite DEF Hand
  <1>3. Cardinality(Hand(x)) # 0
    BY <1>2, FS_EmptySet
  <1>4. q \in QueueOf(Messages)
    BY DEF TypeInv, TypeOK
  <1> HIDE DEF x
  <1>5. /\ Open(x) = Count(q.main, {x}) + Count(q.processing, {x}) + Cardinality(Hand(x))
        /\ Count(q.main, {x}) \in Nat /\ Count(q.processing, {x}) \in Nat
        /\ Cardinality(Hand(x)) \in Nat
    BY <1>4, OpenIsCounted
  <1>6. Open(x) > 0
    BY <1>3, <1>5
  <1>7. QED
    BY <1>1, <1>6 DEF Served, OpenCopies, x

LEMMA LeftAlone ==
    ASSUME TypeInv, TypeInv', \A m \in Messages : Changed(m, {}, {})
    PROVE  Served(OpenCopies') = Served(OpenCopies)
  <1>1. OpenCopies \in Counts /\ OpenCopies' \in Counts
    BY OpenCopiesCount
  <1>2. ASSUME NEW m \in Messages PROVE OpenCopies'[m] = OpenCopies[m]
    <2>1. Open(m)' = Open(m) - Bit(m \in {}) + Bit(m \in {})
      BY DEF Changed
    <2>2. OpenCopies[m] = Open(m) /\ OpenCopies'[m] = Open(m)'
      BY OpenCopiesAt
    <2>3. OpenCopies[m] \in Nat
      BY <1>1 DEF Counts
    <2>4. QED
      BY <2>1, <2>2, <2>3 DEF Bit
  <1>3. OpenCopies' = OpenCopies
    BY <1>1, <1>2 DEF Counts
  <1>4. QED
    BY <1>3

LEMMA EnqueueAdds ==
    ASSUME TypeInv, TypeInv', NEW p \in Payloads, Enqueue(p) \/ EnqueueReplyLost(p)
    PROVE  Served(OpenCopies') = [Served(OpenCopies) EXCEPT ![p][0] = @ + 1]
  <1>1. OpenCopies \in Counts /\ OpenCopies' \in Counts
    BY OpenCopiesCount
  <1>2. Message(p, 0) \in Messages /\ q' = PushMain(q, Message(p, 0))
        /\ pc' = pc /\ held' = held /\ q \in QueueOf(Messages) /\ q' \in QueueOf(Messages)
    BY ServableIsMessage, QueueAssumption
       DEF Enqueue, EnqueueReplyLost, Message, TypeInv, TypeOK
  <1>3. ASSUME NEW m \in Messages
        PROVE  OpenCopies'[m] = OpenCopies[m] + Bit(m = Message(p, 0))
    <2>1. /\ Count(q'.main, {m}) = Count(q.main, {m}) + Bit(Message(p, 0) = m)
          /\ q'.processing = q.processing
      BY <1>2, OperationsCountMessages
    <2>2. /\ q'.main \in Seq(Messages) /\ q'.processing \in Seq(Messages)
      BY <1>2 DEF QueueOf
    <2>3. DOMAIN q'.main = 1..Len(q'.main) /\ DOMAIN q'.processing = 1..Len(q'.processing)
      BY <2>2, LenProperties
    <2>4. /\ {i \in DOMAIN q'.main : q'.main[i] = m} = Places(q'.main, {m})
          /\ {i \in DOMAIN q'.processing : q'.processing[i] = m} = Places(q'.processing, {m})
      BY <2>3 DEF Places
    <2>5. Hand(m)' = Hand(m)
      BY <1>2 DEF Hand
    <2>6. Open(m)' = Count(q'.main, {m}) + Count(q'.processing, {m}) + Cardinality(Hand(m))
      BY <2>4, <2>5 DEF Open, Count, Hand
    <2>7. /\ Open(m) = Count(q.main, {m}) + Count(q.processing, {m}) + Cardinality(Hand(m))
          /\ Count(q.main, {m}) \in Nat /\ Count(q.processing, {m}) \in Nat
          /\ Cardinality(Hand(m)) \in Nat
      BY <1>2, OpenIsCounted
    <2>8. OpenCopies[m] = Open(m) /\ OpenCopies'[m] = Open(m)'
      BY OpenCopiesAt
    <2>9. QED
      BY <2>1, <2>6, <2>7, <2>8 DEF Bit
  <1>4. 0 \in 0..(MaxAttempts - 1)
    BY QueueAssumption
  <1>5. QED
    BY <1>1, <1>3, <1>4, OneMore

-----------------------------------------------------------------------------
\* The same, as steps of the promise.
LEMMA SettleStep ==
    ASSUME TypeInv, TypeInv', NEW x \in Servable, \A m \in Messages : Changed(m, {x}, {})
    PROVE  Promise!Settle(x.payload, x.attempts)
  BY TakenFrom, PromiseOpen DEF Promise!Settle

LEMMA CompleteStep ==
    ASSUME TypeInv, TypeInv', NEW x \in Servable, \A m \in Messages : Changed(m, {x}, {}),
           acked' = [acked EXCEPT ![x.payload] = @ + 1], lost' = lost,
           unanswered' = unanswered, q'.dlq = q.dlq
    PROVE  Promise!Next
  <1>1. x.payload \in Payloads /\ x.attempts \in 0..(MaxAttempts - 1)
    BY ServableIsMessage
  <1>2. Dead' = Dead
    BY LettersOf
  <1>3. Promise!Complete(x.payload, x.attempts)
    BY <1>2, SettleStep DEF Promise!Complete, Promise!OneMore, Dead
  <1>4. QED
    BY <1>1, <1>3 DEF Promise!Next, Promise!Rejections

LEMMA LoseStep ==
    ASSUME TypeInv, TypeInv', NEW x \in Servable, \A m \in Messages : Changed(m, {x}, {}),
           lost' = [lost EXCEPT ![x.payload] = @ + 1], acked' = acked,
           unanswered' = unanswered, q'.dlq = q.dlq
    PROVE  Promise!Next
  <1>1. x.payload \in Payloads /\ x.attempts \in 0..(MaxAttempts - 1)
    BY ServableIsMessage
  <1>2. Dead' = Dead
    BY LettersOf
  <1>3. Promise!Lose(x.payload, x.attempts)
    BY <1>2, SettleStep DEF Promise!Lose, Promise!OneMore, Dead
  <1>4. QED
    BY <1>1, <1>3 DEF Promise!Next, Promise!Rejections

LEMMA StutterStep ==
    ASSUME TypeInv, TypeInv', \A m \in Messages : Changed(m, {}, {}),
           lost' = lost, acked' = acked, unanswered' = unanswered, q'.dlq = q.dlq
    PROVE  UNCHANGED Promise!vars
  <1>1. Dead' = Dead
    BY LettersOf
  <1>2. QED
    BY <1>1, LeftAlone, PromiseOpen DEF Promise!vars, Dead

\* The second half of a retry buries the message or rejects it once more.
LEMMA RetryStep ==
    ASSUME TypeInv, TypeInv', NEW x \in Servable,
           q' = PushRetried(q, x, MaxAttempts), lost' = lost, acked' = acked,
           unanswered' = unanswered,
           \A m \in Messages :
               Changed(m, {x}, IF MovesToDLQ(x, MaxAttempts) THEN {}
                               ELSE {Retried(x)})
    PROVE  Promise!Next
  <1>1. /\ x.payload \in Payloads /\ x.attempts \in 0..(MaxAttempts - 1)
        /\ MaxAttempts \in Nat
    BY ServableIsMessage, QueueAssumption
  <1>2. CASE MovesToDLQ(x, MaxAttempts)
    <2>1. x.attempts = MaxAttempts - 1
      BY <1>1, <1>2 DEF MovesToDLQ
    <2>2. \A m \in Messages : Changed(m, {x}, {})
      BY <1>2
    <2>3. Dead' = [Dead EXCEPT ![x.payload] = @ + 1]
      BY <1>2, BuriedOne
    <2>4. Promise!Settle(x.payload, MaxAttempts - 1)
      BY <2>1, <2>2, SettleStep
    <2>5. Promise!Bury(x.payload)
      BY <2>3, <2>4 DEF Promise!Bury, Promise!OneMore, Dead
    <2>6. QED
      BY <1>1, <2>5 DEF Promise!Next
  <1>3. CASE ~MovesToDLQ(x, MaxAttempts)
    <2>1. x.attempts + 1 \in 0..(MaxAttempts - 1)
      BY <1>1, <1>3 DEF MovesToDLQ
    <2>2. \A m \in Messages : Changed(m, {x}, {Retried(x)})
      BY <1>3
    <2>3. Dead' = Dead
      BY <1>3, LettersOf
    <2>4. Promise!Reject(x.payload, x.attempts)
      BY <2>1, <2>2, <2>3, MovedOn, PromiseOpen DEF Promise!Reject, Promise!Rejections, Dead
    <2>5. QED
      BY <1>1, <2>4 DEF Promise!Next, Promise!Rejections
  <1>4. QED
    BY <1>2, <1>3

\* The same RPUSH with its reply lost: the message is still in hand.
LEMMA RetryTwiceStep ==
    ASSUME TypeInv, TypeInv', NEW w \in Workers, RetryPushAgain(w), held[w] \in Servable,
           \A m \in Messages :
               Changed(m, {}, IF MovesToDLQ(held[w], MaxAttempts) THEN {}
                              ELSE {Retried(held[w])})
    PROVE  Promise!Next
  <1> DEFINE x == held[w]
  <1>1. /\ x.payload \in Payloads /\ x.attempts \in 0..(MaxAttempts - 1)
        /\ MaxAttempts \in Nat
    BY ServableIsMessage, QueueAssumption
  <1>2. /\ q' = PushRetried(q, x, MaxAttempts) /\ UNCHANGED <<acked, lost>>
        /\ unanswered' = [unanswered EXCEPT ![x.payload] = @ + 1]
        /\ Served(OpenCopies)[x.payload][x.attempts] > 0
    BY OpenInHand DEF RetryPushAgain
  <1>3. \A m \in Messages : Changed(m, {}, IF MovesToDLQ(x, MaxAttempts) THEN {} ELSE {Retried(x)})
    OBVIOUS
  <1>4. x \in Servable
    OBVIOUS
  <1> HIDE DEF x
  <1>5. CASE MovesToDLQ(x, MaxAttempts)
    <2>1. x.attempts = MaxAttempts - 1
      BY <1>1, <1>5 DEF MovesToDLQ
    <2>2. \A m \in Messages : Changed(m, {}, {})
      BY <1>3, <1>5
    <2>3. Dead' = [Dead EXCEPT ![x.payload] = @ + 1]
      BY <1>2, <1>4, <1>5, BuriedOne
    <2>4. Served(OpenCopies') = Served(OpenCopies)
      BY <2>2, LeftAlone
    <2>5. Promise!BuryTwice(x.payload)
      BY <1>2, <2>1, <2>3, <2>4, PromiseOpen DEF Promise!BuryTwice, Promise!OneMore, Dead
    <2>6. QED
      BY <1>1, <2>5 DEF Promise!Next
  <1>6. CASE ~MovesToDLQ(x, MaxAttempts)
    <2>1. x.attempts + 1 \in 0..(MaxAttempts - 1)
      BY <1>1, <1>6 DEF MovesToDLQ
    <2>2. \A m \in Messages : Changed(m, {}, {Retried(x)})
      BY <1>3, <1>6
    <2>3. Dead' = Dead
      BY <1>2, <1>4, <1>6, LettersOf
    <2>4. Promise!RejectTwice(x.payload, x.attempts)
      BY <1>2, <1>4, <2>1, <2>2, <2>3, AddedTo, PromiseOpen
         DEF Promise!RejectTwice, Promise!Rejections, Promise!OneMore, Dead
    <2>5. QED
      BY <1>1, <2>4 DEF Promise!Next, Promise!Rejections
  <1>7. QED
    BY <1>5, <1>6

LEMMA PromiseStep == TypeInv /\ TypeInv' /\ [Next]_vars => [Promise!Next]_(Promise!vars)
  <1> SUFFICES ASSUME TypeInv, TypeInv', [Next]_vars PROVE [Promise!Next]_(Promise!vars)
    OBVIOUS
  <1>1. \A w \in Workers : pc[w] \in {"busy", "acking", "removing", "retry"} =>
            held[w] \in Servable
    BY DEF TypeInv, TypeOK, HeldTyped
  <1>2. \A x : /\ Reserve(q).dlq = q.dlq /\ RecoverLast(q).dlq = q.dlq
               /\ PushMain(q, x).dlq = q.dlq /\ RemoveReserved(q, x).dlq = q.dlq
    BY LettersOf
  <1>3. ASSUME NEW p \in Payloads, Enqueue(p) PROVE Promise!Next
    <2>1. Dead' = Dead
      BY <1>2, <1>3, LettersOf DEF Enqueue
    <2>2. Promise!Submit(p)
      BY <1>3, <2>1, EnqueueAdds, PromiseOpen DEF Promise!Submit, Enqueue, Dead
    <2>3. QED
      BY <2>2 DEF Promise!Next
  <1>12. ASSUME NEW p \in Payloads, EnqueueReplyLost(p) PROVE Promise!Next
    <2>1. Dead' = Dead
      BY <1>2, <1>12, LettersOf DEF EnqueueReplyLost
    <2>2. Promise!SubmitTwice(p)
      BY <1>12, <2>1, EnqueueAdds, PromiseOpen
         DEF Promise!SubmitTwice, Promise!OneMore, EnqueueReplyLost, Dead
    <2>3. QED
      BY <2>2 DEF Promise!Next
  <1>4. ASSUME NEW w \in Workers,
               \/ Recover(w) \/ Dequeue(w) \/ RetryRemove(w) \/ Restart(w)
               \/ ReplyLost(w) /\ (RecoverAgain(w) \/ DequeueAgain(w))
        PROVE  UNCHANGED Promise!vars
    <2>1. ASSUME NEW m \in Messages PROVE Changed(m, {}, {})
      BY <1>4, WorkerChanges
    <2>2. UNCHANGED <<lost, acked, unanswered>> /\ q'.dlq = q.dlq
      BY <1>2, <1>4 DEF Recover, Dequeue, RetryRemove, Restart, RecoverAgain, DequeueAgain
    <2>3. QED
      BY <2>1, <2>2, StutterStep
  <1>5. ASSUME NEW w \in Workers, Ack(w) PROVE Promise!Next \/ UNCHANGED Promise!vars
    <2>1. held[w] \in Servable
      BY <1>1, <1>5 DEF Ack
    <2>2. CASE Holds(q, held[w])
      <3>1. ASSUME NEW m \in Messages PROVE Changed(m, {held[w]}, {})
        BY <1>5, <2>2, WorkerChanges
      <3>2. /\ \/ acked' = [acked EXCEPT ![held[w].payload] = @ + 1] /\ lost' = lost
               \/ lost' = [lost EXCEPT ![held[w].payload] = @ + 1] /\ acked' = acked
            /\ unanswered' = unanswered /\ q'.dlq = q.dlq
        BY <1>2, <1>5, <2>2 DEF Ack, Acknowledge
      <3>3. QED
        BY <2>1, <3>1, <3>2, CompleteStep, LoseStep
    <2>3. CASE ~Holds(q, held[w])
      <3>1. ASSUME NEW m \in Messages PROVE Changed(m, {}, {})
        BY <1>5, <2>3, WorkerChanges
      <3>2. UNCHANGED <<acked, lost, unanswered>> /\ q'.dlq = q.dlq
        BY <1>5, <2>3 DEF Ack
      <3>3. QED
        BY <3>1, <3>2, StutterStep
    <2>4. QED
      BY <2>2, <2>3
  <1>6. ASSUME NEW w \in Workers, RetryPush(w) PROVE Promise!Next
    <2>1. /\ held[w] \in Servable /\ q' = PushRetried(q, held[w], MaxAttempts)
          /\ UNCHANGED <<acked, lost, unanswered>>
      BY <1>1, <1>6 DEF RetryPush
    <2>2. ASSUME NEW m \in Messages
          PROVE  Changed(m, {held[w]}, IF MovesToDLQ(held[w], MaxAttempts) THEN {}
                                       ELSE {Retried(held[w])})
      BY <1>6, WorkerChanges
    <2>3. QED
      BY <2>1, <2>2, RetryStep
  <1>7. ASSUME NEW w \in Workers, RedisError(w) \/ Crash(w)
        PROVE  Promise!Next \/ UNCHANGED Promise!vars
    <2>1. UNCHANGED <<acked, unanswered>> /\ q'.dlq = q.dlq
      BY <1>7 DEF RedisError, Crash
    <2>2. CASE pc[w] = "retry"
      <3>1. ASSUME NEW m \in Messages PROVE Changed(m, {held[w]}, {})
        BY <1>7, <2>2, WorkerChanges
      <3>2. held[w] \in Servable /\ lost' = [lost EXCEPT ![held[w].payload] = @ + 1]
        BY <1>1, <1>7, <2>2 DEF RedisError, Crash
      <3>3. QED
        BY <2>1, <3>1, <3>2, LoseStep
    <2>3. CASE pc[w] # "retry"
      <3>1. ASSUME NEW m \in Messages PROVE Changed(m, {}, {})
        BY <1>7, <2>3, WorkerChanges
      <3>2. lost' = lost
        BY <1>7, <2>3 DEF RedisError, Crash
      <3>3. QED
        BY <2>1, <3>1, <3>2, StutterStep
    <2>4. QED
      BY <2>2, <2>3
  <1>8. ASSUME NEW w \in Workers, ReplyLost(w), AckAgain(w) \/ RetryRemoveAgain(w)
        PROVE  Promise!Next
    <2>1. ASSUME NEW m \in Messages PROVE Changed(m, {held[w]}, {})
      BY <1>8, WorkerChanges
    <2>2. /\ held[w] \in Servable /\ q'.dlq = q.dlq
          /\ unanswered' = unanswered
      BY <1>1, <1>2, <1>8 DEF AckAgain, RetryRemoveAgain
    <2>3. \/ acked' = [acked EXCEPT ![held[w].payload] = @ + 1] /\ lost' = lost
          \/ lost' = [lost EXCEPT ![held[w].payload] = @ + 1] /\ acked' = acked
      BY <1>8 DEF AckAgain, RetryRemoveAgain, Acknowledge
    <2>4. QED
      BY <2>1, <2>2, <2>3, CompleteStep, LoseStep
  <1>10. ASSUME NEW w \in Workers, ReplyLost(w), RetryPushAgain(w) PROVE Promise!Next
    <2>1. held[w] \in Servable
      BY <1>1, <1>10 DEF RetryPushAgain
    <2>2. ASSUME NEW m \in Messages
          PROVE  Changed(m, {}, IF MovesToDLQ(held[w], MaxAttempts) THEN {}
                                ELSE {Retried(held[w])})
      BY <1>10, WorkerChanges
    <2>3. QED
      BY <1>10, <2>1, <2>2, RetryTwiceStep
  <1>9. ASSUME UNCHANGED vars PROVE UNCHANGED Promise!vars
    BY <1>9 DEF vars, Promise!vars, Open
  <1>11. ASSUME NEW w \in Workers, ReplyLost(w)
         PROVE  \/ RecoverAgain(w) \/ DequeueAgain(w)
                \/ AckAgain(w) \/ RetryRemoveAgain(w)
                \/ RetryPushAgain(w)
    BY <1>11 DEF ReplyLost
  <1>13. QED
    BY <1>3, <1>4, <1>5, <1>6, <1>7, <1>8, <1>9, <1>10, <1>11, <1>12 DEF Next, WorkerStep

LEMMA PromiseInit == Init => Promise!Init
  <1> SUFFICES ASSUME Init PROVE Promise!Init
    OBVIOUS
  <1>1. q.main = <<>> /\ q.processing = <<>> /\ q.dlq = <<>>
    BY DEF Init, EmptyQueue
  <1>2. \A m : Open(m) = 0
    <2>1. ASSUME NEW m
          PROVE  /\ {i \in DOMAIN q.main : q.main[i] = m} = {}
                 /\ {i \in DOMAIN q.processing : q.processing[i] = m} = {}
                 /\ {w \in Workers : pc[w] = "retry" /\ held[w] = m} = {}
      BY <1>1 DEF Init
    <2>2. QED
      BY <2>1, FS_EmptySet DEF Open
  <1>3. \A p \in Payloads : Copies(q.dlq, p) = 0
    <2>1. ASSUME NEW p \in Payloads PROVE Positions(q.dlq, p) = {}
      BY <1>1 DEF Positions
    <2>2. QED
      BY <2>1, FS_EmptySet DEF Copies
  <1>4. QED
    BY <1>2, <1>3 DEF Init, Promise!Init, Promise!Rejections, Promise!None

\* The lists and their consumers keep the at-least-once promise, whatever number of
\* workers recover, acknowledge and retry, and whatever commands fail or lose their
\* replies and are sent again: a settled copy is never served again and the attempts
\* of one only go up, although equal messages share their receipt; and a copy is
\* doubled only by an RPUSH that is sent again.
THEOREM QueueKeepsPromise == Spec => ImplementsPromise
  <1>1. QED
    BY PromiseInit, PromiseStep, TypeInvInit, TypeInvStep, PTL
       DEF Spec, ImplementsPromise, Promise!Spec

-----------------------------------------------------------------------------
(* Reservations.  Each is in the hands of a worker, or a worker is about to recover. *)

InHands(m) == {w \in Workers : pc[w] = "busy" /\ held[w] = m}

Handling(w, m) == pc[w] = "busy" /\ held[w] = m

Reserved(m) == Count(q.processing, {m})

\* A worker that is down, or still empties the processing list, recovers all of it.
Recovering == \E w \in Workers : pc[w] \in {"down", "recover"}

ReservedIsHeld ==
    Recovering \/ \A m \in Messages : Reserved(m) <= Cardinality(InHands(m))

\* The errors that leave a reservation behind: a failed Recover or LREM, and a lost
\* reply to BRPOPLPUSH.
LeavesReserved ==
    \E w \in Workers : \/ RedisError(w) /\ pc[w] \in {"recover", "busy"}
                       \/ ReplyLost(w) /\ DequeueAgain(w)

LEMMA HandsAreNatural ==
    ASSUME NEW m
    PROVE  /\ IsFiniteSet(InHands(m)) /\ Cardinality(InHands(m)) \in Nat
           /\ IsFiniteSet(InHands(m)') /\ Cardinality(InHands(m)') \in Nat
  <1>1. InHands(m) \subseteq Workers /\ InHands(m)' \subseteq Workers
    BY DEF InHands
  <1>2. IsFiniteSet(InHands(m)) /\ IsFiniteSet(InHands(m)')
    BY <1>1, FS_Subset, QueueAssumption
  <1>3. QED
    BY <1>2, FS_CardinalityType

LEMMA InHandsChange ==
    ASSUME NEW w \in Workers, NEW m,
           \A v \in Workers \ {w} : pc'[v] = pc[v] /\ held'[v] = held[v]
    PROVE  /\ Cardinality(InHands(m)) \in Nat
           /\ Cardinality(InHands(m)') = Cardinality(InHands(m)) - Bit(Handling(w, m))
                                          + Bit(Handling(w, m)')
  <1>2. IsFiniteSet(InHands(m)) /\ IsFiniteSet(InHands(m)')
    BY HandsAreNatural
  <1>3. InHands(m)' \ {w} = InHands(m) \ {w}
    BY DEF InHands
  <1>4. (w \in InHands(m) <=> Handling(w, m)) /\ (w \in InHands(m)' <=> Handling(w, m)')
    BY DEF InHands, Handling
  <1>5. /\ Cardinality(InHands(m)) = Cardinality(InHands(m) \ {w}) + Bit(w \in InHands(m))
        /\ Cardinality(InHands(m)') = Cardinality(InHands(m) \ {w}) + Bit(w \in InHands(m)')
        /\ Cardinality(InHands(m) \ {w}) \in Nat
    BY <1>2, <1>3, CountWithout
  <1>6. Cardinality(InHands(m)) \in Nat
    BY HandsAreNatural
  <1>7. QED
    BY <1>4, <1>5, <1>6 DEF Bit

\* What the commands do to the reservations of one message.
LEMMA ReservationCounts ==
    ASSUME QueueTyped, NEW m
    PROVE  /\ Reserved(m) \in Nat
           /\ q.processing = <<>> => Reserved(m) = 0
           /\ ~Holds(q, m) => Reserved(m) = 0
           /\ q.main # <<>> =>
                Count(Reserve(q).processing, {m}) = Reserved(m) + Bit(ReservedMessage(q) = m)
           /\ \A x : Holds(q, x) =>
                Count(RemoveReserved(q, x).processing, {m}) = Reserved(m) - Bit(x = m)
           /\ \A x : PushMain(q, x).processing = q.processing
           /\ \A x : PushRetried(q, x, MaxAttempts).processing = q.processing
  <1>1. q.main \in Seq(Servable) /\ q.processing \in Seq(Servable)
    BY DEF QueueTyped, TypedLists
  <1>2. Reserved(m) \in Nat
    BY <1>1, PlacesFinite DEF Reserved
  <1>3. ASSUME ~Holds(q, m) PROVE Reserved(m) = 0
    <2>1. Places(q.processing, {m}) = {}
      BY <1>3 DEF Places, Holds, Contains
    <2>2. QED
      BY <2>1, FS_EmptySet DEF Reserved, Count
  <1>4. ASSUME q.processing = <<>> PROVE Reserved(m) = 0
    BY <1>3, <1>4 DEF Holds, Contains
  <1>5. \A x : Bit(x \in {m}) = Bit(x = m)
    BY DEF Bit
  <1>6. ASSUME q.main # <<>>
        PROVE  Count(Reserve(q).processing, {m}) = Reserved(m) + Bit(ReservedMessage(q) = m)
    <2> DEFINE x == ReservedMessage(q)
    <2>1. Reserve(q).processing = Cons(x, q.processing) /\ x \in Servable
      BY <1>1, <1>6, FrontProperties DEF Reserve, ReservedMessage, QueueTyped, TypedLists
    <2>2. Count(Cons(x, q.processing), {m}) = Count(q.processing, {m}) + Bit(x \in {m})
      BY <1>1, <2>1, CountCons
    <2>3. QED
      BY <1>5, <2>1, <2>2 DEF Reserved
  <1>7. ASSUME NEW x, Holds(q, x)
        PROVE  Count(RemoveReserved(q, x).processing, {m}) = Reserved(m) - Bit(x = m)
    <2>1. RemoveReserved(q, x).processing = RemoveFirst(q.processing, x)
      BY DEF RemoveReserved, QueueTyped, TypedLists
    <2>2. Count(RemoveFirst(q.processing, x), {m}) = Count(q.processing, {m}) - Bit(x \in {m})
      BY <1>1, <1>7, CountRemoveFirst DEF Holds
    <2>3. QED
      BY <1>5, <2>1, <2>2 DEF Reserved
  <1>8. /\ \A x : PushMain(q, x).processing = q.processing
        /\ \A x : PushRetried(q, x, MaxAttempts).processing = q.processing
    BY OneReservation DEF QueueTyped, TypedLists
  <1>9. QED
    BY <1>2, <1>3, <1>4, <1>6, <1>7, <1>8

LEMMA ReservedIsHeldStep ==
    ASSUME TypeInv, ReservedIsHeld, [Next]_vars, ~LeavesReserved
    PROVE  ReservedIsHeld'
  <1> SUFFICES ASSUME ~Recovering', NEW m \in Messages
               PROVE  Reserved(m)' <= Cardinality(InHands(m)')
    BY DEF ReservedIsHeld
  <1>0. /\ QueueTyped /\ Reserved(m) \in Nat
        /\ pc \in [Workers -> {"recover", "idle", "busy", "acking", "removing", "retry", "down"}]
        /\ held \in [Workers -> Messages \cup {NoMsg}]
    BY ReservationCounts DEF TypeInv, TypeOK
  <1>1. \A w \in Workers : pc'[w] \notin {"down", "recover"}
    BY DEF Recovering
  <1>2. ASSUME UNCHANGED <<pc, held>>, q'.processing = q.processing
        PROVE  Reserved(m)' <= Cardinality(InHands(m)')
    BY <1>0, <1>1, <1>2 DEF ReservedIsHeld, Recovering, Reserved, InHands
  <1>3. ASSUME NEW p \in Payloads, Enqueue(p) \/ EnqueueReplyLost(p)
        PROVE  Reserved(m)' <= Cardinality(InHands(m)')
    <2>1. /\ UNCHANGED <<pc, held>>
          /\ q' = PushMain(q, [payload |-> p, attempts |-> 0])
      BY <1>3 DEF Enqueue, EnqueueReplyLost
    <2>2. q'.processing = q.processing
      BY <1>0, <2>1, ReservationCounts
    <2>3. QED
      BY <1>2, <2>1, <2>2
  <1>4. CASE UNCHANGED vars
    BY <1>2, <1>4 DEF vars
  \* One worker moves, and what becomes of the reservations and of its hands balances.
  <1>5. ASSUME NEW w \in Workers,
               \A v \in Workers \ {w} : pc'[v] = pc[v] /\ held'[v] = held[v],
               pc[w] \notin {"down", "recover"},
               Reserved(m) <= Cardinality(InHands(m)) =>
                   Reserved(m)' <= Cardinality(InHands(m)) - Bit(Handling(w, m))
                                   + Bit(Handling(w, m)')
        PROVE  Reserved(m)' <= Cardinality(InHands(m)')
    <2>1. ~Recovering
      BY <1>1, <1>5 DEF Recovering
    <2>2. Reserved(m) <= Cardinality(InHands(m))
      BY <2>1 DEF ReservedIsHeld
    <2>3. QED
      BY <1>5, <2>2, InHandsChange
  <1>6. ASSUME NEW w \in Workers, WorkerStep(w) \/ RedisError(w) \/ ReplyLost(w)
        PROVE  /\ \A v \in Workers \ {w} : pc'[v] = pc[v] /\ held'[v] = held[v]
               /\ Cardinality(InHands(m)) \in Nat
    <2>1. \A v \in Workers \ {w} : pc'[v] = pc[v] /\ held'[v] = held[v]
      BY <1>0, <1>6 DEF WorkerStep, Recover, Dequeue, Ack, RetryRemove, RetryPush, RedisError,
         ReplyLost, RecoverAgain, DequeueAgain, AckAgain, RetryRemoveAgain, RetryPushAgain,
         BackToLoop, Goto
    <2>2. QED
      BY <2>1, InHandsChange
  <1>7. ASSUME NEW w \in Workers, Recover(w) PROVE Reserved(m)' <= Cardinality(InHands(m)')
    <2>1. pc[w] = "recover" /\ held' = held
      BY <1>7 DEF Recover
    <2>2. q.processing = <<>> /\ q' = q
      BY <1>1, <1>7, <2>1 DEF Recover
    <2>3. Reserved(m)' = 0
      BY <1>0, <2>2, ReservationCounts DEF Reserved
    <2>4. Cardinality(InHands(m)') \in Nat
      BY HandsAreNatural
    <2>5. QED
      BY <2>3, <2>4
  <1>8. ASSUME NEW w \in Workers, Dequeue(w) PROVE Reserved(m)' <= Cardinality(InHands(m)')
    <2>1. /\ pc[w] = "idle" /\ pc'[w] = "busy" /\ held'[w] = ReservedMessage(q)
          /\ q.main # <<>> /\ q' = Reserve(q)
      BY <1>0, <1>8 DEF Dequeue, Goto
    <2>2. (Handling(w, m)' <=> ReservedMessage(q) = m) /\ ~Handling(w, m)
      BY <2>1 DEF Handling
    <2>3. Count(Reserve(q).processing, {m}) = Reserved(m) + Bit(ReservedMessage(q) = m)
      BY <1>0, <2>1, ReservationCounts
    <2>4. Reserved(m)' = Reserved(m) + Bit(Handling(w, m)')
      BY <2>1, <2>2, <2>3 DEF Reserved, Bit
    <2>5. QED
      BY <1>0, <1>5, <1>6, <1>8, <2>1, <2>2, <2>4 DEF WorkerStep, Bit
  \* One LREM takes the reservation of one busy worker at most.
  <1>9. ASSUME NEW w \in Workers, pc[w] \in {"busy", "acking", "removing"}, Holds(q, held[w]),
               q' = RemoveReserved(q, held[w]), pc'[w] # "busy",
               WorkerStep(w) \/ ReplyLost(w)
        PROVE  Reserved(m)' <= Cardinality(InHands(m)')
    <2>1. (Handling(w, m) => held[w] = m) /\ ~Handling(w, m)'
      BY <1>9 DEF Handling
    <2>2. Count(RemoveReserved(q, held[w]).processing, {m}) = Reserved(m) - Bit(held[w] = m)
      BY <1>0, <1>9, ReservationCounts
    <2>3. Reserved(m)' <= Reserved(m) - Bit(Handling(w, m)) /\ Reserved(m)' \in Int
      BY <1>0, <1>9, <2>1, <2>2 DEF Reserved, Bit
    <2>4. QED
      BY <1>0, <1>5, <1>6, <1>9, <2>1, <2>3 DEF Bit
  <1>10. ASSUME NEW w \in Workers, pc[w] \in {"busy", "acking", "removing"},
                ~Holds(q, held[w]), q' = q,
                pc'[w] = "idle", WorkerStep(w)
         PROVE  Reserved(m)' <= Cardinality(InHands(m)')
    <2>1. Reserved(m)' = Reserved(m) /\ (Handling(w, m) => Reserved(m) = 0)
      BY <1>0, <1>10, ReservationCounts DEF Reserved, Handling
    <2>2. ~Handling(w, m)'
      BY <1>10 DEF Handling
    <2>3. CASE Handling(w, m)
      <3>1. Cardinality(InHands(m)') \in Nat
        BY HandsAreNatural
      <3>2. QED
        BY <2>1, <2>3, <3>1
    <2>4. CASE ~Handling(w, m)
      BY <1>0, <1>5, <1>6, <1>10, <2>1, <2>2, <2>4 DEF Bit
    <2>5. QED
      BY <2>3, <2>4
  <1>11. ASSUME NEW w \in Workers, pc[w] \in {"acking", "removing", "retry"},
                pc'[w] \in {"idle", "retry"},
                q'.processing = q.processing, WorkerStep(w) \/ RedisError(w) \/ ReplyLost(w)
         PROVE  Reserved(m)' <= Cardinality(InHands(m)')
    <2>1. Reserved(m)' = Reserved(m) /\ ~Handling(w, m) /\ ~Handling(w, m)'
      BY <1>11 DEF Reserved, Handling
    <2>2. QED
      BY <1>0, <1>5, <1>6, <1>11, <2>1 DEF Bit
  <1>12. ASSUME NEW w \in Workers, Ack(w) \/ RetryRemove(w)
         PROVE  Reserved(m)' <= Cardinality(InHands(m)')
    <2>1. /\ pc[w] \in {"busy", "acking", "removing"} /\ pc'[w] # "busy"
          /\ WorkerStep(w)
      BY <1>0, <1>12 DEF Ack, RetryRemove, BackToLoop, Goto, WorkerStep
    <2>2. CASE Holds(q, held[w])
      BY <1>9, <1>12, <2>1, <2>2 DEF Ack, RetryRemove
    <2>3. CASE ~Holds(q, held[w])
      <3>1. q' = q /\ pc'[w] = "idle"
        BY <1>0, <1>12, <2>3 DEF Ack, RetryRemove, BackToLoop, Goto
      <3>2. QED
        BY <1>10, <2>1, <2>3, <3>1
    <2>4. QED
      BY <2>2, <2>3
  <1>13. ASSUME NEW w \in Workers, RetryPush(w) PROVE Reserved(m)' <= Cardinality(InHands(m)')
    <2>1. /\ pc[w] = "retry" /\ pc'[w] = "idle" /\ WorkerStep(w)
          /\ q'.processing = q.processing
      BY <1>0, <1>13, ReservationCounts DEF RetryPush, BackToLoop, Goto, WorkerStep
    <2>2. QED
      BY <1>11, <2>1
  <1>14. ASSUME NEW w \in Workers, RedisError(w) PROVE Reserved(m)' <= Cardinality(InHands(m)')
    <2>1. pc[w] \in {"acking", "removing", "retry"} /\ pc'[w] = "idle" /\ q' = q
      BY <1>0, <1>14 DEF RedisError, BackToLoop, Goto, LeavesReserved
    <2>2. QED
      BY <1>11, <1>14, <2>1
  <1>15. ASSUME NEW w \in Workers, ReplyLost(w) PROVE Reserved(m)' <= Cardinality(InHands(m)')
    <2>1. CASE RecoverAgain(w)
      BY <1>1, <2>1 DEF RecoverAgain
    <2>2. CASE AckAgain(w) \/ RetryRemoveAgain(w)
      <3>1. /\ pc[w] \in {"busy", "acking", "removing"} /\ Holds(q, held[w])
            /\ q' = RemoveReserved(q, held[w]) /\ pc'[w] # "busy"
        BY <1>0, <2>2 DEF AckAgain, RetryRemoveAgain, Goto
      <3>2. QED
        BY <1>9, <1>15, <3>1
    <2>3. CASE RetryPushAgain(w)
      <3>1. /\ q' = PushRetried(q, held[w], MaxAttempts)
            /\ pc[w] = "retry" /\ pc'[w] = "retry"
        BY <2>3 DEF RetryPushAgain
      <3>2. q'.processing = q.processing
        BY <1>0, <3>1, ReservationCounts
      <3>3. QED
        BY <1>11, <1>15, <3>1, <3>2
    <2>4. QED
      BY <1>15, <2>1, <2>2, <2>3 DEF ReplyLost, LeavesReserved
  <1>16. ASSUME NEW w \in Workers, Crash(w) \/ Restart(w) PROVE FALSE
    <2>1. pc'[w] \in {"down", "recover"}
      BY <1>0, <1>16 DEF Crash, Restart, Goto
    <2>2. QED
      BY <1>1, <2>1
  <1>17. QED
    BY <1>3, <1>4, <1>7, <1>8, <1>12, <1>13, <1>14, <1>15, <1>16 DEF Next, WorkerStep

\* Without the errors that leave a reservation behind, whatever number of workers reserve,
\* recover, acknowledge, retry and crash: every reserved copy is in the hands of a busy
\* worker, message by message, or a worker is down or recovering and will return it to
\* the queue.  So the copies that Recover takes from a worker that is alive are never
\* left over when both have acknowledged (DequeueJob, Recover, AckJob, RetryJob).
THEOREM NoReservationIsLeftOver == Spec /\ [][~LeavesReserved]_vars => []ReservedIsHeld
  <1>1. Init => ReservedIsHeld
    <2> SUFFICES ASSUME Init PROVE ReservedIsHeld
      OBVIOUS
    <2>1. ASSUME NEW m \in Messages PROVE Reserved(m) <= Cardinality(InHands(m))
      <3>1. q.processing = <<>> /\ QueueTyped
        BY TypeInvInit DEF Init, EmptyQueue, TypeInv
      <3>2. Reserved(m) = 0 /\ InHands(m) = {}
        BY <3>1, ReservationCounts DEF Init, InHands
      <3>3. QED
        BY <3>2, FS_EmptySet
    <2>2. QED
      BY <2>1 DEF ReservedIsHeld
  <1>2. TypeInv /\ ReservedIsHeld /\ [Next]_vars /\ [~LeavesReserved]_vars => ReservedIsHeld'
    <2>1. ASSUME TypeInv, ReservedIsHeld, UNCHANGED vars PROVE ReservedIsHeld'
      BY <2>1 DEF ReservedIsHeld, Recovering, Reserved, InHands, vars
    <2>2. QED
      BY <2>1, ReservedIsHeldStep
  <1>3. QED
    BY <1>1, <1>2, TypeInvInit, TypeInvStep, PTL DEF Spec

=============================================================================
