----------------------------- MODULE HubTheorems -----------------------------
(***************************************************************************)
(* For any number of connections, any buffer and any number of updates:    *)
(* type correctness of the hub, that neither a broadcast nor a closer ever *)
(* panics, that no client misses an update without being disconnected, and *)
(* that what a disconnection has begun there is always somebody to end.    *)
(***************************************************************************)
EXTENDS Hub, SequenceTheorems, TLAPS

\* What the mutex, once and the map keep together.
Guarded ==
    /\ left \subseteq members
    /\ \A c \in Clients : conn[c] = "none" =>
          /\ c \notin members
          /\ c \notin doomed
          /\ reader[c] = "off"
          /\ writer[c] = "off"
          /\ once[c] = "fresh"
    /\ \A c \in members : once[c] \in {"fresh", "unregister"}
    /\ \A c \in closed : once[c] \in {"hangup", "done"}

\* The sets and functions Guarded speaks of.
Shapes ==
    /\ members \subseteq Clients
    /\ closed \subseteq Clients
    /\ doomed \subseteq Clients
    /\ conn \in [Clients -> {"none", "open", "closed"}]
    /\ once \in [Clients -> {"fresh", "unregister", "hangup", "done"}]
    /\ reader \in [Clients -> {"off", "reading", "pong", "error", "closing", "gone"}]
    /\ writer \in [Clients -> {"off", "waiting", "writing", "closing", "gone"}]
    /\ panic \in {"no", "broadcast", "close", "pong", "error"}

HubInv == Shapes /\ Guarded /\ HubNeverPanics

LEMMA HubInvInit == Init => HubInv
  BY DEF Init, HubInv, Shapes, Guarded, HubNeverPanics

LEMMA HubInvNext == HubInv /\ [Next]_vars => HubInv'
  <1> SUFFICES ASSUME HubInv, [Next]_vars PROVE HubInv'
    OBVIOUS
  <1> USE DEF HubInv, Shapes, Guarded, HubNeverPanics, ReaderGoto, WriterGoto, chanVars, histVars
  <1>1. CASE StartBroadcast
    BY <1>1 DEF StartBroadcast
  <1>2. ASSUME NEW c \in Clients, ServeWS(c) PROVE HubInv'
    BY <1>2 DEF ServeWS
  <1>3. ASSUME NEW c \in Clients, BroadcastTo(c) PROVE HubInv'
    BY <1>3 DEF BroadcastTo
  <1>4. ASSUME NEW c \in Clients, ReadMessage(c) PROVE HubInv'
    BY <1>4 DEF ReadMessage
  <1>5. ASSUME NEW c \in Clients, SendPong(c) PROVE HubInv'
    BY <1>5 DEF SendPong
  <1>6. ASSUME NEW c \in Clients, SendError(c) PROVE HubInv'
    BY <1>6 DEF SendError
  <1>7. ASSUME NEW c \in Clients, Receive(c) PROVE HubInv'
    BY <1>7 DEF Receive
  <1>8. ASSUME NEW c \in Clients, Write(c) PROVE HubInv'
    BY <1>8 DEF Write
  <1>9. ASSUME NEW c \in Clients, PingFails(c) PROVE HubInv'
    BY <1>9 DEF PingFails
  <1>10. ASSUME NEW c \in Clients, CloseClient(c) PROVE HubInv'
    BY <1>10 DEF CloseClient
  <1>11. ASSUME NEW c \in Clients, Unregister(c) PROVE HubInv'
    BY <1>11 DEF Unregister
  <1>12. ASSUME NEW c \in Clients, Hangup(c) PROVE HubInv'
    BY <1>12 DEF Hangup
  <1>13. ASSUME NEW c \in Clients, CloserEnds(c) PROVE HubInv'
    BY <1>13 DEF CloserEnds
  <1>14. CASE UNCHANGED vars
    BY <1>14 DEF vars
  <1>15. QED
    BY <1>1, <1>2, <1>3, <1>4, <1>5, <1>6, <1>7, <1>8, <1>9, <1>10, <1>11, <1>12, <1>13,
       <1>14 DEF Next, ReaderStep, WriterStep, CloseStep

\* A broadcast never sends to a closed channel and no channel is closed twice.
THEOREM HubIsSafe == Spec => []HubNeverPanics
  <1>1. HubInv => HubNeverPanics
    BY DEF HubInv
  <1>2. QED
    BY <1>1, HubInvInit, HubInvNext, PTL DEF Spec

-----------------------------------------------------------------------------
\* What the channels carry: a running broadcast has a number, and writePump writes
\* a message.
Data ==
    /\ issued \in 0..MaxEvents
    /\ left # {} => issued # 0
    /\ send \in [Clients -> Seq(Messages)]
    /\ \A c \in Clients : Len(send[c]) <= Buffer
    /\ payload \in [Clients -> Messages \cup {NoPayload}]
    /\ \A c \in Clients : writer[c] = "writing" => payload[c] \in Messages
    /\ since \in [Clients -> 0..MaxEvents]
    /\ written \in [Clients -> Seq(Events)]

\* The two operations on a channel.
LEMMA PutTyped ==
    ASSUME Data, NEW c \in Clients, NEW msg \in Messages, HasRoom(c), Put(c, msg)
    PROVE  /\ send' \in [Clients -> Seq(Messages)]
           /\ \A d \in Clients : Len(send'[d]) <= Buffer
  <1>1. send[c] \in Seq(Messages) /\ Len(send[c]) \in Nat /\ Buffer \in Nat
    BY HubAssumption, LenProperties DEF Data
  <1>2. Append(send[c], msg) \in Seq(Messages) /\ Len(Append(send[c], msg)) = Len(send[c]) + 1
    BY <1>1, AppendProperties
  <1>3. Len(send[c]) + 1 <= Buffer
    BY <1>1 DEF HasRoom
  <1>4. QED
    BY <1>2, <1>3 DEF Put, Data

LEMMA TakeTyped ==
    ASSUME Data, NEW c \in Clients, send[c] # <<>>, send' = [send EXCEPT ![c] = Tail(@)]
    PROVE  /\ Head(send[c]) \in Messages
           /\ send' \in [Clients -> Seq(Messages)]
           /\ \A d \in Clients : Len(send'[d]) <= Buffer
  <1>1. send[c] \in Seq(Messages) /\ Len(send[c]) \in Nat /\ Buffer \in Nat /\ Len(send[c]) <= Buffer
    BY HubAssumption, LenProperties DEF Data
  <1>2. /\ Head(send[c]) \in Messages
        /\ Tail(send[c]) \in Seq(Messages)
        /\ Len(Tail(send[c])) = Len(send[c]) - 1
    BY <1>1, HeadTailProperties
  <1>3. Len(Tail(send[c])) <= Buffer
    BY <1>1, <1>2
  <1>4. QED
    BY <1>2, <1>3 DEF Data

LEMMA DataInit == Init => Data
  BY HubAssumption, EmptySeq DEF Init, Data

LEMMA DataNext == Shapes /\ Data /\ [Next]_vars => Data'
  <1> SUFFICES ASSUME Shapes, Data, [Next]_vars PROVE Data'
    OBVIOUS
  <1> USE DEF ReaderGoto, WriterGoto, chanVars, histVars
  <1>1. CASE StartBroadcast
    BY <1>1, HubAssumption DEF StartBroadcast, Data
  <1>2. ASSUME NEW c \in Clients, ServeWS(c) PROVE Data'
    BY <1>2 DEF ServeWS, Data, Shapes
  <1>3. ASSUME NEW c \in Clients, BroadcastTo(c) PROVE Data'
    <2>1. issued \in Messages
      BY <1>3, HubAssumption DEF BroadcastTo, Data, Messages, Events
    <2>2. /\ send' \in [Clients -> Seq(Messages)]
          /\ \A d \in Clients : Len(send'[d]) <= Buffer
      <3>1. CASE send' = send
        BY <3>1 DEF Data
      <3>2. CASE HasRoom(c) /\ Put(c, issued)
        BY <3>2, <2>1, PutTyped
      <3>3. QED
        BY <1>3, <3>1, <3>2 DEF BroadcastTo
    <2>3. QED
      BY <1>3, <2>2 DEF BroadcastTo, Data
  <1>4. ASSUME NEW c \in Clients, ReadMessage(c) PROVE Data'
    BY <1>4 DEF ReadMessage, Data
  <1>5. ASSUME NEW c \in Clients, SendPong(c) PROVE Data'
    <2>1. /\ send' \in [Clients -> Seq(Messages)]
          /\ \A d \in Clients : Len(send'[d]) <= Buffer
      <3>1. CASE send' = send
        BY <3>1 DEF Data
      <3>2. CASE HasRoom(c) /\ Put(c, Pong)
        BY <3>2, PutTyped DEF Messages
      <3>3. QED
        BY <1>5, <3>1, <3>2 DEF SendPong
    <2>2. QED
      BY <1>5, <2>1 DEF SendPong, Data
  <1>6. ASSUME NEW c \in Clients, SendError(c) PROVE Data'
    <2>1. /\ send' \in [Clients -> Seq(Messages)]
          /\ \A d \in Clients : Len(send'[d]) <= Buffer
      <3>1. CASE send' = send
        BY <3>1 DEF Data
      <3>2. CASE HasRoom(c) /\ Put(c, Error)
        BY <3>2, PutTyped DEF Messages
      <3>3. QED
        BY <1>6, <3>1, <3>2 DEF SendError
    <2>2. QED
      BY <1>6, <2>1 DEF SendError, Data
  <1>7. ASSUME NEW c \in Clients, Receive(c) PROVE Data'
    <2>1. CASE send[c] # <<>> /\ send' = [send EXCEPT ![c] = Tail(@)]
      <3>1. /\ Head(send[c]) \in Messages
            /\ send' \in [Clients -> Seq(Messages)]
            /\ \A d \in Clients : Len(send'[d]) <= Buffer
        BY <2>1, TakeTyped
      <3>2. /\ payload' = [payload EXCEPT ![c] = Head(send[c])]
            /\ writer' = [writer EXCEPT ![c] = "writing"]
            /\ UNCHANGED <<left, issued, since, written>>
        BY <1>7, <2>1 DEF Receive
      <3>3. QED
        BY <3>1, <3>2 DEF Data, Shapes
    <2>2. CASE send' = send
      BY <1>7, <2>2 DEF Receive, Data, Shapes
    <2>3. QED
      BY <1>7, <2>1, <2>2 DEF Receive
  <1>8. ASSUME NEW c \in Clients, Write(c) PROVE Data'
    <2>1. written' \in [Clients -> Seq(Events)]
      <3>1. CASE written' = written
        BY <3>1 DEF Data
      <3>2. CASE IsEvent(payload[c]) /\ written' = [written EXCEPT ![c] = Append(@, payload[c])]
        <4>1. payload[c] \in Events
          BY <1>8, <3>2 DEF Write, Data, IsEvent, Messages
        <4>2. Append(written[c], payload[c]) \in Seq(Events)
          BY <4>1, AppendProperties DEF Data
        <4>3. QED
          BY <3>2, <4>2 DEF Data
      <3>3. QED
        BY <1>8, <3>1, <3>2 DEF Write
    <2>2. QED
      BY <1>8, <2>1 DEF Write, Data, Shapes
  <1>9. ASSUME NEW c \in Clients, PingFails(c) PROVE Data'
    BY <1>9 DEF PingFails, Data, Shapes
  <1>10. ASSUME NEW c \in Clients, CloseClient(c) PROVE Data'
    BY <1>10 DEF CloseClient, Data
  <1>11. ASSUME NEW c \in Clients, Unregister(c) PROVE Data'
    BY <1>11 DEF Unregister, Data
  <1>12. ASSUME NEW c \in Clients, Hangup(c) PROVE Data'
    BY <1>12 DEF Hangup, Data
  <1>13. ASSUME NEW c \in Clients, CloserEnds(c) PROVE Data'
    BY <1>13 DEF CloserEnds, Data, Shapes
  <1>14. CASE UNCHANGED vars
    BY <1>14 DEF vars, Data
  <1>15. QED
    BY <1>1, <1>2, <1>3, <1>4, <1>5, <1>6, <1>7, <1>8, <1>9, <1>10, <1>11, <1>12, <1>13,
       <1>14 DEF Next, ReaderStep, WriterStep, CloseStep

\* The hub keeps its types, and no channel ever holds more than its buffer.
THEOREM HubTypeCorrect == Spec => []TypeOK
  <1>1. HubInv /\ Data => TypeOK
    BY DEF HubInv, Shapes, Guarded, Data, TypeOK
  <1>2. HubInv /\ Data /\ [Next]_vars => Data'
    BY DataNext DEF HubInv
  <1>3. QED
    BY <1>1, <1>2, HubInvInit, HubInvNext, DataInit, PTL DEF Spec

-----------------------------------------------------------------------------
(* No silent gap.  A step leaves the stream of a client alone, appends a message to  *)
(* it, or takes out the one writePump failed to write or wrote that was no update.   *)

Pending(c) == IF payload[c] = NoPayload THEN <<>> ELSE <<payload[c]>>

\* The last update broadcast to the client, or about to be.
Upto(c) == IF c \in left THEN issued - 1 ELSE issued

\* Streams are in order and ahead of no broadcast; those of healthy clients, which
\* the broadcasts reach, are complete.
Complete(c) ==
    /\ InOrder(Stream(c))
    /\ UpdatesOf(Stream(c)) \subseteq 1..Upto(c)
    /\ Healthy(c) => UpdatesOf(Stream(c)) = Due(c)

\* Where a client stands in its life, and what its stream then is.
Placed(c) ==
    /\ conn[c] = "none" => Stream(c) = <<>>
    /\ Healthy(c) => c \in members
    /\ writer[c] \in {"off", "waiting"} => payload[c] = NoPayload
    /\ since[c] <= Upto(c)

GapInv == \A c \in Clients : Complete(c) /\ Placed(c)

LEMMA UpdateIsNumber ==
    ASSUME NEW m \in Messages, IsEvent(m)
    PROVE  m \in 1..MaxEvents
  BY DEF Messages, Events, IsEvent

LEMMA OthersAreNoUpdates == ~IsEvent(Pong) /\ ~IsEvent(Error)
  BY DEF IsEvent

\* A message at the end, an update only if it is newer than those before.
LEMMA StreamAppend ==
    ASSUME NEW s \in Seq(Messages), NEW m \in Messages, NEW n \in Nat,
           InOrder(s), UpdatesOf(s) \subseteq 1..n, IsEvent(m) => n < m
    PROVE  /\ InOrder(Append(s, m))
           /\ UpdatesOf(Append(s, m)) = UpdatesOf(s) \cup (IF IsEvent(m) THEN {m} ELSE {})
  <1> DEFINE t == Append(s, m)
  <1>1. /\ Len(s) \in Nat /\ Len(t) = Len(s) + 1
        /\ \A i \in 1..Len(s) : t[i] = s[i]
        /\ t[Len(s) + 1] = m
    BY LenProperties, AppendProperties
  <1> HIDE DEF t
  <1>2. 1..Len(t) = 1..Len(s) \cup {Len(t)}
    BY <1>1
  <1>3. \A i \in 1..Len(s) : IsEvent(s[i]) => s[i] \in 1..n
    BY DEF UpdatesOf
  <1>4. InOrder(t)
    <2> SUFFICES ASSUME NEW i \in 1..Len(t), NEW k \in 1..Len(t),
                        i < k, IsEvent(t[i]), IsEvent(t[k])
                 PROVE  t[i] < t[k]
      BY DEF InOrder
    <2>1. i \in 1..Len(s) /\ t[i] = s[i] /\ s[i] \in 1..n
      BY <1>1, <1>3
    <2>2. CASE k \in 1..Len(s)
      BY <1>1, <2>1, <2>2 DEF InOrder
    <2>3. CASE k = Len(t)
      <3>1. t[k] = m /\ m \in 1..MaxEvents /\ n < m
        BY <1>1, <2>3, UpdateIsNumber
      <3>2. QED
        BY <2>1, <3>1, HubAssumption
    <2>4. QED
      BY <1>2, <2>2, <2>3
  <1>5. UpdatesOf(t) = UpdatesOf(s) \cup (IF IsEvent(m) THEN {m} ELSE {})
    BY <1>1, <1>2 DEF UpdatesOf
  <1>6. QED
    BY <1>4, <1>5 DEF t

\* A message taken out of the middle.
LEMMA StreamDrop ==
    ASSUME NEW u \in Seq(Messages), NEW m \in Messages, NEW s \in Seq(Messages),
           InOrder(u \o <<m>> \o s)
    PROVE  /\ InOrder(u \o <<>> \o s)
           /\ UpdatesOf(u \o <<>> \o s) \subseteq UpdatesOf(u \o <<m>> \o s)
           /\ ~IsEvent(m) => UpdatesOf(u \o <<>> \o s) = UpdatesOf(u \o <<m>> \o s)
  <1> DEFINE whole == u \o <<m>> \o s
             less == u \o <<>> \o s
             n == Len(u)
             At(i) == IF i <= n THEN i ELSE i + 1
  <1>1. /\ n \in Nat /\ Len(s) \in Nat
        /\ Len(whole) = n + 1 + Len(s) /\ Len(less) = n + Len(s)
    BY LenProperties
  <1>2. /\ \A i \in 1..n : whole[i] = u[i] /\ less[i] = u[i]
        /\ whole[n + 1] = m
        /\ \A i \in 1..Len(s) : whole[n + 1 + i] = s[i] /\ less[n + i] = s[i]
    BY <1>1
  <1>3. \A i \in 1..Len(less) : At(i) \in 1..Len(whole) /\ less[i] = whole[At(i)]
    <2> SUFFICES ASSUME NEW i \in 1..Len(less)
                 PROVE  At(i) \in 1..Len(whole) /\ less[i] = whole[At(i)]
      OBVIOUS
    <2>1. CASE i <= n
      BY <1>1, <1>2, <2>1
    <2>2. CASE i > n
      <3>1. i - n \in 1..Len(s) /\ n + (i - n) = i /\ n + 1 + (i - n) = i + 1
        BY <1>1, <2>2
      <3>2. less[i] = s[i - n] /\ whole[i + 1] = s[i - n]
        BY <1>2, <3>1
      <3>3. QED
        BY <1>1, <2>2, <3>2
    <2>3. QED
      BY <1>1, <2>1, <2>2
  <1>4. \A k \in 1..Len(whole) : k # n + 1 => \E i \in 1..Len(less) : At(i) = k
    <2> SUFFICES ASSUME NEW k \in 1..Len(whole), k # n + 1
                 PROVE  \E i \in 1..Len(less) : At(i) = k
      OBVIOUS
    <2>1. CASE k <= n
      <3>1. k \in 1..Len(less) /\ At(k) = k
        BY <1>1, <2>1
      <3>2. QED
        BY <3>1
    <2>2. CASE k > n + 1
      <3>1. k - 1 \in 1..Len(less) /\ At(k - 1) = k
        BY <1>1, <2>2
      <3>2. QED
        BY <3>1
    <2>3. QED
      BY <1>1, <2>1, <2>2
  <1>5. \A i, k \in 1..Len(less) : i < k => At(i) < At(k)
    BY <1>1
  <1> HIDE DEF whole, less, At, n
  <1>6. InOrder(less)
    BY <1>3, <1>5 DEF InOrder, whole
  <1>7. UpdatesOf(less) \subseteq UpdatesOf(whole)
    BY <1>3 DEF UpdatesOf
  <1>8. ~IsEvent(m) => UpdatesOf(whole) \subseteq UpdatesOf(less)
    <2> SUFFICES ASSUME ~IsEvent(m), NEW k \in 1..Len(whole), IsEvent(whole[k])
                 PROVE  whole[k] \in UpdatesOf(less)
      BY DEF UpdatesOf
    <2>1. k # n + 1
      BY <1>2
    <2>2. PICK i \in 1..Len(less) : At(i) = k
      BY <1>4, <2>1
    <2>3. less[i] = whole[k]
      BY <1>3, <2>2
    <2>4. QED
      BY <2>2, <2>3 DEF UpdatesOf
  <1>9. QED
    BY <1>6, <1>7, <1>8 DEF whole, less

\* The stream stays what it is when a message moves on.
LEMMA StreamMoves ==
    ASSUME NEW u \in Seq(Messages), NEW s \in Seq(Messages)
    PROVE  /\ s # <<>> => u \o <<Head(s)>> \o Tail(s) = u \o <<>> \o s
           /\ \A m \in Messages : Append(u, m) \o <<>> \o s = u \o <<m>> \o s
  <1>1. s # <<>> => s = <<Head(s)>> \o Tail(s)
    BY HeadTailProperties
  <1>2. s # <<>> => u \o <<Head(s)>> \o Tail(s) = u \o <<>> \o s
    OBVIOUS
  <1>3. \A m \in Messages : Append(u, m) \o <<>> \o s = u \o <<m>> \o s
    OBVIOUS
  <1>4. QED
    BY <1>2, <1>3

LEMMA AppendAtEnd ==
    ASSUME NEW u \in Seq(Messages), NEW s \in Seq(Messages), NEW m \in Messages
    PROVE  u \o Append(s, m) = Append(u \o s, m)
  <1> DEFINE x == u \o Append(s, m)
             y == Append(u \o s, m)
  <1>1. /\ Append(s, m) \in Seq(Messages) /\ Len(s) \in Nat
        /\ Len(Append(s, m)) = Len(s) + 1
    BY AppendProperties, LenProperties
  <1>2. /\ x \in Seq(Messages) /\ y \in Seq(Messages) /\ Len(u) \in Nat
        /\ Len(x) = Len(u) + Len(s) + 1 /\ Len(y) = Len(u) + Len(s) + 1
    BY <1>1, ConcatProperties, AppendProperties, LenProperties
  <1>3. ASSUME NEW i \in 1..Len(x) PROVE x[i] = y[i]
    BY <1>1, <1>2, <1>3
  <1> HIDE DEF x, y
  <1>4. x = y
    BY <1>2, <1>3, SeqEqual
  <1>5. QED
    BY <1>4 DEF x, y

\* A step that does not touch the stream of d, nor what is due to it, and that
\* makes no ending connection healthy again.
QuietFor(d) ==
    /\ written'[d] = written[d] /\ payload'[d] = payload[d] /\ send'[d] = send[d]
    /\ since'[d] = since[d] /\ issued' = issued
    /\ d \in left' <=> d \in left
    /\ Healthy(d)' => Healthy(d) /\ d \in members'
    /\ conn'[d] = "none" => conn[d] = "none"
    /\ writer'[d] \in {"off", "waiting"} => writer[d] \in {"off", "waiting"}

LEMMA QuietKeeps ==
    ASSUME NEW d \in Clients, Complete(d), Placed(d), QuietFor(d)
    PROVE  Complete(d)' /\ Placed(d)'
  <1>1. Stream(d)' = Stream(d)
    BY DEF QuietFor, Stream
  <1>2. Upto(d)' = Upto(d) /\ Due(d)' = Due(d)
    BY DEF QuietFor, Upto, Due
  <1>3. UpdatesOf(Stream(d))' = UpdatesOf(Stream(d)) /\ InOrder(Stream(d))' = InOrder(Stream(d))
    BY <1>1 DEF UpdatesOf, InOrder
  <1>4. Complete(d)'
    BY <1>2, <1>3 DEF Complete, QuietFor
  <1>5. Placed(d)'
    BY <1>1, <1>2 DEF Placed, QuietFor
  <1>6. QED
    BY <1>4, <1>5

\* The steps that touch no stream at all.
LEMMA QuietSteps ==
    ASSUME HubInv, Data, GapInv, NEW c \in Clients, NEW d \in Clients,
           \/ ReadMessage(c) \/ PingFails(c) \/ CloseClient(c)
           \/ Unregister(c) \/ Hangup(c) \/ CloserEnds(c)
    PROVE  QuietFor(d)
  <1> USE DEF HubInv, Shapes, GapInv, Placed, QuietFor, Healthy, ReaderGoto, WriterGoto, chanVars,
              histVars
  <1>1. CASE ReadMessage(c)
    BY <1>1 DEF ReadMessage
  <1>2. CASE PingFails(c)
    BY <1>2 DEF PingFails
  <1>3. CASE CloseClient(c)
    BY <1>3 DEF CloseClient
  <1>4. CASE Unregister(c)
    BY <1>4 DEF Unregister
  <1>5. CASE Hangup(c)
    BY <1>5 DEF Hangup
  <1>6. CASE CloserEnds(c)
    BY <1>6 DEF CloserEnds
  <1>7. QED
    BY <1>1, <1>2, <1>3, <1>4, <1>5, <1>6

\* The steps of one client touch the stream of no other.
LEMMA QuietElsewhere ==
    ASSUME HubInv, Data, GapInv, NEW c \in Clients, NEW d \in Clients, d # c,
           \/ ServeWS(c) \/ BroadcastTo(c) \/ SendPong(c) \/ SendError(c)
           \/ Receive(c) \/ Write(c)
    PROVE  QuietFor(d)
  <1> USE DEF HubInv, Shapes, Data, GapInv, Placed, QuietFor, Healthy, ReaderGoto, WriterGoto,
              chanVars, histVars, Put
  <1>1. CASE ServeWS(c)
    BY <1>1 DEF ServeWS
  <1>2. CASE BroadcastTo(c)
    BY <1>2 DEF BroadcastTo
  <1>3. CASE SendPong(c)
    BY <1>3 DEF SendPong
  <1>4. CASE SendError(c)
    BY <1>4 DEF SendError
  <1>5. CASE Receive(c)
    BY <1>5 DEF Receive
  <1>6. CASE Write(c)
    BY <1>6 DEF Write
  <1>7. QED
    BY <1>1, <1>2, <1>3, <1>4, <1>5, <1>6

LEMMA StreamParts ==
    ASSUME Data, NEW c \in Clients
    PROVE  /\ written[c] \in Seq(Messages)
           /\ Pending(c) \in Seq(Messages)
           /\ send[c] \in Seq(Messages)
           /\ Stream(c) = written[c] \o Pending(c) \o send[c]
           /\ Stream(c) \in Seq(Messages)
           /\ Upto(c) \in Nat /\ since[c] \in Nat
  <1>1. Seq(Events) \subseteq Seq(Messages)
    BY SeqMonotonic DEF Messages
  <1>2. /\ written[c] \in Seq(Messages) /\ send[c] \in Seq(Messages)
        /\ Pending(c) \in Seq(Messages)
    BY <1>1 DEF Data, Pending
  <1>3. Stream(c) = written[c] \o Pending(c) \o send[c]
    BY DEF Stream, Pending
  <1>4. written[c] \o Pending(c) \o send[c] \in Seq(Messages)
    BY <1>2, ConcatProperties
  <1>5. Upto(c) \in Nat /\ since[c] \in Nat
    BY HubAssumption DEF Data, Upto
  <1>6. QED
    BY <1>2, <1>3, <1>4, <1>5

LEMMA PutAppends ==
    ASSUME Data, NEW c \in Clients, NEW m \in Messages, Put(c, m), UNCHANGED <<written, payload>>
    PROVE  Stream(c)' = Append(Stream(c), m)
  <1>1. send'[c] = Append(send[c], m) /\ Pending(c)' = Pending(c)
    BY DEF Put, Data, Pending
  <1>2. Stream(c)' = written[c] \o Pending(c) \o Append(send[c], m)
    BY <1>1 DEF Stream, Pending
  <1> DEFINE u == written[c] \o Pending(c)
  <1>3. u \in Seq(Messages) /\ Stream(c) = u \o send[c] /\ Stream(c)' = u \o Append(send[c], m)
    BY <1>2, StreamParts, ConcatProperties
  <1> HIDE DEF u
  <1>4. QED
    BY <1>3, StreamParts, AppendAtEnd

\* An answer of readPump joins the stream of a client: it is no update.
LEMMA AnswerKeeps ==
    ASSUME Data, NEW c \in Clients, Complete(c), Placed(c),
           NEW m \in {Pong, Error}, Put(c, m),
           UNCHANGED <<written, payload, since, issued, left, members, conn, once, doomed, writer>>,
           conn[c] # "none"
    PROVE  Complete(c)' /\ Placed(c)'
  <1>1. Stream(c)' = Append(Stream(c), m)
    BY PutAppends DEF Messages
  <1>2. Upto(c)' = Upto(c) /\ Due(c)' = Due(c) /\ Healthy(c)' = Healthy(c)
    BY DEF Upto, Due, Healthy
  <1>3. ~IsEvent(m) /\ m \in Messages
    BY OthersAreNoUpdates DEF Messages
  <1>4. /\ InOrder(Append(Stream(c), m))
        /\ UpdatesOf(Append(Stream(c), m)) = UpdatesOf(Stream(c))
    BY <1>3, StreamParts, StreamAppend DEF Complete
  <1>5. InOrder(Stream(c)') /\ UpdatesOf(Stream(c)') = UpdatesOf(Stream(c))
    BY <1>1, <1>4
  <1>6. Complete(c)'
    BY <1>2, <1>5 DEF Complete, UpdatesOf, InOrder
  <1>7. Placed(c)'
    BY <1>2 DEF Placed
  <1>8. QED
    BY <1>6, <1>7

LEMMA StartBroadcastKeeps ==
    ASSUME HubInv, Data, GapInv, StartBroadcast, NEW d \in Clients
    PROVE  Complete(d)' /\ Placed(d)'
  <1>0. Complete(d) /\ Placed(d)
    BY DEF GapInv
  <1>1. Stream(d)' = Stream(d) /\ Healthy(d)' = Healthy(d)
    BY DEF StartBroadcast, Stream, Healthy, chanVars, histVars
  <1>2. /\ Upto(d) = issued /\ issued \in Nat
        /\ Upto(d)' = IF d \in members THEN issued ELSE issued + 1
        /\ d \in members => Due(d)' = Due(d)
        /\ since'[d] = since[d] /\ since[d] \in Nat
    BY HubAssumption DEF StartBroadcast, Upto, Due, Data, histVars
  <1>3. UpdatesOf(Stream(d))' = UpdatesOf(Stream(d)) /\ InOrder(Stream(d))' = InOrder(Stream(d))
    BY <1>1 DEF UpdatesOf, InOrder
  <1>4. Complete(d)'
    BY <1>0, <1>1, <1>2, <1>3 DEF Complete, Placed
  <1>5. Placed(d)'
    BY <1>0, <1>1, <1>2 DEF Placed, StartBroadcast
  <1>6. QED
    BY <1>4, <1>5

LEMMA ServeKeeps ==
    ASSUME HubInv, Data, GapInv, NEW c \in Clients, ServeWS(c)
    PROVE  Complete(c)' /\ Placed(c)'
  <1>1. Stream(c)' = <<>>
    <2>1. Stream(c) = <<>>
      BY DEF GapInv, Placed, ServeWS
    <2>2. QED
      BY <2>1 DEF Stream, ServeWS, chanVars
  <1>2. UpdatesOf(<<>>) = {} /\ InOrder(<<>>)
    BY DEF UpdatesOf, InOrder
  <1>3. since'[c] = issued /\ issued' = issued /\ left' = {} /\ issued \in Nat
    BY HubAssumption DEF ServeWS, Data
  <1>4. Due(c)' = {} /\ Upto(c)' = issued
    BY <1>3 DEF Due, Upto
  <1>5. UpdatesOf(Stream(c))' = {} /\ InOrder(Stream(c))' = TRUE
    BY <1>1, <1>2 DEF UpdatesOf, InOrder
  <1>6. Complete(c)'
    BY <1>4, <1>5 DEF Complete
  <1>7. payload'[c] = NoPayload
    BY DEF ServeWS, GapInv, Placed, HubInv, Guarded
  <1>8. Placed(c)'
    <2>1. conn'[c] = "open" /\ c \in members'
      BY DEF ServeWS, HubInv, Shapes
    <2>2. since'[c] <= Upto(c)'
      BY <1>3, <1>4
    <2>3. QED
      BY <1>7, <2>1, <2>2 DEF Placed
  <1>9. QED
    BY <1>6, <1>8

LEMMA BroadcastKeeps ==
    ASSUME HubInv, Data, GapInv, NEW c \in Clients, BroadcastTo(c)
    PROVE  Complete(c)' /\ Placed(c)'
  <1>0. Complete(c) /\ Placed(c)
    BY DEF GapInv
  <1>1. /\ c \notin closed
        /\ conn[c] # "none"
        /\ UNCHANGED <<written, payload, since, issued, members, conn, once, writer>>
        /\ left' = left \ {c} /\ doomed \subseteq doomed'
    BY DEF BroadcastTo, HubInv, Guarded, histVars
  <1>2. /\ issued \in 1..MaxEvents /\ issued \in Messages /\ IsEvent(issued)
        /\ issued \in Nat /\ issued # 0
    BY HubAssumption DEF BroadcastTo, Data, Messages, Events, IsEvent
  <1>3. /\ Upto(c) = issued - 1 /\ Upto(c)' = issued
        /\ Due(c) = since[c] + 1 .. issued - 1 /\ Due(c)' = since[c] + 1 .. issued
        /\ since[c] \in Nat /\ since[c] <= issued - 1
    BY <1>0, <1>1, StreamParts DEF Upto, Due, BroadcastTo, Placed
  <1>4. Placed(c)'
    BY <1>0, <1>1, <1>2, <1>3 DEF Placed, Healthy
  <1>5. CASE HasRoom(c)
    <2>1. Put(c, issued) /\ doomed' = doomed
      BY <1>1, <1>5 DEF BroadcastTo
    <2>2. Stream(c)' = Append(Stream(c), issued)
      BY <1>1, <1>2, <2>1, PutAppends
    <2>3. Healthy(c)' = Healthy(c)
      BY <1>1, <2>1 DEF Healthy
    <2>4. /\ InOrder(Append(Stream(c), issued))
          /\ UpdatesOf(Append(Stream(c), issued)) = UpdatesOf(Stream(c)) \cup {issued}
      <3>1. issued - 1 \in Nat /\ issued - 1 < issued
        BY <1>2
      <3>2. InOrder(Stream(c)) /\ UpdatesOf(Stream(c)) \subseteq 1..issued - 1
        BY <1>0, <1>3 DEF Complete
      <3>3. QED
        BY <1>2, <3>1, <3>2, StreamParts, StreamAppend
    <2>5. /\ InOrder(Stream(c))'
          /\ UpdatesOf(Stream(c))' = UpdatesOf(Stream(c)) \cup {issued}
      BY <2>2, <2>4 DEF InOrder, UpdatesOf
    <2>6. UpdatesOf(Stream(c))' \subseteq 1..issued
      BY <1>0, <1>2, <1>3, <2>5 DEF Complete
    <2>7. (since[c] + 1 .. issued - 1) \cup {issued} = since[c] + 1 .. issued
      BY <1>2, <1>3
    <2>8. QED
      BY <1>0, <1>3, <1>4, <2>3, <2>5, <2>6, <2>7 DEF Complete
  <1>6. CASE ~HasRoom(c)
    <2>1. c \in doomed' /\ send' = send
      BY <1>1, <1>6 DEF BroadcastTo
    <2>2. Stream(c)' = Stream(c) /\ ~Healthy(c)'
      BY <1>1, <2>1 DEF Stream, Healthy
    <2>3. /\ UpdatesOf(Stream(c))' = UpdatesOf(Stream(c))
          /\ InOrder(Stream(c))' = InOrder(Stream(c))
      BY <2>2 DEF UpdatesOf, InOrder
    <2>4. UpdatesOf(Stream(c)) \subseteq 1..issued
      BY <1>0, <1>2, <1>3 DEF Complete
    <2>5. QED
      BY <1>0, <1>3, <1>4, <2>2, <2>3, <2>4 DEF Complete
  <1>7. QED
    BY <1>5, <1>6

LEMMA ReceiveKeeps ==
    ASSUME HubInv, Data, GapInv, NEW c \in Clients, Receive(c)
    PROVE  Complete(c)' /\ Placed(c)'
  <1>0. Complete(c) /\ Placed(c)
    BY DEF GapInv
  <1>1. /\ payload[c] = NoPayload /\ conn[c] # "none"
        /\ UNCHANGED <<written, since, issued, left, members, conn, once, doomed>>
    BY <1>0 DEF Receive, Placed, HubInv, Guarded, histVars
  <1>2. CASE send[c] = <<>>
    <2>1. QuietFor(c)
      BY <1>0, <1>1, <1>2 DEF Receive, QuietFor, Healthy, Placed, WriterGoto, HubInv, Shapes
    <2>2. QED
      BY <1>0, <2>1, QuietKeeps
  <1>3. CASE send[c] # <<>>
    <2>1. /\ payload' = [payload EXCEPT ![c] = Head(send[c])]
          /\ send' = [send EXCEPT ![c] = Tail(@)]
          /\ writer' = [writer EXCEPT ![c] = "writing"]
          /\ writer[c] = "waiting"
      BY <1>3 DEF Receive, WriterGoto
    <2>2. Head(send[c]) \in Messages
      BY <1>3, <2>1, TakeTyped
    <2>3. /\ Pending(c)' = <<Head(send[c])>> /\ Pending(c) = <<>>
          /\ send'[c] = Tail(send[c])
      BY <1>1, <2>1, <2>2, HubAssumption DEF Data, Pending
    <2>4. Stream(c)' = written[c] \o <<Head(send[c])>> \o Tail(send[c])
      BY <1>1, <2>3 DEF Stream, Pending
    <2>11. written[c] \o <<Head(send[c])>> \o Tail(send[c]) = written[c] \o <<>> \o send[c]
      BY <1>3, StreamParts, StreamMoves, Zenon
    <2>12. Stream(c) = written[c] \o <<>> \o send[c]
      BY <2>3, StreamParts, Zenon
    <2>5. Stream(c)' = Stream(c)
      BY <2>4, <2>11, <2>12, Zenon
    <2>6. Healthy(c)' = Healthy(c) /\ Upto(c)' = Upto(c) /\ Due(c)' = Due(c)
      BY <1>1, <2>1 DEF Healthy, Upto, Due, HubInv, Shapes
    <2>7. UpdatesOf(Stream(c))' = UpdatesOf(Stream(c)) /\ InOrder(Stream(c))' = InOrder(Stream(c))
      BY <2>5 DEF UpdatesOf, InOrder
    <2>8. Complete(c)'
      BY <1>0, <2>6, <2>7 DEF Complete
    <2>9. Placed(c)'
      BY <1>0, <1>1, <2>1, <2>6 DEF Placed, HubInv, Shapes
    <2>10. QED
      BY <2>8, <2>9
  <1>4. QED
    BY <1>2, <1>3

LEMMA WriteKeeps ==
    ASSUME HubInv, Data, GapInv, NEW c \in Clients, Write(c)
    PROVE  Complete(c)' /\ Placed(c)'
  <1> DEFINE m == payload[c]
             rest == written[c] \o <<>> \o send[c]
  <1>0. Complete(c) /\ Placed(c)
    BY DEF GapInv
  <1>1. /\ m \in Messages /\ m # NoPayload /\ conn[c] # "none"
        /\ UNCHANGED <<send, since, issued, left, members, conn, once, doomed>>
        /\ payload' = [payload EXCEPT ![c] = NoPayload]
        /\ writer'[c] \in {"waiting", "closing"}
    BY HubAssumption DEF Write, Data, HubInv, Guarded, Shapes, WriterGoto, chanVars
  <1>2. Pending(c) = <<m>> /\ Pending(c)' = <<>> /\ payload'[c] = NoPayload
    BY <1>1 DEF Pending, Data
  <1>3. Stream(c) = written[c] \o <<m>> \o send[c]
    BY <1>2, StreamParts
  <1>4. /\ Upto(c)' = Upto(c) /\ Due(c)' = Due(c)
        /\ Healthy(c)' => Healthy(c) /\ writer'[c] = "waiting"
    BY <1>1 DEF Upto, Due, Healthy, Write
  <1>5. Placed(c)'
    BY <1>0, <1>1, <1>2, <1>4 DEF Placed
  <1>6. CASE IsEvent(m) /\ written' = [written EXCEPT ![c] = Append(@, m)]
    <2>1. Stream(c)' = Append(written[c], m) \o <<>> \o send[c]
      BY <1>1, <1>2, <1>6 DEF Stream, Pending, Data
    <2>5. Append(written[c], m) \o <<>> \o send[c] = written[c] \o <<m>> \o send[c]
      BY <1>1, StreamParts, StreamMoves, Zenon
    <2>2. Stream(c)' = Stream(c)
      BY <1>3, <2>1, <2>5, Zenon
    <2>3. UpdatesOf(Stream(c))' = UpdatesOf(Stream(c)) /\ InOrder(Stream(c))' = InOrder(Stream(c))
      BY <2>2 DEF UpdatesOf, InOrder
    <2>4. QED
      BY <1>0, <1>4, <1>5, <2>3 DEF Complete
  <1>7. CASE written' = written /\ (~IsEvent(m) \/ writer'[c] = "closing")
    <2>1. Stream(c)' = rest
      BY <1>1, <1>2, <1>7 DEF Stream, Pending
    <2>2. InOrder(written[c] \o <<m>> \o send[c])
      BY <1>0, <1>3, Zenon DEF Complete
    <2>3. /\ InOrder(rest)
          /\ UpdatesOf(rest) \subseteq UpdatesOf(written[c] \o <<m>> \o send[c])
          /\ ~IsEvent(m) => UpdatesOf(rest) = UpdatesOf(written[c] \o <<m>> \o send[c])
      BY <1>1, <2>2, StreamParts, StreamDrop, Zenon
    <2>4. /\ UpdatesOf(rest) \subseteq UpdatesOf(Stream(c))
          /\ ~IsEvent(m) => UpdatesOf(rest) = UpdatesOf(Stream(c))
      BY <1>3, <2>3, Zenon
    <2> HIDE DEF rest
    <2>5. UpdatesOf(Stream(c))' = UpdatesOf(rest) /\ InOrder(Stream(c))' = InOrder(rest)
      BY <2>1 DEF UpdatesOf, InOrder
    <2>6. QED
      BY <1>0, <1>4, <1>5, <1>7, <2>3, <2>4, <2>5 DEF Complete
  <1>8. QED
    BY <1>1, <1>6, <1>7 DEF Write, WriterGoto, HubInv, Shapes

LEMMA GapInvInit == Init => GapInv
  <1> SUFFICES ASSUME Init, NEW c \in Clients PROVE Complete(c) /\ Placed(c)
    BY DEF GapInv
  <1>1. Stream(c) = <<>>
    BY DEF Init, Stream
  <1>2. UpdatesOf(<<>>) = {} /\ InOrder(<<>>)
    BY DEF UpdatesOf, InOrder
  <1>3. ~Healthy(c) /\ Upto(c) = 0 /\ since[c] = 0 /\ payload[c] = NoPayload
    BY DEF Init, Healthy, Upto
  <1>4. QED
    BY <1>1, <1>2, <1>3 DEF Complete, Placed

LEMMA GapInvNext == HubInv /\ Data /\ GapInv /\ [Next]_vars => GapInv'
  <1> SUFFICES ASSUME HubInv, Data, GapInv, [Next]_vars, NEW d \in Clients
               PROVE  Complete(d)' /\ Placed(d)'
    BY DEF GapInv
  <1>0. Complete(d) /\ Placed(d)
    BY DEF GapInv
  <1>1. CASE StartBroadcast
    BY <1>1, StartBroadcastKeeps
  <1>2. ASSUME NEW c \in Clients,
               \/ ReadMessage(c) \/ PingFails(c) \/ CloseClient(c)
               \/ Unregister(c) \/ Hangup(c) \/ CloserEnds(c)
        PROVE  Complete(d)' /\ Placed(d)'
    BY <1>0, <1>2, QuietSteps, QuietKeeps
  <1>3. ASSUME NEW c \in Clients, d # c,
               \/ ServeWS(c) \/ BroadcastTo(c) \/ SendPong(c) \/ SendError(c)
               \/ Receive(c) \/ Write(c)
        PROVE  Complete(d)' /\ Placed(d)'
    BY <1>0, <1>3, QuietElsewhere, QuietKeeps
  <1>4. ASSUME SendPong(d) \/ SendError(d) PROVE Complete(d)' /\ Placed(d)'
    <2>1. /\ UNCHANGED <<written, payload, since, issued, left, members, conn, once, doomed, writer>>
          /\ conn[d] # "none"
      BY <1>4 DEF SendPong, SendError, histVars, HubInv, Guarded
    <2>2. CASE send' = send
      <3>1. QuietFor(d)
        BY <1>0, <2>1, <2>2 DEF QuietFor, Healthy, Placed
      <3>2. QED
        BY <1>0, <3>1, QuietKeeps
    <2>3. CASE Put(d, Pong) \/ Put(d, Error)
      BY <1>0, <2>1, <2>3, AnswerKeeps
    <2>4. QED
      BY <1>4, <2>2, <2>3 DEF SendPong, SendError
  <1>5. CASE UNCHANGED vars
    <2>1. QuietFor(d)
      BY <1>0, <1>5 DEF vars, QuietFor, Healthy, Placed
    <2>2. QED
      BY <1>0, <2>1, QuietKeeps
  <1>6. ASSUME NEW c \in Clients,
               ServeWS(c) \/ BroadcastTo(c) \/ ReaderStep(c) \/ WriterStep(c) \/ CloseStep(c)
        PROVE  Complete(d)' /\ Placed(d)'
    BY <1>2, <1>3, <1>4, <1>6, ServeKeeps, BroadcastKeeps, ReceiveKeeps, WriteKeeps
       DEF ReaderStep, WriterStep, CloseStep
  <1>7. QED
    BY <1>1, <1>5, <1>6 DEF Next

\* Whatever the connections of a user do, each sees the updates in the order they were
\* broadcast, and as long as nothing has begun to end it, every one since it registered.
THEOREM NothingIsMissed == Spec => []NoSilentGap
  <1>1. GapInv => NoSilentGap
    BY DEF GapInv, Complete, NoSilentGap
  <1>2. HubInv /\ Data /\ [Next]_vars => Data'
    BY DataNext DEF HubInv
  <1>3. QED
    BY <1>1, <1>2, HubInvInit, HubInvNext, DataInit, GapInvInit, GapInvNext, PTL DEF Spec

-----------------------------------------------------------------------------
(* How a connection ends: client.close gets through unregister and conn.Close one    *)
(* after the other, and what each leaves behind lets the goroutines of the connection *)
(* end.                                                                              *)
Ending(c) ==
    /\ conn[c] # "none" => reader[c] # "off" /\ writer[c] # "off"
    /\ conn[c] = "open" => once[c] # "done"
    /\ once[c] = "done" => conn[c] = "closed"
    /\ conn[c] # "none" /\ once[c] \in {"fresh", "unregister"} => c \in members
    /\ once[c] \in {"hangup", "done"} => c \in closed /\ c \notin members
    /\ reader[c] = "gone" \/ writer[c] = "gone" => once[c] = "done"

Endings == \A c \in Clients : Ending(c)

LEMMA EndingsNext == HubInv /\ Endings /\ [Next]_vars => Endings'
  <1> SUFFICES ASSUME HubInv, Endings, [Next]_vars, NEW d \in Clients PROVE Ending(d)'
    BY DEF Endings
  <1> USE DEF HubInv, Shapes, Guarded, Endings, Ending, ReaderGoto, WriterGoto, chanVars, histVars
  <1>1. CASE UNCHANGED <<conn, once, members, closed, reader, writer>>
    BY <1>1
  <1>2. ASSUME NEW c \in Clients, ServeWS(c) PROVE Ending(d)'
    BY <1>2 DEF ServeWS
  <1>3. ASSUME NEW c \in Clients, ReaderStep(c) PROVE Ending(d)'
    <2>1. /\ UNCHANGED <<conn, once, members, closed, writer>>
          /\ reader' = reader \/ \E label \in {"pong", "error", "closing", "reading"} :
                                    reader' = [reader EXCEPT ![c] = label]
          /\ reader[c] \in {"reading", "pong", "error"}
      BY <1>3 DEF ReaderStep, ReadMessage, SendPong, SendError
    <2>2. QED
      BY <2>1
  <1>4. ASSUME NEW c \in Clients, WriterStep(c) PROVE Ending(d)'
    <2>1. /\ UNCHANGED <<conn, once, members, closed, reader>>
          /\ \E label \in {"waiting", "writing", "closing"} :
                writer' = [writer EXCEPT ![c] = label]
      BY <1>4 DEF WriterStep, Receive, Write, PingFails
    <2>2. QED
      BY <2>1
  <1>5. ASSUME NEW c \in Clients, CloseClient(c) PROVE Ending(d)'
    BY <1>5 DEF CloseClient
  <1>6. ASSUME NEW c \in Clients, Unregister(c) PROVE Ending(d)'
    <2>1. c \in members /\ c \notin closed
      BY <1>6 DEF Unregister
    <2>2. /\ members' = members \ {c} /\ closed' = closed \cup {c}
          /\ once' = [once EXCEPT ![c] = "hangup"]
      BY <1>6, <2>1 DEF Unregister
    <2>3. QED
      BY <1>6, <2>1, <2>2 DEF Unregister
  <1>7. ASSUME NEW c \in Clients, Hangup(c) PROVE Ending(d)'
    BY <1>7 DEF Hangup
  <1>8. ASSUME NEW c \in Clients, CloserEnds(c) PROVE Ending(d)'
    BY <1>8 DEF CloserEnds
  <1>9. QED
    BY <1>1, <1>2, <1>3, <1>4, <1>5, <1>6, <1>7, <1>8
       DEF Next, StartBroadcast, BroadcastTo, CloseStep, vars

LEMMA EndingsInvariant == Spec => []Endings
  <1>1. Init => Endings
    BY DEF Init, Endings, Ending
  <1>2. QED
    BY <1>1, HubInvInit, HubInvNext, EndingsNext, PTL DEF Spec

\* Somebody is about to close the connection: a goroutine that calls client.close, or
\* the one that is in it.
Leaving(c) ==
    \/ once[c] = "fresh" /\ (c \in doomed \/ writer[c] = "closing")
    \/ once[c] \in {"unregister", "hangup"}

GapIsNoticed ==
    \A c \in Clients :
        conn[c] = "open" /\ Due(c) \ UpdatesOf(Stream(c)) # {} => Leaving(c)

\* A connection that has missed an update is on its way out, whatever the other
\* connections do: a full buffer is never just skipped.
THEOREM MissedMeansLeaving == Spec => []GapIsNoticed
  <1>1. GapInv /\ Endings /\ HubInv => GapIsNoticed
    <2> SUFFICES ASSUME GapInv, Endings, HubInv, NEW c \in Clients, conn[c] = "open",
                        Due(c) \ UpdatesOf(Stream(c)) # {}
                 PROVE  Leaving(c)
      BY DEF GapIsNoticed
    <2>1. ~Healthy(c)
      BY DEF GapInv, Complete
    <2>2. once[c] \in {"fresh", "unregister", "hangup"}
      BY DEF Endings, Ending, HubInv, Shapes
    <2>3. QED
      BY <2>1, <2>2 DEF Healthy, Leaving
  <1>2. HubInv /\ Data /\ [Next]_vars => Data'
    BY DataNext DEF HubInv
  <1>3. QED
    BY <1>1, <1>2, HubInvInit, HubInvNext, DataInit, GapInvInit, GapInvNext, EndingsInvariant, PTL
       DEF Spec

ClosedIsCleared ==
    \A c \in Clients :
        conn[c] = "closed" => /\ c \notin members /\ c \notin left
                              /\ c \in closed
                              /\ once[c] = "done"

\* A connection that is closed is out of the map and out of the running broadcast, and
\* none of its goroutines waits for what will not come: the writer finds its
\* channel closed, and whoever called client.close finds it done.
THEOREM ClosedMeansCleared == Spec => []ClosedIsCleared
  <1> DEFINE Hung == \A c \in Clients : conn[c] = "closed" => once[c] = "done"
  <1>1. Init => Hung
    BY DEF Init
  <1>2. HubInv /\ Hung /\ [Next]_vars => Hung'
    <2> SUFFICES ASSUME HubInv, Hung, [Next]_vars PROVE Hung'
      OBVIOUS
    <2> USE DEF HubInv, Shapes, Guarded
    <2>1. CASE UNCHANGED <<conn, once>>
      BY <2>1
    <2>2. ASSUME NEW c \in Clients, ServeWS(c) \/ CloseClient(c) \/ Unregister(c) \/ Hangup(c)
          PROVE  Hung'
      BY <2>2 DEF ServeWS, CloseClient, Unregister, Hangup
    <2>3. QED
      BY <2>1, <2>2
         DEF Next, StartBroadcast, BroadcastTo, ReaderStep, ReadMessage, SendPong, SendError,
             WriterStep, Receive, Write, PingFails, CloseStep, CloserEnds, vars
  <1>3. HubInv /\ Endings /\ Hung => ClosedIsCleared
    BY DEF HubInv, Guarded, Endings, Ending, ClosedIsCleared
  <1> HIDE DEF Hung
  <1>4. QED
    BY <1>1, <1>2, <1>3, HubInvInit, HubInvNext, EndingsInvariant, PTL DEF Spec

=============================================================================
