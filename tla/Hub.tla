--------------------------------- MODULE Hub ---------------------------------
(***************************************************************************)
(* The websocket hub of the API process (realtime/hub.go), for the         *)
(* connections of one user: registration, the broadcast loop, the two      *)
(* goroutines of each connection, and its closing.                         *)
(*                                                                         *)
(* One goroutine broadcasts (Subscriber.Run).  It holds the hub's mutex    *)
(* for reading while left # {}; register and unregister take it for        *)
(* writing.  A channel operation, a message on the wire and a section under *)
(* the mutex are one step each.                                            *)
(***************************************************************************)
EXTENDS Naturals, Sequences, FiniteSets

CONSTANTS
    Clients,    (* the connections of the user, each made once               *)
    Buffer,     (* capacity of client.send (16 in the code)                  *)
    MaxEvents,  (* bound: job updates broadcast                              *)
    Pong,       (* the messages that are not job updates                     *)
    Error,
    NoPayload   (* writePump is writing nothing                              *)

\* A job update is its number in the order of the broadcasts.
Events == 1..MaxEvents
Messages == Events \cup {Pong, Error}
IsEvent(msg) == msg \notin {Pong, Error}

ASSUME HubAssumption ==
    /\ Buffer \in Nat \ {0}
    /\ MaxEvents \in Nat
    /\ Pong \notin Events /\ Error \notin Events
    /\ NoPayload \notin Messages

VARIABLES
    members,  (* hub.clients of the user                                     *)
    left,     (* the clients the running broadcast has still to serve        *)
    issued,   (* number of broadcasts so far: the event of the running one   *)
    send,     (* contents of the channel of each client                      *)
    closed,   (* the clients whose channel is closed                         *)
    conn,     (* the connection: not made yet, open or closed                *)
    once,     (* client.close: not called, in unregister, in conn.Close, done *)
    doomed,   (* the clients with a close goroutine of a broadcast           *)
    reader,   (* position of readPump                                        *)
    writer,   (* position of writePump                                       *)
    payload,  (* what writePump is writing                                   *)
    since,    (* events broadcast before the client registered               *)
    written,  (* events the client was sent                                  *)
    panic     (* the operation that panicked and ended the process           *)

chanVars == <<send, closed>>
histVars == <<since, written>>
vars == <<members, left, issued, send, closed, conn, once, doomed, reader, writer,
          payload, since, written, panic>>

-----------------------------------------------------------------------------
Init ==
    /\ members = {} /\ left = {} /\ issued = 0
    /\ send = [c \in Clients |-> <<>>]
    /\ closed = {}
    /\ conn = [c \in Clients |-> "none"]
    /\ once = [c \in Clients |-> "fresh"]
    /\ doomed = {}
    /\ reader = [c \in Clients |-> "off"]
    /\ writer = [c \in Clients |-> "off"]
    /\ payload = [c \in Clients |-> NoPayload]
    /\ since = [c \in Clients |-> 0]
    /\ written = [c \in Clients |-> <<>>]
    /\ panic = "no"

ReaderGoto(c, label) == reader' = [reader EXCEPT ![c] = label]
WriterGoto(c, label) == writer' = [writer EXCEPT ![c] = label]

\* Mutant: one message too many.
HasRoomLate(c) == Len(send[c]) <= Buffer

HasRoom(c) == Len(send[c]) < Buffer
Put(c, msg) == send' = [send EXCEPT ![c] = Append(@, msg)]

\* ServeWS: upgrade, register under the mutex, start both goroutines.
ServeWS(c) ==
    /\ conn[c] = "none"
    /\ left = {}
    /\ conn' = [conn EXCEPT ![c] = "open"]
    /\ members' = members \cup {c}
    /\ since' = [since EXCEPT ![c] = issued]
    /\ ReaderGoto(c, "reading")
    /\ WriterGoto(c, "waiting")
    /\ UNCHANGED <<left, issued, chanVars, once, doomed, payload, written, panic>>

-----------------------------------------------------------------------------
\* broadcast takes the mutex; without clients there is nothing to do.
StartBroadcast ==
    /\ left = {}
    /\ issued < MaxEvents
    /\ issued' = issued + 1
    /\ left' = members
    /\ UNCHANGED <<members, chanVars, conn, once, doomed, reader, writer, payload, histVars, panic>>

\* Mutant: a slow client is skipped and not closed.
SkipSlowClient(c) ==
    /\ c \in left
    /\ left' = left \ {c}
    /\ IF HasRoom(c) THEN Put(c, issued) ELSE UNCHANGED send
    /\ UNCHANGED <<members, issued, closed, conn, once, doomed, reader, writer, payload, histVars, panic>>

\* Mutant: the oldest message makes room.
DropOldest(c) ==
    /\ c \in left
    /\ left' = left \ {c}
    /\ send' = [send EXCEPT ![c] = Append(IF HasRoom(c) THEN @ ELSE Tail(@), issued)]
    /\ UNCHANGED <<members, issued, closed, conn, once, doomed, reader, writer, payload, histVars, panic>>

\* broadcast, one client, in the order of a Go map: a send that never blocks, and
\* "go c.close()" if the buffer is full.
BroadcastTo(c) ==
    /\ c \in left
    /\ left' = left \ {c}
    /\ IF c \in closed
       THEN panic' = "broadcast" /\ UNCHANGED <<send, doomed>>
       ELSE /\ IF HasRoom(c)
               THEN Put(c, issued) /\ UNCHANGED doomed
               ELSE doomed' = doomed \cup {c} /\ UNCHANGED send
            /\ UNCHANGED panic
    /\ UNCHANGED <<members, issued, closed, conn, once, reader, writer, payload, histVars>>

-----------------------------------------------------------------------------
\* ReadMessage: a ping; a message of any other kind; or an error, because the
\* peer went away or was silent for pongWait, or because the connection was closed.
ReadMessage(c) ==
    /\ reader[c] = "reading"
    /\ \/ conn[c] = "open" /\ ReaderGoto(c, "pong")
       \/ conn[c] = "open" /\ ReaderGoto(c, "error")
       \/ ReaderGoto(c, "closing")
    /\ UNCHANGED <<members, left, issued, chanVars, conn, once, doomed, writer, payload, histVars, panic>>

\* The answer to a ping: a send that never blocks; without room the connection
\* ends.  The mutex is not held, so the channel may have been closed.
SendPong(c) ==
    /\ reader[c] = "pong"
    /\ \/ /\ c \notin closed /\ HasRoom(c)
          /\ Put(c, Pong)
          /\ ReaderGoto(c, "reading")
          /\ UNCHANGED panic
       \/ /\ c \notin closed /\ ~HasRoom(c)
          /\ ReaderGoto(c, "closing")
          /\ UNCHANGED <<send, panic>>
       \/ /\ c \in closed
          /\ panic' = "pong"
          /\ UNCHANGED <<send, reader>>
    /\ UNCHANGED <<members, left, issued, closed, conn, once, doomed, writer, payload, histVars>>

\* sendError, and the end of readPump.
SendError(c) ==
    /\ reader[c] = "error"
    /\ \/ /\ c \notin closed
          /\ IF HasRoom(c) THEN Put(c, Error) ELSE UNCHANGED send
          /\ ReaderGoto(c, "closing")
          /\ UNCHANGED panic
       \/ /\ c \in closed
          /\ panic' = "error"
          /\ UNCHANGED <<send, reader>>
    /\ UNCHANGED <<members, left, issued, closed, conn, once, doomed, writer, payload, histVars>>

-----------------------------------------------------------------------------
\* writePump receives: what is in the channel, also after it was closed; then
\* that it is closed.
Receive(c) ==
    /\ writer[c] = "waiting"
    /\ \/ /\ send[c] # <<>>
          /\ payload' = [payload EXCEPT ![c] = Head(send[c])]
          /\ send' = [send EXCEPT ![c] = Tail(@)]
          /\ WriterGoto(c, "writing")
       \/ /\ send[c] = <<>> /\ c \in closed
          /\ WriterGoto(c, "closing")
          /\ UNCHANGED <<send, payload>>
    /\ UNCHANGED <<members, left, issued, closed, conn, once, doomed, reader, histVars, panic>>

\* WriteMessage within writeWait; a closed connection always fails, an open one may.
Write(c) ==
    /\ writer[c] = "writing"
    /\ payload' = [payload EXCEPT ![c] = NoPayload]
    /\ \/ /\ conn[c] = "open"
          /\ written' = IF IsEvent(payload[c])
                        THEN [written EXCEPT ![c] = Append(@, payload[c])] ELSE written
          /\ WriterGoto(c, "waiting")
       \/ WriterGoto(c, "closing") /\ UNCHANGED written
    /\ UNCHANGED <<members, left, issued, chanVars, conn, once, doomed, reader, since, panic>>

\* The ticker: a ping frame that cannot be written ends writePump.
PingFails(c) ==
    /\ writer[c] = "waiting"
    /\ WriterGoto(c, "closing")
    /\ UNCHANGED <<members, left, issued, chanVars, conn, once, doomed, reader, payload, histVars, panic>>

-----------------------------------------------------------------------------
\* client.close: once.Do lets the first caller in.
CloseClient(c) ==
    /\ once[c] = "fresh"
    /\ reader[c] = "closing" \/ writer[c] = "closing" \/ c \in doomed
    /\ once' = [once EXCEPT ![c] = "unregister"]
    /\ UNCHANGED <<members, left, issued, chanVars, conn, doomed, reader, writer, payload, histVars, panic>>

\* Mutant: the channel is closed without the mutex.
UnregisterUnlocked(c) ==
    /\ once[c] = "unregister"
    /\ members' = members \ {c}
    /\ closed' = closed \cup {c}
    /\ once' = [once EXCEPT ![c] = "hangup"]
    /\ UNCHANGED <<left, issued, send, conn, doomed, reader, writer, payload, histVars, panic>>

\* unregister, under the mutex: take the client out of the map and close its channel;
\* nothing if the user has no client.  Closing a closed channel panics.
Unregister(c) ==
    /\ once[c] = "unregister"
    /\ left = {}
    /\ members' = members \ {c}
    /\ IF members # {} /\ c \in closed
       THEN panic' = "close" /\ UNCHANGED <<closed, once>>
       ELSE /\ closed' = IF members = {} THEN closed ELSE closed \cup {c}
            /\ once' = [once EXCEPT ![c] = "hangup"]
            /\ UNCHANGED panic
    /\ UNCHANGED <<left, issued, send, conn, doomed, reader, writer, payload, histVars>>

\* Mutant: the connection stays open.
NoHangup(c) ==
    /\ once[c] = "hangup"
    /\ once' = [once EXCEPT ![c] = "done"]
    /\ UNCHANGED <<members, left, issued, chanVars, conn, doomed, reader, writer, payload, histVars, panic>>

\* conn.Close ends client.close.
Hangup(c) ==
    /\ once[c] = "hangup"
    /\ conn' = [conn EXCEPT ![c] = "closed"]
    /\ once' = [once EXCEPT ![c] = "done"]
    /\ UNCHANGED <<members, left, issued, chanVars, doomed, reader, writer, payload, histVars, panic>>

\* Every caller of client.close waits in once.Do for the first; then it is gone.
CloserEnds(c) ==
    /\ once[c] = "done"
    /\ \/ reader[c] = "closing" /\ ReaderGoto(c, "gone") /\ UNCHANGED <<writer, doomed>>
       \/ writer[c] = "closing" /\ WriterGoto(c, "gone") /\ UNCHANGED <<reader, doomed>>
       \/ c \in doomed /\ doomed' = doomed \ {c} /\ UNCHANGED <<reader, writer>>
    /\ UNCHANGED <<members, left, issued, chanVars, conn, once, payload, histVars, panic>>

-----------------------------------------------------------------------------
ReaderStep(c) == ReadMessage(c) \/ SendPong(c) \/ SendError(c)
WriterStep(c) == Receive(c) \/ Write(c) \/ PingFails(c)
CloseStep(c) == CloseClient(c) \/ Unregister(c) \/ Hangup(c) \/ CloserEnds(c)

Next ==
    /\ panic = "no"
    /\ \/ StartBroadcast
       \/ \E c \in Clients :
            ServeWS(c) \/ BroadcastTo(c) \/ ReaderStep(c) \/ WriterStep(c) \/ CloseStep(c)

Spec == Init /\ [][Next]_vars

\* Goroutines run.  The mutex is fair to writers.  A write ends within its deadline;
\* nothing makes a peer send, and readPump is only sure to end when the connection
\* is closed.
Fairness ==
    \A c \in Clients :
        /\ WF_vars(panic = "no" /\ BroadcastTo(c))
        /\ WF_vars(panic = "no" /\ (SendPong(c) \/ SendError(c)))
        /\ WF_vars(panic = "no" /\ conn[c] = "closed" /\ ReadMessage(c))
        /\ WF_vars(panic = "no" /\ (Receive(c) \/ Write(c)))
        /\ WF_vars(panic = "no" /\ CloseClient(c))
        /\ SF_vars(panic = "no" /\ Unregister(c))
        /\ WF_vars(panic = "no" /\ Hangup(c))
        /\ WF_vars(panic = "no" /\ CloserEnds(c))

FairSpec == Spec /\ Fairness

-----------------------------------------------------------------------------
TypeOK ==
    /\ members \subseteq Clients
    /\ left \subseteq Clients
    /\ issued \in 0..MaxEvents
    /\ send \in [Clients -> Seq(Messages)]
    /\ \A c \in Clients : Len(send[c]) <= Buffer
    /\ closed \subseteq Clients
    /\ conn \in [Clients -> {"none", "open", "closed"}]
    /\ once \in [Clients -> {"fresh", "unregister", "hangup", "done"}]
    /\ doomed \subseteq Clients
    /\ reader \in [Clients -> {"off", "reading", "pong", "error", "closing", "gone"}]
    /\ writer \in [Clients -> {"off", "waiting", "writing", "closing", "gone"}]
    /\ payload \in [Clients -> Messages \cup {NoPayload}]
    /\ since \in [Clients -> 0..MaxEvents]
    /\ written \in [Clients -> Seq(Events)]
    /\ panic \in {"no", "broadcast", "close", "pong", "error"}

\* The hub's own goroutines never end the process: a broadcast does not send to
\* a closed channel, and no channel is closed twice, whoever calls close.
HubNeverPanics == panic \notin {"broadcast", "close"}

\* What a client was sent and what is on its way to it, in order.
Stream(c) ==
    written[c] \o (IF payload[c] = NoPayload THEN <<>> ELSE <<payload[c]>>) \o send[c]

\* The updates in a list of messages.
UpdatesOf(list) == {list[i] : i \in {k \in 1..Len(list) : IsEvent(list[k])}}

InOrder(list) ==
    \A i, k \in 1..Len(list) :
        i < k /\ IsEvent(list[i]) /\ IsEvent(list[k]) => list[i] < list[k]

\* The updates broadcast to a client since it registered.
Due(c) == since[c] + 1 .. (IF c \in left THEN issued - 1 ELSE issued)

\* Nothing has begun to end the connection yet.
Healthy(c) ==
    conn[c] = "open" /\ once[c] = "fresh" /\ c \notin doomed /\ writer[c] # "closing"

\* A client sees the updates in order, and, until its connection is being ended,
\* every one of them since it registered: there is no silent gap.
NoSilentGap ==
    \A c \in Clients :
        /\ InOrder(Stream(c))
        /\ Healthy(c) => UpdatesOf(Stream(c)) = Due(c)

\* A client that was too slow is disconnected, so that it can connect anew and
\* read what it missed.
SlowClientIsCut ==
    \A c \in Clients :
        conn[c] = "open" /\ Due(c) \ UpdatesOf(Stream(c)) # {}
            ~> conn[c] = "closed" \/ panic # "no"

\* Nothing of a connection that ends stays behind: both goroutines end and the
\* client leaves the map.
NothingLeaks ==
    \A c \in Clients :
        once[c] # "fresh"
            ~> \/ reader[c] = "gone" /\ writer[c] = "gone" /\ c \notin members
               \/ panic # "no"

\* The protocol of the API documentation: a ping is answered with a pong; at worst
\* the connection ends.
PingIsAnswered ==
    \A c \in Clients : reader[c] = "pong" ~> reader[c] # "pong"

=============================================================================
