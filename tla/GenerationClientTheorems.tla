----------------------- MODULE GenerationClientTheorems -----------------------
(***************************************************************************)
(* What the generation flow of the app guarantees for any forms, any       *)
(* number of submissions and connections, and any loss of updates.         *)
(***************************************************************************)
EXTENDS GenerationClient, TLAPS

\* Types, by groups of variables.  No error that validate() reports is ever kept: the
\* screen is there and clears it.
ScreenTyped ==
    /\ form \in Forms /\ screen \in {"generation", "library"}
    /\ routes \in {<<>>, <<"dialog">>, <<"player">>}

SubmitTyped ==
    /\ submits \in 0..MaxSubmits
    /\ phase \in {"idle", "deviceId", "posting"}
    /\ request \in Requests \cup {NoRequest}

StateTyped ==
    /\ submitting \in BOOLEAN /\ error \in {"none", "exception", "failed"}
    /\ completed \in 0..MaxSubmits

SocketTyped ==
    /\ listening \in 0..MaxSubmits
    /\ chan \in [Channels -> {"off", "connecting", "open"}]
    /\ timers \in Nat

InboxTyped == inbox \in [Channels -> Seq(Updates)]

ApiTyped ==
    /\ job \in [Submits -> Statuses]
    /\ tracks \subseteq Submits /\ deleting \in 0..MaxSubmits
    /\ bus \in Seq(Submits)

HistTyped == shown \in [Submits -> Nat] /\ missed \in BOOLEAN

TypeInv == /\ ScreenTyped /\ SubmitTyped /\ StateTyped /\ SocketTyped /\ InboxTyped
           /\ ApiTyped /\ HistTyped

\* What is being sent was built from a form and let through by the app.
Asked ==
    phase = "posting" => Sendable(request) /\ \E f \in Forms : request = BuildRequest(f)

\* One submission at a time, and the subscription is for it.
Waiting ==
    /\ SubmittingIsBacked
    /\ phase # "idle" => listening = 0 /\ submits # 0
    /\ listening \in {0, submits}

\* Outcomes are counted per submission; what was not submitted does not exist.
Counted ==
    /\ OneOutcome
    /\ \A n \in Submits : n > submits => shown[n] = 0 /\ job[n] = "absent" /\ n \notin tracks

\* A submission starts without an error, and its track is not the last one shown.
Fresh ==
    /\ completed <= submits
    /\ submitting => error = NoError /\ completed # submits

\* What is on top: the dialog over the screen that waits, or a player where nothing
\* is awaited.
OnTop ==
    /\ routes = <<"dialog">> => screen = "generation" /\ submitting
    /\ routes = <<"player">> /\ screen = "generation" => ~submitting

InInbox(update) == \E c \in Channels : \E k \in 1..Len(inbox[c]) : update = inbox[c][k]

\* Updates are about submissions, and as long as the dialog keeps the user from the
\* library, a ready job has its tracks.
News ==
    /\ \A k \in 1..Len(bus) : bus[k] <= submits
    /\ \A update \in Updates : InInbox(update) => update.job <= submits
    /\ deleting <= submits
    /\ routes = <<"dialog">> =>
          /\ deleting # submits
          /\ job[submits] = "ready" => submits \in tracks
          /\ \A update \in Updates :
                InInbox(update) /\ update.job = submits /\ update.status = "ready"
                    => update.tracks

Inv == TypeInv /\ Waiting /\ Counted /\ Fresh /\ OnTop /\ News /\ Asked

-----------------------------------------------------------------------------
\* Texts stay texts: what the app and Normalize do to them.
LEMMA TrimIsText == ASSUME NEW t \in Texts
                    PROVE  /\ Trim(t) \in Texts
                           /\ Trim(t).chars = t.chars /\ Trim(t).bytes = t.bytes
                           /\ Trim(t) # Missing
BY MissingAssumption DEF Texts, Trim

LEMMA RequestIsTyped == ASSUME NEW f \in Forms PROVE BuildRequest(f) \in Requests
<1>1. f \in FormSpace /\ Style \in Texts /\ Untitled \in Texts
  BY ClientAssumption
<1>2. f.prompt \in Texts /\ f.name \in Texts /\ f.gender \in Genders \cup {Missing}
      /\ f.instrumental \in BOOLEAN
  BY <1>1 DEF FormSpace
<1>3. Trim(f.prompt) \in Texts /\ Trim(f.name) \in Texts
  BY <1>2, TrimIsText
<1>4. UsesAdvanced(f) \in BOOLEAN
  BY <1>2 DEF UsesAdvanced, Blank
<1> DEFINE custom == f.mode = "lyrics" \/ UsesAdvanced(f)
           title == IF Blank(f.name) THEN Untitled ELSE Trim(f.name)
           When(value) == IF custom THEN value ELSE Missing
<1>5. BuildRequest(f) = [prompt |-> Trim(f.prompt), custom |-> custom, style |-> When(Style),
          title |-> When(title), instrumental |-> f.instrumental, model |-> "V4_5ALL",
          gender |-> When(f.gender), tags |-> Missing]
  BY DEF BuildRequest
<1>6. custom \in BOOLEAN /\ title \in Texts
  BY <1>1, <1>3, <1>4
<1>7. When(Style) \in Texts \cup {Missing} /\ When(title) \in Texts \cup {Missing}
      /\ When(f.gender) \in Genders \cup {Missing}
  BY <1>1, <1>2, <1>6
<1>8. "V4_5ALL" \in Models \cup {"", "unknown"} /\ Missing \in Texts \cup {Missing}
      /\ When(f.gender) \in Genders \cup {"", "unknown", Missing}
  BY <1>7 DEF Models
<1> HIDE DEF custom, title, When
<1>9. [prompt |-> Trim(f.prompt), custom |-> custom, style |-> When(Style),
       title |-> When(title), instrumental |-> f.instrumental, model |-> "V4_5ALL",
       gender |-> When(f.gender), tags |-> Missing] \in Requests
  BY <1>2, <1>3, <1>6, <1>7, <1>8, Zenon DEF Requests
<1> QED
  BY <1>5, <1>9, Zenon

\* A sequence and its tail, a sequence and one more element.
LEMMA TailElements == ASSUME NEW S, NEW s \in Seq(S), s # <<>>,
                             NEW k \in 1..Len(Tail(s))
                      PROVE  k + 1 \in 1..Len(s) /\ Tail(s)[k] = s[k + 1]
OBVIOUS

LEMMA AppendElements == ASSUME NEW S, NEW s \in Seq(S), NEW e \in S,
                               NEW k \in 1..Len(Append(s, e))
                        PROVE  Append(s, e)[k] = e \/
                               (k \in 1..Len(s) /\ Append(s, e)[k] = s[k])
OBVIOUS

-----------------------------------------------------------------------------
LEMMA TypesAreTyped == TypeInv => TypeOK
BY DEF TypeInv, ScreenTyped, SubmitTyped, StateTyped, SocketTyped, InboxTyped, ApiTyped,
   HistTyped, TypeOK, Errors, NoError

\* At most one route lies over the tabs, so closing it leaves none.
LEMMA PoppedIsEmpty == ScreenTyped => Popped = <<>>
<1>1. SubSeq(<<"dialog">>, 1, Len(<<"dialog">>) - 1) = <<>>
  OBVIOUS
<1>2. SubSeq(<<"player">>, 1, Len(<<"player">>) - 1) = <<>>
  OBVIOUS
<1> QED
  BY <1>1, <1>2 DEF ScreenTyped, Popped, CanPop

LEMMA InitInv == Init => Inv
<1> SUFFICES ASSUME Init PROVE Inv
  OBVIOUS
<1>1. MaxSubmits \in Nat /\ InitialForm \in Forms
  BY ClientAssumption
<1>2. ScreenTyped /\ SubmitTyped /\ StateTyped
  <2>1. form = InitialForm /\ screen = "generation" /\ routes = <<>>
    BY Zenon DEF Init
  <2>2. phase = "idle" /\ request = NoRequest /\ submits = 0
    BY DEF Init
  <2>3. submitting = FALSE /\ error = "none" /\ completed = 0
    BY Zenon DEF Init, NoError
  <2>4. ScreenTyped
    BY <1>1, <2>1, Zenon DEF ScreenTyped
  <2>5. SubmitTyped
    BY <1>1, <2>2 DEF SubmitTyped
  <2>6. 0 \in 0..MaxSubmits
    BY <1>1
  <2>7. StateTyped
    BY <2>3, <2>6, Zenon DEF StateTyped
  <2> QED
    BY <2>4, <2>5, <2>7
<1>3. SocketTyped /\ InboxTyped
  BY <1>1 DEF Init, SocketTyped, InboxTyped
<1>4. ApiTyped /\ HistTyped
  <2>1. job \in [Submits -> Statuses] /\ shown \in [Submits -> Nat]
    BY DEF Init, Statuses
  <2>2. tracks = {} /\ deleting = 0 /\ bus = <<>> /\ missed = FALSE
    BY DEF Init
  <2>3. 0 \in 0..MaxSubmits /\ <<>> \in Seq(Submits) /\ {} \subseteq Submits /\ FALSE \in BOOLEAN
    BY <1>1
  <2> QED
    BY <2>1, <2>2, <2>3, Zenon DEF ApiTyped, HistTyped
<1>5. Waiting /\ Counted
  BY <1>1 DEF Init, Waiting, SubmittingIsBacked, Counted, OneOutcome, Submits
<1>6. Fresh /\ OnTop
  BY <1>1 DEF Init, Fresh, OnTop
<1>7. \A update \in Updates : ~InInbox(update)
  BY DEF Init, InInbox
<1>8. News
  BY <1>1, <1>7 DEF Init, News
<1>9. Asked
  BY DEF Init, Asked
<1> QED
  BY <1>2, <1>3, <1>4, <1>5, <1>6, <1>8, <1>9 DEF Inv, TypeInv

-----------------------------------------------------------------------------
\* The types of each group, one step per action that changes it.
LEMMA ScreenStep == ASSUME Inv, [Next]_vars PROVE ScreenTyped'
<1> USE DEF ScreenTyped
<1>0. ScreenTyped
  BY DEF Inv, TypeInv
<1>1. Popped = <<>>
  BY <1>0, PoppedIsEmpty
<1>2. ASSUME UNCHANGED screenVars PROVE ScreenTyped'
  BY <1>0, <1>2 DEF screenVars
<1>3. CASE EditForm \/ SwitchTab \/ OpenFromLibrary
  BY <1>0, <1>3 DEF EditForm, SwitchTab, OpenFromLibrary
<1>4. CASE Back
  BY <1>0, <1>1, <1>4 DEF Back
<1>5. CASE Press \/ PressBlank
  BY <1>0, <1>5 DEF Press, PressBlank
<1>6. CASE SubmitFails
  BY <1>0, <1>1, <1>6 DEF SubmitFails, EndWithError, ShowError
<1>7. ASSUME NEW c \in Channels, Deliver(c) PROVE ScreenTyped'
  <2>1. form' = form /\ screen' = screen
    BY <1>7 DEF Deliver
  <2>2. routes' = routes \/ routes' = Popped \/ routes' = Append(Popped, "player")
    BY <1>7 DEF Deliver, Outcome, ShowTrack, ShowError
  <2> QED
    BY <1>0, <1>1, <2>1, <2>2
<1>8. CASE AppStops
  BY <1>8, ClientAssumption DEF AppStops
<1>9. CASE Send \/ CreateJob \/ Listen \/ \E n \in Submits : AskDeletion(n)
  BY <1>2, <1>9 DEF Send, CreateJob, Listen, AskDeletion
<1>10. ASSUME NEW c \in Channels,
              ConnectionUp(c) \/ ConnectFails(c) \/ ConnectionLost(c) \/ Reconnect(c)
       PROVE  ScreenTyped'
  BY <1>2, <1>10 DEF ConnectionUp, ConnectFails, ConnectionLost, Reconnect
<1>11. CASE Broadcast \/ \E n \in Submits : JobAdvances(n)
  BY <1>2, <1>11 DEF Broadcast, JobAdvances, Advance
<1>13. CASE DeleteTracks
  BY <1>0, <1>1, <1>13 DEF DeleteTracks
<1>12. CASE UNCHANGED vars
  BY <1>2, <1>12 DEF vars
<1> QED
  BY <1>3, <1>4, <1>5, <1>6, <1>7, <1>8, <1>9, <1>10, <1>11, <1>12, <1>13
  DEF Next, User, Submit, Socket, Api

LEMMA SubmitStep == ASSUME Inv, [Next]_vars PROVE SubmitTyped'
<1> USE DEF SubmitTyped
<1>0. SubmitTyped /\ ScreenTyped /\ MaxSubmits \in Nat
  BY ClientAssumption DEF Inv, TypeInv
<1>1. ASSUME UNCHANGED submitVars PROVE SubmitTyped'
  BY <1>0, <1>1 DEF submitVars
<1>2. CASE Press
  BY <1>0, <1>2 DEF Press
<1>3. CASE Send
  BY <1>0, <1>3, RequestIsTyped DEF Send, ScreenTyped
<1>4. CASE SubmitFails \/ Listen \/ AppStops
  BY <1>0, <1>4 DEF SubmitFails, Listen, AppStops
<1>5. CASE \/ EditForm \/ SwitchTab \/ OpenFromLibrary \/ Back \/ PressBlank \/ CreateJob
          \/ \E n \in Submits : AskDeletion(n)
  BY <1>1, <1>5 DEF EditForm, SwitchTab, OpenFromLibrary, Back, PressBlank, CreateJob,
     AskDeletion
<1>6. CASE Socket
  BY <1>1, <1>6 DEF Socket, ConnectionUp, ConnectFails, ConnectionLost, Reconnect, Deliver
<1>7. CASE Api
  BY <1>1, <1>7 DEF Api, Broadcast, JobAdvances, Advance, DeleteTracks
<1>8. CASE UNCHANGED vars
  BY <1>1, <1>8 DEF vars
<1> QED
  BY <1>2, <1>3, <1>4, <1>5, <1>6, <1>7, <1>8 DEF Next, User, Submit

LEMMA StateStep == ASSUME Inv, [Next]_vars PROVE StateTyped'
<1> USE DEF StateTyped
<1>0. StateTyped /\ listening \in 0..MaxSubmits /\ MaxSubmits \in Nat
  BY ClientAssumption DEF Inv, TypeInv, SocketTyped
<1>1. ASSUME UNCHANGED stateVars PROVE StateTyped'
  BY <1>0, <1>1, Zenon DEF stateVars
<1>2. CASE Press
  BY <1>0, <1>2, Zenon DEF Press, NoError
<1>3. CASE PressBlank
  <2>1. error # "blank"
    BY <1>0
  <2>2. submitting' = submitting /\ completed' = completed /\ error' = NoError
    BY <1>3, <2>1, Zenon DEF PressBlank
  <2> QED
    BY <1>0, <2>2, Zenon DEF NoError
<1>4. CASE SubmitFails
  <2>1. submitting' = FALSE /\ completed' = completed /\ error' \in {NoError, "exception"}
    BY <1>4, Zenon DEF SubmitFails, EndWithError, ShowError
  <2> QED
    BY <1>0, <2>1, Zenon DEF NoError
<1>5. CASE AppStops
  <2>1. 0 \in 0..MaxSubmits
    BY <1>0
  <2> QED
    BY <1>5, <2>1, Zenon DEF AppStops, NoError
<1>6. ASSUME NEW c \in Channels, Deliver(c) PROVE StateTyped'
  <2> DEFINE update == Head(inbox[c])
             n == IF update.tracks THEN update.job ELSE 0
  <2>1. CASE ~(IsOurs(update) /\ update.status \in Awaited)
    BY <1>1, <1>6, <2>1 DEF Deliver
  <2>2. CASE IsOurs(update) /\ update.status \in Awaited
    <3>1. Outcome(update)
      BY <1>6, <2>2, Zenon DEF Deliver
    <3>2. CASE update.status = "ready"
      <4>1. submitting' = FALSE /\ error' = error /\ completed' \in {0, n}
        BY <3>1, <3>2, Zenon DEF Outcome, ShowTrack
      <4>2. n \in 0..MaxSubmits
        BY <1>0, <2>2 DEF IsOurs
      <4>3. 0 \in 0..MaxSubmits
        BY <1>0
      <4> QED
        BY <1>0, <4>1, <4>2, <4>3, Zenon
    <3>3. CASE update.status # "ready"
      <4>1. submitting' = FALSE /\ completed' = completed /\ error' \in {NoError, "failed"}
        BY <3>1, <3>3, Zenon DEF Outcome, ShowError
      <4> QED
        BY <1>0, <4>1, Zenon DEF NoError
    <3> QED
      BY <3>2, <3>3
  <2> QED
    BY <2>1, <2>2
<1>7. CASE \/ EditForm \/ SwitchTab \/ OpenFromLibrary \/ Back \/ Send \/ CreateJob \/ Listen
          \/ \E n \in Submits : AskDeletion(n)
  BY <1>1, <1>7 DEF EditForm, SwitchTab, OpenFromLibrary, Back, Send, CreateJob, Listen,
     AskDeletion
<1>8. ASSUME NEW c \in Channels,
             ConnectionUp(c) \/ ConnectFails(c) \/ ConnectionLost(c) \/ Reconnect(c)
      PROVE  StateTyped'
  BY <1>1, <1>8 DEF ConnectionUp, ConnectFails, ConnectionLost, Reconnect
<1>9. CASE Api
  BY <1>1, <1>9 DEF Api, Broadcast, JobAdvances, Advance, DeleteTracks
<1>10. CASE UNCHANGED vars
  BY <1>1, <1>10 DEF vars
<1> QED
  BY <1>2, <1>3, <1>4, <1>5, <1>6, <1>7, <1>8, <1>9, <1>10
  DEF Next, User, Submit, Socket

\* What waits on a connection, and what it waits for.
LEMMA SocketStep == ASSUME Inv, [Next]_vars PROVE SocketTyped'
<1> USE DEF SocketTyped
<1>0. SocketTyped /\ SubmitTyped /\ MaxSubmits \in Nat
  BY ClientAssumption DEF Inv, TypeInv
<1>1. ASSUME UNCHANGED <<listening, chan, timers>> PROVE SocketTyped'
  BY <1>0, <1>1
<1>2. ASSUME Unsubscribe PROVE SocketTyped'
  BY <1>0, <1>2 DEF Unsubscribe
<1>3. CASE Listen
  BY <1>0, <1>3 DEF Listen, SubmitTyped
<1>4. ASSUME NEW c \in Channels,
             ConnectionUp(c) \/ ConnectFails(c) \/ ConnectionLost(c) \/ Reconnect(c)
      PROVE  SocketTyped'
  BY <1>0, <1>4 DEF ConnectionUp, ConnectFails, ConnectionLost, Reconnect
<1>5. ASSUME NEW c \in Channels, Deliver(c) PROVE SocketTyped'
  BY <1>1, <1>2, <1>5 DEF Deliver
<1>6. CASE User
  BY <1>1, <1>6 DEF User, EditForm, SwitchTab, OpenFromLibrary, Back, Press, PressBlank,
     AskDeletion, socketVars
<1>7. CASE Send \/ SubmitFails \/ CreateJob
  BY <1>1, <1>7 DEF Send, SubmitFails, CreateJob, socketVars
<1>8. CASE Api
  BY <1>1, <1>8 DEF Api, Broadcast, JobAdvances, Advance, DeleteTracks, socketVars
<1>9. CASE AppStops
  BY <1>2, <1>9 DEF AppStops
<1>10. CASE UNCHANGED vars
  BY <1>1, <1>10 DEF vars, socketVars
<1> QED
  BY <1>3, <1>4, <1>5, <1>6, <1>7, <1>8, <1>9, <1>10 DEF Next, Submit, Socket

\* What is in an inbox after a step was there before, or is what Broadcast says of the
\* job at the head of the bus.
LEMMA InboxStep == ASSUME Inv, [Next]_vars PROVE InboxTyped'
<1> USE DEF InboxTyped
<1>0. InboxTyped /\ ApiTyped
  BY DEF Inv, TypeInv
<1>1. ASSUME UNCHANGED inbox PROVE InboxTyped'
  BY <1>0, <1>1
<1>2. ASSUME Unsubscribe PROVE InboxTyped'
  BY <1>0, <1>2 DEF Unsubscribe
<1>3. CASE Listen
  BY <1>0, <1>3 DEF Listen
<1>4. ASSUME NEW c \in Channels, ConnectionLost(c) PROVE InboxTyped'
  BY <1>0, <1>4 DEF ConnectionLost
<1>5. ASSUME NEW c \in Channels, Deliver(c) PROVE InboxTyped'
  <2>1. CASE Unsubscribe
    BY <1>2, <2>1
  <2>2. CASE Received(c) /\ inbox[c] # <<>>
    <3>1. Tail(inbox[c]) \in Seq(Updates)
      BY <1>0, <2>2
    <3> QED
      BY <1>0, <2>2, <3>1 DEF Received
  <2> QED
    BY <1>5, <2>1, <2>2 DEF Deliver
<1>6. CASE Broadcast
  <2> DEFINE n == Head(bus)
             update == [job |-> n, status |-> job[n], tracks |-> n \in tracks]
  <2>1. n \in Submits
    BY <1>0, <1>6 DEF Broadcast, ApiTyped
  <2>2. update \in Updates
    BY <1>0, <2>1 DEF ApiTyped, Updates
  <2> HIDE DEF n, update
  <2>3. PICK reached \in SUBSET Channels :
          inbox' = [c \in Channels |->
                       IF c \in reached THEN Append(inbox[c], update) ELSE inbox[c]]
    BY <1>6 DEF Broadcast, n, update
  <2> QED
    BY <1>0, <2>2, <2>3
<1>7. CASE User
  BY <1>1, <1>7 DEF User, EditForm, SwitchTab, OpenFromLibrary, Back, Press, PressBlank,
     AskDeletion, socketVars
<1>8. CASE Send \/ SubmitFails \/ CreateJob
  BY <1>1, <1>8 DEF Send, SubmitFails, CreateJob, socketVars
<1>9. ASSUME NEW c \in Channels, ConnectionUp(c) \/ ConnectFails(c) \/ Reconnect(c)
      PROVE  InboxTyped'
  BY <1>1, <1>9 DEF ConnectionUp, ConnectFails, Reconnect
<1>10. ASSUME NEW n \in Submits, JobAdvances(n) PROVE InboxTyped'
  BY <1>1, <1>10 DEF JobAdvances, Advance, socketVars
<1>13. CASE DeleteTracks
  BY <1>1, <1>13 DEF DeleteTracks, socketVars
<1>11. CASE AppStops
  BY <1>2, <1>11 DEF AppStops
<1>12. CASE UNCHANGED vars
  BY <1>1, <1>12 DEF vars, socketVars
<1> QED
  BY <1>3, <1>4, <1>5, <1>6, <1>7, <1>8, <1>9, <1>10, <1>11, <1>12, <1>13
  DEF Next, Submit, Socket, Api

\* The news of a job are its number or nothing.
LEMMA NewsOfAJob == ASSUME NEW n \in Submits, JobAdvances(n)
                    PROVE  \E news \in {<<n>>, <<>>} : bus' = bus \o news
BY DEF JobAdvances, Advance

LEMMA ApiStep == ASSUME Inv, [Next]_vars PROVE ApiTyped'
<1> USE DEF ApiTyped
<1>0. ApiTyped /\ SubmitTyped
  BY DEF Inv, TypeInv
<1>1. ASSUME UNCHANGED apiVars PROVE ApiTyped'
  BY <1>0, <1>1 DEF apiVars
<1>2. CASE CreateJob
  BY <1>0, <1>2 DEF CreateJob, Statuses
<1>3. ASSUME NEW n \in Submits, JobAdvances(n) PROVE ApiTyped'
  <2>1. job' \in [Submits -> Statuses]
    BY <1>0, <1>3 DEF JobAdvances, Advance, Statuses, Final
  <2>2. tracks' \subseteq Submits
    BY <1>0, <1>3 DEF JobAdvances
  <2>6. deleting' = deleting
    BY <1>3 DEF JobAdvances, Advance
  <2>3. PICK news \in {<<n>>, <<>>} : bus' = bus \o news
    BY <1>3, NewsOfAJob
  <2>4. <<n>> \in Seq(Submits) /\ <<>> \in Seq(Submits)
    OBVIOUS
  <2>5. bus' \in Seq(Submits)
    <3>1. CASE news = <<n>>
      BY <1>0, <2>3, <2>4, <3>1
    <3>2. CASE news = <<>>
      BY <1>0, <2>3, <2>4, <3>2
    <3> QED
      BY <2>3, <3>1, <3>2
  <2> QED
    BY <1>0, <2>1, <2>2, <2>5, <2>6
<1>4. CASE DeleteTracks
  BY <1>0, <1>4, ClientAssumption DEF DeleteTracks
<1>10. ASSUME NEW n \in Submits, AskDeletion(n) PROVE ApiTyped'
  BY <1>0, <1>10, ClientAssumption DEF AskDeletion, Submits
<1>5. CASE Broadcast
  <2>1. Tail(bus) \in Seq(Submits)
    BY <1>0, <1>5 DEF Broadcast
  <2> QED
    BY <1>0, <1>5, <2>1 DEF Broadcast
<1>6. CASE EditForm \/ SwitchTab \/ OpenFromLibrary \/ Back \/ Press \/ PressBlank
  BY <1>1, <1>6 DEF EditForm, SwitchTab, OpenFromLibrary, Back, Press, PressBlank
<1>7. CASE Send \/ SubmitFails \/ Listen \/ AppStops
  BY <1>1, <1>7 DEF Send, SubmitFails, Listen, AppStops
<1>8. CASE Socket
  BY <1>1, <1>8 DEF Socket, ConnectionUp, ConnectFails, ConnectionLost, Reconnect, Deliver
<1>9. CASE UNCHANGED vars
  BY <1>1, <1>9 DEF vars
<1> QED
  BY <1>2, <1>3, <1>4, <1>5, <1>6, <1>7, <1>8, <1>9, <1>10 DEF Next, User, Submit, Api

LEMMA HistStep == ASSUME Inv, [Next]_vars PROVE HistTyped'
<1> USE DEF HistTyped
<1>0. HistTyped
  BY DEF Inv, TypeInv
<1>1. ASSUME UNCHANGED shown, missed' \in BOOLEAN PROVE HistTyped'
  BY <1>0, <1>1
<1>2. ASSUME NEW n, Shown(n), UNCHANGED missed PROVE HistTyped'
  <2>1. shown' \in [Submits -> Nat]
    <3>1. shown' = [shown EXCEPT ![n] = shown[n] + 1]
      BY <1>2 DEF Shown
    <3>2. \A m \in Submits : shown[m] + 1 \in Nat
      BY <1>0
    <3> QED
      BY <1>0, <3>1, <3>2, Zenon
  <2>2. missed' \in BOOLEAN
    BY <1>0, <1>2, Zenon
  <2> QED
    BY <2>1, <2>2, Zenon
<1>3. CASE User
  BY <1>0, <1>1, <1>3 DEF User, EditForm, SwitchTab, OpenFromLibrary, Back, Press, PressBlank,
     AskDeletion, histVars
<1>4. CASE Send \/ CreateJob \/ Listen \/ AppStops
  BY <1>0, <1>1, <1>4 DEF Send, CreateJob, Listen, AppStops, histVars
<1>5. CASE SubmitFails
  BY <1>2, <1>5 DEF SubmitFails
<1>6. ASSUME NEW c \in Channels,
             ConnectionUp(c) \/ ConnectFails(c) \/ Reconnect(c) \/ ConnectionLost(c)
      PROVE  HistTyped'
  BY <1>0, <1>1, <1>6 DEF ConnectionUp, ConnectFails, Reconnect, ConnectionLost, histVars
<1>7. ASSUME NEW c \in Channels, Deliver(c) PROVE HistTyped'
  <2>1. UNCHANGED missed
    BY <1>7, Zenon DEF Deliver
  <2>2. UNCHANGED shown \/ Shown(Head(inbox[c]).job)
    BY <1>7, Zenon DEF Deliver, Outcome
  <2>3. missed' \in BOOLEAN
    BY <1>0, <2>1, Zenon
  <2> QED
    BY <1>1, <1>2, <2>1, <2>2, <2>3, Zenon
<1>8. CASE Broadcast
  BY <1>0, <1>1, <1>8 DEF Broadcast
<1>9. CASE DeleteTracks \/ \E n \in Submits : JobAdvances(n)
  BY <1>0, <1>1, <1>9 DEF JobAdvances, Advance, DeleteTracks, histVars
<1>10. CASE UNCHANGED vars
  BY <1>0, <1>1, <1>10 DEF vars, histVars
<1> QED
  BY <1>3, <1>4, <1>5, <1>6, <1>7, <1>8, <1>9, <1>10 DEF Next, Submit, Socket, Api

LEMMA TypeStep == Inv /\ [Next]_vars => TypeInv'
BY ScreenStep, SubmitStep, StateStep, SocketStep, InboxStep, ApiStep, HistStep DEF TypeInv

-----------------------------------------------------------------------------
\* An update is passed over, or it is about the last submission, which is waiting
\* for nothing else, and ends it.
LEMMA Delivered == ASSUME Inv, NEW c \in Channels, Deliver(c)
                   PROVE  \/ /\ Received(c) /\ inbox[c] # <<>>
                             /\ UNCHANGED <<routes, stateVars, listening, shown>>
                          \/ /\ \E update \in Updates :
                                   /\ update = inbox[c][1] /\ InInbox(update)
                                   /\ update.job = submits
                                   /\ update.status \in {"ready", "failed"}
                                   /\ Outcome(update)
                             /\ Unsubscribe /\ inbox[c] # <<>>
                             /\ listening = submits /\ submits \in Submits
                             /\ submitting /\ phase = "idle"
<1> DEFINE update == Head(inbox[c])
<1>0. InboxTyped /\ SubmitTyped /\ Waiting /\ inbox[c] # <<>>
  BY DEF Inv, TypeInv, Deliver
<1>1. update = inbox[c][1] /\ update \in Updates /\ 1 \in 1..Len(inbox[c])
  BY <1>0 DEF InboxTyped
<1>2. update.job \in Submits /\ update.job # 0
  BY <1>1 DEF Updates, Submits
<1>3. CASE IsOurs(update) /\ update.status \in Awaited
  <2>1. Outcome(update) /\ Unsubscribe
    BY <1>3, Zenon DEF Deliver
  <2>2. listening = submits /\ submits \in Submits /\ phase = "idle" /\ update.job = submits
    BY <1>0, <1>2, <1>3 DEF IsOurs, Waiting
  <2>3. submitting
    BY <1>0, <1>2, <2>2 DEF Waiting, SubmittingIsBacked
  <2>4. InInbox(update)
    BY <1>1 DEF InInbox
  <2> HIDE DEF update
  <2> QED
    BY <1>0, <1>1, <1>3, <2>1, <2>2, <2>3, <2>4 DEF Awaited
<1>4. CASE ~(IsOurs(update) /\ update.status \in Awaited)
  BY <1>0, <1>4 DEF Deliver
<1> QED
  BY <1>3, <1>4

\* submitting, the phase and the subscription change together.
LEMMA WaitingStep == ASSUME Inv, [Next]_vars PROVE Waiting'
<1> USE DEF Waiting, SubmittingIsBacked
<1>0. Waiting /\ SubmitTyped /\ MaxSubmits \in Nat
  BY ClientAssumption DEF Inv, TypeInv
<1>1. ASSUME UNCHANGED <<submitting, phase, listening, submits>> PROVE Waiting'
  BY <1>0, <1>1
<1>2. CASE Press
  <2>1. listening = 0 /\ phase = "idle"
    BY <1>0, <1>2 DEF Press, CanPress
  <2>2. submitting' = TRUE /\ phase' = "deviceId" /\ submits' = submits + 1
        /\ listening' = listening
    BY <1>2 DEF Press, socketVars
  <2> QED
    BY <1>0, <2>1, <2>2 DEF SubmitTyped
<1>3. CASE Send
  BY <1>0, <1>3 DEF Send, stateVars, socketVars
<1>4. CASE SubmitFails
  BY <1>0, <1>4 DEF SubmitFails, EndWithError, socketVars
<1>5. CASE Listen
  BY <1>0, <1>5 DEF Listen, stateVars
<1>6. ASSUME NEW c \in Channels, Deliver(c) PROVE Waiting'
  <2>1. UNCHANGED <<phase, submits>>
    BY <1>6 DEF Deliver, submitVars
  <2>2. CASE UNCHANGED <<routes, stateVars, listening, shown>>
    BY <1>1, <2>1, <2>2 DEF stateVars
  <2>3. CASE phase = "idle" /\ Unsubscribe /\ \E u \in Updates : Outcome(u)
    BY <1>0, <2>1, <2>3 DEF Outcome, Unsubscribe
  <2> QED
    BY <1>6, <2>2, <2>3, Delivered
<1>7. CASE AppStops
  BY <1>7 DEF AppStops, Unsubscribe
<1>8. CASE \/ EditForm \/ SwitchTab \/ OpenFromLibrary \/ Back \/ PressBlank \/ CreateJob
          \/ \E n \in Submits : AskDeletion(n)
  BY <1>1, <1>8 DEF EditForm, SwitchTab, OpenFromLibrary, Back, PressBlank, CreateJob,
     AskDeletion, submitVars, stateVars, socketVars
<1>9. ASSUME NEW c \in Channels,
             ConnectionUp(c) \/ ConnectFails(c) \/ ConnectionLost(c) \/ Reconnect(c)
      PROVE  Waiting'
  BY <1>1, <1>9 DEF ConnectionUp, ConnectFails, ConnectionLost, Reconnect, submitVars,
     stateVars
<1>10. CASE Api
  BY <1>1, <1>10 DEF Api, Broadcast, JobAdvances, Advance, DeleteTracks, submitVars,
     stateVars, socketVars
<1>11. CASE UNCHANGED vars
  BY <1>1, <1>11 DEF vars, submitVars, stateVars, socketVars
<1> QED
  BY <1>2, <1>3, <1>4, <1>5, <1>6, <1>7, <1>8, <1>9, <1>10, <1>11
  DEF Next, User, Submit, Socket

\* A submission that ends was waiting, so nothing has been shown for it.
LEMMA CountedStep == ASSUME Inv, [Next]_vars PROVE Counted'
<1> USE DEF Counted, OneOutcome
<1>0. /\ Counted /\ Waiting /\ SubmitTyped /\ ApiTyped /\ HistTyped
      /\ MaxSubmits \in Nat
  BY ClientAssumption DEF Inv, TypeInv
<1>1. ASSUME UNCHANGED <<submitting, submits, shown, job, tracks>> PROVE Counted'
  BY <1>0, <1>1
<1>2. CASE Press
  <2>1. submits' = submits + 1 /\ UNCHANGED <<shown, job, tracks>> /\ submits + 1 \in Submits
    BY <1>0, <1>2 DEF Press, apiVars, SubmitTyped, Submits
  <2> QED
    BY <1>0, <2>1 DEF SubmitTyped, Submits
<1>3. ASSUME submits \in Submits, submitting, Shown(submits), submitting' = FALSE,
             UNCHANGED <<submits, job, tracks>>
      PROVE  Counted'
  <2>1. shown' = [shown EXCEPT ![submits] = shown[submits] + 1] /\ shown[submits] = 0
    BY <1>0, <1>3 DEF Shown
  <2>2. \A n \in Submits : shown'[n] = IF n = submits THEN 1 ELSE shown[n]
    BY <1>0, <2>1 DEF HistTyped
  <2> QED
    BY <1>0, <1>3, <2>2 DEF SubmitTyped, Submits
<1>4. CASE SubmitFails
  <2>1. phase # "idle" /\ Shown(submits) /\ submitting' = FALSE /\ UNCHANGED <<submits, job, tracks>>
    BY <1>4, Zenon DEF SubmitFails, EndWithError, apiVars
  <2>2. submitting
    BY <1>0, <2>1 DEF Waiting, SubmittingIsBacked
  <2>3. submits \in Submits
    BY <1>0, <2>1 DEF Waiting, SubmitTyped, Submits
  <2> QED
    BY <1>3, <2>1, <2>2, <2>3
<1>5. CASE CreateJob
  <2>1. submits \in Submits
    BY <1>0, <1>5 DEF CreateJob, Waiting, SubmitTyped, Submits
  <2>2. \A n \in Submits : n > submits => job'[n] = job[n]
    BY <1>0, <1>5, <2>1 DEF CreateJob, ApiTyped, SubmitTyped, Submits
  <2>3. UNCHANGED <<submits, submitting, shown, tracks>>
    BY <1>5 DEF CreateJob, submitVars, stateVars, histVars
  <2> QED
    BY <1>0, <2>2, <2>3
<1>6. ASSUME NEW n \in Submits, JobAdvances(n) PROVE Counted'
  <2>1. job[n] # "absent" /\ \E status : job' = [job EXCEPT ![n] = status]
    BY <1>6 DEF JobAdvances, Advance
  <2>2. \A m \in Submits : m > submits => job'[m] = "absent"
    BY <1>0, <2>1 DEF ApiTyped
  <2>3. UNCHANGED <<submits, submitting, shown>>
    BY <1>6 DEF JobAdvances, Advance, submitVars, stateVars
  <2>4. n <= submits
    BY <1>0, <2>1 DEF SubmitTyped, Submits
  <2>5. tracks' \subseteq tracks \cup {n}
    BY <1>6 DEF JobAdvances
  <2> QED
    BY <1>0, <2>2, <2>3, <2>4, <2>5 DEF SubmitTyped, Submits
<1>7. ASSUME NEW c \in Channels, Deliver(c) PROVE Counted'
  <2>1. UNCHANGED <<submits, job, tracks>>
    BY <1>7 DEF Deliver, submitVars, apiVars
  <2>2. CASE UNCHANGED <<routes, stateVars, listening, shown>>
    BY <1>1, <2>1, <2>2 DEF stateVars
  <2>3. CASE /\ submits \in Submits /\ submitting
             /\ \E u \in Updates : u.job = submits /\ Outcome(u)
    <3>1. submitting' = FALSE /\ Shown(submits)
      BY <2>3, Zenon DEF Outcome
    <3> QED
      BY <1>3, <2>1, <2>3, <3>1
  <2> QED
    BY <1>7, <2>2, <2>3, Delivered
<1>8. CASE AppStops
  BY <1>0, <1>8 DEF AppStops, apiVars, histVars
<1>9. CASE \/ EditForm \/ SwitchTab \/ OpenFromLibrary \/ Back \/ PressBlank \/ Send \/ Listen
          \/ \E n \in Submits : AskDeletion(n)
  BY <1>1, <1>9 DEF EditForm, SwitchTab, OpenFromLibrary, Back, PressBlank, Send, Listen,
     AskDeletion, submitVars, stateVars, apiVars, histVars
<1>10. ASSUME NEW c \in Channels,
             ConnectionUp(c) \/ ConnectFails(c) \/ ConnectionLost(c) \/ Reconnect(c)
      PROVE  Counted'
  BY <1>1, <1>10 DEF ConnectionUp, ConnectFails, ConnectionLost, Reconnect, submitVars,
     stateVars, apiVars, histVars
<1>11. CASE Broadcast \/ DeleteTracks
  <2>1. UNCHANGED <<submitting, submits, shown, job>> /\ tracks' \subseteq tracks
    BY <1>11 DEF Broadcast, DeleteTracks, submitVars, stateVars, histVars
  <2> QED
    BY <1>0, <2>1
<1>12. CASE UNCHANGED vars
  BY <1>1, <1>12 DEF vars, submitVars, stateVars, apiVars, histVars
<1> QED
  BY <1>2, <1>4, <1>5, <1>6, <1>7, <1>8, <1>9, <1>10, <1>11, <1>12
  DEF Next, User, Submit, Socket, Api

\* An error and a track are cleared as soon as the screen has shown them, or belong to
\* a submission that is over.
LEMMA FreshStep == ASSUME Inv, [Next]_vars PROVE Fresh'
<1> USE DEF Fresh
<1>0. Fresh /\ SubmitTyped /\ StateTyped /\ MaxSubmits \in Nat
  BY ClientAssumption DEF Inv, TypeInv
<1>1. ASSUME UNCHANGED <<submitting, submits, error, completed>> PROVE Fresh'
  BY <1>0, <1>1
<1>2. ASSUME submitting' = FALSE, completed' \in {0, submits, completed}, UNCHANGED submits
      PROVE  Fresh'
  BY <1>0, <1>2 DEF SubmitTyped
<1>3. CASE Press
  <2>1. submits' = submits + 1 /\ error' = NoError /\ completed' = completed
    BY <1>3, Zenon DEF Press
  <2> QED
    BY <1>0, <2>1 DEF SubmitTyped, StateTyped
<1>4. CASE PressBlank
  <2>1. submitting' = submitting /\ ~submitting /\ submits' = submits /\ completed' = completed
    BY <1>4, Zenon DEF PressBlank, CanPress, submitVars
  <2> QED
    BY <1>0, <2>1
<1>5. CASE SubmitFails
  BY <1>2, <1>5 DEF SubmitFails, EndWithError
<1>6. ASSUME NEW c \in Channels, Deliver(c) PROVE Fresh'
  <2>1. UNCHANGED submits
    BY <1>6 DEF Deliver, submitVars
  <2>2. CASE UNCHANGED <<routes, stateVars, listening, shown>>
    BY <1>1, <2>1, <2>2 DEF stateVars
  <2>3. ASSUME NEW u \in Updates, u.job = submits, Outcome(u) PROVE Fresh'
    <3>1. submitting' = FALSE
      BY <2>3, Zenon DEF Outcome
    <3>2. completed' \in {0, submits, completed}
      BY <2>3, Zenon DEF Outcome, ShowTrack
    <3> QED
      BY <1>2, <2>1, <3>1, <3>2
  <2> QED
    BY <1>6, <2>2, <2>3, Delivered
<1>7. CASE AppStops
  BY <1>2, <1>7 DEF AppStops
<1>8. CASE \/ EditForm \/ SwitchTab \/ OpenFromLibrary \/ Back \/ Send \/ CreateJob \/ Listen
          \/ \E n \in Submits : AskDeletion(n)
  BY <1>1, <1>8 DEF EditForm, SwitchTab, OpenFromLibrary, Back, Send, CreateJob, Listen,
     AskDeletion, submitVars, stateVars
<1>9. ASSUME NEW c \in Channels,
             ConnectionUp(c) \/ ConnectFails(c) \/ ConnectionLost(c) \/ Reconnect(c)
      PROVE  Fresh'
  BY <1>1, <1>9 DEF ConnectionUp, ConnectFails, ConnectionLost, Reconnect, submitVars,
     stateVars
<1>10. CASE Api
  BY <1>1, <1>10 DEF Api, Broadcast, JobAdvances, Advance, DeleteTracks, submitVars, stateVars
<1>11. CASE UNCHANGED vars
  BY <1>1, <1>11 DEF vars, submitVars, stateVars
<1> QED
  BY <1>3, <1>4, <1>5, <1>6, <1>7, <1>8, <1>9, <1>10, <1>11
  DEF Next, User, Submit, Socket

\* The outcome of the submission that waits, with the screen in view: the dialog is
\* closed, a player is opened, or a ready job had no track and no dialog is there.
LEMMA OutcomeOnScreen ==
    ASSUME Inv, submitting, submits # 0, NEW u \in Updates, InInbox(u), u.job = submits,
           u.status \in {"ready", "failed"}, Outcome(u)
    PROVE  /\ routes' # <<"dialog">>
           /\ routes = <<"player">> => routes' = routes
<1>0. ScreenTyped /\ Fresh /\ OnTop /\ News
  BY DEF Inv, TypeInv
<1>1. Popped = <<>>
  BY <1>0, PoppedIsEmpty
<1>2. routes = <<"player">> => screen # "generation"
  BY <1>0 DEF OnTop
<1>3. CASE screen # "generation"
  <2>1. routes' = routes
    BY <1>3, Zenon DEF Outcome, ShowTrack, ShowError
  <2>2. routes # <<"dialog">>
    BY <1>0, <1>3 DEF OnTop
  <2> QED
    BY <2>1, <2>2
<1>4. CASE screen = "generation" /\ u.status = "failed"
  <2>1. error # "failed"
    BY <1>0 DEF Fresh, NoError
  <2>2. routes' = <<>>
    BY <1>1, <1>4, <2>1 DEF Outcome, ShowError
  <2> QED
    BY <1>2, <1>4, <2>2
<1>5. CASE screen = "generation" /\ u.status = "ready"
  <2>1. CASE u.tracks
    <3>1. submits # 0 /\ submits # completed
      BY <1>0 DEF Fresh
    <3>2. routes' = Append(<<>>, "player")
      BY <1>1, <1>5, <2>1, <3>1 DEF Outcome, ShowTrack
    <3>3. routes' = <<"player">>
      BY <3>2
    <3> QED
      BY <1>2, <1>5, <3>3
  <2>2. CASE ~u.tracks
    <3>1. routes # <<"dialog">>
      BY <1>0, <1>5, <2>2, Zenon DEF News
    <3>2. routes' = routes
      BY <1>5, <2>2, Zenon DEF Outcome, ShowTrack
    <3> QED
      BY <3>1, <3>2
  <2> QED
    BY <2>1, <2>2
<1> QED
  BY <1>3, <1>4, <1>5

\* The failure of the submission that waits: the dialog is closed, a player is not.
LEMMA FailureOnScreen ==
    ASSUME Inv, phase # "idle", ShowError("exception")
    PROVE  /\ routes' # <<"dialog">>
           /\ routes = <<"player">> => routes' = routes
<1>0. ScreenTyped /\ Fresh /\ OnTop /\ Waiting
  BY DEF Inv, TypeInv
<1>1. Popped = <<>>
  BY <1>0, PoppedIsEmpty
<1>2. submitting
  BY <1>0 DEF Waiting, SubmittingIsBacked
<1>3. error # "exception"
  BY <1>0, <1>2 DEF Fresh, NoError
<1>4. CASE screen = "generation"
  <2>1. routes' = <<>>
    BY <1>1, <1>3, <1>4 DEF ShowError
  <2> QED
    BY <1>0, <1>2, <1>4, <2>1 DEF OnTop
<1>5. CASE screen # "generation"
  <2>1. routes' = routes
    BY <1>5 DEF ShowError
  <2> QED
    BY <1>0, <1>5, <2>1 DEF OnTop
<1> QED
  BY <1>4, <1>5

LEMMA OnTopStep == ASSUME Inv, [Next]_vars PROVE OnTop'
<1> USE DEF OnTop
<1>0. OnTop /\ ScreenTyped /\ StateTyped /\ Waiting
  BY DEF Inv, TypeInv
<1>1. ASSUME UNCHANGED <<routes, screen, submitting>> PROVE OnTop'
  BY <1>0, <1>1
<1>2. ASSUME routes' = <<>> PROVE OnTop'
  BY <1>2
<1>3. CASE EditForm \/ SwitchTab \/ Back
  <2>1. CASE EditForm \/ SwitchTab
    BY <1>2, <2>1 DEF EditForm, SwitchTab
  <2>2. CASE Back
    BY <1>0, <1>2, <2>2, PoppedIsEmpty DEF Back
  <2> QED
    BY <1>3, <2>1, <2>2
<1>4. CASE OpenFromLibrary
  BY <1>4 DEF OpenFromLibrary
<1>5. CASE Press
  BY <1>5 DEF Press, CanPress
<1>6. CASE PressBlank
  BY <1>0, <1>2, <1>6 DEF PressBlank, CanPress, StateTyped
<1>7. CASE SubmitFails
  <2>1. submitting' = FALSE /\ screen' = screen /\ phase # "idle" /\ ShowError("exception")
    BY <1>7, Zenon DEF SubmitFails, EndWithError
  <2>2. routes' # <<"dialog">>
    BY <2>1, FailureOnScreen
  <2> QED
    BY <2>1, <2>2
<1>8. ASSUME NEW c \in Channels, Deliver(c) PROVE OnTop'
  <2>1. UNCHANGED screen
    BY <1>8 DEF Deliver
  <2>2. CASE UNCHANGED <<routes, stateVars, listening, shown>>
    BY <1>1, <2>1, <2>2 DEF stateVars
  <2>3. ASSUME submits \in Submits, submitting, NEW u \in Updates, InInbox(u),
               u.job = submits, u.status \in {"ready", "failed"}, Outcome(u)
        PROVE  OnTop'
    <3>1. submits # 0
      BY <2>3 DEF Submits
    <3>2. routes' # <<"dialog">>
      BY <2>3, <3>1, OutcomeOnScreen
    <3>3. submitting' = FALSE
      BY <2>3, Zenon DEF Outcome
    <3> QED
      BY <3>2, <3>3
  <2> QED
    BY <1>8, <2>2, <2>3, Delivered
<1>9. CASE AppStops
  BY <1>2, <1>9 DEF AppStops
<1>10. CASE Send \/ CreateJob \/ Listen \/ \E n \in Submits : AskDeletion(n)
  BY <1>1, <1>10 DEF Send, CreateJob, Listen, AskDeletion, screenVars, stateVars
<1>11. ASSUME NEW c \in Channels,
              ConnectionUp(c) \/ ConnectFails(c) \/ ConnectionLost(c) \/ Reconnect(c)
       PROVE  OnTop'
  BY <1>1, <1>11 DEF ConnectionUp, ConnectFails, ConnectionLost, Reconnect, screenVars,
     stateVars
<1>12. CASE Broadcast \/ \E n \in Submits : JobAdvances(n)
  BY <1>1, <1>12 DEF Broadcast, JobAdvances, Advance, screenVars, stateVars
<1>14. CASE DeleteTracks
  <2>1. screen' = screen /\ submitting' = submitting /\ routes' \in {routes, Popped}
    BY <1>14 DEF DeleteTracks, stateVars
  <2> QED
    BY <1>0, <1>1, <1>2, <2>1, PoppedIsEmpty
<1>13. CASE UNCHANGED vars
  BY <1>1, <1>13 DEF vars, screenVars, stateVars
<1> QED
  BY <1>3, <1>4, <1>5, <1>6, <1>7, <1>8, <1>9, <1>10, <1>11, <1>12, <1>13, <1>14
  DEF Next, User, Submit, Socket, Api

\* Only Broadcast puts something into an inbox.
LEMMA InboxShrinks == ASSUME Inv, [Next]_vars, ~Broadcast, NEW u \in Updates, InInbox(u)'
                      PROVE  InInbox(u)
<1>0. InboxTyped
  BY DEF Inv, TypeInv
<1>1. PICK c \in Channels : \E k \in 1..Len(inbox'[c]) : u = inbox'[c][k]
  BY DEF InInbox
<1>2. PICK k \in 1..Len(inbox'[c]) : u = inbox'[c][k]
  BY <1>1
<1>3. ASSUME UNCHANGED inbox PROVE InInbox(u)
  BY <1>1, <1>2, <1>3 DEF InInbox
<1>4. ASSUME inbox'[c] = <<>> PROVE InInbox(u)
  BY <1>2, <1>4
<1>5. CASE Listen
  BY <1>4, <1>5 DEF Listen
<1>6. CASE AppStops
  BY <1>4, <1>6 DEF AppStops, Unsubscribe
<1>7. ASSUME NEW d \in Channels, ConnectionLost(d) PROVE InInbox(u)
  <2>1. inbox' = [inbox EXCEPT ![d] = <<>>]
    BY <1>7 DEF ConnectionLost
  <2>2. inbox'[c] = <<>> \/ inbox'[c] = inbox[c]
    BY <1>0, <2>1 DEF InboxTyped
  <2> QED
    BY <1>2, <1>4, <2>2 DEF InInbox
<1>8. ASSUME NEW d \in Channels, Received(d), inbox[d] # <<>> PROVE InInbox(u)
  <2>1. inbox'[c] = IF c = d THEN Tail(inbox[c]) ELSE inbox[c]
    BY <1>0, <1>8 DEF Received, InboxTyped
  <2>2. CASE c # d
    BY <1>2, <2>1, <2>2 DEF InInbox
  <2>3. CASE c = d
    <3>1. k + 1 \in 1..Len(inbox[c]) /\ Tail(inbox[c])[k] = inbox[c][k + 1]
      BY <1>0, <1>2, <1>8, <2>1, <2>3, TailElements DEF InboxTyped
    <3> QED
      BY <1>2, <2>1, <2>3, <3>1 DEF InInbox
  <2> QED
    BY <2>2, <2>3
<1>9. ASSUME NEW d \in Channels, Deliver(d) PROVE InInbox(u)
  <2>1. (Received(d) /\ inbox[d] # <<>>) \/ Unsubscribe
    BY <1>9, Delivered
  <2>2. CASE Unsubscribe
    BY <1>4, <2>2 DEF Unsubscribe
  <2> QED
    BY <1>8, <2>1, <2>2
<1>10. CASE User
  BY <1>3, <1>10 DEF User, EditForm, SwitchTab, OpenFromLibrary, Back, Press, PressBlank,
     AskDeletion, socketVars
<1>11. CASE Send \/ SubmitFails \/ CreateJob
  BY <1>3, <1>11 DEF Send, SubmitFails, CreateJob, socketVars
<1>12. ASSUME NEW d \in Channels, ConnectionUp(d) \/ ConnectFails(d) \/ Reconnect(d)
       PROVE  InInbox(u)
  BY <1>3, <1>12 DEF ConnectionUp, ConnectFails, Reconnect
<1>13. CASE DeleteTracks \/ \E n \in Submits : JobAdvances(n)
  BY <1>3, <1>13 DEF JobAdvances, Advance, DeleteTracks, socketVars
<1>14. CASE UNCHANGED vars
  BY <1>3, <1>14 DEF vars, socketVars
<1> QED
  BY <1>5, <1>6, <1>7, <1>9, <1>10, <1>11, <1>12, <1>13, <1>14
  DEF Next, Submit, Socket, Api

\* News, in four parts.
OldNews == /\ \A k \in 1..Len(bus) : bus[k] <= submits
           /\ \A update \in Updates : InInbox(update) => update.job <= submits

NotDeleted == deleting <= submits /\ (routes = <<"dialog">> => deleting # submits)

ReadyHasTrack == routes = <<"dialog">> => (job[submits] = "ready" => submits \in tracks)

UpdateHasTrack ==
    routes = <<"dialog">> =>
        \A update \in Updates :
            InInbox(update) /\ update.job = submits /\ update.status = "ready" => update.tracks

LEMMA NewsParts == News <=> OldNews /\ NotDeleted /\ ReadyHasTrack /\ UpdateHasTrack
BY DEF News, OldNews, NotDeleted, ReadyHasTrack, UpdateHasTrack

\* The loading dialog is opened by the button alone.
LEMMA DialogOpens == ASSUME Inv, [Next]_vars, routes' = <<"dialog">>
                     PROVE  Press \/ (routes = <<"dialog">> /\ UNCHANGED submits)
<1>0. ScreenTyped /\ StateTyped
  BY DEF Inv, TypeInv
<1>1. Popped = <<>>
  BY <1>0, PoppedIsEmpty
<1>2. CASE EditForm \/ SwitchTab \/ OpenFromLibrary
  BY <1>2 DEF EditForm, SwitchTab, OpenFromLibrary
<1>3. CASE Back \/ AppStops
  BY <1>1, <1>3 DEF Back, AppStops
<1>4. CASE PressBlank
  BY <1>0, <1>4 DEF PressBlank, CanPress, StateTyped
<1>5. CASE SubmitFails
  <2>1. routes' \in {Popped, routes} /\ UNCHANGED submits
    BY <1>5, Zenon DEF SubmitFails, EndWithError, ShowError
  <2> QED
    BY <1>1, <2>1
<1>6. ASSUME NEW c \in Channels, Deliver(c)
      PROVE  routes = <<"dialog">> /\ UNCHANGED submits
  <2>1. routes' \in {Popped, routes, Append(Popped, "player")} /\ UNCHANGED submits
    BY <1>6 DEF Deliver, Outcome, ShowTrack, ShowError, submitVars
  <2>2. Append(Popped, "player") # <<"dialog">>
    BY <1>1
  <2> QED
    BY <1>1, <2>1, <2>2
<1>7. ASSUME UNCHANGED <<routes, submits>> PROVE routes = <<"dialog">> /\ UNCHANGED submits
  BY <1>7
<1>8. CASE Send \/ CreateJob \/ Listen \/ \E n \in Submits : AskDeletion(n)
  BY <1>7, <1>8 DEF Send, CreateJob, Listen, AskDeletion, screenVars, submitVars
<1>9. ASSUME NEW c \in Channels,
             ConnectionUp(c) \/ ConnectFails(c) \/ ConnectionLost(c) \/ Reconnect(c)
      PROVE  routes = <<"dialog">> /\ UNCHANGED submits
  BY <1>7, <1>9 DEF ConnectionUp, ConnectFails, ConnectionLost, Reconnect, screenVars,
     submitVars
<1>10. CASE Broadcast \/ \E n \in Submits : JobAdvances(n)
  BY <1>7, <1>10 DEF Broadcast, JobAdvances, Advance, screenVars, submitVars
<1>12. CASE DeleteTracks
  <2>1. routes' \in {routes, Popped} /\ UNCHANGED submits
    BY <1>12 DEF DeleteTracks, submitVars
  <2> QED
    BY <1>1, <2>1
<1>11. CASE UNCHANGED vars
  BY <1>7, <1>11 DEF vars, screenVars, submitVars
<1> QED
  BY <1>2, <1>3, <1>4, <1>5, <1>6, <1>8, <1>9, <1>10, <1>11, <1>12
  DEF Next, User, Submit, Socket, Api

\* Submissions are numbered in the order in which they are made.
LEMMA SubmitsGrow == ASSUME Inv, [Next]_vars
                     PROVE  submits' >= submits /\ (submits' = submits \/ Press)
<1>0. SubmitTyped /\ MaxSubmits \in Nat
  BY ClientAssumption DEF Inv, TypeInv
<1>1. ASSUME UNCHANGED submits PROVE submits' >= submits
  BY <1>0, <1>1 DEF SubmitTyped
<1>2. CASE Press
  BY <1>0, <1>2 DEF Press, SubmitTyped
<1>3. CASE User /\ ~Press
  BY <1>1, <1>3 DEF User, EditForm, SwitchTab, OpenFromLibrary, Back, PressBlank,
     AskDeletion, submitVars
<1>4. CASE Submit \/ AppStops
  BY <1>1, <1>4 DEF Submit, Send, SubmitFails, CreateJob, Listen, AppStops, submitVars
<1>5. CASE Socket
  BY <1>1, <1>5 DEF Socket, ConnectionUp, ConnectFails, ConnectionLost, Reconnect, Deliver,
     submitVars
<1>6. CASE Api
  BY <1>1, <1>6 DEF Api, Broadcast, JobAdvances, Advance, DeleteTracks, submitVars
<1>7. CASE UNCHANGED vars
  BY <1>1, <1>7 DEF vars, submitVars
<1> QED
  BY <1>1, <1>2, <1>3, <1>4, <1>5, <1>6, <1>7 DEF Next

\* What the bus holds after a step was there before, or is the job that changes.
LEMMA BusStep == ASSUME Inv, [Next]_vars, NEW k \in 1..Len(bus')
                 PROVE  bus'[k] <= submits
<1>0. ApiTyped /\ SubmitTyped /\ Counted /\ OldNews /\ MaxSubmits \in Nat
  BY ClientAssumption, NewsParts DEF Inv, TypeInv
<1>1. ASSUME UNCHANGED bus PROVE bus'[k] <= submits
  BY <1>0, <1>1 DEF OldNews
<1>2. CASE Broadcast
  <2>1. bus' = Tail(bus) /\ bus # <<>>
    BY <1>2 DEF Broadcast
  <2>2. k + 1 \in 1..Len(bus) /\ bus'[k] = bus[k + 1]
    BY <1>0, <2>1, TailElements DEF ApiTyped
  <2> QED
    BY <1>0, <2>2 DEF OldNews
<1>3. ASSUME NEW n \in Submits, JobAdvances(n) PROVE bus'[k] <= submits
  <2>1. n <= submits
    <3>1. job[n] # "absent"
      BY <1>3 DEF JobAdvances
    <3> QED
      BY <1>0, <3>1 DEF Counted, SubmitTyped, Submits
  <2>2. PICK news \in {<<n>>, <<>>} : bus' = bus \o news
    BY <1>3, NewsOfAJob
  <2>3. CASE news = <<n>>
    <3>1. bus' = Append(bus, n)
      BY <1>0, <2>2, <2>3 DEF ApiTyped
    <3>2. bus'[k] = n \/ (k \in 1..Len(bus) /\ bus'[k] = bus[k])
      BY <1>0, <3>1, AppendElements DEF ApiTyped
    <3> QED
      BY <1>0, <2>1, <3>2 DEF OldNews
  <2>4. CASE news = <<>>
    <3>1. bus' = bus
      BY <1>0, <2>2, <2>4 DEF ApiTyped
    <3> QED
      BY <1>1, <3>1
  <2> QED
    BY <2>2, <2>3, <2>4
<1>4. CASE User
  BY <1>1, <1>4 DEF User, EditForm, SwitchTab, OpenFromLibrary, Back, Press, PressBlank,
     AskDeletion, apiVars
<1>5. CASE Submit \/ AppStops
  BY <1>1, <1>5 DEF Submit, Send, SubmitFails, CreateJob, Listen, AppStops, apiVars
<1>6. CASE Socket
  BY <1>1, <1>6 DEF Socket, ConnectionUp, ConnectFails, ConnectionLost, Reconnect, Deliver,
     apiVars
<1>7. CASE DeleteTracks
  BY <1>1, <1>7 DEF DeleteTracks
<1>8. CASE UNCHANGED vars
  BY <1>1, <1>8 DEF vars, apiVars
<1> QED
  BY <1>2, <1>3, <1>4, <1>5, <1>6, <1>7, <1>8 DEF Next, Api

\* A broadcast tells of the job at the head of the bus what the API says of it.
LEMMA BroadcastTells ==
    ASSUME Inv, Broadcast, NEW u \in Updates, InInbox(u)'
    PROVE  \/ InInbox(u)
           \/ /\ u.job = bus[1] /\ bus[1] <= submits
              /\ u.status = job[u.job] /\ (u.tracks <=> u.job \in tracks)
<1>0. InboxTyped /\ ApiTyped /\ OldNews
  BY NewsParts DEF Inv, TypeInv
<1> DEFINE n == Head(bus)
           update == [job |-> n, status |-> job[n], tracks |-> n \in tracks]
<1>1. n = bus[1] /\ n \in Submits /\ n <= submits
  BY <1>0 DEF Broadcast, ApiTyped, OldNews
<1>2. update \in Updates
  BY <1>0, <1>1 DEF ApiTyped, Updates
<1>3. update.job = n /\ update.status = job[n] /\ (update.tracks <=> n \in tracks)
  OBVIOUS
<1>4. \E reached \in SUBSET Channels :
        inbox' = [c \in Channels |->
                     IF c \in reached THEN Append(inbox[c], update) ELSE inbox[c]]
  BY DEF Broadcast
<1> HIDE DEF n, update
<1>5. PICK c \in Channels : \E k \in 1..Len(inbox'[c]) : u = inbox'[c][k]
  BY DEF InInbox
<1>6. PICK k \in 1..Len(inbox'[c]) : u = inbox'[c][k]
  BY <1>5
<1>7. inbox'[c] = Append(inbox[c], update) \/ inbox'[c] = inbox[c]
  BY <1>4
<1>8. inbox[c] \in Seq(Updates)
  BY <1>0 DEF InboxTyped
<1>9. CASE inbox'[c] = inbox[c]
  BY <1>6, <1>9 DEF InInbox
<1>10. CASE inbox'[c] = Append(inbox[c], update)
  <2>1. u = update \/ (k \in 1..Len(inbox[c]) /\ u = inbox[c][k])
    BY <1>2, <1>6, <1>8, <1>10, AppendElements
  <2> QED
    BY <1>1, <1>3, <2>1 DEF InInbox
<1> QED
  BY <1>7, <1>9, <1>10

LEMMA NewsStep == ASSUME Inv, [Next]_vars PROVE News'
<1>0. /\ OldNews /\ NotDeleted /\ ReadyHasTrack /\ UpdateHasTrack /\ Counted /\ OnTop /\ Waiting
      /\ SubmitTyped /\ ApiTyped /\ ScreenTyped /\ MaxSubmits \in Nat
  BY ClientAssumption, NewsParts DEF Inv, TypeInv
<1>1. submits' >= submits /\ submits \in Nat /\ submits' \in Nat
  BY <1>0, SubmitsGrow, SubmitStep DEF SubmitTyped
<1>2. ASSUME NEW k \in 1..Len(bus') PROVE bus'[k] <= submits'
  <2>1. bus'[k] <= submits
    BY <1>2, BusStep
  <2>2. bus'[k] \in Submits
    <3>1. bus' \in Seq(Submits)
      BY ApiStep DEF ApiTyped
    <3> QED
      BY <1>2, <3>1
  <2> QED
    BY <1>1, <2>1, <2>2 DEF Submits
<1>3. ASSUME NEW u \in Updates, InInbox(u)' PROVE u.job <= submits
  <2>1. CASE ~Broadcast
    BY <1>0, <1>3, <2>1, InboxShrinks DEF OldNews
  <2>2. CASE Broadcast
    BY <1>0, <1>3, <2>2, BroadcastTells DEF OldNews
  <2> QED
    BY <2>1, <2>2
<1>4. OldNews'
  <2>1. ASSUME NEW u \in Updates, InInbox(u)' PROVE u.job <= submits'
    <3>1. u.job <= submits /\ u.job \in Nat
      BY <1>3, <2>1 DEF Updates, Submits
    <3> QED
      BY <1>1, <3>1
  <2> QED
    BY <1>2, <2>1 DEF OldNews
<1>5. ASSUME routes' = <<"dialog">>, Press PROVE ReadyHasTrack' /\ UpdateHasTrack'
  <2>1. submits' = submits + 1 /\ job' = job /\ submits' \in Submits
    BY <1>0, <1>5 DEF Press, apiVars, SubmitTyped, Submits
  <2>2. job'[submits'] = "absent"
    BY <1>0, <1>1, <2>1 DEF Counted
  <2>3. \A u \in Updates : InInbox(u)' => u.job # submits'
    <3>1. \A u \in Updates : u.job \in Nat
      BY DEF Updates, Submits
    <3> QED
      BY <1>1, <1>3, <2>1, <3>1
  <2> QED
    BY <2>2, <2>3 DEF ReadyHasTrack, UpdateHasTrack
<1>6. ASSUME routes' = <<"dialog">>, routes = <<"dialog">>, UNCHANGED submits
      PROVE  ReadyHasTrack'
  <2>0. submits \in Submits
    <3>1. submitting
      BY <1>0, <1>6 DEF OnTop
    <3>2. submits # 0
      BY <1>0, <3>1 DEF Waiting, SubmittingIsBacked
    <3> QED
      BY <1>0, <3>2 DEF SubmitTyped, Submits
  <2>2. ASSUME UNCHANGED <<job, tracks>> PROVE ReadyHasTrack'
    BY <1>0, <1>6, <2>2 DEF ReadyHasTrack
  <2>3. CASE CreateJob
    <3>1. tracks' = tracks /\ job' = [job EXCEPT ![submits] = "queued"]
      BY <2>3 DEF CreateJob
    <3>2. job'[submits] # "ready"
      BY <1>0, <2>0, <3>1 DEF ApiTyped
    <3> QED
      BY <1>6, <3>2 DEF ReadyHasTrack
  <2>4. ASSUME NEW n \in Submits, JobAdvances(n) PROVE ReadyHasTrack'
    <3>1. \/ job' = [job EXCEPT ![n] = "ready"] /\ tracks' = tracks \cup {n}
          \/ /\ tracks' = tracks
             /\ \E status \in {"processing", "failed"} : job' = [job EXCEPT ![n] = status]
      BY <2>4 DEF JobAdvances, Advance
    <3>2. job'[submits] = "ready" => job[submits] = "ready" \/ (submits = n /\ n \in tracks')
      BY <1>0, <2>0, <3>1 DEF ApiTyped
    <3>3. tracks \subseteq tracks'
      BY <3>1
    <3> QED
      BY <1>0, <1>6, <3>2, <3>3 DEF ReadyHasTrack
  <2>5. CASE User
    BY <2>2, <2>5 DEF User, EditForm, SwitchTab, OpenFromLibrary, Back, Press, PressBlank,
       AskDeletion, apiVars
  <2>6. CASE Send \/ SubmitFails \/ Listen \/ AppStops
    BY <2>2, <2>6 DEF Send, SubmitFails, Listen, AppStops, apiVars
  <2>7. CASE Socket
    BY <2>2, <2>7 DEF Socket, ConnectionUp, ConnectFails, ConnectionLost, Reconnect, Deliver,
       apiVars
  <2>8. CASE Broadcast
    BY <2>2, <2>8 DEF Broadcast
  <2>9. CASE DeleteTracks
    <3>1. job' = job /\ tracks' \in {tracks, tracks \ {deleting}}
      BY <2>9 DEF DeleteTracks
    <3>2. deleting # submits
      BY <1>0, <1>6 DEF NotDeleted
    <3> QED
      BY <1>0, <1>6, <3>1, <3>2 DEF ReadyHasTrack
  <2>10. CASE UNCHANGED vars
    BY <2>2, <2>10 DEF vars, apiVars
  <2> QED
    BY <2>3, <2>4, <2>5, <2>6, <2>7, <2>8, <2>9, <2>10 DEF Next, Submit, Api
<1>7. ASSUME routes = <<"dialog">>, UNCHANGED submits PROVE UpdateHasTrack'
  <2>1. ASSUME NEW u \in Updates, InInbox(u)', u.job = submits, u.status = "ready"
        PROVE  u.tracks
    <3>1. CASE InInbox(u)
      BY <1>0, <1>7, <2>1, <3>1, Zenon DEF UpdateHasTrack
    <3>2. CASE Broadcast /\ ~InInbox(u)
      <4>1. u.status = job[u.job] /\ (u.tracks <=> u.job \in tracks)
        BY <2>1, <3>2, BroadcastTells
      <4> QED
        BY <1>0, <1>7, <2>1, <4>1, Zenon DEF ReadyHasTrack
    <3> QED
      BY <2>1, <3>1, <3>2, InboxShrinks
  <2> QED
    BY <1>7, <2>1 DEF UpdateHasTrack
<1>8. ReadyHasTrack' /\ UpdateHasTrack'
  <2>1. CASE routes' # <<"dialog">>
    BY <2>1 DEF ReadyHasTrack, UpdateHasTrack
  <2>2. CASE routes' = <<"dialog">>
    BY <1>5, <1>6, <1>7, <2>2, DialogOpens
  <2> QED
    BY <2>1, <2>2
<1>9. NotDeleted'
  <2>0. deleting \in Nat
    BY <1>0 DEF ApiTyped
  <2>1. ASSUME UNCHANGED deleting PROVE NotDeleted'
    <3>1. CASE Press
      <4>1. submits' = submits + 1
        BY <3>1 DEF Press
      <4> QED
        BY <1>0, <1>1, <2>0, <2>1, <4>1 DEF NotDeleted
    <3>2. CASE UNCHANGED submits /\ routes' # <<"dialog">>
      BY <1>0, <2>1, <3>2 DEF NotDeleted
    <3>3. CASE UNCHANGED submits /\ routes = <<"dialog">>
      BY <1>0, <2>1, <3>3 DEF NotDeleted
    <3> QED
      BY <3>1, <3>2, <3>3, DialogOpens, SubmitsGrow
  <2>2. ASSUME NEW n \in Submits, AskDeletion(n) PROVE NotDeleted'
    <3>1. deleting' = n /\ UNCHANGED <<submits, job, tracks>> /\ routes' = <<"player">>
          /\ n \in tracks
      BY <2>2 DEF AskDeletion, screenVars, submitVars
    <3>2. n <= submits
      BY <1>0, <1>1, <3>1 DEF Counted, Submits
    <3> QED
      BY <3>1, <3>2 DEF NotDeleted
  <2>3. CASE DeleteTracks
    <3>1. deleting' = 0 /\ UNCHANGED submits /\ routes' \in {routes, Popped}
      BY <2>3 DEF DeleteTracks, submitVars
    <3>2. routes' = <<"dialog">> => submits # 0
      <4>1. routes' = <<"dialog">> => submitting
        BY <1>0, <3>1, PoppedIsEmpty DEF OnTop
      <4> QED
        BY <1>0, <4>1 DEF Waiting, SubmittingIsBacked
    <3> QED
      BY <1>1, <3>1, <3>2 DEF NotDeleted
  <2>4. CASE User /\ ~\E n \in Submits : AskDeletion(n)
    BY <2>1, <2>4 DEF User, EditForm, SwitchTab, OpenFromLibrary, Back, Press, PressBlank, apiVars
  <2>5. CASE Submit \/ AppStops
    BY <2>1, <2>5 DEF Submit, Send, SubmitFails, CreateJob, Listen, AppStops, apiVars
  <2>6. CASE Socket
    BY <2>1, <2>6 DEF Socket, ConnectionUp, ConnectFails, ConnectionLost, Reconnect, Deliver,
       apiVars
  <2>7. CASE Broadcast \/ \E n \in Submits : JobAdvances(n)
    BY <2>1, <2>7 DEF Broadcast, JobAdvances, Advance
  <2>8. CASE UNCHANGED vars
    BY <2>1, <2>8 DEF vars, apiVars
  <2> QED
    BY <2>2, <2>3, <2>4, <2>5, <2>6, <2>7, <2>8 DEF Next, Api
<1> QED
  BY <1>4, <1>8, <1>9 DEF News, OldNews, NotDeleted, ReadyHasTrack, UpdateHasTrack

-----------------------------------------------------------------------------
\* A request is made by Send alone, of the form as it is then.
LEMMA AskedStep == ASSUME Inv, [Next]_vars PROVE Asked'
<1>0. Asked /\ form \in Forms
  BY DEF Inv, TypeInv, ScreenTyped
<1>1. ASSUME phase' # "posting" PROVE Asked'
  BY <1>1 DEF Asked
<1>2. ASSUME UNCHANGED <<phase, request>> PROVE Asked'
  BY <1>0, <1>2 DEF Asked
<1>3. CASE Send
  BY <1>0, <1>3 DEF Send, Asked
<1>4. CASE Press \/ SubmitFails \/ Listen \/ AppStops
  BY <1>1, <1>4 DEF Press, SubmitFails, Listen, AppStops
<1>5. CASE \/ EditForm \/ SwitchTab \/ OpenFromLibrary \/ Back \/ PressBlank \/ CreateJob
          \/ \E n \in Submits : AskDeletion(n)
  BY <1>2, <1>5 DEF EditForm, SwitchTab, OpenFromLibrary, Back, PressBlank, CreateJob,
     AskDeletion, submitVars
<1>6. CASE Socket
  BY <1>2, <1>6 DEF Socket, ConnectionUp, ConnectFails, ConnectionLost, Reconnect, Deliver,
     submitVars
<1>7. CASE Api
  BY <1>2, <1>7 DEF Api, Broadcast, JobAdvances, Advance, DeleteTracks, submitVars
<1>8. CASE UNCHANGED vars
  BY <1>2, <1>8 DEF vars, submitVars
<1> QED
  BY <1>3, <1>4, <1>5, <1>6, <1>7, <1>8 DEF Next, User, Submit

LEMMA NormalizeFields ==
    ASSUME NEW r \in Requests, r.model # ""
    PROVE  LET s == Normalize(r)
           IN /\ s.prompt = Trim(r.prompt) /\ s.custom = r.custom
              /\ s.style = TrimOptional(r.style) /\ s.title = TrimOptional(r.title)
              /\ s.tags = TrimOptional(r.tags) /\ s.model = r.model /\ s.gender = r.gender
              /\ s.instrumental = r.instrumental
<1> DEFINE s == Normalize(r)
<1>1. s.prompt = Trim(r.prompt) /\ s.custom = r.custom
  BY DEF Normalize, Requests
<1>2. s.style = TrimOptional(r.style) /\ s.title = TrimOptional(r.title)
  BY DEF Normalize, Requests
<1>3. s.tags = TrimOptional(r.tags)
  BY DEF Normalize, Requests
<1>4. s.model = r.model
  BY DEF Normalize, Requests
<1>5. s.gender = r.gender /\ s.instrumental = r.instrumental
  BY DEF Normalize, Requests
<1> QED
  BY <1>1, <1>2, <1>3, <1>4, <1>5

\* What Normalize makes of a request of the app, and what the API asks of it.
LEMMA RequestIsWellFormed ==
    ASSUME NEW f \in Forms, Sendable(BuildRequest(f))
    PROVE  Accepted(BuildRequest(f)) <=> FitsLimits(Normalize(BuildRequest(f)))
<1> DEFINE r == BuildRequest(f)
           s == Normalize(r)
<1>1. /\ f.mode \in {"description", "lyrics"} /\ f.prompt \in Texts /\ f.name \in Texts
      /\ f.gender \in Genders \cup {Missing} /\ f.instrumental = FALSE
      /\ Style \in Texts /\ Untitled \in Texts /\ ~Blank(Style) /\ ~Blank(Untitled)
  BY ClientAssumption DEF FormSpace
<1>2. Trim(f.prompt) \in Texts /\ Trim(f.prompt).chars = f.prompt.chars
      /\ Trim(f.name) \in Texts /\ Trim(f.name).chars = f.name.chars
  BY <1>1, TrimIsText
<1> DEFINE custom == f.mode = "lyrics" \/ UsesAdvanced(f)
           title == IF Blank(f.name) THEN Untitled ELSE Trim(f.name)
<1>3. title \in Texts /\ ~Blank(title)
  BY <1>1, <1>2 DEF Blank
<1>4. /\ r.prompt = Trim(f.prompt) /\ r.custom = custom
      /\ r.style = (IF custom THEN Style ELSE Missing)
      /\ r.title = (IF custom THEN title ELSE Missing)
      /\ r.instrumental = FALSE /\ r.model = "V4_5ALL" /\ r.tags = Missing
      /\ r.gender = (IF custom THEN f.gender ELSE Missing)
  BY <1>1 DEF BuildRequest
<1>5. \A t \in Texts : ~Blank(t) => TrimOptional(t) # Missing
  BY TrimIsText, MissingAssumption DEF TrimOptional
<1>6. TrimOptional(Missing) = Missing
  BY DEF TrimOptional
<1>7. /\ s.prompt = Trim(r.prompt) /\ s.custom = r.custom /\ s.style = TrimOptional(r.style)
      /\ s.title = TrimOptional(r.title) /\ s.tags = TrimOptional(r.tags)
      /\ s.model = "V4_5ALL" /\ s.gender = r.gender /\ s.instrumental = r.instrumental
  <2>1. r \in Requests /\ r.model # ""
    BY <1>4, RequestIsTyped
  <2> HIDE DEF r
  <2> QED
    BY <1>4, <2>1, NormalizeFields
<1>8. ~Blank(s.prompt)
  <2>1. r.prompt.chars >= 1
    <3> DEFINE count == r.prompt.chars
    <3>1. Sendable(r)
      OBVIOUS
    <3> HIDE DEF r
    <3>2. count \in 1..SendLimits.prompt
      BY <3>1, Zenon DEF Sendable
    <3>3. SendLimits.prompt = 5000
      BY DEF SendLimits
    <3> HIDE DEF count
    <3>4. count >= 1
      BY <3>2, <3>3
    <3> QED
      BY <3>4 DEF count
  <2>2. Trim(r.prompt).chars = r.prompt.chars
    BY <1>2, <1>4, TrimIsText
  <2> QED
    BY <1>7, <2>1, <2>2 DEF Blank
<1> HIDE DEF r, s, custom, title
<1>9. s.model \in Models /\ s.gender \in Genders \cup {Missing}
  BY <1>1, <1>4, <1>7 DEF Models
<1>10. s.instrumental = FALSE
  BY <1>4, <1>7
<1>11. s.custom => CustomFields(s)
  <2> SUFFICES ASSUME s.custom PROVE CustomFields(s)
    OBVIOUS
  <2>1. r.style = Style /\ r.title = title
    BY <1>4, <1>7
  <2> QED
    BY <1>1, <1>3, <1>5, <1>7, <1>8, <2>1 DEF CustomFields
<1>12. ~s.custom => PlainFields(s)
  <2> SUFFICES ASSUME ~s.custom PROVE PlainFields(s)
    OBVIOUS
  <2>1. r.style = Missing /\ r.title = Missing /\ r.gender = Missing
    BY <1>4, <1>7
  <2> QED
    BY <1>4, <1>6, <1>7, <1>8, <2>1 DEF PlainFields
<1>13. Valid(s) <=> FitsLimits(s)
  BY <1>9, <1>10, <1>11, <1>12 DEF Valid
<1> QED
  BY <1>13 DEF Accepted, r, s

LEMMA InvStep == Inv /\ [Next]_vars => Inv'
BY TypeStep, WaitingStep, CountedStep, FreshStep, OnTopStep, NewsStep, AskedStep DEF Inv

LEMMA Invariance == Spec => []Inv
BY InitInv, InvStep, PTL DEF Spec

\* Types of the whole flow; in particular at most one route lies over the tabs.
THEOREM ClientTypeCorrect == Spec => []TypeOK
<1>1. Inv => TypeOK
  BY TypesAreTyped DEF Inv
<1> QED
  BY <1>1, Invariance, PTL

\* The screen waits exactly as long as a submission or a subscription is under way,
\* whatever is lost, repeated or late (GenerationState.isSubmitting).
THEOREM SubmissionIsBacked == Spec => []SubmittingIsBacked
<1>1. Inv => SubmittingIsBacked
  BY DEF Inv, Waiting
<1> QED
  BY <1>1, Invariance, PTL

\* The loading dialog is never left over (GenerationScreen's listener).
THEOREM DialogCloses == Spec => []DialogIsBacked
<1>1. Inv => DialogIsBacked
  BY DEF Inv, OnTop, DialogIsBacked
<1> QED
  BY <1>1, Invariance, PTL

\* However many connections repeat an update, one outcome is shown of a submission.
THEOREM OneOutcomeIsShown == Spec => []OneOutcome
<1>1. Inv => OneOutcome
  BY DEF Inv, Counted
<1> QED
  BY <1>1, Invariance, PTL

\* If the API refuses what the app sends, a text is too long (domain.JobParams.Validate
\* against the form and the app's own check).
THEOREM RefusalIsAboutLength == Spec => []RefusedOnlyForLength
<1>1. Inv => RefusedOnlyForLength
  BY RequestIsWellFormed DEF Inv, Asked, RefusedOnlyForLength
<1> QED
  BY <1>1, Invariance, PTL

\* No outcome closes the player that the user is looking at.
THEOREM PlayerIsLeftAlone == Spec => PlayerStays
<1>1. Inv /\ [Next]_vars => [routes = <<"player">> /\ shown' # shown => routes' = routes]_vars
  <2> SUFFICES ASSUME Inv, [Next]_vars, routes = <<"player">>, shown' # shown
               PROVE  routes' = routes
    OBVIOUS
  <2>1. CASE SubmitFails
    <3>1. phase # "idle" /\ ShowError("exception")
      BY <2>1, Zenon DEF SubmitFails, EndWithError
    <3> QED
      BY <3>1, FailureOnScreen
  <2>2. ASSUME NEW c \in Channels, Deliver(c) PROVE routes' = routes
    <3>1. ASSUME submits \in Submits, submitting, NEW u \in Updates, InInbox(u),
                 u.job = submits, u.status \in {"ready", "failed"}, Outcome(u)
          PROVE  routes' = routes
      <4>1. submits # 0
        BY <3>1 DEF Submits
      <4> QED
        BY <3>1, <4>1, OutcomeOnScreen
    <3> QED
      BY <2>2, <3>1, Delivered
  <2>3. ASSUME UNCHANGED shown PROVE FALSE
    BY <2>3
  <2>4. CASE User
    BY <2>3, <2>4 DEF User, EditForm, SwitchTab, OpenFromLibrary, Back, Press, PressBlank,
       AskDeletion, histVars
  <2>5. CASE Send \/ CreateJob \/ Listen \/ AppStops
    BY <2>3, <2>5 DEF Send, CreateJob, Listen, AppStops, histVars
  <2>6. ASSUME NEW c \in Channels,
               ConnectionUp(c) \/ ConnectFails(c) \/ ConnectionLost(c) \/ Reconnect(c)
        PROVE  FALSE
    BY <2>3, <2>6 DEF ConnectionUp, ConnectFails, ConnectionLost, Reconnect, histVars
  <2>7. CASE Api
    BY <2>3, <2>7 DEF Api, Broadcast, JobAdvances, Advance, DeleteTracks, histVars
  <2>8. CASE UNCHANGED vars
    BY <2>3, <2>8 DEF vars, histVars
  <2> QED
    BY <2>1, <2>2, <2>4, <2>5, <2>6, <2>7, <2>8 DEF Next, Submit, Socket
<1> QED
  BY <1>1, Invariance, PTL DEF Spec, PlayerStays

-----------------------------------------------------------------------------
\* What an app that waits is waiting for.  Only an open connection holds updates, and
\* without a subscription there is no connection and none is due.
Connections ==
    /\ \A c \in Channels : inbox[c] # <<>> => chan[c] = "open"
    /\ listening = 0 => timers = 0 /\ \A c \in Channels : chan[c] = "off"

\* The app listens for a job that the API has created.
Created == submitting /\ phase = "idle" => job[submits] # "absent"

\* The end of the last submission is ahead: its job goes on, or news of it is on the
\* bus, or its final update is on its way to the app.
Ahead ==
    \/ job[submits] \in {"absent", "queued", "processing"}
    \/ \E k \in 1..Len(bus) : bus[k] = submits
    \/ \E update \in Updates : InInbox(update) /\ EndsLast(update)

EndIsAhead == submitting /\ ~missed => Ahead

LEMMA ConnectionsStep == ASSUME Inv, Connections, [Next]_vars PROVE Connections'
<1> USE DEF Connections
<1>0. Connections /\ InboxTyped /\ SocketTyped /\ Waiting /\ SubmitTyped
  BY DEF Inv, TypeInv
<1>1. ASSUME UNCHANGED <<listening, chan, timers, inbox>> PROVE Connections'
  BY <1>0, <1>1
<1>2. ASSUME Unsubscribe PROVE Connections'
  BY <1>0, <1>2 DEF Unsubscribe
<1>3. CASE Listen
  <2>1. submits # 0 /\ listening' = submits
    BY <1>0, <1>3 DEF Listen, Waiting
  <2>2. \A c \in Channels : inbox'[c] = <<>>
    BY <1>3 DEF Listen
  <2> QED
    BY <2>1, <2>2
<1>4. ASSUME NEW c \in Channels, ConnectionUp(c) \/ ConnectFails(c) PROVE Connections'
  <2>1. chan[c] = "connecting" /\ UNCHANGED <<listening, inbox>>
    BY <1>4 DEF ConnectionUp, ConnectFails
  <2>2. \A d \in Channels : d # c => chan'[d] = chan[d]
    BY <1>0, <1>4 DEF ConnectionUp, ConnectFails, SocketTyped
  <2>3. listening # 0 /\ inbox[c] = <<>>
    BY <1>0, <2>1
  <2> QED
    BY <1>0, <2>1, <2>2, <2>3
<1>5. ASSUME NEW c \in Channels, ConnectionLost(c) PROVE Connections'
  <2>1. chan[c] = "open" /\ UNCHANGED listening
    BY <1>5 DEF ConnectionLost
  <2>2. \A d \in Channels : d # c => chan'[d] = chan[d] /\ inbox'[d] = inbox[d]
    BY <1>0, <1>5 DEF ConnectionLost, SocketTyped, InboxTyped
  <2>3. listening # 0 /\ inbox'[c] = <<>>
    BY <1>0, <1>5, <2>1 DEF ConnectionLost, InboxTyped
  <2> QED
    BY <1>0, <2>1, <2>2, <2>3
<1>6. ASSUME NEW c \in Channels, Reconnect(c) PROVE Connections'
  <2>1. timers > 0 /\ chan[c] = "off" /\ UNCHANGED <<listening, inbox>>
    BY <1>6 DEF Reconnect
  <2>2. \A d \in Channels : d # c => chan'[d] = chan[d]
    BY <1>0, <1>6 DEF Reconnect, SocketTyped
  <2>3. listening # 0 /\ inbox[c] = <<>>
    BY <1>0, <2>1 DEF SocketTyped
  <2> QED
    BY <1>0, <2>1, <2>2, <2>3
<1>7. ASSUME NEW c \in Channels, Deliver(c) PROVE Connections'
  <2>1. CASE Unsubscribe
    BY <1>2, <2>1
  <2>2. CASE inbox[c] # <<>> /\ Received(c) /\ UNCHANGED <<listening, chan, timers>>
    <3>1. ASSUME NEW d \in Channels PROVE d # c => inbox'[d] = inbox[d]
      BY <1>0, <2>2 DEF Received, InboxTyped
    <3> QED
      BY <1>0, <2>2, <3>1
  <2> QED
    BY <1>7, <2>1, <2>2 DEF Deliver
<1>8. CASE Broadcast
  <2>1. \A c \in Channels : inbox'[c] # inbox[c] => chan[c] = "open"
    BY <1>0, <1>8 DEF Broadcast
  <2>2. UNCHANGED <<listening, chan, timers>>
    BY <1>8 DEF Broadcast
  <2> QED
    BY <1>0, <2>1, <2>2
<1>9. CASE User
  BY <1>1, <1>9 DEF User, EditForm, SwitchTab, OpenFromLibrary, Back, Press, PressBlank,
     AskDeletion, socketVars
<1>10. CASE Send \/ SubmitFails \/ CreateJob
  BY <1>1, <1>10 DEF Send, SubmitFails, CreateJob, socketVars
<1>11. CASE DeleteTracks \/ \E n \in Submits : JobAdvances(n)
  BY <1>1, <1>11 DEF JobAdvances, Advance, DeleteTracks, socketVars
<1>12. CASE AppStops
  BY <1>2, <1>12 DEF AppStops
<1>13. CASE UNCHANGED vars
  BY <1>1, <1>13 DEF vars, socketVars
<1> QED
  BY <1>3, <1>4, <1>5, <1>6, <1>7, <1>8, <1>9, <1>10, <1>11, <1>12, <1>13
  DEF Next, Submit, Socket, Api

\* An app that waits has submitted something.
LEMMA SomethingIsAwaited == ASSUME Inv, submitting PROVE submits \in Submits
BY ClientAssumption DEF Inv, TypeInv, SubmitTyped, SocketTyped, Waiting, SubmittingIsBacked,
   Submits

\* A job that exists never becomes absent again, and what is waited for exists.
LEMMA CreatedStep == ASSUME Inv, Created, [Next]_vars PROVE Created'
<1> USE DEF Created
<1>0. Created /\ ApiTyped
  BY DEF Inv, TypeInv
<1>1. ASSUME UNCHANGED <<phase, submits, job>>, submitting' \in {submitting, FALSE}
      PROVE  Created'
  BY <1>0, <1>1
<1>2. CASE Press \/ Send \/ SubmitFails \/ CreateJob
  BY <1>2 DEF Press, Send, SubmitFails, EndWithError, CreateJob, submitVars
<1>3. CASE Listen
  BY <1>3 DEF Listen, apiVars
<1>4. ASSUME NEW n \in Submits, JobAdvances(n) PROVE Created'
  <2>1. ASSUME NEW m \in Submits PROVE job[m] # "absent" => job'[m] # "absent"
    BY <1>0, <1>4 DEF JobAdvances, Advance, ApiTyped, Final
  <2>2. UNCHANGED <<phase, submits, submitting>>
    BY <1>4 DEF JobAdvances, Advance, submitVars, stateVars
  <2> QED
    BY <1>0, <2>1, <2>2, SomethingIsAwaited
<1>5. ASSUME NEW c \in Channels, Deliver(c) PROVE Created'
  BY <1>1, <1>5 DEF Deliver, Outcome, submitVars, stateVars, apiVars
<1>6. ASSUME NEW c \in Channels,
             ConnectionUp(c) \/ ConnectFails(c) \/ ConnectionLost(c) \/ Reconnect(c)
      PROVE  Created'
  BY <1>1, <1>6 DEF ConnectionUp, ConnectFails, ConnectionLost, Reconnect, submitVars,
     stateVars, apiVars
<1>7. CASE \/ EditForm \/ SwitchTab \/ OpenFromLibrary \/ Back \/ PressBlank
          \/ \E n \in Submits : AskDeletion(n)
  BY <1>1, <1>7 DEF EditForm, SwitchTab, OpenFromLibrary, Back, PressBlank, AskDeletion,
     submitVars, stateVars, apiVars
<1>8. CASE Broadcast \/ DeleteTracks
  BY <1>1, <1>8 DEF Broadcast, DeleteTracks, submitVars, stateVars
<1>9. CASE AppStops
  BY <1>9 DEF AppStops
<1>10. CASE UNCHANGED vars
  BY <1>1, <1>10 DEF vars, submitVars, stateVars, apiVars
<1> QED
  BY <1>2, <1>3, <1>4, <1>5, <1>6, <1>7, <1>8, <1>9, <1>10
  DEF Next, User, Submit, Socket, Api

\* What is ahead stays ahead where nothing of it changes.
LEMMA AheadStays ==
    ASSUME submitting' => submitting, missed => missed', EndIsAhead, UNCHANGED <<submits, job, bus>>,
           \A u \in Updates : InInbox(u) => InInbox(u)'
    PROVE  EndIsAhead'
<1> SUFFICES ASSUME submitting', ~missed' PROVE Ahead'
  BY DEF EndIsAhead
<1>1. Ahead
  BY DEF EndIsAhead
<1>2. CASE \E u \in Updates : InInbox(u) /\ EndsLast(u)
  BY <1>2 DEF Ahead, EndsLast
<1>3. CASE \E k \in 1..Len(bus) : bus[k] = submits
  BY <1>3 DEF Ahead
<1>4. CASE job[submits] \in {"absent", "queued", "processing"}
  BY <1>4 DEF Ahead
<1> QED
  BY <1>1, <1>2, <1>3, <1>4 DEF Ahead

\* A job ends with news of it on the bus, or with an update that is missed.
LEMMA JobAdvancesAhead ==
    ASSUME Inv, EndIsAhead, NEW n \in Submits, JobAdvances(n) PROVE EndIsAhead'
<1> SUFFICES ASSUME submitting', ~missed' PROVE Ahead'
  BY DEF EndIsAhead
<1>0. ApiTyped /\ UNCHANGED <<submitting, submits, inbox>>
  BY DEF Inv, TypeInv, JobAdvances, Advance, submitVars, stateVars, socketVars
<1>1. PICK news \in {<<n>>, <<>>}, status \in {"processing", "ready", "failed"} :
         Advance(n, status, news)
  BY DEF JobAdvances
<1>2. submits \in Submits /\ submitting /\ ~missed /\ Ahead
  BY <1>0, <1>1, SomethingIsAwaited DEF Advance, EndIsAhead
<1>3. bus \in Seq(Submits) /\ bus' = bus \o news
      /\ job' = [job EXCEPT ![n] = status] /\ job \in [Submits -> Statuses]
  BY <1>0, <1>1 DEF Advance, ApiTyped
<1>4. ASSUME NEW k \in 1..Len(bus) PROVE k \in 1..Len(bus') /\ bus'[k] = bus[k]
  <2>1. CASE news = <<n>>
    BY <1>3, <2>1
  <2>2. CASE news = <<>>
    BY <1>3, <2>2
  <2> QED
    BY <2>1, <2>2
<1>5. CASE n # submits
  <2>1. job'[submits] = job[submits]
    BY <1>2, <1>3, <1>5
  <2>2. \A u \in Updates : InInbox(u) /\ EndsLast(u) => InInbox(u)' /\ EndsLast(u)'
    BY <1>0 DEF InInbox, EndsLast
  <2> QED
    BY <1>0, <1>2, <1>4, <2>1, <2>2 DEF Ahead
<1>6. CASE n = submits /\ status = "processing"
  BY <1>0, <1>2, <1>3, <1>6 DEF Ahead
<1>7. CASE n = submits /\ status # "processing"
  <2>1. news = <<n>>
    BY <1>1, <1>7 DEF Advance, Final
  <2>2. Len(bus) + 1 \in 1..Len(bus') /\ bus'[Len(bus) + 1] = submits'
    BY <1>0, <1>3, <1>7, <2>1
  <2> QED
    BY <2>2 DEF Ahead
<1> QED
  BY <1>5, <1>6, <1>7

\* The news of a job that has ended becomes its final update on every open connection,
\* or it is missed.
LEMMA BroadcastAhead == ASSUME Inv, EndIsAhead, Broadcast PROVE EndIsAhead'
<1> SUFFICES ASSUME submitting', ~missed' PROVE Ahead'
  BY DEF EndIsAhead
<1>0. /\ ApiTyped /\ InboxTyped /\ UNCHANGED <<submitting, submits, job>>
      /\ bus # <<>> /\ bus' = Tail(bus)
  BY DEF Inv, TypeInv, Broadcast, submitVars, stateVars
<1> DEFINE n == Head(bus)
           told == [job |-> n, status |-> job[n], tracks |-> n \in tracks]
<1>1. n = bus[1] /\ n \in Submits
  BY <1>0 DEF ApiTyped
<1>2. told \in Updates
  BY <1>0, <1>1 DEF ApiTyped, Updates
<1>3. PICK update \in Updates :
         update = told /\ update.job = bus[1] /\ update.status = job[bus[1]]
  BY <1>1, <1>2
<1>4. PICK reached \in SUBSET Channels :
         /\ inbox' = [c \in Channels |->
                        IF c \in reached THEN Append(inbox[c], update) ELSE inbox[c]]
         /\ missed' = (missed \/ (EndsLast(update) /\ reached = {}))
  BY <1>3 DEF Broadcast
<1> HIDE DEF n, told
<1>5. submits \in Submits /\ submitting /\ ~missed /\ Ahead
  <2>1. ~missed
    BY <1>4, Zenon
  <2> QED
    BY <1>0, <2>1, SomethingIsAwaited DEF EndIsAhead
<1>6. ASSUME NEW c \in Channels, NEW k \in 1..Len(inbox[c])
      PROVE  k \in 1..Len(inbox'[c]) /\ inbox'[c][k] = inbox[c][k]
  <2>1. inbox[c] \in Seq(Updates)
    BY <1>0 DEF InboxTyped
  <2>2. inbox'[c] \in {inbox[c], Append(inbox[c], update)}
    BY <1>4
  <2> QED
    BY <2>1, <2>2
<1>7. CASE \E u \in Updates : InInbox(u) /\ EndsLast(u)
  <2>1. PICK u \in Updates : InInbox(u) /\ EndsLast(u)
    BY <1>7
  <2>2. InInbox(u)'
    BY <1>6, <2>1 DEF InInbox
  <2>3. EndsLast(u)'
    BY <1>0, <2>1 DEF EndsLast
  <2> QED
    BY <2>2, <2>3 DEF Ahead
<1>8. CASE \E k \in 1..Len(bus) : bus[k] = submits
  <2>1. PICK k \in 1..Len(bus) : bus[k] = submits
    BY <1>8
  <2>2. CASE k # 1
    <3>1. k - 1 \in 1..Len(Tail(bus)) /\ Tail(bus)[k - 1] = bus[k]
      BY <1>0, <2>2 DEF ApiTyped
    <3> QED
      BY <1>0, <2>1, <3>1 DEF Ahead
  <2>3. CASE k = 1 /\ job[submits] \notin {"absent", "queued", "processing"}
    <3>1. EndsLast(update)
      BY <1>0, <1>3, <1>5, <2>1, <2>3 DEF EndsLast, ApiTyped, Statuses
    <3>2. PICK c \in Channels : c \in reached
      BY <1>4, <3>1
    <3>3. inbox'[c] = Append(inbox[c], update) /\ inbox[c] \in Seq(Updates)
      BY <1>0, <1>4, <3>2 DEF InboxTyped
    <3>4. /\ Len(inbox[c]) + 1 \in 1..Len(inbox'[c])
          /\ update = inbox'[c][Len(inbox[c]) + 1]
      BY <3>3
    <3>5. InInbox(update)'
      BY <3>4 DEF InInbox
    <3>6. EndsLast(update)'
      BY <1>0, <3>1 DEF EndsLast
    <3> QED
      BY <3>5, <3>6 DEF Ahead
  <2>4. CASE job[submits] \in {"absent", "queued", "processing"}
    BY <1>0, <2>4 DEF Ahead
  <2> QED
    BY <2>2, <2>3, <2>4
<1>9. CASE job[submits] \in {"absent", "queued", "processing"}
  BY <1>0, <1>9 DEF Ahead
<1> QED
  BY <1>5, <1>7, <1>8, <1>9 DEF Ahead

\* A connection that is lost with the final update in it has missed it.
LEMMA LossAhead ==
    ASSUME Inv, EndIsAhead, NEW c \in Channels, ConnectionLost(c) PROVE EndIsAhead'
<1> SUFFICES ASSUME ~missed' PROVE EndIsAhead'
  BY DEF EndIsAhead
<1>1. /\ InboxTyped /\ UNCHANGED <<submitting, submits, job, bus>>
      /\ inbox' = [inbox EXCEPT ![c] = <<>>]
      /\ missed' = (missed \/ \E k \in 1..Len(inbox[c]) : EndsLast(inbox[c][k]))
  BY DEF Inv, TypeInv, ConnectionLost, submitVars, stateVars, apiVars
<1>2. CASE \E u \in Updates : InInbox(u) /\ EndsLast(u)
  <2>1. PICK u \in Updates, d \in Channels :
           EndsLast(u) /\ \E k \in 1..Len(inbox[d]) : u = inbox[d][k]
    BY <1>2 DEF InInbox
  <2>2. d # c
    BY <1>1, <2>1, Zenon
  <2>3. inbox'[d] = inbox[d]
    BY <1>1, <2>2 DEF InboxTyped
  <2>4. InInbox(u)' /\ EndsLast(u)'
    BY <1>1, <2>1, <2>3 DEF InInbox, EndsLast
  <2> QED
    BY <2>4 DEF EndIsAhead, Ahead
<1>3. CASE ~\E u \in Updates : InInbox(u) /\ EndsLast(u)
  <2>1. submitting' => submitting /\ ~missed
    BY <1>1, Zenon
  <2> QED
    BY <1>1, <1>3, <2>1 DEF EndIsAhead, Ahead
<1> QED
  BY <1>2, <1>3

\* The subscription passes over no update that ends its job.
LEMMA DeliverAhead ==
    ASSUME Inv, Connections, EndIsAhead, NEW c \in Channels, Deliver(c) PROVE EndIsAhead'
<1> SUFFICES ASSUME submitting' PROVE EndIsAhead'
  BY DEF EndIsAhead
<1> DEFINE update == Head(inbox[c])
<1>0. /\ InboxTyped /\ Waiting /\ UNCHANGED <<submits, job, bus, missed>>
      /\ inbox[c] # <<>> /\ update = inbox[c][1]
  BY DEF Inv, TypeInv, Deliver, submitVars, apiVars, InboxTyped
<1>1. CASE IsOurs(update) /\ update.status \in Awaited
  <2>1. submitting' = FALSE
    BY <1>1, Zenon DEF Deliver, Outcome
  <2> QED
    BY <2>1
<1>2. CASE ~(IsOurs(update) /\ update.status \in Awaited)
  <2>1. Received(c) /\ UNCHANGED submitting
    BY <1>2 DEF Deliver, stateVars
  <2>2. listening = submits
    BY <1>0 DEF Connections, Waiting
  <2>3. ~EndsLast(update)
    BY <1>2, <2>2 DEF IsOurs, EndsLast, Awaited, Final
  <2> HIDE DEF update
  <2>4. ASSUME NEW u \in Updates, InInbox(u), EndsLast(u) PROVE InInbox(u)'
    <3>1. PICK d \in Channels : \E k \in 1..Len(inbox[d]) : u = inbox[d][k]
      BY <2>4 DEF InInbox
    <3>2. PICK k \in 1..Len(inbox[d]) : u = inbox[d][k]
      BY <3>1
    <3>3. CASE d # c
      <4>1. inbox'[d] = inbox[d]
        BY <1>0, <2>1, <3>3 DEF Received, InboxTyped
      <4> QED
        BY <3>1, <4>1 DEF InInbox
    <3>4. CASE d = c
      <4>1. k # 1
        BY <1>0, <2>3, <2>4, <3>2, <3>4
      <4>2. inbox[c] \in Seq(Updates) /\ inbox'[c] = Tail(inbox[c])
        BY <1>0, <2>1 DEF Received, InboxTyped
      <4>3. k - 1 \in 1..Len(inbox'[c]) /\ inbox'[c][k - 1] = u
        BY <1>0, <3>2, <3>4, <4>1, <4>2
      <4> QED
        BY <4>3 DEF InInbox
    <3> QED
      BY <3>3, <3>4
  <2>5. ASSUME Ahead PROVE Ahead'
    BY <1>0, <2>4, <2>5 DEF Ahead, EndsLast
  <2> QED
    BY <1>0, <2>1, <2>5 DEF EndIsAhead
<1> QED
  BY <1>1, <1>2

LEMMA EndIsAheadStep ==
    ASSUME Inv, Connections, EndIsAhead, [Next]_vars PROVE EndIsAhead'
<1>0. Counted /\ Waiting /\ SubmitTyped /\ MaxSubmits \in Nat
  BY ClientAssumption DEF Inv, TypeInv
<1>1. ASSUME UNCHANGED <<submitting, submits, job, bus, inbox, missed>> PROVE EndIsAhead'
  <2>1. \A u \in Updates : InInbox(u) => InInbox(u)'
    BY <1>1 DEF InInbox
  <2> QED
    BY <1>1, <2>1, AheadStays
<1>2. ASSUME submitting' = FALSE PROVE EndIsAhead'
  BY <1>2 DEF EndIsAhead
<1>3. CASE Press
  <2>1. submits' = submits + 1 /\ job' = job /\ submits + 1 \in Submits
    BY <1>0, <1>3 DEF Press, apiVars, SubmitTyped, Submits
  <2>2. job'[submits'] = "absent"
    BY <1>0, <2>1 DEF Counted, SubmitTyped
  <2> QED
    BY <2>2 DEF EndIsAhead, Ahead
<1>4. CASE SubmitFails \/ AppStops
  BY <1>2, <1>4 DEF SubmitFails, EndWithError, AppStops
<1>5. CASE CreateJob
  <2>1. submits \in Submits /\ submits' = submits
    BY <1>0, <1>5 DEF CreateJob, Waiting, SubmitTyped, Submits, submitVars
  <2>2. job'[submits'] = "queued"
    BY <1>5, <2>1 DEF CreateJob, Inv, TypeInv, ApiTyped
  <2> QED
    BY <2>2 DEF EndIsAhead, Ahead
<1>6. CASE Listen
  <2>1. listening = 0
    BY <1>0, <1>6 DEF Listen, Waiting
  <2>2. \A c \in Channels : inbox[c] = <<>>
    BY <2>1 DEF Connections
  <2>3. \A u \in Updates : ~InInbox(u)
    BY <2>2 DEF InInbox
  <2>4. UNCHANGED <<submitting, submits, job, bus, missed>>
    BY <1>6 DEF Listen, stateVars, apiVars, histVars
  <2> QED
    BY <2>3, <2>4, AheadStays
<1>7. ASSUME NEW c \in Channels, ConnectionUp(c) \/ ConnectFails(c) \/ Reconnect(c)
      PROVE  EndIsAhead'
  BY <1>1, <1>7 DEF ConnectionUp, ConnectFails, Reconnect, submitVars, stateVars, apiVars,
     histVars
<1>8. CASE \/ EditForm \/ SwitchTab \/ OpenFromLibrary \/ Back \/ PressBlank \/ Send
          \/ \E n \in Submits : AskDeletion(n)
  BY <1>1, <1>8 DEF EditForm, SwitchTab, OpenFromLibrary, Back, PressBlank, Send, AskDeletion,
     submitVars, stateVars, socketVars, apiVars, histVars
<1>9. CASE DeleteTracks
  BY <1>1, <1>9 DEF DeleteTracks, submitVars, stateVars, socketVars, histVars
<1>10. CASE UNCHANGED vars
  BY <1>1, <1>10 DEF vars, submitVars, stateVars, socketVars, apiVars, histVars
<1> QED
  BY <1>3, <1>4, <1>5, <1>6, <1>7, <1>8, <1>9, <1>10, JobAdvancesAhead, BroadcastAhead,
     LossAhead, DeliverAhead
  DEF Next, User, Submit, Socket, Api

OutcomeInSight ==
    submitting /\ phase = "idle" /\ ~missed =>
        /\ listening = submits
        /\ \/ job[submits] \in {"queued", "processing"}
           \/ \E k \in 1..Len(bus) : bus[k] = submits
           \/ \E c \in Channels : /\ chan[c] = "open"
                                  /\ \E k \in 1..Len(inbox[c]) : EndsLast(inbox[c][k])

\* A submission that waits, and whose final update was not missed, waits for the job it
\* made, and the end of it is in sight: the job goes on, or it is on the bus, or its
\* final update is on an open connection.  No cancelled subscription, repeated
\* connection or update of another job leaves the app waiting for what has been
\* consumed (GenerationController.submit, WebSocketApi.jobUpdates).
THEOREM WaitHasAnOutcome == Spec => []OutcomeInSight
<1>1. Init => Connections /\ Created /\ EndIsAhead
  BY DEF Init, Connections, Created, EndIsAhead
<1>2. Inv /\ Connections /\ Created /\ EndIsAhead /\ [Next]_vars
          => Connections' /\ Created' /\ EndIsAhead'
  BY ConnectionsStep, CreatedStep, EndIsAheadStep
<1>3. Inv /\ Connections /\ Created /\ EndIsAhead => OutcomeInSight
  <2> SUFFICES ASSUME Inv, Connections, Created, EndIsAhead, submitting, phase = "idle", ~missed
               PROVE  /\ listening = submits
                      /\ \/ job[submits] \in {"queued", "processing"}
                         \/ \E k \in 1..Len(bus) : bus[k] = submits
                         \/ \E c \in Channels :
                              /\ chan[c] = "open"
                              /\ \E k \in 1..Len(inbox[c]) : EndsLast(inbox[c][k])
    BY DEF OutcomeInSight
  <2>1. listening = submits
    BY DEF Inv, Waiting, SubmittingIsBacked
  <2>2. Ahead /\ job[submits] # "absent"
    BY DEF EndIsAhead, Created
  <2>3. ASSUME NEW u \in Updates, InInbox(u), EndsLast(u)
        PROVE  \E c \in Channels : /\ chan[c] = "open"
                                   /\ \E k \in 1..Len(inbox[c]) : EndsLast(inbox[c][k])
    <3>1. PICK c \in Channels : \E k \in 1..Len(inbox[c]) : u = inbox[c][k]
      BY <2>3 DEF InInbox
    <3>2. inbox[c] # <<>>
      BY <3>1
    <3> QED
      BY <2>3, <3>1, <3>2 DEF Connections
  <2> QED
    BY <2>1, <2>2, <2>3 DEF Ahead
<1> QED
  BY <1>1, <1>2, <1>3, Invariance, PTL DEF Spec

=============================================================================
