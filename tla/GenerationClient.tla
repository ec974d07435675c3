--------------------------- MODULE GenerationClient ---------------------------
(***************************************************************************)
(* The generation flow of the mobile app: the form, its submission, the    *)
(* websocket that waits for the job, and the screen that shows the outcome *)
(* (features/generation/presentation, core/network/websocket_api.dart),    *)
(* against the jobs of its user as the API shows them.                     *)
(*                                                                         *)
(* Dart runs one callback at a time: what is between two awaits is one     *)
(* step, and a change of the controller's state runs the screen's listener *)
(* in the same step.  The job of submission n is called n.                 *)
(***************************************************************************)
EXTENDS JobParams, Sequences, FiniteSets

CONSTANTS
    Forms,       (* what the user enters                                     *)
    Style,       (* a mood and a genre of the catalogue, or "music"          *)
    Untitled,    (* the text "Untitled track"                                *)
    Channels,    (* bound: connections the websocket has or will have again  *)
    MaxSubmits,  (* bound: submissions                                       *)
    NoRequest    (* no request is being sent                                 *)

Submits == 1..MaxSubmits
First == CHOOSE c \in Channels : TRUE

\* The screen never calls setInstrumental.
FormSpace == [mode : {"description", "lyrics"}, prompt : Texts, name : Texts,
              gender : Genders \cup {Missing}, instrumental : {FALSE}]

InitialForm ==
    LET empty == [chars |-> 0, bytes |-> 0, padded |-> FALSE]
    IN [mode |-> "description", prompt |-> empty, name |-> empty, gender |-> Missing,
        instrumental |-> FALSE]

ASSUME ClientAssumption ==
    /\ Forms \subseteq FormSpace /\ InitialForm \in Forms
    /\ {Style, Untitled} \subseteq Texts
    /\ ~Blank(Style) /\ ~Blank(Untitled)
    /\ Style.bytes <= 80 /\ Untitled.bytes <= 80
    /\ MaxSubmits \in Nat
    /\ IsFiniteSet(Channels) /\ Channels # {}
    /\ NoRequest \notin Requests

VARIABLES
    form,        (* the fields of the form                                   *)
    screen,      (* the tab that is shown: only its screen is mounted        *)
    routes,      (* what lies over the tabs on the root navigator            *)
    submits,     (* number of the last submission                            *)
    phase,       (* where submit() is: idle, deviceId or posting             *)
    request,     (* the request that is being sent                           *)
    submitting,  (* isSubmitting                                             *)
    error,       (* errorMessage                                             *)
    completed,   (* completedTrackId: the job whose first track it is, or 0  *)
    listening,   (* the job _subscription waits for, or 0                    *)
    chan,        (* the connections of its websocket: off, connecting, open  *)
    inbox,       (* updates on their way on each connection                  *)
    timers,      (* reconnections that are due                               *)
    job,         (* status of each job in the API                            *)
    tracks,      (* the jobs that have a track                               *)
    deleting,    (* the job whose track is being deleted, or 0               *)
    bus,         (* updates published and not yet broadcast                  *)
    shown,       (* number of outcomes shown for each submission             *)
    missed       (* the final update of the last job did not reach the app   *)

screenVars == <<form, screen, routes>>
submitVars == <<submits, phase, request>>
stateVars == <<submitting, error, completed>>
socketVars == <<listening, chan, inbox, timers>>
apiVars == <<job, tracks, deleting, bus>>
histVars == <<shown, missed>>
vars == <<screenVars, submitVars, stateVars, socketVars, apiVars, histVars>>

NoError == "none"
Errors == {"blank", "exception", "failed"}
Final == {"ready", "failed"}
Statuses == {"absent", "queued", "processing"} \cup Final
Updates == [job : Submits, status : Statuses, tracks : BOOLEAN]

-----------------------------------------------------------------------------
Init ==
    /\ form = InitialForm
    /\ screen = "generation" /\ routes = <<>>
    /\ phase = "idle" /\ request = NoRequest
    /\ submitting = FALSE /\ error = NoError /\ completed = 0
    /\ listening = 0 /\ timers = 0
    /\ chan = [c \in Channels |-> "off"]
    /\ inbox = [c \in Channels |-> <<>>]
    /\ submits = 0
    /\ job = [n \in Submits |-> "absent"]
    /\ tracks = {} /\ deleting = 0
    /\ bus = <<>>
    /\ shown = [n \in Submits |-> 0]
    /\ missed = FALSE

-----------------------------------------------------------------------------
\* The listener of GenerationScreen, run for a new error and a new track while the
\* screen is mounted: it closes what is on top, then clears what it has shown.
CanPop == routes # <<>>
Popped == IF CanPop THEN SubSeq(routes, 1, Len(routes) - 1) ELSE routes

\* Mutant: the dialog is looked for on the navigator of the tabs.
ShowErrorInShell(e) ==
    IF screen = "generation" /\ e # error
    THEN UNCHANGED routes /\ error' = NoError
    ELSE UNCHANGED routes /\ error' = e

ShowError(e) ==
    IF screen = "generation" /\ e # error
    THEN routes' = Popped /\ error' = NoError
    ELSE UNCHANGED routes /\ error' = e

\* Mutant: the player is opened over the dialog.
ShowTrackOnTop(n) ==
    IF screen = "generation" /\ n # 0 /\ n # completed
    THEN routes' = Append(routes, "player") /\ completed' = 0
    ELSE UNCHANGED routes /\ completed' = n

ShowTrack(n) ==
    IF screen = "generation" /\ n # 0 /\ n # completed
    THEN routes' = Append(Popped, "player") /\ completed' = 0
    ELSE UNCHANGED routes /\ completed' = n

\* Mutant: the catch forgets isSubmitting.
OnlyShowError(e) ==
    /\ ShowError(e)
    /\ UNCHANGED <<submitting, completed>>

\* submit()'s catch.
EndWithError(e) ==
    /\ submitting' = FALSE
    /\ ShowError(e)
    /\ UNCHANGED completed

Shown(n) == shown' = [shown EXCEPT ![n] = @ + 1]

\* The user edits, switches tabs, opens a player from the library, goes back (the
\* dialog cannot be dismissed by a tap, but the system's back button closes it).
\* Bound: the form is edited as long as it may still be sent.
EditForm ==
    /\ phase = "deviceId" \/ submits < MaxSubmits
    /\ screen = "generation" /\ routes = <<>>
    /\ form' \in Forms
    /\ UNCHANGED <<screen, routes, submitVars, stateVars, socketVars, apiVars, histVars>>

SwitchTab ==
    /\ routes = <<>>
    /\ screen' \in {"generation", "library"} \ {screen}
    /\ UNCHANGED <<form, routes, submitVars, stateVars, socketVars, apiVars, histVars>>

OpenFromLibrary ==
    /\ screen = "library" /\ routes = <<>> /\ tracks # {}
    /\ routes' = <<"player">>
    /\ UNCHANGED <<form, screen, submitVars, stateVars, socketVars, apiVars, histVars>>

Back ==
    /\ CanPop
    /\ routes' = Popped
    /\ UNCHANGED <<form, screen, submitVars, stateVars, socketVars, apiVars, histVars>>

\* The player asks the API to delete its track.  Bound: one deletion at a time.
AskDeletion(n) ==
    /\ routes = <<"player">> /\ n \in tracks /\ deleting = 0
    /\ deleting' = n
    /\ UNCHANGED <<screenVars, submitVars, stateVars, socketVars, job, tracks, bus, histVars>>

\* It is deleted, and the player that asked closes if it is still there, or not.
DeleteTracks ==
    /\ deleting # 0 /\ deleting' = 0
    /\ \/ tracks' = tracks \ {deleting} /\ UNCHANGED routes
       \/ tracks' = tracks \ {deleting} /\ routes = <<"player">> /\ routes' = Popped
       \/ UNCHANGED <<tracks, routes>>
    /\ UNCHANGED <<form, screen, submitVars, stateVars, socketVars, job, bus, histVars>>

-----------------------------------------------------------------------------
\* Mutant: the button is not disabled while a generation is awaited.
CanPressAgain == screen = "generation" /\ routes = <<>>

\* The button: the dialog is shown, then submit() validates.  The button is not
\* there under the dialog, and is disabled while isSubmitting.
CanPress == screen = "generation" /\ routes = <<>> /\ ~submitting

Press ==
    /\ CanPress /\ submits < MaxSubmits
    /\ ~Blank(form.prompt)
    /\ submits' = submits + 1
    /\ phase' = "deviceId"
    /\ submitting' = TRUE /\ error' = NoError
    /\ routes' = <<"dialog">>
    /\ missed' = FALSE
    /\ UNCHANGED <<form, screen, request, completed, socketVars, apiVars, shown>>

\* validate() fails: the listener closes the dialog that was just opened.
PressBlank ==
    /\ CanPress
    /\ Blank(form.prompt)
    /\ IF error # "blank"
       THEN error' = NoError /\ UNCHANGED routes
       ELSE routes' = <<"dialog">> /\ UNCHANGED error
    /\ UNCHANGED <<form, screen, submitVars, submitting, completed, socketVars, apiVars,
                   histVars>>

UsesAdvanced(f) == ~Blank(f.name) \/ f.gender # Missing \/ f.instrumental

\* Mutant: the advanced options no longer switch to custom mode.
BuildPlain(f) ==
    LET WhenCustom(value) == IF f.mode = "lyrics" THEN value ELSE Missing
    IN [prompt |-> Trim(f.prompt), custom |-> f.mode = "lyrics",
        style |-> WhenCustom(Style), title |-> WhenCustom(Untitled),
        instrumental |-> f.instrumental, model |-> "V4_5ALL", gender |-> f.gender,
        tags |-> Missing]

\* The request is made of the form as it is once the device id has been read.
BuildRequest(f) ==
    LET custom == f.mode = "lyrics" \/ UsesAdvanced(f)
        title == IF Blank(f.name) THEN Untitled ELSE Trim(f.name)
        WhenCustom(value) == IF custom THEN value ELSE Missing
    IN [prompt |-> Trim(f.prompt), custom |-> custom, style |-> WhenCustom(Style),
        title |-> WhenCustom(title), instrumental |-> f.instrumental,
        model |-> "V4_5ALL", gender |-> WhenCustom(f.gender), tags |-> Missing]

Send ==
    /\ phase = "deviceId"
    /\ Sendable(BuildRequest(form))
    /\ request' = BuildRequest(form)
    /\ phase' = "posting"
    /\ UNCHANGED <<screenVars, submits, stateVars, socketVars, apiVars, histVars>>

\* submit()'s catch: the device id cannot be read, CreateJobUseCase refuses the
\* request, POST /jobs is refused or fails, perhaps after it created the job.
SubmitFails ==
    /\ phase # "idle"
    /\ phase' = "idle" /\ request' = NoRequest
    /\ EndWithError("exception")
    /\ Shown(submits)
    /\ UNCHANGED <<form, screen, submits, socketVars, apiVars, missed>>

CreateJob ==
    /\ phase = "posting" /\ job[submits] = "absent"
    /\ Accepted(request)
    /\ job' = [job EXCEPT ![submits] = "queued"]
    /\ UNCHANGED <<screenVars, submitVars, stateVars, socketVars, tracks, deleting, bus, histVars>>

\* The answer arrives: the old subscription is cancelled, a new websocket connects.
Listen ==
    /\ phase = "posting" /\ job[submits] # "absent"
    /\ phase' = "idle" /\ request' = NoRequest
    /\ listening' = submits
    /\ chan' = [c \in Channels |-> IF c = First THEN "connecting" ELSE "off"]
    /\ inbox' = [c \in Channels |-> <<>>]
    /\ timers' = 0
    /\ UNCHANGED <<screenVars, submits, stateVars, apiVars, histVars>>

-----------------------------------------------------------------------------
\* WebSocketApi: a connection that ends is replaced after two seconds, by two if it
\* could not be made (onError and onDone both reconnect).  The connections of a
\* cancelled subscription live on, but nothing hears them.
Busy == {c \in Channels : chan[c] # "off"}
Room == Cardinality(Channels) - Cardinality(Busy) - timers

\* The update ends the job of the last submission.
EndsLast(update) == update.job = submits /\ update.status \in Final

ConnectionUp(c) ==
    /\ chan[c] = "connecting"
    /\ chan' = [chan EXCEPT ![c] = "open"]
    /\ UNCHANGED <<screenVars, submitVars, stateVars, listening, inbox, timers, apiVars,
                   histVars>>

ConnectFails(c) ==
    /\ chan[c] = "connecting" /\ Room >= 1
    /\ chan' = [chan EXCEPT ![c] = "off"]
    /\ timers' = timers + 2
    /\ UNCHANGED <<screenVars, submitVars, stateVars, listening, inbox, apiVars, histVars>>

ConnectionLost(c) ==
    /\ chan[c] = "open"
    /\ chan' = [chan EXCEPT ![c] = "off"]
    /\ inbox' = [inbox EXCEPT ![c] = <<>>]
    /\ timers' = timers + 1
    /\ missed' = (missed \/ \E k \in 1..Len(inbox[c]) : EndsLast(inbox[c][k]))
    /\ UNCHANGED <<screenVars, submitVars, stateVars, listening, apiVars, shown>>

Reconnect(c) ==
    /\ timers > 0 /\ chan[c] = "off"
    /\ timers' = timers - 1
    /\ chan' = [chan EXCEPT ![c] = "connecting"]
    /\ UNCHANGED <<screenVars, submitVars, stateVars, listening, inbox, apiVars, histVars>>

\* The API.  A change is published or not (handleError does not, a publish may fail);
\* the subscriber broadcasts the job as it is by then, or cannot read it.
Advance(n, status, news) ==
    /\ job' = [job EXCEPT ![n] = status]
    /\ bus' = bus \o news
    /\ missed' = (missed \/ (n = submits /\ status \in Final /\ news = <<>>))
    /\ UNCHANGED <<screenVars, submitVars, stateVars, socketVars, deleting, shown>>

JobAdvances(n) == \E news \in {<<n>>, <<>>} :
    \/ job[n] = "queued" /\ Advance(n, "processing", news) /\ UNCHANGED tracks
    \/ job[n] = "processing" /\ Advance(n, "ready", news) /\ tracks' = tracks \cup {n}
    \/ job[n] \in {"queued", "processing"} /\ Advance(n, "failed", news) /\ UNCHANGED tracks

Broadcast ==
    /\ bus # <<>>
    /\ LET n == Head(bus)
           update == [job |-> n, status |-> job[n], tracks |-> n \in tracks]
       IN \E readable \in BOOLEAN :
            LET reached == {c \in Channels : readable /\ chan[c] = "open"}
            IN /\ inbox' = [c \in Channels |->
                               IF c \in reached THEN Append(inbox[c], update) ELSE inbox[c]]
               /\ missed' = (missed \/ (EndsLast(update) /\ reached = {}))
    /\ bus' = Tail(bus)
    /\ UNCHANGED <<screenVars, submitVars, stateVars, listening, chan, timers, job, tracks,
                   deleting, shown>>

-----------------------------------------------------------------------------
\* _subscription.cancel()
Unsubscribe ==
    /\ listening' = 0 /\ timers' = 0
    /\ chan' = [c \in Channels |-> "off"]
    /\ inbox' = [c \in Channels |-> <<>>]

Received(c) == inbox' = [inbox EXCEPT ![c] = Tail(@)]

\* Mutant: updates are not filtered by the id of the created job.
IsAnyUpdate(update) == TRUE

\* The subscription is for the created job.
IsOurs(update) == update.job = listening

\* Mutant: the backend's final status is taken to be called "completed".
AwaitsCompleted == {"completed", "failed"}

\* The statuses at which the app stops waiting.
Awaited == {"ready", "failed"}

\* The outcome ends the submission: whose it is comes with the update.
Outcome(update) ==
    /\ submitting' = FALSE
    /\ IF update.status = "ready"
       THEN ShowTrack(IF update.tracks THEN update.job ELSE 0) /\ UNCHANGED error
       ELSE ShowError("failed") /\ UNCHANGED completed
    /\ Shown(update.job)

Deliver(c) ==
    /\ inbox[c] # <<>>
    /\ LET update == Head(inbox[c])
       IN IF IsOurs(update) /\ update.status \in Awaited
          THEN Outcome(update) /\ Unsubscribe
          ELSE /\ Received(c)
               /\ UNCHANGED <<routes, stateVars, listening, chan, timers, shown>>
    /\ UNCHANGED <<form, screen, submitVars, apiVars, missed>>

\* The app is stopped and started again: what it waited for is forgotten.
AppStops ==
    /\ form' = InitialForm
    /\ screen' = "generation" /\ routes' = <<>>
    /\ phase' = "idle" /\ request' = NoRequest
    /\ submitting' = FALSE /\ error' = NoError /\ completed' = 0
    /\ Unsubscribe
    /\ UNCHANGED <<submits, apiVars, histVars>>

-----------------------------------------------------------------------------
User == \/ EditForm \/ SwitchTab \/ OpenFromLibrary \/ Back \/ Press \/ PressBlank
        \/ \E n \in Submits : AskDeletion(n)

Submit == Send \/ SubmitFails \/ CreateJob \/ Listen

Socket == \E c \in Channels :
    ConnectionUp(c) \/ ConnectFails(c) \/ ConnectionLost(c) \/ Reconnect(c) \/ Deliver(c)

Api == Broadcast \/ DeleteTracks \/ \E n \in Submits : JobAdvances(n)

Next == User \/ Submit \/ Socket \/ Api \/ AppStops

Spec == Init /\ [][Next]_vars

\* A submission is answered, a job ends, an update that has arrived is handled.  That
\* the user does anything, a connection comes up or the app stops is not assumed.
Fairness ==
    /\ WF_vars(Submit)
    /\ WF_vars(Broadcast)
    /\ \A n \in Submits : WF_vars(JobAdvances(n))
    /\ \A c \in Channels : WF_vars(Deliver(c))

FairSpec == Spec /\ Fairness

-----------------------------------------------------------------------------
TypeOK ==
    /\ form \in Forms
    /\ screen \in {"generation", "library"}
    /\ routes \in {<<>>, <<"dialog">>, <<"player">>}
    /\ submits \in 0..MaxSubmits
    /\ phase \in {"idle", "deviceId", "posting"}
    /\ request \in Requests \cup {NoRequest}
    /\ submitting \in BOOLEAN /\ error \in Errors \cup {NoError}
    /\ completed \in 0..MaxSubmits /\ listening \in 0..MaxSubmits
    /\ chan \in [Channels -> {"off", "connecting", "open"}]
    /\ inbox \in [Channels -> Seq(Updates)]
    /\ timers \in Nat
    /\ job \in [Submits -> Statuses]
    /\ tracks \subseteq Submits /\ deleting \in 0..MaxSubmits
    /\ bus \in Seq(Submits)
    /\ shown \in [Submits -> Nat] /\ missed \in BOOLEAN

\* The screen says that a generation is running exactly while a submission is under
\* way or a subscription waits for its job: no outcome, error or other job's update
\* leaves it waiting for nothing, or frees the button too early.
SubmittingIsBacked == submitting <=> (phase # "idle" \/ listening # 0)

\* The loading dialog never outlives the submission it was opened for.
DialogIsBacked == routes = <<"dialog">> => submitting

\* Only the outcome of the last submission is ever shown, once, though an update may
\* come over two connections, and jobs the app has lost track of send theirs too.
OneOutcome ==
    /\ \A n \in Submits : shown[n] <= 1
    /\ submitting => shown[submits] = 0

\* What the app sends breaks none of the API's rules on modes and fields, whatever the
\* user edited while the device id was being read: if it is refused, a text is too
\* long.
RefusedOnlyForLength ==
    phase = "posting" => (Accepted(request) <=> FitsLimits(Normalize(request)))

\* An outcome closes the dialog of its submission and nothing else: a player that
\* the user is looking at is not closed under their hands.
PlayerStays == [][routes = <<"player">> /\ shown' # shown => routes' = routes]_vars

\* An app that hears of the end of its job stops waiting: nothing in the app but a lost
\* update keeps a submission open.  This rests on two assumptions (Fairness): a POST is
\* answered or fails, although createDio sets no timeout, and a job that was created
\* ends, although failures of the pipeline can strand one.
ToldWaitEnds == submitting ~> (~submitting \/ missed)

\* Stated by the API document, and violated: an update that was missed is made up for
\* (GET /jobs/{id} is the fallback), so that the wait ends with the job.
WaitEnds == submitting ~> ~submitting
=============================================================================
