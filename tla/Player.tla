-------------------------------- MODULE Player --------------------------------
(***************************************************************************)
(* The player of the mobile app for one song: the controller that keeps    *)
(* its state for as long as the app runs (features/player/domain), the     *)
(* screen that brings the audio player in line with it, again and again,   *)
(* from callbacks that overlap (features/player/presentation), the audio   *)
(* cache of Linux (core/cache) and the likes (features/library/data).      *)
(*                                                                         *)
(* Dart runs one callback at a time: what is between two awaits is one     *)
(* step.  The audio player is a library: what its calls and events do is   *)
(* taken from how the screen uses them.                                    *)
(***************************************************************************)
EXTENDS Naturals

CONSTANTS
    Linux,      (* the app runs on Linux, where songs are played from files   *)
    MaxLikes,   (* bound: presses of the heart that wait at a time            *)
    MaxSyncs,   (* bound: _syncAudioState calls that wait at a time           *)
    MaxSeeks    (* bound: seeks that wait at a time                           *)

ASSUME PlayerAssumption ==
    Linux \in BOOLEAN /\ MaxLikes \in Nat /\ MaxSyncs \in Nat /\ MaxSeeks \in Nat

Likes == 1..MaxLikes
Syncs == 1..MaxSyncs

VARIABLES
    favorite,   (* is_favorite of the track on the server                     *)
    view,       (* the AsyncValue of the controller                           *)
    likes,      (* where each toggleLike is, and what it keeps meanwhile      *)
    open,       (* the screen is mounted                                      *)
    source,     (* _currentSourceUrl is set                                   *)
    ready,      (* the audio player has prepared its source                   *)
    playing,    (* what the audio player reports: it is playing               *)
    seeking,    (* _isSeeking                                                 *)
    seeks,      (* seeks that wait for the audio player                       *)
    syncs,      (* where each _syncAudioState is, and the isPlaying it obeys  *)
    audio,      (* what is known of a URL or file to play the song from       *)
    loads,      (* history: setSource calls of the screen                     *)
    heart       (* history: what the likes so far say of the heart            *)

audioVars == <<source, ready, playing, loads>>
seekVars == <<seeking, seeks>>
vars == <<favorite, view, likes, open, audioVars, seekVars, syncs, audio, heart>>

\* Which slot of calls a new one takes makes no difference: the first that is idle.
Free(calls, c) == calls[c].pc = "idle" /\ \A b \in 1..(c - 1) : calls[b].pc # "idle"

NoLike == [pc |-> "idle", playing |-> FALSE, want |-> FALSE]
NoSync == [pc |-> "idle", playing |-> FALSE]

NothingShown(kind) == [kind |-> kind, playing |-> FALSE, liked |-> FALSE]

\* valueOrNull is not null: an error keeps the value there was before it.
HasValue == view.kind \in {"data", "error"}

\* The URL of the track will do, except on Linux: there cachedAudioProvider is asked.
UnknownAudio == IF Linux THEN "unasked" ELSE "usable"

-----------------------------------------------------------------------------
Init ==
    /\ favorite \in BOOLEAN
    /\ view = NothingShown("none")
    /\ likes = [l \in Likes |-> NoLike]
    /\ open = FALSE
    /\ source = FALSE /\ ready = FALSE /\ playing = FALSE /\ loads = 0
    /\ seeking = FALSE /\ seeks = 0
    /\ syncs = [s \in Syncs |-> NoSync]
    /\ audio = UnknownAudio
    /\ heart = "unknown"

-----------------------------------------------------------------------------
(***************************************************************************)
(* _syncAudioState, called with each new value.  It runs at once up to its *)
(* first await: of the cached file, of setSource, of resume or of pause.   *)
(***************************************************************************)
Control(play) ==
    IF play = playing THEN "idle" ELSE IF play THEN "resume" ELSE "pause"

\* Where a call stands with what is known of the source.
Stands(play) ==
    CASE audio \in {"unasked", "pending"} -> "cache"
      [] audio = "null" -> "idle"
      [] audio = "usable" /\ ~source -> "source"
      [] audio = "usable" /\ source -> Control(play)

\* Mutant: the URL is remembered when setSource has returned.
RememberLate(pc) ==
    /\ loads' = IF pc = "source" THEN loads + 1 ELSE loads
    /\ UNCHANGED source

\* The URL is remembered before setSource is awaited.
Remember(pc) ==
    /\ loads' = IF pc = "source" THEN loads + 1 ELSE loads
    /\ source' = (source \/ pc = "source")

\* A call that waits for nothing is over.
Wait(pc, play) ==
    IF pc = "idle" THEN UNCHANGED syncs
    ELSE \E s \in Syncs :
            /\ Free(syncs, s)
            /\ syncs' = [syncs EXCEPT ![s] = [pc |-> pc, playing |-> play]]

Sync(play) ==
    /\ audio' = IF Stands(play) = "cache" THEN "pending" ELSE audio
    /\ Remember(Stands(play))
    /\ Wait(Stands(play), play)

\* A new value of the controller: the listener of a mounted screen runs with it.
Show(play, liked) ==
    /\ view' = [kind |-> "data", playing |-> play, liked |-> liked]
    /\ IF open THEN Sync(play) ELSE UNCHANGED <<source, loads, syncs, audio>>

Goes(s, pc) ==
    syncs' = [syncs EXCEPT ![s] = IF pc = "idle" THEN NoSync
                                  ELSE [pc |-> pc, playing |-> syncs[s].playing]]

\* The cached file is there, or there is none and the call is over.
Cached(s) ==
    /\ syncs[s].pc = "cache" /\ audio \in {"usable", "null"}
    /\ Remember(Stands(syncs[s].playing))
    /\ Goes(s, Stands(syncs[s].playing))
    /\ UNCHANGED <<favorite, view, likes, open, ready, playing, seekVars, audio, heart>>

\* setSource has returned: the call obeys the state it was made with.
SourceSet(s) ==
    /\ syncs[s].pc = "source"
    /\ source' = TRUE /\ ready' = TRUE
    /\ Goes(s, Control(syncs[s].playing))
    /\ UNCHANGED <<favorite, view, likes, open, playing, loads, seekVars, audio, heart>>

Resumed(s) ==
    /\ syncs[s].pc = "resume"
    /\ playing' = TRUE
    /\ Goes(s, "idle")
    /\ UNCHANGED <<favorite, view, likes, open, source, ready, loads, seekVars, audio, heart>>

Paused(s) ==
    /\ syncs[s].pc = "pause"
    /\ playing' = FALSE
    /\ Goes(s, "idle")
    /\ UNCHANGED <<favorite, view, likes, open, source, ready, loads, seekVars, audio, heart>>

\* setSource, resume or pause throws: the exception is printed.
SyncFails(s) ==
    /\ syncs[s].pc \in {"source", "resume", "pause"}
    /\ Goes(s, "idle")
    /\ UNCHANGED <<favorite, view, likes, open, audioVars, seekVars, audio, heart>>

\* The download ends: its file, or the URL where the cache could not be opened;
\* or null, which the provider keeps for as long as the app runs.
Downloaded ==
    /\ audio = "pending"
    /\ audio' \in {"usable", "null"}
    /\ UNCHANGED <<favorite, view, likes, open, audioVars, seekVars, syncs, heart>>

-----------------------------------------------------------------------------
(***************************************************************************)
(* The screen and its controller.                                          *)
(***************************************************************************)
FreshAudio == source' = FALSE /\ ready' = FALSE /\ playing' = FALSE /\ loads' = 0

Open ==
    /\ ~open /\ open' = TRUE
    /\ view' = IF view.kind = "none" THEN NothingShown("loading") ELSE view
    /\ UNCHANGED <<favorite, likes, audioVars, seekVars, syncs, audio, heart>>

\* Mutant: the audio player outlives its screen.
LeaveRunning ==
    /\ open /\ open' = FALSE
    /\ seeking' = FALSE /\ seeks' = 0
    /\ syncs' = [s \in Syncs |-> NoSync]
    /\ UNCHANGED <<favorite, view, likes, audioVars, audio, heart>>

Close ==
    /\ open /\ open' = FALSE
    /\ FreshAudio
    /\ seeking' = FALSE /\ seeks' = 0
    /\ syncs' = [s \in Syncs |-> NoSync]
    /\ UNCHANGED <<favorite, view, likes, audio, heart>>

\* build: the liked ids are those of the first page of the favorites.
Load ==
    /\ view.kind = "loading"
    /\ \E liked \in {favorite, FALSE} : Show(FALSE, liked)
    /\ UNCHANGED <<favorite, likes, open, ready, playing, seekVars, heart>>

\* The song is not there, or a request fails: it is never asked for again.
LoadFails ==
    /\ view.kind = "loading"
    /\ view' = NothingShown("failed")
    /\ UNCHANGED <<favorite, likes, open, audioVars, seekVars, syncs, audio, heart>>

TogglePlay ==
    /\ open /\ view.kind = "data"
    /\ Show(~view.playing, view.liked)
    /\ UNCHANGED <<favorite, likes, open, ready, playing, seekVars, heart>>

\* The dialog may have been opened before an error took the page.
RenameSong ==
    /\ open /\ HasValue
    /\ Show(view.playing, view.liked)
    /\ UNCHANGED <<favorite, likes, open, ready, playing, seekVars, heart>>

Seek ==
    /\ open /\ view.kind = "data" /\ seeks < MaxSeeks
    /\ Show(view.playing, view.liked)
    /\ seeking' = TRUE /\ seeks' = seeks + 1
    /\ UNCHANGED <<favorite, likes, open, ready, playing, heart>>

\* The first seek to return clears _isSeeking for all.
SeekDone ==
    /\ seeks > 0 /\ seeks' = seeks - 1
    /\ seeking' = FALSE
    /\ UNCHANGED <<favorite, view, likes, open, audioVars, syncs, audio, heart>>

\* A seek that throws leaves _isSeeking as it is.
SeekFails ==
    /\ seeks > 0 /\ seeks' = seeks - 1
    /\ UNCHANGED <<favorite, view, likes, open, audioVars, seeking, syncs, audio, heart>>

\* Mutant: the screen itself keeps the progress, and the controller hears nothing.
TickSilently ==
    /\ open /\ ready /\ ~seeking /\ HasValue
    /\ view' = [view EXCEPT !.kind = "data"]
    /\ UNCHANGED <<source, loads, syncs, audio>>
    /\ UNCHANGED <<favorite, likes, open, ready, playing, seekVars, heart>>

\* Mutant: the position is ignored while the error is shown.
TickOnData ==
    /\ open /\ ready /\ ~seeking /\ view.kind = "data"
    /\ Show(view.playing, view.liked)
    /\ UNCHANGED <<favorite, likes, open, ready, playing, seekVars, heart>>

\* _handleAudioPositionChanged; a pause or a seek reports a position, too.
Tick ==
    /\ open /\ ready /\ ~seeking /\ HasValue
    /\ Show(view.playing, view.liked)
    /\ UNCHANGED <<favorite, likes, open, ready, playing, seekVars, heart>>

\* _handlePlaybackComplete: the audio player is not playing any more, so that the
\* calls for setPlaying(false) and updateProgress(1) find nothing to do.
EndOfTrack ==
    /\ open /\ ready /\ playing
    /\ playing' = FALSE /\ ready' \in BOOLEAN
    /\ view' = IF HasValue THEN [view EXCEPT !.kind = "data", !.playing = FALSE] ELSE view
    /\ UNCHANGED <<favorite, likes, open, source, loads, seekVars, syncs, audio, heart>>

-----------------------------------------------------------------------------
(***************************************************************************)
(* toggleLike: read the track, then add or remove the favorite.            *)
(***************************************************************************)
Alone(l) == \A k \in Likes \ {l} : likes[k].pc = "idle"

\* No press is waited for before the next.
Like(l) ==
    /\ open /\ view.kind = "data" /\ Free(likes, l)
    /\ likes' = [likes EXCEPT ![l] = [pc |-> "get", playing |-> view.playing, want |-> FALSE]]
    /\ heart' = IF Alone(l) THEN "alone" ELSE "mixed"
    /\ UNCHANGED <<favorite, view, open, audioVars, seekVars, syncs, audio>>

LikeRead(l) ==
    /\ likes[l].pc = "get"
    /\ likes' = [likes EXCEPT ![l].pc = "put", ![l].want = ~favorite]
    /\ UNCHANGED <<favorite, view, open, audioVars, seekVars, syncs, audio, heart>>

LikeApplied(l) ==
    /\ likes[l].pc = "put"
    /\ favorite' = likes[l].want
    /\ likes' = [likes EXCEPT ![l].pc = "reply"]
    /\ UNCHANGED <<view, open, audioVars, seekVars, syncs, audio, heart>>

Answered(l, known) ==
    /\ likes' = [likes EXCEPT ![l] = NoLike]
    /\ heart' = IF ~Alone(l) THEN heart ELSE IF heart = "alone" THEN known ELSE "unknown"

\* Mutant: the heart is turned over where it is shown.
LikeTurned(l) ==
    /\ likes[l].pc = "reply"
    /\ Show(likes[l].playing, ~view.liked)
    /\ Answered(l, "known")
    /\ UNCHANGED <<favorite, open, ready, playing, seekVars>>

\* The new value is the one of before the request, with the new heart.
LikeReplied(l) ==
    /\ likes[l].pc = "reply"
    /\ Show(likes[l].playing, likes[l].want)
    /\ Answered(l, "known")
    /\ UNCHANGED <<favorite, open, ready, playing, seekVars>>

\* A request fails, applied or not: the page of the song becomes an error.
LikeFails(l) ==
    /\ likes[l].pc # "idle"
    /\ view' = [view EXCEPT !.kind = "error"]
    /\ Answered(l, "unknown")
    /\ UNCHANGED <<favorite, open, audioVars, seekVars, syncs, audio>>

\* The app ends and is started again; what was sent may still be applied.
AppRestart ==
    /\ view.kind # "none"
    /\ favorite' \in {favorite} \cup {likes[l].want : l \in {k \in Likes : likes[k].pc = "put"}}
    /\ view' = NothingShown("none")
    /\ likes' = [l \in Likes |-> NoLike]
    /\ open' = FALSE
    /\ FreshAudio
    /\ seeking' = FALSE /\ seeks' = 0
    /\ syncs' = [s \in Syncs |-> NoSync]
    /\ audio' = UnknownAudio
    /\ heart' = "unknown"

-----------------------------------------------------------------------------
SyncStep(s) == Cached(s) \/ SourceSet(s) \/ Resumed(s) \/ Paused(s) \/ SyncFails(s)
LikeStep(l) == LikeRead(l) \/ LikeApplied(l) \/ LikeReplied(l) \/ LikeFails(l)

Next ==
    \/ Open \/ Close \/ Load \/ LoadFails
    \/ TogglePlay \/ RenameSong
    \/ Seek \/ SeekDone \/ SeekFails
    \/ Tick \/ EndOfTrack
    \/ \E s \in Syncs : SyncStep(s)
    \/ Downloaded
    \/ \E l \in Likes : Like(l) \/ LikeStep(l)
    \/ AppRestart

Spec == Init /\ [][Next]_vars

(***************************************************************************)
(* An audio player that plays reports its position again and again, its    *)
(* calls return or throw, and a pause that is asked for again and again    *)
(* succeeds at last.  No download, no request and no user is relied on.    *)
(***************************************************************************)
Fairness ==
    /\ WF_vars(playing /\ Tick)
    /\ WF_vars(SeekDone \/ SeekFails)
    /\ \A s \in Syncs : WF_vars(SyncStep(s)) /\ SF_vars(Paused(s))

FairSpec == Spec /\ Fairness

-----------------------------------------------------------------------------
Views ==
    {NothingShown(kind) : kind \in {"none", "loading", "failed"}}
        \cup [kind : {"data", "error"}, playing : BOOLEAN, liked : BOOLEAN]

\* The variables have these types; and without its screen there is no audio player:
\* none that sounds and no call that could wake it (dispose).
TypeOK ==
    /\ favorite \in BOOLEAN /\ view \in Views
    /\ likes \in [Likes -> [pc : {"idle", "get", "put", "reply"}, playing : BOOLEAN,
                            want : BOOLEAN]]
    /\ open \in BOOLEAN
    /\ source \in BOOLEAN /\ ready \in BOOLEAN /\ playing \in BOOLEAN /\ loads \in Nat
    /\ seeking \in BOOLEAN /\ seeks \in 0..MaxSeeks
    /\ syncs \in [Syncs -> [pc : {"idle", "cache", "source", "resume", "pause"},
                            playing : BOOLEAN]]
    /\ audio \in {"unasked", "pending", "usable", "null"}
    /\ heart \in {"unknown", "alone", "mixed", "known"}
    /\ ~open => ~playing /\ \A s \in Syncs : syncs[s].pc = "idle"

\* However many calls of _syncAudioState overlap, the source of a screen's audio
\* player is set once, and no call starts the song again (the comparison with
\* _currentSourceUrl, which is written before the await).
SetOnce == loads <= 1

\* Whatever has gone wrong with the heart before - a favorite past the first page, a
\* request that was applied and not answered, two presses that crossed each other -
\* one press that is answered before the next puts it right (toggleLike asks the
\* server and shows what it has done).
HeartIsRepaired == heart = "known" => HasValue /\ view.liked = favorite

\* _isSeeking was left behind by a seek that threw: the screen is deaf to positions.
Jammed == seeking /\ seeks = 0

Sounding == open /\ playing /\ ready

\* A song does not go on sounding while its page shows it paused: however the calls
\* that pause and resume have overtaken each other, or failed, the next positions call
\* _syncAudioState again - unless a seek that threw has jammed the screen.
PauseIsObeyed ==
    (Sounding /\ HasValue /\ ~view.playing)
        ~> (~Sounding \/ view.playing \/ Jammed)

\* The page of a song that sounds comes back after an error: the next position puts
\* the value the error has kept on the page again (updateProgress on valueOrNull).
ErrorPagePasses ==
    (Sounding /\ view.kind = "error") ~> (~Sounding \/ view.kind # "error" \/ Jammed)
=============================================================================
