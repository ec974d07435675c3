---------------------------- MODULE PlayerTheorems ----------------------------
(***************************************************************************)
(* What holds of the player for any number of overlapping calls, likes and *)
(* seeks, with and without the cache of Linux: the types and the silence   *)
(* of a closed screen, the single setSource of a screen, the heart that a  *)
(* like puts right, and what a position does to a song that sounds.        *)
(***************************************************************************)
EXTENDS Player, TLAPS

SyncSpace ==
    [pc : {"idle", "cache", "source", "resume", "pause"}, playing : BOOLEAN]
LikeSpace == [pc : {"idle", "get", "put", "reply"}, playing : BOOLEAN, want : BOOLEAN]

-----------------------------------------------------------------------------
LEMMA StandsType ==
    ASSUME TypeOK, NEW play \in BOOLEAN
    PROVE  Stands(play) \in {"idle", "cache", "source", "resume", "pause"}
<1>1. audio \in {"unasked", "pending", "usable", "null"} /\ source \in BOOLEAN
      BY DEF TypeOK
<1>2. Control(play) \in {"idle", "resume", "pause"}
      BY DEF Control
<1>. QED  BY <1>1, <1>2 DEF Stands

LEMMA WaitType ==
    ASSUME TypeOK, NEW play \in BOOLEAN,
           NEW pc \in {"idle", "cache", "source", "resume", "pause"}, Wait(pc, play)
    PROVE  syncs' \in [Syncs -> SyncSpace]
<1>1. syncs \in [Syncs -> SyncSpace]
      BY DEF TypeOK, SyncSpace
<1>2. CASE pc = "idle"
      BY <1>1, <1>2 DEF Wait
<1>3. CASE pc # "idle"
  <2>1. PICK s \in Syncs : syncs' = [syncs EXCEPT ![s] = [pc |-> pc, playing |-> play]]
        BY <1>3 DEF Wait
  <2>2. [pc |-> pc, playing |-> play] \in SyncSpace
        BY DEF SyncSpace
  <2>. QED  BY <1>1, <2>1, <2>2
<1>. QED  BY <1>2, <1>3

\* A new value keeps the types, whoever shows it.
LEMMA ShowType ==
    ASSUME TypeOK, NEW play \in BOOLEAN, NEW liked \in BOOLEAN, Show(play, liked),
           UNCHANGED <<open, playing>>
    PROVE  /\ view' \in Views /\ source' \in BOOLEAN /\ loads' \in Nat
           /\ syncs' \in [Syncs -> SyncSpace]
           /\ audio' \in {"unasked", "pending", "usable", "null"}
           /\ (~open => ~playing /\ \A s \in Syncs : syncs[s].pc = "idle")'
<1>1. view' \in Views
      BY DEF Show, Views
<1>2. CASE ~open
      BY <1>1, <1>2 DEF Show, TypeOK, SyncSpace
<1>3. CASE open
  <2>1. Sync(play)
        BY <1>3 DEF Show
  <2>2. syncs' \in [Syncs -> SyncSpace]
        BY <2>1, StandsType, WaitType DEF Sync
  <2>3. source' \in BOOLEAN /\ loads' \in Nat
        BY <2>1 DEF Sync, Remember, TypeOK
  <2>4. audio' \in {"unasked", "pending", "usable", "null"}
        BY <2>1 DEF Sync, TypeOK
  <2>. QED  BY <1>1, <1>3, <2>2, <2>3, <2>4
<1>. QED  BY <1>2, <1>3

LEMMA GoesType ==
    ASSUME TypeOK, NEW s \in Syncs,
           NEW pc \in {"idle", "cache", "source", "resume", "pause"}, Goes(s, pc)
    PROVE  syncs' \in [Syncs -> SyncSpace]
<1>1. syncs \in [Syncs -> SyncSpace]
      BY DEF TypeOK, SyncSpace
<1>2. syncs[s].playing \in BOOLEAN
      BY <1>1 DEF SyncSpace
<1>3. NoSync \in SyncSpace /\ [pc |-> pc, playing |-> syncs[s].playing] \in SyncSpace
      BY <1>2 DEF NoSync, SyncSpace
<1>. QED  BY <1>1, <1>3 DEF Goes

\* A closed screen has no call that could take a step.
LEMMA WaitingIsOpen ==
    ASSUME TypeOK, NEW s \in Syncs, syncs[s].pc # "idle"
    PROVE  open
BY DEF TypeOK

LEMMA ViewValue ==
    ASSUME TypeOK
    PROVE  /\ view.kind \in {"none", "loading", "failed", "data", "error"}
           /\ view.playing \in BOOLEAN /\ view.liked \in BOOLEAN
<1>1. CASE \E kind \in {"none", "loading", "failed"} : view = NothingShown(kind)
      BY <1>1 DEF NothingShown
<1>2. CASE view \in [kind : {"data", "error"}, playing : BOOLEAN, liked : BOOLEAN]
      BY <1>2
<1>. QED  BY <1>1, <1>2 DEF TypeOK, Views

LEMMA LikeValue ==
    ASSUME TypeOK, NEW l \in Likes
    PROVE  /\ likes[l].pc \in {"idle", "get", "put", "reply"}
           /\ likes[l].playing \in BOOLEAN /\ likes[l].want \in BOOLEAN
BY DEF TypeOK

LEMMA SyncValue ==
    ASSUME TypeOK, NEW s \in Syncs
    PROVE  syncs[s].playing \in BOOLEAN
BY DEF TypeOK

LEMMA AnsweredType ==
    ASSUME TypeOK, NEW l \in Likes, NEW known \in {"known", "unknown"}, Answered(l, known)
    PROVE  likes' \in [Likes -> LikeSpace] /\ heart' \in {"unknown", "alone", "mixed", "known"}
<1>1. likes \in [Likes -> LikeSpace] /\ NoLike \in LikeSpace
      BY DEF TypeOK, LikeSpace, NoLike
<1>. QED  BY <1>1 DEF Answered, TypeOK

-----------------------------------------------------------------------------
LEMMA InitType == Init => TypeOK
<1>1. NoLike \in LikeSpace /\ NoSync \in SyncSpace
      BY DEF NoLike, NoSync, LikeSpace, SyncSpace
<1>2. NothingShown("none") \in Views
      BY DEF Views
<1>3. NoSync.pc = "idle"
      BY DEF NoSync
<1>4. SUFFICES ASSUME Init PROVE TypeOK
      OBVIOUS
<1>5. likes \in [Likes -> LikeSpace] /\ syncs \in [Syncs -> SyncSpace]
      BY <1>1, <1>4 DEF Init
<1>6. \A s \in Syncs : syncs[s].pc = "idle"
      BY <1>3, <1>4 DEF Init
<1>7. seeks \in 0..MaxSeeks
      BY <1>4, PlayerAssumption DEF Init
<1>8. audio \in {"unasked", "pending", "usable", "null"}
      BY <1>4 DEF Init, UnknownAudio
<1>. QED  BY <1>2, <1>4, <1>5, <1>6, <1>7, <1>8 DEF Init, TypeOK, LikeSpace, SyncSpace

\* The screen: what the user does to it, and what the audio player tells it.
LEMMA ScreenType ==
    ASSUME TypeOK,
           Open \/ Close \/ Load \/ LoadFails \/ TogglePlay \/ RenameSong
    PROVE  TypeOK'
<1>1. CASE Open
  <2>1. view' \in Views
        BY <1>1 DEF Open, TypeOK, Views
  <2>. QED  BY <1>1, <2>1 DEF Open, TypeOK, audioVars, seekVars
<1>2. CASE Close
  <2>1. NoSync \in SyncSpace /\ NoSync.pc = "idle"
        BY DEF NoSync, SyncSpace
  <2>2. syncs' \in [Syncs -> SyncSpace] /\ \A s \in Syncs : syncs'[s].pc = "idle"
        BY <1>2, <2>1 DEF Close
  <2>3. seeks' \in 0..MaxSeeks
        BY <1>2, PlayerAssumption DEF Close
  <2>. QED  BY <1>2, <2>2, <2>3 DEF Close, FreshAudio, TypeOK, SyncSpace
<1>3. CASE Load
  <2>1. PICK liked \in BOOLEAN : Show(FALSE, liked)
        BY <1>3 DEF Load, TypeOK
  <2>. QED  BY <1>3, <2>1, ShowType DEF Load, TypeOK, seekVars, SyncSpace
<1>4. CASE LoadFails
  <2>1. view' \in Views
        BY <1>4 DEF LoadFails, Views
  <2>. QED  BY <1>4, <2>1 DEF LoadFails, TypeOK, audioVars, seekVars
<1>5. CASE TogglePlay
      BY <1>5, ViewValue, ShowType DEF TogglePlay, TypeOK, seekVars, SyncSpace
<1>6. CASE RenameSong
      BY <1>6, ViewValue, ShowType DEF RenameSong, TypeOK, seekVars, SyncSpace
<1>. QED  BY <1>1, <1>2, <1>3, <1>4, <1>5, <1>6

LEMMA PositionType ==
    ASSUME TypeOK,
           Seek \/ SeekDone \/ SeekFails \/ Tick \/ EndOfTrack
    PROVE  TypeOK'
<1>1. CASE Seek
  <2>1. seeks \in 0..MaxSeeks /\ seeks < MaxSeeks /\ seeks' = seeks + 1
        BY <1>1 DEF Seek, TypeOK
  <2>2. seeks' \in 0..MaxSeeks
        BY <2>1, PlayerAssumption
  <2>. QED  BY <1>1, <2>2, ViewValue, ShowType DEF Seek, TypeOK, SyncSpace
<1>2. CASE SeekDone
  <2>1. seeks \in 0..MaxSeeks /\ seeks > 0 /\ seeks' = seeks - 1
        BY <1>2 DEF SeekDone, TypeOK
  <2>2. seeks' \in 0..MaxSeeks
        BY <2>1, PlayerAssumption
  <2>. QED  BY <1>2, <2>2 DEF SeekDone, TypeOK, audioVars
<1>3. CASE SeekFails
  <2>1. seeks' \in 0..MaxSeeks
        BY <1>3, PlayerAssumption DEF SeekFails, TypeOK
  <2>. QED  BY <1>3, <2>1 DEF SeekFails, TypeOK, audioVars
<1>4. CASE Tick
      BY <1>4, ViewValue, ShowType DEF Tick, TypeOK, seekVars, SyncSpace
<1>5. CASE EndOfTrack
  <2>1. view' \in Views
    <3>1. CASE ~HasValue
          BY <1>5, <3>1 DEF EndOfTrack, TypeOK
    <3>2. CASE HasValue
      <4>1. view \in [kind : {"data", "error"}, playing : BOOLEAN, liked : BOOLEAN]
            BY <3>2 DEF TypeOK, Views, HasValue, NothingShown
      <4>2. view' \in [kind : {"data", "error"}, playing : BOOLEAN, liked : BOOLEAN]
            BY <1>5, <3>2, <4>1 DEF EndOfTrack
      <4>. QED  BY <4>2 DEF Views
    <3>. QED  BY <3>1, <3>2
  <2>. QED  BY <1>5, <2>1 DEF EndOfTrack, TypeOK, seekVars
<1>. QED  BY <1>1, <1>2, <1>3, <1>4, <1>5

LEMMA SyncStepType ==
    ASSUME TypeOK, NEW s \in Syncs, SyncStep(s)
    PROVE  TypeOK'
<1>1. syncs[s].pc # "idle" /\ syncs[s].playing \in BOOLEAN
      BY SyncValue DEF SyncStep, Cached, SourceSet, Resumed, Paused, SyncFails
<1>2. open
      BY <1>1, WaitingIsOpen
<1>3. CASE Cached(s)
  <2>1. syncs' \in [Syncs -> SyncSpace]
        BY <1>1, <1>3, StandsType, GoesType DEF Cached
  <2>2. source' \in BOOLEAN /\ loads' \in Nat
        BY <1>3 DEF Cached, Remember, TypeOK
  <2>. QED  BY <1>2, <1>3, <2>1, <2>2 DEF Cached, TypeOK, seekVars, SyncSpace
<1>4. CASE SourceSet(s)
  <2>1. Control(syncs[s].playing) \in {"idle", "cache", "source", "resume", "pause"}
        BY DEF Control
  <2>2. syncs' \in [Syncs -> SyncSpace]
        BY <1>4, <2>1, GoesType DEF SourceSet
  <2>. QED  BY <1>2, <1>4, <2>2 DEF SourceSet, TypeOK, seekVars, SyncSpace
<1>5. CASE Resumed(s) \/ Paused(s) \/ SyncFails(s)
  <2>1. Goes(s, "idle")
        BY <1>5 DEF Resumed, Paused, SyncFails
  <2>2. syncs' \in [Syncs -> SyncSpace]
        BY <2>1, GoesType
  <2>. QED  BY <1>2, <1>5, <2>2
           DEF Resumed, Paused, SyncFails, TypeOK, audioVars, seekVars, SyncSpace
<1>. QED  BY <1>3, <1>4, <1>5 DEF SyncStep

LEMMA LikeType ==
    ASSUME TypeOK, NEW l \in Likes, Like(l) \/ LikeStep(l)
    PROVE  TypeOK'
<1>1. likes \in [Likes -> LikeSpace]
      BY DEF TypeOK, LikeSpace
<1>2. CASE Like(l)
  <2>1. [pc |-> "get", playing |-> view.playing, want |-> FALSE] \in LikeSpace
        BY ViewValue DEF LikeSpace
  <2>2. likes' \in [Likes -> LikeSpace]
        BY <1>1, <1>2, <2>1 DEF Like
  <2>. QED  BY <1>2, <2>2 DEF Like, TypeOK, audioVars, seekVars, LikeSpace
<1>3. CASE LikeRead(l)
  <2>1. likes' \in [Likes -> LikeSpace]
        BY <1>1, <1>3 DEF LikeRead, TypeOK, LikeSpace
  <2>. QED  BY <1>3, <2>1 DEF LikeRead, TypeOK, audioVars, seekVars, LikeSpace
<1>4. CASE LikeApplied(l)
  <2>1. likes' \in [Likes -> LikeSpace]
        BY <1>1, <1>4 DEF LikeApplied, LikeSpace
  <2>. QED  BY <1>4, <2>1, LikeValue DEF LikeApplied, TypeOK, audioVars, seekVars, LikeSpace
<1>5. CASE LikeReplied(l)
      BY <1>5, LikeValue, ShowType, AnsweredType
      DEF LikeReplied, TypeOK, seekVars, SyncSpace, LikeSpace
<1>6. CASE LikeFails(l)
  <2>1. view' \in Views
    <3>1. CASE \E kind \in {"none", "loading", "failed"} : view = NothingShown(kind)
      <4>1. PICK kind : view = [kind |-> kind, playing |-> FALSE, liked |-> FALSE]
            BY <3>1 DEF NothingShown
      <4>2. view' = [view EXCEPT !.kind = "error"]
            BY <1>6 DEF LikeFails
      <4>3. view' = [kind |-> "error", playing |-> FALSE, liked |-> FALSE]
            BY <4>1, <4>2
      <4>. QED  BY <4>3 DEF Views
    <3>2. CASE view \in [kind : {"data", "error"}, playing : BOOLEAN, liked : BOOLEAN]
          BY <1>6, <3>2 DEF LikeFails, Views
    <3>. QED  BY <3>1, <3>2 DEF TypeOK, Views
  <2>. QED  BY <1>6, <2>1, AnsweredType DEF LikeFails, TypeOK, audioVars, seekVars, LikeSpace
<1>. QED  BY <1>2, <1>3, <1>4, <1>5, <1>6 DEF LikeStep

\* Every kind of step keeps the types and the silence of a closed screen.
LEMMA TypeStep == TypeOK /\ [Next]_vars => TypeOK'
<1>. SUFFICES ASSUME TypeOK, [Next]_vars PROVE TypeOK'
     OBVIOUS
<1>1. CASE Open \/ Close \/ Load \/ LoadFails \/ TogglePlay \/ RenameSong
      BY <1>1, ScreenType
<1>2. CASE Seek \/ SeekDone \/ SeekFails \/ Tick \/ EndOfTrack
      BY <1>2, PositionType
<1>3. CASE \E s \in Syncs : SyncStep(s)
      BY <1>3, SyncStepType
<1>4. CASE Downloaded
      BY <1>4 DEF Downloaded, TypeOK, audioVars, seekVars
<1>5. CASE \E l \in Likes : Like(l) \/ LikeStep(l)
      BY <1>5, LikeType
<1>6. CASE AppRestart
  <2>1. NoLike \in LikeSpace /\ NoSync \in SyncSpace /\ NoSync.pc = "idle"
        BY DEF NoLike, LikeSpace, NoSync, SyncSpace
  <2>2. likes' \in [Likes -> LikeSpace]
        BY <1>6, <2>1 DEF AppRestart
  <2>3. syncs' \in [Syncs -> SyncSpace] /\ \A s \in Syncs : syncs'[s].pc = "idle"
        BY <1>6, <2>1 DEF AppRestart
  <2>4. favorite' \in BOOLEAN
        BY <1>6, LikeValue DEF AppRestart, TypeOK
  <2>5. seeks' \in 0..MaxSeeks
        BY <1>6, PlayerAssumption DEF AppRestart
  <2>6. audio' \in {"unasked", "pending", "usable", "null"}
        BY <1>6 DEF AppRestart, UnknownAudio
  <2>7. view' \in Views
        BY <1>6 DEF AppRestart, Views
  <2>. QED  BY <1>6, <2>2, <2>3, <2>4, <2>5, <2>6, <2>7
           DEF AppRestart, FreshAudio, TypeOK, LikeSpace, SyncSpace
<1>7. CASE UNCHANGED vars
      BY <1>7 DEF vars, audioVars, seekVars, TypeOK
<1>. QED  BY <1>1, <1>2, <1>3, <1>4, <1>5, <1>6, <1>7 DEF Next

\* A screen that has been left is silent: it keeps no audio player and no call that
\* could wake one; and the variables have their types.
THEOREM ClosedIsSilent == Spec => []TypeOK
BY InitType, TypeStep, PTL DEF Spec

-----------------------------------------------------------------------------
(***************************************************************************)
(* The source is set once.                                                 *)
(***************************************************************************)
\* The URL is remembered from the first setSource on, whose call may still wait.
Remembered ==
    /\ loads = IF source THEN 1 ELSE 0
    /\ \A s \in Syncs : syncs[s].pc = "source" => source

LEMMA RememberOnce ==
    ASSUME TypeOK, Remembered, NEW play \in BOOLEAN, Remember(Stands(play))
    PROVE  /\ loads' = IF source' THEN 1 ELSE 0
           /\ source => source'
           /\ Stands(play) = "source" => source'
<1>1. source \in BOOLEAN /\ loads = (IF source THEN 1 ELSE 0)
      BY DEF TypeOK, Remembered
<1>2. Stands(play) = "source" => ~source
      BY <1>1 DEF Stands, Control, TypeOK
<1>3. CASE Stands(play) = "source"
  <2>1. source' /\ loads' = loads + 1
        BY <1>3 DEF Remember
  <2>2. loads = 0
        BY <1>1, <1>2, <1>3
  <2>. QED  BY <2>1, <2>2
<1>4. CASE Stands(play) # "source"
  <2>1. loads' = loads /\ source' = source
        BY <1>1, <1>4 DEF Remember
  <2>. QED  BY <1>1, <1>4, <2>1
<1>. QED  BY <1>3, <1>4

LEMMA ShowRemembered ==
    ASSUME TypeOK, Remembered, NEW play \in BOOLEAN, NEW liked \in BOOLEAN,
           Show(play, liked)
    PROVE  Remembered'
<1>1. CASE ~open
      BY <1>1 DEF Show, Remembered
<1>2. CASE open
  <2>1. Sync(play)
        BY <1>2 DEF Show
  <2>2. /\ loads' = IF source' THEN 1 ELSE 0
        /\ source => source'
        /\ Stands(play) = "source" => source'
        BY <2>1, RememberOnce DEF Sync
  <2>3. ASSUME NEW s \in Syncs, syncs'[s].pc = "source" PROVE source'
    <3>1. CASE syncs' = syncs
          BY <2>2, <2>3, <3>1 DEF Remembered
    <3>2. CASE syncs' # syncs
      <4>1. PICK t \in Syncs :
                syncs' = [syncs EXCEPT ![t] = [pc |-> Stands(play), playing |-> play]]
            BY <2>1, <3>2 DEF Sync, Wait
      <4>2. CASE s = t
        <5>1. syncs'[s].pc = Stands(play)
              BY <4>1, <4>2 DEF TypeOK
        <5>. QED  BY <2>2, <2>3, <5>1
      <4>3. CASE s # t
        <5>1. syncs'[s] = syncs[s]
              BY <4>1, <4>3 DEF TypeOK
        <5>. QED  BY <2>2, <2>3, <5>1 DEF Remembered
      <4>. QED  BY <4>2, <4>3
    <3>. QED  BY <3>1, <3>2
  <2>. QED  BY <2>2, <2>3 DEF Remembered
<1>. QED  BY <1>1, <1>2

\* What a call that goes on leaves of the others.
LEMMA GoesSource ==
    ASSUME TypeOK, NEW s \in Syncs, NEW pc, Goes(s, pc), NEW t \in Syncs,
           syncs'[t].pc = "source"
    PROVE  syncs[t].pc = "source" \/ (t = s /\ pc = "source")
<1>1. CASE t # s
  <2>1. syncs'[t] = syncs[t]
        BY <1>1 DEF Goes, TypeOK
  <2>. QED  BY <2>1
<1>2. CASE t = s
  <2>1. syncs'[s] = IF pc = "idle" THEN NoSync ELSE [pc |-> pc, playing |-> syncs[s].playing]
        BY DEF Goes, TypeOK
  <2>2. CASE pc = "idle"
        BY <1>2, <2>1, <2>2 DEF NoSync
  <2>3. CASE pc # "idle"
        BY <1>2, <2>1, <2>3
  <2>. QED  BY <2>2, <2>3
<1>. QED  BY <1>1, <1>2

LEMMA RememberedStep == TypeOK /\ Remembered /\ [Next]_vars => Remembered'
<1>. SUFFICES ASSUME TypeOK, Remembered, [Next]_vars PROVE Remembered'
     OBVIOUS
<1>0. ASSUME NEW play \in BOOLEAN, NEW liked \in BOOLEAN, Show(play, liked)
      PROVE  Remembered'
      BY <1>0, ShowRemembered
<1>1. CASE Load
      BY <1>0, <1>1 DEF Load, TypeOK
<1>2. CASE TogglePlay \/ RenameSong \/ Seek \/ Tick
      BY <1>0, <1>2, ViewValue DEF TogglePlay, RenameSong, Seek, Tick
<1>3. CASE \E l \in Likes : LikeReplied(l)
      BY <1>0, <1>3, LikeValue DEF LikeReplied
<1>4. CASE Close \/ AppRestart
  <2>1. \A s \in Syncs : syncs'[s].pc = "idle"
        BY <1>4 DEF Close, AppRestart, NoSync
  <2>. QED  BY <1>4, <2>1 DEF Close, AppRestart, FreshAudio, Remembered
<1>5. ASSUME NEW s \in Syncs, SyncStep(s) PROVE Remembered'
  <2>1. CASE Cached(s)
    <3>1. /\ loads' = IF source' THEN 1 ELSE 0
          /\ source => source'
          /\ Stands(syncs[s].playing) = "source" => source'
          BY <2>1, SyncValue, RememberOnce DEF Cached
    <3>2. \A t \in Syncs : syncs'[t].pc = "source" => source'
          BY <2>1, <3>1, GoesSource DEF Cached, Remembered
    <3>. QED  BY <3>1, <3>2 DEF Remembered
  <2>2. CASE SourceSet(s)
    <3>1. source /\ source' /\ loads' = loads
          BY <2>2 DEF SourceSet, Remembered
    <3>. QED  BY <3>1 DEF Remembered
  <2>3. CASE Resumed(s) \/ Paused(s) \/ SyncFails(s)
    <3>1. Goes(s, "idle") /\ source' = source /\ loads' = loads
          BY <2>3 DEF Resumed, Paused, SyncFails, audioVars
    <3>2. \A t \in Syncs : syncs'[t].pc = "source" => source'
          BY <3>1, GoesSource DEF Remembered
    <3>. QED  BY <3>1, <3>2 DEF Remembered
  <2>. QED  BY <1>5, <2>1, <2>2, <2>3 DEF SyncStep
<1>6. CASE UNCHANGED <<source, loads, syncs>>
      BY <1>6 DEF Remembered
<1>7. CASE Open \/ LoadFails \/ SeekDone \/ SeekFails \/ EndOfTrack \/ Downloaded
      BY <1>6, <1>7 DEF Open, LoadFails, SeekDone, SeekFails, EndOfTrack, Downloaded, audioVars
<1>8. CASE \E l \in Likes : Like(l) \/ LikeRead(l) \/ LikeApplied(l) \/ LikeFails(l)
      BY <1>6, <1>8 DEF Like, LikeRead, LikeApplied, LikeFails, audioVars
<1>9. CASE UNCHANGED vars
      BY <1>6, <1>9 DEF vars, audioVars
<1>. QED  BY <1>1, <1>2, <1>3, <1>4, <1>5, <1>7, <1>8, <1>9 DEF Next, LikeStep

\* However many calls of _syncAudioState overlap, one setSource is all a screen does:
\* the comparison with _currentSourceUrl sees the URL of the call that still waits.
THEOREM OneSource == Spec => []SetOnce
<1>1. Init => Remembered
      BY DEF Init, Remembered, NoSync
<1>2. TypeOK /\ Remembered => SetOnce
      BY DEF TypeOK, Remembered, SetOnce
<1>. QED  BY InitType, TypeStep, RememberedStep, <1>1, <1>2, PTL DEF Spec

-----------------------------------------------------------------------------
(***************************************************************************)
(* The heart.                                                              *)
(***************************************************************************)
\* While the heart is known nothing is on its way to the server; while a press is the
\* only one, what it will be answered is what the server has.
HeartInv ==
    /\ heart = "known" => /\ \A l \in Likes : likes[l].pc = "idle"
                          /\ HasValue /\ view.liked = favorite
    /\ heart = "alone" => \A l \in Likes : likes[l].pc # "idle" =>
                            /\ Alone(l)
                            /\ likes[l].pc = "reply" => likes[l].want = favorite

\* A step that keeps the value, and nothing of the likes, keeps what is known.
LEMMA HeartFrame ==
    ASSUME HeartInv, UNCHANGED <<favorite, likes, heart>>,
           HasValue => HasValue' /\ view'.liked = view.liked
    PROVE  HeartInv'
BY DEF HeartInv, Alone

LEMMA ShowValue ==
    ASSUME NEW play, NEW liked, Show(play, liked)
    PROVE  HasValue' /\ view'.liked = liked
BY DEF Show, HasValue

LEMMA AnsweredHeart ==
    ASSUME TypeOK, HeartInv, NEW l \in Likes, likes[l].pc # "idle",
           Answered(l, "known") \/ Answered(l, "unknown")
    PROVE  /\ heart' # "alone"
           /\ heart' = "known" => /\ heart = "alone" /\ Answered(l, "known")
                                  /\ \A k \in Likes : likes'[k].pc = "idle"
<1>1. heart # "known"
      BY DEF HeartInv
<1>2. CASE ~Alone(l)
      BY <1>1, <1>2 DEF Answered, HeartInv
<1>3. CASE Alone(l)
  <2>1. likes' = [likes EXCEPT ![l] = NoLike]
        BY DEF Answered
  <2>2. \A k \in Likes : likes'[k].pc = "idle"
        BY <1>3, <2>1 DEF Alone, TypeOK, NoLike
  <2>3. heart' # "alone"
        BY <1>3 DEF Answered
  <2>4. heart' = "known" => heart = "alone" /\ Answered(l, "known")
        BY <1>3 DEF Answered
  <2>. QED  BY <2>2, <2>3, <2>4
<1>. QED  BY <1>2, <1>3

LEMMA LikeHeart ==
    ASSUME TypeOK, HeartInv, NEW l \in Likes, Like(l) \/ LikeStep(l)
    PROVE  HeartInv'
<1>1. CASE Like(l)
  <2>1. heart' # "known"
        BY <1>1 DEF Like
  <2>2. ASSUME heart' = "alone", NEW k \in Likes, likes'[k].pc # "idle"
        PROVE  Alone(k)' /\ likes'[k].pc # "reply"
    <3>1. Alone(l)
          BY <1>1, <2>2 DEF Like
    <3>2. likes' = [likes EXCEPT ![l] = [pc |-> "get", playing |-> view.playing,
                                         want |-> FALSE]]
          BY <1>1 DEF Like
    <3>3. \A j \in Likes \ {l} : likes'[j] = likes[j]
          BY <3>2 DEF TypeOK
    <3>4. k = l
          BY <2>2, <3>1, <3>3 DEF Alone
    <3>5. likes'[l].pc = "get"
          BY <3>2 DEF TypeOK
    <3>. QED  BY <3>1, <3>3, <3>4, <3>5 DEF Alone
  <2>. QED  BY <2>1, <2>2 DEF HeartInv
<1>2. CASE LikeRead(l) \/ LikeApplied(l)
  <2>1. likes[l].pc # "idle" /\ heart' = heart
        BY <1>2 DEF LikeRead, LikeApplied
  <2>2. heart # "known"
        BY <2>1 DEF HeartInv
  <2>3. ASSUME heart = "alone", NEW k \in Likes, likes'[k].pc # "idle"
        PROVE  Alone(k)' /\ (likes'[k].pc = "reply" => likes'[k].want = favorite')
    <3>1. Alone(l)
          BY <2>1, <2>3 DEF HeartInv
    <3>2. \A j \in Likes \ {l} : likes'[j] = likes[j]
          BY <1>2 DEF LikeRead, LikeApplied, TypeOK
    <3>3. k = l
          BY <2>3, <3>1, <3>2 DEF Alone
    <3>4. Alone(l)'
          BY <3>1, <3>2 DEF Alone
    <3>5. likes'[l].pc = "reply" => likes'[l].want = favorite'
      <4>1. CASE LikeRead(l)
        <5>1. likes'[l].pc = "put"
              BY <4>1 DEF LikeRead, TypeOK
        <5>. QED  BY <5>1
      <4>2. CASE LikeApplied(l)
        <5>1. likes'[l].want = likes[l].want
              BY <4>2 DEF LikeApplied, TypeOK
        <5>. QED  BY <4>2, <5>1 DEF LikeApplied
      <4>. QED  BY <1>2, <4>1, <4>2
    <3>. QED  BY <3>3, <3>4, <3>5
  <2>. QED  BY <2>1, <2>2, <2>3 DEF HeartInv
<1>3. CASE LikeReplied(l)
  <2>1. likes[l].pc = "reply" /\ Answered(l, "known") /\ favorite' = favorite
        BY <1>3 DEF LikeReplied
  <2>2. HasValue' /\ view'.liked = likes[l].want
        BY <1>3, ShowValue DEF LikeReplied
  <2>3. heart = "alone" => likes[l].want = favorite
        BY <2>1 DEF HeartInv
  <2>. QED  BY <2>1, <2>2, <2>3, AnsweredHeart DEF HeartInv
<1>4. CASE LikeFails(l)
  <2>1. likes[l].pc # "idle" /\ Answered(l, "unknown")
        BY <1>4 DEF LikeFails
  <2>2. heart' # "known"
        BY <2>1 DEF Answered, HeartInv
  <2>. QED  BY <2>1, <2>2, AnsweredHeart DEF HeartInv
<1>. QED  BY <1>1, <1>2, <1>3, <1>4 DEF LikeStep

LEMMA HeartStep == TypeOK /\ HeartInv /\ [Next]_vars => HeartInv'
<1>. SUFFICES ASSUME TypeOK, HeartInv, [Next]_vars PROVE HeartInv'
     OBVIOUS
<1>1. CASE Open \/ Close \/ LoadFails
      BY <1>1, HeartFrame DEF Open, Close, LoadFails, HasValue
<1>2. CASE Load
      BY <1>2, HeartFrame DEF Load, HasValue
<1>3. CASE TogglePlay \/ RenameSong \/ Seek \/ Tick
  <2>1. \E play : Show(play, view.liked)
        BY <1>3 DEF TogglePlay, RenameSong, Seek, Tick
  <2>2. HasValue' /\ view'.liked = view.liked
        BY <2>1, ShowValue
  <2>. QED  BY <1>3, <2>2, HeartFrame DEF TogglePlay, RenameSong, Seek, Tick
<1>4. CASE EndOfTrack
  <2>1. HasValue => HasValue' /\ view'.liked = view.liked
        BY <1>4 DEF EndOfTrack, HasValue, TypeOK, Views, NothingShown
  <2>. QED  BY <1>4, <2>1, HeartFrame DEF EndOfTrack
<1>5. CASE SeekDone \/ SeekFails \/ Downloaded \/ \E s \in Syncs : SyncStep(s)
      BY <1>5, HeartFrame
      DEF SeekDone, SeekFails, Downloaded, SyncStep, Cached, SourceSet, Resumed, Paused,
          SyncFails, HasValue
<1>6. CASE \E l \in Likes : Like(l) \/ LikeStep(l)
      BY <1>6, LikeHeart
<1>7. CASE AppRestart
      BY <1>7 DEF AppRestart, HeartInv
<1>8. CASE UNCHANGED vars
      BY <1>8, HeartFrame DEF vars, HasValue
<1>. QED  BY <1>1, <1>2, <1>3, <1>4, <1>5, <1>6, <1>7, <1>8 DEF Next

\* Whatever went wrong before, a press of the heart that is answered before the next
\* leaves the page with what the server has.
THEOREM LikesAreRepaired == Spec => []HeartIsRepaired
<1>1. Init => HeartInv
      BY DEF Init, HeartInv, NoLike
<1>2. HeartInv => HeartIsRepaired
      BY DEF HeartInv, HeartIsRepaired
<1>. QED  BY InitType, TypeStep, HeartStep, <1>1, <1>2, PTL DEF Spec

-----------------------------------------------------------------------------
(***************************************************************************)
(* The safety half of PauseIsObeyed and ErrorPagePasses: what a position   *)
(* does that is reported while the song sounds.  That positions are        *)
(* reported again and again, and that a pause succeeds at last, is the     *)
(* fairness TLC checks them under.                                         *)
(***************************************************************************)
\* An audio player that is ready has its source, the source was set from something
\* that could be played, and for a page with a value; every call of _syncAudioState
\* and every like started from such a page, and what resumes or pauses has the source.
Controlled ==
    /\ ready => source
    /\ source => HasValue /\ audio = "usable"
    /\ \A s \in Syncs : /\ syncs[s].pc # "idle" => HasValue
                        /\ syncs[s].pc \in {"source", "resume", "pause"} => source
    /\ \A l \in Likes : likes[l].pc # "idle" => HasValue

\* What a call needs that stands at pc.
Needs(pc) == pc \in {"source", "resume", "pause"} => source'

LEMMA StandsNeeds ==
    ASSUME TypeOK, NEW play \in BOOLEAN, Remember(Stands(play))
    PROVE  /\ Needs(Stands(play))
           /\ source => source'
           /\ source' => source \/ audio = "usable"
           /\ Stands(play) = "cache" <=> audio \in {"unasked", "pending"}
<1>1. Control(play) \in {"idle", "resume", "pause"}
      BY DEF Control
<1>2. audio \in {"unasked", "pending", "usable", "null"} /\ source \in BOOLEAN
      BY DEF TypeOK
<1>3. Stands(play) \in {"source", "resume", "pause"} => audio = "usable"
      BY <1>2 DEF Stands
<1>4. Stands(play) \in {"resume", "pause"} => source
      BY <1>1, <1>2 DEF Stands
<1>5. Stands(play) = "cache" <=> audio \in {"unasked", "pending"}
      BY <1>1, <1>2 DEF Stands
<1>6. source' = (source \/ Stands(play) = "source")
      BY DEF Remember
<1>. QED  BY <1>2, <1>3, <1>4, <1>5, <1>6 DEF Needs

\* Where each call stands after a new one has begun to wait.
LEMMA WaitOthers ==
    ASSUME TypeOK, NEW play, NEW pc, Wait(pc, play), NEW t \in Syncs
    PROVE  syncs'[t] = syncs[t] \/ (pc # "idle" /\ syncs'[t].pc = pc)
<1>1. CASE pc = "idle"
      BY <1>1 DEF Wait
<1>2. CASE pc # "idle"
  <2>1. PICK s \in Syncs : syncs' = [syncs EXCEPT ![s] = [pc |-> pc, playing |-> play]]
        BY <1>2 DEF Wait
  <2>. QED  BY <1>2, <2>1 DEF TypeOK
<1>. QED  BY <1>1, <1>2

\* Where each call stands after one has gone on.
LEMMA GoesOthers ==
    ASSUME TypeOK, NEW s \in Syncs, NEW pc, Goes(s, pc), NEW t \in Syncs
    PROVE  syncs'[t] = syncs[t] \/ syncs'[t].pc = pc
<1>1. CASE t # s
      BY <1>1 DEF Goes, TypeOK
<1>2. CASE t = s
  <2>1. syncs'[s] = IF pc = "idle" THEN NoSync ELSE [pc |-> pc, playing |-> syncs[s].playing]
        BY DEF Goes, TypeOK
  <2>. QED  BY <1>2, <2>1 DEF NoSync
<1>. QED  BY <1>1, <1>2

LEMMA ShowControlled ==
    ASSUME TypeOK, Controlled, NEW play \in BOOLEAN, NEW liked \in BOOLEAN,
           Show(play, liked), UNCHANGED ready,
           \A l \in Likes : likes'[l].pc # "idle" => HasValue'
    PROVE  Controlled'
<1>1. HasValue'
      BY ShowValue
<1>2. CASE ~open
  <2>1. source' = source /\ syncs' = syncs /\ audio' = audio
        BY <1>2 DEF Show
  <2>. QED  BY <1>1, <2>1 DEF Controlled
<1>3. CASE open
  <2>1. Sync(play)
        BY <1>3 DEF Show
  <2>2. Remember(Stands(play)) /\ Wait(Stands(play), play)
        BY <2>1 DEF Sync
  <2>3. /\ Needs(Stands(play)) /\ (source => source')
        /\ source' => source \/ audio = "usable"
        /\ Stands(play) = "cache" <=> audio \in {"unasked", "pending"}
        BY <2>2, StandsNeeds
  <2>4. source' => audio' = "usable"
        BY <2>1, <2>3 DEF Sync, Controlled
  <2>5. ASSUME NEW t \in Syncs, syncs'[t].pc \in {"source", "resume", "pause"}
        PROVE  source'
        BY <2>2, <2>3, <2>5, WaitOthers DEF Controlled, Needs
  <2>. QED  BY <1>1, <2>3, <2>4, <2>5 DEF Controlled
<1>. QED  BY <1>2, <1>3

LEMMA SyncControlled ==
    ASSUME TypeOK, Controlled, NEW s \in Syncs, SyncStep(s)
    PROVE  Controlled'
<1>1. HasValue /\ HasValue' /\ likes' = likes /\ audio' = audio
      BY DEF Controlled, SyncStep, Cached, SourceSet, Resumed, Paused, SyncFails, HasValue
<1>2. CASE Cached(s)
  <2>1. Remember(Stands(syncs[s].playing)) /\ Goes(s, Stands(syncs[s].playing))
        BY <1>2 DEF Cached
  <2>2. /\ Needs(Stands(syncs[s].playing)) /\ (source => source')
        /\ source' => source \/ audio = "usable"
        BY <2>1, SyncValue, StandsNeeds
  <2>3. ASSUME NEW t \in Syncs, syncs'[t].pc \in {"source", "resume", "pause"}
        PROVE  source'
        BY <2>1, <2>2, <2>3, GoesOthers DEF Controlled, Needs
  <2>4. ready' = ready
        BY <1>2 DEF Cached
  <2>. QED  BY <1>1, <2>2, <2>3, <2>4 DEF Controlled
<1>3. CASE SourceSet(s)
      BY <1>1, <1>3 DEF SourceSet, Controlled
<1>4. CASE Resumed(s) \/ Paused(s) \/ SyncFails(s)
  <2>1. Goes(s, "idle") /\ source' = source /\ ready' = ready
        BY <1>4 DEF Resumed, Paused, SyncFails, audioVars
  <2>2. ASSUME NEW t \in Syncs, syncs'[t].pc \in {"source", "resume", "pause"}
        PROVE  source'
        BY <2>1, <2>2, GoesOthers DEF Controlled
  <2>. QED  BY <1>1, <2>1, <2>2 DEF Controlled
<1>. QED  BY <1>2, <1>3, <1>4 DEF SyncStep

\* A value is lost with the app only, and then everything else is.
LEMMA ControlledFrame ==
    ASSUME Controlled, UNCHANGED <<source, syncs, audio>>, HasValue => HasValue',
           ready' => ready,
           \A l \in Likes : likes'[l].pc # "idle" => HasValue'
    PROVE  Controlled'
BY DEF Controlled

LEMMA LikeControlled ==
    ASSUME TypeOK, Controlled, NEW l \in Likes, Like(l) \/ LikeStep(l)
    PROVE  Controlled'
<1>1. HasValue
      BY DEF Like, LikeStep, LikeRead, LikeApplied, LikeReplied, LikeFails, HasValue,
             Controlled
<1>2. HasValue'
  <2>1. CASE Like(l) \/ LikeRead(l) \/ LikeApplied(l)
        BY <1>1, <2>1 DEF Like, LikeRead, LikeApplied, HasValue
  <2>2. CASE LikeReplied(l)
        BY <2>2, ShowValue DEF LikeReplied
  <2>3. CASE LikeFails(l)
    <3>1. view'.kind = "error"
      <4>1. CASE \E kind \in {"none", "loading", "failed"} : view = NothingShown(kind)
            BY <1>1, <4>1 DEF NothingShown, HasValue
      <4>2. CASE view \in [kind : {"data", "error"}, playing : BOOLEAN, liked : BOOLEAN]
            BY <2>3, <4>2 DEF LikeFails
      <4>. QED  BY <4>1, <4>2 DEF TypeOK, Views
    <3>. QED  BY <3>1 DEF HasValue
  <2>. QED  BY <2>1, <2>2, <2>3 DEF LikeStep
<1>3. CASE LikeReplied(l)
      BY <1>2, <1>3, LikeValue, ShowControlled DEF LikeReplied
<1>4. CASE Like(l) \/ LikeRead(l) \/ LikeApplied(l) \/ LikeFails(l)
      BY <1>2, <1>4, ControlledFrame DEF Like, LikeRead, LikeApplied, LikeFails, audioVars
<1>. QED  BY <1>3, <1>4 DEF LikeStep

LEMMA ControlledStep == TypeOK /\ Controlled /\ [Next]_vars => Controlled'
<1>. SUFFICES ASSUME TypeOK, Controlled, [Next]_vars PROVE Controlled'
     OBVIOUS
<1>0. ASSUME NEW play \in BOOLEAN, NEW liked \in BOOLEAN, Show(play, liked),
             UNCHANGED <<likes, ready>>
      PROVE  Controlled'
  <2>1. HasValue'
        BY <1>0, ShowValue
  <2>. QED  BY <1>0, <2>1, ShowControlled
<1>1. CASE Load
      BY <1>0, <1>1 DEF Load, TypeOK
<1>2. CASE TogglePlay \/ RenameSong \/ Seek \/ Tick
      BY <1>0, <1>2, ViewValue DEF TogglePlay, RenameSong, Seek, Tick
<1>3. CASE Close
  <2>1. \A s \in Syncs : syncs'[s].pc = "idle"
        BY <1>3 DEF Close, NoSync
  <2>. QED  BY <1>3, <2>1 DEF Close, FreshAudio, Controlled, HasValue
<1>4. CASE AppRestart
  <2>1. /\ \A s \in Syncs : syncs'[s].pc = "idle"
        /\ \A l \in Likes : likes'[l].pc = "idle"
        BY <1>4 DEF AppRestart, NoSync, NoLike
  <2>. QED  BY <1>4, <2>1 DEF AppRestart, FreshAudio, Controlled
<1>5. CASE \E s \in Syncs : SyncStep(s)
      BY <1>5, SyncControlled
<1>6. CASE \E l \in Likes : Like(l) \/ LikeStep(l)
      BY <1>6, LikeControlled
<1>7. CASE Open \/ LoadFails \/ SeekDone \/ SeekFails
      BY <1>7, ControlledFrame
      DEF Open, LoadFails, SeekDone, SeekFails, audioVars, HasValue, Controlled
<1>8. CASE EndOfTrack
  <2>1. HasValue => HasValue'
        BY <1>8 DEF EndOfTrack, HasValue, TypeOK, Views, NothingShown
  <2>. QED  BY <1>8, <2>1, ControlledFrame DEF EndOfTrack, Controlled
<1>9. CASE Downloaded
      BY <1>9 DEF Downloaded, Controlled, audioVars, HasValue
<1>10. CASE UNCHANGED vars
      BY <1>10 DEF vars, audioVars, Controlled, HasValue
<1>. QED  BY <1>1, <1>2, <1>3, <1>4, <1>5, <1>6, <1>7, <1>8, <1>9, <1>10 DEF Next

LEMMA InitControlled == Init => Controlled
BY DEF Init, Controlled, NoSync, NoLike

\* A song that sounds has its page, though perhaps under an error: the value is not
\* lost while the app runs, so that what the player reports always finds it.
SoundHasItsPage == Sounding => HasValue

THEOREM SoundKeepsItsPage == Spec => []SoundHasItsPage
<1>1. Controlled => SoundHasItsPage
      BY DEF Controlled, SoundHasItsPage, Sounding
<1>. QED  BY InitType, TypeStep, InitControlled, ControlledStep, <1>1, PTL DEF Spec

\* A position that is reported while the page says paused puts the value back on the
\* page and leaves a call that waits for the pause, whatever calls are on their way.
PositionIsObeyed ==
    Tick /\ Sounding /\ ~view.playing =>
        /\ view'.kind = "data" /\ ~view'.playing
        /\ \E s \in Syncs : syncs[s].pc = "idle" /\ syncs'[s].pc = "pause"

LEMMA PausedByPosition ==
    ASSUME TypeOK, Controlled, Tick, Sounding, ~view.playing
    PROVE  /\ view'.kind = "data" /\ ~view'.playing
           /\ \E s \in Syncs : syncs[s].pc = "idle" /\ syncs'[s].pc = "pause"
<1>1. view.playing = FALSE
      BY ViewValue
<1>2. Show(FALSE, view.liked)
      BY <1>1 DEF Tick
<1>3. Wait(Stands(FALSE), FALSE)
      BY <1>2 DEF Show, Sync, Tick
<1>4. source /\ audio = "usable" /\ playing = TRUE
      BY DEF Sounding, Controlled, TypeOK
<1>5. Stands(FALSE) = "pause"
      BY <1>4 DEF Stands, Control
<1>6. PICK s \in Syncs : /\ Free(syncs, s)
                         /\ syncs' = [syncs EXCEPT ![s] = [pc |-> "pause", playing |-> FALSE]]
      BY <1>3, <1>5 DEF Wait
<1>7. syncs[s].pc = "idle" /\ syncs'[s].pc = "pause"
      BY <1>6 DEF Free, TypeOK
<1>. QED  BY <1>2, <1>7 DEF Show

THEOREM PositionStopsSound == Spec => [][PositionIsObeyed]_vars
<1>1. TypeOK /\ Controlled => PositionIsObeyed
      BY PausedByPosition DEF PositionIsObeyed
<1>. QED  BY InitType, TypeStep, InitControlled, ControlledStep, <1>1, PTL DEF Spec

=============================================================================
