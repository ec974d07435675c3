------------------------------ MODULE TrackStore ------------------------------
(***************************************************************************)
(* The tracks of one job, kept in two stores that no transaction joins:    *)
(* rows in Postgres and objects in MinIO.  handleComplete                  *)
(* (service/suno_callback_service.go) stores the results of a generation   *)
(* one by one and is repeated until the job is ready; meanwhile and after  *)
(* that the owner deletes tracks and marks favourites                      *)
(* (service/track_service.go).  One SQL statement or one request to MinIO  *)
(* is one step.                                                            *)
(***************************************************************************)
EXTENDS Naturals, FiniteSets

CONSTANTS
    Audios,       (* the results of the generation                           *)
    Covers,       (* the names a cover can get: they depend on its URL       *)
    Deletes,      (* DELETE requests, each made once                         *)
    MaxAttempts,  (* attempts to handle the complete callbacks of the job    *)
    Nothing       (* no row, no cover, no result at hand                     *)

ASSUME TrackAssumption ==
    /\ MaxAttempts \in Nat
    /\ Nothing \notin Covers \cup Audios

\* A row of the tracks table; the name of its audio object follows from its
\* result.
Tracks == [id : Nat, image : Covers \cup {Nothing}, favorite : BOOLEAN]

ASSUME NothingIsNoTrack == Nothing \notin Tracks

VARIABLES
    rows,      (* the row of each result, or Nothing                         *)
    audio,     (* results whose audio is in the object store                 *)
    images,    (* covers in the object store: result and name                *)
    ids,       (* track ids given out                                        *)
    ready,     (* the job is ready                                           *)
    attempts,  (* attempts of handleComplete so far                          *)
    cpc,       (* position of handleComplete                                 *)
    todo,      (* results still to be stored in this attempt                 *)
    current,   (* the result being stored                                    *)
    cover,     (* the cover uploaded for it                                  *)
    dpc,       (* position of each DELETE request                            *)
    target,    (* the result whose track it deletes                          *)
    loaded,    (* the row it loaded                                          *)
    early,     (* history: results deleted before the job was ready          *)
    settled,   (* history: requests that loaded their row from a ready job   *)
    gone       (* history: the cover of the row each request deleted         *)

storeVars == <<rows, audio, images>>
cVars == <<ready, attempts, cpc, todo, current, cover>>
hVars == <<early, settled, gone>>
dVars == <<dpc, target, loaded, hVars>>
vars == <<rows, audio, images, ids, ready, attempts, cpc, todo, current, cover,
          dpc, target, loaded, early, settled, gone>>

Init ==
    /\ rows = [a \in Audios |-> Nothing]
    /\ audio = {} /\ images = {} /\ ids = 0
    /\ ready = FALSE /\ attempts = 0
    /\ cpc = "idle" /\ todo = {} /\ current = Nothing /\ cover = Nothing
    /\ dpc = [r \in Deletes |-> "new"]
    /\ target = [r \in Deletes |-> Nothing]
    /\ loaded = [r \in Deletes |-> Nothing]
    /\ early = {} /\ settled = {}
    /\ gone = [r \in Deletes |-> Nothing]

-----------------------------------------------------------------------------
\* UploadFromURL and DeleteObject put and remove one object under its name.  When they
\* report an error, either may have happened all the same.
Uploaded(store, object) == store \cup {object}
Removed(store, object)  == store \ {object}

\* Any error ends the attempt; the callback is retried.
EndAttempt == cpc' = "idle" /\ todo' = {} /\ current' = Nothing /\ cover' = Nothing

\* Mutants: one attempt too many; a ready job is stored again.
CompleteLate ==
    /\ cpc = "idle"
    /\ ~ready
    /\ attempts <= MaxAttempts
    /\ attempts' = attempts + 1
    /\ cpc' = "next" /\ todo' = Audios
    /\ UNCHANGED <<storeVars, ids, ready, current, cover, dVars>>

CompleteAgain ==
    /\ cpc = "idle"
    /\ attempts < MaxAttempts
    /\ attempts' = attempts + 1
    /\ cpc' = "next" /\ todo' = Audios
    /\ UNCHANGED <<storeVars, ids, ready, current, cover, dVars>>

\* A complete callback, from Suno or from the poller, for the first time or again: a
\* ready job ignores it.
BeginComplete ==
    /\ cpc = "idle"
    /\ ~ready
    /\ attempts < MaxAttempts
    /\ attempts' = attempts + 1
    /\ cpc' = "next" /\ todo' = Audios
    /\ UNCHANGED <<storeVars, ids, ready, current, cover, dVars>>

\* buildTrack copies the audio; a failure may come before or after the object is
\* complete.
UploadAudio ==
    /\ cpc = "next"
    /\ \E a \in todo :
        \/ /\ audio' = Uploaded(audio, a)
           /\ cpc' = "cover" /\ todo' = todo \ {a} /\ current' = a
           /\ UNCHANGED cover
        \/ audio' \in {audio, Uploaded(audio, a)} /\ EndAttempt
    /\ UNCHANGED <<rows, images, ids, ready, attempts, dVars>>

\* buildTrack copies the cover, if the report names one; a failure is only logged and
\* leaves the track without.
UploadCover ==
    /\ cpc = "cover"
    /\ cpc' = "upsert"
    /\ \/ \E c \in Covers : /\ images' = Uploaded(images, <<current, c>>)
                            /\ cover' \in {c, Nothing}
       \/ UNCHANGED images /\ cover' = Nothing
    /\ UNCHANGED <<rows, audio, ids, ready, attempts, todo, current, dVars>>

\* Mutant: the upsert writes every column.
WriteAll(a) == [id |-> rows[a].id, image |-> cover, favorite |-> FALSE]

\* ON CONFLICT DO UPDATE: id and favourite stay, and a cover that could not be
\* copied this time does not replace one that was.
Merged(a) == [rows[a] EXCEPT !.image = IF cover = Nothing THEN @ ELSE cover]

Upserted(a) ==
    IF rows[a] = Nothing THEN [id |-> ids + 1, image |-> cover, favorite |-> FALSE]
                         ELSE Merged(a)

\* CreateTrack; it may fail with or without effect.
UpsertTrack ==
    /\ cpc = "upsert"
    /\ ids' = ids + 1
    /\ \/ /\ rows' = [rows EXCEPT ![current] = Upserted(current)]
          /\ cpc' = "next" /\ current' = Nothing /\ cover' = Nothing
          /\ UNCHANGED todo
       \/ /\ UNCHANGED rows \/ rows' = [rows EXCEPT ![current] = Upserted(current)]
          /\ EndAttempt
    /\ UNCHANGED <<audio, images, ready, attempts, dVars>>

\* UpdateJob with status ready; it may fail with or without effect.
FinishComplete ==
    /\ cpc = "next"
    /\ todo = {}
    /\ ready' \in BOOLEAN
    /\ EndAttempt
    /\ UNCHANGED <<storeVars, ids, attempts, dVars>>

-----------------------------------------------------------------------------
DeleteGoto(r, label) ==
    dpc' = [dpc EXCEPT ![r] = label] /\ UNCHANGED <<target, loaded, settled>>

\* The request is answered with 204.  (What it did is kept, for the properties.)
Answered(r) == DeleteGoto(r, "done") /\ UNCHANGED gone

\* It is answered with an error, which may be "not found", and forgets its track.
Refused(r) ==
    /\ dpc' = [dpc EXCEPT ![r] = "failed"]
    /\ target' = [target EXCEPT ![r] = Nothing]
    /\ loaded' = [loaded EXCEPT ![r] = Nothing]
    /\ settled' = settled \ {r}
    /\ gone' = [gone EXCEPT ![r] = Nothing]

\* DeleteTrack, 1: load the track by its id, which every list shows as soon as
\* there is a row, and check whose job it is of.
LoadTrack(r) ==
    /\ dpc[r] = "new"
    /\ \/ /\ \E a \in Audios :
              /\ rows[a] # Nothing
              /\ target' = [target EXCEPT ![r] = a]
              /\ loaded' = [loaded EXCEPT ![r] = rows[a]]
          /\ settled' = IF ready THEN settled \cup {r} ELSE settled
          /\ dpc' = [dpc EXCEPT ![r] = "row"]
          /\ UNCHANGED gone
       \/ Refused(r)
    /\ UNCHANGED <<storeVars, ids, cVars, early>>

\* Mutant: the objects go first, and then the request fails.
ObjectFirst(r) ==
    /\ dpc[r] = "row"
    /\ audio' = Removed(audio, target[r])
    /\ Refused(r)
    /\ UNCHANGED <<rows, images, ids, cVars, early>>

\* DeleteTrack, 2: delete the row with that id.  No row: not found.  An error, with
\* or without effect, ends the request.
DeleteRow(r) ==
    /\ dpc[r] = "row"
    /\ LET a == target[r] IN
       \/ /\ rows[a] # Nothing /\ rows[a].id = loaded[r].id
          /\ rows' = [rows EXCEPT ![a] = Nothing]
          /\ early' = IF ready THEN early ELSE early \cup {a}
          /\ \/ /\ DeleteGoto(r, "audio")
                /\ gone' = [gone EXCEPT ![r] = rows[a].image]
             \/ Refused(r)
       \/ Refused(r) /\ UNCHANGED <<rows, early>>
    /\ UNCHANGED <<audio, images, ids, cVars>>

\* DeleteTrack, 3: the audio object; an error, with or without effect, ends the
\* request.
DeleteAudio(r) ==
    /\ dpc[r] = "audio"
    /\ \/ /\ audio' = Removed(audio, target[r])
          /\ IF loaded[r].image = Nothing
                THEN Answered(r) ELSE DeleteGoto(r, "image") /\ UNCHANGED gone
       \/ audio' \in {audio, Removed(audio, target[r])} /\ Refused(r)
    /\ UNCHANGED <<rows, images, ids, cVars, early>>

\* Mutant: the object store's error is ignored.
DeleteImageQuietly(r) ==
    /\ dpc[r] = "image"
    /\ images' \in {images, Removed(images, <<target[r], loaded[r].image>>)}
    /\ Answered(r)
    /\ UNCHANGED <<rows, audio, ids, cVars, early>>

\* DeleteTrack, 4: the cover the row named when it was loaded.
DeleteImage(r) ==
    /\ dpc[r] = "image"
    /\ LET rest == Removed(images, <<target[r], loaded[r].image>>) IN
       \/ images' = rest /\ Answered(r)
       \/ images' \in {images, rest} /\ Refused(r)
    /\ UNCHANGED <<rows, audio, ids, cVars, early>>

\* SetFavorite and its inverse: one UPDATE.
SetFavorite(a) ==
    /\ rows[a] # Nothing
    /\ \E value \in BOOLEAN : rows' = [rows EXCEPT ![a].favorite = value]
    /\ UNCHANGED <<audio, images, ids, cVars, dVars>>

-----------------------------------------------------------------------------
CompleteStep == BeginComplete \/ UploadAudio \/ UploadCover \/ UpsertTrack \/ FinishComplete

DeleteStep(r) == LoadTrack(r) \/ DeleteRow(r) \/ DeleteAudio(r) \/ DeleteImage(r)

Next ==
    \/ CompleteStep
    \/ \E r \in Deletes : DeleteStep(r)
    \/ \E a \in Audios : SetFavorite(a)

Spec == Init /\ [][Next]_vars

-----------------------------------------------------------------------------
TypeOK ==
    /\ rows \in [Audios -> Tracks \cup {Nothing}]
    /\ audio \subseteq Audios
    /\ images \subseteq Audios \X Covers
    /\ ids \in Nat
    /\ ready \in BOOLEAN
    /\ attempts \in 0..MaxAttempts
    /\ cpc \in {"idle", "next", "cover", "upsert"}
    /\ todo \subseteq Audios
    /\ current \in Audios \cup {Nothing}
    /\ cover \in Covers \cup {Nothing}
    /\ dpc \in [Deletes -> {"new", "row", "audio", "image", "done", "failed"}]
    /\ target \in [Deletes -> Audios \cup {Nothing}]
    /\ loaded \in [Deletes -> Tracks \cup {Nothing}]
    /\ early \subseteq Audios
    /\ settled \subseteq Deletes
    /\ gone \in [Deletes -> Covers \cup {Nothing}]

\* The objects a row points to.
Resolves(a) ==
    /\ a \in audio
    /\ rows[a].image # Nothing => <<a, rows[a].image>> \in images

\* A row never points to an object that is not there: objects are stored before
\* their row and deleted after it, whatever fails in between.  The exception is a track
\* that was deleted while it was still being stored.
RowsResolve == \A a \in Audios : rows[a] # Nothing /\ a \notin early => Resolves(a)

\* Whoever is told that a track was deleted can rely on it.  The row never comes back
\* under its id.  If the job was ready when the request began, the objects the deleted
\* row pointed to are gone, whatever failed or was deleted before.  A request that began
\* while a callback was still storing is weaker: the audio is gone unless the row itself
\* went before the job was ready, and the cover may stay if the callback replaced it
\* after the request had loaded the row, because DeleteTrack removes the cover it loaded.
DeletedIsGone ==
    \A r \in Deletes : dpc[r] = "done" =>
        LET a == target[r]
            coverGone == <<a, gone[r]>> \notin images
        IN
        /\ rows[a] # Nothing => rows[a].id # loaded[r].id
        /\ r \in settled => a \notin audio /\ coverGone
        /\ a \notin early =>
              a \notin audio /\ (coverGone \/ gone[r] # loaded[r].image)

\* A callback that is repeated updates a track in place: the ids and marks its owner
\* knows survive, and so does a cover that cannot be copied again.
UpdatedInPlace ==
    [][\A a \in Audios : rows[a] # Nothing /\ rows'[a] # Nothing =>
          /\ rows'[a].id = rows[a].id
          /\ rows[a].image # Nothing => rows'[a].image # Nothing
          /\ cpc' # cpc => rows'[a].favorite = rows[a].favorite]_vars

\* A track deleted from a job that is ready never comes back, although callbacks
\* do.
DeletedStaysDeleted ==
    [][\A a \in Audios : ready /\ rows[a] = Nothing => rows'[a] = Nothing]_vars

=============================================================================
