-------------------------- MODULE TrackStoreTheorems --------------------------
(***************************************************************************)
(* For any number of results, covers, deletions and attempts: the types of *)
(* the two stores, that rows resolve, that a deleted track of a ready job  *)
(* stays deleted, and that a repeated callback updates in place.           *)
(***************************************************************************)
EXTENDS TrackStore, TLAPS

\* Between the steps: handleComplete runs only while the job is not ready, and a
\* request that deletes objects has deleted their row, early or for good; so what is
\* being stored is there.
Ordered ==
    /\ ready => cpc = "idle"
    /\ cpc \in {"cover", "upsert"} => current \in Audios /\ (current \in early \/ current \in audio)
    /\ cpc = "upsert" /\ cover # Nothing =>
           current \in early \/ <<current, cover>> \in images
    /\ \A r \in Deletes :
          /\ dpc[r] \in {"row", "audio", "image"} => target[r] \in Audios /\ loaded[r] \in Tracks
          /\ dpc[r] \in {"audio", "image"} =>
                target[r] \in early \/ (ready /\ rows[target[r]] = Nothing)
          /\ dpc[r] = "image" => loaded[r].image # Nothing

TrackInv == TypeOK /\ Ordered /\ RowsResolve

LEMMA TrackInit == Init => TrackInv
  <1> SUFFICES ASSUME Init PROVE TrackInv
    OBVIOUS
  <1>1. TypeOK
    <2>1. attempts = 0 /\ ids = 0 /\ MaxAttempts \in Nat
      BY TrackAssumption DEF Init
    <2>2. attempts \in 0..MaxAttempts /\ ids \in Nat
      BY <2>1
    <2>3. ready \in BOOLEAN
      BY DEF Init
    <2>4. /\ rows \in [Audios -> Tracks \cup {Nothing}]
          /\ dpc \in [Deletes -> {"new", "row", "audio", "image", "done", "failed"}]
          /\ target \in [Deletes -> Audios \cup {Nothing}]
          /\ loaded \in [Deletes -> Tracks \cup {Nothing}]
      BY DEF Init
    <2>5. QED
      BY <2>2, <2>3, <2>4 DEF Init, TypeOK
  <1>2. Ordered /\ RowsResolve
    BY DEF Init, Ordered, RowsResolve
  <1>3. QED
    BY <1>1, <1>2 DEF TrackInv

\* What the upsert writes.
LEMMA UpsertedTyped ==
    ASSUME TypeOK, NEW a \in Audios
    PROVE  /\ Upserted(a) \in Tracks
           /\ Upserted(a).image = cover \/ (rows[a] # Nothing /\ Upserted(a).image = rows[a].image)
           /\ rows[a] # Nothing =>
                 /\ Upserted(a).id = rows[a].id
                 /\ Upserted(a).favorite = rows[a].favorite
                 /\ rows[a].image # Nothing => Upserted(a).image # Nothing
  <1>1. ids + 1 \in Nat /\ cover \in Covers \cup {Nothing} /\ rows[a] \in Tracks \cup {Nothing}
    BY DEF TypeOK
  <1>2. CASE rows[a] = Nothing
    BY <1>1, <1>2 DEF Upserted, Tracks
  <1>3. CASE rows[a] # Nothing
    BY <1>1, <1>3 DEF Upserted, Merged, Tracks
  <1>4. QED
    BY <1>2, <1>3

\* What deleting a row does: to its own request, and to everything else.
LEMMA RowDeleted ==
    ASSUME TypeOK, Ordered, NEW r \in Deletes, DeleteRow(r)
    PROVE  /\ dpc[r] = "row" /\ target[r] \in Audios /\ loaded[r] \in Tracks
           /\ \/ dpc'[r] = "failed" /\ r \notin settled'
              \/ /\ dpc'[r] = "audio" /\ target'[r] = target[r] /\ loaded'[r] = loaded[r]
                 /\ rows[target[r]] # Nothing /\ rows[target[r]].id = loaded[r].id
                 /\ rows'[target[r]] = Nothing
                 /\ gone'[r] = rows[target[r]].image
                 /\ r \in settled' => r \in settled
                 /\ target[r] \in early' \/ ready
  <1>1. dpc[r] = "row" /\ target[r] \in Audios /\ loaded[r] \in Tracks
    BY DEF DeleteRow, Ordered
  <1>2. CASE Refused(r)
    BY <1>1, <1>2 DEF Refused, TypeOK
  <1>3. CASE ~Refused(r)
    <2>1. /\ rows[target[r]] # Nothing /\ rows[target[r]].id = loaded[r].id
          /\ rows' = [rows EXCEPT ![target[r]] = Nothing]
          /\ early' = IF ready THEN early ELSE early \cup {target[r]}
          /\ dpc' = [dpc EXCEPT ![r] = "audio"] /\ UNCHANGED <<target, loaded, settled>>
          /\ gone' = [gone EXCEPT ![r] = rows[target[r]].image]
      BY <1>3 DEF DeleteRow, DeleteGoto
    <2>2. QED
      BY <1>1, <2>1 DEF TypeOK
  <1>4. QED
    BY <1>2, <1>3

LEMMA OthersUntouched ==
    ASSUME TypeOK, Ordered, NEW r \in Deletes, DeleteRow(r)
    PROVE  /\ UNCHANGED <<audio, images, ids, cVars>>
           /\ rows' \in [Audios -> Tracks \cup {Nothing}]
           /\ \A a \in Audios : rows'[a] = rows[a] \/ rows'[a] = Nothing
           /\ \A a \in Audios : rows'[a] = rows[a] \/ a \in early' \/ ready
           /\ early \subseteq early' /\ early' \subseteq Audios
           /\ settled' \subseteq settled
           /\ dpc' \in [Deletes -> {"new", "row", "audio", "image", "done", "failed"}]
           /\ target' \in [Deletes -> Audios \cup {Nothing}]
           /\ loaded' \in [Deletes -> Tracks \cup {Nothing}]
           /\ gone' \in [Deletes -> Covers \cup {Nothing}]
           /\ \A d \in Deletes \ {r} :
                 /\ dpc'[d] = dpc[d] /\ target'[d] = target[d] /\ loaded'[d] = loaded[d]
                 /\ gone'[d] = gone[d]
  <1> DEFINE a == target[r]
  <1>1. a \in Audios /\ (rows[a] # Nothing => rows[a].image \in Covers \cup {Nothing})
    BY DEF DeleteRow, Ordered, TypeOK, Tracks
  <1>2. UNCHANGED <<audio, images, ids, cVars>>
    BY DEF DeleteRow
  <1>3. \/ UNCHANGED <<rows, early>>
        \/ /\ rows' = [rows EXCEPT ![a] = Nothing]
           /\ early' = IF ready THEN early ELSE early \cup {a}
    BY DEF DeleteRow
  <1>4. \/ Refused(r)
        \/ /\ dpc' = [dpc EXCEPT ![r] = "audio"] /\ UNCHANGED <<target, loaded, settled>>
           /\ gone' = [gone EXCEPT ![r] = rows[a].image] /\ rows[a] # Nothing
    BY DEF DeleteRow, DeleteGoto
  <1>5. /\ rows' \in [Audios -> Tracks \cup {Nothing}]
        /\ early \subseteq early' /\ early' \subseteq Audios
        /\ \A b \in Audios : rows'[b] = rows[b] \/ rows'[b] = Nothing
        /\ \A b \in Audios : rows'[b] = rows[b] \/ b \in early' \/ ready
    BY <1>1, <1>3 DEF TypeOK
  <1>6. /\ settled' \subseteq settled
        /\ dpc' \in [Deletes -> {"new", "row", "audio", "image", "done", "failed"}]
        /\ target' \in [Deletes -> Audios \cup {Nothing}]
        /\ loaded' \in [Deletes -> Tracks \cup {Nothing}]
        /\ gone' \in [Deletes -> Covers \cup {Nothing}]
        /\ \A d \in Deletes \ {r} :
              /\ dpc'[d] = dpc[d] /\ target'[d] = target[d] /\ loaded'[d] = loaded[d]
              /\ gone'[d] = gone[d]
    BY <1>1, <1>4 DEF Refused, TypeOK
  <1>7. QED
    BY <1>2, <1>5, <1>6

LEMMA TrackNext == TrackInv /\ [Next]_vars => TrackInv'
  <1> SUFFICES ASSUME TrackInv, [Next]_vars PROVE TrackInv'
    OBVIOUS
  <1> USE NothingIsNoTrack, TrackAssumption
      DEF storeVars, cVars, dVars, hVars, EndAttempt, DeleteGoto, Answered, Refused, Uploaded, Removed, Resolves
  <1>1. CASE BeginComplete
    BY <1>1 DEF BeginComplete, TrackInv, TypeOK, Ordered, RowsResolve
  <1>2. CASE UploadAudio
    BY <1>2 DEF UploadAudio, TrackInv, TypeOK, Ordered, RowsResolve
  <1>3. CASE UploadCover
    BY <1>3 DEF UploadCover, TrackInv, TypeOK, Ordered, RowsResolve
  <1>4. CASE UpsertTrack
    BY <1>4, UpsertedTyped DEF UpsertTrack, TrackInv, TypeOK, Ordered, RowsResolve
  <1>5. CASE FinishComplete
    BY <1>5 DEF FinishComplete, TrackInv, TypeOK, Ordered, RowsResolve
  <1>6. ASSUME NEW r \in Deletes, LoadTrack(r) PROVE TrackInv'
    BY <1>6 DEF LoadTrack, TrackInv, TypeOK, Ordered, RowsResolve
  <1>7. ASSUME NEW r \in Deletes, DeleteRow(r) PROVE TrackInv'
    <2>1. TypeOK'
      BY <1>7, RowDeleted, OthersUntouched DEF TrackInv, TypeOK
    <2>2. Ordered' /\ RowsResolve'
      BY <1>7, RowDeleted, OthersUntouched DEF TrackInv, TypeOK, Ordered, RowsResolve
    <2>3. QED
      BY <2>1, <2>2 DEF TrackInv
  <1>8. ASSUME NEW r \in Deletes, DeleteAudio(r) PROVE TrackInv'
    BY <1>8 DEF DeleteAudio, TrackInv, TypeOK, Ordered, RowsResolve
  <1>9. ASSUME NEW r \in Deletes, DeleteImage(r) PROVE TrackInv'
    BY <1>9 DEF DeleteImage, TrackInv, TypeOK, Ordered, RowsResolve
  <1>10. ASSUME NEW a \in Audios, SetFavorite(a) PROVE TrackInv'
    BY <1>10 DEF SetFavorite, TrackInv, TypeOK, Ordered, RowsResolve, Tracks
  <1>11. CASE UNCHANGED vars
    BY <1>11 DEF vars, TrackInv, TypeOK, Ordered, RowsResolve
  <1>12. QED
    BY <1>1, <1>2, <1>3, <1>4, <1>5, <1>6, <1>7, <1>8, <1>9, <1>10, <1>11
       DEF Next, CompleteStep, DeleteStep

\* The types of the rows, the objects and the requests.
THEOREM TracksTypeCorrect == Spec => []TypeOK
  BY TrackInit, TrackNext, PTL DEF Spec, TrackInv

\* A track deleted from a job that is ready never comes back.
THEOREM TracksStayDeleted == Spec => DeletedStaysDeleted
  <1> DEFINE Stays == \A a \in Audios : ready /\ rows[a] = Nothing => rows'[a] = Nothing
  <1>1. TrackInv /\ [Next]_vars => [Stays]_vars
    <2> SUFFICES ASSUME TrackInv, Next PROVE Stays
      OBVIOUS
    <2> USE DEF TrackInv, TypeOK, Ordered, storeVars
    <2>1. CASE UpsertTrack
      BY <2>1 DEF UpsertTrack
    <2>2. ASSUME NEW a \in Audios, SetFavorite(a) PROVE Stays
      BY <2>2 DEF SetFavorite
    <2>3. ASSUME NEW r \in Deletes, DeleteStep(r) PROVE Stays
      BY <2>3 DEF DeleteStep, LoadTrack, DeleteRow, DeleteAudio, DeleteImage
    <2>4. QED
      BY <2>1, <2>2, <2>3
         DEF Next, CompleteStep, BeginComplete, UploadAudio, UploadCover, FinishComplete
  <1>2. QED
    BY <1>1, TrackInit, TrackNext, PTL DEF Spec, DeletedStaysDeleted

\* A repeated callback leaves the id, the favourite mark and the cover of a track.
THEOREM TracksUpdatedInPlace == Spec => UpdatedInPlace
  <1> DEFINE Kept == \A a \in Audios : rows[a] # Nothing /\ rows'[a] # Nothing =>
                        /\ rows'[a].id = rows[a].id
                        /\ rows[a].image # Nothing => rows'[a].image # Nothing
                        /\ cpc' # cpc => rows'[a].favorite = rows[a].favorite
  <1>1. TrackInv /\ [Next]_vars => [Kept]_vars
    <2> SUFFICES ASSUME TrackInv, Next PROVE Kept
      OBVIOUS
    <2> USE DEF TrackInv, TypeOK, storeVars, cVars, Tracks
    <2>1. CASE UpsertTrack
      BY <2>1, UpsertedTyped DEF UpsertTrack, Ordered
    <2>2. ASSUME NEW a \in Audios, SetFavorite(a) PROVE Kept
      BY <2>2 DEF SetFavorite
    <2>3. ASSUME NEW r \in Deletes, DeleteStep(r) PROVE Kept
      BY <2>3 DEF DeleteStep, LoadTrack, DeleteRow, DeleteAudio, DeleteImage
    <2>4. QED
      BY <2>1, <2>2, <2>3
         DEF Next, CompleteStep, BeginComplete, UploadAudio, UploadCover, FinishComplete
  <1>2. QED
    BY <1>1, TrackInit, TrackNext, PTL DEF Spec, UpdatedInPlace

\* A row never points to an object that is not there, unless its track was deleted
\* while it was being stored.
THEOREM TracksResolve == Spec => []RowsResolve
  BY TrackInit, TrackNext, PTL DEF Spec, TrackInv

\* Ids are given out once, and a request that has deleted the row of an id goes on to
\* delete the objects while no row of that id can come back.
Erased(r) ==
    /\ dpc[r] # "new" /\ dpc[r] # "failed" =>
          target[r] \in Audios /\ loaded[r] \in Tracks /\ loaded[r].id <= ids
    /\ dpc[r] \in {"audio", "image", "done"} =>
          /\ rows[target[r]] # Nothing => rows[target[r]].id # loaded[r].id
          /\ target[r] \in early \/ ready
    /\ dpc[r] \in {"image", "done"} /\ (r \in settled \/ target[r] \notin early) =>
          target[r] \notin audio
    /\ dpc[r] = "done" /\ (r \in settled \/ target[r] \notin early) =>
          <<target[r], loaded[r].image>> \notin images

\* Nothing stores a track of a ready job: the row a request loads from one keeps its
\* cover until the request deletes it.
CoverSettled(r) ==
    r \in settled =>
        /\ ready
        /\ dpc[r] = "row" /\ rows[target[r]] # Nothing /\ rows[target[r]].id = loaded[r].id =>
              rows[target[r]].image = loaded[r].image
        /\ dpc[r] \in {"audio", "image", "done"} => gone[r] = loaded[r].image

Erasing ==
    /\ \A a \in Audios : rows[a] # Nothing => rows[a].id <= ids
    /\ \A r \in Deletes : Erased(r) /\ CoverSettled(r)

LEMMA ErasingNext == TrackInv /\ Erasing /\ [Next]_vars => Erasing'
  <1> SUFFICES ASSUME TrackInv, Erasing, [Next]_vars PROVE Erasing'
    OBVIOUS
  <1> USE NothingIsNoTrack, TrackAssumption
      DEF storeVars, cVars, dVars, hVars, EndAttempt, DeleteGoto, Answered, Refused, Uploaded, Removed, Tracks,
          TrackInv, TypeOK, Ordered
  <1>1. CASE BeginComplete \/ FinishComplete
    BY <1>1 DEF BeginComplete, FinishComplete, Erasing, Erased, CoverSettled
  <1>2. CASE UploadAudio
    BY <1>2 DEF UploadAudio, Erasing, Erased, CoverSettled
  <1>3. CASE UploadCover
    BY <1>3 DEF UploadCover, Erasing, Erased, CoverSettled
  <1>4. CASE UpsertTrack
    <2>1. ids' = ids + 1 /\ ids \in Nat /\ current \in Audios
      BY <1>4 DEF UpsertTrack
    <2>2. rows[current] = Nothing => Upserted(current).id = ids + 1
      BY DEF Upserted
    <2>3. rows[current] # Nothing => Upserted(current).id = rows[current].id
      BY <2>1, UpsertedTyped
    <2>4. \A a \in Audios : rows'[a] = rows[a] \/ (a = current /\ rows'[a] = Upserted(a))
      BY <1>4 DEF UpsertTrack
    <2>5. UNCHANGED <<audio, images, ready, dVars>>
      BY <1>4 DEF UpsertTrack
    <2>6. ASSUME NEW a \in Audios, rows'[a] # Nothing PROVE rows'[a].id <= ids'
      BY <2>1, <2>2, <2>3, <2>4, <2>6 DEF Erasing
    <2>7. ASSUME NEW r \in Deletes PROVE Erased(r)'
      <3>1. Erased(r)
        BY DEF Erasing
      <3>2. loaded[r] \in Tracks => loaded[r].id \in Nat
        OBVIOUS
      <3>3. ASSUME dpc[r] \in {"audio", "image", "done"}, rows'[target[r]] # Nothing
            PROVE  rows'[target[r]].id # loaded[r].id
        BY <2>1, <2>2, <2>3, <2>4, <3>1, <3>2, <3>3 DEF Erased
      <3>4. QED
        BY <2>1, <2>5, <3>1, <3>2, <3>3 DEF Erased
    <2>8. ~ready
      BY <1>4 DEF UpsertTrack
    <2>9. QED
      BY <2>5, <2>6, <2>7, <2>8 DEF Erasing, CoverSettled
  <1>5. ASSUME NEW d \in Deletes, LoadTrack(d) PROVE Erasing'
    <2>1. UNCHANGED <<storeVars, ids, cVars, early>>
      BY <1>5 DEF LoadTrack
    <2>2. \A r \in Deletes \ {d} :
              /\ dpc'[r] = dpc[r] /\ target'[r] = target[r] /\ loaded'[r] = loaded[r]
              /\ gone'[r] = gone[r] /\ (r \in settled' <=> r \in settled)
      BY <1>5 DEF LoadTrack
    <2>3. \/ dpc'[d] = "failed" /\ d \notin settled'
          \/ /\ dpc'[d] = "row" /\ target'[d] \in Audios
             /\ rows[target'[d]] # Nothing /\ loaded'[d] = rows[target'[d]]
             /\ d \in settled' => ready \/ d \in settled
      BY <1>5 DEF LoadTrack
    <2>4. ASSUME NEW r \in Deletes PROVE Erased(r)'
      <3>1. Erased(r) /\ \A a \in Audios : rows[a] # Nothing => rows[a].id <= ids /\ rows[a] \in Tracks
        BY DEF Erasing
      <3>2. CASE r = d
        BY <2>1, <2>3, <3>1, <3>2 DEF Erased
      <3>3. CASE r # d
        BY <2>1, <2>2, <3>1, <3>3 DEF Erased
      <3>4. QED
        BY <3>2, <3>3
    <2>5. ASSUME NEW r \in Deletes PROVE CoverSettled(r)'
      <3>1. CoverSettled(r) /\ CoverSettled(d)
        BY DEF Erasing
      <3>2. CASE r = d
        BY <2>1, <2>3, <3>1, <3>2 DEF CoverSettled
      <3>3. CASE r # d
        BY <2>1, <2>2, <3>1, <3>3 DEF CoverSettled
      <3>4. QED
        BY <3>2, <3>3
    <2>6. QED
      BY <2>1, <2>4, <2>5 DEF Erasing
  <1>6. ASSUME NEW d \in Deletes, DeleteRow(d) PROVE Erasing'
    <2>1. ASSUME NEW r \in Deletes PROVE Erased(r)'
      <3>1. Erased(r) /\ Erased(d)
        BY DEF Erasing
      <3>2. CASE r = d
        BY <1>6, <3>1, <3>2, RowDeleted, OthersUntouched DEF Erased
      <3>3. CASE r # d
        <4>1. /\ dpc'[r] = dpc[r] /\ target'[r] = target[r] /\ loaded'[r] = loaded[r]
              /\ UNCHANGED <<audio, images, ids, ready>>
              /\ early \subseteq early' /\ settled' \subseteq settled
              /\ \A a \in Audios : rows'[a] = rows[a] \/ rows'[a] = Nothing
          BY <1>6, <3>3, OthersUntouched
        <4>2. QED
          BY <3>1, <4>1 DEF Erased
      <3>4. QED
        BY <3>2, <3>3
    <2>2. ASSUME NEW r \in Deletes PROVE CoverSettled(r)'
      <3>1. CoverSettled(r) /\ Erased(r)
        BY DEF Erasing
      <3>2. CASE r = d
        BY <1>6, <3>1, <3>2, RowDeleted, OthersUntouched DEF CoverSettled
      <3>3. CASE r # d
        <4>1. /\ dpc'[r] = dpc[r] /\ target'[r] = target[r] /\ loaded'[r] = loaded[r]
              /\ gone'[r] = gone[r] /\ settled' \subseteq settled /\ UNCHANGED ready
              /\ \A a \in Audios : rows'[a] = rows[a] \/ rows'[a] = Nothing
          BY <1>6, <3>3, OthersUntouched
        <4>2. QED
          BY <3>1, <4>1 DEF CoverSettled, Erased
      <3>4. QED
        BY <3>2, <3>3
    <2>3. \A a \in Audios : rows'[a] # Nothing => rows'[a].id <= ids'
      BY <1>6, OthersUntouched DEF Erasing
    <2>4. QED
      BY <2>1, <2>2, <2>3 DEF Erasing
  <1>7. ASSUME NEW d \in Deletes, DeleteAudio(d) PROVE Erasing'
    BY <1>7 DEF DeleteAudio, Erasing, Erased, CoverSettled
  <1>8. ASSUME NEW d \in Deletes, DeleteImage(d) PROVE Erasing'
    BY <1>8 DEF DeleteImage, Erasing, Erased, CoverSettled
  <1>9. ASSUME NEW a \in Audios, SetFavorite(a) PROVE Erasing'
    BY <1>9 DEF SetFavorite, Erasing, Erased, CoverSettled
  <1>10. CASE UNCHANGED vars
    BY <1>10 DEF vars, Erasing, Erased, CoverSettled
  <1>11. QED
    BY <1>1, <1>2, <1>3, <1>4, <1>5, <1>6, <1>7, <1>8, <1>9, <1>10
       DEF Next, CompleteStep, DeleteStep

\* An answered deletion from a ready job is complete: the row stays away, and so do the
\* objects it pointed to.  A request that began while its track was being stored leaves
\* at most what DeletedIsGone excepts.
THEOREM DeletionIsComplete == Spec => []DeletedIsGone
  <1>1. Init => Erasing
    BY DEF Init, Erasing, Erased, CoverSettled
  <1>2. Erasing => DeletedIsGone
    BY DEF Erasing, Erased, CoverSettled, DeletedIsGone
  <1>3. QED
    BY <1>1, <1>2, TrackInit, TrackNext, ErasingNext, PTL DEF Spec

=============================================================================
