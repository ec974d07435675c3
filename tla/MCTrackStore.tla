---------------------------- MODULE MCTrackStore ----------------------------
(* Small instances of TrackStore for TLC. *)
EXTENDS TrackStore, TLC

Symmetry == Permutations(Audios) \cup Permutations(Covers) \cup Permutations(Deletes)

=============================================================================
