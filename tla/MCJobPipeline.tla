---------------------------- MODULE MCJobPipeline ----------------------------
(* Small instances of JobPipeline for TLC. *)
EXTENDS JobPipeline

\* Jobs, tasks and results are told apart by nothing but equality.
Symmetry == Permutations(Jobs) \cup Permutations(Tasks) \cup Permutations(Audios)
=============================================================================
