---------------------------- MODULE MCRedisQueue ----------------------------
(* Small instances of RedisQueue for TLC. *)
EXTENDS RedisQueue

\* Payloads are told apart by nothing but equality, and neither are workers.
Symmetry == Permutations(Payloads) \cup Permutations(Workers)

=============================================================================
