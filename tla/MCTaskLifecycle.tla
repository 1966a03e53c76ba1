-------------------------- MODULE MCTaskLifecycle --------------------------
(* Small instances of TaskLifecycle for TLC. *)
EXTENDS TaskLifecycle

(* Workers and requests are interchangeable. *)
Symmetry == Permutations(Workers) \cup Permutations(Requests)

=============================================================================
