------------------------- MODULE MCAccountLifecycle -------------------------
(* A small instance of AccountLifecycle for TLC.  Liveness is checked, so    *)
(* there is no symmetry reduction.                                           *)
EXTENDS AccountLifecycle

=============================================================================
