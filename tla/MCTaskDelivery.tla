--------------------------- MODULE MCTaskDelivery ---------------------------
(* Small instances of TaskDelivery for TLC.  Liveness is checked, so there *)
(* is no symmetry reduction.                                               *)
EXTENDS TaskDelivery

=============================================================================
