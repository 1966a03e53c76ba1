--------------------------- MODULE MCRuntimeControl ---------------------------
(* RuntimeControl on small instances; calls are interchangeable in safety    *)
(* runs.                                                                     *)
EXTENDS RuntimeControl, TLC

Symmetry == Permutations(Calls)
=============================================================================
