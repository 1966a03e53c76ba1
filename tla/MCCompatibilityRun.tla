-------------------------- MODULE MCCompatibilityRun --------------------------
(* CompatibilityRun on a small instance: two runs of one candidate, or of    *)
(* different ones, with one slot for both.                                   *)
EXTENDS CompatibilityRun, TLC

CONSTANTS r1, r2, g1, n1, b1, b2, b3

MCAsked == r1 :> {g1, n1} @@ r2 :> {g1}
MCBuildsOf == g1 :> {b1, b2} @@ n1 :> {b3}
=============================================================================
