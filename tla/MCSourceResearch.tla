-------------------------- MODULE MCSourceResearch --------------------------
(* Small instances of SourceResearch: model values and symmetry.           *)
EXTENDS SourceResearch, TLC

CONSTANTS a1, j1, b1

CallersValue == Workers \cup Users
AccountValue == [j \in Jobs |-> a1]
BatchValue == [j \in Jobs |-> b1]

Symmetry == Permutations(Workers) \cup Permutations(Users)
=============================================================================
