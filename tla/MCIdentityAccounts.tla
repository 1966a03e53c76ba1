-------------------------- MODULE MCIdentityAccounts --------------------------
(* IdentityAccounts on small instances; accounts, calls and invitations are  *)
(* interchangeable.                                                          *)
EXTENDS IdentityAccounts, TLC

Symmetry == Permutations(Accounts) \cup Permutations(Calls) \cup Permutations(Invitations)
=============================================================================
