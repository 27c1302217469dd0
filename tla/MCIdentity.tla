----------------------------- MODULE MCIdentity -----------------------------
(***************************************************************************)
(* Identity for TLC: an account is any account.                            *)
(***************************************************************************)
EXTENDS Identity, TLC

Symmetry == Permutations(Users)
=============================================================================
