---------------------------- MODULE MCSubscriptions ----------------------------
(***************************************************************************)
(* Subscriptions for TLC: a page is any page.                              *)
(***************************************************************************)
EXTENDS Subscriptions, TLC

Symmetry == Permutations(Pages)
================================================================================
