---------------------------- MODULE MCPanelScreens -----------------------------
(***************************************************************************)
(* PanelScreens for TLC: a tab is any tab.                                 *)
(***************************************************************************)
EXTENDS PanelScreens, TLC

Symmetry == Permutations(Tabs)
================================================================================
