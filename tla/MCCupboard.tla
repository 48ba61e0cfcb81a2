---------------------------- MODULE MCCupboard ----------------------------
(***************************************************************************)
(* Instances of Cupboard for TLC.                                          *)
(***************************************************************************)
EXTENDS Cupboard, TLC

MCBackoff == <<1>>
MCTabs == Permutations(Tabs)
=============================================================================
