-------------------------- MODULE MCShoppingSync --------------------------
(***************************************************************************)
(* Instances of ShoppingSync for TLC.                                      *)
(***************************************************************************)
EXTENDS ShoppingSync

MCBackoff == <<1>>
=============================================================================
