-------------------------- MODULE MCDealsRefresh --------------------------
(***************************************************************************)
(* Instances of DealsRefresh for TLC.                                      *)
(***************************************************************************)
EXTENDS DealsRefresh

MCBackoff == <<1>>
=============================================================================
