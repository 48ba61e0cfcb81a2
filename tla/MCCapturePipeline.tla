------------------------- MODULE MCCapturePipeline -------------------------
(***************************************************************************)
(* Instances of CapturePipeline for TLC.                                   *)
(***************************************************************************)
EXTENDS CapturePipeline

MCBackoff == <<1, 1>>
=============================================================================
