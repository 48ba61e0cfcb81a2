------------------------- MODULE MCReceiptPipeline -------------------------
(***************************************************************************)
(* Instances of ReceiptPipeline for TLC.                                   *)
(***************************************************************************)
EXTENDS ReceiptPipeline

MCBackoff == <<1, 1>>
=============================================================================
