-------------------------- MODULE MCPhotoRetention --------------------------
(***************************************************************************)
(* Instances of PhotoRetention for TLC.                                    *)
(***************************************************************************)
EXTENDS PhotoRetention
=============================================================================
