----------------------------- MODULE MCJobQueue -----------------------------
(***************************************************************************)
(* Instances of JobQueue for TLC.  Job ids are numbers because the queue   *)
(* orders by them; the waits keep the order of the real ones: each backoff *)
(* (30 s, 120 s) is shorter than the age at which a row counts as stuck    *)
(* (900 s).                                                                *)
(***************************************************************************)
EXTENDS JobQueue

MCBackoff == <<1, 1>>
=============================================================================
