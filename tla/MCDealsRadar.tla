--------------------------- MODULE MCDealsRadar ---------------------------
(***************************************************************************)
(* Instances of DealsRadar for TLC: the offers share brand and category;   *)
(* "d1", the one of the run, is an A-brand's.                              *)
(***************************************************************************)
EXTENDS DealsRadar

MCBrand == [d \in Offers |-> "brand"]
MCCategory == [d \in Offers |-> "category"]
MCOwnLabel == [d \in Offers |-> IF d = "d1" THEN "no" ELSE None]
MCName == [d \in Offers |-> d]
=============================================================================
