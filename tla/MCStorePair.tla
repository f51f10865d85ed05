------------------------------ MODULE MCStorePair ------------------------------
(***************************************************************************)
(* Sizes of the data file for TLC: two of the versions have the same one.  *)
(***************************************************************************)
EXTENDS StorePair

SomeSizes == [v \in 1 .. MaxVersion |-> IF v = 2 THEN 1 ELSE v]
=============================================================================
