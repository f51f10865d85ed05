------------------------------ MODULE MCReadNode ------------------------------
(***************************************************************************)
(* Sizes of the data file for TLC: two versions have the same one.         *)
(***************************************************************************)
EXTENDS ReadNode

SomeSizes == [v \in Versions |-> IF v = 2 THEN 1 ELSE v]
=============================================================================
