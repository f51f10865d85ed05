--------------------------- MODULE MCWriteNodeStore ---------------------------
(***************************************************************************)
(* WriteNodeStore for TLC.  Keys are interchangeable: no definition names  *)
(* one, and no liveness property is checked with this module.              *)
(***************************************************************************)
EXTENDS WriteNodeStore, TLC

KeySymmetry == Permutations(Keys)
=============================================================================
