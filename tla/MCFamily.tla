------------------------------- MODULE MCFamily -------------------------------
(***************************************************************************)
(* FamilySettings with interchangeable pages.                              *)
(***************************************************************************)
EXTENDS FamilySettings, TLC

Pages == Permutations(Page)
=============================================================================
