----------------------------- MODULE MCFileSync -----------------------------
(***************************************************************************)
(* An instance of FileSync for TLC.  The workers are interchangeable.      *)
(***************************************************************************)
EXTENDS FileSync, TLC

MCSymmetry == Permutations(Workers)
=============================================================================
