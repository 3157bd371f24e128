------------------------------ MODULE MCWorker ------------------------------
(***************************************************************************)
(* Instances of Worker for TLC.  Workers are interchangeable; the symmetry *)
(* is used by the runs without liveness.                                   *)
(***************************************************************************)
EXTENDS Worker, TLC

Symmetry == Permutations(Workers)
=============================================================================
