---------------------------- MODULE MCDispatcher ----------------------------
(***************************************************************************)
(* Instances of Dispatcher for TLC.  Tasks and pids are model values and   *)
(* interchangeable; the symmetry is used by the runs without liveness.     *)
(***************************************************************************)
EXTENDS Dispatcher, TLC

Symmetry == Permutations(Tasks) \union Permutations(Pids)
=============================================================================
