----------------------------- MODULE MCWebTask ------------------------------
(***************************************************************************)
(* WebTask on a small instance.  Task directories and processes have no    *)
(* order, so both sets are symmetric for safety.                           *)
(***************************************************************************)
EXTENDS WebTask, TLC

Symmetry == Permutations(Tasks) \cup Permutations(Workers)
=============================================================================
