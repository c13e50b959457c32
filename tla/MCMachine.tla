------------------------------ MODULE MCMachine -------------------------------
(***************************************************************************)
(* Instance of Machine for TLC.  Which folder it is makes no difference.    *)
(***************************************************************************)
EXTENDS Machine, TLC

Symmetry == Permutations(Folders)
===============================================================================
