------------------------ MODULE MCInstallController ------------------------
(* Constants for model checking InstallController with TLC. *)
EXTENDS InstallController, TLC

\* Jobs are interchangeable: nothing orders them.
JobSymmetry == Permutations(Jobs)
=============================================================================
