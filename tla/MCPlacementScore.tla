-------------------------- MODULE MCPlacementScore --------------------------
(* Constants for model checking PlacementScore with TLC. *)
EXTENDS PlacementScore, TLC

\* HostedClusters are interchangeable: nothing orders them.
HCSymmetry == Permutations(HCs)
=============================================================================
