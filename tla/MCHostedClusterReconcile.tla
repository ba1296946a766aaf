----------------------- MODULE MCHostedClusterReconcile -----------------------
(* Instances of HostedClusterReconcile for TLC.                            *)
EXTENDS HostedClusterReconcile, TLC

CONSTANTS a, b

OneHC  == {1}
TwoNames == {a, b}

FirstName  == [h \in HCs |-> a]
EitherAnno == [h \in HCs |-> {b}]

Prefixed == [name \in Names |-> b]
=============================================================================
