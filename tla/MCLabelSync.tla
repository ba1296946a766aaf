----------------------------- MODULE MCLabelSync -----------------------------
(* Instances of LabelSync: see the configurations LabelSync*.cfg.           *)
EXTENDS LabelSync, TLC

\* No definition tells one label value from another.
ValueSymmetry == Permutations(Values)
=============================================================================
