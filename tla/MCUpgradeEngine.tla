--------------------------- MODULE MCUpgradeEngine ---------------------------
(* Instances of UpgradeEngine for TLC *)
EXTENDS UpgradeEngine, TLC

CONSTANTS a1, a2, v1, v2, f1, f2, old, new

(* The new build has one file more than the old one, or one less *)
MCPackages ==
  {[f \in {f1, f2} |-> old],
   [f \in {f1, f2} |-> IF f = f1 THEN new ELSE NoFile]}

MCApps == {a1, a2}
MCVersions == {v1, v2}

Symmetry == Permutations(MCApps) \cup Permutations(MCVersions)
=============================================================================
