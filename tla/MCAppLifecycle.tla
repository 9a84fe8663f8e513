--------------------------- MODULE MCAppLifecycle ---------------------------
(* Instance of AppLifecycle for TLC *)
EXTENDS AppLifecycle, TLC

CONSTANTS a1, a2, c1, p1, p2

MCApps == {a1, a2}
MCCallers == {c1}
MCPids == {p1, p2}

Symmetry == Permutations(MCApps) \cup Permutations(MCPids)
=============================================================================
