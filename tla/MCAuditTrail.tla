----------------------------- MODULE MCAuditTrail -----------------------------
(* Instances of AuditTrail for TLC *)
EXTENDS AuditTrail

CONSTANTS n1, s1, s2

MCNorth == {n1}
MCSouth == {s1, s2}
=============================================================================
