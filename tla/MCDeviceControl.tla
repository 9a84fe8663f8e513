--------------------------- MODULE MCDeviceControl ---------------------------
(* Instances of DeviceControl for TLC *)
EXTENDS DeviceControl, TLC

CONSTANTS a1, a2, c1, c2, p1, p2, n

(* Two apps that share a process name, every request for either of them *)
MCApps == {a1, a2}
MCCallers == {c1, c2}
MCPids == {p1, p2}
MCNames == {n}
MCProcessName == [a \in MCApps |-> n]

MCRequests ==
  [method : {"StartApp", "RestartApp"}, app : MCApps, multi : {"single"}]
    \cup [method : {"CloseApp"}, pid : MCPids]

Symmetry ==
  Permutations(MCApps) \cup Permutations(MCCallers) \cup Permutations(MCPids)

(* One app and one process, for the liveness property, which needs a run    *)
(* without symmetry                                                         *)
LiveApps == {a1}
LivePids == {p1}
LiveProcessName == [a \in LiveApps |-> n]

LiveRequests ==
  [method : {"StartApp", "RestartApp"}, app : LiveApps, multi : {"single"}]
    \cup [method : {"CloseApp"}, pid : LivePids]
=============================================================================
