--------------------------- MODULE MCConfigManager ---------------------------
(* Instances of ConfigManager for TLC *)
EXTENDS ConfigManager, TLC

CONSTANTS k1, k2, x, y, w1, w2, s1

MCKeys == {k1, k2}
MCWatched == {k1}
MCValues == {x, y}
MCWriters == {w1, w2}
MCWatchers == {s1}

(* Faults and restarts are explored with one key, three writes in a run of *)
(* the agent and no watcher; the watcher and both keys without them.       *)
KeysInUse ==
  {k \in Keys : memory[k] # Absent} \cup {row.key : row \in rows}
    \cup {task[w].key : w \in {v \in Writers : task[v].at \in {"look", "remove"}}}
Scenes ==
  \/ restarts = 0 /\ unstored = {}
  \/ KeysInUse \subseteq {k1} /\ version <= 3 /\ \A s \in Watchers : watch[s] = Closed

Symmetry == Permutations(MCValues) \cup Permutations(MCWriters)
=============================================================================
