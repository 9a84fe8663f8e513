-------------------------------- MODULE Stores --------------------------------
(***************************************************************************)
(* The three stores that keep a cache in front of their tables, side by    *)
(* side: each has its own tables, caches and callers.                      *)
(***************************************************************************)
EXTENDS TagStore, GroupStore, BatchStore

StoresInit == TagInit /\ GroupInit /\ BatchInit

StoresNext ==
  \/ TagNext /\ UNCHANGED <<groupVars, batchVars>>
  \/ GroupNext /\ UNCHANGED <<tagVars, batchVars>>
  \/ BatchNext /\ UNCHANGED <<tagVars, groupVars>>

StoresSpec == StoresInit /\ [][StoresNext]_<<tagVars, groupVars, batchVars>>

(* When no call is in progress, each store of tags, groups and batch tasks *)
(* answers from its cache what its tables hold, up to the races and the    *)
(* half-done calls that TagStore, GroupStore and BatchStore name.          *)
StoresAgree == TagsAgree /\ GroupsAgree /\ BatchesAgree
===============================================================================
