------------------------------ MODULE GroupStore ------------------------------
(***************************************************************************)
(* DeviceGroupStore of src/src/groups_store.rs: the table device_groups,   *)
(* its in-memory cache with the statistics kept beside it, and threads     *)
(* that create, change and delete groups at once.  A call is a statement   *)
(* on a connection of its own, then a step under the lock of the cache,    *)
(* then one under the locks of cache and statistics.                       *)
(*                                                                         *)
(* A group is its name (UNIQUE) and its device ids, which the builder of   *)
(* src/src/groups.rs keeps free of duplicates.                             *)
(***************************************************************************)
EXTENDS Naturals, FiniteSets, FiniteSetsExt

CONSTANTS
  Groups, GroupNames, Members, \* group ids, names, device ids
  GroupClients,                \* threads that call the store
  NoGroup,                     \* absent from the table or the cache
  MaxGroupOps, MaxGroupFaults, MaxGroupRestarts \* bounds: calls, faults, restarts

ASSUME GroupAssumption == NoGroup \notin [name : GroupNames, devices : SUBSET Members]

VARIABLES
  groupRows,   \* table device_groups
  groupCache,  \* DeviceGroupCache.groups
  groupStats,  \* DeviceGroupCache.stats
  groupCall,   \* client -> its call and the step it is at
  overlapped,  \* history: groups that two calls were working on at once
  groupBudget  \* calls, faults and restarts so far

groupVars == <<groupRows, groupCache, groupStats, groupCall, overlapped, groupBudget>>

DeviceGroup == [name : GroupNames, devices : SUBSET Members]
NoCall == [step |-> "none"]

StoredGroups == {g \in Groups : groupRows[g] # NoGroup}
CachedGroups == {g \in Groups : groupCache[g] # NoGroup}

AddDevice(group, d) == [group EXCEPT !.devices = @ \cup {d}]
AddDevices(group, ds) == [group EXCEPT !.devices = @ \cup ds]
RemoveDevice(group, d) == [group EXCEPT !.devices = @ \ {d}]
DeviceCount(group) == Cardinality(group.devices)

(* The average is the quotient of the two. *)
Stats(groups) ==
  LET held == {g \in Groups : groups[g] # NoGroup} IN
  [total |-> Cardinality(held),
   devices |-> MapThenSumSet(LAMBDA g : DeviceCount(groups[g]), held)]

GroupInit ==
  /\ groupRows = [g \in Groups |-> NoGroup] /\ groupCache = groupRows
  /\ groupStats = Stats(groupCache)
  /\ groupCall = [c \in GroupClients |-> NoCall]
  /\ overlapped = {}
  /\ groupBudget = [calls |-> 0, faults |-> 0, restarts |-> 0]
-----------------------------------------------------------------------------
WorkingOn(g) == {c \in GroupClients : groupCall[c] # NoCall /\ groupCall[c].id = g}

BeginGroupCall(c, op, g, group) ==
  /\ groupCall[c] = NoCall /\ groupBudget.calls < MaxGroupOps
  /\ groupBudget' = [groupBudget EXCEPT !.calls = @ + 1]
  /\ groupCall' = [groupCall EXCEPT
       ![c] = [op |-> op, id |-> g, group |-> group, step |-> "statement"]]
  /\ overlapped' = IF WorkingOn(g) = {} THEN overlapped ELSE overlapped \cup {g}
  /\ UNCHANGED <<groupRows, groupCache, groupStats>>

(* A caller changes the copy it gets from the cache, and writes it back. *)
CallCreate(c) == \E g \in Groups \ (StoredGroups \cup CachedGroups), n \in GroupNames,
                    ds \in SUBSET Members :
  WorkingOn(g) = {} /\ BeginGroupCall(c, "create", g,
    AddDevices([name |-> n, devices |-> {}], ds))

CallUpdate(c) == \E g \in CachedGroups, d \in Members, n \in GroupNames :
  \E group \in {AddDevice(groupCache[g], d), RemoveDevice(groupCache[g], d),
                [groupCache[g] EXCEPT !.name = n]} :
    BeginGroupCall(c, "update", g, group)

CallDelete(c) == \E g \in CachedGroups : BeginGroupCall(c, "delete", g, groupCache[g])

GroupNameFree(g, group) ==
  \A h \in StoredGroups \ {g} : groupRows[h].name # group.name

GroupStatement(c) ==
  LET call == groupCall[c]
      accepted == CASE call.op = "create" -> GroupNameFree(call.id, call.group)
                    [] call.op = "update" -> /\ call.id \in StoredGroups
                                             /\ GroupNameFree(call.id, call.group)
                    [] call.op = "delete" -> call.id \in StoredGroups
  IN
  /\ call.step = "statement"
  /\ groupRows' = IF ~accepted THEN groupRows ELSE
       [groupRows EXCEPT ![call.id] = IF call.op = "delete" THEN NoGroup ELSE call.group]
  /\ groupCall' = [groupCall EXCEPT
       ![c] = IF accepted THEN [call EXCEPT !.step = "cache"] ELSE NoCall]
  /\ UNCHANGED <<groupCache, groupStats, overlapped, groupBudget>>

GroupStatementFails(c) ==
  /\ groupCall[c].step = "statement" /\ groupBudget.faults < MaxGroupFaults
  /\ groupBudget' = [groupBudget EXCEPT !.faults = @ + 1]
  /\ groupCall' = [groupCall EXCEPT ![c] = NoCall]
  /\ UNCHANGED <<groupRows, groupCache, groupStats, overlapped>>

InsertGroup(c) ==
  /\ groupCall[c].op = "create"
  /\ groupCache' = [groupCache EXCEPT ![groupCall[c].id] = groupCall[c].group]

(* Mutant: DeviceGroupCache::update keeps the devices it has. *)
ReplaceGroupName(c) ==
  /\ groupCall[c].op = "update" /\ groupCall[c].id \in CachedGroups
  /\ groupCache' = [groupCache EXCEPT ![groupCall[c].id].name = groupCall[c].group.name]

(* update and remove touch the statistics only when the group was there. *)
ReplaceGroup(c) ==
  /\ groupCall[c].op = "update" /\ groupCall[c].id \in CachedGroups
  /\ groupCache' = [groupCache EXCEPT ![groupCall[c].id] = groupCall[c].group]

RemoveGroup(c) ==
  /\ groupCall[c].op = "delete" /\ groupCall[c].id \in CachedGroups
  /\ groupCache' = [groupCache EXCEPT ![groupCall[c].id] = NoGroup]

CacheGroup(c) ==
  /\ groupCall[c].step = "cache"
  /\ \/ /\ InsertGroup(c) \/ ReplaceGroup(c) \/ RemoveGroup(c)
        /\ groupCall' = [groupCall EXCEPT ![c].step = "stats"]
     \/ /\ groupCall[c].op # "create" /\ groupCall[c].id \notin CachedGroups
        /\ groupCall' = [groupCall EXCEPT ![c] = NoCall]
        /\ UNCHANGED groupCache
  /\ UNCHANGED <<groupRows, groupStats, overlapped, groupBudget>>

UpdateGroupStats(c) ==
  /\ groupCall[c].step = "stats"
  /\ groupStats' = Stats(groupCache)
  /\ groupCall' = [groupCall EXCEPT ![c] = NoCall]
  /\ UNCHANGED <<groupRows, groupCache, overlapped, groupBudget>>

ReopenGroupStore ==
  /\ groupBudget.restarts < MaxGroupRestarts
  /\ groupBudget' = [groupBudget EXCEPT !.restarts = @ + 1]
  /\ groupCache' = groupRows /\ groupStats' = Stats(groupRows)
  /\ groupCall' = [c \in GroupClients |-> NoCall]
  /\ overlapped' = {}
  /\ UNCHANGED groupRows

GroupNext ==
  \/ ReopenGroupStore
  \/ \E c \in GroupClients :
       \/ CallCreate(c) \/ CallUpdate(c) \/ CallDelete(c)
       \/ GroupStatement(c) \/ GroupStatementFails(c)
       \/ CacheGroup(c) \/ UpdateGroupStats(c)
-----------------------------------------------------------------------------
(* DeviceGroupCache::filter by a device; sorting and paging are left out *)
FilterGroups(d) == {g \in CachedGroups : d \in groupCache[g].devices}

GroupStoreTypeOK ==
  /\ groupRows \in [Groups -> DeviceGroup \cup {NoGroup}]
  /\ groupCache \in [Groups -> DeviceGroup \cup {NoGroup}]
  /\ overlapped \subseteq Groups

(* When no call is in progress, readers get the stored groups with the     *)
(* statistics of what is cached, and their stored contents unless two      *)
(* calls worked on a group at once.                                        *)
GroupsAgree == (\A c \in GroupClients : groupCall[c] = NoCall) =>
  /\ groupStats = Stats(groupCache)
  /\ CachedGroups = StoredGroups
  /\ \A g \in StoredGroups \ overlapped :
       /\ groupCache[g].name = groupRows[g].name
       /\ \A d \in Members : g \in FilterGroups(d) <=> d \in groupRows[g].devices
=============================================================================
