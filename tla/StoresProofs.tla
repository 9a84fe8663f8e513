----------------------------- MODULE StoresProofs -----------------------------
(* The three stores that keep a cache in front of their tables answer from  *)
(* the cache what the tables hold, for any number of tags, groups, tasks    *)
(* and threads.                                                             *)
EXTENDS Stores, TLAPS, FiniteSetTheorems, SequenceTheorems

-----------------------------------------------------------------------------
(* Groups *)

GroupCall ==
  {NoCall} \cup [op : {"create", "update", "delete"}, id : Groups, group : DeviceGroup,
                 step : {"statement", "cache", "stats"}]

(* A call of this operation on group g that has got to one of these steps *)
On(call, g, op, steps) == call.step \in steps /\ call.op = op /\ call.id = g

Works(call, g) == call # NoCall /\ call.id = g

GroupsTyped ==
  /\ groupRows \in [Groups -> DeviceGroup \cup {NoGroup}]
  /\ groupCache \in [Groups -> DeviceGroup \cup {NoGroup}]
  /\ groupCall \in [GroupClients -> GroupCall]

StatsKept ==
  groupStats = Stats(groupCache) \/ \E c \in GroupClients : groupCall[c].step = "stats"

(* Two calls that work on a group at once have overlapped on it *)
Overlaps ==
  \A c, d \in GroupClients, g \in Groups :
    c # d /\ Works(groupCall[c], g) /\ Works(groupCall[d], g) => g \in overlapped

(* A group that is stored and not cached is being created, and one that is  *)
(* cached and not stored is being deleted                                   *)
GroupWhole(g) ==
  /\ groupRows[g] # NoGroup /\ groupCache[g] = NoGroup =>
       \E c \in GroupClients : On(groupCall[c], g, "create", {"cache"})
  /\ groupRows[g] = NoGroup /\ groupCache[g] # NoGroup =>
       \E c \in GroupClients : On(groupCall[c], g, "delete", {"cache"})

(* Nobody else works on a group before it is cached *)
GroupCreatesAlone ==
  \A c \in GroupClients, g \in Groups :
    /\ On(groupCall[c], g, "create", {"statement", "cache"}) =>
         groupCache[g] = NoGroup /\ \A d \in GroupClients \ {c} : ~Works(groupCall[d], g)
    /\ On(groupCall[c], g, "create", {"statement"}) => groupRows[g] = NoGroup
    /\ On(groupCall[c], g, "create", {"cache"}) => groupRows[g] = groupCall[c].group

(* One call deletes the row of a group, and no other one its cached copy *)
GroupDeletesOnce ==
  \A c \in GroupClients, g \in Groups :
    On(groupCall[c], g, "delete", {"cache"}) =>
      /\ groupRows[g] = NoGroup /\ groupCache[g] # NoGroup
      /\ \A d \in GroupClients \ {c} : ~On(groupCall[d], g, "delete", {"cache"})

(* What is cached is what is stored, or is about to be replaced by it *)
GroupsFollow ==
  \A g \in Groups \ overlapped :
    /\ groupRows[g] # NoGroup /\ groupCache[g] # NoGroup =>
         \/ groupCache[g] = groupRows[g]
         \/ \E c \in GroupClients : On(groupCall[c], g, "update", {"cache"})
    /\ \A c \in GroupClients : On(groupCall[c], g, "update", {"cache"}) =>
         groupRows[g] = groupCall[c].group

GroupInv ==
  /\ GroupsTyped /\ StatsKept /\ Overlaps
  /\ (\A g \in Groups : GroupWhole(g)) /\ GroupCreatesAlone /\ GroupDeletesOnce /\ GroupsFollow

(* A call in progress has all the fields of one *)
LEMMA GroupCallFields ==
  /\ NoCall \in GroupCall /\ NoCall.step = "none"
  /\ \A call \in GroupCall : call.step # "none" =>
       /\ call # NoCall /\ call.op \in {"create", "update", "delete"}
       /\ call.id \in Groups /\ call.group \in DeviceGroup
       /\ call.step \in {"statement", "cache", "stats"}
       /\ call.group # NoGroup
       /\ \A s : [call EXCEPT !.step = s] =
                   [op |-> call.op, id |-> call.id, group |-> call.group, step |-> s]
  /\ \A call \in GroupCall : call.step = "none" => call = NoCall
  BY GroupAssumption DEF GroupCall, NoCall, DeviceGroup

(* A call begins on a group: a new one nobody works on, or one that is      *)
(* cached                                                                   *)
LEMMA GroupCallBegins ==
  ASSUME GroupInv, NEW c \in GroupClients, NEW g \in Groups,
         NEW op \in {"create", "update", "delete"}, NEW group \in DeviceGroup,
         BeginGroupCall(c, op, g, group),
         op = "create" => WorkingOn(g) = {} /\ groupRows[g] = NoGroup /\ groupCache[g] = NoGroup,
         op # "create" => groupCache[g] # NoGroup
  PROVE  GroupInv'
<1> DEFINE call == [op |-> op, id |-> g, group |-> group, step |-> "statement"]
<1>1. /\ groupCall[c] = NoCall /\ groupCall' = [groupCall EXCEPT ![c] = call]
      /\ overlapped' = IF WorkingOn(g) = {} THEN overlapped ELSE overlapped \cup {g}
      /\ groupRows' = groupRows /\ groupCache' = groupCache /\ groupStats' = groupStats
      BY DEF BeginGroupCall
<1>2. call \in GroupCall /\ call.step = "statement" /\ call.op = op /\ call.id = g
      BY DEF GroupCall
<1>3. NoCall.step = "none" /\ call # NoCall
      BY GroupCallFields, <1>2
<1> HIDE DEF call
<1>4. groupCall' \in [GroupClients -> GroupCall] /\ groupCall'[c] = call
      /\ \A d \in GroupClients \ {c} : groupCall'[d] = groupCall[d]
      BY <1>1, <1>2 DEF GroupInv, GroupsTyped
<1>5. GroupsTyped'
      BY <1>1, <1>4 DEF GroupInv, GroupsTyped
<1>6. StatsKept'
      BY <1>1, <1>3, <1>4 DEF GroupInv, StatsKept
<1>7. Overlaps'
      BY <1>1, <1>2, <1>4 DEF GroupInv, Overlaps, Works, WorkingOn
<1>8. \A h \in Groups : GroupWhole(h)'
      BY <1>1, <1>2, <1>3, <1>4 DEF GroupInv, GroupWhole, On
<1>9. GroupCreatesAlone'
  <2>1. \A d \in GroupClients : Works(groupCall[d], g) => op # "create"
        BY DEF Works, WorkingOn
  <2> QED BY <1>1, <1>2, <1>3, <1>4, <2>1 DEF GroupInv, GroupCreatesAlone, On, Works
<1>10. GroupDeletesOnce'
      BY <1>1, <1>2, <1>3, <1>4 DEF GroupInv, GroupDeletesOnce, On
<1>11. GroupsFollow'
      BY <1>1, <1>2, <1>3, <1>4 DEF GroupInv, GroupsFollow, On
<1> QED BY <1>5, <1>6, <1>7, <1>8, <1>9, <1>10, <1>11 DEF GroupInv

(* A call that ends where nothing waits for it *)
LEMMA GroupCallEnds ==
  ASSUME GroupInv, NEW c \in GroupClients, groupCall[c].step # "cache",
         groupCall[c].step = "stats" => groupStats' = Stats(groupCache'),
         groupCall' = [groupCall EXCEPT ![c] = NoCall],
         groupRows' = groupRows, groupCache' = groupCache, overlapped' = overlapped,
         groupCall[c].step # "stats" => groupStats' = groupStats
  PROVE  GroupInv'
<1>1. groupCall' \in [GroupClients -> GroupCall] /\ groupCall'[c] = NoCall
      /\ \A d \in GroupClients \ {c} : groupCall'[d] = groupCall[d]
      BY GroupCallFields DEF GroupInv, GroupsTyped
<1>2. NoCall.step = "none"
      BY GroupCallFields
<1>3. GroupsTyped'
      BY <1>1 DEF GroupInv, GroupsTyped
<1>4. StatsKept'
      BY <1>1, <1>2 DEF GroupInv, StatsKept
<1>5. Overlaps'
      BY <1>1 DEF GroupInv, Overlaps, Works
<1>6. \A h \in Groups : GroupWhole(h)'
      BY <1>1 DEF GroupInv, GroupWhole, On
<1>7. GroupCreatesAlone'
      BY <1>1, <1>2 DEF GroupInv, GroupCreatesAlone, On, Works
<1>8. GroupDeletesOnce'
      BY <1>1, <1>2 DEF GroupInv, GroupDeletesOnce, On
<1>9. GroupsFollow'
      BY <1>1, <1>2 DEF GroupInv, GroupsFollow, On
<1> QED BY <1>3, <1>4, <1>5, <1>6, <1>7, <1>8, <1>9 DEF GroupInv

LEMMA GroupCalls ==
  ASSUME GroupInv, NEW c \in GroupClients, CallCreate(c) \/ CallUpdate(c) \/ CallDelete(c)
  PROVE  GroupInv'
<1>0. \A g \in CachedGroups : g \in Groups /\ groupCache[g] \in DeviceGroup /\ groupCache[g] # NoGroup
      BY DEF CachedGroups, GroupInv, GroupsTyped
<1>1. CASE CallCreate(c)
  <2>1. PICK g \in Groups \ (StoredGroups \cup CachedGroups), n \in GroupNames,
             ds \in SUBSET Members :
               WorkingOn(g) = {} /\ BeginGroupCall(c, "create", g,
                                      AddDevices([name |-> n, devices |-> {}], ds))
        BY <1>1 DEF CallCreate
  <2>2. AddDevices([name |-> n, devices |-> {}], ds) \in DeviceGroup
        BY DEF AddDevices, DeviceGroup
  <2>3. groupRows[g] = NoGroup /\ groupCache[g] = NoGroup
        BY DEF StoredGroups, CachedGroups
  <2> QED BY <2>1, <2>2, <2>3, GroupCallBegins
<1>2. CASE CallUpdate(c)
  <2>1. PICK g \in CachedGroups, d \in Members, n \in GroupNames :
          \E group \in {AddDevice(groupCache[g], d), RemoveDevice(groupCache[g], d),
                        [groupCache[g] EXCEPT !.name = n]} :
            BeginGroupCall(c, "update", g, group)
        BY <1>2 DEF CallUpdate
  <2>2. \A group \in DeviceGroup : /\ AddDevice(group, d) \in DeviceGroup
                                   /\ RemoveDevice(group, d) \in DeviceGroup
                                   /\ [group EXCEPT !.name = n] \in DeviceGroup
        BY DEF AddDevice, RemoveDevice, DeviceGroup
  <2>3. PICK group \in DeviceGroup : BeginGroupCall(c, "update", g, group)
        BY <1>0, <2>1, <2>2
  <2> QED BY <1>0, <2>3, GroupCallBegins
<1>3. CASE CallDelete(c)
  <2>1. PICK g \in CachedGroups : BeginGroupCall(c, "delete", g, groupCache[g])
        BY <1>3 DEF CallDelete
  <2> QED BY <1>0, <2>1, GroupCallBegins
<1> QED BY <1>1, <1>2, <1>3

(* The statement of a call decides whether it goes on to the cache *)
LEMMA GroupStatementStep ==
  ASSUME GroupInv, NEW c \in GroupClients, GroupStatement(c)
  PROVE  GroupInv'
<1> DEFINE call == groupCall[c]
<1> DEFINE next == [call EXCEPT !.step = "cache"]
<1> DEFINE g == call.id
<1>0. /\ call.step = "statement" /\ groupCache' = groupCache /\ groupStats' = groupStats
      /\ overlapped' = overlapped
      BY DEF GroupStatement
<1>1. /\ call \in GroupCall /\ call # NoCall /\ call.op \in {"create", "update", "delete"}
      /\ g \in Groups /\ call.group \in DeviceGroup /\ call.group # NoGroup
      /\ NoCall.step = "none" /\ NoCall \in GroupCall
      BY <1>0, GroupCallFields DEF GroupInv, GroupsTyped
<1>2. /\ next \in GroupCall /\ next.step = "cache" /\ next.op = call.op /\ next.id = g
      /\ next.group = call.group
  <2>1. next = [op |-> call.op, id |-> call.id, group |-> call.group, step |-> "cache"]
        BY <1>0, <1>1, GroupCallFields
  <2> HIDE DEF next
  <2> QED BY <1>1, <2>1 DEF GroupCall
<1>3. \/ groupRows' = groupRows /\ groupCall' = [groupCall EXCEPT ![c] = NoCall]
      \/ /\ groupCall' = [groupCall EXCEPT ![c] = next]
         /\ call.op # "create" => groupRows[g] # NoGroup
         /\ groupRows' = [groupRows EXCEPT ![g] = IF call.op = "delete" THEN NoGroup
                                                                       ELSE call.group]
      BY <1>1 DEF GroupStatement, StoredGroups
<1> HIDE DEF next
<1>4. CASE groupRows' = groupRows /\ groupCall' = [groupCall EXCEPT ![c] = NoCall]
  <2>1. groupCall' \in [GroupClients -> GroupCall] /\ groupCall'[c] = NoCall
        /\ \A d \in GroupClients \ {c} : groupCall'[d] = groupCall[d]
        BY <1>1, <1>4 DEF GroupInv, GroupsTyped
  <2> QED BY <1>0, <1>1, <1>4, <2>1, GroupCallEnds
<1>5. CASE /\ groupCall' = [groupCall EXCEPT ![c] = next]
           /\ call.op # "create" => groupRows[g] # NoGroup
           /\ groupRows' = [groupRows EXCEPT ![g] = IF call.op = "delete" THEN NoGroup
                                                                         ELSE call.group]
  <2>1. groupCall' \in [GroupClients -> GroupCall] /\ groupCall'[c] = next
        /\ \A d \in GroupClients \ {c} : groupCall'[d] = groupCall[d]
        BY <1>2, <1>5 DEF GroupInv, GroupsTyped
  <2>2. /\ groupRows' \in [Groups -> DeviceGroup \cup {NoGroup}]
        /\ groupRows'[g] = IF call.op = "delete" THEN NoGroup ELSE call.group
        /\ \A h \in Groups \ {g} : groupRows'[h] = groupRows[h]
        BY <1>1, <1>5 DEF GroupInv, GroupsTyped
  <2>3. \A d \in GroupClients \ {c} : ~On(groupCall[d], g, "create", {"statement", "cache"})
    <3>1. Works(call, g)
          BY <1>1 DEF Works
    <3> QED BY <1>1, <3>1 DEF GroupInv, GroupCreatesAlone
  <2>4. call.op # "create" => groupCache[g] # NoGroup
    <3>1. ASSUME call.op # "create", groupCache[g] = NoGroup
          PROVE  FALSE
      <4>1. PICK d \in GroupClients : On(groupCall[d], g, "create", {"cache"})
            BY <1>1, <1>5, <3>1 DEF GroupInv, GroupWhole
      <4> QED BY <2>3, <3>1, <4>1 DEF On
    <3> QED BY <3>1
  <2>5. call.op = "create" => /\ groupCache[g] = NoGroup
                              /\ \A d \in GroupClients \ {c} : ~Works(groupCall[d], g)
        BY <1>0, <1>1 DEF GroupInv, GroupCreatesAlone, On
  <2>6. \A d \in GroupClients \ {c} : ~On(groupCall[d], g, "delete", {"cache"}) \/ call.op = "create"
    <3>1. ASSUME NEW d \in GroupClients \ {c}, On(groupCall[d], g, "delete", {"cache"})
          PROVE  call.op = "create"
      <4>1. groupRows[g] = NoGroup
            BY <1>1, <3>1 DEF GroupInv, GroupDeletesOnce
      <4> QED BY <1>5, <4>1
    <3> QED BY <3>1
  <2>7. GroupsTyped'
        BY <1>0, <2>1, <2>2 DEF GroupInv, GroupsTyped
  <2>8. StatsKept'
        BY <1>0, <2>1 DEF GroupInv, StatsKept
  <2>9. Overlaps'
        BY <1>0, <1>1, <1>2, <2>1 DEF GroupInv, Overlaps, Works
  <2>10. \A h \in Groups : GroupWhole(h)'
    <3>1. ASSUME NEW h \in Groups, h # g PROVE GroupWhole(h)'
          BY <1>0, <1>1, <1>2, <2>1, <2>2, <3>1 DEF GroupInv, GroupWhole, On
    <3>2. ASSUME NEW h \in Groups, h = g PROVE GroupWhole(h)'
          BY <1>0, <1>1, <1>2, <2>1, <2>2, <2>4, <2>5, <3>2 DEF GroupWhole, On
    <3> QED BY <3>1, <3>2
  <2>11. GroupCreatesAlone'
    <3>1. ASSUME NEW d \in GroupClients, NEW h \in Groups,
                 On(groupCall'[d], h, "create", {"statement", "cache"})
          PROVE  /\ groupCache[h] = NoGroup /\ \A o \in GroupClients \ {d} : ~Works(groupCall'[o], h)
                 /\ On(groupCall'[d], h, "create", {"statement"}) => groupRows'[h] = NoGroup
                 /\ On(groupCall'[d], h, "create", {"cache"}) => groupRows'[h] = groupCall'[d].group
      <4>1. CASE d = c
            BY <1>2, <2>1, <2>2, <2>5, <3>1, <4>1 DEF On, Works
      <4>2. CASE d # c
        <5>1. On(groupCall[d], h, "create", {"statement", "cache"}) /\ h # g
              BY <2>1, <2>3, <3>1, <4>2
        <5>2. groupRows'[h] = groupRows[h] /\ groupCall'[d] = groupCall[d]
              BY <2>1, <2>2, <4>2, <5>1
        <5>3. \A o \in GroupClients \ {d} : ~Works(groupCall'[o], h)
              BY <1>2, <2>1, <5>1 DEF GroupInv, GroupCreatesAlone, Works
        <5> QED BY <5>1, <5>2, <5>3 DEF GroupInv, GroupCreatesAlone
      <4> QED BY <4>1, <4>2
    <3> QED BY <1>0, <3>1 DEF GroupCreatesAlone, On
  <2>12. GroupDeletesOnce'
    <3>1. ASSUME NEW d \in GroupClients, NEW h \in Groups,
                 On(groupCall'[d], h, "delete", {"cache"})
          PROVE  /\ groupRows'[h] = NoGroup /\ groupCache[h] # NoGroup
                 /\ \A o \in GroupClients \ {d} : ~On(groupCall'[o], h, "delete", {"cache"})
      <4>1. CASE d = c
            BY <1>2, <2>1, <2>2, <2>4, <2>6, <3>1, <4>1 DEF On
      <4>2. CASE d # c
        <5>1. On(groupCall[d], h, "delete", {"cache"})
              BY <2>1, <3>1, <4>2
        <5>2. h # g
              BY <2>5, <2>6, <4>2, <5>1, GroupCallFields DEF On, Works, NoCall
        <5> QED BY <1>2, <2>1, <2>2, <5>1, <5>2 DEF GroupInv, GroupDeletesOnce, On
      <4> QED BY <4>1, <4>2
    <3> QED BY <1>0, <3>1 DEF GroupDeletesOnce
  <2>13. GroupsFollow'
    <3>1. ASSUME NEW h \in Groups \ overlapped, h # g
          PROVE  /\ groupRows'[h] # NoGroup /\ groupCache[h] # NoGroup =>
                     \/ groupCache[h] = groupRows'[h]
                     \/ \E d \in GroupClients : On(groupCall'[d], h, "update", {"cache"})
                 /\ \A d \in GroupClients : On(groupCall'[d], h, "update", {"cache"}) =>
                     groupRows'[h] = groupCall'[d].group
          BY <1>0, <1>2, <2>1, <2>2, <3>1 DEF GroupInv, GroupsFollow, On
    <3>2. ASSUME g \notin overlapped
          PROVE  /\ groupRows'[g] # NoGroup /\ groupCache[g] # NoGroup =>
                     \/ groupCache[g] = groupRows'[g]
                     \/ \E d \in GroupClients : On(groupCall'[d], g, "update", {"cache"})
                 /\ \A d \in GroupClients : On(groupCall'[d], g, "update", {"cache"}) =>
                     groupRows'[g] = groupCall'[d].group
      <4>1. \A d \in GroupClients \ {c} : ~Works(groupCall[d], g)
            BY <1>1, <3>2 DEF GroupInv, Overlaps, Works
      <4>2. \A d \in GroupClients \ {c} : ~On(groupCall'[d], g, "update", {"cache"})
            BY <1>1, <2>1, <4>1 DEF Works, On
      <4> QED BY <1>1, <1>2, <2>1, <2>2, <2>5, <4>2 DEF On
    <3> QED BY <1>0, <3>1, <3>2 DEF GroupsFollow
  <2> QED BY <2>7, <2>8, <2>9, <2>10, <2>11, <2>12, <2>13 DEF GroupInv
<1> QED BY <1>3, <1>4, <1>5

LEMMA GroupStatementFailsStep ==
  ASSUME GroupInv, NEW c \in GroupClients, GroupStatementFails(c)
  PROVE  GroupInv'
  BY GroupCallEnds DEF GroupStatementFails

LEMMA UpdateGroupStatsStep ==
  ASSUME GroupInv, NEW c \in GroupClients, UpdateGroupStats(c)
  PROVE  GroupInv'
<1>1. groupStats' = Stats(groupCache) /\ groupCache' = groupCache
      BY DEF UpdateGroupStats
<1>2. groupStats' = Stats(groupCache')
      BY <1>1
<1> QED BY <1>1, <1>2, GroupCallEnds DEF UpdateGroupStats

(* The cache takes over what the statement of the call wrote *)
LEMMA CacheGroupStep ==
  ASSUME GroupInv, NEW c \in GroupClients, CacheGroup(c)
  PROVE  GroupInv'
<1> DEFINE call == groupCall[c]
<1> DEFINE next == [call EXCEPT !.step = "stats"]
<1> DEFINE g == call.id
<1>0. /\ call.step = "cache" /\ groupRows' = groupRows /\ groupStats' = groupStats
      /\ overlapped' = overlapped
      BY DEF CacheGroup
<1>1. /\ call \in GroupCall /\ call # NoCall /\ call.op \in {"create", "update", "delete"}
      /\ g \in Groups /\ call.group \in DeviceGroup /\ call.group # NoGroup
      /\ NoCall.step = "none" /\ NoCall \in GroupCall
      BY <1>0, GroupCallFields DEF GroupInv, GroupsTyped
<1>2. /\ next \in GroupCall /\ next.step = "stats" /\ next.op = call.op /\ next.id = g
      /\ next # NoCall
  <2>1. next = [op |-> call.op, id |-> call.id, group |-> call.group, step |-> "stats"]
        BY <1>0, <1>1, GroupCallFields
  <2> HIDE DEF next
  <2> QED BY <1>1, <2>1 DEF GroupCall
<1>3. CASE /\ InsertGroup(c) \/ ReplaceGroup(c) \/ RemoveGroup(c)
           /\ groupCall' = [groupCall EXCEPT ![c].step = "stats"]
  <2>1. groupCall' = [groupCall EXCEPT ![c] = next]
        BY <1>3
  <2>2. /\ call.op # "create" => groupCache[g] # NoGroup
        /\ groupCache' = [groupCache EXCEPT ![g] = IF call.op = "delete" THEN NoGroup
                                                                        ELSE call.group]
        BY <1>3 DEF InsertGroup, ReplaceGroup, RemoveGroup, CachedGroups
  <2> HIDE DEF next
  <2>3. groupCall' \in [GroupClients -> GroupCall] /\ groupCall'[c] = next
        /\ \A d \in GroupClients \ {c} : groupCall'[d] = groupCall[d]
        BY <1>2, <2>1 DEF GroupInv, GroupsTyped
  <2>4. /\ groupCache' \in [Groups -> DeviceGroup \cup {NoGroup}]
        /\ groupCache'[g] = IF call.op = "delete" THEN NoGroup ELSE call.group
        /\ \A h \in Groups \ {g} : groupCache'[h] = groupCache[h]
        BY <1>1, <2>2 DEF GroupInv, GroupsTyped
  <2>5. \A d \in GroupClients \ {c} : ~On(groupCall[d], g, "create", {"statement", "cache"})
    <3>1. Works(call, g)
          BY <1>1 DEF Works
    <3> QED BY <1>1, <3>1 DEF GroupInv, GroupCreatesAlone
  <2>6. /\ call.op = "create" => \A d \in GroupClients \ {c} : ~Works(groupCall[d], g)
        /\ call.op = "create" => groupRows[g] = call.group
        BY <1>0, <1>1 DEF GroupInv, GroupCreatesAlone, On
  <2>7. call.op = "delete" => /\ groupRows[g] = NoGroup
                              /\ \A d \in GroupClients \ {c} :
                                   ~On(groupCall[d], g, "delete", {"cache"})
        BY <1>0, <1>1 DEF GroupInv, GroupDeletesOnce, On
  <2>8. GroupsTyped'
        BY <1>0, <2>3, <2>4 DEF GroupInv, GroupsTyped
  <2>9. StatsKept'
        BY <1>2, <2>3 DEF StatsKept
  <2>10. Overlaps'
        BY <1>0, <1>1, <1>2, <2>3 DEF GroupInv, Overlaps, Works
  <2>11. \A h \in Groups : GroupWhole(h)'
    <3>1. ASSUME NEW h \in Groups, h # g PROVE GroupWhole(h)'
          BY <1>0, <1>1, <1>2, <2>3, <2>4, <3>1 DEF GroupInv, GroupWhole, On
    <3>2. ASSUME NEW h \in Groups, h = g PROVE GroupWhole(h)'
      <4>1. CASE call.op = "delete"
            BY <1>0, <2>4, <2>7, <3>2, <4>1 DEF GroupWhole
      <4>2. CASE call.op # "delete" /\ groupRows[g] # NoGroup
            BY <1>0, <1>1, <2>4, <3>2, <4>2 DEF GroupWhole
      <4>3. CASE call.op # "delete" /\ groupRows[g] = NoGroup
        <5>1. call.op # "create"
              BY <1>1, <2>6, <4>3
        <5>2. PICK d \in GroupClients : On(groupCall[d], g, "delete", {"cache"})
              BY <1>1, <2>2, <4>3, <5>1 DEF GroupInv, GroupWhole
        <5>3. d # c
              BY <4>3, <5>2 DEF On
        <5>4. On(groupCall'[d], g, "delete", {"cache"})
              BY <2>3, <5>2, <5>3
        <5> QED BY <1>0, <3>2, <4>3, <5>4 DEF GroupWhole
      <4> QED BY <4>1, <4>2, <4>3
    <3> QED BY <3>1, <3>2
  <2>12. GroupCreatesAlone'
    <3>1. ASSUME NEW d \in GroupClients, NEW h \in Groups,
                 On(groupCall'[d], h, "create", {"statement", "cache"})
          PROVE  /\ groupCache'[h] = NoGroup
                 /\ \A o \in GroupClients \ {d} : ~Works(groupCall'[o], h)
                 /\ On(groupCall'[d], h, "create", {"statement"}) => groupRows'[h] = NoGroup
                 /\ On(groupCall'[d], h, "create", {"cache"}) => groupRows'[h] = groupCall'[d].group
      <4>1. d # c
            BY <1>2, <2>3, <3>1 DEF On
      <4>2. On(groupCall[d], h, "create", {"statement", "cache"}) /\ h # g
            BY <2>3, <2>5, <3>1, <4>1
      <4>3. groupCache'[h] = groupCache[h] /\ groupCall'[d] = groupCall[d]
            BY <2>3, <2>4, <4>1, <4>2
      <4>4. \A o \in GroupClients \ {d} : ~Works(groupCall'[o], h)
            BY <1>2, <2>3, <4>2 DEF GroupInv, GroupCreatesAlone, Works
      <4> QED BY <1>0, <4>2, <4>3, <4>4 DEF GroupInv, GroupCreatesAlone
    <3> QED BY <3>1 DEF GroupCreatesAlone, On
  <2>13. GroupDeletesOnce'
    <3>1. ASSUME NEW d \in GroupClients, NEW h \in Groups,
                 On(groupCall'[d], h, "delete", {"cache"})
          PROVE  /\ groupRows'[h] = NoGroup /\ groupCache'[h] # NoGroup
                 /\ \A o \in GroupClients \ {d} : ~On(groupCall'[o], h, "delete", {"cache"})
      <4>1. d # c
            BY <1>2, <2>3, <3>1 DEF On
      <4>2. On(groupCall[d], h, "delete", {"cache"})
            BY <2>3, <3>1, <4>1
      <4>3. groupCache'[h] # NoGroup
        <5>1. h = g => call.op # "delete"
              BY <1>0, <2>7, <4>1, <4>2
        <5>2. groupCache[h] # NoGroup
              BY <4>2 DEF GroupInv, GroupDeletesOnce
        <5> QED BY <1>1, <2>4, <5>1, <5>2
      <4> QED BY <1>0, <1>2, <2>3, <4>2, <4>3 DEF GroupInv, GroupDeletesOnce, On
    <3> QED BY <3>1 DEF GroupDeletesOnce
  <2>14. GroupsFollow'
    <3>1. ASSUME NEW h \in Groups \ overlapped, h # g
          PROVE  /\ groupRows[h] # NoGroup /\ groupCache'[h] # NoGroup =>
                     \/ groupCache'[h] = groupRows[h]
                     \/ \E d \in GroupClients : On(groupCall'[d], h, "update", {"cache"})
                 /\ \A d \in GroupClients : On(groupCall'[d], h, "update", {"cache"}) =>
                     groupRows[h] = groupCall'[d].group
          BY <1>0, <1>2, <2>3, <2>4, <3>1 DEF GroupInv, GroupsFollow, On
    <3>2. ASSUME g \notin overlapped
          PROVE  /\ groupRows[g] # NoGroup /\ groupCache'[g] # NoGroup =>
                     groupCache'[g] = groupRows[g]
                 /\ \A d \in GroupClients : ~On(groupCall'[d], g, "update", {"cache"})
      <4>1. \A d \in GroupClients \ {c} : ~Works(groupCall[d], g)
            BY <1>1, <3>2 DEF GroupInv, Overlaps, Works
      <4>2. \A d \in GroupClients : ~On(groupCall'[d], g, "update", {"cache"})
            BY <1>1, <1>2, <2>3, <4>1 DEF Works, On
      <4>3. call.op = "update" => groupRows[g] = call.group
            BY <1>0, <1>1, <3>2 DEF GroupInv, GroupsFollow, On
      <4> QED BY <1>1, <2>4, <2>6, <2>7, <4>2, <4>3
    <3> QED BY <1>0, <3>1, <3>2 DEF GroupsFollow
  <2> QED BY <2>8, <2>9, <2>10, <2>11, <2>12, <2>13, <2>14 DEF GroupInv
<1>4. CASE /\ call.op # "create" /\ g \notin CachedGroups
           /\ groupCall' = [groupCall EXCEPT ![c] = NoCall] /\ groupCache' = groupCache
  <2>1. groupCache[g] = NoGroup /\ call.op = "update"
    <3>1. groupCache[g] = NoGroup
          BY <1>1, <1>4 DEF CachedGroups
    <3>2. call.op # "delete"
          BY <1>0, <1>1, <3>1 DEF GroupInv, GroupDeletesOnce, On
    <3> QED BY <1>1, <1>4, <3>1, <3>2
  <2>2. groupCall' \in [GroupClients -> GroupCall] /\ groupCall'[c] = NoCall
        /\ \A d \in GroupClients \ {c} : groupCall'[d] = groupCall[d]
        BY <1>1, <1>4 DEF GroupInv, GroupsTyped
  <2>3. GroupsTyped'
        BY <1>0, <1>4, <2>2 DEF GroupInv, GroupsTyped
  <2>4. StatsKept'
        BY <1>0, <1>4, <2>2 DEF GroupInv, StatsKept
  <2>5. Overlaps'
        BY <1>0, <2>2 DEF GroupInv, Overlaps, Works
  <2>6. \A h \in Groups : GroupWhole(h)'
        BY <1>0, <1>4, <2>1, <2>2 DEF GroupInv, GroupWhole, On
  <2>7. GroupCreatesAlone'
        BY <1>0, <1>1, <1>4, <2>2 DEF GroupInv, GroupCreatesAlone, On, Works
  <2>8. GroupDeletesOnce'
        BY <1>0, <1>1, <1>4, <2>2 DEF GroupInv, GroupDeletesOnce, On
  <2>9. GroupsFollow'
        BY <1>0, <1>1, <1>4, <2>1, <2>2 DEF GroupInv, GroupsFollow, On
  <2> QED BY <2>3, <2>4, <2>5, <2>6, <2>7, <2>8, <2>9 DEF GroupInv
<1> QED BY <1>3, <1>4 DEF CacheGroup

LEMMA ReopenGroupStoreStep ==
  ASSUME GroupInv, ReopenGroupStore
  PROVE  GroupInv'
<1>1. /\ groupCache' = groupRows /\ groupStats' = Stats(groupRows) /\ groupRows' = groupRows
      /\ groupCall' = [c \in GroupClients |-> NoCall] /\ overlapped' = {}
      BY DEF ReopenGroupStore
<1>2. groupStats' = Stats(groupCache')
      BY <1>1
<1>3. NoCall.step = "none" /\ NoCall \in GroupCall
      BY GroupCallFields
<1>4. GroupsTyped' /\ StatsKept'
      BY <1>1, <1>2, <1>3 DEF GroupInv, GroupsTyped, StatsKept
<1> QED BY <1>1, <1>3, <1>4
        DEF GroupInv, Overlaps, GroupWhole, GroupCreatesAlone, GroupDeletesOnce, GroupsFollow,
            On, Works

LEMMA GroupInvInductive ==
  /\ GroupInit => GroupInv
  /\ GroupInv /\ [GroupNext]_groupVars => GroupInv'
<1>1. ASSUME GroupInit PROVE GroupInv
  <2>1. NoCall.step = "none" /\ NoCall \in GroupCall
        BY GroupCallFields
  <2>2. GroupsTyped /\ StatsKept
        BY <1>1, <2>1 DEF GroupInit, GroupsTyped, StatsKept
  <2> QED BY <1>1, <2>1, <2>2
          DEF GroupInit, GroupInv, Overlaps, GroupWhole, GroupCreatesAlone, GroupDeletesOnce,
              GroupsFollow, On, Works
<1>2. ASSUME GroupInv, UNCHANGED groupVars PROVE GroupInv'
      BY <1>2 DEF groupVars, GroupInv, GroupsTyped, StatsKept, Overlaps, GroupWhole,
                  GroupCreatesAlone, GroupDeletesOnce, GroupsFollow, On, Works
<1> QED BY <1>1, <1>2, GroupCalls, GroupStatementStep, GroupStatementFailsStep, CacheGroupStep,
           UpdateGroupStatsStep, ReopenGroupStoreStep DEF GroupNext

LEMMA GroupsAgreeFromInv ==
  ASSUME GroupInv
  PROVE  GroupsAgree
<1> SUFFICES ASSUME \A c \in GroupClients : groupCall[c] = NoCall
             PROVE  /\ groupStats = Stats(groupCache)
                    /\ CachedGroups = StoredGroups
                    /\ \A g \in StoredGroups \ overlapped :
                         /\ groupCache[g].name = groupRows[g].name
                         /\ \A d \in Members :
                              g \in FilterGroups(d) <=> d \in groupRows[g].devices
    BY DEF GroupsAgree
<1>1. \A c \in GroupClients : groupCall[c].step = "none"
      BY GroupCallFields
<1>2. groupStats = Stats(groupCache)
      BY <1>1 DEF GroupInv, StatsKept
<1>3. \A g \in Groups : groupRows[g] # NoGroup <=> groupCache[g] # NoGroup
      BY <1>1 DEF GroupInv, GroupWhole, On
<1>4. CachedGroups = StoredGroups
      BY <1>3 DEF CachedGroups, StoredGroups
<1>5. \A g \in StoredGroups \ overlapped : g \in CachedGroups /\ groupCache[g] = groupRows[g]
      BY <1>1, <1>3 DEF GroupInv, GroupsFollow, On, StoredGroups, CachedGroups
<1> QED BY <1>2, <1>4, <1>5 DEF FilterGroups

-----------------------------------------------------------------------------
(* Tags *)

NameOrNone == TagNames \cup {NoTag}

TagCall ==
  {Free}
  \cup [op : {"create", "update"}, tag : Tags, name : TagNames, at : {"statement", "cache", "stats"}]
  \cup [op : {"delete"}, tag : Tags, at : {"statement", "links", "cache", "stats"}]
  \cup [op : {"assign", "unassign"}, tag : Tags, device : Devices,
        at : {"statement", "byDevice", "byTag"}]
  \cup [op : {"clear"}, device : Devices, at : {"statement", "byDevice"}]
  \cup [op : {"clear"}, device : Devices, at : {"byTag"}, gone : SUBSET Pairs]

(* Calls that change a tag, and calls that change its assignments *)
ChangesTag(call) == call.at # "free" /\ call.op \in {"create", "update", "delete"}
ChangesLists(call) == call.at # "free" /\ call.op \in {"assign", "unassign", "clear"}

(* A call of this operation on tag t that has got to one of these steps *)
Doing(call, t, op, steps) == call.at \in steps /\ call.op = op /\ call.tag = t

TagsTyped ==
  /\ tagRows \in [Tags -> NameOrNone] /\ tagCache \in [Tags -> NameOrNone]
  /\ links \subseteq Pairs
  /\ byDevice \in [Pairs -> Nat] /\ byTag \in [Pairs -> Nat]
  /\ tagCall \in [TagClients -> TagCall]

CountedOrCounting == totalTags = TagCount \/ \E c \in TagClients : tagCall[c].at = "stats"

(* Two calls that work on a tag at once have contested it *)
Contests ==
  \A c, d \in TagClients : c # d =>
    Touched(tagCall[c]) \cap Touched(tagCall[d]) \subseteq contested

(* A tag that is stored and not cached is being created; one that is cached *)
(* and not stored is being deleted, or its deletion failed half-way         *)
TagWhole(t) ==
  /\ Stored(t) /\ ~Cached(t) => \E c \in TagClients : Doing(tagCall[c], t, "create", {"cache"})
  /\ ~Stored(t) /\ Cached(t) =>
       t \in torn \/ \E c \in TagClients : Doing(tagCall[c], t, "delete", {"links", "cache"})

(* Nobody else changes a tag before it is cached *)
CreatedAlone(t) ==
  \A c \in TagClients :
    /\ Doing(tagCall[c], t, "create", {"statement", "cache"}) =>
         /\ ~Cached(t)
         /\ \A d \in TagClients \ {c} : ~(ChangesTag(tagCall[d]) /\ tagCall[d].tag = t)
    /\ Doing(tagCall[c], t, "create", {"statement"}) => ~Stored(t)
    /\ Doing(tagCall[c], t, "create", {"cache"}) => tagRows[t] = tagCall[c].name

(* One call deletes the row of a tag, and no other one its cached copy *)
DeletedOnce(t) ==
  \A c \in TagClients :
    Doing(tagCall[c], t, "delete", {"links", "cache"}) =>
      /\ ~Stored(t) /\ Cached(t)
      /\ \A d \in TagClients \ {c} : ~Doing(tagCall[d], t, "delete", {"links", "cache"})

(* The name that is cached is the stored one, or is about to be replaced by *)
(* it                                                                       *)
NameFollows(t) == t \notin contested =>
  /\ Stored(t) /\ Cached(t) =>
       \/ tagCache[t] = tagRows[t]
       \/ \E c \in TagClients : Doing(tagCall[c], t, "update", {"cache"})
  /\ \A c \in TagClients : Doing(tagCall[c], t, "update", {"cache"}) =>
       tagRows[t] = tagCall[c].name

RowsFit(t) == TagWhole(t) /\ CreatedAlone(t) /\ DeletedOnce(t) /\ NameFollows(t)

(* A stored assignment is listed, or its call has yet to list it *)
Assigning(call, l, steps) == Doing(call, l[2], "assign", steps) /\ call.device = l[1]

LinkListed(l) == l[2] \notin contested =>
  /\ byDevice[l] > 0 \/ \E c \in TagClients : Assigning(tagCall[c], l, {"byDevice"})
  /\ byTag[l] > 0 \/ \E c \in TagClients : Assigning(tagCall[c], l, {"byDevice", "byTag"})

(* What a call takes off the lists is no longer stored *)
Unlists(call, l) ==
  /\ call.at \in {"byDevice", "byTag"} /\ call.op \in {"unassign", "clear"}
  /\ call.device = l[1] /\ (call.op = "unassign" => call.tag = l[2])

UnlistedIsGone ==
  /\ \A c \in TagClients, l \in links : Unlists(tagCall[c], l) => l[2] \in contested
  /\ \A c \in TagClients : tagCall[c].at = "byTag" /\ tagCall[c].op = "clear" =>
       \A p \in tagCall[c].gone : p[1] = tagCall[c].device

ListsFit == (\A l \in links : LinkListed(l)) /\ UnlistedIsGone

TagInv == TagsTyped /\ CountedOrCounting /\ Contests /\ (\A t \in Tags : RowsFit(t)) /\ ListsFit

(* The fields a call has, by the step it is at *)
LEMMA TagCallFields ==
  /\ Free \in TagCall /\ Free.at = "free"
  /\ \A call \in TagCall :
       /\ call.at = "free" <=> call = Free
       /\ call.at # "free" => \/ call.op \in {"create", "update", "delete"} /\ call.tag \in Tags
                              \/ call.op \in {"assign", "unassign"} /\ call.tag \in Tags
                                 /\ call.device \in Devices
                              \/ call.op = "clear" /\ call.device \in Devices
       /\ ChangesTag(call) /\ call.op # "delete" => call.name \in TagNames /\ call.name # NoTag
       /\ call.at = "links" => call.op = "delete"
       /\ call.at \in {"cache", "stats"} => ChangesTag(call)
       /\ call.at \in {"byDevice", "byTag"} => ChangesLists(call)
       /\ call.at = "byTag" /\ call.op = "clear" => call.gone \in SUBSET Pairs
       /\ call.at \in {"free", "statement", "links", "cache", "stats", "byDevice", "byTag"}
  BY TagAssumption DEF TagCall, Free, ChangesTag, ChangesLists

(* A call that goes on to another of its steps keeps its other fields *)
LEMMA TagCallGoesOn ==
  ASSUME NEW call \in TagCall, NEW s,
         \/ ChangesTag(call) /\ s \in {"cache", "stats"}
         \/ ChangesTag(call) /\ call.op = "delete" /\ s = "links"
         \/ ChangesLists(call) /\ call.op # "clear" /\ s \in {"byDevice", "byTag"}
         \/ ChangesLists(call) /\ call.at = "statement" /\ s = "byDevice"
  PROVE  LET next == [call EXCEPT !.at = s] IN
         /\ next \in TagCall /\ next.at = s /\ next.op = call.op
         /\ call.op # "clear" => next.tag = call.tag
         /\ call.op \in {"create", "update"} => next.name = call.name
         /\ call.op \in {"assign", "unassign", "clear"} => next.device = call.device
  BY DEF TagCall, Free, ChangesTag, ChangesLists

(* Client c goes on from the call it was in to this one *)
Becomes(c, now) == now \in TagCall /\ tagCall' = [tagCall EXCEPT ![c] = now]

LEMMA CallBecomes ==
  ASSUME TagInv, NEW c \in TagClients, NEW now, Becomes(c, now)
  PROVE  /\ tagCall' \in [TagClients -> TagCall] /\ tagCall'[c] = now
         /\ \A d \in TagClients \ {c} : tagCall'[d] = tagCall[d]
         /\ tagCall[c] \in TagCall
  BY DEF Becomes, TagInv, TagsTyped

(* A call that works on no more tags than it did contests no more *)
LEMMA ContestsStay ==
  ASSUME TagInv, NEW c \in TagClients, NEW now, Becomes(c, now),
         Touched(now) \subseteq Touched(tagCall[c]), contested' = contested
  PROVE  Contests'
  BY CallBecomes DEF TagInv, Contests

(* The rows and the cached tags do not depend on the calls that change only *)
(* assignments                                                              *)
LEMMA RowsStay ==
  ASSUME TagInv, NEW c \in TagClients, NEW now, Becomes(c, now),
         ~ChangesTag(tagCall[c]), ~ChangesTag(now),
         tagRows' = tagRows, tagCache' = tagCache, totalTags' = totalTags,
         torn' = torn, contested' = contested
  PROVE  CountedOrCounting' /\ \A t \in Tags : RowsFit(t)'
<1>1. /\ tagCall'[c] = now /\ \A d \in TagClients \ {c} : tagCall'[d] = tagCall[d]
      /\ tagCall[c] \in TagCall /\ now \in TagCall
      BY CallBecomes DEF Becomes
<1>2. \A t, steps : \A op \in {"create", "update", "delete"} :
        "free" \notin steps => ~Doing(tagCall[c], t, op, steps) /\ ~Doing(now, t, op, steps)
      BY DEF Doing, ChangesTag
<1>3. \A d \in TagClients : \A t, steps : \A op \in {"create", "update", "delete"} :
        "free" \notin steps => (Doing(tagCall'[d], t, op, steps) <=> Doing(tagCall[d], t, op, steps))
      BY <1>1, <1>2
<1>4. tagCall[c].at # "stats" /\ now.at # "stats"
      BY <1>1, TagCallFields
<1>5. CountedOrCounting'
      BY <1>1, <1>4 DEF TagInv, CountedOrCounting, TagCount, Cached
<1>6. ASSUME NEW t \in Tags PROVE RowsFit(t)'
  <2>1. RowsFit(t)
        BY DEF TagInv
  <2>2. TagWhole(t)'
        BY <1>3, <2>1 DEF RowsFit, TagWhole, Stored, Cached
  <2>3. CreatedAlone(t)'
    <3>1. ASSUME NEW d \in TagClients, Doing(tagCall'[d], t, "create", {"statement", "cache"})
          PROVE  /\ ~Cached(t)
                 /\ \A o \in TagClients \ {d} : ~(ChangesTag(tagCall'[o]) /\ tagCall'[o].tag = t)
                 /\ Doing(tagCall'[d], t, "create", {"statement"}) => ~Stored(t)
                 /\ Doing(tagCall'[d], t, "create", {"cache"}) => tagRows[t] = tagCall'[d].name
      <4>1. d # c /\ tagCall'[d] = tagCall[d]
            BY <1>1, <1>2, <3>1
      <4> QED BY <1>1, <2>1, <3>1, <4>1 DEF RowsFit, CreatedAlone
    <3> QED BY <3>1 DEF CreatedAlone, Doing, Stored, Cached
  <2>4. DeletedOnce(t)'
        BY <1>3, <2>1 DEF RowsFit, DeletedOnce, Stored, Cached
  <2>5. NameFollows(t)'
    <3>1. \A d \in TagClients : Doing(tagCall'[d], t, "update", {"cache"}) =>
                                  tagCall'[d] = tagCall[d]
          BY <1>1, <1>2
    <3> QED BY <1>3, <2>1, <3>1 DEF RowsFit, NameFollows, Stored, Cached
  <2> QED BY <2>2, <2>3, <2>4, <2>5 DEF RowsFit
<1> QED BY <1>5, <1>6

(* The lists do not depend on the calls that change only a tag *)
LEMMA ListsStay ==
  ASSUME TagInv, NEW c \in TagClients, NEW now, Becomes(c, now),
         ~ChangesLists(tagCall[c]), ~ChangesLists(now),
         links' \subseteq links, byDevice' = byDevice, byTag' = byTag, contested' = contested
  PROVE  ListsFit'
<1>1. /\ tagCall'[c] = now /\ \A d \in TagClients \ {c} : tagCall'[d] = tagCall[d]
      BY CallBecomes
<1>2. \A l, steps : "free" \notin steps =>
        ~Assigning(tagCall[c], l, steps) /\ ~Assigning(now, l, steps)
      BY DEF Assigning, Doing, ChangesLists
<1>3. \A d \in TagClients : \A l, steps : "free" \notin steps =>
        (Assigning(tagCall'[d], l, steps) <=> Assigning(tagCall[d], l, steps))
      BY <1>1, <1>2
<1>4. \A l : ~Unlists(now, l)
      BY DEF Unlists, ChangesLists
<1>5. ~(now.at = "byTag" /\ now.op = "clear")
      BY DEF ChangesLists
<1>6. (\A l \in links : LinkListed(l))'
      BY <1>3 DEF TagInv, ListsFit, LinkListed
<1>7. UnlistedIsGone'
  <2>1. \A d \in TagClients, l \in links' : Unlists(tagCall'[d], l) => l[2] \in contested
        BY <1>1, <1>4 DEF TagInv, ListsFit, UnlistedIsGone
  <2>2. \A d \in TagClients : tagCall'[d].at = "byTag" /\ tagCall'[d].op = "clear" =>
          \A p \in tagCall'[d].gone : p[1] = tagCall'[d].device
        BY <1>1, <1>5 DEF TagInv, ListsFit, UnlistedIsGone
  <2> QED BY <2>1, <2>2 DEF UnlistedIsGone
<1> QED BY <1>6, <1>7 DEF ListsFit

(* A step on one tag leaves what is known of the others *)
LEMMA OtherTags ==
  ASSUME TagInv, NEW c \in TagClients, NEW now, Becomes(c, now), NEW t \in Tags,
         ChangesTag(tagCall[c]), tagCall[c].tag = t,
         now = Free \/ (ChangesTag(now) /\ now.tag = t),
         torn \subseteq torn', contested' = contested,
         NEW u \in Tags, u # t, tagRows'[u] = tagRows[u], tagCache'[u] = tagCache[u]
  PROVE  RowsFit(u)'
<1>1. /\ tagCall'[c] = now /\ \A d \in TagClients \ {c} : tagCall'[d] = tagCall[d]
      BY CallBecomes
<1>2. \A op, steps : "free" \notin steps => ~Doing(tagCall[c], u, op, steps) /\ ~Doing(now, u, op, steps)
      BY TagCallFields DEF Doing
<1>3. \A d \in TagClients : \A op, steps : "free" \notin steps =>
        (Doing(tagCall'[d], u, op, steps) <=> Doing(tagCall[d], u, op, steps))
      BY <1>1, <1>2
<1>4. ~(ChangesTag(now) /\ now.tag = u)
      BY TagCallFields DEF ChangesTag
<1>5. RowsFit(u)
      BY DEF TagInv
<1>6. TagWhole(u)'
      BY <1>3, <1>5 DEF RowsFit, TagWhole, Stored, Cached
<1>7. CreatedAlone(u)'
  <2>1. ASSUME NEW d \in TagClients, Doing(tagCall'[d], u, "create", {"statement", "cache"})
        PROVE  /\ tagCache'[u] = NoTag
               /\ \A o \in TagClients \ {d} : ~(ChangesTag(tagCall'[o]) /\ tagCall'[o].tag = u)
               /\ Doing(tagCall'[d], u, "create", {"statement"}) => tagRows'[u] = NoTag
               /\ Doing(tagCall'[d], u, "create", {"cache"}) => tagRows'[u] = tagCall'[d].name
    <3>1. d # c /\ tagCall'[d] = tagCall[d]
          BY <1>1, <1>2, <2>1
    <3> QED BY <1>1, <1>4, <1>5, <2>1, <3>1 DEF RowsFit, CreatedAlone, Stored, Cached
  <2> QED BY <2>1 DEF CreatedAlone, Doing, Stored, Cached
<1>8. DeletedOnce(u)'
      BY <1>3, <1>5 DEF RowsFit, DeletedOnce, Stored, Cached
<1>9. NameFollows(u)'
  <2>1. \A d \in TagClients : Doing(tagCall'[d], u, "update", {"cache"}) =>
                                tagCall'[d] = tagCall[d]
        BY <1>1, <1>2
  <2> QED BY <1>3, <1>5, <2>1 DEF RowsFit, NameFollows, Stored, Cached
<1> QED BY <1>6, <1>7, <1>8, <1>9 DEF RowsFit

(* A call begins: a new tag that nobody works on, a tag that can be read,   *)
(* or any assignment                                                        *)
LEMMA CallTagStoreStep ==
  ASSUME TagInv, NEW c \in TagClients, CallTagStore(c)
  PROVE  TagInv'
<1>1. PICK call \in TagCalls : /\ tagCall' = [tagCall EXCEPT ![c] = call]
                               /\ contested' = contested \cup
                                    (Touched(call) \cap UNION {Touched(tagCall[d]) : d \in TagClients})
      BY DEF CallTagStore
<1>2. /\ tagCall[c] = Free /\ tagRows' = tagRows /\ tagCache' = tagCache /\ links' = links
      /\ totalTags' = totalTags /\ byDevice' = byDevice /\ byTag' = byTag /\ torn' = torn
      BY DEF CallTagStore, tables
<1>3. /\ call \in TagCall /\ call.at = "statement"
      /\ ChangesTag(call) => call.tag \in Tags
      /\ call.op = "create" => ~Stored(call.tag) /\ ~Cached(call.tag) /\ ~OnTag(call.tag)
      /\ ChangesTag(call) /\ call.op # "create" => Cached(call.tag)
      BY DEF TagCalls, TagCall, ChangesTag
<1>4. Becomes(c, call)
      BY <1>1, <1>3 DEF Becomes
<1>5. /\ tagCall' \in [TagClients -> TagCall] /\ tagCall'[c] = call
      /\ \A d \in TagClients \ {c} : tagCall'[d] = tagCall[d]
      BY <1>4, CallBecomes
<1>6. TagsTyped'
      BY <1>2, <1>5 DEF TagInv, TagsTyped
<1>7. CountedOrCounting'
      BY <1>2, <1>3, <1>5, TagCallFields DEF TagInv, CountedOrCounting, TagCount, Cached
<1>8. Contests'
  <2>1. ASSUME NEW d \in TagClients, d # c
        PROVE  Touched(call) \cap Touched(tagCall[d]) \subseteq contested'
        BY <1>1
  <2>2. ASSUME NEW d \in TagClients, NEW o \in TagClients, d # o
        PROVE  Touched(tagCall'[d]) \cap Touched(tagCall'[o]) \subseteq contested'
    <3>1. CASE d # c /\ o # c
          BY <1>1, <1>5, <2>2, <3>1 DEF TagInv, Contests
    <3> QED BY <1>5, <2>1, <2>2, <3>1
  <2> HIDE DEF Touched
  <2> QED BY <2>2 DEF Contests, Touched
<1>9. ASSUME NEW t \in Tags PROVE RowsFit(t)'
  <2>0. RowsFit(t)
        BY DEF TagInv
  <2>1. \A op, steps : "free" \notin steps /\ "statement" \notin steps =>
          \A d \in TagClients : Doing(tagCall'[d], t, op, steps) <=> Doing(tagCall[d], t, op, steps)
        BY <1>2, <1>3, <1>5, TagCallFields DEF Doing
  <2>2. TagWhole(t)'
        BY <1>2, <2>0, <2>1 DEF RowsFit, TagWhole, Stored, Cached
  <2>3. CreatedAlone(t)'
    <3>1. ASSUME NEW d \in TagClients, Doing(tagCall'[d], t, "create", {"statement", "cache"})
          PROVE  /\ ~Cached(t)
                 /\ \A o \in TagClients \ {d} : ~(ChangesTag(tagCall'[o]) /\ tagCall'[o].tag = t)
                 /\ Doing(tagCall'[d], t, "create", {"statement"}) => ~Stored(t)
                 /\ Doing(tagCall'[d], t, "create", {"cache"}) => tagRows[t] = tagCall'[d].name
      <4>1. CASE d = c
        <5>1. call.op = "create" /\ call.tag = t
              BY <1>5, <3>1, <4>1 DEF Doing
        <5>2. \A o \in TagClients : ~(ChangesTag(tagCall[o]) /\ tagCall[o].tag = t)
              BY <1>3, <5>1, TagCallFields DEF OnTag, ChangesTag
        <5> QED BY <1>3, <1>5, <4>1, <5>1, <5>2 DEF Doing
      <4>2. CASE d # c
        <5>1. Doing(tagCall[d], t, "create", {"statement", "cache"}) /\ tagCall'[d] = tagCall[d]
              BY <1>5, <3>1, <4>2
        <5>2. OnTag(t) /\ ~Cached(t)
              BY <2>0, <5>1, TagCallFields DEF OnTag, Doing, RowsFit, CreatedAlone
        <5>3. ~(ChangesTag(call) /\ call.tag = t)
              BY <1>3, <5>2
        <5> QED BY <1>5, <2>0, <5>1, <5>3 DEF RowsFit, CreatedAlone
      <4> QED BY <4>1, <4>2
    <3> QED BY <1>2, <3>1 DEF CreatedAlone, Doing, Stored, Cached
  <2>4. DeletedOnce(t)'
        BY <1>2, <2>0, <2>1 DEF RowsFit, DeletedOnce, Stored, Cached
  <2>5. NameFollows(t)'
    <3>1. \A d \in TagClients : Doing(tagCall'[d], t, "update", {"cache"}) => tagCall'[d] = tagCall[d]
          BY <1>3, <1>5 DEF Doing
    <3> QED BY <1>1, <1>2, <2>0, <2>1, <3>1 DEF RowsFit, NameFollows, Stored, Cached
  <2> QED BY <2>2, <2>3, <2>4, <2>5 DEF RowsFit
<1>10. ListsFit'
  <2>1. \A l, steps : "free" \notin steps /\ "statement" \notin steps =>
          \A d \in TagClients : Assigning(tagCall'[d], l, steps) <=> Assigning(tagCall[d], l, steps)
        BY <1>2, <1>3, <1>5, TagCallFields DEF Assigning, Doing
  <2>2. (\A l \in links : LinkListed(l))'
        BY <1>1, <1>2, <2>1 DEF TagInv, ListsFit, LinkListed
  <2>3. UnlistedIsGone'
        BY <1>1, <1>2, <1>3, <1>5 DEF TagInv, ListsFit, UnlistedIsGone, Unlists
  <2> QED BY <2>2, <2>3 DEF ListsFit
<1> QED BY <1>6, <1>7, <1>8, <1>9, <1>10 DEF TagInv

(* A call that ends where neither a table nor a cache waits for it *)
LEMMA TagCallEnds ==
  ASSUME TagInv, NEW c \in TagClients, Becomes(c, Free),
         tagCall[c].at # "free",
         tagCall[c].at = "links" => tagCall[c].tag \in torn',
         tagCall[c].at = "cache" => tagCall[c].op = "update" /\ ~Cached(tagCall[c].tag),
         tagCall[c].at \in {"byDevice", "byTag"} => tagCall[c].op # "assign",
         IF tagCall[c].at = "stats" THEN totalTags' = TagCount ELSE totalTags' = totalTags,
         tagRows' = tagRows, tagCache' = tagCache, links' = links,
         byDevice' = byDevice, byTag' = byTag, torn \subseteq torn', contested' = contested
  PROVE  CountedOrCounting' /\ (\A t \in Tags : RowsFit(t)') /\ ListsFit' /\ Contests'
<1>1. /\ tagCall'[c] = Free /\ \A d \in TagClients \ {c} : tagCall'[d] = tagCall[d]
      /\ tagCall[c] \in TagCall
      BY CallBecomes
<1>2. Free.at = "free" /\ \A t, op, steps : "free" \notin steps => ~Doing(Free, t, op, steps)
      BY TagCallFields DEF Doing
<1>3. CountedOrCounting'
      BY <1>1, <1>2 DEF TagInv, CountedOrCounting, TagCount, Cached
<1>4. Contests'
  <2>1. Touched(Free) = {}
        BY <1>2 DEF Touched
  <2> QED BY <2>1, ContestsStay
<1>5. ASSUME NEW t \in Tags PROVE RowsFit(t)'
  <2>0. RowsFit(t)
        BY DEF TagInv
  <2>1. TagWhole(t)'
    <3>1. CASE Stored(t) /\ ~Cached(t)
      <4>1. PICK d \in TagClients : Doing(tagCall[d], t, "create", {"cache"})
            BY <2>0, <3>1 DEF RowsFit, TagWhole
      <4>2. d # c
            BY <4>1 DEF Doing
      <4> QED BY <1>1, <3>1, <4>1, <4>2 DEF TagWhole, Stored, Cached
    <3>2. CASE ~Stored(t) /\ Cached(t) /\ t \notin torn'
      <4>1. PICK d \in TagClients : Doing(tagCall[d], t, "delete", {"links", "cache"})
            BY <2>0, <3>2 DEF RowsFit, TagWhole
      <4>2. d # c
            BY <3>2, <4>1 DEF Doing
      <4> QED BY <1>1, <3>2, <4>1, <4>2 DEF TagWhole, Stored, Cached
    <3> QED BY <3>1, <3>2 DEF TagWhole, Stored, Cached
  <2>2. CreatedAlone(t)'
        BY <1>1, <1>2, <2>0 DEF RowsFit, CreatedAlone, ChangesTag, Stored, Cached
  <2>3. DeletedOnce(t)'
        BY <1>1, <1>2, <2>0 DEF RowsFit, DeletedOnce, Stored, Cached
  <2>4. NameFollows(t)'
    <3>1. ASSUME t \notin contested
          PROVE  /\ Stored(t) /\ Cached(t) =>
                     \/ tagCache[t] = tagRows[t]
                     \/ \E d \in TagClients : Doing(tagCall'[d], t, "update", {"cache"})
                 /\ \A d \in TagClients : Doing(tagCall'[d], t, "update", {"cache"}) =>
                     tagRows[t] = tagCall'[d].name
      <4>1. ASSUME Stored(t), Cached(t), tagCache[t] # tagRows[t]
            PROVE  \E d \in TagClients : Doing(tagCall'[d], t, "update", {"cache"})
        <5>1. PICK d \in TagClients : Doing(tagCall[d], t, "update", {"cache"})
              BY <2>0, <3>1, <4>1 DEF RowsFit, NameFollows
        <5>2. d # c
              BY <4>1, <5>1 DEF Doing
        <5> QED BY <1>1, <5>1, <5>2
      <4>2. \A d \in TagClients : Doing(tagCall'[d], t, "update", {"cache"}) =>
              tagRows[t] = tagCall'[d].name
            BY <1>1, <1>2, <2>0, <3>1 DEF RowsFit, NameFollows
      <4> QED BY <4>1, <4>2
    <3> QED BY <3>1 DEF NameFollows, Stored, Cached
  <2> QED BY <2>1, <2>2, <2>3, <2>4 DEF RowsFit
<1>6. ListsFit'
  <2>1. (\A l \in links : LinkListed(l))'
    <3>1. ASSUME NEW l \in links, NEW steps \in {{"byDevice"}, {"byDevice", "byTag"}},
                 NEW d \in TagClients, Assigning(tagCall[d], l, steps)
          PROVE  Assigning(tagCall'[d], l, steps)
      <4>1. d # c
            BY <3>1 DEF Assigning, Doing
      <4> QED BY <1>1, <3>1, <4>1
    <3> QED BY <3>1 DEF TagInv, ListsFit, LinkListed
  <2>2. UnlistedIsGone'
        BY <1>1, <1>2 DEF TagInv, ListsFit, UnlistedIsGone, Unlists
  <2> QED BY <2>1, <2>2 DEF ListsFit
<1> QED BY <1>3, <1>4, <1>5, <1>6

(* What every step of a call on one tag keeps, once the row and the cached  *)
(* copy of that tag fit                                                     *)
LEMMA TagMoves ==
  ASSUME TagInv, NEW c \in TagClients, NEW now, Becomes(c, now), NEW t \in Tags,
         ChangesTag(tagCall[c]), tagCall[c].tag = t,
         now = Free \/ (ChangesTag(now) /\ now.tag = t),
         torn \subseteq torn', contested' = contested, links' \subseteq links,
         byDevice' = byDevice, byTag' = byTag,
         NEW row \in NameOrNone, tagRows' = [tagRows EXCEPT ![t] = row],
         NEW cached \in NameOrNone, tagCache' = [tagCache EXCEPT ![t] = cached],
         CountedOrCounting', RowsFit(t)'
  PROVE  TagInv'
<1>1. tagCall' \in [TagClients -> TagCall]
      BY CallBecomes
<1>2. TagsTyped'
      BY <1>1 DEF TagInv, TagsTyped
<1>3. Contests'
  <2>1. Touched(now) \subseteq Touched(tagCall[c])
        BY TagCallFields DEF Touched, ChangesTag
  <2> QED BY <2>1, ContestsStay
<1>4. ASSUME NEW u \in Tags PROVE RowsFit(u)'
  <2>1. CASE u # t
    <3>1. tagRows'[u] = tagRows[u] /\ tagCache'[u] = tagCache[u]
          BY <2>1 DEF TagInv, TagsTyped
    <3> QED BY <2>1, <3>1, OtherTags
  <2> QED BY <2>1
<1>5. ListsFit'
  <2>1. ~ChangesLists(tagCall[c]) /\ ~ChangesLists(now)
        BY TagCallFields DEF ChangesTag, ChangesLists
  <2> QED BY <2>1, ListsStay
<1> QED BY <1>2, <1>3, <1>4, <1>5 DEF TagInv

(* The statement of create: the row of a tag nobody else works on *)
LEMMA InsertTagStep ==
  ASSUME TagInv, NEW c \in TagClients, NEW t \in Tags, NEW n \in TagNames,
         Doing(tagCall[c], t, "create", {"statement"}), tagCall[c].name = n,
         tagRows' = [tagRows EXCEPT ![t] = n], Go(c, "cache"), links' = links,
         UNCHANGED <<tagCache, totalTags, byDevice, byTag, torn, contested, tagBudget>>
  PROVE  TagInv'
<1> DEFINE now == [tagCall[c] EXCEPT !.at = "cache"]
<1>1. ChangesTag(tagCall[c]) /\ tagCall[c].tag = t /\ tagCall[c] \in TagCall
      BY DEF Doing, ChangesTag, TagInv, TagsTyped
<1>2. now \in TagCall /\ now.at = "cache" /\ now.op = "create" /\ now.tag = t /\ now.name = n
      BY <1>1, TagCallGoesOn DEF Doing
<1>3. Becomes(c, now)
      BY <1>2 DEF Becomes, Go
<1> HIDE DEF now
<1>4. /\ tagCall'[c] = now /\ \A d \in TagClients \ {c} : tagCall'[d] = tagCall[d]
      BY <1>3, CallBecomes
<1>5. /\ tagRows'[t] = n /\ n # NoTag /\ tagCache'[t] = NoTag /\ tagCache[t] \in NameOrNone
      /\ tagCache' = [tagCache EXCEPT ![t] = tagCache[t]]
      BY TagAssumption DEF TagInv, TagsTyped, RowsFit, CreatedAlone, Cached, Doing
<1>6. \A d \in TagClients \ {c} : ~(ChangesTag(tagCall'[d]) /\ tagCall'[d].tag = t)
      BY <1>4 DEF TagInv, RowsFit, CreatedAlone, Doing
<1>7. CountedOrCounting'
  <2>1. tagCall[c].at # "stats"
        BY DEF Doing
  <2> QED BY <1>2, <1>4, <2>1 DEF TagInv, CountedOrCounting, TagCount, Cached
<1>8. \A d \in TagClients : \A steps : \A op \in {"create", "update", "delete"} :
        "free" \notin steps /\ Doing(tagCall'[d], t, op, steps) => d = c /\ op = "create" /\ "cache" \in steps
      BY <1>2, <1>4, <1>6 DEF Doing, ChangesTag
<1>9. RowsFit(t)'
  <2>1. TagWhole(t)'
    <3>1. Doing(tagCall'[c], t, "create", {"cache"})
          BY <1>2, <1>4 DEF Doing
    <3> QED BY <1>5, <3>1 DEF TagWhole, Stored, Cached
  <2>2. CreatedAlone(t)'
    <3>1. \A d \in TagClients : ~Doing(tagCall'[d], t, "create", {"statement"})
          BY <1>8
    <3>2. \A d \in TagClients : Doing(tagCall'[d], t, "create", {"statement", "cache"}) => d = c
          BY <1>8
    <3> QED BY <1>2, <1>4, <1>5, <1>6, <3>1, <3>2 DEF CreatedAlone, Stored, Cached, Doing
  <2>3. DeletedOnce(t)'
        BY <1>8 DEF DeletedOnce
  <2>4. NameFollows(t)'
        BY <1>5, <1>8 DEF NameFollows, Stored, Cached
  <2> QED BY <2>1, <2>2, <2>3, <2>4 DEF RowsFit
<1> QED BY <1>1, <1>2, <1>3, <1>5, <1>7, <1>9, TagMoves DEF ChangesTag, NameOrNone

(* The statement of update: no call is creating the tag that it renames *)
LEMMA UpdateTagStep ==
  ASSUME TagInv, NEW c \in TagClients, NEW t \in Tags, NEW n \in TagNames,
         Doing(tagCall[c], t, "update", {"statement"}), tagCall[c].name = n, Stored(t),
         tagRows' = [tagRows EXCEPT ![t] = n], Go(c, "cache"), links' = links,
         UNCHANGED <<tagCache, totalTags, byDevice, byTag, torn, contested, tagBudget>>
  PROVE  TagInv'
<1> DEFINE now == [tagCall[c] EXCEPT !.at = "cache"]
<1>1. ChangesTag(tagCall[c]) /\ tagCall[c].tag = t /\ tagCall[c] \in TagCall
      BY DEF Doing, ChangesTag, TagInv, TagsTyped
<1>2. now \in TagCall /\ now.at = "cache" /\ now.op = "update" /\ now.tag = t /\ now.name = n
      BY <1>1, TagCallGoesOn DEF Doing
<1>3. Becomes(c, now)
      BY <1>2 DEF Becomes, Go
<1> HIDE DEF now
<1>4. /\ tagCall'[c] = now /\ \A d \in TagClients \ {c} : tagCall'[d] = tagCall[d]
      BY <1>3, CallBecomes
<1>5. /\ tagRows'[t] = n /\ n # NoTag /\ tagCache'[t] = tagCache[t] /\ tagCache[t] \in NameOrNone
      /\ tagCache' = [tagCache EXCEPT ![t] = tagCache[t]]
      BY TagAssumption DEF TagInv, TagsTyped
<1>6. RowsFit(t)
      BY DEF TagInv
<1>7. CountedOrCounting'
  <2>1. tagCall[c].at # "stats"
        BY DEF Doing
  <2> QED BY <1>2, <1>4, <2>1 DEF TagInv, CountedOrCounting, TagCount, Cached
<1>8. \A d \in TagClients : ~Doing(tagCall[d], t, "create", {"statement", "cache"})
      BY <1>1, <1>6 DEF RowsFit, CreatedAlone, Doing
<1>9. \A d \in TagClients : ~Doing(tagCall'[d], t, "create", {"statement", "cache"})
      BY <1>2, <1>4, <1>8 DEF Doing
<1>10. Cached(t)
      BY <1>6, <1>8 DEF RowsFit, TagWhole, Doing
<1>11. \A d \in TagClients : ~Doing(tagCall[d], t, "delete", {"links", "cache"})
      BY <1>6 DEF RowsFit, DeletedOnce
<1>12. RowsFit(t)'
  <2>1. TagWhole(t)'
        BY <1>5, <1>10 DEF TagWhole, Stored, Cached
  <2>2. CreatedAlone(t)'
        BY <1>9 DEF CreatedAlone, Doing
  <2>3. DeletedOnce(t)'
        BY <1>2, <1>4, <1>11 DEF DeletedOnce, Doing
  <2>4. NameFollows(t)'
    <3>1. Doing(tagCall'[c], t, "update", {"cache"}) /\ tagCall'[c].name = n
          BY <1>2, <1>4 DEF Doing
    <3>2. ASSUME NEW d \in TagClients \ {c}, Doing(tagCall'[d], t, "update", {"cache"})
          PROVE  t \in contested
      <4>1. t \in Touched(tagCall[d]) /\ t \in Touched(tagCall[c])
            BY <1>4, <3>2 DEF Touched, Doing
      <4> QED BY <4>1 DEF TagInv, Contests
    <3> QED BY <1>5, <3>1, <3>2 DEF NameFollows
  <2> QED BY <2>1, <2>2, <2>3, <2>4 DEF RowsFit
<1> QED BY <1>1, <1>2, <1>3, <1>5, <1>7, <1>12, TagMoves DEF ChangesTag, NameOrNone

(* The first statement of delete takes the row, the second the assignments *)
LEMMA DeleteTagRowStep ==
  ASSUME TagInv, NEW c \in TagClients, NEW t \in Tags,
         Doing(tagCall[c], t, "delete", {"statement"}), Stored(t),
         tagRows' = [tagRows EXCEPT ![t] = NoTag], Go(c, "links"), links' = links,
         UNCHANGED <<tagCache, totalTags, byDevice, byTag, torn, contested, tagBudget>>
  PROVE  TagInv'
<1> DEFINE now == [tagCall[c] EXCEPT !.at = "links"]
<1>1. ChangesTag(tagCall[c]) /\ tagCall[c].tag = t /\ tagCall[c] \in TagCall
      BY DEF Doing, ChangesTag, TagInv, TagsTyped
<1>2. now \in TagCall /\ now.at = "links" /\ now.op = "delete" /\ now.tag = t
      BY <1>1, TagCallGoesOn DEF Doing
<1>3. Becomes(c, now)
      BY <1>2 DEF Becomes, Go
<1> HIDE DEF now
<1>4. /\ tagCall'[c] = now /\ \A d \in TagClients \ {c} : tagCall'[d] = tagCall[d]
      BY <1>3, CallBecomes
<1>5. /\ tagRows'[t] = NoTag /\ tagCache'[t] = tagCache[t] /\ tagCache[t] \in NameOrNone
      /\ tagCache' = [tagCache EXCEPT ![t] = tagCache[t]]
      BY DEF TagInv, TagsTyped
<1>6. RowsFit(t)
      BY DEF TagInv
<1>7. CountedOrCounting'
  <2>1. tagCall[c].at # "stats"
        BY DEF Doing
  <2> QED BY <1>2, <1>4, <2>1 DEF TagInv, CountedOrCounting, TagCount, Cached
<1>8. \A d \in TagClients : ~Doing(tagCall[d], t, "create", {"statement", "cache"})
      BY <1>1, <1>6 DEF RowsFit, CreatedAlone, Doing
<1>9. \A d \in TagClients : ~Doing(tagCall'[d], t, "create", {"statement", "cache"})
      BY <1>2, <1>4, <1>8 DEF Doing
<1>10. Cached(t)
      BY <1>6, <1>8 DEF RowsFit, TagWhole, Doing
<1>11. \A d \in TagClients : ~Doing(tagCall[d], t, "delete", {"links", "cache"})
      BY <1>6 DEF RowsFit, DeletedOnce
<1>12. RowsFit(t)'
  <2>1. TagWhole(t)'
    <3>1. Doing(tagCall'[c], t, "delete", {"links", "cache"})
          BY <1>2, <1>4 DEF Doing
    <3> QED BY <1>5, <3>1 DEF TagWhole, Stored
  <2>2. CreatedAlone(t)'
        BY <1>9 DEF CreatedAlone, Doing
  <2>3. DeletedOnce(t)'
        BY <1>4, <1>5, <1>10, <1>11 DEF DeletedOnce, Stored, Cached
  <2>4. NameFollows(t)'
    <3>1. ASSUME NEW d \in TagClients, Doing(tagCall'[d], t, "update", {"cache"})
          PROVE  t \in contested
      <4>1. d # c
            BY <1>2, <1>4, <3>1 DEF Doing
      <4>2. t \in Touched(tagCall[d]) /\ t \in Touched(tagCall[c])
            BY <1>4, <3>1, <4>1 DEF Touched, Doing
      <4> QED BY <4>1, <4>2 DEF TagInv, Contests
    <3> QED BY <1>5, <3>1 DEF NameFollows, Stored
  <2> QED BY <2>1, <2>2, <2>3, <2>4 DEF RowsFit
<1> QED BY <1>1, <1>2, <1>3, <1>5, <1>7, <1>12, TagMoves DEF ChangesTag, NameOrNone

LEMMA DeleteTagLinksStep ==
  ASSUME TagInv, NEW c \in TagClients, NEW t \in Tags,
         Doing(tagCall[c], t, "delete", {"links"}),
         links' = {p \in links : p[2] # t}, Go(c, "cache"), tagRows' = tagRows,
         UNCHANGED <<tagCache, totalTags, byDevice, byTag, torn, contested, tagBudget>>
  PROVE  TagInv'
<1> DEFINE now == [tagCall[c] EXCEPT !.at = "cache"]
<1>1. ChangesTag(tagCall[c]) /\ tagCall[c].tag = t /\ tagCall[c] \in TagCall
      BY DEF Doing, ChangesTag, TagInv, TagsTyped
<1>2. now \in TagCall /\ now.at = "cache" /\ now.op = "delete" /\ now.tag = t
      BY <1>1, TagCallGoesOn DEF Doing
<1>3. Becomes(c, now)
      BY <1>2 DEF Becomes, Go
<1> HIDE DEF now
<1>4. /\ tagCall'[c] = now /\ \A d \in TagClients \ {c} : tagCall'[d] = tagCall[d]
      BY <1>3, CallBecomes
<1>5. /\ tagRows[t] \in NameOrNone /\ tagRows' = [tagRows EXCEPT ![t] = tagRows[t]]
      /\ tagCache[t] \in NameOrNone /\ tagCache' = [tagCache EXCEPT ![t] = tagCache[t]]
      BY DEF TagInv, TagsTyped
<1>6. RowsFit(t)
      BY DEF TagInv
<1>7. CountedOrCounting'
  <2>1. tagCall[c].at # "stats"
        BY DEF Doing
  <2> QED BY <1>2, <1>4, <2>1 DEF TagInv, CountedOrCounting, TagCount, Cached
<1>8. \A d \in TagClients : \A op, steps :
        (op # "delete" \/ steps = {"links", "cache"}) =>
          (Doing(tagCall'[d], t, op, steps) <=> Doing(tagCall[d], t, op, steps))
      BY <1>1, <1>2, <1>4 DEF Doing
<1>9. RowsFit(t)'
  <2>1. TagWhole(t)'
        BY <1>6, <1>8 DEF RowsFit, TagWhole, Stored, Cached
  <2>2. CreatedAlone(t)'
    <3>1. \A d \in TagClients : ~Doing(tagCall[d], t, "create", {"statement", "cache"})
          BY <1>1, <1>6 DEF RowsFit, CreatedAlone, Doing
    <3> QED BY <1>8, <3>1 DEF CreatedAlone, Doing
  <2>3. DeletedOnce(t)'
        BY <1>6, <1>8 DEF RowsFit, DeletedOnce, Stored, Cached
  <2>4. NameFollows(t)'
    <3>1. \A d \in TagClients : Doing(tagCall'[d], t, "update", {"cache"}) => tagCall'[d] = tagCall[d]
          BY <1>2, <1>4 DEF Doing
    <3> QED BY <1>6, <1>8, <3>1 DEF RowsFit, NameFollows, Stored, Cached
  <2> QED BY <2>1, <2>2, <2>3, <2>4 DEF RowsFit
<1> QED BY <1>1, <1>2, <1>3, <1>5, <1>7, <1>9, TagMoves DEF ChangesTag

(* The cache takes over what the statement of the call wrote *)
LEMMA CacheTagStep ==
  ASSUME TagInv, NEW c \in TagClients, CacheTag(c)
  PROVE  TagInv'
<1> DEFINE call == tagCall[c]
<1>1. /\ call.at = "cache" /\ call \in TagCall /\ ChangesTag(call) /\ call.tag \in Tags
      /\ call.op # "delete" => call.name \in TagNames /\ call.name # NoTag
      BY TagCallFields DEF CacheTag, TagInv, TagsTyped, ChangesTag
<1>2. /\ tagRows' = tagRows /\ links' = links /\ totalTags' = totalTags
      /\ byDevice' = byDevice /\ byTag' = byTag /\ torn' = torn /\ contested' = contested
      BY DEF CacheTag, tables
<1>3. PICK t \in Tags : t = call.tag
      BY <1>1
<1>4. RowsFit(t) /\ tagRows[t] \in NameOrNone /\ tagCache[t] \in NameOrNone
      /\ tagRows' = [tagRows EXCEPT ![t] = tagRows[t]]
      BY <1>2 DEF TagInv, TagsTyped
<1>5. ASSUME call.op = "create" \/ Cached(t)
      PROVE  TagInv'
  <2> DEFINE now == [call EXCEPT !.at = "stats"]
  <2> DEFINE cached == IF call.op = "delete" THEN NoTag ELSE call.name
  <2>1. now \in TagCall /\ now.at = "stats" /\ now.op = call.op /\ now.tag = t
        BY <1>1, <1>3, TagCallGoesOn DEF ChangesTag
  <2>2. Becomes(c, now)
        BY <1>3, <1>5, <2>1 DEF Becomes, CacheTag, Go
  <2>3. cached \in NameOrNone /\ tagCache' = [tagCache EXCEPT ![t] = cached]
        BY <1>1, <1>3, <1>5 DEF NameOrNone, CacheTag, ChangesTag, CacheInsert, CacheUpdate, CacheRemove
  <2> HIDE DEF now, cached
  <2>4. /\ tagCall'[c] = now /\ \A d \in TagClients \ {c} : tagCall'[d] = tagCall[d]
        BY <2>2, CallBecomes
  <2>5. tagCache'[t] = cached
        BY <2>3 DEF TagInv, TagsTyped
  <2>6. CountedOrCounting'
        BY <2>1, <2>4 DEF CountedOrCounting
  <2>7. \A op, steps : "free" \notin steps /\ "stats" \notin steps => ~Doing(now, t, op, steps)
        BY <2>1 DEF Doing
  <2>8. \A d \in TagClients \ {c} : ~Doing(tagCall[d], t, "create", {"statement", "cache"})
        BY <1>1, <1>3, <1>4 DEF RowsFit, CreatedAlone
  <2>9. \A d \in TagClients : ~Doing(tagCall'[d], t, "create", {"statement", "cache"})
        BY <2>4, <2>7, <2>8
  <2>10. /\ call.op = "create" => /\ tagRows[t] = call.name
                                  /\ \A d \in TagClients \ {c} :
                                       ~(ChangesTag(tagCall[d]) /\ tagCall[d].tag = t)
         /\ call.op = "delete" => /\ ~Stored(t)
                                  /\ \A d \in TagClients \ {c} :
                                       ~Doing(tagCall[d], t, "delete", {"links", "cache"})
         BY <1>1, <1>3, <1>4 DEF RowsFit, CreatedAlone, DeletedOnce, Doing
  <2>11. CASE call.op = "delete"
    <3>1. cached = NoTag
          BY <2>11 DEF cached
    <3>2. \A d \in TagClients : ~Doing(tagCall'[d], t, "delete", {"links", "cache"})
          BY <2>4, <2>7, <2>10, <2>11
    <3>3. TagWhole(t)'
          BY <1>2, <2>5, <2>10, <2>11, <3>1 DEF TagWhole, Stored, Cached
    <3>4. CreatedAlone(t)'
          BY <2>9 DEF CreatedAlone, Doing
    <3>5. DeletedOnce(t)'
          BY <3>2 DEF DeletedOnce
    <3>6. NameFollows(t)'
      <4>1. ASSUME NEW d \in TagClients, Doing(tagCall'[d], t, "update", {"cache"})
            PROVE  t \in contested
        <5>1. d # c
              BY <2>4, <2>7, <4>1
        <5>2. t \in Touched(tagCall[d]) /\ t \in Touched(tagCall[c])
              BY <1>1, <1>3, <2>4, <4>1, <5>1 DEF Touched, Doing, ChangesTag
        <5> QED BY <5>1, <5>2 DEF TagInv, Contests
      <4> QED BY <1>2, <2>5, <3>1, <4>1 DEF NameFollows, Cached
    <3>7. RowsFit(t)'
          BY <3>3, <3>4, <3>5, <3>6 DEF RowsFit
    <3> QED BY <1>1, <1>2, <1>3, <1>4, <2>1, <2>2, <2>3, <2>6, <3>7, TagMoves DEF ChangesTag
  <2>12. CASE call.op # "delete"
    <3>1. cached = call.name /\ cached # NoTag
          BY <1>1, <2>12 DEF cached
    <3>2. \A d \in TagClients \ {c} : Doing(tagCall'[d], t, "delete", {"links", "cache"}) =>
                                        call.op # "create"
          BY <2>4, <2>10, TagCallFields DEF Doing, ChangesTag
    <3>3. TagWhole(t)'
      <4>1. ASSUME ~Stored(t)
            PROVE  t \in torn \/ \E d \in TagClients : Doing(tagCall'[d], t, "delete", {"links", "cache"})
        <5>1. call.op # "create"
              BY <1>1, <2>10, <4>1, <3>1 DEF Stored
        <5>2. t \in torn \/ \E d \in TagClients : Doing(tagCall[d], t, "delete", {"links", "cache"})
              BY <1>4, <1>5, <4>1, <5>1 DEF RowsFit, TagWhole
        <5>3. ~Doing(tagCall[c], t, "delete", {"links", "cache"})
              BY <2>12 DEF Doing
        <5> QED BY <2>4, <5>2, <5>3
      <4> QED BY <1>2, <2>5, <3>1, <4>1 DEF TagWhole, Stored, Cached
    <3>4. CreatedAlone(t)'
          BY <2>9 DEF CreatedAlone, Doing
    <3>5. DeletedOnce(t)'
      <4>1. ASSUME NEW d \in TagClients, Doing(tagCall'[d], t, "delete", {"links", "cache"})
            PROVE  /\ ~Stored(t)
                   /\ \A o \in TagClients \ {d} : ~Doing(tagCall'[o], t, "delete", {"links", "cache"})
        <5>1. d # c /\ Doing(tagCall[d], t, "delete", {"links", "cache"})
              BY <2>4, <2>7, <4>1
        <5> QED BY <1>4, <2>4, <2>7, <5>1 DEF RowsFit, DeletedOnce
      <4> QED BY <1>2, <2>5, <3>1, <4>1 DEF DeletedOnce, Stored, Cached
    <3>6. NameFollows(t)'
      <4>1. ASSUME NEW d \in TagClients, Doing(tagCall'[d], t, "update", {"cache"})
            PROVE  t \in contested
        <5>1. d # c
              BY <2>4, <2>7, <4>1
        <5>2. t \in Touched(tagCall[d]) /\ t \in Touched(tagCall[c])
              BY <1>1, <1>3, <2>4, <4>1, <5>1 DEF Touched, Doing, ChangesTag
        <5> QED BY <5>1, <5>2 DEF TagInv, Contests
      <4>2. t \notin contested => tagRows[t] = call.name
        <5>1. call.op = "update" => Doing(tagCall[c], t, "update", {"cache"})
              BY <1>1, <1>3 DEF Doing
        <5> QED BY <1>1, <1>4, <2>10, <2>12, <5>1 DEF RowsFit, NameFollows, ChangesTag
      <4> QED BY <1>2, <2>5, <3>1, <4>1, <4>2 DEF NameFollows
    <3>7. RowsFit(t)'
          BY <3>3, <3>4, <3>5, <3>6 DEF RowsFit
    <3> QED BY <1>1, <1>2, <1>3, <1>4, <2>1, <2>2, <2>3, <2>6, <3>7, TagMoves DEF ChangesTag
  <2> QED BY <2>11, <2>12
<1>6. ASSUME call.op # "create", ~Cached(t)
      PROVE  TagInv'
  <2>1. call.op = "update"
    <3>1. call.op # "delete"
          BY <1>1, <1>3, <1>4, <1>6 DEF RowsFit, DeletedOnce, Doing
    <3> QED BY <1>1, <1>6, <3>1 DEF ChangesTag
  <2>2. tagCache' = tagCache /\ tagCall' = [tagCall EXCEPT ![c] = Free]
        BY <1>3, <1>6, <2>1 DEF CacheTag, Answer, CacheUpdate
  <2>3. Becomes(c, Free)
        BY <2>2, TagCallFields DEF Becomes
  <2>4. CountedOrCounting' /\ (\A u \in Tags : RowsFit(u)') /\ ListsFit' /\ Contests'
        BY <1>1, <1>2, <1>3, <1>6, <2>1, <2>2, <2>3, TagCallEnds
  <2>5. TagsTyped'
        BY <1>2, <2>2, <2>3, CallBecomes DEF TagInv, TagsTyped
  <2> QED BY <2>4, <2>5 DEF TagInv
<1> QED BY <1>5, <1>6

(* What every step of a call on assignments keeps, once the lists fit *)
LEMMA ListMoves ==
  ASSUME TagInv, NEW c \in TagClients, NEW now, Becomes(c, now),
         ChangesLists(tagCall[c]), Touched(now) \subseteq Touched(tagCall[c]),
         now = Free \/ ChangesLists(now),
         UNCHANGED <<tagRows, tagCache, totalTags, torn, contested>>,
         links' \subseteq Pairs, byDevice' \in [Pairs -> Nat], byTag' \in [Pairs -> Nat],
         ListsFit'
  PROVE  TagInv'
<1>1. TagsTyped'
      BY CallBecomes DEF TagInv, TagsTyped
<1>2. Contests'
      BY ContestsStay
<1>3. ~ChangesTag(tagCall[c]) /\ ~ChangesTag(now)
      BY TagCallFields DEF ChangesLists, ChangesTag
<1>4. CountedOrCounting' /\ \A t \in Tags : RowsFit(t)'
      BY <1>3, RowsStay
<1> QED BY <1>1, <1>2, <1>4 DEF TagInv

(* The statement of assign: whoever takes this assignment off the lists at  *)
(* the same time contests its tag                                           *)
LEMMA AssignTagStep ==
  ASSUME TagInv, NEW c \in TagClients, AssignTag(c),
         UNCHANGED <<tagCache, totalTags, byDevice, byTag, torn, contested, tagBudget>>
  PROVE  TagInv'
<1> DEFINE call == tagCall[c]
<1> DEFINE now == [call EXCEPT !.at = "byDevice"]
<1> DEFINE l == <<call.device, call.tag>>
<1>1. /\ call.at = "statement" /\ call.op = "assign" /\ call \in TagCall /\ ChangesLists(call)
      /\ call.tag \in Tags /\ call.device \in Devices
      /\ links' = links \cup {l} /\ tagRows' = tagRows
      BY TagCallFields DEF AssignTag, At, TagInv, TagsTyped, ChangesLists
<1>2. now \in TagCall /\ now.at = "byDevice" /\ now.op = "assign" /\ now.tag = call.tag
      /\ now.device = call.device
      BY <1>1, TagCallGoesOn
<1>3. Becomes(c, now)
      BY <1>1, <1>2 DEF Becomes, AssignTag, Go
<1> HIDE DEF now
<1>4. /\ tagCall'[c] = now /\ \A d \in TagClients \ {c} : tagCall'[d] = tagCall[d]
      BY <1>3, CallBecomes
<1>5. Touched(now) \subseteq Touched(call)
      BY <1>1, <1>2 DEF Touched
<1>6. l \in Pairs /\ l[1] = call.device /\ l[2] = call.tag
      BY <1>1 DEF Pairs
<1>7. (\A k \in links : LinkListed(k))'
  <2>1. ASSUME NEW k \in links, NEW steps \in {{"byDevice"}, {"byDevice", "byTag"}},
               NEW d \in TagClients, Assigning(tagCall[d], k, steps)
        PROVE  Assigning(tagCall'[d], k, steps)
    <3>1. d # c
          BY <1>1, <2>1 DEF Assigning, Doing
    <3> QED BY <1>4, <2>1, <3>1
  <2>2. ASSUME NEW steps \in {{"byDevice"}, {"byDevice", "byTag"}}
        PROVE  Assigning(tagCall'[c], l, steps)
        BY <1>2, <1>4, <1>6, <2>2 DEF Assigning, Doing
  <2> HIDE DEF l
  <2> QED BY <1>1, <2>1, <2>2 DEF TagInv, ListsFit, LinkListed
<1>8. UnlistedIsGone'
  <2>1. ~Unlists(now, l) /\ \A k : ~Unlists(now, k)
        BY <1>2 DEF Unlists
  <2>2. ASSUME NEW d \in TagClients \ {c}, Unlists(tagCall[d], l) PROVE l[2] \in contested
    <3>1. l[2] \in Touched(tagCall[d]) /\ l[2] \in Touched(call)
          BY <1>1, <1>6, <2>2 DEF Unlists, Touched
    <3> QED BY <3>1 DEF TagInv, Contests
  <2>3. \A d \in TagClients : tagCall'[d].at = "byTag" /\ tagCall'[d].op = "clear" =>
          \A p \in tagCall'[d].gone : p[1] = tagCall'[d].device
        BY <1>2, <1>4 DEF TagInv, ListsFit, UnlistedIsGone
  <2> HIDE DEF l
  <2>4. \A d \in TagClients, k \in links' : Unlists(tagCall'[d], k) => k[2] \in contested
        BY <1>1, <1>4, <2>1, <2>2 DEF TagInv, ListsFit, UnlistedIsGone
  <2> QED BY <2>3, <2>4 DEF UnlistedIsGone
<1>9. ListsFit' /\ ChangesLists(now) /\ links' \subseteq Pairs
      BY <1>1, <1>2, <1>6, <1>7, <1>8 DEF ListsFit, ChangesLists, TagInv, TagsTyped
<1> QED BY <1>1, <1>3, <1>5, <1>9, ListMoves DEF TagInv, TagsTyped

(* The statements of unassign and clear: what the call will take off the    *)
(* lists is not stored from here on                                         *)
LEMMA UnassignStep ==
  ASSUME TagInv, NEW c \in TagClients, At(c, "unassign", "statement") \/ At(c, "clear", "statement"),
         Go(c, "byDevice"), tagRows' = tagRows, links' \subseteq links,
         \A l \in links' : l[1] # tagCall[c].device \/
                           (tagCall[c].op = "unassign" /\ l[2] # tagCall[c].tag),
         UNCHANGED <<tagCache, totalTags, byDevice, byTag, torn, contested, tagBudget>>
  PROVE  TagInv'
<1> DEFINE call == tagCall[c]
<1> DEFINE now == [call EXCEPT !.at = "byDevice"]
<1>1. /\ call.at = "statement" /\ call.op \in {"unassign", "clear"} /\ call \in TagCall
      /\ ChangesLists(call)
      BY DEF At, TagInv, TagsTyped, ChangesLists
<1>2. now \in TagCall /\ now.at = "byDevice" /\ now.op = call.op /\ now.device = call.device
      /\ (call.op = "unassign" => now.tag = call.tag)
      BY <1>1, TagCallGoesOn
<1>3. Becomes(c, now)
      BY <1>1, <1>2 DEF Becomes, Go
<1> HIDE DEF now
<1>4. /\ tagCall'[c] = now /\ \A d \in TagClients \ {c} : tagCall'[d] = tagCall[d]
      BY <1>3, CallBecomes
<1>5. Touched(now) \subseteq Touched(call)
      BY <1>1, <1>2 DEF Touched
<1>6. (\A k \in links : LinkListed(k))'
  <2>1. ASSUME NEW k \in links, NEW steps \in {{"byDevice"}, {"byDevice", "byTag"}},
               NEW d \in TagClients, Assigning(tagCall[d], k, steps)
        PROVE  Assigning(tagCall'[d], k, steps)
    <3>1. d # c
          BY <1>1, <2>1 DEF Assigning, Doing
    <3> QED BY <1>4, <2>1, <3>1
  <2> QED BY <2>1 DEF TagInv, ListsFit, LinkListed
<1>7. UnlistedIsGone'
  <2>1. \A l \in links' : ~Unlists(now, l)
        BY <1>2 DEF Unlists
  <2>2. \A d \in TagClients, l \in links' : Unlists(tagCall'[d], l) => l[2] \in contested
        BY <1>4, <2>1 DEF TagInv, ListsFit, UnlistedIsGone
  <2>3. \A d \in TagClients : tagCall'[d].at = "byTag" /\ tagCall'[d].op = "clear" =>
          \A p \in tagCall'[d].gone : p[1] = tagCall'[d].device
        BY <1>2, <1>4 DEF TagInv, ListsFit, UnlistedIsGone
  <2> QED BY <2>2, <2>3 DEF UnlistedIsGone
<1>8. ListsFit' /\ ChangesLists(now)
      BY <1>1, <1>2, <1>6, <1>7 DEF ListsFit, ChangesLists
<1> QED BY <1>1, <1>3, <1>5, <1>8, ListMoves DEF TagInv, TagsTyped

(* A step on the lists keeps what is listed of the tags nobody contests     *)
LEMMA ListsChange ==
  ASSUME TagInv, NEW c \in TagClients, NEW now, Becomes(c, now),
         ChangesLists(tagCall[c]), Touched(now) \subseteq Touched(tagCall[c]),
         now = Free \/ ChangesLists(now),
         UNCHANGED <<tables, tagCache, totalTags, torn, contested>>,
         byDevice' \in [Pairs -> Nat], byTag' \in [Pairs -> Nat],
         \A l \in links : l[2] \notin contested =>
           /\ byDevice[l] > 0 \/ Assigning(tagCall[c], l, {"byDevice"}) => byDevice'[l] > 0
           /\ byTag[l] > 0 => byTag'[l] > 0
           /\ Assigning(tagCall[c], l, {"byDevice", "byTag"}) =>
                byTag'[l] > 0 \/ Assigning(now, l, {"byDevice", "byTag"}),
         \A l \in links : Unlists(now, l) => Unlists(tagCall[c], l),
         now.at = "byTag" /\ now.op = "clear" => \A p \in now.gone : p[1] = now.device
  PROVE  TagInv'
<1>1. /\ tagCall'[c] = now /\ \A d \in TagClients \ {c} : tagCall'[d] = tagCall[d]
      BY CallBecomes
<1>2. tagRows' = tagRows /\ links' = links /\ contested' = contested
      BY DEF tables
<1>3. ASSUME NEW l \in links PROVE LinkListed(l)'
  <2>1. ASSUME l[2] \notin contested
        PROVE  /\ byDevice'[l] > 0 \/ \E d \in TagClients : Assigning(tagCall'[d], l, {"byDevice"})
               /\ byTag'[l] > 0 \/ \E d \in TagClients : Assigning(tagCall'[d], l, {"byDevice", "byTag"})
    <3>1. /\ byDevice[l] > 0 \/ \E d \in TagClients : Assigning(tagCall[d], l, {"byDevice"})
          /\ byTag[l] > 0 \/ \E d \in TagClients : Assigning(tagCall[d], l, {"byDevice", "byTag"})
          BY <2>1 DEF TagInv, ListsFit, LinkListed
    <3>2. /\ byDevice[l] > 0 \/ Assigning(tagCall[c], l, {"byDevice"}) => byDevice'[l] > 0
          /\ byTag[l] > 0 => byTag'[l] > 0
          /\ Assigning(tagCall[c], l, {"byDevice", "byTag"}) =>
               byTag'[l] > 0 \/ Assigning(now, l, {"byDevice", "byTag"})
          BY <2>1
    <3> QED BY <1>1, <3>1, <3>2
  <2> QED BY <1>2, <2>1 DEF LinkListed
<1>4. UnlistedIsGone'
  <2>1. \A d \in TagClients, l \in links : Unlists(tagCall'[d], l) => l[2] \in contested
        BY <1>1 DEF TagInv, ListsFit, UnlistedIsGone
  <2>2. \A d \in TagClients : tagCall'[d].at = "byTag" /\ tagCall'[d].op = "clear" =>
          \A p \in tagCall'[d].gone : p[1] = tagCall'[d].device
        BY <1>1 DEF TagInv, ListsFit, UnlistedIsGone
  <2> QED BY <1>2, <2>1, <2>2 DEF UnlistedIsGone
<1>5. ListsFit'
      BY <1>2, <1>3, <1>4 DEF ListsFit
<1> QED BY <1>2, <1>5, ListMoves DEF TagInv, TagsTyped

LEMMA CacheByDeviceStep ==
  ASSUME TagInv, NEW c \in TagClients, CacheByDevice(c)
  PROVE  TagInv'
<1> DEFINE call == tagCall[c]
<1> DEFINE p == <<call.device, call.tag>>
<1>1. /\ call.at = "byDevice" /\ call \in TagCall /\ ChangesLists(call)
      /\ call.device \in Devices /\ (call.op # "clear" => call.tag \in Tags)
      /\ call.op \in {"assign", "unassign", "clear"}
      BY TagCallFields DEF CacheByDevice, PushByDevice, PopByDevice, TakeDevice, At, TagInv,
                           TagsTyped, ChangesLists
<1>2. /\ UNCHANGED <<tables, tagCache, totalTags, torn, contested>> /\ byTag' = byTag
      /\ byTag \in [Pairs -> Nat] /\ byDevice \in [Pairs -> Nat] /\ links \subseteq Pairs
      BY DEF CacheByDevice, TagInv, TagsTyped
<1>3. ASSUME NEW l \in Pairs PROVE l = <<l[1], l[2]>>
      BY DEF Pairs
<1>4. CASE PushByDevice(c)
  <2> DEFINE now == [call EXCEPT !.at = "byTag"]
  <2>1. /\ call.op = "assign" /\ byDevice' = [byDevice EXCEPT ![p] = byDevice[p] + 1]
        /\ tagCall' = [tagCall EXCEPT ![c] = now]
        BY <1>4 DEF PushByDevice, At, Go
  <2>2. now \in TagCall /\ now.at = "byTag" /\ now.op = "assign" /\ now.tag = call.tag
        /\ now.device = call.device
        BY <1>1, <2>1, TagCallGoesOn
  <2>3. Becomes(c, now)
        BY <2>1, <2>2 DEF Becomes
  <2> HIDE DEF now
  <2>4. p \in Pairs
        BY <1>1, <2>1 DEF Pairs
  <2>5. /\ byDevice' \in [Pairs -> Nat] /\ byDevice'[p] > 0
        /\ \A l \in Pairs : byDevice[l] > 0 => byDevice'[l] > 0
        BY <1>2, <2>1, <2>4
  <2>6. ASSUME NEW l \in links, Assigning(call, l, {"byDevice"}) PROVE l = p
        BY <1>2, <1>3, <2>6 DEF Assigning, Doing
  <2>7. \A l \in links : /\ Assigning(call, l, {"byDevice", "byTag"}) =>
                               Assigning(now, l, {"byDevice", "byTag"})
                         /\ ~Unlists(now, l)
        BY <2>2 DEF Assigning, Doing, Unlists
  <2>8. Touched(now) \subseteq Touched(call) /\ ChangesLists(now)
        BY <1>1, <2>1, <2>2 DEF Touched, ChangesLists
  <2>9. ~(now.at = "byTag" /\ now.op = "clear")
        BY <2>2
  <2> HIDE DEF p
  <2> QED BY <1>1, <1>2, <2>3, <2>5, <2>6, <2>7, <2>8, <2>9, ListsChange
<1>5. CASE PopByDevice(c)
  <2>1. call.op = "unassign" /\ p \in Pairs
        BY <1>1, <1>5 DEF PopByDevice, At, Pairs
  <2>2. ASSUME NEW l \in links, l[2] \notin contested PROVE l # p
    <3>1. Unlists(call, p)
          BY <1>1, <2>1 DEF Unlists
    <3> QED BY <2>2, <3>1 DEF TagInv, ListsFit, UnlistedIsGone
  <2>3. \A l \in links : ~Assigning(call, l, {"byDevice", "byTag"}) /\ ~Assigning(call, l, {"byDevice"})
        BY <2>1 DEF Assigning, Doing
  <2>4. CASE byDevice[p] > 0
    <3> DEFINE now == [call EXCEPT !.at = "byTag"]
    <3>1. /\ byDevice' = [byDevice EXCEPT ![p] = byDevice[p] - 1]
          /\ tagCall' = [tagCall EXCEPT ![c] = now]
          BY <1>5, <2>4 DEF PopByDevice, Go
    <3>2. now \in TagCall /\ now.at = "byTag" /\ now.op = "unassign" /\ now.tag = call.tag
          /\ now.device = call.device
          BY <1>1, <2>1, TagCallGoesOn
    <3>3. Becomes(c, now)
          BY <3>1, <3>2 DEF Becomes
    <3> HIDE DEF now
    <3>4. /\ byDevice' \in [Pairs -> Nat]
          /\ \A l \in Pairs \ {p} : byDevice'[l] = byDevice[l]
          BY <1>2, <2>1, <2>4, <3>1
    <3>5. \A l \in links : Unlists(now, l) => Unlists(call, l)
          BY <1>1, <2>1, <3>2 DEF Unlists
    <3>6. Touched(now) \subseteq Touched(call) /\ ChangesLists(now)
          BY <1>1, <2>1, <3>2 DEF Touched, ChangesLists
    <3>7. ~(now.at = "byTag" /\ now.op = "clear")
          BY <3>2
    <3> HIDE DEF p
    <3> QED BY <1>1, <1>2, <2>2, <2>3, <3>3, <3>4, <3>5, <3>6, <3>7, ListsChange
  <2>5. CASE ~(byDevice[p] > 0)
    <3>1. byDevice' = byDevice /\ tagCall' = [tagCall EXCEPT ![c] = Free]
          BY <1>5, <2>5 DEF PopByDevice, Answer
    <3>2. Becomes(c, Free) /\ Free.at = "free" /\ Touched(Free) = {}
          BY <3>1, TagCallFields DEF Becomes, Touched
    <3>3. \A l \in links : ~Unlists(Free, l)
          BY <3>2 DEF Unlists
    <3> QED BY <1>1, <1>2, <2>3, <3>1, <3>2, <3>3, ListsChange
  <2> QED BY <2>4, <2>5
<1>6. CASE TakeDevice(c)
  <2> DEFINE gone == {q \in Pairs : q[1] = call.device /\ byDevice[q] > 0}
  <2> DEFINE now == [op |-> "clear", device |-> call.device, at |-> "byTag", gone |-> gone]
  <2>1. /\ call.op = "clear" /\ byDevice' = Without(byDevice, gone)
        /\ tagCall' = [tagCall EXCEPT ![c] = now]
        BY <1>6 DEF TakeDevice, At
  <2>2. gone \in SUBSET Pairs /\ \A q \in gone : q[1] = call.device
        OBVIOUS
  <2>3. /\ now \in TagCall /\ now.at = "byTag" /\ now.op = "clear" /\ now.device = call.device
        /\ now.gone = gone
    <3> HIDE DEF gone
    <3> QED BY <1>1, <2>2 DEF TagCall
  <2>4. Becomes(c, now)
        BY <2>1, <2>3 DEF Becomes
  <2> HIDE DEF now
  <2>5. \A l \in Pairs : byDevice'[l] = IF l \in gone THEN 0 ELSE byDevice[l]
        BY <2>1 DEF Without
  <2>6. byDevice' \in [Pairs -> Nat]
        BY <1>2, <2>1 DEF Without
  <2>7. ASSUME NEW l \in links, l[2] \notin contested PROVE l \notin gone
    <3>1. l[1] = call.device => Unlists(call, l)
          BY <1>1, <2>1 DEF Unlists
    <3> QED BY <2>2, <2>7, <3>1 DEF TagInv, ListsFit, UnlistedIsGone
  <2>8. \A l \in links : /\ ~Assigning(call, l, {"byDevice", "byTag"})
                         /\ ~Assigning(call, l, {"byDevice"})
                         /\ (Unlists(now, l) => Unlists(call, l))
        BY <1>1, <2>1, <2>3 DEF Assigning, Doing, Unlists
  <2>9. Touched(now) \subseteq Touched(call) /\ ChangesLists(now)
        BY <1>1, <2>1, <2>3 DEF Touched, ChangesLists
  <2> HIDE DEF gone
  <2> QED BY <1>1, <1>2, <2>2, <2>3, <2>4, <2>5, <2>6, <2>7, <2>8, <2>9, ListsChange
<1> QED BY <1>4, <1>5, <1>6 DEF CacheByDevice

LEMMA CacheByTagStep ==
  ASSUME TagInv, NEW c \in TagClients, CacheByTag(c)
  PROVE  TagInv'
<1> DEFINE call == tagCall[c]
<1> DEFINE p == <<call.device, call.tag>>
<1>1. /\ call.at = "byTag" /\ call \in TagCall /\ ChangesLists(call)
      /\ call.device \in Devices /\ (call.op # "clear" => call.tag \in Tags)
      /\ call.op \in {"assign", "unassign", "clear"}
      BY TagCallFields DEF CacheByTag, TagInv, TagsTyped, ChangesLists
<1>2. /\ UNCHANGED <<tables, tagCache, totalTags, torn, contested>> /\ byDevice' = byDevice
      /\ byTag \in [Pairs -> Nat] /\ byDevice \in [Pairs -> Nat] /\ links \subseteq Pairs
      /\ tagCall' = [tagCall EXCEPT ![c] = Free]
      BY DEF CacheByTag, TagInv, TagsTyped, Answer
<1>3. ASSUME NEW l \in Pairs PROVE l = <<l[1], l[2]>>
      BY DEF Pairs
<1>4. Becomes(c, Free) /\ Free.at = "free" /\ Touched(Free) = {}
      BY <1>2, TagCallFields DEF Becomes, Touched
<1>5. \A l \in links : ~Unlists(Free, l)
      BY <1>4 DEF Unlists
<1>6. \A l \in links : ~Assigning(call, l, {"byDevice"})
      BY <1>1 DEF Assigning, Doing
<1>7. CASE call.op = "assign"
  <2>1. byTag' = [byTag EXCEPT ![p] = byTag[p] + 1] /\ p \in Pairs
        BY <1>1, <1>7 DEF CacheByTag, Pairs
  <2>2. /\ byTag' \in [Pairs -> Nat] /\ byTag'[p] > 0
        /\ \A l \in Pairs : byTag[l] > 0 => byTag'[l] > 0
        BY <1>2, <2>1
  <2>3. ASSUME NEW l \in links, Assigning(call, l, {"byDevice", "byTag"}) PROVE l = p
        BY <1>2, <1>3, <2>3 DEF Assigning, Doing
  <2> HIDE DEF p
  <2> QED BY <1>1, <1>2, <1>4, <1>5, <1>6, <2>2, <2>3, ListsChange
<1>8. CASE call.op # "assign"
  <2> DEFINE taken == IF call.op = "unassign" THEN {p} ELSE call.gone
  <2>1. byTag' = Without(byTag, taken)
        BY <1>1, <1>8 DEF CacheByTag, Retained
  <2>2. ASSUME NEW l \in links, l[2] \notin contested PROVE l \notin taken
    <3>1. ~Unlists(call, l)
          BY <2>2 DEF TagInv, ListsFit, UnlistedIsGone
    <3>2. l \in taken => l[1] = call.device /\ (call.op = "unassign" => l[2] = call.tag)
      <4>1. CASE call.op = "unassign"
            BY <4>1
      <4>2. CASE call.op = "clear"
            BY <1>1, <4>2 DEF TagInv, ListsFit, UnlistedIsGone
      <4> QED BY <1>1, <1>8, <4>1, <4>2
    <3> QED BY <1>1, <1>8, <3>1, <3>2 DEF Unlists
  <2> HIDE DEF taken
  <2>3. \A l \in Pairs : byTag'[l] = IF l \in taken THEN 0 ELSE byTag[l]
        BY <2>1 DEF Without
  <2>4. byTag' \in [Pairs -> Nat]
        BY <1>2, <2>1 DEF Without
  <2>5. \A l \in links : ~Assigning(call, l, {"byDevice", "byTag"})
        BY <1>8 DEF Assigning, Doing
  <2> QED BY <1>1, <1>2, <1>4, <1>5, <1>6, <2>2, <2>3, <2>4, <2>5, ListsChange
<1> QED BY <1>7, <1>8

LEMMA TagStatementStep ==
  ASSUME TagInv, NEW c \in TagClients, TagStatement(c)
  PROVE  TagInv'
<1> DEFINE call == tagCall[c]
<1>1. /\ call \in TagCall /\ tagRows \in [Tags -> NameOrNone] /\ links \subseteq Pairs
      /\ byDevice \in [Pairs -> Nat] /\ byTag \in [Pairs -> Nat]
      BY DEF TagInv, TagsTyped
<1>2. UNCHANGED <<tagCache, totalTags, byDevice, byTag, torn, contested, tagBudget>>
      BY DEF TagStatement
<1>3. ASSUME Answer(c), tagRows' = tagRows, links' = links, call.at = "statement"
      PROVE  TagInv'
  <2>1. Becomes(c, Free)
        BY <1>3, TagCallFields DEF Becomes, Answer
  <2>2. CountedOrCounting' /\ (\A t \in Tags : RowsFit(t)') /\ ListsFit' /\ Contests'
        BY <1>2, <1>3, <2>1, TagCallEnds
  <2>3. TagsTyped'
        BY <1>2, <1>3, <2>1, CallBecomes DEF TagInv, TagsTyped
  <2> QED BY <2>2, <2>3 DEF TagInv
<1>4. CASE InsertTag(c)
  <2>1. /\ Doing(call, call.tag, "create", {"statement"}) /\ call.tag \in Tags
        /\ call.name \in TagNames /\ call.at = "statement" /\ links' = links
        BY <1>1, <1>4, TagCallFields DEF InsertTag, At, Doing, ChangesTag
  <2>2. \/ tagRows' = [tagRows EXCEPT ![call.tag] = call.name] /\ Go(c, "cache")
        \/ tagRows' = tagRows /\ Answer(c)
        BY <1>4 DEF InsertTag
  <2> QED BY <1>2, <1>3, <2>1, <2>2, InsertTagStep
<1>5. CASE UpdateTag(c)
  <2>1. /\ Doing(call, call.tag, "update", {"statement"}) /\ call.tag \in Tags
        /\ call.name \in TagNames /\ call.at = "statement" /\ links' = links
        BY <1>1, <1>5, TagCallFields DEF UpdateTag, At, Doing, ChangesTag
  <2>2. \/ /\ Stored(call.tag) /\ tagRows' = [tagRows EXCEPT ![call.tag] = call.name]
           /\ Go(c, "cache")
        \/ tagRows' = tagRows /\ Answer(c)
        BY <1>5 DEF UpdateTag
  <2> QED BY <1>2, <1>3, <2>1, <2>2, UpdateTagStep
<1>6. CASE DeleteTag(c)
  <2>1. CASE At(c, "delete", "statement")
    <3>1. /\ Doing(call, call.tag, "delete", {"statement"}) /\ call.tag \in Tags
          /\ call.at = "statement"
          BY <1>1, <2>1, TagCallFields DEF At, Doing
    <3>2. /\ tagRows' = [tagRows EXCEPT ![call.tag] = NoTag] /\ links' = links
          /\ IF Stored(call.tag) THEN Go(c, "links") ELSE Answer(c)
          BY <1>6, <2>1 DEF DeleteTag, At
    <3>3. ~Stored(call.tag) => tagRows' = tagRows
          BY <1>1, <3>1, <3>2 DEF Stored
    <3> QED BY <1>2, <1>3, <3>1, <3>2, <3>3, DeleteTagRowStep
  <2>2. CASE At(c, "delete", "links")
    <3>1. Doing(call, call.tag, "delete", {"links"}) /\ call.tag \in Tags
          BY <1>1, <2>2, TagCallFields DEF At, Doing
    <3>2. links' = {p \in links : p[2] # call.tag} /\ Go(c, "cache") /\ tagRows' = tagRows
          BY <1>6, <2>2 DEF DeleteTag, At
    <3> QED BY <1>2, <3>1, <3>2, DeleteTagLinksStep
  <2> QED BY <1>6, <2>1, <2>2 DEF DeleteTag
<1>7. CASE AssignTag(c)
      BY <1>2, <1>7, AssignTagStep
<1>8. CASE UnassignTag(c)
  <2> DEFINE p == <<call.device, call.tag>>
  <2>1. At(c, "unassign", "statement") /\ links' = links \ {p} /\ tagRows' = tagRows
        BY <1>8 DEF UnassignTag
  <2>2. \A l \in links' : l[1] # call.device \/ (call.op = "unassign" /\ l[2] # call.tag)
        BY <1>1, <2>1 DEF Pairs, At
  <2>3. CASE p \in links
        BY <1>2, <1>8, <2>1, <2>2, <2>3, UnassignStep DEF UnassignTag
  <2>4. CASE p \notin links
        BY <1>3, <1>8, <2>1, <2>4 DEF UnassignTag, At
  <2> QED BY <2>3, <2>4
<1>9. CASE ClearDevice(c)
      BY <1>2, <1>9, UnassignStep DEF ClearDevice
<1> QED BY <1>4, <1>5, <1>6, <1>7, <1>8, <1>9 DEF TagStatement

LEMMA StatementFailsStep ==
  ASSUME TagInv, NEW c \in TagClients, StatementFails(c)
  PROVE  TagInv'
<1>1. /\ tagCall[c].at \in {"statement", "links"} /\ UNCHANGED <<tables, contested>>
      /\ torn' = IF tagCall[c].at = "links" THEN torn \cup {tagCall[c].tag} ELSE torn
      /\ UNCHANGED <<tagCache, totalTags, byDevice, byTag>>
      BY DEF StatementFails
<1>2. Becomes(c, Free)
      BY TagCallFields DEF Becomes, StatementFails, Answer
<1>3. CountedOrCounting' /\ (\A t \in Tags : RowsFit(t)') /\ ListsFit' /\ Contests'
      BY <1>1, <1>2, TagCallEnds DEF tables
<1>4. TagsTyped'
      BY <1>1, <1>2, CallBecomes DEF TagInv, TagsTyped, tables
<1> QED BY <1>3, <1>4 DEF TagInv

LEMMA UpdateTagStatsStep ==
  ASSUME TagInv, NEW c \in TagClients, UpdateTagStats(c)
  PROVE  TagInv'
<1>1. /\ tagCall[c].at = "stats" /\ UNCHANGED <<tables, torn, contested>>
      /\ totalTags' = TagCount /\ UNCHANGED <<tagCache, byDevice, byTag>>
      BY DEF UpdateTagStats
<1>2. Becomes(c, Free)
      BY TagCallFields DEF Becomes, UpdateTagStats, Answer
<1>3. CountedOrCounting' /\ (\A t \in Tags : RowsFit(t)') /\ ListsFit' /\ Contests'
      BY <1>1, <1>2, TagCallEnds DEF tables
<1>4. TagsTyped'
      BY <1>1, <1>2, CallBecomes DEF TagInv, TagsTyped, tables
<1> QED BY <1>3, <1>4 DEF TagInv

(* Without calls, caches filled from the tables satisfy the invariant *)
Filled ==
  /\ tagRows \in [Tags -> NameOrNone] /\ links \subseteq Pairs
  /\ tagCache = tagRows /\ totalTags = Cardinality({t \in Tags : Stored(t)})
  /\ byDevice = Listed(links) /\ byTag = Listed(links)
  /\ tagCall = [c \in TagClients |-> Free]

LEMMA FilledCachesFit == Filled => TagInv
<1> SUFFICES ASSUME Filled PROVE TagInv
    OBVIOUS
<1> USE DEF Filled
<1>1. Free \in TagCall /\ Free.at = "free" /\ Touched(Free) = {}
      BY TagCallFields DEF Touched
<1>2. \A c \in TagClients : \A t, op, steps : "free" \notin steps => ~Doing(tagCall[c], t, op, steps)
      BY <1>1 DEF Doing
<1>3. TagsTyped
  <2>1. \A rows \in SUBSET Pairs : Listed(rows) \in [Pairs -> Nat]
        BY DEF Listed
  <2> QED BY <1>1, <2>1 DEF TagsTyped
<1>4. CountedOrCounting
  <2>1. {t \in Tags : Stored(t)} = {t \in Tags : Cached(t)}
        BY DEF Stored, Cached
  <2> QED BY <2>1 DEF CountedOrCounting, TagCount
<1>5. Contests
      BY <1>1 DEF Contests
<1>6. \A t \in Tags : RowsFit(t)
      BY <1>2 DEF RowsFit, TagWhole, CreatedAlone, DeletedOnce, NameFollows, Stored, Cached
<1>7. \A l \in links : LinkListed(l)
      BY DEF LinkListed, Listed
<1>8. UnlistedIsGone
      BY <1>1 DEF UnlistedIsGone, Unlists
<1> QED BY <1>3, <1>4, <1>5, <1>6, <1>7, <1>8 DEF TagInv, ListsFit

LEMMA TagInvInductive ==
  /\ TagInit => TagInv
  /\ TagInv /\ [TagNext]_tagVars => TagInv'
<1>1. ASSUME TagInit PROVE TagInv
  <2>1. tagRows = [t \in Tags |-> NoTag] /\ tagCache = tagRows /\ totalTags = 0
        /\ byDevice = Listed(links) /\ byTag = Listed(links)
        /\ tagCall = [c \in TagClients |-> Free]
        BY <1>1 DEF TagInit
  <2>2. tagRows \in [Tags -> NameOrNone]
        BY <2>1 DEF NameOrNone
  <2>3. links \subseteq Pairs
    <3>1. PICK station \in {NoTag} \cup {{p} : p \in Pairs},
               device \in {NoTag} \cup {{p} : p \in Pairs} : links = Opened(station, device)
          BY <1>1 DEF TagInit
    <3> QED BY <3>1 DEF Opened
  <2>4. totalTags = Cardinality({t \in Tags : Stored(t)})
    <3>1. {t \in Tags : Stored(t)} = {}
          BY <2>1 DEF Stored
    <3> QED BY <2>1, <3>1, FS_EmptySet
  <2> QED BY <2>1, <2>2, <2>3, <2>4, FilledCachesFit DEF Filled
<1>2. TagInv /\ ReopenTagStore => Filled'
  <2> SUFFICES ASSUME TagInv, ReopenTagStore PROVE Filled'
      OBVIOUS
  <2>1. /\ tagRows' = tagRows /\ links' = links /\ tagCache' = tagRows
        /\ totalTags' = Cardinality({t \in Tags : Stored(t)})
        /\ byDevice' = Listed(links) /\ byTag' = Listed(links)
        /\ tagCall' = [c \in TagClients |-> Free]
        BY DEF ReopenTagStore, tables
  <2>2. tagRows' \in [Tags -> NameOrNone] /\ links' \subseteq Pairs
        BY <2>1 DEF TagInv, TagsTyped
  <2>3. totalTags' = Cardinality({t \in Tags : Stored(t)}')
        BY <2>1 DEF Stored
  <2>4. byDevice' = Listed(links') /\ byTag' = Listed(links')
        BY <2>1
  <2> QED BY <2>1, <2>2, <2>3, <2>4 DEF Filled
<1>3. Filled' => TagInv'
      BY FilledCachesFit, PTL
<1>4. ASSUME TagInv, UNCHANGED tagVars PROVE TagInv'
      BY <1>4 DEF tagVars, TagInv, TagsTyped, CountedOrCounting, TagCount, Contests, RowsFit,
                  TagWhole, CreatedAlone, DeletedOnce, NameFollows, Stored, Cached,
                  ListsFit, LinkListed, UnlistedIsGone
<1> QED BY <1>1, <1>2, <1>3, <1>4, CallTagStoreStep, TagStatementStep, StatementFailsStep, CacheTagStep,
           UpdateTagStatsStep, CacheByDeviceStep, CacheByTagStep DEF TagNext

LEMMA TagsAgreeFromInv ==
  ASSUME TagInv
  PROVE  TagsAgree
<1> SUFFICES ASSUME TagStoreAtRest
             PROVE  /\ totalTags = TagCount
                    /\ \A t \in Tags \ torn :
                         /\ Stored(t) <=> t \in FilterTags(TagNames)
                         /\ t \notin contested => tagCache[t] = tagRows[t]
                    /\ \A l \in links : l[2] \notin contested =>
                         l[2] \in TagsForDevice(l[1]) /\ l[1] \in DevicesForTag(l[2])
    BY DEF TagsAgree
<1>1. \A c \in TagClients : tagCall[c] = Free /\ tagCall[c].at = "free"
      BY TagCallFields DEF TagStoreAtRest
<1>2. totalTags = TagCount
      BY <1>1 DEF TagInv, CountedOrCounting
<1>3. \A t \in Tags : tagRows[t] \in NameOrNone /\ tagCache[t] \in NameOrNone
      BY DEF TagInv, TagsTyped
<1>4. ASSUME NEW t \in Tags \ torn
      PROVE  /\ Stored(t) <=> Cached(t)
             /\ t \notin contested /\ Stored(t) => tagCache[t] = tagRows[t]
      BY <1>1 DEF TagInv, RowsFit, TagWhole, NameFollows, Doing
<1>5. \A t \in Tags : Cached(t) <=> t \in FilterTags(TagNames)
      BY <1>3, TagAssumption DEF Cached, FilterTags, NameOrNone
<1>6. ASSUME NEW l \in links, l[2] \notin contested
      PROVE  l[2] \in TagsForDevice(l[1]) /\ l[1] \in DevicesForTag(l[2])
  <2>1. l \in Pairs
        BY DEF TagInv, TagsTyped
  <2>2. l[1] \in Devices /\ l[2] \in Tags /\ l = <<l[1], l[2]>>
        BY <2>1 DEF Pairs
  <2>3. byDevice[l] > 0 /\ byTag[l] > 0
        BY <1>1, <1>6 DEF TagInv, ListsFit, LinkListed, Assigning, Doing
  <2> QED BY <2>2, <2>3 DEF TagsForDevice, DevicesForTag
<1> QED BY <1>2, <1>4, <1>5, <1>6 DEF Stored, Cached

-----------------------------------------------------------------------------
(* Batch tasks *)

Task == [status : TaskStatus, progress : Nat, total : Nat, items : Seq(ItemStatus)]

BatchCallTyped(call) ==
  /\ call = [op |-> call.op, id |-> call.id, task |-> call.task, left |-> call.left,
             step |-> call.step]
  /\ call.op \in {"create", "update", "delete"} /\ call.id \in Tasks
  /\ call.step \in {"task", "clear", "items", "cache", "stats"}
  /\ call.step = "items" => call.op # "delete"
  /\ call.step = "clear" => call.op = "update"

(* The tables and the cache of a task that nobody works on: they hold what  *)
(* the last call was handed                                                 *)
Settled(row, items, cached, handed) ==
  \/ row = NoTask /\ items = << >> /\ cached = NoTask /\ handed = NoTask
  \/ handed \in Task /\ row = Row(handed) /\ items = handed.items /\ cached = handed

(* The tables and the cache while only this call works on the task, by the  *)
(* step it is at                                                            *)
Halfway(call, row, items, cached, handed) ==
  LET task == call.task IN
  /\ call.op # "delete" => task \in Task
  /\ call.step \in {"task", "clear"} => call.left = task.items
  /\ call.step = "task" =>
       IF call.op = "create"
       THEN row = NoTask /\ items = << >> /\ cached = NoTask /\ handed = NoTask
       ELSE Settled(row, items, cached, handed)
  /\ call.step \in {"clear", "items", "cache"} =>
       IF call.op = "delete" THEN row = NoTask /\ items = << >> /\ handed = NoTask
       ELSE row = Row(task) /\ handed = task /\ (call.op = "update" => cached # NoTask)
  /\ call.step = "items" => /\ items \in Seq(ItemStatus) /\ call.left \in Seq(ItemStatus)
                            /\ items \o call.left = task.items
  /\ call.step = "cache" /\ call.op # "delete" => items = task.items
  /\ call.step = "stats" => Settled(row, items, cached, handed)

WorksOn(call, t) == call # Quiet /\ call.id = t

BatchTyped ==
  /\ taskRows = [t \in Tasks |-> taskRows[t]] /\ itemRows = [t \in Tasks |-> itemRows[t]]
  /\ taskCache = [t \in Tasks |-> taskCache[t]] /\ wrote = [t \in Tasks |-> wrote[t]]
  /\ batchCall = [c \in BatchClients |-> batchCall[c]]
  /\ \A c \in BatchClients : batchCall[c] = Quiet \/ BatchCallTyped(batchCall[c])

BatchStatsKept ==
  \/ taskStats = BatchStats(taskCache)
  \/ \E c \in BatchClients : batchCall[c].step = "stats"

(* A task that is not damaged has one writer at most, and its tables and    *)
(* its cached copy are as far as that writer has got                        *)
TaskKept(t) == t \notin damaged =>
  \/ /\ \A c \in BatchClients : ~WorksOn(batchCall[c], t)
     /\ Settled(taskRows[t], itemRows[t], taskCache[t], wrote[t])
  \/ \E c \in BatchClients :
       /\ WorksOn(batchCall[c], t) /\ \A d \in BatchClients \ {c} : ~WorksOn(batchCall[d], t)
       /\ Halfway(batchCall[c], taskRows[t], itemRows[t], taskCache[t], wrote[t])

BatchInv == BatchTyped /\ BatchStatsKept /\ \A t \in Tasks : TaskKept(t)

(* Neither a row nor a task is mistaken for an absent one *)
LEMMA TasksArePresent ==
  ASSUME NEW task \in Task
  PROVE  task # NoTask /\ Row(task) # NoTask
<1>1. Row(task) \in [status : TaskStatus, progress : Nat, total : Nat]
      BY DEF Row, Task
<1> QED BY <1>1, BatchAssumption DEF Task

LEMMA BatchCallFields ==
  /\ Quiet.step = "none"
  /\ \A call : BatchCallTyped(call) => call # Quiet
  BY DEF Quiet, BatchCallTyped

(* A call that goes on to another step keeps its other fields *)
LEMMA BatchCallGoesOn ==
  ASSUME NEW call, BatchCallTyped(call), NEW s \in {"clear", "items", "cache", "stats"},
         s = "items" => call.op # "delete", s = "clear" => call.op = "update"
  PROVE  LET next == [call EXCEPT !.step = s] IN
         /\ BatchCallTyped(next) /\ next.step = s /\ next.op = call.op /\ next.id = call.id
         /\ next.task = call.task /\ next.left = call.left
<1> DEFINE next == [call EXCEPT !.step = s]
<1>1. next = [op |-> call.op, id |-> call.id, task |-> call.task, left |-> call.left, step |-> s]
      BY DEF BatchCallTyped
<1> HIDE DEF next
<1>2. /\ next.step = s /\ next.op = call.op /\ next.id = call.id
      /\ next.task = call.task /\ next.left = call.left
      BY <1>1
<1>3. BatchCallTyped(next)
      BY <1>1, <1>2 DEF BatchCallTyped
<1> QED BY <1>2, <1>3 DEF next

(* A step of client c that writes to task t only *)
Moved(c, t) ==
  /\ batchCall' = [d \in BatchClients |-> batchCall'[d]]
  /\ \A d \in BatchClients \ {c} : batchCall'[d] = batchCall[d]
  /\ taskRows' = [u \in Tasks |-> taskRows'[u]] /\ itemRows' = [u \in Tasks |-> itemRows'[u]]
  /\ taskCache' = [u \in Tasks |-> taskCache'[u]] /\ wrote' = [u \in Tasks |-> wrote'[u]]
  /\ \A u \in Tasks \ {t} : /\ taskRows'[u] = taskRows[u] /\ itemRows'[u] = itemRows[u]
                            /\ taskCache'[u] = taskCache[u] /\ wrote'[u] = wrote[u]

(* A call on task t goes from one step to the next: nothing is known of a   *)
(* damaged task, and no other call works on one that is not                 *)
LEMMA BatchMoves ==
  ASSUME BatchInv, NEW c \in BatchClients, NEW t \in Tasks, WorksOn(batchCall[c], t),
         Moved(c, t), damaged \subseteq damaged', BatchStatsKept',
         batchCall'[c] = Quiet \/ (BatchCallTyped(batchCall'[c]) /\ batchCall'[c].id = t),
         t \notin damaged' /\ Halfway(batchCall[c], taskRows[t], itemRows[t], taskCache[t], wrote[t]) =>
           /\ batchCall'[c] = Quiet => Settled(taskRows'[t], itemRows'[t], taskCache'[t], wrote'[t])
           /\ batchCall'[c] # Quiet =>
                Halfway(batchCall'[c], taskRows'[t], itemRows'[t], taskCache'[t], wrote'[t])
  PROVE  BatchInv'
<1>1. /\ batchCall' = [d \in BatchClients |-> batchCall'[d]]
      /\ \A d \in BatchClients \ {c} : batchCall'[d] = batchCall[d]
      BY DEF Moved
<1>2. /\ taskRows' = [u \in Tasks |-> taskRows'[u]] /\ itemRows' = [u \in Tasks |-> itemRows'[u]]
      /\ taskCache' = [u \in Tasks |-> taskCache'[u]] /\ wrote' = [u \in Tasks |-> wrote'[u]]
      /\ \A u \in Tasks \ {t} : /\ taskRows'[u] = taskRows[u] /\ itemRows'[u] = itemRows[u]
                                /\ taskCache'[u] = taskCache[u] /\ wrote'[u] = wrote[u]
      BY DEF Moved
<1>3. BatchTyped'
      BY <1>1, <1>2 DEF BatchInv, BatchTyped
<1>4. ASSUME NEW u \in Tasks, u # t PROVE TaskKept(u)'
  <2>1. \A d \in BatchClients : WorksOn(batchCall'[d], u) <=> WorksOn(batchCall[d], u)
        BY <1>1, <1>4 DEF WorksOn
  <2>2. \A d \in BatchClients : WorksOn(batchCall[d], u) => batchCall'[d] = batchCall[d]
        BY <1>1, <1>4 DEF WorksOn
  <2>3. CASE u \in damaged'
        BY <2>3 DEF TaskKept
  <2>4. CASE u \notin damaged'
    <3>1. TaskKept(u) /\ u \notin damaged
          BY <2>4 DEF BatchInv
    <3>2. \/ /\ \A d \in BatchClients : ~WorksOn(batchCall'[d], u)
             /\ Settled(taskRows'[u], itemRows'[u], taskCache'[u], wrote'[u])
          \/ \E d \in BatchClients :
               /\ WorksOn(batchCall'[d], u)
               /\ \A o \in BatchClients \ {d} : ~WorksOn(batchCall'[o], u)
               /\ Halfway(batchCall'[d], taskRows'[u], itemRows'[u], taskCache'[u], wrote'[u])
      <4>1. /\ taskRows'[u] = taskRows[u] /\ itemRows'[u] = itemRows[u]
            /\ taskCache'[u] = taskCache[u] /\ wrote'[u] = wrote[u]
            BY <1>2, <1>4
      <4>2. CASE /\ \A d \in BatchClients : ~WorksOn(batchCall[d], u)
                 /\ Settled(taskRows[u], itemRows[u], taskCache[u], wrote[u])
            BY <2>1, <4>1, <4>2
      <4>3. CASE \E d \in BatchClients :
               /\ WorksOn(batchCall[d], u)
               /\ \A o \in BatchClients \ {d} : ~WorksOn(batchCall[o], u)
               /\ Halfway(batchCall[d], taskRows[u], itemRows[u], taskCache[u], wrote[u])
            BY <2>1, <2>2, <4>1, <4>3
      <4> QED BY <3>1, <4>2, <4>3 DEF TaskKept
    <3> QED BY <3>2 DEF TaskKept
  <2> QED BY <2>3, <2>4
<1>5. TaskKept(t)'
  <2>1. CASE t \in damaged'
        BY <2>1 DEF TaskKept
  <2>2. CASE t \notin damaged'
    <3>1. TaskKept(t) /\ t \notin damaged
          BY <2>2 DEF BatchInv
    <3>2. /\ \A d \in BatchClients \ {c} : ~WorksOn(batchCall[d], t)
          /\ Halfway(batchCall[c], taskRows[t], itemRows[t], taskCache[t], wrote[t])
          BY <3>1 DEF TaskKept
    <3>3. \A d \in BatchClients \ {c} : ~WorksOn(batchCall'[d], t)
          BY <1>1, <3>2
    <3>4. /\ batchCall'[c] = Quiet => Settled(taskRows'[t], itemRows'[t], taskCache'[t], wrote'[t])
          /\ batchCall'[c] # Quiet =>
               Halfway(batchCall'[c], taskRows'[t], itemRows'[t], taskCache'[t], wrote'[t])
          BY <2>2, <3>2
    <3>5. CASE batchCall'[c] = Quiet
      <4>1. ~WorksOn(batchCall'[c], t)
            BY <3>5 DEF WorksOn
      <4> QED BY <3>3, <3>4, <3>5, <4>1 DEF TaskKept
    <3>6. CASE batchCall'[c] # Quiet
      <4>1. WorksOn(batchCall'[c], t)
            BY <3>6 DEF WorksOn
      <4> QED BY <3>3, <3>4, <3>6, <4>1 DEF TaskKept
    <3> QED BY <3>5, <3>6
  <2> QED BY <2>1, <2>2
<1> QED BY <1>3, <1>4, <1>5 DEF BatchInv

(* A call begins: its task is new, or is the cached one as the caller       *)
(* changes it                                                               *)
LEMMA BatchCallBegins ==
  ASSUME BatchInv, NEW c \in BatchClients, NEW t \in Tasks, NEW task,
         NEW op \in {"create", "update", "delete"}, BeginBatchCall(c, op, t, task),
         Writers(t) = {} /\ t \notin damaged =>
           Halfway([op |-> op, id |-> t, task |-> task, left |-> task.items, step |-> "task"],
                   taskRows[t], itemRows[t], taskCache[t], wrote[t])
  PROVE  BatchInv'
<1> DEFINE now == [op |-> op, id |-> t, task |-> task, left |-> task.items, step |-> "task"]
<1>1. /\ batchCall[c] = Quiet /\ batchCall' = [batchCall EXCEPT ![c] = now]
      /\ damaged' = IF Writers(t) = {} THEN damaged ELSE damaged \cup {t}
      /\ UNCHANGED <<taskRows, itemRows, taskCache, taskStats, wrote>>
      BY DEF BeginBatchCall
<1>2. now.step = "task" /\ now.id = t /\ now.op = op /\ BatchCallTyped(now) /\ now # Quiet
      BY BatchCallFields DEF BatchCallTyped
<1> HIDE DEF now
<1>3. /\ batchCall' = [d \in BatchClients |-> batchCall'[d]] /\ batchCall'[c] = now
      /\ \A d \in BatchClients \ {c} : batchCall'[d] = batchCall[d]
      BY <1>1 DEF BatchInv, BatchTyped
<1>4. BatchTyped'
      BY <1>1, <1>2, <1>3 DEF BatchInv, BatchTyped
<1>5. BatchStatsKept'
  <2>1. batchCall[c].step # "stats"
        BY <1>1, BatchCallFields
  <2> QED BY <1>1, <1>3, <2>1 DEF BatchInv, BatchStatsKept
<1>6. ASSUME NEW u \in Tasks, u # t PROVE TaskKept(u)'
  <2>1. \A d \in BatchClients : /\ WorksOn(batchCall'[d], u) <=> WorksOn(batchCall[d], u)
                                /\ WorksOn(batchCall[d], u) => batchCall'[d] = batchCall[d]
        BY <1>1, <1>2, <1>3, <1>6 DEF WorksOn
  <2>2. TaskKept(u)
        BY DEF BatchInv
  <2> QED BY <1>1, <1>6, <2>1, <2>2 DEF TaskKept
<1>7. TaskKept(t)'
  <2>1. CASE t \in damaged'
        BY <2>1 DEF TaskKept
  <2>2. CASE t \notin damaged'
    <3>1. Writers(t) = {} /\ t \notin damaged
          BY <1>1, <2>2
    <3>2. \A d \in BatchClients \ {c} : ~WorksOn(batchCall'[d], t)
          BY <1>3, <3>1 DEF WorksOn, Writers
    <3>3. WorksOn(batchCall'[c], t)
          BY <1>2, <1>3 DEF WorksOn
    <3>4. Halfway(now, taskRows[t], itemRows[t], taskCache[t], wrote[t])
          BY <3>1 DEF now
    <3> QED BY <1>1, <1>3, <3>2, <3>3, <3>4 DEF TaskKept
  <2> QED BY <2>1, <2>2
<1> QED BY <1>4, <1>5, <1>6, <1>7 DEF BatchInv

LEMMA GivenTasksAreTasks ==
  \A task \in GivenTasks \cup {NewTask} : task \in Task
<1>1. << >> \in Seq(ItemStatus)
      OBVIOUS
<1>2. NewTask \in Task
      BY <1>1 DEF NewTask, Task, TaskStatus
<1>3. GivenTasks \subseteq Task
      BY BatchAssumption DEF Task
<1> QED BY <1>2, <1>3

LEMMA EditedTasksAreTasks ==
  ASSUME NEW task \in Task, NEW edited \in Edited(task)
  PROVE  edited \in Task
<1>1. /\ task.items \in Seq(ItemStatus)
      /\ \A items \in Seq(ItemStatus) : [task EXCEPT !.items = items] \in Task
      /\ \A s \in TaskStatus : [task EXCEPT !.status = s] \in Task
      BY DEF Task
<1>2. "pending" \in ItemStatus
      BY DEF ItemStatus
<1>3. Append(task.items, "pending") \in Seq(ItemStatus)
      BY <1>1, <1>2, AppendProperties
<1>4. ASSUME NEW i \in DOMAIN task.items, NEW s \in ItemReports
      PROVE  [task EXCEPT !.items[i] = s] \in Task
  <2>1. s \in ItemStatus
        BY BatchAssumption
  <2>2. [task.items EXCEPT ![i] = s] \in Seq(ItemStatus)
        BY <1>1, <2>1
  <2>3. [task EXCEPT !.items[i] = s] = [task EXCEPT !.items = [task.items EXCEPT ![i] = s]]
        OBVIOUS
  <2> QED BY <1>1, <2>2, <2>3
<1>5. \/ edited = [task EXCEPT !.items = Append(task.items, "pending")]
      \/ \E i \in DOMAIN task.items, s \in ItemReports : edited = [task EXCEPT !.items[i] = s]
      \/ \E s \in StatusReports : edited = [task EXCEPT !.status = s]
      BY DEF Edited
<1>6. StatusReports \subseteq TaskStatus
      BY BatchAssumption
<1> QED BY <1>1, <1>3, <1>4, <1>5, <1>6

LEMMA CountIsNatural ==
  ASSUME NEW items \in Seq(ItemStatus), NEW statuses
  PROVE  Count(items, statuses) \in Nat /\ Count(items, statuses) <= Len(items)
<1> DEFINE counted == {i \in DOMAIN items : items[i] \in statuses}
<1>1. DOMAIN items = 1..Len(items) /\ Len(items) \in Nat
      BY LenProperties
<1>2. IsFiniteSet(1..Len(items)) /\ Cardinality(1..Len(items)) = Len(items)
      BY <1>1, FS_Interval
<1>3. counted \subseteq 1..Len(items)
      BY <1>1
<1> HIDE DEF counted
<1>4. IsFiniteSet(counted) /\ Cardinality(counted) <= Len(items)
      BY <1>2, <1>3, FS_Subset
<1>5. Cardinality(counted) \in Nat
      BY <1>4, FS_CardinalityType
<1> QED BY <1>4, <1>5 DEF Count, counted

(* update_status leaves no task without a status *)
LEMMA UpdatedTasksAreTasks ==
  ASSUME NEW task \in Task
  PROVE  UpdateStatus(task) \in Task
<1> DEFINE total == Len(task.items)
<1> DEFINE done == Count(task.items, {"success", "failed"})
<1> DEFINE status == CASE total = 0 -> "pending"
                       [] total > 0 /\ done < total -> "running"
                       [] total > 0 /\ done = total ->
                            IF Count(task.items, {"failed"}) > 0
                            THEN "partial_failure" ELSE "completed"
<1>1. UpdateStatus(task) = [task EXCEPT !.progress = done, !.total = total, !.status = status]
      BY DEF UpdateStatus
<1>2. total \in Nat /\ done \in Nat /\ done <= total
      BY CountIsNatural, LenProperties DEF Task
<1>3. status \in TaskStatus
  <2> HIDE DEF total, done
  <2>1. CASE total = 0
        BY <2>1 DEF TaskStatus
  <2>2. CASE total > 0 /\ done < total
        BY <1>2, <2>2 DEF TaskStatus
  <2>3. CASE total > 0 /\ done = total
        BY <1>2, <2>3 DEF TaskStatus
  <2> QED BY <1>2, <2>1, <2>2, <2>3
<1> HIDE DEF total, done, status
<1> QED BY <1>1, <1>2, <1>3 DEF Task

LEMMA BatchCalls ==
  ASSUME BatchInv, NEW c \in BatchClients, CreateTask(c) \/ UpdateTask(c) \/ DeleteTask(c)
  PROVE  BatchInv'
<1>1. ASSUME NEW t \in Tasks, Writers(t) = {}, t \notin damaged
      PROVE  Settled(taskRows[t], itemRows[t], taskCache[t], wrote[t])
      BY <1>1 DEF BatchInv, TaskKept, Writers, WorksOn
<1>2. \A row, items, cached, handed : Settled(row, items, cached, handed) =>
        /\ row = NoTask => items = << >> /\ cached = NoTask /\ handed = NoTask
        /\ cached # NoTask => cached \in Task
      BY TasksArePresent DEF Settled
<1>3. CASE CreateTask(c)
  <2>1. PICK t \in Tasks, task \in GivenTasks \cup {NewTask} :
          /\ taskRows[t] = NoTask /\ taskCache[t] = NoTask /\ Writers(t) = {}
          /\ BeginBatchCall(c, "create", t, task)
        BY <1>3 DEF CreateTask
  <2>2. task \in Task
        BY GivenTasksAreTasks
  <2>3. t \notin damaged => itemRows[t] = << >> /\ wrote[t] = NoTask
        BY <1>1, <1>2, <2>1
  <2>4. Writers(t) = {} /\ t \notin damaged =>
          Halfway([op |-> "create", id |-> t, task |-> task, left |-> task.items, step |-> "task"],
                  taskRows[t], itemRows[t], taskCache[t], wrote[t])
        BY <2>1, <2>2, <2>3 DEF Halfway
  <2> QED BY <2>1, <2>4, BatchCallBegins
<1>4. CASE UpdateTask(c)
  <2>1. \E t \in Tasks : \E task :
          /\ BeginBatchCall(c, "update", t, task)
          /\ taskCache[t] \in Task \cup {NoTask} => task \in Task
    <3>1. PICK t \in Tasks :
            \/ /\ taskCache[t] # NoTask
               /\ \E task \in Edited(taskCache[t]) :
                    \/ BeginBatchCall(c, "update", t, task)
                    \/ BeginBatchCall(c, "update", t, UpdateStatus(task))
            \/ \E task \in GivenTasks : BeginBatchCall(c, "update", t, task)
          BY <1>4 DEF UpdateTask
    <3>2. CASE \E task \in GivenTasks : BeginBatchCall(c, "update", t, task)
          BY <3>2, GivenTasksAreTasks
    <3>3. CASE /\ taskCache[t] # NoTask
               /\ \E task \in Edited(taskCache[t]) :
                    \/ BeginBatchCall(c, "update", t, task)
                    \/ BeginBatchCall(c, "update", t, UpdateStatus(task))
      <4>1. PICK edited \in Edited(taskCache[t]) :
              \/ BeginBatchCall(c, "update", t, edited)
              \/ BeginBatchCall(c, "update", t, UpdateStatus(edited))
            BY <3>3
      <4>2. taskCache[t] \in Task \cup {NoTask} =>
              edited \in Task /\ UpdateStatus(edited) \in Task
            BY <3>3, EditedTasksAreTasks, UpdatedTasksAreTasks
      <4> QED BY <4>1, <4>2
    <3> QED BY <3>1, <3>2, <3>3
  <2> PICK t \in Tasks : \E task :
        /\ BeginBatchCall(c, "update", t, task)
        /\ taskCache[t] \in Task \cup {NoTask} => task \in Task
      BY <2>1
  <2> PICK task : /\ BeginBatchCall(c, "update", t, task)
                  /\ taskCache[t] \in Task \cup {NoTask} => task \in Task
      OBVIOUS
  <2>2. ASSUME Writers(t) = {}, t \notin damaged
        PROVE  task \in Task /\ Settled(taskRows[t], itemRows[t], taskCache[t], wrote[t])
    <3>1. Settled(taskRows[t], itemRows[t], taskCache[t], wrote[t])
          BY <1>1, <2>2
    <3>2. taskCache[t] \in Task \cup {NoTask}
          BY <1>2, <3>1
    <3> QED BY <3>1, <3>2
  <2>3. Writers(t) = {} /\ t \notin damaged =>
          Halfway([op |-> "update", id |-> t, task |-> task, left |-> task.items, step |-> "task"],
                  taskRows[t], itemRows[t], taskCache[t], wrote[t])
        BY <2>2 DEF Halfway
  <2> QED BY <2>3, BatchCallBegins
<1>5. CASE DeleteTask(c)
  <2>1. PICK t \in Tasks : taskCache[t] # NoTask /\ BeginBatchCall(c, "delete", t, taskCache[t])
        BY <1>5 DEF DeleteTask
  <2> DEFINE task == taskCache[t]
  <2>2. Writers(t) = {} /\ t \notin damaged =>
          Halfway([op |-> "delete", id |-> t, task |-> task, left |-> task.items, step |-> "task"],
                  taskRows[t], itemRows[t], taskCache[t], wrote[t])
        BY <1>1 DEF Halfway
  <2> QED BY <2>1, <2>2, BatchCallBegins
<1> QED BY <1>3, <1>4, <1>5

(* The first statement writes the row of the task, or deletes it *)
LEMMA WriteTaskStep ==
  ASSUME BatchInv, NEW c \in BatchClients, WriteTask(c)
  PROVE  BatchInv'
<1> DEFINE call == batchCall[c]
<1>1. /\ call.step = "task" /\ call # Quiet /\ BatchCallTyped(call) /\ call.id \in Tasks
      /\ call.op \in {"create", "update", "delete"}
      /\ UNCHANGED <<taskCache, taskStats, damaged>>
      BY BatchCallFields DEF WriteTask, BatchInv, BatchTyped, BatchCallTyped
<1>2. PICK t \in Tasks : t = call.id /\ WorksOn(call, t)
      BY <1>1 DEF WorksOn
<1>3. BatchStatsKept'
  <2>1. \A d \in BatchClients \ {c} : batchCall'[d] = batchCall[d]
    <3>1. \E now : batchCall' = [batchCall EXCEPT ![c] = now]
          BY <1>1 DEF WriteTask, Step, End
    <3> QED BY <3>1 DEF BatchInv, BatchTyped
  <2> QED BY <1>1, <2>1 DEF BatchInv, BatchStatsKept
<1>4. ASSUME NEW s \in {"items", "clear"}, Step(c, s),
             \/ call.op = "create" /\ s = "items"
             \/ call.op = "update" /\ s = "clear" /\ taskRows[t] # NoTask,
             taskRows' = [taskRows EXCEPT ![t] = Row(call.task)], itemRows' = itemRows,
             wrote' = [wrote EXCEPT ![t] = call.task]
      PROVE  BatchInv'
  <2> DEFINE now == [call EXCEPT !.step = s]
  <2>1. /\ BatchCallTyped(now) /\ now.step = s /\ now.op = call.op /\ now.id = call.id
        /\ now.task = call.task /\ now.left = call.left
    <3>1. s = "items" => call.op # "delete"
          BY <1>4
    <3>2. s = "clear" => call.op = "update"
          BY <1>4
    <3>3. s \in {"clear", "items", "cache", "stats"}
          BY <1>4
    <3> HIDE DEF call
    <3> QED BY <1>1, <3>1, <3>2, <3>3, BatchCallGoesOn
  <2>2. batchCall' = [batchCall EXCEPT ![c] = now] /\ now # Quiet
        BY <1>4, <2>1, BatchCallFields DEF Step
  <2> HIDE DEF now
  <2>3. /\ Moved(c, t) /\ batchCall'[c] = now /\ taskRows'[t] = Row(call.task)
        /\ itemRows'[t] = itemRows[t] /\ taskCache'[t] = taskCache[t] /\ wrote'[t] = call.task
        BY <1>1, <1>4, <2>2 DEF BatchInv, BatchTyped, Moved
  <2>4. ASSUME Halfway(call, taskRows[t], itemRows[t], taskCache[t], wrote[t])
        PROVE  Halfway(now, Row(call.task), itemRows[t], taskCache[t], call.task)
    <3>1. call.task \in Task /\ call.left = call.task.items /\ call.task.items \in Seq(ItemStatus)
          BY <1>1, <1>4, <2>4 DEF Halfway, Task
    <3>2. CASE call.op = "create" /\ s = "items"
      <4>1. itemRows[t] = << >>
            BY <1>1, <2>4, <3>2 DEF Halfway
      <4>2. << >> \o call.left = call.left /\ << >> \in Seq(ItemStatus)
            BY <3>1, ConcatEmptySeq
      <4> QED BY <2>1, <3>1, <3>2, <4>1, <4>2 DEF Halfway
    <3>3. CASE call.op = "update" /\ s = "clear" /\ taskRows[t] # NoTask
      <4>1. taskCache[t] # NoTask
        <5>1. Settled(taskRows[t], itemRows[t], taskCache[t], wrote[t])
              BY <1>1, <2>4, <3>3 DEF Halfway
        <5> QED BY <3>3, <5>1, TasksArePresent DEF Settled
      <4> QED BY <2>1, <3>1, <3>3, <4>1 DEF Halfway
    <3> QED BY <1>4, <3>2, <3>3
  <2> QED BY <1>1, <1>2, <1>3, <2>1, <2>2, <2>3, <2>4, BatchMoves
<1>5. ASSUME call.op = "delete", taskRows' = [taskRows EXCEPT ![t] = NoTask],
             itemRows' = [itemRows EXCEPT ![t] = << >>], Step(c, "cache"),
             wrote' = [wrote EXCEPT ![t] = NoTask]
      PROVE  BatchInv'
  <2> DEFINE now == [call EXCEPT !.step = "cache"]
  <2>1. /\ BatchCallTyped(now) /\ now.step = "cache" /\ now.op = call.op /\ now.id = call.id
        BY <1>1, <1>5, BatchCallGoesOn
  <2>2. batchCall' = [batchCall EXCEPT ![c] = now] /\ now # Quiet
        BY <1>5, <2>1, BatchCallFields DEF Step
  <2> HIDE DEF now
  <2>3. /\ Moved(c, t) /\ batchCall'[c] = now /\ taskRows'[t] = NoTask /\ itemRows'[t] = << >>
        /\ wrote'[t] = NoTask
        BY <1>1, <1>5, <2>2 DEF BatchInv, BatchTyped, Moved
  <2>4. Halfway(now, NoTask, << >>, taskCache'[t], NoTask)
        BY <1>5, <2>1 DEF Halfway
  <2> QED BY <1>1, <1>2, <1>3, <2>1, <2>2, <2>3, <2>4, BatchMoves
<1>6. ASSUME call.op # "create", End(c), taskRows' = taskRows, itemRows' = itemRows, wrote' = wrote
      PROVE  BatchInv'
  <2>1. Moved(c, t) /\ batchCall'[c] = Quiet
        BY <1>1, <1>6 DEF BatchInv, BatchTyped, Moved, End
  <2>2. Halfway(call, taskRows[t], itemRows[t], taskCache[t], wrote[t]) =>
          Settled(taskRows[t], itemRows[t], taskCache[t], wrote[t])
        BY <1>1, <1>6 DEF Halfway
  <2> QED BY <1>1, <1>2, <1>3, <1>6, <2>1, <2>2, BatchMoves
<1>7. \/ /\ call.op = "create" /\ taskRows' = [taskRows EXCEPT ![t] = Row(call.task)]
         /\ Step(c, "items") /\ itemRows' = itemRows /\ wrote' = [wrote EXCEPT ![t] = call.task]
      \/ /\ call.op = "update" /\ taskRows[t] # NoTask /\ itemRows' = itemRows
         /\ taskRows' = [taskRows EXCEPT ![t] = Row(call.task)] /\ Step(c, "clear")
         /\ wrote' = [wrote EXCEPT ![t] = call.task]
      \/ /\ call.op = "delete" /\ taskRows' = [taskRows EXCEPT ![t] = NoTask]
         /\ itemRows' = [itemRows EXCEPT ![t] = << >>] /\ Step(c, "cache")
         /\ wrote' = [wrote EXCEPT ![t] = NoTask]
      \/ /\ call.op # "create" /\ End(c) /\ taskRows' = taskRows /\ itemRows' = itemRows
         /\ wrote' = wrote
  <2>1. CASE call.op = "create"
        BY <1>2, <2>1 DEF WriteTask
  <2>2. CASE call.op = "update" /\ taskRows[t] # NoTask
        BY <1>2, <2>2 DEF WriteTask
  <2>3. CASE call.op = "delete" /\ taskRows[t] # NoTask
        BY <1>2, <2>3 DEF WriteTask
  <2>4. CASE call.op # "create" /\ taskRows[t] = NoTask
        BY <1>2, <2>4 DEF WriteTask
  <2> QED BY <1>1, <2>1, <2>2, <2>3, <2>4
<1> QED BY <1>4, <1>5, <1>6, <1>7

LEMMA ClearItemsStep ==
  ASSUME BatchInv, NEW c \in BatchClients, ClearItems(c)
  PROVE  BatchInv'
<1> DEFINE call == batchCall[c]
<1> DEFINE now == [call EXCEPT !.step = "items"]
<1>1. /\ call.step = "clear" /\ call # Quiet /\ BatchCallTyped(call) /\ call.id \in Tasks
      /\ call.op = "update" /\ UNCHANGED <<taskRows, taskCache, taskStats, damaged, wrote>>
      BY BatchCallFields DEF ClearItems, BatchInv, BatchTyped, BatchCallTyped
<1>2. PICK t \in Tasks : t = call.id /\ WorksOn(call, t)
      BY <1>1 DEF WorksOn
<1>3. /\ BatchCallTyped(now) /\ now.step = "items" /\ now.op = "update" /\ now.id = call.id
      /\ now.task = call.task /\ now.left = call.left
      BY <1>1, BatchCallGoesOn
<1>4. batchCall' = [batchCall EXCEPT ![c] = now] /\ now # Quiet
      BY <1>3, BatchCallFields DEF ClearItems, Step
<1> HIDE DEF now
<1>5. /\ Moved(c, t) /\ batchCall'[c] = now /\ itemRows'[t] = << >>
      BY <1>1, <1>2, <1>4 DEF BatchInv, BatchTyped, Moved, ClearItems
<1>6. BatchStatsKept'
      BY <1>1, <1>5 DEF BatchInv, BatchStatsKept, Moved
<1>7. ASSUME Halfway(call, taskRows[t], itemRows[t], taskCache[t], wrote[t])
      PROVE  Halfway(now, taskRows[t], << >>, taskCache[t], wrote[t])
  <2>1. call.task \in Task /\ call.left = call.task.items /\ call.task.items \in Seq(ItemStatus)
        BY <1>1, <1>7 DEF Halfway, Task
  <2>2. << >> \o call.left = call.left /\ << >> \in Seq(ItemStatus)
        BY <2>1, ConcatEmptySeq
  <2> QED BY <1>1, <1>3, <1>7, <2>1, <2>2 DEF Halfway
<1> QED BY <1>1, <1>2, <1>3, <1>4, <1>5, <1>6, <1>7, BatchMoves

LEMMA BatchCallWrites ==
  ASSUME NEW call, BatchCallTyped(call), NEW left
  PROVE  [call EXCEPT !.left = left] = [op |-> call.op, id |-> call.id, task |-> call.task,
                                        left |-> left, step |-> call.step]
  BY DEF BatchCallTyped

LEMMA NextItem ==
  ASSUME NEW items \in Seq(ItemStatus), NEW left \in Seq(ItemStatus), left # << >>
  PROVE  /\ Append(items, Head(left)) \in Seq(ItemStatus) /\ Tail(left) \in Seq(ItemStatus)
         /\ Append(items, Head(left)) \o Tail(left) = items \o left
<1>1. Head(left) \in ItemStatus /\ Tail(left) \in Seq(ItemStatus)
      BY HeadTailProperties
<1>2. Append(items, Head(left)) = items \o <<Head(left)>> /\ Append(items, Head(left)) \in Seq(ItemStatus)
      BY <1>1, AppendIsConcat, AppendProperties
<1>3. <<Head(left)>> \in Seq(ItemStatus)
      BY <1>1
<1>4. <<Head(left)>> \o Tail(left) = left
      BY <1>1
<1>5. (items \o <<Head(left)>>) \o Tail(left) = items \o (<<Head(left)>> \o Tail(left))
      BY <1>1, <1>3, ConcatAssociative
<1> QED BY <1>1, <1>2, <1>4, <1>5

(* The rows of a task's items and the items still to write are its items *)
LEMMA InsertItemStep ==
  ASSUME BatchInv, NEW c \in BatchClients, InsertItem(c)
  PROVE  BatchInv'
<1> DEFINE call == batchCall[c]
<1>1. /\ call.step = "items" /\ call # Quiet /\ BatchCallTyped(call) /\ call.id \in Tasks
      /\ call.op # "delete" /\ UNCHANGED <<taskRows, taskCache, taskStats, damaged, wrote>>
      BY BatchCallFields DEF InsertItem, BatchInv, BatchTyped, BatchCallTyped
<1>2. PICK t \in Tasks : t = call.id /\ WorksOn(call, t)
      BY <1>1 DEF WorksOn
<1>3. BatchStatsKept'
  <2>1. \A d \in BatchClients \ {c} : batchCall'[d] = batchCall[d]
    <3>1. \E now : batchCall' = [batchCall EXCEPT ![c] = now]
          BY DEF InsertItem, Step, End
    <3> QED BY <3>1 DEF BatchInv, BatchTyped
  <2> QED BY <1>1, <2>1 DEF BatchInv, BatchStatsKept
<1>4. CASE call.left = << >>
  <2> DEFINE now == [call EXCEPT !.step = "cache"]
  <2>1. /\ BatchCallTyped(now) /\ now.step = "cache" /\ now.op = call.op /\ now.id = call.id
        /\ now.task = call.task
        BY <1>1, BatchCallGoesOn
  <2>2. batchCall' = [batchCall EXCEPT ![c] = now] /\ now # Quiet /\ itemRows' = itemRows
        BY <1>4, <2>1, BatchCallFields DEF InsertItem, Step
  <2> HIDE DEF now
  <2>3. Moved(c, t) /\ batchCall'[c] = now
        BY <1>1, <2>2 DEF BatchInv, BatchTyped, Moved
  <2>4. ASSUME Halfway(call, taskRows[t], itemRows[t], taskCache[t], wrote[t])
        PROVE  Halfway(now, taskRows[t], itemRows[t], taskCache[t], wrote[t])
    <3>1. itemRows[t] \in Seq(ItemStatus) /\ itemRows[t] \o << >> = call.task.items
          BY <1>1, <1>4, <2>4 DEF Halfway
    <3>2. itemRows[t] = call.task.items
          BY <3>1, ConcatEmptySeq
    <3> QED BY <1>1, <2>1, <2>4, <3>2 DEF Halfway
  <2> QED BY <1>1, <1>2, <1>3, <2>1, <2>2, <2>3, <2>4, BatchMoves
<1>5. CASE call.left # << >> /\ taskRows[t] = NoTask
  <2>1. batchCall' = [batchCall EXCEPT ![c] = Quiet] /\ itemRows' = itemRows
        BY <1>2, <1>5 DEF InsertItem, End
  <2>2. Moved(c, t) /\ batchCall'[c] = Quiet
        BY <1>1, <2>1 DEF BatchInv, BatchTyped, Moved
  <2>3. ~Halfway(call, taskRows[t], itemRows[t], taskCache[t], wrote[t])
        BY <1>1, <1>5, TasksArePresent DEF Halfway
  <2> QED BY <1>1, <1>2, <1>3, <2>2, <2>3, BatchMoves
<1>6. CASE call.left # << >> /\ taskRows[t] # NoTask
  <2> DEFINE now == [call EXCEPT !.left = Tail(call.left)]
  <2>1. now = [op |-> call.op, id |-> call.id, task |-> call.task, left |-> Tail(call.left),
               step |-> call.step]
        BY <1>1, BatchCallWrites
  <2>2. /\ batchCall' = [batchCall EXCEPT ![c] = now]
        /\ itemRows' = [itemRows EXCEPT ![t] = Append(itemRows[t], Head(call.left))]
        BY <1>2, <1>6 DEF InsertItem
  <2> HIDE DEF now
  <2>3. /\ now.step = "items" /\ now.op = call.op /\ now.id = call.id
        /\ now.task = call.task /\ now.left = Tail(call.left)
        BY <1>1, <2>1
  <2>4. BatchCallTyped(now) /\ now # Quiet
    <3>1. BatchCallTyped(now)
          BY <1>1, <2>1, <2>3 DEF BatchCallTyped
    <3> QED BY <3>1, BatchCallFields
  <2>5. /\ Moved(c, t) /\ batchCall'[c] = now
        /\ itemRows'[t] = Append(itemRows[t], Head(call.left))
        BY <1>1, <2>2 DEF BatchInv, BatchTyped, Moved
  <2>6. ASSUME Halfway(call, taskRows[t], itemRows[t], taskCache[t], wrote[t])
        PROVE  Halfway(now, taskRows[t], Append(itemRows[t], Head(call.left)), taskCache[t], wrote[t])
    <3>1. /\ itemRows[t] \in Seq(ItemStatus) /\ call.left \in Seq(ItemStatus)
          /\ itemRows[t] \o call.left = call.task.items
          BY <1>1, <2>6 DEF Halfway
    <3>2. /\ Append(itemRows[t], Head(call.left)) \in Seq(ItemStatus)
          /\ Tail(call.left) \in Seq(ItemStatus)
          /\ Append(itemRows[t], Head(call.left)) \o Tail(call.left) = call.task.items
          BY <1>6, <3>1, NextItem
    <3> QED BY <1>1, <2>3, <2>6, <3>2 DEF Halfway
  <2> QED BY <1>1, <1>2, <1>3, <2>3, <2>4, <2>5, <2>6, BatchMoves
<1> QED BY <1>4, <1>5, <1>6

LEMMA BatchStatementFailsStep ==
  ASSUME BatchInv, NEW c \in BatchClients, BatchStatementFails(c)
  PROVE  BatchInv'
<1> DEFINE call == batchCall[c]
<1>1. /\ call.step \in {"task", "clear", "items"} /\ call # Quiet /\ call.id \in Tasks
      /\ UNCHANGED <<taskRows, itemRows, taskCache, taskStats, wrote>>
      /\ damaged' = IF call.step = "task" THEN damaged ELSE damaged \cup {call.id}
      /\ batchCall' = [batchCall EXCEPT ![c] = Quiet]
      BY BatchCallFields DEF BatchStatementFails, BatchInv, BatchTyped, BatchCallTyped, End
<1>2. PICK t \in Tasks : t = call.id /\ WorksOn(call, t)
      BY <1>1 DEF WorksOn
<1>3. Moved(c, t) /\ batchCall'[c] = Quiet
      BY <1>1 DEF BatchInv, BatchTyped, Moved
<1>4. BatchStatsKept'
      BY <1>1, <1>3 DEF BatchInv, BatchStatsKept, Moved
<1>5. t \notin damaged' /\ Halfway(call, taskRows[t], itemRows[t], taskCache[t], wrote[t]) =>
        Settled(taskRows[t], itemRows[t], taskCache[t], wrote[t])
      BY <1>1, <1>2 DEF Halfway, Settled
<1> QED BY <1>1, <1>2, <1>3, <1>4, <1>5, BatchMoves

(* The cache takes over what the call wrote to the tables *)
LEMMA CacheTaskStep ==
  ASSUME BatchInv, NEW c \in BatchClients, CacheTask(c)
  PROVE  BatchInv'
<1> DEFINE call == batchCall[c]
<1>1. /\ call.step = "cache" /\ call # Quiet /\ BatchCallTyped(call) /\ call.id \in Tasks
      /\ call.op \in {"create", "update", "delete"}
      /\ UNCHANGED <<taskRows, itemRows, taskStats, damaged, wrote>>
      BY BatchCallFields DEF CacheTask, BatchInv, BatchTyped, BatchCallTyped
<1>2. PICK t \in Tasks : t = call.id /\ WorksOn(call, t)
      BY <1>1 DEF WorksOn
<1>3. CASE call.op = "create" \/ taskCache[t] # NoTask
  <2> DEFINE now == [call EXCEPT !.step = "stats"]
  <2> DEFINE cached == IF call.op = "delete" THEN NoTask ELSE call.task
  <2>1. /\ BatchCallTyped(now) /\ now.step = "stats" /\ now.op = call.op /\ now.id = call.id
        /\ now.task = call.task
        BY <1>1, BatchCallGoesOn
  <2>2. /\ batchCall' = [batchCall EXCEPT ![c] = now] /\ now # Quiet
        /\ taskCache' = [taskCache EXCEPT ![t] = cached]
        BY <1>2, <1>3, <2>1, BatchCallFields DEF CacheTask, Step
  <2> HIDE DEF now, cached
  <2>3. Moved(c, t) /\ batchCall'[c] = now /\ taskCache'[t] = cached
        BY <1>1, <2>2 DEF BatchInv, BatchTyped, Moved
  <2>4. BatchStatsKept'
        BY <2>1, <2>3 DEF BatchStatsKept
  <2>5. ASSUME Halfway(call, taskRows[t], itemRows[t], taskCache[t], wrote[t])
        PROVE  Halfway(now, taskRows[t], itemRows[t], cached, wrote[t])
    <3>1. Settled(taskRows[t], itemRows[t], cached, wrote[t])
          BY <1>1, <2>5 DEF Halfway, Settled, cached
    <3> QED BY <2>1, <2>5, <3>1 DEF Halfway
  <2> QED BY <1>1, <1>2, <2>1, <2>2, <2>3, <2>4, <2>5, BatchMoves
<1>4. CASE call.op # "create" /\ taskCache[t] = NoTask
  <2>1. taskCache' = taskCache /\ batchCall' = [batchCall EXCEPT ![c] = Quiet]
        BY <1>2, <1>4 DEF CacheTask, End
  <2>2. Moved(c, t) /\ batchCall'[c] = Quiet
        BY <1>1, <2>1 DEF BatchInv, BatchTyped, Moved
  <2>3. BatchStatsKept'
        BY <1>1, <2>1, <2>2 DEF BatchInv, BatchStatsKept, Moved
  <2>4. Halfway(call, taskRows[t], itemRows[t], taskCache[t], wrote[t]) =>
          Settled(taskRows[t], itemRows[t], taskCache[t], wrote[t])
        BY <1>1, <1>4 DEF Halfway, Settled
  <2> QED BY <1>1, <1>2, <2>1, <2>2, <2>3, <2>4, BatchMoves
<1> QED BY <1>3, <1>4

LEMMA UpdateBatchStatsStep ==
  ASSUME BatchInv, NEW c \in BatchClients, UpdateBatchStats(c)
  PROVE  BatchInv'
<1> DEFINE call == batchCall[c]
<1>1. /\ call.step = "stats" /\ call # Quiet /\ call.id \in Tasks
      /\ UNCHANGED <<taskRows, itemRows, taskCache, damaged, wrote>>
      /\ taskStats' = BatchStats(taskCache)
      /\ batchCall' = [batchCall EXCEPT ![c] = Quiet]
      BY BatchCallFields DEF UpdateBatchStats, BatchInv, BatchTyped, BatchCallTyped, End
<1>2. PICK t \in Tasks : t = call.id /\ WorksOn(call, t)
      BY <1>1 DEF WorksOn
<1>3. Moved(c, t) /\ batchCall'[c] = Quiet
      BY <1>1 DEF BatchInv, BatchTyped, Moved
<1>4. BatchStatsKept'
  <2>1. taskStats' = BatchStats(taskCache')
        BY <1>1
  <2> QED BY <2>1 DEF BatchStatsKept
<1>5. Halfway(call, taskRows[t], itemRows[t], taskCache[t], wrote[t]) =>
        Settled(taskRows[t], itemRows[t], taskCache[t], wrote[t])
      BY <1>1 DEF Halfway
<1> QED BY <1>1, <1>2, <1>3, <1>4, <1>5, BatchMoves

(* A restart reads what the tables hold, whole or being deleted *)
LEMMA ReopenBatchStoreStep ==
  ASSUME BatchInv, ReopenBatchStore
  PROVE  BatchInv'
<1>1. /\ damaged' = damaged \cup {t \in Tasks : \E c \in Writers(t) :
                                     batchCall[c].step \in {"clear", "items"}}
      /\ batchCall' = [c \in BatchClients |-> Quiet]
      /\ taskCache' = Table /\ taskStats' = BatchStats(Table)
      /\ taskRows' = taskRows /\ itemRows' = itemRows /\ wrote' = wrote
      BY DEF ReopenBatchStore
<1>2. BatchTyped'
  <2>1. Table = [t \in Tasks |-> Table[t]]
        BY DEF Table
  <2> QED BY <1>1, <2>1 DEF BatchInv, BatchTyped
<1>3. BatchStatsKept'
  <2>1. taskStats' = BatchStats(taskCache')
        BY <1>1
  <2> QED BY <2>1 DEF BatchStatsKept
<1>4. ASSUME NEW t \in Tasks PROVE TaskKept(t)'
  <2>1. CASE t \in damaged'
        BY <2>1 DEF TaskKept
  <2>2. CASE t \notin damaged'
    <3>1. \A c \in BatchClients : ~WorksOn(batchCall'[c], t)
          BY <1>1 DEF WorksOn
    <3>2. \A c \in BatchClients : WorksOn(batchCall[c], t) => batchCall[c].step \notin {"clear", "items"}
          BY <1>1, <2>2 DEF Writers, WorksOn
    <3>3. \/ taskRows[t] = NoTask /\ itemRows[t] = << >> /\ wrote[t] = NoTask
          \/ \E task \in Task : /\ taskRows[t] = Row(task) /\ wrote[t] = task
                                /\ itemRows[t] = task.items
      <4>1. \A cached : Settled(taskRows[t], itemRows[t], cached, wrote[t]) =>
              \/ taskRows[t] = NoTask /\ itemRows[t] = << >> /\ wrote[t] = NoTask
              \/ \E task \in Task : /\ taskRows[t] = Row(task) /\ wrote[t] = task
                                /\ itemRows[t] = task.items
            BY DEF Settled
      <4>2. TaskKept(t) /\ t \notin damaged
            BY <1>1, <2>2 DEF BatchInv
      <4>3. CASE Settled(taskRows[t], itemRows[t], taskCache[t], wrote[t])
            BY <4>1, <4>3
      <4>4. CASE \E c \in BatchClients :
                   /\ WorksOn(batchCall[c], t)
                   /\ Halfway(batchCall[c], taskRows[t], itemRows[t], taskCache[t], wrote[t])
        <5>1. PICK c \in BatchClients :
                   /\ WorksOn(batchCall[c], t)
                   /\ Halfway(batchCall[c], taskRows[t], itemRows[t], taskCache[t], wrote[t])
              BY <4>4
        <5>2. /\ batchCall[c].step \in {"task", "cache", "stats"}
              /\ batchCall[c].op \in {"create", "update", "delete"}
              BY <3>2, <5>1 DEF BatchInv, BatchTyped, BatchCallTyped, WorksOn
        <5>3. CASE batchCall[c].step = "cache"
              BY <5>1, <5>3 DEF Halfway
        <5>4. CASE batchCall[c].step # "cache"
          <6>1. \/ taskRows[t] = NoTask /\ itemRows[t] = << >> /\ wrote[t] = NoTask
                \/ Settled(taskRows[t], itemRows[t], taskCache[t], wrote[t])
                BY <5>1, <5>2, <5>4 DEF Halfway
          <6> QED BY <4>1, <6>1
        <5> QED BY <5>3, <5>4
      <4> QED BY <4>2, <4>3, <4>4 DEF TaskKept
    <3>4. Settled(taskRows[t], itemRows[t], Table[t], wrote[t])
      <4>1. CASE taskRows[t] = NoTask /\ itemRows[t] = << >> /\ wrote[t] = NoTask
            BY <4>1 DEF Table, Settled
      <4>2. ASSUME NEW task \in Task, taskRows[t] = Row(task), itemRows[t] = task.items,
                     wrote[t] = task
            PROVE  Settled(taskRows[t], itemRows[t], Table[t], wrote[t])
        <5>1. Table[t] = Loaded(t)
              BY <4>2, TasksArePresent DEF Table
        <5>2. Loaded(t) = task
              BY <4>2 DEF Loaded, Row, Task
        <5> QED BY <4>2, <5>1, <5>2 DEF Settled
      <4> QED BY <3>3, <4>1, <4>2
    <3> QED BY <1>1, <3>1, <3>4 DEF TaskKept
  <2> QED BY <2>1, <2>2
<1> QED BY <1>2, <1>3, <1>4 DEF BatchInv

LEMMA BatchInvInductive ==
  /\ BatchInit => BatchInv
  /\ BatchInv /\ [BatchNext]_batchVars => BatchInv'
<1>1. ASSUME BatchInit PROVE BatchInv
  <2>1. /\ taskRows = [t \in Tasks |-> NoTask] /\ itemRows = [t \in Tasks |-> << >>]
        /\ taskCache = taskRows /\ taskStats = BatchStats(taskCache)
        /\ batchCall = [c \in BatchClients |-> Quiet] /\ wrote = taskRows
        BY <1>1 DEF BatchInit
  <2>2. BatchTyped /\ BatchStatsKept
        BY <2>1 DEF BatchTyped, BatchStatsKept
  <2>3. \A t \in Tasks : TaskKept(t)
        BY <2>1 DEF TaskKept, Settled, WorksOn
  <2> QED BY <2>2, <2>3 DEF BatchInv
<1>2. ASSUME BatchInv, UNCHANGED batchVars PROVE BatchInv'
      BY <1>2 DEF batchVars, BatchInv, BatchTyped, BatchStatsKept, TaskKept
<1> QED BY <1>1, <1>2, BatchCalls, WriteTaskStep, ClearItemsStep, InsertItemStep,
           BatchStatementFailsStep, CacheTaskStep, UpdateBatchStatsStep, ReopenBatchStoreStep
        DEF BatchNext

LEMMA BatchesAgreeFromInv ==
  ASSUME BatchInv
  PROVE  BatchesAgree
<1> SUFFICES ASSUME \A c \in BatchClients : batchCall[c] = Quiet
             PROVE  /\ \A t \in Tasks \ damaged : Table[t] = wrote[t] /\ taskCache[t] = wrote[t]
                    /\ taskStats.tasks = Cardinality({t \in Tasks : taskCache[t] # NoTask})
                    /\ taskStats.pending = Cardinality(FilterTasks({"pending"}))
                    /\ taskStats.running = Cardinality(FilterTasks({"running"}))
                    /\ taskStats.completed = Cardinality(FilterTasks({"completed"}))
                    /\ taskStats.failed = Cardinality(FilterTasks({"failed", "partial_failure"}))
    BY DEF BatchesAgree
<1>1. /\ taskStats.pending = Cardinality(FilterTasks({"pending"}))
      /\ taskStats.running = Cardinality(FilterTasks({"running"}))
      /\ taskStats.completed = Cardinality(FilterTasks({"completed"}))
      /\ taskStats.failed = Cardinality(FilterTasks({"failed", "partial_failure"}))
      /\ taskStats.tasks = Cardinality({t \in Tasks : taskCache[t] # NoTask})
  <2>1. taskStats = BatchStats(taskCache)
        BY BatchCallFields DEF BatchInv, BatchStatsKept
  <2>2. \A statuses : {t \in {u \in Tasks : taskCache[u] # NoTask} : taskCache[t].status \in statuses}
                       = FilterTasks(statuses)
        BY DEF FilterTasks
  <2> QED BY <2>1, <2>2 DEF BatchStats
<1>2. ASSUME NEW t \in Tasks \ damaged
      PROVE  Table[t] = wrote[t] /\ taskCache[t] = wrote[t]
  <2>1. Settled(taskRows[t], itemRows[t], taskCache[t], wrote[t])
        BY <1>2 DEF BatchInv, TaskKept, WorksOn
  <2>2. CASE taskRows[t] = NoTask /\ taskCache[t] = NoTask /\ wrote[t] = NoTask
        BY <2>2 DEF Table
  <2>3. CASE /\ wrote[t] \in Task /\ taskRows[t] = Row(wrote[t]) /\ taskCache[t] = wrote[t]
             /\ itemRows[t] = wrote[t].items
    <3>1. Table[t] = Loaded(t)
          BY <2>3, TasksArePresent DEF Table
    <3>2. Loaded(t) = wrote[t]
          BY <2>3 DEF Loaded, Row, Task
    <3> QED BY <2>3, <3>1, <3>2
  <2> QED BY <2>1, <2>2, <2>3 DEF Settled
<1> QED BY <1>1, <1>2

-----------------------------------------------------------------------------
(* However the calls of any number of threads interleave, and wherever a    *)
(* statement fails or a restart cuts them short, the stores of tags, groups *)
(* and batch tasks answer from their caches what the tables hold once no    *)
(* call is in progress, up to the races and half-done calls that the        *)
(* history variables record.                                                *)
THEOREM CachesAgreeWithTables == StoresSpec => []StoresAgree
<1>1. StoresInit => TagInv /\ GroupInv /\ BatchInv
      BY TagInvInductive, GroupInvInductive, BatchInvInductive DEF StoresInit
<1>2. /\ TagInv /\ GroupInv /\ BatchInv /\ [StoresNext]_<<tagVars, groupVars, batchVars>>
      => TagInv' /\ GroupInv' /\ BatchInv'
      BY TagInvInductive, GroupInvInductive, BatchInvInductive DEF StoresNext
<1>3. TagInv /\ GroupInv /\ BatchInv => StoresAgree
      BY TagsAgreeFromInv, GroupsAgreeFromInv, BatchesAgreeFromInv DEF StoresAgree
<1> QED BY <1>1, <1>2, <1>3, PTL DEF StoresSpec

-----------------------------------------------------------------------------
(* The types of the three stores *)

LEMMA SomeOfTheTags ==
  ASSUME NEW S \in SUBSET Tags
  PROVE  Cardinality(S) \in 0..Cardinality(Tags)
<1>1. IsFiniteSet(Tags) /\ IsFiniteSet(S) /\ Cardinality(S) <= Cardinality(Tags)
      BY TagAssumption, FS_Subset
<1>2. Cardinality(S) \in Nat /\ Cardinality(Tags) \in Nat
      BY <1>1, FS_CardinalityType
<1> QED BY <1>1, <1>2

TagHistories == totalTags \in 0..Cardinality(Tags) /\ torn \subseteq Tags /\ contested \subseteq Tags

LEMMA TagHistoriesStay ==
  ASSUME TagInv, TagHistories, [TagNext]_tagVars
  PROVE  TagHistories'
<1>1. CASE UNCHANGED tagVars
      BY <1>1 DEF tagVars, TagHistories
<1>2. CASE ReopenTagStore
  <2>1. totalTags' = Cardinality({t \in Tags : Stored(t)}) /\ torn' = {} /\ contested' = {}
        BY <1>2 DEF ReopenTagStore
  <2> QED BY <2>1, SomeOfTheTags DEF TagHistories
<1>3. ASSUME NEW c \in TagClients, CallTagStore(c)
      PROVE  TagHistories'
  <2>1. PICK call \in TagCalls : contested' = contested \cup
            (Touched(call) \cap UNION {Touched(tagCall[d]) : d \in TagClients})
        BY <1>3 DEF CallTagStore
  <2>2. call.op = "clear" \/ call.tag \in Tags
        BY DEF TagCalls
  <2>3. call.at = "statement"
        BY DEF TagCalls
  <2>4. Touched(call) \subseteq Tags
        BY <2>2, <2>3 DEF Touched
  <2>5. UNCHANGED <<totalTags, torn>>
        BY <1>3 DEF CallTagStore
  <2> QED BY <2>1, <2>4, <2>5 DEF TagHistories
<1>4. ASSUME NEW c \in TagClients, StatementFails(c)
      PROVE  TagHistories'
  <2>1. UNCHANGED <<totalTags, contested>>
        BY <1>4 DEF StatementFails
  <2>2. tagCall[c] \in TagCall
        BY DEF TagInv, TagsTyped
  <2>3. tagCall[c].at = "links" => tagCall[c].tag \in Tags
        BY <2>2, TagCallFields
  <2>4. torn' = IF tagCall[c].at = "links" THEN torn \cup {tagCall[c].tag} ELSE torn
        BY <1>4 DEF StatementFails
  <2> QED BY <2>1, <2>3, <2>4 DEF TagHistories
<1>5. ASSUME NEW c \in TagClients, TagStatement(c) \/ CacheTag(c) \/ CacheByDevice(c) \/ CacheByTag(c)
      PROVE  TagHistories'
  <2>1. UNCHANGED <<totalTags, torn, contested>>
        BY <1>5 DEF TagStatement, CacheTag, CacheByDevice, CacheByTag
  <2> QED BY <2>1 DEF TagHistories
<1>6. ASSUME NEW c \in TagClients, UpdateTagStats(c)
      PROVE  TagHistories'
  <2>1. totalTags' = Cardinality({t \in Tags : Cached(t)}) /\ UNCHANGED <<torn, contested>>
        BY <1>6 DEF UpdateTagStats, TagCount
  <2> QED BY <2>1, SomeOfTheTags DEF TagHistories
<1> QED BY <1>1, <1>2, <1>3, <1>4, <1>5, <1>6 DEF TagNext

LEMMA TagStoreTypes ==
  /\ TagInit => TagHistories
  /\ TagInv /\ TagHistories => TagStoreTypeOK
<1>1. ASSUME TagInit PROVE TagHistories
  <2>1. totalTags = 0 /\ torn = {} /\ contested = {}
        BY <1>1 DEF TagInit
  <2>2. Cardinality({}) \in 0..Cardinality(Tags) /\ Cardinality({}) = 0
        BY SomeOfTheTags, FS_EmptySet
  <2> QED BY <2>1, <2>2 DEF TagHistories
<1> QED BY <1>1 DEF TagInv, TagsTyped, NameOrNone, TagHistories, TagStoreTypeOK

LEMMA OverlapsAreOfGroups ==
  /\ GroupInit => overlapped \subseteq Groups
  /\ overlapped \subseteq Groups /\ [GroupNext]_groupVars => overlapped' \subseteq Groups
<1>1. \A op, group : \A c \in GroupClients, g \in Groups :
        BeginGroupCall(c, op, g, group) /\ overlapped \subseteq Groups => overlapped' \subseteq Groups
      BY DEF BeginGroupCall
<1>2. \A c \in GroupClients : CallCreate(c) \/ CallUpdate(c) \/ CallDelete(c) =>
        \E op, group : \E g \in Groups : BeginGroupCall(c, op, g, group)
  <2> SUFFICES ASSUME NEW c \in GroupClients, CallCreate(c) \/ CallUpdate(c) \/ CallDelete(c)
               PROVE  \E op, group : \E g \in Groups : BeginGroupCall(c, op, g, group)
      OBVIOUS
  <2>1. CASE CallCreate(c)
        BY <2>1 DEF CallCreate
  <2>2. CASE CallUpdate(c)
        BY <2>2 DEF CallUpdate, CachedGroups
  <2>3. CASE CallDelete(c)
        BY <2>3 DEF CallDelete, CachedGroups
  <2> QED BY <2>1, <2>2, <2>3
<1>3. \A c \in GroupClients : GroupStatement(c) \/ GroupStatementFails(c) \/ CacheGroup(c)
                              \/ UpdateGroupStats(c) => overlapped' = overlapped
      BY DEF GroupStatement, GroupStatementFails, CacheGroup, UpdateGroupStats
<1>4. ReopenGroupStore => overlapped' = {}
      BY DEF ReopenGroupStore
<1>5. UNCHANGED groupVars => overlapped' = overlapped
      BY DEF groupVars
<1>6. GroupInit => overlapped \subseteq Groups
      BY DEF GroupInit
<1> QED BY <1>1, <1>2, <1>3, <1>4, <1>5, <1>6 DEF GroupNext

LEMMA GroupStoreTypes == GroupInv /\ overlapped \subseteq Groups => GroupStoreTypeOK
  BY DEF GroupInv, GroupsTyped, GroupStoreTypeOK


BatchRow == [status : TaskStatus, progress : Nat, total : Nat]

BatchCall == [op : {"create", "update", "delete"}, id : Tasks, task : Task, left : Seq(ItemStatus),
              step : {"task", "clear", "items", "cache", "stats"}]

(* Whatever calls wrote at once or left half done, rows are rows of tasks   *)
BatchTables ==
  /\ taskRows \in [Tasks -> BatchRow \cup {NoTask}] /\ itemRows \in [Tasks -> Seq(ItemStatus)]
  /\ taskCache \in [Tasks -> Task \cup {NoTask}] /\ damaged \subseteq Tasks
  /\ batchCall \in [BatchClients -> BatchCall \cup {Quiet}]

LEMMA TaskFields ==
  /\ NoTask \notin Task /\ NoTask \notin BatchRow
  /\ \A task \in Task : /\ task.items \in Seq(ItemStatus) /\ Row(task) \in BatchRow
                        /\ task.status \in TaskStatus /\ task.progress \in Nat
                        /\ task.total \in Nat
  /\ \A row \in BatchRow : /\ row.status \in TaskStatus /\ row.progress \in Nat
                           /\ row.total \in Nat
  BY BatchAssumption DEF Task, BatchRow, Row

LEMMA BatchCallIs ==
  /\ Quiet \notin BatchCall /\ Quiet.step = "none"
  /\ \A call \in BatchCall :
       /\ call.op \in {"create", "update", "delete"} /\ call.id \in Tasks
       /\ call.task \in Task /\ call.left \in Seq(ItemStatus)
       /\ call.step \in {"task", "clear", "items", "cache", "stats"}
       /\ \A s \in {"task", "clear", "items", "cache", "stats"} :
            [call EXCEPT !.step = s] \in BatchCall
       /\ \A left \in Seq(ItemStatus) : [call EXCEPT !.left = left] \in BatchCall
<1>1. \A call \in BatchCall : call.step \in {"task", "clear", "items", "cache", "stats"}
      BY DEF BatchCall
<1>2. Quiet.step = "none"
      BY DEF Quiet
<1> QED BY <1>1, <1>2 DEF BatchCall

LEMMA BatchCallBeginsTyped ==
  ASSUME BatchTables, NEW c \in BatchClients, NEW t \in Tasks, NEW task \in Task,
         NEW op \in {"create", "update", "delete"}, BeginBatchCall(c, op, t, task)
  PROVE  BatchTables'
<1> DEFINE call == [op |-> op, id |-> t, task |-> task, left |-> task.items, step |-> "task"]
<1>1. call \in BatchCall
      BY TaskFields DEF BatchCall
<1>2. /\ batchCall' = [batchCall EXCEPT ![c] = call]
      /\ UNCHANGED <<taskRows, itemRows, taskCache>>
      /\ damaged' = IF Writers(t) = {} THEN damaged ELSE damaged \cup {t}
      BY DEF BeginBatchCall
<1> HIDE DEF call
<1> QED BY <1>1, <1>2 DEF BatchTables

(* A step of a call that is under way *)
LEMMA BatchCallMovesTyped ==
  ASSUME BatchTables, NEW c \in BatchClients, batchCall[c].step # "none"
  PROVE  /\ batchCall[c] \in BatchCall
         /\ \A s \in {"task", "clear", "items", "cache", "stats"} :
              Step(c, s) => batchCall' \in [BatchClients -> BatchCall \cup {Quiet}]
         /\ End(c) => batchCall' \in [BatchClients -> BatchCall \cup {Quiet}]
<1>1. batchCall[c] \in BatchCall
      BY BatchCallIs DEF BatchTables
<1>2. ASSUME NEW s \in {"task", "clear", "items", "cache", "stats"}, Step(c, s)
      PROVE  batchCall' \in [BatchClients -> BatchCall \cup {Quiet}]
  <2>1. batchCall' = [batchCall EXCEPT ![c] = [batchCall[c] EXCEPT !.step = s]]
        BY <1>2 DEF Step
  <2>2. [batchCall[c] EXCEPT !.step = s] \in BatchCall
        BY <1>1, BatchCallIs
  <2> QED BY <2>1, <2>2 DEF BatchTables
<1>3. End(c) => batchCall' \in [BatchClients -> BatchCall \cup {Quiet}]
      BY DEF End, BatchTables
<1> QED BY <1>1, <1>2, <1>3

LEMMA BatchTablesStay ==
  ASSUME BatchTables, [BatchNext]_batchVars
  PROVE  BatchTables'
<1>1. CASE UNCHANGED batchVars
      BY <1>1 DEF batchVars, BatchTables
<1>2. CASE ReopenBatchStore
  <2>1. /\ batchCall' = [c \in BatchClients |-> Quiet] /\ taskCache' = Table
        /\ UNCHANGED <<taskRows, itemRows>>
        /\ damaged' = damaged \cup {t \in Tasks : \E c \in Writers(t) :
                                batchCall[c].step \in {"clear", "items"}}
        BY <1>2 DEF ReopenBatchStore
  <2>2. ASSUME NEW t \in Tasks
        PROVE  Table[t] \in Task \cup {NoTask}
    <3>1. taskRows[t] = NoTask \/ taskRows[t] \in BatchRow
          BY DEF BatchTables
    <3>2. itemRows[t] \in Seq(ItemStatus)
          BY DEF BatchTables
    <3>3. taskRows[t] \in BatchRow => Loaded(t) \in Task
          BY <3>2, TaskFields DEF Loaded, Task
    <3> QED BY <3>1, <3>3 DEF Table
  <2>3. Table \in [Tasks -> Task \cup {NoTask}]
        BY <2>2 DEF Table
  <2> QED BY <2>1, <2>3 DEF BatchTables
<1>3. ASSUME NEW c \in BatchClients, CreateTask(c)
      PROVE  BatchTables'
  <2>1. PICK t \in Tasks, task \in GivenTasks \cup {NewTask} : BeginBatchCall(c, "create", t, task)
        BY <1>3 DEF CreateTask
  <2>2. task \in Task
        BY GivenTasksAreTasks
  <2> QED BY <2>1, <2>2, BatchCallBeginsTyped
<1>4. ASSUME NEW c \in BatchClients, UpdateTask(c)
      PROVE  BatchTables'
  <2>1. PICK t \in Tasks :
          \/ /\ taskCache[t] # NoTask
             /\ \E task \in Edited(taskCache[t]) :
                  \/ BeginBatchCall(c, "update", t, task)
                  \/ BeginBatchCall(c, "update", t, UpdateStatus(task))
          \/ \E task \in GivenTasks : BeginBatchCall(c, "update", t, task)
        BY <1>4 DEF UpdateTask
  <2>2. ASSUME NEW task \in GivenTasks, BeginBatchCall(c, "update", t, task)
        PROVE  BatchTables'
        BY <2>2, GivenTasksAreTasks, BatchCallBeginsTyped
  <2>3. ASSUME taskCache[t] # NoTask, NEW edited \in Edited(taskCache[t])
        PROVE  edited \in Task /\ UpdateStatus(edited) \in Task
    <3>1. taskCache[t] \in Task
          BY <2>3 DEF BatchTables
    <3> QED BY <3>1, EditedTasksAreTasks, UpdatedTasksAreTasks
  <2> QED BY <2>1, <2>2, <2>3, BatchCallBeginsTyped
<1>5. ASSUME NEW c \in BatchClients, DeleteTask(c)
      PROVE  BatchTables'
  <2>1. PICK t \in Tasks : taskCache[t] # NoTask /\ BeginBatchCall(c, "delete", t, taskCache[t])
        BY <1>5 DEF DeleteTask
  <2>2. taskCache[t] \in Task
        BY <2>1 DEF BatchTables
  <2> QED BY <2>1, <2>2, BatchCallBeginsTyped
<1>6. ASSUME NEW c \in BatchClients, WriteTask(c)
      PROVE  BatchTables'
  <2> DEFINE call == batchCall[c]
             t == call.id
  <2>1. call \in BatchCall /\ call.step = "task"
        BY <1>6, BatchCallMovesTyped DEF WriteTask
  <2>2. t \in Tasks /\ Row(call.task) \in BatchRow /\ UNCHANGED <<taskCache, damaged>>
        BY <1>6, <2>1, BatchCallIs, TaskFields DEF WriteTask
  <2>3. /\ taskRows' \in {taskRows, [taskRows EXCEPT ![t] = Row(call.task)],
                          [taskRows EXCEPT ![t] = NoTask]}
        /\ itemRows' \in {itemRows, [itemRows EXCEPT ![t] = << >>]}
        /\ Step(c, "items") \/ Step(c, "clear") \/ Step(c, "cache") \/ End(c)
        BY <1>6, <2>1, BatchCallIs DEF WriteTask
  <2>4. batchCall' \in [BatchClients -> BatchCall \cup {Quiet}]
        BY <2>1, <2>3, BatchCallMovesTyped
  <2>5. << >> \in Seq(ItemStatus)
        OBVIOUS
  <2> HIDE DEF call, t
  <2>6. taskRows' \in [Tasks -> BatchRow \cup {NoTask}] /\ itemRows' \in [Tasks -> Seq(ItemStatus)]
        BY <2>2, <2>3, <2>5 DEF BatchTables
  <2> QED BY <2>2, <2>4, <2>6 DEF BatchTables
<1>7. ASSUME NEW c \in BatchClients, ClearItems(c)
      PROVE  BatchTables'
  <2>1. batchCall[c].step = "clear" /\ Step(c, "items")
        /\ itemRows' = [itemRows EXCEPT ![batchCall[c].id] = << >>]
        /\ UNCHANGED <<taskRows, taskCache, damaged>>
        BY <1>7 DEF ClearItems
  <2>2. batchCall' \in [BatchClients -> BatchCall \cup {Quiet}]
        BY <2>1, BatchCallMovesTyped
  <2>3. << >> \in Seq(ItemStatus)
        OBVIOUS
  <2> QED BY <2>1, <2>2, <2>3 DEF BatchTables
<1>8. ASSUME NEW c \in BatchClients, InsertItem(c)
      PROVE  BatchTables'
  <2> DEFINE call == batchCall[c]
  <2>1. call.step = "items" /\ call \in BatchCall /\ UNCHANGED <<taskRows, taskCache, damaged>>
        BY <1>8, BatchCallMovesTyped DEF InsertItem
  <2>2. call.left \in Seq(ItemStatus) /\ call.id \in Tasks
        BY <2>1, BatchCallIs
  <2>3. CASE (Step(c, "cache") \/ End(c)) /\ UNCHANGED itemRows
        BY <2>1, <2>3, BatchCallMovesTyped DEF BatchTables
  <2>4. CASE /\ call.left # << >>
             /\ itemRows' = [itemRows EXCEPT ![call.id] = Append(@, Head(call.left))]
             /\ batchCall' = [batchCall EXCEPT ![c].left = Tail(call.left)]
    <3>1. Head(call.left) \in ItemStatus /\ Tail(call.left) \in Seq(ItemStatus)
          BY <2>2, <2>4
    <3>2. [call EXCEPT !.left = Tail(call.left)] \in BatchCall
          BY <2>1, <3>1, BatchCallIs
    <3>3. batchCall' = [batchCall EXCEPT ![c] = [call EXCEPT !.left = Tail(call.left)]]
          BY <2>4
    <3>4. itemRows[call.id] \in Seq(ItemStatus)
          BY <2>2 DEF BatchTables
    <3>5. Append(itemRows[call.id], Head(call.left)) \in Seq(ItemStatus)
          BY <3>1, <3>4
    <3> HIDE DEF call
    <3>6. batchCall' \in [BatchClients -> BatchCall \cup {Quiet}]
          BY <3>2, <3>3 DEF BatchTables
    <3>7. itemRows' \in [Tasks -> Seq(ItemStatus)]
          BY <2>2, <2>4, <3>5 DEF BatchTables
    <3> QED BY <2>1, <3>6, <3>7 DEF BatchTables
  <2> QED BY <1>8, <2>3, <2>4 DEF InsertItem
<1>9. ASSUME NEW c \in BatchClients, BatchStatementFails(c)
      PROVE  BatchTables'
  <2>1. batchCall[c].step \in {"task", "clear", "items"} /\ End(c)
        /\ UNCHANGED <<taskRows, itemRows, taskCache>>
        /\ damaged' \in {damaged, damaged \cup {batchCall[c].id}}
        BY <1>9 DEF BatchStatementFails
  <2>2. batchCall[c] \in BatchCall /\ batchCall' \in [BatchClients -> BatchCall \cup {Quiet}]
        BY <2>1, BatchCallMovesTyped
  <2>3. batchCall[c].id \in Tasks
        BY <2>2, BatchCallIs
  <2> QED BY <2>1, <2>2, <2>3 DEF BatchTables
<1>10. ASSUME NEW c \in BatchClients, CacheTask(c)
       PROVE  BatchTables'
  <2>1. batchCall[c].step = "cache" /\ UNCHANGED <<taskRows, itemRows, damaged>>
        BY <1>10 DEF CacheTask
  <2>2. batchCall[c] \in BatchCall
        BY <2>1, BatchCallMovesTyped
  <2>3. batchCall[c].id \in Tasks /\ batchCall[c].task \in Task
        BY <2>2, BatchCallIs
  <2>4. Step(c, "stats") \/ End(c)
        BY <1>10 DEF CacheTask
  <2>5. batchCall' \in [BatchClients -> BatchCall \cup {Quiet}]
        BY <2>1, <2>4, BatchCallMovesTyped
  <2>6. \E new \in {NoTask, batchCall[c].task} :
          taskCache' \in {taskCache, [taskCache EXCEPT ![batchCall[c].id] = new]}
        BY <1>10 DEF CacheTask
  <2>7. taskCache' \in [Tasks -> Task \cup {NoTask}]
        BY <2>3, <2>6 DEF BatchTables
  <2> QED BY <2>1, <2>5, <2>7 DEF BatchTables
<1>11. ASSUME NEW c \in BatchClients, UpdateBatchStats(c)
       PROVE  BatchTables'
  <2>1. batchCall[c].step = "stats" /\ End(c) /\ UNCHANGED <<taskRows, itemRows, taskCache, damaged>>
        BY <1>11 DEF UpdateBatchStats
  <2>2. batchCall' \in [BatchClients -> BatchCall \cup {Quiet}]
        BY <2>1, BatchCallMovesTyped
  <2> QED BY <2>1, <2>2 DEF BatchTables
<1> QED BY <1>1, <1>2, <1>3, <1>4, <1>5, <1>6, <1>7, <1>8, <1>9, <1>10, <1>11 DEF BatchNext

LEMMA BatchStoreTypes ==
  /\ BatchInit => BatchTables
  /\ BatchTables => BatchStoreTypeOK
<1>1. ASSUME BatchInit PROVE BatchTables
  <2>1. << >> \in Seq(ItemStatus)
        OBVIOUS
  <2> QED BY <1>1, <2>1 DEF BatchInit, BatchTables
<1>2. ASSUME BatchTables PROVE BatchStoreTypeOK
  <2>1. ASSUME NEW t \in Tasks, NEW task \in {Table[t], taskCache[t]} \ {NoTask}
        PROVE  /\ task.status \in TaskStatus /\ task.progress \in Nat
               /\ \A i \in DOMAIN task.items : task.items[i] \in ItemStatus
    <3>1. taskCache[t] \in Task \cup {NoTask} /\ taskRows[t] \in BatchRow \cup {NoTask}
          /\ itemRows[t] \in Seq(ItemStatus)
          BY <1>2 DEF BatchTables
    <3>2. \A items \in Seq(ItemStatus) : \A i \in DOMAIN items : items[i] \in ItemStatus
          OBVIOUS
    <3>3. CASE task = taskCache[t]
          BY <3>1, <3>2, <3>3, TaskFields
    <3>4. CASE task = Table[t]
      <4>1. task = Loaded(t) /\ taskRows[t] \in BatchRow
            BY <2>1, <3>1, <3>4 DEF Table
      <4>2. task.items = itemRows[t] /\ task.status = taskRows[t].status
            /\ task.progress = taskRows[t].progress
            BY <4>1 DEF Loaded
      <4> QED BY <3>1, <3>2, <4>1, <4>2, TaskFields
    <3> QED BY <3>3, <3>4
  <2> QED BY <1>2, <2>1 DEF BatchTables, BatchStoreTypeOK
<1> QED BY <1>1, <1>2

(* Whatever calls wrote at once, failed half way or were cut off by a       *)
(* restart, the three stores keep their tables, caches and calls typed.     *)
THEOREM StoresAreTyped == StoresSpec => [](TagStoreTypeOK /\ GroupStoreTypeOK /\ BatchStoreTypeOK)
<1> DEFINE Types == /\ TagInv /\ TagHistories /\ GroupInv /\ overlapped \subseteq Groups
                    /\ BatchTables
<1>1. StoresInit => Types
      BY TagInvInductive, GroupInvInductive, TagStoreTypes, OverlapsAreOfGroups, BatchStoreTypes
      DEF StoresInit
<1>2. Types /\ [StoresNext]_<<tagVars, groupVars, batchVars>> => Types'
  <2> SUFFICES ASSUME Types, [StoresNext]_<<tagVars, groupVars, batchVars>>
               PROVE  Types'
      OBVIOUS
  <2>1. [TagNext]_tagVars /\ [GroupNext]_groupVars /\ [BatchNext]_batchVars
        BY DEF StoresNext
  <2>2. TagInv' /\ TagHistories'
        BY <2>1, TagInvInductive, TagHistoriesStay
  <2>3. GroupInv' /\ overlapped' \subseteq Groups
        BY <2>1, GroupInvInductive, OverlapsAreOfGroups
  <2>4. BatchTables'
        BY <2>1, BatchTablesStay
  <2> QED BY <2>2, <2>3, <2>4
<1>3. Types => TagStoreTypeOK /\ GroupStoreTypeOK /\ BatchStoreTypeOK
      BY TagStoreTypes, GroupStoreTypes, BatchStoreTypes
<1> QED BY <1>1, <1>2, <1>3, PTL DEF StoresSpec

===============================================================================
