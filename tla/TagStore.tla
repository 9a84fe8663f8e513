------------------------------- MODULE TagStore -------------------------------
(***************************************************************************)
(* TagStore of src/src/tags_store.rs: the tables tags and device_tags, the *)
(* in-memory caches in front of them, and several threads that call the    *)
(* store at once.  Every call opens a connection of its own and takes each *)
(* cache lock by itself, so one call is a sequence of steps: a statement,  *)
(* sometimes a second one, and then a cache step per lock.                 *)
(*                                                                         *)
(* A tag is its id and its name (the column that is UNIQUE); description,  *)
(* colour and times are not told apart.  A cached assignment is counted:   *)
(* the lists hold one entry per insert, duplicates included.               *)
(***************************************************************************)
EXTENDS Naturals, FiniteSets, FiniteSetsExt

CONSTANTS
  Tags,         \* tag ids
  TagNames,     \* tag names
  Devices,      \* device ids
  TagClients,   \* threads that call the store
  NoTag,        \* absent from a table or a cache
  MaxTagOps,    \* bound: calls
  MaxTagFaults, \* bound: statements that fail
  MaxTagRestarts \* bound: restarts

ASSUME TagAssumption == NoTag \notin TagNames /\ IsFiniteSet(Tags)

VARIABLES
  tagRows,      \* table tags: id -> name
  links,        \* table device_tags: <<device, tag>>
  tagCache,     \* TagCache.tags
  totalTags,    \* TagCache.stats.total_tags
  byDevice,     \* DeviceTagCache.device_tags: entries per <<device, tag>>
  byTag,        \* DeviceTagCache.tag_devices: entries per <<device, tag>>
  tagCall,      \* client -> its call and the step it is at
  torn,         \* history: ids whose second statement failed
  contested,    \* history: ids that two calls were working on at once
  tagBudget     \* calls, faults and restarts so far

tables == <<tagRows, links>>
tagVars == <<tagRows, links, tagCache, totalTags, byDevice, byTag, tagCall,
             torn, contested, tagBudget>>

Pairs == Devices \X Tags
Free == [at |-> "free"]

(* migrate_tag_device_schema and init_db: the table under its old name is  *)
(* taken over only when none has the new name; without either, a new one.  *)
Opened(station, device) == IF device # NoTag THEN device
                           ELSE IF station # NoTag THEN station ELSE {}

Listed(rows) == [p \in Pairs |-> IF p \in rows THEN 1 ELSE 0]

TagInit ==
  /\ tagRows = [t \in Tags |-> NoTag]
  /\ \E station, device \in {NoTag} \cup {{p} : p \in Pairs} :
       links = Opened(station, device)
  /\ tagCache = tagRows /\ totalTags = 0
  /\ byDevice = Listed(links) /\ byTag = Listed(links)
  /\ tagCall = [c \in TagClients |-> Free]
  /\ torn = {} /\ contested = {}
  /\ tagBudget = [calls |-> 0, faults |-> 0, restarts |-> 0]
-----------------------------------------------------------------------------
(* The calls, and the ids each of them works on *)
Stored(t) == tagRows[t] # NoTag
Cached(t) == tagCache[t] # NoTag

Touched(call) ==
  CASE call.at = "free" -> {}
    [] call.at # "free" /\ call.op = "clear" -> Tags
    [] OTHER -> {call.tag}

OnTag(t) == \E c \in TagClients : /\ tagCall[c] # Free
                                  /\ tagCall[c].op \in {"create", "update", "delete"}
                                  /\ tagCall[c].tag = t

(* Callers create ids of their own, and change only tags they can read. *)
TagCalls ==
  [op : {"create"}, tag : {t \in Tags : ~Stored(t) /\ ~Cached(t) /\ ~OnTag(t)},
   name : TagNames, at : {"statement"}]
  \cup [op : {"update"}, tag : {t \in Tags : Cached(t)}, name : TagNames,
        at : {"statement"}]
  \cup [op : {"delete"}, tag : {t \in Tags : Cached(t)}, at : {"statement"}]
  \cup [op : {"assign", "unassign"}, tag : Tags, device : Devices, at : {"statement"}]
  \cup [op : {"clear"}, device : Devices, at : {"statement"}]

CallTagStore(c) ==
  /\ tagCall[c] = Free /\ tagBudget.calls < MaxTagOps
  /\ tagBudget' = [tagBudget EXCEPT !.calls = @ + 1]
  /\ \E call \in TagCalls :
       /\ tagCall' = [tagCall EXCEPT ![c] = call]
       /\ contested' = contested \cup
            (Touched(call) \cap UNION {Touched(tagCall[d]) : d \in TagClients})
  /\ UNCHANGED <<tables, tagCache, totalTags, byDevice, byTag, torn>>

At(c, op, step) == tagCall[c].at = step /\ tagCall[c].op = op
Go(c, step) == tagCall' = [tagCall EXCEPT ![c].at = step]
Answer(c) == tagCall' = [tagCall EXCEPT ![c] = Free]

(* A failed statement ends the call with an error. *)
StatementFails(c) ==
  /\ tagCall[c].at \in {"statement", "links"}
  /\ tagBudget.faults < MaxTagFaults
  /\ tagBudget' = [tagBudget EXCEPT !.faults = @ + 1]
  /\ torn' = IF tagCall[c].at = "links" THEN torn \cup {tagCall[c].tag} ELSE torn
  /\ Answer(c)
  /\ UNCHANGED <<tables, tagCache, totalTags, byDevice, byTag, contested>>
-----------------------------------------------------------------------------
(* Statements *)
NameFree(t, n) == \A u \in Tags \ {t} : tagRows[u] # n

InsertTag(c) ==
  LET call == tagCall[c] IN
  /\ At(c, "create", "statement")
  /\ IF NameFree(call.tag, call.name)
     THEN tagRows' = [tagRows EXCEPT ![call.tag] = call.name] /\ Go(c, "cache")
     ELSE UNCHANGED tagRows /\ Answer(c)
  /\ UNCHANGED links

UpdateTag(c) ==
  LET call == tagCall[c] IN
  /\ At(c, "update", "statement")
  /\ IF Stored(call.tag) /\ NameFree(call.tag, call.name)
     THEN tagRows' = [tagRows EXCEPT ![call.tag] = call.name] /\ Go(c, "cache")
     ELSE UNCHANGED tagRows /\ Answer(c)
  /\ UNCHANGED links

DeleteTag(c) ==
  LET call == tagCall[c] IN
  \/ /\ At(c, "delete", "statement")
     /\ tagRows' = [tagRows EXCEPT ![call.tag] = NoTag]
     /\ IF Stored(call.tag) THEN Go(c, "links") ELSE Answer(c)
     /\ UNCHANGED links
  \/ /\ At(c, "delete", "links")
     /\ links' = {p \in links : p[2] # call.tag}
     /\ Go(c, "cache")
     /\ UNCHANGED tagRows

AssignTag(c) ==
  /\ At(c, "assign", "statement")
  /\ links' = links \cup {<<tagCall[c].device, tagCall[c].tag>>}
  /\ Go(c, "byDevice") /\ UNCHANGED tagRows

UnassignTag(c) ==
  LET p == <<tagCall[c].device, tagCall[c].tag>> IN
  /\ At(c, "unassign", "statement")
  /\ links' = links \ {p}
  /\ IF p \in links THEN Go(c, "byDevice") ELSE Answer(c)
  /\ UNCHANGED tagRows

ClearDevice(c) ==
  /\ At(c, "clear", "statement")
  /\ links' = {p \in links : p[1] # tagCall[c].device}
  /\ Go(c, "byDevice") /\ UNCHANGED tagRows

TagStatement(c) ==
  /\ InsertTag(c) \/ UpdateTag(c) \/ DeleteTag(c)
     \/ AssignTag(c) \/ UnassignTag(c) \/ ClearDevice(c)
  /\ UNCHANGED <<tagCache, totalTags, byDevice, byTag, torn, contested, tagBudget>>
-----------------------------------------------------------------------------
(* Cache steps, one per lock *)
CacheInsert(t, n) == [tagCache EXCEPT ![t] = n]

CacheUpdate(t, n) == IF Cached(t) THEN [tagCache EXCEPT ![t] = n] ELSE tagCache
CacheRemove(t) == [tagCache EXCEPT ![t] = NoTag]
TagCount == Cardinality({t \in Tags : Cached(t)})

CacheTag(c) ==
  LET call == tagCall[c] IN
  /\ call.at = "cache"
  /\ tagCache' = CASE call.op = "create" -> CacheInsert(call.tag, call.name)
                   [] call.op = "update" -> CacheUpdate(call.tag, call.name)
                   [] call.op = "delete" -> CacheRemove(call.tag)
  /\ IF call.op = "create" \/ Cached(call.tag) THEN Go(c, "stats") ELSE Answer(c)
  /\ UNCHANGED <<tables, totalTags, byDevice, byTag, torn, contested, tagBudget>>

UpdateTagStats(c) ==
  /\ tagCall[c].at = "stats"
  /\ totalTags' = TagCount
  /\ Answer(c)
  /\ UNCHANGED <<tables, tagCache, byDevice, byTag, torn, contested, tagBudget>>

Without(lists, ps) == [p \in Pairs |-> IF p \in ps THEN 0 ELSE lists[p]]

(* insert pushes, remove takes out the first entry it finds, and           *)
(* remove_by_device the whole list of the device.                          *)
PushByDevice(c) ==
  LET p == <<tagCall[c].device, tagCall[c].tag>> IN
  /\ At(c, "assign", "byDevice")
  /\ byDevice' = [byDevice EXCEPT ![p] = @ + 1]
  /\ Go(c, "byTag")

PopByDevice(c) ==
  LET p == <<tagCall[c].device, tagCall[c].tag>> IN
  /\ At(c, "unassign", "byDevice")
  /\ IF byDevice[p] > 0
     THEN byDevice' = [byDevice EXCEPT ![p] = @ - 1] /\ Go(c, "byTag")
     ELSE UNCHANGED byDevice /\ Answer(c)

TakeDevice(c) ==
  LET gone == {p \in Pairs : p[1] = tagCall[c].device /\ byDevice[p] > 0} IN
  /\ At(c, "clear", "byDevice")
  /\ byDevice' = Without(byDevice, gone)
  /\ tagCall' = [tagCall EXCEPT ![c] = [op |-> "clear", device |-> @.device,
                                        at |-> "byTag", gone |-> gone]]

CacheByDevice(c) ==
  /\ PushByDevice(c) \/ PopByDevice(c) \/ TakeDevice(c)
  /\ UNCHANGED <<tables, tagCache, totalTags, byTag, torn, contested, tagBudget>>

(* Mutant: DeviceTagCache::remove forgets to compare the device. *)
RetainedByTag(d, t) == Without(byTag, {p \in Pairs : p[2] = t})

Retained(d, t) == Without(byTag, {<<d, t>>})

CacheByTag(c) ==
  LET call == tagCall[c] IN
  /\ call.at = "byTag"
  /\ byTag' = CASE call.op = "assign" -> [byTag EXCEPT ![<<call.device, call.tag>>] = @ + 1]
                [] call.op = "unassign" -> Retained(call.device, call.tag)
                [] call.op = "clear" -> Without(byTag, call.gone)
  /\ Answer(c)
  /\ UNCHANGED <<tables, tagCache, totalTags, byDevice, torn, contested, tagBudget>>

(* A restart of the agent: calls end where they are, and load_from_db      *)
(* fills the caches from the tables.                                       *)
ReopenTagStore ==
  /\ tagBudget.restarts < MaxTagRestarts
  /\ tagBudget' = [tagBudget EXCEPT !.restarts = @ + 1]
  /\ tagCall' = [c \in TagClients |-> Free]
  /\ tagCache' = tagRows /\ totalTags' = Cardinality({t \in Tags : Stored(t)})
  /\ byDevice' = Listed(links) /\ byTag' = Listed(links)
  /\ torn' = {} /\ contested' = {}
  /\ UNCHANGED tables

TagNext ==
  \/ ReopenTagStore
  \/ \E c \in TagClients :
       \/ CallTagStore(c) \/ StatementFails(c) \/ TagStatement(c)
       \/ CacheTag(c) \/ UpdateTagStats(c) \/ CacheByDevice(c) \/ CacheByTag(c)
-----------------------------------------------------------------------------
(* What the readers of the store get: get_tag, get_all_tags and filter_tags
   choose from the tag cache; get_tags_for_device, get_devices_for_tag and
   filter_device_tags from the two lists.  Sorting and paging cut the answer
   and are left out. *)
FilterTags(ns) == {t \in Tags : tagCache[t] \in ns}
TagsForDevice(d) == {t \in Tags : byDevice[<<d, t>>] > 0}
DevicesForTag(t) == {d \in Devices : byTag[<<d, t>>] > 0}

TagStoreAtRest == \A c \in TagClients : tagCall[c] = Free

TagStoreTypeOK ==
  /\ tagRows \in [Tags -> TagNames \cup {NoTag}]
  /\ tagCache \in [Tags -> TagNames \cup {NoTag}]
  /\ links \subseteq Pairs /\ totalTags \in 0..Cardinality(Tags)
  /\ byDevice \in [Pairs -> Nat] /\ byTag \in [Pairs -> Nat]
  /\ torn \subseteq Tags /\ contested \subseteq Tags

(* When no call is in progress, readers see exactly the stored tags, and   *)
(* under the stored names unless two calls worked on a tag at once; the    *)
(* only exception is a tag whose delete failed between its statements.     *)
(* A stored assignment is found from its device and from its tag, unless   *)
(* two calls worked on that tag at once.  The reverse fails even in        *)
(* sequence: assigning twice leaves two entries and remove takes one, and  *)
(* delete_tag cleans the table and not the lists.                          *)
TagsAgree == TagStoreAtRest =>
  /\ totalTags = TagCount
  /\ \A t \in Tags \ torn :
       /\ Stored(t) <=> t \in FilterTags(TagNames)
       /\ t \notin contested => tagCache[t] = tagRows[t]
  /\ \A l \in links : l[2] \notin contested =>
       l[2] \in TagsForDevice(l[1]) /\ l[1] \in DevicesForTag(l[2])
=============================================================================
