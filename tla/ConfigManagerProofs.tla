------------------------- MODULE ConfigManagerProofs -------------------------
(* Theorems about ConfigManager, for any keys, writers, watchers and bounds *)
EXTENDS ConfigManager, TLAPS

Content == [value : Values \cup {Null}, version : 0..MaxVersion]

Task ==
  {Resting}
    \cup [at : {"look"}, key : Keys]
    \cup [at : {"remove"}, key : Keys, existed : {"yes", "no"}]
    \cup [at : {"persist", "publish"}, write : Write]

Holding == [Keys -> Write \cup {Absent}]

Stream ==
  [st : {"open", "lagged"}, next : Nat \ {0}, from : Nat, pipe : Seq(Write), held : Holding]

WritersTyped ==
  /\ version \in 0..MaxVersion
  /\ memory \in [Keys -> Content]
  /\ rows \subseteq Write
  /\ task \in [Writers -> Task]
  /\ log \in Seq(Write)
  /\ unstored \subseteq Write
  /\ restarts \in Nat

-----------------------------------------------------------------------------
(* What the steps of a writer do *)

LEMMA BoundsAre == MaxVersion \in Nat /\ Null \notin Values /\ Watched \subseteq Keys
  BY ConfigAssumption

LEMMA TaskFields ==
  ASSUME NEW t \in Task
  PROVE  /\ t.at \in {"persist", "publish"} => t.write \in Write /\ t = [at |-> t.at, write |-> t.write]
         /\ t.at \in {"look", "remove"} => t.key \in Keys
         /\ Resting.at = "rest"
  BY DEF Task, Resting

LEMMA WriteFields ==
  ASSUME NEW r \in Write
  PROVE  r.key \in Keys /\ r.value \in Values \cup {Null} /\ r.version \in Nat /\ r.version >= 1
         /\ r = [key |-> r.key, value |-> r.value, version |-> r.version]
  BY DEF Write, Version

(* A write r is at a step of its writer *)
Doing(tasks, steps, r) == \E w \in Writers : tasks[w].at \in steps /\ tasks[w].write = r

(* A new version is made under the lock of the map: by set, or by delete,   *)
(* which goes no further when there was nothing to remove                   *)
Bump(w) == (\E k \in Keys, v \in Values : Set(w, k, v)) \/ Remove(w)

Bumped(w, k, r) ==
  /\ k \in Keys /\ r \in Write /\ r.key = k
  /\ version < MaxVersion /\ r.version = version + 1 /\ version' = version + 1
  /\ memory' \in [Keys -> Content]
  /\ \A j \in Keys : j # k => memory'[j] = memory[j]
  /\ task' \in [Writers -> Task]
  /\ \A u \in Writers : u # w => task'[u] = task[u]
  /\ task[w].at \in {"rest", "remove"}
  /\ \/ /\ task'[w] = [at |-> "persist", write |-> r]
        /\ memory'[k].value = r.value /\ memory'[k].version <= r.version
     \/ task'[w] = Resting /\ memory'[k] = memory[k]
  /\ UNCHANGED <<rows, log, watch, restarts, unstored>>

LEMMA BumpIs ==
  ASSUME WritersTyped, NEW w \in Writers, Bump(w)
  PROVE  \E k \in Keys, r \in Write : Bumped(w, k, r)
<1>0. /\ version \in Nat /\ version <= MaxVersion /\ MaxVersion \in Nat
      /\ memory \in [Keys -> Content] /\ task \in [Writers -> Task] /\ task[w] \in Task
      BY BoundsAre DEF WritersTyped
<1>1. ASSUME NEW k \in Keys, NEW v \in Values, Set(w, k, v)
      PROVE  \E r \in Write : Bumped(w, k, r)
  <2> DEFINE r == [key |-> k, value |-> v, version |-> version + 1]
             c == [value |-> v, version |-> version + 1]
             t == [at |-> "persist", write |-> r]
  <2>1. /\ task[w].at = "rest" /\ version < MaxVersion /\ version' = version + 1
        /\ memory' = [memory EXCEPT ![k] = c] /\ task' = [task EXCEPT ![w] = t]
        /\ UNCHANGED <<rows, log, watch, restarts, unstored>>
        BY <1>1 DEF Set, At
  <2>2. /\ r \in Write /\ r.key = k /\ r.value = v /\ r.version = version + 1
        /\ c \in Content /\ c.value = v /\ c.version = version + 1
        BY <1>0, <2>1 DEF Write, Version, Content
  <2>3. t \in Task
        BY <2>2 DEF Task
  <2> HIDE DEF r, c
  <2>4. /\ memory' \in [Keys -> Content] /\ memory'[k] = c
        /\ \A j \in Keys : j # k => memory'[j] = memory[j]
        BY <1>0, <2>1, <2>2
  <2>5. /\ task' \in [Writers -> Task] /\ task'[w] = t
        /\ \A u \in Writers : u # w => task'[u] = task[u]
        BY <1>0, <2>1, <2>3
  <2>6. memory'[k].value = r.value /\ memory'[k].version <= r.version
        BY <1>0, <2>2, <2>4
  <2>7. Bumped(w, k, r)
        BY <1>0, <2>1, <2>2, <2>4, <2>5, <2>6 DEF Bumped
  <2> QED BY <2>2, <2>7
<1>2. CASE Remove(w)
  <2> DEFINE k == task[w].key
             r == [key |-> k, value |-> Null, version |-> version + 1]
             t == IF memory[k] # Absent \/ task[w].existed = "yes"
                    THEN [at |-> "persist", write |-> r] ELSE Resting
  <2>1. /\ task[w].at = "remove" /\ version < MaxVersion /\ version' = version + 1
        /\ memory' = [memory EXCEPT ![k] = Absent] /\ task' = [task EXCEPT ![w] = t]
        /\ UNCHANGED <<rows, log, watch, restarts, unstored>>
        BY <1>0, <1>2 DEF Remove, At
  <2>2. k \in Keys
        BY <1>0, <2>1, TaskFields
  <2>3. /\ r \in Write /\ r.key = k /\ r.value = Null /\ r.version = version + 1
        BY <1>0, <2>1, <2>2 DEF Write, Version
  <2>4. Absent \in Content /\ Absent.value = Null /\ Absent.version = 0
        BY <1>0 DEF Absent, Content
  <2>5. t \in Task
        BY <2>3 DEF Task
  <2>6. t = [at |-> "persist", write |-> r] \/ (t = Resting /\ memory[k] = Absent)
        OBVIOUS
  <2> HIDE DEF r, t, k
  <2>7. /\ memory' \in [Keys -> Content] /\ memory'[k] = Absent
        /\ \A j \in Keys : j # k => memory'[j] = memory[j]
        BY <1>0, <2>1, <2>2, <2>4
  <2>8. /\ task' \in [Writers -> Task] /\ task'[w] = t
        /\ \A u \in Writers : u # w => task'[u] = task[u]
        BY <1>0, <2>1, <2>5
  <2>9. memory'[k].value = r.value /\ memory'[k].version <= r.version
        BY <1>0, <2>3, <2>4, <2>7
  <2>10. task'[w] = [at |-> "persist", write |-> r] \/ (task'[w] = Resting /\ memory'[k] = memory[k])
        BY <2>6, <2>7, <2>8
  <2> QED BY <1>0, <2>1, <2>2, <2>3, <2>7, <2>8, <2>9, <2>10 DEF Bumped
<1> QED BY <1>1, <1>2 DEF Bump

(* Deleting begins with two looks, which change nothing but the task *)
Looked(w) ==
  /\ task' \in [Writers -> Task]
  /\ \A u \in Writers : u # w => task'[u] = task[u]
  /\ task[w].at \in {"rest", "look"} /\ task'[w].at \in {"look", "remove"}
  /\ UNCHANGED <<version, memory, rows, log, watch, restarts, unstored>>

LEMMA LookIs ==
  ASSUME WritersTyped, NEW w \in Writers, LookInMemory(w) \/ \E k \in Keys : Delete(w, k)
  PROVE  Looked(w)
<1>0. task \in [Writers -> Task] /\ task[w] \in Task
      BY DEF WritersTyped
<1>1. ASSUME NEW t \in Task, t.at \in {"look", "remove"}, task[w].at \in {"rest", "look"},
             task' = [task EXCEPT ![w] = t],
             UNCHANGED <<version, memory, rows, log, watch, restarts, unstored>>
      PROVE  Looked(w)
      BY <1>0, <1>1 DEF Looked
<1>2. ASSUME NEW k \in Keys, Delete(w, k)
      PROVE  Looked(w)
  <2> DEFINE t == IF RowsOf(k) = {}
                    THEN [at |-> "look", key |-> k]
                    ELSE [at |-> "remove", key |-> k, existed |-> Existed(Latest(k).value)]
  <2>1. t \in Task /\ t.at \in {"look", "remove"}
        BY DEF Task, Existed
  <2>2. /\ task[w].at = "rest" /\ task' = [task EXCEPT ![w] = t]
        /\ UNCHANGED <<version, memory, rows, log, watch, restarts, unstored>>
        BY <1>2 DEF Delete, At
  <2> HIDE DEF t
  <2> QED BY <2>1, <2>2, <1>1
<1>3. CASE LookInMemory(w)
  <2> DEFINE k == task[w].key
             t == [at |-> "remove", key |-> k, existed |-> Existed(memory[k].value)]
  <2>1. task[w].at = "look" /\ task' = [task EXCEPT ![w] = t]
        /\ UNCHANGED <<version, memory, rows, log, watch, restarts, unstored>>
        BY <1>0, <1>3 DEF LookInMemory, At
  <2>2. k \in Keys
        BY <1>0, <2>1, TaskFields
  <2>3. t \in Task /\ t.at \in {"look", "remove"}
        BY <2>2 DEF Task, Existed
  <2> HIDE DEF t
  <2> QED BY <2>1, <2>3, <1>1
<1> QED BY <1>2, <1>3

(* A write reaches the store under a version of its own, or not at all *)
Persisted(w, r) ==
  /\ r \in Write /\ task[w] = [at |-> "persist", write |-> r]
  /\ task' \in [Writers -> Task] /\ task'[w] = [at |-> "publish", write |-> r]
  /\ \A u \in Writers : u # w => task'[u] = task[u]
  /\ \/ /\ \A s \in rows : s.key # r.key \/ s.version # r.version
        /\ rows' = rows \cup {r} /\ unstored' = unstored
     \/ rows' = rows /\ unstored' = unstored \cup {r}
  /\ UNCHANGED <<version, memory, log, watch, restarts>>

LEMMA PersistIs ==
  ASSUME WritersTyped, NEW w \in Writers, Persist(w)
  PROVE  \E r \in Write : Persisted(w, r)
<1>0. task \in [Writers -> Task] /\ task[w] \in Task /\ task[w].at = "persist"
      BY DEF WritersTyped, Persist, At
<1> DEFINE r == task[w].write
           t == [at |-> "publish", write |-> r]
<1>1. r \in Write /\ task[w] = [at |-> "persist", write |-> r]
      BY <1>0, TaskFields
<1>2. [task[w] EXCEPT !.at = "publish"] = t
      BY <1>1
<1>3. task' = [task EXCEPT ![w] = t]
      BY <1>0, <1>2 DEF Persist
<1>4. t \in Task
      BY <1>1 DEF Task
<1>5. /\ \/ /\ \A s \in rows : s.key # r.key \/ s.version # r.version
            /\ rows' = rows \cup {r} /\ unstored' = unstored
         \/ rows' = rows /\ unstored' = unstored \cup {r}
      /\ UNCHANGED <<version, memory, log, watch, restarts>>
      BY DEF Persist
<1> HIDE DEF r, t
<1>6. task' \in [Writers -> Task] /\ task'[w] = t /\ \A u \in Writers : u # w => task'[u] = task[u]
      BY <1>0, <1>3, <1>4
<1> QED BY <1>1, <1>5, <1>6 DEF Persisted, t

Published(w, r) ==
  /\ r \in Write /\ task[w] = [at |-> "publish", write |-> r]
  /\ task' \in [Writers -> Task] /\ task'[w] = Resting
  /\ \A u \in Writers : u # w => task'[u] = task[u]
  /\ log' = Append(log, r)
  /\ UNCHANGED <<version, memory, rows, watch, restarts, unstored>>

LEMMA PublishIs ==
  ASSUME WritersTyped, NEW w \in Writers, Publish(w)
  PROVE  \E r \in Write : Published(w, r)
<1>0. task \in [Writers -> Task] /\ task[w] \in Task /\ task[w].at = "publish"
      BY DEF WritersTyped, Publish, At
<1>1. task[w].write \in Write /\ task[w] = [at |-> "publish", write |-> task[w].write]
      BY <1>0, TaskFields
<1>2. Resting \in Task
      BY DEF Task
<1>3. /\ task' = [task EXCEPT ![w] = Resting] /\ log' = Append(log, task[w].write)
      /\ UNCHANGED <<version, memory, rows, watch, restarts, unstored>>
      BY DEF Publish
<1>4. /\ task' \in [Writers -> Task] /\ task'[w] = Resting
      /\ \A u \in Writers : u # w => task'[u] = task[u]
      BY <1>0, <1>2, <1>3
<1> QED BY <1>1, <1>3, <1>4 DEF Published

(* Every step of a writer is one of the four *)
LEMMA WriterIs ==
  ASSUME WritersTyped, NEW w \in Writers, Writer(w)
  PROVE  \/ \E k \in Keys, r \in Write : Bumped(w, k, r)
         \/ Looked(w)
         \/ \E r \in Write : Persisted(w, r)
         \/ \E r \in Write : Published(w, r)
  BY BumpIs, LookIs, PersistIs, PublishIs DEF Writer, Bump

-----------------------------------------------------------------------------
(* The store                                                                *)

Newest(S, r) == r \in S /\ \A s \in S : s.version <= r.version

MaxOf(S) == CHOOSE r \in S : \A s \in S : s.version <= r.version

LEMMA MaxIs ==
  ASSUME NEW S, NEW r, Newest(S, r)
  PROVE  Newest(S, MaxOf(S))
  BY DEF Newest, MaxOf

LEMMA LatestIs ==
  ASSUME NEW k
  PROVE  Latest(k) = MaxOf(RowsOf(k)) /\ Latest(k)' = MaxOf(RowsOf(k)')
  BY DEF Latest, MaxOf

(* A row joins: it is the newest, or the newest stays *)
LEMMA NewestJoins ==
  ASSUME NEW S, NEW r, r.version \in Int, \A s \in S : s.version \in Int
  PROVE  /\ \A s \in S : Newest(S, s) => Newest(S \cup {r}, s) \/ Newest(S \cup {r}, r)
         /\ S = {} => Newest(S \cup {r}, r)
  BY DEF Newest

(* A version of a key is stored once, and every stored key has a newest row *)
Unique == \A r, s \in rows : r.key = s.key /\ r.version = s.version => r = s

HaveNewest == \A k \in Keys : RowsOf(k) # {} => \E r : Newest(RowsOf(k), r)

(* A write that goes on from the store to the channel is accounted for *)
Durable ==
  /\ \A w \in Writers : task[w].at = "publish" => task[w].write \in rows \cup unstored
  /\ AnnouncedIsDurable

StoreInv == WritersTyped /\ Unique /\ HaveNewest /\ Durable

LEMMA StoreBumps ==
  ASSUME StoreInv, NEW w \in Writers, NEW k \in Keys, NEW r \in Write, Bumped(w, k, r)
  PROVE  StoreInv'
<1>1. /\ memory' \in [Keys -> Content] /\ task' \in [Writers -> Task]
      /\ \A u \in Writers : u # w => task'[u] = task[u]
      /\ task'[w].at # "publish" /\ UNCHANGED <<rows, log, restarts, unstored>>
      BY DEF Bumped, Resting
<1>2. version' \in 0..MaxVersion
      BY BoundsAre DEF Bumped, StoreInv, WritersTyped
<1>3. WritersTyped'
      BY <1>1, <1>2 DEF StoreInv, WritersTyped
<1>4. Unique' /\ HaveNewest'
      BY <1>1 DEF StoreInv, Unique, HaveNewest, RowsOf
<1>5. Durable'
      BY <1>1 DEF StoreInv, Durable, AnnouncedIsDurable
<1> QED BY <1>3, <1>4, <1>5 DEF StoreInv

LEMMA StoreLooks ==
  ASSUME StoreInv, NEW w \in Writers, Looked(w)
  PROVE  StoreInv'
<1>1. /\ task' \in [Writers -> Task]
      /\ \A u \in Writers : u # w => task'[u] = task[u]
      /\ task'[w].at # "publish" /\ UNCHANGED <<version, memory, rows, log, restarts, unstored>>
      BY DEF Looked
<1> QED BY <1>1 DEF StoreInv, WritersTyped, Unique, HaveNewest, RowsOf, Durable, AnnouncedIsDurable

LEMMA StorePersists ==
  ASSUME StoreInv, NEW w \in Writers, NEW r \in Write, Persisted(w, r)
  PROVE  StoreInv'
<1>1. /\ task' \in [Writers -> Task] /\ task'[w] = [at |-> "publish", write |-> r]
      /\ \A u \in Writers : u # w => task'[u] = task[u]
      /\ UNCHANGED <<version, memory, log, restarts>>
      BY DEF Persisted
<1>2. \/ /\ \A s \in rows : s.key # r.key \/ s.version # r.version
         /\ rows' = rows \cup {r} /\ unstored' = unstored
      \/ rows' = rows /\ unstored' = unstored \cup {r}
      BY DEF Persisted
<1>3. rows' \subseteq Write /\ unstored' \subseteq Write
      BY <1>2 DEF StoreInv, WritersTyped
<1>4. WritersTyped'
      BY <1>1, <1>3 DEF StoreInv, WritersTyped
<1>5. Unique'
      BY <1>2 DEF StoreInv, Unique
<1>6. HaveNewest'
  <2>1. ASSUME NEW k \in Keys, RowsOf(k)' # {}
        PROVE  \E s : Newest(RowsOf(k)', s)
    <3>1. RowsOf(k)' = RowsOf(k) \/ RowsOf(k)' = RowsOf(k) \cup {r}
          BY <1>2 DEF RowsOf
    <3>2. r.version \in Int /\ \A s \in RowsOf(k) : s.version \in Int
          BY WriteFields DEF RowsOf, StoreInv, WritersTyped
    <3>3. CASE RowsOf(k) # {}
      <4>1. PICK s : Newest(RowsOf(k), s)
            BY <3>3 DEF StoreInv, HaveNewest
      <4>2. s \in RowsOf(k)
            BY <4>1 DEF Newest
      <4>3. Newest(RowsOf(k) \cup {r}, s) \/ Newest(RowsOf(k) \cup {r}, r)
            BY <3>2, <4>1, <4>2, NewestJoins
      <4> QED BY <3>1, <4>1, <4>3
    <3>4. CASE RowsOf(k) = {}
          BY <3>1, <3>2, <3>4, <2>1, NewestJoins
    <3> QED BY <3>3, <3>4
  <2> QED BY <2>1 DEF HaveNewest, Newest
<1>7. Durable'
  <2>1. rows \cup unstored \subseteq rows' \cup unstored' /\ r \in rows' \cup unstored'
        BY <1>2
  <2> QED BY <2>1, <1>1 DEF StoreInv, Durable, AnnouncedIsDurable
<1> QED BY <1>4, <1>5, <1>6, <1>7 DEF StoreInv

LEMMA StorePublishes ==
  ASSUME StoreInv, NEW w \in Writers, NEW r \in Write, Published(w, r)
  PROVE  StoreInv'
<1>1. /\ task' \in [Writers -> Task] /\ task'[w].at # "publish"
      /\ \A u \in Writers : u # w => task'[u] = task[u]
      /\ log' = Append(log, r) /\ log \in Seq(Write) /\ Len(log) \in Nat
      /\ UNCHANGED <<version, memory, rows, restarts, unstored>>
      BY DEF Published, Resting, StoreInv, WritersTyped
<1>2. /\ Len(log') = Len(log) + 1 /\ log'[Len(log) + 1] = r /\ log' \in Seq(Write)
      /\ \A i \in 1..Len(log) : log'[i] = log[i]
      BY <1>1
<1>3. r \in rows \cup unstored
      BY DEF Published, StoreInv, Durable
<1>4. WritersTyped' /\ Unique' /\ HaveNewest'
      BY <1>1, <1>2 DEF StoreInv, WritersTyped, Unique, HaveNewest, RowsOf
<1>5. Durable'
  <2>1. \A i \in 1..Len(log') : log'[i] \in rows \cup unstored
    <3> SUFFICES ASSUME NEW i \in 1..Len(log') PROVE log'[i] \in rows \cup unstored
        OBVIOUS
    <3>1. i \in 1..Len(log) \/ i = Len(log) + 1
          BY <1>1, <1>2
    <3> QED BY <3>1, <1>2, <1>3 DEF StoreInv, Durable, AnnouncedIsDurable
  <2> QED BY <2>1, <1>1 DEF StoreInv, Durable, AnnouncedIsDurable
<1> QED BY <1>4, <1>5 DEF StoreInv

LEMMA StoreRestarts ==
  ASSUME StoreInv, Restart
  PROVE  StoreInv'
<1>1. /\ version' = 0 /\ memory' = [k \in Keys |-> Absent] /\ task' = [w \in Writers |-> Resting]
      /\ log' = <<>> /\ UNCHANGED <<rows, unstored>> /\ restarts' = restarts + 1
      BY DEF Restart
<1>2. Absent \in Content /\ Resting \in Task /\ Resting.at = "rest" /\ version' \in 0..MaxVersion
      BY <1>1, BoundsAre DEF Absent, Content, Resting, Task
<1>3. WritersTyped'
      BY <1>1, <1>2 DEF StoreInv, WritersTyped
<1>4. Unique' /\ HaveNewest'
      BY <1>1 DEF StoreInv, Unique, HaveNewest, RowsOf
<1>5. Durable'
      BY <1>1, <1>2 DEF Durable, AnnouncedIsDurable
<1> QED BY <1>3, <1>4, <1>5 DEF StoreInv

(* Watchers change nothing of what the writers and the store have *)
LEMMA WatcherIs ==
  ASSUME NEW s \in Watchers, Watcher(s)
  PROVE  UNCHANGED <<version, memory, rows, task, log, restarts, unstored>>
  BY DEF Watcher, Subscribe, Lag, Forward, Update, Disconnect

LEMMA StoreNext ==
  ASSUME StoreInv, [Next]_cmvars
  PROVE  StoreInv'
<1>0. WritersTyped
      BY DEF StoreInv
<1>1. CASE UNCHANGED <<version, memory, rows, task, log, restarts, unstored>>
      BY <1>1 DEF StoreInv, WritersTyped, Unique, HaveNewest, RowsOf, Durable, AnnouncedIsDurable
<1>2. CASE \E w \in Writers : Writer(w)
      BY <1>0, <1>2, WriterIs, StoreBumps, StoreLooks, StorePersists, StorePublishes
<1>3. CASE Restart
      BY <1>3, StoreRestarts
<1>4. CASE UNCHANGED cmvars \/ \E s \in Watchers : Watcher(s)
      BY <1>1, <1>4, WatcherIs DEF cmvars
<1> QED BY <1>2, <1>3, <1>4 DEF Next

LEMMA InitStore == Init => StoreInv
<1> SUFFICES ASSUME Init PROVE StoreInv
    OBVIOUS
<1>1. /\ version = 0 /\ memory = [k \in Keys |-> Absent] /\ task = [w \in Writers |-> Resting]
      /\ log = <<>> /\ rows = {} /\ unstored = {} /\ restarts = 0
      BY DEF Init
<1>2. Absent \in Content /\ Resting \in Task /\ Resting.at = "rest" /\ version \in 0..MaxVersion
      BY <1>1, BoundsAre DEF Absent, Content, Resting, Task
<1> QED BY <1>1, <1>2 DEF StoreInv, WritersTyped, Unique, HaveNewest, RowsOf, Durable, AnnouncedIsDurable

(* What the writers have at hand and the store has keeps its type; versions *)
(* of a key are unique in the store, across restarts that count anew.       *)
THEOREM StoreInvariance == CMSpec => []StoreInv
<1>1. StoreInv /\ [Next]_cmvars => StoreInv'
      BY StoreNext
<1> QED BY <1>1, InitStore, PTL DEF CMSpec

(* A change that any watcher may have been told of is in the store or was   *)
(* refused by it, however the steps of writers interleave and wherever the  *)
(* agent stops: the insert comes before the event.                          *)
THEOREM AnnouncementsAreDurable == CMSpec => []AnnouncedIsDurable
<1>1. StoreInv => AnnouncedIsDurable
      BY DEF StoreInv, Durable
<1> QED BY <1>1, StoreInvariance, PTL

LEMMA StoredStepIsFinal ==
  ASSUME StoreInv, StoreInv', [Next]_cmvars, NEW k \in Keys, RowsOf(k) # {}
  PROVE  /\ RowsOf(k)' # {}
         /\ Latest(k).version <= Latest(k)'.version
         /\ Latest(k).version = Latest(k)'.version => Latest(k) = Latest(k)'
<1>1. rows \subseteq rows'
  <2>1. CASE \E w \in Writers : Writer(w)
        BY <2>1, WriterIs DEF StoreInv, Bumped, Looked, Persisted, Published
  <2>2. CASE UNCHANGED cmvars \/ Restart \/ \E s \in Watchers : Watcher(s)
        BY <2>2, WatcherIs DEF cmvars, Restart
  <2> QED BY <2>1, <2>2 DEF Next
<1>2. RowsOf(k) \subseteq RowsOf(k)' /\ RowsOf(k)' # {}
      BY <1>1 DEF RowsOf
<1>3. Newest(RowsOf(k), Latest(k))
      BY MaxIs, LatestIs DEF StoreInv, HaveNewest
<1>4. Newest(RowsOf(k)', Latest(k)')
  <2>1. \E r : Newest(RowsOf(k)', r)
        BY <1>2 DEF StoreInv, HaveNewest, Newest
  <2> QED BY <2>1, MaxIs, LatestIs
<1>5. Latest(k) \in RowsOf(k)' /\ Latest(k)' \in RowsOf(k)' /\ Latest(k).version <= Latest(k)'.version
      BY <1>2, <1>3, <1>4 DEF Newest
<1>6. ASSUME Latest(k).version = Latest(k)'.version
      PROVE  Latest(k) = Latest(k)'
  <2>1. \A r, s \in RowsOf(k)' : r.version = s.version => r = s
        BY DEF StoreInv, Unique, RowsOf
  <2> QED BY <2>1, <1>5, <1>6
<1> QED BY <1>2, <1>5, <1>6

(* No step changes what is stored under a version, and the version that     *)
(* readers get for a key never goes back, for any number of writers and     *)
(* restarts: an insert under a version that is taken is refused.            *)
THEOREM VersionsAreFinal == CMSpec => StoredVersionsAreFinal
<1>1. StoreInv /\ StoreInv' /\ [Next]_cmvars =>
        [\A k \in Keys :
           RowsOf(k) # {} =>
             /\ RowsOf(k)' # {}
             /\ Latest(k).version <= Latest(k)'.version
             /\ Latest(k).version = Latest(k)'.version => Latest(k) = Latest(k)']_cmvars
      BY StoredStepIsFinal
<1> QED BY <1>1, StoreInvariance, PTL DEF CMSpec, StoredVersionsAreFinal

-----------------------------------------------------------------------------
(* Versions, and the first run of the agent                                 *)

(* Nothing has a version that was not given out in this run *)
Counted ==
  /\ \A k \in Keys : memory[k].version <= version
  /\ \A w \in Writers : task[w].at \in {"persist", "publish"} => task[w].write.version <= version
  /\ \A i \in 1..Len(log) : log[i].version <= version

(* The rows of a key and the writes of it that will be rows *)
Coming(tasks, k) ==
  RowsOf(k) \cup {r \in Write : r.key = k /\ Doing(tasks, {"persist"}, r)}

(* The map has what the newest of them says *)
Shows(S, entry) ==
  \/ S = {} /\ entry = Absent
  \/ \E r \in S : Newest(S, r) /\ r.value = entry.value

FirstRun ==
  restarts = 0 /\ unstored = {} =>
    /\ \A r \in rows : r.version <= version
    /\ \A k \in Keys : Shows(Coming(task, k), memory[k])

VersionInv == StoreInv /\ Counted /\ FirstRun

LEMMA CountedNext ==
  ASSUME StoreInv, Counted, [Next]_cmvars
  PROVE  Counted'
<1>0. /\ version \in Nat /\ WritersTyped /\ log \in Seq(Write) /\ Len(log) \in Nat
      /\ memory \in [Keys -> Content] /\ task \in [Writers -> Task] /\ MaxVersion \in Nat
      BY BoundsAre DEF StoreInv, WritersTyped
<1>1. ASSUME NEW w \in Writers, NEW k \in Keys, NEW r \in Write, Bumped(w, k, r)
      PROVE  Counted'
  <2>1. /\ version' = version + 1 /\ r.version = version + 1
        /\ \A j \in Keys : j # k => memory'[j] = memory[j]
        /\ memory'[k] = memory[k] \/ memory'[k].version <= r.version
        /\ \A u \in Writers : u # w => task'[u] = task[u]
        /\ task'[w] = Resting \/ task'[w] = [at |-> "persist", write |-> r]
        /\ log' = log
        BY <1>1 DEF Bumped
  <2>2. \A n \in Nat : n <= version => n <= version + 1
        BY <1>0
  <2>3. \A j \in Keys : memory[j].version \in Nat
        BY <1>0 DEF Content
  <2>4. \A j \in Keys : memory'[j].version <= version + 1
        BY <2>1, <2>2, <2>3 DEF Counted
  <2>5. \A u \in Writers : task'[u].at \in {"persist", "publish"} =>
                             task'[u].write.version <= version + 1
    <3> SUFFICES ASSUME NEW u \in Writers, task'[u].at \in {"persist", "publish"}
                 PROVE  task'[u].write.version <= version + 1
        OBVIOUS
    <3>1. CASE u = w
      <4>1. task'[w] = [at |-> "persist", write |-> r]
            BY <3>1, <2>1 DEF Resting
      <4> QED BY <4>1, <3>1, <2>1, <1>0
    <3>2. CASE u # w
      <4>1. task[u].write \in Write /\ task[u].write.version <= version
            BY <3>2, <2>1, <1>0, TaskFields DEF Counted
      <4> QED BY <4>1, <3>2, <2>1, <2>2, WriteFields
    <3> QED BY <3>1, <3>2
  <2>6. \A i \in 1..Len(log) : log[i].version <= version + 1
        BY <1>0, <2>2, WriteFields DEF Counted
  <2> QED BY <2>1, <2>4, <2>5, <2>6 DEF Counted
<1>2. ASSUME NEW w \in Writers, Looked(w)
      PROVE  Counted'
      BY <1>2 DEF Looked, Counted
<1>3. ASSUME NEW w \in Writers, NEW r \in Write, Persisted(w, r)
      PROVE  Counted'
  <2>1. /\ task[w] = [at |-> "persist", write |-> r] /\ task'[w] = [at |-> "publish", write |-> r]
        /\ \A u \in Writers : u # w => task'[u] = task[u]
        /\ UNCHANGED <<version, memory, log>>
        BY <1>3 DEF Persisted
  <2>2. r.version <= version
        BY <2>1 DEF Counted
  <2> QED BY <2>1, <2>2 DEF Counted
<1>4. ASSUME NEW w \in Writers, NEW r \in Write, Published(w, r)
      PROVE  Counted'
  <2>1. /\ task[w] = [at |-> "publish", write |-> r] /\ task'[w] = Resting
        /\ \A u \in Writers : u # w => task'[u] = task[u]
        /\ log' = Append(log, r) /\ UNCHANGED <<version, memory>>
        BY <1>4 DEF Published
  <2>2. r.version <= version
        BY <2>1 DEF Counted
  <2>3. \A i \in 1..Len(log') : (i \in 1..Len(log) /\ log'[i] = log[i]) \/ log'[i] = r
        BY <1>0, <2>1
  <2> QED BY <2>1, <2>2, <2>3 DEF Counted, Resting
<1>5. CASE \E w \in Writers : Writer(w)
      BY <1>0, <1>1, <1>2, <1>3, <1>4, <1>5, WriterIs
<1>6. CASE Restart
  <2>1. /\ version' = 0 /\ memory' = [k \in Keys |-> Absent]
        /\ task' = [w \in Writers |-> Resting] /\ log' = <<>>
        BY <1>6 DEF Restart
  <2> QED BY <2>1 DEF Counted, Absent, Resting
<1>7. CASE UNCHANGED cmvars \/ \E s \in Watchers : Watcher(s)
  <2>1. UNCHANGED <<version, memory, task, log>>
        BY <1>7, WatcherIs DEF cmvars
  <2> QED BY <2>1 DEF Counted
<1> QED BY <1>5, <1>6, <1>7 DEF Next

(* A write newer than all others decides *)
LEMMA NewestDecides ==
  ASSUME NEW S, NEW r, NEW n \in Nat, r.version = n + 1,
         \A s \in S : s.version \in Int /\ s.version <= n
  PROVE  Newest(S \cup {r}, r) /\ \A s : Newest(S \cup {r}, s) => s = r
<1>1. \A s \in S : s.version <= r.version /\ ~(r.version <= s.version)
      OBVIOUS
<1> QED BY <1>1 DEF Newest

LEMMA FirstRunNext ==
  ASSUME VersionInv, [Next]_cmvars
  PROVE  FirstRun'
<1>0. /\ version \in Nat /\ WritersTyped /\ StoreInv /\ rows \subseteq Write
      /\ memory \in [Keys -> Content] /\ task \in [Writers -> Task]
      BY BoundsAre DEF VersionInv, StoreInv, WritersTyped
<1>1. ASSUME NEW w \in Writers, NEW k \in Keys, NEW r \in Write, Bumped(w, k, r)
      PROVE  FirstRun'
  <2>1. /\ r.key = k /\ r.version = version + 1 /\ version' = version + 1
        /\ \A j \in Keys : j # k => memory'[j] = memory[j]
        /\ \A u \in Writers : u # w => task'[u] = task[u]
        /\ task[w].at \in {"rest", "remove"} /\ UNCHANGED <<rows, restarts, unstored>>
        BY <1>1 DEF Bumped
  <2> SUFFICES ASSUME restarts = 0, unstored = {}
               PROVE  /\ \A s \in rows : s.version <= version + 1
                      /\ \A j \in Keys : Shows(Coming(task, j)', memory'[j])
      BY <2>1 DEF FirstRun
  <2>2. \A s \in rows : s.version \in Nat /\ s.version <= version
        BY <1>0, WriteFields DEF VersionInv, FirstRun
  <2>3. \A s \in rows : s.version <= version + 1
        BY <1>0, <2>2
  <2>4. ASSUME NEW j \in Keys, NEW s \in Coming(task, j)
        PROVE  s.version \in Int /\ s.version <= version
    <3>1. CASE s \in rows
          BY <3>1, <2>2
    <3>2. CASE s \in Write /\ Doing(task, {"persist"}, s)
          BY <3>2, WriteFields DEF Doing, VersionInv, Counted
    <3> QED BY <3>1, <3>2, <2>4 DEF Coming, RowsOf
  <2>5. \A j \in Keys : RowsOf(j)' = RowsOf(j)
        BY <2>1 DEF RowsOf
  <2>6. CASE task'[w] = Resting /\ memory'[k] = memory[k]
    <3>1. \A s : Doing(task', {"persist"}, s) <=> Doing(task, {"persist"}, s)
          BY <2>1, <2>6 DEF Doing, Resting
    <3>2. \A j \in Keys : Coming(task, j)' = Coming(task, j) /\ memory'[j] = memory[j]
          BY <2>1, <2>5, <2>6, <3>1 DEF Coming
    <3> QED BY <2>3, <3>2 DEF VersionInv, FirstRun
  <2>7. CASE task'[w] = [at |-> "persist", write |-> r] /\ memory'[k].value = r.value
    <3>1. \A s : Doing(task', {"persist"}, s) <=> (Doing(task, {"persist"}, s) \/ s = r)
          BY <2>1, <2>7 DEF Doing
    <3>2. Coming(task, k)' = Coming(task, k) \cup {r}
          BY <2>1, <2>5, <3>1 DEF Coming
    <3>3. \A j \in Keys : j # k => Coming(task, j)' = Coming(task, j)
          BY <2>1, <2>5, <3>1 DEF Coming
    <3>4. Shows(Coming(task, k)', memory'[k])
      <4>1. Newest(Coming(task, k) \cup {r}, r)
            BY <1>0, <2>1, <2>4, NewestDecides
      <4> QED BY <4>1, <3>2, <2>7 DEF Shows
    <3> QED BY <2>1, <2>3, <3>3, <3>4 DEF VersionInv, FirstRun
  <2> QED BY <1>1, <2>6, <2>7 DEF Bumped
<1>2. ASSUME \A s : Doing(task', {"persist"}, s) <=> Doing(task, {"persist"}, s),
             UNCHANGED <<version, memory, rows, restarts, unstored>>
      PROVE  FirstRun'
  <2>1. \A k \in Keys : Coming(task, k)' = Coming(task, k)
        BY <1>2 DEF Coming, RowsOf
  <2> QED BY <1>2, <2>1 DEF VersionInv, FirstRun
<1>3. ASSUME NEW w \in Writers, Looked(w)
      PROVE  FirstRun'
  <2>1. \A s : Doing(task', {"persist"}, s) <=> Doing(task, {"persist"}, s)
        BY <1>3 DEF Looked, Doing
  <2> QED BY <2>1, <1>2, <1>3 DEF Looked
<1>4. ASSUME NEW w \in Writers, NEW r \in Write, Persisted(w, r)
      PROVE  FirstRun'
  <2>1. /\ task[w] = [at |-> "persist", write |-> r] /\ task'[w] = [at |-> "publish", write |-> r]
        /\ \A u \in Writers : u # w => task'[u] = task[u]
        /\ UNCHANGED <<version, memory, restarts>>
        BY <1>4 DEF Persisted
  <2> SUFFICES ASSUME restarts = 0, unstored' = {}
               PROVE  /\ \A s \in rows' : s.version <= version
                      /\ \A j \in Keys : Shows(Coming(task, j)', memory[j])
      BY <2>1 DEF FirstRun
  <2>2. rows' = rows \cup {r} /\ unstored = {}
        BY <1>4 DEF Persisted
  <2>3. r.version <= version
        BY <2>1 DEF VersionInv, Counted
  <2>4. Doing(task, {"persist"}, r)
        BY <2>1 DEF Doing
  <2>5. \A s : /\ Doing(task', {"persist"}, s) => Doing(task, {"persist"}, s)
               /\ Doing(task, {"persist"}, s) => (Doing(task', {"persist"}, s) \/ s = r)
        BY <2>1 DEF Doing
  <2>6. \A j \in Keys : Coming(task, j)' = Coming(task, j)
    <3> SUFFICES ASSUME NEW j \in Keys, NEW s
                 PROVE  s \in Coming(task, j)' <=> s \in Coming(task, j)
        OBVIOUS
    <3>1. s \in Coming(task, j) <=> s.key = j /\ (s \in rows \/ (s \in Write /\ Doing(task, {"persist"}, s)))
          BY DEF Coming, RowsOf
    <3>2. s \in Coming(task, j)' <=>
            s.key = j /\ (s \in rows' \/ (s \in Write /\ Doing(task', {"persist"}, s)))
          BY DEF Coming, RowsOf
    <3> QED BY <3>1, <3>2, <2>2, <2>4, <2>5
  <2> QED BY <2>2, <2>3, <2>6 DEF VersionInv, FirstRun
<1>5. ASSUME NEW w \in Writers, NEW r \in Write, Published(w, r)
      PROVE  FirstRun'
  <2>1. \A s : Doing(task', {"persist"}, s) <=> Doing(task, {"persist"}, s)
        BY <1>5 DEF Published, Doing, Resting
  <2> QED BY <2>1, <1>2, <1>5 DEF Published
<1>6. CASE \E w \in Writers : Writer(w)
      BY <1>0, <1>1, <1>3, <1>4, <1>5, <1>6, WriterIs
<1>7. CASE Restart
  <2>1. restarts' = restarts + 1 /\ restarts \in Nat
        BY <1>0, <1>7 DEF Restart, WritersTyped
  <2> QED BY <2>1 DEF FirstRun
<1>8. CASE UNCHANGED cmvars \/ \E s \in Watchers : Watcher(s)
  <2>1. UNCHANGED <<version, memory, rows, task, restarts, unstored>>
        BY <1>8, WatcherIs DEF cmvars
  <2> QED BY <2>1, <1>2
<1> QED BY <1>6, <1>7, <1>8 DEF Next

LEMMA InitFirstRun == Init => Counted /\ FirstRun
<1> SUFFICES ASSUME Init PROVE Counted /\ FirstRun
    OBVIOUS
<1>1. /\ version = 0 /\ memory = [k \in Keys |-> Absent] /\ task = [w \in Writers |-> Resting]
      /\ log = <<>> /\ rows = {}
      BY DEF Init
<1>2. \A k \in Keys : Coming(task, k) = {}
      BY <1>1 DEF Coming, RowsOf, Doing, Resting
<1> QED BY <1>1, <1>2 DEF Counted, FirstRun, Shows, Absent, Resting

LEMMA VersionInvariance == CMSpec => []VersionInv
<1>1. Init => VersionInv
      BY InitStore, InitFirstRun DEF VersionInv
<1>2. VersionInv /\ [Next]_cmvars => VersionInv'
      BY StoreNext, CountedNext, FirstRunNext DEF VersionInv
<1> QED BY <1>1, <1>2, PTL DEF CMSpec

(* Until the first restart, and as long as no insert failed, readers that   *)
(* find no write in progress get what the last writes left in the map, in   *)
(* whatever order the writes reached the store: the newest of the rows and  *)
(* of the writes still on their way to the store is always the one the map  *)
(* shows.                                                                   *)
THEOREM FirstRunReadsTheLastWrite == CMSpec => []FirstRunReadsLastWrite
<1>1. ASSUME VersionInv, Quiet, restarts = 0, unstored = {}, NEW k \in Keys
      PROVE  Get(k) = memory[k].value /\ Snapshot(k) = memory[k].value
  <2>1. Coming(task, k) = RowsOf(k)
        BY <1>1 DEF Quiet, Coming, Doing, Resting
  <2>2. Shows(RowsOf(k), memory[k]) /\ StoreInv
        BY <2>1, <1>1 DEF VersionInv, FirstRun
  <2>3. CASE RowsOf(k) = {}
        BY <2>2, <2>3 DEF Shows, Absent, Get, Snapshot
  <2>4. CASE RowsOf(k) # {}
    <3>1. PICK r \in RowsOf(k) : Newest(RowsOf(k), r) /\ r.value = memory[k].value
          BY <2>2, <2>4 DEF Shows
    <3>2. Newest(RowsOf(k), Latest(k))
          BY <3>1, MaxIs, LatestIs
    <3>3. /\ r \in rows /\ Latest(k) \in rows /\ r.key = k /\ Latest(k).key = k
          /\ r.version <= Latest(k).version /\ Latest(k).version <= r.version
          BY <3>1, <3>2 DEF Newest, RowsOf
    <3>4. r.version \in Nat /\ Latest(k).version \in Nat
          BY <3>3, <2>2, WriteFields DEF StoreInv, WritersTyped
    <3>5. r = Latest(k)
          BY <3>3, <3>4, <2>2 DEF StoreInv, Unique
    <3> QED BY <3>1, <3>5, <2>4 DEF Get, Snapshot
  <2> QED BY <2>3, <2>4
<1>2. VersionInv => FirstRunReadsLastWrite
      BY <1>1 DEF FirstRunReadsLastWrite
<1> QED BY <1>2, VersionInvariance, PTL

-----------------------------------------------------------------------------
(* What a stream has, and has still to be told                              *)

Queued(q, k) == {r \in Write : r.key = k /\ \E i \in 1..Len(q) : q[i] = r}

Announced(events, n, k) == {r \in Write : r.key = k /\ \E i \in n..Len(events) : events[i] = r}

(* What the stream holds of a key, or will be told of it *)
Candidates(tasks, events, x, k) ==
  {x.held[k]} \cup Queued(x.pipe, k) \cup Announced(events, x.next, k)
    \cup {r \in Write : r.key = k /\ Doing(tasks, {"persist", "publish"}, r)}

(* The newest of them says what the map says, unless the map and all of     *)
(* them are from before the subscription                                    *)
Fits(S, from, entry) ==
  \/ entry.version <= from /\ \A c \in S : c.version <= from
  \/ (\E c : Newest(S, c)) /\ \A c : Newest(S, c) => c.value = entry.value

Fresh(S, from, entry, v) ==
  /\ from \in Nat /\ from <= v /\ entry.version \in Nat
  /\ \A c \in S : c.version \in Nat /\ c.version <= v
  /\ Fits(S, from, entry)

StreamFresh(x, tasks, events, entries, v) ==
  \/ x = Closed
  \/ /\ x \in Stream /\ x.next <= Len(events) + 1
     /\ x.st = "open" =>
          \A k \in Watched : Fresh(Candidates(tasks, events, x, k), x.from, entries[k], v)

WatchersInv ==
  /\ watch \in [Watchers -> Stream \cup {Closed}]
  /\ \A s \in Watchers : StreamFresh(watch[s], task, log, memory, version)

(* A write newer than all that was given out joins, and the map shows it *)
LEMMA FreshJoins ==
  ASSUME NEW S, NEW from, NEW entry, NEW v \in Nat, NEW r, NEW new,
         Fresh(S, from, entry, v), r.version = v + 1, new.value = r.value, new.version \in Nat
  PROVE  Fresh(S \cup {r}, from, new, v + 1)
<1>1. from \in Nat /\ from <= v + 1 /\ v + 1 \in Nat
      BY DEF Fresh
<1>2. \A c \in S : c.version \in Nat /\ c.version \in Int /\ c.version <= v /\ c.version <= v + 1
      BY DEF Fresh
<1>3. \A c \in S \cup {r} : c.version \in Nat /\ c.version <= v + 1
      BY <1>1, <1>2
<1>4. Newest(S \cup {r}, r) /\ \A c : Newest(S \cup {r}, c) => c = r
      BY <1>2, NewestDecides
<1>5. Fits(S \cup {r}, from, new)
      BY <1>4 DEF Fits
<1> QED BY <1>1, <1>3, <1>5 DEF Fresh

LEMMA FreshGrows ==
  ASSUME NEW S, NEW from, NEW entry, NEW v \in Nat, Fresh(S, from, entry, v)
  PROVE  Fresh(S, from, entry, v + 1)
  BY DEF Fresh

(* What goes is no newer than something that stays *)
LEMMA FreshLoses ==
  ASSUME NEW S, NEW T \in SUBSET S, NEW from, NEW entry, NEW v \in Nat, Fresh(S, from, entry, v),
         \A a \in S : \E b \in T : a.version <= b.version
  PROVE  Fresh(T, from, entry, v)
<1>1. \A c \in S : c.version \in Nat /\ c.version <= v
      BY DEF Fresh
<1>2. CASE entry.version <= from /\ \A c \in S : c.version <= from
      BY <1>2 DEF Fresh, Fits
<1>3. CASE (\E c : Newest(S, c)) /\ \A c : Newest(S, c) => c.value = entry.value
  <2>1. PICK c : Newest(S, c)
        BY <1>3
  <2>2. c \in S
        BY <2>1 DEF Newest
  <2>3. PICK t \in T : c.version <= t.version
        BY <2>2
  <2>4. ASSUME NEW a \in S
        PROVE  a.version <= t.version
    <3>1. a.version <= c.version /\ a.version \in Nat /\ c.version \in Nat /\ t.version \in Nat
          BY <2>1, <2>2, <1>1 DEF Newest
    <3> QED BY <3>1, <2>3
  <2>5. Newest(T, t)
        BY <2>4 DEF Newest
  <2>6. ASSUME NEW d, Newest(T, d)
        PROVE  Newest(S, d)
    <3>1. d \in S /\ t.version <= d.version
          BY <2>6 DEF Newest
    <3>2. ASSUME NEW a \in S
          PROVE  a.version <= d.version
      <4>1. a.version \in Nat /\ t.version \in Nat /\ d.version \in Nat
            BY <1>1, <3>1
      <4> QED BY <4>1, <3>1, <2>4
    <3> QED BY <3>1, <3>2 DEF Newest
  <2>7. Fits(T, from, entry)
        BY <1>3, <2>5, <2>6 DEF Fits
  <2> QED BY <2>7 DEF Fresh
<1> QED BY <1>2, <1>3 DEF Fresh, Fits

(* What a writer does is the same for every stream *)
LEMMA WatchersLook ==
  ASSUME NEW x, NEW tasks, NEW events,
         StreamFresh(x, task, log, memory, version),
         Len(log) <= Len(events), Len(log) \in Nat, Len(events) \in Nat,
         \A k \in Watched : Candidates(tasks, events, x, k) = Candidates(task, log, x, k)
  PROVE  StreamFresh(x, tasks, events, memory, version)
  BY DEF StreamFresh, Stream

LEMMA WatchersBump ==
  ASSUME StoreInv, Counted, NEW w \in Writers, NEW k \in Keys, NEW r \in Write, Bumped(w, k, r),
         NEW x, StreamFresh(x, task, log, memory, version)
  PROVE  StreamFresh(x, task', log', memory', version')
<1>0. /\ version \in Nat /\ version' = version + 1 /\ r.version = version + 1 /\ r.key = k /\ log' = log
      /\ \A j \in Keys : j # k => memory'[j] = memory[j]
      /\ \A u \in Writers : u # w => task'[u] = task[u]
      /\ task[w].at \in {"rest", "remove"} /\ memory' \in [Keys -> Content] /\ Watched \subseteq Keys
      BY BoundsAre DEF Bumped, StoreInv, WritersTyped
<1> SUFFICES ASSUME x # Closed, x.st = "open", NEW j \in Watched
             PROVE  Fresh(Candidates(task', log', x, j), x.from, memory'[j], version')
    BY <1>0 DEF StreamFresh
<1>1. Fresh(Candidates(task, log, x, j), x.from, memory[j], version)
      BY DEF StreamFresh
<1>2. CASE task'[w] = Resting /\ memory'[k] = memory[k]
  <2>1. \A q : Doing(task', {"persist", "publish"}, q) <=> Doing(task, {"persist", "publish"}, q)
        BY <1>0, <1>2 DEF Doing, Resting
  <2>2. Candidates(task', log', x, j) = Candidates(task, log, x, j)
        BY <1>0, <2>1 DEF Candidates
  <2> QED BY <1>0, <1>1, <1>2, <2>2, FreshGrows
<1>3. CASE task'[w] = [at |-> "persist", write |-> r] /\ memory'[k].value = r.value
  <2>1. \A q : Doing(task', {"persist", "publish"}, q) <=>
                 (Doing(task, {"persist", "publish"}, q) \/ q = r)
        BY <1>0, <1>3 DEF Doing
  <2>2. CASE j = k
    <3>1. Candidates(task', log', x, j) = Candidates(task, log, x, j) \cup {r}
          BY <1>0, <2>1, <2>2 DEF Candidates
    <3>2. memory'[j].value = r.value /\ memory'[j].version \in Nat
          BY <1>0, <1>3, <2>2, BoundsAre DEF Content
    <3> QED BY <3>1, <3>2, <1>0, <1>1, FreshJoins
  <2>3. CASE j # k
    <3>1. Candidates(task', log', x, j) = Candidates(task, log, x, j)
          BY <1>0, <2>1, <2>3 DEF Candidates
    <3> QED BY <1>0, <1>1, <2>3, <3>1, FreshGrows
  <2> QED BY <2>2, <2>3
<1> QED BY <1>2, <1>3 DEF Bumped

LEMMA WatchersPublish ==
  ASSUME StoreInv, NEW w \in Writers, NEW r \in Write, Published(w, r),
         NEW x, StreamFresh(x, task, log, memory, version)
  PROVE  StreamFresh(x, task', log', memory, version)
<1>0. /\ task[w] = [at |-> "publish", write |-> r] /\ task'[w] = Resting
      /\ \A u \in Writers : u # w => task'[u] = task[u]
      /\ log' = Append(log, r) /\ log \in Seq(Write) /\ Len(log) \in Nat
      BY DEF Published, StoreInv, WritersTyped
<1>1. /\ Len(log') = Len(log) + 1 /\ log'[Len(log) + 1] = r
      /\ \A i \in 1..Len(log) : log'[i] = log[i]
      BY <1>0
<1>2. CASE x = Closed
      BY <1>2 DEF StreamFresh
<1>3. CASE x # Closed
  <2>1. x.next \in Nat \ {0} /\ x.next <= Len(log) + 1
        BY <1>3 DEF StreamFresh, Stream
  <2>2. \A q : /\ Doing(task, {"persist", "publish"}, q) =>
                    (Doing(task', {"persist", "publish"}, q) \/ q = r)
               /\ Doing(task', {"persist", "publish"}, q) => Doing(task, {"persist", "publish"}, q)
        BY <1>0 DEF Doing, Resting
  <2>3. Doing(task, {"persist", "publish"}, r)
        BY <1>0 DEF Doing
  <2>4. \A q : (\E i \in x.next..Len(log') : log'[i] = q) <=>
                 ((\E i \in x.next..Len(log) : log[i] = q) \/ q = r)
    <3>1. /\ x.next..Len(log') = (x.next..Len(log)) \cup {Len(log) + 1}
          /\ x.next..Len(log) \subseteq 1..Len(log)
          BY <1>0, <1>1, <2>1
    <3> QED BY <3>1, <1>1
  <2>5. \A k : Candidates(task', log', x, k) = Candidates(task, log, x, k)
    <3> SUFFICES ASSUME NEW k, NEW q
                 PROVE  q \in Candidates(task', log', x, k) <=> q \in Candidates(task, log, x, k)
        OBVIOUS
    <3> QED BY <2>2, <2>3, <2>4 DEF Candidates, Announced
  <2>6. Len(log) \in Nat /\ Len(log') \in Nat /\ Len(log) <= Len(log')
        BY <1>0, <1>1
  <2>7. x \in Stream /\ x.next <= Len(log') + 1
        BY <1>0, <1>1, <1>3, <2>1 DEF StreamFresh
  <2> QED BY <1>3, <2>5, <2>7 DEF StreamFresh
<1> QED BY <1>2, <1>3

LEMMA WatchersWrite ==
  ASSUME StoreInv, Counted, WatchersInv, NEW w \in Writers, Writer(w)
  PROVE  WatchersInv'
<1>0. WritersTyped /\ log \in Seq(Write) /\ Len(log) \in Nat /\ Len(log) <= Len(log)
      BY DEF StoreInv, WritersTyped
<1>1. ASSUME NEW k \in Keys, NEW r \in Write, Bumped(w, k, r)
      PROVE  WatchersInv'
  <2>1. watch' = watch
        BY <1>1 DEF Bumped
  <2> QED BY <2>1, <1>1, WatchersBump DEF WatchersInv
<1>2. ASSUME Looked(w) \/ \E r \in Write : Persisted(w, r)
      PROVE  WatchersInv'
  <2>1. \A q : Doing(task', {"persist", "publish"}, q) <=> Doing(task, {"persist", "publish"}, q)
    <3>1. CASE Looked(w)
          BY <3>1 DEF Looked, Doing
    <3>2. ASSUME NEW r \in Write, Persisted(w, r)
          PROVE  \A q : Doing(task', {"persist", "publish"}, q) <=> Doing(task, {"persist", "publish"}, q)
      <4>1. /\ task[w] = [at |-> "persist", write |-> r] /\ task'[w] = [at |-> "publish", write |-> r]
            /\ \A u \in Writers : u # w => task'[u] = task[u]
            BY <3>2 DEF Persisted
      <4> QED BY <4>1 DEF Doing
    <3> QED BY <1>2, <3>1, <3>2
  <2>2. \A x, k : Candidates(task', log, x, k) = Candidates(task, log, x, k)
        BY <2>1 DEF Candidates
  <2>3. UNCHANGED <<version, memory, log, watch>>
        BY <1>2 DEF Looked, Persisted
  <2>4. \A s \in Watchers : StreamFresh(watch[s], task', log, memory, version)
        BY <1>0, <2>2, WatchersLook DEF WatchersInv
  <2> QED BY <2>3, <2>4 DEF WatchersInv
<1>3. ASSUME NEW r \in Write, Published(w, r)
      PROVE  WatchersInv'
  <2>1. UNCHANGED <<version, memory, watch>>
        BY <1>3 DEF Published
  <2> QED BY <2>1, <1>3, WatchersPublish DEF WatchersInv
<1> QED BY <1>0, <1>1, <1>2, <1>3, WriterIs

(* What a stream does, one field after the other *)
LEMMA StreamFields ==
  ASSUME NEW x \in Stream
  PROVE  /\ x.st \in {"open", "lagged"} /\ x.next \in Nat \ {0} /\ x.from \in Nat
         /\ x.pipe \in Seq(Write) /\ x.held \in Holding /\ x # Closed
  BY DEF Stream, Closed

LEMMA LagExcept ==
  ASSUME NEW x \in Stream, NEW m, NEW n
  PROVE  [x EXCEPT !.st = m, !.next = n] =
           [st |-> m, next |-> n, from |-> x.from, pipe |-> x.pipe, held |-> x.held]
<1> DEFINE z == [st |-> m, next |-> x.next, from |-> x.from, pipe |-> x.pipe, held |-> x.held]
<1>1. [x EXCEPT !.st = m] = z
      BY DEF Stream
<1>2. [z EXCEPT !.next = n] = [st |-> m, next |-> n, from |-> x.from, pipe |-> x.pipe, held |-> x.held]
      OBVIOUS
<1> HIDE DEF z
<1> QED BY <1>1, <1>2

LEMMA ForwardExcept ==
  ASSUME NEW x \in Stream, NEW m, NEW n
  PROVE  [x EXCEPT !.next = n, !.pipe = m] =
           [st |-> x.st, next |-> n, from |-> x.from, pipe |-> m, held |-> x.held]
<1> DEFINE z == [st |-> x.st, next |-> n, from |-> x.from, pipe |-> x.pipe, held |-> x.held]
<1>1. [x EXCEPT !.next = n] = z
      BY DEF Stream
<1>2. [z EXCEPT !.pipe = m] = [st |-> x.st, next |-> n, from |-> x.from, pipe |-> m, held |-> x.held]
      OBVIOUS
<1> HIDE DEF z
<1> QED BY <1>1, <1>2

LEMMA UpdateExcept ==
  ASSUME NEW x \in Stream, NEW m, NEW n
  PROVE  [x EXCEPT !.pipe = m, !.held = n] =
           [st |-> x.st, next |-> x.next, from |-> x.from, pipe |-> m, held |-> n]
<1> DEFINE z == [st |-> x.st, next |-> x.next, from |-> x.from, pipe |-> m, held |-> x.held]
<1>1. [x EXCEPT !.pipe = m] = z
      BY DEF Stream
<1>2. [z EXCEPT !.held = n] = [st |-> x.st, next |-> x.next, from |-> x.from, pipe |-> m, held |-> n]
      OBVIOUS
<1> HIDE DEF z
<1> QED BY <1>1, <1>2

(* One stream moves *)
LEMMA TurnsKeep ==
  ASSUME WatchersInv, NEW s \in Watchers, NEW y, watch' = [watch EXCEPT ![s] = y],
         y \in Stream \cup {Closed}, StreamFresh(y, task, log, memory, version),
         UNCHANGED <<task, log, memory, version>>
  PROVE  WatchersInv'
<1>1. /\ watch' \in [Watchers -> Stream \cup {Closed}] /\ watch'[s] = y
      /\ \A t \in Watchers : t # s => watch'[t] = watch[t]
      BY DEF WatchersInv
<1>2. \A t \in Watchers : StreamFresh(watch'[t], task, log, memory, version)
      BY <1>1 DEF WatchersInv
<1> QED BY <1>1, <1>2 DEF WatchersInv

LEMMA WatchersSubscribe ==
  ASSUME StoreInv, Counted, WatchersInv, NEW s \in Watchers, Subscribe(s)
  PROVE  WatchersInv'
<1> DEFINE y == [st |-> "open", next |-> Len(log) + 1, from |-> version, pipe |-> <<>>,
                 held |-> [k \in Keys |-> Absent]]
<1>0. /\ version \in Nat /\ log \in Seq(Write) /\ Len(log) \in Nat /\ memory \in [Keys -> Content]
      /\ Watched \subseteq Keys /\ task \in [Writers -> Task]
      BY BoundsAre DEF StoreInv, WritersTyped
<1>1. watch' = [watch EXCEPT ![s] = y] /\ UNCHANGED <<task, log, memory, version>>
      BY DEF Subscribe
<1>2. y \in Stream
      BY <1>0 DEF Stream, Holding
<1>3. ASSUME NEW k \in Watched
      PROVE  Fresh(Candidates(task, log, y, k), version, memory[k], version)
  <2>1. y.held[k] = Absent /\ y.pipe = <<>> /\ y.next = Len(log) + 1
        BY <1>0
  <2> HIDE DEF y
  <2>2. Queued(y.pipe, k) = {} /\ Announced(log, y.next, k) = {}
        BY <1>0, <2>1 DEF Queued, Announced
  <2>3. \A c \in Candidates(task, log, y, k) : c.version \in Nat /\ c.version <= version
    <3>1. Absent.version \in Nat /\ Absent.version <= version
          BY <1>0 DEF Absent
    <3>2. \A c \in Write : Doing(task, {"persist", "publish"}, c) =>
                             c.version \in Nat /\ c.version <= version
          BY WriteFields DEF Doing, Counted
    <3> QED BY <2>1, <2>2, <3>1, <3>2 DEF Candidates
  <2>4. memory[k].version \in Nat /\ memory[k].version <= version
        BY <1>0, BoundsAre DEF Content, Counted
  <2> QED BY <1>0, <2>3, <2>4 DEF Fresh, Fits
<1>4. y.from = version /\ y.next <= Len(log) + 1
      BY <1>0
<1> HIDE DEF y
<1>5. StreamFresh(y, task, log, memory, version)
      BY <1>2, <1>3, <1>4 DEF StreamFresh
<1> QED BY <1>1, <1>2, <1>5, TurnsKeep

LEMMA WatchersLag ==
  ASSUME StoreInv, WatchersInv, NEW s \in Watchers, Lag(s)
  PROVE  WatchersInv'
<1>0. /\ log \in Seq(Write) /\ Len(log) \in Nat /\ Buffer \in Nat \ {0}
      /\ watch \in [Watchers -> Stream \cup {Closed}]
      BY ConfigAssumption DEF StoreInv, WritersTyped, WatchersInv
<1>1. watch[s] \in Stream
      BY <1>0 DEF Lag, Behind
<1> DEFINE y == [st |-> "lagged", next |-> Oldest, from |-> watch[s].from, pipe |-> watch[s].pipe,
                 held |-> watch[s].held]
<1>2. [watch[s] EXCEPT !.st = "lagged", !.next = Oldest] = y
      BY <1>1, LagExcept
<1>3. watch' = [watch EXCEPT ![s] = y] /\ UNCHANGED <<task, log, memory, version>>
      BY <1>0, <1>2 DEF Lag
<1>4. Oldest \in Nat \ {0} /\ Oldest <= Len(log) + 1
      BY <1>0 DEF Oldest
<1>5. y \in Stream /\ y.st = "lagged" /\ y.next = Oldest
      BY <1>1, <1>4 DEF Stream
<1> HIDE DEF y
<1>6. StreamFresh(y, task, log, memory, version)
      BY <1>4, <1>5 DEF StreamFresh
<1> QED BY <1>3, <1>5, <1>6, TurnsKeep

LEMMA QueuedAppend ==
  ASSUME NEW q \in Seq(Write), NEW r \in Write, NEW k
  PROVE  \A c : c \in Queued(Append(q, r), k) <=> (c \in Queued(q, k) \/ (c = r /\ r.key = k))
<1>1. /\ Len(q) \in Nat /\ Len(Append(q, r)) = Len(q) + 1 /\ Append(q, r)[Len(q) + 1] = r
      /\ \A i \in 1..Len(q) : Append(q, r)[i] = q[i]
      OBVIOUS
<1>2. 1..(Len(q) + 1) = (1..Len(q)) \cup {Len(q) + 1}
      BY <1>1
<1> QED BY <1>1, <1>2 DEF Queued

LEMMA QueuedTail ==
  ASSUME NEW q \in Seq(Write), q # <<>>, NEW k
  PROVE  \A c : c \in Queued(q, k) <=> (c \in Queued(Tail(q), k) \/ (c = Head(q) /\ c.key = k))
<1>1. /\ Len(q) \in Nat /\ Len(q) >= 1 /\ Tail(q) \in Seq(Write) /\ Len(Tail(q)) = Len(q) - 1
      /\ Head(q) = q[1] /\ Head(q) \in Write
      /\ \A i \in 1..Len(Tail(q)) : Tail(q)[i] = q[i + 1]
      OBVIOUS
<1>2. \A c : (\E i \in 1..Len(q) : q[i] = c) <=>
               ((\E i \in 1..Len(Tail(q)) : Tail(q)[i] = c) \/ c = Head(q))
  <2>1. ASSUME NEW i \in 1..Len(q)
        PROVE  q[i] = Head(q) \/ (i - 1 \in 1..Len(Tail(q)) /\ Tail(q)[i - 1] = q[i])
    <3>1. CASE i = 1
          BY <3>1, <1>1
    <3>2. CASE i # 1
      <4>1. i - 1 \in 1..Len(Tail(q)) /\ (i - 1) + 1 = i
            BY <3>2, <1>1
      <4> QED BY <4>1, <1>1
    <3> QED BY <3>1, <3>2
  <2>2. \A i \in 1..Len(Tail(q)) : i + 1 \in 1..Len(q)
        BY <1>1
  <2>3. 1 \in 1..Len(q)
        BY <1>1
  <2> QED BY <2>1, <2>2, <2>3, <1>1
<1> QED BY <1>1, <1>2 DEF Queued

LEMMA AnnouncedFirst ==
  ASSUME NEW n \in Nat \ {0}, log \in Seq(Write), n <= Len(log), NEW k
  PROVE  \A c : c \in Announced(log, n, k) <=>
                  (c \in Announced(log, n + 1, k) \/ (c = log[n] /\ c.key = k))
<1>1. Len(log) \in Nat /\ log[n] \in Write /\ n..Len(log) = (n + 1..Len(log)) \cup {n}
      OBVIOUS
<1> QED BY <1>1 DEF Announced

LEMMA WatchersForward ==
  ASSUME StoreInv, WatchersInv, NEW s \in Watchers, Forward(s)
  PROVE  WatchersInv'
<1> DEFINE event == log[watch[s].next]
           n == watch[s].next
<1>0. /\ log \in Seq(Write) /\ Len(log) \in Nat
      /\ watch \in [Watchers -> Stream \cup {Closed}] /\ watch[s] # Closed /\ n <= Len(log)
      BY DEF StoreInv, WritersTyped, WatchersInv, Forward, Behind
<1>1. watch[s] \in Stream /\ n \in Nat \ {0} /\ watch[s].pipe \in Seq(Write) /\ event \in Write
  <2>1. watch[s] \in Stream
        BY <1>0
  <2> QED BY <1>0, <2>1, StreamFields
<1>2. StreamFresh(watch[s], task, log, memory, version)
      BY DEF WatchersInv
<1>3. ASSUME NEW q \in Seq(Write),
             watch' = [watch EXCEPT ![s] = [st |-> watch[s].st, next |-> n + 1, from |-> watch[s].from,
                                            pipe |-> q, held |-> watch[s].held]],
             \A k \in Watched : \A c : c \in Queued(q, k) <=>
               (c \in Queued(watch[s].pipe, k) \/ (c = event /\ event.key = k))
      PROVE  WatchersInv'
  <2> DEFINE y == [st |-> watch[s].st, next |-> n + 1, from |-> watch[s].from,
                   pipe |-> q, held |-> watch[s].held]
  <2>1. /\ y \in Stream /\ y.next = n + 1 /\ y.pipe = q /\ y.held = watch[s].held
        /\ y.st = watch[s].st /\ y.from = watch[s].from
        BY <1>1, StreamFields DEF Stream
  <2>2. watch' = [watch EXCEPT ![s] = y] /\ UNCHANGED <<task, log, memory, version>>
        BY <1>3 DEF Forward
  <2> HIDE DEF y, n, event
  <2>3. ASSUME NEW k \in Watched
        PROVE  Candidates(task, log, y, k) = Candidates(task, log, watch[s], k)
    <3>1. \A c : c \in Announced(log, n, k) <=>
                   (c \in Announced(log, n + 1, k) \/ (c = event /\ c.key = k))
          BY <1>0, <1>1, AnnouncedFirst DEF n, event
    <3>2. \A c : c \in Queued(q, k) \cup Announced(log, n + 1, k) <=>
                   c \in Queued(watch[s].pipe, k) \cup Announced(log, n, k)
          BY <3>1, <1>3
    <3>3. Queued(q, k) \cup Announced(log, n + 1, k) = Queued(watch[s].pipe, k) \cup Announced(log, n, k)
          BY <3>2
    <3> QED BY <2>1, <3>3 DEF Candidates, n
  <2>4. n + 1 <= Len(log) + 1
        BY <1>0, <1>1
  <2>5. StreamFresh(y, task, log, memory, version)
        BY <1>1, <1>2, <2>1, <2>3, <2>4, StreamFields DEF StreamFresh
  <2> QED BY <2>1, <2>2, <2>5, TurnsKeep
<1>4. CASE event.key \in Watched
  <2>1. watch' = [watch EXCEPT ![s].next = @ + 1, ![s].pipe = Append(@, event)]
        BY <1>4 DEF Forward
  <2>2. [watch[s] EXCEPT !.next = @ + 1, !.pipe = Append(@, event)] =
          [st |-> watch[s].st, next |-> n + 1, from |-> watch[s].from,
           pipe |-> Append(watch[s].pipe, event), held |-> watch[s].held]
        BY <1>1, ForwardExcept
  <2>3. watch' = [watch EXCEPT ![s] =
                    [st |-> watch[s].st, next |-> n + 1, from |-> watch[s].from,
                     pipe |-> Append(watch[s].pipe, event), held |-> watch[s].held]]
        BY <1>0, <2>1, <2>2
  <2>4. Append(watch[s].pipe, event) \in Seq(Write)
        BY <1>1
  <2> HIDE DEF event, n
  <2> QED BY <1>1, <1>3, <2>3, <2>4, QueuedAppend
<1>5. CASE event.key \notin Watched
  <2>1. watch' = [watch EXCEPT ![s].next = @ + 1]
        BY <1>5 DEF Forward
  <2>2. [watch[s] EXCEPT !.next = @ + 1] =
          [st |-> watch[s].st, next |-> n + 1, from |-> watch[s].from,
           pipe |-> watch[s].pipe, held |-> watch[s].held]
        BY <1>1 DEF Stream
  <2>3. watch' = [watch EXCEPT ![s] =
                    [st |-> watch[s].st, next |-> n + 1, from |-> watch[s].from,
                     pipe |-> watch[s].pipe, held |-> watch[s].held]]
        BY <1>0, <2>1, <2>2
  <2> HIDE DEF event, n
  <2> QED BY <1>1, <1>3, <1>5, <2>3
<1> QED BY <1>4, <1>5

(* The client keeps the newer of what it had of the key and the update *)
LEMMA WatchersUpdate ==
  ASSUME StoreInv, WatchersInv, NEW s \in Watchers, Update(s)
  PROVE  WatchersInv'
<1> DEFINE q == watch[s].pipe
           new == Head(watch[s].pipe)
           old == watch[s].held[Head(watch[s].pipe).key]
           keep == IF new.version > old.version THEN new ELSE old
           h == [watch[s].held EXCEPT ![new.key] = keep]
           y == [st |-> watch[s].st, next |-> watch[s].next, from |-> watch[s].from,
                 pipe |-> Tail(watch[s].pipe), held |-> h]
<1>0. /\ watch \in [Watchers -> Stream \cup {Closed}] /\ watch[s] # Closed /\ q # <<>>
      /\ StreamFresh(watch[s], task, log, memory, version) /\ version \in Nat /\ Watched \subseteq Keys
      BY BoundsAre DEF WatchersInv, Update, StoreInv, WritersTyped
<1>1. watch[s] \in Stream /\ q \in Seq(Write) /\ watch[s].held \in Holding
  <2>1. watch[s] \in Stream
        BY <1>0
  <2> QED BY <2>1, StreamFields
<1>2. new \in Write /\ new.key \in Keys /\ Tail(q) \in Seq(Write) /\ old \in Write \cup {Absent}
  <2>1. new \in Write /\ Tail(q) \in Seq(Write)
        BY <1>0, <1>1
  <2> QED BY <2>1, <1>1, WriteFields DEF Holding
<1>3. keep \in Write \cup {Absent}
      BY <1>2
<1>4. /\ h \in Holding /\ h[new.key] = keep
      /\ \A k \in Keys : k # new.key => h[k] = watch[s].held[k]
      BY <1>1, <1>2, <1>3 DEF Holding
<1>5. watch' = [watch EXCEPT ![s] = y]
  <2>1. watch' = [watch EXCEPT ![s].pipe = Tail(q), ![s].held[new.key] = keep]
        BY DEF Update
  <2>2. \A m, n : [watch[s] EXCEPT !.pipe = m, !.held = n] =
                    [st |-> watch[s].st, next |-> watch[s].next, from |-> watch[s].from,
                     pipe |-> m, held |-> n]
        BY <1>1, UpdateExcept
  <2>3. [watch[s] EXCEPT !.pipe = Tail(q), !.held = h] = y
    <3> DEFINE m == Tail(q)
    <3> HIDE DEF m, h
    <3>1. [watch[s] EXCEPT !.pipe = m, !.held = h] =
            [st |-> watch[s].st, next |-> watch[s].next, from |-> watch[s].from,
             pipe |-> m, held |-> h]
          BY <2>2
    <3> QED BY <3>1 DEF m
  <2> QED BY <1>0, <2>1, <2>3
<1>6. /\ y \in Stream /\ y.st = watch[s].st /\ y.next = watch[s].next /\ y.from = watch[s].from
      /\ y.pipe = Tail(q) /\ y.held = h
      BY <1>1, <1>2, <1>4, StreamFields DEF Stream
<1>7. UNCHANGED <<task, log, memory, version>>
      BY DEF Update
<1>8. (keep = new /\ new.version > old.version) \/ (keep = old /\ ~(new.version > old.version))
      OBVIOUS
<1> HIDE DEF y, h, keep
<1>9. ASSUME NEW k \in Watched, watch[s].st = "open"
      PROVE  Fresh(Candidates(task, log, y, k), y.from, memory[k], version)
  <2> DEFINE S == Candidates(task, log, watch[s], k)
             T == Candidates(task, log, y, k)
             Rest == Announced(log, watch[s].next, k)
                       \cup {r \in Write : r.key = k /\ Doing(task, {"persist", "publish"}, r)}
  <2>1. Fresh(S, y.from, memory[k], version)
        BY <1>0, <1>6, <1>9 DEF StreamFresh
  <2>2. \A c : c \in S <=> (c = watch[s].held[k] \/ c \in Queued(Tail(q), k)
                              \/ (c = new /\ c.key = k) \/ c \in Rest)
        BY <1>0, <1>1, QueuedTail DEF Candidates
  <2>3. \A c : c \in T <=> (c = h[k] \/ c \in Queued(Tail(q), k) \/ c \in Rest)
        BY <1>6 DEF Candidates
  <2>4. \A c \in S : c.version \in Nat /\ c.version <= c.version
        BY <2>1 DEF Fresh
  <2> HIDE DEF S, T, Rest, q, new, old
  <2>5. T \in SUBSET S /\ \A a \in S : \E b \in T : a.version <= b.version
    <3>1. CASE k = new.key
      <4>1. h[k] = keep /\ watch[s].held[k] = old
            BY <1>4, <3>1 DEF old, new
      <4>2. new \in S /\ old \in S /\ keep \in T
            BY <2>2, <2>3, <3>1, <4>1
      <4>3. old.version <= keep.version /\ new.version <= keep.version
            BY <4>2, <2>4, <1>8
      <4>4. keep \in S
            BY <1>8, <4>2
      <4>5. \A a \in S : a \in T \/ a = old \/ a = new
            BY <2>2, <2>3, <4>1
      <4>6. \A a \in T : a \in S
            BY <2>2, <2>3, <4>1, <4>4
      <4> QED BY <2>4, <4>2, <4>3, <4>5, <4>6
    <3>2. CASE k # new.key
      <4>1. h[k] = watch[s].held[k]
            BY <1>0, <1>4, <3>2
      <4>2. \A c : c \in T => c \in S
            BY <2>2, <2>3, <4>1
      <4>3. \A c \in S : c \in T
            BY <1>0, <2>2, <2>3, <3>2, <4>1
      <4> QED BY <2>4, <4>2, <4>3
    <3> QED BY <3>1, <3>2
  <2> QED BY <1>0, <2>1, <2>5, FreshLoses DEF T
<1>10. StreamFresh(y, task, log, memory, version)
      BY <1>0, <1>1, <1>6, <1>9 DEF StreamFresh
<1> QED BY <1>5, <1>6, <1>7, <1>10, TurnsKeep

LEMMA WatchersStep ==
  ASSUME StoreInv, Counted, WatchersInv, NEW s \in Watchers, Watcher(s)
  PROVE  WatchersInv'
<1>1. CASE Disconnect(s)
  <2>1. watch' = [watch EXCEPT ![s] = Closed] /\ UNCHANGED <<task, log, memory, version>>
        BY <1>1 DEF Disconnect
  <2> QED BY <2>1, TurnsKeep DEF StreamFresh
<1> QED BY <1>1, WatchersSubscribe, WatchersLag, WatchersForward, WatchersUpdate DEF Watcher

LEMMA WatchersNext ==
  ASSUME StoreInv, Counted, WatchersInv, [Next]_cmvars
  PROVE  WatchersInv'
<1>1. CASE Restart
  <2>1. watch' = [s \in Watchers |-> Closed]
        BY <1>1 DEF Restart
  <2> QED BY <2>1 DEF WatchersInv, StreamFresh
<1>2. CASE UNCHANGED cmvars
      BY <1>2 DEF cmvars, WatchersInv
<1> QED BY <1>1, <1>2, WatchersWrite, WatchersStep DEF Next

(* A client that was never too slow for the channel and has taken all its   *)
(* updates agrees with the map on every key that was written since it       *)
(* subscribed, though concurrent writers announce their versions out of     *)
(* order: among what a stream holds of a key and what is still on the way   *)
(* to it, the newest is always what the map has.                            *)
THEOREM WatchersCatchUp == CMSpec => []WatcherCatchesUp
<1>1. Init => WatchersInv
      BY DEF Init, WatchersInv, StreamFresh
<1>2. ASSUME VersionInv, WatchersInv, Quiet, NEW s \in Watchers, watch[s] # Closed,
             watch[s].st = "open", ~Behind(s), watch[s].pipe = <<>>, NEW k \in Watched
      PROVE  \/ watch[s].held[k].value = memory[k].value
             \/ watch[s].held[k].version <= watch[s].from /\ memory[k].version <= watch[s].from
  <2>1. /\ StreamFresh(watch[s], task, log, memory, version) /\ log \in Seq(Write)
        /\ Len(log) \in Nat /\ watch[s].next \in Nat
        BY <1>2 DEF WatchersInv, VersionInv, StoreInv, WritersTyped, StreamFresh, Stream
  <2>2. ~(watch[s].next <= Len(log))
        BY <1>2 DEF Behind
  <2>3. /\ Queued(watch[s].pipe, k) = {} /\ Announced(log, watch[s].next, k) = {}
        /\ \A r : ~Doing(task, {"persist", "publish"}, r)
        BY <1>2, <2>1, <2>2 DEF Queued, Announced, Doing, Quiet, Resting
  <2>4. Candidates(task, log, watch[s], k) = {watch[s].held[k]}
        BY <2>3 DEF Candidates
  <2>5. Fresh({watch[s].held[k]}, watch[s].from, memory[k], version)
        BY <1>2, <2>1, <2>4 DEF StreamFresh
  <2> QED BY <2>5 DEF Fresh, Fits, Newest
<1>3. VersionInv /\ WatchersInv => WatcherCatchesUp
      BY <1>2 DEF WatcherCatchesUp
<1>4. VersionInv /\ WatchersInv /\ [Next]_cmvars => WatchersInv'
      BY WatchersNext DEF VersionInv
<1> QED BY <1>1, <1>3, <1>4, VersionInvariance, PTL DEF CMSpec
=============================================================================
