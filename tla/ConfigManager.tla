---------------------------- MODULE ConfigManager ----------------------------
(***************************************************************************)
(* The configuration manager of src/config_manager.rs and the WatchConfig  *)
(* stream of src/app_platform.rs.  A value is written in three steps, each *)
(* under a lock of its own: the in-memory map with the global version      *)
(* counter, the config_versions table of the store, and the broadcast      *)
(* channel.  Writers are concurrent, so the steps of two writes interleave.*)
(* Readers ask the store first and the map only for a key the store does   *)
(* not have.  A restart of the agent empties the map and resets the        *)
(* counter; the table stays.                                               *)
(*                                                                         *)
(* A key stands for a pair of a scope and a key; JSON encoding of values,  *)
(* signatures (always None) and log lines are left out.                    *)
(***************************************************************************)
EXTENDS Integers, Sequences, FiniteSets

CONSTANTS
  Keys,         (* pairs of a scope and a key                              *)
  Watched,      (* the keys that are relevant to the watching app          *)
  Values,       (* what a key can be set to                                *)
  Null,         (* no value: the row and the event of a deletion           *)
  Writers,      (* tasks that call set and delete                          *)
  Watchers,     (* WatchConfig streams                                     *)
  Buffer,       (* events the broadcast channel keeps: 256                 *)
  Pipe,         (* updates on the way to a client: mpsc::channel(16)       *)
  MaxVersion,   (* bound: writes in one run of the agent                   *)
  MaxRestarts,  (* bound: restarts of the agent                            *)
  MaxFaults     (* bound: inserts refused by the store's medium            *)

ASSUME ConfigAssumption ==
  /\ Watched \subseteq Keys
  /\ Null \notin Values
  /\ {MaxVersion, MaxRestarts, MaxFaults} \subseteq Nat
  /\ {Buffer, Pipe} \subseteq Nat \ {0}

VARIABLES
  version,   (* global_version                                             *)
  memory,    (* scopes: the value and version of each key, or Absent       *)
  rows,      (* config_versions; Null for the JSON null of a deletion      *)
  task,      (* what each writer has left to do                            *)
  log,       (* events broadcast in this run of the agent, oldest first    *)
  watch,     (* the WatchConfig streams                                    *)
  restarts,  (* how often the agent was restarted                          *)
  unstored   (* writes whose insert failed (history)                       *)

cmvars == <<version, memory, rows, task, log, watch, restarts, unstored>>

-----------------------------------------------------------------------------
Version == 1..MaxVersion

(* ConfigVersionRecord and ConfigChangeEvent *)
Write == [key : Keys, value : Values \cup {Null}, version : Version]

Absent == [value |-> Null, version |-> 0]

Resting == [at |-> "rest"]

(* An open or lagged stream.                                                *)
(* next: index of the next event of the log for the receiver; from: the     *)
(* version at the subscription; held: what the client keeps of each key,    *)
(* the newest version it was sent                                           *)
Closed == [st |-> "closed"]

Init ==
  /\ version = 0
  /\ memory = [k \in Keys |-> Absent]
  /\ rows = {}
  /\ task = [w \in Writers |-> Resting]
  /\ log = <<>>
  /\ watch = [s \in Watchers |-> Closed]
  /\ restarts = 0
  /\ unstored = {}

-----------------------------------------------------------------------------
(* Reads *)

RowsOf(k) == {r \in rows : r.key = k}

(* load_latest_config: ORDER BY version DESC LIMIT 1 *)
Latest(k) == CHOOSE r \in RowsOf(k) : \A s \in RowsOf(k) : s.version <= r.version

Get(k) == IF RowsOf(k) = {} THEN memory[k].value ELSE Latest(k).value

(* A snapshot has the keys of the store only *)
Snapshot(k) == IF RowsOf(k) = {} THEN Null ELSE Latest(k).value

-----------------------------------------------------------------------------
(* Writers *)

At(w, step) == task[w].at = step

Set(w, k, v) ==
  /\ At(w, "rest") /\ version < MaxVersion
  /\ LET next == version + 1
     IN  /\ version' = next
         /\ memory' = [memory EXCEPT ![k] = [value |-> v, version |-> next]]
         /\ task' = [task EXCEPT ![w] =
              [at |-> "persist", write |-> [key |-> k, value |-> v, version |-> next]]]
  /\ UNCHANGED <<rows, log, watch, restarts, unstored>>

Existed(value) == IF value = Null THEN "no" ELSE "yes"

(* delete first asks get() whether the key exists: the store, and then the  *)
(* map if the store has no row                                              *)
Delete(w, k) ==
  /\ At(w, "rest") /\ version < MaxVersion
  /\ task' = [task EXCEPT ![w] =
       IF RowsOf(k) = {}
         THEN [at |-> "look", key |-> k]
         ELSE [at |-> "remove", key |-> k, existed |-> Existed(Latest(k).value)]]
  /\ UNCHANGED <<version, memory, rows, log, watch, restarts, unstored>>

LookInMemory(w) ==
  /\ At(w, "look")
  /\ task' = [task EXCEPT ![w] =
       [at |-> "remove", key |-> @.key, existed |-> Existed(memory[@.key].value)]]
  /\ UNCHANGED <<version, memory, rows, log, watch, restarts, unstored>>

(* Mutant: whether a key existed is not looked up again when it is removed *)
RemoveIfSeen(w) ==
  /\ At(w, "remove") /\ version < MaxVersion
  /\ LET k    == task[w].key
         next == version + 1
     IN  /\ version' = next
         /\ memory' = [memory EXCEPT ![k] = Absent]
         /\ task' = [task EXCEPT ![w] =
              IF @.existed = "yes"
                THEN [at |-> "persist",
                      write |-> [key |-> k, value |-> Null, version |-> next]]
                ELSE Resting]
  /\ UNCHANGED <<rows, log, watch, restarts, unstored>>

(* The counter goes up even if there is nothing to remove *)
Remove(w) ==
  /\ At(w, "remove") /\ version < MaxVersion
  /\ LET k    == task[w].key
         next == version + 1
     IN  /\ version' = next
         /\ memory' = [memory EXCEPT ![k] = Absent]
         /\ task' = [task EXCEPT ![w] =
              IF memory[k] # Absent \/ @.existed = "yes"
                THEN [at |-> "persist",
                      write |-> [key |-> k, value |-> Null, version |-> next]]
                ELSE Resting]
  /\ UNCHANGED <<rows, log, watch, restarts, unstored>>

(* Mutant: the row of a version that exists is overwritten *)
PersistReplaces(w) ==
  /\ At(w, "persist")
  /\ LET new == task[w].write
     IN  rows' = {r \in rows : r.key # new.key \/ r.version # new.version} \cup {new}
  /\ task' = [task EXCEPT ![w].at = "publish"]
  /\ UNCHANGED <<version, memory, log, watch, restarts, unstored>>

(* Mutant: a deletion is not written to the store *)
PersistSetsOnly(w) ==
  /\ At(w, "persist")
  /\ rows' = rows \cup {r \in {task[w].write} : r.value # Null}
  /\ task' = [task EXCEPT ![w].at = "publish"]
  /\ UNCHANGED <<version, memory, log, watch, restarts, unstored>>

(* INSERT, which fails for a version that is there already and whenever the *)
(* database cannot be written; the error is only logged                     *)
Persist(w) ==
  LET new   == task[w].write
      taken == \E r \in rows : r.key = new.key /\ r.version = new.version
  IN  /\ At(w, "persist")
      /\ task' = [task EXCEPT ![w].at = "publish"]
      /\ \/ /\ ~taken
            /\ rows' = rows \cup {new}
            /\ UNCHANGED unstored
         \/ /\ taken \/ Cardinality(unstored) < MaxFaults
            /\ unstored' = unstored \cup {new}
            /\ UNCHANGED rows
      /\ UNCHANGED <<version, memory, log, watch, restarts>>

(* Mutant: deletions are not announced *)
PublishSetsOnly(w) ==
  /\ At(w, "publish")
  /\ log' = IF task[w].write.value = Null THEN log ELSE Append(log, task[w].write)
  /\ task' = [task EXCEPT ![w] = Resting]
  /\ UNCHANGED <<version, memory, rows, watch, restarts, unstored>>

Publish(w) ==
  /\ At(w, "publish")
  /\ log' = Append(log, task[w].write)
  /\ task' = [task EXCEPT ![w] = Resting]
  /\ UNCHANGED <<version, memory, rows, watch, restarts, unstored>>

Writer(w) ==
  \/ \E k \in Keys : Delete(w, k) \/ \E v \in Values : Set(w, k, v)
  \/ LookInMemory(w) \/ Remove(w) \/ Persist(w) \/ Publish(w)

-----------------------------------------------------------------------------
(* WatchConfig *)

Subscribe(s) ==
  /\ watch[s] = Closed
  /\ watch' = [watch EXCEPT ![s] =
       [st |-> "open", next |-> Len(log) + 1, from |-> version, pipe |-> <<>>,
        held |-> [k \in Keys |-> Absent]]]
  /\ UNCHANGED <<version, memory, rows, task, log, restarts, unstored>>

Behind(s) == watch[s] # Closed /\ watch[s].next <= Len(log)

(* The oldest event that the broadcast channel still has *)
Oldest == IF Len(log) > Buffer THEN Len(log) - Buffer + 1 ELSE 1

(* A receiver that is too far behind goes on with the oldest event *)
Lag(s) ==
  /\ Behind(s) /\ watch[s].next < Oldest
  /\ watch' = [watch EXCEPT ![s].st = "lagged", ![s].next = Oldest]
  /\ UNCHANGED <<version, memory, rows, task, log, restarts, unstored>>

(* The spawned forwarder: it takes the next event only when the update      *)
(* before it has gone into the pipe (the pipe here includes the update that *)
(* the forwarder is holding)                                                *)
Forward(s) ==
  /\ Behind(s) /\ watch[s].next >= Oldest
  /\ LET event == log[watch[s].next]
     IN  IF event.key \in Watched
           THEN /\ Len(watch[s].pipe) < Pipe
                /\ watch' = [watch EXCEPT ![s].next = @ + 1,
                                          ![s].pipe = Append(@, event)]
           ELSE watch' = [watch EXCEPT ![s].next = @ + 1]
  /\ UNCHANGED <<version, memory, rows, task, log, restarts, unstored>>

(* The client, which keeps the newest version of every key (external) *)
Update(s) ==
  /\ watch[s] # Closed
  /\ watch[s].pipe # <<>>
  /\ LET new == Head(watch[s].pipe)
     IN  watch' = [watch EXCEPT ![s].pipe = Tail(@),
                                ![s].held[new.key] =
                                   IF new.version > @.version THEN new ELSE @]
  /\ UNCHANGED <<version, memory, rows, task, log, restarts, unstored>>

Disconnect(s) ==
  /\ watch[s] # Closed
  /\ watch' = [watch EXCEPT ![s] = Closed]
  /\ UNCHANGED <<version, memory, rows, task, log, restarts, unstored>>

Watcher(s) == Subscribe(s) \/ Lag(s) \/ Forward(s) \/ Update(s) \/ Disconnect(s)

-----------------------------------------------------------------------------
(* The agent stops, perhaps in the middle of writes, and starts again: the  *)
(* manager is new and nothing of the store is read into it                  *)
Restart ==
  /\ restarts < MaxRestarts
  /\ restarts' = restarts + 1
  /\ version' = 0
  /\ memory' = [k \in Keys |-> Absent]
  /\ task' = [w \in Writers |-> Resting]
  /\ log' = <<>>
  /\ watch' = [s \in Watchers |-> Closed]
  /\ UNCHANGED <<rows, unstored>>

Next ==
  \/ \E w \in Writers : Writer(w)
  \/ \E s \in Watchers : Watcher(s)
  \/ Restart

CMSpec == Init /\ [][Next]_cmvars

-----------------------------------------------------------------------------
(* Properties *)

Quiet == \A w \in Writers : task[w] = Resting

(* When no write is in progress, get and snapshot agree with what the last  *)
(* writes left in memory, a deletion included, in whatever order the writes *)
(* reached the store: until the first restart of the agent, and as long as  *)
(* every insert succeeded.                                                  *)
FirstRunReadsLastWrite ==
  Quiet /\ restarts = 0 /\ unstored = {} =>
    \A k \in Keys : Get(k) = memory[k].value /\ Snapshot(k) = memory[k].value

(* A key that was set in this run of the agent reads as what it was last set *)
(* to once no write is in progress: what the manager's tests assert after   *)
(* set.  It fails after a restart, whose counter starts below the versions  *)
(* the store already has.                                                   *)
ReadsReturnLastSet ==
  Quiet => \A k \in Keys : memory[k] # Absent => Get(k) = memory[k].value

(* A change that any watcher may have been told of is in the store, unless  *)
(* its insert failed: a crash right after the event cannot undo it.         *)
AnnouncedIsDurable ==
  \A i \in 1..Len(log) : log[i] \in rows \cup unstored

(* A watcher that was never too slow and has taken all its updates agrees   *)
(* with the map on every key written since it subscribed, although events   *)
(* are announced out of the order of their versions.                        *)
WatcherCatchesUp ==
  \A s \in Watchers :
    Quiet /\ watch[s] # Closed =>
      (watch[s].st = "open" /\ ~Behind(s) /\ watch[s].pipe = <<>> =>
         \A k \in Watched :
           \/ watch[s].held[k].value = memory[k].value
           \/ /\ watch[s].held[k].version <= watch[s].from
              /\ memory[k].version <= watch[s].from)

(* What is stored under a version never changes, and the version that       *)
(* readers get for a stored key never goes back, not even by a restart that *)
(* starts to count from zero again.                                         *)
StoredVersionsAreFinal ==
  [][\A k \in Keys :
       RowsOf(k) # {} =>
         /\ RowsOf(k)' # {}
         /\ Latest(k).version <= Latest(k)'.version
         /\ Latest(k).version = Latest(k)'.version => Latest(k) = Latest(k)']_cmvars
=============================================================================
