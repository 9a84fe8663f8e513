------------------------------ MODULE BatchStore ------------------------------
(***************************************************************************)
(* BatchTaskStore of src/src/batch_store.rs over the tasks of              *)
(* src/src/batch.rs: a task and its execution items live in two tables and *)
(* a cache.  create and update write the task's row, then one row per item *)
(* (update deletes the old ones first) without a transaction, then the     *)
(* cache.  SQLite, as it is bundled with rusqlite, enforces the foreign    *)
(* key of the items: deleting a task deletes its items, and an item        *)
(* without a task is refused.                                              *)
(*                                                                         *)
(* The store takes any task it is handed, and whoever runs a batch is      *)
(* outside the crate: its fields are public, so the counters and the       *)
(* status of a task are those of its items only if the caller has just     *)
(* called update_status.                                                   *)
(***************************************************************************)
EXTENDS Naturals, Sequences, FiniteSets

CONSTANTS
  Tasks,        \* task ids
  GivenTasks,   \* tasks that callers make and hand over as they are
  ItemReports, StatusReports, \* statuses that callers set in their copies
  BatchClients, \* threads that call the store
  NoTask,       \* absent from the table or the cache
  MaxBatchOps, MaxBatchFaults, MaxBatchRestarts \* bounds: calls, faults, restarts

ItemStatus == {"pending", "running", "success", "failed", "skipped"}
TaskStatus == {"pending", "running", "completed", "partial_failure", "failed", "cancelled"}

ASSUME BatchAssumption ==
  /\ GivenTasks \subseteq [status : TaskStatus, progress : Nat, total : Nat, items : Seq(ItemStatus)]
  /\ ItemReports \subseteq ItemStatus /\ StatusReports \subseteq TaskStatus
  /\ NoTask \notin [status : TaskStatus, progress : Nat, total : Nat]
  /\ NoTask \notin [status : TaskStatus, progress : Nat, total : Nat, items : Seq(ItemStatus)]

VARIABLES
  taskRows,   \* table batch_tasks: status, progress, total_items
  itemRows,   \* table batch_execution_items: task -> its rows in order
  taskCache,  \* BatchTaskCache.tasks
  taskStats,  \* BatchTaskCache.stats
  batchCall,  \* client -> its call and the step it is at
  damaged,    \* history: tasks written by two calls at once, or only in part
  wrote,      \* history: task -> what the last call that wrote its row was handed
  batchBudget \* calls, faults and restarts so far

batchVars == <<taskRows, itemRows, taskCache, taskStats, batchCall, damaged, wrote,
              batchBudget>>

Count(items, statuses) == Cardinality({i \in DOMAIN items : items[i] \in statuses})

(* update_status: a skipped item is never done, and whatever status the    *)
(* task had is forgotten.                                                  *)
UpdateStatus(task) ==
  LET total == Len(task.items)
      done == Count(task.items, {"success", "failed"})
  IN [task EXCEPT
       !.progress = done, !.total = total,
       !.status = CASE total = 0 -> "pending"
                    [] total > 0 /\ done < total -> "running"
                    [] total > 0 /\ done = total ->
                         IF Count(task.items, {"failed"}) > 0
                         THEN "partial_failure" ELSE "completed"]

Row(task) == [status |-> task.status, progress |-> task.progress, total |-> task.total]

(* row_data_to_task with load_execution_items *)
Loaded(t) == [status |-> taskRows[t].status, progress |-> taskRows[t].progress,
              total |-> taskRows[t].total, items |-> itemRows[t]]
Table == [t \in Tasks |-> IF taskRows[t] = NoTask THEN NoTask ELSE Loaded(t)]

(* update_stats: a cancelled task is counted in no column *)
BatchStats(tasks) ==
  LET held == {t \in Tasks : tasks[t] # NoTask}
      In(statuses) == Cardinality({t \in held : tasks[t].status \in statuses})
      Executions(statuses) == Cardinality(UNION {
        {<<t, i>> : i \in {j \in DOMAIN tasks[t].items : tasks[t].items[j] \in statuses}} : t \in held})
  IN [tasks |-> Cardinality(held), pending |-> In({"pending"}), running |-> In({"running"}),
      completed |-> In({"completed"}), failed |-> In({"failed", "partial_failure"}),
      executions |-> Executions(ItemStatus), successful |-> Executions({"success"}),
      failures |-> Executions({"failed"})]

(* BatchTask::new *)
NewTask == [status |-> "pending", progress |-> 0, total |-> 0, items |-> << >>]

(* A copy of a task that its caller changes: an item is added or reported, *)
(* the status is set (a batch is cancelled by its caller).                 *)
Edited(task) ==
  {[task EXCEPT !.items = Append(@, "pending")]}
  \cup {[task EXCEPT !.items[i] = s] : i \in DOMAIN task.items, s \in ItemReports}
  \cup {[task EXCEPT !.status = s] : s \in StatusReports}

Quiet == [step |-> "none"]

BatchInit ==
  /\ taskRows = [t \in Tasks |-> NoTask] /\ itemRows = [t \in Tasks |-> << >>]
  /\ taskCache = taskRows /\ taskStats = BatchStats(taskCache)
  /\ batchCall = [c \in BatchClients |-> Quiet]
  /\ damaged = {} /\ wrote = taskRows
  /\ batchBudget = [calls |-> 0, faults |-> 0, restarts |-> 0]
-----------------------------------------------------------------------------
Writers(t) == {c \in BatchClients : batchCall[c] # Quiet /\ batchCall[c].id = t}

BeginBatchCall(c, op, t, task) ==
  /\ batchCall[c] = Quiet /\ batchBudget.calls < MaxBatchOps
  /\ batchBudget' = [batchBudget EXCEPT !.calls = @ + 1]
  /\ batchCall' = [batchCall EXCEPT
       ![c] = [op |-> op, id |-> t, task |-> task, left |-> task.items, step |-> "task"]]
  /\ damaged' = IF Writers(t) = {} THEN damaged ELSE damaged \cup {t}
  /\ UNCHANGED <<taskRows, itemRows, taskCache, taskStats, wrote>>

(* The id of a new task is one that no task has had. *)
CreateTask(c) == \E t \in Tasks, task \in GivenTasks \cup {NewTask} :
  /\ taskRows[t] = NoTask /\ taskCache[t] = NoTask /\ Writers(t) = {}
  /\ BeginBatchCall(c, "create", t, task)

UpdateTask(c) == \E t \in Tasks :
  \/ /\ taskCache[t] # NoTask
     /\ \E task \in Edited(taskCache[t]) :
          \/ BeginBatchCall(c, "update", t, task)
          \/ BeginBatchCall(c, "update", t, UpdateStatus(task))
  \/ \E task \in GivenTasks : BeginBatchCall(c, "update", t, task)

DeleteTask(c) == \E t \in Tasks :
  taskCache[t] # NoTask /\ BeginBatchCall(c, "delete", t, taskCache[t])

Step(c, s) == batchCall' = [batchCall EXCEPT ![c].step = s]
End(c) == batchCall' = [batchCall EXCEPT ![c] = Quiet]

(* The first statement of a call: the row of the task *)
WriteTask(c) ==
  LET t == batchCall[c].id
      known == taskRows[t] # NoTask
  IN
  /\ batchCall[c].step = "task"
  /\ CASE batchCall[c].op = "create" ->
            /\ taskRows' = [taskRows EXCEPT ![t] = Row(batchCall[c].task)]
            /\ wrote' = [wrote EXCEPT ![t] = batchCall[c].task]
            /\ Step(c, "items") /\ UNCHANGED itemRows
       [] batchCall[c].op = "update" /\ known ->
            /\ taskRows' = [taskRows EXCEPT ![t] = Row(batchCall[c].task)]
            /\ wrote' = [wrote EXCEPT ![t] = batchCall[c].task]
            /\ Step(c, "clear") /\ UNCHANGED itemRows
       [] batchCall[c].op = "delete" /\ known ->
            /\ taskRows' = [taskRows EXCEPT ![t] = NoTask]
            /\ wrote' = [wrote EXCEPT ![t] = NoTask]
            /\ itemRows' = [itemRows EXCEPT ![t] = << >>]
            /\ Step(c, "cache")
       [] OTHER -> End(c) /\ UNCHANGED <<taskRows, itemRows, wrote>>
  /\ UNCHANGED <<taskCache, taskStats, damaged, batchBudget>>

(* Mutant: update writes the items without deleting the old ones. *)
ClearItemsNot(c) ==
  /\ batchCall[c].step = "clear" /\ Step(c, "items")
  /\ UNCHANGED <<itemRows, taskRows, taskCache, taskStats, damaged, wrote, batchBudget>>

ClearItems(c) ==
  /\ batchCall[c].step = "clear"
  /\ itemRows' = [itemRows EXCEPT ![batchCall[c].id] = << >>]
  /\ Step(c, "items")
  /\ UNCHANGED <<taskRows, taskCache, taskStats, damaged, wrote, batchBudget>>

(* One INSERT per item; the call keeps the items it has still to write.    *)
(* The foreign key refuses an item whose task has been deleted meanwhile.  *)
InsertItem(c) ==
  LET t == batchCall[c].id
      left == batchCall[c].left
  IN
  /\ batchCall[c].step = "items"
  /\ IF left = << >> THEN Step(c, "cache") /\ UNCHANGED itemRows
     ELSE IF taskRows[t] = NoTask THEN End(c) /\ UNCHANGED itemRows
     ELSE /\ itemRows' = [itemRows EXCEPT ![t] = Append(@, Head(left))]
          /\ batchCall' = [batchCall EXCEPT ![c].left = Tail(left)]
  /\ UNCHANGED <<taskRows, taskCache, taskStats, damaged, wrote, batchBudget>>

BatchStatementFails(c) ==
  /\ batchCall[c].step \in {"task", "clear", "items"}
  /\ batchBudget.faults < MaxBatchFaults
  /\ batchBudget' = [batchBudget EXCEPT !.faults = @ + 1]
  /\ damaged' = IF batchCall[c].step = "task" THEN damaged
                                             ELSE damaged \cup {batchCall[c].id}
  /\ End(c)
  /\ UNCHANGED <<taskRows, itemRows, taskCache, taskStats, wrote>>

CacheTask(c) ==
  LET t == batchCall[c].id
      present == batchCall[c].op = "create" \/ taskCache[t] # NoTask
  IN
  /\ batchCall[c].step = "cache"
  /\ taskCache' = IF ~present THEN taskCache ELSE
       [taskCache EXCEPT ![t] = IF batchCall[c].op = "delete" THEN NoTask
                                                              ELSE batchCall[c].task]
  /\ IF present THEN Step(c, "stats") ELSE End(c)
  /\ UNCHANGED <<taskRows, itemRows, taskStats, damaged, wrote, batchBudget>>

UpdateBatchStats(c) ==
  /\ batchCall[c].step = "stats"
  /\ taskStats' = BatchStats(taskCache) /\ End(c)
  /\ UNCHANGED <<taskRows, itemRows, taskCache, damaged, wrote, batchBudget>>

(* A restart cuts the calls short; load_from_db reads both tables. *)
ReopenBatchStore ==
  /\ batchBudget.restarts < MaxBatchRestarts
  /\ batchBudget' = [batchBudget EXCEPT !.restarts = @ + 1]
  /\ damaged' = damaged \cup {t \in Tasks : \E c \in Writers(t) :
                                batchCall[c].step \in {"clear", "items"}}
  /\ batchCall' = [c \in BatchClients |-> Quiet]
  /\ taskCache' = Table /\ taskStats' = BatchStats(Table)
  /\ UNCHANGED <<taskRows, itemRows, wrote>>

BatchNext ==
  \/ ReopenBatchStore
  \/ \E c \in BatchClients :
       \/ CreateTask(c) \/ UpdateTask(c) \/ DeleteTask(c)
       \/ WriteTask(c) \/ ClearItems(c) \/ InsertItem(c) \/ BatchStatementFails(c)
       \/ CacheTask(c) \/ UpdateBatchStats(c)
-----------------------------------------------------------------------------
(* BatchTaskCache::filter by status; sorting and paging are left out *)
FilterTasks(statuses) ==
  {t \in Tasks : taskCache[t] # NoTask /\ taskCache[t].status \in statuses}

BatchStoreTypeOK ==
  /\ \A t \in Tasks : \A task \in {Table[t], taskCache[t]} \ {NoTask} :
       /\ task.status \in TaskStatus /\ task.progress \in Nat
       /\ \A i \in DOMAIN task.items : task.items[i] \in ItemStatus
  /\ damaged \subseteq Tasks

(* When no call is in progress, a task that no two calls wrote at once,    *)
(* and that no call left half written, is in the tables what one call was  *)
(* handed, its row and its items together, whatever statements failed and  *)
(* whatever restart cut calls short, and the cache answers with the same   *)
(* task; the statistics count the tasks that the cache lists.              *)
BatchesAgree == (\A c \in BatchClients : batchCall[c] = Quiet) =>
  /\ \A t \in Tasks \ damaged : Table[t] = wrote[t] /\ taskCache[t] = wrote[t]
  /\ taskStats.tasks = Cardinality({t \in Tasks : taskCache[t] # NoTask})
  /\ taskStats.pending = Cardinality(FilterTasks({"pending"}))
  /\ taskStats.running = Cardinality(FilterTasks({"running"}))
  /\ taskStats.completed = Cardinality(FilterTasks({"completed"}))
  /\ taskStats.failed = Cardinality(FilterTasks({"failed", "partial_failure"}))
=============================================================================
