-------------------------------- MODULE Monitors --------------------------------
(***************************************************************************)
(* Measuring the system: the monitor plugins of src/src/*_monitor.rs over  *)
(* the trait of src/src/plugins.rs, and the NetworkSampler of              *)
(* src/src/state.rs.  The CPU, memory, disk and process monitors take the  *)
(* same steps and differ in what they read, so one collection reads for    *)
(* all four.  The network monitor never gets to the end of a collection:   *)
(* it asks for a lock while it holds it.                                   *)
(***************************************************************************)
EXTENDS Integers, Sequences, FiniteSets

CONSTANTS
  Systems,          \* the states of the system: [cpu, total, available, processes]
  NotANumber,       \* what a reading may be instead of a number
  Settings,         \* configurations: [interval, top]; top = NotANumber: not given
  Collectors,       \* threads that call the monitors and the sampler
  NoAnswer, Nobody,
  MaxChanges, MaxCollections, MaxBytes, MaxInits \* bounds: changes of the system;
                                     \* collections and snapshots; bytes received; calls of init

Process == [pid : Nat, cpu : Nat \cup {NotANumber}, memory : Nat,
            state : {"run", "zombie", "sleep"}]

ASSUME MonitorAssumption ==
  /\ IsFiniteSet(Collectors) /\ Nobody \notin Collectors
  /\ \A sys \in Systems : sys.processes \subseteq Process

VARIABLES
  log,         \* the system as it was and, last, as it is
  held,        \* the monitor's system: the position in log of its last refresh
  monitor,     \* its status, interval, max_top_processes and collection_count
  collection,  \* Collectors -> a call of collect
  answers,     \* history: collections that returned
  netCall,     \* Collectors -> a call of the network monitor's collect
  bytes, seenBytes, \* bytes received by an interface; those the sampler's refresh saw
  snapshot,    \* the sampler's lock, and the rate the snapshot in progress read
  reported,    \* history: the sum of all rates in answers
  lostCounters, \* history: a snapshot could not read the counters
  inits

(* The three share nothing. *)
pluginVars == <<log, held, monitor, collection, answers, inits>>
networkMonitorVars == <<netCall>>
samplerVars == <<bytes, seenBytes, snapshot, reported, lostCounters>>

NoCollection == [at |-> "idle", from |-> 0, answer |-> NoAnswer]
NoSnapshot == [by |-> Nobody, rate |-> 0]

(* A usage over 100 or not a number is reported as 0. *)
Usage(reading) == IF reading = NotANumber \/ reading > 100 THEN 0 ELSE reading

Used(sys) == IF sys.available > sys.total THEN 0 ELSE sys.total - sys.available

UsedPercent(sys) == IF sys.total = 0 THEN 0 ELSE (Used(sys) * 100) \div sys.total

InState(sys, s) == Cardinality({p \in sys.processes : p.state = s})

(* The lists a sort by a measure may give, cut at max: equals in any order. *)
Tops(processes, measure, max) ==
  LET length == IF max < Cardinality(processes) THEN max ELSE Cardinality(processes)
  IN {s \in [1..length -> processes] :
        /\ \A i, j \in 1..length : i < j => s[i] # s[j] /\ measure[s[i]] >= measure[s[j]]
        /\ \A p \in processes, i \in 1..length :
             measure[p] > measure[s[i]] => \E j \in 1..i-1 : s[j] = p}

TopCpu(sys, max) == Tops(sys.processes, [p \in sys.processes |-> Usage(p.cpu)], max)

TopMemory(sys, max) == Tops(sys.processes, [p \in sys.processes |-> p.memory], max)

(* What the monitors may say of one state of the system. *)
Points(sys, max) ==
  {[cpu |-> Usage(sys.cpu), percent |-> UsedPercent(sys),
    counts |-> <<Cardinality(sys.processes), InState(sys, "run"), InState(sys, "zombie")>>,
    topCpu |-> c, topMemory |-> mem] : c \in TopCpu(sys, max), mem \in TopMemory(sys, max)}

MonitorInit ==
  /\ log \in {<<s>> : s \in Systems} /\ held = 1 /\ inits = 0
  /\ monitor = [status |-> "stopped", interval |-> 60, top |-> 10, collected |-> 0]
  /\ collection = [c \in Collectors |-> NoCollection] /\ answers = 0
  /\ netCall = [c \in Collectors |-> "idle"]
  /\ bytes = 0 /\ seenBytes = 0 /\ snapshot = NoSnapshot
  /\ reported = 0 /\ lostCounters = FALSE
-----------------------------------------------------------------------------
SystemChanges ==
  /\ Len(log) <= MaxChanges
  /\ \E s \in Systems : s # log[Len(log)] /\ log' = Append(log, s)
  /\ UNCHANGED <<held, monitor, collection, answers, inits>>

(* Mutant: only the first collection refreshes what a monitor holds. *)
RefreshedOnce == IF held = 1 THEN Len(log) ELSE held

Refreshed == Len(log)

(* init has the monitor to itself.  It stores the configuration before it  *)
(* checks it: an interval of 0 is refused and kept.                        *)
InitMonitor(setting) ==
  /\ inits < MaxInits /\ inits' = inits + 1
  /\ \A c \in Collectors : collection[c].at = "idle"
  /\ \/ /\ setting.interval = 0
        /\ monitor' = [monitor EXCEPT !.interval = 0]
        /\ held' = held
     \/ /\ setting.interval > 0
        /\ monitor' = [monitor EXCEPT
             !.interval = setting.interval, !.status = "running",
             !.top = IF setting.top = NotANumber THEN @ ELSE setting.top]
        /\ held' = Refreshed
  /\ UNCHANGED <<log, collection, answers>>

StartMonitor ==
  /\ monitor.status # "running" /\ monitor' = [monitor EXCEPT !.status = "running"]
  /\ UNCHANGED <<log, held, collection, answers, inits>>

StopMonitor ==
  /\ monitor' = [monitor EXCEPT !.status = "stopped"]
  /\ UNCHANGED <<log, held, collection, answers, inits>>

StepCollect(c, from, at) ==
  collection[c].at = from /\ collection' = [collection EXCEPT ![c].at = at]

(* collect does not ask for the status. *)
CallCollect(c) ==
  /\ answers < MaxCollections /\ collection[c].at = "idle"
  /\ collection' = [collection EXCEPT
       ![c] = [at |-> "called", from |-> Len(log), answer |-> NoAnswer]]
  /\ UNCHANGED <<log, held, monitor, answers, inits>>

(* The write lock waits for the readers, which keep theirs until they return. *)
Refresh(c) ==
  /\ StepCollect(c, "called", "refreshed")
  /\ \A d \in Collectors : collection[d].at \notin {"read", "recorded"}
  /\ held' = Refreshed
  /\ UNCHANGED <<log, monitor, answers, inits>>

ReadSystem(c) ==
  /\ collection[c].at = "refreshed"
  /\ \E p \in Points(log[held], monitor.top) :
       collection' = [collection EXCEPT ![c].at = "read", ![c].answer = p]
  /\ UNCHANGED <<log, held, monitor, answers, inits>>

RecordCollection(c) ==
  /\ StepCollect(c, "read", "recorded")
  /\ monitor' = [monitor EXCEPT !.collected = @ + 1]
  /\ UNCHANGED <<log, held, answers, inits>>

ReturnCollection(c) ==
  /\ collection[c].at = "recorded"
  /\ collection' = [collection EXCEPT ![c] = NoCollection]
  /\ answers' = answers + 1
  /\ UNCHANGED <<log, held, monitor, inits>>
-----------------------------------------------------------------------------
(* The counters are read and the time of the previous collection replaced; *)
(* without counters the call ends here.                                    *)
CollectCounters(c) ==
  /\ netCall[c] = "idle"
  /\ \/ netCall' = [netCall EXCEPT ![c] = "counted"]
     \/ UNCHANGED netCall

(* The guard of the previous counters lives to the end of the function,    *)
(* where the same thread asks to write them: it waits for itself, and      *)
(* every later call waits behind it.  Nothing after that is reached, so    *)
(* that the previous counters stay empty and no rate is ever computed.     *)
ReadPreviousCounters(c) ==
  /\ netCall[c] = "counted" /\ netCall' = [netCall EXCEPT ![c] = "waits"]
  /\ \A d \in Collectors : netCall[d] # "waits"
-----------------------------------------------------------------------------
(* NetworkSampler::snapshot, under the lock that network_statistics takes. *)
BytesArrive ==
  /\ bytes < MaxBytes /\ bytes' = bytes + 1
  /\ UNCHANGED <<seenBytes, snapshot, reported, lostCounters>>

(* The rate "per second" of an interface is what came since the refresh of *)
(* any earlier caller.                                                     *)
RefreshNetworks(c) ==
  /\ snapshot.by = Nobody
  /\ snapshot' = [by |-> c, rate |-> bytes - seenBytes]
  /\ seenBytes' = bytes
  /\ UNCHANGED <<bytes, reported, lostCounters>>

(* The counters name the interfaces of the answer: without them the rates  *)
(* that were read are dropped.                                             *)
AnswerStatistics(c) ==
  /\ snapshot.by = c /\ snapshot' = NoSnapshot
  /\ \/ reported' = reported + snapshot.rate /\ UNCHANGED lostCounters
     \/ lostCounters' = TRUE /\ UNCHANGED reported
  /\ UNCHANGED <<bytes, seenBytes>>

PluginNext ==
  \/ SystemChanges \/ StartMonitor \/ StopMonitor \/ \E s \in Settings : InitMonitor(s)
  \/ \E c \in Collectors : \/ CallCollect(c) \/ Refresh(c) \/ ReadSystem(c)
                           \/ RecordCollection(c) \/ ReturnCollection(c)

NetworkMonitorNext == \E c \in Collectors : CollectCounters(c) \/ ReadPreviousCounters(c)

SamplerNext ==
  BytesArrive \/ \E c \in Collectors : RefreshNetworks(c) \/ AnswerStatistics(c)
-----------------------------------------------------------------------------
MonitorTypeOK ==
  /\ held \in 1..Len(log) /\ \A i \in 1..Len(log) : log[i].processes \subseteq Process
  /\ monitor.status \in {"running", "stopped"}
  /\ netCall \in [Collectors -> {"idle", "counted", "waits"}]
  /\ seenBytes \in 0..bytes

Returning(c) == collection[c].at = "recorded"

(* What a collection returns describes the system as it was at one moment  *)
(* of the call, with collections of other threads under way, and the       *)
(* statistics count exactly the collections that return; of the bytes the  *)
(* sampler saw, each is in the rate of exactly one answer, unless the      *)
(* counters could not be read.                                             *)
SamplesAreExact ==
  /\ \A c \in Collectors : collection[c].answer # NoAnswer =>
       \E i \in collection[c].from..Len(log) :
         collection[c].answer \in Points(log[i], monitor.top)
  /\ monitor.collected = answers + Cardinality({c \in Collectors : Returning(c)})
  /\ reported + snapshot.rate <= seenBytes
  /\ ~lostCounters => reported + snapshot.rate = seenBytes
=============================================================================
