-------------------------- MODULE DeviceControlProofs --------------------------
(***************************************************************************)
(* Proofs about the handlers of DeviceControl: together they implement the *)
(* lifecycle manager's specification, from which they inherit Inv, and     *)
(* what a handler has learned from an answer still holds when it acts on   *)
(* it, whatever happened in between.                                       *)
(***************************************************************************)
EXTENDS DeviceControl, AppLifecycleProofs

-----------------------------------------------------------------------------
(* What the manager and the operating system never undo: a process of the   *)
(* agent's stays that of its app, its pid is not recorded anew, and only an *)
(* uninstall takes a manifest away.                                         *)
Held(m, p) == m.os[p].parent = "agent" /\ m.os[p].phase # "free"

Keeps(m, n) ==
  /\ \A p \in Pids : Held(m, p) =>
       /\ Held(n, p) /\ n.os[p].app = m.os[p].app
       /\ \A a \in Apps : n.apps[a].pid = p => m.apps[a].pid = p
  /\ \A a \in Apps : m.apps[a].manifest # "none" => n.apps[a].manifest # "none"

LEMMA KeepsSame ==
  ASSUME NEW m, NEW n, n.apps = m.apps, n.os = m.os
  PROVE  Keeps(m, n)
  BY DEF Keeps, Held

LEMMA KeepsTransitive ==
  ASSUME NEW m, NEW n, NEW o, Keeps(m, n), Keeps(n, o)
  PROVE  Keeps(m, o)
  BY DEF Keeps

LEMMA EntryKeeps ==
  ASSUME NEW m, m \in MachineType, NEW a \in Apps, NEW inst,
         inst.manifest = "none" => m.apps[a].manifest = "none",
         inst.pid \in {m.apps[a].pid, NoPid}
  PROVE  Keeps(m, Pair([m.apps EXCEPT ![a] = inst], m.os))
<1> DEFINE n == Pair([m.apps EXCEPT ![a] = inst], m.os)
<1>1. /\ n.apps[a] = inst /\ \A b \in Apps : b # a => n.apps[b] = m.apps[b]
      /\ n.os = m.os
      BY DEF Pair, MachineType
<1> HIDE DEF n
<1>2. Keeps(m, n)
      BY <1>1, ConstantsAssumption DEF Keeps, Held
<1> QED BY <1>2 DEF n

LEMMA ProcessKeeps ==
  ASSUME NEW m, m \in MachineType, NEW a \in Apps, NEW inst, NEW p \in Pids, NEW proc,
         inst.manifest = "none" => m.apps[a].manifest = "none",
         \/ /\ proc.app = m.os[p].app /\ proc.parent = m.os[p].parent
            /\ m.os[p].phase # "free" => proc.phase # "free"
            /\ inst.pid \in {m.apps[a].pid, NoPid}
         \/ m.os[p].phase = "free" /\ inst.pid \in {m.apps[a].pid, NoPid, p}
  PROVE  Keeps(m, Pair([m.apps EXCEPT ![a] = inst], [m.os EXCEPT ![p] = proc]))
<1> DEFINE n == Pair([m.apps EXCEPT ![a] = inst], [m.os EXCEPT ![p] = proc])
<1>1. /\ n.apps[a] = inst /\ \A b \in Apps : b # a => n.apps[b] = m.apps[b]
      /\ n.os[p] = proc /\ \A q \in Pids : q # p => n.os[q] = m.os[q]
      BY DEF Pair, MachineType
<1> HIDE DEF n
<1>2. Keeps(m, n)
      BY <1>1, ConstantsAssumption DEF Keeps, Held
<1> QED BY <1>2 DEF n

LEMMA RegisterKeeps ==
  ASSUME NEW m, m \in MachineType, NEW a \in Apps, NEW out \in DoRegister(m, a)
  PROVE  Keeps(m, MachineOf(out))
<1> DEFINE old  == m.apps[a]
           inst == IF old.state \in {"Unknown", "Registered"}
                     THEN [old EXCEPT !.state = "Registered"] ELSE old
<1>1. old \in AppInstance
      BY DEF MachineType
<1>2. out = Outcome(SetApp(m, a, inst), "ok")
      BY DEF DoRegister
<1>3. inst.manifest = old.manifest /\ inst.pid = old.pid
      BY <1>1 DEF AppInstance
<1> HIDE DEF inst
<1>4. out = Outcome(Pair([m.apps EXCEPT ![a] = inst], m.os), "ok")
      BY <1>2, SetAppIs
<1> QED BY <1>3, <1>4, PairOutcome, EntryKeeps

LEMMA InstallKeeps ==
  ASSUME NEW m, m \in MachineType, NEW a \in Apps, NEW manifest \in {"plain", "limited"},
         NEW out \in DoInstall(m, a, manifest)
  PROVE  /\ Keeps(m, MachineOf(out))
         /\ out.answer = "ok" => out.apps[a].manifest # "none"
<1> DEFINE old  == m.apps[a]
           inst == [state |-> "Installed", manifest |-> manifest, pid |-> NoPid]
<1>1. old \in AppInstance /\ m.apps \in [Apps -> AppInstance] /\ m.os \in [Pids -> Process]
      BY DEF MachineType
<1>2. inst.manifest # "none" /\ inst.pid = NoPid
      OBVIOUS
<1>3. \/ out = Outcome(m, "err")
      \/ old.pid = NoPid /\ out = Outcome(SetApp(m, a, inst), "ok")
      \/ old.pid # NoPid /\ out = Outcome(SetApp(Abandon(m, old.pid, "lost"), a, inst), "ok")
      BY DEF DoInstall
<1> HIDE DEF inst
<1>4. CASE out = Outcome(m, "err")
  <2>1. MachineOf(out).apps = m.apps /\ MachineOf(out).os = m.os /\ out.answer = "err"
        BY <1>4 DEF Outcome, MachineOf
  <2> QED BY <2>1, KeepsSame
<1>5. CASE old.pid = NoPid /\ out = Outcome(SetApp(m, a, inst), "ok")
  <2>1. out = Outcome(Pair([m.apps EXCEPT ![a] = inst], m.os), "ok")
        BY <1>5, SetAppIs
  <2>2. out.apps[a] = inst
        BY <2>1, <1>1 DEF Outcome, Pair
  <2> QED BY <1>2, <2>1, <2>2, PairOutcome, EntryKeeps
<1>6. CASE old.pid # NoPid /\ out = Outcome(SetApp(Abandon(m, old.pid, "lost"), a, inst), "ok")
  <2> DEFINE proc == Ended(m, old.pid, "lost")
  <2>1. old.pid \in Pids
        BY <1>1, <1>6 DEF AppInstance
  <2>2. out = Outcome(Pair([m.apps EXCEPT ![a] = inst], [m.os EXCEPT ![old.pid] = proc]), "ok")
        BY <1>6, <2>1, EndedEntry
  <2>3. out.apps[a] = inst
        BY <2>2, <1>1 DEF Outcome, Pair
  <2>4. /\ proc.app = m.os[old.pid].app /\ proc.parent = m.os[old.pid].parent
        /\ proc.phase = m.os[old.pid].phase
        BY <1>1, <2>1 DEF Ended, Process
  <2> HIDE DEF proc
  <2>5. Keeps(m, Pair([m.apps EXCEPT ![a] = inst], [m.os EXCEPT ![old.pid] = proc]))
        BY <1>2, <2>1, <2>4, ProcessKeeps
  <2> QED BY <1>2, <2>2, <2>3, <2>5, PairOutcome
<1> QED BY <1>3, <1>4, <1>5, <1>6

LEMMA StartKeeps ==
  ASSUME NEW m, m \in MachineType, NEW a \in Apps, NEW out \in DoStart(m, a)
  PROVE  Keeps(m, MachineOf(out))
<1> DEFINE old    == m.apps[a]
           start  == [old EXCEPT !.state = "Starting"]
           run(p) == [old EXCEPT !.state = "Running", !.pid = p]
<1>1. old \in AppInstance /\ m.apps \in [Apps -> AppInstance] /\ m.os \in [Pids -> Process]
      BY DEF MachineType
<1>2. /\ start.pid = old.pid /\ start.manifest = old.manifest /\ start \in AppInstance
      /\ \A p \in Pids : run(p).pid = p /\ run(p).manifest = old.manifest
      BY <1>1 DEF AppInstance, AppState
<1>3. \/ out \in {Outcome(m, "ok"), Outcome(m, "err")}
      \/ out = Outcome(SetApp(m, a, start), "err")
      \/ \E p \in FreePids(m) : out = Outcome(SetApp(Spawn(m, a, p), a, run(p)), "ok")
      \/ \E p \in FreePids(m) :
           out = Outcome(Abandon(Spawn(SetApp(m, a, start), a, p), p, "lost"), "err")
      BY DEF DoStart
<1> HIDE DEF start, run
<1>4. CASE out \in {Outcome(m, "ok"), Outcome(m, "err")}
  <2>1. MachineOf(out).apps = m.apps /\ MachineOf(out).os = m.os
        BY <1>4 DEF Outcome, MachineOf
  <2> QED BY <2>1, KeepsSame
<1>5. CASE out = Outcome(SetApp(m, a, start), "err")
  <2>1. out = Outcome(Pair([m.apps EXCEPT ![a] = start], m.os), "err")
        BY <1>5, SetAppIs
  <2> QED BY <1>2, <2>1, PairOutcome, EntryKeeps
<1>6. ASSUME NEW p \in FreePids(m), out = Outcome(SetApp(Spawn(m, a, p), a, run(p)), "ok")
      PROVE  Keeps(m, MachineOf(out))
  <2>1. p \in Pids /\ m.os[p].phase = "free"
        BY DEF FreePids
  <2>2. out = Outcome(Pair([m.apps EXCEPT ![a] = run(p)], [m.os EXCEPT ![p] = Spawned(a)]), "ok")
        BY <1>6, <2>1, SpawnIs DEF SetApp, Pair
  <2>3. Keeps(m, Pair([m.apps EXCEPT ![a] = run(p)], [m.os EXCEPT ![p] = Spawned(a)]))
        BY <1>2, <2>1, ProcessKeeps
  <2> QED BY <2>2, <2>3, PairOutcome
<1>7. ASSUME NEW p \in FreePids(m),
             out = Outcome(Abandon(Spawn(SetApp(m, a, start), a, p), p, "lost"), "err")
      PROVE  Keeps(m, MachineOf(out))
  <2> DEFINE table  == [m.apps EXCEPT ![a] = start]
             leaked == [Spawned(a) EXCEPT !.escape = "lost"]
  <2>1. p \in Pids /\ m.os[p].phase = "free"
        BY DEF FreePids
  <2>2. /\ SetApp(m, a, start) = Pair(table, m.os) /\ Pair(table, m.os) \in MachineType
        /\ table \in [Apps -> AppInstance]
        BY <1>1, <1>2, SetAppIs DEF Pair, MachineType
  <2> HIDE DEF table
  <2>3. Spawn(Pair(table, m.os), a, p) = Pair(table, [m.os EXCEPT ![p] = Spawned(a)])
    <3>1. Pair(table, m.os).apps = table /\ Pair(table, m.os).os = m.os
          BY DEF Pair
    <3> QED BY <2>1, <2>2, <3>1, SpawnIs
  <2>4. [m.os EXCEPT ![p] = Spawned(a)] \in [Pids -> Process]
        BY <1>1, <2>1 DEF Spawned, Process, Escape
  <2>5. [[m.os EXCEPT ![p] = Spawned(a)] EXCEPT ![p].escape = "lost"]
          = [m.os EXCEPT ![p] = leaked]
        BY <1>1, <2>1
  <2>6. out = Outcome(Pair(table, [m.os EXCEPT ![p] = leaked]), "err")
        BY <1>7, <2>1, <2>2, <2>3, <2>4, <2>5, AbandonPair
  <2> HIDE DEF leaked
  <2>7. Keeps(m, Pair([m.apps EXCEPT ![a] = start], [m.os EXCEPT ![p] = leaked]))
        BY <1>2, <2>1, ProcessKeeps
  <2> QED BY <2>6, <2>7, PairOutcome DEF table
<1> QED BY <1>3, <1>4, <1>5, <1>6, <1>7

(* After a stop the app has no pid, whatever the answer *)
LEMMA StopKeeps ==
  ASSUME NEW m, Consistent(m), NEW a \in Apps, NEW out \in DoStop(m, a)
  PROVE  Keeps(m, MachineOf(out)) /\ out.apps[a].pid = NoPid
<1> DEFINE old     == m.apps[a]
           stopped == [old EXCEPT !.state = "Stopped", !.pid = NoPid]
           failed  == [old EXCEPT !.state = "Stopping", !.pid = NoPid]
<1>1. /\ m \in MachineType /\ old \in AppInstance /\ m.apps \in [Apps -> AppInstance]
      /\ m.os \in [Pids -> Process]
      BY DEF Consistent, MachineType
<1>2. /\ stopped.pid = NoPid /\ stopped.manifest = old.manifest
      /\ failed.pid = NoPid /\ failed.manifest = old.manifest
      BY <1>1 DEF AppInstance
<1>3. \/ old.pid = NoPid /\ out = Outcome(m, "err")
      \/ out = Outcome(SetApp(m, a, stopped), "ok")
      \/ /\ old.pid # NoPid
         /\ \/ out = Outcome(SetApp(Terminate(m, old.pid), a, stopped), "ok")
            \/ out = Outcome(SetApp(Abandon(m, old.pid, "lost"), a, failed), "err")
      BY DEF DoStop, Consistent, OwnPids
<1> HIDE DEF stopped, failed
<1>4. CASE old.pid = NoPid /\ out = Outcome(m, "err")
  <2>1. MachineOf(out).apps = m.apps /\ MachineOf(out).os = m.os /\ out.apps = m.apps
        BY <1>4 DEF Outcome, MachineOf
  <2> QED BY <1>4, <2>1, KeepsSame
<1>5. CASE out = Outcome(SetApp(m, a, stopped), "ok")
  <2>1. out = Outcome(Pair([m.apps EXCEPT ![a] = stopped], m.os), "ok")
        BY <1>1, <1>5, SetAppIs
  <2>2. out.apps[a] = stopped
        BY <2>1, <1>1 DEF Outcome, Pair
  <2> QED BY <1>1, <1>2, <2>1, <2>2, PairOutcome, EntryKeeps
<1>6. ASSUME NEW inst \in {stopped, failed}, NEW why \in {"signalled", "lost"}, NEW x,
             old.pid # NoPid,
             out = Outcome(Pair([m.apps EXCEPT ![a] = inst],
                                [m.os EXCEPT ![old.pid] = Ended(m, old.pid, why)]), x)
      PROVE  Keeps(m, MachineOf(out)) /\ out.apps[a].pid = NoPid
  <2> DEFINE proc == Ended(m, old.pid, why)
  <2>1. old.pid \in Pids
        BY <1>1, <1>6 DEF AppInstance
  <2>2. /\ proc.app = m.os[old.pid].app /\ proc.parent = m.os[old.pid].parent
        /\ m.os[old.pid].phase # "free" => proc.phase # "free"
        BY <1>1, <2>1 DEF Ended, Process
  <2> HIDE DEF proc
  <2>3. Keeps(m, Pair([m.apps EXCEPT ![a] = inst], [m.os EXCEPT ![old.pid] = proc]))
        BY <1>1, <1>2, <2>1, <2>2, ProcessKeeps
  <2>4. out.apps[a] = inst
        BY <1>6, <1>1 DEF Outcome, Pair
  <2> QED BY <1>2, <1>6, <2>3, <2>4, PairOutcome DEF proc
<1>7. old.pid # NoPid => old.pid \in Pids
      BY <1>1 DEF AppInstance
<1> QED BY <1>1, <1>3, <1>4, <1>5, <1>6, <1>7, EndedEntry

LEMMA RestartKeeps ==
  ASSUME NEW m, Consistent(m), NEW a \in Apps, NEW out \in DoRestart(m, a)
  PROVE  Keeps(m, MachineOf(out))
<1>1. PICK mid \in DoStop(m, a) : out \in DoStart(MachineOf(mid), a)
      BY DEF DoRestart, MachineOf
<1>2. Keeps(m, MachineOf(mid)) /\ MachineOf(mid) \in MachineType
      BY StopKeeps, StopGood DEF Good, Consistent
<1>3. Keeps(MachineOf(mid), MachineOf(out))
      BY <1>1, <1>2, StartKeeps
<1> QED BY <1>2, <1>3, KeepsTransitive

LEMMA QueryIs ==
  ASSUME NEW m, m \in MachineType, NEW out,
         \/ \E a \in Apps : out \in GetState(m, a)
         \/ \E p \in Pids : out \in FindByPid(m, p)
         \/ out \in ListApps(m)
  PROVE  out.apps = m.apps /\ out.os = m.os
<1>1. \E x : out = Outcome(m, x)
      BY DEF GetState, FindByPid, ListApps
<1> QED BY <1>1 DEF Outcome

(* What a handler may rely on when its command has been served *)
LEMMA ServedKeeps ==
  ASSUME Inv, NEW cmd, Fields(cmd), cmd.op # "Uninstall", NEW out, Serves(cmd, out),
         Finish(cmd, out)
  PROVE  /\ Keeps(Machine, NextMachine)
         /\ cmd.op = "Install" /\ out.answer = "ok" => apps'[cmd.app].manifest # "none"
         /\ cmd.op = "FindByPid" =>
              /\ out.answer \in Apps \cup {NoApp}
              /\ out.answer \in Apps => apps[out.answer].pid = cmd.pid
         /\ cmd.op = "Stop" => apps'[cmd.app].pid = NoPid
<1>1. /\ Consistent(Machine) /\ Machine \in MachineType
      BY DEF Inv, Consistent
<1>2. NextMachine = MachineOf(out) /\ apps' = out.apps
      BY DEF Finish, NextMachine, MachineOf
<1>3. CASE cmd.op = "Register"
  <2>1. cmd.app \in Apps /\ out \in DoRegister(Machine, cmd.app)
        BY <1>3 DEF Fields, Serves, AppOps
  <2> QED BY <1>1, <1>2, <1>3, <2>1, RegisterKeeps
<1>4. CASE cmd.op = "Install"
  <2>1. /\ cmd.app \in Apps /\ cmd.manifest \in {"plain", "limited"}
        /\ out \in DoInstall(Machine, cmd.app, cmd.manifest)
        BY <1>4 DEF Fields, Serves
  <2> QED BY <1>1, <1>2, <1>4, <2>1, InstallKeeps
<1>5. CASE cmd.op = "Start"
  <2>1. cmd.app \in Apps /\ out \in DoStart(Machine, cmd.app)
        BY <1>5 DEF Fields, Serves, AppOps
  <2> QED BY <1>1, <1>2, <1>5, <2>1, StartKeeps
<1>6. CASE cmd.op = "Stop"
  <2>1. cmd.app \in Apps /\ out \in DoStop(Machine, cmd.app)
        BY <1>6 DEF Fields, Serves, AppOps
  <2> QED BY <1>1, <1>2, <1>6, <2>1, StopKeeps
<1>7. CASE cmd.op = "Restart"
  <2>1. cmd.app \in Apps /\ out \in DoRestart(Machine, cmd.app)
        BY <1>7 DEF Fields, Serves, AppOps
  <2> QED BY <1>1, <1>2, <1>7, <2>1, RestartKeeps
<1>8. CASE cmd.op \in {"GetState", "ListApps", "FindByPid"}
  <2>1. \/ \E a \in Apps : out \in GetState(Machine, a)
        \/ \E p \in Pids : out \in FindByPid(Machine, p)
        \/ out \in ListApps(Machine)
        BY <1>8 DEF Fields, Serves, AppOps
  <2>2. NextMachine.apps = Machine.apps /\ NextMachine.os = Machine.os
        BY <1>1, <1>2, <2>1, QueryIs DEF MachineOf
  <2>3. ASSUME cmd.op = "FindByPid"
        PROVE  /\ out.answer \in Apps \cup {NoApp}
               /\ out.answer \in Apps => apps[out.answer].pid = cmd.pid
    <3>1. out \in FindByPid(Machine, cmd.pid)
          BY <2>3 DEF Serves
    <3>2. out.answer = NoApp \/ (out.answer \in Apps /\ apps[out.answer].pid = cmd.pid)
          BY <3>1, MachineIs DEF FindByPid, Outcome
    <3> QED BY <3>2, ConstantsAssumption
  <2> QED BY <1>8, <2>2, <2>3, KeepsSame
<1> QED BY <1>3, <1>4, <1>5, <1>6, <1>7, <1>8 DEF Serves

LEMMA OsStepKeeps ==
  ASSUME Inv, NEW p \in Pids, Exit(p) \/ Kill(p)
  PROVE  Keeps(Machine, NextMachine)
<1>1. os \in [Pids -> Process] /\ apps' = apps
      BY DEF Inv, TypeOK, Exit, Kill
<1>2. \A q \in Pids : q # p => os'[q] = os[q]
      BY <1>1 DEF Exit, Kill
<1>3. os[p].parent = "agent" /\ os[p].phase # "free" =>
        os'[p].parent = "agent" /\ os'[p].phase # "free" /\ os'[p].app = os[p].app
      BY <1>1 DEF Exit, Kill, Process
<1> QED BY <1>1, <1>2, <1>3, MachineIs DEF Keeps, Held

-----------------------------------------------------------------------------
(* The invariant of the handlers *)

(* The steps in which a handler awaits the manager, those of a request with *)
(* an app and those of a request with a pid                                 *)
CallSteps == {"install", "start", "find", "stop", "lookup", "restart"}
AppSteps  == {"scan", "install", "start", "stop", "lookup", "list", "kill", "restart"}
PidSteps  == {"find", "terminate", "stop"}

Results == {"AlreadyRunning", "FailToStart", "Started", "NotRunning", "Closed"}

Rpc == [at : AppSteps \cup PidSteps \cup {"none", "done"}, app : Apps \cup {NoApp},
        pid : Pids \cup {NoPid}, multi : {"single", "multi"}, todo : SUBSET Pids,
        result : Results \cup {"none"}]

Typed(r) ==
  /\ r \in Rpc
  /\ r.at \in AppSteps => r.app \in Apps
  /\ r.at \in PidSteps => r.pid \in Pids
  /\ r.result # "none" => r.at = "done"

RpcTyped == rpc \in [Callers -> Rpc] /\ \A c \in Callers : Typed(rpc[c])

(* The command on its way is the one that the handler's step has sent; and  *)
(* nobody uninstalls                                                        *)
Asks(r, cmd) ==
  \/ r.at = "install" /\ cmd.op = "Install" /\ cmd.app = r.app
  \/ r.at = "start" /\ cmd.op = "Start" /\ cmd.app = r.app
  \/ r.at = "find" /\ cmd.op = "FindByPid" /\ cmd.pid = r.pid
  \/ r.at = "stop" /\ cmd.op = "Stop" /\ cmd.app = r.app
  \/ r.at = "lookup" /\ cmd.op = "GetState" /\ cmd.app = r.app
  \/ r.at = "restart" /\ cmd.op = "Restart" /\ cmd.app = r.app

StepsAsk ==
  /\ \A c \in Callers : call[c] # Idle => rpc[c].at \in CallSteps
  /\ \A c \in Callers : \A i \in Pending(c) : Asks(rpc[c], mailbox[i])
  /\ \A i \in 1..Len(mailbox) : mailbox[i].op # "Uninstall"

(* What a handler relies on at each of its steps: what it learned from an   *)
(* answer is still true                                                     *)
Owns(a, p) == os[p].app = a /\ os[p].parent = "agent" /\ os[p].phase # "free"

Forgotten(p) == \A a \in Apps : apps[a].pid # p

Relies(r) ==
  /\ r.at = "start" => apps[r.app].manifest # "none"
  /\ r.at \in {"terminate", "stop"} /\ r.app \in Apps => Owns(r.app, r.pid)
  /\ r.result = "Closed" /\ r.app # NoApp =>
       r.app \in Apps /\ r.pid \in Pids /\ Owns(r.app, r.pid) /\ Forgotten(r.pid)

Learned(r, answer) ==
  /\ r.at = "install" /\ answer = "ok" => apps[r.app].manifest # "none"
  /\ r.at = "find" =>
       answer \in Apps \cup {NoApp} /\ (answer \in Apps => Owns(answer, r.pid))
  /\ r.at = "stop" => Forgotten(r.pid)

Trusts(c) ==
  Relies(rpc[c]) /\ (call[c].st = "answered" => Learned(rpc[c], call[c].answer))

HandlersInv == RpcTyped /\ StepsAsk /\ \A c \in Callers : Trusts(c)

(* Together with what the lifecycle manager guarantees *)
Whole == Inv /\ CallsPaired /\ HandlersInv

-----------------------------------------------------------------------------
LEMMA CallFields ==
  ASSUME Inv, NEW c \in Callers
  PROVE  /\ call[c] \in CallState /\ call \in [Callers -> CallState]
         /\ call[c] = Idle \/ call[c] = Waiting \/ call[c].st = "answered"
         /\ call[c].st = "answered" => call[c] # Waiting /\ call[c] # Idle
<1>1. call \in [Callers -> CallState]
      BY DEF Inv, TypeOK
<1> QED BY <1>1, CallStates DEF CallState

LEMMA Quiet ==
  ASSUME CallsPaired, NEW c \in Callers, call[c] # Waiting
  PROVE  Pending(c) = {}
  BY DEF CallsPaired

(* A handler that is left alone keeps its trust *)
LEMMA TrustKept ==
  ASSUME HandlersInv, Keeps(Machine, NextMachine), NEW c \in Callers,
         rpc'[c] = rpc[c], call'[c] = call[c]
  PROVE  Trusts(c)'
<1> DEFINE r == rpc[c]
<1>1. Typed(r) /\ Relies(r) /\ (call[c].st = "answered" => Learned(r, call[c].answer))
      BY DEF HandlersInv, RpcTyped, Trusts
<1>2. /\ \A a \in Apps : apps[a].manifest # "none" => apps'[a].manifest # "none"
      /\ \A a \in Apps, p \in Pids : Owns(a, p) => Owns(a, p)'
      /\ \A a \in Apps, p \in Pids : Owns(a, p) /\ Forgotten(p) => Forgotten(p)'
      BY MachineIs DEF Keeps, Held, Owns, Forgotten
<1>3. Relies(r)'
      BY <1>1, <1>2 DEF Relies, Typed, AppSteps, PidSteps
<1>4. ASSUME call[c].st = "answered"
      PROVE  Learned(r, call[c].answer)'
      BY <1>1, <1>2, <1>4 DEF Learned, Relies, Typed, AppSteps, PidSteps
<1> QED BY <1>3, <1>4 DEF Trusts

(* A handler turns to r and has no call: it had none, or the answer to it   *)
(* has come                                                                 *)
Turns(c, r) ==
  /\ rpc' = [rpc EXCEPT ![c] = r]
  /\ call[c] # Waiting /\ call' = [call EXCEPT ![c] = Idle]
  /\ mailbox' = mailbox

LEMMA TurnKeeps ==
  ASSUME Whole, NEW c \in Callers, NEW r, Typed(r), Turns(c, r),
         Keeps(Machine, NextMachine), Relies(r)'
  PROVE  HandlersInv'
<1>1. /\ rpc \in [Callers -> Rpc] /\ call \in [Callers -> CallState]
      /\ \A b \in Callers : Typed(rpc[b])
      BY DEF Whole, HandlersInv, RpcTyped, Inv, TypeOK
<1>2. /\ rpc'[c] = r /\ call'[c] = Idle
      /\ \A b \in Callers : b # c => rpc'[b] = rpc[b] /\ call'[b] = call[b]
      /\ rpc' \in [Callers -> Rpc] /\ mailbox' = mailbox
      BY <1>1 DEF Turns, Typed
<1>3. RpcTyped'
  <2>1. \A b \in Callers : Typed(rpc'[b])
        BY <1>1, <1>2
  <2> QED BY <1>2, <2>1 DEF RpcTyped, Typed
<1>4. StepsAsk'
  <2>1. Pending(c) = {} /\ \A b \in Callers : Pending(b)' = Pending(b)
        BY <1>2, Quiet DEF Turns, Whole, Pending
  <2> QED BY <1>2, <2>1 DEF Whole, HandlersInv, StepsAsk
<1>5. Trusts(c)'
  <2>1. call'[c].st # "answered"
        BY <1>2, CallStates
  <2> QED BY <1>2, <2>1 DEF Trusts
<1>6. \A b \in Callers : b # c => Trusts(b)'
      BY <1>2, TrustKept DEF Whole
<1> QED BY <1>3, <1>4, <1>5, <1>6 DEF HandlersInv

(* The machine stays as it is at most turns *)
LEMMA StillKeeps ==
  ASSUME UNCHANGED <<apps, os>>
  PROVE  /\ Keeps(Machine, NextMachine)
         /\ \A r : Relies(r) => Relies(r)'
<1>1. Keeps(Machine, NextMachine)
      BY MachineIs, KeepsSame
<1>2. ASSUME NEW r, Relies(r)
      PROVE  Relies(r)'
      BY <1>2 DEF Relies, Owns, Forgotten
<1> QED BY <1>1, <1>2

LEMMA StillTurn ==
  ASSUME Whole, NEW c \in Callers, NEW r, Typed(r), Relies(r), UNCHANGED <<apps, os>>,
         Turns(c, r)
  PROVE  HandlersInv'
<1>1. Relies(r)' /\ Keeps(Machine, NextMachine)
      BY StillKeeps
<1> QED BY <1>1, TurnKeeps

(* What a handler's step knows of its own request *)
LEMMA Mine ==
  ASSUME Whole, NEW c \in Callers
  PROVE  /\ Typed(rpc[c]) /\ Relies(rpc[c]) /\ rpc \in [Callers -> Rpc] /\ rpc[c] \in Rpc
         /\ call[c].st = "answered" => Learned(rpc[c], call[c].answer)
  BY DEF Whole, HandlersInv, RpcTyped, Trusts

LEMMA StepsAre ==
  /\ \A step \in {"scan", "install", "start", "list", "restart"} :
       step \in AppSteps \cup PidSteps /\ step \in AppSteps /\ step \notin PidSteps
  /\ "stop" \in AppSteps \cup PidSteps /\ "stop" \in AppSteps /\ "stop" \in PidSteps
  BY DEF AppSteps, PidSteps

LEMMA GotoIs ==
  ASSUME Whole, NEW c \in Callers, NEW step \in AppSteps \cup PidSteps, rpc[c].result = "none",
         step \in AppSteps => rpc[c].app \in Apps,
         step \in PidSteps => rpc[c].pid \in Pids
  PROVE  LET r == [rpc[c] EXCEPT !.at = step]
         IN  /\ Typed(r) /\ r.at = step /\ r.app = rpc[c].app /\ r.pid = rpc[c].pid
             /\ r.result = "none"
             /\ Goto(c, step) => rpc' = [rpc EXCEPT ![c] = r]
<1>1. rpc \in [Callers -> Rpc] /\ rpc[c] \in Rpc
      BY Mine
<1>2. step # "done" /\ step # "none"
      BY DEF AppSteps, PidSteps
<1>3. [rpc EXCEPT ![c].at = step] = [rpc EXCEPT ![c] = [rpc[c] EXCEPT !.at = step]]
      BY <1>1
<1> QED BY <1>1, <1>2, <1>3 DEF Goto, Typed, Rpc

LEMMA DoneIs ==
  ASSUME Whole, NEW c \in Callers,
         NEW result \in Results, Done(c, result)
  PROVE  LET r == [rpc[c] EXCEPT !.at = "done", !.result = result]
         IN  /\ Typed(r) /\ r.at = "done" /\ r.app = rpc[c].app /\ r.pid = rpc[c].pid
             /\ r.result = result
             /\ rpc' = [rpc EXCEPT ![c] = r]
<1>1. rpc \in [Callers -> Rpc] /\ rpc[c] \in Rpc
      BY Mine
<1>2. [rpc EXCEPT ![c].at = "done", ![c].result = result]
        = [rpc EXCEPT ![c] = [rpc[c] EXCEPT !.at = "done", !.result = result]]
      BY <1>1
<1> QED BY <1>1, <1>2 DEF Done, Typed, Rpc, AppSteps, PidSteps

(* The two ways a step leaves the handler without a call *)
LEMMA AtTurns ==
  ASSUME Inv, NEW c \in Callers, NEW step, At(c, step), UNCHANGED <<mailbox, call>>,
         NEW r, rpc' = [rpc EXCEPT ![c] = r]
  PROVE  Turns(c, r)
<1>1. call \in [Callers -> CallState] /\ call[c] = Idle
      BY DEF Inv, TypeOK, At
<1> QED BY <1>1, CallStates DEF Turns

LEMMA AnsweredTurns ==
  ASSUME Inv, NEW c \in Callers, Return(c), NEW r, rpc' = [rpc EXCEPT ![c] = r]
  PROVE  Turns(c, r) /\ UNCHANGED <<apps, os>> /\ call[c].st = "answered"
  BY CallFields DEF Turns, Return

-----------------------------------------------------------------------------
(* One lemma for each step of a handler *)

LEMMA ReceiveKeeps ==
  ASSUME Whole, NEW c \in Callers, Receive(c)
  PROVE  HandlersInv'
<1>1. PICK q \in Requests : rpc' = [rpc EXCEPT ![c] = Begin(q)]
      BY DEF Receive
<1>2. rpc[c].at = "none" /\ UNCHANGED <<apps, os, mailbox, call>>
      BY DEF Receive, NoRpc, vars
<1>3. q \in Request
      BY ProgramAssumption
<1>4. Typed(Begin(q)) /\ Relies(Begin(q))
  <2>1. CASE q \in [method : {"CloseApp"}, pid : Pids]
        BY <2>1 DEF Begin, NoRpc, Typed, Rpc, AppSteps, PidSteps, Relies
  <2>2. CASE q \in [method : {"StartApp", "RestartApp"}, app : Apps, multi : {"single", "multi"}]
        BY <2>2 DEF Begin, NoRpc, Typed, Rpc, AppSteps, PidSteps, Relies
  <2> QED BY <1>3, <2>1, <2>2 DEF Request
<1>5. Turns(c, Begin(q))
  <2>1. call[c] = Idle
        BY <1>2 DEF Whole, HandlersInv, StepsAsk, CallSteps
  <2> QED BY <1>1, <1>2, <2>1, CallFields, CallStates DEF Turns, Whole
<1> QED BY <1>2, <1>4, <1>5, StillTurn

LEMMA RespondKeeps ==
  ASSUME Whole, NEW c \in Callers, rpc' = [rpc EXCEPT ![c] = NoRpc], UNCHANGED <<apps, os>>,
         \/ call[c] = Idle /\ UNCHANGED <<mailbox, call>>
         \/ Return(c)
  PROVE  HandlersInv'
<1>1. Typed(NoRpc) /\ Relies(NoRpc)
      BY DEF NoRpc, Typed, Rpc, AppSteps, PidSteps, Relies
<1>2. Turns(c, NoRpc)
      BY CallFields, CallStates DEF Turns, Whole, Return
<1> QED BY <1>1, <1>2, StillTurn

LEMMA ScanKeeps ==
  ASSUME Whole, NEW c \in Callers, Scan(c)
  PROVE  HandlersInv'
<1>1. /\ At(c, "scan") /\ rpc[c].at = "scan" /\ UNCHANGED <<apps, os, mailbox, call>>
      /\ \/ Done(c, "AlreadyRunning")
         \/ Goto(c, "install")
         \/ Done(c, "FailToStart")
      BY DEF Scan, At, vars
<1>2. rpc[c].app \in Apps /\ rpc[c].result = "none"
      BY <1>1, Mine DEF Typed, AppSteps
<1>3. CASE Goto(c, "install")
  <2> DEFINE r == [rpc[c] EXCEPT !.at = "install"]
  <2>1. Typed(r) /\ r.at = "install" /\ r.result = "none" /\ rpc' = [rpc EXCEPT ![c] = r]
        BY <1>2, <1>3, StepsAre, GotoIs
  <2> HIDE DEF r
  <2>2. Relies(r) /\ Turns(c, r)
        BY <1>1, <2>1, AtTurns DEF Relies, Whole
  <2> QED BY <1>1, <2>1, <2>2, StillTurn
<1>4. ASSUME NEW result \in {"AlreadyRunning", "FailToStart"}, Done(c, result)
      PROVE  HandlersInv'
  <2> DEFINE r == [rpc[c] EXCEPT !.at = "done", !.result = result]
  <2>0. result \in Results /\ result # "Closed"
        BY DEF Results
  <2>1. Typed(r) /\ r.at = "done" /\ r.result # "Closed" /\ rpc' = [rpc EXCEPT ![c] = r]
        BY <1>4, <2>0, DoneIs
  <2> HIDE DEF r
  <2>2. Relies(r) /\ Turns(c, r)
        BY <1>1, <2>1, AtTurns DEF Relies, Whole
  <2> QED BY <1>1, <2>1, <2>2, StillTurn
<1> QED BY <1>1, <1>3, <1>4

(* The answers: what was learned becomes what the next step relies on *)
LEMMA InstalledKeeps ==
  ASSUME Whole, NEW c \in Callers, Installed(c)
  PROVE  HandlersInv'
<1>1. /\ Return(c) /\ rpc[c].at = "install"
      /\ IF call[c].answer = "ok" THEN Goto(c, "start") ELSE Done(c, "FailToStart")
      BY DEF Installed, Answered, Said
<1>2. call[c].st = "answered" /\ UNCHANGED <<apps, os>> /\ Inv
      BY <1>1 DEF Return, Whole
<1>3. rpc[c].app \in Apps /\ rpc[c].result = "none" /\ Learned(rpc[c], call[c].answer)
      BY <1>1, <1>2, Mine DEF Typed, AppSteps
<1>4. CASE call[c].answer = "ok"
  <2> DEFINE r == [rpc[c] EXCEPT !.at = "start"]
  <2>1. /\ Typed(r) /\ r.at = "start" /\ r.result = "none" /\ r.app = rpc[c].app
        /\ rpc' = [rpc EXCEPT ![c] = r]
        BY <1>1, <1>3, <1>4, StepsAre, GotoIs
  <2> HIDE DEF r
  <2>2. Relies(r) /\ Turns(c, r)
        BY <1>1, <1>2, <1>3, <1>4, <2>1, AnsweredTurns DEF Relies, Learned
  <2> QED BY <1>2, <2>1, <2>2, StillTurn
<1>5. CASE call[c].answer # "ok"
  <2> DEFINE r == [rpc[c] EXCEPT !.at = "done", !.result = "FailToStart"]
  <2>1. Typed(r) /\ r.at = "done" /\ r.result # "Closed" /\ rpc' = [rpc EXCEPT ![c] = r]
        BY <1>1, <1>5, DoneIs DEF Results
  <2> HIDE DEF r
  <2>2. Relies(r) /\ Turns(c, r)
        BY <1>1, <1>2, <2>1, AnsweredTurns DEF Relies
  <2> QED BY <1>2, <2>1, <2>2, StillTurn
<1> QED BY <1>4, <1>5

(* A start, a restart *)
LEMMA FinishedKeeps ==
  ASSUME Whole, NEW c \in Callers, Started(c) \/ Restarted(c)
  PROVE  HandlersInv'
<1>1. /\ Return(c) /\ \E result \in {"Started", "FailToStart"} : Done(c, result)
      BY DEF Started, Restarted, Answered
<1>2. PICK result \in {"Started", "FailToStart"} : Done(c, result)
      BY <1>1
<1> DEFINE r == [rpc[c] EXCEPT !.at = "done", !.result = result]
<1>0. result \in Results /\ result # "Closed"
      BY DEF Results
<1>3. Typed(r) /\ r.at = "done" /\ r.result # "Closed" /\ rpc' = [rpc EXCEPT ![c] = r]
      BY <1>0, <1>2, DoneIs
<1> HIDE DEF r
<1>4. Relies(r) /\ Turns(c, r) /\ UNCHANGED <<apps, os>>
      BY <1>1, <1>3, AnsweredTurns DEF Relies, Whole
<1> QED BY <1>3, <1>4, StillTurn

LEMMA FoundKeeps ==
  ASSUME Whole, NEW c \in Callers, Found(c)
  PROVE  HandlersInv'
<1>1. /\ Return(c) /\ rpc[c].at = "find"
      /\ rpc' = [rpc EXCEPT ![c].at = "terminate", ![c].app = call[c].answer]
      BY DEF Found, Answered
<1>2. call[c].st = "answered" /\ UNCHANGED <<apps, os>> /\ Inv
      BY <1>1 DEF Return, Whole
<1>3. /\ rpc[c].pid \in Pids /\ rpc[c].result = "none" /\ rpc[c] \in Rpc
      /\ rpc \in [Callers -> Rpc] /\ Learned(rpc[c], call[c].answer)
      BY <1>1, <1>2, Mine DEF Typed, PidSteps
<1>4. /\ call[c].answer \in Apps \cup {NoApp}
      /\ call[c].answer \in Apps => Owns(call[c].answer, rpc[c].pid)
      BY <1>1, <1>3 DEF Learned
<1> DEFINE r == [rpc[c] EXCEPT !.at = "terminate", !.app = call[c].answer]
<1>5. /\ r \in Rpc /\ r.at = "terminate" /\ r.app = call[c].answer /\ r.pid = rpc[c].pid
      /\ r.result = "none"
      BY <1>3, <1>4 DEF Rpc, AppSteps, PidSteps
<1>6. rpc' = [rpc EXCEPT ![c] = r]
      BY <1>1, <1>3
<1> HIDE DEF r
<1>7. Typed(r) /\ Relies(r)
      BY <1>3, <1>4, <1>5 DEF Typed, Relies, AppSteps, PidSteps
<1> QED BY <1>1, <1>2, <1>6, <1>7, AnsweredTurns, StillTurn

(* The signal goes past the manager, and only changes the phase *)
LEMMA SignalKeeps ==
  ASSUME Inv, NEW p \in Pids, Signal(p) \/ Refused
  PROVE  /\ Keeps(Machine, NextMachine) /\ UNCHANGED <<mailbox, call>>
         /\ \A a \in Apps : Owns(a, p) => Owns(a, p)'
         /\ [Next]_vars
<1>1. CASE Kill(p)
  <2>1. Keeps(Machine, NextMachine) /\ UNCHANGED <<mailbox, call>>
        BY <1>1, OsStepKeeps DEF Kill
  <2> QED BY <1>1, <2>1, MachineIs DEF Keeps, Held, Owns, Next, System
<1>2. CASE UNCHANGED vars
      BY <1>2, StillKeeps DEF vars, Owns
<1> QED BY <1>1, <1>2 DEF Signal, Refused

LEMMA TerminatePidKeeps ==
  ASSUME Whole, NEW c \in Callers, TerminatePid(c)
  PROVE  HandlersInv'
<1>1. PICK p : p = rpc[c].pid
      OBVIOUS
<1>2. PICK a : a = rpc[c].app
      OBVIOUS
<1>3. /\ At(c, "terminate") /\ rpc[c].at = "terminate" /\ (Signal(p) \/ Refused)
      /\ \/ Done(c, "NotRunning")
         \/ a = NoApp /\ Done(c, "Closed")
         \/ a # NoApp /\ Goto(c, "stop")
      BY <1>1, <1>2 DEF TerminatePid, At
<1>4. /\ p \in Pids /\ rpc[c].result = "none" /\ a \in Apps \cup {NoApp} /\ Inv
      /\ a \in Apps => Owns(a, p)
      BY <1>1, <1>2, <1>3, Mine DEF Typed, PidSteps, Rpc, Whole, Relies
<1>5. /\ Keeps(Machine, NextMachine) /\ UNCHANGED <<mailbox, call>>
      /\ a \in Apps => Owns(a, p)'
      BY <1>3, <1>4, SignalKeeps
<1>6. ASSUME Goto(c, "stop"), a # NoApp
      PROVE  HandlersInv'
  <2>1. a \in Apps
        BY <1>4, <1>6
  <2>2. PICK r : r = [rpc[c] EXCEPT !.at = "stop"]
        OBVIOUS
  <2>3. /\ Typed(r) /\ r.at = "stop" /\ r.app = a /\ r.pid = p /\ r.result = "none"
        /\ rpc' = [rpc EXCEPT ![c] = r]
        BY <1>1, <1>2, <1>4, <1>6, <2>1, <2>2, StepsAre, GotoIs
  <2>4. Turns(c, r)
        BY <1>3, <1>4, <1>5, <2>3, AtTurns
  <2>5. Relies(r)'
        BY <1>5, <2>1, <2>3 DEF Relies
  <2> QED BY <1>5, <2>3, <2>4, <2>5, TurnKeeps
<1>7. ASSUME NEW result \in {"NotRunning", "Closed"}, Done(c, result),
             result = "Closed" => a = NoApp
      PROVE  HandlersInv'
  <2>1. PICK r : r = [rpc[c] EXCEPT !.at = "done", !.result = result]
        OBVIOUS
  <2>2. /\ Typed(r) /\ r.at = "done" /\ r.app = a /\ r.result = result
        /\ rpc' = [rpc EXCEPT ![c] = r]
    <3>1. result \in Results
          BY DEF Results
    <3> QED BY <1>2, <1>7, <2>1, <3>1, DoneIs
  <2>3. Turns(c, r)
        BY <1>3, <1>4, <1>5, <2>2, AtTurns
  <2>4. Relies(r)'
        BY <1>7, <2>2 DEF Relies
  <2> QED BY <1>5, <2>2, <2>3, <2>4, TurnKeeps
<1> QED BY <1>3, <1>6, <1>7

LEMMA StopAnsweredKeeps ==
  ASSUME Whole, NEW c \in Callers, StopAnswered(c)
  PROVE  HandlersInv'
<1>1. Return(c) /\ rpc[c].at = "stop" /\ Done(c, "Closed")
      BY DEF StopAnswered, Answered
<1>2. /\ rpc[c].pid \in Pids /\ rpc[c].app \in Apps
      /\ Owns(rpc[c].app, rpc[c].pid) /\ Forgotten(rpc[c].pid)
      BY <1>1, Mine DEF Typed, AppSteps, PidSteps, Relies, Learned, Return
<1> DEFINE r == [rpc[c] EXCEPT !.at = "done", !.result = "Closed"]
<1>3. /\ Typed(r) /\ r.at = "done" /\ r.app = rpc[c].app /\ r.pid = rpc[c].pid
      /\ rpc' = [rpc EXCEPT ![c] = r]
      BY <1>1, DoneIs DEF Results
<1> HIDE DEF r
<1>4. Relies(r) /\ Turns(c, r) /\ UNCHANGED <<apps, os>>
      BY <1>1, <1>2, <1>3, AnsweredTurns DEF Relies, Whole
<1> QED BY <1>3, <1>4, StillTurn

LEMMA LookedUpKeeps ==
  ASSUME Whole, NEW c \in Callers, LookedUp(c)
  PROVE  HandlersInv'
<1>1. PICK step \in {"list", "restart"} : Return(c) /\ rpc[c].at = "lookup" /\ Goto(c, step)
      BY DEF LookedUp, Answered
<1>2. rpc[c].app \in Apps /\ rpc[c].result = "none"
      BY <1>1, Mine DEF Typed, AppSteps
<1> DEFINE r == [rpc[c] EXCEPT !.at = step]
<1>3. Typed(r) /\ r.at = step /\ r.result = "none" /\ rpc' = [rpc EXCEPT ![c] = r]
      BY <1>1, <1>2, StepsAre, GotoIs
<1> HIDE DEF r
<1>4. Relies(r) /\ Turns(c, r) /\ UNCHANGED <<apps, os>>
      BY <1>1, <1>3, AnsweredTurns DEF Relies, Whole
<1> QED BY <1>3, <1>4, StillTurn

LEMMA ListByNameKeeps ==
  ASSUME Whole, NEW c \in Callers, ListByName(c)
  PROVE  HandlersInv'
<1> DEFINE todo == Alive(ProcessName[rpc[c].app])
           r    == [rpc[c] EXCEPT !.at = "kill", !.todo = todo]
<1>1. /\ At(c, "list") /\ rpc[c].at = "list" /\ UNCHANGED <<apps, os, mailbox, call>>
      /\ rpc' = [rpc EXCEPT ![c].at = "kill", ![c].todo = todo]
      BY DEF ListByName, At, vars
<1>2. todo \subseteq Pids
      BY DEF Alive
<1> HIDE DEF todo
<1>3. rpc[c].app \in Apps /\ rpc[c].result = "none" /\ rpc[c] \in Rpc /\ rpc \in [Callers -> Rpc]
      BY <1>1, Mine DEF Typed, AppSteps
<1>4. /\ r \in Rpc /\ r.at = "kill" /\ r.app \in Apps /\ r.result = "none"
      /\ rpc' = [rpc EXCEPT ![c] = r]
      BY <1>1, <1>2, <1>3 DEF Rpc, AppSteps, PidSteps
<1> HIDE DEF r
<1>5. Typed(r) /\ Relies(r) /\ Turns(c, r)
      BY <1>1, <1>4, AtTurns DEF Typed, Relies, AppSteps, PidSteps, Whole
<1> QED BY <1>1, <1>5, StillTurn

LEMMA KillNextKeeps ==
  ASSUME Whole, NEW c \in Callers, KillNext(c)
  PROVE  HandlersInv'
<1>1. At(c, "kill") /\ rpc[c].at = "kill"
      BY DEF KillNext, At
<1>2. /\ rpc[c].app \in Apps /\ rpc[c].result = "none" /\ rpc[c] \in Rpc
      /\ rpc \in [Callers -> Rpc] /\ Inv
      BY <1>1, Mine DEF Typed, AppSteps, Whole
<1>3. CASE Goto(c, "scan") /\ UNCHANGED vars
  <2> DEFINE r == [rpc[c] EXCEPT !.at = "scan"]
  <2>1. Typed(r) /\ r.at = "scan" /\ r.result = "none" /\ rpc' = [rpc EXCEPT ![c] = r]
        BY <1>2, <1>3, StepsAre, GotoIs
  <2> HIDE DEF r
  <2>2. Relies(r) /\ Turns(c, r) /\ UNCHANGED <<apps, os>>
        BY <1>1, <1>2, <1>3, <2>1, AtTurns DEF Relies, vars
  <2> QED BY <2>1, <2>2, StillTurn
<1>4. ASSUME NEW p \in rpc[c].todo, Signal(p) \/ Refused, rpc' = [rpc EXCEPT ![c].todo = @ \ {p}]
      PROVE  HandlersInv'
  <2>1. p \in Pids
        BY <1>2 DEF Rpc
  <2>2. Keeps(Machine, NextMachine) /\ UNCHANGED <<mailbox, call>>
        BY <1>2, <1>4, <2>1, SignalKeeps
  <2>3. PICK r : r = [rpc[c] EXCEPT !.todo = @ \ {p}]
        OBVIOUS
  <2>4. /\ r \in Rpc /\ r.at = "kill" /\ r.app \in Apps /\ r.result = "none"
        /\ rpc' = [rpc EXCEPT ![c] = r]
        BY <1>1, <1>2, <1>4, <2>3 DEF Rpc
  <2>5. Typed(r) /\ Relies(r)' /\ Turns(c, r)
        BY <1>1, <1>2, <2>2, <2>4, AtTurns DEF Typed, Relies, AppSteps, PidSteps
  <2> QED BY <2>2, <2>5, TurnKeeps
<1>5. \/ Goto(c, "scan") /\ UNCHANGED vars
      \/ \E p \in rpc[c].todo : (Signal(p) \/ Refused) /\ rpc' = [rpc EXCEPT ![c].todo = @ \ {p}]
      BY DEF KillNext
<1> QED BY <1>3, <1>4, <1>5

-----------------------------------------------------------------------------
(* The steps that move commands *)

(* What a handler asks for, step by step *)
CommandOf(r, c) ==
  CASE r.at = "install" -> [op |-> "Install", app |-> r.app, manifest |-> "plain", from |-> c]
    [] r.at = "start"   -> [op |-> "Start", app |-> r.app, from |-> c]
    [] r.at = "find"    -> [op |-> "FindByPid", pid |-> r.pid, from |-> c]
    [] r.at = "stop"    -> [op |-> "Stop", app |-> r.app, from |-> c]
    [] r.at = "lookup"  -> [op |-> "GetState", app |-> r.app, from |-> c]
    [] r.at = "restart" -> [op |-> "Restart", app |-> r.app, from |-> c]
    [] OTHER            -> [op |-> "ListApps", from |-> c]

LEMMA AskingIs ==
  ASSUME Whole, NEW c \in Callers, Asking(c)
  PROVE  /\ rpc[c].at \in CallSteps /\ Send(c, CommandOf(rpc[c], c)) /\ rpc' = rpc
         /\ CommandOf(rpc[c], c) \in Command /\ Asks(rpc[c], CommandOf(rpc[c], c))
         /\ CommandOf(rpc[c], c).op # "Uninstall"
<1>1. /\ rpc' = rpc /\ rpc[c].at \in CallSteps /\ Send(c, CommandOf(rpc[c], c))
  <2>1. CASE AskInstall(c)
        BY <2>1 DEF AskInstall, Ask, At, CommandOf, CallSteps
  <2>2. CASE AskStart(c)
        BY <2>2 DEF AskStart, Ask, At, CommandOf, CallSteps
  <2>3. CASE AskFind(c)
        BY <2>3 DEF AskFind, Ask, At, CommandOf, CallSteps
  <2>4. CASE AskStop(c)
        BY <2>4 DEF AskStop, Ask, At, CommandOf, CallSteps
  <2>5. CASE AskState(c)
        BY <2>5 DEF AskState, Ask, At, CommandOf, CallSteps
  <2>6. CASE AskRestart(c)
        BY <2>6 DEF AskRestart, Ask, At, CommandOf, CallSteps
  <2> QED BY <2>1, <2>2, <2>3, <2>4, <2>5, <2>6 DEF Asking
<1>2. /\ rpc[c].at # "find" => rpc[c].app \in Apps
      /\ rpc[c].at = "find" => rpc[c].pid \in Pids
      BY <1>1, Mine DEF Typed, AppSteps, PidSteps, CallSteps
<1> DEFINE r == rpc[c]
<1> HIDE DEF r
<1>3. ASSUME r.at \in CallSteps, r.at # "find" => r.app \in Apps, r.at = "find" => r.pid \in Pids
      PROVE  CommandOf(r, c) \in Command /\ Asks(r, CommandOf(r, c))
             /\ CommandOf(r, c).op # "Uninstall"
  <2>1. CASE r.at = "install"
        BY <1>3, <2>1 DEF CommandOf, Command, Asks
  <2>2. CASE r.at = "find"
        BY <1>3, <2>2 DEF CommandOf, Command, Asks
  <2>3. CASE r.at \in {"start", "stop", "lookup", "restart"}
        BY <1>3, <2>3 DEF CommandOf, Command, Asks, AppOps
  <2> QED BY <1>3, <2>1, <2>2, <2>3 DEF CallSteps
<1> QED BY <1>1, <1>2, <1>3 DEF r

LEMMA AskingKeeps ==
  ASSUME Whole, NEW c \in Callers, Asking(c)
  PROVE  HandlersInv'
<1> DEFINE cmd == CommandOf(rpc[c], c)
<1>1. /\ rpc[c].at \in CallSteps /\ Send(c, cmd) /\ rpc' = rpc
      /\ cmd \in Command /\ Asks(rpc[c], cmd) /\ cmd.op # "Uninstall"
      BY AskingIs
<1> HIDE DEF cmd
<1>2. /\ mailbox \in Seq(Command) /\ call \in [Callers -> CallState] /\ Len(mailbox) \in Nat
      /\ UNCHANGED <<apps, os>> /\ mailbox' = Append(mailbox, cmd) /\ cmd.from = c
      /\ call' = [call EXCEPT ![c] = Waiting]
      BY <1>1 DEF Whole, Inv, TypeOK, Send
<1>3. /\ Len(mailbox') = Len(mailbox) + 1 /\ mailbox'[Len(mailbox)+1] = cmd
      /\ \A i \in 1..Len(mailbox) : mailbox'[i] = mailbox[i]
      BY <1>1, <1>2, AppendIs
<1>4. ASSUME NEW i \in 1..Len(mailbox')
      PROVE  i \in 1..Len(mailbox) \/ mailbox'[i] = cmd
      BY <1>2, <1>3, <1>4
<1>5. /\ call'[c] = Waiting /\ \A b \in Callers : b # c => call'[b] = call[b]
      BY <1>2
<1>6. StepsAsk'
  <2>1. \A b \in Callers : call'[b] # Idle => rpc'[b].at \in CallSteps
        BY <1>1, <1>5 DEF Whole, HandlersInv, StepsAsk
  <2>2. \A b \in Callers : \A i \in Pending(b)' : Asks(rpc'[b], mailbox'[i])
        BY <1>1, <1>2, <1>3, <1>4 DEF Whole, HandlersInv, StepsAsk, Pending
  <2>3. \A i \in 1..Len(mailbox') : mailbox'[i].op # "Uninstall"
        BY <1>1, <1>3, <1>4 DEF Whole, HandlersInv, StepsAsk
  <2> QED BY <2>1, <2>2, <2>3 DEF StepsAsk
<1>7. RpcTyped'
      BY <1>1 DEF Whole, HandlersInv, RpcTyped
<1>8. Keeps(Machine, NextMachine)
      BY <1>2, StillKeeps
<1>9. \A b \in Callers : b # c => Trusts(b)'
      BY <1>1, <1>5, <1>8, TrustKept DEF Whole
<1>10. Trusts(c)'
  <2>1. call'[c].st # "answered"
        BY <1>5, CallStates
  <2>2. Relies(rpc[c])
        BY Mine
  <2>3. PICK r : r = rpc[c]
        OBVIOUS
  <2>4. Relies(r)'
        BY <1>2, <2>2, <2>3, StillKeeps
  <2> QED BY <1>1, <2>1, <2>3, <2>4 DEF Trusts
<1> QED BY <1>6, <1>7, <1>9, <1>10 DEF HandlersInv

(* A call is dropped with its handler *)
LEMMA DropKeeps ==
  ASSUME Whole, NEW c \in Callers, Drop(c), rpc' = [rpc EXCEPT ![c] = NoRpc]
  PROVE  HandlersInv'
<1>1. /\ mailbox \in Seq(Command) /\ call \in [Callers -> CallState]
      /\ rpc \in [Callers -> Rpc] /\ \A b \in Callers : Typed(rpc[b])
      BY DEF Whole, Inv, TypeOK, HandlersInv, RpcTyped
<1>2. /\ Len(mailbox') = Len(mailbox)
      /\ \A i \in 1..Len(mailbox) :
           /\ mailbox[i].from = c => mailbox'[i] = [mailbox[i] EXCEPT !.from = Nobody]
                                     /\ mailbox'[i].from = Nobody
           /\ mailbox[i].from # c => mailbox'[i] = mailbox[i]
      BY <1>1, DropIs
<1>3. /\ call' = [call EXCEPT ![c] = Idle] /\ UNCHANGED <<apps, os>>
      BY DEF Drop
<1>4. /\ Typed(NoRpc) /\ NoRpc \in Rpc /\ ~(NoRpc.at \in CallSteps)
      /\ NoRpc.at = "none" /\ NoRpc.result = "none"
      BY DEF NoRpc, Typed, Rpc, AppSteps, PidSteps, CallSteps
<1>5. /\ rpc'[c] = NoRpc /\ call'[c] = Idle /\ rpc' \in [Callers -> Rpc]
      /\ \A b \in Callers : b # c => rpc'[b] = rpc[b] /\ call'[b] = call[b]
      BY <1>1, <1>3, <1>4
<1>6. RpcTyped'
  <2>1. \A b \in Callers : Typed(rpc'[b])
        BY <1>1, <1>4, <1>5
  <2> QED BY <1>5, <2>1 DEF RpcTyped, Typed
<1>7. StepsAsk'
  <2>1. \A b \in Callers : call'[b] # Idle => rpc'[b].at \in CallSteps
        BY <1>5 DEF Whole, HandlersInv, StepsAsk
  <2>2. ASSUME NEW b \in Callers, NEW i \in Pending(b)'
        PROVE  Asks(rpc'[b], mailbox'[i])
    <3>1. i \in 1..Len(mailbox) /\ mailbox'[i].from = b
          BY <1>2, <2>2 DEF Pending
    <3>2. mailbox[i].from # c /\ mailbox'[i] = mailbox[i] /\ b # c
          BY <1>2, <3>1, ConstantsAssumption
    <3>3. i \in Pending(b)
          BY <3>1, <3>2 DEF Pending
    <3> QED BY <1>5, <3>2, <3>3 DEF Whole, HandlersInv, StepsAsk
  <2>3. ASSUME NEW i \in 1..Len(mailbox)
        PROVE  mailbox'[i].op # "Uninstall"
    <3>1. mailbox[i] \in Command /\ mailbox[i].op # "Uninstall"
          BY <1>1 DEF Whole, HandlersInv, StepsAsk
    <3>2. [mailbox[i] EXCEPT !.from = Nobody].op = mailbox[i].op
          BY <3>1 DEF Command
    <3> QED BY <1>2, <3>1, <3>2
  <2> QED BY <1>2, <2>1, <2>2, <2>3 DEF StepsAsk
<1>8. Keeps(Machine, NextMachine)
      BY <1>3, StillKeeps
<1>9. \A b \in Callers : b # c => Trusts(b)'
      BY <1>5, <1>8, TrustKept DEF Whole
<1>10. Trusts(c)'
  <2>1. call'[c].st # "answered"
        BY <1>5, CallStates
  <2> QED BY <1>4, <1>5, <2>1 DEF Trusts, Relies
<1> QED BY <1>6, <1>7, <1>9, <1>10 DEF HandlersInv

(* The manager serves a command: its caller learns what is then true        *)
LEMMA TaskKeeps ==
  ASSUME Whole, Task, rpc' = rpc
  PROVE  HandlersInv'
<1>1. mailbox \in Seq(Command) /\ Inv /\ call \in [Callers -> CallState]
      BY DEF Whole, Inv, TypeOK
<1>2. PICK out : Serves(mailbox[1], out) /\ Finish(mailbox[1], out)
      BY <1>1, TaskServes
<1>3. PICK cmd : cmd = mailbox[1]
      OBVIOUS
<1>4. mailbox # <<>> /\ Fields(cmd) /\ Serves(cmd, out) /\ Finish(cmd, out)
      BY <1>1, <1>2, <1>3, TaskServes
<1>5. /\ Len(mailbox) \in Nat /\ Len(mailbox) >= 1 /\ Len(mailbox') = Len(mailbox) - 1
      /\ \A i \in 1..Len(mailbox') : mailbox'[i] = mailbox[i+1] /\ i + 1 \in 1..Len(mailbox)
      BY <1>1, <1>4, TailIs DEF Finish
<1>6. cmd.op # "Uninstall"
      BY <1>3, <1>5 DEF Whole, HandlersInv, StepsAsk
<1>7. /\ Keeps(Machine, NextMachine)
      /\ cmd.op = "Install" /\ out.answer = "ok" => apps'[cmd.app].manifest # "none"
      /\ cmd.op = "FindByPid" =>
           /\ out.answer \in Apps \cup {NoApp}
           /\ out.answer \in Apps => apps[out.answer].pid = cmd.pid
      /\ cmd.op = "Stop" => apps'[cmd.app].pid = NoPid
      BY <1>1, <1>4, <1>6, ServedKeeps
<1>8. /\ \A c \in Callers : c # cmd.from => call'[c] = call[c]
      /\ \A c \in Callers : c = cmd.from =>
           call'[c] = [st |-> "answered", answer |-> out.answer]
      BY <1>1, <1>4, ConstantsAssumption DEF Finish
<1>9. RpcTyped'
      BY DEF Whole, HandlersInv, RpcTyped
<1>10. \A c \in Callers : c = cmd.from => 1 \in Pending(c) /\ call[c] = Waiting
  <2>1. \A c \in Callers : c = cmd.from => 1 \in Pending(c)
        BY <1>3, <1>5 DEF Pending
  <2> QED BY <2>1 DEF Whole, CallsPaired
<1>11. StepsAsk'
  <2>1. \A c \in Callers : call'[c] # Idle => rpc'[c].at \in CallSteps
        BY <1>8, <1>10, CallStates DEF Whole, HandlersInv, StepsAsk
  <2>2. \A c \in Callers : \A i \in Pending(c)' : i + 1 \in Pending(c) /\ mailbox'[i] = mailbox[i+1]
        BY <1>5 DEF Pending
  <2>3. \A c \in Callers : \A i \in Pending(c)' : Asks(rpc'[c], mailbox'[i])
        BY <2>2 DEF Whole, HandlersInv, StepsAsk
  <2>4. \A i \in 1..Len(mailbox') : mailbox'[i].op # "Uninstall"
        BY <1>5 DEF Whole, HandlersInv, StepsAsk
  <2> QED BY <2>1, <2>3, <2>4 DEF StepsAsk
<1>12. ASSUME NEW c \in Callers, c # cmd.from
       PROVE  Trusts(c)'
       BY <1>7, <1>8, <1>12, TrustKept DEF Whole
<1>13. ASSUME NEW c \in Callers, c = cmd.from
       PROVE  Trusts(c)'
  <2>1. PICK r : r = rpc[c]
        OBVIOUS
  <2>2. Typed(r) /\ Relies(r) /\ Asks(r, cmd)
    <3>1. Asks(r, cmd)
          BY <1>3, <1>10, <1>13, <2>1 DEF Whole, HandlersInv, StepsAsk
    <3> QED BY <2>1, <3>1, Mine
  <2>3. call'[c].st = "answered" /\ call'[c].answer = out.answer
        BY <1>8, <1>13, CallStates
  <2>4. /\ \A a \in Apps : apps[a].manifest # "none" => apps'[a].manifest # "none"
        /\ \A a \in Apps, p \in Pids : Owns(a, p) => Owns(a, p)'
        /\ \A a \in Apps, p \in Pids : Owns(a, p) /\ Forgotten(p) => Forgotten(p)'
        BY <1>7, MachineIs DEF Keeps, Held, Owns, Forgotten
  <2>5. Relies(r)'
        BY <2>2, <2>4 DEF Relies, Typed, AppSteps, PidSteps
  <2>6. ASSUME r.at = "find"
        PROVE  /\ out.answer \in Apps \cup {NoApp}
               /\ out.answer \in Apps => Owns(out.answer, r.pid)'
    <3>1. cmd.op = "FindByPid" /\ cmd.pid = r.pid /\ r.pid \in Pids /\ r.pid # NoPid
          BY <2>2, <2>6, ConstantsAssumption DEF Asks, Typed, PidSteps
    <3>2. out.answer \in Apps => Owns(out.answer, r.pid)
          BY <1>1, <1>7, <3>1, MachineIs DEF Inv, Consistent, OwnPids, Owns
    <3> QED BY <1>7, <2>4, <3>1, <3>2
  <2>7. ASSUME r.at = "stop"
        PROVE  Forgotten(r.pid)'
    <3>1. /\ cmd.op = "Stop" /\ cmd.app = r.app /\ r.app \in Apps /\ r.pid \in Pids
          /\ r.pid # NoPid /\ Owns(r.app, r.pid)
          BY <2>2, <2>7, ConstantsAssumption DEF Asks, Typed, AppSteps, PidSteps, Relies
    <3>2. \A a \in Apps : apps[a].pid = r.pid => a = r.app
          BY <1>1, <3>1, MachineIs DEF Inv, Consistent, OwnPids, Owns
    <3>3. \A a \in Apps : apps'[a].pid = r.pid => apps[a].pid = r.pid
          BY <1>7, <3>1, MachineIs DEF Keeps, Held, Owns
    <3> QED BY <1>7, <3>1, <3>2, <3>3 DEF Forgotten
  <2>8. Learned(r, out.answer)'
    <3>1. r.at = "install" /\ out.answer = "ok" => apps'[r.app].manifest # "none"
          BY <1>7, <2>2 DEF Asks
    <3> QED BY <2>6, <2>7, <3>1 DEF Learned
  <2> QED BY <2>1, <2>3, <2>5, <2>8 DEF Trusts
<1> QED BY <1>9, <1>11, <1>12, <1>13 DEF HandlersInv

LEMMA RestartedInv ==
  ASSUME NEW survive \in BOOLEAN, AgentRestart(survive), rpc' = [c \in Callers |-> NoRpc]
  PROVE  HandlersInv'
<1>1. mailbox' = <<>> /\ call' = [c \in Callers |-> Idle]
      BY DEF AgentRestart
<1>2. /\ Typed(NoRpc) /\ NoRpc \in Rpc /\ NoRpc.at = "none" /\ NoRpc.result = "none"
      BY DEF NoRpc, Typed, Rpc, AppSteps, PidSteps
<1>3. RpcTyped'
      BY <1>2 DEF RpcTyped, Typed
<1>4. StepsAsk'
      BY <1>1 DEF StepsAsk, Pending
<1>5. \A c \in Callers : Trusts(c)'
      BY <1>1, <1>2, CallStates DEF Trusts, Relies
<1> QED BY <1>3, <1>4, <1>5 DEF HandlersInv

LEMMA InitHandlers == DCInit => HandlersInv
<1> SUFFICES ASSUME DCInit PROVE HandlersInv
    OBVIOUS
<1>1. /\ mailbox = <<>> /\ call = [c \in Callers |-> Idle] /\ rpc = [c \in Callers |-> NoRpc]
      BY DEF DCInit, Init
<1>2. /\ Typed(NoRpc) /\ NoRpc \in Rpc /\ NoRpc.at = "none" /\ NoRpc.result = "none"
      BY DEF NoRpc, Typed, Rpc, AppSteps, PidSteps
<1>3. RpcTyped
      BY <1>1, <1>2 DEF RpcTyped
<1>4. StepsAsk
      BY <1>1 DEF StepsAsk, Pending
<1>5. \A c \in Callers : Trusts(c)
      BY <1>1, <1>2, CallStates DEF Trusts, Relies
<1> QED BY <1>3, <1>4, <1>5 DEF HandlersInv

-----------------------------------------------------------------------------
(* The simulation: every step of the handlers is a step of the manager, of  *)
(* one of its callers or of the operating system, or changes nothing there  *)

LEMMA StepSimulates ==
  ASSUME Whole, NEW c \in Callers, Step(c)
  PROVE  [Next]_vars
<1>1. CASE Installed(c) \/ Started(c) \/ Found(c) \/ StopAnswered(c) \/ LookedUp(c) \/ Restarted(c)
  <2>1. Return(c)
        BY <1>1 DEF Installed, Started, Found, StopAnswered, LookedUp, Restarted, Answered
  <2> QED BY <2>1 DEF Next, Client
<1>2. CASE Scan(c) \/ ListByName(c) \/ Respond(c)
      BY <1>2 DEF Scan, ListByName, Respond
<1>3. CASE TerminatePid(c)
  <2>1. rpc[c].pid \in Pids /\ (Signal(rpc[c].pid) \/ Refused)
        BY <1>3, Mine DEF TerminatePid, At, Typed, PidSteps
  <2> QED BY <2>1, SignalKeeps DEF Whole
<1>4. CASE KillNext(c)
  <2>1. UNCHANGED vars \/ \E p \in rpc[c].todo : Signal(p) \/ Refused
        BY <1>4 DEF KillNext
  <2>2. rpc[c].todo \subseteq Pids
        BY Mine DEF Rpc
  <2> QED BY <2>1, <2>2, SignalKeeps DEF Whole
<1> QED BY <1>1, <1>2, <1>3, <1>4 DEF Step

LEMMA Simulates == Whole /\ [DCNext]_dcvars => [Next]_vars
<1> SUFFICES ASSUME Whole, [DCNext]_dcvars PROVE [Next]_vars
    OBVIOUS
<1>1. CASE UNCHANGED dcvars
      BY <1>1 DEF dcvars, vars
<1>2. CASE ManagerStep
      BY <1>2 DEF ManagerStep, Next
<1>3. CASE Environment
      BY <1>3 DEF Environment, Next, System
<1>4. ASSUME NEW c \in Callers, Receive(c) \/ Asking(c) \/ Step(c) \/ Disconnect(c)
      PROVE  [Next]_vars
  <2>1. CASE Receive(c)
        BY <2>1 DEF Receive
  <2>2. CASE Asking(c)
        BY <2>2, AskingIs DEF Next, Client
  <2>3. CASE Step(c)
        BY <2>3, StepSimulates
  <2>4. CASE Disconnect(c)
        BY <2>4 DEF Disconnect, Next, Client
  <2> QED BY <1>4, <2>1, <2>2, <2>3, <2>4
<1> QED BY <1>1, <1>2, <1>3, <1>4 DEF DCNext

LEMMA HandlersKept == Whole /\ [DCNext]_dcvars => HandlersInv'
<1> SUFFICES ASSUME Whole, [DCNext]_dcvars PROVE HandlersInv'
    OBVIOUS
<1>1. CASE UNCHANGED dcvars
      BY <1>1 DEF dcvars, Whole, HandlersInv, RpcTyped, StepsAsk, Pending, Trusts, Relies,
                  Learned, Owns, Forgotten
<1>2. CASE ManagerStep
      BY <1>2, TaskKeeps DEF ManagerStep
<1>3. ASSUME NEW p \in Pids, Exit(p), rpc' = rpc
      PROVE  HandlersInv'
  <2>1. Keeps(Machine, NextMachine) /\ UNCHANGED <<mailbox, call>>
        BY <1>3, OsStepKeeps DEF Exit, Whole
  <2>2. \A c \in Callers : Trusts(c)'
        BY <1>3, <2>1, TrustKept DEF Whole
  <2> QED BY <1>3, <2>1, <2>2 DEF Whole, HandlersInv, RpcTyped, StepsAsk, Pending
<1>4. CASE Environment
      BY <1>3, <1>4, RestartedInv DEF Environment
<1>5. ASSUME NEW c \in Callers, Step(c)
      PROVE  HandlersInv'
  <2>1. Respond(c) => HandlersInv'
        BY RespondKeeps DEF Respond, At, vars
  <2> QED BY <1>5, <2>1, ScanKeeps, InstalledKeeps, FinishedKeeps, FoundKeeps,
             TerminatePidKeeps, StopAnsweredKeeps, LookedUpKeeps, ListByNameKeeps,
             KillNextKeeps DEF Step
<1>6. ASSUME NEW c \in Callers, Disconnect(c)
      PROVE  HandlersInv'
  <2>1. Return(c) => UNCHANGED <<apps, os>>
        BY DEF Return
  <2> QED BY <1>6, <2>1, DropKeeps, RespondKeeps DEF Disconnect, vars
<1> QED BY <1>1, <1>2, <1>4, <1>5, <1>6, ReceiveKeeps, AskingKeeps DEF DCNext

LEMMA WholeInvariance == DCSpec => []Whole
<1>1. DCInit => Whole
      BY InitInv, InitPairs, InitHandlers DEF DCInit, Whole
<1>2. Whole /\ [DCNext]_dcvars => Whole'
      BY Simulates, NextInv, NextPairs, HandlersKept DEF Whole
<1> QED BY <1>1, <1>2, PTL DEF DCSpec

-----------------------------------------------------------------------------
(* The theorems *)

(* The handlers, with everything they do past the manager, are a behaviour  *)
(* of AppLifecycle: each of their steps is a step of it or a stutter.       *)
THEOREM HandlersImplementLifecycle == DCSpec => ImplementsLifecycle
<1>1. DCInit => Init
      BY DEF DCInit
<1> QED BY <1>1, Simulates, WholeInvariance, PTL DEF DCSpec, Spec, ImplementsLifecycle

(* StartApp never fails with "not installed": once its install was answered *)
(* no concurrent close, restart or start takes the manifest away before the *)
(* start is served, for any number of handlers, apps and processes.         *)
THEOREM StartsFindTheirManifests == DCSpec => []StartFindsManifest
<1>1. Whole => StartFindsManifest
      BY DEF Whole, HandlersInv, Trusts, Relies, StartFindsManifest
<1> QED BY <1>1, WholeInvariance, PTL

(* A pid of the manager's that CloseApp reports as closed is recorded for no *)
(* app any more, and stays so, whatever installs, restarts or other closes   *)
(* came between its search, its signal and its stop.                         *)
THEOREM ClosedPidsAreForgotten == DCSpec => []ClosedPidForgotten
<1>1. Whole => ClosedPidForgotten
      BY DEF Whole, HandlersInv, Trusts, Relies, Forgotten, ClosedPidForgotten
<1> QED BY <1>1, WholeInvariance, PTL
================================================================================
