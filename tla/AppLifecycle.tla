---------------------------- MODULE AppLifecycle ----------------------------
(***************************************************************************)
(* The lifecycle manager of src/app_lifecycle.rs: one task owns the table  *)
(* of payload applications and serves, one at a time, the commands that    *)
(* RPC handlers put in its bounded mailbox; every command carries a        *)
(* oneshot channel for its answer.  The task starts and signals operating- *)
(* system processes through the PAL, and those processes live and die on   *)
(* their own.                                                              *)
(*                                                                         *)
(* Not modelled: names, versions and the removal of an install directory.  *)
(* The states Installing, Failed, Uninstalling and Uninstalled of the      *)
(* source's enum are left out: nothing assigns the first three, and the    *)
(* entry that is set to Uninstalled is removed by the same handler.        *)
(***************************************************************************)
EXTENDS Naturals, Sequences, FiniteSets

CONSTANTS
  Apps,      (* application ids: the keys of the table                     *)
  Callers,   (* tasks that hold an AppLifecycleHandle                      *)
  Pids,      (* process ids; their number bounds the processes ever alive  *)
  Capacity,  (* slots of the mailbox: mpsc::channel(64)                    *)
  NoApp,     (* None, for an app id                                        *)
  NoPid,     (* None, for AppInstance.pid                                  *)
  Nobody     (* the receiver of an answer that has been dropped            *)

ASSUME ConstantsAssumption ==
  /\ NoApp \notin Apps
  /\ NoPid \notin Pids
  /\ Nobody \notin Callers
  /\ Capacity \in Nat \ {0}

VARIABLES
  apps,      (* the table, a total function: "Unknown" for a missing key   *)
  os,        (* the process table of the operating system                  *)
  mailbox,   (* commands sent and not yet received, oldest first           *)
  call       (* what each caller's current handle call is doing            *)

vars == <<apps, os, mailbox, call>>

-----------------------------------------------------------------------------
(* Types *)

AppState == {"Unknown", "Registered", "Installed", "Starting", "Running",
             "Stopping", "Stopped"}

(* "limited": the manifest has a memory or a cpu limit *)
Manifest == {"none", "plain", "limited"}

AppInstance == [state : AppState, manifest : Manifest, pid : Pids \cup {NoPid}]

UnknownApp == [state |-> "Unknown", manifest |-> "none", pid |-> NoPid]

(* Whether the manager let a process go without a signal (history, read by  *)
(* no guard): "lost" to a new install, a failed stop, a failed resource     *)
(* limit or a restart of the agent.                                         *)
Escape == {"no", "lost", "uninstall"}

(* A child of the running agent is reaped by nobody when it exits; init has *)
(* adopted the processes that outlived an earlier agent.                    *)
Process == [app : Apps \cup {NoApp}, parent : {"agent", "init"}, escape : Escape,
            phase : {"free", "running", "signalled", "zombie"}]

FreeSlot == [app |-> NoApp, parent |-> "init", escape |-> "no", phase |-> "free"]

AppOps == {"Register", "Start", "Stop", "Restart", "Uninstall", "GetState"}

Command ==
  [op : AppOps, app : Apps, from : Callers \cup {Nobody}]
    \cup [op : {"Install"}, app : Apps, manifest : {"plain", "limited"},
          from : Callers \cup {Nobody}]
    \cup [op : {"FindByPid"}, pid : Pids, from : Callers \cup {Nobody}]
    \cup [op : {"ListApps"}, from : Callers \cup {Nobody}]

(* "listed" stands for the list, of which callers use nothing *)
Answer == {"ok", "err", "listed"} \cup AppState \cup Apps \cup {NoApp}

Idle == [st |-> "idle"]

Waiting == [st |-> "waiting"]

CallState == {Idle, Waiting} \cup [st : {"answered"}, answer : Answer]

TypeOK ==
  /\ apps \in [Apps -> AppInstance]
  /\ os \in [Pids -> Process]
  /\ mailbox \in Seq(Command)
  /\ Len(mailbox) <= Capacity
  /\ call \in [Callers -> CallState]

Init ==
  /\ apps = [a \in Apps |-> UnknownApp]
  /\ os = [p \in Pids |-> FreeSlot]
  /\ mailbox = <<>>
  /\ call = [c \in Callers |-> Idle]

-----------------------------------------------------------------------------
(* The handlers.  Each maps the machine m (the table and the processes) to  *)
(* the set of its possible outcomes: what the PAL answers is not up to the  *)
(* agent.                                                                   *)

Machine == [apps |-> apps, os |-> os]

Outcome(m, answer) == [apps |-> m.apps, os |-> m.os, answer |-> answer]

SetApp(m, a, inst) == [m EXCEPT !.apps[a] = inst]

(* kill(pid, SIGTERM): a zombie takes the signal and stays what it is *)
Terminate(m, p) ==
  [m EXCEPT !.os[p].phase = IF @ = "running" THEN "signalled" ELSE @]

Abandon(m, p, why) == [m EXCEPT !.os[p].escape = why]

(* Command::spawn; the Child it returns is dropped without a wait *)
Spawn(m, a, p) ==
  [m EXCEPT !.os[p] =
     [app |-> a, parent |-> "agent", escape |-> "no", phase |-> "running"]]

FreePids(m) == {p \in Pids : m.os[p].phase = "free"}

(* Mutant: registering resets the state of an app that is already installed *)
DoRegisterResets(m, a) ==
  {Outcome(SetApp(m, a, [m.apps[a] EXCEPT !.state = "Registered"]), "ok")}

DoRegister(m, a) ==
  LET inst == m.apps[a]
  IN  {Outcome(SetApp(m, a,
         IF inst.state \in {"Unknown", "Registered"}
           THEN [inst EXCEPT !.state = "Registered"]
           ELSE inst), "ok")}

(* Installing over an instance forgets its pid, whatever its state *)
DoInstall(m, a, manifest) ==
  LET old  == m.apps[a].pid
      base == IF old = NoPid THEN m ELSE Abandon(m, old, "lost")
      inst == [state |-> "Installed", manifest |-> manifest, pid |-> NoPid]
  IN  {Outcome(m, "err"),                       \* executable not found
       Outcome(SetApp(base, a, inst), "ok")}

(* Mutant: a start of a running app is not idempotent *)
DoStartAgain(m, a) ==
  LET inst == m.apps[a]
      running(p) == [inst EXCEPT !.state = "Running", !.pid = p]
  IN  IF inst.manifest = "none"
        THEN {Outcome(m, "err")}
        ELSE {Outcome(SetApp(Spawn(m, a, p), a, running(p)), "ok") : p \in FreePids(m)}

(* Mutant: the state is set before the manifest is looked up *)
DoStartEarlyState(m, a) ==
  IF m.apps[a].state \in {"Unknown", "Running"}
    THEN {Outcome(m, "err")}
    ELSE {Outcome(SetApp(m, a, [m.apps[a] EXCEPT !.state = "Starting"]), "err")}

DoStart(m, a) ==
  LET inst       == m.apps[a]
      starting   == SetApp(m, a, [inst EXCEPT !.state = "Starting"])
      tracked(p) == [inst EXCEPT !.state = "Running", !.pid = p]
  IN  CASE inst.state = "Running"  -> {Outcome(m, "ok")}
        [] inst.manifest = "none"  -> {Outcome(m, "err")}
        [] OTHER ->
             {Outcome(starting, "err")}         \* the spawn failed
               \cup {Outcome(SetApp(Spawn(m, a, p), a, tracked(p)), "ok")
                       : p \in FreePids(m)}
               \cup {Outcome(Abandon(Spawn(starting, a, p), p, "lost"),
                             "err")
                       : p \in {q \in FreePids(m) : inst.manifest = "limited"}}

(* Mutant: the pid is cleared only when the signal was delivered *)
DoStopKeepsPid(m, a) ==
  LET inst == m.apps[a]
  IN  IF inst.pid = NoPid
        THEN {Outcome(m, "err")}
        ELSE {Outcome(SetApp(Terminate(m, inst.pid), a,
                             [inst EXCEPT !.state = "Stopped", !.pid = NoPid]), "ok"),
              Outcome(SetApp(m, a, [inst EXCEPT !.state = "Stopping"]), "err")}

DoStop(m, a) ==
  LET inst    == m.apps[a]
      stopped == [inst EXCEPT !.state = "Stopped", !.pid = NoPid]
      failed  == [inst EXCEPT !.state = "Stopping", !.pid = NoPid]
  IN  CASE inst.state = "Unknown" -> {Outcome(m, "err")}
        [] inst.state # "Unknown" /\ inst.pid = NoPid ->
             {Outcome(SetApp(m, a, stopped), "ok")}
        [] OTHER ->
             {Outcome(SetApp(Terminate(m, inst.pid), a, stopped), "ok"),
              Outcome(SetApp(Abandon(m, inst.pid, "lost"), a, failed), "err")}

(* The error of the stop is discarded *)
DoRestart(m, a) ==
  UNION {DoStart([apps |-> out.apps, os |-> out.os], a) : out \in DoStop(m, a)}

DoUninstall(m, a) ==
  LET inst == m.apps[a]
      gone == UnknownApp
  IN  CASE inst.state = "Unknown" -> {Outcome(m, "err")}
        [] inst.state \in {"Running", "Starting"} /\ inst.pid # NoPid ->
             {Outcome(SetApp(Terminate(m, inst.pid), a, gone), "ok"),
              Outcome(SetApp(Abandon(m, inst.pid, "uninstall"), a,
                             [inst EXCEPT !.pid = NoPid]), "err")}
        [] OTHER -> {Outcome(SetApp(m, a, gone), "ok")}

GetState(m, a) == {Outcome(m, m.apps[a].state)}

FindByPid(m, p) ==
  LET found == {a \in Apps : m.apps[a].pid = p}
  IN  {Outcome(m, x) : x \in IF found = {} THEN {NoApp} ELSE found}

ListApps(m) == {Outcome(m, "listed")}

-----------------------------------------------------------------------------
(* The lifecycle task *)

(* The command that recv() returns, if it is one of these operations *)
Received(ops) ==
  {cmd \in {mailbox[i] : i \in 1..Len(mailbox)} :
     cmd = mailbox[1] /\ cmd.op \in ops}

(* Mutant: a command that fails is not answered *)
FinishDropsErrors(cmd, out) ==
  /\ apps' = out.apps
  /\ os' = out.os
  /\ mailbox' = Tail(mailbox)
  /\ call' = IF cmd.from = Nobody \/ out.answer = "err"
               THEN call
               ELSE [call EXCEPT ![cmd.from] =
                       [st |-> "answered", answer |-> out.answer]]

Finish(cmd, out) ==
  /\ apps' = out.apps
  /\ os' = out.os
  /\ mailbox' = Tail(mailbox)
  /\ call' = IF cmd.from = Nobody
               THEN call
               ELSE [call EXCEPT ![cmd.from] =
                       [st |-> "answered", answer |-> out.answer]]

ServeRegister ==
  \E cmd \in Received({"Register"}) :
    \E out \in DoRegister(Machine, cmd.app) : Finish(cmd, out)

ServeInstall ==
  \E cmd \in Received({"Install"}) :
    \E out \in DoInstall(Machine, cmd.app, cmd.manifest) : Finish(cmd, out)

ServeStart ==
  \E cmd \in Received({"Start"}) :
    \E out \in DoStart(Machine, cmd.app) : Finish(cmd, out)

ServeStop ==
  \E cmd \in Received({"Stop"}) :
    \E out \in DoStop(Machine, cmd.app) : Finish(cmd, out)

ServeRestart ==
  \E cmd \in Received({"Restart"}) :
    \E out \in DoRestart(Machine, cmd.app) : Finish(cmd, out)

ServeUninstall ==
  \E cmd \in Received({"Uninstall"}) :
    \E out \in DoUninstall(Machine, cmd.app) : Finish(cmd, out)

ServeQuery ==
  \E cmd \in Received({"GetState", "FindByPid", "ListApps"}) :
    \E out \in CASE cmd.op = "GetState"  -> GetState(Machine, cmd.app)
                 [] cmd.op = "FindByPid" -> FindByPid(Machine, cmd.pid)
                 [] OTHER                -> ListApps(Machine) :
      Finish(cmd, out)

Task ==
  \/ ServeRegister \/ ServeInstall \/ ServeStart \/ ServeStop
  \/ ServeRestart \/ ServeUninstall \/ ServeQuery

-----------------------------------------------------------------------------
(* The callers: a handle method sends a command, for which it waits while   *)
(* the mailbox is full, and then awaits the answer.                         *)

(* Mutant: the mailbox is unbounded *)
SendUnbounded(c, cmd) ==
  /\ call[c] = Idle
  /\ cmd.from = c
  /\ mailbox' = Append(mailbox, cmd)
  /\ call' = [call EXCEPT ![c] = Waiting]
  /\ UNCHANGED <<apps, os>>

Send(c, cmd) ==
  /\ call[c] = Idle
  /\ cmd.from = c
  /\ Len(mailbox) < Capacity
  /\ mailbox' = Append(mailbox, cmd)
  /\ call' = [call EXCEPT ![c] = Waiting]
  /\ UNCHANGED <<apps, os>>

Return(c) ==
  /\ call[c].st = "answered"
  /\ call' = [call EXCEPT ![c] = Idle]
  /\ UNCHANGED <<apps, os, mailbox>>

(* Mutant: the answer of an abandoned call still finds its caller *)
DropKeepsSender(c) ==
  /\ call[c] = Waiting
  /\ call' = [call EXCEPT ![c] = Idle]
  /\ UNCHANGED <<apps, os, mailbox>>

(* The handler's future is dropped, as when its client disconnects: a       *)
(* command that was sent stays in the mailbox and will be served, but its   *)
(* answer has no receiver.                                                  *)
Drop(c) ==
  /\ call[c] = Waiting
  /\ call' = [call EXCEPT ![c] = Idle]
  /\ mailbox' = [i \in 1..Len(mailbox) |->
                   IF mailbox[i].from = c
                     THEN [mailbox[i] EXCEPT !.from = Nobody]
                     ELSE mailbox[i]]
  /\ UNCHANGED <<apps, os>>

-----------------------------------------------------------------------------
(* The operating system *)

(* Mutant: children are reaped, and their pids are given away again *)
ExitReaped(p) ==
  /\ os[p].phase \in {"running", "signalled"}
  /\ os' = [os EXCEPT ![p] = FreeSlot]
  /\ UNCHANGED <<apps, mailbox, call>>

(* The agent's own children become zombies, for nothing ever waits for them; *)
(* processes that outlived an agent are reaped by init.                      *)
Exit(p) ==
  /\ os[p].phase \in {"running", "signalled"}
  /\ os' = [os EXCEPT ![p] =
              IF @.parent = "agent" THEN [@ EXCEPT !.phase = "zombie"] ELSE FreeSlot]
  /\ UNCHANGED <<apps, mailbox, call>>

(* Somebody sends SIGTERM past the manager: close_app and restart_app do *)
Kill(p) ==
  /\ os[p].phase = "running"
  /\ os' = [os EXCEPT ![p].phase = "signalled"]
  /\ UNCHANGED <<apps, mailbox, call>>

(* The agent stops or crashes and starts again with an empty table, for     *)
(* nothing loads the manifests it stored.  A service manager that kills the *)
(* whole control group leaves no process behind; without one they live on.  *)
AgentRestart(survive) ==
  /\ apps' = [a \in Apps |-> UnknownApp]
  /\ os' = [p \in Pids |->
              IF survive /\ os[p].phase \in {"running", "signalled"}
                THEN [os[p] EXCEPT !.parent = "init", !.escape = "lost"]
                ELSE FreeSlot]
  /\ mailbox' = <<>>
  /\ call' = [c \in Callers |-> Idle]

System ==
  \/ \E p \in Pids : Exit(p) \/ Kill(p)
  \/ \E survive \in BOOLEAN : AgentRestart(survive)

-----------------------------------------------------------------------------
Client(c) ==
  \/ \E cmd \in Command : Send(c, cmd)
  \/ Return(c)
  \/ Drop(c)

Next == Task \/ System \/ \E c \in Callers : Client(c)

Spec == Init /\ [][Next]_vars

-----------------------------------------------------------------------------
(* Properties *)

(* A pid in the table is one the manager itself started for that very app   *)
(* and that has not been given away since: find_app_by_pid and stop can     *)
(* never reach another app's process, and no two apps share a pid.  The pid *)
(* of a process that exited stays in the table, and it is sound only        *)
(* because nobody reaps the child.                                          *)
RecordedPidIsOwn ==
  \A a \in Apps : apps[a].pid # NoPid =>
    LET proc == os[apps[a].pid]
    IN  proc.app = a /\ proc.parent = "agent" /\ proc.phase # "free" /\ proc.escape = "no"

(* Only an app in state Running has a pid; and an app in state Running has  *)
(* one unless the manager failed to terminate it for an uninstall.          *)
PidMatchesState ==
  \A a \in Apps :
    /\ apps[a].pid # NoPid => apps[a].state = "Running"
    /\ apps[a].state = "Running" /\ apps[a].pid = NoPid =>
         \E p \in Pids : os[p].app = a /\ os[p].escape = "uninstall"

(* A process that is alive and was never asked to stop is either recorded   *)
(* in the table or left it in one of the known ways; in particular no start *)
(* ever replaces the process that a table entry still refers to.            *)
TrackedOrExplained ==
  \A p \in Pids :
    os[p].phase = "running" /\ os[p].escape = "no" => apps[os[p].app].pid = p

(* An app that was registered but never installed has no manifest to start, *)
(* whatever commands are sent for it.                                       *)
StartNeedsManifest ==
  \A a \in Apps :
    apps[a].manifest = "none" => apps[a].state \in {"Unknown", "Registered", "Stopped"}

(* A caller that waits has exactly one command on its way, and no other has  *)
(* one: the answer to an abandoned call can never be taken for the answer   *)
(* to a later one, and nobody waits for an answer that will not come.       *)
CallsMatchMailbox ==
  \A c \in Callers :
    LET pending == {i \in 1..Len(mailbox) : mailbox[i].from = c}
    IN  IF call[c] = Waiting THEN \E i \in pending : pending = {i} ELSE pending = {}

(* The state machine of an app, over whole commands: the table of the moves *)
(* one served command can make.                                             *)
Known == AppState \ {"Unknown"}

LegalMoves ==
  {<<"Unknown", "Registered">>}
    \cup (AppState \X {"Installed"})
    \cup ({"Installed", "Starting", "Stopping", "Stopped"} \X {"Starting", "Running"})
    \cup {<<"Running", "Starting">>, <<"Running", "Stopping">>}
    \cup (Known \X {"Stopped", "Unknown"})

LegalTransitions ==
  [][\A a \in Apps :
       apps'[a].state = apps[a].state
         \/ <<apps[a].state, apps'[a].state>> \in LegalMoves]_vars
=============================================================================
