---------------------------- MODULE DeviceControl ----------------------------
(***************************************************************************)
(* The StartApp, CloseApp and RestartApp handlers of src/app.rs: programs   *)
(* of several steps around the lifecycle manager.  A handler looks at the   *)
(* process table of the machine, signals processes past the manager, and    *)
(* asks the manager one thing at a time; between two steps anything else    *)
(* may happen.  Every caller of AppLifecycle is one such handler.           *)
(*                                                                          *)
(* A request names several apps or pids, which its handler serves one after *)
(* the other: each of them is an rpc here.  Left out are processes that the *)
(* agent did not start, requests refused at once for an empty path, and the *)
(* record of the manifest in the store, which nothing reads.                *)
(***************************************************************************)
EXTENDS AppLifecycle

CONSTANTS
  Names,       (* process names                                             *)
  ProcessName, (* effective_process_name of an app: several param_ids of    *)
               (* one executable are several apps of one name               *)
  Requests     (* what the clients ask for                                  *)

(* "multi" is allow_multi_instance *)
Request ==
  [method : {"StartApp", "RestartApp"}, app : Apps, multi : {"single", "multi"}]
    \cup [method : {"CloseApp"}, pid : Pids]

ASSUME ProgramAssumption ==
  /\ ProcessName \in [Apps -> Names]
  /\ Requests \subseteq Request

VARIABLE rpc   (* what each handler is doing                                *)

dcvars == <<apps, os, mailbox, call, rpc>>

-----------------------------------------------------------------------------
(* "app" is the lifecycle app id, for CloseApp the one found to own "pid";  *)
(* "todo" holds the pids that RestartApp has found and still has to signal. *)
NoRpc ==
  [at |-> "none", app |-> NoApp, pid |-> NoPid, multi |-> "single", todo |-> {},
   result |-> "none"]

DCInit == Init /\ rpc = [c \in Callers |-> NoRpc]

At(c, step) == rpc[c].at = step /\ call[c] = Idle

Goto(c, step) == rpc' = [rpc EXCEPT ![c].at = step]

Done(c, result) == rpc' = [rpc EXCEPT ![c].at = "done", ![c].result = result]

(* The handler calls the manager, and the manager's answer comes back *)
Ask(c, step, cmd) == At(c, step) /\ Send(c, cmd) /\ UNCHANGED rpc

Answered(c, step) == rpc[c].at = step /\ Return(c)

Said(c, answer) == call[c].answer = answer

-----------------------------------------------------------------------------
(* What find_process_ids_by_name sees: a zombie is listed by the name of    *)
(* its executable, which for a script is that of the interpreter.           *)
Alive(name) ==
  {p \in Pids : os[p].phase \in {"running", "signalled"} /\ ProcessName[os[p].app] = name}

Zombies(name) ==
  {p \in Pids : os[p].phase = "zombie" /\ ProcessName[os[p].app] = name}

Begin(r) ==
  IF r.method = "CloseApp"
    THEN [NoRpc EXCEPT !.at = "find", !.pid = r.pid]
    ELSE [NoRpc EXCEPT !.at = IF r.method = "StartApp" THEN "scan" ELSE "lookup",
                       !.app = r.app, !.multi = r.multi]

Receive(c) ==
  /\ rpc[c] = NoRpc
  /\ \E r \in Requests : rpc' = [rpc EXCEPT ![c] = Begin(r)]
  /\ UNCHANGED vars

(* start_one_app: the scan for another instance, then the arguments, which  *)
(* may not parse *)
Scan(c) ==
  LET name == ProcessName[rpc[c].app]
  IN  /\ At(c, "scan")
      /\ \/ /\ rpc[c].multi = "single"
            /\ Alive(name) \cup Zombies(name) # {}
            /\ Done(c, "AlreadyRunning")
         \/ /\ rpc[c].multi = "multi" \/ Alive(name) = {}
            /\ Goto(c, "install") \/ Done(c, "FailToStart")
      /\ UNCHANGED vars

(* The manifest of a StartApp request has no limits *)
AskInstall(c) ==
  Ask(c, "install", [op |-> "Install", app |-> rpc[c].app, manifest |-> "plain", from |-> c])

(* Mutant: a failed install does not keep the app from being started *)
InstalledIgnoresError(c) ==
  /\ Answered(c, "install")
  /\ Goto(c, "start")

Installed(c) ==
  /\ Answered(c, "install")
  /\ IF Said(c, "ok") THEN Goto(c, "start") ELSE Done(c, "FailToStart")

AskStart(c) == Ask(c, "start", [op |-> "Start", app |-> rpc[c].app, from |-> c])

Started(c) ==
  /\ Answered(c, "start")
  /\ Done(c, IF Said(c, "ok") THEN "Started" ELSE "FailToStart")

-----------------------------------------------------------------------------
(* close_app *)

AskFind(c) == Ask(c, "find", [op |-> "FindByPid", pid |-> rpc[c].pid, from |-> c])

Found(c) ==
  /\ Answered(c, "find")
  /\ rpc' = [rpc EXCEPT ![c].at = "terminate", ![c].app = call[c].answer]

(* kill() on a pid that nobody has fails; a zombie takes the signal *)
Signal(p) == IF os[p].phase = "running" THEN Kill(p) ELSE UNCHANGED vars

(* kill() fails on a pid that somebody has: the agent may not signal it *)
Refused == UNCHANGED vars

(* Mutant: the handler reports success without telling the manager *)
TerminatePidOnly(c) ==
  LET p == rpc[c].pid
  IN  /\ At(c, "terminate")
      /\ Signal(p)
      /\ Done(c, IF os[p].phase = "free" THEN "NotRunning" ELSE "Closed")

(* Mutant: the handler clears the entry itself *)
TerminateClears(c) ==
  LET p == rpc[c].pid
  IN  /\ At(c, "terminate")
      /\ apps' = [a \in Apps |-> IF apps[a].pid = p THEN [apps[a] EXCEPT !.pid = NoPid] ELSE apps[a]]
      /\ os' = [os EXCEPT ![p].phase = IF @ = "running" THEN "signalled" ELSE @]
      /\ UNCHANGED <<mailbox, call>>
      /\ Done(c, "Closed")

TerminatePid(c) ==
  LET p == rpc[c].pid
  IN  /\ At(c, "terminate")
      /\ \/ /\ Signal(p)
            /\ CASE os[p].phase = "free" -> Done(c, "NotRunning")
                 [] os[p].phase # "free" /\ rpc[c].app = NoApp -> Done(c, "Closed")
                 [] OTHER -> Goto(c, "stop")
         \/ Refused /\ Done(c, "NotRunning")

AskStop(c) == Ask(c, "stop", [op |-> "Stop", app |-> rpc[c].app, from |-> c])

(* The answer is discarded *)
StopAnswered(c) == Answered(c, "stop") /\ Done(c, "Closed")

-----------------------------------------------------------------------------
(* restart_app *)

AskState(c) == Ask(c, "lookup", [op |-> "GetState", app |-> rpc[c].app, from |-> c])

LookedUp(c) ==
  /\ Answered(c, "lookup")
  /\ Goto(c, IF Said(c, "Unknown") THEN "list" ELSE "restart")

AskRestart(c) == Ask(c, "restart", [op |-> "Restart", app |-> rpc[c].app, from |-> c])

Restarted(c) ==
  /\ Answered(c, "restart")
  /\ Done(c, IF Said(c, "ok") THEN "Started" ELSE "FailToStart")

(* An app the manager does not know is killed by name, then started anew *)
ListByName(c) ==
  LET name == ProcessName[rpc[c].app]
  IN  /\ At(c, "list")
      /\ rpc' = [rpc EXCEPT ![c].at = "kill", ![c].todo = Alive(name)]
      /\ UNCHANGED vars

KillNext(c) ==
  /\ At(c, "kill")
  /\ IF rpc[c].todo = {}
       THEN Goto(c, "scan") /\ UNCHANGED vars
       ELSE \E p \in rpc[c].todo :
              (Signal(p) \/ Refused) /\ rpc' = [rpc EXCEPT ![c].todo = @ \ {p}]

-----------------------------------------------------------------------------
Respond(c) ==
  /\ At(c, "done")
  /\ rpc' = [rpc EXCEPT ![c] = NoRpc]
  /\ UNCHANGED vars

(* The client goes away and the handler's future is dropped where it stands *)
Disconnect(c) ==
  /\ rpc[c] # NoRpc
  /\ rpc' = [rpc EXCEPT ![c] = NoRpc]
  /\ \/ Drop(c)
     \/ Return(c)
     \/ call[c] = Idle /\ UNCHANGED vars

Asking(c) ==
  \/ AskInstall(c) \/ AskStart(c) \/ AskFind(c) \/ AskStop(c) \/ AskState(c) \/ AskRestart(c)

Step(c) ==
  \/ Scan(c) \/ Installed(c) \/ Started(c)
  \/ Found(c) \/ TerminatePid(c) \/ StopAnswered(c)
  \/ LookedUp(c) \/ Restarted(c) \/ ListByName(c) \/ KillNext(c)
  \/ Respond(c)

ManagerStep == Task /\ UNCHANGED rpc

Environment ==
  \/ \E p \in Pids : Exit(p) /\ UNCHANGED rpc
  \/ \E survive \in BOOLEAN : AgentRestart(survive) /\ rpc' = [c \in Callers |-> NoRpc]

DCNext ==
  \/ ManagerStep
  \/ Environment
  \/ \E c \in Callers : Receive(c) \/ Asking(c) \/ Step(c) \/ Disconnect(c)

DCSpec == DCInit /\ [][DCNext]_dcvars

(* The runtime runs the manager and every handler that can run.  Senders    *)
(* that wait for a slot of the mailbox get it in the order they came, so a  *)
(* handler that finds it free again and again does send.                    *)
Fairness ==
  /\ WF_dcvars(ManagerStep)
  /\ \A c \in Callers : WF_dcvars(Step(c)) /\ SF_dcvars(Asking(c))

FairDCSpec == DCSpec /\ Fairness

-----------------------------------------------------------------------------
(* Properties *)

(* The handlers use the lifecycle manager the way it is meant to be used:   *)
(* whatever they do between two calls, together they are one of the         *)
(* behaviours of AppLifecycle, whose invariants they inherit.               *)
ImplementsLifecycle == Spec

(* A handler about to start an app has installed it and nobody, not a       *)
(* concurrent close, restart or second start, takes the manifest away       *)
(* before its start is served: StartApp never fails with "not installed".   *)
StartFindsManifest ==
  \A c \in Callers :
    rpc[c].at = "start" /\ call[c].st # "answered" => apps[rpc[c].app].manifest # "none"

(* When CloseApp reports a pid of the manager's as closed, no app claims    *)
(* that pid any more, although an install, a restart or another close may   *)
(* have come between the search, the signal and the stop.                   *)
ClosedPidForgotten ==
  \A c \in Callers :
    rpc[c].result = "Closed" /\ rpc[c].app # NoApp => \A a \in Apps : apps[a].pid # rpc[c].pid

(* Every request is answered as long as the agent runs, even when handlers  *)
(* compete for the mailbox.                                                 *)
EveryRpcCompletes ==
  \A c \in Callers : rpc[c].at # "none" ~> rpc[c].at = "none"
=============================================================================
