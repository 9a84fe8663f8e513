----------------------------- MODULE AppPlatform -----------------------------
(***************************************************************************)
(* The sessions of payload applications (src/app_platform.rs), the health   *)
(* evaluator (src/health_evaluator.rs) and the loop of src/app.rs that      *)
(* performs its actions, over the lifecycle manager of AppLifecycle.        *)
(*                                                                          *)
(* A handler checks the session under the store's lock and releases it      *)
(* before it does its work: sessions may change in between.  It can be      *)
(* dropped only where it awaits.  A request that is refused (no session,    *)
(* revoked, expired, wrong token, denied by role) changes nothing here; its *)
(* audit is in AuditTrail.  No app that registers over IPC is ever          *)
(* installed, for an installed app gets its id from DeviceControl: its      *)
(* entry has no manifest and no process.                                    *)
(***************************************************************************)
EXTENDS AppLifecycle

CONSTANTS
  Names,           (* app_name of the requests                             *)
  Handlers,        (* tasks that serve requests                            *)
  Loop,            (* the task that performs health actions                *)
  Lifetime,        (* session_duration                                     *)
  Threshold,       (* unhealthy_threshold                                  *)
  MinInterval,     (* min_restart_interval                                 *)
  ActionCapacity,  (* slots of the action channel: mpsc::channel(64)       *)
  MaxTime,         (* bound: the clock stops here                          *)
  MaxTokens        (* bound: registrations                                 *)

Time == 0..MaxTime

(* generate_app_id: the name and the time in milliseconds *)
AppId(name, now) == <<name, now>>

ASSUME PlatformAssumption ==
  /\ Apps = {AppId(name, t) : name \in Names, t \in Time}
  /\ Callers = Handlers \cup {Loop}
  /\ Loop \notin Handlers
  /\ {Lifetime, Threshold, MinInterval, ActionCapacity, MaxTokens} \subseteq Nat \ {0}
  /\ MaxTime \in Nat

VARIABLES
  clock,    (* the time, for sessions and for the evaluator                *)
  session,  (* the table app_sessions: it outlives the agent               *)
  issued,   (* tokens given out so far                                     *)
  held,     (* what clients hold: the answers to completed registrations   *)
  request,  (* where each handler is                                       *)
  health,   (* HealthEvaluator.apps                                        *)
  actions,  (* the action channel                                          *)
  acting,   (* the health loop                                             *)
  dead,     (* history: tokens that were revoked                           *)
  gone      (* history: apps whose unregistering was answered              *)

pvars == <<clock, session, issued, held, request, health, actions, acting, dead, gone>>

platformvars == <<vars, pvars>>

-----------------------------------------------------------------------------
Token == 1..MaxTokens

Never == MaxTime + 1

NoSession == [token |-> 0, expires |-> 0, revoked |-> "no"]

Session == [token : {0} \cup Token, expires : 0..(MaxTime + Lifetime), revoked : {"no", "yes"}]

Credential == [app : Apps, token : Token]

Action == [app : Apps, decided : Time]

(* "reported" is the status that a health report carries *)
NoRequest == [at |-> "none"]

Request ==
  {NoRequest}
    \cup [at : {"register", "touch", "revoke", "stop"}, cred : Credential]
    \cup [at : {"evaluate"}, cred : Credential, reported : {"healthy", "unhealthy"}]
    \cup [at : {"send"}, action : Action]

FreshHealth == [failures |-> 0, last |-> Never]

(* failures is counted up to the threshold, beyond which nothing changes *)
Health == [failures : 0..Threshold, last : Time \cup {Never}]

Acting == {NoRequest} \cup [at : {"restart"}, action : Action]

PlatformTypeOK ==
  /\ TypeOK
  /\ clock \in Time
  /\ session \in [Apps -> Session]
  /\ issued \in 0..MaxTokens
  /\ held \subseteq Credential
  /\ request \in [Handlers -> Request]
  /\ health \in [Apps -> Health]
  /\ actions \in Seq(Action) /\ Len(actions) <= ActionCapacity
  /\ acting \in Acting
  /\ dead \subseteq Token
  /\ gone \subseteq Apps

PlatformInit ==
  /\ Init
  /\ clock = 0
  /\ session = [a \in Apps |-> NoSession]
  /\ issued = 0
  /\ held = {}
  /\ request = [h \in Handlers |-> NoRequest]
  /\ health = [a \in Apps |-> FreshHealth]
  /\ actions = <<>>
  /\ acting = NoRequest
  /\ dead = {}
  /\ gone = {}

Goto(h, r) == request' = [request EXCEPT ![h] = r]

-----------------------------------------------------------------------------
(* register_app: the session is stored, then the manager is told.  A second *)
(* registration of the name within the millisecond takes the record over.   *)
Register(h, name) ==
  LET a    == AppId(name, clock)
      cred == [app |-> a, token |-> issued + 1]
  IN  /\ request[h] = NoRequest
      /\ issued < MaxTokens
      /\ issued' = issued + 1
      /\ session' = [session EXCEPT ![a] =
                       [token |-> cred.token, expires |-> clock + Lifetime, revoked |-> "no"]]
      /\ gone' = gone \ {a}
      /\ Goto(h, [at |-> "register", cred |-> cred])
      /\ UNCHANGED <<vars, clock, held, health, actions, acting, dead>>

(* lifecycle.register and lifecycle.stop *)
AskManager(h) ==
  LET op == [register |-> "Register", stop |-> "Stop"]
  IN  /\ request[h].at \in DOMAIN op
      /\ Send(h, [op |-> op[request[h].at], app |-> request[h].cred.app, from |-> h])
      /\ UNCHANGED pvars

Registered(h) ==
  /\ request[h].at = "register"
  /\ Return(h)
  /\ held' = held \cup {request[h].cred}
  /\ Goto(h, NoRequest)
  /\ UNCHANGED <<clock, session, issued, health, actions, acting, dead, gone>>

-----------------------------------------------------------------------------
Valid(cred) ==
  LET rec == session[cred.app]
  IN  rec.revoked = "no" /\ rec.token = cred.token /\ clock <= rec.expires

(* validate_session, then authorisation and the audit entry *)
Admit(h, next) ==
  /\ request[h] = NoRequest
  /\ next.cred \in held
  /\ Valid(next.cred)
  /\ Goto(h, next)
  /\ UNCHANGED <<vars, clock, session, issued, held, health, actions, acting, dead, gone>>

(* A request without a session that is valid now, or that its role forbids *)
Refuse(h) == request[h] = NoRequest /\ UNCHANGED platformvars

Receive(h) ==
  \E cred \in held :
    \/ \E step \in {"touch", "revoke"} : Admit(h, [at |-> step, cred |-> cred])
    \/ \E status \in {"healthy", "unhealthy"} :
         Admit(h, [at |-> "evaluate", cred |-> cred, reported |-> status])

(* Mutant: the heartbeat writes the record back as it was when it was read *)
TouchWritesRecord(h) ==
  /\ request[h].at = "touch"
  /\ session' = [session EXCEPT ![request[h].cred.app] =
                   [@ EXCEPT !.expires = clock + Lifetime, !.revoked = "no"]]
  /\ Goto(h, NoRequest)
  /\ UNCHANGED <<vars, clock, issued, held, health, actions, acting, dead, gone>>

(* touch_app_session: UPDATE ... WHERE revoked = 0 *)
Touch(h) ==
  /\ request[h].at = "touch"
  /\ session' = [session EXCEPT ![request[h].cred.app] =
                   IF @.revoked = "no" THEN [@ EXCEPT !.expires = clock + Lifetime] ELSE @]
  /\ Goto(h, NoRequest)
  /\ UNCHANGED <<vars, clock, issued, held, health, actions, acting, dead, gone>>

(* unregister_app: whatever session the app has by now is revoked *)
Revoke(h) ==
  LET cred == request[h].cred
  IN  /\ request[h].at = "revoke"
      /\ session' = [session EXCEPT ![cred.app].revoked = "yes"]
      /\ dead' = dead \cup {session[cred.app].token}
      /\ Goto(h, [at |-> "stop", cred |-> cred])
      /\ UNCHANGED <<vars, clock, issued, held, health, actions, acting, gone>>

(* Mutant: the client is answered while the stop is still on its way *)
UnregisteredEarly(h) ==
  /\ request[h].at = "stop"
  /\ Drop(h)
  /\ gone' = gone \cup {request[h].cred.app}
  /\ Goto(h, NoRequest)
  /\ UNCHANGED <<clock, session, issued, held, health, actions, acting, dead>>

(* An error of the stop is logged *)
Unregistered(h) ==
  /\ request[h].at = "stop"
  /\ Return(h)
  /\ gone' = gone \cup {request[h].cred.app}
  /\ Goto(h, NoRequest)
  /\ UNCHANGED <<clock, session, issued, held, health, actions, acting, dead>>

-----------------------------------------------------------------------------
(* HealthEvaluator::report *)

Streak(rec, status) ==
  IF status = "healthy" THEN 0
  ELSE IF rec.failures = Threshold THEN Threshold ELSE rec.failures + 1

TooSoon(rec) == rec.last # Never /\ clock - rec.last < MinInterval

(* Mutant: the restart is not noted under the lock *)
EvaluateForgets(h) ==
  LET a        == request[h].cred.app
      failures == Streak(health[a], request[h].reported)
      fires    == failures = Threshold /\ ~TooSoon(health[a])
  IN  /\ request[h].at = "evaluate"
      /\ health' = [health EXCEPT ![a].failures = failures]
      /\ Goto(h, IF fires
                   THEN [at |-> "send", action |-> [app |-> a, decided |-> clock]]
                   ELSE NoRequest)
      /\ UNCHANGED <<vars, clock, session, issued, held, actions, acting, dead, gone>>

(* One critical section; every app has the default policy, which restarts *)
Evaluate(h) ==
  LET a        == request[h].cred.app
      failures == Streak(health[a], request[h].reported)
      fires    == failures = Threshold /\ ~TooSoon(health[a])
  IN  /\ request[h].at = "evaluate"
      /\ health' = [health EXCEPT ![a].failures = failures,
                                  ![a].last = IF fires THEN clock ELSE @]
      /\ Goto(h, IF fires
                   THEN [at |-> "send", action |-> [app |-> a, decided |-> clock]]
                   ELSE NoRequest)
      /\ UNCHANGED <<vars, clock, session, issued, held, actions, acting, dead, gone>>

(* Mutant: the action channel is unbounded *)
SendActionUnbounded(h) ==
  /\ request[h].at = "send"
  /\ actions' = Append(actions, request[h].action)
  /\ Goto(h, NoRequest)
  /\ UNCHANGED <<vars, clock, session, issued, held, health, acting, dead, gone>>

SendAction(h) ==
  /\ request[h].at = "send"
  /\ Len(actions) < ActionCapacity
  /\ actions' = Append(actions, request[h].action)
  /\ Goto(h, NoRequest)
  /\ UNCHANGED <<vars, clock, session, issued, held, health, acting, dead, gone>>

(* The client goes away while the handler awaits *)
Disconnect(h) ==
  /\ request[h].at \in {"register", "stop", "send"}
  /\ Goto(h, NoRequest)
  /\ \/ Drop(h)
     \/ Return(h)
     \/ call[h] = Idle /\ UNCHANGED vars
  /\ UNCHANGED <<clock, session, issued, held, health, actions, acting, dead, gone>>

-----------------------------------------------------------------------------
(* The health loop of run: while let Some(action) = health_action_rx.recv() *)

TakeAction ==
  /\ acting = NoRequest
  /\ actions # <<>>
  /\ acting' = [at |-> "restart", action |-> Head(actions)]
  /\ actions' = Tail(actions)
  /\ UNCHANGED <<vars, clock, session, issued, held, request, health, dead, gone>>

AskRestart ==
  /\ acting.at = "restart"
  /\ Send(Loop, [op |-> "Restart", app |-> acting.action.app, from |-> Loop])
  /\ UNCHANGED pvars

(* An error is logged *)
ActionDone ==
  /\ acting.at = "restart"
  /\ Return(Loop)
  /\ acting' = NoRequest
  /\ UNCHANGED <<clock, session, issued, held, request, health, actions, dead, gone>>

-----------------------------------------------------------------------------
Tick ==
  /\ clock < MaxTime
  /\ clock' = clock + 1
  /\ UNCHANGED <<vars, session, issued, held, request, health, actions, acting, dead, gone>>

(* The agent is restarted, which takes its time.  Sessions are in the       *)
(* database, and clients keep their tokens; the evaluator starts afresh.    *)
PlatformRestart ==
  /\ clock < MaxTime
  /\ clock' = clock + 1
  /\ AgentRestart(FALSE)
  /\ request' = [h \in Handlers |-> NoRequest]
  /\ health' = [a \in Apps |-> FreshHealth]
  /\ actions' = <<>>
  /\ acting' = NoRequest
  /\ UNCHANGED <<session, issued, held, dead, gone>>

ManagerStep == Task /\ UNCHANGED pvars

Asking == AskRestart \/ \E h \in Handlers : AskManager(h)

Finishing(h) ==
  Registered(h) \/ Touch(h) \/ Revoke(h) \/ Unregistered(h) \/ Evaluate(h)

Arriving(h) == Refuse(h) \/ Receive(h) \/ \E name \in Names : Register(h, name)

PlatformNext ==
  \/ ManagerStep
  \/ TakeAction \/ AskRestart \/ ActionDone
  \/ \E h \in Handlers :
       Arriving(h) \/ AskManager(h) \/ Finishing(h) \/ SendAction(h) \/ Disconnect(h)
  \/ Tick
  \/ PlatformRestart

PlatformSpec == PlatformInit /\ [][PlatformNext]_platformvars

(* The runtime runs the manager, the loop and every handler that can run.   *)
(* Both channels serve the senders that wait for a slot in order, so one    *)
(* that finds a slot again and again does send.  Clients need not call.     *)
PlatformFairness ==
  /\ WF_platformvars(ManagerStep)
  /\ WF_platformvars(TakeAction \/ ActionDone)
  /\ SF_platformvars(AskRestart)
  /\ \A h \in Handlers :
       /\ WF_platformvars(Finishing(h))
       /\ SF_platformvars(AskManager(h))
       /\ SF_platformvars(SendAction(h))

FairPlatformSpec == PlatformSpec /\ PlatformFairness

-----------------------------------------------------------------------------
(* Properties *)

(* A token that was revoked is never accepted again, although a heartbeat   *)
(* that was admitted before may still extend its session afterwards, and    *)
(* the agent may restart in between (touch_app_session, revoke_app_session).*)
RevokedStayRevoked ==
  \A a \in Apps : session[a].token \in dead => session[a].revoked = "yes"

(* Once unregister_app has answered, the lifecycle manager has the app down *)
(* or does not know it, and it stays so: no health restart that was decided *)
(* before, or that a report admitted before will still cause, revives it.   *)
UnregisteredStayDown ==
  \A a \in gone : apps[a].state \in {"Stopped", "Unknown"}

(* The restarts of one app that wait to be sent, wait in the channel or are *)
(* being performed were decided at least min_restart_interval apart,        *)
(* however many handlers report at the same time and whichever are dropped. *)
InFlight(a) ==
  LET queued  == {<<"queue", i, actions[i]>> : i \in 1..Len(actions)}
      sending == {<<"send", h, request[h].action>> :
                    h \in {g \in Handlers : request[g].at = "send"}}
      current == IF acting = NoRequest THEN {} ELSE {<<"loop", Loop, acting.action>>}
  IN  {x \in queued \cup sending \cup current : x[3].app = a}

ActionsAreSpaced ==
  \A a \in Apps : \A x, y \in InFlight(a) :
    x = y \/ x[3].decided >= y[3].decided + MinInterval
          \/ y[3].decided >= x[3].decided + MinInterval

(* Every request is answered as long as the agent runs: the evaluator waits *)
(* for the channel, the channel for the loop, the loop for the manager, and *)
(* handlers and loop compete for the manager's mailbox.                     *)
EveryRequestCompletes ==
  \A h \in Handlers : request[h] # NoRequest ~> request[h] = NoRequest

(* A health action restarts its app, so the app it names is one that the    *)
(* manager can start again.                                                 *)
HealthRestartsCanRun ==
  acting # NoRequest => apps[acting.action.app].manifest # "none"
=============================================================================
