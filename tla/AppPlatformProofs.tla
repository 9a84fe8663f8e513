-------------------------- MODULE AppPlatformProofs --------------------------
(* Theorems about AppPlatform, for any handlers, names and bounds *)
EXTENDS AppPlatform, AppLifecycleProofs

(* The parts of the type invariant that sessions depend on *)
SessionsTyped ==
  /\ issued \in 0..MaxTokens
  /\ clock \in Time
  /\ session \in [Apps -> Session]
  /\ held \subseteq Credential
  /\ request \in [Handlers -> Request]
  /\ dead \subseteq Token

(* Tokens are given out once: to one app, and none beyond issued *)
TokensAreFresh ==
  /\ \A a \in Apps : session[a].token <= issued
  /\ \A t \in dead : t <= issued
  /\ \A a, b \in Apps :
       session[a].token = session[b].token /\ session[a].token # 0 => a = b

(* Whoever holds a credential, or works for one, has an app with a session *)
Works(r) == r.at \in {"register", "touch", "revoke", "stop", "evaluate"}

HoldersHaveSessions ==
  /\ \A cred \in held : session[cred.app].token # 0
  /\ \A h \in Handlers : Works(request[h]) => session[request[h].cred.app].token # 0

SessionInv ==
  SessionsTyped /\ TokensAreFresh /\ HoldersHaveSessions /\ RevokedStayRevoked

sessionvars == <<issued, session, held, request, dead, clock>>

-----------------------------------------------------------------------------
LEMMA ConstantsTyped ==
  /\ MaxTokens \in Nat /\ MaxTokens # 0 /\ Lifetime \in Nat /\ MaxTime \in Nat
  /\ \A name \in Names, t \in Time : AppId(name, t) \in Apps
BY PlatformAssumption

(* A request that works for a client has its credential *)
LEMMA RequestFields ==
  ASSUME NEW r \in Request
  PROVE  /\ Works(r) => r.cred \in Credential
         /\ r = NoRequest => ~Works(r)
         /\ r.at = "send" => ~Works(r)
<1>1. CASE r = NoRequest
      BY <1>1 DEF NoRequest, Works
<1>2. CASE r \in [at : {"register", "touch", "revoke", "stop"}, cred : Credential]
      BY <1>2 DEF NoRequest, Works
<1>3. CASE r \in [at : {"evaluate"}, cred : Credential, reported : {"healthy", "unhealthy"}]
      BY <1>3 DEF NoRequest, Works
<1>4. CASE r \in [at : {"send"}, action : Action]
      BY <1>4 DEF NoRequest, Works
<1> QED BY <1>1, <1>2, <1>3, <1>4 DEF Request

LEMMA SessionFields ==
  ASSUME SessionInv, NEW a \in Apps
  PROVE  /\ session[a] \in Session
         /\ session[a].token \in {0} \cup Token
         /\ session[a].revoked \in {"no", "yes"}
BY DEF SessionInv, SessionsTyped, Session

(* A handler that turns to r, when nothing about the sessions changes *)
LEMMA TurningKeeps ==
  ASSUME SessionInv, NEW h \in Handlers, NEW r \in Request, Goto(h, r),
         UNCHANGED <<session, issued, held, dead, clock>>,
         Works(r) => session[r.cred.app].token # 0
  PROVE  SessionInv'
<1>1. /\ request' \in [Handlers -> Request] /\ request'[h] = r
      /\ \A g \in Handlers : g # h => request'[g] = request[g]
      BY DEF Goto, SessionInv, SessionsTyped
<1>2. HoldersHaveSessions'
      BY <1>1 DEF SessionInv, HoldersHaveSessions, Works
<1> QED BY <1>1, <1>2 DEF SessionInv, SessionsTyped, TokensAreFresh, RevokedStayRevoked

LEMMA RegisterKeeps ==
  ASSUME SessionInv, NEW h \in Handlers, NEW name \in Names, Register(h, name)
  PROVE  SessionInv'
<1> DEFINE a    == AppId(name, clock)
           t    == issued + 1
           rec  == [token |-> t, expires |-> clock + Lifetime, revoked |-> "no"]
           cred == [app |-> a, token |-> t]
           r    == [at |-> "register", cred |-> cred]
<1>1. /\ a \in Apps /\ t \in Token /\ t # 0 /\ rec \in Session /\ cred \in Credential
      /\ issued \in 0..MaxTokens /\ issued < MaxTokens
  <2>1. clock \in Time /\ issued \in 0..MaxTokens /\ issued < MaxTokens
        BY DEF SessionInv, SessionsTyped, Register
  <2>2. a \in Apps
        BY <2>1, ConstantsTyped
  <2>3. t \in Token /\ t # 0
        BY <2>1, ConstantsTyped DEF Token
  <2>4. clock + Lifetime \in 0..(MaxTime + Lifetime)
        BY <2>1, ConstantsTyped DEF Time
  <2> QED BY <2>1, <2>2, <2>3, <2>4 DEF Session, Credential
<1>2. r \in Request /\ r.cred.app = a
      BY <1>1 DEF Request
<1>3. /\ issued' = t /\ session' = [session EXCEPT ![a] = rec]
      /\ request' = [request EXCEPT ![h] = r]
      /\ UNCHANGED <<clock, held, dead>>
      BY DEF Register, Goto
<1>4. /\ session \in [Apps -> Session] /\ request \in [Handlers -> Request]
      /\ held \subseteq Credential /\ dead \subseteq Token
      BY DEF SessionInv, SessionsTyped
<1>5. /\ session'[a].token = t /\ session'[a].revoked = "no"
      /\ \A b \in Apps : b # a => session'[b] = session[b]
      /\ session' \in [Apps -> Session]
      BY <1>1, <1>3, <1>4
<1>6. \A b \in Apps : session[b].token \in 0..MaxTokens /\ session[b].token <= issued
      BY SessionFields, ConstantsTyped DEF SessionInv, TokensAreFresh, Token
<1>7. \A x \in dead : x \in Nat /\ x <= issued
      BY <1>4 DEF SessionInv, TokensAreFresh, Token
<1> HIDE DEF rec, r, t, a
<1>8. t = issued + 1
      BY DEF t
<1>9. SessionsTyped'
  <2>1. issued' \in 0..MaxTokens
        BY <1>1, <1>3, <1>8, ConstantsTyped
  <2>2. request' \in [Handlers -> Request]
        BY <1>2, <1>3, <1>4
  <2>3. clock' \in Time
        BY <1>3 DEF SessionInv, SessionsTyped
  <2> QED BY <2>1, <2>2, <2>3, <1>3, <1>4, <1>5 DEF SessionsTyped
<1>10. TokensAreFresh'
  <2>1. \A b \in Apps : session'[b].token <= t
        BY <1>1, <1>5, <1>6, <1>8
  <2>2. \A x \in dead : x <= t
        BY <1>1, <1>7, <1>8
  <2>3. ASSUME NEW b \in Apps, NEW c \in Apps,
               session'[b].token = session'[c].token, session'[b].token # 0
        PROVE  b = c
    <3>1. \A d \in Apps : session[d].token # t
          BY <1>1, <1>6, <1>8
    <3>2. CASE b # a /\ c # a
          BY <2>3, <3>2, <1>5 DEF SessionInv, TokensAreFresh
    <3>3. CASE b = a \/ c = a
          BY <2>3, <3>1, <3>3, <1>5
    <3> QED BY <3>2, <3>3
  <2> QED BY <1>3, <2>1, <2>2, <2>3 DEF TokensAreFresh
<1>11. HoldersHaveSessions'
  <2>1. \A b \in Apps : session[b].token # 0 => session'[b].token # 0
        BY <1>1, <1>5
  <2>2. \A x \in held : x.app \in Apps
        BY <1>4 DEF Credential
  <2>3. \A x \in held : session'[x.app].token # 0
        BY <2>1, <2>2 DEF SessionInv, HoldersHaveSessions
  <2>4. ASSUME NEW g \in Handlers, Works(request'[g])
        PROVE  session'[request'[g].cred.app].token # 0
    <3>1. CASE g = h
          BY <3>1, <1>1, <1>2, <1>3, <1>4, <1>5
    <3>2. CASE g # h
      <4>1. request'[g] = request[g] /\ request[g] \in Request
            BY <3>2, <1>3, <1>4
      <4>2. request[g].cred \in Credential
            BY <4>1, <2>4, RequestFields
      <4>3. request[g].cred.app \in Apps
            BY <4>2 DEF Credential
      <4>4. session[request[g].cred.app].token # 0
            BY <2>4, <4>1 DEF SessionInv, HoldersHaveSessions
      <4> QED BY <4>1, <4>3, <4>4, <2>1
    <3> QED BY <3>1, <3>2
  <2> QED BY <1>3, <2>3, <2>4 DEF HoldersHaveSessions
<1>12. RevokedStayRevoked'
  <2>1. t \notin dead
        BY <1>1, <1>7, <1>8
  <2> QED BY <2>1, <1>3, <1>5 DEF SessionInv, RevokedStayRevoked
<1> QED BY <1>9, <1>10, <1>11, <1>12 DEF SessionInv

(* A session whose token stays and which is not unrevoked *)
LEMMA UpdateKeeps ==
  ASSUME SessionInv, NEW h \in Handlers, NEW a \in Apps, NEW rec \in Session,
         NEW r \in Request, Goto(h, r),
         session' = [session EXCEPT ![a] = rec],
         rec.token = session[a].token,
         session[a].revoked = "yes" => rec.revoked = "yes",
         UNCHANGED <<issued, held, clock>>,
         \/ dead' = dead
         \/ /\ dead' = dead \cup {session[a].token}
            /\ session[a].token # 0 /\ rec.revoked = "yes",
         Works(r) => session[r.cred.app].token # 0 /\ r.cred.app \in Apps
  PROVE  SessionInv'
<1>1. /\ session \in [Apps -> Session] /\ request \in [Handlers -> Request]
      /\ held \subseteq Credential /\ dead \subseteq Token
      /\ issued \in 0..MaxTokens /\ clock \in Time
      BY DEF SessionInv, SessionsTyped
<1>2. /\ session' \in [Apps -> Session] /\ session'[a] = rec
      /\ \A b \in Apps : b # a => session'[b] = session[b]
      BY <1>1
<1>3. \A b \in Apps : session'[b].token = session[b].token
      BY <1>2
<1>4. /\ request' \in [Handlers -> Request] /\ request'[h] = r
      /\ \A g \in Handlers : g # h => request'[g] = request[g]
      BY <1>1 DEF Goto
<1>5. \A x \in dead' : x \in dead \/ x = session[a].token
      OBVIOUS
<1>6. SessionsTyped'
      BY <1>1, <1>2, <1>4, <1>5, SessionFields DEF SessionsTyped
<1>7. TokensAreFresh'
      BY <1>3, <1>5 DEF SessionInv, TokensAreFresh
<1>8. HoldersHaveSessions'
  <2>1. \A x \in held : x.app \in Apps
        BY <1>1 DEF Credential
  <2>2. \A x \in held : session'[x.app].token # 0
        BY <2>1, <1>3 DEF SessionInv, HoldersHaveSessions
  <2>3. ASSUME NEW g \in Handlers, Works(request'[g])
        PROVE  session'[request'[g].cred.app].token # 0
    <3>1. CASE g = h
          BY <2>3, <3>1, <1>3, <1>4
    <3>2. CASE g # h
      <4>1. request'[g] = request[g] /\ request[g] \in Request
            BY <3>2, <1>1, <1>4
      <4>2. request[g].cred \in Credential
            BY <4>1, <2>3, RequestFields
      <4>3. request[g].cred.app \in Apps
            BY <4>2 DEF Credential
      <4>4. session[request[g].cred.app].token # 0
            BY <2>3, <4>1 DEF SessionInv, HoldersHaveSessions
      <4> QED BY <4>1, <4>3, <4>4, <1>3
    <3> QED BY <3>1, <3>2
  <2> QED BY <2>2, <2>3 DEF HoldersHaveSessions
<1>9. RevokedStayRevoked'
  <2>1. ASSUME NEW b \in Apps, session'[b].token \in dead'
        PROVE  session'[b].revoked = "yes"
    <3>1. CASE session[b].token \in dead
          BY <3>1, <1>2 DEF SessionInv, RevokedStayRevoked
    <3>2. CASE session[b].token \notin dead
      <4>1. session[b].token = session[a].token /\ session[a].token # 0 /\ rec.revoked = "yes"
            BY <2>1, <3>2, <1>3
      <4>2. b = a
            BY <4>1 DEF SessionInv, TokensAreFresh
      <4> QED BY <4>1, <4>2, <1>2
    <3> QED BY <3>1, <3>2
  <2> QED BY <2>1 DEF RevokedStayRevoked
<1> QED BY <1>6, <1>7, <1>8, <1>9 DEF SessionInv

-----------------------------------------------------------------------------
LEMMA InitEstablishes == PlatformInit => SessionInv
<1> SUFFICES ASSUME PlatformInit PROVE SessionInv
    OBVIOUS
<1>1. /\ issued = 0 /\ clock = 0 /\ held = {} /\ dead = {}
      /\ session = [a \in Apps |-> NoSession]
      /\ request = [h \in Handlers |-> NoRequest]
      BY DEF PlatformInit
<1>2. NoSession \in Session /\ NoSession.token = 0
  <2>1. 0 \in 0..(MaxTime + Lifetime)
        BY ConstantsTyped
  <2> QED BY <2>1 DEF NoSession, Session
<1>3. NoRequest \in Request /\ ~Works(NoRequest)
      BY DEF NoRequest, Request, Works
<1>4. SessionsTyped
      BY <1>1, <1>2, <1>3, ConstantsTyped DEF SessionsTyped, Time
<1>5. TokensAreFresh /\ HoldersHaveSessions /\ RevokedStayRevoked
      BY <1>1, <1>2, <1>3 DEF TokensAreFresh, HoldersHaveSessions, RevokedStayRevoked
<1> QED BY <1>4, <1>5 DEF SessionInv

(* The steps of a handler that serves a request *)
LEMMA FinishingKeeps ==
  ASSUME SessionInv, NEW h \in Handlers, Finishing(h)
  PROVE  SessionInv'
<1> DEFINE a == request[h].cred.app
<1>0. NoRequest \in Request /\ ~Works(NoRequest)
      BY DEF NoRequest, Request, Works
<1>1. /\ request[h] \in Request /\ Works(request[h])
      /\ session \in [Apps -> Session] /\ clock \in Time
  <2>1. Works(request[h])
        BY DEF Finishing, Registered, Touch, Revoke, Unregistered, Evaluate, Works
  <2> QED BY <2>1 DEF SessionInv, SessionsTyped
<1>2. request[h].cred \in Credential /\ a \in Apps
      BY <1>1, RequestFields DEF Credential
<1>3. session[a].token # 0
      BY <1>1 DEF SessionInv, HoldersHaveSessions
<1>4. /\ session[a] \in Session /\ session[a].token \in {0} \cup Token
      BY <1>2, SessionFields
<1>5. clock + Lifetime \in 0..(MaxTime + Lifetime)
      BY <1>1, ConstantsTyped DEF Time
<1>6. CASE Registered(h)
  <2>1. /\ held' = held \cup {request[h].cred} /\ Goto(h, NoRequest)
        /\ UNCHANGED <<session, issued, dead, clock>>
        BY <1>6 DEF Registered
  <2>2. /\ request' \in [Handlers -> Request] /\ request'[h] = NoRequest
        /\ \A g \in Handlers : g # h => request'[g] = request[g]
        BY <2>1, <1>0 DEF Goto, SessionInv, SessionsTyped
  <2>3. held' \subseteq Credential /\ \A cred \in held' : session[cred.app].token # 0
        BY <2>1, <1>2, <1>3 DEF SessionInv, SessionsTyped, HoldersHaveSessions
  <2>4. HoldersHaveSessions'
        BY <2>1, <2>2, <2>3, <1>0 DEF SessionInv, HoldersHaveSessions, Works
  <2> QED BY <2>1, <2>2, <2>3, <2>4
          DEF SessionInv, SessionsTyped, TokensAreFresh, RevokedStayRevoked
<1>7. CASE Touch(h)
  <2> DEFINE rec == IF session[a].revoked = "no"
                      THEN [session[a] EXCEPT !.expires = clock + Lifetime]
                      ELSE session[a]
  <2>1. /\ rec \in Session /\ rec.token = session[a].token
        /\ rec.revoked = session[a].revoked
        BY <1>4, <1>5 DEF Session
  <2>2. /\ session' = [session EXCEPT ![a] = rec] /\ Goto(h, NoRequest)
        /\ UNCHANGED <<issued, held, dead, clock>>
        BY <1>7, <1>1, <1>2 DEF Touch
  <2> HIDE DEF rec
  <2> QED BY <2>1, <2>2, <1>0, <1>2, UpdateKeeps
<1>8. CASE Revoke(h)
  <2> DEFINE rec == [session[a] EXCEPT !.revoked = "yes"]
             r   == [at |-> "stop", cred |-> request[h].cred]
  <2>1. rec \in Session /\ rec.token = session[a].token /\ rec.revoked = "yes"
        BY <1>4 DEF Session
  <2>2. r \in Request /\ r.cred.app = a
        BY <1>2 DEF Request
  <2>3. /\ session' = [session EXCEPT ![a] = rec] /\ Goto(h, r)
        /\ dead' = dead \cup {session[a].token}
        /\ UNCHANGED <<issued, held, clock>>
        BY <1>8, <1>1, <1>2 DEF Revoke
  <2> HIDE DEF rec, r
  <2> QED BY <2>1, <2>2, <2>3, <1>2, <1>3, UpdateKeeps
<1>9. CASE Unregistered(h)
      BY <1>9, <1>0, TurningKeeps DEF Unregistered
<1>10. CASE Evaluate(h)
  <2>1. /\ UNCHANGED <<session, issued, held, dead, clock>>
        /\ \/ Goto(h, NoRequest)
           \/ Goto(h, [at |-> "send", action |-> [app |-> a, decided |-> clock]])
        BY <1>10 DEF Evaluate
  <2> DEFINE r == [at |-> "send", action |-> [app |-> a, decided |-> clock]]
  <2>2. r \in Request /\ ~Works(r)
        BY <1>1, <1>2 DEF Request, Action, Works
  <2>3. Goto(h, NoRequest) \/ Goto(h, r)
        BY <2>1
  <2> HIDE DEF r
  <2> QED BY <2>1, <2>2, <2>3, <1>0, TurningKeeps
<1> QED BY <1>6, <1>7, <1>8, <1>9, <1>10 DEF Finishing

LEMMA AdmitKeeps ==
  ASSUME SessionInv, NEW h \in Handlers, Receive(h)
  PROVE  SessionInv'
<1>1. PICK cred \in held :
        \/ \E step \in {"touch", "revoke"} : Admit(h, [at |-> step, cred |-> cred])
        \/ \E status \in {"healthy", "unhealthy"} :
             Admit(h, [at |-> "evaluate", cred |-> cred, reported |-> status])
      BY DEF Receive
<1>2. cred \in Credential /\ session[cred.app].token # 0
      BY DEF SessionInv, SessionsTyped, HoldersHaveSessions
<1>3. ASSUME NEW r \in Request, r.cred = cred, Admit(h, r)
      PROVE  SessionInv'
      BY <1>2, <1>3, TurningKeeps DEF Admit
<1>4. ASSUME NEW step \in {"touch", "revoke"}, Admit(h, [at |-> step, cred |-> cred])
      PROVE  SessionInv'
  <2> DEFINE r == [at |-> step, cred |-> cred]
  <2>1. r \in Request /\ r.cred = cred
        BY <1>2 DEF Request
  <2> QED BY <2>1, <1>3, <1>4
<1>5. ASSUME NEW status \in {"healthy", "unhealthy"},
             Admit(h, [at |-> "evaluate", cred |-> cred, reported |-> status])
      PROVE  SessionInv'
  <2> DEFINE r == [at |-> "evaluate", cred |-> cred, reported |-> status]
  <2>1. r \in Request /\ r.cred = cred
        BY <1>2 DEF Request
  <2> QED BY <2>1, <1>3, <1>5
<1> QED BY <1>1, <1>4, <1>5

LEMMA UntouchedKeeps ==
  ASSUME SessionInv, UNCHANGED sessionvars
  PROVE  SessionInv'
BY DEF SessionInv, SessionsTyped, TokensAreFresh, HoldersHaveSessions, Works,
       RevokedStayRevoked, sessionvars

(* The clock moves, and a restart of the agent drops the requests *)
LEMMA ClockKeeps ==
  ASSUME SessionInv, Tick \/ PlatformRestart
  PROVE  SessionInv'
<1>0. clock' = clock + 1 /\ clock < MaxTime /\ clock \in Time
      BY DEF Tick, PlatformRestart, SessionInv, SessionsTyped
<1>1. /\ clock' \in Time /\ UNCHANGED <<issued, session, held, dead>>
  <2>1. clock' \in Time
        BY <1>0, ConstantsTyped DEF Time
  <2>2. UNCHANGED <<issued, session, held, dead>>
        BY DEF Tick, PlatformRestart
  <2> QED BY <2>1, <2>2
<1>2. NoRequest \in Request /\ ~Works(NoRequest)
      BY DEF NoRequest, Request, Works
<1>3. request' = request \/ request' = [h \in Handlers |-> NoRequest]
      BY DEF Tick, PlatformRestart
<1>4. request' \in [Handlers -> Request] /\ HoldersHaveSessions'
      BY <1>1, <1>2, <1>3 DEF SessionInv, SessionsTyped, HoldersHaveSessions, Works
<1> QED BY <1>1, <1>4 DEF SessionInv, SessionsTyped, TokensAreFresh, RevokedStayRevoked

LEMMA StepKeeps ==
  ASSUME SessionInv, [PlatformNext]_platformvars
  PROVE  SessionInv'
<1>1. CASE UNCHANGED platformvars
      BY <1>1, UntouchedKeeps DEF platformvars, pvars, sessionvars
<1>2. CASE ManagerStep
      BY <1>2, UntouchedKeeps DEF ManagerStep, pvars, sessionvars
<1>3. CASE TakeAction \/ AskRestart \/ ActionDone
      BY <1>3, UntouchedKeeps DEF TakeAction, AskRestart, ActionDone, pvars, sessionvars
<1>4. CASE Tick \/ PlatformRestart
      BY <1>4, ClockKeeps
<1>5. ASSUME NEW h \in Handlers,
             \/ Arriving(h) \/ AskManager(h) \/ Finishing(h)
             \/ SendAction(h) \/ Disconnect(h)
      PROVE  SessionInv'
  <2>1. NoRequest \in Request /\ ~Works(NoRequest)
        BY DEF NoRequest, Request, Works
  <2>2. CASE Refuse(h)
        BY <2>2, UntouchedKeeps DEF Refuse, platformvars, pvars, sessionvars
  <2>3. CASE Receive(h)
        BY <2>3, AdmitKeeps
  <2>4. CASE \E name \in Names : Register(h, name)
        BY <2>4, RegisterKeeps
  <2>5. CASE AskManager(h)
        BY <2>5, UntouchedKeeps DEF AskManager, pvars, sessionvars
  <2>6. CASE Finishing(h)
        BY <2>6, FinishingKeeps
  <2>7. CASE SendAction(h)
        BY <2>7, <2>1, TurningKeeps DEF SendAction
  <2>8. CASE Disconnect(h)
        BY <2>8, <2>1, TurningKeeps DEF Disconnect
  <2> QED BY <1>5, <2>2, <2>3, <2>4, <2>5, <2>6, <2>7, <2>8 DEF Arriving
<1> QED BY <1>1, <1>2, <1>3, <1>4, <1>5 DEF PlatformNext

(* The inductive invariant of the sessions: their types, that a token is    *)
(* given out once, and that only apps with a session have clients.  It says *)
(* of register_app, heartbeat and unregister_app together that revocation   *)
(* cannot be undone.                                                        *)
THEOREM SessionInvariance == PlatformSpec => []SessionInv
<1>1. PlatformInit => SessionInv
      BY InitEstablishes
<1>2. SessionInv /\ [PlatformNext]_platformvars => SessionInv'
      BY StepKeeps
<1> QED BY <1>1, <1>2, PTL DEF PlatformSpec

(* A token that unregister_app revoked is never accepted again, for any     *)
(* number of handlers, apps, registrations and restarts of the agent, and   *)
(* although two registrations may share an app id.                          *)
THEOREM RevocationIsFinal == PlatformSpec => []RevokedStayRevoked
<1>1. SessionInv => RevokedStayRevoked
      BY DEF SessionInv
<1> QED BY <1>1, SessionInvariance, PTL

-----------------------------------------------------------------------------
(* Types, and that the platform implements the lifecycle manager            *)

EvaluatorTyped ==
  /\ health \in [Apps -> Health]
  /\ actions \in Seq(Action) /\ Len(actions) <= ActionCapacity
  /\ acting \in Acting
  /\ gone \subseteq Apps

LEMMA CallersAre ==
  /\ Loop \in Callers /\ Handlers \subseteq Callers /\ Loop \notin Handlers
  /\ Nobody \notin Callers
  /\ \A c \in Callers : c # Loop => c \in Handlers
  BY PlatformAssumption, ConstantsAssumption

LEMMA HandlerFields ==
  ASSUME SessionsTyped, NEW h \in Handlers
  PROVE  /\ request[h] \in Request
         /\ Works(request[h]) => request[h].cred \in Credential /\ request[h].cred.app \in Apps
         /\ request[h].at = "send" => request[h].action \in Action
                                      /\ request[h].action.app \in Apps
<1>1. request[h] \in Request
      BY DEF SessionsTyped
<1>2. Works(request[h]) => request[h].cred \in Credential
      BY <1>1, RequestFields
<1>3. request[h].at = "send" => request[h].action \in Action
      BY <1>1 DEF Request, NoRequest
<1> QED BY <1>1, <1>2, <1>3 DEF Credential, Action

LEMMA ActingFields ==
  ASSUME acting \in Acting
  PROVE  /\ acting # NoRequest => acting.at = "restart" /\ acting.action \in Action
                                  /\ acting.action.app \in Apps
         /\ acting.at = "restart" => acting # NoRequest
  BY DEF Acting, NoRequest, Action

(* What the handlers and the loop send *)
LEMMA AskManagerSends ==
  ASSUME SessionsTyped, NEW h \in Handlers, AskManager(h)
  PROVE  \E cmd \in Command :
           /\ Send(h, cmd) /\ UNCHANGED pvars /\ cmd.app = request[h].cred.app
           /\ \/ request[h].at = "register" /\ cmd.op = "Register"
              \/ request[h].at = "stop" /\ cmd.op = "Stop"
<1>1. request[h].at \in {"register", "stop"}
      BY DEF AskManager
<1>2. request[h].cred.app \in Apps /\ h \in Callers
      BY <1>1, HandlerFields, CallersAre DEF Works
<1> DEFINE cmd(op) == [op |-> op, app |-> request[h].cred.app, from |-> h]
<1>3. /\ cmd("Register") \in Command /\ cmd("Stop") \in Command
      BY <1>2 DEF Command, AppOps
<1>4. CASE request[h].at = "register"
      BY <1>3, <1>4 DEF AskManager
<1>5. CASE request[h].at = "stop"
      BY <1>3, <1>5 DEF AskManager
<1> QED BY <1>1, <1>4, <1>5

LEMMA AskRestartSends ==
  ASSUME acting \in Acting, AskRestart
  PROVE  \E cmd \in Command :
           /\ Send(Loop, cmd) /\ UNCHANGED pvars /\ cmd.op = "Restart" /\ cmd.from = Loop
<1>1. acting.action.app \in Apps
      BY ActingFields DEF AskRestart
<1>2. [op |-> "Restart", app |-> acting.action.app, from |-> Loop] \in Command
      BY <1>1, CallersAre DEF Command, AppOps
<1> QED BY <1>2 DEF AskRestart

LEMMA PlatformSimulates ==
  ASSUME SessionsTyped, EvaluatorTyped, [PlatformNext]_platformvars
  PROVE  [Next]_vars
<1>1. CASE UNCHANGED platformvars
      BY <1>1 DEF platformvars
<1>2. CASE ManagerStep
      BY <1>2 DEF ManagerStep, Next
<1>3. CASE TakeAction \/ Tick
      BY <1>3 DEF TakeAction, Tick
<1>4. CASE AskRestart
      BY <1>4, AskRestartSends, CallersAre DEF Next, Client, EvaluatorTyped
<1>5. CASE ActionDone
      BY <1>5, CallersAre DEF ActionDone, Next, Client
<1>6. CASE PlatformRestart
      BY <1>6 DEF PlatformRestart, Next, System
<1>7. ASSUME NEW h \in Handlers,
             \/ Arriving(h) \/ AskManager(h) \/ Finishing(h)
             \/ SendAction(h) \/ Disconnect(h)
      PROVE  [Next]_vars
  <2>1. h \in Callers
        BY CallersAre
  <2>2. CASE Arriving(h)
        BY <2>2 DEF Arriving, Refuse, Receive, Admit, Register, platformvars
  <2>3. CASE AskManager(h)
        BY <2>1, <2>3, AskManagerSends DEF Next, Client
  <2>4. CASE Registered(h) \/ Unregistered(h)
        BY <2>1, <2>4 DEF Registered, Unregistered, Next, Client
  <2>5. CASE Touch(h) \/ Revoke(h) \/ Evaluate(h) \/ SendAction(h)
        BY <2>5 DEF Touch, Revoke, Evaluate, SendAction
  <2>6. CASE Disconnect(h)
        BY <2>1, <2>6 DEF Disconnect, Next, Client
  <2> QED BY <1>7, <2>2, <2>3, <2>4, <2>5, <2>6 DEF Finishing
<1> QED BY <1>1, <1>2, <1>3, <1>4, <1>5, <1>6, <1>7 DEF PlatformNext

LEMMA EvaluatorUntouched ==
  ASSUME EvaluatorTyped, UNCHANGED <<health, actions, acting, gone>>
  PROVE  EvaluatorTyped'
  BY DEF EvaluatorTyped

(* An entry of the evaluator, both of whose fields are written *)
Noted(f, a, p, q) == [f EXCEPT ![a].failures = p, ![a].last = q]

LEMMA HealthIs ==
  ASSUME NEW f \in [Apps -> Health], NEW a \in Apps, NEW p, NEW q
  PROVE  Noted(f, a, p, q) = [f EXCEPT ![a] = [failures |-> p, last |-> q]]
<1>0. f[a] = [failures |-> f[a].failures, last |-> f[a].last]
      BY DEF Health
<1>1. [f[a] EXCEPT !.failures = p] = [failures |-> p, last |-> f[a].last]
      BY <1>0
<1>2. [[failures |-> p, last |-> f[a].last] EXCEPT !.last = q] = [failures |-> p, last |-> q]
      OBVIOUS
<1>3. [f EXCEPT ![a].failures = p] = [f EXCEPT ![a] = [failures |-> p, last |-> f[a].last]]
      BY <1>1
<1> DEFINE g == [f EXCEPT ![a] = [failures |-> p, last |-> f[a].last]]
<1>4. g[a] = [failures |-> p, last |-> f[a].last] /\ DOMAIN g = Apps
      /\ \A x \in Apps : x # a => g[x] = f[x]
      OBVIOUS
<1>5. [g EXCEPT ![a].last = q] = [g EXCEPT ![a] = [failures |-> p, last |-> q]]
      BY <1>2, <1>4
<1>6. [g EXCEPT ![a] = [failures |-> p, last |-> q]]
        = [f EXCEPT ![a] = [failures |-> p, last |-> q]]
      BY <1>4
<1> QED BY <1>3, <1>5, <1>6 DEF Noted

(* What an evaluation decides *)
LEMMA EvaluateIs ==
  ASSUME SessionsTyped, EvaluatorTyped, NEW h \in Handlers, Evaluate(h)
  PROVE  \E a \in Apps, failures \in 0..Threshold :
           LET fires == failures = Threshold /\ ~TooSoon(health[a])
               rec   == [failures |-> failures, last |-> IF fires THEN clock ELSE health[a].last]
           IN  /\ rec \in Health /\ health' = [health EXCEPT ![a] = rec]
               /\ request[h].at = "evaluate" /\ request[h].cred.app = a
               /\ Goto(h, IF fires
                            THEN [at |-> "send", action |-> [app |-> a, decided |-> clock]]
                            ELSE NoRequest)
               /\ UNCHANGED <<vars, clock, session, issued, held, actions, acting, dead, gone>>
<1> DEFINE a        == request[h].cred.app
           failures == Streak(health[a], request[h].reported)
           fires    == failures = Threshold /\ ~TooSoon(health[a])
           rec      == [failures |-> failures, last |-> IF fires THEN clock ELSE health[a].last]
<1>1. request[h].at = "evaluate"
      BY DEF Evaluate
<1>2. a \in Apps
      BY <1>1, HandlerFields DEF Works
<1>3. health \in [Apps -> Health] /\ health[a] \in Health /\ clock \in Time
      BY <1>2 DEF EvaluatorTyped, SessionsTyped
<1>4. Threshold \in Nat /\ health[a].failures \in 0..Threshold
      BY <1>3, PlatformAssumption DEF Health
<1>5. failures \in 0..Threshold
      BY <1>4 DEF Streak
<1>6. health' = [health EXCEPT ![a].failures = failures, ![a].last = IF fires THEN clock ELSE @]
      BY DEF Evaluate
<1>7. /\ Goto(h, IF fires
                   THEN [at |-> "send", action |-> [app |-> a, decided |-> clock]]
                   ELSE NoRequest)
      /\ UNCHANGED <<vars, clock, session, issued, held, actions, acting, dead, gone>>
      BY DEF Evaluate
<1> HIDE DEF failures
<1>8. rec \in Health
      BY <1>3, <1>5 DEF Health
<1>9. health' = [health EXCEPT ![a] = rec]
  <2>1. health' = [health EXCEPT ![a].failures = failures,
                                 ![a].last = IF fires THEN clock ELSE health[a].last]
        BY <1>2, <1>3, <1>6
  <2>2. PICK last : last = IF fires THEN clock ELSE health[a].last
        OBVIOUS
  <2> HIDE DEF fires, a
  <2>3. Noted(health, a, failures, last)
           = [health EXCEPT ![a] = [failures |-> failures, last |-> last]]
        BY <1>2, <1>3, HealthIs
  <2>4. health' = Noted(health, a, failures, last)
        BY <2>1, <2>2 DEF Noted
  <2> QED BY <2>2, <2>3, <2>4
<1> QED BY <1>1, <1>2, <1>5, <1>7, <1>8, <1>9

LEMMA EvaluatorKept ==
  ASSUME SessionsTyped, EvaluatorTyped, [PlatformNext]_platformvars
  PROVE  EvaluatorTyped'
<1>1. CASE UNCHANGED <<health, actions, acting, gone>>
      BY <1>1, EvaluatorUntouched
<1>2. CASE TakeAction
  <2>1. /\ actions \in Seq(Action) /\ actions # <<>> /\ Len(actions) <= ActionCapacity
        /\ acting' = [at |-> "restart", action |-> Head(actions)] /\ actions' = Tail(actions)
        /\ UNCHANGED <<health, gone>>
        BY <1>2 DEF TakeAction, EvaluatorTyped
  <2>2. Head(actions) \in Action /\ Tail(actions) \in Seq(Action)
        /\ Len(Tail(actions)) <= ActionCapacity
        BY <2>1, PlatformAssumption
  <2> QED BY <2>1, <2>2 DEF EvaluatorTyped, Acting
<1>3. CASE ActionDone
      BY <1>3 DEF ActionDone, EvaluatorTyped, Acting
<1>4. CASE PlatformRestart
  <2>1. FreshHealth \in Health
        BY PlatformAssumption DEF FreshHealth, Health
  <2>2. <<>> \in Seq(Action) /\ Len(<<>>) <= ActionCapacity
        BY PlatformAssumption
  <2> QED BY <1>4, <2>1, <2>2 DEF PlatformRestart, EvaluatorTyped, Acting
<1>5. ASSUME NEW h \in Handlers, NEW name \in Names, Register(h, name)
      PROVE  EvaluatorTyped'
      BY <1>5 DEF Register, EvaluatorTyped
<1>6. ASSUME NEW h \in Handlers, Unregistered(h)
      PROVE  EvaluatorTyped'
  <2>1. request[h].cred.app \in Apps
        BY <1>6, HandlerFields DEF Unregistered, Works
  <2> QED BY <1>6, <2>1 DEF Unregistered, EvaluatorTyped
<1>7. ASSUME NEW h \in Handlers, Evaluate(h)
      PROVE  EvaluatorTyped'
  <2>1. \E a \in Apps, rec \in Health : health' = [health EXCEPT ![a] = rec]
        BY <1>7, EvaluateIs
  <2>2. UNCHANGED <<actions, acting, gone>>
        BY <1>7 DEF Evaluate
  <2> QED BY <2>1, <2>2 DEF EvaluatorTyped
<1>8. ASSUME NEW h \in Handlers, SendAction(h)
      PROVE  EvaluatorTyped'
  <2>1. request[h].action \in Action
        BY <1>8, HandlerFields DEF SendAction
  <2> QED BY <1>8, <2>1, PlatformAssumption DEF SendAction, EvaluatorTyped
<1>9. \/ UNCHANGED <<health, actions, acting, gone>>
      \/ TakeAction \/ ActionDone \/ PlatformRestart
      \/ \E h \in Handlers, name \in Names : Register(h, name)
      \/ \E h \in Handlers : Unregistered(h) \/ Evaluate(h) \/ SendAction(h)
  <2>1. CASE \E h \in Handlers : Arriving(h) \/ AskManager(h) \/ Finishing(h) \/ Disconnect(h)
        BY <2>1 DEF Arriving, Refuse, Receive, Admit, AskManager, Finishing, Registered, Touch,
                    Revoke, Disconnect, platformvars, pvars
  <2>2. CASE UNCHANGED platformvars \/ ManagerStep \/ AskRestart \/ Tick
        BY <2>2 DEF platformvars, pvars, ManagerStep, AskRestart, Tick
  <2> QED BY <2>1, <2>2 DEF PlatformNext
<1> QED BY <1>1, <1>2, <1>3, <1>4, <1>5, <1>6, <1>7, <1>8, <1>9

(* The invariant on which the rest of this module builds *)
PlatformInv == Inv /\ CallsPaired /\ SessionInv /\ EvaluatorTyped

LEMMA InitPlatform == PlatformInit => PlatformInv
<1> SUFFICES ASSUME PlatformInit PROVE PlatformInv
    OBVIOUS
<1>1. FreshHealth \in Health
      BY PlatformAssumption DEF FreshHealth, Health
<1>2. <<>> \in Seq(Action) /\ Len(<<>>) <= ActionCapacity
      BY PlatformAssumption
<1>3. EvaluatorTyped
      BY <1>1, <1>2 DEF PlatformInit, EvaluatorTyped, Acting
<1>4. Init
      BY DEF PlatformInit
<1> QED BY <1>3, <1>4, InitInv, InitPairs, InitEstablishes DEF PlatformInv

LEMMA NextPlatform == PlatformInv /\ [PlatformNext]_platformvars => PlatformInv' /\ [Next]_vars
<1> SUFFICES ASSUME PlatformInv, [PlatformNext]_platformvars PROVE PlatformInv' /\ [Next]_vars
    OBVIOUS
<1>1. SessionsTyped /\ SessionInv /\ EvaluatorTyped /\ Inv /\ CallsPaired
      BY DEF PlatformInv, SessionInv
<1>2. [Next]_vars /\ EvaluatorTyped' /\ SessionInv'
      BY <1>1, PlatformSimulates, EvaluatorKept, StepKeeps
<1> QED BY <1>1, <1>2, NextInv, NextPairs DEF PlatformInv

(* The sessions, the evaluator and the health loop use the manager as its   *)
(* specification says; with it they inherit the manager's invariants.       *)
THEOREM PlatformImplementsLifecycle == PlatformSpec => Spec
<1>1. PlatformInit => Init
      BY DEF PlatformInit
<1> QED BY <1>1, InitPlatform, NextPlatform, PTL DEF PlatformSpec, Spec

LEMMA PlatformInvariance == PlatformSpec => []PlatformInv
<1> QED BY InitPlatform, NextPlatform, PTL DEF PlatformSpec

(* The types of the platform's state, with the bounds of the mailbox and of *)
(* the action channel, for any number of handlers, apps and slots.          *)
THEOREM PlatformTypeCorrect == PlatformSpec => []PlatformTypeOK
<1>1. PlatformInv => PlatformTypeOK
      BY DEF PlatformInv, Inv, SessionInv, SessionsTyped, EvaluatorTyped, PlatformTypeOK
<1> QED BY <1>1, PlatformInvariance, PTL
-----------------------------------------------------------------------------
(* Restarts in flight                                                       *)

Spaced(S) ==
  \A x, y \in S :
    x = y \/ x[3].decided >= y[3].decided + MinInterval
          \/ y[3].decided >= x[3].decided + MinInterval

(* The evaluator's note of the last restart covers the ones in flight *)
Noticed(S, last) == \A x \in S : last # Never /\ x[3].decided <= last

FlightInv ==
  \A a \in Apps :
    /\ health[a].last # Never => health[a].last <= clock
    /\ Spaced(InFlight(a))
    /\ Noticed(InFlight(a), health[a].last)

(* Where an action in flight is: in the channel, with a handler or the loop *)
Flies(queue, sending, current, a, x) ==
  /\ \/ \E i \in 1..Len(queue) : x = <<"queue", i, queue[i]>>
     \/ \E h \in Handlers : sending[h].at = "send" /\ x = <<"send", h, sending[h].action>>
     \/ current # NoRequest /\ x = <<"loop", Loop, current.action>>
  /\ x[3].app = a

LEMMA FlightIs ==
  ASSUME NEW a, NEW x
  PROVE  /\ x \in InFlight(a) <=> Flies(actions, request, acting, a, x)
         /\ x \in InFlight(a)' <=> Flies(actions', request', acting', a, x)
  BY DEF InFlight, Flies

LEMMA FlightTyped ==
  ASSUME SessionsTyped, EvaluatorTyped, NEW a, NEW x \in InFlight(a)
  PROVE  x[3] \in Action /\ x[3].app = a /\ x[3].decided \in Time /\ x = <<x[1], x[2], x[3]>>
<1>0. Flies(actions, request, acting, a, x)
      BY FlightIs
<1>1. ASSUME NEW i \in 1..Len(actions), x = <<"queue", i, actions[i]>>
      PROVE  x[3] \in Action /\ x = <<x[1], x[2], x[3]>>
      BY <1>1 DEF EvaluatorTyped
<1>2. ASSUME NEW h \in Handlers, request[h].at = "send", x = <<"send", h, request[h].action>>
      PROVE  x[3] \in Action /\ x = <<x[1], x[2], x[3]>>
      BY <1>2, HandlerFields
<1>3. ASSUME acting # NoRequest, x = <<"loop", Loop, acting.action>>
      PROVE  x[3] \in Action /\ x = <<x[1], x[2], x[3]>>
      BY <1>3, ActingFields DEF EvaluatorTyped
<1> QED BY <1>0, <1>1, <1>2, <1>3 DEF Flies, Action

(* Actions that change their place, each one a place of its own *)
LEMMA MovesKeep ==
  ASSUME NEW S, NEW T, NEW f,
         \A x \in T : f[x] \in S /\ f[x][3] = x[3],
         \A x, y \in T : f[x] = f[y] => x = y
  PROVE  /\ Spaced(S) => Spaced(T)
         /\ \A last : Noticed(S, last) => Noticed(T, last)
  BY DEF Spaced, Noticed

LEMMA FewerKeep ==
  ASSUME NEW S, NEW T \in SUBSET S
  PROVE  /\ Spaced(S) => Spaced(T)
         /\ \A last : Noticed(S, last) => Noticed(T, last)
  BY DEF Spaced, Noticed

(* A handler that turns to r, without an action of its own *)
LEMMA TurnsFly ==
  ASSUME SessionsTyped, FlightInv, NEW h \in Handlers, NEW r, r.at # "send", Goto(h, r),
         UNCHANGED <<clock, health, actions, acting>>
  PROVE  FlightInv'
<1>1. /\ request'[h] = r /\ \A g \in Handlers : g # h => request'[g] = request[g]
      BY DEF Goto, SessionsTyped
<1>2. ASSUME NEW a \in Apps, NEW x \in InFlight(a)'
      PROVE  x \in InFlight(a)
  <2>1. Flies(actions', request', acting', a, x)
        BY <1>2, FlightIs
  <2>2. Flies(actions, request, acting, a, x)
        BY <1>1, <2>1 DEF Flies
  <2> QED BY <2>2, FlightIs
<1>3. \A a \in Apps : InFlight(a)' \in SUBSET InFlight(a)
      BY <1>2
<1> QED BY <1>3, FewerKeep DEF FlightInv, Spaced, Noticed, Never
(* One critical section decides and notes: the new action is the latest *)
LEMMA EvaluateFlies ==
  ASSUME SessionsTyped, EvaluatorTyped, FlightInv, NEW h \in Handlers, Evaluate(h)
  PROVE  FlightInv'
<1>1. PICK a \in Apps, failures \in 0..Threshold :
        LET fires == failures = Threshold /\ ~TooSoon(health[a])
            rec   == [failures |-> failures, last |-> IF fires THEN clock ELSE health[a].last]
        IN  /\ rec \in Health /\ health' = [health EXCEPT ![a] = rec]
            /\ Goto(h, IF fires
                         THEN [at |-> "send", action |-> [app |-> a, decided |-> clock]]
                         ELSE NoRequest)
            /\ UNCHANGED <<vars, clock, session, issued, held, actions, acting, dead, gone>>
      BY EvaluateIs
<1> DEFINE fires == failures = Threshold /\ ~TooSoon(health[a])
           act   == [app |-> a, decided |-> clock]
<1>2. /\ health \in [Apps -> Health] /\ request \in [Handlers -> Request]
      /\ clock \in Time /\ clock # Never /\ clock \in Nat /\ MinInterval \in Nat
      /\ health[a].last \in Time \cup {Never}
  <2>1. /\ health \in [Apps -> Health] /\ request \in [Handlers -> Request] /\ clock \in Time
        BY DEF EvaluatorTyped, SessionsTyped
  <2> QED BY <2>1, PlatformAssumption DEF Time, Never, Health
<1>3. /\ \A b \in Apps : b # a => health'[b] = health[b]
      /\ health'[a].last = IF fires THEN clock ELSE health[a].last
      BY <1>1, <1>2
<1>4. CASE ~fires
  <2>1. Goto(h, NoRequest) /\ UNCHANGED <<clock, actions, acting>>
        BY <1>1, <1>4
  <2>2. /\ request'[h] = NoRequest
        /\ \A g \in Handlers : g # h => request'[g] = request[g]
        BY <2>1, <1>2 DEF Goto
  <2>3. ASSUME NEW b \in Apps, NEW x \in InFlight(b)'
        PROVE  x \in InFlight(b)
    <3>1. Flies(actions', request', acting', b, x)
          BY FlightIs
    <3>2. Flies(actions, request, acting, b, x)
          BY <3>1, <2>1, <2>2 DEF Flies, NoRequest
    <3> QED BY <3>2, FlightIs
  <2>4. \A b \in Apps : InFlight(b)' \in SUBSET InFlight(b)
        BY <2>3
  <2>5. \A b \in Apps : health'[b].last = health[b].last
        BY <1>3, <1>4
  <2> QED BY <2>1, <2>4, <2>5, FewerKeep DEF FlightInv, Spaced, Noticed, Never
<1>5. CASE fires
  <2>1. /\ Goto(h, [at |-> "send", action |-> act]) /\ UNCHANGED <<clock, actions, acting>>
        /\ ~TooSoon(health[a])
        BY <1>1, <1>5
  <2>2. /\ request'[h] = [at |-> "send", action |-> act]
        /\ \A g \in Handlers : g # h => request'[g] = request[g]
        BY <2>1, <1>2 DEF Goto
  <2>3. ASSUME NEW b \in Apps, NEW x \in InFlight(b)'
        PROVE  x \in InFlight(b) \/ (b = a /\ x = <<"send", h, act>>)
    <3>1. Flies(actions', request', acting', b, x)
          BY FlightIs
    <3>2. Flies(actions, request, acting, b, x) \/ (b = a /\ x = <<"send", h, act>>)
          BY <3>1, <2>1, <2>2 DEF Flies
    <3> QED BY <3>2, FlightIs
  <2>4. ASSUME NEW b \in Apps, b # a
        PROVE  /\ health[b]'.last # Never => health[b]'.last <= clock'
               /\ Spaced(InFlight(b))'
               /\ Noticed(InFlight(b), health[b].last)'
    <3>1. InFlight(b)' \in SUBSET InFlight(b)
          BY <2>3, <2>4
    <3>2. health'[b].last = health[b].last
          BY <1>3, <2>4
    <3> QED BY <3>1, <3>2, <2>1, FewerKeep DEF FlightInv, Spaced, Noticed, Never
  <2>5. \A x \in InFlight(a) : /\ x[3].decided \in Nat /\ x[3].decided <= clock
                               /\ clock >= x[3].decided + MinInterval
    <3> SUFFICES ASSUME NEW x \in InFlight(a)
                 PROVE  /\ x[3].decided \in Nat /\ x[3].decided <= clock
                        /\ clock >= x[3].decided + MinInterval
        OBVIOUS
    <3>1. x[3].decided \in Nat
          BY FlightTyped DEF Time
    <3>2. /\ health[a].last # Never /\ x[3].decided <= health[a].last
          /\ health[a].last <= clock
          BY DEF FlightInv, Noticed
    <3>3. health[a].last \in Nat /\ clock - health[a].last >= MinInterval
      <4>1. health[a].last \in Nat
            BY <1>2, <3>2 DEF Time
      <4>2. ~(clock - health[a].last < MinInterval)
            BY <2>1, <3>2 DEF TooSoon
      <4> QED BY <4>1, <4>2, <1>2
    <3> QED BY <3>1, <3>2, <3>3, <1>2
  <2>6. act.decided = clock /\ <<"send", h, act>>[3] = act /\ health'[a].last = clock
        BY <1>3, <1>5
  <2> HIDE DEF act, fires
  <2>7. Spaced(InFlight(a))'
    <3>1. ASSUME NEW x \in InFlight(a)', NEW y \in InFlight(a)'
          PROVE  x = y \/ x[3].decided >= y[3].decided + MinInterval
                       \/ y[3].decided >= x[3].decided + MinInterval
      <4>1. CASE x \in InFlight(a) /\ y \in InFlight(a)
            BY <4>1 DEF FlightInv, Spaced
      <4>2. CASE x \in InFlight(a) /\ y = <<"send", h, act>>
            BY <4>2, <2>5, <2>6
      <4>3. CASE y \in InFlight(a) /\ x = <<"send", h, act>>
            BY <4>3, <2>5, <2>6
      <4>4. CASE x = <<"send", h, act>> /\ y = <<"send", h, act>>
            BY <4>4
      <4> QED BY <2>3, <4>1, <4>2, <4>3, <4>4
    <3> QED BY <3>1 DEF Spaced
  <2>8. Noticed(InFlight(a), health[a].last)'
    <3>1. ASSUME NEW x \in InFlight(a)'
          PROVE  x[3].decided <= clock
          BY <2>3, <2>5, <2>6, <1>2
    <3> QED BY <3>1, <2>6, <1>2 DEF Noticed, Never
  <2>9. health'[a].last <= clock'
        BY <2>1, <2>6, <1>2
  <2> QED BY <2>4, <2>7, <2>8, <2>9 DEF FlightInv
<1> QED BY <1>4, <1>5
(* The loop takes the first action: the others move up *)
LEMMA TakingFlies ==
  ASSUME SessionsTyped, EvaluatorTyped, FlightInv, TakeAction
  PROVE  FlightInv'
<1>1. /\ acting = NoRequest /\ actions # <<>> /\ actions \in Seq(Action)
      /\ acting' = [at |-> "restart", action |-> Head(actions)] /\ actions' = Tail(actions)
      /\ UNCHANGED <<request, health, clock>>
      BY DEF TakeAction, EvaluatorTyped
<1>2. /\ Len(actions) \in Nat \ {0} /\ Head(actions) = actions[1]
      /\ Len(Tail(actions)) = Len(actions) - 1
      /\ \A i \in 1..Len(Tail(actions)) : Tail(actions)[i] = actions[i + 1]
      BY <1>1
<1> SUFFICES ASSUME NEW a \in Apps
             PROVE  Spaced(InFlight(a))' /\ Noticed(InFlight(a), health[a].last)'
    BY <1>1 DEF FlightInv, Never
<1> DEFINE T    == InFlight(a)'
           f(x) == IF x[1] = "loop" THEN <<"queue", 1, x[3]>>
                   ELSE IF x[1] = "queue" THEN <<"queue", x[2] + 1, x[3]>>
                   ELSE x
           F    == [x \in T |-> f(x)]
<1>3. ASSUME NEW x \in T
      PROVE  /\ f(x) \in InFlight(a) /\ f(x)[3] = x[3] /\ x = <<x[1], x[2], x[3]>>
             /\ x[1] = "queue" => x[2] \in Nat \ {0}
             /\ x[1] = "loop" => x = <<"loop", Loop, actions[1]>>
             /\ x[1] \in {"queue", "send", "loop"}
  <2>1. Flies(actions', request', acting', a, x)
        BY FlightIs
  <2>2. x[3].app = a
        BY <2>1 DEF Flies
  <2>3. CASE \E i \in 1..Len(actions') : x = <<"queue", i, actions'[i]>>
    <3>1. PICK i \in 1..Len(actions') : x = <<"queue", i, actions'[i]>>
          BY <2>3
    <3>2. /\ f(x) = <<"queue", i + 1, actions[i + 1]>> /\ i + 1 \in 1..Len(actions)
          /\ x[3] = actions[i + 1] /\ f(x)[3] = x[3]
          BY <3>1, <1>1, <1>2
    <3>3. f(x) \in InFlight(a)
          BY <3>2, <2>2, FlightIs DEF Flies
    <3> QED BY <3>1, <3>2, <3>3
  <2>4. CASE \E h \in Handlers : request'[h].at = "send" /\ x = <<"send", h, request'[h].action>>
    <3>1. f(x) = x
          BY <2>4
    <3>2. x \in InFlight(a)
          BY <2>2, <2>4, <1>1, FlightIs DEF Flies
    <3> QED BY <2>4, <3>1, <3>2
  <2>5. CASE x = <<"loop", Loop, acting'.action>>
    <3>1. f(x) = <<"queue", 1, actions[1]>> /\ x[3] = actions[1] /\ f(x)[3] = x[3]
          BY <2>5, <1>1, <1>2
    <3>2. f(x) \in InFlight(a)
          BY <3>1, <2>2, <1>2, FlightIs DEF Flies
    <3> QED BY <2>5, <3>1, <3>2
  <2> QED BY <2>1, <2>3, <2>4, <2>5 DEF Flies
<1>4. ASSUME NEW x \in T, NEW y \in T, f(x) = f(y)
      PROVE  x = y
  <2>0. \A z \in T : /\ z[1] = "queue" => z[2] \in Nat \ {0}
                     /\ z = <<z[1], z[2], z[3]>>
        BY <1>3
  <2>1. CASE x[1] = "queue" /\ y[1] = "queue"
    <3>1. x[2] + 1 = y[2] + 1 /\ x[3] = y[3]
          BY <1>4, <2>1
    <3>2. x[2] = y[2]
          BY <2>0, <2>1, <3>1
    <3> QED BY <2>0, <2>1, <3>1, <3>2
  <2>2. CASE x[1] = "queue" /\ y[1] = "loop"
    <3>1. x[2] + 1 = 1
          BY <1>4, <2>2
    <3> QED BY <2>0, <2>2, <3>1
  <2>3. CASE x[1] = "loop" /\ y[1] = "queue"
    <3>1. y[2] + 1 = 1
          BY <1>4, <2>3
    <3> QED BY <2>0, <2>3, <3>1
  <2>4. CASE x[1] = "loop" /\ y[1] = "loop"
        BY <1>3, <2>4
  <2>5. CASE x[1] = "send" \/ y[1] = "send"
    <3>1. \A z \in T : z[1] # "send" => f(z)[1] = "queue"
          BY <1>3
    <3>2. \A z \in T : z[1] = "send" => f(z) = z
          OBVIOUS
    <3>3. x[1] = "send" /\ y[1] = "send"
          BY <1>4, <2>5, <3>1, <3>2
    <3> QED BY <1>4, <3>2, <3>3
  <2> QED BY <1>3, <2>1, <2>2, <2>3, <2>4, <2>5
<1> HIDE DEF f
<1>5. /\ \A x \in T : F[x] \in InFlight(a) /\ F[x][3] = x[3]
      /\ \A x, y \in T : F[x] = F[y] => x = y
      BY <1>3, <1>4
<1> HIDE DEF F
<1>6. /\ Spaced(InFlight(a)) => Spaced(T)
      /\ \A last : Noticed(InFlight(a), last) => Noticed(T, last)
      BY <1>5, MovesKeep
<1>7. health' = health
      BY <1>1
<1> QED BY <1>6, <1>7 DEF FlightInv, Spaced, Noticed, Never

(* A handler's action joins the end of the channel *)
LEMMA SendingFlies ==
  ASSUME SessionsTyped, EvaluatorTyped, FlightInv, NEW h \in Handlers, SendAction(h)
  PROVE  FlightInv'
<1> DEFINE act == request[h].action
           end == <<"queue", Len(actions) + 1, act>>
<1>1. /\ request[h].at = "send" /\ act \in Action /\ actions \in Seq(Action)
      /\ actions' = Append(actions, act) /\ Goto(h, NoRequest)
      /\ UNCHANGED <<health, clock, acting>>
      BY HandlerFields DEF SendAction, EvaluatorTyped
<1>2. /\ request'[h] = NoRequest /\ NoRequest.at # "send"
      /\ \A g \in Handlers : g # h => request'[g] = request[g]
      BY <1>1 DEF Goto, SessionsTyped, NoRequest
<1>3. /\ Len(actions) \in Nat /\ Len(actions') = Len(actions) + 1
      /\ \A i \in 1..Len(actions) : actions'[i] = actions[i]
      /\ actions'[Len(actions) + 1] = act
      BY <1>1
<1> SUFFICES ASSUME NEW a \in Apps
             PROVE  Spaced(InFlight(a))' /\ Noticed(InFlight(a), health[a].last)'
    BY <1>1 DEF FlightInv, Never
<1> DEFINE T == InFlight(a)'
           F == [x \in T |-> IF x = end THEN <<"send", h, act>> ELSE x]
<1>4. ASSUME NEW x \in T
      PROVE  x = end \/ (x \in InFlight(a) /\ x # <<"send", h, act>>)
  <2>1. Flies(actions', request', acting', a, x)
        BY FlightIs
  <2>2. CASE \E i \in 1..Len(actions') : x = <<"queue", i, actions'[i]>>
    <3>1. PICK i \in 1..Len(actions') : x = <<"queue", i, actions'[i]>>
          BY <2>2
    <3>2. CASE i = Len(actions) + 1
          BY <3>1, <3>2, <1>3
    <3>3. CASE i \in 1..Len(actions)
          BY <3>1, <3>3, <2>1, <1>3, FlightIs DEF Flies
    <3> QED BY <3>2, <3>3, <1>3
  <2>3. CASE \E g \in Handlers : request'[g].at = "send" /\ x = <<"send", g, request'[g].action>>
    <3>1. PICK g \in Handlers : request'[g].at = "send" /\ x = <<"send", g, request'[g].action>>
          BY <2>3
    <3>2. g # h /\ request[g].at = "send" /\ x = <<"send", g, request[g].action>>
          BY <3>1, <1>2
    <3> QED BY <3>2, <2>1, FlightIs DEF Flies
  <2>4. CASE acting' # NoRequest /\ x = <<"loop", Loop, acting'.action>>
        BY <2>4, <2>1, <1>1, FlightIs DEF Flies
  <2> QED BY <2>1, <2>2, <2>3, <2>4 DEF Flies
<1>5. end[3] = act /\ <<"send", h, act>>[3] = act
      OBVIOUS
<1>6. end \in T => <<"send", h, act>> \in InFlight(a)
  <2>1. end \in T => act.app = a
        BY <1>5, FlightIs DEF Flies
  <2> QED BY <2>1, <1>1, <1>5, FlightIs DEF Flies
<1> HIDE DEF end, act
<1>7. /\ \A x \in T : F[x] \in InFlight(a) /\ F[x][3] = x[3]
      /\ \A x, y \in T : F[x] = F[y] => x = y
      BY <1>4, <1>5, <1>6
<1> HIDE DEF F
<1>8. /\ Spaced(InFlight(a)) => Spaced(T)
      /\ \A last : Noticed(InFlight(a), last) => Noticed(T, last)
      BY <1>7, MovesKeep
<1>9. health' = health
      BY <1>1
<1> QED BY <1>8, <1>9 DEF FlightInv, Spaced, Noticed, Never

LEMMA RestFlies ==
  ASSUME SessionsTyped, EvaluatorTyped, FlightInv,
         \/ ActionDone \/ Tick \/ PlatformRestart
         \/ UNCHANGED <<request, health, actions, acting, clock>>
  PROVE  FlightInv'
<1>1. ASSUME UNCHANGED <<request, health, actions>>, acting' \in {acting, NoRequest},
             clock' \in {clock, clock + 1}
      PROVE  FlightInv'
  <2>1. ASSUME NEW a \in Apps, NEW x \in InFlight(a)'
        PROVE  x \in InFlight(a)
    <3>1. Flies(actions', request', acting', a, x)
          BY FlightIs
    <3>2. Flies(actions, request, acting, a, x)
          BY <1>1, <3>1 DEF Flies
    <3> QED BY <3>2, FlightIs
  <2>2. \A a \in Apps : InFlight(a)' \in SUBSET InFlight(a)
        BY <2>1
  <2>3. \A a \in Apps : health[a].last # Never => health[a].last <= clock'
    <3> SUFFICES ASSUME NEW a \in Apps, health[a].last # Never
                 PROVE  health[a].last <= clock'
        OBVIOUS
    <3>1. health[a].last <= clock
          BY DEF FlightInv
    <3>2. health[a].last \in Nat /\ clock \in Nat
          BY DEF EvaluatorTyped, SessionsTyped, Health, Time
    <3> QED BY <3>1, <3>2, <1>1
  <2> QED BY <2>2, <2>3, <1>1, FewerKeep DEF FlightInv, Spaced, Noticed, Never
<1>2. CASE ActionDone
      BY <1>1, <1>2 DEF ActionDone
<1>3. CASE Tick
      BY <1>1, <1>3 DEF Tick
<1>4. CASE PlatformRestart
  <2>1. /\ actions' = <<>> /\ acting' = NoRequest /\ request' = [h \in Handlers |-> NoRequest]
        /\ health' = [a \in Apps |-> FreshHealth]
        BY <1>4 DEF PlatformRestart
  <2>2. ASSUME NEW a \in Apps, NEW x \in InFlight(a)'
        PROVE  FALSE
    <3>1. Flies(actions', request', acting', a, x)
          BY FlightIs
    <3> QED BY <2>1, <3>1 DEF Flies, NoRequest
  <2>3. \A a \in Apps : InFlight(a)' = {} /\ health'[a].last = Never
        BY <2>1, <2>2 DEF FreshHealth
  <2> QED BY <2>3 DEF FlightInv, Spaced, Noticed, Never
<1> QED BY <1>1, <1>2, <1>3, <1>4

LEMMA NextFlies ==
  ASSUME SessionsTyped, EvaluatorTyped, FlightInv, [PlatformNext]_platformvars
  PROVE  FlightInv'
<1>1. CASE \/ UNCHANGED platformvars \/ ManagerStep \/ AskRestart
           \/ ActionDone \/ Tick \/ PlatformRestart
      BY <1>1, RestFlies DEF platformvars, pvars, ManagerStep, AskRestart
<1>2. CASE TakeAction
      BY <1>2, TakingFlies
<1>3. ASSUME NEW h \in Handlers,
             \/ Arriving(h) \/ AskManager(h) \/ Finishing(h)
             \/ SendAction(h) \/ Disconnect(h)
      PROVE  FlightInv'
  <2>1. NoRequest.at # "send"
        BY DEF NoRequest
  <2>2. CASE Refuse(h) \/ AskManager(h)
        BY <2>2, RestFlies DEF Refuse, AskManager, platformvars, pvars
  <2>3. CASE Receive(h)
    <3>1. ASSUME NEW r, r.at # "send", Admit(h, r)
          PROVE  FlightInv'
          BY <3>1, TurnsFly DEF Admit
    <3>2. PICK cred \in held :
            \/ \E step \in {"touch", "revoke"} : Admit(h, [at |-> step, cred |-> cred])
            \/ \E status \in {"healthy", "unhealthy"} :
                 Admit(h, [at |-> "evaluate", cred |-> cred, reported |-> status])
          BY <2>3 DEF Receive
    <3>3. ASSUME NEW step \in {"touch", "revoke"}, Admit(h, [at |-> step, cred |-> cred])
          PROVE  FlightInv'
      <4>1. [at |-> step, cred |-> cred].at # "send"
            OBVIOUS
      <4> QED BY <3>1, <3>3, <4>1
    <3>4. ASSUME NEW status \in {"healthy", "unhealthy"},
                 Admit(h, [at |-> "evaluate", cred |-> cred, reported |-> status])
          PROVE  FlightInv'
      <4>1. [at |-> "evaluate", cred |-> cred, reported |-> status].at # "send"
            OBVIOUS
      <4> QED BY <3>1, <3>4, <4>1
    <3> QED BY <3>2, <3>3, <3>4
  <2>4. ASSUME NEW name \in Names, Register(h, name)
        PROVE  FlightInv'
    <3> DEFINE r == [at |-> "register", cred |-> [app |-> AppId(name, clock), token |-> issued + 1]]
    <3>1. r.at # "send" /\ Goto(h, r) /\ UNCHANGED <<clock, health, actions, acting>>
          BY <2>4 DEF Register
    <3> HIDE DEF r
    <3> QED BY <3>1, TurnsFly
  <2>5. CASE Registered(h) \/ Touch(h) \/ Unregistered(h) \/ Disconnect(h)
        BY <2>1, <2>5, TurnsFly DEF Registered, Touch, Unregistered, Disconnect
  <2>6. CASE Revoke(h)
    <3> DEFINE r == [at |-> "stop", cred |-> request[h].cred]
    <3>1. r.at # "send" /\ Goto(h, r) /\ UNCHANGED <<clock, health, actions, acting>>
          BY <2>6 DEF Revoke
    <3> HIDE DEF r
    <3> QED BY <3>1, TurnsFly
  <2>7. CASE Evaluate(h)
        BY <2>7, EvaluateFlies
  <2>8. CASE SendAction(h)
        BY <2>8, SendingFlies
  <2> QED BY <1>3, <2>2, <2>3, <2>4, <2>5, <2>6, <2>7, <2>8 DEF Arriving, Finishing
<1> QED BY <1>1, <1>2, <1>3 DEF PlatformNext

LEMMA InitFlies == PlatformInit => FlightInv
<1> SUFFICES ASSUME PlatformInit PROVE FlightInv
    OBVIOUS
<1>1. /\ actions = <<>> /\ acting = NoRequest /\ request = [h \in Handlers |-> NoRequest]
      /\ health = [a \in Apps |-> FreshHealth]
      BY DEF PlatformInit
<1>2. \A a \in Apps : InFlight(a) = {} /\ health[a].last = Never
  <2>1. ASSUME NEW a \in Apps, NEW x \in InFlight(a)
        PROVE  FALSE
    <3>1. Flies(actions, request, acting, a, x)
          BY FlightIs
    <3> QED BY <1>1, <3>1 DEF Flies, NoRequest
  <2> QED BY <2>1, <1>1 DEF FreshHealth
<1> QED BY <1>2 DEF FlightInv, Spaced, Noticed

(* Whatever the number of handlers that report at once, the slots of the    *)
(* channel and the requests that are dropped, the restarts of an app that   *)
(* are in flight were decided min_restart_interval apart: the evaluator     *)
(* notes a restart in the critical section that decides it.                 *)
THEOREM RestartsAreSpaced == PlatformSpec => []ActionsAreSpaced
<1>1. FlightInv => ActionsAreSpaced
      BY DEF FlightInv, Spaced, ActionsAreSpaced
<1>2. PlatformInv => SessionsTyped /\ EvaluatorTyped
      BY DEF PlatformInv, SessionInv
<1>3. PlatformInv /\ FlightInv /\ [PlatformNext]_platformvars => FlightInv'
      BY <1>2, NextFlies
<1> QED BY <1>1, <1>3, InitFlies, PlatformInvariance, PTL DEF PlatformSpec
-----------------------------------------------------------------------------
(* Apps that were unregistered                                              *)

Down(a) == apps[a].state \in {"Stopped", "Unknown"}

Serving(r) == r.at \in {"touch", "revoke", "stop", "evaluate"}

(* What a handler that has reached r asks the manager for *)
Asks(r, cmd) ==
  \/ r.at = "register" /\ cmd.op = "Register" /\ cmd.app = r.cred.app
  \/ r.at = "stop" /\ cmd.op = "Stop" /\ cmd.app = r.cred.app

(* No app has a manifest, for registering over IPC is all there is *)
NoManifests == \A a \in Apps : apps[a].manifest = "none"

(* A command is what its handler is at: a handler waits for no other *)
MailFits ==
  \A i \in 1..Len(mailbox) :
    /\ mailbox[i].op \in {"Register", "Stop", "Restart"}
    /\ \A h \in Handlers : mailbox[i].from = h => Asks(request[h], mailbox[i])

CallsFit == \A h \in Handlers : call[h] # Idle => request[h].at \in {"register", "stop"}

(* An answer that its handler has not read yet still holds *)
AnswersHold ==
  \A h \in Handlers : call[h].st = "answered" =>
    /\ request[h].at = "register" => apps[request[h].cred.app].state # "Unknown"
    /\ request[h].at = "stop" => Down(request[h].cred.app)

(* Apps that clients know were registered at a time that has come *)
Credited ==
  /\ \A h \in Handlers : Serving(request[h]) => request[h].cred \in held
  /\ \A h \in Handlers : request[h].at = "register" => request[h].cred.app[2] <= clock
  /\ \A cred \in held : cred.app[2] <= clock
  /\ \A a \in gone : \E cred \in held : cred.app = a

(* An app of a client that the manager does not know was lost in a restart: *)
(* its id is of the past, and no registration will bring it back            *)
LostForGood ==
  \A cred \in held : apps[cred.app].state = "Unknown" =>
    /\ cred.app[2] < clock
    /\ \A h \in Handlers : request[h].at = "register" => request[h].cred.app # cred.app
    /\ \A i \in 1..Len(mailbox) : mailbox[i].op = "Register" => mailbox[i].app # cred.app

DownInv ==
  /\ NoManifests /\ MailFits /\ CallsFit /\ AnswersHold /\ Credited /\ LostForGood
  /\ UnregisteredStayDown

LEMMA AppsAre ==
  ASSUME NEW a \in Apps
  PROVE  a = <<a[1], a[2]>> /\ a[2] \in Nat
  BY PlatformAssumption DEF AppId, Time

(* With no manifests nothing starts *)
LEMMA InstancesAre ==
  ASSUME Inv, NoManifests, NEW a \in Apps
  PROVE  /\ apps[a].state \in {"Unknown", "Registered", "Stopped"} /\ apps[a].pid = NoPid
         /\ apps[a] \in AppInstance
         /\ apps[a] = [state |-> apps[a].state, manifest |-> "none", pid |-> NoPid]
<1>1. StartNeedsManifest /\ PidMatchesState /\ TypeOK
      BY MachineIs DEF Inv, Consistent, Manifests, StartNeedsManifest, OwnPids, Running,
                       PidMatchesState
<1>2. apps[a].state \in {"Unknown", "Registered", "Stopped"} /\ apps[a].pid = NoPid
      BY <1>1 DEF StartNeedsManifest, PidMatchesState, NoManifests
<1>3. apps[a] \in AppInstance
      BY <1>1 DEF TypeOK
<1> QED BY <1>2, <1>3 DEF NoManifests, AppInstance
(* An entry as an app that was registered over IPC has it *)
Bare(state) == [state |-> state, manifest |-> "none", pid |-> NoPid]

LEMMA StopsBare ==
  ASSUME Inv, NoManifests, NEW a \in Apps, NEW out \in DoStop(Machine, a)
  PROVE  out.apps = [apps EXCEPT
                       ![a] = Bare(IF apps[a].state = "Unknown" THEN "Unknown" ELSE "Stopped")]
<1>1. /\ apps[a] = Bare(apps[a].state) /\ apps[a].pid = NoPid /\ apps[a] \in AppInstance
      BY InstancesAre DEF Bare
<1>2. Machine \in MachineType /\ Machine.apps = apps /\ apps \in [Apps -> AppInstance]
      BY MachineIs DEF Inv, Consistent, TypeOK
<1>3. CASE apps[a].state = "Unknown"
  <2>1. out = Outcome(Machine, "err")
        BY <1>2, <1>3 DEF DoStop
  <2>2. out.apps = apps
        BY <2>1, <1>2 DEF Outcome
  <2> QED BY <2>2, <1>1, <1>2, <1>3
<1>4. CASE apps[a].state # "Unknown"
  <2> DEFINE stopped == [apps[a] EXCEPT !.state = "Stopped", !.pid = NoPid]
  <2>1. out = Outcome(SetApp(Machine, a, stopped), "ok")
        BY <1>1, <1>2, <1>4 DEF DoStop
  <2>2. stopped = Bare("Stopped")
    <3>1. PICK state : apps[a] = [state |-> state, manifest |-> "none", pid |-> NoPid]
          BY <1>1 DEF Bare
    <3>2. [[state |-> state, manifest |-> "none", pid |-> NoPid] EXCEPT !.state = "Stopped"]
            = [state |-> "Stopped", manifest |-> "none", pid |-> NoPid]
          OBVIOUS
    <3>3. [[state |-> "Stopped", manifest |-> "none", pid |-> NoPid] EXCEPT !.pid = NoPid]
            = [state |-> "Stopped", manifest |-> "none", pid |-> NoPid]
          OBVIOUS
    <3> QED BY <3>1, <3>2, <3>3 DEF Bare
  <2> HIDE DEF stopped
  <2>3. SetApp(Machine, a, stopped) = Pair([apps EXCEPT ![a] = stopped], Machine.os)
        BY <1>2, SetAppIs
  <2>4. out = Outcome(Pair([apps EXCEPT ![a] = stopped], Machine.os), "ok")
        BY <2>1, <2>3
  <2>5. out.apps = [apps EXCEPT ![a] = stopped]
        BY <2>4 DEF Outcome, Pair
  <2> QED BY <2>2, <2>5, <1>4
<1> QED BY <1>3, <1>4

(* What becomes of an app: registering knows it, the others can only stop it *)
Becomes(op, state) ==
  IF op = "Register" THEN IF state = "Stopped" THEN "Stopped" ELSE "Registered"
  ELSE IF state = "Unknown" THEN "Unknown" ELSE "Stopped"

LEMMA ServesBare ==
  ASSUME Inv, NoManifests, NEW cmd, cmd.op \in {"Register", "Stop", "Restart"},
         cmd.app \in Apps, NEW out, Serves(cmd, out)
  PROVE  out.apps = [apps EXCEPT ![cmd.app] = Bare(Becomes(cmd.op, apps[cmd.app].state))]
<1> DEFINE a == cmd.app
<1>1. /\ apps[a] = Bare(apps[a].state) /\ apps[a].state \in {"Unknown", "Registered", "Stopped"}
      BY InstancesAre DEF Bare
<1>2. Machine \in MachineType /\ Machine.apps = apps /\ apps \in [Apps -> AppInstance]
      BY MachineIs DEF Inv, Consistent, TypeOK
<1>3. CASE cmd.op = "Register"
  <2>1. out \in DoRegister(Machine, a)
        BY <1>3 DEF Serves
  <2>2. PICK inst : inst = IF apps[a].state \in {"Unknown", "Registered"}
                             THEN [apps[a] EXCEPT !.state = "Registered"] ELSE apps[a]
        OBVIOUS
  <2>3. inst = Bare(Becomes("Register", apps[a].state))
        BY <1>1, <2>2 DEF Bare, Becomes
  <2>4. out = Outcome(SetApp(Machine, a, inst), "ok")
        BY <2>1, <2>2, <1>2 DEF DoRegister
  <2>5. SetApp(Machine, a, inst) = Pair([apps EXCEPT ![a] = inst], Machine.os)
        BY <1>2, SetAppIs
  <2>6. out = Outcome(Pair([apps EXCEPT ![a] = inst], Machine.os), "ok")
        BY <2>4, <2>5
  <2>7. out.apps = [apps EXCEPT ![a] = inst]
        BY <2>6 DEF Outcome, Pair
  <2> QED BY <2>3, <2>7, <1>3
<1>4. CASE cmd.op = "Stop"
  <2>1. out \in DoStop(Machine, a)
        BY <1>4 DEF Serves
  <2> QED BY <2>1, <1>4, StopsBare DEF Becomes
<1>5. CASE cmd.op = "Restart"
  <2>1. PICK stop \in DoStop(Machine, a) : out \in DoStart([apps |-> stop.apps, os |-> stop.os], a)
        BY <1>5 DEF Serves, DoRestart
  <2>2. stop.apps = [apps EXCEPT ![a] = Bare(Becomes("Restart", apps[a].state))]
        BY StopsBare DEF Becomes
  <2>3. stop.apps[a].manifest = "none" /\ stop.apps[a].state # "Running"
        BY <2>2, <1>2 DEF Bare, Becomes
  <2>4. out = Outcome([apps |-> stop.apps, os |-> stop.os], "err")
        BY <2>1, <2>3 DEF DoStart
  <2>5. out.apps = stop.apps
        BY <2>4 DEF Outcome
  <2> QED BY <2>2, <2>5, <1>5
<1> QED BY <1>3, <1>4, <1>5

(* The manager serves the oldest command, as its handler asked for it *)
LEMMA TaskStays ==
  ASSUME Inv, CallsPaired, SessionsTyped, gone \subseteq Apps, DownInv, ManagerStep
  PROVE  DownInv'
<1>1. /\ mailbox \in Seq(Command) /\ call \in [Callers -> CallState]
      /\ apps \in [Apps -> AppInstance] /\ UNCHANGED pvars /\ Task
      BY DEF Inv, TypeOK, ManagerStep
<1>2. PICK out : /\ mailbox # <<>> /\ Fields(mailbox[1])
                 /\ Serves(mailbox[1], out) /\ Finish(mailbox[1], out)
      BY <1>1, TaskServes
<1> DEFINE cmd == mailbox[1]
           a   == cmd.app
<1>3. /\ Len(mailbox) \in Nat /\ Len(mailbox) >= 1 /\ 1 \in 1..Len(mailbox)
      /\ \A i \in 1..Len(mailbox') : mailbox'[i] = mailbox[i+1] /\ i + 1 \in 1..Len(mailbox)
      BY <1>1, <1>2, TailIs DEF Finish
<1>4. /\ cmd.op \in {"Register", "Stop", "Restart"} /\ a \in Apps
      /\ \A h \in Handlers : cmd.from = h => Asks(request[h], cmd)
      BY <1>2, <1>3 DEF DownInv, MailFits, Fields, AppOps
<1>5. apps' = [apps EXCEPT ![a] = Bare(Becomes(cmd.op, apps[a].state))]
  <2>1. out.apps = [apps EXCEPT ![a] = Bare(Becomes(cmd.op, apps[a].state))]
        BY <1>2, <1>4, ServesBare DEF DownInv
  <2> QED BY <2>1, <1>2 DEF Finish
<1>6. /\ apps'[a].state = Becomes(cmd.op, apps[a].state) /\ apps'[a].manifest = "none"
      /\ \A b \in Apps : b # a => apps'[b] = apps[b]
      BY <1>1, <1>4, <1>5 DEF Bare
<1>7. /\ \A c \in Callers : c # cmd.from => call'[c] = call[c]
      /\ \A c \in Callers : c = cmd.from =>
           call'[c].st = "answered" /\ call[c] = Waiting
  <2>1. /\ \A c \in Callers : c # cmd.from => call'[c] = call[c]
        /\ \A c \in Callers : c = cmd.from => call'[c].st = "answered"
        BY <1>1, <1>2, CallersAre DEF Finish
  <2>2. \A c \in Callers : c = cmd.from => call[c] = Waiting
        BY <1>3 DEF CallsPaired, Pending
  <2> QED BY <2>1, <2>2
<1>8. \A b \in Apps : apps'[b].state = "Unknown" => apps[b].state = "Unknown"
      BY <1>4, <1>6 DEF Becomes
<1>9. ASSUME NEW cred \in held, Down(cred.app)
      PROVE  apps'[cred.app].state \in {"Stopped", "Unknown"}
  <2>1. cred.app \in Apps
        BY DEF SessionsTyped, Credential
  <2>2. apps[cred.app].state = "Unknown" => cred.app # a \/ cmd.op # "Register"
        BY <1>3 DEF DownInv, LostForGood
  <2> QED BY <1>4, <1>6, <1>9, <2>1, <2>2 DEF Down, Becomes
<1>10. \A h \in Handlers : /\ request[h].at = "register" => request[h].cred.app \in Apps
                           /\ request[h].at = "stop" => request[h].cred \in held
                                                        /\ request[h].cred.app \in Apps
      BY HandlerFields DEF DownInv, Credited, Serving, Works
<1> HIDE DEF a, cmd
<1>11. NoManifests'
      BY <1>6 DEF DownInv, NoManifests
<1>12. MailFits'
      BY <1>1, <1>3 DEF DownInv, MailFits, Asks, pvars
<1>13. CallsFit'
  <2>1. ASSUME NEW h \in Handlers, call'[h] # Idle
        PROVE  request[h].at \in {"register", "stop"}
        BY <2>1, <1>4, <1>7, CallersAre DEF DownInv, CallsFit, Asks
  <2> QED BY <2>1, <1>1 DEF CallsFit, pvars
<1>14. AnswersHold'
  <2>1. ASSUME NEW h \in Handlers, call'[h].st = "answered"
        PROVE  /\ request[h].at = "register" => apps'[request[h].cred.app].state # "Unknown"
               /\ request[h].at = "stop" =>
                    apps'[request[h].cred.app].state \in {"Stopped", "Unknown"}
    <3>1. CASE cmd.from = h
      <4>1. Asks(request[h], cmd)
            BY <3>1, <1>4
      <4>2. request[h].cred.app = a
            BY <4>1 DEF Asks, a
      <4>3. CASE request[h].at = "register"
            BY <4>1, <4>2, <4>3, <1>6 DEF Asks, Becomes
      <4>4. CASE request[h].at = "stop"
            BY <4>1, <4>2, <4>4, <1>6 DEF Asks, Becomes, Down
      <4> QED BY <4>3, <4>4
    <3>2. CASE cmd.from # h
      <4>1. call[h].st = "answered"
            BY <2>1, <3>2, <1>7, CallersAre
      <4>2. /\ request[h].at = "register" => apps[request[h].cred.app].state # "Unknown"
            /\ request[h].at = "stop" => Down(request[h].cred.app)
            BY <4>1 DEF DownInv, AnswersHold
      <4> QED BY <4>2, <1>8, <1>9, <1>10
    <3> QED BY <3>1, <3>2
  <2> QED BY <2>1, <1>1 DEF AnswersHold, Down, pvars
<1>15. Credited'
      BY <1>1 DEF DownInv, Credited, Serving, pvars
<1>16. LostForGood'
  <2>1. \A cred \in held : cred.app \in Apps
        BY DEF SessionsTyped, Credential
  <2>2. ASSUME NEW cred \in held, apps'[cred.app].state = "Unknown"
        PROVE  /\ cred.app[2] < clock
               /\ \A h \in Handlers : request[h].at = "register" => request[h].cred.app # cred.app
               /\ \A i \in 1..Len(mailbox') : mailbox'[i].op = "Register" => mailbox'[i].app # cred.app
    <3>1. apps[cred.app].state = "Unknown"
          BY <2>1, <2>2, <1>8
    <3> QED BY <3>1, <1>3 DEF DownInv, LostForGood
  <2> QED BY <2>2, <1>1 DEF LostForGood, pvars
<1>17. UnregisteredStayDown'
  <2>1. ASSUME NEW b \in gone
        PROVE  apps'[b].state \in {"Stopped", "Unknown"}
    <3>1. PICK cred \in held : cred.app = b
          BY DEF DownInv, Credited
    <3>2. Down(cred.app)
          BY <3>1 DEF DownInv, UnregisteredStayDown, Down
    <3> QED BY <3>1, <3>2, <1>9
  <2> QED BY <2>1, <1>1 DEF UnregisteredStayDown, pvars
<1> QED BY <1>11, <1>12, <1>13, <1>14, <1>15, <1>16, <1>17 DEF DownInv
(* A handler has no call under way any more, and the others keep theirs *)
Quiet(h) ==
  /\ apps' = apps
  /\ Len(mailbox') = Len(mailbox)
  /\ \A i \in 1..Len(mailbox) :
       /\ mailbox'[i].op = mailbox[i].op
       /\ mailbox[i].op = "Register" => mailbox'[i].app = mailbox[i].app
       /\ mailbox'[i].from # h
       /\ mailbox'[i].from \in Callers => mailbox'[i] = mailbox[i]
  /\ call'[h] = Idle
  /\ \A c \in Callers : c # h => call'[c] = call[c]

LEMMA QuietIs ==
  ASSUME TypeOK, CallsPaired, NEW h \in Callers,
         Drop(h) \/ Return(h) \/ (call[h] = Idle /\ UNCHANGED vars)
  PROVE  Quiet(h)
<1>1. mailbox \in Seq(Command) /\ call \in [Callers -> CallState] /\ Len(mailbox) \in Nat
      BY DEF TypeOK
<1>2. CASE Drop(h)
  <2>1. /\ Len(mailbox') = Len(mailbox)
        /\ \A i \in 1..Len(mailbox) :
             /\ mailbox[i].from = h => mailbox'[i] = [mailbox[i] EXCEPT !.from = Nobody]
                                       /\ mailbox'[i].from = Nobody
             /\ mailbox[i].from # h => mailbox'[i] = mailbox[i]
        BY <1>1, <1>2, DropIs
  <2>2. ASSUME NEW cmd \in Command
        PROVE  /\ [cmd EXCEPT !.from = Nobody].op = cmd.op
               /\ cmd.op = "Register" => [cmd EXCEPT !.from = Nobody].app = cmd.app
        BY DEF Command, AppOps
  <2>3. \A i \in 1..Len(mailbox) : mailbox[i] \in Command
        BY <1>1
  <2>4. apps' = apps /\ call' = [call EXCEPT ![h] = Idle]
        BY <1>2 DEF Drop
  <2> QED BY <1>1, <2>1, <2>2, <2>3, <2>4, CallersAre DEF Quiet
<1>3. CASE Return(h) \/ (call[h] = Idle /\ UNCHANGED vars)
  <2>1. call[h] # Waiting /\ UNCHANGED <<apps, mailbox>>
        BY <1>3, CallStates DEF Return, vars
  <2>2. \A i \in 1..Len(mailbox) : mailbox[i].from # h
        BY <2>1 DEF CallsPaired, Pending
  <2>3. call'[h] = Idle /\ \A c \in Callers : c # h => call'[c] = call[c]
        BY <1>1, <1>3 DEF Return, vars
  <2> QED BY <2>1, <2>2, <2>3 DEF Quiet
<1> QED BY <1>2, <1>3

(* What a handler keeps that turns to r and has no call under way: clients  *)
(* may learn a credential that was registered, or that their app is down    *)
LEMMA TurnsStay ==
  ASSUME SessionsTyped, TypeOK, gone \subseteq Apps, DownInv, NEW h \in Handlers, Quiet(h),
         NEW r, Goto(h, r), clock' = clock, r.at # "register",
         Serving(r) => r.cred \in held,
         \/ held' = held
         \/ /\ held' = held \cup {request[h].cred} /\ request[h].at = "register"
            /\ apps[request[h].cred.app].state # "Unknown",
         \/ gone' = gone
         \/ /\ gone' = gone \cup {request[h].cred.app} /\ request[h].cred \in held
            /\ Down(request[h].cred.app)
  PROVE  DownInv'
<1>1. /\ request'[h] = r /\ \A g \in Handlers : g # h => request'[g] = request[g]
      BY DEF Goto, SessionsTyped
<1>2. /\ apps' = apps /\ Len(mailbox') = Len(mailbox) /\ Len(mailbox) \in Nat
      /\ \A i \in 1..Len(mailbox) :
           /\ mailbox'[i].op = mailbox[i].op
           /\ mailbox[i].op = "Register" => mailbox'[i].app = mailbox[i].app
           /\ mailbox'[i].from # h
           /\ mailbox'[i].from \in Callers => mailbox'[i] = mailbox[i]
      /\ call'[h] = Idle /\ Idle.st # "answered"
      /\ \A c \in Callers : c # h => call'[c] = call[c]
      BY CallStates DEF Quiet, TypeOK
<1>3. NoManifests'
      BY <1>2 DEF DownInv, NoManifests
<1>4. MailFits'
  <2>1. ASSUME NEW i \in 1..Len(mailbox), NEW g \in Handlers, mailbox'[i].from = g
        PROVE  g # h /\ Asks(request[g], mailbox'[i])
        BY <2>1, <1>2, CallersAre DEF DownInv, MailFits
  <2> QED BY <2>1, <1>1, <1>2 DEF DownInv, MailFits, Asks
<1>5. CallsFit'
      BY <1>1, <1>2, CallersAre DEF DownInv, CallsFit
<1>6. AnswersHold'
  <2>1. ASSUME NEW g \in Handlers, call'[g].st = "answered"
        PROVE  g # h /\ call[g].st = "answered" /\ request'[g] = request[g]
        BY <2>1, <1>1, <1>2, CallersAre
  <2> QED BY <2>1, <1>2 DEF DownInv, AnswersHold, Down
<1>7. \A cred \in held' : cred \in held \/ cred = request[h].cred
      OBVIOUS
<1>8. Credited'
  <2>1. \A g \in Handlers : Serving(request'[g]) => request'[g].cred \in held'
    <3>1. CASE held \subseteq held'
          BY <3>1, <1>1 DEF DownInv, Credited
    <3> QED BY <3>1
  <2>2. \A g \in Handlers : request'[g].at = "register" => request'[g].cred.app[2] <= clock
        BY <1>1 DEF DownInv, Credited
  <2>3. \A cred \in held' : cred.app[2] <= clock
        BY <1>7 DEF DownInv, Credited
  <2>4. \A a \in gone' : \E cred \in held' : cred.app = a
        BY DEF DownInv, Credited
  <2> QED BY <2>1, <2>2, <2>3, <2>4 DEF Credited, Serving
<1>9. LostForGood'
  <2>1. ASSUME NEW cred \in held', apps[cred.app].state = "Unknown"
        PROVE  /\ cred \in held /\ cred.app[2] < clock
               /\ \A g \in Handlers : request'[g].at = "register" => request'[g].cred.app # cred.app
               /\ \A i \in 1..Len(mailbox') :
                    mailbox'[i].op = "Register" => mailbox'[i].app # cred.app
    <3>1. cred \in held
          BY <2>1
    <3>2. /\ cred.app[2] < clock
          /\ \A g \in Handlers : request[g].at = "register" => request[g].cred.app # cred.app
          /\ \A i \in 1..Len(mailbox) : mailbox[i].op = "Register" => mailbox[i].app # cred.app
          BY <2>1, <3>1 DEF DownInv, LostForGood
    <3> QED BY <3>1, <3>2, <1>1, <1>2
  <2> QED BY <2>1, <1>2 DEF LostForGood
<1>10. UnregisteredStayDown'
      BY <1>2 DEF DownInv, UnregisteredStayDown, Down
<1> QED BY <1>3, <1>4, <1>5, <1>6, <1>8, <1>9, <1>10 DEF DownInv
LEMMA ServingStays ==
  ASSUME PlatformInv, DownInv, NEW h \in Handlers,
         Receive(h) \/ Finishing(h) \/ SendAction(h) \/ Disconnect(h)
  PROVE  DownInv'
<1>1. /\ TypeOK /\ CallsPaired /\ SessionsTyped /\ gone \subseteq Apps /\ h \in Callers
      BY CallersAre DEF PlatformInv, Inv, SessionInv, EvaluatorTyped
<1>2. ASSUME request[h].at \notin {"register", "stop"}, UNCHANGED vars
      PROVE  Quiet(h)
      BY <1>1, <1>2, QuietIs DEF DownInv, CallsFit
<1>3. ASSUME Return(h) \/ Drop(h) \/ (call[h] = Idle /\ UNCHANGED vars)
      PROVE  Quiet(h)
      BY <1>1, <1>3, QuietIs
<1>4. NoRequest.at = "none" /\ ~Serving(NoRequest)
      BY DEF NoRequest, Serving
<1>5. Return(h) => call[h].st = "answered"
      BY DEF Return
<1>6. ASSUME NEW r, r.at # "register", r.cred \in held, Admit(h, r)
      PROVE  DownInv'
  <2>1. /\ request[h] = NoRequest /\ UNCHANGED vars /\ Goto(h, r)
        /\ UNCHANGED <<clock, held, gone>>
        BY <1>6 DEF Admit
  <2> QED BY <2>1, <1>1, <1>2, <1>4, <1>6, TurnsStay
<1>7. CASE Receive(h)
  <2>1. PICK cred \in held :
          \/ \E step \in {"touch", "revoke"} : Admit(h, [at |-> step, cred |-> cred])
          \/ \E status \in {"healthy", "unhealthy"} :
               Admit(h, [at |-> "evaluate", cred |-> cred, reported |-> status])
        BY <1>7 DEF Receive
  <2>2. ASSUME NEW step \in {"touch", "revoke"}, Admit(h, [at |-> step, cred |-> cred])
        PROVE  DownInv'
    <3>1. [at |-> step, cred |-> cred].at # "register" /\ [at |-> step, cred |-> cred].cred = cred
          OBVIOUS
    <3> QED BY <3>1, <2>2, <1>6
  <2>3. ASSUME NEW status \in {"healthy", "unhealthy"},
               Admit(h, [at |-> "evaluate", cred |-> cred, reported |-> status])
        PROVE  DownInv'
    <3> DEFINE r == [at |-> "evaluate", cred |-> cred, reported |-> status]
    <3>1. r.at # "register" /\ r.cred = cred /\ Admit(h, r)
          BY <2>3
    <3> HIDE DEF r
    <3> QED BY <3>1, <1>6
  <2> QED BY <2>1, <2>2, <2>3
<1>8. CASE Registered(h)
  <2>1. /\ request[h].at = "register" /\ Return(h) /\ held' = held \cup {request[h].cred}
        /\ Goto(h, NoRequest) /\ UNCHANGED <<clock, gone>>
        BY <1>8 DEF Registered
  <2>2. apps[request[h].cred.app].state # "Unknown"
        BY <2>1, <1>5 DEF DownInv, AnswersHold
  <2> QED BY <2>1, <2>2, <1>1, <1>3, <1>4, TurnsStay
<1>9. CASE Touch(h)
  <2>1. /\ request[h].at = "touch" /\ UNCHANGED vars /\ Goto(h, NoRequest)
        /\ UNCHANGED <<clock, held, gone>>
        BY <1>9 DEF Touch
  <2> QED BY <2>1, <1>1, <1>2, <1>4, TurnsStay
<1>10. CASE Revoke(h)
  <2> DEFINE r == [at |-> "stop", cred |-> request[h].cred]
  <2>1. /\ request[h].at = "revoke" /\ UNCHANGED vars /\ Goto(h, r)
        /\ UNCHANGED <<clock, held, gone>> /\ r.at = "stop" /\ r.cred = request[h].cred
        BY <1>10 DEF Revoke
  <2>2. request[h].cred \in held
        BY <2>1 DEF DownInv, Credited, Serving
  <2> HIDE DEF r
  <2> QED BY <2>1, <2>2, <1>1, <1>2, TurnsStay
<1>11. CASE Unregistered(h)
  <2>1. /\ request[h].at = "stop" /\ Return(h) /\ gone' = gone \cup {request[h].cred.app}
        /\ Goto(h, NoRequest) /\ UNCHANGED <<clock, held>>
        BY <1>11 DEF Unregistered
  <2>2. Down(request[h].cred.app) /\ request[h].cred \in held
        BY <2>1, <1>5 DEF DownInv, AnswersHold, Credited, Serving
  <2> QED BY <2>1, <2>2, <1>1, <1>3, <1>4, TurnsStay
<1>12. CASE Evaluate(h)
  <2>1. PICK r : /\ Goto(h, r) /\ r.at \notin {"register", "touch", "revoke", "stop", "evaluate"}
                 /\ request[h].at = "evaluate" /\ UNCHANGED vars /\ UNCHANGED <<clock, held, gone>>
    <3>1. /\ request[h].at = "evaluate" /\ UNCHANGED vars /\ UNCHANGED <<clock, held, gone>>
          /\ \/ Goto(h, NoRequest)
             \/ Goto(h, [at |-> "send",
                         action |-> [app |-> request[h].cred.app, decided |-> clock]])
          BY <1>12 DEF Evaluate
    <3>2. [at |-> "send", action |-> [app |-> request[h].cred.app, decided |-> clock]].at = "send"
          OBVIOUS
    <3> QED BY <3>1, <3>2, <1>4
  <2> QED BY <2>1, <1>1, <1>2, TurnsStay DEF Serving
<1>13. CASE SendAction(h)
  <2>1. /\ request[h].at = "send" /\ UNCHANGED vars /\ Goto(h, NoRequest)
        /\ UNCHANGED <<clock, held, gone>>
        BY <1>13 DEF SendAction
  <2> QED BY <2>1, <1>1, <1>2, <1>4, TurnsStay
<1>14. CASE Disconnect(h)
  <2>1. /\ Return(h) \/ Drop(h) \/ (call[h] = Idle /\ UNCHANGED vars)
        /\ Goto(h, NoRequest) /\ UNCHANGED <<clock, held, gone>>
        BY <1>14 DEF Disconnect
  <2> QED BY <2>1, <1>1, <1>3, <1>4, TurnsStay
<1> QED BY <1>7, <1>8, <1>9, <1>10, <1>11, <1>12, <1>13, <1>14 DEF Finishing

(* A registration is of the present, so it is of no app that was lost *)
LEMMA RegisterStays ==
  ASSUME SessionsTyped, gone \subseteq Apps, DownInv, NEW h \in Handlers, NEW name \in Names,
         Register(h, name)
  PROVE  DownInv'
<1> DEFINE a == AppId(name, clock)
           r == [at |-> "register", cred |-> [app |-> a, token |-> issued + 1]]
<1>1. /\ request[h] = NoRequest /\ Goto(h, r) /\ gone' = gone \ {a}
      /\ UNCHANGED <<vars, clock, held>>
      BY DEF Register
<1>2. /\ a[2] = clock /\ clock \in Nat /\ r.at = "register" /\ r.cred.app = a
      BY DEF AppId, SessionsTyped, Time
<1>3. /\ request'[h] = r /\ \A g \in Handlers : g # h => request'[g] = request[g]
      BY <1>1 DEF Goto, SessionsTyped
<1>4. call[h] = Idle /\ Idle.st # "answered"
      BY <1>1, CallStates DEF DownInv, CallsFit, NoRequest
<1>5. \A i \in 1..Len(mailbox) : mailbox[i].from # h
      BY <1>1 DEF DownInv, MailFits, Asks, NoRequest
<1> HIDE DEF a, r
<1>6. NoManifests' /\ CallsFit'
      BY <1>1, <1>2, <1>3, <1>4 DEF DownInv, NoManifests, CallsFit, vars
<1>7. MailFits'
      BY <1>1, <1>3, <1>5 DEF DownInv, MailFits, Asks, vars
<1>8. AnswersHold'
      BY <1>1, <1>3, <1>4 DEF DownInv, AnswersHold, Down, vars
<1>9. Credited'
  <2>1. \A g \in Handlers : Serving(request'[g]) => request'[g].cred \in held
        BY <1>2, <1>3 DEF DownInv, Credited, Serving
  <2>2. \A g \in Handlers : request'[g].at = "register" => request'[g].cred.app[2] <= clock
        BY <1>2, <1>3 DEF DownInv, Credited
  <2> QED BY <2>1, <2>2, <1>1 DEF DownInv, Credited, Serving
<1>10. LostForGood'
  <2>1. ASSUME NEW cred \in held, apps[cred.app].state = "Unknown"
        PROVE  /\ cred.app[2] < clock
               /\ \A g \in Handlers : request'[g].at = "register" => request'[g].cred.app # cred.app
    <3>1. /\ cred.app[2] < clock
          /\ \A g \in Handlers : request[g].at = "register" => request[g].cred.app # cred.app
          BY <2>1 DEF DownInv, LostForGood
    <3>2. cred.app # a
          BY <3>1, <1>2
    <3> QED BY <3>1, <3>2, <1>2, <1>3
  <2> QED BY <2>1, <1>1 DEF DownInv, LostForGood, vars
<1>11. UnregisteredStayDown'
      BY <1>1 DEF DownInv, UnregisteredStayDown, Down, vars
<1> QED BY <1>6, <1>7, <1>8, <1>9, <1>10, <1>11 DEF DownInv

(* What is asked is asked for an app that the sender has at hand *)
LEMMA AskingStays ==
  ASSUME SessionsTyped, TypeOK, gone \subseteq Apps, DownInv, NEW c \in Callers, NEW cmd \in Command,
         Send(c, cmd), UNCHANGED pvars,
         \/ c \in Handlers /\ Asks(request[c], cmd)
         \/ c = Loop /\ cmd.op = "Restart"
  PROVE  DownInv'
<1>1. /\ mailbox \in Seq(Command) /\ mailbox' = Append(mailbox, cmd) /\ cmd.from = c
      /\ call' = [call EXCEPT ![c] = Waiting] /\ call \in [Callers -> CallState]
      /\ UNCHANGED <<apps, pvars>>
      BY DEF Send, TypeOK
<1>2. /\ Len(mailbox) \in Nat /\ Len(mailbox') = Len(mailbox) + 1
      /\ mailbox'[Len(mailbox)+1] = cmd
      /\ \A i \in 1..Len(mailbox) : mailbox'[i] = mailbox[i]
      BY <1>1, AppendIs
<1>3. /\ call'[c] = Waiting /\ Waiting.st # "answered"
      /\ \A b \in Callers : b # c => call'[b] = call[b]
      BY <1>1, CallStates
<1>4. \A i \in 1..Len(mailbox') : i \in 1..Len(mailbox) \/ i = Len(mailbox) + 1
      BY <1>2
<1>5. cmd.op \in {"Register", "Stop", "Restart"}
      BY DEF Asks
<1>6. NoManifests' /\ Credited' /\ UnregisteredStayDown'
      BY <1>1 DEF DownInv, NoManifests, Credited, Serving, UnregisteredStayDown, Down, pvars
<1>7. MailFits'
  <2>1. \A h \in Handlers : cmd.from = h => Asks(request[h], cmd)
        BY <1>1, CallersAre
  <2> QED BY <2>1, <1>1, <1>2, <1>4, <1>5 DEF DownInv, MailFits, Asks, pvars
<1>8. CallsFit'
      BY <1>1, <1>3, CallersAre DEF DownInv, CallsFit, Asks, pvars
<1>9. AnswersHold'
      BY <1>1, <1>3, CallersAre DEF DownInv, AnswersHold, Down, pvars
<1>10. LostForGood'
  <2>1. ASSUME NEW cred \in held, apps[cred.app].state = "Unknown", cmd.op = "Register"
        PROVE  cmd.app # cred.app
    <3>1. c \in Handlers /\ request[c].at = "register" /\ cmd.app = request[c].cred.app
          BY <2>1 DEF Asks
    <3> QED BY <3>1, <2>1 DEF DownInv, LostForGood
  <2> QED BY <2>1, <1>1, <1>2, <1>4 DEF DownInv, LostForGood, pvars
<1> QED BY <1>6, <1>7, <1>8, <1>9, <1>10 DEF DownInv

(* The clock moves on; a restart of the agent forgets every app *)
LEMMA RestStays ==
  ASSUME SessionsTyped, TypeOK, gone \subseteq Apps, DownInv,
         \/ Tick \/ PlatformRestart \/ TakeAction \/ ActionDone \/ UNCHANGED platformvars
  PROVE  DownInv'
<1>1. clock \in Nat /\ \A cred \in held : cred.app \in Apps /\ cred.app[2] \in Nat
      BY AppsAre DEF SessionsTyped, Time, Credential
<1>2. \A h \in Handlers : request[h].at = "register" => request[h].cred.app[2] \in Nat
      BY HandlerFields, AppsAre DEF Works
<1>3. CASE ActionDone
  <2>1. /\ call' = [call EXCEPT ![Loop] = Idle]
        /\ UNCHANGED <<apps, mailbox, clock, held, request, gone>>
        BY <1>3 DEF ActionDone, Return
  <2>2. \A h \in Handlers : call'[h] = call[h]
        BY <2>1, CallersAre DEF TypeOK
  <2> QED BY <2>1, <2>2 DEF DownInv, NoManifests, MailFits, Asks, CallsFit, AnswersHold, Down,
                            Credited, Serving, LostForGood, UnregisteredStayDown
<1>4. CASE Tick
  <2>1. clock' = clock + 1 /\ UNCHANGED <<vars, held, request, gone>>
        BY <1>4 DEF Tick
  <2>2. NoManifests' /\ MailFits' /\ CallsFit' /\ AnswersHold' /\ UnregisteredStayDown'
        BY <2>1 DEF DownInv, NoManifests, MailFits, Asks, CallsFit, AnswersHold, Down,
                    UnregisteredStayDown, vars
  <2>3. Credited'
    <3>1. \A h \in Handlers : request[h].at = "register" => request[h].cred.app[2] <= clock + 1
          BY <1>1, <1>2 DEF DownInv, Credited
    <3>2. \A cred \in held : cred.app[2] <= clock + 1
          BY <1>1 DEF DownInv, Credited
    <3> QED BY <3>1, <3>2, <2>1 DEF DownInv, Credited, Serving
  <2>4. LostForGood'
    <3>1. \A cred \in held : apps[cred.app].state = "Unknown" => cred.app[2] < clock + 1
          BY <1>1 DEF DownInv, LostForGood
    <3> QED BY <3>1, <2>1 DEF DownInv, LostForGood, vars
  <2> QED BY <2>2, <2>3, <2>4 DEF DownInv
<1>5. CASE PlatformRestart
  <2>1. /\ clock' = clock + 1 /\ UNCHANGED <<held, gone>>
        /\ apps' = [a \in Apps |-> UnknownApp] /\ mailbox' = <<>>
        /\ call' = [c \in Callers |-> Idle] /\ request' = [h \in Handlers |-> NoRequest]
        BY <1>5 DEF PlatformRestart, AgentRestart
  <2>2. /\ \A a \in Apps : apps'[a].state = "Unknown" /\ apps'[a].manifest = "none"
        /\ Len(mailbox') = 0
        /\ \A h \in Handlers : /\ call'[h] = Idle /\ request'[h] = NoRequest
                               /\ request'[h].at = "none"
        /\ Idle.st # "answered"
        BY <2>1, CallersAre, CallStates DEF UnknownApp, NoRequest
  <2>3. NoManifests' /\ MailFits' /\ CallsFit' /\ AnswersHold'
        BY <2>2 DEF NoManifests, MailFits, CallsFit, AnswersHold
  <2>4. \A cred \in held : cred.app[2] <= clock' /\ cred.app[2] < clock'
        BY <1>1, <2>1 DEF DownInv, Credited
  <2>5. Credited'
        BY <2>1, <2>2, <2>4 DEF DownInv, Credited, Serving
  <2>6. LostForGood'
        BY <2>1, <2>2, <2>4 DEF LostForGood
  <2>7. UnregisteredStayDown'
        BY <2>1, <2>2 DEF UnregisteredStayDown
  <2> QED BY <2>3, <2>5, <2>6, <2>7 DEF DownInv
<1>6. CASE TakeAction \/ UNCHANGED platformvars
  <2>1. UNCHANGED <<vars, clock, held, request, gone>>
        BY <1>6 DEF TakeAction, platformvars, pvars
  <2> QED BY <2>1 DEF DownInv, NoManifests, MailFits, Asks, CallsFit, AnswersHold, Down,
                      Credited, Serving, LostForGood, UnregisteredStayDown, vars
<1> QED BY <1>3, <1>4, <1>5, <1>6

LEMMA NextStays ==
  ASSUME PlatformInv, DownInv, [PlatformNext]_platformvars
  PROVE  DownInv'
<1>1. /\ Inv /\ TypeOK /\ CallsPaired /\ SessionsTyped /\ gone \subseteq Apps /\ acting \in Acting
      BY DEF PlatformInv, Inv, SessionInv, EvaluatorTyped
<1>2. CASE ManagerStep
      BY <1>1, <1>2, TaskStays
<1>3. CASE Tick \/ PlatformRestart \/ TakeAction \/ ActionDone \/ UNCHANGED platformvars
      BY <1>1, <1>3, RestStays
<1>4. CASE AskRestart
  <2>1. PICK cmd \in Command : /\ Send(Loop, cmd) /\ UNCHANGED pvars /\ cmd.op = "Restart"
        BY <1>1, <1>4, AskRestartSends
  <2> QED BY <2>1, <1>1, AskingStays, CallersAre
<1>5. ASSUME NEW h \in Handlers,
             \/ Arriving(h) \/ AskManager(h) \/ Finishing(h)
             \/ SendAction(h) \/ Disconnect(h)
      PROVE  DownInv'
  <2>1. CASE Refuse(h)
        BY <2>1, <1>3 DEF Refuse
  <2>2. CASE \E name \in Names : Register(h, name)
        BY <2>2, <1>1, RegisterStays
  <2>3. CASE AskManager(h)
    <3>1. PICK cmd \in Command :
            /\ Send(h, cmd) /\ UNCHANGED pvars /\ cmd.app = request[h].cred.app
            /\ \/ request[h].at = "register" /\ cmd.op = "Register"
               \/ request[h].at = "stop" /\ cmd.op = "Stop"
          BY <2>3, <1>1, AskManagerSends
    <3>2. Asks(request[h], cmd) /\ h \in Callers
          BY <3>1, CallersAre DEF Asks
    <3> QED BY <3>1, <3>2, <1>1, AskingStays
  <2>4. CASE Receive(h) \/ Finishing(h) \/ SendAction(h) \/ Disconnect(h)
        BY <2>4, ServingStays
  <2> QED BY <1>5, <2>1, <2>2, <2>3, <2>4 DEF Arriving
<1> QED BY <1>2, <1>3, <1>4, <1>5 DEF PlatformNext

LEMMA InitStays == PlatformInit => DownInv
<1> SUFFICES ASSUME PlatformInit PROVE DownInv
    OBVIOUS
<1>1. /\ apps = [a \in Apps |-> UnknownApp] /\ mailbox = <<>> /\ call = [c \in Callers |-> Idle]
      /\ held = {} /\ gone = {} /\ request = [h \in Handlers |-> NoRequest]
      BY DEF PlatformInit, Init
<1>2. /\ \A a \in Apps : apps[a].manifest = "none"
      /\ Len(mailbox) = 0 /\ Idle.st # "answered"
      /\ \A h \in Handlers : call[h] = Idle /\ request[h].at = "none"
      BY <1>1, CallersAre, CallStates DEF UnknownApp, NoRequest
<1> QED BY <1>1, <1>2 DEF DownInv, NoManifests, MailFits, CallsFit, AnswersHold, Credited,
                          Serving, LostForGood, UnregisteredStayDown

(* An app whose unregister_app was answered stays down for good, whichever  *)
(* restarts its evaluator had decided, whichever requests are dropped on    *)
(* the way and however often the agent restarts: a restart command finds no *)
(* manifest, and the id of an app belongs to the millisecond that is over.  *)
THEOREM UnregisteredAppsStayDown == PlatformSpec => []UnregisteredStayDown
<1>1. PlatformInv /\ DownInv /\ [PlatformNext]_platformvars => DownInv'
      BY NextStays
<1>2. DownInv => UnregisteredStayDown
      BY DEF DownInv
<1> QED BY <1>1, <1>2, InitStays, PlatformInvariance, PTL DEF PlatformSpec
================================================================================
