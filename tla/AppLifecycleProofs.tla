------------------------- MODULE AppLifecycleProofs -------------------------
(***************************************************************************)
(* Proofs about the lifecycle manager.  Every property is a consequence of *)
(* one invariant of the machine (the table and the processes), Consistent, *)
(* which each handler preserves whatever the PAL answers, and so does the  *)
(* operating system behind the manager's back.                             *)
(***************************************************************************)
EXTENDS AppLifecycle, TLAPS

(* The inductive invariant, of a machine m *)
MachineType == [apps : [Apps -> AppInstance], os : [Pids -> Process]]

OwnPids(m) ==
  \A a \in Apps : m.apps[a].pid # NoPid =>
    /\ m.apps[a].state = "Running"
    /\ m.os[m.apps[a].pid].app = a
    /\ m.os[m.apps[a].pid].parent = "agent"
    /\ m.os[m.apps[a].pid].phase # "free"
    /\ m.os[m.apps[a].pid].escape = "no"

Running(m) ==
  \A a \in Apps : m.apps[a].state = "Running" /\ m.apps[a].pid = NoPid =>
    \E p \in Pids : m.os[p].app = a /\ m.os[p].escape = "uninstall"

Explained(m) ==
  \A p \in Pids : m.os[p].phase = "running" /\ m.os[p].escape = "no" =>
    m.os[p].app \in Apps /\ m.apps[m.os[p].app].pid = p

Manifests(m) ==
  \A a \in Apps :
    /\ m.apps[a].manifest = "none" =>
         m.apps[a].state \in {"Unknown", "Registered", "Stopped"}
    /\ m.apps[a].state = "Registered" => m.apps[a].manifest = "none"

Unknowns(m) == \A a \in Apps : m.apps[a].state = "Unknown" => m.apps[a] = UnknownApp

Escapees(m) ==
  \A p \in Pids : m.os[p].escape = "uninstall" =>
    m.os[p].parent = "agent" /\ m.os[p].phase # "free"

Consistent(m) ==
  /\ m \in MachineType
  /\ OwnPids(m) /\ Running(m) /\ Explained(m)
  /\ Manifests(m) /\ Unknowns(m) /\ Escapees(m)

(* What a handler must establish *)
MachineOf(out) == [apps |-> out.apps, os |-> out.os]

Moves(m, n) ==
  \A a \in Apps :
    n.apps[a].state = m.apps[a].state
      \/ <<m.apps[a].state, n.apps[a].state>> \in LegalMoves

Good(m, out) ==
  /\ Consistent(MachineOf(out))
  /\ Moves(m, MachineOf(out))
  /\ out.answer \in Answer

-----------------------------------------------------------------------------
(* The updates the handlers are made of, field by field *)
Spawned(a) == [app |-> a, parent |-> "agent", escape |-> "no", phase |-> "running"]

Pair(as, ps) == [apps |-> as, os |-> ps]

LEMMA SetAppIs ==
  ASSUME NEW m, m \in MachineType, NEW a \in Apps, NEW inst
  PROVE  SetApp(m, a, inst) = Pair([m.apps EXCEPT ![a] = inst], m.os)
  BY DEF SetApp, Pair, MachineType

LEMMA TerminateIs ==
  ASSUME NEW m, m \in MachineType, NEW p \in Pids
  PROVE  Terminate(m, p) =
           Pair(m.apps, [m.os EXCEPT ![p].phase = IF @ = "running" THEN "signalled" ELSE @])
  BY DEF Terminate, Pair, MachineType

LEMMA AbandonIs ==
  ASSUME NEW m, m \in MachineType, NEW p \in Pids, NEW why
  PROVE  Abandon(m, p, why) = Pair(m.apps, [m.os EXCEPT ![p].escape = why])
  BY DEF Abandon, Pair, MachineType

LEMMA AbandonPair ==
  ASSUME NEW as \in [Apps -> AppInstance], NEW ps \in [Pids -> Process], NEW p \in Pids, NEW why
  PROVE  Abandon(Pair(as, ps), p, why) = Pair(as, [ps EXCEPT ![p].escape = why])
<1>1. PICK m : m = Pair(as, ps)
      OBVIOUS
<1>2. m \in MachineType /\ m.apps = as /\ m.os = ps
      BY <1>1 DEF Pair, MachineType
<1>3. Abandon(m, p, why) = Pair(m.apps, [m.os EXCEPT ![p].escape = why])
      BY <1>2, AbandonIs
<1> QED BY <1>1, <1>2, <1>3

LEMMA SpawnIs ==
  ASSUME NEW m, m \in MachineType, NEW a \in Apps, NEW p \in Pids
  PROVE  Spawn(m, a, p) = Pair(m.apps, [m.os EXCEPT ![p] = Spawned(a)])
<1>1. ASSUME NEW proc
      PROVE  [m EXCEPT !.os[p] = proc] = Pair(m.apps, [m.os EXCEPT ![p] = proc])
      BY DEF Pair, MachineType
<1>2. QED BY <1>1 DEF Spawn, Spawned

-----------------------------------------------------------------------------
(* The four ways a handler changes the machine, and that they preserve      *)
(* Consistent                                                               *)

LegalInstance(inst) ==
  /\ inst \in AppInstance
  /\ inst.pid # NoPid => inst.state = "Running"
  /\ inst.manifest = "none" => inst.state \in {"Unknown", "Registered", "Stopped"}
  /\ inst.state = "Registered" => inst.manifest = "none"
  /\ inst.state = "Unknown" => inst = UnknownApp

(* An entry changes and keeps its pid *)
LEMMA Relabel ==
  ASSUME NEW m, Consistent(m), NEW a \in Apps, NEW inst, LegalInstance(inst),
         inst.pid = m.apps[a].pid,
         inst.state = "Running" => m.apps[a].state = "Running"
  PROVE  Consistent(Pair([m.apps EXCEPT ![a] = inst], m.os))
<1> DEFINE n == Pair([m.apps EXCEPT ![a] = inst], m.os)
<1>0. /\ n.apps[a] = inst /\ \A b \in Apps : b # a => n.apps[b] = m.apps[b]
      /\ n.os = m.os /\ n \in MachineType
      BY DEF Pair, Consistent, MachineType, LegalInstance
<1> HIDE DEF n
<1>1. \A b \in Apps : n.apps[b].pid = m.apps[b].pid
      BY <1>0
<1>2. OwnPids(n)
      BY <1>0, <1>1 DEF OwnPids, Consistent, LegalInstance
<1>3. Running(n)
  <2> SUFFICES ASSUME NEW b \in Apps, n.apps[b].state = "Running", n.apps[b].pid = NoPid
               PROVE  m.apps[b].state = "Running" /\ m.apps[b].pid = NoPid
      BY <1>0 DEF Running, Consistent
  <2>1. CASE b = a
        BY <1>0, <1>1, <2>1
  <2>2. CASE b # a
        BY <1>0, <2>2
  <2> QED BY <2>1, <2>2
<1>4. Explained(n)
      BY <1>0, <1>1 DEF Explained, Consistent
<1>5. Manifests(n) /\ Unknowns(n) /\ Escapees(n)
      BY <1>0 DEF Manifests, Unknowns, Escapees, Consistent, LegalInstance
<1>6. Consistent(n)
      BY <1>0, <1>2, <1>3, <1>4, <1>5 DEF Consistent
<1> QED BY <1>6 DEF n

(* An entry loses its pid, and its process is signalled or marked *)
LEMMA Release ==
  ASSUME NEW m, Consistent(m), NEW a \in Apps, NEW p \in Pids, m.apps[a].pid = p,
         NEW inst, LegalInstance(inst), inst.pid = NoPid,
         NEW proc \in Process, proc.app = a, proc.parent = "agent", proc.phase # "free",
         proc.phase # "running" \/ proc.escape # "no",
         inst.state = "Running" => proc.escape = "uninstall"
  PROVE  Consistent(Pair([m.apps EXCEPT ![a] = inst], [m.os EXCEPT ![p] = proc]))
<1> DEFINE n == Pair([m.apps EXCEPT ![a] = inst], [m.os EXCEPT ![p] = proc])
<1>z. /\ m.apps \in [Apps -> AppInstance] /\ m.os \in [Pids -> Process]
      /\ inst \in AppInstance
      BY DEF Consistent, MachineType, LegalInstance
<1>y. n = Pair([m.apps EXCEPT ![a] = inst], [m.os EXCEPT ![p] = proc])
      OBVIOUS
<1> HIDE DEF n
<1>0. /\ n \in MachineType
      /\ n.apps[a] = inst /\ \A b \in Apps : b # a => n.apps[b] = m.apps[b]
      /\ n.os[p] = proc /\ \A q \in Pids : q # p => n.os[q] = m.os[q]
      BY <1>z, <1>y DEF Pair, MachineType
<1>1. /\ p # NoPid /\ m.os[p].app = a /\ m.os[p].escape = "no"
      /\ \A b \in Apps : b # a => m.apps[b].pid # p
  <2>1. p # NoPid
        BY ConstantsAssumption
  <2> QED BY <2>1 DEF Consistent, OwnPids
<1>2. OwnPids(n)
  <2> SUFFICES ASSUME NEW b \in Apps, n.apps[b].pid # NoPid
               PROVE  b # a /\ m.apps[b].pid \in Pids \ {p}
      BY <1>0 DEF OwnPids, Consistent
  <2> QED BY <1>0, <1>1 DEF Consistent, MachineType, AppInstance
<1>3. Running(n)
  <2> SUFFICES ASSUME NEW b \in Apps, n.apps[b].state = "Running", n.apps[b].pid = NoPid
               PROVE  \E q \in Pids : n.os[q].app = b /\ n.os[q].escape = "uninstall"
      BY DEF Running
  <2>1. CASE b = a
        BY <1>0, <2>1
  <2>2. CASE b # a
    <3>1. PICK q \in Pids : m.os[q].app = b /\ m.os[q].escape = "uninstall"
          BY <1>0, <2>2 DEF Consistent, Running
    <3>2. q # p
          BY <3>1, <1>1
    <3> QED BY <1>0, <3>1, <3>2
  <2> QED BY <2>1, <2>2
<1>4. Explained(n)
  <2> SUFFICES ASSUME NEW q \in Pids, n.os[q].phase = "running", n.os[q].escape = "no"
               PROVE  n.os[q].app \in Apps /\ n.apps[n.os[q].app].pid = q
      BY DEF Explained
  <2>1. q # p
        BY <1>0
  <2>2. m.os[q].app \in Apps /\ m.apps[m.os[q].app].pid = q
        BY <1>0, <2>1 DEF Explained, Consistent
  <2> QED BY <1>0, <2>1, <2>2
<1>5. Manifests(n) /\ Unknowns(n) /\ Escapees(n)
      BY <1>0 DEF Manifests, Unknowns, Escapees, Consistent, LegalInstance
<1>6. Consistent(n)
      BY <1>0, <1>2, <1>3, <1>4, <1>5 DEF Consistent
<1> QED BY <1>6 DEF n

(* An entry without a pid gets that of a process started for it *)
LEMMA Track ==
  ASSUME NEW m, Consistent(m), NEW a \in Apps, m.apps[a].pid = NoPid,
         NEW p \in FreePids(m), NEW inst, LegalInstance(inst),
         inst.state = "Running", inst.pid = p
  PROVE  Consistent(Pair([m.apps EXCEPT ![a] = inst], [m.os EXCEPT ![p] = Spawned(a)]))
<1> DEFINE n == Pair([m.apps EXCEPT ![a] = inst], [m.os EXCEPT ![p] = Spawned(a)])
<1>a. /\ Spawned(a) \in Process
      /\ Spawned(a).app = a /\ Spawned(a).parent = "agent" /\ Spawned(a).phase = "running"
      /\ Spawned(a).escape = "no"
      BY DEF Spawned, Process, Escape
<1>b. p \in Pids /\ p # NoPid /\ m.os[p].phase = "free"
      BY ConstantsAssumption DEF FreePids
<1>z. /\ m.apps \in [Apps -> AppInstance] /\ m.os \in [Pids -> Process]
      /\ inst \in AppInstance
      BY DEF Consistent, MachineType, LegalInstance
<1>y. n = Pair([m.apps EXCEPT ![a] = inst], [m.os EXCEPT ![p] = Spawned(a)])
      OBVIOUS
<1> HIDE DEF n
<1>0. /\ n \in MachineType
      /\ n.apps[a] = inst /\ \A b \in Apps : b # a => n.apps[b] = m.apps[b]
      /\ n.os[p] = Spawned(a) /\ \A q \in Pids : q # p => n.os[q] = m.os[q]
      BY <1>z, <1>y, <1>a, <1>b DEF Pair, MachineType
<1>2. OwnPids(n)
  <2> SUFFICES ASSUME NEW b \in Apps, b # a, n.apps[b].pid # NoPid
               PROVE  m.apps[b].pid \in Pids \ {p}
      BY <1>0, <1>a DEF OwnPids, Consistent
  <2> QED BY <1>0, <1>b DEF Consistent, OwnPids, MachineType, AppInstance
<1>3. Running(n)
  <2> SUFFICES ASSUME NEW b \in Apps, n.apps[b].state = "Running", n.apps[b].pid = NoPid
               PROVE  \E q \in Pids : n.os[q].app = b /\ n.os[q].escape = "uninstall"
      BY DEF Running
  <2>1. b # a
        BY <1>0, <1>b
  <2>2. PICK q \in Pids : m.os[q].app = b /\ m.os[q].escape = "uninstall"
        BY <1>0, <2>1 DEF Consistent, Running
  <2>3. q # p
        BY <1>b, <2>2 DEF Consistent, Escapees
  <2> QED BY <1>0, <2>2, <2>3
<1>4. Explained(n)
  <2> SUFFICES ASSUME NEW q \in Pids, q # p, n.os[q].phase = "running", n.os[q].escape = "no"
               PROVE  n.os[q].app \in Apps /\ n.apps[n.os[q].app].pid = q
      BY <1>0, <1>a DEF Explained
  <2>1. m.os[q].app \in Apps /\ m.apps[m.os[q].app].pid = q
        BY <1>0 DEF Explained, Consistent
  <2>2. q # NoPid
        BY ConstantsAssumption
  <2>3. m.os[q].app # a
        BY <2>1, <2>2
  <2> QED BY <1>0, <2>1, <2>3
<1>5. Manifests(n) /\ Unknowns(n) /\ Escapees(n)
      BY <1>0, <1>a DEF Manifests, Unknowns, Escapees, Consistent, LegalInstance
<1>6. Consistent(n)
      BY <1>0, <1>2, <1>3, <1>4, <1>5 DEF Consistent
<1> QED BY <1>6 DEF n

(* A process is started and marked as lost at once *)
LEMMA Leak ==
  ASSUME NEW m, Consistent(m), NEW p \in FreePids(m), NEW proc \in Process,
         proc.parent = "agent", proc.phase # "free", proc.escape = "lost"
  PROVE  Consistent(Pair(m.apps, [m.os EXCEPT ![p] = proc]))
<1> DEFINE n == Pair(m.apps, [m.os EXCEPT ![p] = proc])
<1>0. /\ n.apps = m.apps /\ n.os[p] = proc /\ \A q \in Pids : q # p => n.os[q] = m.os[q]
      /\ n \in MachineType /\ p \in Pids /\ m.os[p].phase = "free"
      BY DEF Pair, Consistent, MachineType, FreePids
<1> HIDE DEF n
<1>2. OwnPids(n)
  <2> SUFFICES ASSUME NEW b \in Apps, m.apps[b].pid # NoPid
               PROVE  m.apps[b].pid \in Pids \ {p}
      BY <1>0 DEF OwnPids, Consistent
  <2> QED BY <1>0 DEF Consistent, OwnPids, MachineType, AppInstance
<1>3. Running(n)
  <2> SUFFICES ASSUME NEW b \in Apps, m.apps[b].state = "Running", m.apps[b].pid = NoPid
               PROVE  \E q \in Pids : n.os[q].app = b /\ n.os[q].escape = "uninstall"
      BY <1>0 DEF Running
  <2>1. PICK q \in Pids : m.os[q].app = b /\ m.os[q].escape = "uninstall"
        BY DEF Consistent, Running
  <2>2. q # p
        BY <1>0, <2>1 DEF Consistent, Escapees
  <2> QED BY <1>0, <2>1, <2>2
<1>4. Explained(n)
      BY <1>0 DEF Explained, Consistent
<1>5. Manifests(n) /\ Unknowns(n) /\ Escapees(n)
      BY <1>0 DEF Manifests, Unknowns, Escapees, Consistent
<1>6. Consistent(n)
      BY <1>0, <1>2, <1>3, <1>4, <1>5 DEF Consistent
<1> QED BY <1>6 DEF n

-----------------------------------------------------------------------------
(* The handlers *)

LEMMA PairOutcome ==
  ASSUME NEW as, NEW ps, NEW x
  PROVE  /\ MachineOf(Outcome(Pair(as, ps), x)) = Pair(as, ps)
         /\ Outcome(Pair(as, ps), x).answer = x
         /\ Pair(as, ps).apps = as /\ Pair(as, ps).os = ps
  BY DEF MachineOf, Outcome, Pair

LEMMA SameOutcome ==
  ASSUME NEW m, Consistent(m), NEW x \in Answer
  PROVE  Good(m, Outcome(m, x))
<1>1. MachineOf(Outcome(m, x)) = m
      BY DEF MachineOf, Outcome, Consistent, MachineType
<1>2. Outcome(m, x).answer = x
      BY DEF Outcome
<1> QED BY <1>1, <1>2 DEF Good, Moves

(* An entry that is replaced in one legal move *)
LEMMA MovesPair ==
  ASSUME NEW m, m \in MachineType, NEW a \in Apps, NEW inst, NEW ps,
         inst.state = m.apps[a].state \/ <<m.apps[a].state, inst.state>> \in LegalMoves
  PROVE  Moves(m, Pair([m.apps EXCEPT ![a] = inst], ps))
<1> DEFINE n == Pair([m.apps EXCEPT ![a] = inst], ps)
<1>1. n.apps[a] = inst /\ \A b \in Apps : b # a => n.apps[b] = m.apps[b]
      BY DEF Pair, MachineType
<1> HIDE DEF n
<1>2. Moves(m, n)
      BY <1>1 DEF Moves
<1> QED BY <1>2 DEF n

(* The process that an entry refers to, signalled or marked *)
Ended(m, p, why) ==
  IF why = "signalled"
    THEN [m.os[p] EXCEPT !.phase = IF @ = "running" THEN "signalled" ELSE @]
    ELSE [m.os[p] EXCEPT !.escape = why]

LEMMA EndedIs ==
  ASSUME NEW m, Consistent(m), NEW a \in Apps, m.apps[a].pid # NoPid,
         NEW why \in {"signalled", "lost", "uninstall"}
  PROVE  LET p    == m.apps[a].pid
             proc == Ended(m, p, why)
         IN  /\ p \in Pids /\ proc \in Process /\ proc.app = a /\ proc.parent = "agent"
             /\ proc.phase # "free"
             /\ proc.phase # "running" \/ proc.escape # "no"
             /\ why = "uninstall" => proc.escape = "uninstall"
<1>1. m.apps[a] \in AppInstance /\ m.os \in [Pids -> Process]
      BY DEF Consistent, MachineType
<1>2. m.apps[a].pid \in Pids
      BY <1>1 DEF AppInstance
<1>3. /\ m.os[m.apps[a].pid] \in Process
      /\ m.os[m.apps[a].pid].app = a /\ m.os[m.apps[a].pid].parent = "agent"
      /\ m.os[m.apps[a].pid].phase # "free"
      BY <1>1, <1>2 DEF Consistent, OwnPids
<1> QED BY <1>2, <1>3 DEF Ended, Process, Escape

(* The three endings as a handler makes them: the signal or the mark, then   *)
(* the entry                                                                 *)
LEMMA EndedEntry ==
  ASSUME NEW m, m \in MachineType, NEW a \in Apps, NEW p \in Pids, NEW inst
  PROVE  /\ SetApp(Terminate(m, p), a, inst)
              = Pair([m.apps EXCEPT ![a] = inst], [m.os EXCEPT ![p] = Ended(m, p, "signalled")])
         /\ \A why \in {"lost", "uninstall"} :
              SetApp(Abandon(m, p, why), a, inst)
                = Pair([m.apps EXCEPT ![a] = inst], [m.os EXCEPT ![p] = Ended(m, p, why)])
<1>1. ASSUME NEW ps
      PROVE  SetApp(Pair(m.apps, ps), a, inst) = Pair([m.apps EXCEPT ![a] = inst], ps)
      BY DEF SetApp, Pair
<1>2. m.os \in [Pids -> Process]
      BY DEF MachineType
<1>3. Terminate(m, p) = Pair(m.apps, [m.os EXCEPT ![p] = Ended(m, p, "signalled")])
  <2>1. [m.os EXCEPT ![p].phase = IF @ = "running" THEN "signalled" ELSE @]
          = [m.os EXCEPT ![p] = Ended(m, p, "signalled")]
        BY <1>2 DEF Ended
  <2> QED BY <2>1, TerminateIs
<1>4. ASSUME NEW why \in {"lost", "uninstall"}
      PROVE  Abandon(m, p, why) = Pair(m.apps, [m.os EXCEPT ![p] = Ended(m, p, why)])
  <2>1. [m.os EXCEPT ![p].escape = why] = [m.os EXCEPT ![p] = Ended(m, p, why)]
        BY <1>2 DEF Ended
  <2> QED BY <2>1, AbandonIs
<1> QED BY <1>1, <1>3, <1>4

LEMMA EndingGood ==
  ASSUME NEW m, Consistent(m), NEW a \in Apps, m.apps[a].pid # NoPid,
         NEW inst, LegalInstance(inst), inst.pid = NoPid,
         inst.state = m.apps[a].state \/ <<m.apps[a].state, inst.state>> \in LegalMoves,
         NEW why \in {"signalled", "lost", "uninstall"},
         inst.state = "Running" => why = "uninstall", NEW x \in Answer
  PROVE  LET n == Pair([m.apps EXCEPT ![a] = inst],
                       [m.os EXCEPT ![m.apps[a].pid] = Ended(m, m.apps[a].pid, why)])
         IN  Good(m, Outcome(n, x))
<1> DEFINE p == m.apps[a].pid
           n == Pair([m.apps EXCEPT ![a] = inst], [m.os EXCEPT ![p] = Ended(m, p, why)])
<1>1. Consistent(n)
      BY EndedIs, Release
<1>2. Moves(m, n)
      BY MovesPair DEF Consistent
<1>3. MachineOf(Outcome(n, x)) = n /\ Outcome(n, x).answer = x
      BY DEF MachineOf, Outcome, Pair
<1> HIDE DEF n
<1>4. Good(m, Outcome(n, x))
      BY <1>1, <1>2, <1>3 DEF Good
<1> QED BY <1>4 DEF n

LEMMA RelabelGood ==
  ASSUME NEW m, Consistent(m), NEW a \in Apps, NEW inst, LegalInstance(inst),
         inst.pid = m.apps[a].pid,
         inst.state = "Running" => m.apps[a].state = "Running",
         inst.state = m.apps[a].state \/ <<m.apps[a].state, inst.state>> \in LegalMoves,
         NEW x \in Answer
  PROVE  Good(m, Outcome(SetApp(m, a, inst), x))
<1> DEFINE n == SetApp(m, a, inst)
<1>1. n = Pair([m.apps EXCEPT ![a] = inst], m.os) /\ m \in MachineType
      BY SetAppIs DEF Consistent
<1>2. Consistent(n) /\ Moves(m, n)
      BY <1>1, Relabel, MovesPair
<1>3. MachineOf(Outcome(n, x)) = n /\ Outcome(n, x).answer = x
      BY <1>1 DEF MachineOf, Outcome, Pair
<1> HIDE DEF n
<1>4. Good(m, Outcome(n, x))
      BY <1>2, <1>3 DEF Good
<1> QED BY <1>4 DEF n

LEMMA RegisterGood ==
  ASSUME NEW m, Consistent(m), NEW a \in Apps, NEW out \in DoRegister(m, a)
  PROVE  Good(m, out)
<1> DEFINE old  == m.apps[a]
           inst == IF old.state \in {"Unknown", "Registered"}
                     THEN [old EXCEPT !.state = "Registered"] ELSE old
<1>1. m \in MachineType /\ old \in AppInstance
      BY DEF Consistent, MachineType
<1>2. out = Outcome(SetApp(m, a, inst), "ok")
      BY DEF DoRegister
<1>3. /\ LegalInstance(inst) /\ inst.pid = old.pid
      /\ inst.state = "Running" => old.state = "Running"
      /\ inst.state = old.state \/ <<old.state, inst.state>> \in LegalMoves
      BY <1>1 DEF LegalInstance, AppInstance, AppState, Manifest, Consistent, OwnPids, Manifests,
                  Unknowns, LegalMoves, UnknownApp
<1> HIDE DEF inst
<1> QED BY <1>2, <1>3, RelabelGood DEF Answer

LEMMA InstallGood ==
  ASSUME NEW m, Consistent(m), NEW a \in Apps, NEW manifest \in {"plain", "limited"},
         NEW out \in DoInstall(m, a, manifest)
  PROVE  Good(m, out)
<1> DEFINE old  == m.apps[a]
           inst == [state |-> "Installed", manifest |-> manifest, pid |-> NoPid]
<1>1. m \in MachineType /\ old \in AppInstance /\ m.os \in [Pids -> Process]
      BY DEF Consistent, MachineType
<1>2. CASE out = Outcome(m, "err")
      BY <1>2, SameOutcome DEF Answer
<1>3. LegalInstance(inst) /\ inst.pid = NoPid /\ inst.state = "Installed"
      BY DEF LegalInstance, AppInstance, AppState, Manifest
<1>4. <<old.state, inst.state>> \in LegalMoves
      BY <1>1, <1>3 DEF LegalMoves, AppInstance
<1> HIDE DEF inst
<1>5. CASE old.pid = NoPid /\ out = Outcome(SetApp(m, a, inst), "ok")
      BY <1>3, <1>4, <1>5, RelabelGood DEF Answer
<1>6. CASE old.pid # NoPid /\ out = Outcome(SetApp(Abandon(m, old.pid, "lost"), a, inst), "ok")
  <2>1. old.pid \in Pids
        BY <1>1, <1>6 DEF AppInstance
  <2>2. SetApp(Abandon(m, old.pid, "lost"), a, inst)
          = Pair([m.apps EXCEPT ![a] = inst],
                 [m.os EXCEPT ![old.pid] = Ended(m, old.pid, "lost")])
        BY <1>1, <2>1, EndedEntry
  <2> QED BY <1>3, <1>4, <1>6, <2>2, EndingGood DEF Answer
<1>7. \/ out = Outcome(m, "err")
      \/ out = Outcome(SetApp(IF old.pid = NoPid THEN m ELSE Abandon(m, old.pid, "lost"),
                              a, inst), "ok")
      BY DEF DoInstall, inst
<1> QED BY <1>2, <1>5, <1>6, <1>7

(* What a start does to the table: DoRestart composes it with a stop *)
StartMoves(m, n, a) ==
  /\ \A b \in Apps : b # a => n.apps[b] = m.apps[b]
  /\ \/ n.apps[a].state = m.apps[a].state
     \/ /\ m.apps[a].state \in {"Installed", "Starting", "Stopping", "Stopped"}
        /\ m.apps[a].manifest # "none"
        /\ n.apps[a].state \in {"Starting", "Running"}

LEMMA StartMovesPair ==
  ASSUME NEW m, m \in MachineType, NEW a \in Apps, NEW inst, NEW ps,
         m.apps[a].state \in {"Installed", "Starting", "Stopping", "Stopped"},
         m.apps[a].manifest # "none",
         inst.state \in {"Starting", "Running"}
  PROVE  StartMoves(m, Pair([m.apps EXCEPT ![a] = inst], ps), a)
<1> DEFINE n == Pair([m.apps EXCEPT ![a] = inst], ps)
<1>1. n.apps[a] = inst /\ \A b \in Apps : b # a => n.apps[b] = m.apps[b]
      BY DEF Pair, MachineType
<1> HIDE DEF n
<1>2. StartMoves(m, n, a)
      BY <1>1 DEF StartMoves
<1> QED BY <1>2 DEF n

LEMMA StartIsLegal ==
  ASSUME NEW m, NEW n, NEW a \in Apps, StartMoves(m, n, a)
  PROVE  Moves(m, n)
  BY DEF StartMoves, Moves, LegalMoves

LEMMA StartGood ==
  ASSUME NEW m, Consistent(m), NEW a \in Apps, NEW out \in DoStart(m, a)
  PROVE  /\ Consistent(MachineOf(out)) /\ StartMoves(m, MachineOf(out), a)
         /\ out.answer \in Answer
<1> DEFINE old      == m.apps[a]
           start    == [old EXCEPT !.state = "Starting"]
           run(p)   == [old EXCEPT !.state = "Running", !.pid = p]
           leaked   == [Spawned(a) EXCEPT !.escape = "lost"]
           starting == [m.apps EXCEPT ![a] = start]
           goal     == /\ Consistent(MachineOf(out)) /\ StartMoves(m, MachineOf(out), a)
                       /\ out.answer \in Answer
<1>1. m \in MachineType /\ old \in AppInstance
      BY DEF Consistent, MachineType
<1>2. CASE out \in {Outcome(m, "ok"), Outcome(m, "err")}
  <2>1. Consistent(MachineOf(out)) /\ out.answer \in Answer
        BY <1>2, SameOutcome DEF Good, Answer
  <2>2. MachineOf(out).apps = m.apps
        BY <1>2 DEF Outcome, MachineOf
  <2> QED BY <2>1, <2>2 DEF StartMoves
<1> SUFFICES ASSUME old.state # "Running", old.manifest # "none",
                    out \notin {Outcome(m, "ok"), Outcome(m, "err")}
             PROVE  goal
      BY <1>2 DEF DoStart
<1>3. old.pid = NoPid /\ old.state \in {"Installed", "Starting", "Stopping", "Stopped"}
  <2>1. old.pid = NoPid
        BY DEF Consistent, OwnPids
  <2>2. old.state \notin {"Unknown", "Registered"}
        BY DEF Consistent, Manifests, Unknowns, UnknownApp
  <2> QED BY <1>1, <2>1, <2>2 DEF AppInstance, AppState
<1>4. /\ LegalInstance(start) /\ start.pid = NoPid /\ start.state = "Starting"
      BY <1>1, <1>3 DEF LegalInstance, AppInstance, AppState
<1>5. Pair(starting, m.os) \in MachineType /\ Consistent(Pair(starting, m.os))
  <2> HIDE DEF start
  <2> QED BY <1>3, <1>4, Relabel DEF Consistent
<1>6. CASE out = Outcome(SetApp(m, a, start), "err")
  <2> HIDE DEF start
  <2>1. out = Outcome(Pair(starting, m.os), "err")
        BY <1>1, <1>6, SetAppIs
  <2>2. StartMoves(m, Pair(starting, m.os), a)
        BY <1>1, <1>3, <1>4, StartMovesPair
  <2> QED BY <1>5, <2>1, <2>2, PairOutcome DEF Answer
<1>7. ASSUME NEW p \in FreePids(m), out = Outcome(SetApp(Spawn(m, a, p), a, run(p)), "ok")
      PROVE  goal
  <2>1. p \in Pids
        BY DEF FreePids
  <2>2. Spawn(m, a, p) = Pair(m.apps, [m.os EXCEPT ![p] = Spawned(a)])
        BY <1>1, <2>1, SpawnIs
  <2>3. LegalInstance(run(p)) /\ run(p).pid = p /\ run(p).state = "Running"
        BY <1>1, <1>3, <2>1 DEF LegalInstance, AppInstance, AppState
  <2> HIDE DEF run
  <2>4. out = Outcome(Pair([m.apps EXCEPT ![a] = run(p)], [m.os EXCEPT ![p] = Spawned(a)]), "ok")
        BY <1>7, <2>2 DEF SetApp, Pair
  <2>5. Consistent(Pair([m.apps EXCEPT ![a] = run(p)], [m.os EXCEPT ![p] = Spawned(a)]))
        BY <1>3, <2>3, Track
  <2>6. StartMoves(m, Pair([m.apps EXCEPT ![a] = run(p)], [m.os EXCEPT ![p] = Spawned(a)]), a)
        BY <1>1, <1>3, <2>3, StartMovesPair
  <2> QED BY <2>4, <2>5, <2>6, PairOutcome DEF Answer
<1>8. ASSUME NEW p \in FreePids(m),
             out = Outcome(Abandon(Spawn(SetApp(m, a, start), a, p), p, "lost"), "err")
      PROVE  goal
  <2>1. p \in Pids /\ p \in FreePids(Pair(starting, m.os))
        BY DEF FreePids, Pair
  <2> HIDE DEF start
  <2>2. SetApp(m, a, start) = Pair(starting, m.os)
        BY <1>1, SetAppIs
  <2> DEFINE table == starting
  <2>3. Pair(table, m.os).apps = table /\ Pair(table, m.os).os = m.os
        BY DEF Pair
  <2> HIDE DEF table
  <2>4. Spawn(Pair(table, m.os), a, p) = Pair(table, [m.os EXCEPT ![p] = Spawned(a)])
        BY <2>1, <2>3, <1>5, SpawnIs DEF table
  <2>5. Abandon(Pair(table, [m.os EXCEPT ![p] = Spawned(a)]), p, "lost")
          = Pair(table, [m.os EXCEPT ![p] = leaked])
    <3>1. m.os \in [Pids -> Process]
          BY <1>1 DEF MachineType
    <3>2. ASSUME NEW x
          PROVE  [[m.os EXCEPT ![p] = x] EXCEPT ![p].escape = "lost"]
                   = [m.os EXCEPT ![p] = [x EXCEPT !.escape = "lost"]]
          BY <2>1, <3>1
    <3>3. [m.os EXCEPT ![p] = Spawned(a)] \in [Pids -> Process]
          BY <3>1, <2>1 DEF Spawned, Process, Escape
    <3>4. table \in [Apps -> AppInstance]
          BY <1>5, <2>3 DEF table, MachineType
    <3> QED BY <2>1, <3>2, <3>3, <3>4, AbandonPair
  <2>6. /\ leaked \in Process /\ leaked.parent = "agent" /\ leaked.phase # "free"
        /\ leaked.escape = "lost"
        BY DEF Spawned, Process, Escape
  <2> HIDE DEF leaked
  <2>7. Consistent(Pair(table, [m.os EXCEPT ![p] = leaked]))
        BY <1>5, <2>1, <2>3, <2>6, Leak DEF table
  <2>8. StartMoves(m, Pair(table, [m.os EXCEPT ![p] = leaked]), a)
        BY <1>1, <1>3, <1>4, StartMovesPair DEF table
  <2>9. out = Outcome(Pair(table, [m.os EXCEPT ![p] = leaked]), "err")
        BY <1>8, <2>2, <2>4, <2>5 DEF table
  <2> DEFINE n == Pair(table, [m.os EXCEPT ![p] = leaked])
  <2>10. MachineOf(out) = n /\ out.answer = "err"
         BY <2>9 DEF MachineOf, Outcome, Pair
  <2> HIDE DEF n
  <2> QED BY <2>7, <2>8, <2>10 DEF n, Answer
<1>9. \/ out = Outcome(SetApp(m, a, start), "err")
      \/ \E p \in FreePids(m) : out = Outcome(SetApp(Spawn(m, a, p), a, run(p)), "ok")
      \/ \E p \in FreePids(m) :
           out = Outcome(Abandon(Spawn(SetApp(m, a, start), a, p), p, "lost"), "err")
      BY DEF DoStart
<1> QED BY <1>6, <1>7, <1>8, <1>9

(* A stop also leaves the app stopped, stopping or unknown: DoRestart        *)
(* composes it with a start                                                  *)
LEMMA StopGood ==
  ASSUME NEW m, Consistent(m), NEW a \in Apps, NEW out \in DoStop(m, a)
  PROVE  /\ Good(m, out)
         /\ out.apps[a].manifest = m.apps[a].manifest
         /\ out.apps[a].state = m.apps[a].state
              \/ (m.apps[a].state # "Unknown" /\ out.apps[a].state = "Stopped")
              \/ (m.apps[a].state = "Running" /\ out.apps[a].state = "Stopping")
<1> DEFINE old     == m.apps[a]
           stopped == [old EXCEPT !.state = "Stopped", !.pid = NoPid]
           failed  == [old EXCEPT !.state = "Stopping", !.pid = NoPid]
<1>1. m \in MachineType /\ old \in AppInstance /\ m.apps \in [Apps -> AppInstance]
      BY DEF Consistent, MachineType
<1>2. /\ LegalInstance(stopped) /\ stopped.pid = NoPid /\ stopped.state = "Stopped"
      /\ stopped.manifest = old.manifest
      BY <1>1 DEF LegalInstance, AppInstance, AppState, Consistent, Manifests
<1>3. CASE old.state = "Unknown"
  <2>1. out = Outcome(m, "err")
        BY <1>3 DEF DoStop
  <2> QED BY <2>1, SameOutcome DEF Answer, Outcome
<1>4. CASE old.state # "Unknown" /\ old.pid = NoPid
  <2>1. out = Outcome(SetApp(m, a, stopped), "ok")
        BY <1>4 DEF DoStop
  <2>2. <<old.state, "Stopped">> \in LegalMoves
        BY <1>1, <1>4 DEF LegalMoves, Known, AppInstance
  <2> HIDE DEF stopped
  <2>3. Good(m, out)
        BY <1>2, <1>4, <2>1, <2>2, RelabelGood DEF Answer
  <2>4. out.apps[a] = stopped
        BY <1>1, <2>1 DEF Outcome, SetApp, MachineType
  <2> QED BY <1>2, <1>4, <2>3, <2>4
<1>5. CASE old.state # "Unknown" /\ old.pid # NoPid
  <2>1. old.pid \in Pids /\ old.state = "Running" /\ old.manifest # "none"
        BY <1>1, <1>5 DEF AppInstance, Consistent, OwnPids, Manifests
  <2>2. LegalInstance(failed) /\ failed.pid = NoPid /\ failed.state = "Stopping"
        /\ failed.manifest = old.manifest
        BY <1>1, <2>1 DEF LegalInstance, AppInstance, AppState
  <2>3. \/ out = Outcome(SetApp(Terminate(m, old.pid), a, stopped), "ok")
        \/ out = Outcome(SetApp(Abandon(m, old.pid, "lost"), a, failed), "err")
        BY <1>5 DEF DoStop
  <2>4. <<"Running", "Stopped">> \in LegalMoves /\ <<"Running", "Stopping">> \in LegalMoves
        BY DEF LegalMoves, Known, AppState
  <2> HIDE DEF stopped, failed
  <2>5. CASE out = Outcome(SetApp(Terminate(m, old.pid), a, stopped), "ok")
    <3> DEFINE ps == [m.os EXCEPT ![old.pid] = Ended(m, old.pid, "signalled")]
    <3>1. out = Outcome(Pair([m.apps EXCEPT ![a] = stopped], ps), "ok")
          BY <1>1, <2>1, <2>5, EndedEntry
    <3>2. Good(m, out)
          BY <1>2, <1>5, <2>1, <2>4, <3>1, EndingGood DEF Answer
    <3>3. out.apps[a] = stopped
          BY <1>1, <3>1 DEF Outcome, Pair
    <3> QED BY <1>2, <1>5, <3>2, <3>3
  <2>6. CASE out = Outcome(SetApp(Abandon(m, old.pid, "lost"), a, failed), "err")
    <3> DEFINE ps == [m.os EXCEPT ![old.pid] = Ended(m, old.pid, "lost")]
    <3>1. out = Outcome(Pair([m.apps EXCEPT ![a] = failed], ps), "err")
          BY <1>1, <2>1, <2>6, EndedEntry
    <3>2. Good(m, out)
          BY <1>5, <2>1, <2>2, <2>4, <3>1, EndingGood DEF Answer
    <3>3. out.apps[a] = failed
          BY <1>1, <3>1 DEF Outcome, Pair
    <3> QED BY <2>1, <2>2, <3>2, <3>3
  <2> QED BY <2>3, <2>5, <2>6
<1> QED BY <1>3, <1>4, <1>5

LEMMA RestartGood ==
  ASSUME NEW m, Consistent(m), NEW a \in Apps, NEW out \in DoRestart(m, a)
  PROVE  Good(m, out)
<1>1. PICK mid \in DoStop(m, a) : out \in DoStart(MachineOf(mid), a)
      BY DEF DoRestart, MachineOf
<1> DEFINE n == MachineOf(mid)
<1>2. /\ Consistent(n) /\ Moves(m, n) /\ n.apps = mid.apps
      /\ n.apps[a].manifest = m.apps[a].manifest
      /\ n.apps[a].state = m.apps[a].state
           \/ (m.apps[a].state # "Unknown" /\ n.apps[a].state = "Stopped")
           \/ (m.apps[a].state = "Running" /\ n.apps[a].state = "Stopping")
      BY StopGood DEF Good, MachineOf
<1>3. out \in DoStart(n, a)
      BY <1>1
<1> HIDE DEF n
<1>4. Consistent(MachineOf(out)) /\ StartMoves(n, MachineOf(out), a) /\ out.answer \in Answer
      BY <1>2, <1>3, StartGood
<1>5. m.apps[a].state \in AppState
      /\ (m.apps[a].state = "Registered" => m.apps[a].manifest = "none")
      BY DEF Consistent, MachineType, AppInstance, Manifests
<1>6. Moves(m, MachineOf(out))
  <2> DEFINE o == MachineOf(out)
  <2> HIDE DEF o
  <2>1. ASSUME NEW b \in Apps, b # a
        PROVE  o.apps[b].state = m.apps[b].state
                 \/ <<m.apps[b].state, o.apps[b].state>> \in LegalMoves
        BY <1>2, <1>4, <2>1 DEF o, StartMoves, Moves
  <2>2. o.apps[a].state = m.apps[a].state
          \/ <<m.apps[a].state, o.apps[a].state>> \in LegalMoves
        BY <1>2, <1>4, <1>5 DEF o, StartMoves, LegalMoves, Known, AppState
  <2>3. Moves(m, o)
        BY <2>1, <2>2 DEF Moves
  <2> QED BY <2>3 DEF o
<1> QED BY <1>4, <1>6 DEF Good

LEMMA UninstallGood ==
  ASSUME NEW m, Consistent(m), NEW a \in Apps, NEW out \in DoUninstall(m, a)
  PROVE  Good(m, out)
<1> DEFINE old  == m.apps[a]
           kept == [old EXCEPT !.pid = NoPid]
<1>1. m \in MachineType /\ old \in AppInstance
      BY DEF Consistent, MachineType
<1>2. LegalInstance(UnknownApp) /\ UnknownApp.pid = NoPid /\ UnknownApp.state = "Unknown"
      BY DEF LegalInstance, UnknownApp, AppInstance, AppState, Manifest
<1>3. old.state # "Unknown" => <<old.state, "Unknown">> \in LegalMoves
      BY <1>1 DEF LegalMoves, Known, AppInstance
<1>4. old.pid # NoPid => old.state = "Running" /\ old.pid \in Pids
      BY <1>1 DEF Consistent, OwnPids, AppInstance
<1>5. CASE out = Outcome(m, "err")
      BY <1>5, SameOutcome DEF Answer
<1>6. CASE old.state # "Unknown" /\ old.pid = NoPid /\ out = Outcome(SetApp(m, a, UnknownApp), "ok")
      BY <1>2, <1>3, <1>6, RelabelGood DEF Answer
<1>7. CASE old.pid # NoPid /\ out = Outcome(SetApp(Terminate(m, old.pid), a, UnknownApp), "ok")
  <2>1. out = Outcome(Pair([m.apps EXCEPT ![a] = UnknownApp],
                           [m.os EXCEPT ![old.pid] = Ended(m, old.pid, "signalled")]), "ok")
        BY <1>1, <1>4, <1>7, EndedEntry
  <2>2. UnknownApp.state # "Running" /\ <<old.state, UnknownApp.state>> \in LegalMoves
        BY <1>2, <1>3, <1>4, <1>7
  <2>3. "ok" \in Answer /\ "signalled" \in {"signalled", "lost", "uninstall"}
        BY DEF Answer
  <2>4. Good(m, Outcome(Pair([m.apps EXCEPT ![a] = UnknownApp],
                             [m.os EXCEPT ![m.apps[a].pid] = Ended(m, m.apps[a].pid, "signalled")]),
                        "ok"))
        BY <1>2, <1>7, <2>2, <2>3, EndingGood
  <2> QED BY <2>1, <2>4
<1>8. CASE old.pid # NoPid /\ out = Outcome(SetApp(Abandon(m, old.pid, "uninstall"), a, kept), "err")
  <2>1. LegalInstance(kept) /\ kept.pid = NoPid /\ kept.state = old.state
        BY <1>1, <1>4, <1>8 DEF LegalInstance, AppInstance, Consistent, Manifests
  <2> HIDE DEF kept
  <2>2. out = Outcome(Pair([m.apps EXCEPT ![a] = kept],
                           [m.os EXCEPT ![old.pid] = Ended(m, old.pid, "uninstall")]), "err")
        BY <1>1, <1>4, <1>8, EndedEntry
  <2>3. "err" \in Answer
        BY DEF Answer
  <2> QED BY <1>8, <2>1, <2>2, <2>3, EndingGood
<1>9. \/ out = Outcome(m, "err")
      \/ old.state # "Unknown" /\ old.pid = NoPid /\ out = Outcome(SetApp(m, a, UnknownApp), "ok")
      \/ old.pid # NoPid /\ out = Outcome(SetApp(Terminate(m, old.pid), a, UnknownApp), "ok")
      \/ old.pid # NoPid /\ out = Outcome(SetApp(Abandon(m, old.pid, "uninstall"), a, kept), "err")
      BY <1>4 DEF DoUninstall
<1> QED BY <1>5, <1>6, <1>7, <1>8, <1>9

LEMMA QueryGood ==
  ASSUME NEW m, Consistent(m), NEW out,
         \/ \E a \in Apps : out \in GetState(m, a)
         \/ \E p \in Pids : out \in FindByPid(m, p)
         \/ out \in ListApps(m)
  PROVE  Good(m, out)
<1>1. \A a \in Apps : m.apps[a].state \in Answer
      BY DEF Consistent, MachineType, AppInstance, Answer
<1>2. \E x \in Answer : out = Outcome(m, x)
  <2>1. CASE \E a \in Apps : out \in GetState(m, a)
        BY <1>1, <2>1 DEF GetState
  <2>2. CASE \E p \in Pids : out \in FindByPid(m, p)
        BY <2>2 DEF FindByPid, Answer
  <2>3. CASE out \in ListApps(m)
        BY <2>3 DEF ListApps, Answer
  <2> QED BY <2>1, <2>2, <2>3
<1> QED BY <1>2, SameOutcome

-----------------------------------------------------------------------------
(* The steps of the specification *)

Inv == TypeOK /\ Consistent(Machine)

NextMachine == [apps |-> apps', os |-> os']

LEMMA MachineIs ==
  /\ Machine.apps = apps /\ Machine.os = os
  /\ NextMachine.apps = apps' /\ NextMachine.os = os' /\ Machine' = NextMachine
  BY DEF Machine, NextMachine

(* What a command can be, by its operation *)
LEMMA ReceivedIs ==
  ASSUME mailbox \in Seq(Command), NEW ops, NEW cmd \in Received(ops)
  PROVE  /\ cmd \in Command /\ cmd.op \in ops /\ mailbox # <<>>
         /\ cmd.op \in AppOps \cup {"Install"} => cmd.app \in Apps
         /\ cmd.op = "Install" => cmd.manifest \in {"plain", "limited"}
         /\ cmd.op = "FindByPid" => cmd.pid \in Pids
         /\ cmd.from \in Callers \cup {Nobody}
<1>1. cmd \in Command /\ cmd.op \in ops /\ mailbox # <<>>
      BY DEF Received
<1> QED BY <1>1 DEF Command, AppOps

LEMMA FinishStep ==
  ASSUME Inv, NEW ops, NEW cmd \in Received(ops), NEW out, Good(Machine, out), Finish(cmd, out)
  PROVE  Inv' /\ Moves(Machine, NextMachine)
<1>1. NextMachine = MachineOf(out)
      BY DEF Finish, NextMachine, MachineOf
<1>2. Consistent(NextMachine) /\ Moves(Machine, NextMachine)
      BY <1>1 DEF Good
<1>3. apps' \in [Apps -> AppInstance] /\ os' \in [Pids -> Process]
      BY <1>2, MachineIs DEF Consistent, MachineType
<1>4. mailbox \in Seq(Command) /\ mailbox # <<>> /\ Len(mailbox) <= Capacity
      BY ReceivedIs DEF Inv, TypeOK
<1>5. mailbox' \in Seq(Command) /\ Len(mailbox') <= Capacity
      BY <1>4, ConstantsAssumption DEF Finish
<1>6. call' \in [Callers -> CallState]
  <2>1. [st |-> "answered", answer |-> out.answer] \in CallState
        BY DEF Good, CallState
  <2>2. call \in [Callers -> CallState]
        BY DEF Inv, TypeOK
  <2> QED BY <2>1, <2>2 DEF Finish
<1> QED BY <1>2, <1>3, <1>5, <1>6, MachineIs DEF Inv, TypeOK

LEMMA TaskStep ==
  ASSUME Inv, Task
  PROVE  Inv' /\ Moves(Machine, NextMachine)
<1>1. Consistent(Machine) /\ mailbox \in Seq(Command)
      BY DEF Inv, TypeOK
<1>2. CASE ServeRegister
  <2>0. PICK cmd \in Received({"Register"}) : \E out \in DoRegister(Machine, cmd.app) : Finish(cmd, out)
        BY <1>2 DEF ServeRegister
  <2>1. PICK out \in DoRegister(Machine, cmd.app) : Finish(cmd, out)
        BY <2>0
  <2> QED BY <1>1, <2>1, ReceivedIs, RegisterGood, FinishStep DEF AppOps
<1>3. CASE ServeInstall
  <2>0. PICK cmd \in Received({"Install"}) : \E out \in DoInstall(Machine, cmd.app, cmd.manifest) : Finish(cmd, out)
        BY <1>3 DEF ServeInstall
  <2>1. PICK out \in DoInstall(Machine, cmd.app, cmd.manifest) : Finish(cmd, out)
        BY <2>0
  <2> QED BY <1>1, <2>1, ReceivedIs, InstallGood, FinishStep
<1>4. CASE ServeStart
  <2>0. PICK cmd \in Received({"Start"}) : \E out \in DoStart(Machine, cmd.app) : Finish(cmd, out)
        BY <1>4 DEF ServeStart
  <2>1. PICK out \in DoStart(Machine, cmd.app) : Finish(cmd, out)
        BY <2>0
  <2>2. cmd.app \in Apps
        BY <1>1, <2>1, ReceivedIs DEF AppOps
  <2>3. Good(Machine, out)
        BY <1>1, <2>1, <2>2, StartGood, StartIsLegal DEF Good
  <2> QED BY <2>1, <2>3, FinishStep
<1>5. CASE ServeStop
  <2>0. PICK cmd \in Received({"Stop"}) : \E out \in DoStop(Machine, cmd.app) : Finish(cmd, out)
        BY <1>5 DEF ServeStop
  <2>1. PICK out \in DoStop(Machine, cmd.app) : Finish(cmd, out)
        BY <2>0
  <2> QED BY <1>1, <2>1, ReceivedIs, StopGood, FinishStep DEF AppOps
<1>6. CASE ServeRestart
  <2>0. PICK cmd \in Received({"Restart"}) : \E out \in DoRestart(Machine, cmd.app) : Finish(cmd, out)
        BY <1>6 DEF ServeRestart
  <2>1. PICK out \in DoRestart(Machine, cmd.app) : Finish(cmd, out)
        BY <2>0
  <2> QED BY <1>1, <2>1, ReceivedIs, RestartGood, FinishStep DEF AppOps
<1>7. CASE ServeUninstall
  <2>0. PICK cmd \in Received({"Uninstall"}) : \E out \in DoUninstall(Machine, cmd.app) : Finish(cmd, out)
        BY <1>7 DEF ServeUninstall
  <2>1. PICK out \in DoUninstall(Machine, cmd.app) : Finish(cmd, out)
        BY <2>0
  <2> QED BY <1>1, <2>1, ReceivedIs, UninstallGood, FinishStep DEF AppOps
<1>8. CASE ServeQuery
  <2>0. PICK cmd \in Received({"GetState", "FindByPid", "ListApps"}) :
               \E out \in CASE cmd.op = "GetState"  -> GetState(Machine, cmd.app)
                            [] cmd.op = "FindByPid" -> FindByPid(Machine, cmd.pid)
                            [] OTHER                -> ListApps(Machine) : Finish(cmd, out)
        BY <1>8 DEF ServeQuery
  <2>1. PICK out \in CASE cmd.op = "GetState"  -> GetState(Machine, cmd.app)
                       [] cmd.op = "FindByPid" -> FindByPid(Machine, cmd.pid)
                       [] OTHER                -> ListApps(Machine) : Finish(cmd, out)
        BY <2>0
  <2>2. /\ cmd.op = "GetState" => cmd.app \in Apps
        /\ cmd.op = "FindByPid" => cmd.pid \in Pids
        BY <1>1, <2>1, ReceivedIs DEF AppOps
  <2>3. \/ \E a \in Apps : out \in GetState(Machine, a)
        \/ \E p \in Pids : out \in FindByPid(Machine, p)
        \/ out \in ListApps(Machine)
        BY <2>1, <2>2
  <2>4. Good(Machine, out)
        BY <1>1, <2>3, QueryGood
  <2> QED BY <2>1, <2>4, FinishStep
<1> QED BY <1>2, <1>3, <1>4, <1>5, <1>6, <1>7, <1>8 DEF Task

LEMMA ClientStep ==
  ASSUME Inv, NEW c \in Callers, Client(c)
  PROVE  Inv' /\ Moves(Machine, NextMachine)
<1>1. UNCHANGED <<apps, os>>
      BY DEF Client, Send, Return, Drop
<1>2. Machine' = Machine /\ NextMachine = Machine
      BY <1>1 DEF Machine, NextMachine
<1>3. /\ mailbox \in Seq(Command) /\ Len(mailbox) <= Capacity
      /\ call \in [Callers -> CallState] /\ Idle \in CallState /\ Waiting \in CallState
      BY DEF Inv, TypeOK, CallState
<1>4. /\ mailbox' \in Seq(Command) /\ Len(mailbox') <= Capacity
      /\ call' \in [Callers -> CallState]
  <2>1. CASE \E cmd \in Command : Send(c, cmd)
        BY <1>3, <2>1, ConstantsAssumption DEF Send
  <2>2. CASE Return(c)
        BY <1>3, <2>2 DEF Return
  <2>3. CASE Drop(c)
    <3>1. ASSUME NEW cmd \in Command
          PROVE  [cmd EXCEPT !.from = Nobody] \in Command
          BY DEF Command
    <3>2. mailbox' \in [1..Len(mailbox) -> Command]
          BY <1>3, <2>3, <3>1 DEF Drop
    <3>3. Len(mailbox) \in Nat
          BY <1>3
    <3>4. mailbox' \in Seq(Command) /\ Len(mailbox') = Len(mailbox)
          BY <3>2, <3>3
    <3> QED BY <1>3, <2>3, <3>4 DEF Drop
  <2> QED BY <2>1, <2>2, <2>3 DEF Client
<1> QED BY <1>1, <1>2, <1>4 DEF Inv, TypeOK, Moves

(* A process dies or is signalled behind the manager's back *)
LEMMA ProcessStep ==
  ASSUME NEW m, Consistent(m), NEW p \in Pids, NEW proc \in Process, proc.phase # "running",
         \/ /\ proc.app = m.os[p].app /\ proc.parent = m.os[p].parent
            /\ proc.escape = m.os[p].escape /\ proc.phase # "free"
         \/ proc = FreeSlot /\ m.os[p].parent # "agent"
  PROVE  Consistent(Pair(m.apps, [m.os EXCEPT ![p] = proc]))
<1> DEFINE n == Pair(m.apps, [m.os EXCEPT ![p] = proc])
<1>1. /\ n.apps = m.apps /\ n.os[p] = proc /\ \A q \in Pids : q # p => n.os[q] = m.os[q]
      /\ n \in MachineType
      BY DEF Pair, Consistent, MachineType
<1>2. \A a \in Apps : m.apps[a].pid \in Pids \cup {NoPid}
      BY DEF Consistent, MachineType, AppInstance
<1> HIDE DEF n
<1>3. OwnPids(n)
      BY <1>1, <1>2 DEF OwnPids, Consistent
<1>4. Running(n)
  <2> SUFFICES ASSUME NEW b \in Apps, m.apps[b].state = "Running", m.apps[b].pid = NoPid
               PROVE  \E q \in Pids : n.os[q].app = b /\ n.os[q].escape = "uninstall"
      BY <1>1 DEF Running
  <2>1. PICK q \in Pids : m.os[q].app = b /\ m.os[q].escape = "uninstall"
        BY DEF Consistent, Running
  <2>2. n.os[q].app = m.os[q].app /\ n.os[q].escape = m.os[q].escape
        BY <1>1, <2>1 DEF Consistent, Escapees
  <2> QED BY <2>1, <2>2
<1>5. Explained(n)
      BY <1>1 DEF Explained, Consistent
<1>6. Manifests(n) /\ Unknowns(n) /\ Escapees(n)
      BY <1>1 DEF Manifests, Unknowns, Escapees, Consistent, FreeSlot
<1>7. Consistent(n)
      BY <1>1, <1>3, <1>4, <1>5, <1>6 DEF Consistent
<1> QED BY <1>7 DEF n

LEMMA RestartedConsistent ==
  ASSUME NEW m, Consistent(m), NEW survive \in BOOLEAN
  PROVE  LET n == Pair([a \in Apps |-> UnknownApp],
                       [p \in Pids |->
                          IF survive /\ m.os[p].phase \in {"running", "signalled"}
                            THEN [m.os[p] EXCEPT !.parent = "init", !.escape = "lost"]
                            ELSE FreeSlot])
         IN  Consistent(n) /\ Moves(m, n)
<1> DEFINE ps == [p \in Pids |->
                    IF survive /\ m.os[p].phase \in {"running", "signalled"}
                      THEN [m.os[p] EXCEPT !.parent = "init", !.escape = "lost"]
                      ELSE FreeSlot]
           n  == Pair([a \in Apps |-> UnknownApp], ps)
<1>1. /\ UnknownApp \in AppInstance /\ UnknownApp.state = "Unknown" /\ UnknownApp.pid = NoPid
      BY DEF UnknownApp, AppInstance, AppState, Manifest
<1>2. FreeSlot \in Process /\ FreeSlot.phase = "free" /\ FreeSlot.escape = "no"
      BY DEF FreeSlot, Process, Escape
<1>3. \A p \in Pids : ps[p] \in Process /\ (ps[p].phase = "free" \/ ps[p].escape = "lost")
                        /\ ps[p].escape # "uninstall"
  <2> SUFFICES ASSUME NEW p \in Pids
               PROVE  ps[p] \in Process /\ (ps[p].phase = "free" \/ ps[p].escape = "lost")
                        /\ ps[p].escape # "uninstall"
      OBVIOUS
  <2>1. m.os[p] \in Process
        BY DEF Consistent, MachineType
  <2> QED BY <1>2, <2>1 DEF Process, Escape
<1>4. ps \in [Pids -> Process]
      BY <1>3
<1> HIDE DEF ps
<1>5. /\ n.os = ps /\ n.apps \in [Apps -> AppInstance] /\ n \in MachineType
      /\ \A a \in Apps : n.apps[a] = UnknownApp
      BY <1>1, <1>4 DEF Pair, MachineType
<1> HIDE DEF n
<1>6. OwnPids(n) /\ Running(n) /\ Manifests(n) /\ Unknowns(n)
      BY <1>1, <1>5 DEF OwnPids, Running, Manifests, Unknowns
<1>7. Explained(n) /\ Escapees(n)
      BY <1>3, <1>5 DEF Explained, Escapees
<1>8. Moves(m, n)
      BY <1>1, <1>5 DEF Moves, LegalMoves, Known, Consistent, MachineType, AppInstance
<1>9. Consistent(n)
      BY <1>5, <1>6, <1>7 DEF Consistent
<1> QED BY <1>8, <1>9 DEF n, ps

LEMMA SystemStep ==
  ASSUME Inv, System
  PROVE  Inv' /\ Moves(Machine, NextMachine)
<1>1. /\ Consistent(Machine) /\ Machine.apps = apps /\ Machine.os = os
      /\ os \in [Pids -> Process] /\ mailbox \in Seq(Command) /\ Len(mailbox) <= Capacity
      /\ call \in [Callers -> CallState]
      BY MachineIs DEF Inv, TypeOK
<1>2. ASSUME NEW p \in Pids, Exit(p) \/ Kill(p)
      PROVE  Consistent(NextMachine) /\ Moves(Machine, NextMachine) /\ UNCHANGED <<mailbox, call>>
  <2> DEFINE proc == os'[p]
  <2>1. /\ os' = [os EXCEPT ![p] = proc] /\ UNCHANGED <<apps, mailbox, call>>
        BY <1>1, <1>2 DEF Exit, Kill
  <2>2. os[p] \in Process
        BY <1>1
  <2>3. /\ proc \in Process /\ proc.phase # "running"
        /\ \/ /\ proc.app = os[p].app /\ proc.parent = os[p].parent
              /\ proc.escape = os[p].escape /\ proc.phase # "free"
           \/ proc = FreeSlot /\ os[p].parent # "agent"
    <3>1. CASE Exit(p)
          BY <1>1, <2>2, <3>1 DEF Exit, Process, FreeSlot, Escape
    <3>2. CASE Kill(p)
          BY <1>1, <2>2, <3>2 DEF Kill, Process
    <3> QED BY <1>2, <3>1, <3>2
  <2> HIDE DEF proc
  <2>4. NextMachine = Pair(apps, [os EXCEPT ![p] = proc])
        BY <2>1 DEF NextMachine, Pair
  <2>5. Consistent(Pair(apps, [os EXCEPT ![p] = proc]))
        BY <1>1, <2>3, ProcessStep
  <2> QED BY <1>1, <2>1, <2>4, <2>5, MachineIs DEF Moves
<1>3. ASSUME NEW survive \in BOOLEAN, AgentRestart(survive)
      PROVE  /\ Consistent(NextMachine) /\ Moves(Machine, NextMachine)
             /\ mailbox' = <<>> /\ call' = [c \in Callers |-> Idle]
  <2>1. NextMachine = Pair([a \in Apps |-> UnknownApp],
                           [p \in Pids |->
                              IF survive /\ os[p].phase \in {"running", "signalled"}
                                THEN [os[p] EXCEPT !.parent = "init", !.escape = "lost"]
                                ELSE FreeSlot])
        BY <1>3 DEF AgentRestart, NextMachine, Pair
  <2> QED BY <1>1, <1>3, <2>1, RestartedConsistent DEF AgentRestart
<1>4. /\ Consistent(NextMachine) /\ Moves(Machine, NextMachine)
      /\ mailbox' \in Seq(Command) /\ Len(mailbox') <= Capacity
      /\ call' \in [Callers -> CallState]
  <2>1. CASE \E p \in Pids : Exit(p) \/ Kill(p)
        BY <1>1, <1>2, <2>1
  <2>2. CASE \E survive \in BOOLEAN : AgentRestart(survive)
    <3>1. <<>> \in Seq(Command) /\ Len(<<>>) <= Capacity
          BY ConstantsAssumption
    <3>2. [c \in Callers |-> Idle] \in [Callers -> CallState]
          BY DEF CallState
    <3> QED BY <1>3, <2>2, <3>1, <3>2
  <2> QED BY <2>1, <2>2 DEF System
<1> QED BY <1>4, MachineIs DEF Inv, TypeOK, Consistent, MachineType

LEMMA InitInv == Init => Inv
<1> SUFFICES ASSUME Init PROVE Inv
    OBVIOUS
<1>1. /\ UnknownApp \in AppInstance /\ UnknownApp.state = "Unknown" /\ UnknownApp.pid = NoPid
      BY DEF UnknownApp, AppInstance, AppState, Manifest
<1>2. /\ FreeSlot \in Process /\ FreeSlot.phase = "free" /\ FreeSlot.escape = "no"
      BY DEF FreeSlot, Process, Escape
<1>3. TypeOK
      BY <1>1, <1>2, ConstantsAssumption DEF Init, TypeOK, CallState
<1>4. /\ Machine \in MachineType /\ \A a \in Apps : Machine.apps[a] = UnknownApp
      /\ \A p \in Pids : Machine.os[p] = FreeSlot
      BY <1>1, <1>2 DEF Init, Machine, MachineType
<1>5. Consistent(Machine)
      BY <1>1, <1>2, <1>4
      DEF Consistent, OwnPids, Running, Explained, Manifests, Unknowns, Escapees
<1> QED BY <1>3, <1>5 DEF Inv

LEMMA NextInv == Inv /\ [Next]_vars => Inv' /\ Moves(Machine, NextMachine)
<1> SUFFICES ASSUME Inv, [Next]_vars PROVE Inv' /\ Moves(Machine, NextMachine)
    OBVIOUS
<1>1. CASE UNCHANGED vars
      BY <1>1, MachineIs DEF vars, Inv, TypeOK, Machine, Consistent, Moves
<1>2. CASE Task
      BY <1>2, TaskStep
<1>3. CASE System
      BY <1>3, SystemStep
<1>4. CASE \E c \in Callers : Client(c)
      BY <1>4, ClientStep
<1> QED BY <1>1, <1>2, <1>3, <1>4 DEF Next

-----------------------------------------------------------------------------
(* Calls and commands *)

(* What a served command may come to, by its operation *)
Serves(cmd, out) ==
  \/ cmd.op = "Register" /\ out \in DoRegister(Machine, cmd.app)
  \/ cmd.op = "Install" /\ out \in DoInstall(Machine, cmd.app, cmd.manifest)
  \/ cmd.op = "Start" /\ out \in DoStart(Machine, cmd.app)
  \/ cmd.op = "Stop" /\ out \in DoStop(Machine, cmd.app)
  \/ cmd.op = "Restart" /\ out \in DoRestart(Machine, cmd.app)
  \/ cmd.op = "Uninstall" /\ out \in DoUninstall(Machine, cmd.app)
  \/ cmd.op = "GetState" /\ out \in GetState(Machine, cmd.app)
  \/ cmd.op = "FindByPid" /\ out \in FindByPid(Machine, cmd.pid)
  \/ cmd.op = "ListApps" /\ out \in ListApps(Machine)

Fields(cmd) ==
  /\ cmd \in Command /\ cmd.from \in Callers \cup {Nobody}
  /\ cmd.op \in AppOps \cup {"Install"} => cmd.app \in Apps
  /\ cmd.op = "Install" => cmd.manifest \in {"plain", "limited"}
  /\ cmd.op = "FindByPid" => cmd.pid \in Pids

LEMMA CommandFields ==
  ASSUME NEW cmd \in Command
  PROVE  Fields(cmd)
  BY DEF Fields, Command, AppOps

(* The manager serves the oldest command *)
LEMMA TaskServes ==
  ASSUME mailbox \in Seq(Command), Task
  PROVE  /\ mailbox # <<>> /\ Fields(mailbox[1])
         /\ \E out : Serves(mailbox[1], out) /\ Finish(mailbox[1], out)
<1>1. \E ops : \E cmd \in Received(ops) : \E out : Serves(cmd, out) /\ Finish(cmd, out)
  <2>1. ASSUME NEW ops, NEW cmd \in Received(ops)
        PROVE  cmd.op \in ops
        BY DEF Received
  <2>2. CASE ServeRegister
        BY <2>1, <2>2 DEF ServeRegister, Serves
  <2>3. CASE ServeInstall
        BY <2>1, <2>3 DEF ServeInstall, Serves
  <2>4. CASE ServeStart
        BY <2>1, <2>4 DEF ServeStart, Serves
  <2>5. CASE ServeStop
        BY <2>1, <2>5 DEF ServeStop, Serves
  <2>6. CASE ServeRestart
        BY <2>1, <2>6 DEF ServeRestart, Serves
  <2>7. CASE ServeUninstall
        BY <2>1, <2>7 DEF ServeUninstall, Serves
  <2>8. CASE ServeQuery
    <3>1. PICK cmd \in Received({"GetState", "FindByPid", "ListApps"}) :
            \E out \in CASE cmd.op = "GetState"  -> GetState(Machine, cmd.app)
                         [] cmd.op = "FindByPid" -> FindByPid(Machine, cmd.pid)
                         [] OTHER                -> ListApps(Machine) : Finish(cmd, out)
          BY <2>8 DEF ServeQuery
    <3>2. cmd.op \in {"GetState", "FindByPid", "ListApps"}
          BY <2>1
    <3>3. \E out : Serves(cmd, out) /\ Finish(cmd, out)
          BY <3>1, <3>2 DEF Serves
    <3> QED BY <3>3
  <2> QED BY <2>2, <2>3, <2>4, <2>5, <2>6, <2>7, <2>8 DEF Task
<1>2. ASSUME NEW ops, NEW cmd \in Received(ops)
      PROVE  cmd = mailbox[1] /\ mailbox # <<>>
      BY DEF Received
<1>3. mailbox # <<>> /\ \E out : Serves(mailbox[1], out) /\ Finish(mailbox[1], out)
      BY <1>1, <1>2
<1>4. mailbox[1] \in Command
      BY <1>3
<1> QED BY <1>3, <1>4, CommandFields

(* CallsMatchMailbox in three facts: who has a command on its way waits,    *)
(* who waits has one, and nobody has two                                    *)
Pending(c) == {i \in 1..Len(mailbox) : mailbox[i].from = c}

CallsPaired ==
  /\ \A c \in Callers : Pending(c) # {} => call[c] = Waiting
  /\ \A c \in Callers : call[c] = Waiting => Pending(c) # {}
  /\ \A c \in Callers : \A i, j \in Pending(c) : i = j

LEMMA PairedMatch == CallsPaired <=> CallsMatchMailbox
  BY DEF CallsPaired, CallsMatchMailbox, Pending

(* How the mailbox changes: it loses its oldest, gets a newest, or has the  *)
(* commands of one caller orphaned                                          *)
LEMMA TailIs ==
  ASSUME mailbox \in Seq(Command), mailbox # <<>>, mailbox' = Tail(mailbox)
  PROVE  /\ Len(mailbox) \in Nat /\ Len(mailbox) >= 1 /\ Len(mailbox') = Len(mailbox) - 1
         /\ \A i \in 1..Len(mailbox') : mailbox'[i] = mailbox[i+1] /\ i + 1 \in 1..Len(mailbox)
         /\ \A i \in 2..Len(mailbox) : mailbox'[i-1] = mailbox[i] /\ i - 1 \in 1..Len(mailbox')
  OBVIOUS

LEMMA AppendIs ==
  ASSUME mailbox \in Seq(Command), NEW cmd \in Command, mailbox' = Append(mailbox, cmd)
  PROVE  /\ Len(mailbox) \in Nat /\ Len(mailbox') = Len(mailbox) + 1
         /\ mailbox'[Len(mailbox)+1] = cmd
         /\ \A i \in 1..Len(mailbox) : mailbox'[i] = mailbox[i]
  OBVIOUS

LEMMA DropIs ==
  ASSUME mailbox \in Seq(Command), NEW c \in Callers, Drop(c)
  PROVE  /\ Len(mailbox') = Len(mailbox) /\ Len(mailbox) \in Nat
         /\ \A i \in 1..Len(mailbox) :
              /\ mailbox[i].from = c => mailbox'[i] = [mailbox[i] EXCEPT !.from = Nobody]
                                        /\ mailbox'[i].from = Nobody
              /\ mailbox[i].from # c => mailbox'[i] = mailbox[i]
<1>1. \A i \in 1..Len(mailbox) : mailbox[i] \in Command
      OBVIOUS
<1>2. ASSUME NEW cmd \in Command
      PROVE  [cmd EXCEPT !.from = Nobody].from = Nobody
      BY DEF Command
<1>3. mailbox' = [i \in 1..Len(mailbox) |->
                    IF mailbox[i].from = c
                      THEN [mailbox[i] EXCEPT !.from = Nobody]
                      ELSE mailbox[i]]
      BY DEF Drop
<1>4. Len(mailbox) \in Nat /\ DOMAIN mailbox' = 1..Len(mailbox)
      BY <1>3
<1>5. Len(mailbox') = Len(mailbox)
      BY <1>3, <1>4
<1> QED BY <1>1, <1>2, <1>3, <1>4, <1>5

(* The answers differ from the other states of a call *)
LEMMA CallStates ==
  /\ Idle # Waiting /\ Idle.st = "idle" /\ Waiting.st = "waiting"
  /\ \A x : [st |-> "answered", answer |-> x] # Waiting
            /\ [st |-> "answered", answer |-> x] # Idle
            /\ [st |-> "answered", answer |-> x].st = "answered"
            /\ [st |-> "answered", answer |-> x].answer = x
  BY DEF Idle, Waiting

LEMMA FinishPairs ==
  ASSUME TypeOK, CallsPaired, mailbox # <<>>, NEW out, Finish(mailbox[1], out)
  PROVE  CallsPaired'
<1> DEFINE cmd == mailbox[1]
<1>1. /\ mailbox \in Seq(Command) /\ call \in [Callers -> CallState]
      /\ mailbox' = Tail(mailbox) /\ cmd \in Command
      BY DEF TypeOK, Finish
<1>2. /\ Len(mailbox) \in Nat /\ Len(mailbox) >= 1 /\ Len(mailbox') = Len(mailbox) - 1
      /\ \A i \in 1..Len(mailbox') : mailbox'[i] = mailbox[i+1] /\ i + 1 \in 1..Len(mailbox)
      /\ \A i \in 2..Len(mailbox) : mailbox'[i-1] = mailbox[i] /\ i - 1 \in 1..Len(mailbox')
      BY <1>1, TailIs
<1>3. /\ \A c \in Callers : c # cmd.from => call'[c] = call[c]
      /\ \A c \in Callers : c = cmd.from =>
           call'[c] = [st |-> "answered", answer |-> out.answer]
      BY <1>1, ConstantsAssumption DEF Finish
<1>4. SUFFICES ASSUME NEW c \in Callers
               PROVE  /\ Pending(c)' # {} <=> call'[c] = Waiting
                      /\ \A i, j \in Pending(c)' : i = j
      BY DEF CallsPaired
<1>5. /\ \A i \in Pending(c)' : i + 1 \in Pending(c) /\ i \in Nat /\ i # 0
      /\ \A i \in Pending(c) : i = 1 \/ i - 1 \in Pending(c)'
      BY <1>2 DEF Pending
<1>6. /\ Pending(c) # {} <=> call[c] = Waiting
      /\ \A i, j \in Pending(c) : i = j
      BY DEF CallsPaired
<1>7. \A i, j \in Pending(c)' : i = j
      BY <1>5, <1>6
<1>8. CASE c = cmd.from
  <2>1. 1 \in Pending(c)
        BY <1>2, <1>8 DEF Pending
  <2>2. Pending(c)' = {}
        BY <2>1, <1>5, <1>6
  <2> QED BY <1>3, <1>7, <1>8, <2>2, CallStates
<1>9. CASE c # cmd.from
  <2>1. 1 \notin Pending(c)
        BY <1>9 DEF Pending
  <2>2. Pending(c)' # {} <=> Pending(c) # {}
        BY <2>1, <1>5
  <2> QED BY <1>3, <1>6, <1>7, <1>9, <2>2
<1> QED BY <1>8, <1>9

LEMMA ClientPairs ==
  ASSUME TypeOK, CallsPaired, NEW c \in Callers, Client(c)
  PROVE  CallsPaired'
<1>1. mailbox \in Seq(Command) /\ call \in [Callers -> CallState] /\ Nobody \notin Callers
      /\ Len(mailbox) \in Nat
      BY ConstantsAssumption DEF TypeOK
<1>2. CASE \E cmd \in Command : Send(c, cmd)
  <2>1. PICK cmd \in Command : Send(c, cmd)
        BY <1>2
  <2>2. /\ call[c] = Idle /\ cmd.from = c /\ mailbox' = Append(mailbox, cmd)
        /\ call' = [call EXCEPT ![c] = Waiting]
        BY <2>1 DEF Send
  <2>3. /\ Len(mailbox') = Len(mailbox) + 1 /\ mailbox'[Len(mailbox)+1] = cmd
        /\ \A i \in 1..Len(mailbox) : mailbox'[i] = mailbox[i]
        BY <1>1, <2>2, AppendIs
  <2>4. Pending(c) = {}
        BY <2>2, CallStates DEF CallsPaired
  <2>5. Pending(c)' = {Len(mailbox) + 1}
    <3>1. ASSUME NEW i \in 1..(Len(mailbox)+1)
          PROVE  mailbox'[i].from = c <=> i = Len(mailbox) + 1
      <4>1. CASE i \in 1..Len(mailbox)
            BY <4>1, <1>1, <2>3, <2>4 DEF Pending
      <4>2. CASE i = Len(mailbox) + 1
            BY <4>2, <2>2, <2>3
      <4> QED BY <4>1, <4>2, <1>1
    <3> QED BY <3>1, <2>3, <1>1 DEF Pending
  <2>6. ASSUME NEW b \in Callers, b # c
        PROVE  Pending(b)' = Pending(b) /\ call'[b] = call[b]
    <3>1. ASSUME NEW i \in 1..(Len(mailbox)+1)
          PROVE  mailbox'[i].from = b <=> i \in Pending(b)
      <4>1. CASE i \in 1..Len(mailbox)
            BY <4>1, <1>1, <2>3 DEF Pending
      <4>2. CASE i = Len(mailbox) + 1
            BY <4>2, <2>2, <2>3, <2>6, <1>1 DEF Pending
      <4> QED BY <4>1, <4>2, <1>1
    <3> QED BY <3>1, <2>2, <2>3, <2>6, <1>1 DEF Pending
  <2>7. call'[c] = Waiting
        BY <1>1, <2>2
  <2> QED BY <2>5, <2>6, <2>7 DEF CallsPaired
<1>3. CASE Return(c)
  <2>1. /\ call[c].st = "answered" /\ mailbox' = mailbox /\ call' = [call EXCEPT ![c] = Idle]
        BY <1>3 DEF Return
  <2>2. call[c] # Waiting /\ call'[c] # Waiting /\ \A b \in Callers : b # c => call'[b] = call[b]
        BY <1>1, <2>1, CallStates
  <2>3. \A b \in Callers : Pending(b)' = Pending(b)
        BY <2>1 DEF Pending
  <2>4. \A b \in Callers : call'[b] = Waiting <=> call[b] = Waiting
        BY <2>2
  <2> QED BY <2>3, <2>4 DEF CallsPaired
<1>4. CASE Drop(c)
  <2>1. /\ Len(mailbox') = Len(mailbox)
        /\ \A i \in 1..Len(mailbox) :
             /\ mailbox[i].from = c => mailbox'[i].from = Nobody
             /\ mailbox[i].from # c => mailbox'[i] = mailbox[i]
        BY <1>1, <1>4, DropIs
  <2>2. call' = [call EXCEPT ![c] = Idle]
        BY <1>4 DEF Drop
  <2>3. Pending(c)' = {} /\ call'[c] # Waiting
        BY <1>1, <2>1, <2>2, CallStates DEF Pending
  <2>4. \A b \in Callers : b # c => Pending(b)' = Pending(b) /\ call'[b] = call[b]
        BY <1>1, <2>1, <2>2 DEF Pending
  <2> QED BY <2>3, <2>4 DEF CallsPaired
<1> QED BY <1>2, <1>3, <1>4 DEF Client

LEMMA NextPairs == Inv /\ CallsPaired /\ [Next]_vars => CallsPaired'
<1> SUFFICES ASSUME Inv, CallsPaired, [Next]_vars PROVE CallsPaired'
    OBVIOUS
<1>1. TypeOK /\ mailbox \in Seq(Command)
      BY DEF Inv, TypeOK
<1>2. CASE UNCHANGED <<mailbox, call>>
      BY <1>2 DEF CallsPaired, Pending
<1>3. CASE Task
  <2>1. mailbox # <<>> /\ \E out : Finish(mailbox[1], out)
        BY <1>1, <1>3, TaskServes
  <2> QED BY <1>1, <2>1, FinishPairs
<1>4. CASE \E c \in Callers : Client(c)
      BY <1>1, <1>4, ClientPairs
<1>5. CASE \E survive \in BOOLEAN : AgentRestart(survive)
  <2>1. mailbox' = <<>> /\ call' = [c \in Callers |-> Idle]
        BY <1>5 DEF AgentRestart
  <2>2. \A c \in Callers : Pending(c)' = {} /\ call'[c] # Waiting
        BY <2>1, CallStates DEF Pending
  <2> QED BY <2>2 DEF CallsPaired
<1>6. [Next]_vars => \/ UNCHANGED <<mailbox, call>> \/ Task
                     \/ \E c \in Callers : Client(c)
                     \/ \E survive \in BOOLEAN : AgentRestart(survive)
      BY DEF Next, vars, System, Exit, Kill
<1> QED BY <1>2, <1>3, <1>4, <1>5, <1>6

LEMMA InitPairs == Init => CallsPaired
<1> SUFFICES ASSUME Init PROVE CallsPaired
    OBVIOUS
<1>1. \A c \in Callers : Pending(c) = {} /\ call[c] # Waiting
      BY CallStates DEF Init, Pending
<1> QED BY <1>1 DEF CallsPaired

-----------------------------------------------------------------------------
(* The theorems *)

THEOREM Invariance == Spec => []Inv
<1>1. Inv /\ [Next]_vars => Inv'
      BY NextInv
<1> QED BY <1>1, InitInv, PTL DEF Spec

(* The table, the processes, the mailbox and the calls keep their types, and *)
(* the mailbox its bound, for any number of apps, callers and processes.     *)
THEOREM TypeCorrect == Spec => []TypeOK
<1>1. Inv => TypeOK
      BY DEF Inv
<1> QED BY <1>1, Invariance, PTL

(* A recorded pid is always that of a process the manager started for that   *)
(* very app and that was not given away since.                               *)
THEOREM PidsAreOwn == Spec => []RecordedPidIsOwn
<1>1. Inv => RecordedPidIsOwn
      BY MachineIs DEF Inv, Consistent, OwnPids, RecordedPidIsOwn
<1> QED BY <1>1, Invariance, PTL

(* An app has a pid only when it is Running, and a Running app without one   *)
(* is what a failed uninstall left.                                          *)
THEOREM PidsMatchStates == Spec => []PidMatchesState
<1>1. Inv => PidMatchesState
      BY MachineIs DEF Inv, Consistent, OwnPids, Running, PidMatchesState
<1> QED BY <1>1, Invariance, PTL

(* No live process goes untracked except in the ways the model names.        *)
THEOREM ProcessesAreTracked == Spec => []TrackedOrExplained
<1>1. Inv => TrackedOrExplained
      BY MachineIs DEF Inv, Consistent, Explained, TrackedOrExplained
<1> QED BY <1>1, Invariance, PTL

(* No app without a manifest ever gets to run.                               *)
THEOREM StartsNeedManifests == Spec => []StartNeedsManifest
<1>1. Inv => StartNeedsManifest
      BY MachineIs DEF Inv, Consistent, Manifests, StartNeedsManifest
<1> QED BY <1>1, Invariance, PTL

(* A caller waits exactly when one command of its own is on its way: no      *)
(* answer can reach a later call, and nobody waits for one that will not     *)
(* come, for any number of callers, whoever drops its call and whenever the  *)
(* agent restarts.                                                           *)
THEOREM AnswersFindTheirCallers == Spec => []CallsMatchMailbox
<1>1. Init => Inv /\ CallsPaired
      BY InitInv, InitPairs
<1>2. (Inv /\ CallsPaired) /\ [Next]_vars => (Inv /\ CallsPaired)'
      BY NextInv, NextPairs
<1>3. CallsPaired => CallsMatchMailbox
      BY PairedMatch
<1> QED BY <1>1, <1>2, <1>3, PTL DEF Spec

(* Every step moves every app along the state machine or leaves it alone.    *)
THEOREM TransitionsAreLegal == Spec => LegalTransitions
<1>1. Inv /\ [Next]_vars =>
        [\A a \in Apps : apps'[a].state = apps[a].state
                           \/ <<apps[a].state, apps'[a].state>> \in LegalMoves]_vars
      BY NextInv, MachineIs DEF Moves
<1> QED BY <1>1, Invariance, PTL DEF Spec, LegalTransitions
=============================================================================
