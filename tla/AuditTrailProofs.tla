--------------------------- MODULE AuditTrailProofs ---------------------------
(* Theorems about AuditTrail, for any requests and any bounds; the last of  *)
(* them says that it implements AuditedCall.                                *)
EXTENDS AuditTrail, TLAPS, SequenceTheorems

(* What is held while an append is in the sink is true: nobody else inserts *)
HeldIsCurrent ==
  \A t \in Tasks :
    /\ append[t].at \in {"number", "insert"} => append[t].prev = LastHash
    /\ append[t].at = "insert" => append[t].seq = Len(rows) + 1

(* A request appends in its own task, while it waits for the outcome *)
InCall ==
  \A r \in Requests : append[r].at # "none" <=> req[r] \in {"denying", "entering"}

ChainInv == TypeOK /\ InCall /\ HeldIsCurrent /\ ChainVerifies

-----------------------------------------------------------------------------
(* Types *)

LEMMA EventTyped ==
  ASSUME NEW r \in Requests, NEW tag \in {"entry", "deny", "exit"},
         NEW kind \in {"entry", "refusal", "exit"}
  PROVE  Event(r, tag, kind) \in Events
BY DEF Event, Events, Id, Ids

LEMMA TasksDiffer ==
  /\ Writers \subseteq Tasks /\ Requests \subseteq Tasks
  /\ \A r \in Requests : r \notin Writers
  /\ NoOne \notin Tasks
BY TrailAssumption DEF Tasks

(* The fields of an append follow from where it is *)
LEMMA AppendFields ==
  ASSUME NEW x \in Appends
  PROVE  /\ x.at \in {"none", "lock", "hash", "number", "insert"}
         /\ x.at = "none" => x = NoAppend
         /\ x.at # "none" => x.event \in Events
         /\ x.at \in {"lock", "hash"} => x \in [at : {"lock", "hash"}, event : Events]
         /\ x.at \in {"number", "insert"} => x.prev \in Ids \cup {NoId}
         /\ x.at = "insert" => x.seq \in Nat
<1>1. CASE x = NoAppend
      BY <1>1 DEF NoAppend
<1>2. CASE x \in [at : {"lock", "hash"}, event : Events]
      BY <1>2
<1>3. CASE x \in [at : {"number"}, event : Events, prev : Ids \cup {NoId}]
      BY <1>3
<1>4. CASE x \in [at : {"insert"}, event : Events, prev : Ids \cup {NoId}, seq : Nat]
      BY <1>4
<1> QED BY <1>1, <1>2, <1>3, <1>4 DEF Appends

(* An append that is where it was goes on with the lock as it was; one that *)
(* is replaced agrees with the lock.                                        *)
LEMMA AppendMoves ==
  ASSUME TypeOK, NEW t \in Tasks, NEW x \in Appends,
         append' = [append EXCEPT ![t] = x],
         \/ lock' = lock /\ (InSink(t) <=> x.at \in {"hash", "number", "insert"})
         \/ lock' = t /\ lock = NoOne /\ x.at \in {"hash", "number", "insert"}
         \/ lock' = NoOne /\ lock = t /\ x.at \notin {"hash", "number", "insert"}
  PROVE  /\ lock' \in Tasks \cup {NoOne}
         /\ append' \in [Tasks -> Appends]
         /\ \A u \in Tasks : InSink(u)' <=> lock' = u
<1>1. /\ append \in [Tasks -> Appends] /\ lock \in Tasks \cup {NoOne}
      /\ \A u \in Tasks : InSink(u) <=> lock = u
      BY DEF TypeOK
<1>2. append'[t] = x /\ \A u \in Tasks : u # t => append'[u] = append[u]
      BY <1>1
<1>3. append' \in [Tasks -> Appends]
      BY <1>1
<1>4. ASSUME NEW u \in Tasks PROVE InSink(u)' <=> lock' = u
  <2>1. CASE u = t
        BY <1>1, <1>2, <2>1, TasksDiffer DEF InSink
  <2>2. CASE u # t
        BY <1>1, <1>2, <2>2, TasksDiffer DEF InSink
  <2> QED BY <2>1, <2>2
<1> QED BY <1>1, <1>3, <1>4

LEMMA SettleTyped ==
  ASSUME TypeOK, NEW t \in Tasks, NEW ok \in BOOLEAN, Settle(t, ok)
  PROVE  /\ append' = [append EXCEPT ![t] = NoAppend]
         /\ req' \in [Requests -> {"new", "denying", "entering", "handling", "done",
                                   "refused", "cancelled"}]
BY TasksDiffer DEF Settle, TypeOK, Tasks

LEMMA LastHashTyped ==
  ASSUME TypeOK
  PROVE  LastHash \in Ids \cup {NoId}
<1>1. rows \in Seq(Rows)
      BY DEF TypeOK
<1>2. CASE rows # <<>>
  <2>1. rows[Len(rows)] \in Rows
        BY <1>1, <1>2
  <2>2. rows[Len(rows)].event.id \in Ids
        BY <2>1 DEF Rows, Events
  <2> QED BY <1>2, <2>2 DEF LastHash
<1> QED BY <1>2 DEF LastHash

LEMMA AppendStepTyped ==
  ASSUME TypeOK, NEW t \in Tasks, AppendStep(t)
  PROVE  TypeOK'
<1> DEFINE x == append[t]
<1>0. /\ x \in Appends /\ NoAppend \in Appends /\ (InSink(t) <=> lock = t)
      /\ append \in [Tasks -> Appends] /\ rows \in Seq(Rows)
      /\ NoAppend.at = "none"
      BY DEF TypeOK, Appends, NoAppend
<1>1. CASE Acquire(t)
  <2>1. [x EXCEPT !.at = "hash"] \in [at : {"hash"}, event : Events]
        BY <1>0, <1>1, AppendFields DEF Acquire
  <2>2. append' = [append EXCEPT ![t] = [x EXCEPT !.at = "hash"]]
        BY <1>0, <1>1 DEF Acquire
  <2> QED BY <1>1, <2>1, <2>2, AppendMoves DEF Acquire, TypeOK, Appends
<1>2. CASE ReadHash(t)
  <2>1. LastHash \in Ids \cup {NoId}
        BY LastHashTyped
  <2> DEFINE y == [at |-> "number", event |-> x.event, prev |-> LastHash]
  <2>2. y \in Appends /\ y.at = "number"
        BY <1>0, <1>2, <2>1, AppendFields DEF ReadHash, Appends
  <2>3. append' = [append EXCEPT ![t] = y]
        BY <1>0, <1>2 DEF ReadHash
  <2> HIDE DEF y
  <2> QED BY <1>0, <1>2, <2>2, <2>3, AppendMoves DEF ReadHash, TypeOK, InSink
<1>3. CASE ReadNumber(t)
  <2> DEFINE y == [at |-> "insert", event |-> x.event, prev |-> x.prev,
                   seq |-> Len(rows) + 1]
  <2>1. Len(rows) + 1 \in Nat
        BY <1>0
  <2>2. y \in Appends /\ y.at = "insert"
        BY <1>0, <1>3, <2>1, AppendFields DEF ReadNumber, Appends
  <2>3. append' = [append EXCEPT ![t] = y]
        BY <1>0, <1>3 DEF ReadNumber
  <2> HIDE DEF y
  <2> QED BY <1>0, <1>3, <2>2, <2>3, AppendMoves DEF ReadNumber, TypeOK, InSink
<1>4. CASE Insert(t)
  <2>1. [event |-> x.event, prev |-> x.prev] \in Rows
        BY <1>0, <1>4, AppendFields DEF Insert, Rows
  <2>2. rows' \in Seq(Rows)
        BY <1>0, <1>4, <2>1 DEF Insert
  <2> QED BY <1>0, <1>4, <2>2, SettleTyped, AppendMoves DEF Insert, TypeOK, InSink
<1>5. CASE Conflict(t)
      BY <1>0, <1>5, SettleTyped, AppendMoves DEF Conflict, TypeOK, InSink
<1>6. CASE InsertFails(t)
  <2>1. faults' \in 0..MaxFaults
        BY <1>6, TrailAssumption DEF InsertFails, TypeOK
  <2>2. dropped' \subseteq Events
        BY <1>0, <1>6, AppendFields DEF InsertFails, TypeOK
  <2> QED BY <1>0, <1>6, <2>1, <2>2, SettleTyped, AppendMoves DEF InsertFails, TypeOK, InSink
<1> QED BY <1>1, <1>2, <1>3, <1>4, <1>5, <1>6 DEF AppendStep

LEMMA TakeTyped ==
  ASSUME TypeOK, NEW w \in Writers, Take(w)
  PROVE  TypeOK'
<1> DEFINE y == Starting(Head(queue[w]))
<1>1. queue[w] \in Seq(Events) /\ queue[w] # <<>>
      BY DEF Take, TypeOK
<1>2. y \in Appends /\ y.at = "lock"
      BY <1>1 DEF Starting, Appends
<1>3. append' = [append EXCEPT ![w] = y] /\ lock' = lock /\ ~InSink(w) /\ w \in Tasks
      BY TasksDiffer DEF Take, TypeOK, InSink, NoAppend
<1>4. queue' \in [Writers -> Seq(Events)]
      BY <1>1 DEF Take, TypeOK
<1> HIDE DEF y
<1> QED BY <1>2, <1>3, <1>4, AppendMoves DEF Take, TypeOK

LEMMA WriteExitTyped ==
  ASSUME TypeOK, NEW r \in Requests, NEW kind \in {"refusal", "exit"}, WriteExit(r, kind)
  PROVE  queue' \in [Writers -> Seq(Events)]
<1>1. SideOf(r) \in Writers
      BY DEF SideOf, Writers
<1>2. Append(queue[SideOf(r)], Event(r, "exit", kind)) \in Seq(Events)
      BY <1>1, EventTyped DEF TypeOK
<1> QED BY <1>1, <1>2 DEF WriteExit, TypeOK

LEMMA ChainTyped ==
  ASSUME TypeOK, InCall, NEW r \in Requests, Chain(r)
  PROVE  TypeOK'
<1>1. ASSUME NEW tag \in {"entry", "deny"}, NEW kind \in {"entry", "refusal"},
             append' = [append EXCEPT ![r] = Starting(Event(r, tag, kind))],
             lock' = lock, req[r] = "new"
      PROVE  /\ append' \in [Tasks -> Appends]
             /\ \A u \in Tasks : InSink(u)' <=> lock' = u
  <2> DEFINE y == Starting(Event(r, tag, kind))
  <2>1. y \in Appends /\ y.at = "lock"
        BY EventTyped DEF Starting, Appends
  <2>2. ~InSink(r) /\ r \in Tasks
        BY <1>1, TasksDiffer DEF InSink, NoAppend, InCall
  <2>3. append' = [append EXCEPT ![r] = y]
        BY <1>1
  <2> HIDE DEF y
  <2> QED BY <1>1, <2>1, <2>2, <2>3, AppendMoves
<1>2. CASE Refuse(r)
      BY <1>2 DEF Refuse, TypeOK, InSink
<1>3. CASE RefuseSession(r)
  <2>1. queue' \in [Writers -> Seq(Events)]
        BY <1>3, WriteExitTyped DEF RefuseSession
  <2> QED BY <1>3, <2>1 DEF RefuseSession, TypeOK, InSink
<1>4. CASE Deny(r)
      BY <1>1, <1>4 DEF Deny, TypeOK
<1>5. CASE Allow(r)
      BY <1>1, <1>5 DEF Allow, TypeOK
<1>6. CASE Finish(r)
  <2>1. queue' \in [Writers -> Seq(Events)]
        BY <1>6, WriteExitTyped DEF Finish
  <2> QED BY <1>6, <2>1 DEF Finish, TypeOK, InSink
<1>7. CASE Cancel(r)
      BY <1>7 DEF Cancel, TypeOK, InSink
<1> QED BY <1>2, <1>3, <1>4, <1>5, <1>6, <1>7 DEF Chain

LEMMA RestartTyped ==
  ASSUME TypeOK, Restart
  PROVE  TypeOK'
<1>1. crashes' \in 0..MaxCrashes
      BY TrailAssumption DEF Restart, TypeOK
<1>2. \A t \in Tasks : append'[t] = NoAppend
      BY DEF Restart
<1>3. append' \in [Tasks -> Appends]
      BY DEF Restart, Appends
<1>4. \A t \in Tasks : InSink(t)' <=> lock' = t
      BY <1>2, TasksDiffer DEF Restart, InSink, NoAppend
<1>5. queue' \in [Writers -> Seq(Events)]
      BY DEF Restart
<1>6. req' \in [Requests -> {"new", "denying", "entering", "handling", "done",
                             "refused", "cancelled"}]
      BY DEF Restart, TypeOK
<1> QED BY <1>1, <1>3, <1>4, <1>5, <1>6 DEF Restart, TypeOK

-----------------------------------------------------------------------------
(* The chain of hashes *)

LEMMA InCallStep ==
  ASSUME TypeOK, InCall, Next
  PROVE  InCall'
<1>0. /\ append \in [Tasks -> Appends] /\ NoAppend.at = "none"
      /\ req \in [Requests -> {"new", "denying", "entering", "handling", "done",
                               "refused", "cancelled"}]
      BY DEF TypeOK, NoAppend
<1>1. ASSUME NEW t \in Tasks, AppendStep(t) PROVE InCall'
  <2>1. ASSUME NEW ok, Settle(t, ok), append[t].at = "insert" PROVE InCall'
        BY <1>0, <2>1, TasksDiffer DEF Settle, InCall, Tasks
  <2>2. CASE Acquire(t)
        BY <1>0, <2>2, TasksDiffer, AppendFields DEF Acquire, InCall
  <2>3. CASE ReadHash(t)
        BY <1>0, <2>3, TasksDiffer DEF ReadHash, InCall
  <2>4. CASE ReadNumber(t)
        BY <1>0, <2>4, TasksDiffer DEF ReadNumber, InCall
  <2> QED BY <1>1, <2>1, <2>2, <2>3, <2>4 DEF AppendStep, Insert, Conflict, InsertFails
<1>2. ASSUME NEW r \in Requests, Chain(r) PROVE InCall'
  <2>1. CASE Deny(r)
        BY <1>0, <2>1, TasksDiffer DEF Deny, Starting, InCall
  <2>2. CASE Allow(r)
        BY <1>0, <2>2, TasksDiffer DEF Allow, Starting, InCall
  <2>3. CASE Refuse(r) \/ RefuseSession(r) \/ Finish(r) \/ Cancel(r)
        BY <1>0, <2>3, TasksDiffer DEF Refuse, RefuseSession, Finish, Cancel, InCall
  <2> QED BY <1>2, <2>1, <2>2, <2>3 DEF Chain
<1>3. ASSUME NEW w \in Writers, Take(w) PROVE InCall'
      BY <1>0, <1>3, TasksDiffer DEF Take, InCall
<1>4. CASE Restart
      BY <1>0, <1>4, TasksDiffer DEF Restart, InCall
<1> QED BY <1>1, <1>2, <1>3, <1>4 DEF Next

LEMMA TypeStep ==
  ASSUME TypeOK, InCall, Next
  PROVE  TypeOK'
BY AppendStepTyped, ChainTyped, TakeTyped, RestartTyped DEF Next

(* Only an insert changes the trail, and its task is alone in the sink *)
LEMMA InsertStep ==
  ASSUME ChainInv, NEW t \in Tasks, Insert(t)
  PROVE  HeldIsCurrent' /\ ChainVerifies'
<1> DEFINE row == [event |-> append[t].event, prev |-> append[t].prev]
<1>1. /\ rows \in Seq(Rows) /\ append \in [Tasks -> Appends]
      /\ InSink(t) /\ \A u \in Tasks : InSink(u) <=> lock = u
      /\ append[t].prev = LastHash
      BY DEF ChainInv, TypeOK, HeldIsCurrent, Insert, InSink
<1>2. rows' = Append(rows, row) /\ row.prev = LastHash
      BY <1>1 DEF Insert
<1>3. \A u \in Tasks : append'[u].at \notin {"number", "insert"}
      BY <1>1 DEF Insert, Settle, InSink, NoAppend
<1>4. HeldIsCurrent'
      BY <1>3 DEF HeldIsCurrent
<1> HIDE DEF row
<1>5. Len(rows') = Len(rows) + 1 /\ Len(rows) \in Nat
      BY <1>1, <1>2
<1>6. ASSUME NEW i \in 1..Len(rows')
      PROVE  rows'[i].prev = IF i = 1 THEN NoId ELSE rows'[i - 1].event.id
  <2>1. CASE i = Len(rows')
    <3>1. rows'[i] = row
          BY <1>1, <1>2, <1>5, <2>1
    <3>2. CASE i = 1
          BY <1>1, <1>2, <1>5, <2>1, <3>1, <3>2 DEF LastHash
    <3>3. CASE i # 1
      <4>1. rows # <<>> /\ rows'[i - 1] = rows[Len(rows)]
            BY <1>1, <1>2, <1>5, <2>1, <3>3
      <4> QED BY <1>2, <3>1, <3>3, <4>1 DEF LastHash
    <3> QED BY <3>2, <3>3
  <2>2. CASE i # Len(rows')
    <3>1. i \in 1..Len(rows) /\ rows'[i] = rows[i]
          BY <1>1, <1>2, <1>5, <2>2
    <3>2. i # 1 => rows'[i - 1] = rows[i - 1]
          BY <1>1, <1>2, <1>5, <3>1
    <3> QED BY <3>1, <3>2 DEF ChainInv, ChainVerifies
  <2> QED BY <2>1, <2>2
<1>7. ChainVerifies'
      BY <1>6 DEF ChainVerifies
<1> QED BY <1>4, <1>7

(* Every other step leaves the trail alone, and what is held is read now or *)
(* was held before.                                                         *)
LEMMA OtherStep ==
  ASSUME ChainInv, Next, \A t \in Tasks : ~Insert(t)
  PROVE  HeldIsCurrent' /\ ChainVerifies'
<1>1. /\ append \in [Tasks -> Appends] /\ NoAppend.at = "none"
      /\ HeldIsCurrent
      BY DEF ChainInv, TypeOK, NoAppend
<1>2. rows' = rows
      BY DEF Next, AppendStep, Acquire, ReadHash, ReadNumber, Conflict, InsertFails, Chain,
             Refuse, RefuseSession, Deny, Allow, Finish, Cancel, Take, Restart
<1>3. ChainVerifies' /\ LastHash' = LastHash
      BY <1>2 DEF ChainInv, ChainVerifies, LastHash
<1>4. ASSUME NEW u \in Tasks
      PROVE  \/ append'[u] = append[u]
             \/ append'[u].at \notin {"number", "insert"}
             \/ append'[u].at = "number" /\ append'[u].prev = LastHash
             \/ /\ append'[u].at = "insert" /\ append'[u].seq = Len(rows) + 1
                /\ append[u].at = "number" /\ append'[u].prev = append[u].prev
  <2>1. ASSUME NEW t \in Tasks, AppendStep(t)
        PROVE  \/ append'[u] = append[u]
               \/ append'[u].at \notin {"number", "insert"}
               \/ append'[u].at = "number" /\ append'[u].prev = LastHash
               \/ /\ append'[u].at = "insert" /\ append'[u].seq = Len(rows) + 1
                  /\ append[u].at = "number" /\ append'[u].prev = append[u].prev
    <3>1. CASE Acquire(t)
          BY <1>1, <3>1, AppendFields DEF Acquire
    <3>2. CASE ReadHash(t)
          BY <1>1, <3>2 DEF ReadHash
    <3>3. CASE ReadNumber(t)
          BY <1>1, <3>3 DEF ReadNumber
    <3>4. CASE Conflict(t) \/ InsertFails(t)
          BY <1>1, <3>4 DEF Conflict, InsertFails, Settle
    <3> QED BY <2>1, <3>1, <3>2, <3>3, <3>4 DEF AppendStep
  <2>2. ASSUME NEW r \in Requests, Chain(r)
        PROVE  append'[u] = append[u] \/ append'[u].at \notin {"number", "insert"}
        BY <1>1, <2>2, TasksDiffer DEF Chain, Refuse, RefuseSession, Deny, Allow, Finish,
             Cancel, Starting
  <2>3. ASSUME NEW w \in Writers, Take(w)
        PROVE  append'[u] = append[u] \/ append'[u].at \notin {"number", "insert"}
        BY <1>1, <2>3, TasksDiffer DEF Take, Starting
  <2>4. CASE Restart
        BY <1>1, <2>4 DEF Restart
  <2> QED BY <2>1, <2>2, <2>3, <2>4 DEF Next
<1>5. HeldIsCurrent'
      BY <1>1, <1>2, <1>3, <1>4 DEF HeldIsCurrent
<1> QED BY <1>3, <1>5

LEMMA ChainInvInit == Init => ChainInv
<1> SUFFICES ASSUME Init PROVE ChainInv
    OBVIOUS
<1>1. TypeOK
      BY TasksDiffer, TrailAssumption
      DEF Init, TypeOK, InSink, NoAppend, Appends
<1>2. InCall
      BY TasksDiffer DEF Init, InCall, NoAppend
<1>3. HeldIsCurrent /\ ChainVerifies
      BY DEF Init, HeldIsCurrent, ChainVerifies, NoAppend
<1> QED BY <1>1, <1>2, <1>3 DEF ChainInv

LEMMA ChainInvStep == ChainInv /\ [Next]_atvars => ChainInv'
<1> SUFFICES ASSUME ChainInv, [Next]_atvars PROVE ChainInv'
    OBVIOUS
<1>1. CASE Next
  <2>1. TypeOK' /\ InCall'
        BY <1>1, TypeStep, InCallStep DEF ChainInv
  <2>2. HeldIsCurrent' /\ ChainVerifies'
        BY <1>1, InsertStep, OtherStep
  <2> QED BY <2>1, <2>2 DEF ChainInv
<1>2. CASE UNCHANGED atvars
      BY <1>2 DEF atvars, ChainInv, TypeOK, InSink, InCall, HeldIsCurrent, LastHash,
                  ChainVerifies
<1> QED BY <1>1, <1>2

(* The variables keep their types, and the mutex is held by the one task in *)
(* the sink.                                                                *)
THEOREM TrailTypeCorrect == ATSpec => []TypeOK
<1>1. ChainInv => TypeOK
      BY DEF ChainInv
<1> QED BY <1>1, ChainInvInit, ChainInvStep, PTL DEF ATSpec

(* The stored events form a chain that AuditChain::verify accepts, for any  *)
(* number of requests, failed inserts and restarts.                         *)
THEOREM TrailVerifies == ATSpec => []ChainVerifies
<1>1. ChainInv => ChainVerifies
      BY DEF ChainInv
<1> QED BY <1>1, ChainInvInit, ChainInvStep, PTL DEF ATSpec

-----------------------------------------------------------------------------
(* Where events come from.  q stands for req or req'.                       *)

(* What a background task may have to write *)
Late(q, e) ==
  \/ e = Event(e.trace, "exit", "exit") /\ q[e.trace] = "done"
  \/ e = Event(e.trace, "exit", "refusal") /\ e.trace \in South /\ q[e.trace] = "refused"

(* What the trail may hold *)
Past(q, e) ==
  \/ e = Event(e.trace, "entry", "entry") /\ q[e.trace] \in {"handling", "done", "cancelled"}
  \/ e = Event(e.trace, "deny", "refusal") /\ q[e.trace] = "refused"
  \/ Late(q, e)

(* What a request appends itself *)
Early(r) ==
  IF req[r] = "entering" THEN Event(r, "entry", "entry") ELSE Event(r, "deny", "refusal")

RowsPast == \A i \in 1..Len(rows) : Past(req, rows[i].event)

QueueLate == \A w \in Writers : \A i \in 1..Len(queue[w]) : Late(req, queue[w][i])

AppendsKnown ==
  /\ \A w \in Writers : append[w].at # "none" => Late(req, append[w].event)
  /\ \A r \in Requests : append[r].at # "none" => append[r].event = Early(r)

Entered ==
  \A r \in Requests : req[r] \in {"handling", "done", "cancelled"} => Stored(r, "entry")

TrailInv == ChainInv /\ RowsPast /\ QueueLate /\ AppendsKnown /\ Entered

(* How requests may move *)
Onward(r) ==
  /\ req[r] \in {"done", "refused", "cancelled"} => req'[r] = req[r]
  /\ req[r] = "handling" => req'[r] \in {"handling", "done", "cancelled"}

LEMMA RequestMoves ==
  ASSUME TypeOK, InCall, Next, NEW r \in Requests
  PROVE  Onward(r)
<1>0. req \in [Requests -> {"new", "denying", "entering", "handling", "done",
                            "refused", "cancelled"}]
      BY DEF TypeOK
<1>1. ASSUME NEW t \in Tasks, AppendStep(t) PROVE Onward(r)
  <2>1. ASSUME NEW ok, Settle(t, ok), append[t].at = "insert" PROVE Onward(r)
        BY <1>0, <2>1, TasksDiffer DEF Settle, InCall, Tasks, Onward
  <2>2. CASE Acquire(t) \/ ReadHash(t) \/ ReadNumber(t)
        BY <1>0, <2>2 DEF Acquire, ReadHash, ReadNumber, Onward
  <2> QED BY <1>1, <2>1, <2>2 DEF AppendStep, Insert, Conflict, InsertFails
<1>2. ASSUME NEW q \in Requests, Chain(q) PROVE Onward(r)
      BY <1>0, <1>2 DEF Chain, Refuse, RefuseSession, Deny, Allow, Finish, Cancel, Onward
<1>3. ASSUME NEW w \in Writers, Take(w) PROVE Onward(r)
      BY <1>0, <1>3 DEF Take, Onward
<1>4. CASE Restart
      BY <1>0, <1>4 DEF Restart, Onward
<1> QED BY <1>1, <1>2, <1>3, <1>4 DEF Next

LEMMA KnownStays ==
  ASSUME TypeOK, InCall, Next
  PROVE  \A e \in Events : (Late(req, e) => Late(req', e)) /\ (Past(req, e) => Past(req', e))
<1> SUFFICES ASSUME NEW e \in Events
             PROVE  (Late(req, e) => Late(req', e)) /\ (Past(req, e) => Past(req', e))
    OBVIOUS
<1>1. e.trace \in Requests
      BY DEF Events
<1>2. Onward(e.trace)
      BY <1>1, RequestMoves
<1> QED BY <1>2 DEF Late, Past, Onward

LEMMA EventsTyped ==
  ASSUME TypeOK
  PROVE  /\ \A i \in 1..Len(rows) : rows[i].event \in Events
         /\ \A w \in Writers : \A i \in 1..Len(queue[w]) : queue[w][i] \in Events
         /\ \A t \in Tasks : append[t].at # "none" => append[t].event \in Events
<1>1. ASSUME NEW i \in 1..Len(rows) PROVE rows[i].event \in Events
  <2>1. rows[i] \in Rows
        BY DEF TypeOK
  <2> QED BY <2>1 DEF Rows
<1>2. ASSUME NEW w \in Writers, NEW i \in 1..Len(queue[w]) PROVE queue[w][i] \in Events
      BY DEF TypeOK
<1>3. ASSUME NEW t \in Tasks, append[t].at # "none" PROVE append[t].event \in Events
      BY <1>3, AppendFields DEF TypeOK
<1> QED BY <1>1, <1>2, <1>3

(* An insert adds an event that is due at the end of the trail *)
LEMMA InsertIsDue ==
  ASSUME TrailInv, NEW t \in Tasks, Insert(t)
  PROVE  /\ append[t].event \in Events /\ Past(req', append[t].event)
         /\ rows' = Append(rows, [event |-> append[t].event, prev |-> append[t].prev])
         /\ t \in Requests => /\ append[t].event = Early(t)
                              /\ req[t] \in {"denying", "entering"}
                              /\ req' = [req EXCEPT ![t] = IF @ = "entering" THEN "handling"
                                                           ELSE "refused"]
         /\ t \notin Requests => t \in Writers /\ req' = req /\ Late(req, append[t].event)
<1>0. /\ TypeOK /\ InCall /\ AppendsKnown /\ append[t].at = "insert"
      /\ rows' = Append(rows, [event |-> append[t].event, prev |-> append[t].prev])
      /\ req \in [Requests -> {"new", "denying", "entering", "handling", "done",
                               "refused", "cancelled"}]
      BY DEF TrailInv, ChainInv, Insert, TypeOK
<1>1. append[t].event \in Events
      BY <1>0, EventsTyped
<1>2. CASE t \in Requests
  <2>1. /\ append[t].event = Early(t) /\ req[t] \in {"denying", "entering"}
        BY <1>0, <1>2 DEF AppendsKnown, InCall
  <2>2. req' = [req EXCEPT ![t] = IF @ = "entering" THEN "handling" ELSE "refused"]
        BY <1>0, <1>2, TasksDiffer DEF Insert, Settle
  <2>3. append[t].event.trace = t
        BY <2>1 DEF Early, Event
  <2>4. Past(req', append[t].event)
        BY <1>0, <1>2, <2>1, <2>2, <2>3 DEF Past, Early
  <2> QED BY <1>0, <1>1, <1>2, <2>1, <2>2, <2>4
<1>3. CASE t \notin Requests
  <2>1. t \in Writers /\ Late(req, append[t].event)
        BY <1>0, <1>3 DEF Tasks, AppendsKnown
  <2>2. req' = req
        BY <2>1 DEF Insert, Settle
  <2> QED BY <1>0, <1>1, <1>3, <2>1, <2>2 DEF Past
<1> QED BY <1>2, <1>3

LEMMA RowsStep ==
  ASSUME TrailInv, Next
  PROVE  /\ RowsPast' /\ Entered'
         /\ \A r \in Requests, kind \in {"entry", "refusal", "exit"} :
              Stored(r, kind) => Stored(r, kind)'
<1>0. /\ TypeOK /\ InCall /\ RowsPast /\ Entered /\ rows \in Seq(Rows)
      /\ \A i \in 1..Len(rows) : rows[i].event \in Events
      /\ req \in [Requests -> {"new", "denying", "entering", "handling", "done",
                               "refused", "cancelled"}]
      BY EventsTyped DEF TrailInv, ChainInv, TypeOK
<1>1. \A i \in 1..Len(rows) : Past(req', rows[i].event)
      BY <1>0, KnownStays DEF RowsPast
<1>2. ASSUME NEW t \in Tasks, Insert(t)
      PROVE  /\ RowsPast' /\ Entered'
             /\ \A r \in Requests, kind \in {"entry", "refusal", "exit"} :
                  Stored(r, kind) => Stored(r, kind)'
  <2> DEFINE row == [event |-> append[t].event, prev |-> append[t].prev]
  <2>1. rows' = Append(rows, row) /\ Past(req', row.event)
        BY <1>2, InsertIsDue
  <2>2. row.event = append[t].event
        OBVIOUS
  <2> HIDE DEF row
  <2>3. /\ Len(rows) \in Nat /\ Len(rows') = Len(rows) + 1 /\ rows'[Len(rows) + 1] = row
        /\ \A i \in 1..Len(rows) : rows'[i] = rows[i]
        BY <1>0, <2>1
  <2>4. RowsPast'
        BY <1>1, <2>1, <2>3 DEF RowsPast
  <2>5. \A r \in Requests, kind \in {"entry", "refusal", "exit"} :
          Stored(r, kind) => Stored(r, kind)'
        BY <2>3 DEF Stored
  <2>6. Entered'
    <3>1. ASSUME NEW r \in Requests, req'[r] \in {"handling", "done", "cancelled"}
          PROVE  Stored(r, "entry")'
      <4>1. CASE req[r] \in {"handling", "done", "cancelled"}
            BY <1>0, <2>5, <4>1 DEF Entered
      <4>2. CASE req[r] \notin {"handling", "done", "cancelled"}
        <5>1. t = r /\ req[t] = "entering"
              BY <1>0, <1>2, <3>1, <4>2, InsertIsDue
        <5>2. row.event = Event(r, "entry", "entry")
              BY <1>2, <2>2, <5>1, InsertIsDue DEF Early
        <5> QED BY <2>3, <5>2 DEF Stored, Event
      <4> QED BY <4>1, <4>2
    <3> QED BY <3>1 DEF Entered
  <2> QED BY <2>4, <2>5, <2>6
<1>3. CASE \A t \in Tasks : ~Insert(t)
  <2>1. rows' = rows
        BY <1>3 DEF Next, AppendStep, Acquire, ReadHash, ReadNumber, Conflict, InsertFails, Chain,
               Refuse, RefuseSession, Deny, Allow, Finish, Cancel, Take, Restart
  <2>2. RowsPast'
        BY <1>1, <2>1 DEF RowsPast
  <2>3. \A r, kind : Stored(r, kind) <=> Stored(r, kind)'
        BY <2>1 DEF Stored
  <2>4. ASSUME NEW r \in Requests, req'[r] \in {"handling", "done", "cancelled"}
        PROVE  req[r] \in {"handling", "done", "cancelled"}
    <3>1. ASSUME NEW t \in Tasks, AppendStep(t)
          PROVE  req[r] \in {"handling", "done", "cancelled"}
      <4>1. ASSUME Settle(t, FALSE) PROVE req[r] \in {"handling", "done", "cancelled"}
            BY <1>0, <2>4, <4>1, TasksDiffer DEF Settle, Tasks
      <4>2. CASE Acquire(t) \/ ReadHash(t) \/ ReadNumber(t)
            BY <2>4, <4>2 DEF Acquire, ReadHash, ReadNumber
      <4> QED BY <1>3, <3>1, <4>1, <4>2 DEF AppendStep, Conflict, InsertFails
    <3>2. ASSUME NEW q \in Requests, Chain(q)
          PROVE  req[r] \in {"handling", "done", "cancelled"}
          BY <1>0, <2>4, <3>2 DEF Chain, Refuse, RefuseSession, Deny, Allow, Finish, Cancel
    <3>3. ASSUME NEW w \in Writers, Take(w) PROVE req[r] \in {"handling", "done", "cancelled"}
          BY <2>4, <3>3 DEF Take
    <3>4. CASE Restart
          BY <1>0, <2>4, <3>4 DEF Restart
    <3> QED BY <3>1, <3>2, <3>3, <3>4 DEF Next
  <2>5. Entered'
        BY <1>0, <2>3, <2>4 DEF Entered
  <2> QED BY <2>2, <2>3, <2>5
<1> QED BY <1>2, <1>3

LEMMA QueueStep ==
  ASSUME TrailInv, Next
  PROVE  QueueLate'
<1>0. /\ TypeOK /\ InCall /\ QueueLate /\ queue \in [Writers -> Seq(Events)]
      /\ \A w \in Writers : \A i \in 1..Len(queue[w]) : queue[w][i] \in Events
      /\ req \in [Requests -> {"new", "denying", "entering", "handling", "done",
                               "refused", "cancelled"}]
      BY EventsTyped DEF TrailInv, ChainInv, TypeOK
<1>1. \A w \in Writers : \A i \in 1..Len(queue[w]) : Late(req', queue[w][i])
      BY <1>0, KnownStays DEF QueueLate
<1>2. ASSUME NEW r \in Requests, NEW kind \in {"refusal", "exit"}, WriteExit(r, kind),
             Late(req', Event(r, "exit", kind))
      PROVE  QueueLate'
  <2>1. SideOf(r) \in Writers
        BY DEF SideOf, Writers
  <2>2. /\ queue'[SideOf(r)] = Append(queue[SideOf(r)], Event(r, "exit", kind))
        /\ \A w \in Writers : w # SideOf(r) => queue'[w] = queue[w]
        BY <1>0, <1>2, <2>1 DEF WriteExit
  <2>3. ASSUME NEW w \in Writers, NEW i \in 1..Len(queue'[w])
        PROVE  Late(req', queue'[w][i])
    <3>1. CASE w = SideOf(r)
      <4>1. \/ i \in 1..Len(queue[w]) /\ queue'[w][i] = queue[w][i]
            \/ queue'[w][i] = Event(r, "exit", kind)
            BY <1>0, <2>2, <3>1
      <4> QED BY <1>1, <1>2, <4>1
    <3>2. CASE w # SideOf(r)
          BY <1>1, <2>2, <3>2
    <3> QED BY <3>1, <3>2
  <2> QED BY <2>3 DEF QueueLate
<1>3. ASSUME queue' = queue PROVE QueueLate'
      BY <1>1, <1>3 DEF QueueLate
<1>4. ASSUME NEW r \in Requests, Chain(r) PROVE QueueLate'
  <2>1. CASE RefuseSession(r)
    <3>1. Late(req', Event(r, "exit", "refusal"))
          BY <1>0, <2>1 DEF RefuseSession, Late, Event
    <3> QED BY <1>2, <2>1, <3>1 DEF RefuseSession
  <2>2. CASE Finish(r)
    <3>1. Late(req', Event(r, "exit", "exit"))
          BY <1>0, <2>2 DEF Finish, Late, Event
    <3> QED BY <1>2, <2>2, <3>1 DEF Finish
  <2>3. CASE Refuse(r) \/ Deny(r) \/ Allow(r) \/ Cancel(r)
        BY <1>3, <2>3 DEF Refuse, Deny, Allow, Cancel
  <2> QED BY <1>4, <2>1, <2>2, <2>3 DEF Chain
<1>5. ASSUME NEW t \in Tasks, AppendStep(t) PROVE QueueLate'
      BY <1>3, <1>5 DEF AppendStep, Acquire, ReadHash, ReadNumber, Insert, Conflict, InsertFails
<1>6. ASSUME NEW v \in Writers, Take(v) PROVE QueueLate'
  <2>1. /\ queue'[v] = Tail(queue[v]) /\ queue[v] # <<>>
        /\ \A w \in Writers : w # v => queue'[w] = queue[w]
        BY <1>0, <1>6 DEF Take
  <2>2. ASSUME NEW w \in Writers, NEW i \in 1..Len(queue'[w])
        PROVE  Late(req', queue'[w][i])
    <3>1. CASE w = v
      <4>1. /\ queue[w] \in Seq(Events) /\ queue[w] # <<>> /\ queue'[w] = Tail(queue[w])
            /\ i \in 1..Len(Tail(queue[w]))
            BY <1>0, <2>1, <2>2, <3>1
      <4>2. i + 1 \in 1..Len(queue[w]) /\ queue'[w][i] = queue[w][i + 1]
            BY <4>1
      <4> QED BY <1>1, <4>2
    <3>2. CASE w # v
          BY <1>1, <2>1, <3>2
    <3> QED BY <3>1, <3>2
  <2> QED BY <2>2 DEF QueueLate
<1>7. CASE Restart
      BY <1>7 DEF Restart, QueueLate
<1> QED BY <1>4, <1>5, <1>6, <1>7 DEF Next

LEMMA AppendsStep ==
  ASSUME TrailInv, Next
  PROVE  AppendsKnown'
<1>0. /\ TypeOK /\ InCall /\ QueueLate /\ AppendsKnown /\ NoAppend.at = "none"
      /\ append \in [Tasks -> Appends]
      /\ \A t \in Tasks : append[t].at # "none" => append[t].event \in Events
      /\ req \in [Requests -> {"new", "denying", "entering", "handling", "done",
                               "refused", "cancelled"}]
      BY EventsTyped DEF TrailInv, ChainInv, TypeOK, NoAppend
<1>1. \A w \in Writers : append[w].at # "none" => Late(req', append[w].event)
      BY <1>0, KnownStays, TasksDiffer DEF AppendsKnown
(* A task whose append goes on keeps its event, and a request its state *)
<1>2. ASSUME \A t \in Tasks : \/ append'[t].at = "none"
                              \/ /\ append[t].at # "none"
                                 /\ append'[t].event = append[t].event
                                 /\ t \in Requests => req'[t] = req[t]
      PROVE  AppendsKnown'
      BY <1>0, <1>1, <1>2, TasksDiffer DEF AppendsKnown, Early
<1>3. ASSUME NEW t \in Tasks, AppendStep(t) PROVE AppendsKnown'
  <2>1. ASSUME NEW ok, Settle(t, ok) PROVE AppendsKnown'
    <3>1. ASSUME NEW u \in Tasks
          PROVE  \/ append'[u].at = "none"
                 \/ append'[u] = append[u] /\ (u \in Requests => req'[u] = req[u])
          BY <1>0, <2>1, TasksDiffer DEF Settle, Tasks
    <3> QED BY <1>2, <3>1
  <2>2. CASE Acquire(t)
    <3>1. append'[t].event = append[t].event
          BY <1>0, <2>2, AppendFields DEF Acquire
    <3> QED BY <1>0, <1>2, <2>2, <3>1 DEF Acquire
  <2>3. CASE ReadHash(t)
        BY <1>0, <1>2, <2>3 DEF ReadHash
  <2>4. CASE ReadNumber(t)
        BY <1>0, <1>2, <2>4 DEF ReadNumber
  <2> QED BY <1>3, <2>1, <2>2, <2>3, <2>4 DEF AppendStep, Insert, Conflict, InsertFails
<1>4. ASSUME NEW r \in Requests, Chain(r) PROVE AppendsKnown'
  <2>1. CASE Deny(r) \/ Allow(r)
    <3>1. /\ \A t \in Tasks : t # r => append'[t] = append[t]
          /\ \A q \in Requests : q # r => req'[q] = req[q]
          /\ append'[r].event = Early(r)'
          BY <1>0, <2>1, TasksDiffer DEF Deny, Allow, Early, Starting
    <3>2. \A w \in Writers : append'[w].at # "none" => Late(req', append'[w].event)
          BY <1>1, <3>1, TasksDiffer
    <3>3. ASSUME NEW q \in Requests, append'[q].at # "none"
          PROVE  append'[q].event = Early(q)'
          BY <1>0, <3>1, <3>3, TasksDiffer DEF AppendsKnown, Early
    <3> QED BY <3>2, <3>3 DEF AppendsKnown
  <2>2. CASE Refuse(r) \/ RefuseSession(r) \/ Finish(r) \/ Cancel(r)
    <3>1. append' = append /\ \A q \in Requests : q # r => req'[q] = req[q]
          BY <1>0, <2>2 DEF Refuse, RefuseSession, Finish, Cancel
    <3>2. append[r].at = "none"
          BY <1>0, <2>2 DEF Refuse, RefuseSession, Finish, Cancel, InCall
    <3> QED BY <1>2, <3>1, <3>2
  <2> QED BY <1>4, <2>1, <2>2 DEF Chain
<1>5. ASSUME NEW v \in Writers, Take(v) PROVE AppendsKnown'
  <2>1. /\ \A t \in Tasks : t # v => append'[t] = append[t]
        /\ append'[v].event = Head(queue[v]) /\ req' = req
        BY <1>0, <1>5, TasksDiffer DEF Take, Starting
  <2>2. Late(req', Head(queue[v]))
    <3>1. queue[v] \in Seq(Events) /\ queue[v] # <<>>
          BY <1>5 DEF Take, TypeOK, TrailInv, ChainInv
    <3>2. Head(queue[v]) = queue[v][1] /\ 1 \in 1..Len(queue[v])
          BY <3>1
    <3> QED BY <1>0, <2>1, <3>2 DEF QueueLate
  <2>3. \A w \in Writers : append'[w].at # "none" => Late(req', append'[w].event)
        BY <1>1, <2>1, <2>2, TasksDiffer
  <2>4. \A q \in Requests : append'[q].at # "none" => append'[q].event = Early(q)'
        BY <1>0, <2>1, TasksDiffer DEF AppendsKnown, Early
  <2> QED BY <2>3, <2>4 DEF AppendsKnown
<1>6. CASE Restart
      BY <1>0, <1>2, <1>6 DEF Restart
<1> QED BY <1>3, <1>4, <1>5, <1>6 DEF Next

LEMMA TrailInvInit == Init => TrailInv
<1> SUFFICES ASSUME Init PROVE TrailInv
    OBVIOUS
<1>1. RowsPast /\ QueueLate /\ AppendsKnown /\ Entered
      BY TasksDiffer DEF Init, RowsPast, QueueLate, AppendsKnown, Entered, NoAppend
<1> QED BY <1>1, ChainInvInit DEF TrailInv

LEMMA TrailInvStep == TrailInv /\ [Next]_atvars => TrailInv'
<1> SUFFICES ASSUME TrailInv, [Next]_atvars PROVE TrailInv'
    OBVIOUS
<1>1. ChainInv'
      BY ChainInvStep DEF TrailInv
<1>2. CASE Next
      BY <1>1, <1>2, RowsStep, QueueStep, AppendsStep DEF TrailInv
<1>3. CASE UNCHANGED atvars
  <2>1. RowsPast' /\ QueueLate' /\ AppendsKnown' /\ Entered'
        BY <1>3 DEF atvars, TrailInv, RowsPast, QueueLate, AppendsKnown, Entered, Early, Stored
  <2> QED BY <1>1, <2>1 DEF TrailInv
<1> QED BY <1>2, <1>3

-----------------------------------------------------------------------------
(* The exits of secured_rpc *)

ExitsKept == \A r \in South : req[r] = "done" => ExitKept(r)

(* In the trail, the id of an exit of the south belongs to that exit *)
LEMMA ExitIdIsOwn ==
  ASSUME TrailInv, NEW r \in South, req[r] = "done", NEW i \in 1..Len(rows),
         rows[i].event.id = Event(r, "exit", "exit").id
  PROVE  Stored(r, "exit")
<1> DEFINE f == rows[i].event
<1>1. Past(req, f) /\ f \in Events
      BY EventsTyped DEF TrailInv, ChainInv, RowsPast
<1>2. f.id = <<r, "exit">> /\ r \notin North
      BY TrailAssumption DEF Event, Id
<1> HIDE DEF f
<1>3. f = Event(f.trace, "exit", "exit") \/ f = Event(f.trace, "exit", "refusal")
      BY <1>1, <1>2 DEF Past, Late, Event, Id
<1>4. f.trace = r
      BY <1>2, <1>3 DEF Event, Id
<1>5. f.kind = "exit"
  <2>1. CASE f = Event(f.trace, "exit", "exit")
        BY <2>1 DEF Event
  <2>2. CASE f = Event(f.trace, "exit", "refusal")
        BY <1>1, <1>4, <2>2 DEF Past, Late, Event
  <2> QED BY <1>3, <2>1, <2>2
<1> QED BY <1>4, <1>5 DEF Stored, f

LEMMA QueuedStays ==
  ASSUME TypeOK, InCall, Next, NEW e \in Events, Queued(e)
  PROVE  Queued(e)' \/ Appending(e)' \/ e \in dropped'
<1>0. queue \in [Writers -> Seq(Events)] /\ append \in [Tasks -> Appends]
      BY DEF TypeOK
<1>1. PICK w \in Writers : \E i \in 1..Len(queue[w]) : queue[w][i] = e
      BY DEF Queued
<1>2. PICK i \in 1..Len(queue[w]) : queue[w][i] = e
      BY <1>1
<1>3. ASSUME queue' = queue PROVE Queued(e)'
      BY <1>2, <1>3 DEF Queued
<1>4. ASSUME NEW r \in Requests, NEW kind, WriteExit(r, kind) PROVE Queued(e)'
  <2>1. SideOf(r) \in Writers
        BY DEF SideOf, Writers
  <2>2. /\ queue[w] \in Seq(Events)
        /\ queue'[w] = queue[w] \/ queue'[w] = Append(queue[w], Event(r, "exit", kind))
        BY <1>0, <1>4, <2>1 DEF WriteExit
  <2>3. i \in 1..Len(queue'[w]) /\ queue'[w][i] = queue[w][i]
    <3>1. CASE queue'[w] = queue[w]
          BY <1>2, <3>1
    <3>2. CASE queue'[w] = Append(queue[w], Event(r, "exit", kind))
          BY <1>2, <2>2, <3>2
    <3> QED BY <2>2, <3>1, <3>2
  <2> QED BY <1>2, <2>3 DEF Queued
<1>5. ASSUME NEW t \in Tasks, AppendStep(t) PROVE Queued(e)'
      BY <1>3, <1>5 DEF AppendStep, Acquire, ReadHash, ReadNumber, Insert, Conflict, InsertFails
<1>6. ASSUME NEW r \in Requests, Chain(r) PROVE Queued(e)'
      BY <1>3, <1>4, <1>6 DEF Chain, Refuse, RefuseSession, Deny, Allow, Finish, Cancel
<1>7. ASSUME NEW v \in Writers, Take(v) PROVE Queued(e)' \/ Appending(e)'
  <2>1. CASE v # w
    <3>1. queue'[w] = queue[w]
          BY <1>0, <1>7, <2>1 DEF Take
    <3> QED BY <1>2, <3>1 DEF Queued
  <2>2. CASE v = w /\ i = 1
    <3>1. append'[v] = Starting(Head(queue[v])) /\ v \in Tasks
          BY <1>0, <1>7, TasksDiffer DEF Take
    <3>2. Head(queue[v]) = e
          BY <1>2, <2>2
    <3> QED BY <3>1, <3>2 DEF Appending, Starting
  <2>3. CASE v = w /\ i # 1
    <3>1. queue[w] \in Seq(Events) /\ queue[w] # <<>> /\ queue'[w] = Tail(queue[w])
          BY <1>0, <1>7, <2>3 DEF Take
    <3>2. i - 1 \in 1..Len(queue'[w]) /\ queue'[w][i - 1] = e
          BY <1>2, <2>3, <3>1
    <3> QED BY <3>2 DEF Queued
  <2> QED BY <2>1, <2>2, <2>3
<1>8. CASE Restart
      BY <1>8 DEF Restart
<1> QED BY <1>5, <1>6, <1>7, <1>8 DEF Next

LEMMA AppendingStays ==
  ASSUME TrailInv, Next, NEW r \in South, req[r] = "done", Appending(Event(r, "exit", "exit"))
  PROVE  \/ Stored(r, "exit")' \/ Appending(Event(r, "exit", "exit"))'
         \/ Event(r, "exit", "exit") \in dropped'
<1> DEFINE e == Event(r, "exit", "exit")
<1>0. /\ TypeOK /\ InCall /\ HeldIsCurrent /\ append \in [Tasks -> Appends]
      /\ e \in Events /\ r \in Requests /\ e.trace = r /\ e.kind = "exit"
      BY EventTyped DEF TrailInv, ChainInv, TypeOK, Requests, Event
<1>1. PICK t \in Tasks : append[t].at # "none" /\ append[t].event = e
      BY DEF Appending
<1>2. ASSUME append'[t].at # "none" /\ append'[t].event = append[t].event
      PROVE  Appending(e)'
      BY <1>1, <1>2 DEF Appending
<1> HIDE DEF e
<1>3. ASSUME NEW u \in Tasks, AppendStep(u)
      PROVE  Stored(r, "exit")' \/ Appending(e)' \/ e \in dropped'
  <2>1. CASE u # t
    <3>1. append'[t] = append[t]
          BY <1>0, <1>3, <2>1 DEF AppendStep, Acquire, ReadHash, ReadNumber, Insert, Conflict,
               InsertFails, Settle
    <3> QED BY <1>1, <1>2, <3>1
  <2>2. CASE u = t /\ Acquire(u)
    <3>1. append'[t].event = append[t].event /\ append'[t].at = "hash"
          BY <1>0, <2>2, AppendFields DEF Acquire
    <3> QED BY <1>2, <3>1
  <2>3. CASE u = t /\ ReadHash(u)
        BY <1>0, <1>2, <2>3 DEF ReadHash
  <2>4. CASE u = t /\ ReadNumber(u)
        BY <1>0, <1>2, <2>4 DEF ReadNumber
  <2>5. CASE u = t /\ Insert(u)
    <3>1. rows \in Seq(Rows) /\ rows' = Append(rows, [event |-> e, prev |-> append[t].prev])
          BY <1>0, <1>1, <2>5 DEF Insert, TypeOK
    <3>2. Len(rows) + 1 \in 1..Len(rows') /\ rows'[Len(rows) + 1].event = e
          BY <3>1
    <3> QED BY <1>0, <3>2 DEF Stored
  <2>6. CASE u = t /\ Conflict(u)
    <3>1. \E i \in 1..Len(rows) : rows[i].event.id = e.id
          BY <1>0, <1>1, <2>6 DEF Conflict, Taken, HeldIsCurrent
    <3>2. Stored(r, "exit")
          BY <3>1, ExitIdIsOwn DEF e
    <3> QED BY <2>6, <3>2 DEF Conflict, Stored
  <2>7. CASE u = t /\ InsertFails(u)
        BY <1>1, <2>7 DEF InsertFails
  <2> QED BY <1>3, <2>1, <2>2, <2>3, <2>4, <2>5, <2>6, <2>7 DEF AppendStep
<1>4. ASSUME NEW q \in Requests, Chain(q) PROVE Appending(e)'
  <2>1. append'[t] = append[t]
    <3>1. req[q] \notin {"denying", "entering"}
          BY <1>4 DEF Chain, Refuse, RefuseSession, Deny, Allow, Finish, Cancel
    <3>2. q # t
          BY <1>0, <1>1, <3>1 DEF InCall
    <3> QED BY <1>0, <1>4, <3>2 DEF Chain, Refuse, RefuseSession, Deny, Allow, Finish, Cancel
  <2> QED BY <1>1, <1>2, <2>1
<1>5. ASSUME NEW w \in Writers, Take(w) PROVE Appending(e)'
  <2>1. append'[t] = append[t]
        BY <1>0, <1>1, <1>5 DEF Take, NoAppend
  <2> QED BY <1>1, <1>2, <2>1
<1>6. ASSUME Restart PROVE e \in dropped'
      BY <1>0, <1>1, <1>6 DEF Restart, Appending
<1>7. Stored(r, "exit")' \/ Appending(e)' \/ e \in dropped'
      BY <1>3, <1>4, <1>5, <1>6 DEF Next
<1> QED BY <1>7 DEF e

LEMMA ExitsKeptStep ==
  ASSUME TrailInv, ExitsKept, Next
  PROVE  ExitsKept'
<1> SUFFICES ASSUME NEW r \in South, req'[r] = "done" PROVE ExitKept(r)'
    BY DEF ExitsKept
<1> DEFINE e == Event(r, "exit", "exit")
<1>0. /\ TypeOK /\ InCall /\ r \in Requests /\ e \in Events
      /\ queue \in [Writers -> Seq(Events)]
      /\ req \in [Requests -> {"new", "denying", "entering", "handling", "done",
                               "refused", "cancelled"}]
      BY EventTyped DEF TrailInv, ChainInv, TypeOK, Requests
<1>1. CASE req[r] = "done"
  <2>1. Stored(r, "exit") \/ Queued(e) \/ Appending(e) \/ e \in dropped
        BY <1>1 DEF ExitsKept, ExitKept
  <2>2. Stored(r, "exit") => Stored(r, "exit")'
        BY <1>0, RowsStep
  <2>3. dropped \subseteq dropped'
        BY DEF Next, AppendStep, Acquire, ReadHash, ReadNumber, Insert, Conflict, InsertFails,
               Chain, Refuse, RefuseSession, Deny, Allow, Finish, Cancel, Take, Restart
  <2>4. Queued(e) => Queued(e)' \/ Appending(e)' \/ e \in dropped'
        BY <1>0, QueuedStays
  <2>5. Appending(e) => Stored(r, "exit")' \/ Appending(e)' \/ e \in dropped'
        BY <1>1, AppendingStays
  <2> QED BY <2>1, <2>2, <2>3, <2>4, <2>5 DEF ExitKept
<1>2. CASE req[r] # "done"
  <2>1. Finish(r)
    <3>1. ASSUME NEW t \in Tasks, AppendStep(t) PROVE req'[r] = req[r] \/ req'[r] # "done"
      <4>1. ASSUME NEW ok, Settle(t, ok) PROVE req'[r] = req[r] \/ req'[r] # "done"
            BY <1>0, <4>1, TasksDiffer DEF Settle, Tasks
      <4> QED BY <3>1, <4>1 DEF AppendStep, Acquire, ReadHash, ReadNumber, Insert, Conflict,
                   InsertFails
    <3>2. ASSUME NEW q \in Requests, Chain(q)
          PROVE  req'[r] = req[r] \/ req'[r] # "done" \/ Finish(r)
          BY <1>0, <3>2 DEF Chain, Refuse, RefuseSession, Deny, Allow, Finish, Cancel
    <3>3. ASSUME NEW w \in Writers, Take(w) PROVE req'[r] = req[r]
          BY <3>3 DEF Take
    <3>4. CASE Restart
          BY <1>0, <1>2, <3>4 DEF Restart
    <3> QED BY <1>2, <3>1, <3>2, <3>3, <3>4 DEF Next
  <2>2. SideOf(r) \in Writers
        BY DEF SideOf, Writers
  <2>3. queue[SideOf(r)] \in Seq(Events) /\ queue'[SideOf(r)] = Append(queue[SideOf(r)], e)
        BY <1>0, <2>1, <2>2 DEF Finish, WriteExit
  <2> HIDE DEF e
  <2>4. Len(queue'[SideOf(r)]) \in 1..Len(queue'[SideOf(r)])
        /\ queue'[SideOf(r)][Len(queue'[SideOf(r)])] = e
        BY <2>3
  <2>5. Queued(e)'
        BY <2>2, <2>4 DEF Queued
  <2> QED BY <2>5 DEF ExitKept, e
<1> QED BY <1>1, <1>2

(* A handler of the app platform that has returned has its entry in the     *)
(* trail and its exit in the trail or on its way, unless the database       *)
(* refused that insert or a restart came first.                             *)
THEOREM SouthTrailIsComplete == ATSpec => []SouthTrailComplete
<1>1. Init => TrailInv /\ ExitsKept
  <2>1. Init => ExitsKept
        BY DEF Init, ExitsKept, Requests
  <2> QED BY <2>1, TrailInvInit
<1>2. TrailInv /\ ExitsKept /\ [Next]_atvars => (TrailInv /\ ExitsKept)'
  <2> SUFFICES ASSUME TrailInv, ExitsKept, [Next]_atvars PROVE (TrailInv /\ ExitsKept)'
      OBVIOUS
  <2>1. CASE Next
        BY <2>1, TrailInvStep, ExitsKeptStep
  <2>2. CASE UNCHANGED atvars
    <3>1. ExitsKept'
          BY <2>2 DEF atvars, ExitsKept, ExitKept, Stored, Queued, Appending
    <3> QED BY <3>1, TrailInvStep
  <2> QED BY <2>1, <2>2
<1>3. TrailInv /\ ExitsKept => SouthTrailComplete
      BY DEF TrailInv, Entered, ExitsKept, SouthTrailComplete, Requests
<1> QED BY <1>1, <1>2, <1>3, PTL DEF ATSpec

-----------------------------------------------------------------------------
(* AuditTrail implements AuditedCall *)

ReqStates == {"new", "denying", "entering", "handling", "done", "refused", "cancelled"}

-----------------------------------------------------------------------------
(* A request that was denied has no refusal on its way to the trail, or the *)
(* trail might hold two.                                                    *)

StoredEvent(e) == \E i \in 1..Len(rows) : rows[i].event = e

Denied(r) == req[r] = "denying" \/ StoredEvent(Event(r, "deny", "refusal"))

(* A session of r was refused, and the record of that waits to be written *)
RefusedLate(r) ==
  \/ \E w \in Writers : \E i \in 1..Len(queue[w]) : queue[w][i] = Event(r, "exit", "refusal")
  \/ \E w \in Writers : append[w].at # "none" /\ append[w].event = Event(r, "exit", "refusal")

OneRefusal == \A r \in South : ~(Denied(r) /\ RefusedLate(r))

CallInv == TrailInv /\ OneRefusal

LEMMA CallTypes ==
  ASSUME TrailInv
  PROVE  /\ TypeOK /\ InCall /\ RowsPast /\ QueueLate /\ AppendsKnown
         /\ req \in [Requests -> ReqStates] /\ append \in [Tasks -> Appends]
         /\ queue \in [Writers -> Seq(Events)] /\ rows \in Seq(Rows)
         /\ NoAppend.at = "none"
BY DEF TrailInv, ChainInv, TypeOK, ReqStates, NoAppend

(* An unfinished request has neither, a refusal on its way means refused *)
LEMMA RefusalsAreFinal ==
  ASSUME TrailInv, NEW r \in South
  PROVE  /\ StoredEvent(Event(r, "deny", "refusal")) => req[r] = "refused"
         /\ RefusedLate(r) => req[r] = "refused"
<1> DEFINE deny == Event(r, "deny", "refusal")
           late == Event(r, "exit", "refusal")
<1>1. /\ r \notin North /\ deny.trace = r /\ late.trace = r
      /\ deny.kind = "refusal" /\ late.kind = "refusal"
      /\ deny.id = <<r, "deny">> /\ late.id = <<r, "exit">>
      BY TrailAssumption DEF Event, Id
<1>2. Past(req, deny) => req[r] = "refused"
      BY <1>1 DEF Past, Late, Event
<1>3. Late(req, late) => req[r] = "refused"
      BY <1>1 DEF Late, Event
<1> HIDE DEF deny, late
<1>4. StoredEvent(deny) => req[r] = "refused"
      BY <1>2, CallTypes DEF StoredEvent, RowsPast
<1>5. RefusedLate(r) => req[r] = "refused"
      BY <1>3, CallTypes DEF RefusedLate, QueueLate, AppendsKnown, late
<1> QED BY <1>4, <1>5 DEF deny

(* Only a denial makes a request denied *)
LEMMA DeniedStep ==
  ASSUME TrailInv, Next, NEW r \in South, Denied(r)'
  PROVE  Denied(r) \/ Deny(r)
<1> DEFINE deny == Event(r, "deny", "refusal")
<1>0. /\ TypeOK /\ req \in [Requests -> ReqStates] /\ rows \in Seq(Rows) /\ r \in Requests
      BY CallTypes DEF Requests
<1>1. CASE req'[r] = "denying"
  <2>1. req[r] = "denying" \/ Deny(r)
    <3>1. ASSUME NEW t \in Tasks, AppendStep(t) PROVE req[r] = "denying"
      <4>1. ASSUME NEW ok, Settle(t, ok) PROVE req[r] = "denying"
            BY <1>0, <1>1, <4>1, TasksDiffer DEF Settle, Tasks
      <4> QED BY <1>1, <3>1, <4>1 DEF AppendStep, Acquire, ReadHash, ReadNumber, Insert, Conflict,
                InsertFails
    <3>2. ASSUME NEW q \in Requests, Chain(q) PROVE req[r] = "denying" \/ Deny(r)
          BY <1>0, <1>1, <3>2 DEF Chain, Refuse, RefuseSession, Deny, Allow, Finish, Cancel
    <3>3. ASSUME NEW w \in Writers, Take(w) PROVE req[r] = "denying"
          BY <1>1, <3>3 DEF Take
    <3>4. CASE Restart
          BY <1>0, <1>1, <3>4 DEF Restart
    <3> QED BY <3>1, <3>2, <3>3, <3>4 DEF Next
  <2> QED BY <2>1 DEF Denied
<1>2. CASE StoredEvent(deny)'
  <2>1. CASE rows' = rows
        BY <1>2, <2>1 DEF Denied, StoredEvent
  <2>2. ASSUME NEW t \in Tasks, Insert(t) PROVE Denied(r)
    <3>1. /\ rows' = Append(rows, [event |-> append[t].event, prev |-> append[t].prev])
          /\ t \in Requests => append[t].event = Early(t) /\ req[t] \in {"denying", "entering"}
          /\ t \notin Requests => Late(req, append[t].event)
          BY <2>2, InsertIsDue
    <3>2. StoredEvent(deny) \/ append[t].event = deny
          BY <1>0, <1>2, <3>1 DEF StoredEvent
    <3>3. append[t].event = deny => t = r /\ req[t] = "denying"
          BY <3>1, TrailAssumption DEF Early, Late, Event, Id
    <3> QED BY <3>2, <3>3 DEF Denied
  <2>3. CASE \A t \in Tasks : ~Insert(t)
    <3>1. rows' = rows
          BY <2>3 DEF Next, AppendStep, Acquire, ReadHash, ReadNumber, Conflict, InsertFails, Chain,
                 Refuse, RefuseSession, Deny, Allow, Finish, Cancel, Take, Restart
    <3> QED BY <2>1, <3>1
  <2> QED BY <2>2, <2>3
<1> QED BY <1>1, <1>2 DEF Denied

(* Only a refused session puts a refusal on its way *)
LEMMA RefusedLateStep ==
  ASSUME TrailInv, Next, NEW r \in South, RefusedLate(r)'
  PROVE  RefusedLate(r) \/ RefuseSession(r)
<1> DEFINE late == Event(r, "exit", "refusal")
           Goal == RefusedLate(r) \/ RefuseSession(r)
<1>0. /\ TypeOK /\ append \in [Tasks -> Appends] /\ queue \in [Writers -> Seq(Events)]
      /\ NoAppend.at = "none"
      BY CallTypes
<1>1. ASSUME queue' = queue,
             \A w \in Writers : \/ append'[w].at = "none"
                                \/ append[w].at # "none" /\ append'[w].event = append[w].event
      PROVE  Goal
      BY <1>1 DEF RefusedLate
<1>2. ASSUME NEW t \in Tasks, AppendStep(t) PROVE Goal
  <2>1. queue' = queue
        BY <1>2 DEF AppendStep, Acquire, ReadHash, ReadNumber, Insert, Conflict, InsertFails
  <2>2. ASSUME NEW w \in Writers
        PROVE  \/ append'[w].at = "none"
               \/ append[w].at # "none" /\ append'[w].event = append[w].event
    <3>1. CASE w # t
          BY <1>0, <1>2, <2>2, <3>1, TasksDiffer DEF AppendStep, Acquire, ReadHash, ReadNumber,
               Insert, Conflict, InsertFails, Settle, Appends
    <3>2. CASE w = t
      <4>1. CASE Acquire(t)
            BY <1>0, <4>1, <3>2, AppendFields DEF Acquire
      <4>2. CASE ReadHash(t)
            BY <1>0, <4>2, <3>2 DEF ReadHash
      <4>3. CASE ReadNumber(t)
            BY <1>0, <4>3, <3>2 DEF ReadNumber
      <4>4. ASSUME NEW ok, Settle(t, ok) PROVE append'[t].at = "none"
            BY <1>0, <4>4 DEF Settle
      <4> QED BY <1>2, <3>2, <4>1, <4>2, <4>3, <4>4 DEF AppendStep, Insert, Conflict, InsertFails
    <3> QED BY <3>1, <3>2
  <2> QED BY <1>1, <2>1, <2>2
<1>3. ASSUME NEW q \in Requests, Chain(q) PROVE Goal
  <2>1. \A w \in Writers : append'[w] = append[w]
        BY <1>0, <1>3, TasksDiffer DEF Chain, Refuse, RefuseSession, Deny, Allow, Finish, Cancel
  <2>2. CASE queue' = queue
    <3>1. \A w \in Writers : append'[w].at = "none" \/ append'[w] = append[w]
          BY <2>1
    <3> QED BY <2>1, <2>2 DEF RefusedLate
  <2>3. ASSUME NEW kind \in {"refusal", "exit"}, WriteExit(q, kind),
               kind = "refusal" => RefuseSession(q)
        PROVE  Goal
    <3>1. SideOf(q) \in Writers
          BY DEF SideOf, Writers
    <3>2. /\ queue'[SideOf(q)] = Append(queue[SideOf(q)], Event(q, "exit", kind))
          /\ \A w \in Writers : w # SideOf(q) => queue'[w] = queue[w]
          BY <1>0, <2>3, <3>1 DEF WriteExit
    <3>3. Event(q, "exit", kind) = late => q = r /\ kind = "refusal"
          BY DEF Event
    <3>4. ASSUME NEW w \in Writers, NEW i \in 1..Len(queue'[w]), queue'[w][i] = late
          PROVE  Goal
      <4>1. \/ i \in 1..Len(queue[w]) /\ queue'[w][i] = queue[w][i]
            \/ queue'[w][i] = Event(q, "exit", kind)
        <5>1. CASE w = SideOf(q)
              BY <1>0, <3>2, <3>4, <5>1
        <5>2. CASE w # SideOf(q)
              BY <3>2, <3>4, <5>2
        <5> QED BY <5>1, <5>2
      <4> QED BY <2>3, <3>3, <3>4, <4>1 DEF RefusedLate
    <3> QED BY <2>1, <3>4 DEF RefusedLate
  <2> QED BY <1>3, <2>2, <2>3 DEF Chain, Refuse, RefuseSession, Deny, Allow, Finish, Cancel
<1>4. ASSUME NEW v \in Writers, Take(v) PROVE Goal
  <2>1. /\ queue'[v] = Tail(queue[v]) /\ queue[v] # <<>> /\ queue[v] \in Seq(Events)
        /\ \A w \in Writers : w # v => queue'[w] = queue[w] /\ append'[w] = append[w]
        /\ append'[v].event = Head(queue[v])
        BY <1>0, <1>4, TasksDiffer DEF Take, Starting
  <2>2. /\ Head(queue[v]) = queue[v][1] /\ 1 \in 1..Len(queue[v])
        /\ \A i \in 1..Len(queue'[v]) :
             i + 1 \in 1..Len(queue[v]) /\ queue'[v][i] = queue[v][i + 1]
        BY <2>1
  <2>3. ASSUME NEW w \in Writers, NEW i \in 1..Len(queue'[w]), queue'[w][i] = late
        PROVE  Goal
    <3>1. CASE w = v
          BY <2>2, <2>3, <3>1 DEF RefusedLate
    <3>2. CASE w # v
          BY <2>1, <2>3, <3>2 DEF RefusedLate
    <3> QED BY <3>1, <3>2
  <2>4. ASSUME NEW w \in Writers, append'[w].at # "none", append'[w].event = late
        PROVE  Goal
    <3>1. CASE w = v
          BY <2>1, <2>2, <2>4, <3>1 DEF RefusedLate
    <3>2. CASE w # v
          BY <2>1, <2>4, <3>2 DEF RefusedLate
    <3> QED BY <3>1, <3>2
  <2> QED BY <2>3, <2>4 DEF RefusedLate
<1>5. CASE Restart
      BY <1>5, TasksDiffer DEF Restart, RefusedLate, NoAppend
<1> QED BY <1>2, <1>3, <1>4, <1>5 DEF Next

LEMMA OneRefusalStep ==
  ASSUME CallInv, Next
  PROVE  OneRefusal'
<1> SUFFICES ASSUME NEW r \in South, Denied(r)', RefusedLate(r)' PROVE FALSE
    BY DEF OneRefusal
<1>1. TrailInv /\ OneRefusal
      BY DEF CallInv
<1>2. (Denied(r) \/ Deny(r)) /\ (RefusedLate(r) \/ RefuseSession(r))
      BY <1>1, DeniedStep, RefusedLateStep
<1>3. Denied(r) => req[r] \in {"denying", "refused"}
      BY <1>1, RefusalsAreFinal DEF Denied
<1>4. RefusedLate(r) => req[r] = "refused"
      BY <1>1, RefusalsAreFinal
<1>5. ~(Deny(r) /\ RefuseSession(r))
  <2>1. SUFFICES ASSUME Deny(r), RefuseSession(r) PROVE FALSE
        OBVIOUS
  <2>2. req'[r] = "denying" /\ req'[r] = "refused"
        BY <1>1, <2>1, CallTypes DEF Deny, RefuseSession, Requests
  <2> QED BY <2>2
<1> QED BY <1>1, <1>2, <1>3, <1>4, <1>5 DEF OneRefusal, Deny, RefuseSession

-----------------------------------------------------------------------------
(* The mapping: phases follow req, the abstract trail follows rows *)

Marks == [call : Requests, mark : {"entry", "refusal", "exit"}]

LEMMA TrailTyped ==
  ASSUME rows \in Seq(Rows)
  PROVE  /\ Trail \in Seq(Marks) /\ Len(Trail) = Len(rows)
         /\ \A i \in 1..Len(rows) :
              Trail[i] = [call |-> rows[i].event.trace, mark |-> rows[i].event.kind]
<1>1. ASSUME NEW i \in 1..Len(rows) PROVE rows[i].event \in Events
  <2>1. rows[i] \in Rows
        OBVIOUS
  <2> QED BY <2>1 DEF Rows
<1>2. \A i \in 1..Len(rows) : [call |-> rows[i].event.trace, mark |-> rows[i].event.kind] \in Marks
      BY <1>1 DEF Marks, Events
<1>3. Len(rows) \in Nat /\ Trail \in [1..Len(rows) -> Marks]
      BY <1>2 DEF Trail
<1>4. Trail \in Seq(Marks) /\ Len(Trail) = Len(rows)
  <2> HIDE DEF Marks
  <2> QED BY <1>3
<1> QED BY <1>4 DEF Trail

LEMMA TrailGrows ==
  ASSUME rows \in Seq(Rows), rows' \in Seq(Rows), NEW row, rows' = Append(rows, row)
  PROVE  Trail' = Append(Trail, [call |-> row.event.trace, mark |-> row.event.kind])
<1> DEFINE mark == [call |-> row.event.trace, mark |-> row.event.kind]
<1>1. /\ Trail \in Seq(Marks) /\ Len(Trail) = Len(rows)
      /\ \A i \in 1..Len(rows) :
           Trail[i] = [call |-> rows[i].event.trace, mark |-> rows[i].event.kind]
      BY TrailTyped
<1>2. /\ Len(rows) \in Nat /\ Len(rows') = Len(rows) + 1 /\ rows'[Len(rows) + 1] = row
      /\ \A i \in 1..Len(rows) : rows'[i] = rows[i]
      OBVIOUS
<1>3. row \in Rows
  <2>1. rows'[Len(rows) + 1] \in Rows
        BY <1>2
  <2> QED BY <1>2, <2>1
<1>4. mark \in Marks
      BY <1>3 DEF Rows, Events, Marks
<1>5. Trail' = [i \in 1..Len(rows') |->
                  [call |-> rows'[i].event.trace, mark |-> rows'[i].event.kind]]
      BY DEF Trail
<1> DEFINE longer == Append(Trail, mark)
<1>6. /\ longer \in Seq(Marks) /\ Len(longer) = Len(rows) + 1
      /\ longer[Len(rows) + 1] = mark /\ \A i \in 1..Len(rows) : longer[i] = Trail[i]
      BY <1>1, <1>2, <1>4
<1> HIDE DEF longer
<1>7. Trail' \in Seq(Marks) /\ Len(Trail') = Len(rows')
  <2>1. ASSUME NEW i \in 1..Len(rows')
        PROVE  [call |-> rows'[i].event.trace, mark |-> rows'[i].event.kind] \in Marks
    <3>1. rows'[i] \in Rows
          OBVIOUS
    <3>2. rows'[i].event \in Events
          BY <3>1 DEF Rows
    <3> QED BY <3>2 DEF Marks, Events
  <2>2. Trail' \in [1..Len(rows') -> Marks]
        BY <1>5, <2>1
  <2> QED BY <1>2, <2>2
<1>8. ASSUME NEW i \in 1..Len(rows') PROVE Trail'[i] = longer[i]
  <2>1. Trail'[i] = [call |-> rows'[i].event.trace, mark |-> rows'[i].event.kind]
        BY <1>5
  <2>2. CASE i = Len(rows) + 1
        BY <1>2, <1>6, <2>1, <2>2
  <2>3. CASE i \in 1..Len(rows)
        BY <1>1, <1>2, <1>6, <2>1, <2>3
  <2> QED BY <1>2, <2>2, <2>3
<1>9. Trail' = longer
      BY <1>2, <1>6, <1>7, <1>8, SeqEqual
<1> QED BY <1>9 DEF longer

(* A record that the abstract trail holds is an event of that kind *)
LEMMA MarkedMeansStored ==
  ASSUME rows \in Seq(Rows), NEW c, NEW k, Abstract!Marked(c, k)
  PROVE  \E i \in 1..Len(rows) : rows[i].event.trace = c /\ rows[i].event.kind = k
<1>1. PICK i \in 1..Len(Trail) : Trail[i] = [call |-> c, mark |-> k]
      BY DEF Abstract!Marked
<1>2. i \in 1..Len(rows) /\ Trail[i] = [call |-> rows[i].event.trace, mark |-> rows[i].event.kind]
      BY <1>1, TrailTyped
<1> QED BY <1>1, <1>2

LEMMA PhaseMoves ==
  ASSUME req \in [Requests -> ReqStates], NEW r \in Requests, NEW s \in ReqStates,
         req' = [req EXCEPT ![r] = s]
  PROVE  /\ Phases' = [Phases EXCEPT ![r] = PhaseOf(s)]
         /\ Phases[r] = PhaseOf(req[r])
BY DEF Phases, PhaseOf, ReqStates

-----------------------------------------------------------------------------
(* Every step of the chain or the sink is a step of AuditedCall or none *)

AbstractStep == Abstract!Next \/ UNCHANGED <<Phases, Trail>>

LEMMA InsertSimulated ==
  ASSUME CallInv, NEW t \in Tasks, Insert(t), TypeOK'
  PROVE  AbstractStep
<1> DEFINE e == append[t].event
<1>0. /\ TypeOK /\ RowsPast /\ OneRefusal /\ rows \in Seq(Rows) /\ rows' \in Seq(Rows)
      /\ req \in [Requests -> ReqStates] /\ append[t].at = "insert"
      /\ \A i \in 1..Len(rows) : rows[i].event \in Events /\ rows[i].event.id # e.id
      BY CallTypes, EventsTyped DEF CallInv, TypeOK, Insert, Taken
<1>1. /\ e \in Events
      /\ rows' = Append(rows, [event |-> e, prev |-> append[t].prev])
      /\ t \in Requests => /\ e = Early(t) /\ req[t] \in {"denying", "entering"}
                           /\ req' = [req EXCEPT ![t] = IF @ = "entering" THEN "handling"
                                                        ELSE "refused"]
      /\ t \notin Requests => t \in Writers /\ req' = req /\ Late(req, e)
      BY InsertIsDue DEF CallInv
<1> HIDE DEF e
<1>2. Trail' = Append(Trail, [call |-> e.trace, mark |-> e.kind])
      BY <1>0, <1>1, TrailGrows
<1>3. e.trace \in Requests
      BY <1>1 DEF Events
(* A call whose record is about to be added has none of that kind *)
<1>4. ASSUME \A i \in 1..Len(rows) :
               ~(rows[i].event.trace = e.trace /\ rows[i].event.kind = e.kind)
      PROVE  Abstract!Record(e.trace, e.kind)
      BY <1>0, <1>2, <1>4, MarkedMeansStored DEF Abstract!Record
<1>5. CASE t \in Requests
  <2>1. e.trace = t /\ e.kind = IF req[t] = "entering" THEN "entry" ELSE "refusal"
        BY <1>1, <1>5 DEF Early, Event
  <2>2. ASSUME NEW i \in 1..Len(rows), rows[i].event.trace = t, rows[i].event.kind = e.kind
        PROVE  FALSE
    <3>1. Past(req, rows[i].event) /\ req[t] \in {"denying", "entering"}
          BY <1>0, <1>1, <1>5 DEF RowsPast
    <3> QED BY <2>1, <2>2, <3>1 DEF Past, Late, Event
  <2>3. Abstract!Record(t, e.kind)
        BY <1>4, <2>1, <2>2
  <2>4. CASE req[t] = "entering"
    <3>1. req' = [req EXCEPT ![t] = "handling"]
          BY <1>1, <1>5, <2>4
    <3>2. Phases' = [Phases EXCEPT ![t] = "running"] /\ Phases[t] = "idle"
          BY <1>0, <1>5, <2>4, <3>1, PhaseMoves DEF PhaseOf, ReqStates
    <3>3. Abstract!Begin(t)
          BY <2>1, <2>3, <2>4, <3>2 DEF Abstract!Begin
    <3> QED BY <1>5, <3>3 DEF AbstractStep, Abstract!Next
  <2>5. CASE req[t] = "denying"
    <3>1. req' = [req EXCEPT ![t] = "refused"]
          BY <1>1, <1>5, <2>5
    <3>2. Phases' = [Phases EXCEPT ![t] = "refused"] /\ Phases[t] = "idle"
          BY <1>0, <1>5, <2>5, <3>1, PhaseMoves DEF PhaseOf, ReqStates
    <3>3. Abstract!Refuse(t)
          BY <2>1, <2>3, <2>5, <3>2 DEF Abstract!Refuse
    <3> QED BY <1>5, <3>3 DEF AbstractStep, Abstract!Next
  <2> QED BY <1>1, <1>5, <2>4, <2>5
<1>6. CASE t \notin Requests
  <2>1. t \in Writers /\ req' = req /\ Late(req, e)
        BY <1>1, <1>6
  <2>2. UNCHANGED Phases
        BY <2>1 DEF Phases
  <2>3. CASE e = Event(e.trace, "exit", "exit") /\ req[e.trace] = "done"
    <3>1. ASSUME NEW i \in 1..Len(rows), rows[i].event.trace = e.trace,
                 rows[i].event.kind = e.kind
          PROVE  FALSE
      <4>1. Past(req, rows[i].event)
            BY <1>0 DEF RowsPast
      <4>2. rows[i].event = Event(e.trace, "exit", "exit")
            BY <2>3, <3>1, <4>1 DEF Past, Late, Event
      <4> QED BY <1>0, <2>3, <4>2
    <3>2. Abstract!Record(e.trace, "exit")
          BY <1>4, <2>3, <3>1 DEF Event
    <3>3. Phases[e.trace] = "over"
          BY <1>3, <2>3 DEF Phases, PhaseOf
    <3>4. Abstract!RecordLate(e.trace)
          BY <2>2, <3>2, <3>3 DEF Abstract!RecordLate
    <3> QED BY <1>3, <3>4 DEF AbstractStep, Abstract!Next
  <2>4. CASE e = Event(e.trace, "exit", "refusal") /\ e.trace \in South /\ req[e.trace] = "refused"
    <3>1. RefusedLate(e.trace)
          BY <1>0, <2>1, <2>4 DEF RefusedLate, e
    <3>2. ~StoredEvent(Event(e.trace, "deny", "refusal"))
          BY <1>0, <2>4, <3>1 DEF OneRefusal, Denied
    <3>3. ASSUME NEW i \in 1..Len(rows), rows[i].event.trace = e.trace,
                 rows[i].event.kind = e.kind
          PROVE  FALSE
      <4>1. Past(req, rows[i].event)
            BY <1>0 DEF RowsPast
      <4>2. rows[i].event # Event(e.trace, "deny", "refusal")
            BY <3>2 DEF StoredEvent
      <4>3. rows[i].event = Event(e.trace, "exit", "refusal")
            BY <2>4, <3>3, <4>1, <4>2 DEF Past, Late, Event
      <4> QED BY <1>0, <2>4, <4>3
    <3>4. Abstract!Record(e.trace, "refusal")
          BY <1>4, <2>4, <3>3 DEF Event
    <3>5. Phases[e.trace] = "refused"
          BY <1>3, <2>4 DEF Phases, PhaseOf
    <3>6. Abstract!RecordLate(e.trace)
          BY <2>2, <3>4, <3>5 DEF Abstract!RecordLate
    <3> QED BY <1>3, <3>6 DEF AbstractStep, Abstract!Next
  <2> QED BY <2>1, <2>3, <2>4 DEF Late
<1> QED BY <1>5, <1>6

LEMMA AppendSimulated ==
  ASSUME CallInv, NEW t \in Tasks, AppendStep(t), TypeOK'
  PROVE  AbstractStep
<1>0. /\ TypeOK /\ InCall /\ req \in [Requests -> ReqStates]
      BY CallTypes DEF CallInv
<1>1. CASE Insert(t)
      BY <1>1, InsertSimulated
<1>2. CASE Acquire(t) \/ ReadHash(t) \/ ReadNumber(t)
  <2>1. UNCHANGED <<req, rows>>
        BY <1>2 DEF Acquire, ReadHash, ReadNumber
  <2> QED BY <2>1 DEF AbstractStep, Phases, Trail
<1>3. CASE Conflict(t) \/ InsertFails(t)
  <2>1. append[t].at = "insert" /\ UNCHANGED rows /\ Settle(t, FALSE)
        BY <1>3 DEF Conflict, InsertFails
  <2>2. UNCHANGED Trail
        BY <2>1 DEF Trail
  <2>3. CASE t \in Writers
    <3>1. UNCHANGED req
          BY <2>1, <2>3 DEF Settle
    <3> QED BY <2>2, <3>1 DEF AbstractStep, Phases
  <2>4. CASE t \notin Writers
    <3>1. /\ t \in Requests /\ req[t] \in {"denying", "entering"}
          /\ req' = [req EXCEPT ![t] = "refused"]
          BY <1>0, <2>1, <2>4 DEF Settle, Tasks, InCall
    <3>2. Phases' = [Phases EXCEPT ![t] = "refused"] /\ Phases[t] = "idle"
          BY <1>0, <3>1, PhaseMoves DEF PhaseOf, ReqStates
    <3>3. Abstract!Refuse(t)
          BY <2>2, <3>2 DEF Abstract!Refuse
    <3> QED BY <3>1, <3>3 DEF AbstractStep, Abstract!Next
  <2> QED BY <2>3, <2>4
<1> QED BY <1>1, <1>2, <1>3 DEF AppendStep

LEMMA ChainSimulated ==
  ASSUME CallInv, NEW r \in Requests, Chain(r)
  PROVE  AbstractStep
<1>0. req \in [Requests -> ReqStates]
      BY CallTypes DEF CallInv
<1>1. UNCHANGED Trail
  <2>1. UNCHANGED rows
        BY DEF Chain, Refuse, RefuseSession, Deny, Allow, Finish, Cancel
  <2> QED BY <2>1 DEF Trail
<1>2. CASE Refuse(r) \/ RefuseSession(r)
  <2>1. req[r] = "new" /\ req' = [req EXCEPT ![r] = "refused"]
        BY <1>2 DEF Refuse, RefuseSession
  <2>2. Phases' = [Phases EXCEPT ![r] = "refused"] /\ Phases[r] = "idle"
        BY <1>0, <2>1, PhaseMoves DEF PhaseOf, ReqStates
  <2>3. Abstract!Refuse(r)
        BY <1>1, <2>2 DEF Abstract!Refuse
  <2> QED BY <2>3 DEF AbstractStep, Abstract!Next
<1>3. CASE Deny(r) \/ Allow(r)
  <2>1. \A q \in Requests : PhaseOf(req'[q]) = PhaseOf(req[q])
        BY <1>0, <1>3 DEF Deny, Allow, PhaseOf
  <2> QED BY <1>1, <2>1 DEF AbstractStep, Phases
<1>4. CASE Finish(r) \/ Cancel(r)
  <2>1. /\ req[r] = "handling"
        /\ req' = [req EXCEPT ![r] = "done"] \/ req' = [req EXCEPT ![r] = "cancelled"]
        BY <1>4 DEF Finish, Cancel
  <2>2. Phases' = [Phases EXCEPT ![r] = "over"] /\ Phases[r] = "running"
        BY <1>0, <2>1, PhaseMoves DEF PhaseOf, ReqStates
  <2>3. Abstract!End(r)
        BY <1>1, <2>2 DEF Abstract!End
  <2> QED BY <2>3 DEF AbstractStep, Abstract!Next
<1> QED BY <1>2, <1>3, <1>4 DEF Chain

(* A restart ends the calls that run and refuses those that were on the way *)
LEMMA RestartSimulated ==
  ASSUME CallInv, Restart
  PROVE  AbstractStep
<1> DEFINE gone == {c \in Requests : req[c] \in {"denying", "entering"}}
<1>0. req \in [Requests -> ReqStates]
      BY CallTypes DEF CallInv
<1>1. UNCHANGED Trail
      BY DEF Restart, Trail
<1>2. gone \in SUBSET {c \in Requests : Phases[c] = "idle"}
      BY DEF Phases, PhaseOf
<1>3. ASSUME NEW c \in Requests
      PROVE  Phases'[c] = IF c \in gone THEN "refused"
                          ELSE IF Phases[c] = "running" THEN "over" ELSE Phases[c]
  <2>1. /\ Phases'[c] = PhaseOf(req'[c]) /\ Phases[c] = PhaseOf(req[c])
        /\ req[c] \in ReqStates
        /\ req'[c] = CASE req[c] \in {"denying", "entering"} -> "refused"
                       [] req[c] = "handling"                -> "cancelled"
                       [] OTHER                              -> req[c]
        BY <1>0 DEF Phases, Restart
  <2> QED BY <2>1 DEF PhaseOf, ReqStates
<1>4. Phases' = [c \in Requests |-> IF c \in gone THEN "refused"
                                   ELSE IF Phases[c] = "running" THEN "over" ELSE Phases[c]]
      BY <1>3 DEF Phases
<1> HIDE DEF gone
<1>5. Abstract!Crash
      BY <1>1, <1>2, <1>4 DEF Abstract!Crash
<1> QED BY <1>5 DEF AbstractStep, Abstract!Next

-----------------------------------------------------------------------------
LEMMA CallInvInit == Init => CallInv /\ Abstract!Init
<1> SUFFICES ASSUME Init PROVE CallInv /\ Abstract!Init
    OBVIOUS
<1>1. OneRefusal
      BY TasksDiffer DEF Init, OneRefusal, RefusedLate, NoAppend
<1>2. Phases = [c \in Requests |-> "idle"]
      BY DEF Init, Phases, PhaseOf
<1>3. Trail = <<>>
      BY DEF Init, Trail
<1> QED BY <1>1, <1>2, <1>3, TrailInvInit DEF CallInv, Abstract!Init

LEMMA CallInvStep ==
  CallInv /\ [Next]_atvars => CallInv' /\ [Abstract!Next]_<<Phases, Trail>>
<1> SUFFICES ASSUME CallInv, [Next]_atvars PROVE CallInv' /\ AbstractStep
    BY DEF AbstractStep
<1>1. TrailInv'
      BY TrailInvStep DEF CallInv
<1>2. CASE Next
  <2>1. OneRefusal' /\ TypeOK'
        BY <1>1, <1>2, OneRefusalStep DEF TrailInv, ChainInv
  <2>2. ASSUME \E w \in Writers : Take(w) PROVE AbstractStep
        BY <2>2 DEF Take, AbstractStep, Phases, Trail
  <2>3. AbstractStep
        BY <1>2, <2>1, <2>2, AppendSimulated, ChainSimulated, RestartSimulated DEF Next
  <2> QED BY <1>1, <2>1, <2>3 DEF CallInv
<1>3. CASE UNCHANGED atvars
  <2>1. OneRefusal'
        BY <1>3 DEF atvars, CallInv, OneRefusal, Denied, StoredEvent, RefusedLate
  <2>2. AbstractStep
        BY <1>3 DEF atvars, AbstractStep, Phases, Trail
  <2> QED BY <1>1, <2>1, <2>2 DEF CallInv
<1> QED BY <1>2, <1>3

(* The chain around the requests and the sink below it, with its mutex, its *)
(* background tasks and its failures, implement AuditedCall: no handler     *)
(* runs without its entry in the trail, records are only added, after what  *)
(* they report, and none is made twice.                                     *)
THEOREM ChainImplementsAuditedCall == ATSpec => ImplementsAuditedCall
<1> QED BY CallInvInit, CallInvStep, PTL DEF ATSpec, ImplementsAuditedCall, Abstract!Spec
=============================================================================
