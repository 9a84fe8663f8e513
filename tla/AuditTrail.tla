------------------------------ MODULE AuditTrail ------------------------------
(***************************************************************************)
(* The security chain around every request and the audit trail it writes.  *)
(* Requests come from the north (the interceptor of agent-core/src/chain.rs*)
(* around the gRPC services) and from the south (secured_rpc of            *)
(* src/app_platform.rs).  Both record an entry before the handler, in the  *)
(* task of the request, and leave the exit to the background task of their *)
(* AuditWriter.  All appends go through one sink, a store under a mutex:   *)
(* an append reads the last hash, then the highest sequence number, then   *)
(* inserts.                                                                *)
(*                                                                         *)
(* A request stands for its trace id, which is unique.  Left out: what an  *)
(* event says beyond its kind, and what the roles grant (a request may be  *)
(* allowed or denied); nonces are fresh, so the replay guard refuses       *)
(* nothing by itself.  A hash is injective: the id of the event stands for *)
(* it.                                                                     *)
(***************************************************************************)
EXTENDS Naturals, Sequences, FiniteSets

CONSTANTS
  North,       (* requests to the gRPC services                            *)
  South,       (* requests of payload applications                         *)
  NoOne,       (* holds the mutex when it is free                          *)
  NoId,        (* the hash before the first event                          *)
  MaxFaults,   (* bound: inserts that the database refuses                 *)
  MaxCrashes   (* bound: restarts of the agent                             *)

Requests == North \cup South

(* One AuditWriter, and its background task, for each side *)
Writers == {"north", "south"}

Tasks == Requests \cup Writers

ASSUME TrailAssumption ==
  /\ North \cap South = {}
  /\ Requests \cap Writers = {}
  /\ NoOne \notin Tasks
  /\ MaxFaults \in Nat /\ MaxCrashes \in Nat

VARIABLES
  req,      (* how far the chain is with each request                      *)
  rows,     (* audit_events by sequence number                             *)
  lock,     (* the task in the sink, or NoOne                              *)
  append,   (* the append that each task is executing                      *)
  queue,    (* the unbounded exit channel of each writer                   *)
  faults, crashes,
  dropped   (* events lost to a fault or a restart (history)               *)

atvars == <<req, rows, lock, append, queue, faults, crashes, dropped>>

-----------------------------------------------------------------------------
(* Mutant: the ids of secured_rpc do not say what the event is *)
PlainId(r, tag) == <<r, "trace">>

(* The interceptor uses the trace id for each event, secured_rpc adds a tag *)
Id(r, tag) == IF r \in North THEN <<r, "trace">> ELSE <<r, tag>>

(* in_progress is an entry, denied a refusal; a result is an exit, but a    *)
(* refusal when it is that of a session that is not valid                   *)
Event(r, tag, kind) == [id |-> Id(r, tag), trace |-> r, kind |-> kind]

Ids == Requests \X {"trace", "entry", "deny", "exit"}

Events == [id : Ids, trace : Requests, kind : {"entry", "refusal", "exit"}]

Rows == [event : Events, prev : Ids \cup {NoId}]

NoAppend == [at |-> "none"]

Appends ==
  {NoAppend}
    \cup [at : {"lock", "hash"}, event : Events]
    \cup [at : {"number"}, event : Events, prev : Ids \cup {NoId}]
    \cup [at : {"insert"}, event : Events, prev : Ids \cup {NoId}, seq : Nat]

InSink(t) == append[t].at \in {"hash", "number", "insert"}

TypeOK ==
  /\ req \in [Requests -> {"new", "denying", "entering", "handling", "done",
                           "refused", "cancelled"}]
  /\ rows \in Seq(Rows)
  /\ lock \in Tasks \cup {NoOne}
  /\ append \in [Tasks -> Appends]
  /\ \A t \in Tasks : InSink(t) <=> lock = t
  /\ queue \in [Writers -> Seq(Events)]
  /\ faults \in 0..MaxFaults
  /\ crashes \in 0..MaxCrashes
  /\ dropped \subseteq Events

Init ==
  /\ req = [r \in Requests |-> "new"]
  /\ rows = <<>>
  /\ lock = NoOne
  /\ append = [t \in Tasks |-> NoAppend]
  /\ queue = [w \in Writers |-> <<>>]
  /\ faults = 0
  /\ crashes = 0
  /\ dropped = {}

-----------------------------------------------------------------------------
(* StateStore::append_audit_event under the mutex of StoreAuditSink *)

Starting(event) == [at |-> "lock", event |-> event]

(* Mutant: every writer has a connection, and a mutex, of its own *)
AcquireOwn(t) ==
  /\ append[t].at = "lock"
  /\ append' = [append EXCEPT ![t].at = "hash"]
  /\ lock' = t
  /\ UNCHANGED <<req, rows, queue, faults, crashes, dropped>>

Acquire(t) ==
  /\ append[t].at = "lock"
  /\ lock = NoOne
  /\ append' = [append EXCEPT ![t].at = "hash"]
  /\ lock' = t
  /\ UNCHANGED <<req, rows, queue, faults, crashes, dropped>>

LastHash == IF rows = <<>> THEN NoId ELSE rows[Len(rows)].event.id

ReadHash(t) ==
  /\ append[t].at = "hash"
  /\ append' = [append EXCEPT ![t] =
       [at |-> "number", event |-> @.event, prev |-> LastHash]]
  /\ UNCHANGED <<req, rows, lock, queue, faults, crashes, dropped>>

ReadNumber(t) ==
  /\ append[t].at = "number"
  /\ append' = [append EXCEPT ![t] =
       [at |-> "insert", event |-> @.event, prev |-> @.prev, seq |-> Len(rows) + 1]]
  /\ UNCHANGED <<req, rows, lock, queue, faults, crashes, dropped>>

(* Mutant: the handler runs although its entry was not written *)
SettleIgnoresError(t, ok) ==
  /\ append' = [append EXCEPT ![t] = NoAppend]
  /\ req' = IF t \in Writers
              THEN req
              ELSE [req EXCEPT ![t] = IF @ = "entering" THEN "handling" ELSE "refused"]

(* Mutant: the background task tries again what could not be inserted *)
SettleRetries(t, ok) ==
  /\ append' = [append EXCEPT ![t] =
       IF t \in Writers /\ ~ok THEN Starting(@.event) ELSE NoAppend]
  /\ req' = IF t \in Writers
              THEN req
              ELSE [req EXCEPT ![t] =
                      IF @ = "entering" /\ ok THEN "handling" ELSE "refused"]

(* Errors of a background task are only logged *)
Settle(t, ok) ==
  /\ append' = [append EXCEPT ![t] = NoAppend]
  /\ req' = IF t \in Writers
              THEN req
              ELSE [req EXCEPT ![t] =
                      IF @ = "entering" /\ ok THEN "handling" ELSE "refused"]

Taken(t) ==
  \/ append[t].seq # Len(rows) + 1
  \/ \E i \in 1..Len(rows) : rows[i].event.id = append[t].event.id

Insert(t) ==
  /\ append[t].at = "insert"
  /\ ~Taken(t)
  /\ rows' = Append(rows, [event |-> append[t].event, prev |-> append[t].prev])
  /\ lock' = NoOne
  /\ Settle(t, TRUE)
  /\ UNCHANGED <<queue, faults, crashes, dropped>>

(* id is the PRIMARY KEY, sequence is UNIQUE *)
Conflict(t) ==
  /\ append[t].at = "insert"
  /\ Taken(t)
  /\ lock' = NoOne
  /\ Settle(t, FALSE)
  /\ UNCHANGED <<rows, queue, faults, crashes, dropped>>

(* Mutant: the mutex stays locked when the database refuses an insert *)
InsertFailsLocked(t) ==
  /\ append[t].at = "insert"
  /\ faults < MaxFaults
  /\ faults' = faults + 1
  /\ dropped' = dropped \cup {append[t].event}
  /\ Settle(t, FALSE)
  /\ UNCHANGED <<rows, lock, queue, crashes>>

(* Also stands for a statement before the insert that fails *)
InsertFails(t) ==
  /\ append[t].at = "insert"
  /\ faults < MaxFaults
  /\ faults' = faults + 1
  /\ dropped' = dropped \cup {append[t].event}
  /\ lock' = NoOne
  /\ Settle(t, FALSE)
  /\ UNCHANGED <<rows, queue, crashes>>

AppendStep(t) ==
  Acquire(t) \/ ReadHash(t) \/ ReadNumber(t) \/ Insert(t) \/ Conflict(t) \/ InsertFails(t)

(* The background task takes an exit event from its channel *)
Take(w) ==
  /\ append[w] = NoAppend
  /\ queue[w] # <<>>
  /\ append' = [append EXCEPT ![w] = Starting(Head(queue[w]))]
  /\ queue' = [queue EXCEPT ![w] = Tail(@)]
  /\ UNCHANGED <<req, rows, lock, faults, crashes, dropped>>

-----------------------------------------------------------------------------
(* The chain around a request *)

SideOf(r) == IF r \in North THEN "north" ELSE "south"

WriteExit(r, kind) ==
  queue' = [queue EXCEPT ![SideOf(r)] = Append(@, Event(r, "exit", kind))]

(* No identity, no mapping of the method, or an error of authorize in       *)
(* secured_rpc: nothing is recorded                                         *)
Refuse(r) ==
  /\ req[r] = "new"
  /\ req' = [req EXCEPT ![r] = "refused"]
  /\ UNCHANGED <<rows, lock, append, queue, faults, crashes, dropped>>

(* The session of a payload application is unknown, revoked or expired *)
RefuseSession(r) ==
  /\ r \in South
  /\ req[r] = "new"
  /\ req' = [req EXCEPT ![r] = "refused"]
  /\ WriteExit(r, "refusal")
  /\ UNCHANGED <<rows, lock, append, faults, crashes, dropped>>

Deny(r) ==
  /\ req[r] = "new"
  /\ req' = [req EXCEPT ![r] = "denying"]
  /\ append' = [append EXCEPT ![r] = Starting(Event(r, "deny", "refusal"))]
  /\ UNCHANGED <<rows, lock, queue, faults, crashes, dropped>>

Allow(r) ==
  /\ req[r] = "new"
  /\ req' = [req EXCEPT ![r] = "entering"]
  /\ append' = [append EXCEPT ![r] = Starting(Event(r, "entry", "entry"))]
  /\ UNCHANGED <<rows, lock, queue, faults, crashes, dropped>>

(* The handler returns, with or without an error *)
Finish(r) ==
  /\ req[r] = "handling"
  /\ req' = [req EXCEPT ![r] = "done"]
  /\ WriteExit(r, "exit")
  /\ UNCHANGED <<rows, lock, append, faults, crashes, dropped>>

(* The client goes away, or the handler panics: the future is dropped where *)
(* it awaits the handler                                                    *)
Cancel(r) ==
  /\ req[r] = "handling"
  /\ req' = [req EXCEPT ![r] = "cancelled"]
  /\ UNCHANGED <<rows, lock, append, queue, faults, crashes, dropped>>

Chain(r) ==
  Refuse(r) \/ RefuseSession(r) \/ Deny(r) \/ Allow(r) \/ Finish(r) \/ Cancel(r)

-----------------------------------------------------------------------------
Queued(e) == \E w \in Writers : \E i \in 1..Len(queue[w]) : queue[w][i] = e

Appending(e) == \E t \in Tasks : append[t].at # "none" /\ append[t].event = e

(* The agent stops, and starts again on the same database *)
Restart ==
  /\ crashes < MaxCrashes
  /\ crashes' = crashes + 1
  /\ dropped' = dropped \cup {e \in Events : Queued(e) \/ Appending(e)}
  /\ req' = [r \in Requests |->
       CASE req[r] \in {"denying", "entering"} -> "refused"
         [] req[r] = "handling"                -> "cancelled"
         [] OTHER                              -> req[r]]
  /\ lock' = NoOne
  /\ append' = [t \in Tasks |-> NoAppend]
  /\ queue' = [w \in Writers |-> <<>>]
  /\ UNCHANGED <<rows, faults>>

Next ==
  \/ \E r \in Requests : Chain(r)
  \/ \E t \in Tasks : AppendStep(t)
  \/ \E w \in Writers : Take(w)
  \/ Restart

ATSpec == Init /\ [][Next]_atvars

(* An append that has begun goes on: the tasks are polled, the mutex is     *)
(* released, and a database call returns                                    *)
FairATSpec ==
  /\ ATSpec
  /\ \A t \in Tasks : WF_atvars(AppendStep(t))
  /\ \A w \in Writers : WF_atvars(Take(w))

-----------------------------------------------------------------------------
(* Properties *)

(* AuditChain::verify holds of the stored events: each carries the hash of  *)
(* the one before it, whichever requests and background tasks append at the *)
(* same time, and after a failed insert or a restart between the statements *)
(* of an append.                                                            *)
ChainVerifies ==
  \A i \in 1..Len(rows) :
    rows[i].prev = IF i = 1 THEN NoId ELSE rows[i - 1].event.id

Stored(r, kind) == \E i \in 1..Len(rows) : rows[i].event.trace = r /\ rows[i].event.kind = kind

(* The exit of r is stored, on its way, or lost to a fault or a restart *)
ExitKept(r) ==
  LET e == Event(r, "exit", "exit")
  IN  Stored(r, "exit") \/ Queued(e) \/ Appending(e) \/ e \in dropped

(* A request of an application whose handler has returned has its entry in  *)
(* the trail, and its exit too unless the database refused it or a restart  *)
(* came first.                                                              *)
SouthTrailComplete ==
  \A r \in South : req[r] = "done" => Stored(r, "entry") /\ ExitKept(r)

(* The same for the gRPC services, where the design document demands both   *)
(* rows after any call; the exit has the id of the entry.                   *)
NorthTrailComplete ==
  \A r \in North : req[r] = "done" => Stored(r, "entry") /\ ExitKept(r)

(* Whatever is in an exit channel gets out of it: a background task never   *)
(* gives up, also when events before it could not be inserted.              *)
ExitsAreWritten == \A w \in Writers : queue[w] # <<>> ~> queue[w] = <<>> /\ append[w] = NoAppend

(* The chain and the sink implement AuditedCall: a handler runs only with   *)
(* its entry in the trail, and the trail only grows, in the order of each   *)
(* call.                                                                    *)
PhaseOf(s) ==
  CASE s \in {"new", "denying", "entering"} -> "idle"
    [] s = "handling"                       -> "running"
    [] s \in {"done", "cancelled"}          -> "over"
    [] s = "refused"                        -> "refused"

Phases == [r \in Requests |-> PhaseOf(req[r])]

Trail == [i \in 1..Len(rows) |-> [call |-> rows[i].event.trace, mark |-> rows[i].event.kind]]

Abstract == INSTANCE AuditedCall WITH Calls <- Requests, phase <- Phases, trail <- Trail

ImplementsAuditedCall == Abstract!Spec
=============================================================================
