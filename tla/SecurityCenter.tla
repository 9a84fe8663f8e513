----------------------------- MODULE SecurityCenter -----------------------------
(***************************************************************************)
(* BasicSecurityCenter of src/crates/agent-core/src/security.rs: the role  *)
(* policy and the replay guard behind every secured request.  The guard    *)
(* keeps a nonce as long as the timestamp it came with is inside the       *)
(* window, by a clock that others may set.                                 *)
(***************************************************************************)
EXTENDS Integers, FiniteSets

CONSTANTS
  Subjects, Nonces, \* principals other than by role; nonces
  Skew,             \* the window, in ticks of the clock
  MaxClock, MaxSetBack, MaxRequests \* bounds: the clock; times it is set back; requests
                                     \* that come to the guard

ASSUME SecurityAssumption == {Skew, MaxClock, MaxSetBack, MaxRequests} \subseteq Nat

VARIABLES
  seenNonces,  \* ReplayGuard.seen: key -> timestamp, as a set of pairs
  wall,        \* the system clock
  allowed,     \* history: requests that were allowed
  twice,       \* history: a request was allowed a second time
  setBack,     \* times the clock was set back
  asked        \* requests that came to the guard

securityVars == <<seenNonces, wall, allowed, twice, setBack, asked>>

Roles == {"admin", "operator", "readonly"}

Grants(role) ==
  LET readonly == {"telemetry", "file_transfer", "configuration"} \X {"read"}
      operator == readonly \cup ({"telemetry", "file_transfer"} \X {"write"}) \cup
                  ({"control_command", "upgrade", "app_control"} \X {"execute"})
  IN CASE role = "readonly" -> readonly
       [] role = "operator" -> operator
       [] role = "admin" -> operator \cup {<<"configuration", "write">>,
                                           <<"security_policy", "manage">>}

Authorized(r) == <<r.resource, r.action>> \in Grants(r.role)

(* The key has no resource: a nonce spent on one is spent on all. *)
ReplayKey(r) == [subject |-> r.subject, action |-> r.action, nonce |-> r.nonce]

Distance(a, b) == IF a >= b THEN a - b ELSE b - a

InWindow(r) == Distance(r.timestamp, wall) <= Skew

(* Mutant: a nonce is dropped at the end of the window, not after it. *)
PrunedEarly(seen) == {e \in seen : wall - e.timestamp < Skew}

(* Timestamps that lie in the future are kept. *)
Pruned(seen) == {e \in seen : wall - e.timestamp <= Skew}

SecurityInit ==
  /\ seenNonces = {} /\ wall = 0 /\ allowed = {} /\ twice = FALSE
  /\ setBack = 0 /\ asked = 0
-----------------------------------------------------------------------------
(* authorize_request: a refused role does not spend the nonce, and a       *)
(* timestamp outside the window is refused before anything is forgotten.   *)
Ask(r) ==
  /\ asked < MaxRequests /\ asked' = asked + 1
  /\ UNCHANGED <<wall, setBack>>

Deny(r) ==
  /\ ~(Authorized(r) /\ InWindow(r))
  /\ UNCHANGED securityVars

Replayed(r) == \E e \in Pruned(seenNonces) : e.key = ReplayKey(r)

RefuseReplay(r) ==
  /\ Ask(r) /\ Authorized(r) /\ InWindow(r) /\ Replayed(r)
  /\ seenNonces' = Pruned(seenNonces)
  /\ UNCHANGED <<allowed, twice>>

Allow(r) ==
  /\ Ask(r) /\ Authorized(r) /\ InWindow(r) /\ ~Replayed(r)
  /\ seenNonces' = Pruned(seenNonces) \cup
                   {[key |-> ReplayKey(r), timestamp |-> r.timestamp]}
  /\ twice' = (twice \/ r \in allowed)
  /\ allowed' = allowed \cup {r}

(* One resource for each kind of grant stands for the others. *)
Requests ==
  [subject : Subjects, role : Roles, resource : {"configuration", "telemetry"},
   action : {"read", "write"}, nonce : Nonces, timestamp : 0..MaxClock+Skew]

ClockTicks == /\ wall < MaxClock /\ wall' = wall + 1
              /\ UNCHANGED <<seenNonces, allowed, twice, setBack, asked>>

ClockSetBack == /\ setBack < MaxSetBack /\ setBack' = setBack + 1
                /\ wall' \in 0..wall-1
                /\ UNCHANGED <<seenNonces, allowed, twice, asked>>

SecurityNext ==
  \/ ClockTicks \/ ClockSetBack
  \/ \E r \in Requests : Deny(r) \/ RefuseReplay(r) \/ Allow(r)
-----------------------------------------------------------------------------
SecurityTypeOK ==
  /\ Cardinality(seenNonces) <= MaxRequests
  /\ \A d, e \in seenNonces : d.key = e.key => d = e
  /\ \A r \in allowed : r.role = "readonly" => r.action = "read"

(* As long as the clock is not set back, a request is allowed once, however *)
(* old or far ahead within the window its timestamp is, and whatever was    *)
(* forgotten meanwhile: a nonce is only dropped when the request it came    *)
(* with would be refused for its age.                                       *)
AllowedOnce == twice => setBack > 0
=============================================================================
