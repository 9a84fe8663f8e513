----------------------------- MODULE AuditedCall -----------------------------
(***************************************************************************)
(* What the security chain promises of every request: a handler runs only  *)
(* with its entry in the trail, records are added at the end and never     *)
(* changed, the exit of a call follows its end, and each mark is made at   *)
(* most once per call.                                                     *)
(***************************************************************************)
EXTENDS Sequences, Naturals

CONSTANT Calls

VARIABLES
  phase,  (* how far each call is                                          *)
  trail   (* the records, oldest first                                     *)

Marked(c, mark) == \E i \in 1..Len(trail) : trail[i] = [call |-> c, mark |-> mark]

Record(c, mark) ==
  /\ ~Marked(c, mark)
  /\ trail' = Append(trail, [call |-> c, mark |-> mark])

Init ==
  /\ phase = [c \in Calls |-> "idle"]
  /\ trail = <<>>

Refuse(c) ==
  /\ phase[c] = "idle"
  /\ phase' = [phase EXCEPT ![c] = "refused"]
  /\ Record(c, "refusal") \/ UNCHANGED trail

Begin(c) ==
  /\ phase[c] = "idle"
  /\ phase' = [phase EXCEPT ![c] = "running"]
  /\ Record(c, "entry")

End(c) ==
  /\ phase[c] = "running"
  /\ phase' = [phase EXCEPT ![c] = "over"]
  /\ UNCHANGED trail

(* What is recorded after the fact *)
RecordLate(c) ==
  /\ \/ phase[c] = "over" /\ Record(c, "exit")
     \/ phase[c] = "refused" /\ Record(c, "refusal")
  /\ UNCHANGED phase

(* All calls in progress end; of those not begun, some are never made *)
Crash ==
  /\ \E gone \in SUBSET {c \in Calls : phase[c] = "idle"} :
       phase' = [c \in Calls |->
                   IF c \in gone THEN "refused"
                   ELSE IF phase[c] = "running" THEN "over" ELSE phase[c]]
  /\ UNCHANGED trail

Next ==
  \/ \E c \in Calls : Refuse(c) \/ Begin(c) \/ End(c) \/ RecordLate(c)
  \/ Crash

Spec == Init /\ [][Next]_<<phase, trail>>
=============================================================================
