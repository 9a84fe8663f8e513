------------------------------- MODULE BatchPlan -------------------------------
(***************************************************************************)
(* What a batch task makes of its target and its policy: TargetSelector    *)
(* and BatchExecutor::determine_execution_order of src/src/batch.rs.       *)
(*                                                                         *)
(* A selector comes as text, here the parts that parse looks at: a mark in *)
(* front, a star at the end, the words between commas.                     *)
(***************************************************************************)
EXTENDS Naturals, Sequences, FiniteSets, FiniteSetsExt, SequencesExt

CONSTANTS
  Fleet,    \* the devices: their id, tags, groups and the prefixes of the id
  Words,    \* ids, tags, groups and prefixes that a selector may name
  NoWord,   \* a part between commas that is blank
  MaxBatch  \* bound: the sizes a policy may state

ASSUME PlanAssumption == IsFiniteSet(Fleet) /\ MaxBatch \in Nat

VARIABLE plan \* the selector and policy of a task, and what is made of them

NoPlan == [order |-> << >>, devices |-> {}]

Texts == [mark : {"none", "tag", "group"}, star : BOOLEAN,
          words : {<<w>> : w \in Words \cup {NoWord}} \cup
                  {<<v, w>> : v, w \in Words \cup {NoWord}}]

(* parse: blank text is everything; a mark is looked at before the star,   *)
(* and the star before the commas.  After a mark the rest of the text is   *)
(* one word, star and commas and all, and so is what is before a star: a   *)
(* word with a star or a comma in it names nothing here.                   *)
Parse(text) ==
  LET named == SelectSeq(text.words, LAMBDA w : w # NoWord)
      plain == Len(text.words) = 1 /\ (text.mark = "none" \/ ~text.star)
      one == IF plain THEN Head(text.words) ELSE "a,b"
  IN
  CASE text.mark = "tag" -> [kind |-> "tag", word |-> one]
    [] text.mark = "group" -> [kind |-> "group", word |-> one]
    [] text.mark = "none" /\ text.star -> [kind |-> "pattern", word |-> one]
    [] text.mark = "none" /\ ~text.star ->
         IF text.words = <<NoWord>> THEN [kind |-> "all"]
         ELSE [kind |-> "ids", ids |-> ToSet(named)]

(* A star alone leaves the empty prefix, which every id has. *)
Selects(selector, device) ==
  CASE selector.kind = "all" -> TRUE
    [] selector.kind = "ids" -> device.id \in selector.ids
    [] selector.kind = "pattern" -> selector.word \in device.prefixes \cup {NoWord}
    [] selector.kind = "tag" -> selector.word \in device.tags
    [] selector.kind = "group" -> selector.word \in device.groups

Policies ==
  {[kind |-> "parallel"], [kind |-> "sequential"]} \cup
  [kind : {"limited_parallel", "batch_with_delay"}, size : 0..MaxBatch]

(* Mutant: the batch is cut when it is over the limit. *)
Full(batch, size) == Len(batch) > size

(* The item is pushed before the length is looked at, so a size of zero    *)
(* makes batches of one.                                                   *)
IsFull(batch, size) == Len(batch) >= size

Pushed(acc, i, size) ==
  LET batch == Append(acc.batch, i) IN
  IF IsFull(batch, size)
  THEN [batches |-> Append(acc.batches, batch), batch |-> << >>]
  ELSE [batches |-> acc.batches, batch |-> batch]

CutUpTo(n, size) ==
  LET cut[i \in 0..n] == IF i = 0 THEN [batches |-> << >>, batch |-> << >>]
                         ELSE Pushed(cut[i-1], i, size)
  IN cut

Cut(n, size) ==
  LET last == CutUpTo(n, size)[n]
  IN IF last.batch = << >> THEN last.batches ELSE Append(last.batches, last.batch)

(* Parallel is one batch, and an empty one when there is nothing to do. *)
ExecutionOrder(n, policy) ==
  CASE policy.kind = "parallel" -> <<[i \in 1..n |-> i]>>
    [] policy.kind = "sequential" -> [i \in 1..n |-> <<i>>]
    [] OTHER -> Cut(n, policy.size)

PlanInit == plan = NoPlan

MakePlan == \E text \in Texts, policy \in Policies :
  LET devices == {d \in Fleet : Selects(Parse(text), d)} IN
  /\ plan = NoPlan
  /\ plan' = [text |-> text, policy |-> policy, devices |-> devices,
              order |-> ExecutionOrder(Cardinality(devices), policy)]

DropPlan == plan # NoPlan /\ plan' = NoPlan

PlanNext == MakePlan \/ DropPlan
-----------------------------------------------------------------------------
BatchPlanTypeOK == plan.devices \subseteq Fleet

(* Every device that the task aims at is in exactly one batch, in order,   *)
(* whatever the policy; no batch is larger than the policy allows, and     *)
(* only the last may be smaller.                                           *)
PlanIsExact == plan # NoPlan =>
  LET n == Cardinality(plan.devices)
      order == plan.order
      size == CASE plan.policy.kind = "parallel" -> n
                [] plan.policy.kind = "sequential" -> 1
                [] OTHER -> Max({1, plan.policy.size})
  IN
  /\ FlattenSeq(order) = [i \in 1..n |-> i]
  /\ \A b \in DOMAIN order : /\ Len(order[b]) <= size
                             /\ b < Len(order) => Len(order[b]) = size
  /\ plan.policy.kind # "parallel" => \A b \in DOMAIN order : order[b] # << >>
=============================================================================
