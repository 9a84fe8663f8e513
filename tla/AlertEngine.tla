------------------------------ MODULE AlertEngine ------------------------------
(***************************************************************************)
(* AlertEngine of src/src/alert_engine.rs: rules that are added, replaced  *)
(* and removed while the data of one plugin after the other is evaluated   *)
(* against all enabled rules.                                              *)
(*                                                                         *)
(* Time is counted in half seconds and the engine compares whole ones.     *)
(* A condition holds the set of metrics its pattern and labels match; a    *)
(* sample is the sequence of its points in the order of their times.       *)
(***************************************************************************)
EXTENDS Integers, Sequences, FiniteSets, SequencesExt, Selections

CONSTANTS
  Rules, RuleForms, \* rule ids; what a rule may say
  Samples,          \* what a plugin may deliver
  NoRule, Never,    \* no such rule; a time that is not set
  MaxHistory,       \* recent alerts the engine keeps
  MaxAlertTime, MaxRuleChanges \* bounds: half seconds; rules added or removed

(* A rule waits whole seconds between two alerts, and whole seconds before  *)
(* the first when it asks for a duration; both are u64 in the code.         *)
ASSUME AlertAssumption ==
  /\ Never \notin Int /\ NoRule \notin RuleForms
  /\ MaxHistory \in Nat /\ IsFiniteSet(Rules)
  /\ \A rule \in RuleForms : rule.cooldown \in Nat /\ rule.duration \in Nat \cup {Never}

VARIABLES
  rules,        \* rule id -> rule
  firing,       \* AlertState.firing_since, Never when it is not firing
  lastFired,    \* AlertState.last_fired_at
  recentAlerts, \* recent_alerts, oldest first
  alertTime,    \* the clock
  ruleChanges,  \* rules added or removed so far
  matching,     \* history: since when every evaluation of the rule matched
  fired         \* history: the alerts of each rule there is, with what held then

alertVars == <<rules, firing, lastFired, recentAlerts, alertTime, ruleChanges,
               matching, fired>>

Seconds(t) == t \div 2

Compare(op, left, right) ==
  CASE op = "gt" -> left > right  [] op = "gte" -> left >= right
    [] op = "lt" -> left < right  [] op = "lte" -> left <= right
    [] op = "eq" -> left = right  [] op = "neq" -> left # right

(* matches_metric and matches_labels                                       *)
MatchedPoints(cond, sample) == SelectSeq(sample, LAMBDA p : p.metric \in cond.metrics)

(* A condition none of whose metrics is in the sample is passed over, and  *)
(* so is one with an aggregation that evaluate does not know.              *)
ConditionMatches(cond, sample) ==
  LET points == MatchedPoints(cond, sample)
      values == [i \in DOMAIN points |-> points[i].value]
      Meets(v) == Compare(cond.op, v, cond.threshold)
  IN
  /\ points # << >>
  /\ \/ cond.aggregation = "latest" /\ Meets(Last(values))
     \/ cond.aggregation = "min" /\ Meets(Min(ToSet(values)))
     \/ cond.aggregation = "max" /\ Meets(Max(ToSet(values)))
     \/ /\ cond.aggregation = "avg"
        /\ Compare(cond.op, FoldLeft(+, 0, values), cond.threshold * Len(values))

RuleMatches(rule, sample) ==
  LET matched == {i \in DOMAIN rule.conditions :
                    ConditionMatches(rule.conditions[i], sample)}
  IN /\ rule.conditions # << >>
     /\ \/ rule.op = "and" /\ matched = DOMAIN rule.conditions
        \/ rule.op = "or" /\ matched # {}

AlertInit ==
  /\ rules = [r \in Rules |-> NoRule]
  /\ firing = [r \in Rules |-> Never] /\ lastFired = firing
  /\ recentAlerts = << >> /\ alertTime = 0 /\ ruleChanges = 0
  /\ matching = firing /\ fired = [r \in Rules |-> << >>]
-----------------------------------------------------------------------------
(* add_rule replaces a rule and keeps the state it finds. *)
AddRule == \E r \in Rules, rule \in RuleForms :
  /\ ruleChanges < MaxRuleChanges /\ ruleChanges' = ruleChanges + 1
  /\ rules[r] # rule /\ rules' = [rules EXCEPT ![r] = rule]
  /\ UNCHANGED <<firing, lastFired, recentAlerts, alertTime, matching, fired>>

(* Mutant: remove_rule leaves the state to the next rule with the id. *)
ForgottenNot(r) == UNCHANGED <<firing, lastFired>>

Forgotten(r) ==
  /\ firing' = [firing EXCEPT ![r] = Never]
  /\ lastFired' = [lastFired EXCEPT ![r] = Never]

RemoveRule == \E r \in Rules :
  /\ ruleChanges < MaxRuleChanges /\ ruleChanges' = ruleChanges + 1
  /\ rules[r] # NoRule /\ rules' = [rules EXCEPT ![r] = NoRule]
  /\ Forgotten(r)
  /\ matching' = [matching EXCEPT ![r] = Never]
  /\ fired' = [fired EXCEPT ![r] = << >>]
  /\ UNCHANGED <<recentAlerts, alertTime>>

Enabled == {r \in Rules : rules[r] # NoRule /\ rules[r].enabled}

(* update_state: the cooldown is looked at before the duration, and the    *)
(* start of the firing stays while either of them holds the alert back.    *)
Since(r) == IF firing[r] = Never THEN alertTime ELSE firing[r]

CooledDown(r) ==
  lastFired[r] = Never \/
    Seconds(alertTime) - Seconds(lastFired[r]) >= rules[r].cooldown

HeldLongEnough(r) ==
  rules[r].duration = Never \/
    Seconds(alertTime) - Seconds(Since(r)) >= rules[r].duration

(* Mutant: one more alert is kept than the limit says. *)
DroppedLate(alerts) == IF Len(alerts) > MaxHistory + 1 THEN Tail(alerts) ELSE alerts

Dropped(alerts) == IF Len(alerts) > MaxHistory THEN Tail(alerts) ELSE alerts

(* What is kept after each alert of a sequence of rules: push, and the oldest *)
(* goes when there are too many                                            *)
Recorded(alerts, order) ==
  LET after[k \in 0..Len(order)] ==
        IF k = 0 THEN alerts
        ELSE Dropped(Append(after[k-1],
               [rule |-> order[k], at |-> alertTime, resolved |-> FALSE]))
  IN after

Evaluate == \E sample \in Samples :
  LET matched == {r \in Enabled : RuleMatches(rules[r], sample)}
      due == {r \in matched : CooledDown(r) /\ HeldLongEnough(r)}
      still == [r \in Rules |-> IF r \in matched /\ matching[r] = Never THEN alertTime
                                ELSE IF r \in Enabled \ matched THEN Never
                                ELSE matching[r]]
  IN
  /\ Enabled # {}
  /\ firing' = [r \in Rules |-> IF r \in matched THEN Since(r)
                                ELSE IF r \in Enabled THEN Never ELSE firing[r]]
  /\ lastFired' = [r \in Rules |-> IF r \in due THEN alertTime ELSE lastFired[r]]
  /\ \E order \in SetToSeqs(due) :   \* the rules are in a HashMap
       recentAlerts' = Recorded(recentAlerts, order)[Len(order)]
  /\ matching' = still
  /\ fired' = [r \in Rules |-> IF r \notin due THEN fired[r] ELSE Append(fired[r],
       [at |-> alertTime, since |-> still[r],
        cooldown |-> rules[r].cooldown, duration |-> rules[r].duration])]
  /\ UNCHANGED <<rules, alertTime, ruleChanges>>

ResolveAlert == \E i \in DOMAIN recentAlerts :
  /\ ~recentAlerts[i].resolved
  /\ recentAlerts' = [recentAlerts EXCEPT ![i].resolved = TRUE]
  /\ UNCHANGED <<rules, firing, lastFired, alertTime, ruleChanges, matching, fired>>

AlertClock ==
  /\ alertTime < MaxAlertTime /\ alertTime' = alertTime + 1
  /\ UNCHANGED <<rules, firing, lastFired, recentAlerts, ruleChanges, matching, fired>>

AlertNext == AddRule \/ RemoveRule \/ Evaluate \/ ResolveAlert \/ AlertClock
-----------------------------------------------------------------------------
ActiveAlerts == Kept(recentAlerts, {a \in ToSet(recentAlerts) : ~a.resolved})

AlertEngineTypeOK ==
  /\ Len(recentAlerts) <= MaxHistory /\ Len(ActiveAlerts) <= Len(recentAlerts)
  /\ \A r \in Rules : {firing[r], lastFired[r]} \subseteq 0..alertTime \cup {Never}
  /\ \A r \in Rules : rules[r] = NoRule => firing[r] = Never

(* An alert is fired only when every evaluation of its rule has matched for *)
(* the duration the rule asks for, and no sooner after the alert before it  *)
(* than its cooldown, both up to the second the engine rounds away.  What   *)
(* matched before a rule was replaced, or disabled for a while, counts.     *)
AlertsAreDue ==
  \A r \in Rules : \A j \in DOMAIN fired[r] : LET alert == fired[r][j] IN
    /\ alert.since # Never
    /\ alert.duration # Never => alert.at - alert.since > 2 * alert.duration - 2
    /\ \A i \in 1..j-1 : alert.at - fired[r][i].at > 2 * alert.cooldown - 2
=============================================================================
