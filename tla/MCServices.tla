------------------------------- MODULE MCServices -------------------------------
(***************************************************************************)
(* A small instance of every part for TLC.                                 *)
(***************************************************************************)
EXTENDS Services

CONSTANTS a, b, e, bl, x, y, pf, pg

-----------------------------------------------------------------------------
(* Values for the configuration *)
Parameter == [name : {a, b}, required : BOOLEAN, default : {NoDefault, bl, x},
              pattern : {{x}, {e, x, bl, y}}, type : {{x, y}}]
Twice == [name : {a}, required : {TRUE}, default : {NoDefault, x},
          pattern : {{x}, {x, bl, y}}, type : {{x, y}}]
MCDefinitions == {<<>>} \cup {<<d>> : d \in Parameter} \cup {<<d, f>> : d, f \in Twice}
                 \cup {<<d, [d EXCEPT !.name = b]>> : d \in Twice}
MCBodies == {<<x>>, <<a, y>>, <<a, b, a>>}

(* Completed, with its counters at 0 *)
MCGivenTasks == {[status |-> "completed", progress |-> 0, total |-> 0,
                  items |-> <<"success", "failed">>]}

Device(id, tags, groups, prefixes) ==
  [id |-> id, tags |-> tags, groups |-> groups, prefixes |-> prefixes]
MCFleet == {Device("d1", {"w1"}, {"w2"}, {"w1"}), Device("d2", {"w1"}, {}, {"w1"}),
            Device("d3", {"w2"}, {"w2"}, {})}

Condition(metrics, op, threshold, aggregation) ==
  [metrics |-> metrics, op |-> op, threshold |-> threshold, aggregation |-> aggregation]
Rule(enabled, conditions, op, cooldown, duration) ==
  [enabled |-> enabled, conditions |-> conditions, op |-> op, cooldown |-> cooldown,
   duration |-> duration]
High == <<Condition({"cpu"}, "gt", 1, "max")>>
Both == <<Condition({"cpu", "mem"}, "gte", 1, "avg"), Condition({"mem"}, "neq", 0, "latest")>>
LowOrSum == <<Condition({"mem"}, "lt", 1, "min"), Condition({"mem"}, "gt", 5, "sum")>>
MCRuleForms == {Rule(TRUE, High, "and", 1, Never), Rule(TRUE, High, "and", 1, 1),
                Rule(FALSE, High, "and", 1, 1), Rule(TRUE, Both, "and", 1, 1),
                Rule(TRUE, LowOrSum, "or", 2, Never)}
Sample(metric, value) == [metric |-> metric, value |-> value]
MCSamples == {<<Sample("cpu", 0), Sample("cpu", 2)>>, <<Sample("cpu", 0)>>,
              <<Sample("mem", 2), Sample("cpu", 0), Sample("mem", 1)>>, <<Sample("mem", 0)>>}

ProfileForm(id, enabled, interval, includes) ==
  [id |-> id, name |-> id, enabled |-> enabled, interval |-> interval, includes |-> includes]
MCFirstProfiles == <<ProfileForm(pf, TRUE, 2, {"basic", "apps"})>>
MCProfileLists ==
  {<<ProfileForm(pf, TRUE, 1, {"basic"}), ProfileForm(pg, TRUE, 2, {"apps", "basic"})>>,
   <<>>, <<ProfileForm(pg, FALSE, 1, {"apps"})>>, <<ProfileForm(pf, TRUE, 0, {"apps"})>>,
   <<ProfileForm(pf, TRUE, 1, {"apps"}), ProfileForm(pf, FALSE, 1, {"apps"})>>,
   <<ProfileForm(NoText, TRUE, 1, {})>>}

MCForms == {[name |-> "restart_process", process_name |-> "editor"],
            [name |-> "restart_process", process_name |-> "blank"],
            [name |-> "reboot", process_name |-> "missing"]}

Proc(pid, cpu, memory, state) == [pid |-> pid, cpu |-> cpu, memory |-> memory, state |-> state]
Sys(cpu, total, available, processes) ==
  [cpu |-> cpu, total |-> total, available |-> available, processes |-> processes]
MCSystems ==
  {Sys(50, 8, 2, {Proc(1, 40, 3, "run"), Proc(2, 90, 2, "sleep")}),
   Sys(NotANumber, 8, 9, {Proc(1, NotANumber, 3, "run"), Proc(2, 120, 3, "zombie")}),
   Sys(101, 0, 0, {})}
MCSettings == {[interval |-> 0, top |-> 1], [interval |-> 5, top |-> NotANumber],
               [interval |-> 5, top |-> 1]}
-----------------------------------------------------------------------------
(* A part that a behaviour is not about starts in one of its states only. *)
OnePartInit ==
  /\ ServicesInit
  /\ part # "tags" => links = {}
  /\ part # "router" => filter = [s \in Subscribers |-> AnyTopic]
  /\ \A f \in ManagedFiles : named[f] # NoFile <=> part = "files" /\ f \notin ProgramNames
  /\ part # "plugins" => log[1].cpu = 50

(* The uploads are alike, so a fixed one starts first.  What is started     *)
(* third is followed up when it is a chunk and only chunks came before it.   *)
TransferScenes ==
  LET Started(u) == upload[u] # Stream("next") \/ expected[u] # << >>
  IN /\ \A u \in Uploads : Started(u) => Started(CHOOSE v \in Uploads : TRUE)
     /\ \/ transfers <= 2
        \/ /\ \A d \in Downloads : download[d].step = "none"
           /\ \A r \in Renames : rename[r].step = "none"
=============================================================================
