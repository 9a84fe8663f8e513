------------------------------- MODULE Services -------------------------------
(***************************************************************************)
(* The parts of the agent that share no state with each other, side by     *)
(* side: `part` says which of them a behaviour is about, and the others    *)
(* stay as they start.                                                     *)
(***************************************************************************)
EXTENDS Stores, ScriptStore, ScriptEngine, BatchPlan,
        AlertEngine, DataRouter, TelemetryProfiles, MqttClient, SecurityCenter,
        FileTransfer, Monitors

VARIABLE part

Parts == {"tags", "groups", "batches", "scripts", "rendering", "plan", "alerts",
          "router", "profiles", "mqtt", "security", "files", "plugins", "network", "sampler"}

ServicesInit ==
  /\ part \in Parts
  /\ TagInit /\ GroupInit /\ BatchInit /\ ScriptInit /\ RenderInit /\ PlanInit
  /\ AlertInit /\ RouterInit /\ ProfileInit /\ MqttInit /\ SecurityInit /\ TransferInit
  /\ MonitorInit

Keep(stays, vars) == IF stays THEN UNCHANGED vars ELSE TRUE

OthersStay ==
  /\ UNCHANGED part
  /\ Keep(part # "tags", tagVars)
  /\ Keep(part # "groups", groupVars)
  /\ Keep(part # "batches", batchVars)
  /\ Keep(part # "scripts", scriptVars)
  /\ Keep(part # "rendering", rendering)
  /\ Keep(part # "plan", plan)
  /\ Keep(part # "alerts", alertVars)
  /\ Keep(part # "router", routerVars)
  /\ Keep(part # "profiles", profileVars)
  /\ Keep(part # "mqtt", mqttVars)
  /\ Keep(part # "security", securityVars)
  /\ Keep(part # "files", transferVars)
  /\ Keep(part # "plugins", pluginVars)
  /\ Keep(part # "network", networkMonitorVars)
  /\ Keep(part # "sampler", samplerVars)

ServicesNext ==
  \/ part = "tags" /\ TagNext /\ OthersStay
  \/ part = "groups" /\ GroupNext /\ OthersStay
  \/ part = "batches" /\ BatchNext /\ OthersStay
  \/ part = "scripts" /\ ScriptNext /\ OthersStay
  \/ part = "rendering" /\ RenderNext /\ OthersStay
  \/ part = "plan" /\ PlanNext /\ OthersStay
  \/ part = "alerts" /\ AlertNext /\ OthersStay
  \/ part = "router" /\ RouterNext /\ OthersStay
  \/ part = "profiles" /\ ProfileNext /\ OthersStay
  \/ part = "mqtt" /\ MqttNext /\ OthersStay
  \/ part = "security" /\ SecurityNext /\ OthersStay
  \/ part = "files" /\ TransferNext /\ OthersStay
  \/ part = "plugins" /\ PluginNext /\ OthersStay
  \/ part = "network" /\ NetworkMonitorNext /\ OthersStay
  \/ part = "sampler" /\ SamplerNext /\ OthersStay

servicesVars ==
  <<part, tagVars, groupVars, batchVars, scriptVars, rendering, plan, alertVars, routerVars,
    profileVars, mqttVars, securityVars, transferVars, pluginVars, networkMonitorVars,
    samplerVars>>

ServicesSpec == ServicesInit /\ [][ServicesNext]_servicesVars
-----------------------------------------------------------------------------
(* Every part keeps its variables in their types and its tables within     *)
(* their limits.                                                           *)
ServicesTypeOK ==
  /\ part \in Parts
  /\ TagStoreTypeOK /\ GroupStoreTypeOK /\ BatchStoreTypeOK /\ ScriptStoreTypeOK
  /\ ScriptEngineTypeOK /\ BatchPlanTypeOK /\ AlertEngineTypeOK /\ DataRouterTypeOK
  /\ TelemetryTypeOK /\ MqttTypeOK /\ SecurityTypeOK /\ TransferTypeOK
  /\ MonitorTypeOK
===============================================================================
