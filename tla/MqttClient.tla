------------------------------- MODULE MqttClient -------------------------------
(***************************************************************************)
(* MqttClient of src/src/mqtt.rs with the tasks of src/src/app.rs that use *)
(* it: one worker that polls the event loop and serves subscriptions, the  *)
(* command listener, and the publishers of status, telemetry and           *)
(* application data.  All of them put requests into one bounded channel    *)
(* that only the worker's poll empties, and the worker hands commands over *)
(* through another that only the listener empties.                         *)
(*                                                                         *)
(* The broker is outside: it delivers commands while it knows the          *)
(* subscription, and forgets it with the connection (clean session).       *)
(***************************************************************************)
EXTENDS Naturals, Sequences, FiniteSets, SequencesExt, Selections

CONSTANTS
  Commands,    \* commands that the backend sends
  Forms,       \* what a command may be: its name and its process_name
  Publishers,  \* tasks that publish, the application platform among them
  AppTopics,   \* topics of application data
  RequestCap, CommandCap, \* room in the two channels
  MaxPublished, MaxOutages \* bounds: publications, losses of the connection

ASSUME MqttAssumption == {RequestCap, CommandCap} \subseteq Nat

VARIABLES
  mqttWorker,  \* "loop", "subscribing", "sleeping", or the command it hands over
  workerQueue, \* subscriptions that wait for the worker
  handler,     \* the worker has a sender for the command topic
  requests,    \* the channel of AsyncClient
  commandQueue,\* the channel of the command topic
  listener,    \* the listener's step
  connected, subscribed, \* the broker's side
  arrived,     \* history: what the broker got, in order
  received,    \* history: commands that reached the worker's handler, in order
  handled,     \* history: commands with the acknowledgement each was given
  unsent,      \* commands the backend has not sent yet
  mqttBudget   \* publications and outages so far

mqttVars == <<mqttWorker, workerQueue, handler, requests, commandQueue, listener,
              connected, subscribed, arrived, received, handled, unsent, mqttBudget>>

Loop == [step |-> "loop"]
Room == Len(requests) < RequestCap
Ack(command, success) == [kind |-> "ack", command |-> command, success |-> success]
Acks(queue) == Kept(queue, {Ack(c, b) : c \in Commands, b \in BOOLEAN})

(* CommandPolicy::default on behalf of an operator: one command, whose     *)
(* process_name must be a string, not blank, and pass as an argument.      *)
Allowed(form) ==
  /\ form.name = "restart_process"
  /\ form.process_name \notin {"missing", "no string", "blank", "too long", "shell"}

(* validate_app_topic *)
ValidTopic(topic) == topic \notin {"", "a/../b", "/a", "a/#", "+/a"}

MqttInit ==
  /\ mqttWorker = Loop /\ workerQueue = 0 /\ handler = FALSE
  /\ requests = << >> /\ commandQueue = << >> /\ listener = [step |-> "start"]
  /\ connected = FALSE /\ subscribed = FALSE
  /\ arrived = << >> /\ received = << >> /\ handled = << >>
  /\ unsent = Commands /\ mqttBudget = [published |-> 0, outages |-> 0]

(* AsyncClient::publish and subscribe wait for room in the channel. *)
Put(request) == Room /\ requests' = Append(requests, request)
-----------------------------------------------------------------------------
(* The listener *)
SubscribeCommands ==
  /\ listener.step = "start"
  /\ workerQueue' = workerQueue + 1
  /\ listener' = [step |-> "subscribing"]
  /\ UNCHANGED <<mqttWorker, handler, requests, commandQueue, connected, subscribed,
                 arrived, received, handled, unsent, mqttBudget>>

(* handle_mqtt_command: the processes of that name are terminated, and the *)
(* acknowledgement says restarted, whatever terminating them did.          *)
HandleCommand == \E form \in Forms, found \in BOOLEAN :
  LET ack == Ack(Head(commandQueue), Allowed(form) /\ found) IN
  /\ listener.step = "waiting" /\ commandQueue # << >>
  /\ commandQueue' = Tail(commandQueue)
  /\ listener' = [step |-> "acking", ack |-> ack]
  /\ handled' = Append(handled, ack)
  /\ UNCHANGED <<mqttWorker, workerQueue, handler, requests, connected, subscribed,
                 arrived, received, unsent, mqttBudget>>

PublishCommandAck ==
  /\ listener.step = "acking" /\ Put(listener.ack)
  /\ listener' = [step |-> "waiting"]
  /\ UNCHANGED <<mqttWorker, workerQueue, handler, commandQueue, connected, subscribed,
                 arrived, received, handled, unsent, mqttBudget>>

(* The other publishers wait for room as the listener does; application    *)
(* data comes through the data router, which refuses bad topics.           *)
Publish(p) == \E topic \in AppTopics :
  /\ ValidTopic(topic) /\ mqttBudget.published < MaxPublished
  /\ mqttBudget' = [mqttBudget EXCEPT !.published = @ + 1]
  /\ Put([kind |-> "data", from |-> p, topic |-> topic])
  /\ UNCHANGED <<mqttWorker, workerQueue, handler, commandQueue, listener, connected,
                 subscribed, arrived, received, handled, unsent>>
-----------------------------------------------------------------------------
(* The worker.  While it waits inside one arm of its select it does not    *)
(* poll.                                                                   *)
TakeSubscription ==
  /\ mqttWorker = Loop /\ workerQueue > 0
  /\ workerQueue' = workerQueue - 1
  /\ mqttWorker' = [step |-> "subscribing"]
  /\ UNCHANGED <<handler, requests, commandQueue, listener, connected, subscribed,
                 arrived, received, handled, unsent, mqttBudget>>

Subscribe ==
  /\ mqttWorker.step = "subscribing" /\ Put([kind |-> "subscribe"])
  /\ handler' = TRUE /\ mqttWorker' = Loop
  /\ listener' = [step |-> "waiting"]
  /\ UNCHANGED <<workerQueue, commandQueue, connected, subscribed, arrived, received,
                 handled, unsent, mqttBudget>>

PollSends ==
  /\ mqttWorker = Loop /\ connected /\ requests # << >>
  /\ requests' = Tail(requests)
  /\ arrived' = Append(arrived, Head(requests))
  /\ subscribed' = (subscribed \/ Head(requests).kind = "subscribe")
  /\ UNCHANGED <<mqttWorker, workerQueue, handler, commandQueue, listener, connected,
                 received, handled, unsent, mqttBudget>>

(* A command that comes without a handler, or that cannot be read, is      *)
(* dropped.                                                                *)
PollReceives(c) ==
  /\ mqttWorker = Loop /\ connected /\ subscribed /\ c \in unsent
  /\ unsent' = unsent \ {c}
  /\ \/ /\ handler /\ received' = Append(received, c)
        /\ mqttWorker' = [step |-> "handing over", command |-> c]
     \/ UNCHANGED <<received, mqttWorker>>
  /\ UNCHANGED <<workerQueue, handler, requests, commandQueue, listener, connected,
                 subscribed, arrived, handled, mqttBudget>>

(* Mutant: the command is handed over with try_send, and lost when the     *)
(* listener is behind.                                                     *)
Offered(queue, c) == IF Len(queue) < CommandCap THEN Append(queue, c) ELSE queue

HandedOver(queue, c) == Append(queue, c)

HandOver ==
  /\ mqttWorker.step = "handing over"
  /\ commandQueue' = HandedOver(commandQueue, mqttWorker.command)
  /\ Len(commandQueue') <= CommandCap   \* send waits for room
  /\ mqttWorker' = Loop
  /\ UNCHANGED <<workerQueue, handler, requests, listener, connected, subscribed,
                 arrived, received, handled, unsent, mqttBudget>>

(* An error of the event loop: the worker sleeps, and the next poll        *)
(* connects again.  Nothing subscribes a second time.                      *)
PollFails ==
  /\ mqttWorker = Loop /\ mqttBudget.outages < MaxOutages
  /\ mqttBudget' = [mqttBudget EXCEPT !.outages = @ + 1]
  /\ mqttWorker' = [step |-> "sleeping"]
  /\ connected' = FALSE /\ subscribed' = FALSE
  /\ UNCHANGED <<workerQueue, handler, requests, commandQueue, listener, arrived,
                 received, handled, unsent>>

WakeUp ==
  /\ mqttWorker.step = "sleeping" /\ mqttWorker' = Loop
  /\ UNCHANGED <<workerQueue, handler, requests, commandQueue, listener, connected,
                 subscribed, arrived, received, handled, unsent, mqttBudget>>

PollConnects ==
  /\ mqttWorker = Loop /\ ~connected /\ connected' = TRUE
  /\ UNCHANGED <<mqttWorker, workerQueue, handler, requests, commandQueue, listener,
                 subscribed, arrived, received, handled, unsent, mqttBudget>>

(* The backend's message finds no subscription. *)
CommandUndelivered(c) ==
  /\ c \in unsent /\ ~subscribed /\ unsent' = unsent \ {c}
  /\ UNCHANGED <<mqttWorker, workerQueue, handler, requests, commandQueue, listener,
                 connected, subscribed, arrived, received, handled, mqttBudget>>

MqttNext ==
  \/ SubscribeCommands \/ HandleCommand \/ PublishCommandAck
  \/ TakeSubscription \/ Subscribe \/ PollSends \/ HandOver
  \/ PollFails \/ WakeUp \/ PollConnects
  \/ \E p \in Publishers : Publish(p)
  \/ \E c \in Commands : PollReceives(c) \/ CommandUndelivered(c)
-----------------------------------------------------------------------------
(* Nothing frees either of these again: the worker waits for room that     *)
(* only its own poll makes, or for a listener that waits for that room.    *)
Stuck ==
  /\ ~Room
  /\ \/ mqttWorker.step = "subscribing"
     \/ /\ mqttWorker.step = "handing over" /\ Len(commandQueue) = CommandCap
        /\ listener.step = "acking"

MqttTypeOK ==
  /\ Len(requests) <= RequestCap /\ Len(commandQueue) <= CommandCap
  /\ workerQueue \in 0..1 /\ subscribed => connected

(* Every command that reaches the handler is handled once, in the order of *)
(* arrival, and its acknowledgement is queued once it has been handled,    *)
(* none before, in the same order, whatever other tasks publish and        *)
(* however often the connection is lost.                                   *)
CommandsAreHandled ==
  LET held == IF mqttWorker.step = "handing over" THEN <<mqttWorker.command>> ELSE << >>
      pending == IF listener.step = "acking" THEN <<listener.ack>> ELSE << >>
  IN
  /\ received = [i \in DOMAIN handled |-> handled[i].command] \o commandQueue \o held
  /\ handled = Acks(arrived \o requests) \o pending
=============================================================================
