------------------------------- MODULE DataRouter -------------------------------
(***************************************************************************)
(* The downlink side of src/src/data_router.rs for one application, and    *)
(* the forwarders that subscribe_data of src/src/app_platform.rs starts:   *)
(* deliver copies the list of senders, sends to one after the other        *)
(* without the lock, and then takes those that were closed off the list by *)
(* their indices in the copy.                                              *)
(***************************************************************************)
EXTENDS Naturals, Sequences, FiniteSets, SequencesExt

CONSTANTS
  Subscribers,  \* subscriptions, each made once
  Deliveries,   \* messages to the application, each delivered by a call of its own
  Topics,       \* topics of messages
  AnyTopic,     \* the filter of a subscription that names no topic
  NoList,       \* no entry for the application
  SenderCap, StreamCap \* room in a subscriber's channel and in its stream

ASSUME RouterAssumption ==
  NoList \notin Seq(Subscribers) /\ {SenderCap, StreamCap} \subseteq Nat

VARIABLES
  registry,  \* DownlinkRegistry.inner: the senders of the application, or NoList
  poisoned,  \* a task panicked while it held the registry's lock
  channel,   \* subscriber -> messages sent and not yet received
  forwarder, \* subscriber -> "new", "waiting", "sending" or "ended"
  stream,    \* subscriber -> messages for its client, the one in hand first
  reading,   \* subscriptions whose client is there
  filter,    \* subscriber -> its topic, or AnyTopic
  delivery,  \* message -> what its call of deliver is at
  cuts,      \* history: times the list was shortened
  removed,   \* history: subscriptions that remove_app dropped
  raced      \* history: a list was cleaned that another call had shortened

routerVars == <<registry, poisoned, channel, forwarder, stream, reading, filter, delivery,
                cuts, removed, raced>>

Senders == IF registry = NoList THEN << >> ELSE registry
Ended == {s \in Subscribers : forwarder[s] = "ended"}
Live == {s \in Subscribers : forwarder[s] \in {"waiting", "sending"}}

RouterInit ==
  /\ registry = NoList /\ poisoned = FALSE
  /\ channel = [s \in Subscribers |-> << >>] /\ stream = channel
  /\ forwarder = [s \in Subscribers |-> "new"] /\ reading = {}
  /\ filter \in [Subscribers -> Topics \cup {AnyTopic}]
  /\ delivery = [m \in Deliveries |-> [at |-> "none"]]
  /\ cuts = 0 /\ removed = {} /\ raced = FALSE
-----------------------------------------------------------------------------
(* A poisoned lock makes every later call panic before it does anything. *)
SubscribeData(s) ==
  /\ forwarder[s] = "new" /\ ~poisoned
  /\ registry' = Append(Senders, s)
  /\ forwarder' = [forwarder EXCEPT ![s] = "waiting"]
  /\ reading' = reading \cup {s}
  /\ UNCHANGED <<poisoned, channel, stream, filter, delivery, cuts, removed, raced>>

Deliver(m) == \E topic \in Topics :
  /\ delivery[m].at = "none" /\ ~poisoned
  /\ delivery' = [delivery EXCEPT ![m] = [at |-> "sending", topic |-> topic,
                    to |-> Senders, next |-> 1, dead |-> << >>, cuts |-> cuts]]
  /\ UNCHANGED <<registry, poisoned, channel, forwarder, stream, reading, filter,
                 cuts, removed, raced>>

(* tx.send(..).await: waits for room, fails when the receiver is gone *)
SendNext(m) ==
  LET d == delivery[m]
      s == d.to[d.next]
  IN
  /\ d.at = "sending" /\ d.next <= Len(d.to)
  /\ \/ /\ s \in Ended
        /\ delivery' = [delivery EXCEPT ![m].next = @ + 1, ![m].dead = Append(@, d.next)]
        /\ UNCHANGED channel
     \/ /\ s \notin Ended /\ Len(channel[s]) < SenderCap
        /\ channel' = [channel EXCEPT ![s] = Append(@, d.topic)]
        /\ delivery' = [delivery EXCEPT ![m].next = @ + 1]
  /\ UNCHANGED <<registry, poisoned, forwarder, stream, reading, filter,
                 cuts, removed, raced>>

SwapRemove(list, i) == SubSeq([list EXCEPT ![i] = Last(list)], 1, Len(list) - 1)

(* Mutant: the indices are taken off from the first to the last. *)
FromFirst(dead) == dead

RemovalOrder(dead) == Reverse(dead)

(* What is left after each removal; an index past the end panics. *)
Removals(list, order) ==
  LET after[k \in 0..Len(order)] ==
        IF k = 0 THEN [list |-> list, panics |-> FALSE]
        ELSE IF after[k-1].panics \/ order[k] > Len(after[k-1].list)
        THEN [after[k-1] EXCEPT !.panics = TRUE]
        ELSE [after[k-1] EXCEPT !.list = SwapRemove(@, order[k])]
  IN after

CleanedList(list, dead) == Removals(list, RemovalOrder(dead))[Len(dead)]

CleanUp(m) ==
  LET d == delivery[m]
      after == CleanedList(registry, d.dead)
  IN
  /\ d.at = "sending" /\ d.next > Len(d.to)
  /\ delivery' = [delivery EXCEPT ![m] = [at |-> "done"]]
  /\ IF d.dead = << >> \/ registry = NoList \/ poisoned
     THEN UNCHANGED <<registry, poisoned, cuts, raced>>
     ELSE /\ registry' = after.list /\ poisoned' = after.panics
          /\ cuts' = cuts + 1
          /\ raced' = (raced \/ cuts # d.cuts)
  /\ UNCHANGED <<channel, forwarder, stream, reading, filter, removed>>

RemoveApp ==
  /\ registry # NoList /\ ~poisoned
  /\ registry' = NoList /\ cuts' = cuts + 1
  /\ removed' = removed \cup ToSet(registry)
  /\ UNCHANGED <<poisoned, channel, forwarder, stream, reading, filter, delivery, raced>>
-----------------------------------------------------------------------------
(* The forwarder of subscribe_data: a message that the filter refuses is   *)
(* dropped, and a client that has gone is noticed only with the next that  *)
(* passes.                                                                 *)
Receive(s) ==
  LET topic == Head(channel[s]) IN
  /\ forwarder[s] = "waiting" /\ channel[s] # << >>
  /\ channel' = [channel EXCEPT ![s] = Tail(@)]
  /\ forwarder' = IF filter[s] \in {AnyTopic, topic}
                  THEN [forwarder EXCEPT ![s] = "sending"] ELSE forwarder
  /\ UNCHANGED <<registry, poisoned, stream, reading, filter, delivery,
                 cuts, removed, raced>>

SendToClient(s) ==
  /\ forwarder[s] = "sending"
  /\ \/ /\ s \notin reading
        /\ forwarder' = [forwarder EXCEPT ![s] = "ended"]
        /\ channel' = [channel EXCEPT ![s] = << >>] /\ UNCHANGED stream
     \/ /\ s \in reading /\ Len(stream[s]) < StreamCap
        /\ stream' = [stream EXCEPT ![s] = Append(@, "message")]
        /\ forwarder' = [forwarder EXCEPT ![s] = "waiting"] /\ UNCHANGED channel
  /\ UNCHANGED <<registry, poisoned, reading, filter, delivery, cuts, removed, raced>>

(* recv returns None once the last sender is dropped. *)
SendersGone(s) ==
  /\ forwarder[s] = "waiting" /\ channel[s] = << >>
  /\ s \notin ToSet(Senders)
  /\ \A m \in Deliveries : delivery[m].at = "sending" => s \notin ToSet(delivery[m].to)
  /\ forwarder' = [forwarder EXCEPT ![s] = "ended"]
  /\ UNCHANGED <<registry, poisoned, channel, stream, reading, filter, delivery,
                 cuts, removed, raced>>

ClientReads(s) ==
  /\ s \in reading /\ stream[s] # << >>
  /\ stream' = [stream EXCEPT ![s] = Tail(@)]
  /\ UNCHANGED <<registry, poisoned, channel, forwarder, reading, filter, delivery,
                 cuts, removed, raced>>

ClientLeaves(s) ==
  /\ s \in reading /\ reading' = reading \ {s}
  /\ stream' = [stream EXCEPT ![s] = << >>]
  /\ UNCHANGED <<registry, poisoned, channel, forwarder, filter, delivery,
                 cuts, removed, raced>>

RouterNext ==
  \/ RemoveApp
  \/ \E m \in Deliveries : Deliver(m) \/ SendNext(m) \/ CleanUp(m)
  \/ \E s \in Subscribers : SubscribeData(s) \/ Receive(s) \/ SendToClient(s)
                            \/ SendersGone(s) \/ ClientReads(s) \/ ClientLeaves(s)
-----------------------------------------------------------------------------
DataRouterTypeOK ==
  /\ ToSet(Senders) \subseteq Subscribers /\ IsInjective(Senders)
  /\ \A s \in Subscribers : /\ Len(channel[s]) <= SenderCap
                            /\ Len(stream[s]) <= StreamCap
                            /\ s \in Ended => channel[s] = << >>

(* Unless two calls shorten the list at once, deliver takes only closed    *)
(* subscriptions off it and never panics: a live subscriber stays          *)
(* registered until remove_app.                                            *)
LiveSubscribersStay == ~raced =>
  ~poisoned /\ Live \ removed \subseteq ToSet(Senders)
=============================================================================
