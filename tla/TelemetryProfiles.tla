--------------------------- MODULE TelemetryProfiles ---------------------------
(***************************************************************************)
(* The telemetry profiles of AppState (src/src/state.rs), the scheduler of *)
(* src/src/telemetry.rs and the publisher task of src/src/app.rs that      *)
(* drives it.  replace_telemetry_profiles writes the configuration file,   *)
(* the profiles in memory, the version and the watch channel one after the *)
(* other with no lock around them, and the publisher learns of it through  *)
(* the channel.                                                            *)
(***************************************************************************)
EXTENDS Naturals, Sequences, FiniteSets, FiniteSetsExt, SequencesExt, Selections

CONSTANTS
  ProfileLists,  \* what a request may ask for: sequences of profiles
  FirstProfiles, \* the list in the file when the agent is installed
  NoText,        \* an id or a name that is blank
  ProfileClients, NoRequest, \* callers of the RPC; none is running
  MaxReplaces, MaxTelemetryRestarts, MaxTelemetryTime \* bounds

VARIABLES
  file,       \* mqtt.telemetry_profiles in the configuration file
  inMemory,   \* AppState.telemetry_profiles
  version,    \* AppState.telemetry_profiles_version
  announced,  \* the value in the watch channel
  sends,      \* values sent into the channel
  seen,       \* how many of them the publisher's receiver has marked as seen
  scheduler,  \* the scheduled profiles, each with its next collection
  publisher,  \* the publisher: its step, what is due, what it has to publish
  request,    \* client -> its call of replace_telemetry_profiles
  now,        \* milliseconds since the start
  mixed,      \* history: two requests ran at once, or one was cut short
  bundles,    \* history: bundles made since the scheduler was built
  builtAt,    \* history: when that was
  telemetryBudget \* requests and restarts so far

profileVars == <<file, inMemory, version, announced, sends, seen, scheduler, publisher,
                 request, now, mixed, bundles, builtAt, telemetryBudget>>

(* validate_profiles on the normalized list *)
ValidProfiles(list) ==
  /\ \A i \in DOMAIN list : /\ list[i].id # NoText /\ list[i].name # NoText
                            /\ list[i].interval > 0 /\ list[i].includes # {}
  /\ \A i, j \in DOMAIN list : list[i].id = list[j].id => i = j

(* AppState::new refuses a configuration whose profiles are not valid; an   *)
(* interval is an unsigned number of milliseconds.                          *)
ASSUME TelemetryAssumption ==
  /\ NoRequest \notin {"persist", "store", "count", "send"}
  /\ ValidProfiles(FirstProfiles)
  /\ \A list \in ProfileLists \cup {FirstProfiles} :
       /\ list \in Seq(ToSet(list))
       /\ \A i \in DOMAIN list : list[i].interval \in Nat

(* TelemetryScheduler::new *)
EnabledProfiles(list) == Kept(list, {p \in ToSet(list) : p.enabled})

Scheduled(list, start) ==
  LET enabled == EnabledProfiles(list) IN
  [i \in DOMAIN enabled |-> [profile |-> enabled[i], next |-> start]]

Due(time) == {i \in DOMAIN scheduler : scheduler[i].next <= time}
NextDeadline == Min({scheduler[i].next : i \in DOMAIN scheduler})

(* advance_due_time: the first time of the profile's own grid after now *)
AdvanceDueTime(previous, interval, time) ==
  previous + ((time - previous) \div interval + 1) * interval

(* filter_to_bundle: of the sections collected for all that is due, those  *)
(* of this profile                                                         *)
Bundle(profile, collected, v) ==
  [profile |-> profile, version |-> v, at |-> now,
   sections |-> collected \cap profile.includes]

(* collect_telemetry_sections: what any of the due profiles asks for *)
Collected(due) == UNION {scheduler[i].profile.includes : i \in due}

Waiting == [step |-> "waiting", due |-> {}, at |-> 0, out |-> << >>]
None == [step |-> NoRequest]

(* AppState::new, and the publisher's start when telemetry is enabled; an  *)
(* empty list in the file stands for the built-in profile.                 *)
Configured == IF file = << >> THEN FirstProfiles ELSE file

ProfileInit ==
  /\ file = FirstProfiles /\ inMemory = Configured /\ version = 1
  /\ announced = [version |-> 1, profiles |-> Configured] /\ sends = 0 /\ seen = 0
  /\ scheduler = Scheduled(Configured, 0) /\ publisher = Waiting
  /\ now = 0 /\ bundles = {} /\ builtAt = 0
  /\ request = [c \in ProfileClients |-> None] /\ mixed = FALSE
  /\ telemetryBudget = [requests |-> 0, restarts |-> 0]
-----------------------------------------------------------------------------
(* replace_telemetry_profiles *)
CallReplace(c) == \E list \in ProfileLists :
  /\ request[c] = None /\ telemetryBudget.requests < MaxReplaces
  /\ telemetryBudget' = [telemetryBudget EXCEPT !.requests = @ + 1]
  /\ ValidProfiles(list)   \* else the call returns an error at once
  /\ request' = [request EXCEPT ![c] = [step |-> "persist", list |-> list]]
  /\ mixed' = (mixed \/ \E d \in ProfileClients : request[d] # None)
  /\ UNCHANGED <<file, inMemory, version, announced, sends, seen, scheduler, publisher,
                 now, bundles, builtAt>>

RequestAt(c, step) == request[c].step = step
RequestTo(c, step) == request' = [request EXCEPT ![c].step = step]

PersistProfiles(c) ==
  /\ RequestAt(c, "persist")
  /\ \/ file' = request[c].list /\ RequestTo(c, "store")
     \/ request' = [request EXCEPT ![c] = None] /\ UNCHANGED file \* an I/O error
  /\ UNCHANGED <<inMemory, version, announced, sends, seen, scheduler, publisher,
                 now, mixed, bundles, builtAt, telemetryBudget>>

StoreProfiles(c) ==
  /\ RequestAt(c, "store")
  /\ inMemory' = request[c].list /\ RequestTo(c, "count")
  /\ UNCHANGED <<file, version, announced, sends, seen, scheduler, publisher,
                 now, mixed, bundles, builtAt, telemetryBudget>>

CountVersion(c) ==
  /\ RequestAt(c, "count")
  /\ version' = version + 1
  /\ request' = [request EXCEPT
       ![c] = [step |-> "send", list |-> @.list, version |-> version + 1]]
  /\ UNCHANGED <<file, inMemory, announced, sends, seen, scheduler, publisher,
                 now, mixed, bundles, builtAt, telemetryBudget>>

SendProfiles(c) ==
  /\ RequestAt(c, "send")
  /\ announced' = [version |-> request[c].version, profiles |-> request[c].list]
  /\ sends' = sends + 1
  /\ request' = [request EXCEPT ![c] = None]
  /\ UNCHANGED <<file, inMemory, version, seen, scheduler, publisher,
                 now, mixed, bundles, builtAt, telemetryBudget>>
-----------------------------------------------------------------------------
(* The publisher: profiles_rx.changed() marks what is there as seen, and   *)
(* the scheduler is built from what is there then.                         *)
Rebuild ==
  /\ publisher.step = "waiting" /\ seen < sends
  /\ seen' = sends
  /\ scheduler' = Scheduled(announced.profiles, now)
  /\ bundles' = {} /\ builtAt' = now
  /\ UNCHANGED <<file, inMemory, version, announced, sends, publisher, request,
                 now, mixed, telemetryBudget>>

(* The sleep ends: what is due is collected, which takes time. *)
StartCollecting ==
  /\ publisher.step = "waiting" /\ scheduler # << >> /\ now >= NextDeadline
  /\ publisher' = [publisher EXCEPT !.step = "collecting", !.due = Due(now), !.at = now]
  /\ UNCHANGED <<file, inMemory, version, announced, sends, seen, scheduler, request,
                 now, mixed, bundles, builtAt, telemetryBudget>>

(* Mutant: the version is read with borrow_and_update. *)
ReadVersionAndMark == seen' = sends

(* profiles_rx.borrow() reads the version and leaves the mark where it is. *)
ReadVersion == seen' = seen

CollectDueBundles ==
  LET due == publisher.due
      made == [i \in due |-> Bundle(scheduler[i].profile, Collected(due), announced.version)]
  IN
  /\ publisher.step = "collecting" /\ ReadVersion
  /\ scheduler' = [i \in DOMAIN scheduler |->
       IF i \in due THEN [scheduler[i] EXCEPT !.next =
                            AdvanceDueTime(@, scheduler[i].profile.interval, publisher.at)]
       ELSE scheduler[i]]
  /\ bundles' = bundles \cup {[made[i] EXCEPT !.at = publisher.at] : i \in due}
  /\ publisher' = [publisher EXCEPT !.step = "publishing", !.out = SetToSeq(due)]
  /\ UNCHANGED <<file, inMemory, version, announced, sends, request,
                 now, mixed, builtAt, telemetryBudget>>

(* publish_telemetry: an error is logged, and the next bundle follows. *)
PublishBundle ==
  /\ publisher.step = "publishing"
  /\ publisher' = IF publisher.out = << >> THEN Waiting
                  ELSE [publisher EXCEPT !.out = Tail(@)]
  /\ UNCHANGED <<file, inMemory, version, announced, sends, seen, scheduler, request,
                 now, mixed, bundles, builtAt, telemetryBudget>>

TelemetryClock ==
  /\ now < MaxTelemetryTime /\ now' = now + 1
  /\ UNCHANGED <<file, inMemory, version, announced, sends, seen, scheduler, publisher,
                 request, mixed, bundles, builtAt, telemetryBudget>>

RestartTelemetry ==
  /\ telemetryBudget.restarts < MaxTelemetryRestarts
  /\ telemetryBudget' = [telemetryBudget EXCEPT !.restarts = @ + 1]
  /\ inMemory' = Configured /\ version' = 1
  /\ announced' = [version |-> 1, profiles |-> Configured] /\ sends' = 0 /\ seen' = 0
  /\ scheduler' = Scheduled(Configured, 0) /\ publisher' = Waiting
  /\ now' = 0 /\ bundles' = {} /\ builtAt' = 0
  /\ request' = [c \in ProfileClients |-> None] /\ mixed' = FALSE
  /\ UNCHANGED file

ProfileNext ==
  \/ RestartTelemetry \/ TelemetryClock
  \/ Rebuild \/ StartCollecting \/ CollectDueBundles \/ PublishBundle
  \/ \E c \in ProfileClients : \/ CallReplace(c) \/ PersistProfiles(c) \/ StoreProfiles(c)
                               \/ CountVersion(c) \/ SendProfiles(c)
-----------------------------------------------------------------------------
TelemetryTypeOK ==
  /\ ValidProfiles(file) /\ ValidProfiles(inMemory)
  /\ seen <= sends /\ announced.version <= version
  /\ \A b \in bundles : b.version \in 1..version /\ b.sections \subseteq b.profile.includes

(* When no request is running, and none ran while another did, the file,   *)
(* the memory and the channel hold the same profiles under the last        *)
(* version.  And whatever requests do: a scheduler that was not built from *)
(* the announced profiles is about to be rebuilt, and a profile has at     *)
(* most one bundle in each of its intervals, with all of its sections.     *)
ProfilesTakeEffect ==
  /\ (~mixed /\ \A c \in ProfileClients : request[c] = None) =>
       /\ inMemory = announced.profiles /\ version = announced.version
       /\ Configured = inMemory \/ file = inMemory
  /\ seen = sends =>
       [i \in DOMAIN scheduler |-> scheduler[i].profile] = EnabledProfiles(announced.profiles)
  /\ \A b \in bundles :
       /\ b.sections = b.profile.includes
       /\ \A d \in bundles \ {b} : d.profile = b.profile =>
            (d.at - builtAt) \div b.profile.interval
              # (b.at - builtAt) \div b.profile.interval
=============================================================================
