------------------------- MODULE UpgradeEngineProofs -------------------------
(* Theorems about UpgradeEngine, for any apps, versions, files and packages *)
(* and any bounds on runs, errors and restarts                              *)
EXTENDS UpgradeEngine, TLAPS

Dir == Content \cup {NoDir}

States ==
  {"Idle", "Received", "Validated", "Downloading", "Verifying", "PreCheck", "Staging",
   "ReadyToActivate", "Activating", "PostCheck", "Committed", "RollingBack", "RolledBack", "Failed"}

Phases == {"none", "check", "copy", "clear", "move", "done", "failed"}

Record == [state : States, target : Versions \cup {NoManifest}]

(* An engine has a manifest from the first run on *)
Typed ==
  /\ state \in States /\ phase \in Phases /\ left \subseteq Files /\ faults \in Nat
  /\ IF state = "Idle" THEN current = NoManifest ELSE current \in Manifest
  /\ staging \in [Apps -> Dir] /\ install \in [Apps -> Dir]
  /\ backup \in [Apps -> [Versions -> Dir]]
  /\ records \in [Apps -> Record]
  /\ before \in [Apps -> Dir] /\ package \in [Apps -> Dir]
  /\ mishap \in [Apps -> SUBSET {"backup", "record"}]

(* Only activation and rollback have phases *)
PhasesFit ==
  /\ phase = "none" <=> state \notin {"Activating", "RollingBack"}
  /\ phase \in {"move", "failed"} => state = "Activating"

-----------------------------------------------------------------------------
(* What the run has done to the directories so far *)

(* All of the previous install is in the backup *)
KeptBack ==
  before[App] # NoDir =>
    /\ Saved # NoDir
    /\ \A f \in Files : before[App][f] # NoFile => Saved[f] = before[App][f]

BeforeActivation ==
  \/ state \in {"Received", "Validated", "Downloading", "Verifying", "PreCheck", "Staging",
                "ReadyToActivate"}
  \/ Phase("Activating", "check")

Untouched == BeforeActivation => install[App] = before[App]

Staged ==
  (\/ state = "ReadyToActivate"
   \/ state = "Activating" /\ phase \in {"check", "copy", "clear", "move"})
    => staging[App] = package[App]

Copying ==
  Phase("Activating", "copy") =>
    /\ install[App] = before[App] /\ before[App] # NoDir /\ Saved # NoDir
    /\ \A f \in Files \ left : before[App][f] # NoFile => Saved[f] = before[App][f]

Clearing == phase = "clear" => install[App] # NoDir

(* The old install goes only once it is all in the backup *)
BackedUpFirst ==
  (state = "Activating" /\ phase \in {"clear", "move", "done"}) \/ state = "PostCheck" => KeptBack

Activation == Phase("Activating", "done") \/ state = "PostCheck" => install[App] = package[App]

(* So rollback has something to go back to, unless the copy failed *)
CanGoBack ==
  Phase("Activating", "failed") \/ state = "RollingBack" =>
    KeptBack \/ "backup" \in mishap[App]

CopyingBack ==
  Phase("RollingBack", "copy") =>
    /\ Saved # NoDir /\ install[App] # NoDir
    /\ \A f \in Files \ left : install[App][f] = Saved[f]

WentBack ==
  (Phase("RollingBack", "done") \/ state = "RolledBack") /\ faults = 0 /\ before[App] # NoDir =>
    KeptBack /\ install[App] # NoDir /\ \A f \in Files : install[App][f] = Saved[f]

(* The copy into a backup fails for an error only *)
BackupsFailByFaults == \A a \in Apps : "backup" \in mishap[a] => faults > 0

(* The record of the app follows the state, unless the store refused it;    *)
(* Received is recorded for the app of the run before                       *)
RecordsFollow ==
  state \notin {"Idle", "Received"} =>
    "record" \in mishap[App] \/ records[App].state = state

RunInv ==
  /\ Untouched /\ Staged /\ Copying /\ Clearing /\ BackedUpFirst /\ Activation
  /\ CanGoBack /\ CopyingBack /\ WentBack

UpgradeInv ==
  /\ Typed /\ PhasesFit /\ RunInv /\ BackupsFailByFaults /\ RecordsFollow
  /\ PreviousInstallSurvives /\ CommittedIsInstalled

-----------------------------------------------------------------------------
(* Directories and records                                                  *)

LEMMA BoundsAre ==
  /\ NoFile \notin Builds /\ NoDir \notin Content /\ Packages \subseteq Content
  /\ NoManifest \notin Manifest
  BY UpgradeAssumption DEF Manifest

LEMMA DirsAre ==
  /\ Empty \in Content /\ Content \subseteq Dir /\ NoDir \in Dir /\ Empty # NoDir
  /\ \A d \in Dir : Create(d) \in Content /\ Create(d) # NoDir
  /\ \A d \in Dir : FilesIn(d) \subseteq Files
  BY BoundsAre DEF Empty, Content, Dir, Create, FilesIn

LEMMA FileSet ==
  ASSUME NEW d \in Content, NEW f \in Files, NEW b \in Builds \cup {NoFile}
  PROVE  /\ [d EXCEPT ![f] = b] \in Content /\ [d EXCEPT ![f] = b] # NoDir
         /\ [d EXCEPT ![f] = b][f] = b
         /\ \A g \in Files : g # f => [d EXCEPT ![f] = b][g] = d[g]
  BY BoundsAre DEF Content

(* While a run goes on *)
LEMMA RunningIs ==
  ASSUME Typed, state # "Idle"
  PROVE  /\ current \in Manifest /\ current # NoManifest
         /\ App \in Apps /\ current.from \in Versions /\ current.to \in Versions
         /\ install[App] \in Dir /\ staging[App] \in Dir /\ Saved \in Dir
         /\ before[App] \in Dir /\ package[App] \in Dir
<1>1. current \in Manifest
      BY DEF Typed
<1>2. current # NoManifest
      BY <1>1, BoundsAre
<1>3. App \in Apps /\ current.from \in Versions /\ current.to \in Versions
      BY <1>1 DEF Manifest, App
<1> QED BY <1>1, <1>2, <1>3 DEF Typed, Saved

LEMMA SetInstallIs ==
  ASSUME Typed, state # "Idle", NEW d \in Dir, SetInstall(d)
  PROVE  /\ install' \in [Apps -> Dir] /\ install'[App] = d
         /\ \A a \in Apps : a # App => install'[a] = install[a]
<1>1. App \in Apps /\ install \in [Apps -> Dir]
      BY RunningIs DEF Typed
<1> QED BY <1>1 DEF SetInstall

LEMMA SetSavedIs ==
  ASSUME Typed, state # "Idle", NEW d \in Dir, SetSaved(d)
  PROVE  /\ backup' \in [Apps -> [Versions -> Dir]] /\ backup'[App][current.from] = d
         /\ \A v \in Versions : v # current.from => backup'[App][v] = backup[App][v]
         /\ \A a \in Apps : a # App => backup'[a] = backup[a]
<1>1. /\ App \in Apps /\ backup \in [Apps -> [Versions -> Dir]]
      /\ current.from \in Versions /\ backup[App] \in [Versions -> Dir]
      BY RunningIs DEF Typed
<1> DEFINE saved == [backup[App] EXCEPT ![current.from] = d]
<1>2. /\ saved \in [Versions -> Dir] /\ saved[current.from] = d
      /\ \A v \in Versions : v # current.from => saved[v] = backup[App][v]
      BY <1>1
<1>3. backup' = [backup EXCEPT ![App] = saved]
      BY DEF SetSaved
<1> HIDE DEF saved
<1> QED BY <1>1, <1>2, <1>3

(* What is stored with a new state: nothing that would say otherwise *)
Recorded(s) ==
  /\ state' = s /\ records' \in [Apps -> Record]
  /\ mishap' \in [Apps -> SUBSET {"backup", "record"}]
  /\ faults' \in Nat /\ faults <= faults'
  /\ \A a \in Apps : "backup" \in mishap'[a] <=> "backup" \in mishap[a]
  /\ \A a \in Apps :
       current = NoManifest \/ a # App => records'[a] = records[a] /\ mishap'[a] = mishap[a]
  /\ current # NoManifest => "record" \in mishap'[App] \/ records'[App].state = s

LEMMA SetStateIs ==
  ASSUME Typed, NEW s \in States, SetState(s)
  PROVE  Recorded(s)
<1>0. /\ records \in [Apps -> Record] /\ mishap \in [Apps -> SUBSET {"backup", "record"}] /\ faults \in Nat
      /\ state' = s
      BY DEF Typed, SetState
<1>1. CASE current = NoManifest
      BY <1>0, <1>1 DEF SetState, Recorded
<1>2. CASE current # NoManifest
  <2>1. App \in Apps /\ current.to \in Versions
        BY <1>2, RunningIs DEF Typed
  <2>2. CASE /\ records' = [records EXCEPT ![App] = [state |-> s, target |-> current.to]]
             /\ mishap' = [mishap EXCEPT ![App] = @ \ {"record"}]
             /\ UNCHANGED faults
    <3>1. [state |-> s, target |-> current.to] \in Record
          BY <2>1 DEF Record
    <3>2. /\ records' \in [Apps -> Record] /\ records'[App].state = s
          /\ \A a \in Apps : a # App => records'[a] = records[a]
          BY <1>0, <2>1, <2>2, <3>1
    <3>3. /\ mishap' \in [Apps -> SUBSET {"backup", "record"}]
          /\ mishap'[App] = mishap[App] \ {"record"}
          /\ \A a \in Apps : a # App => mishap'[a] = mishap[a]
          BY <1>0, <2>1, <2>2
    <3>4. \A a \in Apps : "backup" \in mishap'[a] <=> "backup" \in mishap[a]
          BY <3>3
    <3> QED BY <1>0, <1>2, <2>2, <3>2, <3>3, <3>4 DEF Recorded
  <2>3. CASE /\ mishap' = [mishap EXCEPT ![App] = @ \cup {"record"}]
             /\ UNCHANGED records
             /\ Fault
    <3>1. /\ mishap' \in [Apps -> SUBSET {"backup", "record"}]
          /\ mishap'[App] = mishap[App] \cup {"record"}
          /\ \A a \in Apps : a # App => mishap'[a] = mishap[a]
          BY <1>0, <2>1, <2>3
    <3>2. \A a \in Apps : "backup" \in mishap'[a] <=> "backup" \in mishap[a]
          BY <3>1
    <3>3. faults' \in Nat /\ faults <= faults'
          BY <1>0, <2>3 DEF Fault
    <3> QED BY <1>0, <1>2, <2>3, <3>1, <3>2, <3>3 DEF Recorded
  <2> QED BY <1>2, <2>2, <2>3 DEF SetState, App
<1> QED BY <1>1, <1>2

(* Where the files of an old install are *)
SurvivesIn(old, dir, saved, trouble) ==
  \/ "backup" \in trouble
  \/ \A f \in FilesIn(old) :
       \/ Has(dir, f, old[f])
       \/ \E v \in Versions : Has(saved[v], f, old[f])

KeptIn(old, save) ==
  old # NoDir =>
    /\ save # NoDir
    /\ \A f \in Files : old[f] # NoFile => save[f] = old[f]

LEMMA SurvivesIs ==
  /\ PreviousInstallSurvives <=>
       \A a \in Apps : SurvivesIn(before[a], install[a], backup[a], mishap[a])
  /\ PreviousInstallSurvives' <=>
       \A a \in Apps : SurvivesIn(before'[a], install'[a], backup'[a], mishap'[a])
  /\ KeptBack <=> KeptIn(before[App], Saved)
  /\ KeptBack' <=> KeptIn(before'[App'], Saved')
<1>1. ASSUME NEW old, NEW dir, NEW saved, NEW trouble
      PROVE  SurvivesIn(old, dir, saved, trouble) <=>
               \/ "backup" \in trouble
               \/ \A f \in FilesIn(old) :
                    \E d \in {dir} \cup {saved[v] : v \in Versions} : Has(d, f, old[f])
      BY DEF SurvivesIn
<1> QED BY <1>1 DEF PreviousInstallSurvives, KeptBack, KeptIn

LEMMA SameSurvives ==
  ASSUME NEW old, NEW saved, NEW trouble
  PROVE  SurvivesIn(old, old, saved, trouble)
  BY DEF SurvivesIn, FilesIn, Has

LEMMA KeptSurvives ==
  ASSUME NEW old, NEW dir, NEW saved, NEW trouble, NEW v \in Versions, KeptIn(old, saved[v])
  PROVE  SurvivesIn(old, dir, saved, trouble)
  BY DEF SurvivesIn, KeptIn, FilesIn, Has

-----------------------------------------------------------------------------
(* The apps that the run is not about *)

LEMMA OthersKeep ==
  ASSUME UpgradeInv, state # "Idle",
         \A a \in Apps : a # App =>
           /\ install'[a] = install[a] /\ backup'[a] = backup[a] /\ before'[a] = before[a]
           /\ package'[a] = package[a] /\ records'[a] = records[a] /\ mishap'[a] = mishap[a],
         SurvivesIn(before'[App], install'[App], backup'[App], mishap'[App]),
         records'[App].state = "Committed" /\ "record" \notin mishap'[App] =>
           install'[App] = package'[App]
  PROVE  PreviousInstallSurvives' /\ CommittedIsInstalled'
<1>1. \A a \in Apps : SurvivesIn(before[a], install[a], backup[a], mishap[a])
      BY SurvivesIs DEF UpgradeInv
<1>2. \A a \in Apps : SurvivesIn(before'[a], install'[a], backup'[a], mishap'[a])
  <2> SUFFICES ASSUME NEW a \in Apps
               PROVE  SurvivesIn(before'[a], install'[a], backup'[a], mishap'[a])
      OBVIOUS
  <2>1. CASE a = App
        BY <2>1
  <2>2. CASE a # App
        BY <2>2, <1>1
  <2> QED BY <2>1, <2>2
<1>3. CommittedIsInstalled'
      BY DEF UpgradeInv, CommittedIsInstalled
<1> QED BY <1>2, <1>3, SurvivesIs

(* Between two states of the run nothing is recorded *)
LEMMA PhaseKeeps ==
  ASSUME UpgradeInv, state \in {"Activating", "RollingBack"},
         UNCHANGED <<state, current, records, before, package>>,
         \A a \in Apps : a # App =>
           install'[a] = install[a] /\ backup'[a] = backup[a] /\ mishap'[a] = mishap[a],
         "record" \in mishap'[App] <=> "record" \in mishap[App],
         SurvivesIn(before[App], install'[App], backup'[App], mishap'[App])
  PROVE  RecordsFollow' /\ PreviousInstallSurvives' /\ CommittedIsInstalled'
<1>1. "record" \in mishap[App] \/ records[App].state \in {"Activating", "RollingBack"}
      BY DEF UpgradeInv, RecordsFollow
<1>2. RecordsFollow'
      BY DEF UpgradeInv, RecordsFollow, App
<1>3. records'[App].state = "Committed" /\ "record" \notin mishap'[App] =>
        install'[App] = package'[App]
      BY <1>1
<1> QED BY <1>2, <1>3, OthersKeep

(* A new state is recorded, and the directories stay *)
LEMMA StateKeeps ==
  ASSUME UpgradeInv, state # "Idle", NEW s \in States, s # "Idle", Recorded(s),
         UNCHANGED <<current, left, disk, history>>,
         s = "Committed" => install[App] = package[App]
  PROVE  /\ RecordsFollow' /\ BackupsFailByFaults' /\ PreviousInstallSurvives'
         /\ CommittedIsInstalled'
         /\ phase' \in Phases => Typed'
<1>0. /\ current \in Manifest /\ current # NoManifest /\ App \in Apps /\ Typed
      BY RunningIs DEF UpgradeInv
<1>1. UNCHANGED <<staging, install, backup, before, package>>
      BY DEF disk, history
<1>2. RecordsFollow'
      BY <1>0 DEF Recorded, RecordsFollow, App
<1>3. BackupsFailByFaults'
      BY <1>0 DEF Recorded, BackupsFailByFaults, UpgradeInv, Typed
<1>4. SurvivesIn(before[App], install[App], backup[App], mishap[App])
      BY <1>0, SurvivesIs DEF UpgradeInv
<1>5. SurvivesIn(before'[App], install'[App], backup'[App], mishap'[App])
      BY <1>0, <1>1, <1>4 DEF SurvivesIn, Recorded
<1>6. \A a \in Apps : a # App =>
        /\ install'[a] = install[a] /\ backup'[a] = backup[a] /\ before'[a] = before[a]
        /\ package'[a] = package[a] /\ records'[a] = records[a] /\ mishap'[a] = mishap[a]
      BY <1>1 DEF Recorded
<1>7. records'[App].state = "Committed" /\ "record" \notin mishap'[App] =>
        install'[App] = package'[App]
      BY <1>0, <1>1 DEF Recorded
<1>8. PreviousInstallSurvives' /\ CommittedIsInstalled'
      BY <1>5, <1>6, <1>7, OthersKeep
<1>9. phase' \in Phases => Typed'
      BY <1>0, <1>1 DEF Typed, Recorded
<1> QED BY <1>2, <1>3, <1>8, <1>9

-----------------------------------------------------------------------------
(* The steps that change the state only *)

LEMMA UpgradeAdvances ==
  ASSUME UpgradeInv, Advance
  PROVE  UpgradeInv'
<1>0. /\ state \in {"Received", "Validated", "Downloading", "Verifying", "PreCheck",
                    "ReadyToActivate", "PostCheck"}
      /\ UNCHANGED <<current, left, disk, history>> /\ SetState(Following[state]) /\ Typed /\ RunInv
      BY DEF Advance, Following, UpgradeInv
<1> DEFINE s == Following[state]
<1>1. /\ s \in States /\ s # "Idle"
      /\ s = "Committed" => state = "PostCheck"
      /\ s = "Activating" <=> state = "ReadyToActivate"
      /\ s \in {"Activating", "Validated", "Downloading", "Verifying", "PreCheck", "Staging", "Committed"}
      BY <1>0 DEF Following, States
<1> HIDE DEF s
<1>2. Recorded(s)
      BY <1>0, <1>1, SetStateIs DEF s
<1>3. s = "Committed" => install[App] = package[App]
      BY <1>0, <1>1 DEF RunInv, Activation
<1>4. phase' \in Phases /\ phase' = (IF s = "Activating" THEN "check" ELSE "none")
      BY <1>1 DEF Advance, Phases
<1>5. RecordsFollow' /\ BackupsFailByFaults' /\ PreviousInstallSurvives' /\ CommittedIsInstalled' /\ Typed'
      BY <1>0, <1>1, <1>2, <1>3, <1>4, StateKeeps
<1>6. state' = s
      BY <1>2 DEF Recorded
<1>7. PhasesFit'
      BY <1>1, <1>4, <1>6 DEF PhasesFit
<1>8. UNCHANGED <<staging, install, backup, before, package>>
      BY <1>0 DEF disk, history
<1>9. Untouched' /\ Staged'
  <2>1. s # "Committed" => install[App] = before[App]
        BY <1>0, <1>1 DEF RunInv, Untouched, BeforeActivation, Following, s
  <2>2. s = "Activating" => staging[App] = package[App]
        BY <1>0, <1>1 DEF RunInv, Staged
  <2> QED BY <1>0, <1>1, <1>6, <1>8, <2>1, <2>2 DEF Untouched, Staged, BeforeActivation, Phase, App
<1>10. /\ Copying' /\ Clearing' /\ BackedUpFirst' /\ Activation' /\ CanGoBack' /\ CopyingBack'
       /\ WentBack'
      BY <1>1, <1>4, <1>6 DEF Copying, Clearing, BackedUpFirst, Activation, CanGoBack, CopyingBack,
                              WentBack, Phase
<1> QED BY <1>5, <1>7, <1>9, <1>10 DEF UpgradeInv, RunInv

LEMMA UpgradeRejects ==
  ASSUME UpgradeInv, Reject
  PROVE  UpgradeInv'
<1>0. /\ state \in {"Validated", "Verifying", "Staging"} /\ UNCHANGED <<current, phase, left, disk, history>>
      /\ Recorded("Failed") /\ Typed
      BY SetStateIs DEF Reject, UpgradeInv, States
<1>1. state' = "Failed" /\ phase' = "none" /\ phase' \in Phases
      BY <1>0 DEF UpgradeInv, PhasesFit, Recorded, Phases
<1>2. RecordsFollow' /\ BackupsFailByFaults' /\ PreviousInstallSurvives' /\ CommittedIsInstalled' /\ Typed'
      BY <1>0, <1>1, StateKeeps DEF States
<1>3. PhasesFit' /\ RunInv'
      BY <1>1 DEF PhasesFit, RunInv, Untouched, Staged, Copying, Clearing, BackedUpFirst, Activation,
                  CanGoBack, CopyingBack, WentBack, Phase, BeforeActivation
<1> QED BY <1>2, <1>3 DEF UpgradeInv

LEMMA UpgradeActivated ==
  ASSUME UpgradeInv, Activated
  PROVE  UpgradeInv'
<1>0. /\ state = "Activating" /\ phase = "done" /\ UNCHANGED <<current, left, disk, history>>
      /\ Recorded("PostCheck") /\ Typed /\ phase' = "none" /\ RunInv
      BY SetStateIs DEF Activated, Phase, UpgradeInv, States
<1>1. state' = "PostCheck" /\ phase' \in Phases
      BY <1>0 DEF Recorded, Phases
<1>2. RecordsFollow' /\ BackupsFailByFaults' /\ PreviousInstallSurvives' /\ CommittedIsInstalled' /\ Typed'
      BY <1>0, <1>1, StateKeeps DEF States
<1>3. UNCHANGED <<staging, install, backup, before, package>>
      BY <1>0 DEF disk, history
<1>4. PhasesFit' /\ RunInv'
      BY <1>0, <1>1, <1>3 DEF PhasesFit, RunInv, Untouched, Staged, Copying, Clearing, BackedUpFirst,
           Activation, CanGoBack, CopyingBack, WentBack, Phase, BeforeActivation, KeptBack, Saved, App
<1> QED BY <1>2, <1>4 DEF UpgradeInv

LEMMA UpgradeRollsBack ==
  ASSUME UpgradeInv, RollBack
  PROVE  UpgradeInv'
<1>0. /\ (state = "Activating" /\ phase = "failed") \/ state = "PostCheck"
      /\ UNCHANGED <<current, left, disk, history>>
      /\ Recorded("RollingBack") /\ Typed /\ phase' = "check" /\ RunInv
      BY SetStateIs DEF RollBack, Phase, UpgradeInv, States
<1>1. state' = "RollingBack" /\ phase' \in Phases
      BY <1>0 DEF Recorded, Phases
<1>2. RecordsFollow' /\ BackupsFailByFaults' /\ PreviousInstallSurvives' /\ CommittedIsInstalled' /\ Typed'
      BY <1>0, <1>1, StateKeeps DEF States
<1>3. UNCHANGED <<staging, install, backup, before, package>>
      BY <1>0 DEF disk, history
<1>4. App \in Apps /\ (KeptBack \/ "backup" \in mishap[App])
      BY <1>0, RunningIs DEF RunInv, CanGoBack, BackedUpFirst, Phase
<1>5. CanGoBack'
      BY <1>0, <1>3, <1>4 DEF CanGoBack, Recorded, KeptBack, Saved, App
<1>6. PhasesFit' /\ RunInv'
      BY <1>0, <1>1, <1>3, <1>5 DEF PhasesFit, RunInv, Untouched, Staged, Copying, Clearing, BackedUpFirst,
           Activation, CopyingBack, WentBack, Phase, BeforeActivation
<1> QED BY <1>2, <1>6 DEF UpgradeInv

LEMMA UpgradeRolledBack ==
  ASSUME UpgradeInv, RolledBack
  PROVE  UpgradeInv'
<1>0. /\ state = "RollingBack" /\ phase = "done" /\ UNCHANGED <<current, left, disk, history>>
      /\ Recorded("RolledBack") /\ Typed /\ phase' = "none" /\ RunInv
      BY SetStateIs DEF RolledBack, Phase, UpgradeInv, States
<1>1. state' = "RolledBack" /\ phase' \in Phases /\ (faults' = 0 => faults = 0)
      BY <1>0 DEF Recorded, Phases, Typed
<1>2. RecordsFollow' /\ BackupsFailByFaults' /\ PreviousInstallSurvives' /\ CommittedIsInstalled' /\ Typed'
      BY <1>0, <1>1, StateKeeps DEF States
<1>3. UNCHANGED <<staging, install, backup, before, package>>
      BY <1>0 DEF disk, history
<1>4. WentBack'
      BY <1>0, <1>1, <1>3 DEF RunInv, WentBack, Phase, KeptBack, Saved, App
<1>5. PhasesFit' /\ RunInv'
      BY <1>0, <1>1, <1>4 DEF PhasesFit, RunInv, Untouched, Staged, Copying, Clearing, BackedUpFirst,
           Activation, CanGoBack, CopyingBack, Phase, BeforeActivation
<1> QED BY <1>2, <1>5 DEF UpgradeInv

-----------------------------------------------------------------------------
(* Activation                                                               *)

LEMMA UpgradeStages ==
  ASSUME UpgradeInv, Stage
  PROVE  UpgradeInv'
<1>0. /\ state = "Staging" /\ UNCHANGED <<current, phase, left, install, backup, before>>
      /\ Recorded("ReadyToActivate") /\ Typed /\ RunInv /\ phase = "none"
      BY SetStateIs DEF Stage, UpgradeInv, States, PhasesFit
<1>1. App \in Apps /\ staging[App] \in Dir /\ current # NoManifest
      BY <1>0, RunningIs
<1> DEFINE d == Create(staging[App])
<1>2. d \in Dir
      BY <1>1, DirsAre
<1>3. staging' = [staging EXCEPT ![App] = d] /\ package' = [package EXCEPT ![App] = d]
      BY DEF Stage
<1> HIDE DEF d
<1>4. /\ staging' \in [Apps -> Dir] /\ package' \in [Apps -> Dir]
      /\ staging'[App] = d /\ package'[App] = d
      /\ \A a \in Apps : a # App => package'[a] = package[a]
      BY <1>0, <1>1, <1>2, <1>3 DEF Typed
<1>5. state' = "ReadyToActivate" /\ current' = current /\ App' = App
      BY <1>0 DEF Recorded, App
<1>6. Typed'
      BY <1>0, <1>4, <1>5 DEF Typed, Recorded, States
<1>7. RecordsFollow' /\ BackupsFailByFaults'
      BY <1>0, <1>1, <1>5 DEF Recorded, RecordsFollow, BackupsFailByFaults, UpgradeInv, Typed
<1>8. PhasesFit'
      BY <1>0, <1>5 DEF PhasesFit
<1>9. install[App] = before[App]
      BY <1>0 DEF RunInv, Untouched, BeforeActivation
<1>10. Untouched' /\ Staged'
      BY <1>0, <1>4, <1>5, <1>9 DEF Untouched, Staged
<1>11. /\ Copying' /\ Clearing' /\ BackedUpFirst' /\ Activation' /\ CanGoBack' /\ CopyingBack'
       /\ WentBack'
      BY <1>0, <1>5 DEF Copying, Clearing, BackedUpFirst, Activation, CanGoBack, CopyingBack,
                        WentBack, Phase
<1>12. SurvivesIn(before'[App], install'[App], backup'[App], mishap'[App])
      BY <1>0, <1>9, SameSurvives
<1>13. PreviousInstallSurvives' /\ CommittedIsInstalled'
  <2>1. "record" \in mishap'[App] \/ records'[App].state = "ReadyToActivate"
        BY <1>0, <1>1 DEF Recorded
  <2>2. records'[App].state = "Committed" /\ "record" \notin mishap'[App] =>
          install'[App] = package'[App]
        BY <2>1
  <2>3. \A a \in Apps : a # App =>
          /\ install'[a] = install[a] /\ backup'[a] = backup[a] /\ before'[a] = before[a]
          /\ package'[a] = package[a] /\ records'[a] = records[a] /\ mishap'[a] = mishap[a]
        BY <1>0, <1>4 DEF Recorded
  <2> QED BY <1>0, <1>12, <2>2, <2>3, OthersKeep
<1> QED BY <1>6, <1>7, <1>8, <1>10, <1>11, <1>13 DEF UpgradeInv, RunInv

LEMMA UpgradeStartsBackup ==
  ASSUME UpgradeInv, StartBackup
  PROVE  UpgradeInv'
<1>0. /\ state = "Activating" /\ phase = "check" /\ Typed /\ RunInv
      /\ UNCHANGED <<state, current, staging, install, records, before, package, faults>>
      BY DEF StartBackup, Phase, UpgradeInv, history, bounds
<1>1. /\ App \in Apps /\ current.from \in Versions /\ Saved \in Dir /\ install[App] \in Dir /\ App' = App
      /\ state # "Idle"
      BY <1>0, RunningIs DEF App
<1>2. install[App] = before[App] /\ staging[App] = package[App]
      BY <1>0 DEF RunInv, Untouched, Staged, BeforeActivation, Phase
<1>3. /\ mishap' \in [Apps -> SUBSET {"backup", "record"}]
      /\ mishap'[App] = mishap[App] \ {"backup"}
      /\ \A a \in Apps : a # App => mishap'[a] = mishap[a]
  <2>1. mishap' = [mishap EXCEPT ![App] = @ \ {"backup"}] /\ mishap \in [Apps -> SUBSET {"backup", "record"}]
        BY <1>0 DEF StartBackup, Typed
  <2> QED BY <2>1, <1>1
<1>4. BackupsFailByFaults'
      BY <1>0, <1>3 DEF BackupsFailByFaults, UpgradeInv
<1>5. ASSUME backup' \in [Apps -> [Versions -> Dir]], \A a \in Apps : a # App => backup'[a] = backup[a]
      PROVE  RecordsFollow' /\ PreviousInstallSurvives' /\ CommittedIsInstalled'
  <2>1. SurvivesIn(before[App], install'[App], backup'[App], mishap'[App])
        BY <1>0, <1>2, SameSurvives
  <2> QED BY <1>0, <1>3, <1>5, <2>1, PhaseKeeps
<1>6. CASE install[App] = NoDir
  <2>1. phase' = "move" /\ left' = left /\ backup' = backup
        BY <1>6 DEF StartBackup
  <2>2. Typed' /\ PhasesFit'
        BY <1>0, <1>3, <2>1 DEF Typed, PhasesFit, Phases
  <2>3. RunInv'
        BY <1>0, <1>1, <1>2, <1>6, <2>1 DEF KeptBack, RunInv, Untouched, Staged, Copying, Clearing, BackedUpFirst, Activation,
                  CanGoBack, CopyingBack, WentBack, Phase, BeforeActivation
  <2> QED BY <1>0, <1>4, <1>5, <2>1, <2>2, <2>3 DEF UpgradeInv, Typed
<1>7. CASE install[App] # NoDir
  <2> DEFINE d == Create(Saved)
  <2>1. phase' = "copy" /\ left' = FilesIn(install[App]) /\ SetSaved(d)
        BY <1>7 DEF StartBackup
  <2>2. d \in Dir /\ d # NoDir /\ left' \subseteq Files
        BY <1>1, <2>1, DirsAre
  <2> HIDE DEF d
  <2>3. /\ backup' \in [Apps -> [Versions -> Dir]] /\ backup'[App][current.from] = d
        /\ \A a \in Apps : a # App => backup'[a] = backup[a]
        BY <1>0, <1>1, <2>1, <2>2, SetSavedIs
  <2>4. Typed' /\ PhasesFit'
        BY <1>0, <1>3, <2>1, <2>2, <2>3 DEF Typed, PhasesFit, Phases
  <2>5. \A f \in Files \ left' : before[App][f] = NoFile
        BY <1>2, <1>7, <2>1 DEF FilesIn
  <2>6. Saved' = d
        BY <1>0, <1>1, <2>3 DEF Saved
  <2>7. Copying'
        BY <1>0, <1>1, <1>2, <1>7, <2>2, <2>5, <2>6 DEF Copying
  <2>8. RunInv'
        BY <1>0, <1>1, <1>2, <2>1, <2>7 DEF RunInv, Untouched, Staged, Copying, Clearing, BackedUpFirst, Activation,
                  CanGoBack, CopyingBack, WentBack, Phase, BeforeActivation
  <2> QED BY <1>4, <1>5, <2>3, <2>4, <2>8 DEF UpgradeInv
<1> QED BY <1>6, <1>7

LEMMA UpgradeBacksUpFile ==
  ASSUME UpgradeInv, NEW f \in Files, BackUpFile(f)
  PROVE  UpgradeInv'
<1>0. /\ state = "Activating" /\ phase = "copy" /\ f \in left /\ left' = left \ {f} /\ Typed /\ RunInv
      /\ UNCHANGED <<state, current, phase, staging, install, records, before, package, mishap, faults>>
      BY DEF BackUpFile, Phase, UpgradeInv, history, bounds
<1>1. /\ App \in Apps /\ current.from \in Versions /\ Saved \in Dir /\ install[App] \in Dir /\ App' = App
      /\ state # "Idle"
      BY <1>0, RunningIs DEF App
<1>2. /\ staging[App] = package[App] /\ install[App] = before[App] /\ before[App] # NoDir /\ Saved # NoDir
      /\ \A g \in Files \ left : before[App][g] # NoFile => Saved[g] = before[App][g]
      BY <1>0 DEF RunInv, Staged, Copying, Phase
<1>3. Saved \in Content /\ before[App] \in Content /\ before[App][f] \in Builds \cup {NoFile}
      BY <1>1, <1>2 DEF Dir, Content
<1> DEFINE d == [Saved EXCEPT ![f] = before[App][f]]
<1>4. SetSaved(d)
      BY <1>2 DEF BackUpFile
<1>5. /\ d \in Content /\ d # NoDir /\ d[f] = before[App][f]
      /\ \A g \in Files : g # f => d[g] = Saved[g]
      BY <1>3, FileSet
<1> HIDE DEF d
<1>6. /\ backup' \in [Apps -> [Versions -> Dir]] /\ backup'[App][current.from] = d
      /\ \A a \in Apps : a # App => backup'[a] = backup[a]
      BY <1>0, <1>1, <1>4, <1>5, SetSavedIs, DirsAre
<1>7. Saved' = d
      BY <1>0, <1>1, <1>6 DEF Saved
<1>8. Typed' /\ PhasesFit' /\ BackupsFailByFaults'
      BY <1>0, <1>6 DEF Typed, PhasesFit, BackupsFailByFaults, UpgradeInv
<1>9. \A g \in Files \ left' : before[App][g] # NoFile => d[g] = before[App][g]
      BY <1>0, <1>2, <1>5
<1>10. Copying'
      BY <1>0, <1>1, <1>2, <1>5, <1>7, <1>9 DEF Copying
<1>11. RunInv'
      BY <1>0, <1>1, <1>2, <1>10 DEF RunInv, Untouched, Staged, Copying, Clearing, BackedUpFirst, Activation,
                  CanGoBack, CopyingBack, WentBack, Phase, BeforeActivation
<1>12. SurvivesIn(before[App], install'[App], backup'[App], mishap'[App])
      BY <1>0, <1>2, SameSurvives
<1>13. RecordsFollow' /\ PreviousInstallSurvives' /\ CommittedIsInstalled'
      BY <1>0, <1>6, <1>12, PhaseKeeps
<1> QED BY <1>8, <1>11, <1>13 DEF UpgradeInv

(* A step that leaves the backup as it is, when all is in it or its copy    *)
(* has failed                                                               *)
LEMMA KeptKeeps ==
  ASSUME UpgradeInv, state \in {"Activating", "RollingBack"}, KeptBack \/ "backup" \in mishap[App],
         UNCHANGED <<state, current, records, before, package, backup, mishap>>,
         \A a \in Apps : a # App => install'[a] = install[a]
  PROVE  RecordsFollow' /\ PreviousInstallSurvives' /\ CommittedIsInstalled'
<1>1. Typed /\ current.from \in Versions
      BY RunningIs DEF UpgradeInv
<1>2. SurvivesIn(before[App], install'[App], backup[App], mishap[App])
  <2>1. CASE KeptBack
        BY <1>1, <2>1, SurvivesIs, KeptSurvives DEF Saved
  <2>2. CASE "backup" \in mishap[App]
        BY <2>2 DEF SurvivesIn
  <2> QED BY <2>1, <2>2
<1> QED BY <1>2, PhaseKeeps

LEMMA UpgradeBackedUp ==
  ASSUME UpgradeInv, BackedUp
  PROVE  UpgradeInv'
<1>0. /\ state = "Activating" /\ phase = "copy" /\ left = {} /\ phase' = "clear" /\ Typed /\ RunInv
      /\ left' = FilesIn(install[App])
      /\ UNCHANGED <<state, current, staging, install, backup, records, before, package, mishap, faults>>
      BY DEF BackedUp, Phase, UpgradeInv, history, bounds, disk
<1>1. App \in Apps /\ install[App] \in Dir /\ App' = App
      BY <1>0, RunningIs DEF App
<1>2. KeptBack /\ install[App] # NoDir /\ staging[App] = package[App]
      BY <1>0 DEF RunInv, Copying, Staged, Phase, KeptBack
<1>3. Typed' /\ PhasesFit' /\ BackupsFailByFaults'
      BY <1>0, <1>1, DirsAre DEF Typed, PhasesFit, BackupsFailByFaults, UpgradeInv, Phases
<1>4. KeptBack'
      BY <1>0, <1>1, <1>2 DEF KeptBack, Saved
<1>5. RunInv'
      BY <1>0, <1>1, <1>2, <1>4 DEF RunInv, Untouched, Staged, Copying, Clearing, BackedUpFirst, Activation,
                  CanGoBack, CopyingBack, WentBack, Phase, BeforeActivation
<1> QED BY <1>0, <1>2, <1>3, <1>5, KeptKeeps DEF UpgradeInv

LEMMA UpgradeRemovesFile ==
  ASSUME UpgradeInv, NEW f \in Files, RemoveFile(f)
  PROVE  UpgradeInv'
<1>0. /\ state \in {"Activating", "RollingBack"} /\ phase = "clear" /\ left' = left \ {f} /\ Typed /\ RunInv
      /\ UNCHANGED <<state, current, phase, staging, backup, records, before, package, mishap, faults>>
      BY DEF RemoveFile, UpgradeInv, PhasesFit, history, bounds
<1>1. App \in Apps /\ install[App] \in Dir /\ App' = App /\ state # "Idle" /\ install[App] # NoDir
      BY <1>0, RunningIs DEF App, RunInv, Clearing
<1>2. install[App] \in Content
      BY <1>1 DEF Dir
<1> DEFINE d == [install[App] EXCEPT ![f] = NoFile]
<1>3. d \in Dir /\ d # NoDir
  <2>1. d \in Content /\ d # NoDir
        BY <1>2, FileSet
  <2> QED BY <2>1 DEF Dir
<1>4. SetInstall(d)
      BY DEF RemoveFile
<1> HIDE DEF d
<1>5. /\ install' \in [Apps -> Dir] /\ install'[App] = d
      /\ \A a \in Apps : a # App => install'[a] = install[a]
      BY <1>0, <1>1, <1>3, <1>4, SetInstallIs
<1>6. Typed' /\ PhasesFit' /\ BackupsFailByFaults'
      BY <1>0, <1>5 DEF Typed, PhasesFit, BackupsFailByFaults, UpgradeInv
<1>7. /\ state = "Activating" => KeptBack /\ staging[App] = package[App]
      /\ KeptBack \/ "backup" \in mishap[App]
      BY <1>0 DEF RunInv, BackedUpFirst, Staged, CanGoBack
<1>8. KeptBack' <=> KeptBack
      BY <1>0, <1>1 DEF KeptBack, Saved
<1>9. RunInv'
      BY <1>0, <1>1, <1>3, <1>5, <1>7, <1>8 DEF RunInv, Untouched, Staged, Copying, Clearing, BackedUpFirst, Activation,
                  CanGoBack, CopyingBack, WentBack, Phase, BeforeActivation
<1> QED BY <1>0, <1>5, <1>6, <1>7, <1>9, KeptKeeps DEF UpgradeInv

LEMMA UpgradeRemoved ==
  ASSUME UpgradeInv, Removed
  PROVE  UpgradeInv'
<1>0. /\ state \in {"Activating", "RollingBack"} /\ phase = "clear" /\ left' = left /\ Typed /\ RunInv
      /\ phase' = (IF state = "Activating" THEN "move" ELSE "check") /\ SetInstall(NoDir)
      /\ UNCHANGED <<state, current, staging, backup, records, before, package, mishap, faults>>
      BY DEF Removed, UpgradeInv, PhasesFit, history, bounds
<1>1. App \in Apps /\ App' = App /\ state # "Idle"
      BY <1>0, RunningIs DEF App
<1>2. /\ install' \in [Apps -> Dir] /\ install'[App] = NoDir
      /\ \A a \in Apps : a # App => install'[a] = install[a]
      BY <1>0, <1>1, SetInstallIs, DirsAre
<1>3. Typed' /\ PhasesFit' /\ BackupsFailByFaults'
      BY <1>0, <1>2 DEF Typed, PhasesFit, BackupsFailByFaults, UpgradeInv, Phases
<1>4. /\ state = "Activating" => KeptBack /\ staging[App] = package[App]
      /\ KeptBack \/ "backup" \in mishap[App]
      BY <1>0 DEF RunInv, BackedUpFirst, Staged, CanGoBack
<1>5. KeptBack' <=> KeptBack
      BY <1>0, <1>1 DEF KeptBack, Saved
<1>6. RunInv'
      BY <1>0, <1>1, <1>2, <1>4, <1>5 DEF RunInv, Untouched, Staged, Copying, Clearing, BackedUpFirst, Activation,
                  CanGoBack, CopyingBack, WentBack, Phase, BeforeActivation
<1> QED BY <1>0, <1>2, <1>3, <1>4, <1>6, KeptKeeps DEF UpgradeInv

LEMMA UpgradeMoves ==
  ASSUME UpgradeInv, Move
  PROVE  UpgradeInv'
<1>0. /\ state = "Activating" /\ phase = "move" /\ phase' = "done" /\ left' = left /\ Typed /\ RunInv
      /\ SetInstall(staging[App]) /\ staging' = [staging EXCEPT ![App] = NoDir]
      /\ UNCHANGED <<state, current, backup, records, before, package, mishap, faults>>
      BY DEF Move, Phase, UpgradeInv, history, bounds
<1>1. App \in Apps /\ App' = App /\ state # "Idle" /\ staging[App] \in Dir
      BY <1>0, RunningIs DEF App
<1>2. /\ install' \in [Apps -> Dir] /\ install'[App] = staging[App]
      /\ \A a \in Apps : a # App => install'[a] = install[a]
      BY <1>0, <1>1, SetInstallIs
<1>3. staging' \in [Apps -> Dir]
      BY <1>0, DirsAre DEF Typed
<1>4. Typed' /\ PhasesFit' /\ BackupsFailByFaults'
      BY <1>0, <1>2, <1>3 DEF Typed, PhasesFit, BackupsFailByFaults, UpgradeInv, Phases
<1>5. KeptBack /\ staging[App] = package[App]
      BY <1>0 DEF RunInv, BackedUpFirst, Staged
<1>6. KeptBack'
      BY <1>0, <1>1, <1>5 DEF KeptBack, Saved
<1>7. RunInv'
      BY <1>0, <1>1, <1>2, <1>5, <1>6 DEF RunInv, Untouched, Staged, Copying, Clearing, BackedUpFirst, Activation,
                  CanGoBack, CopyingBack, WentBack, Phase, BeforeActivation
<1> QED BY <1>0, <1>2, <1>4, <1>5, <1>7, KeptKeeps DEF UpgradeInv

LEMMA UpgradeFails ==
  ASSUME UpgradeInv, FailStep
  PROVE  UpgradeInv'
<1>0. /\ state \in {"Activating", "RollingBack"} /\ phase \in {"check", "copy", "clear", "move"}
      /\ phase' = (IF state = "Activating" THEN "failed" ELSE "done") /\ Typed /\ RunInv
      /\ faults' = faults + 1 /\ faults \in Nat
      /\ UNCHANGED <<state, current, left, staging, install, backup, records, before, package>>
      BY DEF FailStep, Fault, UpgradeInv, PhasesFit, Typed, history, disk
<1>1. App \in Apps /\ App' = App /\ state # "Idle"
      BY <1>0, RunningIs DEF App
<1>2. /\ mishap' \in [Apps -> SUBSET {"backup", "record"}]
      /\ mishap'[App] = (IF state = "Activating" /\ phase \in {"check", "copy"}
                           THEN mishap[App] \cup {"backup"} ELSE mishap[App])
      /\ \A a \in Apps : a # App => mishap'[a] = mishap[a]
  <2>1. mishap \in [Apps -> SUBSET {"backup", "record"}]
        BY <1>0 DEF Typed
  <2> QED BY <1>1, <2>1 DEF FailStep
<1>3. Typed' /\ PhasesFit' /\ BackupsFailByFaults'
      BY <1>0, <1>2 DEF Typed, PhasesFit, BackupsFailByFaults, Phases
<1>4. KeptBack \/ "backup" \in mishap'[App]
      BY <1>0, <1>2 DEF RunInv, BackedUpFirst, CanGoBack
<1>5. KeptBack' <=> KeptBack
      BY <1>0, <1>1 DEF KeptBack, Saved
<1>6. RunInv'
      BY <1>0, <1>1, <1>4, <1>5 DEF RunInv, Untouched, Staged, Copying, Clearing, BackedUpFirst, Activation,
                  CanGoBack, CopyingBack, WentBack, Phase, BeforeActivation
<1>7. SurvivesIn(before[App], install'[App], backup'[App], mishap'[App])
  <2>1. SurvivesIn(before[App], install[App], backup[App], mishap[App])
        BY <1>1, SurvivesIs DEF UpgradeInv
  <2> QED BY <1>0, <1>2, <2>1 DEF SurvivesIn
<1>8. RecordsFollow' /\ PreviousInstallSurvives' /\ CommittedIsInstalled'
      BY <1>0, <1>2, <1>7, PhaseKeeps
<1> QED BY <1>3, <1>6, <1>8 DEF UpgradeInv

-----------------------------------------------------------------------------
(* Rollback *)

(* Without errors there is a backup to go back to *)
LEMMA RollbackHasBackup ==
  ASSUME UpgradeInv, state = "RollingBack"
  PROVE  /\ App \in Apps /\ Typed /\ RunInv
         /\ KeptBack \/ "backup" \in mishap[App]
         /\ faults = 0 => KeptBack
<1>1. App \in Apps /\ Typed
      BY RunningIs DEF UpgradeInv
<1> QED BY <1>1 DEF UpgradeInv, RunInv, CanGoBack, BackupsFailByFaults, App, Typed

LEMMA UpgradeStartsRestore ==
  ASSUME UpgradeInv, StartRestore
  PROVE  UpgradeInv'
<1>0. /\ state = "RollingBack" /\ phase = "check"
      /\ UNCHANGED <<state, current, staging, backup, records, before, package, mishap, faults>>
      BY DEF StartRestore, Phase, history, bounds
<1>1. /\ App \in Apps /\ App' = App /\ Typed /\ RunInv /\ state # "Idle"
      /\ KeptBack \/ "backup" \in mishap[App]
      /\ faults = 0 => KeptBack
      /\ Saved \in Dir /\ install[App] \in Dir
      BY <1>0, RollbackHasBackup, RunningIs DEF App
<1>2. KeptBack' <=> KeptBack
      BY <1>0, <1>1 DEF KeptBack, Saved
<1>3. Saved' = Saved
      BY <1>0, <1>1 DEF Saved
<1>4. ASSUME install' \in [Apps -> Dir], \A a \in Apps : a # App => install'[a] = install[a],
             phase' \in {"done", "clear", "copy"}, left' \subseteq Files, RunInv'
      PROVE  UpgradeInv'
  <2>1. Typed' /\ PhasesFit' /\ BackupsFailByFaults'
        BY <1>0, <1>1, <1>4 DEF Typed, PhasesFit, BackupsFailByFaults, UpgradeInv, Phases
  <2> QED BY <1>0, <1>1, <1>4, <2>1, KeptKeeps DEF UpgradeInv
<1>5. CASE Saved = NoDir
  <2>1. phase' = "done" /\ UNCHANGED <<install, left>>
        BY <1>5 DEF StartRestore
  <2>2. faults = 0 => before[App] = NoDir
        BY <1>1, <1>5 DEF KeptBack
  <2>3. RunInv'
        BY <1>0, <1>1, <1>2, <2>1, <2>2 DEF RunInv, Untouched, Staged, Copying, Clearing, BackedUpFirst, Activation,
                  CanGoBack, CopyingBack, WentBack, Phase, BeforeActivation
  <2> QED BY <1>1, <1>4, <2>1, <2>3 DEF Typed
<1>6. CASE Saved # NoDir /\ install[App] # NoDir
  <2>1. phase' = "clear" /\ left' = FilesIn(install[App]) /\ UNCHANGED install
        BY <1>6 DEF StartRestore
  <2>2. RunInv'
        BY <1>0, <1>1, <1>2, <1>6, <2>1 DEF RunInv, Untouched, Staged, Copying, Clearing, BackedUpFirst, Activation,
                  CanGoBack, CopyingBack, WentBack, Phase, BeforeActivation
  <2>3. left' \subseteq Files
        BY <1>1, <2>1, DirsAre
  <2> QED BY <1>1, <1>4, <2>1, <2>2, <2>3 DEF Typed
<1>7. CASE Saved # NoDir /\ install[App] = NoDir
  <2>1. phase' = "copy" /\ left' = FilesIn(Saved) /\ SetInstall(Empty)
        BY <1>7 DEF StartRestore
  <2>2. /\ install' \in [Apps -> Dir] /\ install'[App] = Empty
        /\ \A a \in Apps : a # App => install'[a] = install[a]
        BY <1>1, <2>1, SetInstallIs, DirsAre
  <2>3. left' \subseteq Files /\ \A f \in Files \ left' : Empty[f] = Saved[f]
        BY <1>1, <1>7, <2>1, DirsAre DEF FilesIn, Empty
  <2>4. CopyingBack'
        BY <1>1, <1>3, <1>7, <2>2, <2>3, DirsAre DEF CopyingBack
  <2>5. RunInv'
        BY <1>0, <1>1, <1>2, <2>1, <2>4 DEF RunInv, Untouched, Staged, Copying, Clearing, BackedUpFirst, Activation,
                  CanGoBack, CopyingBack, WentBack, Phase, BeforeActivation
  <2> QED BY <1>4, <2>1, <2>2, <2>3, <2>5
<1> QED BY <1>5, <1>6, <1>7

LEMMA UpgradeRestoresFile ==
  ASSUME UpgradeInv, NEW f \in Files, RestoreFile(f)
  PROVE  UpgradeInv'
<1>0. /\ state = "RollingBack" /\ phase = "copy" /\ f \in left /\ left' = left \ {f}
      /\ UNCHANGED <<state, current, phase, staging, backup, records, before, package, mishap, faults>>
      BY DEF RestoreFile, Phase, history, bounds
<1>1. /\ App \in Apps /\ App' = App /\ Typed /\ RunInv /\ state # "Idle"
      /\ KeptBack \/ "backup" \in mishap[App]
      /\ Saved \in Dir /\ install[App] \in Dir
      BY <1>0, RollbackHasBackup, RunningIs DEF App
<1>2. /\ Saved # NoDir /\ install[App] # NoDir
      /\ \A g \in Files \ left : install[App][g] = Saved[g]
      BY <1>0, <1>1 DEF RunInv, CopyingBack, Phase
<1>3. install[App] \in Content /\ Saved \in Content /\ Saved[f] \in Builds \cup {NoFile}
      BY <1>1, <1>2 DEF Dir, Content
<1> DEFINE d == [install[App] EXCEPT ![f] = Saved[f]]
<1>4. SetInstall(d)
      BY DEF RestoreFile
<1>5. /\ d \in Dir /\ d # NoDir /\ d[f] = Saved[f]
      /\ \A g \in Files : g # f => d[g] = install[App][g]
  <2>1. d \in Content /\ d # NoDir /\ d[f] = Saved[f]
        BY <1>3, FileSet
  <2>2. \A g \in Files : g # f => d[g] = install[App][g]
        BY <1>3, FileSet
  <2> QED BY <2>1, <2>2 DEF Dir
<1> HIDE DEF d
<1>6. /\ install' \in [Apps -> Dir] /\ install'[App] = d
      /\ \A a \in Apps : a # App => install'[a] = install[a]
      BY <1>1, <1>4, <1>5, SetInstallIs
<1>7. Typed' /\ PhasesFit' /\ BackupsFailByFaults'
      BY <1>0, <1>1, <1>6 DEF Typed, PhasesFit, BackupsFailByFaults, UpgradeInv
<1>8. (KeptBack' <=> KeptBack) /\ Saved' = Saved
      BY <1>0, <1>1 DEF KeptBack, Saved
<1>9. \A g \in Files \ left' : d[g] = Saved[g]
      BY <1>0, <1>2, <1>5
<1>10. CopyingBack'
      BY <1>1, <1>2, <1>5, <1>6, <1>8, <1>9 DEF CopyingBack
<1>11. RunInv'
      BY <1>0, <1>1, <1>8, <1>10 DEF RunInv, Untouched, Staged, Copying, Clearing, BackedUpFirst, Activation,
                  CanGoBack, CopyingBack, WentBack, Phase, BeforeActivation
<1> QED BY <1>0, <1>1, <1>6, <1>7, <1>11, KeptKeeps DEF UpgradeInv

LEMMA UpgradeRestored ==
  ASSUME UpgradeInv, Restored
  PROVE  UpgradeInv'
<1>0. /\ state = "RollingBack" /\ phase = "copy" /\ left = {} /\ phase' = "done"
      /\ UNCHANGED <<state, current, left, staging, install, backup, records, before, package, mishap, faults>>
      BY DEF Restored, Phase, history, bounds, disk
<1>1. /\ App \in Apps /\ App' = App /\ Typed /\ RunInv
      /\ KeptBack \/ "backup" \in mishap[App]
      /\ faults = 0 => KeptBack
      BY <1>0, RollbackHasBackup DEF App
<1>2. install[App] # NoDir /\ \A g \in Files : install[App][g] = Saved[g]
      BY <1>0, <1>1 DEF RunInv, CopyingBack, Phase
<1>3. Typed' /\ PhasesFit' /\ BackupsFailByFaults'
      BY <1>0, <1>1 DEF Typed, PhasesFit, BackupsFailByFaults, UpgradeInv, Phases
<1>4. (KeptBack' <=> KeptBack) /\ Saved' = Saved
      BY <1>0, <1>1 DEF KeptBack, Saved
<1>5. WentBack'
      BY <1>0, <1>1, <1>2, <1>4 DEF WentBack
<1>6. RunInv'
      BY <1>0, <1>1, <1>4, <1>5 DEF RunInv, Untouched, Staged, Copying, Clearing, BackedUpFirst, Activation,
                  CanGoBack, CopyingBack, WentBack, Phase, BeforeActivation
<1> QED BY <1>0, <1>1, <1>3, <1>6, KeptKeeps DEF UpgradeInv

-----------------------------------------------------------------------------
(* Between runs *)

LEMMA UpgradeReceives ==
  ASSUME UpgradeInv, NEW m \in Manifest, Receive(m)
  PROVE  UpgradeInv'
<1>0. /\ AtRest /\ Recorded("Received") /\ current' = m /\ Typed
      /\ before' = [before EXCEPT ![m.app] = install[m.app]]
      /\ UNCHANGED <<phase, left, staging, install, backup, package>>
      BY SetStateIs DEF Receive, UpgradeInv, States, disk
<1>1. m.app \in Apps
      BY DEF Manifest
<1>2. /\ before' \in [Apps -> Dir] /\ before'[m.app] = install[m.app]
      /\ \A a \in Apps : a # m.app => before'[a] = before[a]
      BY <1>0, <1>1 DEF Typed
<1>3. phase = "none" /\ state' = "Received" /\ App' = m.app
      BY <1>0 DEF AtRest, UpgradeInv, PhasesFit, Recorded, App
<1>4. Typed' /\ PhasesFit' /\ RecordsFollow'
      BY <1>0, <1>2, <1>3 DEF Typed, Recorded, PhasesFit, RecordsFollow, States
<1>5. BackupsFailByFaults'
      BY <1>0 DEF BackupsFailByFaults, UpgradeInv, Recorded, Typed
<1>6. RunInv'
      BY <1>0, <1>2, <1>3 DEF RunInv, Untouched, Staged, Copying, Clearing, BackedUpFirst, Activation,
                  CanGoBack, CopyingBack, WentBack, Phase, BeforeActivation
<1>7. PreviousInstallSurvives'
  <2> SUFFICES ASSUME NEW a \in Apps
               PROVE  SurvivesIn(before'[a], install'[a], backup'[a], mishap'[a])
      BY SurvivesIs
  <2>1. CASE a = m.app
        BY <2>1, <1>0, <1>2, SameSurvives
  <2>2. CASE a # m.app
    <3>1. SurvivesIn(before[a], install[a], backup[a], mishap[a])
          BY SurvivesIs DEF UpgradeInv
    <3> QED BY <2>2, <3>1, <1>0, <1>2 DEF Recorded, SurvivesIn
  <2> QED BY <2>1, <2>2
<1>8. CommittedIsInstalled'
  <2> SUFFICES ASSUME NEW a \in Apps, records'[a].state = "Committed", "record" \notin mishap'[a]
               PROVE  install'[a] = package'[a]
      BY DEF CommittedIsInstalled
  <2>1. records'[a] = records[a] /\ mishap'[a] = mishap[a]
        BY <1>0 DEF Recorded
  <2> QED BY <2>1, <1>0 DEF UpgradeInv, CommittedIsInstalled
<1> QED BY <1>4, <1>5, <1>6, <1>7, <1>8 DEF UpgradeInv

LEMMA UpgradeDelivers ==
  ASSUME UpgradeInv, NEW a \in Apps, NEW dir \in Packages, Deliver(a, dir)
  PROVE  UpgradeInv'
<1>0. /\ AtRest /\ staging' = [staging EXCEPT ![a] = dir]
      /\ UNCHANGED <<state, current, phase, left, install, backup, records, before, package, mishap, faults>>
      BY DEF Deliver, history, bounds
<1>1. staging' \in [Apps -> Dir]
      BY <1>0, BoundsAre, DirsAre DEF UpgradeInv, Typed
<1>2. Typed' /\ PhasesFit' /\ BackupsFailByFaults' /\ PreviousInstallSurvives' /\ CommittedIsInstalled'
      BY <1>0, <1>1 DEF UpgradeInv, Typed, PhasesFit, BackupsFailByFaults, PreviousInstallSurvives,
                        CommittedIsInstalled
<1>3. RecordsFollow'
      BY <1>0 DEF UpgradeInv, RecordsFollow, App
<1>4. (KeptBack' <=> KeptBack) /\ Saved' = Saved /\ App' = App
      BY <1>0 DEF KeptBack, Saved, App
<1>5. RunInv'
      BY <1>0, <1>4 DEF UpgradeInv, AtRest, RunInv, Untouched, Staged, Copying, Clearing, BackedUpFirst, Activation,
                  CanGoBack, CopyingBack, WentBack, Phase, BeforeActivation
<1> QED BY <1>2, <1>3, <1>5 DEF UpgradeInv

LEMMA UpgradeCrashes ==
  ASSUME UpgradeInv, Crash
  PROVE  UpgradeInv'
<1>0. /\ state' = "Idle" /\ current' = NoManifest /\ phase' = "none" /\ left' = {}
      /\ UNCHANGED <<staging, install, backup, records, before, package, mishap, faults>>
      BY DEF Crash, disk, history
<1>1. Typed' /\ PhasesFit' /\ BackupsFailByFaults' /\ PreviousInstallSurvives' /\ CommittedIsInstalled'
      BY <1>0 DEF UpgradeInv, Typed, PhasesFit, BackupsFailByFaults, PreviousInstallSurvives,
                  CommittedIsInstalled, States, Phases
<1>2. RecordsFollow' /\ RunInv'
      BY <1>0 DEF RecordsFollow, RunInv, Untouched, Staged, Copying, Clearing, BackedUpFirst, Activation,
                  CanGoBack, CopyingBack, WentBack, Phase, BeforeActivation
<1> QED BY <1>1, <1>2 DEF UpgradeInv

LEMMA UpgradeStutters ==
  ASSUME UpgradeInv, UNCHANGED uevars
  PROVE  UpgradeInv'
<1>0. UNCHANGED <<state, current, phase, left, staging, install, backup, records, before, package,
                  mishap, faults>>
      BY DEF uevars, disk, history, bounds
<1>1. (KeptBack' <=> KeptBack) /\ Saved' = Saved /\ App' = App
      BY <1>0 DEF KeptBack, Saved, App
<1>2. RunInv'
      BY <1>0, <1>1 DEF UpgradeInv, RunInv, Untouched, Staged, Copying, Clearing, BackedUpFirst, Activation,
                  CanGoBack, CopyingBack, WentBack, Phase, BeforeActivation
<1>3. RecordsFollow'
      BY <1>0, <1>1 DEF UpgradeInv, RecordsFollow
<1> QED BY <1>0, <1>2, <1>3 DEF UpgradeInv, Typed, PhasesFit, BackupsFailByFaults,
                                PreviousInstallSurvives, CommittedIsInstalled

-----------------------------------------------------------------------------
(* Theorems *)

LEMMA InitUpgrade == Init => UpgradeInv
<1> SUFFICES ASSUME Init PROVE UpgradeInv
    OBVIOUS
<1>0. /\ state = "Idle" /\ current = NoManifest /\ phase = "none" /\ left = {} /\ faults = 0
      /\ staging = [a \in Apps |-> NoDir] /\ install \in [Apps -> Packages \cup {NoDir}]
      /\ backup = [a \in Apps |-> [v \in Versions |-> NoDir]] /\ records = [a \in Apps |-> NoRecord]
      /\ before = install /\ package = staging /\ mishap = [a \in Apps |-> {}]
      BY DEF Init
<1>1. NoRecord \in Record /\ NoRecord.state = "Idle"
      BY DEF NoRecord, Record, States
<1>2. install \in [Apps -> Dir] /\ staging \in [Apps -> Dir]
      BY <1>0, BoundsAre, DirsAre DEF Dir
<1>3. backup \in [Apps -> [Versions -> Dir]]
      BY <1>0, DirsAre
<1>4. Typed /\ PhasesFit /\ BackupsFailByFaults
      BY <1>0, <1>1, <1>2, <1>3 DEF Typed, PhasesFit, BackupsFailByFaults, States, Phases
<1>5. RunInv /\ RecordsFollow
      BY <1>0 DEF RecordsFollow, RunInv, Untouched, Staged, Copying, Clearing, BackedUpFirst, Activation,
                  CanGoBack, CopyingBack, WentBack, Phase, BeforeActivation
<1>6. PreviousInstallSurvives
      BY <1>0, SurvivesIs, SameSurvives
<1>7. CommittedIsInstalled
      BY <1>0, <1>1 DEF CommittedIsInstalled
<1> QED BY <1>4, <1>5, <1>6, <1>7 DEF UpgradeInv

(* What a run has done to the directories and has told the store fits the   *)
(* state it is in, at every point where the agent may stop.                 *)
THEOREM UpgradeInvariance == UESpec => []UpgradeInv
<1>1. ASSUME UpgradeInv, Next PROVE UpgradeInv'
      BY <1>1, UpgradeReceives, UpgradeAdvances, UpgradeRejects, UpgradeStages, UpgradeStartsBackup,
         UpgradeBackedUp, UpgradeRemoved, UpgradeMoves, UpgradeActivated, UpgradeFails,
         UpgradeRollsBack, UpgradeStartsRestore, UpgradeRestored, UpgradeRolledBack,
         UpgradeBacksUpFile, UpgradeRemovesFile, UpgradeRestoresFile, UpgradeDelivers,
         UpgradeCrashes DEF Next
<1>2. UpgradeInv /\ [Next]_uevars => UpgradeInv'
      BY <1>1, UpgradeStutters
<1> QED BY <1>2, InitUpgrade, PTL DEF UESpec

(* Whatever fails and wherever the agent stops, each file that was          *)
(* installed when the last upgrade of its app began is still installed or   *)
(* in a backup, unless the copy into the backup itself failed: the install  *)
(* is removed only after the last file is in the backup.                    *)
THEOREM OldInstallsSurvive == UESpec => []PreviousInstallSurvives
<1>1. UpgradeInv => PreviousInstallSurvives
      BY DEF UpgradeInv
<1> QED BY <1>1, UpgradeInvariance, PTL

(* A record of "committed" that the store took means that all of what the   *)
(* app's last run staged is installed and nothing else, after any crashes:  *)
(* the record is overwritten before the next run touches the install.       *)
THEOREM RecordsOfCommitsAreTrue == UESpec => []CommittedIsInstalled
<1>1. UpgradeInv => CommittedIsInstalled
      BY DEF UpgradeInv
<1> QED BY <1>1, UpgradeInvariance, PTL

(* Without input/output errors an upgrade that was rolled back has put back *)
(* every file that was there and none of the new build, except what an      *)
(* earlier backup for the same version had.                                 *)
THEOREM RollbackPutsBack == UESpec => []RollbackRestores
<1>1. ASSUME UpgradeInv, state = "RolledBack", faults = 0, before[App] # NoDir, NEW f \in Files
      PROVE  \/ install[App][f] = before[App][f]
             \/ before[App][f] = NoFile /\ install[App][f] = Saved[f]
      BY <1>1 DEF UpgradeInv, RunInv, WentBack, KeptBack
<1>2. UpgradeInv => RollbackRestores
      BY <1>1 DEF RollbackRestores
<1> QED BY <1>2, UpgradeInvariance, PTL
=============================================================================
