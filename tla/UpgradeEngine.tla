---------------------------- MODULE UpgradeEngine ----------------------------
(***************************************************************************)
(* The upgrade engine of src/upgrade_engine.rs with its strategy for       *)
(* applications.  One run takes a manifest through the states of the       *)
(* source's enum; every change of state is written to the store, and the   *)
(* activation copies, removes and renames directories.  Each write to the  *)
(* store or to a directory is a step of its own, for the agent may stop    *)
(* between any two; the new engine starts in Idle and reads nothing back.  *)
(*                                                                         *)
(* A directory is a function from the files to the build each comes from.  *)
(* The prototype does not unpack the package: staging only creates the     *)
(* directory, so what is in it is up to the caller (external).  Hashes and *)
(* signatures are abstracted to a verification that passes or fails, the   *)
(* scripts of the manifest are run by nothing in the source.               *)
(***************************************************************************)
EXTENDS Naturals, FiniteSets

CONSTANTS
  Apps,        (* app_id: one staging and one install directory each       *)
  Versions,    (* version strings of manifests                             *)
  Files,       (* file names                                               *)
  Builds,      (* where the content of a file comes from                   *)
  NoFile,      (* a directory has no such file                             *)
  NoDir,       (* there is no such directory                               *)
  Packages,    (* what a caller may put in a staging directory             *)
  NoManifest,  (* current_manifest is None                                 *)
  MaxRuns,     (* bound: upgrades started                                  *)
  MaxFaults,   (* bound: input/output errors                               *)
  MaxCrashes   (* bound: restarts of the agent                             *)

Content == [Files -> Builds \cup {NoFile}]

ASSUME UpgradeAssumption ==
  /\ NoFile \notin Builds
  /\ NoDir \notin Content
  /\ Packages \subseteq Content
  /\ NoManifest \notin [app : Apps, from : Versions, to : Versions]
  /\ {MaxRuns, MaxFaults, MaxCrashes} \subseteq Nat

VARIABLES
  state,     (* UpgradeEngine.state                                        *)
  current,   (* UpgradeEngine.current_manifest                             *)
  phase,     (* how far activate or rollback is                            *)
  left,      (* the files that the phase has not dealt with yet            *)
  staging, install, backup,  (* the directories; one backup per version    *)
  records,   (* the upgrade_state table                                    *)
  before,    (* each app's install when its last run began (history)       *)
  package,   (* what that run staged (history)                             *)
  mishap,    (* per app: "backup" if the copy of the install failed,       *)
             (* "record" if its last state could not be stored (history)   *)
  runs, faults, crashes

disk == <<staging, install, backup>>
history == <<before, package>>
bounds == <<runs, faults, crashes>>
uevars == <<state, current, phase, left, disk, records, history, mishap, bounds>>

-----------------------------------------------------------------------------
(* Types *)

Manifest == [app : Apps, from : Versions, to : Versions]

Empty == [f \in Files |-> NoFile]

FilesIn(dir) == IF dir = NoDir THEN {} ELSE {f \in Files : dir[f] # NoFile}

NoRecord == [state |-> "Idle", target |-> NoManifest]

Init ==
  /\ state = "Idle"
  /\ current = NoManifest
  /\ phase = "none"
  /\ left = {}
  /\ staging = [a \in Apps |-> NoDir]
  /\ install \in [Apps -> Packages \cup {NoDir}]
  /\ backup = [a \in Apps |-> [v \in Versions |-> NoDir]]
  /\ records = [a \in Apps |-> NoRecord]
  /\ before = install
  /\ package = staging
  /\ mishap = [a \in Apps |-> {}]
  /\ runs = 0 /\ faults = 0 /\ crashes = 0

-----------------------------------------------------------------------------
(* The state and its record *)

Fault == faults < MaxFaults /\ faults' = faults + 1

(* Mutant: the record is written for the first and the last state only *)
SetStateLazily(s) ==
  /\ state' = s
  /\ records' = IF current = NoManifest \/ s \notin {"Received", "Committed"}
                  THEN records
                  ELSE [records EXCEPT ![current.app] =
                          [state |-> s, target |-> current.to]]
  /\ UNCHANGED <<mishap, faults>>

(* set_state: without a manifest nothing is stored, and an error of the     *)
(* store is only logged                                                     *)
SetState(s) ==
  /\ state' = s
  /\ IF current = NoManifest
       THEN UNCHANGED <<records, mishap, faults>>
       ELSE \/ /\ records' = [records EXCEPT ![current.app] =
                                [state |-> s, target |-> current.to]]
               /\ mishap' = [mishap EXCEPT ![current.app] = @ \ {"record"}]
               /\ UNCHANGED faults
            \/ /\ mishap' = [mishap EXCEPT ![current.app] = @ \cup {"record"}]
               /\ UNCHANGED records
               /\ Fault

AtRest == state \in {"Idle", "Committed", "RolledBack", "Failed"}

(* run() is called.  Received is recorded before current_manifest is set:   *)
(* for the app of the run before.                                           *)
Receive(m) ==
  /\ AtRest /\ runs < MaxRuns
  /\ SetState("Received")
  /\ current' = m
  /\ before' = [before EXCEPT ![m.app] = install[m.app]]
  /\ runs' = runs + 1
  /\ UNCHANGED <<phase, left, disk, package, crashes>>

(* The steps that only change the state *)
Following ==
  [Received |-> "Validated", Validated |-> "Downloading", Downloading |-> "Verifying",
   Verifying |-> "PreCheck", PreCheck |-> "Staging", ReadyToActivate |-> "Activating",
   PostCheck |-> "Committed"]

Advance ==
  /\ state \in DOMAIN Following
  /\ SetState(Following[state])
  /\ phase' = IF state = "ReadyToActivate" THEN "check" ELSE "none"
  /\ UNCHANGED <<current, left, disk, history, runs, crashes>>

(* The manifest is not valid, the package is not the one it describes, or   *)
(* the staging directory cannot be made                                     *)
Reject ==
  /\ state \in {"Validated", "Verifying", "Staging"}
  /\ SetState("Failed")
  /\ UNCHANGED <<current, phase, left, disk, history, runs, crashes>>

-----------------------------------------------------------------------------
(* The strategy for applications *)

App == current.app

(* The backup directory is named for the version the manifest upgrades from *)
Saved == backup[App][current.from]

SetInstall(dir) == install' = [install EXCEPT ![App] = dir]

SetSaved(dir) == backup' = [backup EXCEPT ![App][current.from] = dir]

Create(dir) == IF dir = NoDir THEN Empty ELSE dir

(* create_dir_all: what an earlier run left in the directory stays in it *)
Stage ==
  /\ state = "Staging"
  /\ staging' = [staging EXCEPT ![App] = Create(@)]
  /\ package' = [package EXCEPT ![App] = Create(staging[App])]
  /\ SetState("ReadyToActivate")
  /\ UNCHANGED <<current, phase, left, install, backup, before, runs, crashes>>

Phase(s, p) == state = s /\ phase = p

(* Mutant: the backup is skipped when there is one for that version *)
StartBackupOnce ==
  /\ Phase("Activating", "check")
  /\ IF install[App] = NoDir \/ Saved # NoDir
       THEN /\ phase' = IF install[App] = NoDir THEN "move" ELSE "clear"
            /\ left' = FilesIn(install[App])
            /\ UNCHANGED backup
       ELSE /\ phase' = "copy"
            /\ left' = FilesIn(install[App])
            /\ SetSaved(Create(Saved))
  /\ mishap' = [mishap EXCEPT ![App] = @ \ {"backup"}]
  /\ UNCHANGED <<state, current, staging, install, records, history, bounds>>

StartBackup ==
  /\ Phase("Activating", "check")
  /\ IF install[App] = NoDir
       THEN phase' = "move" /\ UNCHANGED <<left, backup>>
       ELSE /\ phase' = "copy"
            /\ left' = FilesIn(install[App])
            /\ SetSaved(Create(Saved))
  /\ mishap' = [mishap EXCEPT ![App] = @ \ {"backup"}]
  /\ UNCHANGED <<state, current, staging, install, records, history, bounds>>

(* copy_dir_recursive: files that are in the backup already are overwritten *)
(* or stay                                                                  *)
BackUpFile(f) ==
  /\ Phase("Activating", "copy") /\ f \in left
  /\ SetSaved([Saved EXCEPT ![f] = install[App][f]])
  /\ left' = left \ {f}
  /\ UNCHANGED <<state, current, phase, staging, install, records, history, mishap,
                 bounds>>

BackedUp ==
  /\ Phase("Activating", "copy") /\ left = {}
  /\ phase' = "clear"
  /\ left' = FilesIn(install[App])
  /\ UNCHANGED <<state, current, disk, records, history, mishap, bounds>>

(* remove_dir_all, of both activate and rollback *)
RemoveFile(f) ==
  /\ phase = "clear" /\ f \in left
  /\ SetInstall([install[App] EXCEPT ![f] = NoFile])
  /\ left' = left \ {f}
  /\ UNCHANGED <<state, current, phase, staging, backup, records, history, mishap,
                 bounds>>

Removed ==
  /\ phase = "clear" /\ left = {}
  /\ SetInstall(NoDir)
  /\ phase' = IF state = "Activating" THEN "move" ELSE "check"
  /\ UNCHANGED <<state, current, left, staging, backup, records, history, mishap, bounds>>

Move ==
  /\ Phase("Activating", "move")
  /\ SetInstall(staging[App])
  /\ staging' = [staging EXCEPT ![App] = NoDir]
  /\ phase' = "done"
  /\ UNCHANGED <<state, current, left, backup, records, history, mishap, bounds>>

Activated ==
  /\ Phase("Activating", "done")
  /\ SetState("PostCheck")
  /\ phase' = "none"
  /\ UNCHANGED <<current, left, disk, history, runs, crashes>>

(* Any step of activate or rollback fails with an input/output error *)
FailStep ==
  /\ phase \in {"check", "copy", "clear", "move"}
  /\ Fault
  /\ phase' = IF state = "Activating" THEN "failed" ELSE "done"
  /\ mishap' = IF state = "Activating" /\ phase \in {"check", "copy"}
                 THEN [mishap EXCEPT ![App] = @ \cup {"backup"}]
                 ELSE mishap
  /\ UNCHANGED <<state, current, left, disk, records, history, runs, crashes>>

(* The activation failed; or the check after it did, which the strategy for *)
(* applications leaves to the default that always passes                    *)
RollBack ==
  /\ Phase("Activating", "failed") \/ state = "PostCheck"
  /\ SetState("RollingBack")
  /\ phase' = "check"
  /\ UNCHANGED <<current, left, disk, history, runs, crashes>>

(* Mutant: the backup is copied over what is installed *)
StartRestoreOver ==
  /\ Phase("RollingBack", "check")
  /\ IF Saved = NoDir
       THEN phase' = "done" /\ UNCHANGED <<install, left>>
       ELSE phase' = "copy" /\ SetInstall(Create(install[App])) /\ left' = FilesIn(Saved)
  /\ UNCHANGED <<state, current, staging, backup, records, history, mishap, bounds>>

(* Without a backup the rollback fails and leaves the install alone; with   *)
(* one, the install is removed and made again from it                       *)
StartRestore ==
  /\ Phase("RollingBack", "check")
  /\ CASE Saved = NoDir -> phase' = "done" /\ UNCHANGED <<install, left>>
       [] Saved # NoDir /\ install[App] # NoDir ->
            phase' = "clear" /\ left' = FilesIn(install[App]) /\ UNCHANGED install
       [] OTHER -> phase' = "copy" /\ SetInstall(Empty) /\ left' = FilesIn(Saved)
  /\ UNCHANGED <<state, current, staging, backup, records, history, mishap, bounds>>

RestoreFile(f) ==
  /\ Phase("RollingBack", "copy") /\ f \in left
  /\ SetInstall([install[App] EXCEPT ![f] = Saved[f]])
  /\ left' = left \ {f}
  /\ UNCHANGED <<state, current, phase, staging, backup, records, history, mishap,
                 bounds>>

Restored ==
  /\ Phase("RollingBack", "copy") /\ left = {}
  /\ phase' = "done"
  /\ UNCHANGED <<state, current, left, disk, records, history, mishap, bounds>>

(* The result of the rollback is not looked at *)
RolledBack ==
  /\ Phase("RollingBack", "done")
  /\ SetState("RolledBack")
  /\ phase' = "none"
  /\ UNCHANGED <<current, left, disk, history, runs, crashes>>

-----------------------------------------------------------------------------
(* A caller puts a package where the next run will stage it (external) *)
Deliver(a, dir) ==
  /\ AtRest /\ runs < MaxRuns /\ staging[a] = NoDir
  /\ staging' = [staging EXCEPT ![a] = dir]
  /\ UNCHANGED <<state, current, phase, left, install, backup, records, history,
                 mishap, bounds>>

(* The agent stops and starts: a new engine *)
Crash ==
  /\ crashes < MaxCrashes
  /\ crashes' = crashes + 1
  /\ state' = "Idle" /\ current' = NoManifest /\ phase' = "none" /\ left' = {}
  /\ UNCHANGED <<disk, records, history, mishap, runs, faults>>

Next ==
  \/ \E m \in Manifest : Receive(m)
  \/ Advance \/ Reject \/ Stage
  \/ StartBackup \/ BackedUp \/ Removed \/ Move \/ Activated
  \/ FailStep \/ RollBack \/ StartRestore \/ Restored \/ RolledBack
  \/ \E f \in Files : BackUpFile(f) \/ RemoveFile(f) \/ RestoreFile(f)
  \/ \E a \in Apps, dir \in Packages : Deliver(a, dir)
  \/ Crash

UESpec == Init /\ [][Next]_uevars

-----------------------------------------------------------------------------
(* Properties *)

Has(dir, f, build) == dir # NoDir /\ dir[f] = build

(* Whatever errors and restarts come in between, every file that was         *)
(* installed when the last upgrade of the app began is still installed or   *)
(* in some backup, unless the copy into the backup failed: then rollback    *)
(* removes the install all the same and restores what had been copied.      *)
PreviousInstallSurvives ==
  \A a \in Apps :
    \/ "backup" \in mishap[a]
    \/ \A f \in FilesIn(before[a]) :
         \E dir \in {install[a]} \cup {backup[a][v] : v \in Versions} :
           Has(dir, f, before[a][f])

(* The record of an app says "committed" only while what its last run staged *)
(* is what is installed, all of it and nothing else: also after a restart   *)
(* in the middle of the next upgrade, unless the store refused a record.    *)
CommittedIsInstalled ==
  \A a \in Apps :
    records[a].state = "Committed" /\ "record" \notin mishap[a] =>
      install[a] = package[a]

(* Without errors, an upgrade that was rolled back has put back every file  *)
(* that was there, and none of the new build, except what a backup for the  *)
(* same version already had.  A first install has nothing to go back to.    *)
RollbackRestores ==
  state = "RolledBack" /\ faults = 0 /\ before[App] # NoDir =>
    \A f \in Files :
      \/ install[App][f] = before[App][f]
      \/ before[App][f] = NoFile /\ install[App][f] = Saved[f]

(* "Upgrade either fully succeeds or fully rolls back" (README.md:260): when *)
(* a run is over the app is as it was before or as it was staged.           *)
UpgradeIsAtomic ==
  AtRest /\ current # NoManifest => install[App] \in {before[App], package[App]}
=============================================================================
