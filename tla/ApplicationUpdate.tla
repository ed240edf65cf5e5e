-------------------------- MODULE ApplicationUpdate --------------------------
(***************************************************************************)
(* The application update (internal/update, wails_updater.go,              *)
(* wails_host.go): the manager of a launch, which checks, offers, prepares *)
(* and hands over; the helper process, which waits for the application to  *)
(* exit, swaps the units and starts the result; the recovery record        *)
(* between them; and the next launch, which reads that record.             *)
(*                                                                         *)
(* A launch makes at most one attempt, whose identifier is drawn when the  *)
(* process starts, so attempts are numbered by their launch.  Any process  *)
(* may die between two steps and any file operation may fail.              *)
(***************************************************************************)
EXTENDS ReleaseContract

CONSTANTS Target,            \* operating system and architecture
          Here,              \* the layout of this installation
          MaxLaunch,         \* bound: launches of the application
          MaxProgress,       \* bound: bytes a download reports
          HelpersMayOverlap  \* may a helper be stalled, a step from its end,
                             \* until a later launch has prepared its own?

ASSUME BoundsAssumption == /\ MaxLaunch \in Nat \ {0}
                           /\ MaxProgress \in Nat
                           /\ HelpersMayOverlap \in BOOLEAN

VARIABLES
  installed,   \* the unit at the installation path
  staged,      \* staged[a]: the unit attempt a copied beside it
  backup,      \* backup[a]: the unit attempt a renamed away
  record,      \* the recovery record of Application Support
  process,     \* the running application
  manager,     \* update.Manager of that application
  work,        \* what the check, the accepted offer or the restart is doing
  asked,       \* the Overseer's window has asked for the status
  helper,      \* helper[a]: the replacement helper of attempt a
  told         \* history: told[a]: what has become of the news that attempt a failed

disk == <<installed, staged, backup, record>>
\* Their states, stages and decisions are those of model.go.
vars == <<disk, process, manager, work, asked, helper, told>>

Attempts == 1..MaxLaunch
Usable == {"Old", "New"}
Units == Usable \cup {"None", "Partial"}

NoRecord == [attempt |-> 0, state |-> "None", stage |-> "None"]
Applying(a) == [attempt |-> a, state |-> "Applying", stage |-> "None"]
Applied(a) == [attempt |-> a, state |-> "Applied", stage |-> "None"]
Failed(a, stage) == [attempt |-> a, state |-> "Failed", stage |-> stage]

Preparing == {"Downloading", "Verifying", "Staging"}
Rank == [state \in Preparing |->
           CASE state = "Downloading" -> 0 [] state = "Verifying" -> 1 [] OTHER -> 2]

IdleManager == [state |-> "Idle", revision |-> 0, progress |-> 0, failure |-> "None",
                operation |-> FALSE, prepared |-> FALSE, accepted |-> FALSE]
FailedManager(stage) == [IdleManager EXCEPT !.state = "Failed", !.revision = 1,
                                            !.failure = stage]
NoHelper == [pc |-> "None", cause |-> "None", lost |-> FALSE]

Running == process.phase \in {"Up", "Quitting"}
Ended == {"Done", "Crashed"}
Working(a) == helper[a].pc \notin Ended \cup {"None"}

Init ==
  /\ installed = "Old"
  /\ staged = [a \in Attempts |-> "None"]
  /\ backup = [a \in Attempts |-> "None"]
  /\ record = NoRecord
  /\ process = [launch |-> 0, phase |-> "Off", version |-> "Old", by |-> 0]
  /\ manager = IdleManager
  /\ work = "None"
  /\ asked = FALSE
  /\ helper = [a \in Attempts |-> NoHelper]
  /\ told = [a \in Attempts |-> "No"]

-----------------------------------------------------------------------------
(* The process and the record it reads. *)

(* A process of the installed unit; a second instance leaves at once. *)
Started(by) ==
  \/ /\ process.phase = "Off"
     /\ process.launch < MaxLaunch
     /\ process' = [launch |-> process.launch + 1, phase |-> "Starting",
                    version |-> installed, by |-> by]
     /\ manager' = IdleManager
     /\ asked' = FALSE
  \/ /\ process.phase # "Off" \/ process.launch = MaxLaunch
     /\ UNCHANGED <<process, manager, asked>>

LaunchByHand ==
  /\ process.phase = "Off"
  /\ process.launch < MaxLaunch
  /\ installed \in Usable
  /\ Started(0)
  /\ UNCHANGED <<disk, work, helper, told>>

(* What the launch reports of the record it finds. *)
Outcome == CASE record.state = "Failed" -> record.stage
             [] record.state = "Applying" -> "Interrupted"
             [] record.state = "Applied" /\ process.version # "New" -> "Recovery"
             [] OTHER -> "None"

Cleared == \/ record.state \in {"Failed", "Applying"}
           \/ record.state = "Applied" /\ process.version = "New"

(* The launch takes note of the record: its attempt's news is held for the   *)
(* window, or could not be read.                                             *)
Notes(news) ==
  told' = [a \in Attempts |-> IF a = record.attempt /\ told[a] # "Shown" THEN news ELSE told[a]]

(* Mutant: a record that could not be read is removed like one that was.     *)
InertIsRemoved ==
  /\ process' = [process EXCEPT !.phase = "Clearing"]
  /\ Notes("Illegible")
  /\ UNCHANGED manager

(* A record that cannot be read or is not valid is inert: it stays, and the  *)
(* launch goes on without it.                                                *)
RecordIsInert ==
  /\ process' = [process EXCEPT !.phase = "Up"]
  /\ Notes("Illegible")
  /\ UNCHANGED manager

ReadRecovery ==
  /\ process.phase = "Starting"
  /\ \/ RecordIsInert
     \/ /\ process' = [process EXCEPT !.phase = IF Cleared THEN "Clearing" ELSE "Up"]
        /\ IF Outcome = "None"
           THEN UNCHANGED <<manager, told>>
           ELSE manager' = FailedManager(Outcome) /\ Notes("Held")
  /\ UNCHANGED <<disk, work, asked, helper>>

(* The record is removed by path: whatever is there by now. *)
RemoveRecovery ==
  /\ process.phase = "Clearing"
  /\ record' \in {NoRecord, record}
  /\ process' = [process EXCEPT !.phase = "Up"]
  /\ UNCHANGED <<installed, staged, backup, manager, work, asked, helper, told>>

Quit ==
  /\ process.phase = "Up"
  /\ process' = [process EXCEPT !.phase = "Quitting"]
  /\ UNCHANGED <<disk, manager, work, asked, helper, told>>

(* Shutdown completes, or the process dies.  The news its window has not     *)
(* seen is lost, unless the record is still there for the next launch.       *)
Exit ==
  /\ process.phase # "Off"
  /\ process' = [process EXCEPT !.phase = "Off"]
  /\ work' = "None"
  /\ told' = [a \in Attempts |->
                CASE told[a] = "Held"      -> IF record.attempt = a THEN "No" ELSE "Lost"
                  [] told[a] = "Illegible" -> "No"
                  [] OTHER                 -> told[a]]
  /\ UNCHANGED <<disk, manager, asked, helper>>

-----------------------------------------------------------------------------
(* The manager.  Every transition takes a revision, under which its snapshot *)
(* is published.                                                             *)

Transition(m, state) == manager' = [m EXCEPT !.state = state, !.revision = @ + 1]

Fail(m, stage) == Transition([m EXCEPT !.failure = stage, !.operation = FALSE], "Failed")

(* The window subscribes, asks for the status and so arms the only check;    *)
(* what the launch held for it is shown.                                     *)
Status ==
  /\ process.phase = "Up"
  /\ ~asked
  /\ asked' = TRUE
  /\ IF manager.state = "Idle"
     THEN Transition(manager, "Checking") /\ work' = "Check"
     ELSE UNCHANGED <<manager, work>>
  /\ told' = [a \in Attempts |-> IF told[a] = "Held" THEN "Shown" ELSE told[a]]
  /\ UNCHANGED <<disk, process, helper>>

(* The last version that was released, and the one before it. *)
VersionOf(unit) == Ascending[IF unit = "New" THEN Len(Ascending) ELSE Len(Ascending) - 1]

(* What a check may answer each version, or that it does not answer at all. *)
Answers == [unit \in Units |->
              {"Failed"} \cup {Check(history, VersionOf(unit), Target) : history \in Histories}]

CheckOutcomes == Answers[process.version]

RunCheck ==
  /\ Running
  /\ work = "Check"
  /\ manager.state = "Checking"
  /\ \E state \in CheckOutcomes :
       IF state = "Failed" THEN Fail(manager, "Check") ELSE Transition(manager, state)
  /\ work' = "None"
  /\ UNCHANGED <<disk, process, helper, told, asked>>

DeferOffer ==
  /\ process.phase = "Up"
  /\ manager.state = "Available"
  /\ Transition(manager, "Deferred")
  /\ UNCHANGED <<disk, process, work, helper, told, asked>>

AcceptOffer ==
  /\ process.phase = "Up"
  /\ manager.state = "Available"
  /\ ~manager.operation
  /\ Transition([manager EXCEPT !.operation = TRUE, !.prepared = FALSE, !.progress = 0,
                                !.failure = "None", !.accepted = TRUE], "Downloading")
  /\ work' = "Download"
  /\ UNCHANGED <<disk, process, helper, told, asked>>

(* Mutant: a report is taken whatever the state. *)
AdvancesAnyTime(state, progress) ==
  /\ progress >= manager.progress
  /\ <<state, progress>> # <<manager.state, manager.progress>>

(* A report advances: never to an earlier stage, never to fewer bytes. *)
Advances(state, progress) ==
  /\ manager.operation
  /\ manager.state \in Preparing
  /\ Rank[state] >= Rank[manager.state]
  /\ progress >= manager.progress
  /\ <<state, progress>> # <<manager.state, manager.progress>>

Reported(state, progress) ==
  IF Advances(state, progress)
  THEN Transition([manager EXCEPT !.progress = progress], state)
  ELSE UNCHANGED manager

(* The callbacks of an accepted offer are in the listener table, or were     *)
(* copied out of it before they were removed.                                *)
Listening == Running /\ manager.accepted

(* A progress event of the updater; its callback, once copied out of the     *)
(* listener table, runs even when the preparation has returned meanwhile.    *)
ReportPreparation ==
  /\ Listening
  /\ \E state \in {"Downloading", "Verifying"}, progress \in 0..MaxProgress :
       Reported(state, progress)
  /\ UNCHANGED <<disk, process, work, helper, told, asked>>

(* What the archives that are accepted for the new version unpack to. *)
UnitOf(package) == IF package.identity.version = VersionOf("New") THEN "New" ELSE "Old"

Prepared ==
  {UnitOf(package) : package \in
     {package \in {Unpacked(archive, Target.os) : archive \in Archives} :
        Accepts(VersionOf("New"), Target, package)}}

(* The service, the connection, the verification or the extraction fails. *)
DownloadFails ==
  /\ work' = "Unprepared"
  /\ UNCHANGED <<staged, manager>>

(* The download ends; an accepted package is copied into a new directory. *)
DownloadEnds ==
  /\ Running
  /\ work = "Download"
  /\ \/ DownloadFails
     \/ /\ Reported("Staging", manager.progress)
        /\ \/ work' = "Unprepared" /\ UNCHANGED staged
           \/ /\ Prepared # {}
              /\ staged' = [staged EXCEPT ![process.launch] = "Partial"]
              /\ work' = "Copy"
  /\ UNCHANGED <<installed, backup, record, process, helper, told, asked>>

(* Copied, validated and synced, or removed again as far as that works. *)
StageUnit ==
  /\ Running
  /\ work = "Copy"
  /\ \/ /\ \E unit \in Prepared : staged' = [staged EXCEPT ![process.launch] = unit]
        /\ work' = "Prepared"
     \/ /\ \E left \in {"None", "Partial"} :
             staged' = [staged EXCEPT ![process.launch] = left]
        /\ work' = "Unprepared"
  /\ UNCHANGED <<installed, backup, record, process, manager, asked, helper, told>>

PreparationStage == CASE manager.state = "Verifying" -> "Verify"
                      [] manager.state = "Staging" -> "Stage"
                      [] OTHER -> "Download"

(* Mutant: an early return on error leaves the offer preparing. *)
CompleteOnlyPrepared ==
  /\ Running
  /\ work = "Prepared"
  /\ Transition([manager EXCEPT !.operation = FALSE, !.prepared = TRUE], "ReadyToRestart")
  /\ work' = "None"
  /\ UNCHANGED <<disk, process, helper, told, asked>>

(* Prepared: the unit is ready to be handed over; otherwise the offer failed. *)
CompletePreparation ==
  /\ Running
  /\ work \in {"Prepared", "Unprepared"}
  /\ IF manager.state \notin Preparing
     THEN manager' = [manager EXCEPT !.operation = FALSE]
     ELSE IF work = "Prepared"
     THEN Transition([manager EXCEPT !.operation = FALSE, !.prepared = TRUE], "ReadyToRestart")
     ELSE Fail(manager, PreparationStage)
  /\ work' = "None"
  /\ UNCHANGED <<disk, process, helper, told, asked>>

-----------------------------------------------------------------------------
(* The restart: the record is written, the helper started, the host quits.  *)

ApproveRestart ==
  /\ process.phase = "Up"
  /\ manager.state = "ReadyToRestart"
  /\ ~manager.operation
  /\ HelpersMayOverlap \/ \A a \in Attempts : ~Working(a)
  /\ manager.prepared
  /\ Transition([manager EXCEPT !.operation = TRUE], "Applying")
  /\ work' = "Handover"
  /\ UNCHANGED <<disk, process, helper, told, asked>>

RestartFails ==
  /\ Fail(manager, "Apply")
  /\ work' = "None"

(* The request is refused, or copying the executable or writing the record  *)
(* fails.  The record takes the place of one that could not be read.         *)
WriteApplying ==
  /\ Running
  /\ work = "Handover"
  /\ \/ /\ HandsOver(Target, Here)
        /\ installed # "None"
        /\ staged[process.launch] # "None"
        /\ record' = Applying(process.launch)
        /\ told' = [a \in Attempts |-> IF told[a] = "Illegible" THEN "Lost" ELSE told[a]]
        /\ work' = "Journaled"
        /\ UNCHANGED manager
     \/ RestartFails /\ UNCHANGED <<record, told>>
  /\ UNCHANGED <<installed, staged, backup, process, helper, asked>>

StartHelper ==
  /\ Running
  /\ work = "Journaled"
  /\ \/ /\ helper' = [helper EXCEPT ![process.launch].pc = "Waiting"]
        /\ process' = [process EXCEPT !.phase = "Quitting"]
        /\ manager' = [manager EXCEPT !.operation = FALSE]
        /\ work' = "None"
        /\ UNCHANGED record
     \/ /\ RestartFails
        /\ record' \in {record, Failed(process.launch, "Apply")}
        /\ UNCHANGED <<process, helper>>
  /\ UNCHANGED <<installed, staged, backup, told, asked>>
-----------------------------------------------------------------------------
(* The helper process. *)

ParentGone(a) == process.launch # a \/ process.phase = "Off"

At(a, pc) == helper[a].pc = pc
Goes(a, pc) == helper' = [helper EXCEPT ![a].pc = pc]
Gives(a, cause, lost, pc) == helper' = [helper EXCEPT ![a] = [pc |-> pc, cause |-> cause, lost |-> lost]]

WaitEnds(a) ==
  /\ At(a, "Waiting")
  /\ ParentGone(a)
  /\ Goes(a, "SetAside")
  /\ UNCHANGED <<disk, process, manager, asked>>

(* Mutant of WaitTimesOut: the timeout is taken for the exit of the parent. *)
TimesOutAndGoesOn(a) ==
  /\ At(a, "Waiting")
  /\ ~ParentGone(a)
  /\ Goes(a, "SetAside")
  /\ UNCHANGED <<disk, process, manager, asked>>

WaitTimesOut(a) ==
  /\ At(a, "Waiting")
  /\ ~ParentGone(a)
  /\ Gives(a, "Apply", FALSE, "Record")
  /\ UNCHANGED <<disk, process, manager, asked>>

SetAside(a) ==
  /\ At(a, "SetAside")
  /\ \/ /\ installed # "None" /\ backup[a] = "None"
        /\ backup' = [backup EXCEPT ![a] = installed]
        /\ installed' = "None"
        /\ Goes(a, "Promote")
     \/ /\ Gives(a, "Apply", FALSE, "Record")
        /\ UNCHANGED <<installed, backup>>
  /\ UNCHANGED <<staged, record, process, manager, asked>>

Promote(a) ==
  /\ At(a, "Promote")
  /\ \/ /\ installed = "None" /\ staged[a] # "None"
        /\ installed' = staged[a]
        /\ staged' = [staged EXCEPT ![a] = "None"]
        /\ Goes(a, "Relaunch")
     \/ /\ Gives(a, "Apply", FALSE, "Restore")
        /\ UNCHANGED <<installed, staged>>
  /\ UNCHANGED <<backup, record, process, manager, asked>>

(* The new version is started before the record says that it was applied. *)
Relaunch(a) ==
  /\ At(a, "Relaunch")
  /\ \/ /\ installed \in Usable
        /\ Started(a)
        /\ Goes(a, "MarkApplied")
     \/ /\ Gives(a, "Relaunch", FALSE, "Withdraw")
        /\ UNCHANGED <<process, manager, asked>>
  /\ UNCHANGED disk

(* Mutant: an error of removing the unit does not count as a failed recovery. *)
WithdrawUncounted(a) ==
  /\ At(a, "Withdraw")
  /\ \/ installed' = "None" /\ Goes(a, "Restore")
     \/ installed' \in {installed, "Partial"} /\ Goes(a, "Record")
  /\ UNCHANGED <<staged, backup, record, process, manager, asked>>

Withdraw(a) ==
  /\ At(a, "Withdraw")
  /\ \/ installed' = "None" /\ Goes(a, "Restore")
     \/ /\ installed' \in {installed, "Partial"}
        /\ Gives(a, helper[a].cause, TRUE, "Record")
  /\ UNCHANGED <<staged, backup, record, process, manager, asked>>

(* Mutant: the backup is cleaned up also when it could not be restored. *)
RestoreOrDiscard(a) ==
  /\ At(a, "Restore")
  /\ \/ /\ installed = "None"
        /\ installed' = backup[a]
        /\ backup' = [backup EXCEPT ![a] = "None"]
        /\ Goes(a, "Resume")
     \/ /\ Gives(a, helper[a].cause, TRUE, "Discard")
        /\ UNCHANGED <<installed, backup>>
  /\ UNCHANGED <<staged, record, process, manager, asked>>

Restore(a) ==
  /\ At(a, "Restore")
  /\ \/ /\ installed = "None"
        /\ installed' = backup[a]
        /\ backup' = [backup EXCEPT ![a] = "None"]
        /\ Goes(a, "Resume")
     \/ /\ Gives(a, helper[a].cause, TRUE, "Record")
        /\ UNCHANGED <<installed, backup>>
  /\ UNCHANGED <<staged, record, process, manager, asked>>

(* The restored version is started before its failure is recorded. *)
Resume(a) ==
  /\ At(a, "Resume")
  /\ \/ /\ installed \in Usable
        /\ Started(a)
        /\ Goes(a, "Record")
     \/ /\ Gives(a, helper[a].cause, TRUE, "Record")
        /\ UNCHANGED <<process, manager, asked>>
  /\ UNCHANGED disk

RestoredFailure(a) == Failed(a, IF helper[a].lost THEN "Recovery" ELSE helper[a].cause)

RecordFailure(a) ==
  /\ At(a, "Record")
  /\ record' \in {record, RestoredFailure(a)}
  /\ Goes(a, "Done")
  /\ UNCHANGED <<installed, staged, backup, process, manager, asked>>

MarkApplied(a) ==
  /\ At(a, "MarkApplied")
  /\ \/ record' = Applied(a) /\ Goes(a, "Discard")
     \/ Goes(a, "Done") /\ UNCHANGED record
  /\ UNCHANGED <<installed, staged, backup, process, manager, asked>>

DiscardBackup(a) ==
  /\ At(a, "Discard")
  /\ \/ /\ backup' = [backup EXCEPT ![a] = "None"]
        /\ Goes(a, "Done")
     \/ /\ \E left \in {backup[a], "Partial"} : backup' = [backup EXCEPT ![a] = left]
        /\ Gives(a, "None", TRUE, "Record")
  /\ UNCHANGED <<installed, staged, record, process, manager, asked>>

Crash(a) ==
  /\ Working(a)
  /\ Goes(a, "Crashed")
  /\ UNCHANGED <<disk, process, manager, asked>>

ApplyPreparedApplication(a) ==
  /\ \/ WaitEnds(a) \/ WaitTimesOut(a) \/ SetAside(a) \/ Promote(a) \/ Relaunch(a)
     \/ Withdraw(a) \/ Restore(a) \/ Resume(a) \/ RecordFailure(a)
     \/ MarkApplied(a) \/ DiscardBackup(a)
  /\ UNCHANGED <<work, told>>

-----------------------------------------------------------------------------
Launching == LaunchByHand \/ ReadRecovery \/ RemoveRecovery \/ Quit \/ Exit
Deciding == Status \/ DeferOffer \/ AcceptOffer \/ ApproveRestart
Background == RunCheck \/ DownloadEnds \/ StageUnit \/ CompletePreparation
                \/ WriteApplying \/ StartHelper

Next == \/ Launching \/ Deciding \/ Background \/ ReportPreparation
        \/ \E a \in Attempts : \/ ApplyPreparedApplication(a)
                               \/ Crash(a) /\ UNCHANGED <<work, told>>

Spec == Init /\ [][Next]_vars

(* The check and the download are bounded by their timeouts, file operations *)
(* end; nobody has to decide, launch, quit or exit.                          *)
Fairness == /\ WF_vars(Background)
            /\ \A a \in Attempts : WF_vars(ApplyPreparedApplication(a))

FairSpec == Spec /\ Fairness

-----------------------------------------------------------------------------
(* Properties. *)

TypeOK ==
  /\ installed \in Units
  /\ staged \in [Attempts -> Units]
  /\ backup \in [Attempts -> Units]
  /\ record.attempt \in 0..MaxLaunch
  /\ process.launch \in 0..MaxLaunch
  /\ manager.revision \in 0..(8 + MaxProgress)
  /\ told \in [Attempts -> {"No", "Held", "Shown", "Illegible", "Lost"}]

(* The installation is replaced as Installation says: whatever fails, dies   *)
(* or is started meanwhile, the unit installed or one set aside can be run,  *)
(* and the backup is given up only for a unit that was started (helper.go,   *)
(* applyPreparedApplication).                                                *)
Replacement == INSTANCE Installation WITH Attempts <- Attempts,
                                         installed <- installed, backup <- backup
InstallationIsKept == Replacement!Spec

(* Only the newest release is offered, only its genuine package is staged,   *)
(* and only a unit that is apart from everything else is replaced            *)
(* (wails_updater.go, Check; staging.go, validateExtractedManifest;          *)
(* helper.go, validateHelperRequest).  The gates are pure, so they are       *)
(* looked at once, before the first launch.                                  *)
ReleasesAreTrusted ==
  process.launch = 0 =>
    VersionsAreOrdered /\ OffersAreNewest /\ GatesAgree /\ HandoverIsContained

(* What the Overseer is asked to restart into, and what the helper will put  *)
(* in place, is the complete copy this launch made, never the remains of a   *)
(* copy that failed (manager.go, completePreparation; staging.go).           *)
ReadyUnitIsComplete ==
  /\ Running /\ manager.state \in {"ReadyToRestart", "Applying"} => staged[process.launch] = "New"
  /\ \A a \in Attempts : helper[a].pc \in {"Waiting", "SetAside", "Promote"} => staged[a] = "New"

(* Nothing of the installation is touched while the application that handed  *)
(* it over still runs: its shutdown comes first (helper.go, waitForParent).  *)
ReplacementWaitsForExit ==
  \A a \in Attempts :
    Working(a) /\ process.launch = a /\ process.phase # "Off"
      => /\ helper[a].pc \in {"Waiting", "Record"}
         /\ backup[a] = "None"

(* The replacement works on whole units and on an application that has gone. *)
ReplacementIsSafe == ReadyUnitIsComplete /\ ReplacementWaitsForExit

(* When a helper records a failure after which the user is told to go on     *)
(* with this version, there is a version to start - unless an earlier        *)
(* attempt died half-way or lost it (helper.go, failedHelperRecovery).       *)
FailureLeavesAnApplication ==
  \A a \in Attempts :
    /\ At(a, "Record") /\ ~helper[a].lost
    /\ \A b \in Attempts \ {a} : ~helper[b].lost /\ helper[b].pc \in {"None", "Done"}
    => installed \in Usable

(* The news of attempt a: it did not fail, or a window was shown that it     *)
(* did, or the running launch holds that for a window which has yet to ask,  *)
(* or the record is there for the next launch.                               *)
NewsIsKept(a) ==
  \/ helper[a].pc \notin Ended
  \/ helper[a].cause = "None" /\ installed = "New"
  \/ record.attempt = a
  \/ told[a] = "Shown"
  \/ told[a] = "Held" /\ process.phase # "Off" /\ manager.state = "Failed" /\ ~asked

(* The news of an attempt that went to the helper and did not end in the new *)
(* version is kept, also when the helper died or could not write.  It is     *)
(* given up in two ways only: a launch that had removed the record ended     *)
(* before its window asked, or a launch could not read the record and wrote  *)
(* its own over it (helper.go, LaunchCopiedReplacementHelper; recovery.go).  *)
NoSilentFailure == \A a \in Attempts : NewsIsKept(a) \/ told[a] = "Lost"

(* A failed update leaves an application and the news of it.                 *)
FailuresAreTold == FailureLeavesAnApplication /\ NoSilentFailure

(* A launch's outcome stands: a late progress event never reopens a settled  *)
(* preparation, and a revision never names two snapshots (manager.go,        *)
(* reportPreparation, transitionLocked).                                     *)
OutcomeStands ==
  [][process'.launch = process.launch =>
       /\ manager.state \notin Preparing \cup {"Available"} => manager'.state \notin Preparing
       /\ manager.state \in {"Failed", "Deferred", "Current"} => manager' = manager
       /\ manager'.state # manager.state /\ process.phase # "Starting"
            => manager'.revision > manager.revision]_vars

(* specs/024-application-self-update/data-model.md: the next launch consumes *)
(* the record, and a failure becomes the initial visible update failure.     *)
(* The code removes the record when the application is composed, before any  *)
(* window can ask, so a launch that ends in between takes the news with it.  *)
EveryFailureIsShown == \A a \in Attempts : NewsIsKept(a)

(* The restored application reports what became of its update: it is never   *)
(* told, by the record it reads, that the attempt which started it was       *)
(* interrupted (specs/024-application-self-update/contracts/                 *)
(* update-release.md: record first, then relaunch).  The code relaunches     *)
(* first, so this does not hold.                                             *)
RestoredApplicationReports ==
  \A a \in Attempts :
    process.by = a /\ helper[a].cause # "None" => manager.failure # "Interrupted"

(* An accepted offer settles unless the application ends first.              *)
AcceptedOfferSettles ==
  Running /\ manager.state \in Preparing
    ~> ~Running \/ manager.state \in {"ReadyToRestart", "Failed"}

(* A helper that was started comes to its end, whether or not its parent     *)
(* exits.                                                                    *)
HelperEnds == \A a \in Attempts : At(a, "Waiting") ~> helper[a].pc \in Ended

(* Every update comes to an end, in the application and in the helper.       *)
UpdatesEnd == AcceptedOfferSettles /\ HelperEnds
=============================================================================
